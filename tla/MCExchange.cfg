SPECIFICATION ExchangeSpec
CONSTANTS
  GoTypes <- MCGoTypes
  Routes <- MCRoutes
  Built <- MCBuilt
  Interfaces <- MCInterfaces
  RequestsOf <- MCRequestsOf
  ArgsOf <- MCArgsOf
  WalkOf <- WalkTypes
CHECK_DEADLOCK FALSE
INVARIANTS
  HandlerMeetsTheBounds
  EveryAnswerDescribed
  SchemaIsTheAnswer
  
