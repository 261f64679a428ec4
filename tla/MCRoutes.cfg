SPECIFICATION Spec
CONSTANTS
  Lits <- MCLits
  Wild = "{w}"
  Verbs <- MCVerbs
  Mws <- MCMws
  Groups <- MCGroups
  Calls <- MCCalls
  Lists <- MCLists
  MaxSegs = 3
  MaxCalls = 2
  MaxUse = 1
  MaxDepth = 1
CHECK_DEADLOCK FALSE
INVARIANTS
  EveryCallServed
  MountsAreReached
  ModulesAgree
