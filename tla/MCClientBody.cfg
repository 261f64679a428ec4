SPECIFICATION ClientSpec
CONSTANTS
  Callers = {c1, c2}
  Threshold = 2
  Cooldown = 1
  Attempts = 2
  c1 = c1
  c2 = c2
INVARIANT AnswerIsDecoded
