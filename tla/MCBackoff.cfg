SPECIFICATION Spec
CONSTANTS
  Width = 16
  Attempts = 18
  Backoffs <- MCBackoffs
  MaxBackoff = 60
  Second = 30
  Afters = {1, 5}
CHECK_DEADLOCK FALSE
INVARIANT DoublesUpToMax
