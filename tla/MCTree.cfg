SPECIFICATION Spec
CONSTANTS
  Slices <- MCSlices
  Dashed = {"a-bs"}
  Digits = {"9s"}
  Shapes = {"ssr", "spa", "api"}
  Names <- MCNames
  Styles = {"vega"}
  MaxRuns = 4
  MaxEdits = 1
  MaxBreaks = 1
CHECK_DEADLOCK FALSE
INVARIANTS
  CheckAfterGenerate
  RefusedLeavesNoMark
  SliceIsWhole
  UIConverges
PROPERTY PersonKeeps
