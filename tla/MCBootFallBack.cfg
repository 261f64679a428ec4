SPECIFICATION Spec
CONSTANTS
  Procs = {p, q}
  Surroundings <- MCSurroundings
  Databases = {"A", "B"}
  Nesting = 3
  MaxStops = 1
  MaxRuns = 2
SYMMETRY Symmetry
CHECK_DEADLOCK FALSE
INVARIANTS
  NoModuleReadsDirectory
