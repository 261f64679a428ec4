SPECIFICATION FairSpec
CONSTANTS
  N = 2
  Checks = {c1, c2}
  MigrateOnBoot = TRUE
  Requests = {a, b, p}
  Probes = {p}
  c1 = c1
  c2 = c2
  a = a
  b = b
  p = p
INVARIANTS
  NoLostWakeup
  CutOnlyAfterGrace
  ComponentsOutliveClients
  Accounted
  DoorsInOrder
PROPERTIES
  RefinesLifecycle
  ShutdownEnds
  DrainEnds
