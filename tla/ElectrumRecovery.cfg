SPECIFICATION Spec
CONSTANTS
  main = main
  test = test
  t1 = t1
  r1 = r1
  r2 = r2
  r3 = r3
  r4 = r4
  k1 = k1
  k2 = k2
  Networks = {main, test}
  Servers = {m1, t1}
  NetOf <- MCNetOf
  Rotations = {r1, r2, r3, r4}
  Switches = {k1, k2}
  Kinds = {"network"}
  None = None
  MaxFaults = 1
  Overlap = TRUE
  StartupOverlap = TRUE
  RollbackProbeFails = TRUE
PROPERTIES
  EventuallyConnected
CHECK_DEADLOCK FALSE
