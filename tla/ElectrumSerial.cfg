SPECIFICATION Spec
CONSTANTS
  main = main
  test = test
  t1 = t1
  r1 = r1
  r2 = r2
  r3 = r3
  r4 = r4
  k1 = k1
  k2 = k2
  Networks = {main, test}
  Servers = {m1, m2, t1}
  NetOf <- MCNetOf
  Rotations = {r1, r2, r3, r4}
  Switches = {k1, k2}
  Kinds = {"network", "account"}
  None = None
  MaxFaults = 2
  Overlap = FALSE
  StartupOverlap = FALSE
  RollbackProbeFails = FALSE
INVARIANTS
  StatusIsTruthful
  ConnectionServesPreferences
  NeverStranded
CHECK_DEADLOCK FALSE
