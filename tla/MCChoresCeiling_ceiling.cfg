SPECIFICATION Spec

CONSTANTS
  r1 = r1
  r2 = r2
  r3 = r3
  r4 = r4
  Runs = {r1, r2, r3, r4}
  Due = {r3, r4}
  Armed = {}
  Budget = 2
  Cap = 4
  Spends = {1, 2}
  Hasty = TRUE
  MaxCrashes = 1

INVARIANTS
  CeilingHolds
  CountsEveryRunOnce
  Accounted
  TickCountsOnce

SYMMETRY LaunchedSymmetry

CHECK_DEADLOCK FALSE
