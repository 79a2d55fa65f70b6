SPECIFICATION FairSpec
CONSTANTS
  Nodes = {n1, n2}
  First = n1
  MaxAttempts = 2
  MaxBatch = 2
  Faults = {"edit", "age"}
  MaxFaults = 2
  Starts <- MCStarts
  Targets = {}
INVARIANTS NothingMissing
CHECK_DEADLOCK FALSE
