SPECIFICATION FairSpec

CONSTANTS
  Deaths = 0
  Losses = 0
  Skips = 0
  Fails = 0
  Busies = 1
  Rejects = 0
  Watches = 0
  MaxBatch = 2
  MaxPlaced = 2
  LastOp = 2
  Faults <- MCFaults

PROPERTIES
  EveryBatchIsDecided

CHECK_DEADLOCK FALSE
