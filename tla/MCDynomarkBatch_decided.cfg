SPECIFICATION FairSpec

CONSTANTS
  Deaths = 1
  Losses = 0
  Skips = 1
  Fails = 0
  Busies = 0
  Rejects = 0
  Watches = 1
  MaxBatch = 2
  MaxPlaced = 2
  LastOp = 2
  Faults <- MCFaults

INVARIANTS
  AppliedIsExact
  ArchiveIsPreBatch

PROPERTIES
  ImplementsLedger
  EveryBatchIsDecided

CHECK_DEADLOCK FALSE
