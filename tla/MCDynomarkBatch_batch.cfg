SPECIFICATION Spec

CONSTANTS
  Deaths = 0
  Losses = 1
  Skips = 0
  Fails = 1
  Busies = 1
  Rejects = 1
  Watches = 0
  MaxBatch = 2
  MaxPlaced = 1
  LastOp = 2
  Faults <- MCFaults

INVARIANTS
  UndoTreeIsCurrent

PROPERTIES
  ImplementsLedger

CHECK_DEADLOCK FALSE
