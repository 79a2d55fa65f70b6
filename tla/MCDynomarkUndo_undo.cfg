SPECIFICATION Spec

CONSTANTS
  Trees <- MCTrees
  Plans <- MCPlans
  Names <- MCNames
  Titles = {"A", "B"}
  MaxBatches = 3
  MaxEdits = 1
  MaxFaults = 1

INVARIANTS
  TypeOK
  UndoRestores
  UndoIsHonest
  InverseStaysInside

PROPERTIES
  NothingBuried

CHECK_DEADLOCK FALSE
