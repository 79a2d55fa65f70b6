SPECIFICATION FairSpec
CONSTANTS
  Nodes = {n1, n2}
  First = n1
  MaxAttempts = 2
  MaxBatch = 3
  Faults = {"error", "crash", "retry", "move", "edit", "conflict", "bad", "big", "age"}
  MaxFaults = 2
  Starts <- MCStarts
  Targets = {"graveyard"}
INVARIANTS OfferMatchesJob FiledMeansFiled SettledIsTold
PROPERTIES NoSecondFiling EveryJobSettles
CHECK_DEADLOCK FALSE
