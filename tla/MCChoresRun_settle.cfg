SPECIFICATION FairSpec

CONSTANTS
  r1 = r1
  r2 = r2
  Runs = {r1, r2}
  Kind = "COMMAND"
  Forced = {}
  Outcomes = {"FAILED"}
  Objecting = {}
  Threshold = 2
  MaxCrashes = 1
  PsFaults = FALSE
  SlowStart = TRUE
  Operator = {}

INVARIANTS
  LostChildIsSignalled

PROPERTIES
  EveryRunSettles
  TrueOutcomeWins

CHECK_DEADLOCK FALSE
