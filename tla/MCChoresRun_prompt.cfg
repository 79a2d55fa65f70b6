SPECIFICATION Spec

CONSTANTS
  r1 = r1
  r2 = r2
  Runs = {r1, r2}
  Kind = "PROMPT"
  Forced = {}
  Outcomes = {"SUCCEEDED", "FAILED"}
  Objecting = {"DISABLED"}
  Threshold = 2
  MaxCrashes = 0
  PsFaults = TRUE
  SlowStart = TRUE
  Operator = {"kill", "pause", "resume"}

INVARIANTS
  ChargedOnce
  LedgerAgrees

SYMMETRY RunSymmetry

CHECK_DEADLOCK FALSE
