SPECIFICATION Spec

CONSTANTS
  r1 = r1
  r2 = r2
  Runs = {r1, r2}
  Kind = "COMMAND"
  Forced = {}
  Outcomes = {"FAILED"}
  Objecting = {}
  Threshold = 2
  MaxCrashes = 1
  PsFaults = FALSE
  SlowStart = FALSE
  Operator = {"kill"}

INVARIANTS
  ChargedOnce
  NoOverlap
  BreakerDoesNotMiss
  ChildKillIsRecorded

PROPERTIES
  SettledIsFinal
  KeepsPromise

SYMMETRY RunSymmetry

CHECK_DEADLOCK FALSE
