SPECIFICATION FairSpec

CONSTANTS
  a1 = a1
  a2 = a2
  p1 = p1
  p2 = p2
  Asks = {a1, a2}
  Runners = {p1}
  Refusing = {"SKIPPED_CEILING"}
  Battery = TRUE
  MaxEdits = 1
  MaxCrashes = 1

INVARIANTS
  OneArming
  UsedOnce

PROPERTIES
  EndIsFinal
  NoneStaysArmed


CHECK_DEADLOCK FALSE
