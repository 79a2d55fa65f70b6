SPECIFICATION FairSpec

CONSTANTS
  HourSize = 3
  DaySize = 2
  WeekSize = 2
  MonthSize = 2
  Horizon = 24
  Schedules <- MCSchedules
  Grace = 1
  Refusing = {"SKIPPED_PAUSED"}
  SlowStart = FALSE
  MaxNow = 3
  MaxEvents = 2

INVARIANTS
  SlotsAreTheMatches
  OneRunPerSlot
  MissedIsNotReplayed

PROPERTIES
  LostOnlyTwoWays
  EverySlotIsAnswered

CHECK_DEADLOCK FALSE
