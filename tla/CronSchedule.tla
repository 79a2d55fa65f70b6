---------------------------- MODULE CronSchedule ----------------------------
(***************************************************************************)
(* The slots of a five-field cron schedule (domain/schedule.py) and the    *)
(* policy that decides which of them is due.  Time is a number of minutes  *)
(* of the local wall clock; the calendar's sizes are constants.            *)
(***************************************************************************)
EXTENDS Integers, FiniteSets

CONSTANTS
  HourSize,    \* minutes in an hour
  DaySize,     \* hours in a day
  WeekSize,    \* days in a week
  MonthSize,   \* days in a month
  Horizon      \* bound: minutes next_after looks ahead

ASSUME CalendarAssumption ==
  \A n \in {HourSize, DaySize, WeekSize, MonthSize, Horizon} : n \in Nat \ {0}

Minute(at) == at % HourSize
Hour(at) == (at \div HourSize) % DaySize
Day(at) == at \div (HourSize * DaySize)
Month(at) == Day(at) \div MonthSize

DayMatches(s, at) ==
  LET domOk == Day(at) % MonthSize \in s.daysOfMonth
      dowOk == Day(at) % WeekSize \in s.daysOfWeek
  IN  IF s.domRestricted /\ s.dowRestricted THEN domOk \/ dowOk ELSE domOk /\ dowOk

Matches(s, at) ==
  /\ Minute(at) \in s.minutes /\ Hour(at) \in s.hours
  /\ Month(at) \in s.months /\ DayMatches(s, at)

NextDay(at) == (Day(at) + 1) * HourSize * DaySize
(* Variant: the jump to the next hour keeps the minute.                      *)
NextHourSameMinute(at) == at + HourSize
NextHour(at) == (at \div HourSize + 1) * HourSize

(* The first slot strictly after `at`, by jumps over days and hours that     *)
(* hold none; past the horizon where there is none.                          *)
NextAfter(s, at) ==
  LET end == at + 1 + Horizon
      seek[c \in (at + 1)..(end + 2 * HourSize * DaySize)] ==
        IF c >= end THEN end
        ELSE IF Month(c) \notin s.months \/ ~DayMatches(s, c) THEN seek[NextDay(c)]
        ELSE IF Hour(c) \notin s.hours THEN seek[NextHour(c)]
        ELSE IF Minute(c) \in s.minutes THEN c
        ELSE seek[c + 1]
  IN  seek[at + 1]

SlotsBetween(s, start, end) ==
  LET collect[from \in start..end] ==
        LET next == NextAfter(s, from)
        IN  IF next > end THEN {} ELSE {next} \cup collect[next]
  IN  IF start > end THEN {} ELSE collect[start]

Newest(slots) == CHOOSE n \in slots : \A m \in slots : m <= n

NothingDue == [fire |-> {}, missed |-> {}]

(* due_policy: the newest slot fires while it is within the grace, or when a *)
(* stale set is caught up on; every stale slot is missed.                    *)
DuePolicy(s, windowStart, now, grace) ==
  LET slots == SlotsBetween(s, windowStart, now)
      newest == {Newest(slots)}
  IN  IF slots = {} THEN NothingDue
      ELSE IF now - Newest(slots) <= grace THEN [fire |-> newest, missed |-> slots \ newest]
      ELSE [fire |-> IF s.catchUp THEN newest ELSE {}, missed |-> slots]
=============================================================================
