---------------------------- MODULE MCChoresTick ----------------------------
(***************************************************************************)
(* Instances of ChoresTick for TLC: hours of three minutes, days of two    *)
(* hours, weeks and months of two days.                                    *)
(***************************************************************************)
EXTENDS ChoresTick

Cron5(minutes, hours, dom, months, dow, domRestricted, dowRestricted, catchUp) ==
  [minutes |-> minutes, hours |-> hours, daysOfMonth |-> dom, months |-> months,
   daysOfWeek |-> dow, domRestricted |-> domRestricted, dowRestricted |-> dowRestricted,
   catchUp |-> catchUp]

(* "1,2 * * * *"; "1 * * * *" with catch_up; "0 1 * * *"; "0 * 2 * 0".       *)
Often == Cron5({1, 2}, {0, 1}, {0, 1}, 0..9, {0, 1}, FALSE, FALSE, FALSE)
Hourly == Cron5({1}, {0, 1}, {0, 1}, 0..9, {0, 1}, FALSE, FALSE, TRUE)
Evening == Cron5({0}, {1}, {0, 1}, 0..9, {0, 1}, FALSE, FALSE, FALSE)
AnyDay == Cron5({0}, {0, 1}, {1}, 0..9, {0}, TRUE, TRUE, FALSE)
MCSchedules == {Often, Hourly, Evening, AnyDay}
=============================================================================
