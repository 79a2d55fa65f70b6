----------------------------- MODULE ChoresTick -----------------------------
(***************************************************************************)
(* The slots of one scheduled chore: the tick passes that find them due    *)
(* or missed, launch a runner, record a refusal or keep a slot for AC      *)
(* power, and the runners they launch, which take the admission again.     *)
(* A pass holds the tick lock, so passes exclude each other; it may die or *)
(* fail between any two of its steps, and it marks the tick only at the    *)
(* end.  The clock, the battery, runs typed by hand, runs from an arming   *)
(* and an invalid edit of the definition happen around them.               *)
(***************************************************************************)
EXTENDS CronSchedule, Sequences

CONSTANTS
  Schedules,   \* the schedules a chore may have, each with its catch_up
  Grace,       \* missed_grace_sec
  Refusing,    \* the other refusals an admission may come to
  SlowStart,   \* may the clock advance before a launched runner's admission?
  MaxNow,      \* bound: the last minute
  MaxEvents    \* bound: deaths, failed launches, vanished runners, edits,
               \* power changes, typed and asked runs, all together

ASSUME TickAssumption ==
  /\ SlowStart \in BOOLEAN
  /\ Grace \in Nat /\ MaxNow \in Nat
  /\ MaxNow <= Horizon
  /\ Refusing \subseteq {"SKIPPED_PAUSED", "SKIPPED_CEILING", "SKIPPED_OFFLINE"}
  /\ MaxEvents \in Nat

VARIABLES
  schedule,   \* the chore's schedule
  now,        \* the clock, in minutes
  battery,    \* is the machine on battery?
  valid,      \* is the chore considered: valid, enabled, all read?
  records,    \* the chore's run records, oldest first
  executing,  \* is the newest run of it still executing?
  mark,       \* the last completed tick; never before the first
  pass,       \* the pass in progress
  launched,   \* runners that have not reached their admission
  events,     \* how many of those have happened
  firstMark,  \* history: when the chore was first seen
  answered    \* history: slots a run or a refusal stands for

world == <<schedule, now, battery, valid>>
history == <<firstMark, answered>>
vars == <<world, records, executing, mark, pass, launched, events, history>>

Never == -1
Minutes == 0..MaxNow

Event == events < MaxEvents /\ events' = events + 1

-----------------------------------------------------------------------------
(* Records. *)

(* Variant: a MISSED record leaves the window where it was.                  *)
SlotConsumingRuns(r) == r.status \notin {"DEFERRED_BATTERY", "INVALID", "MISSED"}

(* Every status but these consumes a slot.                                   *)
SlotConsuming(r) == r.status \notin {"DEFERRED_BATTERY", "INVALID"}

(* Variant: a run from an arming opens the window too.                       *)
EveryRecord == DOMAIN records

(* The records that are about slots: an arming's run is an ask, never one.   *)
Cron == {i \in DOMAIN records : ~records[i].asked}

Latest == records[Newest(Cron)]
Consuming == {i \in Cron : SlotConsuming(records[i])}

WindowStart(previous) ==
  IF Consuming # {} THEN records[Newest(Consuming)].at
  ELSE IF previous # Never THEN previous ELSE now

(* Variant: any deferral on record keeps its slot.                           *)
RetainedEver == \E i \in Cron : records[i].status = "DEFERRED_BATTERY"

Retained == Cron # {} /\ Latest.status = "DEFERRED_BATTERY"

(* `slots` is what the record is about.                                      *)
Record(status, slots, asked) ==
  [status |-> status, at |-> now, slots |-> slots, asked |-> asked]

(* The slots of the window as the records and the last mark leave it.        *)
Window == SlotsBetween(schedule, WindowStart(mark), now)

Put(status, slots) ==
  records' = Append(records, Record(status, slots, FALSE))

(* A slot somebody still means to act on.                                    *)
Waiting(s) ==
  \/ pass.at \in {"missed", "admit"} /\ s \in pass.due.fire \cup pass.due.missed
  \/ \E i \in DOMAIN launched : s \in launched[i]
  \/ Retained /\ s \in Latest.slots

(* A run or a refusal recorded now stands for the slots that wait or are in  *)
(* the window.                                                               *)
Answer == answered' = answered \cup Window \cup {s \in 1..now : Waiting(s)}

-----------------------------------------------------------------------------
(* The tick pass. *)

Idle == [at |-> "idle", previous |-> Never, due |-> NothingDue,
         retained |-> FALSE]

PassGoes(there) == pass' = [pass EXCEPT !.at = there]

PassStarts ==
  /\ pass.at = "idle"
  /\ SlowStart \/ launched = <<>>
  /\ pass' = [Idle EXCEPT !.at = "consider", !.previous = mark]
  /\ UNCHANGED <<world, records, executing, mark, launched, events, history>>

(* The chore is not considered: its definition has errors, recorded INVALID  *)
(* once for each reason (a second in a row counts as an event, to bound      *)
(* them); or it is disabled, or the ledger or config.yaml does not read.     *)
PassOver ==
  /\ pass.at = "consider" /\ ~valid
  /\ \/ UNCHANGED <<records, events>>
     \/ /\ Put("INVALID", {})
        /\ IF records # <<>> /\ records[Len(records)].status = "INVALID"
             THEN Event ELSE UNCHANGED events
  /\ PassGoes("armed")
  /\ UNCHANGED <<world, executing, mark, launched, history>>

Due ==
  IF Retained THEN [fire |-> Latest.slots, missed |-> {}]
  ELSE DuePolicy(schedule, WindowStart(pass.previous), now, Grace)

Considered(next) ==
  /\ pass.at = "consider" /\ valid
  /\ pass' = [pass EXCEPT !.due = Due, !.retained = Retained, !.at = next]
  /\ UNCHANGED <<world, records, executing, mark, launched, events, history>>

(* Variant: a retained slot is left to the policy's next verdict.            *)
ConsiderUnlessRetained ==
  Considered(IF Retained THEN "armed" ELSE IF Due.missed # {} THEN "missed"
             ELSE IF Due.fire # {} THEN "admit" ELSE "armed")

(* A retained slot is due whatever the schedule says; else the policy says.  *)
Consider ==
  Considered(IF Due.missed # {} THEN "missed"
             ELSE IF Retained \/ Due.fire # {} THEN "admit" ELSE "armed")

(* One MISSED record carries the count, before the slot due is launched.     *)
RecordMissed ==
  /\ pass.at = "missed"
  /\ Put("MISSED", pass.due.missed)
  /\ PassGoes(IF pass.due.fire = {} THEN "armed" ELSE "admit")
  /\ UNCHANGED <<world, executing, mark, launched, events, history>>

Refusals == Refusing \cup (IF executing THEN {"SKIPPED_OVERLAP"} ELSE {})

PassRefuses ==
  /\ pass.at = "admit"
  /\ \/ \E status \in Refusals : Put(status, pass.due.fire) /\ Answer
     \/ /\ battery /\ ~executing
        /\ IF pass.retained THEN UNCHANGED records
                            ELSE Put("DEFERRED_BATTERY", pass.due.fire)
        /\ UNCHANGED answered
  /\ PassGoes("armed")
  /\ UNCHANGED <<world, executing, mark, launched, events, firstMark>>

PassLaunches ==
  /\ pass.at = "admit" /\ ~battery /\ ~executing
  /\ launched' = Append(launched, pass.due.fire)
  /\ PassGoes("armed")
  /\ UNCHANGED <<world, records, executing, mark, events, history>>

(* The launcher fails: a warning, and the pass goes on.                      *)
LaunchFails ==
  /\ pass.at = "admit" /\ ~battery /\ ~executing
  /\ Event
  /\ PassGoes("armed")
  /\ UNCHANGED <<world, records, executing, mark, launched, history>>

(* The armed runs follow, and then the mark.                                 *)
MarkTick ==
  /\ pass.at = "armed"
  /\ mark' = now /\ pass' = Idle
  /\ firstMark' = IF mark = Never THEN now ELSE firstMark
  /\ UNCHANGED <<world, records, executing, launched, events, answered>>

(* The pass dies, or an armed run's launch fails, which nothing catches.     *)
PassDies ==
  /\ pass.at # "idle" /\ Event
  /\ pass' = Idle
  /\ UNCHANGED <<world, records, executing, mark, launched, history>>

-----------------------------------------------------------------------------
(* The launched runner: admission and its record are one critical section.   *)
(* It reads the definition before that, so an edit in between may be seen or *)
(* not: an error ends it INVALID, an unreadable config.yaml with no record.  *)

RunnerAdmits ==
  /\ launched # <<>>
  /\ launched' = Tail(launched)
  /\ \/ \E status \in Refusals :
          Put(status, Head(launched)) /\ Answer /\ UNCHANGED executing
     \/ /\ battery /\ ~executing
        /\ Put("DEFERRED_BATTERY", Head(launched)) /\ UNCHANGED <<answered, executing>>
     \/ /\ ~battery /\ ~executing
        /\ Put("RUN", Head(launched)) /\ Answer /\ executing' = TRUE
     \/ /\ ~valid
        /\ Put("INVALID", Head(launched)) \/ UNCHANGED records
        /\ UNCHANGED <<answered, executing>>
  /\ UNCHANGED <<world, mark, pass, events, firstMark>>

RunnerVanishes ==
  /\ launched # <<>> /\ Event
  /\ launched' = Tail(launched)
  /\ UNCHANGED <<world, records, executing, mark, pass, history>>

RunEnds ==
  /\ executing /\ executing' = FALSE
  /\ UNCHANGED <<world, records, mark, pass, launched, events, history>>

-----------------------------------------------------------------------------
(* What happens around them. *)

ClockTicks ==
  /\ now < MaxNow /\ (SlowStart \/ launched = <<>>)
  /\ now' = now + 1
  /\ UNCHANGED <<schedule, battery, valid, records, executing, mark, pass, launched, events, history>>

PowerChanges ==
  /\ Event /\ battery' = ~battery
  /\ UNCHANGED <<schedule, now, valid, records, executing, mark, pass, launched, history>>

Edit ==
  /\ IF valid THEN Event ELSE UNCHANGED events
  /\ valid' = ~valid
  /\ UNCHANGED <<schedule, now, battery, records, executing, mark, pass, launched, history>>

TypedRun ==
  /\ Event /\ ~executing
  /\ Put("RUN", {}) /\ Answer /\ executing' = TRUE
  /\ UNCHANGED <<world, mark, pass, launched, firstMark>>

AskedRun ==
  /\ Event /\ ~executing
  /\ records' = Append(records, Record("RUN", {}, TRUE)) /\ executing' = TRUE
  /\ UNCHANGED <<world, mark, pass, launched, history>>

-----------------------------------------------------------------------------
Init ==
  /\ schedule \in Schedules /\ now = 0 /\ battery = FALSE /\ valid = TRUE
  /\ records = <<>> /\ executing = FALSE /\ mark = Never /\ pass = Idle
  /\ launched = <<>> /\ events = 0
  /\ firstMark = Never /\ answered = {}

PassStep ==
  \/ PassOver \/ Consider \/ RecordMissed
  \/ PassRefuses \/ PassLaunches \/ LaunchFails \/ MarkTick

Next ==
  \/ PassStarts \/ PassStep \/ PassDies
  \/ RunnerAdmits \/ RunnerVanishes \/ RunEnds
  \/ ClockTicks \/ PowerChanges \/ Edit \/ TypedRun \/ AskedRun

Spec == Init /\ [][Next]_vars

(* Fairness: the scheduler starts passes and they go on, a spawned runner    *)
(* reaches its admission, a run ends, a broken definition is repaired.       *)
FairSpec == Spec /\ WF_vars(PassStarts) /\ WF_vars(PassStep) /\ WF_vars(RunnerAdmits)
                 /\ WF_vars(RunEnds) /\ WF_vars(Edit /\ ~valid)

-----------------------------------------------------------------------------
(* Properties. *)

(* next_after with its jumps finds exactly the minutes that match, however   *)
(* the fields combine (domain/schedule.py Schedule.next_after, matches); the *)
(* schedule stays what it is, so the first states are enough to look at it.  *)
SlotsAreTheMatches ==
  records = <<>> /\ mark = Never /\ now = 0 =>
    \A start, end \in 0..Horizon :
      SlotsBetween(schedule, start, end) = {at \in (start + 1)..end : Matches(schedule, at)}

(* A slot the window has moved past that no record reports or stands for.    *)
ReportedMissed(s) ==
  \E i \in DOMAIN records : records[i].status = "MISSED" /\ s \in records[i].slots
Lost(s) ==
  /\ firstMark # Never /\ firstMark < s /\ s <= WindowStart(mark)
  /\ Matches(schedule, s)
  /\ ~Waiting(s) /\ ~ReportedMissed(s) /\ s \notin answered

(* A slot since first sight that was run, refused or reported MISSED, or     *)
(* still will be, is lost in two ways only: behind a MISSED record, which    *)
(* opens the window past the slot due beside it and past any that comes      *)
(* between the verdict and the record; or behind the tick's mark, while the  *)
(* chore has no record that consumes a slot (tick.py:257-353, 485-489).      *)
BehindMissed(s) ==
  \E i \in Consuming : /\ records[i].status = "MISSED" /\ s <= records[i].at
                       /\ \A j \in Consuming : j < i => records[j].at < s
LostOnlyTwoWays ==
  [][\A s \in Minutes : Lost(s)' /\ ~Lost(s) => BehindMissed(s)' \/ Consuming = {}]_vars

(* CHORES.DESIGN.md:192: a chore first seen "fires at its next slot"; no     *)
(* slot after that is ever passed over without a record of it.               *)
NoSlotIsLost == \A s \in Minutes : ~Lost(s)

(* A slot is launched into a run at most once while a launched runner        *)
(* reaches its admission before the next pass (tick.py:316-360).             *)
OneRunPerSlot ==
  \A i, j \in DOMAIN records :
    i # j /\ records[i].status = "RUN" /\ records[j].status = "RUN" =>
      records[i].slots \cap records[j].slots = {}

(* Missed is recorded once and not replayed: a slot counted in a MISSED      *)
(* record is in no other one, and without catch_up no run is launched for it *)
(* (CHORES.DESIGN.md:36-38, 194).                                            *)
MissedIsNotReplayed ==
  \A i, j \in DOMAIN records :
    /\ i # j /\ records[i].status = "MISSED"
    /\ records[j].status \in {"MISSED"} \cup (IF schedule.catchUp THEN {} ELSE {"RUN"})
    => records[i].slots \cap records[j].slots = {}

(* Every slot gets its answer once the machine stays on AC power: passes     *)
(* that die, launches that fail, runners that vanish and deferrals do not    *)
(* keep one waiting for ever (tick.py:441-443, CHORES.DESIGN.md:195).        *)
Settled(s) == s \in answered \/ ReportedMissed(s) \/ Lost(s)
EverySlotIsAnswered ==
  <>[]~battery =>
    []<>(\A s \in 1..now : Matches(schedule, s) /\ firstMark \in 0..(s - 1) => Settled(s))
=============================================================================
