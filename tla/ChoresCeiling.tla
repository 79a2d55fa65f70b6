--------------------------- MODULE ChoresCeiling ---------------------------
(***************************************************************************)
(* Prompt runs of different chores against one ceiling. A member of Runs   *)
(* is the one run its chore makes. The ceiling is the global one, in       *)
(* tokens, the dimension every ceiling-bound run spends in; every budget   *)
(* declares it, and nothing leaves the rolling window while the model      *)
(* runs. Runners read the ledger, then the records, decide and write their *)
(* PENDING record under the store-wide admission lock; the tick pass makes *)
(* the same decision for the runs it launches, without that lock.          *)
(***************************************************************************)
EXTENDS ChoresStatus, Naturals, Sequences, FiniteSets, Functions

CONSTANTS
  Runs,        \* the runs, each of a chore of its own
  Due,         \* those the tick launches; the others are typed
  Armed,       \* those of Due that start from an ARMED record
  Budget,      \* the tokens every chore declares
  Cap,         \* the tokens of the global ceiling
  Spends,      \* what one run may come to spend
  Hasty,       \* may the tick close a run whose runner is still at work?
  MaxCrashes   \* bound: runners killed before they recorded their end

ASSUME CeilingAssumption ==
  /\ IsFiniteSet(Runs)
  /\ Armed \subseteq Due
  /\ Due \subseteq Runs
  /\ Budget \in Nat
  /\ Cap \in Nat
  /\ Spends \subseteq Nat
  /\ Hasty \in BOOLEAN
  /\ MaxCrashes \in Nat

Nobody == "nobody"

ASSUME NobodyAssumption == Nobody \notin Runs

VARIABLES
  pc,          \* where each runner is
  status,      \* the run record's status
  usage,       \* the usage the record carries, 0 while it carries none
  spent,       \* what the provider has really charged each run
  rows,        \* the ledger: per run, the tokens of its rows
  admission,   \* who holds the store-wide admission lock
  window,      \* the ledger rows as that runner read them
  tickPc,      \* where the tick pass is
  considered,  \* the run the pass is deciding about
  tickWindow,  \* the ledger rows as the tick read them
  launched,    \* runs this pass has launched
  known,       \* those of them that had a record when launched
  closing,     \* the run the tick is closing, under its chore's lock
  crashes      \* runners killed so far

record == <<status, usage>>
pass == <<tickPc, considered, tickWindow, launched, known>>
vars == <<pc, record, spent, rows, admission, window, pass, closing, crashes>>

-----------------------------------------------------------------------------
(* What counts against the ceiling.                                        *)

Unfinished(r) == status[r] \in {"PENDING", "RUNNING"}

(* Variant: a run holds its budget only once it executes.                  *)
HeldWhenRunning(r, read) ==
  IF status[r] = "RUNNING" THEN Budget
  ELSE IF read[r] # <<>> THEN 0 ELSE usage[r]

(* Variant: a finished run is left to its ledger row.                      *)
HeldUnfinished(r, read) == IF Unfinished(r) THEN Budget ELSE 0

(* What one record holds beyond the ledger rows that were read.            *)
Held(r, read) ==
  IF Unfinished(r) THEN Budget ELSE IF read[r] # <<>> THEN 0 ELSE usage[r]

Ledgered(r, read) == SumFunction(read[r])

Counted(read, reserved) ==
  SumFunction([r \in Runs |-> Ledgered(r, read) + Held(r, read)
                              + (IF r \in reserved THEN Budget ELSE 0)])

(* ceiling_policy: spent plus declared must not cross the cap.             *)
Fits(read, reserved) == Counted(read, reserved) + Budget <= Cap

(* A launch reserves until its chore shows a run id it did not have then.  *)
Visible(r) == status[r] # Absent /\ r \notin known

(* Variant: a launch reserves to the end of the pass.                      *)
ReservedThroughout == launched

Reserved == {r \in launched : ~Visible(r)}

NoRows == [r \in Runs |-> <<>>]

Goto(r, there) == pc' = [pc EXCEPT ![r] = there]

AppendLedger(r, tokens) == rows' = [rows EXCEPT ![r] = Append(@, tokens)]

-----------------------------------------------------------------------------
Init ==
  /\ pc = [r \in Runs |-> IF r \in Due THEN "due" ELSE "enter"]
  /\ status = [r \in Runs |-> IF r \in Armed THEN "ARMED" ELSE Absent]
  /\ usage = [r \in Runs |-> 0]
  /\ spent = [r \in Runs |-> 0]
  /\ rows = NoRows
  /\ admission = Nobody
  /\ window = NoRows
  /\ tickPc = "idle"
  /\ considered = Nobody
  /\ tickWindow = NoRows
  /\ launched = {}
  /\ known = {}
  /\ closing = Nobody
  /\ crashes = 0

-----------------------------------------------------------------------------
(* The runner: admission, under the admission lock.                        *)

Enter(r) ==
  /\ pc[r] = "enter"
  /\ admission = Nobody
  /\ admission' = r
  /\ Goto(r, "ledger")
  /\ UNCHANGED <<record, spent, rows, window, pass, closing, crashes>>

ReadLedger(r) ==
  /\ pc[r] = "ledger"
  /\ window' = rows
  /\ Goto(r, "records")
  /\ UNCHANGED <<record, spent, rows, admission, pass, closing, crashes>>

(* The records are read and the decision follows from them. A refused      *)
(* armed run ends its arming; any other leaves a refusal of its own. The   *)
(* row of either carries no usage.                                         *)
Decide(r) ==
  /\ pc[r] = "records"
  /\ \/ /\ Fits(window, {})
        /\ Goto(r, "pend")
        /\ UNCHANGED <<status, rows, admission>>
     \/ /\ ~Fits(window, {})
        /\ status' = [status EXCEPT ![r] = "SKIPPED_CEILING"]
        /\ AppendLedger(r, 0)
        /\ admission' = Nobody
        /\ Goto(r, "done")
  /\ window' = NoRows
  /\ UNCHANGED <<usage, spent, pass, closing, crashes>>

(* A new record, or the ARMED one adopted.                                 *)
WritePending(r) ==
  /\ pc[r] = "pend"
  /\ status' = [status EXCEPT ![r] = "PENDING"]
  /\ admission' = Nobody
  /\ Goto(r, "start")
  /\ UNCHANGED <<usage, spent, rows, window, pass, closing, crashes>>

-----------------------------------------------------------------------------
(* The runner: execution and _finish.                                      *)

(* on_start: a run the tick closed first is lost and spends nothing.       *)
Start(r) ==
  /\ pc[r] = "start"
  /\ \/ /\ status[r] = "PENDING"
        /\ status' = [status EXCEPT ![r] = "RUNNING"]
        /\ Goto(r, "exec")
     \/ /\ status[r] # "PENDING"
        /\ Goto(r, "done")
        /\ UNCHANGED status
  /\ UNCHANGED <<usage, spent, rows, admission, window, pass, closing, crashes>>

(* The completion: its max_output_tokens is the declared budget, but what  *)
(* a run spends is the prompt's tokens and the answer's together.          *)
Complete(r) ==
  /\ pc[r] = "exec"
  /\ \E tokens \in Spends : spent' = [spent EXCEPT ![r] = tokens]
  /\ Goto(r, "finish")
  /\ UNCHANGED <<record, rows, admission, window, pass, closing, crashes>>

Finished(r) ==
  /\ status' = [status EXCEPT ![r] = "SUCCEEDED"]
  /\ usage' = [usage EXCEPT ![r] = spent[r]]

(* Variant: a runner that lost the finish race gives its usage up.         *)
FinishOrGiveUp(r) ==
  /\ pc[r] = "finish"
  /\ \/ status[r] = "RUNNING" /\ Finished(r) /\ Goto(r, "row")
     \/ status[r] # "RUNNING" /\ Goto(r, "done") /\ UNCHANGED record
  /\ UNCHANGED <<spent, rows, admission, window, pass, closing, crashes>>

(* The terminal record by check-and-set. Which true outcome it is makes no *)
(* difference here; SUCCEEDED stands for all of them.                      *)
Finish(r) ==
  /\ pc[r] = "finish"
  /\ \/ status[r] = "RUNNING" /\ Finished(r) /\ Goto(r, "row")
     \/ status[r] # "RUNNING" /\ Goto(r, "amend") /\ UNCHANGED record
  /\ UNCHANGED <<spent, rows, admission, window, pass, closing, crashes>>

FinishRow(r) ==
  /\ pc[r] = "row"
  /\ AppendLedger(r, spent[r])
  /\ Goto(r, "done")
  /\ UNCHANGED <<record, spent, admission, window, pass, closing, crashes>>

(* The tick closed the run: once it has let the chore's lock go, the real  *)
(* row is appended, and then the record is put right.                      *)
AmendRow(r) ==
  /\ pc[r] = "amend"
  /\ closing # r
  /\ AppendLedger(r, spent[r])
  /\ Goto(r, "amended")
  /\ UNCHANGED <<record, spent, admission, window, pass, closing, crashes>>

AmendSet(r) ==
  /\ pc[r] = "amended"
  /\ Finished(r)
  /\ Goto(r, "done")
  /\ UNCHANGED <<spent, rows, admission, window, pass, closing, crashes>>

(* A runner killed after its admission, whether its run has spent or not.  *)
Die(r) ==
  /\ pc[r] \in {"start", "exec", "finish", "row", "amend", "amended"}
  /\ crashes < MaxCrashes
  /\ crashes' = crashes + 1
  /\ Goto(r, "dead")
  /\ UNCHANGED <<record, spent, rows, admission, window, pass, closing>>

-----------------------------------------------------------------------------
(* The tick.                                                               *)

(* An unfinished run whose process does not answer, or whose PENDING is    *)
(* stale, is closed; its row follows under the same chore lock.            *)
TickClose(r) ==
  /\ tickPc = "idle"
  /\ closing = Nobody
  /\ Unfinished(r)
  /\ Hasty \/ pc[r] = "dead"
  /\ status' = [status EXCEPT ![r] = "INTERRUPTED"]
  /\ closing' = r
  /\ UNCHANGED <<pc, usage, spent, rows, admission, window, pass, crashes>>

TickCloseRow ==
  /\ closing # Nobody
  /\ AppendLedger(closing, 0)
  /\ closing' = Nobody
  /\ UNCHANGED <<pc, record, spent, admission, window, pass, crashes>>

TickStart ==
  /\ tickPc = "idle"
  /\ closing = Nobody
  /\ \E r \in Due : pc[r] = "due"
  /\ tickPc' = "pass"
  /\ UNCHANGED <<pc, record, spent, rows, admission, window, considered,
                 tickWindow, launched, known, closing, crashes>>

(* _consider or _fire_armed reaches a run that is due: admit reads the     *)
(* ledger first.                                                           *)
TickReadLedger(r) ==
  /\ tickPc = "pass"
  /\ pc[r] = "due"
  /\ considered' = r
  /\ tickWindow' = rows
  /\ tickPc' = "decide"
  /\ UNCHANGED <<pc, record, spent, rows, admission, window, launched, known,
                 closing, crashes>>

(* A run that fits is launched and reserved for the rest of the pass; one  *)
(* that does not leaves its refusal, and its row.                          *)
TickDecide(r) ==
  /\ tickPc = "decide"
  /\ considered = r
  /\ \/ /\ Fits(tickWindow, Reserved)
        /\ Goto(r, "enter")
        /\ launched' = launched \cup {r}
        /\ known' = known \cup {k \in {r} : status[k] # Absent}
        /\ UNCHANGED <<status, rows>>
     \/ /\ ~Fits(tickWindow, Reserved)
        /\ status' = [status EXCEPT ![r] = "SKIPPED_CEILING"]
        /\ AppendLedger(r, 0)
        /\ Goto(r, "done")
        /\ UNCHANGED <<launched, known>>
  /\ considered' = Nobody
  /\ tickWindow' = NoRows
  /\ tickPc' = "pass"
  /\ UNCHANGED <<usage, spent, admission, window, closing, crashes>>

TickEnd ==
  /\ tickPc = "pass"
  /\ tickPc' = "idle"
  /\ launched' = {}
  /\ known' = {}
  /\ UNCHANGED <<pc, record, spent, rows, admission, window, considered,
                 tickWindow, closing, crashes>>

-----------------------------------------------------------------------------
Runner(r) ==
  \/ Enter(r) \/ ReadLedger(r) \/ Decide(r) \/ WritePending(r)
  \/ Start(r) \/ Complete(r) \/ Finish(r) \/ FinishRow(r)
  \/ AmendRow(r) \/ AmendSet(r)

TickPass ==
  \/ TickStart
  \/ \E r \in Runs : TickReadLedger(r) \/ TickDecide(r)
  \/ TickEnd

Next ==
  \/ \E r \in Runs : Runner(r) \/ Die(r) \/ TickClose(r)
  \/ TickCloseRow
  \/ TickPass

Spec == Init /\ [][Next]_vars

-----------------------------------------------------------------------------
(* Properties.                                                             *)

Total(of) == SumFunction(of)

(* Every variable stays in its domain, and the admission lock is held by   *)
(* exactly the runner between entering its admission and leaving it        *)
(* (run.py: the ExitStack of run_chore).                                   *)
TypeOK ==
  /\ pc \in [Runs -> {"due", "enter", "ledger", "records", "pend", "start",
                      "exec", "finish", "row", "amend", "amended", "done", "dead"}]
  /\ status \in [Runs -> RunStatus \cup {Absent}]
  /\ usage \in [Runs -> Nat]
  /\ spent \in [Runs -> Nat]
  /\ \A w \in {rows, window, tickWindow} : w \in [Runs -> Seq(Nat)]
  /\ admission \in Runs \cup {Nobody}
  /\ {r \in Runs : pc[r] \in {"ledger", "records", "pend"}} = {admission} \ {Nobody}
  /\ tickPc \in {"idle", "pass", "decide"}
  /\ considered \in Due \cup {Nobody}
  /\ known \subseteq launched
  /\ launched \subseteq Due
  /\ closing \in Runs \cup {Nobody}
  /\ crashes \in 0 .. MaxCrashes

NoneClosed == \A r \in Runs : status[r] # "INTERRUPTED" /\ Len(rows[r]) <= 1

(* As long as the tick has closed no run, runs that never spend more than  *)
(* they declare never cross the ceiling together, whatever runs are typed  *)
(* and launched side by side, however their finishes fall between the      *)
(* reads of an admission, and whoever dies (run.py:587-707,                *)
(* context.py:234-253).                                                    *)
CeilingHolds == NoneClosed => Total(spent) <= Cap

(* An admission that decides counts every run once: an unfinished one by   *)
(* its declared budget, a finished one by its usage, be it from its row,   *)
(* which the admission read first, or from its record, read afterwards     *)
(* (context.py:232-235). A closed run counts for nothing until its runner  *)
(* has put its row in.                                                     *)
CountsEveryRunOnce ==
  \A r \in Runs : pc[r] = "records" /\ NoneClosed =>
    Counted(window, {})
      = Total([x \in Runs |-> IF Unfinished(x) THEN Budget ELSE usage[x]])

(* What a run that ended in its own runner has spent is in the ledger      *)
(* exactly once, also when the tick took the runner for dead and booked    *)
(* the run INTERRUPTED with nothing (run.py:467-499, tick.py:161-176).     *)
Accounted ==
  \A r \in Runs : pc[r] = "done" => Ledgered(r, rows) = spent[r]

(* Within a tick pass every launched run weighs once, neither twice nor    *)
(* not at all: by the launch's own reservation until it has a record, by   *)
(* that record's declared budget until it ends, by its row or its record   *)
(* from then on, whichever the pass has read (context.py:150-176).         *)
TickCountsOnce ==
  \A r \in launched : tickPc = "decide" =>
    Ledgered(r, tickWindow) + Held(r, tickWindow) + (IF r \in Reserved THEN Budget ELSE 0)
      = IF status[r] \in {Absent, "ARMED"} \/ Unfinished(r) THEN Budget ELSE usage[r]

(* CHORES.DESIGN.md:42: "For prompt runs no ceiling is exceeded by more    *)
(* than one admitted run's declared budget."                               *)
CeilingWithinOne == Total(spent) <= Cap + Budget
=============================================================================
