------------------------------ MODULE ChoresRun ------------------------------
(***************************************************************************)
(* The life of the runs of one chore: every `chores run' process (one per  *)
(* member of Runs, which is also the id it mints), the tick that closes    *)
(* runs whose process is gone, and the operator who kills and pauses.      *)
(*                                                                         *)
(* They share the run store and nothing else: one record per run, changed  *)
(* by check-and-set; the append-only ledger; the chore's lock; the kill    *)
(* markers; the pause sentries; the notification queue. Every separate     *)
(* read or write of the store is a step of its own, so a crash or another  *)
(* process can fall between any two.                                       *)
(***************************************************************************)
EXTENDS ChoresPolicies

CONSTANTS
  Runs,        \* the `chores run' processes, and their run ids
  Kind,        \* the chore's kind: "COMMAND", "AGENT" or "PROMPT"
  Forced,      \* the runs started with --force
  Outcomes,    \* the statuses an execution can come to by itself
  Objecting,   \* the objections (ceiling, network, battery) the host may raise
  Threshold,   \* config failure_threshold
  MaxCrashes,  \* bound: processes that die between two steps
  PsFaults,    \* may `ps' fail, so that a live process is not vouched for?
  SlowStart,   \* may a live runner stay PENDING longer than a tick interval?
  Operator     \* what the operator does: subset of {"kill", "pause", "resume"}

ASSUME RunsAssumption ==
  /\ Kind \in {"COMMAND", "AGENT", "PROMPT"}
  /\ Forced \subseteq Runs
  /\ Outcomes \subseteq TrueOutcomes \ {"KILLED"}
  /\ Objecting \subseteq Objections \ {"SKIPPED_PAUSED", "SKIPPED_OVERLAP"}
  /\ Threshold \in Nat \ {0}
  /\ MaxCrashes \in Nat
  /\ PsFaults \in BOOLEAN
  /\ SlowStart \in BOOLEAN

NobodyHolds == "nobody"
Tick == "tick"

ASSUME ActorsAssumption == Tick \notin Runs /\ NobodyHolds \notin Runs

VARIABLES
  pc,        \* where each runner is
  verdict,   \* what a runner is about to record
  status,    \* the run record's status on disk
  order,     \* run ids in the order of their records' `started'
  young,     \* runs admitted within the last tick interval
  child,     \* the process a run spawned: "none", "live" or "gone"
  termed,    \* runs whose process group was sent SIGTERM
  marker,    \* runs with a KILL file
  rows,      \* the ledger, per run: statuses in the order of their rows
  lock,      \* who holds the chore's lock
  sentry,    \* the chore's pause sentry: "none", "breaker" or "operator"
  paused,    \* the global PAUSED sentry
  posts,     \* breaker notifications, with the process that posted each
  tickPc,    \* where the tick pass is
  scan,      \* what its scan found and it has not examined yet
  suspect,   \* the run it is closing
  saw,       \* the status the scan saw that run in
  killPc,    \* where the operator's `chores kill' is
  victim,    \* the run it kills
  crashes    \* processes that have died so far

runner == <<pc, verdict>>
record == <<status, order, young, rows>>
process == <<child, termed, marker>>
breaker == <<sentry, posts>>
tick == <<tickPc, scan, suspect, saw>>
kill == <<killPc, victim>>
others == <<paused, tick, kill, crashes>>
vars == <<runner, record, process, lock, breaker, others>>

-----------------------------------------------------------------------------
Quit == {"idle", "dead", "done"}

Working == {r \in Runs : pc[r] \notin Quit}

(* The runner's own process is the one that executes a prompt.             *)
Executing(r) ==
  \/ child[r] = "live"
  \/ Kind = "PROMPT" /\ pc[r] = "exec"

(* ProcessPort.alive for the identity the record carries: the child's once *)
(* one was spawned, else the runner's own. It never vouches for a process  *)
(* that is gone; when ps fails it does not vouch for a live one either.    *)
ProcessAlive(r) ==
  IF child[r] = "none" THEN r \in Working ELSE child[r] = "live"

Unseen == IF PsFaults THEN SUBSET Runs ELSE {{}}

VouchedFor(r, unseen) == ProcessAlive(r) /\ r \notin unseen

(* Variant: an admission that overlooks the young PENDING record.          *)
LiveWhenRunning(r, unseen) == status[r] = "RUNNING" /\ VouchedFor(r, unseen)

(* What counts as live to an admission (live_running).                     *)
Live(r, unseen) ==
  \/ status[r] = "RUNNING" /\ VouchedFor(r, unseen)
  \/ status[r] = "PENDING" /\ r \in young

History(of) == [i \in 1 .. Len(order) |-> of[order[i]]]

Trips(of) == CircuitBreaker(History(of), Threshold)

Goto(r, there) == pc' = [pc EXCEPT ![r] = there]

Settle(r, with) == verdict' = [verdict EXCEPT ![r] = with]

Acquire(who) == lock = NobodyHolds /\ lock' = who

Release == lock' = NobodyHolds

(* The check-and-set every status change after admission goes through.     *)
Transition(r, expected, to) ==
  /\ status[r] = expected
  /\ status' = [status EXCEPT ![r] = to]

AppendLedger(r, row) == rows' = [rows EXCEPT ![r] = Append(@, row)]

-----------------------------------------------------------------------------
Init ==
  /\ pc = [r \in Runs |-> "idle"]
  /\ verdict = [r \in Runs |-> Absent]
  /\ status = [r \in Runs |-> Absent]
  /\ order = <<>>
  /\ young = {}
  /\ child = [r \in Runs |-> "none"]
  /\ termed = {}
  /\ marker = {}
  /\ rows = [r \in Runs |-> <<>>]
  /\ lock = NobodyHolds
  /\ sentry = "none"
  /\ paused = FALSE
  /\ posts = {}
  /\ tickPc = "idle"
  /\ scan = {}
  /\ suspect = Tick
  /\ saw = Absent
  /\ killPc = "idle"
  /\ victim = Tick
  /\ crashes = 0

-----------------------------------------------------------------------------
(* The runner: admission.                                                  *)

(* `chores run', typed or spawned by a tick.                               *)
Launch(r) ==
  /\ pc[r] = "idle"
  /\ Goto(r, "start")
  /\ UNCHANGED <<verdict, record, process, lock, breaker, others>>

Enter(r) ==
  /\ pc[r] = "start"
  /\ Acquire(r)
  /\ Goto(r, "admit")
  /\ UNCHANGED <<verdict, record, process, breaker, others>>

(* Gather the facts and decide. The record scan and the sentries are read  *)
(* together: the pause rule outranks overlap, and no other process can     *)
(* admit a run of this chore meanwhile, so reading them apart decides      *)
(* nothing differently.                                                    *)
Admit(r) ==
  /\ pc[r] = "admit"
  /\ \E unseen \in Unseen, host \in SUBSET Objecting :
       LET objections ==
             host
             \cup {o \in {"SKIPPED_PAUSED"} : paused \/ sentry # "none"}
             \cup {o \in {"SKIPPED_OVERLAP"} : \E s \in Runs : Live(s, unseen)}
           decision == AdmissionPolicy(objections, r \in Forced)
       IN  \/ /\ decision = "ADMIT"
              /\ Goto(r, "pend")
              /\ UNCHANGED <<verdict, lock>>
           \/ /\ decision = "DISABLED"
              /\ Goto(r, "done")
              /\ Release
              /\ UNCHANGED verdict
           \/ /\ decision \in Refusals
              /\ Goto(r, "refuse")
              /\ Settle(r, decision)
              /\ UNCHANGED lock
  /\ UNCHANGED <<record, process, breaker, others>>

(* write_outcome: the record, then its ledger row, still under the lock.   *)
Refuse(r) ==
  /\ pc[r] = "refuse"
  /\ status' = [status EXCEPT ![r] = verdict[r]]
  /\ Goto(r, "refused")
  /\ UNCHANGED <<verdict, order, young, rows, process, lock, breaker, others>>

RefusalRow(r) ==
  /\ pc[r] = "refused"
  /\ AppendLedger(r, verdict[r])
  /\ Release
  /\ Goto(r, "done")
  /\ UNCHANGED <<verdict, status, order, young, process, breaker, others>>

WritePending(r) ==
  /\ pc[r] = "pend"
  /\ status' = [status EXCEPT ![r] = "PENDING"]
  /\ order' = Append(order, r)
  /\ young' = young \cup {r}
  /\ Release
  /\ Goto(r, "secrets")
  /\ UNCHANGED <<verdict, rows, process, breaker, others>>

-----------------------------------------------------------------------------
(* The runner: from PENDING to the end of the execution.                   *)

(* A secret that cannot be resolved fails the run, but only once the       *)
(* record names the runner itself as the process that runs.                *)
ResolveSecrets(r) ==
  /\ pc[r] = "secrets"
  /\ \/ /\ Goto(r, IF Kind = "PROMPT" THEN "own" ELSE "spawn")
        /\ UNCHANGED verdict
     \/ /\ Goto(r, "own")
        /\ Settle(r, "FAILED")
  /\ UNCHANGED <<record, process, lock, breaker, others>>

Spawn(r) ==
  /\ pc[r] = "spawn"
  /\ \/ /\ child' = [child EXCEPT ![r] = "live"]
        /\ Goto(r, "claim")
        /\ UNCHANGED verdict
     \/ /\ Goto(r, "own")
        /\ Settle(r, "FAILED")
        /\ UNCHANGED child
  /\ UNCHANGED <<record, termed, marker, lock, breaker, others>>

(* Variant: a runner that loses its run just leaves, child and all.        *)
StartChildOrLeave(r) ==
  /\ pc[r] = "claim"
  /\ \/ Transition(r, "PENDING", "RUNNING") /\ Goto(r, "exec")
     \/ status[r] # "PENDING" /\ Goto(r, "done") /\ UNCHANGED status
  /\ UNCHANGED <<verdict, order, young, rows, process, lock, breaker, others>>

(* on_start with the child's identity. A run the tick closed first is      *)
(* lost: its group is signalled and the runner leaves the record alone.    *)
StartChild(r) ==
  /\ pc[r] = "claim"
  /\ \/ /\ Transition(r, "PENDING", "RUNNING")
        /\ Goto(r, "exec")
        /\ UNCHANGED termed
     \/ /\ status[r] # "PENDING"
        /\ termed' = termed \cup {r}
        /\ Goto(r, "done")
        /\ UNCHANGED status
  /\ UNCHANGED <<verdict, order, young, rows, child, marker, lock, breaker, others>>

(* Variant: RUNNING written over whatever the record says.                 *)
StartSelfBlindly(r) ==
  /\ pc[r] = "own"
  /\ status' = [status EXCEPT ![r] = "RUNNING"]
  /\ Goto(r, IF verdict[r] = Absent THEN "exec" ELSE "finish")
  /\ UNCHANGED <<verdict, order, young, rows, process, lock, breaker, others>>

(* on_start with the runner's own identity: nothing to signal when lost.   *)
StartSelf(r) ==
  /\ pc[r] = "own"
  /\ \/ /\ Transition(r, "PENDING", "RUNNING")
        /\ Goto(r, IF verdict[r] = Absent THEN "exec" ELSE "finish")
     \/ /\ status[r] # "PENDING"
        /\ Goto(r, "done")
        /\ UNCHANGED status
  /\ UNCHANGED <<verdict, order, young, rows, process, lock, breaker, others>>

(* The child ends: by itself, on a SIGTERM it heeds, or on the SIGKILL the *)
(* waiting runner sends after the budget's seconds and the kill grace.     *)
ChildExit(r) ==
  /\ child[r] = "live"
  /\ child' = [child EXCEPT ![r] = "gone"]
  /\ UNCHANGED <<runner, record, termed, marker, lock, breaker, others>>

(* Variant: the exit code speaks before the kill marker is looked at.      *)
CollectByExitCode(r) ==
  /\ pc[r] = "exec"
  /\ child[r] = "gone"
  /\ \E outcome \in Outcomes : Settle(r, outcome)
  /\ Goto(r, "finish")
  /\ UNCHANGED <<record, process, lock, breaker, others>>

(* The wait returns. The kill marker decides before the exit code or the   *)
(* timeout does.                                                           *)
Collect(r) ==
  /\ pc[r] = "exec"
  /\ child[r] = "gone"
  /\ IF r \in marker
     THEN Settle(r, "KILLED")
     ELSE \E outcome \in Outcomes : Settle(r, outcome)
  /\ Goto(r, "finish")
  /\ UNCHANGED <<record, process, lock, breaker, others>>

(* A prompt is one completion inside the runner; no marker is consulted.   *)
Complete(r) ==
  /\ pc[r] = "exec"
  /\ child[r] = "none"
  /\ \E outcome \in Outcomes : Settle(r, outcome)
  /\ Goto(r, "finish")
  /\ UNCHANGED <<record, process, lock, breaker, others>>

-----------------------------------------------------------------------------
(* The runner: _finish.                                                    *)

(* Variant: the outcome written without the check-and-set.                 *)
FinishBlindly(r) ==
  /\ pc[r] = "finish"
  /\ status' = [status EXCEPT ![r] = verdict[r]]
  /\ Goto(r, "row")
  /\ UNCHANGED <<verdict, order, young, rows, process, lock, breaker, others>>

(* Variant: a runner that lost the finish race gives its outcome up.       *)
FinishOrGiveUp(r) ==
  /\ pc[r] = "finish"
  /\ \/ Transition(r, "RUNNING", verdict[r]) /\ Goto(r, "row")
     \/ status[r] # "RUNNING" /\ Goto(r, "done") /\ UNCHANGED status
  /\ UNCHANGED <<verdict, order, young, rows, process, lock, breaker, others>>

Finish(r) ==
  /\ pc[r] = "finish"
  /\ \/ /\ Transition(r, "RUNNING", verdict[r])
        /\ Goto(r, "row")
     \/ /\ status[r] # "RUNNING"
        /\ Goto(r, "amend")
        /\ UNCHANGED status
  /\ UNCHANGED <<verdict, order, young, rows, process, lock, breaker, others>>

(* Variant: a finish that does not apply the breaker.                      *)
FinishRowOnly(r) ==
  /\ pc[r] = "row"
  /\ AppendLedger(r, verdict[r])
  /\ Goto(r, "done")
  /\ UNCHANGED <<verdict, status, order, young, process, lock, breaker, others>>

FinishRow(r) ==
  /\ pc[r] = "row"
  /\ AppendLedger(r, verdict[r])
  /\ Goto(r, "breaker")
  /\ UNCHANGED <<verdict, status, order, young, process, lock, breaker, others>>

(* Variant: an amendment made without the chore's lock.                    *)
EnterAmendUnlocked(r) ==
  /\ pc[r] = "amend"
  /\ status[r] = "INTERRUPTED"
  /\ Goto(r, "amendRow")
  /\ UNCHANGED <<verdict, record, process, lock, breaker, others>>

(* The tick closed the run first: the runner's outcome wins, but only      *)
(* under the lock the tick publishes under.                                *)
EnterAmend(r) ==
  /\ pc[r] = "amend"
  /\ lock = NobodyHolds
  /\ IF status[r] = "INTERRUPTED"
     THEN lock' = r /\ Goto(r, "amendRow")
     ELSE UNCHANGED lock /\ Goto(r, "done")
  /\ UNCHANGED <<verdict, record, process, breaker, others>>

(* Variant: the record amended and the ledger forgotten.                   *)
AmendRowForgotten(r) ==
  /\ pc[r] = "amendRow"
  /\ Goto(r, "amendSet")
  /\ UNCHANGED <<verdict, record, process, lock, breaker, others>>

AmendRow(r) ==
  /\ pc[r] = "amendRow"
  /\ AppendLedger(r, verdict[r])
  /\ Goto(r, "amendSet")
  /\ UNCHANGED <<verdict, status, order, young, process, lock, breaker, others>>

(* Nobody else changes an INTERRUPTED record, so this one never fails.     *)
AmendSet(r) ==
  /\ pc[r] = "amendSet"
  /\ Transition(r, "INTERRUPTED", verdict[r])
  /\ Release
  /\ Goto(r, "note")
  /\ UNCHANGED <<verdict, order, young, rows, process, breaker, others>>

(* note_false_breaker.                                                     *)
NoteFalseBreaker(r) ==
  /\ pc[r] = "note"
  /\ posts' = posts \cup {p \in {<<r, "false breaker">>} : sentry = "breaker" /\ ~Trips(status)}
  /\ Goto(r, "breaker")
  /\ UNCHANGED <<verdict, record, process, lock, sentry, others>>

(* apply_breaker: the history and the sentry are read, and only then is    *)
(* the sentry written and the alert posted.                                *)
ApplyBreaker(r) ==
  /\ pc[r] = "breaker"
  /\ Goto(r, IF Trips(status) /\ sentry = "none" THEN "pause" ELSE "done")
  /\ UNCHANGED <<verdict, record, process, lock, breaker, others>>

BreakerPause(r) ==
  /\ pc[r] = "pause"
  /\ sentry' = "breaker"
  /\ Goto(r, "alert")
  /\ UNCHANGED <<verdict, record, process, lock, posts, others>>

BreakerAlert(r) ==
  /\ pc[r] = "alert"
  /\ posts' = posts \cup {<<r, "alert">>}
  /\ Goto(r, "done")
  /\ UNCHANGED <<verdict, record, process, lock, sentry, others>>

-----------------------------------------------------------------------------
(* The tick: _interrupt_dead_runs. The tick lock lets one pass exist at a  *)
(* time, and a pass with nothing to examine changes nothing.               *)

(* Variant: a scan that only looks for dead RUNNING runs.                  *)
SuspectsWhenRunning == {<<r, status[r]>> : r \in {s \in Runs : status[s] = "RUNNING"}}

Suspects ==
  {<<r, status[r]>> : r \in {s \in Runs : \/ status[s] = "RUNNING"
                                          \/ status[s] = "PENDING" /\ s \notin young}}

TickScan ==
  /\ tickPc = "idle"
  /\ Suspects # {}
  /\ tickPc' = "judge"
  /\ scan' = Suspects
  /\ UNCHANGED <<runner, record, process, lock, breaker, suspect, saw, paused, kill, crashes>>

(* The snapshot's RUNNING records are judged by the process as it is now;  *)
(* a stale PENDING one was judged by its age at the scan.                  *)
TickJudge(r, seen) ==
  /\ tickPc = "judge"
  /\ <<r, seen>> \in scan
  /\ scan' = scan \ {<<r, seen>>}
  /\ \E unseen \in Unseen :
       \/ /\ seen = "RUNNING" /\ VouchedFor(r, unseen)
          /\ UNCHANGED <<tickPc, suspect, saw>>
       \/ /\ ~(seen = "RUNNING" /\ VouchedFor(r, unseen))
          /\ tickPc' = "lock"
          /\ suspect' = r
          /\ saw' = seen
  /\ UNCHANGED <<runner, record, process, lock, breaker, paused, kill, crashes>>

TickGoto(there) ==
  /\ tickPc' = there
  /\ UNCHANGED <<scan, suspect, saw>>

TickEnter ==
  /\ tickPc = "lock"
  /\ Acquire(Tick)
  /\ TickGoto("close")
  /\ UNCHANGED <<runner, record, process, breaker, paused, kill, crashes>>

(* Variant: the close written over whatever the record says by now.        *)
TickCloseBlindly ==
  /\ tickPc = "close"
  /\ status' = [status EXCEPT ![suspect] = "INTERRUPTED"]
  /\ TickGoto("row")
  /\ UNCHANGED <<runner, order, young, rows, process, lock, breaker, paused, kill, crashes>>

(* The close is a check-and-set on the status the scan saw: a run that     *)
(* moved on meanwhile is left alone.                                       *)
TickClose ==
  /\ tickPc = "close"
  /\ \/ /\ Transition(suspect, saw, "INTERRUPTED")
        /\ TickGoto("row")
        /\ UNCHANGED lock
     \/ /\ status[suspect] # saw
        /\ TickGoto("judge")
        /\ Release
        /\ UNCHANGED status
  /\ UNCHANGED <<runner, order, young, rows, process, breaker, paused, kill, crashes>>

TickRow ==
  /\ tickPc = "row"
  /\ AppendLedger(suspect, "INTERRUPTED")
  /\ TickGoto("breaker")
  /\ UNCHANGED <<runner, status, order, young, process, lock, breaker, paused, kill, crashes>>

TickApplyBreaker ==
  /\ tickPc = "breaker"
  /\ \/ /\ Trips(status) /\ sentry = "none"
        /\ TickGoto("pause")
        /\ UNCHANGED lock
     \/ /\ ~(Trips(status) /\ sentry = "none")
        /\ TickGoto("judge")
        /\ Release
  /\ UNCHANGED <<runner, record, process, breaker, paused, kill, crashes>>

TickPause ==
  /\ tickPc = "pause"
  /\ sentry' = "breaker"
  /\ TickGoto("alert")
  /\ UNCHANGED <<runner, record, process, lock, posts, paused, kill, crashes>>

TickAlert ==
  /\ tickPc = "alert"
  /\ posts' = posts \cup {<<Tick, "alert", suspect>>}
  /\ TickGoto("judge")
  /\ Release
  /\ UNCHANGED <<runner, record, process, sentry, paused, kill, crashes>>

Rest ==
  /\ tickPc' = "idle"
  /\ scan' = {}
  /\ suspect' = Tick
  /\ saw' = Absent

TickEnd ==
  /\ tickPc = "judge"
  /\ scan = {}
  /\ Rest
  /\ UNCHANGED <<runner, record, process, lock, breaker, paused, kill, crashes>>

-----------------------------------------------------------------------------
(* The operator. `chores kill' re-validates the process, marks the run,    *)
(* then signals the group; each run is killed at most once here.           *)

KillCheck(r) ==
  /\ "kill" \in Operator
  /\ killPc = "idle"
  /\ r \notin marker
  /\ status[r] = "RUNNING"
  /\ ProcessAlive(r)
  /\ killPc' = "mark"
  /\ victim' = r
  /\ UNCHANGED <<runner, record, process, lock, breaker, paused, tick, crashes>>

KillMark ==
  /\ killPc = "mark"
  /\ marker' = marker \cup {victim}
  /\ killPc' = "signal"
  /\ UNCHANGED <<victim, runner, record, child, termed, lock, breaker, paused, tick, crashes>>

(* The recorded group is the child's own; a run without a child recorded   *)
(* the runner's group, and SIGTERM ends the runner where it stands.        *)
Halt(r) ==
  /\ Goto(r, "dead")
  /\ lock' = IF lock = r THEN NobodyHolds ELSE lock

KillSignal ==
  /\ killPc = "signal"
  /\ \/ /\ child[victim] = "live"
        /\ termed' = termed \cup {victim}
        /\ UNCHANGED <<pc, lock>>
     \/ /\ child[victim] = "none" /\ victim \in Working
        /\ termed' = termed \cup {victim}
        /\ Halt(victim)
     \/ /\ ~ProcessAlive(victim)
        /\ UNCHANGED <<pc, lock, termed>>
  /\ killPc' = "idle"
  /\ victim' = Tick
  /\ UNCHANGED <<verdict, record, child, marker, breaker, paused, tick, crashes>>

(* `chores pause <chore>' and `chores resume <chore>'.                     *)
PauseChore ==
  /\ "pause" \in Operator
  /\ sentry' = "operator"
  /\ UNCHANGED <<runner, record, process, lock, posts, others>>

ResumeChore ==
  /\ "resume" \in Operator
  /\ sentry' = "none"
  /\ UNCHANGED <<runner, record, process, lock, posts, others>>

(* `chores pause' and `chores resume'.                                     *)
PauseAll ==
  /\ "pause" \in Operator
  /\ paused' = TRUE
  /\ UNCHANGED <<runner, record, process, lock, breaker, tick, kill, crashes>>

ResumeAll ==
  /\ "resume" \in Operator
  /\ paused' = FALSE
  /\ UNCHANGED <<runner, record, process, lock, breaker, tick, kill, crashes>>

-----------------------------------------------------------------------------
(* Time and failures.                                                      *)

(* One more tick interval since the run was admitted: oldest runs first.   *)
Age(r) ==
  /\ r \in young
  /\ \E i \in 1 .. Len(order) :
       order[i] = r /\ \A j \in 1 .. (i - 1) : order[j] \notin young
  /\ SlowStart \/ status[r] # "PENDING" \/ r \notin Working
  /\ young' = young \ {r}
  /\ UNCHANGED <<runner, status, order, rows, process, lock, breaker, others>>

(* A runner dies between two steps; the kernel drops its lock, and its     *)
(* child, a session leader, lives on.                                      *)
RunnerDies(r) ==
  /\ crashes < MaxCrashes
  /\ r \in Working
  /\ Halt(r)
  /\ crashes' = crashes + 1
  /\ UNCHANGED <<verdict, record, process, breaker, paused, tick, kill>>

TickDies ==
  /\ crashes < MaxCrashes
  /\ tickPc # "idle"
  /\ Rest
  /\ lock' = IF lock = Tick THEN NobodyHolds ELSE lock
  /\ crashes' = crashes + 1
  /\ UNCHANGED <<runner, record, process, breaker, paused, kill>>

-----------------------------------------------------------------------------
RunnerStep(r) ==
  \/ Enter(r) \/ Admit(r) \/ Refuse(r) \/ RefusalRow(r) \/ WritePending(r)
  \/ ResolveSecrets(r) \/ Spawn(r) \/ StartChild(r) \/ StartSelf(r)
  \/ Collect(r) \/ Complete(r)
  \/ Finish(r) \/ FinishRow(r) \/ EnterAmend(r) \/ AmendRow(r) \/ AmendSet(r)
  \/ NoteFalseBreaker(r) \/ ApplyBreaker(r) \/ BreakerPause(r) \/ BreakerAlert(r)

TickStep ==
  \/ TickScan
  \/ \E r \in Runs, seen \in {"PENDING", "RUNNING"} : TickJudge(r, seen)
  \/ TickEnter \/ TickClose \/ TickRow \/ TickApplyBreaker \/ TickPause
  \/ TickAlert \/ TickEnd

OperatorStep ==
  \/ \E r \in Runs : KillCheck(r)
  \/ KillMark \/ KillSignal
  \/ PauseChore \/ ResumeChore \/ PauseAll \/ ResumeAll

Next ==
  \/ \E r \in Runs : Launch(r) \/ RunnerStep(r) \/ ChildExit(r) \/ Age(r) \/ RunnerDies(r)
  \/ TickStep \/ TickDies
  \/ OperatorStep

(***************************************************************************)
(* Processes are scheduled, time passes, the installed timer keeps calling *)
(* tick, and a runner that waits on its child ends it at the budget. The   *)
(* operator, the launches and the crashes owe nothing, and neither does a  *)
(* child nobody waits for.                                                 *)
(***************************************************************************)
Fairness ==
  /\ \A r \in Runs : /\ WF_vars(RunnerStep(r))
                     /\ WF_vars(Age(r))
                     /\ WF_vars(pc[r] = "exec" /\ ChildExit(r))
  /\ WF_vars(TickStep)
  /\ WF_vars(KillMark \/ KillSignal)

Spec == Init /\ [][Next]_vars
FairSpec == Spec /\ Fairness

-----------------------------------------------------------------------------
(***************************************************************************)
(* What the lifecycle promises.                                            *)
(***************************************************************************)

RunnerPlaces ==
  Quit \cup
  {"start", "admit", "refuse", "refused", "pend", "secrets", "spawn", "claim",
   "own", "exec", "finish", "row", "amend", "amendRow", "amendSet", "note",
   "breaker", "pause", "alert"}

TickPlaces ==
  {"idle", "judge", "lock", "close", "row", "breaker", "pause", "alert"}

RunnerTyped ==
  /\ pc \in [Runs -> RunnerPlaces]
  /\ verdict \in [Runs -> TrueOutcomes \cup Refusals \cup {Absent}]

RecordTyped ==
  /\ status \in [Runs -> RunStatus \cup {Absent}]
  /\ order \in Seq(Runs)
  /\ young \subseteq Runs
  /\ rows \in [Runs -> Seq(RunTerminal \cup Refusals)]

ProcessTyped ==
  /\ child \in [Runs -> {"none", "live", "gone"}]
  /\ termed \subseteq Runs
  /\ marker \subseteq Runs

ControlTyped ==
  /\ lock \in Runs \cup {Tick, NobodyHolds}
  /\ sentry \in {"none", "breaker", "operator"}
  /\ paused \in BOOLEAN
  /\ crashes \in 0 .. MaxCrashes

TickTyped ==
  /\ tickPc \in TickPlaces
  /\ scan \subseteq Runs \X {"PENDING", "RUNNING"}
  /\ suspect \in Runs \cup {Tick}
  /\ saw \in {"PENDING", "RUNNING", Absent}

KillTyped ==
  /\ killPc \in {"idle", "mark", "signal"}
  /\ victim \in Runs \cup {Tick}

(* Every variable has its type, and the ledger holds final statuses only.  *)
TypeOK ==
  /\ RunnerTyped /\ RecordTyped /\ ProcessTyped
  /\ ControlTyped /\ TickTyped /\ KillTyped

(* A run has no ledger row, one row, or the zero-usage INTERRUPTED row of  *)
(* the tick and then the one row that amends it, in that order.            *)
NeverChargedTwice ==
  \A r \in Runs :
    \/ rows[r] = <<>>
    \/ Len(rows[r]) = 1
    \/ Len(rows[r]) = 2 /\ rows[r][1] = "INTERRUPTED" /\ rows[r][2] \in TrueOutcomes

(* A settled run that has no row is about to get one, from its runner or   *)
(* from the tick that closed it, or the process that owed the row died     *)
(* between the record and the ledger; nobody writes that row later.        *)
SettledIsCharged ==
  \A r \in Runs :
    status[r] \in RunTerminal \cup Refusals /\ rows[r] = <<>> =>
      \/ pc[r] \in {"refused", "row"}
      \/ tickPc = "row" /\ suspect = r
      \/ IF status[r] = "INTERRUPTED" THEN crashes > 0 ELSE pc[r] = "dead"

(* A run is charged once: whatever races or crashes happen on the way, it  *)
(* is never charged twice, and only a death loses a charge                 *)
(* (run.py:464-498, tick.py:147-162).                                      *)
ChargedOnce == NeverChargedTwice /\ SettledIsCharged

(* The ledger never contradicts the record: the newest row of a run says   *)
(* what its record says, except while its runner holds the lock between    *)
(* the amending row and the amended record, or died exactly there.         *)
LedgerAgrees ==
  \A r \in Runs :
    rows[r] # <<>> =>
      \/ rows[r][Len(rows[r])] = status[r]
      \/ /\ status[r] = "INTERRUPTED"
         /\ pc[r] = "dead" \/ (pc[r] = "amendSet" /\ lock = r)

(* A settled record is final: the one change it may see is the tick's      *)
(* INTERRUPTED giving way to the outcome of the run's own runner, which    *)
(* held the chore's lock and had already put that outcome in the ledger.   *)
SettledIsFinal ==
  [][\A r \in Runs :
       IsTerminal(status[r]) /\ status'[r] # status[r] =>
         /\ status[r] = "INTERRUPTED"
         /\ lock = r
         /\ rows[r] # <<>> /\ status'[r] = rows[r][Len(rows[r])]]_vars

(* Two unforced runs of the chore never execute at the same time, as long   *)
(* as no runner is killed: what a killed one leaves behind may go on.       *)
NoOverlap ==
  crashes = 0 =>
  \A r, s \in Runs \ Forced : r # s => ~(Executing(r) /\ Executing(s))

(* A run the tick closed leaves no child behind: if one is alive, its      *)
(* group was sent SIGTERM, or its runner is about to find the run lost and *)
(* do so, or its runner died before it could.                              *)
LostChildIsSignalled ==
  \A r \in Runs :
    status[r] = "INTERRUPTED" /\ child[r] = "live" =>
      r \in termed \/ pc[r] \in {"claim", "dead"}

Quiet == tickPc = "idle" /\ \A r \in Runs : pc[r] \in Quit

NobodyDied == crashes = 0 /\ \A r \in Runs : pc[r] # "dead"

(* The breaker does not miss: once nothing is in progress, a history that  *)
(* trips it has paused the chore, however the finishes, the closes and the *)
(* amendments that produced the history were interleaved.                  *)
BreakerDoesNotMiss ==
  Quiet /\ NobodyDied /\ Trips(status) => sentry # "none"

Amended(r) == Len(rows[r]) = 2

(* When a breaker pause rests on a run that was closed as INTERRUPTED but  *)
(* had succeeded, and the history no longer trips the breaker, the         *)
(* operator has been told.                                                 *)
FalseBreakerIsNoted ==
  /\ Quiet /\ crashes = 0
  /\ sentry = "breaker" /\ ~Trips(status)
  /\ \A r \in Runs : status[r] = "SUCCEEDED" => Amended(r)
  => \E p \in posts : p[2] = "false breaker"

(* Every admitted run reaches a final status, even when its runner dies:   *)
(* the tick closes it. The exception is a child that outlives a dead       *)
(* runner for ever, which nobody bounds any more.                          *)
EveryRunSettles ==
  \A r \in Runs :
    status[r] \in {"PENDING", "RUNNING"}
      ~> IsTerminal(status[r]) \/ (pc[r] = "dead" /\ child[r] = "live")

(* The runner's outcome wins: a run whose runner lives to finish it ends   *)
(* with that outcome in the record and as its newest ledger row, also when *)
(* the tick closed it first.                                               *)
TrueOutcomeWins ==
  \A r \in Runs :
    pc[r] = "finish" ~>
      \/ pc[r] = "dead"
      \/ /\ status[r] = verdict[r]
         /\ rows[r] # <<>> /\ rows[r][Len(rows[r])] = verdict[r]

(* A kill whose signal reached a run ends in KILLED.                       *)
KillIsRecorded ==
  \A r \in Runs : r \in marker \cap termed ~> status[r] = "KILLED"

(* Where that does hold: a runner that outlived the kill of its child has  *)
(* recorded KILLED by the time it is done, whatever the child exited with, *)
(* wherever the marker and the signal fell between the runner's steps      *)
(* (run.py:379-399, status.py:329-354).                                    *)
ChildKillIsRecorded ==
  \A r \in Runs :
    pc[r] = "done" /\ r \in marker \cap termed /\ child[r] # "none"
      => status[r] = "KILLED"

(* The run store keeps its promise: hiding processes, locks and crashes,   *)
(* every step of this module is a step of RunLifecycle, or none.           *)
Starting ==
  {"start", "admit", "refuse", "refused", "pend", "secrets", "spawn", "claim", "own"}

StageAt(place) ==
  IF place \in Quit THEN "away" ELSE IF place \in Starting THEN "starting" ELSE "running"

Stage == [r \in Runs |-> StageAt(pc[r])]

Promise == INSTANCE RunLifecycle WITH stage <- Stage

KeepsPromise == Promise!Spec
=============================================================================
