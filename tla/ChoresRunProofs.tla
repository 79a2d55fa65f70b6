--------------------------- MODULE ChoresRunProofs ---------------------------
(***************************************************************************)
(* Proofs about ChoresRun, for every set of runs, every number of crashes  *)
(* and every operator.                                                     *)
(*                                                                         *)
(* None of the properties is inductive: whether a ledger row may be added  *)
(* depends on where the run's runner and the tick stand and on who holds   *)
(* the chore's lock. IInv says how these hang together: what the record    *)
(* and the ledger look like at every place of the runner (ByPlace), what   *)
(* rows a record of each status may have (ByStatus), and that the lock is  *)
(* held exactly in the critical sections (LockMatches).                    *)
(*                                                                         *)
(* Four more invariants rest on it, each for one question: KInv, what a    *)
(* kill leaves; LInv, what becomes of a child whose run the tick closed;   *)
(* OInv, who may execute beside whom; BInv, who applies the breaker.       *)
(***************************************************************************)
EXTENDS ChoresRun, FiniteSetTheorems, SequenceTheorems, TLAPS

HoldsLock == {"admit", "refuse", "refused", "pend", "amendRow", "amendSet"}

TickHoldsLock == {"close", "row", "breaker", "pause", "alert"}

LockMatches ==
  /\ \A r \in Runs : pc[r] \in HoldsLock <=> lock = r
  /\ tickPc \in TickHoldsLock <=> lock = Tick

Open == {Absent, "PENDING", "RUNNING"}

(* The rows of a run whose runner stated the outcome v.                    *)
RowsOf(v) == {<<v>>, <<"INTERRUPTED", v>>}

ByPlace(r) ==
  /\ pc[r] \in {"idle", "start", "admit", "pend"} =>
       verdict[r] = Absent /\ status[r] = Absent
  /\ pc[r] = "refuse" => verdict[r] \in Refusals /\ status[r] = Absent
  /\ pc[r] = "refused" =>
       verdict[r] \in Refusals /\ status[r] = verdict[r] /\ rows[r] = <<>>
  /\ pc[r] \in {"secrets", "spawn", "claim"} =>
       verdict[r] = Absent /\ status[r] \in {"PENDING", "INTERRUPTED"}
  /\ pc[r] = "own" =>
       verdict[r] \in {Absent, "FAILED"} /\ status[r] \in {"PENDING", "INTERRUPTED"}
  /\ pc[r] = "exec" => verdict[r] = Absent /\ status[r] \in {"RUNNING", "INTERRUPTED"}
  /\ pc[r] = "finish" =>
       verdict[r] \in TrueOutcomes /\ status[r] \in {"RUNNING", "INTERRUPTED"}
  /\ pc[r] \in {"amend", "amendRow"} =>
       verdict[r] \in TrueOutcomes /\ status[r] = "INTERRUPTED"
  /\ pc[r] = "row" =>
       verdict[r] \in TrueOutcomes /\ status[r] = verdict[r] /\ rows[r] = <<>>
  /\ pc[r] = "amendSet" =>
       /\ verdict[r] \in TrueOutcomes /\ status[r] = "INTERRUPTED"
       /\ rows[r] \in RowsOf(verdict[r])
  /\ pc[r] \in {"note", "breaker", "pause", "alert"} =>
       /\ verdict[r] \in TrueOutcomes /\ status[r] = verdict[r]
       /\ rows[r] \in RowsOf(verdict[r])

ByStatus(r) ==
  /\ status[r] \in Open \cup RunTerminal \cup Refusals
  /\ status[r] \in Open => rows[r] = <<>>
  /\ status[r] = "INTERRUPTED" /\ pc[r] \notin {"amendSet", "dead"} =>
       rows[r] \in {<<>>, <<"INTERRUPTED">>}
  /\ status[r] = "INTERRUPTED" /\ pc[r] = "dead" =>
       \/ rows[r] \in {<<>>, <<"INTERRUPTED">>}
       \/ \E v \in TrueOutcomes : rows[r] \in RowsOf(v)
  /\ status[r] \in TrueOutcomes => rows[r] \in {<<>>} \cup RowsOf(status[r])
  /\ status[r] \in Refusals => rows[r] \in {<<>>, <<status[r]>>}

TickInv ==
  /\ tickPc \notin {"idle", "judge"} => suspect \in Runs /\ saw \in {"PENDING", "RUNNING"}
  /\ tickPc = "row" => status[suspect] = "INTERRUPTED" /\ rows[suspect] = <<>>

KillInv == killPc # "idle" => victim \in Runs

IInv ==
  /\ TypeOK
  /\ LockMatches
  /\ \A r \in Runs : ByPlace(r) /\ ByStatus(r)
  /\ TickInv
  /\ KillInv

-----------------------------------------------------------------------------
(* Lemmas about short ledgers.                                             *)

(* What appending to an empty and to a one-row ledger gives.               *)
LEMMA AppendToNone == ASSUME NEW v PROVE Append(<<>>, v) = <<v>>
  OBVIOUS

(* A second row is put after the first.                                    *)
LEMMA AppendToOne ==
  ASSUME NEW S, NEW u \in S, NEW v \in S
  PROVE  Append(<<u>>, v) = <<u, v>>
<1>1. <<u>> \in Seq(S) /\ Len(<<u>>) = 1
  OBVIOUS
<1>2. <<u, v>> \in Seq(S) /\ Len(<<u, v>>) = 2 /\ <<u, v>>[1] = u /\ <<u, v>>[2] = v
  OBVIOUS
<1>3. /\ Append(<<u>>, v) \in Seq(S) /\ Len(Append(<<u>>, v)) = 2
      /\ Append(<<u>>, v)[1] = u /\ Append(<<u>>, v)[2] = v
  BY <1>1, AppendProperties
<1>4. \A i \in 1 .. 2 : i = 1 \/ i = 2
  OBVIOUS
<1> QED
  BY <1>2, <1>3, <1>4, SeqEqual

-----------------------------------------------------------------------------
(* Places and verdicts keep their types.                                   *)
LEMMA RunnerTypedKept == IInv /\ [Next]_vars => RunnerTyped'
<1> SUFFICES ASSUME IInv, [Next]_vars PROVE RunnerTyped'
  OBVIOUS
<1>1. /\ RunnerTyped /\ KillInv /\ Outcomes \subseteq TrueOutcomes
  BY RunsAssumption, ActorsAssumption
  DEF IInv, TypeOK
<1> USE DEF RunnerTyped, KillInv, RunnerPlaces, Quit, TrueOutcomes,
            RunTerminal, Failures, Refusals, runner, record, process, breaker,
            others, tick, kill, Goto, Settle, Acquire, Release, Transition,
            AppendLedger, Halt, Rest, TickGoto
<1>2. CASE UNCHANGED vars
  BY <1>1, <1>2
  DEF vars
<1>3. ASSUME NEW r \in Runs, Admit(r)
      PROVE  RunnerTyped'
  BY <1>1, <1>3
  DEF Admit
<1>4. ASSUME NEW r \in Runs, ResolveSecrets(r) \/ Spawn(r)
      PROVE  RunnerTyped'
  BY <1>1, <1>4
  DEF ResolveSecrets, Spawn
<1>5. ASSUME NEW r \in Runs, Collect(r) \/ Complete(r)
      PROVE  RunnerTyped'
  BY <1>1, <1>5
  DEF Collect, Complete
<1>6. ASSUME NEW r \in Runs, StartChild(r) \/ StartSelf(r) \/ Finish(r)
      PROVE  RunnerTyped'
  BY <1>1, <1>6
  DEF StartChild, StartSelf, Finish
<1>7. CASE KillSignal
  BY <1>1, <1>7
  DEF KillSignal
<1>8. ASSUME NEW r \in Runs, Launch(r) \/ Enter(r) \/ Refuse(r) \/ RefusalRow(r) \/
           WritePending(r) \/ FinishRow(r) \/ EnterAmend(r) \/ AmendRow(r) \/
           AmendSet(r) \/ NoteFalseBreaker(r) \/ ApplyBreaker(r) \/
           BreakerPause(r) \/ BreakerAlert(r) \/ ChildExit(r) \/ Age(r) \/
           RunnerDies(r) \/ KillCheck(r)
      PROVE  RunnerTyped'
  BY <1>1, <1>8
  DEF Launch, Enter, Refuse, RefusalRow, WritePending, FinishRow, EnterAmend,
      AmendRow, AmendSet, NoteFalseBreaker, ApplyBreaker, BreakerPause,
      BreakerAlert, ChildExit, Age, RunnerDies, KillCheck
<1>9. CASE TickScan \/ TickEnter \/ TickClose \/ TickRow \/ TickApplyBreaker \/
           TickPause \/ TickAlert \/ TickEnd \/ TickDies \/ KillMark \/
           PauseChore \/ ResumeChore \/ PauseAll \/ ResumeAll
  BY <1>1, <1>9
  DEF TickScan, TickEnter, TickClose, TickRow, TickApplyBreaker, TickPause,
      TickAlert, TickEnd, TickDies, KillMark, PauseChore, ResumeChore,
      PauseAll, ResumeAll
<1>10. ASSUME NEW r \in Runs, NEW seen \in {"PENDING", "RUNNING"},
             TickJudge(r, seen)
      PROVE  RunnerTyped'
  BY <1>1, <1>10
  DEF TickJudge
<1> HIDE DEF RunnerTyped, KillInv, RunnerPlaces, Quit, TrueOutcomes,
             RunTerminal, Failures, Refusals, runner, record, process,
             breaker, others, tick, kill, Goto, Settle, Acquire, Release,
             Transition, AppendLedger, Halt, Rest, TickGoto
<1> QED
  BY <1>2, <1>3, <1>4, <1>5, <1>6, <1>7, <1>8, <1>9, <1>10
  DEF Next, RunnerStep, TickStep, OperatorStep


(* Records and rows keep their types: a row is made only of a settled      *)
(* verdict, or of the tick's INTERRUPTED.                                  *)
LEMMA RecordTypedKept == IInv /\ [Next]_vars => RecordTyped'
<1> SUFFICES ASSUME IInv, [Next]_vars PROVE RecordTyped'
  OBVIOUS
<1>1. /\ RecordTyped /\ TickInv
      /\ \A r \in Runs : ByPlace(r)
  BY RunsAssumption, ActorsAssumption
  DEF IInv, TypeOK
<1> USE DEF RecordTyped, TickInv, ByPlace, RunStatus, NotTerminal, ArmingEnds,
            TrueOutcomes, RunTerminal, Failures, Refusals, runner, record,
            process, breaker, others, tick, kill, Goto, Settle, Acquire,
            Release, Transition, AppendLedger, Halt, Rest, TickGoto
<1>2. CASE UNCHANGED vars
  BY <1>1, <1>2
  DEF vars
<1>3. ASSUME NEW r \in Runs, Refuse(r)
      PROVE  RecordTyped'
  BY <1>1, <1>3
  DEF Refuse
<1>4. ASSUME NEW r \in Runs, RefusalRow(r) \/ FinishRow(r) \/ AmendRow(r)
      PROVE  RecordTyped'
  <2>1. /\ rows' = [rows EXCEPT ![r] = Append(rows[r], verdict[r])]
        /\ verdict[r] \in RunTerminal \cup Refusals /\ UNCHANGED <<status, order, young>>
    BY <1>1, <1>4 DEF RefusalRow, FinishRow, AmendRow
  <2>2. Append(rows[r], verdict[r]) \in Seq(RunTerminal \cup Refusals)
    BY <1>1, <2>1, AppendProperties
  <2> QED
    BY <1>1, <2>1, <2>2
<1>5. ASSUME NEW r \in Runs, WritePending(r)
      PROVE  RecordTyped'
  BY <1>1, <1>5
  DEF WritePending
<1>6. ASSUME NEW r \in Runs, StartChild(r) \/ StartSelf(r) \/ Finish(r) \/
           AmendSet(r)
      PROVE  RecordTyped'
  BY <1>1, <1>6
  DEF StartChild, StartSelf, Finish, AmendSet
<1>7. ASSUME NEW r \in Runs, Age(r)
      PROVE  RecordTyped'
  BY <1>1, <1>7
  DEF Age
<1>8. CASE TickClose
  BY <1>1, <1>8
  DEF TickClose
<1>9. CASE TickRow
  BY <1>1, <1>9
  DEF TickRow
<1>10. ASSUME NEW r \in Runs, Launch(r) \/ Enter(r) \/ Admit(r) \/
           ResolveSecrets(r) \/ Spawn(r) \/ Collect(r) \/ Complete(r) \/
           EnterAmend(r) \/ NoteFalseBreaker(r) \/ ApplyBreaker(r) \/
           BreakerPause(r) \/ BreakerAlert(r) \/ ChildExit(r) \/
           RunnerDies(r) \/ KillCheck(r)
      PROVE  RecordTyped'
  BY <1>1, <1>10
  DEF Launch, Enter, Admit, ResolveSecrets, Spawn, Collect, Complete,
      EnterAmend, NoteFalseBreaker, ApplyBreaker, BreakerPause, BreakerAlert,
      ChildExit, RunnerDies, KillCheck
<1>11. CASE TickScan \/ TickEnter \/ TickApplyBreaker \/ TickPause \/ TickAlert \/
           TickEnd \/ TickDies \/ KillMark \/ KillSignal \/ PauseChore \/
           ResumeChore \/ PauseAll \/ ResumeAll
  BY <1>1, <1>11
  DEF TickScan, TickEnter, TickApplyBreaker, TickPause, TickAlert, TickEnd,
      TickDies, KillMark, KillSignal, PauseChore, ResumeChore, PauseAll,
      ResumeAll
<1>12. ASSUME NEW r \in Runs, NEW seen \in {"PENDING", "RUNNING"},
             TickJudge(r, seen)
      PROVE  RecordTyped'
  BY <1>1, <1>12
  DEF TickJudge
<1> HIDE DEF RecordTyped, TickInv, ByPlace, RunStatus, NotTerminal,
             ArmingEnds, TrueOutcomes, RunTerminal, Failures, Refusals,
             runner, record, process, breaker, others, tick, kill, Goto,
             Settle, Acquire, Release, Transition, AppendLedger, Halt, Rest,
             TickGoto
<1> QED
  BY <1>2, <1>3, <1>4, <1>5, <1>6, <1>7, <1>8, <1>9, <1>10, <1>11, <1>12
  DEF Next, RunnerStep, TickStep, OperatorStep


(* Processes, signals and markers keep their types.                        *)
LEMMA ProcessTypedKept == IInv /\ [Next]_vars => ProcessTyped'
<1> SUFFICES ASSUME IInv, [Next]_vars PROVE ProcessTyped'
  OBVIOUS
<1>1. /\ ProcessTyped /\ KillInv
  BY RunsAssumption, ActorsAssumption
  DEF IInv, TypeOK
<1> USE DEF ProcessTyped, KillInv, runner, record, process, breaker, others,
            tick, kill, Goto, Settle, Acquire, Release, Transition,
            AppendLedger, Halt, Rest, TickGoto
<1>2. CASE UNCHANGED vars
  BY <1>1, <1>2
  DEF vars
<1>3. ASSUME NEW r \in Runs, Spawn(r) \/ StartChild(r) \/ ChildExit(r)
      PROVE  ProcessTyped'
  BY <1>1, <1>3
  DEF Spawn, StartChild, ChildExit
<1>4. CASE KillMark \/ KillSignal
  BY <1>1, <1>4
  DEF KillMark, KillSignal
<1>5. ASSUME NEW r \in Runs, Launch(r) \/ Enter(r) \/ Admit(r) \/ Refuse(r) \/
           RefusalRow(r) \/ WritePending(r) \/ ResolveSecrets(r) \/
           StartSelf(r) \/ Collect(r) \/ Complete(r) \/ Finish(r) \/
           FinishRow(r) \/ EnterAmend(r) \/ AmendRow(r) \/ AmendSet(r) \/
           NoteFalseBreaker(r) \/ ApplyBreaker(r) \/ BreakerPause(r) \/
           BreakerAlert(r) \/ Age(r) \/ RunnerDies(r) \/ KillCheck(r)
      PROVE  ProcessTyped'
  BY <1>1, <1>5
  DEF Launch, Enter, Admit, Refuse, RefusalRow, WritePending, ResolveSecrets,
      StartSelf, Collect, Complete, Finish, FinishRow, EnterAmend, AmendRow,
      AmendSet, NoteFalseBreaker, ApplyBreaker, BreakerPause, BreakerAlert,
      Age, RunnerDies, KillCheck
<1>6. CASE TickScan \/ TickEnter \/ TickClose \/ TickRow \/ TickApplyBreaker \/
           TickPause \/ TickAlert \/ TickEnd \/ TickDies \/ PauseChore \/
           ResumeChore \/ PauseAll \/ ResumeAll
  BY <1>1, <1>6
  DEF TickScan, TickEnter, TickClose, TickRow, TickApplyBreaker, TickPause,
      TickAlert, TickEnd, TickDies, PauseChore, ResumeChore, PauseAll,
      ResumeAll
<1>7. ASSUME NEW r \in Runs, NEW seen \in {"PENDING", "RUNNING"},
             TickJudge(r, seen)
      PROVE  ProcessTyped'
  BY <1>1, <1>7
  DEF TickJudge
<1> HIDE DEF ProcessTyped, KillInv, runner, record, process, breaker, others,
             tick, kill, Goto, Settle, Acquire, Release, Transition,
             AppendLedger, Halt, Rest, TickGoto
<1> QED
  BY <1>2, <1>3, <1>4, <1>5, <1>6, <1>7
  DEF Next, RunnerStep, TickStep, OperatorStep


(* The lock, the sentries and the crash count keep their types.            *)
LEMMA ControlTypedKept == IInv /\ [Next]_vars => ControlTyped'
<1> SUFFICES ASSUME IInv, [Next]_vars PROVE ControlTyped'
  OBVIOUS
<1>1. /\ ControlTyped /\ KillInv /\ MaxCrashes \in Nat
  BY RunsAssumption, ActorsAssumption
  DEF IInv, TypeOK
<1> USE DEF ControlTyped, KillInv, runner, record, process, breaker, others,
            tick, kill, Goto, Settle, Acquire, Release, Transition,
            AppendLedger, Halt, Rest, TickGoto
<1>2. CASE UNCHANGED vars
  BY <1>1, <1>2
  DEF vars
<1>3. ASSUME NEW r \in Runs, RunnerDies(r)
      PROVE  ControlTyped'
  BY <1>1, <1>3
  DEF RunnerDies
<1>4. CASE TickDies
  BY <1>1, <1>4
  DEF TickDies
<1>5. CASE KillSignal
  BY <1>1, <1>5
  DEF KillSignal
<1>6. ASSUME NEW r \in Runs, Launch(r) \/ Enter(r) \/ Admit(r) \/ Refuse(r) \/
           RefusalRow(r) \/ WritePending(r) \/ ResolveSecrets(r) \/
           Spawn(r) \/ StartChild(r) \/ StartSelf(r) \/ Collect(r) \/
           Complete(r) \/ Finish(r) \/ FinishRow(r) \/ EnterAmend(r) \/
           AmendRow(r) \/ AmendSet(r) \/ NoteFalseBreaker(r) \/
           ApplyBreaker(r) \/ BreakerPause(r) \/ BreakerAlert(r) \/
           ChildExit(r) \/ Age(r) \/ KillCheck(r)
      PROVE  ControlTyped'
  BY <1>1, <1>6
  DEF Launch, Enter, Admit, Refuse, RefusalRow, WritePending, ResolveSecrets,
      Spawn, StartChild, StartSelf, Collect, Complete, Finish, FinishRow,
      EnterAmend, AmendRow, AmendSet, NoteFalseBreaker, ApplyBreaker,
      BreakerPause, BreakerAlert, ChildExit, Age, KillCheck
<1>7. CASE TickScan \/ TickEnter \/ TickClose \/ TickRow \/ TickApplyBreaker \/
           TickPause \/ TickAlert \/ TickEnd \/ KillMark \/ PauseChore \/
           ResumeChore \/ PauseAll \/ ResumeAll
  BY <1>1, <1>7
  DEF TickScan, TickEnter, TickClose, TickRow, TickApplyBreaker, TickPause,
      TickAlert, TickEnd, KillMark, PauseChore, ResumeChore, PauseAll,
      ResumeAll
<1>8. ASSUME NEW r \in Runs, NEW seen \in {"PENDING", "RUNNING"},
             TickJudge(r, seen)
      PROVE  ControlTyped'
  BY <1>1, <1>8
  DEF TickJudge
<1> HIDE DEF ControlTyped, KillInv, runner, record, process, breaker, others,
             tick, kill, Goto, Settle, Acquire, Release, Transition,
             AppendLedger, Halt, Rest, TickGoto
<1> QED
  BY <1>2, <1>3, <1>4, <1>5, <1>6, <1>7, <1>8
  DEF Next, RunnerStep, TickStep, OperatorStep


(* The tick's own variables keep their types.                              *)
LEMMA TickTypedKept == IInv /\ [Next]_vars => TickTyped'
<1> SUFFICES ASSUME IInv, [Next]_vars PROVE TickTyped'
  OBVIOUS
<1>1. /\ TickTyped /\ RecordTyped
  BY RunsAssumption, ActorsAssumption
  DEF IInv, TypeOK
<1> USE DEF TickTyped, RecordTyped, TickPlaces, Suspects, runner, record,
            process, breaker, others, tick, kill, Goto, Settle, Acquire,
            Release, Transition, AppendLedger, Halt, Rest, TickGoto
<1>2. CASE UNCHANGED vars
  BY <1>1, <1>2
  DEF vars
<1>3. CASE TickScan
  BY <1>1, <1>3
  DEF TickScan
<1>4. ASSUME NEW r \in Runs, Launch(r) \/ Enter(r) \/ Admit(r) \/ Refuse(r) \/
           RefusalRow(r) \/ WritePending(r) \/ ResolveSecrets(r) \/
           Spawn(r) \/ StartChild(r) \/ StartSelf(r) \/ Collect(r) \/
           Complete(r) \/ Finish(r) \/ FinishRow(r) \/ EnterAmend(r) \/
           AmendRow(r) \/ AmendSet(r) \/ NoteFalseBreaker(r) \/
           ApplyBreaker(r) \/ BreakerPause(r) \/ BreakerAlert(r) \/
           ChildExit(r) \/ Age(r) \/ RunnerDies(r) \/ KillCheck(r)
      PROVE  TickTyped'
  BY <1>1, <1>4
  DEF Launch, Enter, Admit, Refuse, RefusalRow, WritePending, ResolveSecrets,
      Spawn, StartChild, StartSelf, Collect, Complete, Finish, FinishRow,
      EnterAmend, AmendRow, AmendSet, NoteFalseBreaker, ApplyBreaker,
      BreakerPause, BreakerAlert, ChildExit, Age, RunnerDies, KillCheck
<1>5. CASE TickEnter \/ TickClose \/ TickRow \/ TickApplyBreaker \/ TickPause \/
           TickAlert \/ TickEnd \/ TickDies \/ KillMark \/ KillSignal \/
           PauseChore \/ ResumeChore \/ PauseAll \/ ResumeAll
  BY <1>1, <1>5
  DEF TickEnter, TickClose, TickRow, TickApplyBreaker, TickPause, TickAlert,
      TickEnd, TickDies, KillMark, KillSignal, PauseChore, ResumeChore,
      PauseAll, ResumeAll
<1>6. ASSUME NEW r \in Runs, NEW seen \in {"PENDING", "RUNNING"},
             TickJudge(r, seen)
      PROVE  TickTyped'
  BY <1>1, <1>6
  DEF TickJudge
<1> HIDE DEF TickTyped, RecordTyped, TickPlaces, Suspects, runner, record,
             process, breaker, others, tick, kill, Goto, Settle, Acquire,
             Release, Transition, AppendLedger, Halt, Rest, TickGoto
<1> QED
  BY <1>2, <1>3, <1>4, <1>5, <1>6
  DEF Next, RunnerStep, TickStep, OperatorStep


(* A kill in progress has a target.                                        *)
LEMMA KillKept == IInv /\ [Next]_vars => KillTyped' /\ KillInv'
<1> SUFFICES ASSUME IInv, [Next]_vars PROVE KillTyped' /\ KillInv'
  OBVIOUS
<1>1. /\ KillTyped /\ KillInv
  BY RunsAssumption, ActorsAssumption
  DEF IInv, TypeOK
<1> USE DEF KillTyped, KillInv, runner, record, process, breaker, others,
            tick, kill, Goto, Settle, Acquire, Release, Transition,
            AppendLedger, Halt, Rest, TickGoto
<1>2. CASE UNCHANGED vars
  BY <1>1, <1>2
  DEF vars
<1>3. ASSUME NEW r \in Runs, Launch(r) \/ Enter(r) \/ Admit(r) \/ Refuse(r) \/
           RefusalRow(r) \/ WritePending(r) \/ ResolveSecrets(r) \/
           Spawn(r) \/ StartChild(r) \/ StartSelf(r) \/ Collect(r) \/
           Complete(r) \/ Finish(r) \/ FinishRow(r) \/ EnterAmend(r) \/
           AmendRow(r) \/ AmendSet(r) \/ NoteFalseBreaker(r) \/
           ApplyBreaker(r) \/ BreakerPause(r) \/ BreakerAlert(r) \/
           ChildExit(r) \/ Age(r) \/ RunnerDies(r) \/ KillCheck(r)
      PROVE  KillTyped' /\ KillInv'
  BY <1>1, <1>3
  DEF Launch, Enter, Admit, Refuse, RefusalRow, WritePending, ResolveSecrets,
      Spawn, StartChild, StartSelf, Collect, Complete, Finish, FinishRow,
      EnterAmend, AmendRow, AmendSet, NoteFalseBreaker, ApplyBreaker,
      BreakerPause, BreakerAlert, ChildExit, Age, RunnerDies, KillCheck
<1>4. CASE TickScan \/ TickEnter \/ TickClose \/ TickRow \/ TickApplyBreaker \/
           TickPause \/ TickAlert \/ TickEnd \/ TickDies \/ KillMark \/
           KillSignal \/ PauseChore \/ ResumeChore \/ PauseAll \/ ResumeAll
  BY <1>1, <1>4
  DEF TickScan, TickEnter, TickClose, TickRow, TickApplyBreaker, TickPause,
      TickAlert, TickEnd, TickDies, KillMark, KillSignal, PauseChore,
      ResumeChore, PauseAll, ResumeAll
<1>5. ASSUME NEW r \in Runs, NEW seen \in {"PENDING", "RUNNING"},
             TickJudge(r, seen)
      PROVE  KillTyped' /\ KillInv'
  BY <1>1, <1>5
  DEF TickJudge
<1> HIDE DEF KillTyped, KillInv, runner, record, process, breaker, others,
             tick, kill, Goto, Settle, Acquire, Release, Transition,
             AppendLedger, Halt, Rest, TickGoto
<1> QED
  BY <1>2, <1>3, <1>4, <1>5
  DEF Next, RunnerStep, TickStep, OperatorStep


(* The lock is taken and released with the places it guards.               *)
LEMMA LockKept == IInv /\ [Next]_vars => LockMatches'
<1> SUFFICES ASSUME IInv, [Next]_vars PROVE LockMatches'
  OBVIOUS
<1>1. /\ RunnerTyped /\ LockMatches /\ KillInv
      /\ Tick \notin Runs /\ NobodyHolds \notin Runs /\ Tick # NobodyHolds
  BY RunsAssumption, ActorsAssumption
  DEF IInv, TypeOK, Tick, NobodyHolds
<1> USE DEF RunnerTyped, LockMatches, KillInv, HoldsLock, TickHoldsLock,
            RunnerPlaces, Quit, Working, runner, record, process, breaker,
            others, tick, kill, Goto, Settle, Acquire, Release, Transition,
            AppendLedger, Halt, Rest, TickGoto
<1>2. CASE UNCHANGED vars
  BY <1>1, <1>2
  DEF vars
<1>3. ASSUME NEW r \in Runs, Enter(r) \/ EnterAmend(r)
      PROVE  LockMatches'
  BY <1>1, <1>3
  DEF Enter, EnterAmend
<1>4. ASSUME NEW r \in Runs, Admit(r) \/ WritePending(r)
      PROVE  LockMatches'
  BY <1>1, <1>4
  DEF Admit, WritePending
<1>5. ASSUME NEW r \in Runs, RefusalRow(r) \/ AmendSet(r)
      PROVE  LockMatches'
  BY <1>1, <1>5
  DEF RefusalRow, AmendSet
<1>6. ASSUME NEW r \in Runs, Refuse(r) \/ AmendRow(r)
      PROVE  LockMatches'
  BY <1>1, <1>6
  DEF Refuse, AmendRow
<1>7. ASSUME NEW r \in Runs, RunnerDies(r)
      PROVE  LockMatches'
  BY <1>1, <1>7
  DEF RunnerDies
<1>8. CASE TickEnter
  BY <1>1, <1>8
  DEF TickEnter
<1>9. CASE TickClose \/ TickApplyBreaker \/ TickAlert
  BY <1>1, <1>9
  DEF TickClose, TickApplyBreaker, TickAlert
<1>10. CASE TickDies
  BY <1>1, <1>10
  DEF TickDies
<1>11. CASE KillSignal
  BY <1>1, <1>11
  DEF KillSignal
<1>12. ASSUME NEW r \in Runs, Launch(r) \/ ResolveSecrets(r) \/ Spawn(r) \/
           StartChild(r) \/ StartSelf(r) \/ Collect(r) \/ Complete(r) \/
           Finish(r) \/ FinishRow(r) \/ NoteFalseBreaker(r) \/
           ApplyBreaker(r) \/ BreakerPause(r) \/ BreakerAlert(r) \/
           ChildExit(r) \/ Age(r) \/ KillCheck(r)
      PROVE  LockMatches'
  BY <1>1, <1>12
  DEF Launch, ResolveSecrets, Spawn, StartChild, StartSelf, Collect, Complete,
      Finish, FinishRow, NoteFalseBreaker, ApplyBreaker, BreakerPause,
      BreakerAlert, ChildExit, Age, KillCheck
<1>13. CASE TickScan \/ TickRow \/ TickPause \/ TickEnd \/ KillMark \/ PauseChore \/
           ResumeChore \/ PauseAll \/ ResumeAll
  BY <1>1, <1>13
  DEF TickScan, TickRow, TickPause, TickEnd, KillMark, PauseChore,
      ResumeChore, PauseAll, ResumeAll
<1>14. ASSUME NEW r \in Runs, NEW seen \in {"PENDING", "RUNNING"},
             TickJudge(r, seen)
      PROVE  LockMatches'
  BY <1>1, <1>14
  DEF TickJudge
<1> HIDE DEF RunnerTyped, LockMatches, KillInv, HoldsLock, TickHoldsLock,
             RunnerPlaces, Quit, Working, runner, record, process, breaker,
             others, tick, kill, Goto, Settle, Acquire, Release, Transition,
             AppendLedger, Halt, Rest, TickGoto
<1> QED
  BY <1>2, <1>3, <1>4, <1>5, <1>6, <1>7, <1>8, <1>9, <1>10, <1>11, <1>12,
     <1>13, <1>14
  DEF Next, RunnerStep, TickStep, OperatorStep


(* At each of its places a runner sees the record and the rows it expects, *)
(* whoever moves.                                                          *)
LEMMA ByPlaceKept == IInv /\ [Next]_vars => \A s \in Runs : ByPlace(s)'
<1> SUFFICES ASSUME IInv, [Next]_vars PROVE \A s \in Runs : ByPlace(s)'
  OBVIOUS
<1>1. /\ RunnerTyped /\ RecordTyped /\ LockMatches /\ TickInv /\ KillInv
      /\ \A r \in Runs : ByPlace(r) /\ ByStatus(r)
      /\ Outcomes \subseteq TrueOutcomes
      /\ Tick \notin Runs /\ NobodyHolds \notin Runs /\ Tick # NobodyHolds
  BY RunsAssumption, ActorsAssumption
  DEF IInv, TypeOK, Tick, NobodyHolds
<1> USE DEF RunnerTyped, RecordTyped, LockMatches, TickInv, KillInv, ByPlace,
            ByStatus, Open, RowsOf, HoldsLock, TickHoldsLock, Quit, Working,
            Absent, TrueOutcomes, RunTerminal, Failures, Refusals, runner,
            record, process, breaker, others, tick, kill, Goto, Settle,
            Acquire, Release, Transition, AppendLedger, Halt, Rest, TickGoto
<1>2. CASE UNCHANGED vars
  BY <1>1, <1>2
  DEF vars
<1>3. ASSUME NEW r \in Runs, Launch(r) \/ Enter(r)
      PROVE  \A s \in Runs : ByPlace(s)'
  BY <1>1, <1>3
  DEF Launch, Enter
<1>4. ASSUME NEW r \in Runs, Admit(r)
      PROVE  \A s \in Runs : ByPlace(s)'
  BY <1>1, <1>4
  DEF Admit
<1>5. ASSUME NEW r \in Runs, Refuse(r) \/ WritePending(r)
      PROVE  \A s \in Runs : ByPlace(s)'
  BY <1>1, <1>5
  DEF Refuse, WritePending
<1>6. ASSUME NEW r \in Runs, FinishRow(r)
      PROVE  \A s \in Runs : ByPlace(s)'
  <2> SUFFICES ASSUME NEW s \in Runs PROVE ByPlace(s)'
    OBVIOUS
  <2>1. CASE s # r
    BY <1>1, <1>6, <2>1 DEF FinishRow
  <2>2. CASE s = r
    <3>1. rows' = [rows EXCEPT ![r] = Append(rows[r], verdict[r])] /\ UNCHANGED <<status, verdict>>
      BY <1>6 DEF FinishRow
    <3>2. pc' = [pc EXCEPT ![r] = "breaker"] /\ pc[r] = "row"
      BY <1>6 DEF FinishRow
    <3>3. rows[r] \in {<<>>}
      BY <1>1, <3>2
    <3>4. verdict[r] \in RunStatus /\ "INTERRUPTED" \in RunStatus
      BY <1>1, <3>2 DEF RunStatus, NotTerminal, ArmingEnds
    <3>5. rows'[r] \in RowsOf(verdict[r])
      BY <1>1, <3>1, <3>3, <3>4, AppendToNone, AppendToOne
    <3> QED
      BY <1>1, <2>2, <3>1, <3>2, <3>5
  <2> QED
    BY <2>1, <2>2
<1>7. ASSUME NEW r \in Runs, AmendRow(r)
      PROVE  \A s \in Runs : ByPlace(s)'
  <2> SUFFICES ASSUME NEW s \in Runs PROVE ByPlace(s)'
    OBVIOUS
  <2>1. CASE s # r
    BY <1>1, <1>7, <2>1 DEF AmendRow
  <2>2. CASE s = r
    <3>1. rows' = [rows EXCEPT ![r] = Append(rows[r], verdict[r])] /\ UNCHANGED <<status, verdict>>
      BY <1>7 DEF AmendRow
    <3>2. pc' = [pc EXCEPT ![r] = "amendSet"] /\ pc[r] = "amendRow"
      BY <1>7 DEF AmendRow
    <3>3. rows[r] \in {<<>>, <<"INTERRUPTED">>}
      BY <1>1, <3>2
    <3>4. verdict[r] \in RunStatus /\ "INTERRUPTED" \in RunStatus
      BY <1>1, <3>2 DEF RunStatus, NotTerminal, ArmingEnds
    <3>5. rows'[r] \in RowsOf(verdict[r])
      <4>1. CASE rows[r] = <<>>
        BY <1>1, <3>1, <4>1, AppendToNone
      <4>2. CASE rows[r] = <<"INTERRUPTED">>
        <5>1. Append(rows[r], verdict[r]) = <<"INTERRUPTED", verdict[r]>>
          BY <3>4, <4>2, AppendToOne
        <5> QED
          BY <1>1, <3>1, <5>1
      <4> QED
        BY <3>3, <4>1, <4>2
    <3> QED
      BY <1>1, <2>2, <3>1, <3>2, <3>5
  <2> QED
    BY <2>1, <2>2
<1>8. ASSUME NEW r \in Runs, RefusalRow(r)
      PROVE  \A s \in Runs : ByPlace(s)'
  <2> SUFFICES ASSUME NEW s \in Runs PROVE ByPlace(s)'
    OBVIOUS
  <2>1. CASE s # r
    BY <1>1, <1>8, <2>1 DEF RefusalRow
  <2>2. CASE s = r
    <3>1. rows' = [rows EXCEPT ![r] = Append(rows[r], verdict[r])] /\ UNCHANGED <<status, verdict>>
      BY <1>8 DEF RefusalRow
    <3>2. pc' = [pc EXCEPT ![r] = "done"] /\ pc[r] = "refused"
      BY <1>8 DEF RefusalRow
    <3>3. rows[r] \in {<<>>}
      BY <1>1, <3>2
    <3>4. verdict[r] \in RunStatus /\ "INTERRUPTED" \in RunStatus
      BY <1>1, <3>2 DEF RunStatus, NotTerminal, ArmingEnds
    <3>5. rows'[r] \in {<<verdict[r]>>}
      BY <1>1, <3>1, <3>3, <3>4, AppendToNone, AppendToOne
    <3> QED
      BY <1>1, <2>2, <3>1, <3>2, <3>5
  <2> QED
    BY <2>1, <2>2
<1>9. ASSUME NEW r \in Runs, ResolveSecrets(r) \/ Spawn(r)
      PROVE  \A s \in Runs : ByPlace(s)'
  BY <1>1, <1>9
  DEF ResolveSecrets, Spawn
<1>10. ASSUME NEW r \in Runs, StartChild(r) \/ StartSelf(r)
      PROVE  \A s \in Runs : ByPlace(s)'
  BY <1>1, <1>10
  DEF StartChild, StartSelf
<1>11. ASSUME NEW r \in Runs, Collect(r)
      PROVE  \A s \in Runs : ByPlace(s)'
  <2>1. PICK outcome \in TrueOutcomes : verdict' = [verdict EXCEPT ![r] = outcome]
    BY <1>1, <1>11 DEF Collect
  <2>2. pc[r] = "exec" /\ pc' = [pc EXCEPT ![r] = "finish"] /\ UNCHANGED record
    BY <1>11 DEF Collect
  <2> QED
    BY <1>1, <2>1, <2>2
<1>12. ASSUME NEW r \in Runs, Complete(r)
      PROVE  \A s \in Runs : ByPlace(s)'
  BY <1>1, <1>12
  DEF Complete
<1>13. ASSUME NEW r \in Runs, Finish(r)
      PROVE  \A s \in Runs : ByPlace(s)'
  BY <1>1, <1>13
  DEF Finish
<1>14. ASSUME NEW r \in Runs, EnterAmend(r)
      PROVE  \A s \in Runs : ByPlace(s)'
  BY <1>1, <1>14
  DEF EnterAmend
<1>15. ASSUME NEW r \in Runs, AmendSet(r)
      PROVE  \A s \in Runs : ByPlace(s)'
  BY <1>1, <1>15
  DEF AmendSet
<1>16. ASSUME NEW r \in Runs, NoteFalseBreaker(r)
      PROVE  \A s \in Runs : ByPlace(s)'
  <2>1. /\ pc[r] = "note" /\ pc' = [pc EXCEPT ![r] = "breaker"]
        /\ UNCHANGED <<verdict, record>>
    BY <1>16 DEF NoteFalseBreaker
  <2> QED
    BY <1>1, <2>1
<1>17. ASSUME NEW r \in Runs, ApplyBreaker(r) \/ BreakerPause(r) \/ BreakerAlert(r)
      PROVE  \A s \in Runs : ByPlace(s)'
  BY <1>1, <1>17
  DEF ApplyBreaker, BreakerPause, BreakerAlert
<1>18. ASSUME NEW r \in Runs, RunnerDies(r)
      PROVE  \A s \in Runs : ByPlace(s)'
  <2>1. UNCHANGED <<verdict, record>> /\ pc' = [pc EXCEPT ![r] = "dead"]
    BY <1>18 DEF RunnerDies
  <2> SUFFICES ASSUME NEW s \in Runs PROVE ByPlace(s)'
    OBVIOUS
  <2>2. CASE s # r
    BY <1>1, <2>1, <2>2
  <2>3. CASE s = r /\ pc[r] = "amendSet"
    BY <1>1, <2>1, <2>3
  <2>4. CASE s = r /\ pc[r] # "amendSet"
    BY <1>1, <2>1, <2>4
  <2> QED
    BY <2>2, <2>3, <2>4
<1>19. CASE TickClose
  BY <1>1, <1>19
  DEF TickClose
<1>20. CASE TickRow
  BY <1>1, <1>20
  DEF TickRow
<1>21. CASE KillSignal
  <2>1. /\ UNCHANGED <<verdict, record>>
        /\ pc' = pc \/ (victim \in Runs /\ pc' = [pc EXCEPT ![victim] = "dead"])
    BY <1>1, <1>21 DEF KillSignal
  <2> QED
    BY <1>1, <2>1
<1>22. ASSUME NEW r \in Runs, ChildExit(r) \/ Age(r) \/ KillCheck(r)
      PROVE  \A s \in Runs : ByPlace(s)'
  BY <1>1, <1>22
  DEF ChildExit, Age, KillCheck
<1>23. CASE TickScan \/ TickEnter \/ TickApplyBreaker \/ TickPause \/ TickAlert \/
           TickEnd \/ TickDies \/ KillMark \/ PauseChore \/ ResumeChore \/
           PauseAll \/ ResumeAll
  BY <1>1, <1>23
  DEF TickScan, TickEnter, TickApplyBreaker, TickPause, TickAlert, TickEnd,
      TickDies, KillMark, PauseChore, ResumeChore, PauseAll, ResumeAll
<1>24. ASSUME NEW r \in Runs, NEW seen \in {"PENDING", "RUNNING"},
             TickJudge(r, seen)
      PROVE  \A s \in Runs : ByPlace(s)'
  BY <1>1, <1>24
  DEF TickJudge
<1> HIDE DEF RunnerTyped, RecordTyped, LockMatches, TickInv, KillInv, ByPlace,
             ByStatus, Open, RowsOf, HoldsLock, TickHoldsLock, Quit, Working,
             Absent, TrueOutcomes, RunTerminal, Failures, Refusals, runner,
             record, process, breaker, others, tick, kill, Goto, Settle,
             Acquire, Release, Transition, AppendLedger, Halt, Rest, TickGoto
<1> QED
  BY <1>2, <1>3, <1>4, <1>5, <1>6, <1>7, <1>8, <1>9, <1>10, <1>11, <1>12,
     <1>13, <1>14, <1>15, <1>16, <1>17, <1>18, <1>19, <1>20, <1>21, <1>22,
     <1>23, <1>24
  DEF Next, RunnerStep, TickStep, OperatorStep


(* The rows of a run fit the status of its record, whoever moves.          *)
LEMMA ByStatusKept == IInv /\ [Next]_vars => \A s \in Runs : ByStatus(s)'
<1> SUFFICES ASSUME IInv, [Next]_vars PROVE \A s \in Runs : ByStatus(s)'
  OBVIOUS
<1>1. /\ RunnerTyped /\ RecordTyped /\ LockMatches /\ TickInv /\ KillInv
      /\ \A r \in Runs : ByPlace(r) /\ ByStatus(r)
      /\ Outcomes \subseteq TrueOutcomes
      /\ Tick \notin Runs /\ NobodyHolds \notin Runs /\ Tick # NobodyHolds
  BY RunsAssumption, ActorsAssumption
  DEF IInv, TypeOK, Tick, NobodyHolds
<1> USE DEF RunnerTyped, RecordTyped, LockMatches, TickInv, KillInv, ByPlace,
            ByStatus, Open, RowsOf, HoldsLock, TickHoldsLock, Quit, Working,
            Absent, TrueOutcomes, RunTerminal, Failures, Refusals, runner,
            record, process, breaker, others, tick, kill, Goto, Settle,
            Acquire, Release, Transition, AppendLedger, Halt, Rest, TickGoto
<1>2. CASE UNCHANGED vars
  BY <1>1, <1>2
  DEF vars
<1>3. ASSUME NEW r \in Runs, Launch(r) \/ Enter(r)
      PROVE  \A s \in Runs : ByStatus(s)'
  BY <1>1, <1>3
  DEF Launch, Enter
<1>4. ASSUME NEW r \in Runs, Admit(r)
      PROVE  \A s \in Runs : ByStatus(s)'
  BY <1>1, <1>4
  DEF Admit
<1>5. ASSUME NEW r \in Runs, Refuse(r) \/ WritePending(r)
      PROVE  \A s \in Runs : ByStatus(s)'
  BY <1>1, <1>5
  DEF Refuse, WritePending
<1>6. ASSUME NEW r \in Runs, FinishRow(r)
      PROVE  \A s \in Runs : ByStatus(s)'
  <2> SUFFICES ASSUME NEW s \in Runs PROVE ByStatus(s)'
    OBVIOUS
  <2>1. CASE s # r
    BY <1>1, <1>6, <2>1 DEF FinishRow
  <2>2. CASE s = r
    <3>1. rows' = [rows EXCEPT ![r] = Append(rows[r], verdict[r])] /\ UNCHANGED <<status, verdict>>
      BY <1>6 DEF FinishRow
    <3>2. pc' = [pc EXCEPT ![r] = "breaker"] /\ pc[r] = "row"
      BY <1>6 DEF FinishRow
    <3>3. rows[r] \in {<<>>}
      BY <1>1, <3>2
    <3>4. verdict[r] \in RunStatus /\ "INTERRUPTED" \in RunStatus
      BY <1>1, <3>2 DEF RunStatus, NotTerminal, ArmingEnds
    <3>5. rows'[r] \in RowsOf(verdict[r])
      BY <1>1, <3>1, <3>3, <3>4, AppendToNone, AppendToOne
    <3> QED
      BY <1>1, <2>2, <3>1, <3>2, <3>5
  <2> QED
    BY <2>1, <2>2
<1>7. ASSUME NEW r \in Runs, AmendRow(r)
      PROVE  \A s \in Runs : ByStatus(s)'
  <2> SUFFICES ASSUME NEW s \in Runs PROVE ByStatus(s)'
    OBVIOUS
  <2>1. CASE s # r
    BY <1>1, <1>7, <2>1 DEF AmendRow
  <2>2. CASE s = r
    <3>1. rows' = [rows EXCEPT ![r] = Append(rows[r], verdict[r])] /\ UNCHANGED <<status, verdict>>
      BY <1>7 DEF AmendRow
    <3>2. pc' = [pc EXCEPT ![r] = "amendSet"] /\ pc[r] = "amendRow"
      BY <1>7 DEF AmendRow
    <3>3. rows[r] \in {<<>>, <<"INTERRUPTED">>}
      BY <1>1, <3>2
    <3>4. verdict[r] \in RunStatus /\ "INTERRUPTED" \in RunStatus
      BY <1>1, <3>2 DEF RunStatus, NotTerminal, ArmingEnds
    <3>5. rows'[r] \in RowsOf(verdict[r])
      <4>1. CASE rows[r] = <<>>
        BY <1>1, <3>1, <4>1, AppendToNone
      <4>2. CASE rows[r] = <<"INTERRUPTED">>
        <5>1. Append(rows[r], verdict[r]) = <<"INTERRUPTED", verdict[r]>>
          BY <3>4, <4>2, AppendToOne
        <5> QED
          BY <1>1, <3>1, <5>1
      <4> QED
        BY <3>3, <4>1, <4>2
    <3> QED
      BY <1>1, <2>2, <3>1, <3>2, <3>5
  <2> QED
    BY <2>1, <2>2
<1>8. ASSUME NEW r \in Runs, RefusalRow(r)
      PROVE  \A s \in Runs : ByStatus(s)'
  <2> SUFFICES ASSUME NEW s \in Runs PROVE ByStatus(s)'
    OBVIOUS
  <2>1. CASE s # r
    BY <1>1, <1>8, <2>1 DEF RefusalRow
  <2>2. CASE s = r
    <3>1. rows' = [rows EXCEPT ![r] = Append(rows[r], verdict[r])] /\ UNCHANGED <<status, verdict>>
      BY <1>8 DEF RefusalRow
    <3>2. pc' = [pc EXCEPT ![r] = "done"] /\ pc[r] = "refused"
      BY <1>8 DEF RefusalRow
    <3>3. rows[r] \in {<<>>}
      BY <1>1, <3>2
    <3>4. verdict[r] \in RunStatus /\ "INTERRUPTED" \in RunStatus
      BY <1>1, <3>2 DEF RunStatus, NotTerminal, ArmingEnds
    <3>5. rows'[r] \in {<<verdict[r]>>}
      BY <1>1, <3>1, <3>3, <3>4, AppendToNone, AppendToOne
    <3> QED
      BY <1>1, <2>2, <3>1, <3>2, <3>5
  <2> QED
    BY <2>1, <2>2
<1>9. ASSUME NEW r \in Runs, ResolveSecrets(r) \/ Spawn(r)
      PROVE  \A s \in Runs : ByStatus(s)'
  BY <1>1, <1>9
  DEF ResolveSecrets, Spawn
<1>10. ASSUME NEW r \in Runs, StartChild(r) \/ StartSelf(r)
      PROVE  \A s \in Runs : ByStatus(s)'
  BY <1>1, <1>10
  DEF StartChild, StartSelf
<1>11. ASSUME NEW r \in Runs, Collect(r)
      PROVE  \A s \in Runs : ByStatus(s)'
  <2>1. PICK outcome \in TrueOutcomes : verdict' = [verdict EXCEPT ![r] = outcome]
    BY <1>1, <1>11 DEF Collect
  <2>2. pc[r] = "exec" /\ pc' = [pc EXCEPT ![r] = "finish"] /\ UNCHANGED record
    BY <1>11 DEF Collect
  <2> QED
    BY <1>1, <2>1, <2>2
<1>12. ASSUME NEW r \in Runs, Complete(r)
      PROVE  \A s \in Runs : ByStatus(s)'
  BY <1>1, <1>12
  DEF Complete
<1>13. ASSUME NEW r \in Runs, Finish(r)
      PROVE  \A s \in Runs : ByStatus(s)'
  BY <1>1, <1>13
  DEF Finish
<1>14. ASSUME NEW r \in Runs, EnterAmend(r)
      PROVE  \A s \in Runs : ByStatus(s)'
  BY <1>1, <1>14
  DEF EnterAmend
<1>15. ASSUME NEW r \in Runs, AmendSet(r)
      PROVE  \A s \in Runs : ByStatus(s)'
  BY <1>1, <1>15
  DEF AmendSet
<1>16. ASSUME NEW r \in Runs, NoteFalseBreaker(r)
      PROVE  \A s \in Runs : ByStatus(s)'
  <2>1. /\ pc[r] = "note" /\ pc' = [pc EXCEPT ![r] = "breaker"]
        /\ UNCHANGED <<verdict, record>>
    BY <1>16 DEF NoteFalseBreaker
  <2> QED
    BY <1>1, <2>1
<1>17. ASSUME NEW r \in Runs, ApplyBreaker(r) \/ BreakerPause(r) \/ BreakerAlert(r)
      PROVE  \A s \in Runs : ByStatus(s)'
  BY <1>1, <1>17
  DEF ApplyBreaker, BreakerPause, BreakerAlert
<1>18. ASSUME NEW r \in Runs, RunnerDies(r)
      PROVE  \A s \in Runs : ByStatus(s)'
  <2>1. UNCHANGED <<verdict, record>> /\ pc' = [pc EXCEPT ![r] = "dead"]
    BY <1>18 DEF RunnerDies
  <2> SUFFICES ASSUME NEW s \in Runs PROVE ByStatus(s)'
    OBVIOUS
  <2>2. CASE s # r
    BY <1>1, <2>1, <2>2
  <2>3. CASE s = r /\ pc[r] = "amendSet"
    BY <1>1, <2>1, <2>3
  <2>4. CASE s = r /\ pc[r] # "amendSet"
    BY <1>1, <2>1, <2>4
  <2> QED
    BY <2>2, <2>3, <2>4
<1>19. CASE TickClose
  BY <1>1, <1>19
  DEF TickClose
<1>20. CASE TickRow
  BY <1>1, <1>20
  DEF TickRow
<1>21. CASE KillSignal
  <2>1. /\ UNCHANGED <<verdict, record>>
        /\ pc' = pc \/ (victim \in Runs /\ pc' = [pc EXCEPT ![victim] = "dead"])
    BY <1>1, <1>21 DEF KillSignal
  <2> SUFFICES ASSUME NEW s \in Runs PROVE ByStatus(s)'
    OBVIOUS
  <2>2. CASE pc'[s] = pc[s]
    BY <1>1, <2>1, <2>2
  <2>3. CASE s = victim /\ pc' = [pc EXCEPT ![victim] = "dead"]
    BY <1>1, <2>1, <2>3
  <2> QED
    BY <1>1, <2>1, <2>2, <2>3
<1>22. ASSUME NEW r \in Runs, ChildExit(r) \/ Age(r) \/ KillCheck(r)
      PROVE  \A s \in Runs : ByStatus(s)'
  BY <1>1, <1>22
  DEF ChildExit, Age, KillCheck
<1>23. CASE TickScan \/ TickEnter \/ TickApplyBreaker \/ TickPause \/ TickAlert \/
           TickEnd \/ TickDies \/ KillMark \/ PauseChore \/ ResumeChore \/
           PauseAll \/ ResumeAll
  BY <1>1, <1>23
  DEF TickScan, TickEnter, TickApplyBreaker, TickPause, TickAlert, TickEnd,
      TickDies, KillMark, PauseChore, ResumeChore, PauseAll, ResumeAll
<1>24. ASSUME NEW r \in Runs, NEW seen \in {"PENDING", "RUNNING"},
             TickJudge(r, seen)
      PROVE  \A s \in Runs : ByStatus(s)'
  BY <1>1, <1>24
  DEF TickJudge
<1> HIDE DEF RunnerTyped, RecordTyped, LockMatches, TickInv, KillInv, ByPlace,
             ByStatus, Open, RowsOf, HoldsLock, TickHoldsLock, Quit, Working,
             Absent, TrueOutcomes, RunTerminal, Failures, Refusals, runner,
             record, process, breaker, others, tick, kill, Goto, Settle,
             Acquire, Release, Transition, AppendLedger, Halt, Rest, TickGoto
<1> QED
  BY <1>2, <1>3, <1>4, <1>5, <1>6, <1>7, <1>8, <1>9, <1>10, <1>11, <1>12,
     <1>13, <1>14, <1>15, <1>16, <1>17, <1>18, <1>19, <1>20, <1>21, <1>22,
     <1>23, <1>24
  DEF Next, RunnerStep, TickStep, OperatorStep


(* The tick closes a run of the chore, and the run it is about to charge   *)
(* is INTERRUPTED and not charged yet.                                     *)
LEMMA TickKept == IInv /\ [Next]_vars => TickInv'
<1> SUFFICES ASSUME IInv, [Next]_vars PROVE TickInv'
  OBVIOUS
<1>1. /\ TickInv /\ LockMatches /\ RecordTyped
      /\ scan \subseteq Runs \X {"PENDING", "RUNNING"}
      /\ \A r \in Runs : ByPlace(r) /\ ByStatus(r)
      /\ Tick \notin Runs /\ NobodyHolds \notin Runs /\ Tick # NobodyHolds
  BY RunsAssumption, ActorsAssumption
  DEF IInv, TypeOK, TickTyped, Tick, NobodyHolds
<1> USE DEF TickInv, LockMatches, HoldsLock, TickHoldsLock, RecordTyped,
            ByPlace, ByStatus, Open, Absent, TrueOutcomes, RunTerminal,
            Failures, Refusals, runner, record, process, breaker, others,
            tick, kill, Goto, Settle, Acquire, Release, Transition,
            AppendLedger, Halt, Rest, TickGoto
<1>2. CASE UNCHANGED vars
  BY <1>1, <1>2
  DEF vars
<1>3. CASE TickClose
  BY <1>1, <1>3
  DEF TickClose
<1>4. CASE TickRow
  BY <1>1, <1>4
  DEF TickRow
<1>5. ASSUME NEW r \in Runs, RefusalRow(r) \/ FinishRow(r) \/ AmendRow(r)
      PROVE  TickInv'
  BY <1>1, <1>5
  DEF RefusalRow, FinishRow, AmendRow
<1>6. ASSUME NEW r \in Runs, Refuse(r) \/ WritePending(r)
      PROVE  TickInv'
  BY <1>1, <1>6
  DEF Refuse, WritePending
<1>7. ASSUME NEW r \in Runs, StartChild(r) \/ StartSelf(r) \/ Finish(r) \/
           AmendSet(r)
      PROVE  TickInv'
  BY <1>1, <1>7
  DEF StartChild, StartSelf, Finish, AmendSet
<1>8. ASSUME NEW r \in Runs, Launch(r) \/ Enter(r) \/ Admit(r) \/
           ResolveSecrets(r) \/ Spawn(r) \/ Collect(r) \/ Complete(r) \/
           EnterAmend(r) \/ NoteFalseBreaker(r) \/ ApplyBreaker(r) \/
           BreakerPause(r) \/ BreakerAlert(r) \/ ChildExit(r) \/ Age(r) \/
           RunnerDies(r) \/ KillCheck(r)
      PROVE  TickInv'
  BY <1>1, <1>8
  DEF Launch, Enter, Admit, ResolveSecrets, Spawn, Collect, Complete,
      EnterAmend, NoteFalseBreaker, ApplyBreaker, BreakerPause, BreakerAlert,
      ChildExit, Age, RunnerDies, KillCheck
<1>9. CASE TickScan \/ TickEnter \/ TickApplyBreaker \/ TickPause \/ TickAlert \/
           TickEnd \/ TickDies \/ KillMark \/ KillSignal \/ PauseChore \/
           ResumeChore \/ PauseAll \/ ResumeAll
  BY <1>1, <1>9
  DEF TickScan, TickEnter, TickApplyBreaker, TickPause, TickAlert, TickEnd,
      TickDies, KillMark, KillSignal, PauseChore, ResumeChore, PauseAll,
      ResumeAll
<1>10. ASSUME NEW r \in Runs, NEW seen \in {"PENDING", "RUNNING"},
             TickJudge(r, seen)
      PROVE  TickInv'
  BY <1>1, <1>10
  DEF TickJudge
<1> HIDE DEF TickInv, LockMatches, HoldsLock, TickHoldsLock, RecordTyped,
             ByPlace, ByStatus, Open, Absent, TrueOutcomes, RunTerminal,
             Failures, Refusals, runner, record, process, breaker, others,
             tick, kill, Goto, Settle, Acquire, Release, Transition,
             AppendLedger, Halt, Rest, TickGoto
<1> QED
  BY <1>2, <1>3, <1>4, <1>5, <1>6, <1>7, <1>8, <1>9, <1>10
  DEF Next, RunnerStep, TickStep, OperatorStep


-----------------------------------------------------------------------------
(* The processes start with nothing recorded and nothing held.             *)
LEMMA InitInv == Init => IInv
<1> SUFFICES ASSUME Init PROVE IInv
  OBVIOUS
<1> USE ActorsAssumption DEF Init, Tick, NobodyHolds, Absent
<1>1. RunnerTyped /\ ProcessTyped
  BY DEF RunnerTyped, ProcessTyped, RunnerPlaces, Quit
<1>2. RecordTyped
  <2>1. \A S : <<>> \in Seq(S)
    OBVIOUS
  <2> QED
    BY <2>1 DEF RecordTyped
<1>3. ControlTyped
  <2>1. MaxCrashes \in Nat
    BY RunsAssumption
  <2>2. 0 \in 0 .. MaxCrashes
    BY <2>1
  <2> QED
    BY <2>2 DEF ControlTyped
<1>4. TickTyped /\ KillTyped
  BY DEF TickTyped, KillTyped, TickPlaces
<1>5. LockMatches
  BY DEF LockMatches, HoldsLock, TickHoldsLock
<1>6. \A r \in Runs : ByPlace(r) /\ ByStatus(r)
  BY DEF ByPlace, ByStatus, Open, TrueOutcomes, RunTerminal, Failures, Refusals
<1>7. TickInv /\ KillInv
  BY DEF TickInv, KillInv
<1> QED
  BY <1>1, <1>2, <1>3, <1>4, <1>5, <1>6, <1>7 DEF IInv, TypeOK

(* IInv is inductive.                                                      *)
LEMMA IInvKept == IInv /\ [Next]_vars => IInv'
  BY RunnerTypedKept, RecordTypedKept, ProcessTypedKept, ControlTypedKept,
     TickTypedKept, KillKept, LockKept, ByPlaceKept, ByStatusKept, TickKept
  DEF IInv, TypeOK

(* Every reachable state satisfies it.                                     *)
THEOREM Invariance == Spec => []IInv
  BY InitInv, IInvKept, PTL DEF Spec

(* Every variable has its type in every reachable state.                   *)
THEOREM TypeCorrect == Spec => []TypeOK
<1>1. IInv => TypeOK
  BY DEF IInv
<1> QED
  BY Invariance, <1>1, PTL

(* No run is charged twice: the lock keeps the amending row behind the     *)
(* tick's, and the check-and-sets keep every other second row away,        *)
(* whatever crashes and however many runs there are.                       *)
THEOREM RunsAreNeverChargedTwice == Spec => []NeverChargedTwice
<1>1. IInv => NeverChargedTwice
  <2> SUFFICES ASSUME IInv, NEW r \in Runs
      PROVE  \/ rows[r] = <<>>
             \/ Len(rows[r]) = 1
             \/ /\ Len(rows[r]) = 2
                /\ rows[r][1] = "INTERRUPTED" /\ rows[r][2] \in TrueOutcomes
    BY DEF NeverChargedTwice
  <2>1. ByPlace(r) /\ ByStatus(r)
    BY DEF IInv
  <2>2. \/ rows[r] = <<>>
        \/ \E v : rows[r] = <<v>>
        \/ \E v \in TrueOutcomes : rows[r] = <<"INTERRUPTED", v>>
    BY <2>1 DEF ByPlace, ByStatus, Open, RowsOf, TrueOutcomes, RunTerminal, Failures, Absent
  <2>3. ASSUME NEW v, rows[r] = <<v>> PROVE Len(rows[r]) = 1
    BY <2>3
  <2>4. ASSUME NEW v \in TrueOutcomes, rows[r] = <<"INTERRUPTED", v>>
        PROVE  Len(rows[r]) = 2 /\ rows[r][1] = "INTERRUPTED" /\ rows[r][2] = v
    BY <2>4
  <2> QED
    BY <2>2, <2>3, <2>4
<1> QED
  BY Invariance, <1>1, PTL

(* The last element of a sequence of one or two.                           *)
LEMMA LastOfShort ==
  /\ \A v : <<v>> # <<>> /\ <<v>>[Len(<<v>>)] = v
  /\ \A u, v : <<u, v>> # <<>> /\ <<u, v>>[Len(<<u, v>>)] = v
<1>1. ASSUME NEW v PROVE <<v>> # <<>> /\ <<v>>[Len(<<v>>)] = v
  OBVIOUS
<1>2. ASSUME NEW u, NEW v PROVE <<u, v>> # <<>> /\ <<u, v>>[Len(<<u, v>>)] = v
  OBVIOUS
<1> QED
  BY <1>1, <1>2

(* The newest row of an amended or plainly finished run is its outcome.    *)
LEMMA LastOfRowsOf ==
  ASSUME NEW v, NEW row \in RowsOf(v) PROVE row # <<>> /\ row[Len(row)] = v
<1>1. row = <<v>> \/ row = <<"INTERRUPTED", v>>
  BY DEF RowsOf
<1> QED
  BY <1>1, LastOfShort

(* The ledger never contradicts the record, except in the one window of an *)
(* amendment and after a death exactly there.                              *)
THEOREM LedgerAgreement == Spec => []LedgerAgrees
<1>1. IInv => LedgerAgrees
  <2> SUFFICES ASSUME IInv, NEW r \in Runs, rows[r] # <<>>
      PROVE  \/ rows[r][Len(rows[r])] = status[r]
             \/ /\ status[r] = "INTERRUPTED"
                /\ pc[r] = "dead" \/ (pc[r] = "amendSet" /\ lock = r)
    BY DEF LedgerAgrees
  <2>1. ByStatus(r) /\ (pc[r] = "amendSet" => lock = r)
    BY DEF IInv, LockMatches, HoldsLock
  <2>2. CASE status[r] = "INTERRUPTED"
    BY <2>1, <2>2, LastOfShort DEF ByStatus
  <2>3. CASE status[r] \in Open
    BY <2>1, <2>3 DEF ByStatus
  <2>4. CASE status[r] \in TrueOutcomes
    <3>1. rows[r] \in RowsOf(status[r])
      BY <2>1, <2>4 DEF ByStatus
    <3> QED
      BY <3>1, LastOfRowsOf
  <2>5. CASE status[r] \in Refusals
    BY <2>1, <2>5, LastOfShort DEF ByStatus
  <2> QED
    BY <2>1, <2>2, <2>3, <2>4, <2>5 DEF ByStatus, TrueOutcomes
<1> QED
  BY Invariance, <1>1, PTL

(* What a settled run without a row is waiting for, or will wait for in    *)
(* vain.                                                                   *)
Owed(s) ==
  status[s] \in RunTerminal \cup Refusals /\ rows[s] = <<>> =>
    \/ pc[s] \in {"refused", "row"}
    \/ tickPc = "row" /\ suspect = s
    \/ IF status[s] = "INTERRUPTED" THEN crashes > 0 ELSE pc[s] = "dead"

(* Whoever leaves the place where it owes a row has written it or dies.    *)
LEMMA OwedKept ==
  IInv /\ (\A s \in Runs : Owed(s)) /\ [Next]_vars => \A s \in Runs : Owed(s)'
<1> SUFFICES ASSUME IInv, \A s \in Runs : Owed(s), [Next]_vars
             PROVE  \A s \in Runs : Owed(s)'
  OBVIOUS
<1>1. /\ RunnerTyped /\ RecordTyped /\ LockMatches /\ TickInv /\ KillInv
      /\ crashes \in Nat
      /\ \A r \in Runs : ByPlace(r) /\ Owed(r)
      /\ Tick \notin Runs
  BY RunsAssumption, ActorsAssumption
  DEF IInv, TypeOK, ControlTyped
<1>a. \A q \in Seq(RunTerminal \cup Refusals) : \A v \in RunTerminal \cup Refusals :
        Append(q, v) # <<>>
  BY AppendProperties
<1> USE DEF RunnerTyped, RecordTyped, LockMatches, TickInv, KillInv, HoldsLock, TickHoldsLock,
            RowsOf, Absent, TrueOutcomes, RunTerminal, Failures, Refusals,
            runner, record, process, breaker, others, tick, kill, Goto, Settle,
            Acquire, Release, Transition, Halt, Rest, TickGoto
<1>f. ASSUME NEW s \in Runs, status'[s] = status[s], rows'[s] = rows[s],
             pc'[s] = pc[s] \/ pc[s] \notin {"refused", "row", "dead"},
             UNCHANGED <<tickPc, suspect, crashes>>
      PROVE  Owed(s)'
  <2>1. Owed(s)
    BY <1>1
  <2> QED
    BY <1>f, <2>1 DEF Owed
<1>2. CASE UNCHANGED vars
  BY <1>2, <1>f
  DEF vars
<1>3. ASSUME NEW r \in Runs, Refuse(r)
      PROVE  \A s \in Runs : Owed(s)'
  <2>1. Owed(r)'
    BY <1>1, <1>3 DEF Refuse, Owed
  <2>2. ASSUME NEW s \in Runs, s # r PROVE Owed(s)'
    BY <1>1, <1>3, <1>f, <2>2 DEF Refuse
  <2> QED
    BY <2>1, <2>2
<1>4. ASSUME NEW r \in Runs, Finish(r)
      PROVE  \A s \in Runs : Owed(s)'
  <2>1. CASE status[r] = "RUNNING"
    <3>1. pc'[r] = "row"
      BY <1>1, <1>4, <2>1 DEF Finish
    <3>2. ASSUME NEW s \in Runs, s # r PROVE Owed(s)'
      BY <1>1, <1>4, <1>f, <2>1, <3>2 DEF Finish
    <3> QED
      BY <3>1, <3>2 DEF Owed
  <2>2. CASE status[r] # "RUNNING"
    BY <1>1, <1>4, <1>f, <2>2 DEF Finish
  <2> QED
    BY <2>1, <2>2
<1>5. ASSUME NEW r \in Runs, WritePending(r)
      PROVE  \A s \in Runs : Owed(s)'
  <2>1. status'[r] = "PENDING"
    BY <1>1, <1>5 DEF WritePending
  <2>2. ASSUME NEW s \in Runs, s # r PROVE Owed(s)'
    BY <1>1, <1>5, <1>f, <2>2 DEF WritePending
  <2> QED
    BY <2>1, <2>2 DEF Owed
<1>6. ASSUME NEW r \in Runs, StartChild(r) \/ StartSelf(r)
      PROVE  \A s \in Runs : Owed(s)'
  <2>1. CASE status[r] = "PENDING"
    <3>1. status'[r] = "RUNNING"
      BY <1>1, <1>6, <2>1 DEF StartChild, StartSelf
    <3>2. ASSUME NEW s \in Runs, s # r PROVE Owed(s)'
      BY <1>1, <1>6, <1>f, <2>1, <3>2 DEF StartChild, StartSelf
    <3> QED
      BY <3>1, <3>2 DEF Owed
  <2>2. CASE status[r] # "PENDING"
    <3>1. UNCHANGED <<status, rows>> /\ pc[r] \in {"claim", "own"}
      BY <1>6, <2>2 DEF StartChild, StartSelf
    <3> QED
      BY <1>1, <1>6, <1>f, <3>1 DEF StartChild, StartSelf
  <2> QED
    BY <2>1, <2>2
<1>7. ASSUME NEW r \in Runs, RefusalRow(r) \/ FinishRow(r) \/ AmendRow(r)
      PROVE  \A s \in Runs : Owed(s)'
  <2>1. /\ rows' = [rows EXCEPT ![r] = Append(@, verdict[r])]
        /\ UNCHANGED <<status, tickPc, suspect, crashes>>
        /\ \A s \in Runs : s # r => pc'[s] = pc[s]
    BY <1>1, <1>7 DEF RefusalRow, FinishRow, AmendRow, AppendLedger
  <2>2. verdict[r] \in RunTerminal \cup Refusals
    BY <1>1, <1>7 DEF RefusalRow, FinishRow, AmendRow, ByPlace
  <2>3. rows'[r] # <<>>
    <3>1. rows'[r] = Append(rows[r], verdict[r]) /\ rows[r] \in Seq(RunTerminal \cup Refusals)
      BY <1>1, <2>1
    <3> QED
      BY <1>a, <2>2, <3>1, Zenon
  <2>5. \A s \in Runs : s # r => rows'[s] = rows[s]
    BY <1>1, <2>1
  <2>4. ASSUME NEW s \in Runs PROVE Owed(s)'
    <3>1. CASE s = r
      BY <2>3, <3>1 DEF Owed
    <3>2. CASE s # r
      BY <1>f, <2>1, <2>5, <3>2
    <3> QED
      BY <3>1, <3>2
  <2> QED
    BY <2>4
<1>8. ASSUME NEW r \in Runs, AmendSet(r)
      PROVE  \A s \in Runs : Owed(s)'
  <2>1. rows[r] \in RowsOf(verdict[r]) /\ UNCHANGED rows
    BY <1>1, <1>8 DEF AmendSet, ByPlace
  <2>2. rows'[r] # <<>>
    BY <2>1, LastOfRowsOf
  <2> QED
    BY <1>1, <1>8, <1>f, <2>2 DEF AmendSet, Owed
<1>9. CASE TickClose
  BY <1>1, <1>9
  DEF TickClose, Owed
<1>10. CASE TickRow
  <2>1. /\ suspect \in Runs /\ tickPc = "row" /\ rows[suspect] = <<>>
        /\ rows' = [rows EXCEPT ![suspect] = Append(@, "INTERRUPTED")]
        /\ UNCHANGED <<status, pc, crashes>>
    BY <1>1, <1>10 DEF TickRow, AppendLedger
  <2>2. rows'[suspect] = <<"INTERRUPTED">> /\ \A s \in Runs : s # suspect => rows'[s] = rows[s]
    BY <1>1, <2>1, AppendToNone
  <2>3. ASSUME NEW s \in Runs PROVE Owed(s)'
    <3>1. CASE s = suspect
      <4>1. rows'[s] # <<>>
        BY <2>2, <3>1
      <4> QED
        BY <4>1 DEF Owed
    <3>2. CASE s # suspect
      BY <1>1, <2>1, <2>2, <3>2 DEF Owed
    <3> QED
      BY <3>1, <3>2
  <2> QED
    BY <2>3
<1>11. ASSUME NEW r \in Runs, Launch(r) \/ Enter(r)
      PROVE  \A s \in Runs : Owed(s)'
  BY <1>1, <1>11, <1>f
  DEF Launch, Enter
<1>12. ASSUME NEW r \in Runs, Admit(r)
      PROVE  \A s \in Runs : Owed(s)'
  BY <1>1, <1>12, <1>f
  DEF Admit
<1>13. ASSUME NEW r \in Runs, ResolveSecrets(r) \/ Spawn(r)
      PROVE  \A s \in Runs : Owed(s)'
  BY <1>1, <1>13, <1>f
  DEF ResolveSecrets, Spawn
<1>14. ASSUME NEW r \in Runs, Collect(r) \/ Complete(r)
      PROVE  \A s \in Runs : Owed(s)'
  <2>1. pc[r] = "exec" /\ UNCHANGED <<status, rows, tickPc, suspect, crashes>>
    BY <1>14 DEF Collect, Complete
  <2>2. \A s \in Runs : s # r => pc'[s] = pc[s]
    BY <1>1, <1>14 DEF Collect, Complete
  <2> QED
    BY <1>f, <2>1, <2>2
<1>15. ASSUME NEW r \in Runs, EnterAmend(r) \/ NoteFalseBreaker(r)
      PROVE  \A s \in Runs : Owed(s)'
  <2>1. CASE EnterAmend(r)
    BY <1>1, <1>f, <2>1 DEF EnterAmend
  <2>2. CASE NoteFalseBreaker(r)
    <3>1. pc[r] = "note" /\ Goto(r, "breaker") /\ UNCHANGED <<record, others>>
      BY <2>2, Zenon DEF NoteFalseBreaker
    <3>2. UNCHANGED <<status, rows, tickPc, suspect, crashes>>
      BY <3>1
    <3> QED
      BY <1>1, <1>f, <3>1, <3>2
  <2> QED
    BY <1>15, <2>1, <2>2
<1>16. ASSUME NEW r \in Runs, ApplyBreaker(r) \/ BreakerPause(r) \/ BreakerAlert(r)
      PROVE  \A s \in Runs : Owed(s)'
  BY <1>1, <1>16, <1>f
  DEF ApplyBreaker, BreakerPause, BreakerAlert
<1>17. ASSUME NEW r \in Runs, ChildExit(r) \/ Age(r) \/ KillCheck(r)
      PROVE  \A s \in Runs : Owed(s)'
  BY <1>17, <1>f
  DEF ChildExit, Age, KillCheck
<1>18. ASSUME NEW r \in Runs, RunnerDies(r)
      PROVE  \A s \in Runs : Owed(s)'
  <2>1. /\ UNCHANGED <<status, rows, tickPc, suspect>> /\ crashes' = crashes + 1
        /\ pc'[r] = "dead" /\ \A s \in Runs : s # r => pc'[s] = pc[s]
    BY <1>1, <1>18 DEF RunnerDies
  <2>2. Owed(r)'
    BY <1>1, <2>1 DEF Owed
  <2>3. ASSUME NEW s \in Runs, s # r PROVE Owed(s)'
    <3>1. Owed(s) /\ pc'[s] = pc[s]
      BY <1>1, <2>1, <2>3
    <3> QED
      BY <1>1, <2>1, <3>1 DEF Owed
  <2> QED
    BY <2>2, <2>3
<1>19. CASE TickScan \/ TickEnter \/ TickApplyBreaker \/ TickPause \/
           TickAlert \/ TickEnd
  BY <1>1, <1>19
  DEF TickScan, TickEnter, TickApplyBreaker, TickPause, TickAlert, TickEnd, Owed
<1>20. CASE KillMark \/ PauseChore \/ ResumeChore \/ PauseAll \/ ResumeAll
  BY <1>20, <1>f
  DEF KillMark, PauseChore, ResumeChore, PauseAll, ResumeAll
<1>21. CASE TickDies
  <2>1. UNCHANGED <<status, rows, pc>> /\ crashes' = crashes + 1
    BY <1>21 DEF TickDies
  <2> QED
    BY <1>1, <2>1 DEF Owed
<1>22. CASE KillSignal
  <2>1. UNCHANGED <<status, rows, tickPc, suspect, crashes>>
    BY <1>22 DEF KillSignal
  <2>2. \A s \in Runs : pc'[s] = pc[s] \/ (pc'[s] = "dead" /\ pc[s] # "dead")
    BY <1>1, <1>22 DEF KillSignal, Working, Quit
  <2>3. ASSUME NEW s \in Runs, pc[s] \in {"refused", "row"}, pc'[s] = "dead"
        PROVE  Owed(s)'
    <3>1. status[s] # "INTERRUPTED"
      BY <1>1, <2>3 DEF ByPlace
    <3> QED
      BY <2>1, <2>3, <3>1 DEF Owed
  <2> QED
    BY <1>f, <2>1, <2>2, <2>3
<1>23. ASSUME NEW r \in Runs, NEW seen \in {"PENDING", "RUNNING"},
             TickJudge(r, seen)
      PROVE  \A s \in Runs : Owed(s)'
  BY <1>1, <1>23
  DEF TickJudge, Owed
<1> HIDE DEF RunnerTyped, RecordTyped, LockMatches, TickInv, KillInv, HoldsLock, TickHoldsLock,
             RowsOf, Absent, TrueOutcomes, RunTerminal, Failures, Refusals,
             runner, record, process, breaker, others, tick, kill, Goto, Settle,
             Acquire, Release, Transition, Halt, Rest, TickGoto
<1> QED
  BY <1>2, <1>3, <1>4, <1>5, <1>6, <1>7, <1>8, <1>9, <1>10, <1>11, <1>12, <1>13,
     <1>14, <1>15, <1>16, <1>17, <1>18, <1>19, <1>20, <1>21, <1>22, <1>23
  DEF Next, RunnerStep, TickStep, OperatorStep

(* Only a death between a record and its row loses a charge: the runner's  *)
(* for a run with an outcome or a refusal, the tick's for a closed one.    *)
THEOREM SettledIsChargedHolds == Spec => []SettledIsCharged
<1>1. Init => \A s \in Runs : Owed(s)
  BY DEF Init, Owed, Absent, RunTerminal, Failures, Refusals
<1>2. IInv /\ (\A s \in Runs : Owed(s)) /\ [Next]_vars => \A s \in Runs : Owed(s)'
  BY OwedKept
<1>3. (\A s \in Runs : Owed(s)) => SettledIsCharged
  BY DEF Owed, SettledIsCharged
<1>4. (\A s \in Runs : Owed(s)') <=> (\A s \in Runs : Owed(s))'
  OBVIOUS
<1> QED
  BY Invariance, <1>1, <1>2, <1>3, <1>4, PTL DEF Spec

(* A run is charged once, never twice, and not at all only by a death:     *)
(* whatever crashes, however many runs there are and whether or not ps     *)
(* fails.                                                                  *)
THEOREM RunsAreChargedOnce == Spec => []ChargedOnce
<1>1. NeverChargedTwice /\ SettledIsCharged => ChargedOnce
  BY DEF ChargedOnce
<1> QED
  BY RunsAreNeverChargedTwice, SettledIsChargedHolds, <1>1, PTL

(* What a step may do to a record that is settled.                         *)
Final(s) ==
  IsTerminal(status[s]) /\ status'[s] # status[s] =>
    /\ status[s] = "INTERRUPTED"
    /\ lock = s
    /\ rows[s] # <<>> /\ status'[s] = rows[s][Len(rows[s])]

(* No step but the amendment changes a settled record.                     *)
LEMMA SettledStaysFinal == IInv /\ [Next]_vars => \A s \in Runs : Final(s)
<1> SUFFICES ASSUME IInv, [Next]_vars PROVE \A s \in Runs : Final(s)
  OBVIOUS
<1>1. /\ RunnerTyped /\ RecordTyped /\ LockMatches /\ TickInv
      /\ \A r \in Runs : ByPlace(r) /\ ByStatus(r)
  BY RunsAssumption, ActorsAssumption
  DEF IInv, TypeOK
<1> USE DEF RunnerTyped, RecordTyped, LockMatches, TickInv, ByPlace, ByStatus,
            Open, RowsOf, HoldsLock, Absent, Final, IsTerminal, RunStatus,
            NotTerminal, ArmingEnds, TrueOutcomes, RunTerminal, Failures,
            Refusals, runner, record, process, breaker, others, tick, kill,
            Goto, Settle, Acquire, Release, Transition, AppendLedger, Halt,
            Rest, TickGoto
<1>2. CASE UNCHANGED vars
  BY <1>1, <1>2
  DEF vars
<1>3. ASSUME NEW r \in Runs, Refuse(r)
      PROVE  \A s \in Runs : Final(s)
  BY <1>1, <1>3
  DEF Refuse
<1>4. ASSUME NEW r \in Runs, WritePending(r)
      PROVE  \A s \in Runs : Final(s)
  BY <1>1, <1>4
  DEF WritePending
<1>5. ASSUME NEW r \in Runs, StartChild(r)
      PROVE  \A s \in Runs : Final(s)
  BY <1>1, <1>5
  DEF StartChild
<1>6. ASSUME NEW r \in Runs, StartSelf(r)
      PROVE  \A s \in Runs : Final(s)
  BY <1>1, <1>6
  DEF StartSelf
<1>7. ASSUME NEW r \in Runs, Finish(r)
      PROVE  \A s \in Runs : Final(s)
  BY <1>1, <1>7
  DEF Finish
<1>8. ASSUME NEW r \in Runs, AmendSet(r)
      PROVE  \A s \in Runs : Final(s)
  <2>1. /\ pc[r] = "amendSet" /\ status' = [status EXCEPT ![r] = verdict[r]]
        /\ rows[r] \in RowsOf(verdict[r]) /\ status[r] = "INTERRUPTED" /\ lock = r
    BY <1>1, <1>8 DEF AmendSet
  <2>2. rows[r] # <<>> /\ rows[r][Len(rows[r])] = verdict[r]
    BY <2>1, LastOfRowsOf
  <2> QED
    BY <1>1, <2>1, <2>2
<1>9. CASE TickClose
  BY <1>1, <1>9
  DEF TickClose
<1>10. ASSUME NEW r \in Runs, Launch(r) \/ Enter(r) \/ Admit(r) \/ RefusalRow(r) \/
           ResolveSecrets(r) \/ Spawn(r) \/ Collect(r) \/ Complete(r) \/
           FinishRow(r) \/ EnterAmend(r) \/ AmendRow(r) \/
           NoteFalseBreaker(r) \/ ApplyBreaker(r) \/ BreakerPause(r) \/
           BreakerAlert(r) \/ ChildExit(r) \/ Age(r) \/ RunnerDies(r) \/
           KillCheck(r)
      PROVE  \A s \in Runs : Final(s)
  BY <1>1, <1>10
  DEF Launch, Enter, Admit, RefusalRow, ResolveSecrets, Spawn, Collect,
      Complete, FinishRow, EnterAmend, AmendRow, NoteFalseBreaker,
      ApplyBreaker, BreakerPause, BreakerAlert, ChildExit, Age, RunnerDies,
      KillCheck
<1>11. CASE TickScan \/ TickEnter \/ TickRow \/ TickApplyBreaker \/ TickPause \/
           TickAlert \/ TickEnd \/ TickDies \/ KillMark \/ KillSignal \/
           PauseChore \/ ResumeChore \/ PauseAll \/ ResumeAll
  BY <1>1, <1>11
  DEF TickScan, TickEnter, TickRow, TickApplyBreaker, TickPause, TickAlert,
      TickEnd, TickDies, KillMark, KillSignal, PauseChore, ResumeChore,
      PauseAll, ResumeAll
<1>12. ASSUME NEW r \in Runs, NEW seen \in {"PENDING", "RUNNING"},
             TickJudge(r, seen)
      PROVE  \A s \in Runs : Final(s)
  BY <1>1, <1>12
  DEF TickJudge
<1> HIDE DEF RunnerTyped, RecordTyped, LockMatches, TickInv, ByPlace,
             ByStatus, Open, RowsOf, HoldsLock, Absent, Final, IsTerminal,
             RunStatus, NotTerminal, ArmingEnds, TrueOutcomes, RunTerminal,
             Failures, Refusals, runner, record, process, breaker, others,
             tick, kill, Goto, Settle, Acquire, Release, Transition,
             AppendLedger, Halt, Rest, TickGoto
<1> QED
  BY <1>2, <1>3, <1>4, <1>5, <1>6, <1>7, <1>8, <1>9, <1>10, <1>11, <1>12
  DEF Next, RunnerStep, TickStep, OperatorStep


(* A settled record is final but for the amendment, for every instance.    *)
THEOREM SettledIsFinalHolds == Spec => SettledIsFinal
<1>1. IInv /\ [Next]_vars => \A s \in Runs : Final(s)
  BY SettledStaysFinal
<1>2. (\A s \in Runs : Final(s)) =>
        \A r \in Runs :
          IsTerminal(status[r]) /\ status'[r] # status[r] =>
            /\ status[r] = "INTERRUPTED"
            /\ lock = r
            /\ rows[r] # <<>> /\ status'[r] = rows[r][Len(rows[r])]
  BY DEF Final
<1> QED
  BY Invariance, <1>1, <1>2, PTL DEF Spec, SettledIsFinal

-----------------------------------------------------------------------------
(* How a move of one runner shows in the abstract state.                   *)
LEMMA StageMoves ==
  ASSUME RunnerTyped, NEW r \in Runs, NEW place, Goto(r, place)
  PROVE  /\ Stage[r] = StageAt(pc[r])
         /\ Stage' = [Stage EXCEPT ![r] = StageAt(place)]
         /\ StageAt(place) = StageAt(pc[r]) => Stage' = Stage
  BY DEF Stage, Goto, RunnerTyped

(* The abstract specification speaks of the same statuses.                 *)
LEMMA SameStatuses ==
  /\ Promise!Absent = Absent /\ Promise!Refusals = Refusals
  /\ Promise!TrueOutcomes = TrueOutcomes
  /\ \A s : Promise!IsTerminal(s) <=> IsTerminal(s)
  BY DEF Absent, Refusals, TrueOutcomes, RunTerminal, Failures, IsTerminal, RunStatus,
         NotTerminal, ArmingEnds, Promise!Absent, Promise!Refusals, Promise!TrueOutcomes,
         Promise!RunTerminal, Promise!Failures, Promise!IsTerminal, Promise!RunStatus,
         Promise!NotTerminal, Promise!ArmingEnds

(* A step that moves no runner leaves the abstract stages alone.           *)
LEMMA StageStays == ASSUME UNCHANGED pc PROVE UNCHANGED Stage
  BY DEF Stage

(* Every step is a step of RunLifecycle, or one it does not see.           *)
LEMMA StepKeepsPromise == IInv /\ [Next]_vars => [Promise!Next]_(Promise!vars)
<1> SUFFICES ASSUME IInv, [Next]_vars PROVE [Promise!Next]_(Promise!vars)
  OBVIOUS
<1>1. /\ RunnerTyped /\ RecordTyped /\ LockMatches /\ TickInv /\ KillInv
      /\ \A r \in Runs : ByPlace(r) /\ ByStatus(r)
  BY RunsAssumption, ActorsAssumption
  DEF IInv, TypeOK
<1>2. CASE UNCHANGED vars
  BY <1>2, StageStays DEF vars, runner, record, Promise!vars
<1>3. ASSUME NEW r \in Runs, Launch(r)
      PROVE  Promise!Arrive(r)
  <2>1. /\ pc[r] = "idle" /\ Goto(r, "start")
        /\ UNCHANGED <<status, rows>>
    BY <1>3 DEF Launch, record
  <2>2. Stage[r] = "away" /\ Stage' = [Stage EXCEPT ![r] = "starting"]
    BY <1>1, <2>1, StageMoves DEF StageAt, Quit, Starting
  <2> QED
    BY <1>1, <2>1, <2>2, SameStatuses
    DEF Promise!Arrive, ByPlace
<1>4. ASSUME NEW r \in Runs, Admit(r)
      PROVE  Promise!Leave(r) \/ UNCHANGED Promise!vars
  <2>1. /\ pc[r] = "admit"
        /\ UNCHANGED <<status, rows>>
        /\ Goto(r, "pend") \/ Goto(r, "refuse") \/ Goto(r, "done")
    BY <1>4 DEF Admit, record
  <2>2. Stage[r] = "starting" /\ (Stage' = Stage \/ Stage' = [Stage EXCEPT ![r] = "away"])
    BY <1>1, <2>1, StageMoves DEF StageAt, Quit, Starting
  <2> QED
    BY <2>1, <2>2 DEF Promise!Leave, Promise!vars
<1>5. ASSUME NEW r \in Runs, Refuse(r)
      PROVE  Promise!Refuse(r)
  <2>1. /\ pc[r] = "refuse" /\ Goto(r, "refused")
        /\ status' = [status EXCEPT ![r] = verdict[r]] /\ UNCHANGED rows
    BY <1>5 DEF Refuse
  <2>2. Stage[r] = "starting" /\ Stage' = Stage
    BY <1>1, <2>1, StageMoves DEF StageAt, Quit, Starting
  <2> QED
    BY <1>1, <2>1, <2>2, SameStatuses
    DEF Promise!Refuse, Promise!Become, ByPlace
<1>6. ASSUME NEW r \in Runs, RefusalRow(r)
      PROVE  Promise!Charge(r)
  <2>1. /\ pc[r] = "refused" /\ Goto(r, "done")
        /\ rows' = [rows EXCEPT ![r] = Append(rows[r], verdict[r])] /\ UNCHANGED status
    BY <1>6 DEF RefusalRow, AppendLedger
  <2>2. Stage[r] = "starting" /\ Stage' = [Stage EXCEPT ![r] = "away"]
    BY <1>1, <2>1, StageMoves DEF StageAt, Quit, Starting
  <2>3. /\ rows[r] = <<>> /\ status[r] = verdict[r] /\ verdict[r] \in Refusals
        /\ Append(rows[r], verdict[r]) = <<status[r]>>
    BY <1>1, <2>1, AppendToNone DEF ByPlace
  <2>4. IsTerminal(status[r])
    BY <2>3 DEF IsTerminal, RunStatus, NotTerminal, Refusals
  <2> QED
    BY <2>1, <2>2, <2>3, <2>4, SameStatuses
    DEF Promise!Charge
<1>7. ASSUME NEW r \in Runs, WritePending(r)
      PROVE  Promise!Admit(r)
  <2>1. /\ pc[r] = "pend" /\ Goto(r, "secrets")
        /\ status' = [status EXCEPT ![r] = "PENDING"] /\ UNCHANGED rows
    BY <1>7 DEF WritePending
  <2>2. Stage[r] = "starting" /\ Stage' = Stage
    BY <1>1, <2>1, StageMoves DEF StageAt, Quit, Starting
  <2> QED
    BY <1>1, <2>1, <2>2, SameStatuses
    DEF Promise!Admit, Promise!Become, ByPlace
<1>8. ASSUME NEW r \in Runs, StartChild(r) \/ StartSelf(r)
      PROVE  Promise!Start(r) \/ Promise!Leave(r)
  <2>1. /\ pc[r] \in {"claim", "own"} /\ UNCHANGED rows
        /\ \/ /\ status[r] = "PENDING" /\ status' = [status EXCEPT ![r] = "RUNNING"]
              /\ Goto(r, "exec") \/ Goto(r, "finish")
           \/ UNCHANGED status /\ Goto(r, "done")
    BY <1>8 DEF StartChild, StartSelf, Transition
  <2>2. /\ Stage[r] = "starting"
        /\ \A place : Goto(r, place) => Stage' = [Stage EXCEPT ![r] = StageAt(place)]
    BY <1>1, <2>1, StageMoves DEF StageAt, Quit, Starting
  <2>3. CASE UNCHANGED status /\ Goto(r, "done")
    BY <2>1, <2>2, <2>3 DEF Promise!Leave, StageAt, Quit
  <2>4. CASE /\ status[r] = "PENDING" /\ status' = [status EXCEPT ![r] = "RUNNING"]
             /\ Goto(r, "exec") \/ Goto(r, "finish")
    BY <2>1, <2>2, <2>4 DEF Promise!Start, Promise!Become, StageAt, Quit, Starting
  <2> QED
    BY <2>1, <2>3, <2>4
<1>9. ASSUME NEW r \in Runs, Finish(r)
      PROVE  Promise!Finish(r) \/ UNCHANGED Promise!vars
  <2>1. /\ pc[r] = "finish" /\ UNCHANGED rows
        /\ \/ status[r] = "RUNNING" /\ status' = [status EXCEPT ![r] = verdict[r]]
           \/ UNCHANGED status
        /\ Goto(r, "row") \/ Goto(r, "amend")
    BY <1>9 DEF Finish, Transition
  <2>2. Stage[r] = "running" /\ Stage' = Stage
    BY <1>1, <2>1, StageMoves DEF StageAt, Quit, Starting
  <2>3. verdict[r] \in TrueOutcomes
    BY <1>1, <2>1 DEF ByPlace
  <2> QED
    BY <2>1, <2>2, <2>3, SameStatuses DEF Promise!Finish, Promise!Become, Promise!vars
<1>10. ASSUME NEW r \in Runs, FinishRow(r)
      PROVE  Promise!Charge(r)
  <2>1. /\ pc[r] = "row" /\ Goto(r, "breaker")
        /\ rows' = [rows EXCEPT ![r] = Append(rows[r], verdict[r])] /\ UNCHANGED status
    BY <1>10 DEF FinishRow, AppendLedger
  <2>2. Stage[r] = "running" /\ Stage' = Stage
    BY <1>1, <2>1, StageMoves DEF StageAt, Quit, Starting
  <2>3. /\ rows[r] = <<>> /\ status[r] = verdict[r] /\ verdict[r] \in TrueOutcomes
        /\ Append(rows[r], verdict[r]) = <<status[r]>>
    BY <1>1, <2>1, AppendToNone DEF ByPlace
  <2>4. IsTerminal(status[r])
    BY <2>3 DEF IsTerminal, RunStatus, NotTerminal, TrueOutcomes, RunTerminal, Failures
  <2> QED
    BY <2>1, <2>2, <2>3, <2>4, SameStatuses
    DEF Promise!Charge
<1>11. ASSUME NEW r \in Runs, AmendRow(r)
      PROVE  Promise!Amend(r)
  <2>1. /\ pc[r] = "amendRow" /\ Goto(r, "amendSet")
        /\ rows' = [rows EXCEPT ![r] = Append(rows[r], verdict[r])] /\ UNCHANGED status
    BY <1>11 DEF AmendRow, AppendLedger
  <2>2. Stage[r] = "running" /\ Stage' = Stage
    BY <1>1, <2>1, StageMoves DEF StageAt, Quit, Starting
  <2> QED
    BY <1>1, <2>1, <2>2, SameStatuses
    DEF Promise!Amend, ByPlace, ByStatus
<1>12. ASSUME NEW r \in Runs, AmendSet(r)
      PROVE  Promise!Correct(r)
  <2>1. /\ pc[r] = "amendSet" /\ Goto(r, "note")
        /\ status[r] = "INTERRUPTED" /\ status' = [status EXCEPT ![r] = verdict[r]] /\ UNCHANGED rows
    BY <1>12 DEF AmendSet, Transition
  <2>2. Stage[r] = "running" /\ Stage' = Stage
    BY <1>1, <2>1, StageMoves DEF StageAt, Quit, Starting
  <2>3. verdict[r] \in TrueOutcomes /\ rows[r] \in RowsOf(verdict[r])
    BY <1>1, <2>1 DEF ByPlace
  <2>4. rows[r] # <<>> /\ Promise!Last(rows[r]) = verdict[r]
    <3>1. CASE rows[r] = <<verdict[r]>>
      BY <3>1 DEF Promise!Last
    <3>2. CASE rows[r] = <<"INTERRUPTED", verdict[r]>>
      BY <3>2 DEF Promise!Last
    <3> QED
      BY <2>3, <3>1, <3>2 DEF RowsOf
  <2> QED
    BY <2>1, <2>2, <2>3, <2>4, SameStatuses
    DEF Promise!Correct, Promise!Become
<1>13. ASSUME NEW r \in Runs, ApplyBreaker(r)
      PROVE  Promise!Leave(r) \/ UNCHANGED Promise!vars
  <2>1. pc[r] = "breaker" /\ UNCHANGED <<status, rows>> /\ (Goto(r, "pause") \/ Goto(r, "done"))
    BY <1>13 DEF ApplyBreaker, record
  <2>2. Stage[r] = "running" /\ (Stage' = Stage \/ Stage' = [Stage EXCEPT ![r] = "away"])
    BY <1>1, <2>1, StageMoves DEF StageAt, Quit, Starting
  <2> QED
    BY <2>1, <2>2 DEF Promise!Leave, Promise!vars
<1>14. ASSUME NEW r \in Runs, BreakerAlert(r) \/ RunnerDies(r)
      PROVE  Promise!Leave(r)
  <2>1. /\ pc[r] \notin Quit /\ UNCHANGED <<status, rows>>
        /\ Goto(r, "done") \/ Goto(r, "dead")
    BY <1>14 DEF BreakerAlert, RunnerDies, Halt, Working, record, Quit
  <2>2. Stage[r] # "away" /\ Stage' = [Stage EXCEPT ![r] = "away"]
    BY <1>1, <2>1, StageMoves DEF StageAt, Quit, Starting
  <2> QED
    BY <2>1, <2>2 DEF Promise!Leave
<1>15. ASSUME NEW r \in Runs, Enter(r) \/ ResolveSecrets(r) \/ Spawn(r) \/
           Collect(r) \/ Complete(r) \/ EnterAmend(r) \/
           NoteFalseBreaker(r) \/ BreakerPause(r)
      PROVE  UNCHANGED Promise!vars
  <2>0. pc[r] = "amend" => status[r] = "INTERRUPTED"
    BY <1>1 DEF ByPlace
  <2>1. /\ UNCHANGED <<status, rows>>
        /\ \/ /\ pc[r] \in {"start", "secrets", "spawn"}
              /\ \/ Goto(r, "admit") \/ Goto(r, "own")
                 \/ Goto(r, "spawn") \/ Goto(r, "claim")
           \/ /\ pc[r] \in {"exec", "amend", "note", "pause"}
              /\ \/ Goto(r, "finish") \/ Goto(r, "amendRow")
                 \/ Goto(r, "breaker") \/ Goto(r, "alert")
    BY <1>15, <2>0 DEF Enter, ResolveSecrets, Spawn, Collect, Complete, EnterAmend,
           NoteFalseBreaker, BreakerPause, record
  <2>2. Stage' = Stage
    BY <1>1, <2>1, StageMoves DEF StageAt, Quit, Starting
  <2> QED
    BY <2>1, <2>2 DEF Promise!vars
<1>16. ASSUME NEW r \in Runs, ChildExit(r) \/ Age(r) \/ KillCheck(r)
      PROVE  UNCHANGED Promise!vars
  BY <1>16, StageStays DEF ChildExit, Age, KillCheck, runner, record, Promise!vars
<1>17. ASSUME TickClose
      PROVE  (suspect \in Runs /\ Promise!Interrupt(suspect)) \/ UNCHANGED Promise!vars
  BY <1>1, <1>17, StageStays
  DEF TickClose, Transition, runner, TickInv, Promise!Interrupt, Promise!Become, Promise!vars
<1>18. ASSUME TickRow
      PROVE  suspect \in Runs /\ Promise!Charge(suspect)
  <2>1. /\ suspect \in Runs /\ status[suspect] = "INTERRUPTED" /\ rows[suspect] = <<>>
        /\ Append(rows[suspect], "INTERRUPTED") = <<status[suspect]>>
    BY <1>1, <1>18, AppendToNone DEF TickRow, TickInv
  <2>2. /\ rows' = [rows EXCEPT ![suspect] = Append(rows[suspect], "INTERRUPTED")]
        /\ UNCHANGED <<status, Stage>>
    BY <1>18, StageStays DEF TickRow, AppendLedger, runner
  <2>3. IsTerminal(status[suspect])
    BY <2>1 DEF IsTerminal, RunStatus, NotTerminal, RunTerminal, Failures
  <2> QED
    BY <2>1, <2>2, <2>3, SameStatuses DEF Promise!Charge
<1>19. ASSUME KillSignal
      PROVE  (victim \in Runs /\ Promise!Leave(victim)) \/ UNCHANGED Promise!vars
  <2>1. /\ UNCHANGED <<status, rows>>
        /\ \/ UNCHANGED pc
           \/ victim \in Runs /\ pc[victim] \notin Quit /\ Goto(victim, "dead")
    BY <1>1, <1>19 DEF KillSignal, Halt, Working, KillInv, record
  <2>2. CASE UNCHANGED pc
    BY <2>1, <2>2, StageStays DEF Promise!vars
  <2>3. CASE victim \in Runs /\ pc[victim] \notin Quit /\ Goto(victim, "dead")
    <3>1. Stage[victim] # "away" /\ Stage' = [Stage EXCEPT ![victim] = "away"]
      BY <1>1, <2>3, StageMoves DEF StageAt, Quit, Starting
    <3> QED
      BY <2>1, <2>3, <3>1 DEF Promise!Leave
  <2> QED
    BY <2>1, <2>2, <2>3
<1>20. ASSUME TickScan \/ TickEnter \/ TickApplyBreaker \/ TickPause \/
           TickAlert \/ TickEnd \/ TickDies \/ KillMark \/ PauseChore \/
           ResumeChore \/ PauseAll \/ ResumeAll
      PROVE  UNCHANGED Promise!vars
  BY <1>20, StageStays DEF TickScan, TickEnter, TickApplyBreaker, TickPause,
      TickAlert, TickEnd, TickDies, KillMark, PauseChore, ResumeChore,
      PauseAll, ResumeAll, runner, record, Promise!vars
<1>21. ASSUME NEW r \in Runs, NEW seen \in {"PENDING", "RUNNING"},
             TickJudge(r, seen)
      PROVE  UNCHANGED Promise!vars
  BY <1>21, StageStays DEF TickJudge, runner, record, Promise!vars
<1> QED
  BY <1>2, <1>3, <1>4, <1>5, <1>6, <1>7, <1>8, <1>9, <1>10, <1>11, <1>12,
     <1>13, <1>14, <1>15, <1>16, <1>17, <1>18, <1>19, <1>20, <1>21
  DEF Next, RunnerStep, TickStep, OperatorStep, Promise!Next

(* ChoresRun implements RunLifecycle under the refinement mapping Stage.   *)
THEOREM Implements == Spec => KeepsPromise
<1>1. Init => Promise!Init
  <2> SUFFICES ASSUME Init PROVE Promise!Init
    OBVIOUS
  <2>1. Stage = [r \in Runs |-> "away"]
    BY DEF Init, Stage, StageAt, Quit
  <2> QED
    BY <2>1, SameStatuses DEF Init, Promise!Init
<1>2. IInv /\ [Next]_vars => [Promise!Next]_(Promise!vars)
  BY StepKeepsPromise
<1> QED
  BY Invariance, <1>1, <1>2, PTL DEF Spec, KeepsPromise, Promise!Spec
-----------------------------------------------------------------------------
(* Kills of a run that has a child.                                        *)

Finishing ==
  {"finish", "row", "amend", "amendRow", "amendSet", "note", "breaker", "pause", "alert"}

Begun == Finishing \cup {"exec", "done", "dead"}

(* A `chores kill' has chosen the run, or has marked it already.           *)
Chosen(r) == r \in marker \/ (killPc # "idle" /\ victim = r)

(* A child exists from the spawn on, and nobody finishes beside a live one.*)
ChildByPlace(r) ==
  /\ pc[r] \in {"idle", "start", "admit", "refuse", "refused", "pend", "secrets",
                "spawn", "own"} => child[r] = "none"
  /\ pc[r] \in Finishing => child[r] # "live"
  /\ pc[r] = "done" => status[r] \notin {"PENDING", "RUNNING"}

(* Only a run that has begun is chosen or signalled; a runner in whose     *)
(* place a signal reached the child finds the marker, and takes it from    *)
(* the verdict to the record.                                              *)
KillByPlace(r) ==
  /\ Chosen(r) => pc[r] \in Begun /\ (pc[r] = "done" => child[r] # "live")
  /\ r \in termed => pc[r] \in Begun
  /\ r \in termed /\ pc[r] = "exec" => r \in marker
  /\ r \in termed /\ child[r] # "none" /\ pc[r] \in Finishing => verdict[r] = "KILLED"
  /\ r \in termed /\ child[r] # "none" /\ pc[r] = "done" /\ Chosen(r) =>
       status[r] = "KILLED"

SignalMarked == killPc = "signal" => victim \in marker

KInv ==
  /\ IInv
  /\ \A r \in Runs : ChildByPlace(r) /\ KillByPlace(r)
  /\ SignalMarked
(* A child lives between its spawn and its collection, whoever moves.      *)
LEMMA ChildByPlaceKept ==
  KInv /\ [Next]_vars => \A s \in Runs : ChildByPlace(s)'
<1> SUFFICES ASSUME KInv, [Next]_vars PROVE \A s \in Runs : ChildByPlace(s)'
  OBVIOUS
<1>1. /\ RunnerTyped /\ RecordTyped /\ ProcessTyped /\ TickInv /\ KillInv
      /\ \A r \in Runs : ByPlace(r) /\ ChildByPlace(r)
      /\ Outcomes \subseteq TrueOutcomes
  BY RunsAssumption, ActorsAssumption
  DEF KInv, IInv, TypeOK
<1> USE DEF RunnerTyped, RecordTyped, ProcessTyped, TickInv, KillInv, ByPlace,
            ChildByPlace, Finishing, RunnerPlaces, Quit, Working, Absent,
            TrueOutcomes, RunTerminal, Failures, Refusals, runner, record,
            process, breaker, others, tick, kill, Goto, Settle, Acquire,
            Release, Transition, AppendLedger, Halt, Rest, TickGoto
<1>2. CASE UNCHANGED vars
  BY <1>1, <1>2
  DEF vars
<1>3. ASSUME NEW r \in Runs, Admit(r)
      PROVE  \A s \in Runs : ChildByPlace(s)'
  BY <1>1, <1>3
  DEF Admit
<1>4. ASSUME NEW r \in Runs, Spawn(r) \/ ResolveSecrets(r)
      PROVE  \A s \in Runs : ChildByPlace(s)'
  BY <1>1, <1>4
  DEF Spawn, ResolveSecrets
<1>5. ASSUME NEW r \in Runs, StartChild(r) \/ StartSelf(r)
      PROVE  \A s \in Runs : ChildByPlace(s)'
  BY <1>1, <1>5
  DEF StartChild, StartSelf
<1>6. ASSUME NEW r \in Runs, Collect(r) \/ Complete(r)
      PROVE  \A s \in Runs : ChildByPlace(s)'
  BY <1>1, <1>6
  DEF Collect, Complete
<1>7. ASSUME NEW r \in Runs, AmendSet(r) \/ Finish(r) \/ EnterAmend(r)
      PROVE  \A s \in Runs : ChildByPlace(s)'
  BY <1>1, <1>7
  DEF AmendSet, Finish, EnterAmend
<1>8. ASSUME NEW r \in Runs, WritePending(r)
      PROVE  \A s \in Runs : ChildByPlace(s)'
  BY <1>1, <1>8
  DEF WritePending
<1>9. ASSUME NEW r \in Runs, Refuse(r)
      PROVE  \A s \in Runs : ChildByPlace(s)'
  BY <1>1, <1>9
  DEF Refuse
<1>10. ASSUME NEW r \in Runs, RefusalRow(r)
      PROVE  \A s \in Runs : ChildByPlace(s)'
  <2>1. /\ pc[r] = "refused"
        /\ pc' = [pc EXCEPT ![r] = "done"]
        /\ UNCHANGED <<child, status>>
    BY <1>10 DEF RefusalRow
  <2>2. status[r] \notin {"PENDING", "RUNNING"} /\ child[r] # "live"
    BY <1>1, <2>1
  <2>3. pc \in [Runs -> RunnerPlaces] /\ \A s \in Runs : ChildByPlace(s)
    BY <1>1
  <2> HIDE DEF ByPlace
  <2> QED
    BY <2>1, <2>2, <2>3
<1>11. ASSUME NEW r \in Runs, NoteFalseBreaker(r)
      PROVE  \A s \in Runs : ChildByPlace(s)'
  <2>1. /\ pc[r] = "note" /\ pc' = [pc EXCEPT ![r] = "breaker"]
        /\ UNCHANGED <<verdict, record, process, lock, others>>
    BY <1>11 DEF NoteFalseBreaker
  <2> QED
    BY <1>1, <2>1
<1>12. ASSUME NEW r \in Runs, ApplyBreaker(r)
      PROVE  \A s \in Runs : ChildByPlace(s)'
  <2>1. /\ pc[r] = "breaker"
        /\ pc' = [pc EXCEPT ![r] = "done"] \/ pc' = [pc EXCEPT ![r] = "pause"]
        /\ UNCHANGED <<child, status>>
    BY <1>12 DEF ApplyBreaker
  <2>2. status[r] \notin {"PENDING", "RUNNING"} /\ child[r] # "live"
    BY <1>1, <2>1
  <2>3. pc \in [Runs -> RunnerPlaces] /\ \A s \in Runs : ChildByPlace(s)
    BY <1>1
  <2> HIDE DEF ByPlace
  <2> QED
    BY <2>1, <2>2, <2>3
<1>13. ASSUME NEW r \in Runs, BreakerAlert(r)
      PROVE  \A s \in Runs : ChildByPlace(s)'
  <2>1. /\ pc[r] = "alert"
        /\ pc' = [pc EXCEPT ![r] = "done"]
        /\ UNCHANGED <<child, status>>
    BY <1>13 DEF BreakerAlert
  <2>2. status[r] \notin {"PENDING", "RUNNING"} /\ child[r] # "live"
    BY <1>1, <2>1
  <2>3. pc \in [Runs -> RunnerPlaces] /\ \A s \in Runs : ChildByPlace(s)
    BY <1>1
  <2> HIDE DEF ByPlace
  <2> QED
    BY <2>1, <2>2, <2>3
<1>14. ASSUME NEW r \in Runs, ChildExit(r)
      PROVE  \A s \in Runs : ChildByPlace(s)'
  BY <1>1, <1>14
  DEF ChildExit
<1>15. ASSUME NEW r \in Runs, RunnerDies(r)
      PROVE  \A s \in Runs : ChildByPlace(s)'
  BY <1>1, <1>15
  DEF RunnerDies
<1>16. ASSUME NEW r \in Runs, Age(r) \/ KillCheck(r) \/ Launch(r)
      PROVE  \A s \in Runs : ChildByPlace(s)'
  BY <1>1, <1>16
  DEF Age, KillCheck, Launch
<1>17. ASSUME NEW r \in Runs, FinishRow(r) \/ AmendRow(r) \/ BreakerPause(r)
      PROVE  \A s \in Runs : ChildByPlace(s)'
  BY <1>1, <1>17
  DEF FinishRow, AmendRow, BreakerPause
<1>18. CASE TickClose
  BY <1>1, <1>18
  DEF TickClose
<1>19. CASE KillSignal
  BY <1>1, <1>19
  DEF KillSignal
<1>20. ASSUME NEW r \in Runs, Enter(r)
      PROVE  \A s \in Runs : ChildByPlace(s)'
  BY <1>1, <1>20
  DEF Enter
<1>21. CASE TickScan \/ TickEnter \/ TickRow \/ TickApplyBreaker \/
           TickPause \/ TickAlert \/ TickEnd \/ TickDies \/ KillMark \/
           PauseChore \/ ResumeChore \/ PauseAll \/ ResumeAll
  BY <1>1, <1>21
  DEF TickScan, TickEnter, TickRow, TickApplyBreaker, TickPause, TickAlert,
      TickEnd, TickDies, KillMark, PauseChore, ResumeChore, PauseAll,
      ResumeAll
<1>22. ASSUME NEW r \in Runs, NEW seen \in {"PENDING", "RUNNING"},
             TickJudge(r, seen)
      PROVE  \A s \in Runs : ChildByPlace(s)'
  BY <1>1, <1>22
  DEF TickJudge
<1> HIDE DEF RunnerTyped, RecordTyped, ProcessTyped, TickInv, KillInv,
             ByPlace, ChildByPlace, Finishing, RunnerPlaces, Quit, Working,
             Absent, TrueOutcomes, RunTerminal, Failures, Refusals, runner,
             record, process, breaker, others, tick, kill, Goto, Settle,
             Acquire, Release, Transition, AppendLedger, Halt, Rest, TickGoto
<1> QED
  BY <1>2, <1>3, <1>4, <1>5, <1>6, <1>7, <1>8, <1>9, <1>10, <1>11, <1>12,
     <1>13, <1>14, <1>15, <1>16, <1>17, <1>18, <1>19, <1>20, <1>21, <1>22
  DEF Next, RunnerStep, TickStep, OperatorStep


(* A signal reaches a child only behind the marker, and the marker is      *)
(* looked at before the verdict.                                           *)
LEMMA KillByPlaceKept ==
  KInv /\ [Next]_vars => \A s \in Runs : KillByPlace(s)'
<1> SUFFICES ASSUME KInv, [Next]_vars PROVE \A s \in Runs : KillByPlace(s)'
  OBVIOUS
<1>1. /\ RunnerTyped /\ RecordTyped /\ ProcessTyped /\ TickInv /\ KillInv
      /\ SignalMarked
      /\ \A r \in Runs : ByPlace(r) /\ ByStatus(r) /\ ChildByPlace(r) /\ KillByPlace(r)
      /\ Outcomes \subseteq TrueOutcomes
      /\ Tick \notin Runs
  BY RunsAssumption, ActorsAssumption
  DEF KInv, IInv, TypeOK, Tick
<1> USE DEF RunnerTyped, RecordTyped, ProcessTyped, TickInv, KillInv,
            SignalMarked, ByPlace, ChildByPlace, KillByPlace, Chosen, Begun,
            Finishing, RunnerPlaces, Quit, Working, Absent, TrueOutcomes,
            RunTerminal, Failures, Refusals, runner, record, process, breaker,
            others, tick, kill, Goto, Settle, Acquire, Release, Transition,
            AppendLedger, Halt, Rest, TickGoto
<1>2. CASE UNCHANGED vars
  BY <1>1, <1>2
  DEF vars
<1>3. ASSUME NEW r \in Runs, Admit(r)
      PROVE  \A s \in Runs : KillByPlace(s)'
  BY <1>1, <1>3
  DEF Admit
<1>4. ASSUME NEW r \in Runs, Spawn(r) \/ ResolveSecrets(r)
      PROVE  \A s \in Runs : KillByPlace(s)'
  BY <1>1, <1>4
  DEF Spawn, ResolveSecrets
<1>5. ASSUME NEW r \in Runs, StartChild(r)
      PROVE  \A s \in Runs : KillByPlace(s)'
  <2>1. /\ pc[r] = "claim" /\ r \notin termed
        /\ \/ pc' = [pc EXCEPT ![r] = "exec"] /\ termed' = termed
           \/ pc' = [pc EXCEPT ![r] = "done"] /\ termed' = termed \cup {r}
        /\ UNCHANGED <<verdict, child, marker, killPc, victim>>
    BY <1>1, <1>5 DEF StartChild
  <2>2. \A s \in Runs : s # r => (s \in termed' <=> s \in termed) /\ status'[s] = status[s]
    BY <1>1, <1>5 DEF StartChild
  <2>3. ~Chosen(r)
    BY <1>1, <2>1
  <2>4. pc'[r] = "exec" => r \notin termed'
    BY <1>1, <2>1
  <2>5. ASSUME NEW s \in Runs, s # r PROVE KillByPlace(s)'
    BY <1>1, <2>1, <2>2, <2>5
  <2>6. KillByPlace(r)'
    BY <1>1, <2>1, <2>3, <2>4
  <2> QED
    BY <2>5, <2>6
<1>6. ASSUME NEW r \in Runs, StartSelf(r)
      PROVE  \A s \in Runs : KillByPlace(s)'
  BY <1>1, <1>6
  DEF StartSelf
<1>7. ASSUME NEW r \in Runs, Collect(r)
      PROVE  \A s \in Runs : KillByPlace(s)'
  BY <1>1, <1>7
  DEF Collect
<1>8. ASSUME NEW r \in Runs, Complete(r)
      PROVE  \A s \in Runs : KillByPlace(s)'
  BY <1>1, <1>8
  DEF Complete
<1>9. ASSUME NEW r \in Runs, Finish(r)
      PROVE  \A s \in Runs : KillByPlace(s)'
  BY <1>1, <1>9
  DEF Finish
<1>10. ASSUME NEW r \in Runs, EnterAmend(r)
      PROVE  \A s \in Runs : KillByPlace(s)'
  BY <1>1, <1>10
  DEF EnterAmend
<1>11. ASSUME NEW r \in Runs, AmendSet(r)
      PROVE  \A s \in Runs : KillByPlace(s)'
  BY <1>1, <1>11
  DEF AmendSet
<1>12. ASSUME NEW r \in Runs, NoteFalseBreaker(r)
      PROVE  \A s \in Runs : KillByPlace(s)'
  <2>1. /\ pc[r] = "note" /\ pc' = [pc EXCEPT ![r] = "breaker"]
        /\ UNCHANGED <<verdict, record, process, lock, others>>
    BY <1>12 DEF NoteFalseBreaker
  <2> QED
    BY <1>1, <2>1
<1>13. ASSUME NEW r \in Runs, ApplyBreaker(r)
      PROVE  \A s \in Runs : KillByPlace(s)'
  <2>1. /\ pc[r] = "breaker"
        /\ pc' = [pc EXCEPT ![r] = "pause"] \/ pc' = [pc EXCEPT ![r] = "done"]
        /\ UNCHANGED <<verdict, record, process, lock, others>>
    BY <1>13 DEF ApplyBreaker
  <2> QED
    BY <1>1, <2>1
<1>14. ASSUME NEW r \in Runs, BreakerPause(r) \/ BreakerAlert(r)
      PROVE  \A s \in Runs : KillByPlace(s)'
  BY <1>1, <1>14
  DEF BreakerPause, BreakerAlert
<1>15. ASSUME NEW r \in Runs, ChildExit(r)
      PROVE  \A s \in Runs : KillByPlace(s)'
  BY <1>1, <1>15
  DEF ChildExit
<1>16. ASSUME NEW r \in Runs, RunnerDies(r)
      PROVE  \A s \in Runs : KillByPlace(s)'
  BY <1>1, <1>16
  DEF RunnerDies
<1>17. ASSUME NEW r \in Runs, KillCheck(r)
      PROVE  \A s \in Runs : KillByPlace(s)'
  <2>1. /\ killPc' = "mark" /\ victim' = r /\ r \notin marker
        /\ status[r] = "RUNNING" /\ ProcessAlive(r)
        /\ UNCHANGED <<pc, verdict, status, child, termed, marker>>
    BY <1>17 DEF KillCheck
  <2>2. pc[r] \in Begun
    BY <1>1, <2>1
  <2>3. pc[r] # "done"
    BY <1>1, <2>1
  <2>4. \A s \in Runs : Chosen(s)' => Chosen(s) \/ s = r
    BY <2>1
  <2>5. ASSUME NEW s \in Runs, s # r PROVE KillByPlace(s)'
    BY <1>1, <2>1, <2>4, <2>5
  <2>6. KillByPlace(r)'
    BY <1>1, <2>1, <2>2, <2>3
  <2> QED
    BY <2>5, <2>6
<1>18. ASSUME NEW r \in Runs, Age(r)
      PROVE  \A s \in Runs : KillByPlace(s)'
  BY <1>1, <1>18
  DEF Age
<1>19. ASSUME NEW r \in Runs, RefusalRow(r)
      PROVE  \A s \in Runs : KillByPlace(s)'
  BY <1>1, <1>19
  DEF RefusalRow
<1>20. ASSUME NEW r \in Runs, Refuse(r)
      PROVE  \A s \in Runs : KillByPlace(s)'
  BY <1>1, <1>20
  DEF Refuse
<1>21. ASSUME NEW r \in Runs, FinishRow(r) \/ AmendRow(r)
      PROVE  \A s \in Runs : KillByPlace(s)'
  BY <1>1, <1>21
  DEF FinishRow, AmendRow
<1>22. ASSUME NEW r \in Runs, Launch(r) \/ Enter(r)
      PROVE  \A s \in Runs : KillByPlace(s)'
  BY <1>1, <1>22
  DEF Launch, Enter
<1>23. CASE TickClose
  BY <1>1, <1>23
  DEF TickClose
<1>24. CASE KillMark
  BY <1>1, <1>24
  DEF KillMark
<1>25. CASE KillSignal
  BY <1>1, <1>25
  DEF KillSignal
<1>26. ASSUME NEW r \in Runs, WritePending(r)
      PROVE  \A s \in Runs : KillByPlace(s)'
  BY <1>1, <1>26
  DEF WritePending
<1>27. CASE TickScan \/ TickEnter \/ TickRow \/ TickApplyBreaker \/
           TickPause \/ TickAlert \/ TickEnd \/ TickDies \/ PauseChore \/
           ResumeChore \/ PauseAll \/ ResumeAll
  BY <1>1, <1>27
  DEF TickScan, TickEnter, TickRow, TickApplyBreaker, TickPause, TickAlert,
      TickEnd, TickDies, PauseChore, ResumeChore, PauseAll, ResumeAll
<1>28. ASSUME NEW r \in Runs, NEW seen \in {"PENDING", "RUNNING"},
             TickJudge(r, seen)
      PROVE  \A s \in Runs : KillByPlace(s)'
  BY <1>1, <1>28
  DEF TickJudge
<1> HIDE DEF RunnerTyped, RecordTyped, ProcessTyped, TickInv, KillInv,
             SignalMarked, ByPlace, ChildByPlace, KillByPlace, Chosen, Begun,
             Finishing, RunnerPlaces, Quit, Working, Absent, TrueOutcomes,
             RunTerminal, Failures, Refusals, runner, record, process,
             breaker, others, tick, kill, Goto, Settle, Acquire, Release,
             Transition, AppendLedger, Halt, Rest, TickGoto
<1> QED
  BY <1>2, <1>3, <1>4, <1>5, <1>6, <1>7, <1>8, <1>9, <1>10, <1>11, <1>12,
     <1>13, <1>14, <1>15, <1>16, <1>17, <1>18, <1>19, <1>20, <1>21, <1>22,
     <1>23, <1>24, <1>25, <1>26, <1>27, <1>28
  DEF Next, RunnerStep, TickStep, OperatorStep


(* The marker is written before the signal is sent, and stays.             *)
LEMMA SignalMarkedKept == KInv /\ [Next]_vars => SignalMarked'
<1> SUFFICES ASSUME KInv, [Next]_vars PROVE SignalMarked'
  OBVIOUS
<1>1. SignalMarked
  BY RunsAssumption, ActorsAssumption
  DEF KInv
<1> USE DEF SignalMarked, runner, record, process, breaker, others, tick,
            kill, Goto, Settle, Acquire, Release, Transition, AppendLedger,
            Halt, Rest, TickGoto
<1>2. CASE UNCHANGED vars
  BY <1>1, <1>2
  DEF vars
<1>3. ASSUME NEW r \in Runs, NoteFalseBreaker(r)
      PROVE  SignalMarked'
  <2>1. UNCHANGED <<process, kill>>
    BY <1>3 DEF NoteFalseBreaker
  <2> QED
    BY <1>1, <2>1
<1>4. ASSUME NEW r \in Runs, Launch(r) \/ Enter(r) \/ Admit(r) \/ Refuse(r)
           \/ RefusalRow(r) \/ WritePending(r) \/ ResolveSecrets(r) \/
           Spawn(r) \/ StartChild(r) \/ StartSelf(r) \/ Collect(r) \/
           Complete(r) \/ Finish(r) \/ FinishRow(r) \/ EnterAmend(r) \/
           AmendRow(r) \/ AmendSet(r) \/ ApplyBreaker(r) \/ BreakerPause(r)
           \/ BreakerAlert(r) \/ ChildExit(r) \/ Age(r) \/ RunnerDies(r) \/
           KillCheck(r)
      PROVE  SignalMarked'
  BY <1>1, <1>4
  DEF Launch, Enter, Admit, Refuse, RefusalRow, WritePending, ResolveSecrets,
      Spawn, StartChild, StartSelf, Collect, Complete, Finish, FinishRow,
      EnterAmend, AmendRow, AmendSet, ApplyBreaker, BreakerPause,
      BreakerAlert, ChildExit, Age, RunnerDies, KillCheck
<1>5. CASE TickScan \/ TickEnter \/ TickClose \/ TickRow \/ TickApplyBreaker
           \/ TickPause \/ TickAlert \/ TickEnd \/ TickDies \/ KillMark \/
           KillSignal \/ PauseChore \/ ResumeChore \/ PauseAll \/ ResumeAll
  BY <1>1, <1>5
  DEF TickScan, TickEnter, TickClose, TickRow, TickApplyBreaker, TickPause,
      TickAlert, TickEnd, TickDies, KillMark, KillSignal, PauseChore,
      ResumeChore, PauseAll, ResumeAll
<1>6. ASSUME NEW r \in Runs, NEW seen \in {"PENDING", "RUNNING"},
             TickJudge(r, seen)
      PROVE  SignalMarked'
  BY <1>1, <1>6
  DEF TickJudge
<1> HIDE DEF SignalMarked, runner, record, process, breaker, others, tick,
             kill, Goto, Settle, Acquire, Release, Transition, AppendLedger,
             Halt, Rest, TickGoto
<1> QED
  BY <1>2, <1>3, <1>4, <1>5, <1>6
  DEF Next, RunnerStep, TickStep, OperatorStep


(* At the start nothing has been spawned, chosen or signalled.             *)
LEMMA KillBegins == Init => KInv
<1> SUFFICES ASSUME Init PROVE KInv
  OBVIOUS
<1>1. IInv
  BY InitInv
<1>2. \A r \in Runs : ChildByPlace(r) /\ KillByPlace(r)
  BY DEF Init, ChildByPlace, KillByPlace, Chosen, Finishing, Begun
<1>3. SignalMarked
  BY DEF Init, SignalMarked
<1> QED
  BY <1>1, <1>2, <1>3 DEF KInv

(* What a kill leaves in the record is kept.                               *)
LEMMA KInvKept == KInv /\ [Next]_vars => KInv'
<1>1. IInv /\ [Next]_vars => IInv'
  BY IInvKept
<1> QED
  BY <1>1, ChildByPlaceKept, KillByPlaceKept, SignalMarkedKept DEF KInv

(* Every reachable state satisfies it.                                     *)
LEMMA KillInvariance == Spec => []KInv
  BY KillBegins, KInvKept, PTL DEF Spec

(* A runner that outlived the kill of its child has recorded KILLED by the *)
(* time it is done, wherever marker and signal fell between its steps:     *)
(* the marker is looked at before the exit code (run.py:379-399).          *)
THEOREM ChildKillIsRecordedHolds == Spec => []ChildKillIsRecorded
<1>1. KInv => ChildKillIsRecorded
  BY DEF KInv, ChildKillIsRecorded, KillByPlace, Chosen
<1> QED
  BY <1>1, KillInvariance, PTL
-----------------------------------------------------------------------------
(* What the scan saw RUNNING has begun, and what the tick decided to close *)
(* as RUNNING is gone and does not come back.                              *)
ScanBegun == \A r \in Runs : <<r, "RUNNING">> \in scan => pc[r] \in Begun

SuspectGone ==
  tickPc \in {"lock", "close"} /\ saw = "RUNNING" =>
    \/ child[suspect] = "gone"
    \/ child[suspect] = "none" /\ pc[suspect] \in {"done", "dead"}

LInv == KInv /\ ScanBegun /\ SuspectGone /\ LostChildIsSignalled
(* What has begun does not go back to its beginning.                       *)
LEMMA ScanBegunKept == LInv /\ [Next]_vars => ScanBegun'
<1> SUFFICES ASSUME LInv, [Next]_vars PROVE ScanBegun'
  OBVIOUS
<1>1. /\ RunnerTyped /\ KillInv /\ ScanBegun
      /\ \A r \in Runs : ByPlace(r)
  BY RunsAssumption, ActorsAssumption
  DEF LInv, KInv, IInv, TypeOK
<1> USE DEF RunnerTyped, KillInv, ScanBegun, Begun, Finishing, RunnerPlaces,
            Quit, Working, runner, record, process, breaker, others, tick,
            kill, Goto, Settle, Acquire, Release, Transition, AppendLedger,
            Halt, Rest, TickGoto
<1>2. CASE UNCHANGED vars
  BY <1>1, <1>2
  DEF vars
<1>3. ASSUME NEW r \in Runs, NoteFalseBreaker(r)
      PROVE  ScanBegun'
  <2>1. /\ pc[r] = "note" /\ pc' = [pc EXCEPT ![r] = "breaker"]
        /\ UNCHANGED <<verdict, record, process, lock, others>>
    BY <1>3 DEF NoteFalseBreaker
  <2> QED
    BY <1>1, <2>1
<1>4. CASE TickScan
  <2>1. scan' = Suspects /\ UNCHANGED pc
    BY <1>4 DEF TickScan
  <2>2. ASSUME NEW s \in Runs, <<s, "RUNNING">> \in Suspects PROVE status[s] = "RUNNING"
    BY <2>2 DEF Suspects
  <2>3. ASSUME NEW s \in Runs, status[s] = "RUNNING" PROVE pc[s] \in Begun
    BY <1>1, <2>3 DEF ByPlace, Refusals, Absent
  <2> QED
    BY <2>1, <2>2, <2>3
<1>5. ASSUME NEW r \in Runs, Admit(r)
      PROVE  ScanBegun'
  BY <1>1, <1>5
  DEF Admit
<1>6. ASSUME NEW r \in Runs, Refuse(r) \/ RefusalRow(r) \/ WritePending(r)
           \/ ResolveSecrets(r) \/ Spawn(r)
      PROVE  ScanBegun'
  BY <1>1, <1>6
  DEF Refuse, RefusalRow, WritePending, ResolveSecrets, Spawn
<1>7. ASSUME NEW r \in Runs, StartChild(r) \/ StartSelf(r)
      PROVE  ScanBegun'
  BY <1>1, <1>7
  DEF StartChild, StartSelf
<1>8. ASSUME NEW r \in Runs, Collect(r) \/ Complete(r)
      PROVE  ScanBegun'
  BY <1>1, <1>8
  DEF Collect, Complete
<1>9. ASSUME NEW r \in Runs, AmendSet(r) \/ Finish(r) \/ EnterAmend(r)
      PROVE  ScanBegun'
  BY <1>1, <1>9
  DEF AmendSet, Finish, EnterAmend
<1>10. CASE KillSignal
  BY <1>1, <1>10
  DEF KillSignal
<1>11. ASSUME NEW r \in Runs, Launch(r) \/ Enter(r) \/ FinishRow(r) \/
           AmendRow(r) \/ ApplyBreaker(r) \/ BreakerPause(r) \/
           BreakerAlert(r) \/ ChildExit(r) \/ Age(r) \/ RunnerDies(r) \/
           KillCheck(r)
      PROVE  ScanBegun'
  BY <1>1, <1>11
  DEF Launch, Enter, FinishRow, AmendRow, ApplyBreaker, BreakerPause,
      BreakerAlert, ChildExit, Age, RunnerDies, KillCheck
<1>12. CASE TickEnter \/ TickClose \/ TickRow \/ TickApplyBreaker \/
           TickPause \/ TickAlert \/ TickEnd \/ TickDies \/ KillMark \/
           PauseChore \/ ResumeChore \/ PauseAll \/ ResumeAll
  BY <1>1, <1>12
  DEF TickEnter, TickClose, TickRow, TickApplyBreaker, TickPause, TickAlert,
      TickEnd, TickDies, KillMark, PauseChore, ResumeChore, PauseAll,
      ResumeAll
<1>13. ASSUME NEW r \in Runs, NEW seen \in {"PENDING", "RUNNING"},
             TickJudge(r, seen)
      PROVE  ScanBegun'
  BY <1>1, <1>13
  DEF TickJudge
<1> HIDE DEF RunnerTyped, KillInv, ScanBegun, Begun, Finishing, RunnerPlaces,
             Quit, Working, runner, record, process, breaker, others, tick,
             kill, Goto, Settle, Acquire, Release, Transition, AppendLedger,
             Halt, Rest, TickGoto
<1> QED
  BY <1>2, <1>3, <1>4, <1>5, <1>6, <1>7, <1>8, <1>9, <1>10, <1>11, <1>12,
     <1>13
  DEF Next, RunnerStep, TickStep, OperatorStep


(* With a `ps' that does not fail, the tick only sets out to close what is *)
(* gone, and what is gone stays so.                                        *)
LEMMA SuspectGoneKept == ~PsFaults /\ LInv /\ [Next]_vars => SuspectGone'
<1> SUFFICES ASSUME ~PsFaults, LInv, [Next]_vars PROVE SuspectGone'
  OBVIOUS
<1>1. /\ RunnerTyped /\ ProcessTyped /\ TickTyped /\ TickInv /\ KillInv
      /\ ScanBegun /\ SuspectGone
      /\ \A r \in Runs : ChildByPlace(r)
  BY RunsAssumption, ActorsAssumption
  DEF LInv, KInv, IInv, TypeOK
<1> USE DEF RunnerTyped, ProcessTyped, TickTyped, TickInv, KillInv,
            SuspectGone, ChildByPlace, Begun, Finishing, RunnerPlaces, Quit,
            Working, runner, record, process, breaker, others, tick, kill,
            Goto, Settle, Acquire, Release, Transition, AppendLedger, Halt,
            Rest, TickGoto
<1>2. CASE UNCHANGED vars
  BY <1>1, <1>2
  DEF vars
<1>3. ASSUME NEW r \in Runs, NoteFalseBreaker(r)
      PROVE  SuspectGone'
  <2>1. /\ pc[r] = "note" /\ pc' = [pc EXCEPT ![r] = "breaker"]
        /\ UNCHANGED <<verdict, record, process, lock, others>>
    BY <1>3 DEF NoteFalseBreaker
  <2> QED
    BY <1>1, <2>1
<1>4. ASSUME NEW r \in Runs, Launch(r) \/ Enter(r)
      PROVE  SuspectGone'
  BY <1>1, <1>4
  DEF Launch, Enter
<1>5. ASSUME NEW r \in Runs, Admit(r)
      PROVE  SuspectGone'
  BY <1>1, <1>5
  DEF Admit
<1>6. ASSUME NEW r \in Runs, Refuse(r) \/ RefusalRow(r) \/ WritePending(r)
      PROVE  SuspectGone'
  BY <1>1, <1>6
  DEF Refuse, RefusalRow, WritePending
<1>7. ASSUME NEW r \in Runs, ResolveSecrets(r)
      PROVE  SuspectGone'
  BY <1>1, <1>7
  DEF ResolveSecrets
<1>8. ASSUME NEW r \in Runs, Spawn(r)
      PROVE  SuspectGone'
  BY <1>1, <1>8
  DEF Spawn
<1>9. ASSUME NEW r \in Runs, StartChild(r)
      PROVE  SuspectGone'
  BY <1>1, <1>9
  DEF StartChild
<1>10. ASSUME NEW r \in Runs, StartSelf(r)
      PROVE  SuspectGone'
  BY <1>1, <1>10
  DEF StartSelf
<1>11. ASSUME NEW r \in Runs, Collect(r)
      PROVE  SuspectGone'
  BY <1>1, <1>11
  DEF Collect
<1>12. ASSUME NEW r \in Runs, Complete(r)
      PROVE  SuspectGone'
  BY <1>1, <1>12
  DEF Complete
<1>13. ASSUME NEW r \in Runs, Finish(r) \/ FinishRow(r)
      PROVE  SuspectGone'
  BY <1>1, <1>13
  DEF Finish, FinishRow
<1>14. ASSUME NEW r \in Runs, EnterAmend(r)
      PROVE  SuspectGone'
  BY <1>1, <1>14
  DEF EnterAmend
<1>15. ASSUME NEW r \in Runs, AmendRow(r) \/ AmendSet(r)
      PROVE  SuspectGone'
  BY <1>1, <1>15
  DEF AmendRow, AmendSet
<1>16. ASSUME NEW r \in Runs, ApplyBreaker(r)
      PROVE  SuspectGone'
  BY <1>1, <1>16
  DEF ApplyBreaker
<1>17. ASSUME NEW r \in Runs, BreakerPause(r) \/ BreakerAlert(r)
      PROVE  SuspectGone'
  BY <1>1, <1>17
  DEF BreakerPause, BreakerAlert
<1>18. ASSUME NEW r \in Runs, Age(r) \/ KillCheck(r)
      PROVE  SuspectGone'
  BY <1>1, <1>18
  DEF Age, KillCheck
<1>19. ASSUME NEW r \in Runs, ChildExit(r)
      PROVE  SuspectGone'
  BY <1>1, <1>19
  DEF ChildExit
<1>20. CASE KillSignal
  BY <1>1, <1>20
  DEF KillSignal
<1>21. ASSUME NEW r \in Runs, RunnerDies(r)
      PROVE  SuspectGone'
  BY <1>1, <1>21
  DEF RunnerDies
<1>22. CASE TickScan \/ TickEnter \/ TickClose \/ TickRow \/
           TickApplyBreaker \/ TickPause \/ TickAlert \/ TickEnd \/ TickDies
           \/ KillMark \/ PauseChore \/ ResumeChore \/ PauseAll \/ ResumeAll
  BY <1>1, <1>22
  DEF TickScan, TickEnter, TickClose, TickRow, TickApplyBreaker, TickPause,
      TickAlert, TickEnd, TickDies, KillMark, PauseChore, ResumeChore,
      PauseAll, ResumeAll
<1>23. ASSUME NEW r \in Runs, NEW seen \in {"PENDING", "RUNNING"},
             TickJudge(r, seen)
      PROVE  SuspectGone'
  <2>1. CASE UNCHANGED <<tickPc, suspect, saw>>
    BY <1>1, <2>1, <1>23 DEF TickJudge
  <2>2. CASE ~(seen = "RUNNING" /\ ProcessAlive(r)) /\ suspect' = r /\ saw' = seen
    <3>1. seen = "RUNNING" => pc[r] \in Begun /\ ~ProcessAlive(r)
      BY <1>1, <2>2, <1>23 DEF TickJudge, ScanBegun
    <3>2. UNCHANGED <<pc, child>>
      BY <1>23 DEF TickJudge
    <3> QED
      BY <1>1, <2>2, <3>1, <3>2 DEF ProcessAlive
  <2> QED
    BY <2>1, <2>2, <1>23 DEF TickJudge, VouchedFor, Unseen
<1> HIDE DEF RunnerTyped, ProcessTyped, TickTyped, TickInv, KillInv,
             SuspectGone, ChildByPlace, Begun, Finishing, RunnerPlaces, Quit,
             Working, runner, record, process, breaker, others, tick, kill,
             Goto, Settle, Acquire, Release, Transition, AppendLedger, Halt,
             Rest, TickGoto
<1> QED
  BY <1>2, <1>3, <1>4, <1>5, <1>6, <1>7, <1>8, <1>9, <1>10, <1>11, <1>12,
     <1>13, <1>14, <1>15, <1>16, <1>17, <1>18, <1>19, <1>20, <1>21, <1>22,
     <1>23
  DEF Next, RunnerStep, TickStep, OperatorStep


(* Whoever closes a run, its live child has been signalled or will be.     *)
LEMMA LostChildKept == LInv /\ [Next]_vars => LostChildIsSignalled'
<1> SUFFICES ASSUME LInv, [Next]_vars PROVE LostChildIsSignalled'
  OBVIOUS
<1>1. /\ RunnerTyped /\ RecordTyped /\ ProcessTyped /\ TickTyped /\ TickInv /\ KillInv
      /\ SuspectGone /\ LostChildIsSignalled
      /\ \A r \in Runs : ByPlace(r) /\ ChildByPlace(r)
  BY RunsAssumption, ActorsAssumption
  DEF LInv, KInv, IInv, TypeOK
<1> USE DEF RunnerTyped, RecordTyped, ProcessTyped, TickTyped, TickInv,
            KillInv, LostChildIsSignalled, ByPlace, ChildByPlace, Finishing,
            RunnerPlaces, Quit, Working, Absent, TrueOutcomes, RunTerminal,
            Failures, Refusals, runner, record, process, breaker, others,
            tick, kill, Goto, Settle, Acquire, Release, Transition,
            AppendLedger, Halt, Rest, TickGoto
<1>2. CASE UNCHANGED vars
  BY <1>1, <1>2
  DEF vars
<1>3. ASSUME NEW r \in Runs, NoteFalseBreaker(r)
      PROVE  LostChildIsSignalled'
  <2>1. /\ pc[r] = "note" /\ pc' = [pc EXCEPT ![r] = "breaker"]
        /\ UNCHANGED <<verdict, record, process, lock, others>>
    BY <1>3 DEF NoteFalseBreaker
  <2> QED
    BY <1>1, <2>1
<1>4. ASSUME NEW r \in Runs, Launch(r) \/ Enter(r)
      PROVE  LostChildIsSignalled'
  BY <1>1, <1>4
  DEF Launch, Enter
<1>5. ASSUME NEW r \in Runs, Admit(r)
      PROVE  LostChildIsSignalled'
  BY <1>1, <1>5
  DEF Admit
<1>6. ASSUME NEW r \in Runs, Spawn(r) \/ ResolveSecrets(r)
      PROVE  LostChildIsSignalled'
  BY <1>1, <1>6
  DEF Spawn, ResolveSecrets
<1>7. ASSUME NEW r \in Runs, StartChild(r) \/ StartSelf(r)
      PROVE  LostChildIsSignalled'
  BY <1>1, <1>7
  DEF StartChild, StartSelf
<1>8. ASSUME NEW r \in Runs, Collect(r)
      PROVE  LostChildIsSignalled'
  <2>1. /\ pc[r] \notin {"claim", "dead"} /\ \A s \in Runs : s # r => pc'[s] = pc[s]
        /\ UNCHANGED <<status, child, termed>>
    BY <1>1, <1>8 DEF Collect
  <2>2. LostChildIsSignalled
    BY <1>1
  <2> HIDE DEF ByPlace, ChildByPlace
  <2> QED
    BY <2>1, <2>2
<1>9. ASSUME NEW r \in Runs, Complete(r)
      PROVE  LostChildIsSignalled'
  <2>1. /\ pc[r] \notin {"claim", "dead"} /\ \A s \in Runs : s # r => pc'[s] = pc[s]
        /\ UNCHANGED <<status, child, termed>>
    BY <1>1, <1>9 DEF Complete
  <2>2. LostChildIsSignalled
    BY <1>1
  <2> HIDE DEF ByPlace, ChildByPlace
  <2> QED
    BY <2>1, <2>2
<1>10. ASSUME NEW r \in Runs, Finish(r)
      PROVE  LostChildIsSignalled'
  <2>1. /\ pc[r] = "finish" /\ UNCHANGED <<child, termed>>
        /\ \/ status' = status \/ status' = [status EXCEPT ![r] = verdict[r]]
        /\ \A s \in Runs : s # r => pc'[s] = pc[s]
    BY <1>1, <1>10 DEF Finish
  <2>2. child[r] # "live"
    BY <1>1, <2>1
  <2>3. status \in [Runs -> RunStatus \cup {Absent}] /\ LostChildIsSignalled
    BY <1>1
  <2> HIDE DEF ByPlace, ChildByPlace
  <2> QED
    BY <2>1, <2>2, <2>3
<1>11. ASSUME NEW r \in Runs, AmendSet(r)
      PROVE  LostChildIsSignalled'
  BY <1>1, <1>11
  DEF AmendSet
<1>12. ASSUME NEW r \in Runs, EnterAmend(r)
      PROVE  LostChildIsSignalled'
  <2>1. /\ pc[r] \notin {"claim", "dead"} /\ \A s \in Runs : s # r => pc'[s] = pc[s]
        /\ UNCHANGED <<status, child, termed>>
    BY <1>1, <1>12 DEF EnterAmend
  <2>2. LostChildIsSignalled
    BY <1>1
  <2> HIDE DEF ByPlace, ChildByPlace
  <2> QED
    BY <2>1, <2>2
<1>13. ASSUME NEW r \in Runs, FinishRow(r)
      PROVE  LostChildIsSignalled'
  <2>1. /\ pc[r] \notin {"claim", "dead"} /\ \A s \in Runs : s # r => pc'[s] = pc[s]
        /\ UNCHANGED <<status, child, termed>>
    BY <1>1, <1>13 DEF FinishRow
  <2>2. LostChildIsSignalled
    BY <1>1
  <2> HIDE DEF ByPlace, ChildByPlace
  <2> QED
    BY <2>1, <2>2
<1>14. ASSUME NEW r \in Runs, AmendRow(r)
      PROVE  LostChildIsSignalled'
  <2>1. /\ pc[r] \notin {"claim", "dead"} /\ \A s \in Runs : s # r => pc'[s] = pc[s]
        /\ UNCHANGED <<status, child, termed>>
    BY <1>1, <1>14 DEF AmendRow
  <2>2. LostChildIsSignalled
    BY <1>1
  <2> HIDE DEF ByPlace, ChildByPlace
  <2> QED
    BY <2>1, <2>2
<1>15. ASSUME NEW r \in Runs, BreakerPause(r) \/ BreakerAlert(r)
      PROVE  LostChildIsSignalled'
  BY <1>1, <1>15
  DEF BreakerPause, BreakerAlert
<1>16. ASSUME NEW r \in Runs, Age(r) \/ KillCheck(r)
      PROVE  LostChildIsSignalled'
  BY <1>1, <1>16
  DEF Age, KillCheck
<1>17. ASSUME NEW r \in Runs, WritePending(r)
      PROVE  LostChildIsSignalled'
  BY <1>1, <1>17
  DEF WritePending
<1>18. ASSUME NEW r \in Runs, Refuse(r)
      PROVE  LostChildIsSignalled'
  BY <1>1, <1>18
  DEF Refuse
<1>19. ASSUME NEW r \in Runs, RefusalRow(r)
      PROVE  LostChildIsSignalled'
  BY <1>1, <1>19
  DEF RefusalRow
<1>20. ASSUME NEW r \in Runs, ApplyBreaker(r)
      PROVE  LostChildIsSignalled'
  BY <1>1, <1>20
  DEF ApplyBreaker
<1>21. ASSUME NEW r \in Runs, ChildExit(r)
      PROVE  LostChildIsSignalled'
  BY <1>1, <1>21
  DEF ChildExit
<1>22. ASSUME NEW r \in Runs, RunnerDies(r)
      PROVE  LostChildIsSignalled'
  BY <1>1, <1>22
  DEF RunnerDies
<1>23. CASE TickClose
  <2>1. /\ tickPc = "close" /\ suspect \in Runs /\ UNCHANGED <<pc, child, termed>>
        /\ \/ status' = status
           \/ status[suspect] = saw /\ status' = [status EXCEPT ![suspect] = "INTERRUPTED"]
    BY <1>1, <1>23 DEF TickClose
  <2>2. CASE status' = status
    BY <1>1, <2>1, <2>2
  <2>3. CASE status[suspect] = saw /\ status' = [status EXCEPT ![suspect] = "INTERRUPTED"]
    <3>1. saw = "RUNNING" => child[suspect] # "live"
      BY <1>1, <2>1 DEF SuspectGone
    <3>2. saw = "PENDING" /\ child[suspect] = "live" => pc[suspect] \in {"claim", "dead"}
      BY <1>1, <2>1, <2>3
    <3>3. saw \in {"PENDING", "RUNNING"}
      BY <1>1, <2>1
    <3> QED
      BY <1>1, <2>1, <2>3, <3>1, <3>2, <3>3
  <2> QED
    BY <2>1, <2>2, <2>3
<1>24. CASE KillSignal
  BY <1>1, <1>24
  DEF KillSignal
<1>25. CASE TickScan \/ TickEnter \/ TickRow \/ TickApplyBreaker \/
           TickPause \/ TickAlert \/ TickEnd \/ TickDies \/ KillMark \/
           PauseChore \/ ResumeChore \/ PauseAll \/ ResumeAll
  BY <1>1, <1>25
  DEF TickScan, TickEnter, TickRow, TickApplyBreaker, TickPause, TickAlert,
      TickEnd, TickDies, KillMark, PauseChore, ResumeChore, PauseAll,
      ResumeAll
<1>26. ASSUME NEW r \in Runs, NEW seen \in {"PENDING", "RUNNING"},
             TickJudge(r, seen)
      PROVE  LostChildIsSignalled'
  BY <1>1, <1>26
  DEF TickJudge
<1> HIDE DEF RunnerTyped, RecordTyped, ProcessTyped, TickTyped, TickInv,
             KillInv, LostChildIsSignalled, ByPlace, ChildByPlace, Finishing,
             RunnerPlaces, Quit, Working, Absent, TrueOutcomes, RunTerminal,
             Failures, Refusals, runner, record, process, breaker, others,
             tick, kill, Goto, Settle, Acquire, Release, Transition,
             AppendLedger, Halt, Rest, TickGoto
<1> QED
  BY <1>2, <1>3, <1>4, <1>5, <1>6, <1>7, <1>8, <1>9, <1>10, <1>11, <1>12,
     <1>13, <1>14, <1>15, <1>16, <1>17, <1>18, <1>19, <1>20, <1>21, <1>22,
     <1>23, <1>24, <1>25, <1>26
  DEF Next, RunnerStep, TickStep, OperatorStep


(* Where `ps' does not fail, LInv is kept.                                 *)
LEMMA LInvKept == ~PsFaults /\ LInv /\ [Next]_vars => LInv'
<1>1. LInv /\ [Next]_vars => KInv'
  BY KInvKept DEF LInv
<1> QED
  BY <1>1, ScanBegunKept, SuspectGoneKept, LostChildKept DEF LInv

(* So every reachable state satisfies it.                                  *)
LEMMA LostInvariance == ASSUME ~PsFaults PROVE Spec => []LInv
<1>1. Init => LInv
  BY KillBegins DEF Init, LInv, ScanBegun, SuspectGone, LostChildIsSignalled
<1>2. LInv /\ [Next]_vars => LInv'
  BY LInvKept
<1> QED
  BY <1>1, <1>2, PTL DEF Spec

(* A run the tick closed leaves no live child unsignalled, however the     *)
(* close raced the spawn, the start and the finish. A failing `ps' has to  *)
(* be excluded: a tick that cannot see the child of a dead runner closes   *)
(* the run and leaves the child alone (reaping in application/tick.py).    *)
THEOREM LostChildIsSignalledHolds == ASSUME ~PsFaults PROVE Spec => []LostChildIsSignalled
<1>1. LInv => LostChildIsSignalled
  BY DEF LInv
<1> QED
  BY <1>1, LostInvariance, PTL
-----------------------------------------------------------------------------
(* A runner that has not started its run yet is PENDING and young.         *)
YoungUntilBegun(r) ==
  pc[r] \in {"secrets", "spawn", "claim", "own"} => status[r] = "PENDING" /\ r \in young

(* A run that stays PENDING is dead.                                       *)
StaleIsDead ==
  /\ \A r \in Runs : <<r, "PENDING">> \in scan => pc[r] = "dead"
  /\ tickPc \in {"lock", "close"} /\ saw = "PENDING" => pc[suspect] = "dead"

(* A run executes under a RUNNING record for as long as it has a process.  *)
RunsWhileExecuting(r) == pc[r] = "exec" /\ child[r] # "gone" => status[r] = "RUNNING"

(* A prompt runs inside its runner.                                        *)
NoPromptChild(r) ==
  Kind = "PROMPT" => pc[r] \notin {"spawn", "claim"} /\ child[r] = "none"

(* A live child has a runner that is starting it or waits on it.           *)
ChildIsAttended(r) == child[r] = "live" => pc[r] \in {"claim", "exec"}

(* Admitted and not done executing.                                        *)
Engaged(r) ==
  \/ pc[r] \in {"pend", "secrets", "spawn", "own", "claim"}
  \/ pc[r] = "exec" /\ child[r] # "gone"

OneEngaged == \A r, s \in Runs \ Forced : Engaged(r) /\ Engaged(s) => r = s

OInv ==
  /\ LInv
  /\ \A r \in Runs : YoungUntilBegun(r) /\ RunsWhileExecuting(r) /\ NoPromptChild(r)
  /\ StaleIsDead
  /\ crashes = 0 => \A r \in Runs : ChildIsAttended(r)
  /\ OneEngaged
(* Before a run begins nobody closes it, and it does not get old.          *)
LEMMA YoungKept ==
  ~PsFaults /\ ~SlowStart /\ OInv /\ [Next]_vars => \A s \in Runs : YoungUntilBegun(s)'
<1> SUFFICES ASSUME ~PsFaults, ~SlowStart, OInv, [Next]_vars PROVE \A s \in Runs : YoungUntilBegun(s)'
  OBVIOUS
<1>1. /\ RunnerTyped /\ RecordTyped /\ TickTyped /\ TickInv /\ KillInv
      /\ StaleIsDead /\ \A r \in Runs : YoungUntilBegun(r)
  BY RunsAssumption, ActorsAssumption
  DEF OInv, LInv, KInv, IInv, TypeOK
<1> USE DEF RunnerTyped, RecordTyped, TickTyped, TickInv, KillInv,
            StaleIsDead, YoungUntilBegun, RunnerPlaces, Quit, Working, runner,
            record, process, breaker, others, tick, kill, Goto, Settle,
            Acquire, Release, Transition, AppendLedger, Halt, Rest, TickGoto
<1>2. CASE UNCHANGED vars
  BY <1>1, <1>2
  DEF vars
<1>3. ASSUME NEW r \in Runs, NoteFalseBreaker(r)
      PROVE  \A s \in Runs : YoungUntilBegun(s)'
  <2>1. /\ pc[r] = "note" /\ pc' = [pc EXCEPT ![r] = "breaker"]
        /\ UNCHANGED <<verdict, record, process, lock, others>>
    BY <1>3 DEF NoteFalseBreaker
  <2> QED
    BY <1>1, <2>1
<1>4. ASSUME NEW r \in Runs, Launch(r) \/ Enter(r)
      PROVE  \A s \in Runs : YoungUntilBegun(s)'
  BY <1>1, <1>4
  DEF Launch, Enter
<1>5. ASSUME NEW r \in Runs, Admit(r)
      PROVE  \A s \in Runs : YoungUntilBegun(s)'
  BY <1>1, <1>5
  DEF Admit
<1>6. ASSUME NEW r \in Runs, Refuse(r)
      PROVE  \A s \in Runs : YoungUntilBegun(s)'
  BY <1>1, <1>6
  DEF Refuse
<1>7. ASSUME NEW r \in Runs, RefusalRow(r)
      PROVE  \A s \in Runs : YoungUntilBegun(s)'
  BY <1>1, <1>7
  DEF RefusalRow
<1>8. ASSUME NEW r \in Runs, WritePending(r)
      PROVE  \A s \in Runs : YoungUntilBegun(s)'
  BY <1>1, <1>8
  DEF WritePending
<1>9. ASSUME NEW r \in Runs, ResolveSecrets(r)
      PROVE  \A s \in Runs : YoungUntilBegun(s)'
  BY <1>1, <1>9
  DEF ResolveSecrets
<1>10. ASSUME NEW r \in Runs, Spawn(r)
      PROVE  \A s \in Runs : YoungUntilBegun(s)'
  BY <1>1, <1>10
  DEF Spawn
<1>11. ASSUME NEW r \in Runs, StartChild(r)
      PROVE  \A s \in Runs : YoungUntilBegun(s)'
  BY <1>1, <1>11
  DEF StartChild
<1>12. ASSUME NEW r \in Runs, StartSelf(r)
      PROVE  \A s \in Runs : YoungUntilBegun(s)'
  BY <1>1, <1>12
  DEF StartSelf
<1>13. ASSUME NEW r \in Runs, Collect(r)
      PROVE  \A s \in Runs : YoungUntilBegun(s)'
  BY <1>1, <1>13
  DEF Collect
<1>14. ASSUME NEW r \in Runs, Complete(r)
      PROVE  \A s \in Runs : YoungUntilBegun(s)'
  BY <1>1, <1>14
  DEF Complete
<1>15. ASSUME NEW r \in Runs, Finish(r)
      PROVE  \A s \in Runs : YoungUntilBegun(s)'
  BY <1>1, <1>15
  DEF Finish
<1>16. ASSUME NEW r \in Runs, FinishRow(r)
      PROVE  \A s \in Runs : YoungUntilBegun(s)'
  BY <1>1, <1>16
  DEF FinishRow
<1>17. ASSUME NEW r \in Runs, EnterAmend(r)
      PROVE  \A s \in Runs : YoungUntilBegun(s)'
  BY <1>1, <1>17
  DEF EnterAmend
<1>18. ASSUME NEW r \in Runs, AmendRow(r)
      PROVE  \A s \in Runs : YoungUntilBegun(s)'
  BY <1>1, <1>18
  DEF AmendRow
<1>19. ASSUME NEW r \in Runs, AmendSet(r)
      PROVE  \A s \in Runs : YoungUntilBegun(s)'
  BY <1>1, <1>19
  DEF AmendSet
<1>20. ASSUME NEW r \in Runs, ApplyBreaker(r)
      PROVE  \A s \in Runs : YoungUntilBegun(s)'
  BY <1>1, <1>20
  DEF ApplyBreaker
<1>21. ASSUME NEW r \in Runs, BreakerPause(r) \/ BreakerAlert(r)
      PROVE  \A s \in Runs : YoungUntilBegun(s)'
  BY <1>1, <1>21
  DEF BreakerPause, BreakerAlert
<1>22. ASSUME NEW r \in Runs, Age(r)
      PROVE  \A s \in Runs : YoungUntilBegun(s)'
  BY <1>1, <1>22
  DEF Age
<1>23. ASSUME NEW r \in Runs, KillCheck(r)
      PROVE  \A s \in Runs : YoungUntilBegun(s)'
  BY <1>1, <1>23
  DEF KillCheck
<1>24. ASSUME NEW r \in Runs, ChildExit(r)
      PROVE  \A s \in Runs : YoungUntilBegun(s)'
  BY <1>1, <1>24
  DEF ChildExit
<1>25. ASSUME NEW r \in Runs, RunnerDies(r)
      PROVE  \A s \in Runs : YoungUntilBegun(s)'
  BY <1>1, <1>25
  DEF RunnerDies
<1>26. CASE TickClose
  BY <1>1, <1>26
  DEF TickClose
<1>27. CASE KillSignal
  BY <1>1, <1>27
  DEF KillSignal
<1>28. CASE TickScan \/ TickEnter \/ TickRow \/ TickApplyBreaker \/
           TickPause \/ TickAlert \/ TickEnd \/ TickDies \/ KillMark \/
           PauseChore \/ ResumeChore \/ PauseAll \/ ResumeAll
  BY <1>1, <1>28
  DEF TickScan, TickEnter, TickRow, TickApplyBreaker, TickPause, TickAlert,
      TickEnd, TickDies, KillMark, PauseChore, ResumeChore, PauseAll,
      ResumeAll
<1>29. ASSUME NEW r \in Runs, NEW seen \in {"PENDING", "RUNNING"},
             TickJudge(r, seen)
      PROVE  \A s \in Runs : YoungUntilBegun(s)'
  BY <1>1, <1>29
  DEF TickJudge
<1> HIDE DEF RunnerTyped, RecordTyped, TickTyped, TickInv, KillInv,
             StaleIsDead, YoungUntilBegun, RunnerPlaces, Quit, Working,
             runner, record, process, breaker, others, tick, kill, Goto,
             Settle, Acquire, Release, Transition, AppendLedger, Halt, Rest,
             TickGoto
<1> QED
  BY <1>2, <1>3, <1>4, <1>5, <1>6, <1>7, <1>8, <1>9, <1>10, <1>11, <1>12,
     <1>13, <1>14, <1>15, <1>16, <1>17, <1>18, <1>19, <1>20, <1>21, <1>22,
     <1>23, <1>24, <1>25, <1>26, <1>27, <1>28, <1>29
  DEF Next, RunnerStep, TickStep, OperatorStep


(* Nobody closes a run that executes.                                      *)
LEMMA RunsKept ==
  ~PsFaults /\ ~SlowStart /\ OInv /\ [Next]_vars => \A s \in Runs : RunsWhileExecuting(s)'
<1> SUFFICES ASSUME ~PsFaults, ~SlowStart, OInv, [Next]_vars PROVE \A s \in Runs : RunsWhileExecuting(s)'
  OBVIOUS
<1>1. /\ RunnerTyped /\ RecordTyped /\ ProcessTyped /\ TickTyped /\ TickInv /\ KillInv
      /\ StaleIsDead /\ SuspectGone /\ \A r \in Runs : RunsWhileExecuting(r)
  BY RunsAssumption, ActorsAssumption
  DEF OInv, LInv, KInv, IInv, TypeOK
<1> USE DEF RunnerTyped, RecordTyped, ProcessTyped, TickTyped, TickInv,
            KillInv, StaleIsDead, SuspectGone, RunsWhileExecuting,
            RunnerPlaces, Quit, Working, runner, record, process, breaker,
            others, tick, kill, Goto, Settle, Acquire, Release, Transition,
            AppendLedger, Halt, Rest, TickGoto
<1>2. CASE UNCHANGED vars
  BY <1>1, <1>2
  DEF vars
<1>3. ASSUME NEW r \in Runs, NoteFalseBreaker(r)
      PROVE  \A s \in Runs : RunsWhileExecuting(s)'
  <2>1. /\ pc[r] = "note" /\ pc' = [pc EXCEPT ![r] = "breaker"]
        /\ UNCHANGED <<verdict, record, process, lock, others>>
    BY <1>3 DEF NoteFalseBreaker
  <2> QED
    BY <1>1, <2>1
<1>4. ASSUME NEW r \in Runs, Launch(r) \/ Enter(r)
      PROVE  \A s \in Runs : RunsWhileExecuting(s)'
  BY <1>1, <1>4
  DEF Launch, Enter
<1>5. ASSUME NEW r \in Runs, Admit(r)
      PROVE  \A s \in Runs : RunsWhileExecuting(s)'
  BY <1>1, <1>5
  DEF Admit
<1>6. ASSUME NEW r \in Runs, Refuse(r)
      PROVE  \A s \in Runs : RunsWhileExecuting(s)'
  BY <1>1, <1>6
  DEF Refuse
<1>7. ASSUME NEW r \in Runs, RefusalRow(r)
      PROVE  \A s \in Runs : RunsWhileExecuting(s)'
  BY <1>1, <1>7
  DEF RefusalRow
<1>8. ASSUME NEW r \in Runs, WritePending(r)
      PROVE  \A s \in Runs : RunsWhileExecuting(s)'
  BY <1>1, <1>8
  DEF WritePending
<1>9. ASSUME NEW r \in Runs, ResolveSecrets(r)
      PROVE  \A s \in Runs : RunsWhileExecuting(s)'
  BY <1>1, <1>9
  DEF ResolveSecrets
<1>10. ASSUME NEW r \in Runs, Spawn(r)
      PROVE  \A s \in Runs : RunsWhileExecuting(s)'
  BY <1>1, <1>10
  DEF Spawn
<1>11. ASSUME NEW r \in Runs, StartChild(r)
      PROVE  \A s \in Runs : RunsWhileExecuting(s)'
  BY <1>1, <1>11
  DEF StartChild
<1>12. ASSUME NEW r \in Runs, StartSelf(r)
      PROVE  \A s \in Runs : RunsWhileExecuting(s)'
  BY <1>1, <1>12
  DEF StartSelf
<1>13. ASSUME NEW r \in Runs, Collect(r)
      PROVE  \A s \in Runs : RunsWhileExecuting(s)'
  BY <1>1, <1>13
  DEF Collect
<1>14. ASSUME NEW r \in Runs, Complete(r)
      PROVE  \A s \in Runs : RunsWhileExecuting(s)'
  BY <1>1, <1>14
  DEF Complete
<1>15. ASSUME NEW r \in Runs, Finish(r)
      PROVE  \A s \in Runs : RunsWhileExecuting(s)'
  BY <1>1, <1>15
  DEF Finish
<1>16. ASSUME NEW r \in Runs, FinishRow(r)
      PROVE  \A s \in Runs : RunsWhileExecuting(s)'
  BY <1>1, <1>16
  DEF FinishRow
<1>17. ASSUME NEW r \in Runs, EnterAmend(r)
      PROVE  \A s \in Runs : RunsWhileExecuting(s)'
  BY <1>1, <1>17
  DEF EnterAmend
<1>18. ASSUME NEW r \in Runs, AmendRow(r)
      PROVE  \A s \in Runs : RunsWhileExecuting(s)'
  BY <1>1, <1>18
  DEF AmendRow
<1>19. ASSUME NEW r \in Runs, AmendSet(r)
      PROVE  \A s \in Runs : RunsWhileExecuting(s)'
  BY <1>1, <1>19
  DEF AmendSet
<1>20. ASSUME NEW r \in Runs, ApplyBreaker(r)
      PROVE  \A s \in Runs : RunsWhileExecuting(s)'
  BY <1>1, <1>20
  DEF ApplyBreaker
<1>21. ASSUME NEW r \in Runs, BreakerPause(r) \/ BreakerAlert(r)
      PROVE  \A s \in Runs : RunsWhileExecuting(s)'
  BY <1>1, <1>21
  DEF BreakerPause, BreakerAlert
<1>22. ASSUME NEW r \in Runs, Age(r)
      PROVE  \A s \in Runs : RunsWhileExecuting(s)'
  BY <1>1, <1>22
  DEF Age
<1>23. ASSUME NEW r \in Runs, KillCheck(r)
      PROVE  \A s \in Runs : RunsWhileExecuting(s)'
  BY <1>1, <1>23
  DEF KillCheck
<1>24. ASSUME NEW r \in Runs, ChildExit(r)
      PROVE  \A s \in Runs : RunsWhileExecuting(s)'
  BY <1>1, <1>24
  DEF ChildExit
<1>25. ASSUME NEW r \in Runs, RunnerDies(r)
      PROVE  \A s \in Runs : RunsWhileExecuting(s)'
  BY <1>1, <1>25
  DEF RunnerDies
<1>26. CASE TickClose
  BY <1>1, <1>26
  DEF TickClose
<1>27. CASE KillSignal
  BY <1>1, <1>27
  DEF KillSignal
<1>28. CASE TickScan \/ TickEnter \/ TickRow \/ TickApplyBreaker \/
           TickPause \/ TickAlert \/ TickEnd \/ TickDies \/ KillMark \/
           PauseChore \/ ResumeChore \/ PauseAll \/ ResumeAll
  BY <1>1, <1>28
  DEF TickScan, TickEnter, TickRow, TickApplyBreaker, TickPause, TickAlert,
      TickEnd, TickDies, KillMark, PauseChore, ResumeChore, PauseAll,
      ResumeAll
<1>29. ASSUME NEW r \in Runs, NEW seen \in {"PENDING", "RUNNING"},
             TickJudge(r, seen)
      PROVE  \A s \in Runs : RunsWhileExecuting(s)'
  BY <1>1, <1>29
  DEF TickJudge
<1> HIDE DEF RunnerTyped, RecordTyped, ProcessTyped, TickTyped, TickInv,
             KillInv, StaleIsDead, SuspectGone, RunsWhileExecuting,
             RunnerPlaces, Quit, Working, runner, record, process, breaker,
             others, tick, kill, Goto, Settle, Acquire, Release, Transition,
             AppendLedger, Halt, Rest, TickGoto
<1> QED
  BY <1>2, <1>3, <1>4, <1>5, <1>6, <1>7, <1>8, <1>9, <1>10, <1>11, <1>12,
     <1>13, <1>14, <1>15, <1>16, <1>17, <1>18, <1>19, <1>20, <1>21, <1>22,
     <1>23, <1>24, <1>25, <1>26, <1>27, <1>28, <1>29
  DEF Next, RunnerStep, TickStep, OperatorStep


(* The dead stay dead, and only they stay PENDING.                         *)
LEMMA StaleKept ==
  ~PsFaults /\ ~SlowStart /\ OInv /\ [Next]_vars => StaleIsDead'
<1> SUFFICES ASSUME ~PsFaults, ~SlowStart, OInv, [Next]_vars PROVE StaleIsDead'
  OBVIOUS
<1>1. /\ RunnerTyped /\ TickTyped /\ TickInv /\ KillInv /\ StaleIsDead
  BY RunsAssumption, ActorsAssumption
  DEF OInv, LInv, KInv, IInv, TypeOK
<1> USE DEF RunnerTyped, TickTyped, TickInv, KillInv, StaleIsDead,
            RunnerPlaces, Quit, Working, runner, record, process, breaker,
            others, tick, kill, Goto, Settle, Acquire, Release, Transition,
            AppendLedger, Halt, Rest, TickGoto
<1>2. CASE UNCHANGED vars
  BY <1>1, <1>2
  DEF vars
<1>3. ASSUME NEW r \in Runs, NoteFalseBreaker(r)
      PROVE  StaleIsDead'
  <2>1. /\ pc[r] = "note" /\ pc' = [pc EXCEPT ![r] = "breaker"]
        /\ UNCHANGED <<verdict, record, process, lock, others>>
    BY <1>3 DEF NoteFalseBreaker
  <2> QED
    BY <1>1, <2>1
<1>4. ASSUME NEW r \in Runs, Launch(r) \/ Enter(r)
      PROVE  StaleIsDead'
  BY <1>1, <1>4
  DEF Launch, Enter
<1>5. ASSUME NEW r \in Runs, Admit(r)
      PROVE  StaleIsDead'
  BY <1>1, <1>5
  DEF Admit
<1>6. ASSUME NEW r \in Runs, Refuse(r) \/ RefusalRow(r) \/ WritePending(r)
      PROVE  StaleIsDead'
  BY <1>1, <1>6
  DEF Refuse, RefusalRow, WritePending
<1>7. ASSUME NEW r \in Runs, ResolveSecrets(r) \/ Spawn(r)
      PROVE  StaleIsDead'
  BY <1>1, <1>7
  DEF ResolveSecrets, Spawn
<1>8. ASSUME NEW r \in Runs, StartChild(r) \/ StartSelf(r)
      PROVE  StaleIsDead'
  BY <1>1, <1>8
  DEF StartChild, StartSelf
<1>9. ASSUME NEW r \in Runs, Collect(r) \/ Complete(r)
      PROVE  StaleIsDead'
  BY <1>1, <1>9
  DEF Collect, Complete
<1>10. ASSUME NEW r \in Runs, EnterAmend(r)
      PROVE  StaleIsDead'
  BY <1>1, <1>10
  DEF EnterAmend
<1>11. ASSUME NEW r \in Runs, ApplyBreaker(r)
      PROVE  StaleIsDead'
  BY <1>1, <1>11
  DEF ApplyBreaker
<1>12. ASSUME NEW r \in Runs, RunnerDies(r)
      PROVE  StaleIsDead'
  BY <1>1, <1>12
  DEF RunnerDies
<1>13. CASE TickScan
  <2>1. /\ tickPc' = "judge" /\ scan' = Suspects /\ UNCHANGED pc
    BY <1>13 DEF TickScan
  <2>2. ASSUME NEW s \in Runs, <<s, "PENDING">> \in Suspects PROVE pc[s] = "dead"
    <3>1. status[s] = "PENDING" /\ s \notin young
      BY <2>2 DEF Suspects
    <3>2. pc[s] \notin {"secrets", "spawn", "claim", "own"} /\ pc[s] # "done"
      BY <3>1 DEF OInv, LInv, KInv, YoungUntilBegun, ChildByPlace
    <3>3. ByPlace(s)
      BY DEF OInv, LInv, KInv, IInv
    <3> QED
      BY <1>1, <3>1, <3>2, <3>3 DEF ByPlace, Absent, Refusals, TrueOutcomes, RunTerminal, Failures
  <2> QED
    BY <2>1, <2>2
<1>14. CASE KillSignal
  BY <1>1, <1>14
  DEF KillSignal
<1>15. ASSUME NEW r \in Runs, Finish(r) \/ FinishRow(r) \/ AmendRow(r) \/
           AmendSet(r) \/ BreakerPause(r) \/ BreakerAlert(r) \/ ChildExit(r)
           \/ Age(r) \/ KillCheck(r)
      PROVE  StaleIsDead'
  BY <1>1, <1>15
  DEF Finish, FinishRow, AmendRow, AmendSet, BreakerPause, BreakerAlert,
      ChildExit, Age, KillCheck
<1>16. CASE TickEnter \/ TickClose \/ TickRow \/ TickApplyBreaker \/
           TickPause \/ TickAlert \/ TickEnd \/ TickDies \/ KillMark \/
           PauseChore \/ ResumeChore \/ PauseAll \/ ResumeAll
  BY <1>1, <1>16
  DEF TickEnter, TickClose, TickRow, TickApplyBreaker, TickPause, TickAlert,
      TickEnd, TickDies, KillMark, PauseChore, ResumeChore, PauseAll,
      ResumeAll
<1>17. ASSUME NEW r \in Runs, NEW seen \in {"PENDING", "RUNNING"},
             TickJudge(r, seen)
      PROVE  StaleIsDead'
  BY <1>1, <1>17
  DEF TickJudge
<1> HIDE DEF RunnerTyped, TickTyped, TickInv, KillInv, StaleIsDead,
             RunnerPlaces, Quit, Working, runner, record, process, breaker,
             others, tick, kill, Goto, Settle, Acquire, Release, Transition,
             AppendLedger, Halt, Rest, TickGoto
<1> QED
  BY <1>2, <1>3, <1>4, <1>5, <1>6, <1>7, <1>8, <1>9, <1>10, <1>11, <1>12,
     <1>13, <1>14, <1>15, <1>16, <1>17
  DEF Next, RunnerStep, TickStep, OperatorStep


(* A prompt never reaches the spawn.                                       *)
LEMMA NoPromptChildKept ==
  OInv /\ [Next]_vars => \A s \in Runs : NoPromptChild(s)'
<1> SUFFICES ASSUME OInv, [Next]_vars PROVE \A s \in Runs : NoPromptChild(s)'
  OBVIOUS
<1>1. /\ RunnerTyped /\ ProcessTyped /\ KillInv /\ \A r \in Runs : NoPromptChild(r)
  BY RunsAssumption, ActorsAssumption
  DEF OInv, LInv, KInv, IInv, TypeOK
<1> USE DEF RunnerTyped, ProcessTyped, KillInv, NoPromptChild, RunnerPlaces,
            Quit, Working, runner, record, process, breaker, others, tick,
            kill, Goto, Settle, Acquire, Release, Transition, AppendLedger,
            Halt, Rest, TickGoto
<1>2. CASE UNCHANGED vars
  BY <1>1, <1>2
  DEF vars
<1>3. ASSUME NEW r \in Runs, NoteFalseBreaker(r)
      PROVE  \A s \in Runs : NoPromptChild(s)'
  <2>1. /\ pc[r] = "note" /\ pc' = [pc EXCEPT ![r] = "breaker"]
        /\ UNCHANGED <<verdict, record, process, lock, others>>
    BY <1>3 DEF NoteFalseBreaker
  <2> QED
    BY <1>1, <2>1
<1>4. ASSUME NEW r \in Runs, Launch(r) \/ Enter(r)
      PROVE  \A s \in Runs : NoPromptChild(s)'
  BY <1>1, <1>4
  DEF Launch, Enter
<1>5. ASSUME NEW r \in Runs, Admit(r)
      PROVE  \A s \in Runs : NoPromptChild(s)'
  BY <1>1, <1>5
  DEF Admit
<1>6. ASSUME NEW r \in Runs, Refuse(r)
      PROVE  \A s \in Runs : NoPromptChild(s)'
  BY <1>1, <1>6
  DEF Refuse
<1>7. ASSUME NEW r \in Runs, RefusalRow(r)
      PROVE  \A s \in Runs : NoPromptChild(s)'
  BY <1>1, <1>7
  DEF RefusalRow
<1>8. ASSUME NEW r \in Runs, WritePending(r)
      PROVE  \A s \in Runs : NoPromptChild(s)'
  BY <1>1, <1>8
  DEF WritePending
<1>9. ASSUME NEW r \in Runs, ResolveSecrets(r)
      PROVE  \A s \in Runs : NoPromptChild(s)'
  BY <1>1, <1>9
  DEF ResolveSecrets
<1>10. ASSUME NEW r \in Runs, Spawn(r)
      PROVE  \A s \in Runs : NoPromptChild(s)'
  BY <1>1, <1>10
  DEF Spawn
<1>11. ASSUME NEW r \in Runs, StartChild(r)
      PROVE  \A s \in Runs : NoPromptChild(s)'
  BY <1>1, <1>11
  DEF StartChild
<1>12. ASSUME NEW r \in Runs, StartSelf(r)
      PROVE  \A s \in Runs : NoPromptChild(s)'
  BY <1>1, <1>12
  DEF StartSelf
<1>13. ASSUME NEW r \in Runs, Collect(r)
      PROVE  \A s \in Runs : NoPromptChild(s)'
  BY <1>1, <1>13
  DEF Collect
<1>14. ASSUME NEW r \in Runs, Complete(r)
      PROVE  \A s \in Runs : NoPromptChild(s)'
  BY <1>1, <1>14
  DEF Complete
<1>15. ASSUME NEW r \in Runs, Finish(r)
      PROVE  \A s \in Runs : NoPromptChild(s)'
  BY <1>1, <1>15
  DEF Finish
<1>16. ASSUME NEW r \in Runs, FinishRow(r)
      PROVE  \A s \in Runs : NoPromptChild(s)'
  BY <1>1, <1>16
  DEF FinishRow
<1>17. ASSUME NEW r \in Runs, EnterAmend(r)
      PROVE  \A s \in Runs : NoPromptChild(s)'
  BY <1>1, <1>17
  DEF EnterAmend
<1>18. ASSUME NEW r \in Runs, AmendRow(r)
      PROVE  \A s \in Runs : NoPromptChild(s)'
  BY <1>1, <1>18
  DEF AmendRow
<1>19. ASSUME NEW r \in Runs, AmendSet(r)
      PROVE  \A s \in Runs : NoPromptChild(s)'
  BY <1>1, <1>19
  DEF AmendSet
<1>20. ASSUME NEW r \in Runs, ApplyBreaker(r)
      PROVE  \A s \in Runs : NoPromptChild(s)'
  BY <1>1, <1>20
  DEF ApplyBreaker
<1>21. ASSUME NEW r \in Runs, BreakerPause(r) \/ BreakerAlert(r)
      PROVE  \A s \in Runs : NoPromptChild(s)'
  BY <1>1, <1>21
  DEF BreakerPause, BreakerAlert
<1>22. ASSUME NEW r \in Runs, Age(r)
      PROVE  \A s \in Runs : NoPromptChild(s)'
  BY <1>1, <1>22
  DEF Age
<1>23. ASSUME NEW r \in Runs, KillCheck(r)
      PROVE  \A s \in Runs : NoPromptChild(s)'
  BY <1>1, <1>23
  DEF KillCheck
<1>24. ASSUME NEW r \in Runs, ChildExit(r)
      PROVE  \A s \in Runs : NoPromptChild(s)'
  BY <1>1, <1>24
  DEF ChildExit
<1>25. ASSUME NEW r \in Runs, RunnerDies(r)
      PROVE  \A s \in Runs : NoPromptChild(s)'
  BY <1>1, <1>25
  DEF RunnerDies
<1>26. CASE TickClose
  BY <1>1, <1>26
  DEF TickClose
<1>27. CASE KillSignal
  BY <1>1, <1>27
  DEF KillSignal
<1>28. CASE TickScan \/ TickEnter \/ TickRow \/ TickApplyBreaker \/
           TickPause \/ TickAlert \/ TickEnd \/ TickDies \/ KillMark \/
           PauseChore \/ ResumeChore \/ PauseAll \/ ResumeAll
  BY <1>1, <1>28
  DEF TickScan, TickEnter, TickRow, TickApplyBreaker, TickPause, TickAlert,
      TickEnd, TickDies, KillMark, PauseChore, ResumeChore, PauseAll,
      ResumeAll
<1>29. ASSUME NEW r \in Runs, NEW seen \in {"PENDING", "RUNNING"},
             TickJudge(r, seen)
      PROVE  \A s \in Runs : NoPromptChild(s)'
  BY <1>1, <1>29
  DEF TickJudge
<1> HIDE DEF RunnerTyped, ProcessTyped, KillInv, NoPromptChild, RunnerPlaces,
             Quit, Working, runner, record, process, breaker, others, tick,
             kill, Goto, Settle, Acquire, Release, Transition, AppendLedger,
             Halt, Rest, TickGoto
<1> QED
  BY <1>2, <1>3, <1>4, <1>5, <1>6, <1>7, <1>8, <1>9, <1>10, <1>11, <1>12,
     <1>13, <1>14, <1>15, <1>16, <1>17, <1>18, <1>19, <1>20, <1>21, <1>22,
     <1>23, <1>24, <1>25, <1>26, <1>27, <1>28, <1>29
  DEF Next, RunnerStep, TickStep, OperatorStep


(* While no process crashes, no child is left by its runner.               *)
LEMMA AttendedKept ==
  OInv /\ [Next]_vars /\ crashes' = 0 => \A s \in Runs : ChildIsAttended(s)'
<1> SUFFICES ASSUME OInv, [Next]_vars, crashes' = 0 PROVE \A s \in Runs : ChildIsAttended(s)'
  OBVIOUS
<1>1. /\ RunnerTyped /\ ProcessTyped /\ KillInv /\ crashes \in Nat
      /\ \A r \in Runs : ChildByPlace(r) /\ YoungUntilBegun(r)
      /\ crashes = 0 => \A r \in Runs : ChildIsAttended(r)
  BY RunsAssumption, ActorsAssumption
  DEF OInv, LInv, KInv, IInv, TypeOK, ControlTyped
<1> USE DEF RunnerTyped, ProcessTyped, KillInv, ChildIsAttended, ChildByPlace,
            Finishing, RunnerPlaces, Quit, Working, YoungUntilBegun, runner,
            record, process, breaker, others, tick, kill, Goto, Settle,
            Acquire, Release, Transition, AppendLedger, Halt, Rest, TickGoto
<1>2. CASE UNCHANGED vars
  BY <1>1, <1>2
  DEF vars
<1>3. ASSUME NEW r \in Runs, NoteFalseBreaker(r)
      PROVE  \A s \in Runs : ChildIsAttended(s)'
  <2>1. /\ pc[r] = "note" /\ pc' = [pc EXCEPT ![r] = "breaker"]
        /\ UNCHANGED <<verdict, record, process, lock, others>>
    BY <1>3 DEF NoteFalseBreaker
  <2> QED
    BY <1>1, <2>1
<1>4. ASSUME NEW r \in Runs, Launch(r) \/ Enter(r)
      PROVE  \A s \in Runs : ChildIsAttended(s)'
  BY <1>1, <1>4
  DEF Launch, Enter
<1>5. ASSUME NEW r \in Runs, Admit(r)
      PROVE  \A s \in Runs : ChildIsAttended(s)'
  BY <1>1, <1>5
  DEF Admit
<1>6. ASSUME NEW r \in Runs, Refuse(r)
      PROVE  \A s \in Runs : ChildIsAttended(s)'
  BY <1>1, <1>6
  DEF Refuse
<1>7. ASSUME NEW r \in Runs, RefusalRow(r)
      PROVE  \A s \in Runs : ChildIsAttended(s)'
  BY <1>1, <1>7
  DEF RefusalRow
<1>8. ASSUME NEW r \in Runs, WritePending(r)
      PROVE  \A s \in Runs : ChildIsAttended(s)'
  BY <1>1, <1>8
  DEF WritePending
<1>9. ASSUME NEW r \in Runs, ResolveSecrets(r)
      PROVE  \A s \in Runs : ChildIsAttended(s)'
  BY <1>1, <1>9
  DEF ResolveSecrets
<1>10. ASSUME NEW r \in Runs, Spawn(r)
      PROVE  \A s \in Runs : ChildIsAttended(s)'
  BY <1>1, <1>10
  DEF Spawn
<1>11. ASSUME NEW r \in Runs, StartChild(r)
      PROVE  \A s \in Runs : ChildIsAttended(s)'
  BY <1>1, <1>11
  DEF StartChild
<1>12. ASSUME NEW r \in Runs, StartSelf(r)
      PROVE  \A s \in Runs : ChildIsAttended(s)'
  BY <1>1, <1>12
  DEF StartSelf
<1>13. ASSUME NEW r \in Runs, Collect(r)
      PROVE  \A s \in Runs : ChildIsAttended(s)'
  BY <1>1, <1>13
  DEF Collect
<1>14. ASSUME NEW r \in Runs, Complete(r)
      PROVE  \A s \in Runs : ChildIsAttended(s)'
  BY <1>1, <1>14
  DEF Complete
<1>15. ASSUME NEW r \in Runs, Finish(r)
      PROVE  \A s \in Runs : ChildIsAttended(s)'
  BY <1>1, <1>15
  DEF Finish
<1>16. ASSUME NEW r \in Runs, FinishRow(r)
      PROVE  \A s \in Runs : ChildIsAttended(s)'
  BY <1>1, <1>16
  DEF FinishRow
<1>17. ASSUME NEW r \in Runs, EnterAmend(r)
      PROVE  \A s \in Runs : ChildIsAttended(s)'
  BY <1>1, <1>17
  DEF EnterAmend
<1>18. ASSUME NEW r \in Runs, AmendRow(r)
      PROVE  \A s \in Runs : ChildIsAttended(s)'
  BY <1>1, <1>18
  DEF AmendRow
<1>19. ASSUME NEW r \in Runs, AmendSet(r)
      PROVE  \A s \in Runs : ChildIsAttended(s)'
  BY <1>1, <1>19
  DEF AmendSet
<1>20. ASSUME NEW r \in Runs, ApplyBreaker(r)
      PROVE  \A s \in Runs : ChildIsAttended(s)'
  BY <1>1, <1>20
  DEF ApplyBreaker
<1>21. ASSUME NEW r \in Runs, BreakerPause(r) \/ BreakerAlert(r)
      PROVE  \A s \in Runs : ChildIsAttended(s)'
  BY <1>1, <1>21
  DEF BreakerPause, BreakerAlert
<1>22. ASSUME NEW r \in Runs, Age(r)
      PROVE  \A s \in Runs : ChildIsAttended(s)'
  BY <1>1, <1>22
  DEF Age
<1>23. ASSUME NEW r \in Runs, KillCheck(r)
      PROVE  \A s \in Runs : ChildIsAttended(s)'
  BY <1>1, <1>23
  DEF KillCheck
<1>24. ASSUME NEW r \in Runs, ChildExit(r)
      PROVE  \A s \in Runs : ChildIsAttended(s)'
  BY <1>1, <1>24
  DEF ChildExit
<1>25. ASSUME NEW r \in Runs, RunnerDies(r)
      PROVE  \A s \in Runs : ChildIsAttended(s)'
  BY <1>1, <1>25
  DEF RunnerDies
<1>26. CASE TickClose
  BY <1>1, <1>26
  DEF TickClose
<1>27. CASE KillSignal
  BY <1>1, <1>27
  DEF KillSignal
<1>28. CASE TickScan \/ TickEnter \/ TickRow \/ TickApplyBreaker \/
           TickPause \/ TickAlert \/ TickEnd \/ TickDies \/ KillMark \/
           PauseChore \/ ResumeChore \/ PauseAll \/ ResumeAll
  BY <1>1, <1>28
  DEF TickScan, TickEnter, TickRow, TickApplyBreaker, TickPause, TickAlert,
      TickEnd, TickDies, KillMark, PauseChore, ResumeChore, PauseAll,
      ResumeAll
<1>29. ASSUME NEW r \in Runs, NEW seen \in {"PENDING", "RUNNING"},
             TickJudge(r, seen)
      PROVE  \A s \in Runs : ChildIsAttended(s)'
  BY <1>1, <1>29
  DEF TickJudge
<1> HIDE DEF RunnerTyped, ProcessTyped, KillInv, ChildIsAttended,
             ChildByPlace, Finishing, RunnerPlaces, Quit, Working,
             YoungUntilBegun, runner, record, process, breaker, others, tick,
             kill, Goto, Settle, Acquire, Release, Transition, AppendLedger,
             Halt, Rest, TickGoto
<1> QED
  BY <1>2, <1>3, <1>4, <1>5, <1>6, <1>7, <1>8, <1>9, <1>10, <1>11, <1>12,
     <1>13, <1>14, <1>15, <1>16, <1>17, <1>18, <1>19, <1>20, <1>21, <1>22,
     <1>23, <1>24, <1>25, <1>26, <1>27, <1>28, <1>29
  DEF Next, RunnerStep, TickStep, OperatorStep


(* An unforced run is not admitted beside a run that is in the way.        *)
LEMMA OverlapRefuses ==
  ASSUME NEW objections, NEW force, "SKIPPED_OVERLAP" \in objections, ~force
  PROVE  AdmissionPolicy(objections, force) # "ADMIT"
<1> DEFINE First(i) == /\ Precedence[i] \in objections
                       /\ \A j \in 1 .. (i - 1) : Precedence[j] \notin objections
           Rule == CHOOSE i \in 1 .. Len(Precedence) : First(i)
<1>1. /\ Len(Precedence) = 6
      /\ \A i \in 1 .. 6 : Precedence[i] # "ADMIT"
      /\ Precedence[4] = "SKIPPED_OVERLAP"
  BY DEF Precedence
<1>2. \E i \in 1 .. 6 : First(i)
  <2>1. CASE Precedence[1] \in objections
    <3>1. First(1)
      BY <2>1
    <3> QED
      BY <3>1
  <2>2. CASE Precedence[1] \notin objections /\ Precedence[2] \in objections
    <3>1. First(2)
      BY <2>2
    <3> QED
      BY <3>1
  <2>3. CASE /\ Precedence[1] \notin objections /\ Precedence[2] \notin objections
             /\ Precedence[3] \in objections
    <3>1. First(3)
      <4>1. \A j \in 1 .. (3 - 1) : j = 1 \/ j = 2
        OBVIOUS
      <4> QED
        BY <2>3, <4>1
    <3> QED
      BY <3>1
  <2>4. CASE /\ Precedence[1] \notin objections /\ Precedence[2] \notin objections
             /\ Precedence[3] \notin objections
    <3>1. First(4)
      <4>1. \A j \in 1 .. (4 - 1) : j = 1 \/ j = 2 \/ j = 3
        OBVIOUS
      <4> QED
        BY <1>1, <2>4, <4>1
    <3> QED
      BY <3>1
  <2> QED
    BY <2>1, <2>2, <2>3, <2>4
<1>3. Rule \in 1 .. 6
  <2> HIDE DEF First
  <2> QED
    BY <1>1, <1>2
<1>4. AdmissionPolicy(objections, force) = Precedence[Rule]
  BY DEF AdmissionPolicy, Standing
<1> QED
  BY <1>1, <1>3, <1>4

(* A run that is engaged counts as live, so nobody is admitted beside it.  *)
LEMMA EngagedBlocks ==
  ASSUME ~PsFaults, OInv, NEW r \in Runs, NEW s \in Runs, r \notin Forced,
         Admit(r), Engaged(s)
  PROVE  pc'[r] # "pend"
<1>1. pc[r] = "admit" /\ pc \in [Runs -> RunnerPlaces]
  BY DEF Admit, OInv, LInv, KInv, IInv, TypeOK, RunnerTyped
<1>2. pc[s] # "pend"
  <2>1. LockMatches
    BY DEF OInv, LInv, KInv, IInv
  <2> QED
    BY <1>1, <2>1 DEF LockMatches, HoldsLock
<1>3. Live(s, {})
  <2>1. YoungUntilBegun(s) /\ RunsWhileExecuting(s) /\ child \in [Runs -> {"none", "live", "gone"}]
    BY DEF OInv, LInv, KInv, IInv, TypeOK, ProcessTyped
  <2>2. CASE pc[s] \in {"secrets", "spawn", "own", "claim"}
    BY <2>1, <2>2 DEF YoungUntilBegun, Live
  <2>3. CASE pc[s] = "exec" /\ child[s] # "gone"
    <3>1. status[s] = "RUNNING"
      BY <2>1, <2>3 DEF RunsWhileExecuting
    <3>2. ProcessAlive(s)
      BY <2>1, <2>3 DEF ProcessAlive, Working, Quit
    <3> QED
      BY <3>1, <3>2 DEF Live, VouchedFor
  <2> QED
    BY <1>2, <2>2, <2>3 DEF Engaged
<1>4. \A unseen \in Unseen : Live(s, unseen)
  BY <1>3 DEF Unseen
<1>5. \A unseen \in Unseen, host \in SUBSET Objecting :
        AdmissionPolicy(host
          \cup {o \in {"SKIPPED_PAUSED"} : paused \/ sentry # "none"}
          \cup {o \in {"SKIPPED_OVERLAP"} : \E q \in Runs : Live(q, unseen)}, r \in Forced) # "ADMIT"
  BY <1>4, OverlapRefuses
<1> QED
  BY <1>1, <1>5 DEF Admit, Goto

(* Admission is the only way in.                                           *)
LEMMA EngagedEnters ==
  OInv /\ [Next]_vars => \A s \in Runs : Engaged(s)' => Engaged(s) \/ (Admit(s) /\ pc'[s] = "pend")
<1> SUFFICES ASSUME OInv, [Next]_vars PROVE \A s \in Runs : Engaged(s)' => Engaged(s) \/ (Admit(s) /\ pc'[s] = "pend")
  OBVIOUS
<1>1. /\ RunnerTyped /\ ProcessTyped /\ KillInv
  BY RunsAssumption, ActorsAssumption
  DEF OInv, LInv, KInv, IInv, TypeOK
<1> USE DEF RunnerTyped, ProcessTyped, KillInv, Engaged, RunnerPlaces, Quit,
            Working, runner, record, process, breaker, others, tick, kill,
            Goto, Settle, Acquire, Release, Transition, AppendLedger, Halt,
            Rest, TickGoto
<1>2. CASE UNCHANGED vars
  BY <1>1, <1>2
  DEF vars
<1>3. ASSUME NEW r \in Runs, NoteFalseBreaker(r)
      PROVE  \A s \in Runs : Engaged(s)' => Engaged(s) \/ (Admit(s) /\ pc'[s] = "pend")
  <2>1. /\ pc[r] = "note" /\ pc' = [pc EXCEPT ![r] = "breaker"]
        /\ UNCHANGED <<verdict, record, process, lock, others>>
    BY <1>3 DEF NoteFalseBreaker
  <2> QED
    BY <1>1, <2>1
<1>4. ASSUME NEW r \in Runs, Launch(r) \/ Enter(r)
      PROVE  \A s \in Runs : Engaged(s)' => Engaged(s) \/ (Admit(s) /\ pc'[s] = "pend")
  BY <1>1, <1>4
  DEF Launch, Enter
<1>5. ASSUME NEW r \in Runs, Admit(r)
      PROVE  \A s \in Runs : Engaged(s)' => Engaged(s) \/ (Admit(s) /\ pc'[s] = "pend")
  <2>1. pc[r] = "admit" /\ \A s \in Runs : s # r => pc'[s] = pc[s]
    BY <1>1, <1>5 DEF Admit
  <2>2. pc'[r] \in {"pend", "done", "refuse"} /\ UNCHANGED child
    BY <1>1, <1>5 DEF Admit
  <2> QED
    BY <2>1, <2>2, <1>5
<1>6. ASSUME NEW r \in Runs, Refuse(r)
      PROVE  \A s \in Runs : Engaged(s)' => Engaged(s) \/ (Admit(s) /\ pc'[s] = "pend")
  BY <1>1, <1>6
  DEF Refuse
<1>7. ASSUME NEW r \in Runs, RefusalRow(r)
      PROVE  \A s \in Runs : Engaged(s)' => Engaged(s) \/ (Admit(s) /\ pc'[s] = "pend")
  BY <1>1, <1>7
  DEF RefusalRow
<1>8. ASSUME NEW r \in Runs, WritePending(r)
      PROVE  \A s \in Runs : Engaged(s)' => Engaged(s) \/ (Admit(s) /\ pc'[s] = "pend")
  BY <1>1, <1>8
  DEF WritePending
<1>9. ASSUME NEW r \in Runs, ResolveSecrets(r)
      PROVE  \A s \in Runs : Engaged(s)' => Engaged(s) \/ (Admit(s) /\ pc'[s] = "pend")
  BY <1>1, <1>9
  DEF ResolveSecrets
<1>10. ASSUME NEW r \in Runs, Spawn(r)
      PROVE  \A s \in Runs : Engaged(s)' => Engaged(s) \/ (Admit(s) /\ pc'[s] = "pend")
  BY <1>1, <1>10
  DEF Spawn
<1>11. ASSUME NEW r \in Runs, StartChild(r)
      PROVE  \A s \in Runs : Engaged(s)' => Engaged(s) \/ (Admit(s) /\ pc'[s] = "pend")
  BY <1>1, <1>11
  DEF StartChild
<1>12. ASSUME NEW r \in Runs, StartSelf(r)
      PROVE  \A s \in Runs : Engaged(s)' => Engaged(s) \/ (Admit(s) /\ pc'[s] = "pend")
  BY <1>1, <1>12
  DEF StartSelf
<1>13. ASSUME NEW r \in Runs, Collect(r)
      PROVE  \A s \in Runs : Engaged(s)' => Engaged(s) \/ (Admit(s) /\ pc'[s] = "pend")
  BY <1>1, <1>13
  DEF Collect
<1>14. ASSUME NEW r \in Runs, Complete(r)
      PROVE  \A s \in Runs : Engaged(s)' => Engaged(s) \/ (Admit(s) /\ pc'[s] = "pend")
  BY <1>1, <1>14
  DEF Complete
<1>15. ASSUME NEW r \in Runs, Finish(r)
      PROVE  \A s \in Runs : Engaged(s)' => Engaged(s) \/ (Admit(s) /\ pc'[s] = "pend")
  BY <1>1, <1>15
  DEF Finish
<1>16. ASSUME NEW r \in Runs, FinishRow(r)
      PROVE  \A s \in Runs : Engaged(s)' => Engaged(s) \/ (Admit(s) /\ pc'[s] = "pend")
  BY <1>1, <1>16
  DEF FinishRow
<1>17. ASSUME NEW r \in Runs, EnterAmend(r)
      PROVE  \A s \in Runs : Engaged(s)' => Engaged(s) \/ (Admit(s) /\ pc'[s] = "pend")
  BY <1>1, <1>17
  DEF EnterAmend
<1>18. ASSUME NEW r \in Runs, AmendRow(r)
      PROVE  \A s \in Runs : Engaged(s)' => Engaged(s) \/ (Admit(s) /\ pc'[s] = "pend")
  BY <1>1, <1>18
  DEF AmendRow
<1>19. ASSUME NEW r \in Runs, AmendSet(r)
      PROVE  \A s \in Runs : Engaged(s)' => Engaged(s) \/ (Admit(s) /\ pc'[s] = "pend")
  BY <1>1, <1>19
  DEF AmendSet
<1>20. ASSUME NEW r \in Runs, ApplyBreaker(r)
      PROVE  \A s \in Runs : Engaged(s)' => Engaged(s) \/ (Admit(s) /\ pc'[s] = "pend")
  BY <1>1, <1>20
  DEF ApplyBreaker
<1>21. ASSUME NEW r \in Runs, BreakerPause(r) \/ BreakerAlert(r)
      PROVE  \A s \in Runs : Engaged(s)' => Engaged(s) \/ (Admit(s) /\ pc'[s] = "pend")
  BY <1>1, <1>21
  DEF BreakerPause, BreakerAlert
<1>22. ASSUME NEW r \in Runs, Age(r)
      PROVE  \A s \in Runs : Engaged(s)' => Engaged(s) \/ (Admit(s) /\ pc'[s] = "pend")
  BY <1>1, <1>22
  DEF Age
<1>23. ASSUME NEW r \in Runs, KillCheck(r)
      PROVE  \A s \in Runs : Engaged(s)' => Engaged(s) \/ (Admit(s) /\ pc'[s] = "pend")
  BY <1>1, <1>23
  DEF KillCheck
<1>24. ASSUME NEW r \in Runs, ChildExit(r)
      PROVE  \A s \in Runs : Engaged(s)' => Engaged(s) \/ (Admit(s) /\ pc'[s] = "pend")
  BY <1>1, <1>24
  DEF ChildExit
<1>25. ASSUME NEW r \in Runs, RunnerDies(r)
      PROVE  \A s \in Runs : Engaged(s)' => Engaged(s) \/ (Admit(s) /\ pc'[s] = "pend")
  BY <1>1, <1>25
  DEF RunnerDies
<1>26. CASE TickClose
  BY <1>1, <1>26
  DEF TickClose
<1>27. CASE KillSignal
  BY <1>1, <1>27
  DEF KillSignal
<1>28. CASE TickScan \/ TickEnter \/ TickRow \/ TickApplyBreaker \/
           TickPause \/ TickAlert \/ TickEnd \/ TickDies \/ KillMark \/
           PauseChore \/ ResumeChore \/ PauseAll \/ ResumeAll
  BY <1>1, <1>28
  DEF TickScan, TickEnter, TickRow, TickApplyBreaker, TickPause, TickAlert,
      TickEnd, TickDies, KillMark, PauseChore, ResumeChore, PauseAll,
      ResumeAll
<1>29. ASSUME NEW r \in Runs, NEW seen \in {"PENDING", "RUNNING"},
             TickJudge(r, seen)
      PROVE  \A s \in Runs : Engaged(s)' => Engaged(s) \/ (Admit(s) /\ pc'[s] = "pend")
  BY <1>1, <1>29
  DEF TickJudge
<1> HIDE DEF RunnerTyped, ProcessTyped, KillInv, Engaged, RunnerPlaces, Quit,
             Working, runner, record, process, breaker, others, tick, kill,
             Goto, Settle, Acquire, Release, Transition, AppendLedger, Halt,
             Rest, TickGoto
<1> QED
  BY <1>2, <1>3, <1>4, <1>5, <1>6, <1>7, <1>8, <1>9, <1>10, <1>11, <1>12,
     <1>13, <1>14, <1>15, <1>16, <1>17, <1>18, <1>19, <1>20, <1>21, <1>22,
     <1>23, <1>24, <1>25, <1>26, <1>27, <1>28, <1>29
  DEF Next, RunnerStep, TickStep, OperatorStep


(* So two unforced runs are never engaged together.                        *)
LEMMA OneEngagedKept == ~PsFaults /\ OInv /\ [Next]_vars => OneEngaged'
<1> SUFFICES ASSUME ~PsFaults, OInv, [Next]_vars,
                    NEW r \in Runs \ Forced, NEW s \in Runs \ Forced,
                    Engaged(r)', Engaged(s)', r # s
             PROVE  FALSE
  BY DEF OneEngaged
<1>1. /\ Engaged(r) \/ (Admit(r) /\ pc'[r] = "pend")
      /\ Engaged(s) \/ (Admit(s) /\ pc'[s] = "pend")
  BY EngagedEnters
<1>2. ~(Engaged(r) /\ Engaged(s))
  BY DEF OInv, OneEngaged
<1>3. ~(Admit(r) /\ Admit(s))
  <2>1. LockMatches
    BY DEF OInv, LInv, KInv, IInv
  <2> QED
    BY <2>1 DEF LockMatches, HoldsLock, Admit
<1>4. ~(Engaged(s) /\ Admit(r) /\ pc'[r] = "pend")
  BY EngagedBlocks
<1>5. ~(Engaged(r) /\ Admit(s) /\ pc'[s] = "pend")
  BY EngagedBlocks
<1> QED
  BY <1>1, <1>2, <1>3, <1>4, <1>5

(* OInv holds at the start.                                                *)
LEMMA OverlapBegins == Init => OInv
<1> SUFFICES ASSUME Init PROVE OInv
  OBVIOUS
<1>1. LInv
  <2>1. KInv
    BY KillBegins
  <2> QED
    BY <2>1 DEF Init, LInv, ScanBegun, SuspectGone, LostChildIsSignalled
<1>2. \A r \in Runs : YoungUntilBegun(r) /\ RunsWhileExecuting(r) /\ NoPromptChild(r)
  BY DEF Init, YoungUntilBegun, RunsWhileExecuting, NoPromptChild
<1>3. StaleIsDead
  BY DEF Init, StaleIsDead
<1>4. (\A r \in Runs : ChildIsAttended(r)) /\ OneEngaged
  BY DEF Init, ChildIsAttended, OneEngaged, Engaged
<1> QED
  BY <1>1, <1>2, <1>3, <1>4 DEF OInv

(* With an honest `ps' and no runner slower than a tick interval, every    *)
(* reachable state satisfies OInv.                                         *)
LEMMA OverlapInvariance == ASSUME ~PsFaults, ~SlowStart PROVE Spec => []OInv
<1>1. OInv /\ [Next]_vars => OInv'
  <2> SUFFICES ASSUME OInv, [Next]_vars PROVE OInv'
    OBVIOUS
  <2>1. LInv'
    BY LInvKept DEF OInv
  <2>2. \A r \in Runs : YoungUntilBegun(r)' /\ RunsWhileExecuting(r)' /\ NoPromptChild(r)'
    BY YoungKept, RunsKept, NoPromptChildKept
  <2>3. StaleIsDead' /\ OneEngaged'
    BY StaleKept, OneEngagedKept
  <2>4. crashes' = 0 => \A r \in Runs : ChildIsAttended(r)'
    BY AttendedKept
  <2> QED
    BY <2>1, <2>2, <2>3, <2>4 DEF OInv
<1> QED
  BY <1>1, OverlapBegins, PTL DEF Spec

(* Two unforced runs of the chore never execute at the same time while no  *)
(* process crashes: whoever is between its admission and the end of its    *)
(* child counts as live to the next admission. A `ps' that fails and a     *)
(* runner that stays PENDING longer than a tick interval are excluded:     *)
(* either one lets the tick close, or an admission overlook, a live run.   *)
THEOREM NoOverlapHolds == ASSUME ~PsFaults, ~SlowStart PROVE Spec => []NoOverlap
<1>1. OInv => NoOverlap
  <2> SUFFICES ASSUME OInv, crashes = 0, NEW r \in Runs \ Forced, NEW s \in Runs \ Forced,
                      r # s, Executing(r), Executing(s)
               PROVE  FALSE
    BY DEF NoOverlap
  <2>1. ASSUME NEW q \in Runs, Executing(q) PROVE Engaged(q)
    <3>1. ChildIsAttended(q) /\ NoPromptChild(q)
      BY DEF OInv
    <3> QED
      BY <2>1, <3>1 DEF Executing, ChildIsAttended, NoPromptChild, Engaged
  <2> QED
    BY <2>1 DEF OInv, OneEngaged
<1> QED
  BY <1>1, OverlapInvariance, PTL
-----------------------------------------------------------------------------
(* The breaker.                                                            *)

(* The runs of the history have records.                                   *)
HistoryRecorded == \A i \in 1 .. Len(order) : status[order[i]] # Absent

(* Somebody has yet to apply the breaker.                                  *)
Watched ==
  \/ \E r \in Runs : pc[r] \in {"row", "note", "breaker", "pause"}
  \/ tickPc \in {"row", "breaker", "pause"}

(* Whoever made the history trip the breaker, or found it tripped, is      *)
(* still on the way to the sentry.                                         *)
BreakerWatched == Trips(status) /\ sentry = "none" /\ NobodyDied => Watched

BInv == IInv /\ HistoryRecorded /\ BreakerWatched

(* The breaker looks only at the outcomes that say something.              *)
LEMMA BreakerReadsConsidered ==
  ASSUME NEW a, NEW b, NEW threshold,
         Considered(a) = Considered(b), \A i \in Considered(a) : a[i] = b[i]
  PROVE  CircuitBreaker(a, threshold) = CircuitBreaker(b, threshold)
<1>1. Latest(Considered(a), threshold) = Latest(Considered(b), threshold)
  OBVIOUS
<1>2. Latest(Considered(a), threshold) \subseteq Considered(a)
  BY DEF Latest
<1>3. (\A i \in Latest(Considered(a), threshold) : a[i] \in Failures)
       <=> (\A i \in Latest(Considered(b), threshold) : b[i] \in Failures)
  BY <1>1, <1>2
<1> HIDE DEF Considered, Latest
<1> QED
  BY <1>1, <1>3 DEF CircuitBreaker

(* A history is as long as the order of the records.                       *)
LEMMA HistoryLength ==
  ASSUME order \in Seq(Runs), NEW of
  PROVE  Len(History(of)) = Len(order)
<1>1. Len(order) \in Nat
  OBVIOUS
<1> QED
  BY <1>1 DEF History
(* A record stays on disk.                                                 *)
LEMMA HistoryRecordedKept == BInv /\ [Next]_vars => HistoryRecorded'
<1> SUFFICES ASSUME BInv, [Next]_vars PROVE HistoryRecorded'
  OBVIOUS
<1>1. /\ RecordTyped /\ TickInv /\ HistoryRecorded
      /\ \A r \in Runs : ByPlace(r)
  BY RunsAssumption, ActorsAssumption
  DEF BInv, IInv, TypeOK
<1> USE DEF RecordTyped, TickInv, HistoryRecorded, runner, record, process,
            breaker, others, tick, kill, Goto, Settle, Acquire, Release,
            Transition, AppendLedger, Halt, Rest, TickGoto
<1>2. CASE UNCHANGED vars
  BY <1>1, <1>2
  DEF vars
<1>3. ASSUME NEW r \in Runs, NoteFalseBreaker(r)
      PROVE  HistoryRecorded'
  <2>1. UNCHANGED record
    BY <1>3 DEF NoteFalseBreaker
  <2> QED
    BY <1>1, <2>1
<1>4. ASSUME NEW r \in Runs, Launch(r) \/ Enter(r)
      PROVE  HistoryRecorded'
  BY <1>1, <1>4
  DEF Launch, Enter
<1>5. ASSUME NEW r \in Runs, Admit(r)
      PROVE  HistoryRecorded'
  BY <1>1, <1>5
  DEF Admit
<1>6. ASSUME NEW r \in Runs, Refuse(r)
      PROVE  HistoryRecorded'
  <2>1. /\ status' = [status EXCEPT ![r] = verdict[r]] \/ status' = status
        /\ UNCHANGED order
    BY <1>1, <1>6 DEF Refuse
  <2>2. verdict[r] # Absent
    BY <1>1, <1>6 DEF Refuse, ByPlace, Absent, Refusals, TrueOutcomes, RunTerminal, Failures
  <2> QED
    BY <1>1, <2>1, <2>2
<1>7. ASSUME NEW r \in Runs, RefusalRow(r)
      PROVE  HistoryRecorded'
  BY <1>1, <1>7
  DEF RefusalRow
<1>8. ASSUME NEW r \in Runs, WritePending(r)
      PROVE  HistoryRecorded'
  <2>1. /\ status' = [status EXCEPT ![r] = "PENDING"]
        /\ order' = Append(order, r)
    BY <1>1, <1>8 DEF WritePending
  <2>2. /\ Len(order') = Len(order) + 1 /\ order'[Len(order) + 1] = r
        /\ \A i \in 1 .. Len(order) : order'[i] = order[i]
    BY <1>1, <2>1, AppendProperties
  <2>3. Len(order) \in Nat /\ \A i \in 1 .. Len(order) : order[i] \in Runs
    BY <1>1
  <2>4. \A s \in Runs : s # r => status'[s] = status[s]
    BY <1>1, <2>1
  <2>5. status'[r] # Absent
    BY <1>1, <2>1 DEF Absent
  <2>6. ASSUME NEW i \in 1 .. Len(order') PROVE status'[order'[i]] # Absent
    <3>1. CASE i = Len(order) + 1
      BY <2>2, <2>5, <3>1
    <3>2. CASE i \in 1 .. Len(order)
      BY <1>1, <2>2, <2>3, <2>4, <2>5, <3>2
    <3> QED
      BY <2>2, <2>3, <3>1, <3>2
  <2> QED
    BY <2>6
<1>9. ASSUME NEW r \in Runs, ResolveSecrets(r)
      PROVE  HistoryRecorded'
  BY <1>1, <1>9
  DEF ResolveSecrets
<1>10. ASSUME NEW r \in Runs, Spawn(r)
      PROVE  HistoryRecorded'
  BY <1>1, <1>10
  DEF Spawn
<1>11. ASSUME NEW r \in Runs, StartChild(r)
      PROVE  HistoryRecorded'
  <2>1. /\ status' = [status EXCEPT ![r] = "RUNNING"] \/ status' = status
        /\ UNCHANGED order
    BY <1>1, <1>11 DEF StartChild
  <2>2. "RUNNING" # Absent
    BY <1>1, <1>11 DEF StartChild, ByPlace, Absent, Refusals, TrueOutcomes, RunTerminal, Failures
  <2> QED
    BY <1>1, <2>1, <2>2
<1>12. ASSUME NEW r \in Runs, StartSelf(r)
      PROVE  HistoryRecorded'
  <2>1. /\ status' = [status EXCEPT ![r] = "RUNNING"] \/ status' = status
        /\ UNCHANGED order
    BY <1>1, <1>12 DEF StartSelf
  <2>2. "RUNNING" # Absent
    BY <1>1, <1>12 DEF StartSelf, ByPlace, Absent, Refusals, TrueOutcomes, RunTerminal, Failures
  <2> QED
    BY <1>1, <2>1, <2>2
<1>13. ASSUME NEW r \in Runs, Collect(r)
      PROVE  HistoryRecorded'
  BY <1>1, <1>13
  DEF Collect
<1>14. ASSUME NEW r \in Runs, Complete(r)
      PROVE  HistoryRecorded'
  BY <1>1, <1>14
  DEF Complete
<1>15. ASSUME NEW r \in Runs, Finish(r)
      PROVE  HistoryRecorded'
  <2>1. /\ status' = [status EXCEPT ![r] = verdict[r]] \/ status' = status
        /\ UNCHANGED order
    BY <1>1, <1>15 DEF Finish
  <2>2. verdict[r] # Absent
    BY <1>1, <1>15 DEF Finish, ByPlace, Absent, Refusals, TrueOutcomes, RunTerminal, Failures
  <2> QED
    BY <1>1, <2>1, <2>2
<1>16. ASSUME NEW r \in Runs, FinishRow(r)
      PROVE  HistoryRecorded'
  BY <1>1, <1>16
  DEF FinishRow
<1>17. ASSUME NEW r \in Runs, EnterAmend(r)
      PROVE  HistoryRecorded'
  BY <1>1, <1>17
  DEF EnterAmend
<1>18. ASSUME NEW r \in Runs, AmendRow(r)
      PROVE  HistoryRecorded'
  BY <1>1, <1>18
  DEF AmendRow
<1>19. ASSUME NEW r \in Runs, AmendSet(r)
      PROVE  HistoryRecorded'
  <2>1. /\ status' = [status EXCEPT ![r] = verdict[r]] \/ status' = status
        /\ UNCHANGED order
    BY <1>1, <1>19 DEF AmendSet
  <2>2. verdict[r] # Absent
    BY <1>1, <1>19 DEF AmendSet, ByPlace, Absent, Refusals, TrueOutcomes, RunTerminal, Failures
  <2> QED
    BY <1>1, <2>1, <2>2
<1>20. ASSUME NEW r \in Runs, ApplyBreaker(r)
      PROVE  HistoryRecorded'
  BY <1>1, <1>20
  DEF ApplyBreaker
<1>21. ASSUME NEW r \in Runs, BreakerPause(r) \/ BreakerAlert(r)
      PROVE  HistoryRecorded'
  BY <1>1, <1>21
  DEF BreakerPause, BreakerAlert
<1>22. ASSUME NEW r \in Runs, Age(r)
      PROVE  HistoryRecorded'
  BY <1>1, <1>22
  DEF Age
<1>23. ASSUME NEW r \in Runs, KillCheck(r)
      PROVE  HistoryRecorded'
  BY <1>1, <1>23
  DEF KillCheck
<1>24. ASSUME NEW r \in Runs, ChildExit(r)
      PROVE  HistoryRecorded'
  BY <1>1, <1>24
  DEF ChildExit
<1>25. ASSUME NEW r \in Runs, RunnerDies(r)
      PROVE  HistoryRecorded'
  BY <1>1, <1>25
  DEF RunnerDies
<1>26. CASE TickClose
  <2>1. /\ status' = [status EXCEPT ![suspect] = "INTERRUPTED"] \/ status' = status
        /\ UNCHANGED order
    BY <1>1, <1>26 DEF TickClose
  <2> QED
    BY <1>1, <2>1 DEF Absent
<1>27. CASE KillSignal
  BY <1>1, <1>27
  DEF KillSignal
<1>28. CASE TickScan \/ TickEnter \/ TickRow \/ TickApplyBreaker \/
           TickPause \/ TickAlert \/ TickEnd \/ TickDies \/ KillMark \/
           PauseChore \/ ResumeChore \/ PauseAll \/ ResumeAll
  BY <1>1, <1>28
  DEF TickScan, TickEnter, TickRow, TickApplyBreaker, TickPause, TickAlert,
      TickEnd, TickDies, KillMark, PauseChore, ResumeChore, PauseAll,
      ResumeAll
<1>29. ASSUME NEW r \in Runs, NEW seen \in {"PENDING", "RUNNING"},
             TickJudge(r, seen)
      PROVE  HistoryRecorded'
  BY <1>1, <1>29
  DEF TickJudge
<1> HIDE DEF RecordTyped, TickInv, HistoryRecorded, runner, record, process,
             breaker, others, tick, kill, Goto, Settle, Acquire, Release,
             Transition, AppendLedger, Halt, Rest, TickGoto
<1> QED
  BY <1>2, <1>3, <1>4, <1>5, <1>6, <1>7, <1>8, <1>9, <1>10, <1>11, <1>12,
     <1>13, <1>14, <1>15, <1>16, <1>17, <1>18, <1>19, <1>20, <1>21, <1>22,
     <1>23, <1>24, <1>25, <1>26, <1>27, <1>28, <1>29
  DEF Next, RunnerStep, TickStep, OperatorStep


(* A change between statuses that say nothing decides nothing.             *)
LEMMA SilentChange ==
  ASSUME RecordTyped, RecordTyped', UNCHANGED order,
         \A i \in 1 .. Len(order) :
           \/ status'[order[i]] = status[order[i]]
           \/ {status[order[i]], status'[order[i]]} \subseteq {"PENDING", "RUNNING"}
  PROVE  Trips(status)' = Trips(status)
<1> DEFINE H == History(status)
           K == History(status')
<1>1. /\ H = [i \in 1 .. Len(order) |-> status[order[i]]] /\ Len(H) = Len(order)
      /\ K = [i \in 1 .. Len(order) |-> status'[order[i]]] /\ Len(K) = Len(order)
  BY HistoryLength DEF History, RecordTyped
<1>2. Considered(H) = Considered(K) /\ \A i \in Considered(H) : H[i] = K[i]
  BY <1>1 DEF Considered, RunTerminal, Failures, Transparent
<1>3. Trips(status) = CircuitBreaker(H, Threshold)
  BY DEF Trips
<1>4. Trips(status)' = CircuitBreaker(K, Threshold)
  BY DEF Trips, History
<1> HIDE DEF H, K
<1> QED
  BY <1>2, <1>3, <1>4, BreakerReadsConsidered

(* An admission decides nothing either.                                    *)
LEMMA SilentAdmission ==
  ASSUME RecordTyped, HistoryRecorded, NEW r \in Runs, status[r] = Absent,
         order' = Append(order, r), status' = [status EXCEPT ![r] = "PENDING"]
  PROVE  Trips(status)' = Trips(status)
<1> DEFINE H == History(status)
           K == [i \in 1 .. Len(order') |-> status'[order'[i]]]
<1>1. /\ Len(order) \in Nat /\ Len(order') = Len(order) + 1 /\ order'[Len(order) + 1] = r
      /\ \A i \in 1 .. Len(order) : order'[i] = order[i] /\ order[i] \in Runs
  BY AppendProperties DEF RecordTyped
<1>2. H = [i \in 1 .. Len(order) |-> status[order[i]]] /\ Len(H) = Len(order)
  BY HistoryLength DEF History, RecordTyped
<1>3. Len(K) = Len(order) + 1
  BY <1>1
<1>4. \A i \in 1 .. Len(order) : K[i] = H[i]
  <2>1. ASSUME NEW i \in 1 .. Len(order) PROVE order[i] # r
    BY DEF HistoryRecorded
  <2> QED
    BY <1>1, <1>2, <2>1 DEF RecordTyped
<1>5. K[Len(order) + 1] = "PENDING"
  BY <1>1 DEF RecordTyped
<1>6. Considered(H) = Considered(K) /\ \A i \in Considered(H) : H[i] = K[i]
  <2> HIDE DEF H, K
  <2>1. "PENDING" \notin RunTerminal
    BY DEF RunTerminal, Failures
  <2>2. 1 .. Len(K) = (1 .. Len(order)) \cup {Len(order) + 1}
    BY <1>1, <1>3
  <2> QED
    BY <1>2, <1>4, <1>5, <2>1, <2>2 DEF Considered
<1>7. Trips(status) = CircuitBreaker(H, Threshold)
  BY DEF Trips
<1>8. Trips(status)' = CircuitBreaker(K, Threshold)
  BY DEF Trips, History
<1> HIDE DEF H, K
<1> QED
  BY <1>6, <1>7, <1>8, BreakerReadsConsidered

(* Only a run that ends, is closed or is amended makes the history trip    *)
(* the breaker, and then somebody is on the way to apply it.               *)
LEMMA TripsKept ==
  BInv /\ [Next]_vars => (Trips(status)' => Trips(status) \/ Watched')
<1> SUFFICES ASSUME BInv, [Next]_vars PROVE (Trips(status)' => Trips(status) \/ Watched')
  OBVIOUS
<1>1. /\ RunnerTyped /\ RecordTyped /\ TickTyped /\ TickInv /\ HistoryRecorded
      /\ \A r \in Runs : ByPlace(r)
      /\ (UNCHANGED <<status, order>>) => Trips(status)' = Trips(status)
      /\ RecordTyped'
  BY RecordTypedKept
  DEF BInv, IInv, TypeOK, Trips, History
<1> USE DEF RecordTyped, runner, record, process, breaker, others, tick, kill,
            Goto, Settle, Acquire, Release, Transition, AppendLedger, Halt,
            Rest, TickGoto
<1>2. CASE UNCHANGED vars
  BY <1>1, <1>2
  DEF vars
<1>3. ASSUME NEW r \in Runs, NoteFalseBreaker(r)
      PROVE  (Trips(status)' => Trips(status) \/ Watched')
  <2>1. UNCHANGED record
    BY <1>3 DEF NoteFalseBreaker
  <2> QED
    BY <1>1, <2>1
<1>4. ASSUME NEW r \in Runs, Launch(r) \/ Enter(r)
      PROVE  (Trips(status)' => Trips(status) \/ Watched')
  BY <1>1, <1>4
  DEF Launch, Enter
<1>5. ASSUME NEW r \in Runs, Admit(r)
      PROVE  (Trips(status)' => Trips(status) \/ Watched')
  BY <1>1, <1>5
  DEF Admit
<1>6. ASSUME NEW r \in Runs, Refuse(r)
      PROVE  (Trips(status)' => Trips(status) \/ Watched')
  <2>1. status[r] = Absent /\ status' = [status EXCEPT ![r] = verdict[r]] /\ UNCHANGED order
    BY <1>1, <1>6 DEF Refuse, ByPlace
  <2>2. \A i \in 1 .. Len(order) : order[i] # r /\ order[i] \in Runs
    BY <1>1, <2>1 DEF HistoryRecorded
  <2>3. \A i \in 1 .. Len(order) : status'[order[i]] = status[order[i]]
    BY <1>1, <2>1, <2>2
  <2> QED
    BY <1>1, <2>1, <2>3, SilentChange
<1>7. ASSUME NEW r \in Runs, RefusalRow(r)
      PROVE  (Trips(status)' => Trips(status) \/ Watched')
  BY <1>1, <1>7
  DEF RefusalRow
<1>8. ASSUME NEW r \in Runs, WritePending(r)
      PROVE  (Trips(status)' => Trips(status) \/ Watched')
  <2>1. /\ status[r] = Absent /\ status' = [status EXCEPT ![r] = "PENDING"]
        /\ order' = Append(order, r)
    BY <1>1, <1>8 DEF WritePending, ByPlace
  <2> QED
    BY <1>1, <2>1, SilentAdmission
<1>9. ASSUME NEW r \in Runs, ResolveSecrets(r)
      PROVE  (Trips(status)' => Trips(status) \/ Watched')
  BY <1>1, <1>9
  DEF ResolveSecrets
<1>10. ASSUME NEW r \in Runs, Spawn(r)
      PROVE  (Trips(status)' => Trips(status) \/ Watched')
  BY <1>1, <1>10
  DEF Spawn
<1>11. ASSUME NEW r \in Runs, StartChild(r)
      PROVE  (Trips(status)' => Trips(status) \/ Watched')
  <2>1. /\ UNCHANGED order
        /\ status' = status \/ (status[r] = "PENDING" /\ status' = [status EXCEPT ![r] = "RUNNING"])
    BY <1>1, <1>11 DEF StartChild
  <2>2. ASSUME NEW i \in 1 .. Len(order)
        PROVE  \/ status'[order[i]] = status[order[i]]
               \/ {status[order[i]], status'[order[i]]} \subseteq {"PENDING", "RUNNING"}
    <3>1. order[i] \in Runs
      BY <1>1
    <3> QED
      BY <1>1, <2>1, <3>1
  <2>3. RecordTyped /\ RecordTyped'
    BY <1>1
  <2> HIDE DEF RecordTyped
  <2> QED
    BY <2>1, <2>2, <2>3, SilentChange
<1>12. ASSUME NEW r \in Runs, StartSelf(r)
      PROVE  (Trips(status)' => Trips(status) \/ Watched')
  <2>1. /\ UNCHANGED order
        /\ status' = status \/ (status[r] = "PENDING" /\ status' = [status EXCEPT ![r] = "RUNNING"])
    BY <1>1, <1>12 DEF StartSelf
  <2>2. ASSUME NEW i \in 1 .. Len(order)
        PROVE  \/ status'[order[i]] = status[order[i]]
               \/ {status[order[i]], status'[order[i]]} \subseteq {"PENDING", "RUNNING"}
    <3>1. order[i] \in Runs
      BY <1>1
    <3> QED
      BY <1>1, <2>1, <3>1
  <2>3. RecordTyped /\ RecordTyped'
    BY <1>1
  <2> HIDE DEF RecordTyped
  <2> QED
    BY <2>1, <2>2, <2>3, SilentChange
<1>13. ASSUME NEW r \in Runs, Collect(r)
      PROVE  (Trips(status)' => Trips(status) \/ Watched')
  BY <1>1, <1>13
  DEF Collect
<1>14. ASSUME NEW r \in Runs, Complete(r)
      PROVE  (Trips(status)' => Trips(status) \/ Watched')
  BY <1>1, <1>14
  DEF Complete
<1>15. ASSUME NEW r \in Runs, Finish(r)
      PROVE  (Trips(status)' => Trips(status) \/ Watched')
  <2>1. UNCHANGED <<status, order>> \/ pc'[r] = "row"
    BY <1>1, <1>15 DEF Finish, RunnerTyped
  <2> QED
    BY <1>1, <2>1 DEF Watched
<1>16. ASSUME NEW r \in Runs, FinishRow(r)
      PROVE  (Trips(status)' => Trips(status) \/ Watched')
  BY <1>1, <1>16
  DEF FinishRow
<1>17. ASSUME NEW r \in Runs, EnterAmend(r)
      PROVE  (Trips(status)' => Trips(status) \/ Watched')
  BY <1>1, <1>17
  DEF EnterAmend
<1>18. ASSUME NEW r \in Runs, AmendRow(r)
      PROVE  (Trips(status)' => Trips(status) \/ Watched')
  BY <1>1, <1>18
  DEF AmendRow
<1>19. ASSUME NEW r \in Runs, AmendSet(r)
      PROVE  (Trips(status)' => Trips(status) \/ Watched')
  <2>1. pc'[r] = "note"
    BY <1>1, <1>19 DEF AmendSet, RunnerTyped
  <2> QED
    BY <2>1 DEF Watched
<1>20. ASSUME NEW r \in Runs, ApplyBreaker(r)
      PROVE  (Trips(status)' => Trips(status) \/ Watched')
  BY <1>1, <1>20
  DEF ApplyBreaker
<1>21. ASSUME NEW r \in Runs, BreakerPause(r) \/ BreakerAlert(r)
      PROVE  (Trips(status)' => Trips(status) \/ Watched')
  BY <1>1, <1>21
  DEF BreakerPause, BreakerAlert
<1>22. ASSUME NEW r \in Runs, Age(r)
      PROVE  (Trips(status)' => Trips(status) \/ Watched')
  BY <1>1, <1>22
  DEF Age
<1>23. ASSUME NEW r \in Runs, KillCheck(r)
      PROVE  (Trips(status)' => Trips(status) \/ Watched')
  BY <1>1, <1>23
  DEF KillCheck
<1>24. ASSUME NEW r \in Runs, ChildExit(r)
      PROVE  (Trips(status)' => Trips(status) \/ Watched')
  BY <1>1, <1>24
  DEF ChildExit
<1>25. ASSUME NEW r \in Runs, RunnerDies(r)
      PROVE  (Trips(status)' => Trips(status) \/ Watched')
  BY <1>1, <1>25
  DEF RunnerDies
<1>26. CASE TickClose
  <2>1. UNCHANGED <<status, order>> \/ tickPc' = "row"
    BY <1>1, <1>26 DEF TickClose
  <2> QED
    BY <1>1, <2>1 DEF Watched
<1>27. CASE KillSignal
  BY <1>1, <1>27
  DEF KillSignal
<1>28. CASE TickScan \/ TickEnter \/ TickRow \/ TickApplyBreaker \/
           TickPause \/ TickAlert \/ TickEnd \/ TickDies \/ KillMark \/
           PauseChore \/ ResumeChore \/ PauseAll \/ ResumeAll
  BY <1>1, <1>28
  DEF TickScan, TickEnter, TickRow, TickApplyBreaker, TickPause, TickAlert,
      TickEnd, TickDies, KillMark, PauseChore, ResumeChore, PauseAll,
      ResumeAll
<1>29. ASSUME NEW r \in Runs, NEW seen \in {"PENDING", "RUNNING"},
             TickJudge(r, seen)
      PROVE  (Trips(status)' => Trips(status) \/ Watched')
  BY <1>1, <1>29
  DEF TickJudge
<1> HIDE DEF RecordTyped, runner, record, process, breaker, others, tick,
             kill, Goto, Settle, Acquire, Release, Transition, AppendLedger,
             Halt, Rest, TickGoto
<1> QED
  BY <1>2, <1>3, <1>4, <1>5, <1>6, <1>7, <1>8, <1>9, <1>10, <1>11, <1>12,
     <1>13, <1>14, <1>15, <1>16, <1>17, <1>18, <1>19, <1>20, <1>21, <1>22,
     <1>23, <1>24, <1>25, <1>26, <1>27, <1>28, <1>29
  DEF Next, RunnerStep, TickStep, OperatorStep


(* Nobody who is on the way to the sentry turns away while it is needed.   *)
LEMMA BreakerWatchedKept ==
  BInv /\ [Next]_vars /\ "resume" \notin Operator => BreakerWatched'
<1> SUFFICES ASSUME BInv, [Next]_vars, "resume" \notin Operator PROVE BreakerWatched'
  OBVIOUS
<1>1. /\ RunnerTyped /\ TickTyped /\ KillInv /\ crashes \in Nat
      /\ BreakerWatched /\ (Trips(status)' => Trips(status) \/ Watched')
  BY RunsAssumption, TripsKept
  DEF BInv, IInv, TypeOK, ControlTyped
<1> USE DEF RunnerTyped, TickTyped, KillInv, BreakerWatched, Watched,
            NobodyDied, runner, record, process, breaker, others, tick, kill,
            Goto, Settle, Acquire, Release, Transition, AppendLedger, Halt,
            Rest, TickGoto
<1>2. CASE UNCHANGED vars
  BY <1>1, <1>2
  DEF vars
<1>3. ASSUME NEW r \in Runs, NoteFalseBreaker(r)
      PROVE  BreakerWatched'
  <2>1. /\ pc[r] = "note" /\ pc' = [pc EXCEPT ![r] = "breaker"]
        /\ UNCHANGED others
    BY <1>3 DEF NoteFalseBreaker
  <2>2. pc'[r] = "breaker"
    BY <1>1, <2>1
  <2> QED
    BY <2>2
<1>4. ASSUME NEW r \in Runs, Launch(r) \/ Enter(r)
      PROVE  BreakerWatched'
  BY <1>1, <1>4
  DEF Launch, Enter
<1>5. ASSUME NEW r \in Runs, Admit(r)
      PROVE  BreakerWatched'
  <2>1. pc[r] = "admit" /\ \A s \in Runs : s # r => pc'[s] = pc[s]
    BY <1>1, <1>5 DEF Admit
  <2>2. pc'[r] \in {"pend", "done", "refuse"} /\ UNCHANGED <<sentry, others>>
    BY <1>1, <1>5 DEF Admit
  <2> QED
    BY <1>1, <2>1, <2>2
<1>6. ASSUME NEW r \in Runs, Refuse(r)
      PROVE  BreakerWatched'
  BY <1>1, <1>6
  DEF Refuse
<1>7. ASSUME NEW r \in Runs, RefusalRow(r)
      PROVE  BreakerWatched'
  BY <1>1, <1>7
  DEF RefusalRow
<1>8. ASSUME NEW r \in Runs, WritePending(r)
      PROVE  BreakerWatched'
  BY <1>1, <1>8
  DEF WritePending
<1>9. ASSUME NEW r \in Runs, ResolveSecrets(r)
      PROVE  BreakerWatched'
  BY <1>1, <1>9
  DEF ResolveSecrets
<1>10. ASSUME NEW r \in Runs, Spawn(r)
      PROVE  BreakerWatched'
  BY <1>1, <1>10
  DEF Spawn
<1>11. ASSUME NEW r \in Runs, StartChild(r)
      PROVE  BreakerWatched'
  BY <1>1, <1>11
  DEF StartChild
<1>12. ASSUME NEW r \in Runs, StartSelf(r)
      PROVE  BreakerWatched'
  BY <1>1, <1>12
  DEF StartSelf
<1>13. ASSUME NEW r \in Runs, Collect(r)
      PROVE  BreakerWatched'
  BY <1>1, <1>13
  DEF Collect
<1>14. ASSUME NEW r \in Runs, Complete(r)
      PROVE  BreakerWatched'
  BY <1>1, <1>14
  DEF Complete
<1>15. ASSUME NEW r \in Runs, Finish(r)
      PROVE  BreakerWatched'
  BY <1>1, <1>15
  DEF Finish
<1>16. ASSUME NEW r \in Runs, FinishRow(r)
      PROVE  BreakerWatched'
  BY <1>1, <1>16
  DEF FinishRow
<1>17. ASSUME NEW r \in Runs, EnterAmend(r)
      PROVE  BreakerWatched'
  BY <1>1, <1>17
  DEF EnterAmend
<1>18. ASSUME NEW r \in Runs, AmendRow(r)
      PROVE  BreakerWatched'
  BY <1>1, <1>18
  DEF AmendRow
<1>19. ASSUME NEW r \in Runs, AmendSet(r)
      PROVE  BreakerWatched'
  BY <1>1, <1>19
  DEF AmendSet
<1>20. ASSUME NEW r \in Runs, ApplyBreaker(r)
      PROVE  BreakerWatched'
  BY <1>1, <1>20
  DEF ApplyBreaker
<1>21. ASSUME NEW r \in Runs, BreakerPause(r) \/ BreakerAlert(r)
      PROVE  BreakerWatched'
  BY <1>1, <1>21
  DEF BreakerPause, BreakerAlert
<1>22. ASSUME NEW r \in Runs, Age(r)
      PROVE  BreakerWatched'
  BY <1>1, <1>22
  DEF Age
<1>23. ASSUME NEW r \in Runs, KillCheck(r)
      PROVE  BreakerWatched'
  BY <1>1, <1>23
  DEF KillCheck
<1>24. ASSUME NEW r \in Runs, ChildExit(r)
      PROVE  BreakerWatched'
  BY <1>1, <1>24
  DEF ChildExit
<1>25. ASSUME NEW r \in Runs, RunnerDies(r)
      PROVE  BreakerWatched'
  BY <1>1, <1>25
  DEF RunnerDies
<1>26. CASE TickClose
  BY <1>1, <1>26
  DEF TickClose
<1>27. CASE KillSignal
  BY <1>1, <1>27
  DEF KillSignal
<1>28. CASE ResumeChore
  BY <1>1, <1>28
  DEF ResumeChore
<1>29. CASE TickApplyBreaker
  BY <1>1, <1>29
  DEF TickApplyBreaker
<1>30. CASE TickScan \/ TickEnter \/ TickRow \/ TickPause \/ TickAlert \/
           TickEnd \/ TickDies \/ KillMark \/ PauseChore \/ PauseAll \/
           ResumeAll
  BY <1>1, <1>30
  DEF TickScan, TickEnter, TickRow, TickPause, TickAlert, TickEnd, TickDies,
      KillMark, PauseChore, PauseAll, ResumeAll
<1>31. ASSUME NEW r \in Runs, NEW seen \in {"PENDING", "RUNNING"},
             TickJudge(r, seen)
      PROVE  BreakerWatched'
  BY <1>1, <1>31
  DEF TickJudge
<1> HIDE DEF RunnerTyped, TickTyped, KillInv, BreakerWatched, Watched,
             NobodyDied, runner, record, process, breaker, others, tick, kill,
             Goto, Settle, Acquire, Release, Transition, AppendLedger, Halt,
             Rest, TickGoto
<1> QED
  BY <1>2, <1>3, <1>4, <1>5, <1>6, <1>7, <1>8, <1>9, <1>10, <1>11, <1>12,
     <1>13, <1>14, <1>15, <1>16, <1>17, <1>18, <1>19, <1>20, <1>21, <1>22,
     <1>23, <1>24, <1>25, <1>26, <1>27, <1>28, <1>29, <1>30, <1>31
  DEF Next, RunnerStep, TickStep, OperatorStep


(* BInv holds at the start.                                                *)
LEMMA BreakerBegins == Init => BInv
<1> SUFFICES ASSUME Init PROVE BInv
  OBVIOUS
<1>1. HistoryRecorded
  BY DEF Init, HistoryRecorded
<1>2. ~Trips(status)
  <2>1. History(status) = <<>>
    <3>1. order = <<>>
      BY DEF Init
    <3>2. Len(order) = 0
      BY <3>1
    <3> QED
      BY <3>2 DEF History
  <2>2. Considered(<<>>) = {}
    BY DEF Considered
  <2>3. Latest({}, Threshold) = {}
    BY DEF Latest
  <2>4. Cardinality({}) = 0
    BY FS_EmptySet
  <2>5. Threshold # 0
    BY RunsAssumption
  <2> QED
    BY <2>1, <2>2, <2>3, <2>4, <2>5 DEF Trips, CircuitBreaker
<1> QED
  BY <1>1, <1>2, InitInv DEF BInv, BreakerWatched

(* While nobody resumes the chore, every reachable state satisfies BInv.   *)
LEMMA BreakerInvariance == ASSUME "resume" \notin Operator PROVE Spec => []BInv
<1>1. BInv /\ [Next]_vars => BInv'
  BY IInvKept, HistoryRecordedKept, BreakerWatchedKept DEF BInv
<1> QED
  BY <1>1, BreakerBegins, PTL DEF Spec

(* The breaker does not miss: once nothing is in progress, a history that  *)
(* trips it has paused the chore, however many runs ended, were closed and *)
(* amended at once. A `chores resume' is excluded: it lifts the pause, and *)
(* nothing looks at the history again before the next run ends.            *)
THEOREM BreakerDoesNotMissHolds ==
  ASSUME "resume" \notin Operator PROVE Spec => []BreakerDoesNotMiss
<1>1. BInv => BreakerDoesNotMiss
  BY DEF BInv, BreakerWatched, BreakerDoesNotMiss, Watched, Quiet, Quit
<1> QED
  BY <1>1, BreakerInvariance, PTL
=============================================================================
