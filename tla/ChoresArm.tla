----------------------------- MODULE ChoresArm -----------------------------
(***************************************************************************)
(* The armings of one chore: every ask is a `chores run --at', and stands  *)
(* for the run id it would mint. The tick fires an ARMED record whose time *)
(* has come by spawning a runner that adopts it; the operator cancels; the *)
(* tick abandons. Tick and operator act without the chore's lock, and a    *)
(* tick may spawn a second runner for an arming whose first has not        *)
(* adopted it yet. What follows adoption is ChoresRun.                     *)
(***************************************************************************)
EXTENDS ChoresStatus, Naturals, Sequences, FiniteSets

CONSTANTS
  Asks,        \* the asks, and the run ids of those that are granted
  Runners,     \* the processes the tick can have spawned at one time
  Refusing,    \* the refusals, battery aside, an admission may come to
  Battery,     \* may the laptop run on battery?
  MaxEdits,    \* bound: changes of the chore's definition
  MaxCrashes   \* bound: processes that die between two steps

ASSUME ArmAssumption ==
  /\ Refusing \subseteq Refusals \ {"DEFERRED_BATTERY"}
  /\ Battery \in BOOLEAN
  /\ MaxEdits \in Nat
  /\ MaxCrashes \in Nat

Tick == "tick"
Operator == "operator"
Nobody == "nobody"

ASSUME ActorsAssumption ==
  /\ Asks \cap Runners = {}
  /\ {Tick, Operator, Nobody} \cap (Asks \cup Runners) = {}

Enders == Runners \cup {Tick, Operator}

VARIABLES
  askPc,    \* where each ask is
  status,   \* the run record's status
  due,      \* armings whose start time has come
  rows,     \* the ledger: per run id, the statuses that ended its arming
  fired,    \* per run id, how many runs it became
  pc,       \* where each runner, the tick and the operator's cancel are
  arming,   \* the run id each of them deals with
  fate,     \* the status it is about to end that arming with
  sees,     \* the definition as the tick and each runner last loaded it
  scan,     \* ARMED records of the tick's snapshot still to be considered
  lock,     \* who holds the chore's lock
  chore,    \* the definition: "enabled", "disabled", or "gone" (or invalid)
  battery,  \* on battery, and the chore defers
  edits,    \* changes of the definition so far
  crashes   \* processes that have died so far

store == <<status, due, rows, fired>>
intent == <<arming, fate>>
world == <<chore, battery, edits>>
vars == <<askPc, store, pc, intent, sees, scan, lock, world, crashes>>

Definition == {"enabled", "disabled", "gone"}

ArmedNow == {a \in Asks : status[a] = "ARMED"}

-----------------------------------------------------------------------------
Init ==
  /\ askPc = [a \in Asks |-> "idle"]
  /\ status = [a \in Asks |-> Absent]
  /\ due = {}
  /\ rows = [a \in Asks |-> <<>>]
  /\ fired = [a \in Asks |-> 0]
  /\ pc = [e \in Enders |-> "idle"]
  /\ arming = [e \in Enders |-> Nobody]
  /\ fate = [e \in Enders |-> Absent]
  /\ sees = [e \in Enders |-> "enabled"]
  /\ scan = {}
  /\ lock = Nobody
  /\ chore = "enabled"
  /\ battery = FALSE
  /\ edits = 0
  /\ crashes = 0

Goto(e, there) == pc' = [pc EXCEPT ![e] = there]

AskGoes(a, there) == askPc' = [askPc EXCEPT ![a] = there]

(* The check-and-set every arming leaves ARMED through.                    *)
FromArmed(a, to) ==
  /\ status[a] = "ARMED"
  /\ status' = [status EXCEPT ![a] = to]

-----------------------------------------------------------------------------
(* arm_chore.                                                              *)

(* A disabled chore can be armed; an unknown or invalid one cannot.        *)
Ask(a) ==
  /\ askPc[a] = "idle"
  /\ chore # "gone"
  /\ AskGoes(a, "asked")
  /\ UNCHANGED <<store, pc, intent, sees, scan, lock, world, crashes>>

(* Variant: an ask that looks for an arming without taking the lock.       *)
ArmEnterUnlocked(a) ==
  /\ askPc[a] = "asked"
  /\ AskGoes(a, "locked")
  /\ UNCHANGED <<store, pc, intent, sees, scan, lock, world, crashes>>

ArmEnter(a) ==
  /\ askPc[a] = "asked"
  /\ lock = Nobody
  /\ lock' = a
  /\ AskGoes(a, "locked")
  /\ UNCHANGED <<store, pc, intent, sees, scan, world, crashes>>

(* A chore that has an ARMED record already refuses the ask.               *)
ArmCheck(a) ==
  /\ askPc[a] = "locked"
  /\ \/ /\ ArmedNow = {}
        /\ AskGoes(a, "granted")
        /\ UNCHANGED lock
     \/ /\ ArmedNow # {}
        /\ AskGoes(a, "done")
        /\ lock' = Nobody
  /\ UNCHANGED <<store, pc, intent, sees, scan, world, crashes>>

(* The start time is now, or later.                                        *)
ArmWrite(a) ==
  /\ askPc[a] = "granted"
  /\ status' = [status EXCEPT ![a] = "ARMED"]
  /\ due' \in {due, due \cup {a}}
  /\ AskGoes(a, "done")
  /\ lock' = Nobody
  /\ UNCHANGED <<rows, fired, pc, intent, sees, scan, world, crashes>>

-----------------------------------------------------------------------------
(* end_arming, whoever calls it: a check-and-set, then the ledger row.     *)

(* Decide to end a with the status `how'; the caller goes on to "set".     *)
Doom(e, a, how) ==
  /\ arming' = [arming EXCEPT ![e] = a]
  /\ fate' = [fate EXCEPT ![e] = how]

(* A process is done with its arming: the tick goes on with its scan, any  *)
(* other leaves; a runner gives its lock back.                             *)
Leave(e) ==
  /\ Goto(e, IF e = Tick THEN "scan" ELSE "idle")
  /\ Doom(e, Nobody, Absent)
  /\ lock' = IF lock = e THEN Nobody ELSE lock

(* Variant: an end written over whatever the record says by now.           *)
EndSetBlindly(e) ==
  /\ pc[e] = "set"
  /\ status' = [status EXCEPT ![arming[e]] = fate[e]]
  /\ Goto(e, "row")
  /\ UNCHANGED <<askPc, due, rows, fired, intent, sees, scan, lock, world, crashes>>

EndSet(e) ==
  /\ pc[e] = "set"
  /\ \/ /\ FromArmed(arming[e], fate[e])
        /\ Goto(e, "row")
        /\ UNCHANGED <<intent, lock>>
     \/ /\ status[arming[e]] # "ARMED"
        /\ Leave(e)
        /\ UNCHANGED status
  /\ UNCHANGED <<askPc, due, rows, fired, sees, scan, world, crashes>>

EndRow(e) ==
  /\ pc[e] = "row"
  /\ rows' = [rows EXCEPT ![arming[e]] = Append(@, fate[e])]
  /\ Leave(e)
  /\ UNCHANGED <<askPc, status, due, fired, sees, scan, world, crashes>>

(* cancel_armed: a record read as anything but ARMED is refused.           *)
Cancel(a) ==
  /\ pc[Operator] = "idle"
  /\ status[a] = "ARMED"
  /\ Doom(Operator, a, "CANCELLED")
  /\ Goto(Operator, "set")
  /\ UNCHANGED <<askPc, store, sees, scan, lock, world, crashes>>

-----------------------------------------------------------------------------
(* The tick: _fire_armed.                                                  *)

TickLoad ==
  /\ pc[Tick] = "idle"
  /\ sees' = [sees EXCEPT ![Tick] = chore]
  /\ Goto(Tick, "loaded")
  /\ UNCHANGED <<askPc, store, intent, scan, lock, world, crashes>>

TickScan ==
  /\ pc[Tick] = "loaded"
  /\ scan' = ArmedNow
  /\ Goto(Tick, "scan")
  /\ UNCHANGED <<askPc, store, intent, sees, lock, world, crashes>>

(* Variant: the arming of a disabled chore waits for it to be enabled.     *)
TickAbandonGone(a) ==
  /\ sees[Tick] # "enabled"
  /\ IF sees[Tick] = "gone"
     THEN Doom(Tick, a, "ARM_ABANDONED") /\ Goto(Tick, "set")
     ELSE UNCHANGED <<pc, intent>>
  /\ UNCHANGED sees

(* A chore that is gone, invalid or disabled abandons its arming.          *)
TickAbandon(a) ==
  /\ sees[Tick] # "enabled"
  /\ Doom(Tick, a, "ARM_ABANDONED")
  /\ Goto(Tick, "set")
  /\ UNCHANGED sees

(* Admitted: a runner is spawned with the run id. (The pass took the time  *)
(* before it read the records, so the code may also wait one tick longer.) *)
TickFire(a) ==
  /\ sees[Tick] = "enabled"
  /\ a \in due /\ ~battery
  /\ \E p \in Runners :
       /\ pc[p] = "idle"
       /\ Goto(p, "check")
       /\ arming' = [arming EXCEPT ![p] = a]
  /\ UNCHANGED <<fate, sees>>

TickRefuse(a) ==
  /\ sees[Tick] = "enabled"
  /\ a \in due
  /\ \E how \in Refusing : Doom(Tick, a, how)
  /\ Goto(Tick, "set")
  /\ UNCHANGED sees

(* Too early, or a refusal for battery, which does not consume the ask.    *)
TickLeave(a) ==
  /\ sees[Tick] = "enabled"
  /\ a \notin due \/ battery
  /\ UNCHANGED <<pc, intent, sees>>

TickConsider(a) ==
  /\ pc[Tick] = "scan"
  /\ a \in scan
  /\ scan' = scan \ {a}
  /\ \/ TickAbandon(a)
     \/ TickFire(a) \/ TickRefuse(a) \/ TickLeave(a)
  /\ UNCHANGED <<askPc, store, lock, world, crashes>>

TickEnd ==
  /\ pc[Tick] = "scan"
  /\ scan = {}
  /\ Goto(Tick, "idle")
  /\ UNCHANGED <<askPc, store, intent, sees, scan, lock, world, crashes>>

-----------------------------------------------------------------------------
(* The runner, up to the adoption.                                         *)

(* The record must still be ARMED and the definition there.                *)
Check(p) ==
  /\ pc[p] = "check"
  /\ \/ /\ status[arming[p]] = "ARMED" /\ chore # "gone"
        /\ sees' = [sees EXCEPT ![p] = chore]
        /\ Goto(p, "enter")
        /\ UNCHANGED <<intent, lock>>
     \/ /\ status[arming[p]] # "ARMED" \/ chore = "gone"
        /\ Leave(p)
        /\ UNCHANGED sees
  /\ UNCHANGED <<askPc, store, scan, world, crashes>>

Enter(p) ==
  /\ pc[p] = "enter"
  /\ lock = Nobody
  /\ lock' = p
  /\ Goto(p, "admit")
  /\ UNCHANGED <<askPc, store, intent, sees, scan, world, crashes>>

(* Live admission once more. A disabled chore's refusal names no status:   *)
(* the arming ends SKIPPED_PAUSED. Battery leaves it ARMED. (That the      *)
(* refused record is read again first changes nothing: end_arming checks.) *)
AdmitRun(p) ==
  /\ sees[p] = "enabled" /\ ~battery
  /\ Goto(p, "adopt")
  /\ UNCHANGED <<intent, lock>>

Defer(p) ==
  /\ sees[p] = "enabled" /\ battery
  /\ Leave(p)

Refuse(p) ==
  /\ \E how \in IF sees[p] = "enabled" THEN Refusing ELSE {"SKIPPED_PAUSED"} :
       Doom(p, arming[p], how)
  /\ Goto(p, "set")
  /\ UNCHANGED lock

Admit(p) ==
  /\ pc[p] = "admit"
  /\ AdmitRun(p) \/ Defer(p) \/ Refuse(p)
  /\ UNCHANGED <<askPc, store, sees, scan, world, crashes>>

(* Variant: the record taken over without looking at its status.           *)
AdoptBlindly(p) ==
  /\ pc[p] = "adopt"
  /\ status' = [status EXCEPT ![arming[p]] = "PENDING"]
  /\ fired' = [fired EXCEPT ![arming[p]] = @ + 1]
  /\ Leave(p)
  /\ UNCHANGED <<askPc, due, rows, sees, scan, world, crashes>>

(* fire: ARMED to PENDING by check-and-set; the run goes on from there. A  *)
(* runner that finds it cancelled, or taken, leaves.                       *)
Adopt(p) ==
  /\ pc[p] = "adopt"
  /\ \/ /\ FromArmed(arming[p], "PENDING")
        /\ fired' = [fired EXCEPT ![arming[p]] = @ + 1]
     \/ /\ status[arming[p]] # "ARMED"
        /\ UNCHANGED <<status, fired>>
  /\ Leave(p)
  /\ UNCHANGED <<askPc, due, rows, sees, scan, world, crashes>>

-----------------------------------------------------------------------------
(* Time, power, the definition's author, and crashes.                      *)

Ripen(a) ==
  /\ status[a] = "ARMED"
  /\ a \notin due
  /\ due' = due \cup {a}
  /\ UNCHANGED <<askPc, status, rows, fired, pc, intent, sees, scan, lock, world,
                 crashes>>

PowerChanges ==
  /\ Battery
  /\ battery' = ~battery
  /\ UNCHANGED <<askPc, store, pc, intent, sees, scan, lock, chore, edits, crashes>>

Edit ==
  /\ edits < MaxEdits
  /\ chore' \in Definition \ {chore}
  /\ edits' = edits + 1
  /\ UNCHANGED <<askPc, store, pc, intent, sees, scan, lock, battery, crashes>>

(* The kernel frees the lock of a process that dies.                       *)
Die(e) ==
  /\ pc[e] # "idle"
  /\ crashes < MaxCrashes
  /\ crashes' = crashes + 1
  /\ Goto(e, "idle")
  /\ Doom(e, Nobody, Absent)
  /\ lock' = IF lock = e THEN Nobody ELSE lock
  /\ scan' = IF e = Tick THEN {} ELSE scan
  /\ UNCHANGED <<askPc, store, sees, world>>

-----------------------------------------------------------------------------
Arm(a) == ArmEnter(a) \/ ArmCheck(a) \/ ArmWrite(a)

End(e) == EndSet(e) \/ EndRow(e)

TickStep ==
  \/ TickLoad \/ TickScan \/ TickEnd
  \/ \E a \in Asks : TickConsider(a)
  \/ End(Tick)

RunnerStep(p) == Check(p) \/ Enter(p) \/ Admit(p) \/ Adopt(p) \/ End(p)

Next ==
  \/ \E a \in Asks : Ask(a) \/ Arm(a) \/ Cancel(a) \/ Ripen(a)
  \/ End(Operator)
  \/ TickStep
  \/ \E p \in Runners : RunnerStep(p)
  \/ \E e \in Enders : Die(e)
  \/ PowerChanges
  \/ Edit

Spec == Init /\ [][Next]_vars

(* The scheduler starts ticks for ever and processes run on, an ask that   *)
(* holds the lock included. The lock is not assumed fair to each waiter:   *)
(* whoever waits for it is one of finitely many.                           *)
Fairness ==
  /\ \A a \in Asks : WF_vars(Arm(a))
  /\ WF_vars(TickStep)
  /\ \A p \in Runners : WF_vars(RunnerStep(p))

FairSpec == Spec /\ Fairness

-----------------------------------------------------------------------------
(* Properties.                                                             *)

Places == {"idle", "loaded", "scan", "check", "enter", "admit", "adopt", "set", "row"}

(* Every variable stays in its domain (arm.py, context.py:455-479).        *)
TypeOK ==
  /\ askPc \in [Asks -> {"idle", "asked", "locked", "granted", "done"}]
  /\ status \in [Asks -> {Absent, "ARMED", "PENDING"} \cup ArmingEnds]
  /\ due \subseteq Asks
  /\ rows \in [Asks -> Seq(ArmingEnds)]
  /\ fired \in [Asks -> Nat]
  /\ pc \in [Enders -> Places]
  /\ arming \in [Enders -> Asks \cup {Nobody}]
  /\ fate \in [Enders -> ArmingEnds \cup {Absent}]
  /\ sees \in [Enders -> Definition]
  /\ scan \subseteq Asks
  /\ lock \in Asks \cup Runners \cup {Nobody}
  /\ chore \in Definition
  /\ battery \in BOOLEAN
  /\ edits \in Nat
  /\ crashes \in Nat

(* A chore has one arming at a time, although cancels, abandons and fires  *)
(* come and go without the lock an ask takes (CHORES-ONE-TIME.DESIGN.md    *)
(* Non-Goals: "One armed run per chore at a time"; arm.py:68-82).          *)
OneArming == \A a, b \in ArmedNow : a = b

(* An ask is used up once: it becomes one run, or is ended with one ledger *)
(* row, and never both, however many runners were spawned for it and       *)
(* whoever cancels or refuses it meanwhile (run.py:675-694,                *)
(* context.py:462-479).                                                    *)
UsedOnce == \A a \in Asks : fired[a] + Len(rows[a]) <= 1

(* An arming that has ended or become a run stays so: no late refusal,     *)
(* abandonment, cancel or adoption moves its record (domain/run.py).       *)
EndIsFinal ==
  [][\A a \in Asks : status[a] \notin {Absent, "ARMED"} => status'[a] = status[a]]_vars

(* CHORES-ONE-TIME.DESIGN.md G4: "none stays ARMED forever" -- once the    *)
(* laptop stays on mains, what is due is fired or ended, whoever crashes   *)
(* and whatever becomes of the chore (tick.py:371-421).                    *)
NoneStaysArmed ==
  <>[]~battery => \A a \in Asks : a \in due /\ status[a] = "ARMED" ~> status[a] # "ARMED"
=============================================================================
