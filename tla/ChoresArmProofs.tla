-------------------------- MODULE ChoresArmProofs --------------------------
(***************************************************************************)
(* Proofs about ChoresArm, for any number of asks and runners.             *)
(*                                                                         *)
(* OneArming rests on the chore's lock: only an ask writes ARMED, and one  *)
(* that was granted still holds the lock under which it saw none. UsedOnce *)
(* and EndIsFinal rest on the check-and-set: whoever wins it is the only   *)
(* process that will ever write a row for that arming, or run it.          *)
(***************************************************************************)
EXTENDS ChoresArm, TLAPS

(* What each process carries while it deals with an arming.                *)
Dealing == {"check", "enter", "admit", "adopt", "set", "row"}

IntentKept ==
  \A e \in Enders :
    /\ pc[e] \in Dealing => arming[e] \in Asks
    /\ pc[e] \in {"set", "row"} => fate[e] \in ArmingEnds

(* An ask under way holds the lock and has no record yet; a granted one    *)
(* still sees no arming.                                                   *)
AskKept ==
  \A a \in Asks :
    /\ askPc[a] \in {"locked", "granted"} => lock = a
    /\ askPc[a] = "granted" => ArmedNow = {}
    /\ askPc[a] # "done" => status[a] = Absent

(* Who still owes an arming's end its row.                                 *)
AtRow(a) == {e \in Enders : pc[e] = "row" /\ arming[e] = a}

Unused(a) ==
  status[a] \in {Absent, "ARMED"} => fired[a] = 0 /\ rows[a] = <<>> /\ AtRow(a) = {}

Became(a) ==
  status[a] = "PENDING" => fired[a] = 1 /\ rows[a] = <<>> /\ AtRow(a) = {}

Ended(a) ==
  status[a] \in ArmingEnds =>
    /\ fired[a] = 0
    /\ rows[a] = <<>> \/ (Len(rows[a]) = 1 /\ AtRow(a) = {})
    /\ \A e, f \in AtRow(a) : e = f

StoryKept == \A a \in Asks : Unused(a) /\ Became(a) /\ Ended(a)

IInv == TypeOK /\ IntentKept /\ AskKept /\ OneArming /\ StoryKept

(* A process that leaves deals with no arming, frees at most its own lock  *)
(* and disturbs nobody.                                                    *)
LEMMA Leaving ==
  ASSUME TypeOK, NEW e \in Enders, Leave(e)
  PROVE  /\ pc' \in [Enders -> Places]
         /\ arming' \in [Enders -> Asks \cup {Nobody}]
         /\ fate' \in [Enders -> ArmingEnds \cup {Absent}]
         /\ lock' \in Asks \cup Runners \cup {Nobody}
         /\ lock' = lock \/ (lock' = Nobody /\ lock = e)
         /\ pc'[e] \in {"scan", "idle"}
         /\ \A f \in Enders \ {e} :
              pc'[f] = pc[f] /\ arming'[f] = arming[f] /\ fate'[f] = fate[f]
  BY DEF TypeOK, Leave, Doom, Goto, Places

(* A process that leaves owes no row any more, and nobody else starts to.  *)
LEMMA LeavingRow ==
  ASSUME TypeOK, NEW e \in Enders, Leave(e)
  PROVE  \A a \in Asks : AtRow(a)' \subseteq AtRow(a) \ {e}
<1>1. pc'[e] # "row"
  BY Leaving
<1>2. \A f \in Enders \ {e} : pc'[f] = pc[f] /\ arming'[f] = arming[f]
  BY Leaving
<1>q. QED
  BY <1>1, <1>2 DEF AtRow

(* What a step does to the story of the armings when it only moves         *)
(* processes, and none of them to the row they may owe.                    *)
LEMMA StoryFrame ==
  ASSUME StoryKept, UNCHANGED <<status, rows, fired>>,
         \A a \in Asks : AtRow(a)' \subseteq AtRow(a)
  PROVE  StoryKept'
<1>1. ASSUME NEW a \in Asks
      PROVE  Unused(a)' /\ Became(a)' /\ Ended(a)'
  <2>1. AtRow(a)' \subseteq AtRow(a)
    OBVIOUS
  <2>2. Unused(a) /\ Became(a) /\ Ended(a)
    BY DEF StoryKept
  <2>3. Unused(a)' /\ Became(a)'
    BY <2>1, <2>2 DEF Unused, Became
  <2>4. Ended(a)'
    BY <2>1, <2>2 DEF Ended
  <2>q. QED
    BY <2>3, <2>4
<1>q. QED
  BY <1>1 DEF StoryKept

(* Every step keeps every variable in its domain.                          *)
LEMMA TypeStep ==
  ASSUME TypeOK, IntentKept, [Next]_vars
  PROVE  TypeOK'
<1>1. CASE \E a \in Asks : Ask(a)
  BY <1>1
  DEF TypeOK, Places, Ask, AskGoes, store, intent, world, Enders
<1>2. CASE \E a \in Asks : ArmEnter(a)
  BY <1>2
  DEF TypeOK, Places, ArmEnter, AskGoes, store, intent, world, Enders
<1>3. CASE \E a \in Asks : ArmCheck(a)
  <2>0. PICK a \in Asks : ArmCheck(a)
    BY <1>3
  <2>1. CASE ArmedNow = {}
    <3>1. askPc' \in [Asks -> {"idle", "asked", "locked", "granted", "done"}]
      BY <2>0, <2>1 DEF ArmCheck, TypeOK, AskGoes
    <3>q. QED
      BY <2>0, <2>1, <3>1 DEF ArmCheck, TypeOK, store, intent, world
  <2>2. CASE ArmedNow # {}
    <3>1. askPc' \in [Asks -> {"idle", "asked", "locked", "granted", "done"}]
      BY <2>0, <2>2 DEF ArmCheck, TypeOK, AskGoes
    <3>2. lock' \in Asks \cup Runners \cup {Nobody}
      BY <2>0, <2>2 DEF ArmCheck, TypeOK, AskGoes
    <3>q. QED
      BY <2>0, <2>2, <3>1, <3>2 DEF ArmCheck, TypeOK, store, intent, world
  <2>q. QED
    BY <2>0, <2>1, <2>2 DEF ArmCheck
<1>4. CASE \E a \in Asks : ArmWrite(a)
  BY <1>4
  DEF TypeOK, Places, ArmWrite, AskGoes, store, intent, world, Enders
<1>5. CASE \E a \in Asks : Cancel(a)
  BY <1>5
  DEF TypeOK, Places, Definition, ArmingEnds, Refusals, Cancel, Doom, Goto,
      store, intent, world, Enders
<1>6. CASE \E a \in Asks : Ripen(a)
  BY <1>6
  DEF TypeOK, Places, Ripen, store, intent, world, Enders
<1>7. CASE \E e \in Enders : EndSet(e)
  <2>0. PICK e \in Enders : EndSet(e)
    BY <1>7
  <2>1. CASE status[arming[e]] = "ARMED"
    <3>1. status' \in [Asks -> {Absent, "ARMED", "PENDING"} \cup ArmingEnds]
      BY <2>0, <2>1 DEF EndSet, TypeOK, IntentKept, Dealing, FromArmed
    <3>2. pc' \in [Enders -> Places]
      BY <2>0, <2>1 DEF EndSet, TypeOK, Goto, Places, Enders
    <3>q. QED
      BY <2>0, <2>1, <3>1, <3>2 DEF EndSet, FromArmed, TypeOK, store, intent,
         world
  <2>2. CASE status[arming[e]] # "ARMED"
    <3>1. Leave(e) /\ e \in Enders
      BY <2>0, <2>2 DEF EndSet, Enders, FromArmed
    <3>2. /\ pc' \in [Enders -> Places]
          /\ arming' \in [Enders -> Asks \cup {Nobody}]
          /\ fate' \in [Enders -> ArmingEnds \cup {Absent}]
          /\ lock' \in Asks \cup Runners \cup {Nobody}
      BY <3>1, Leaving
    <3>q. QED
      BY <2>0, <2>2, <3>2 DEF EndSet, FromArmed, TypeOK, store, intent, world
  <2>q. QED
    BY <2>0, <2>1, <2>2 DEF EndSet
<1>8. CASE \E e \in Enders : EndRow(e)
  <2>0. PICK e \in Enders : EndRow(e)
    BY <1>8
  <2>1. CASE TRUE
    <3>1. Leave(e)
      BY <2>0, <2>1 DEF EndRow
    <3>q. QED
      BY <2>0, <2>1, <3>1, Leaving
      DEF TypeOK, IntentKept, Dealing, Places, Definition, ArmingEnds,
          Refusals, EndRow, store, intent, world, Enders
  <2>q. QED
    BY <2>0, <2>1 DEF EndRow
<1>9. CASE TickLoad
  BY <1>9
  DEF TypeOK, Places, TickLoad, Goto, store, intent, world, Enders
<1>10. CASE TickScan
  BY <1>10
  DEF TypeOK, Places, Definition, ArmingEnds, Refusals, TickScan, ArmedNow,
      Goto, store, intent, world, Enders
<1>11. CASE TickEnd
  BY <1>11
  DEF TypeOK, Places, TickEnd, Goto, store, intent, world, Enders
<1>12. CASE \E a \in Asks : TickConsider(a) /\ TickAbandon(a)
  BY <1>12
  DEF TypeOK, Places, Definition, ArmingEnds, Refusals, TickConsider,
      TickAbandon, Doom, Goto, store, intent, world, Enders
<1>13. CASE \E a \in Asks : TickConsider(a) /\ TickFire(a)
  BY <1>13
  DEF TypeOK, Places, TickConsider, TickFire, Goto, store, intent, world, Enders
<1>14. CASE \E a \in Asks : TickConsider(a) /\ TickRefuse(a)
  BY <1>14, ArmAssumption, ActorsAssumption
  DEF TypeOK, Places, Definition, ArmingEnds, Refusals, TickConsider,
      TickRefuse, Doom, Goto, store, intent, world, Enders
<1>15. CASE \E a \in Asks : TickConsider(a) /\ TickLeave(a)
  BY <1>15
  DEF TypeOK, Places, TickConsider, TickLeave, store, intent, world, Enders
<1>16. CASE \E p \in Runners : Check(p)
  <2>0. PICK p \in Runners : Check(p)
    BY <1>16
  <2>1. CASE status[arming[p]] = "ARMED" /\ chore # "gone"
    <3>1. sees' \in [Enders -> Definition]
      BY <2>0, <2>1 DEF Check, TypeOK, Enders
    <3>2. pc' \in [Enders -> Places]
      BY <2>0, <2>1 DEF Check, TypeOK, Goto, Places, Enders
    <3>q. QED
      BY <2>0, <2>1, <3>1, <3>2 DEF Check, TypeOK, store, intent, world
  <2>2. CASE status[arming[p]] # "ARMED" \/ chore = "gone"
    <3>1. Leave(p) /\ p \in Enders
      BY <2>0, <2>2 DEF Check, Enders
    <3>2. /\ pc' \in [Enders -> Places]
          /\ arming' \in [Enders -> Asks \cup {Nobody}]
          /\ fate' \in [Enders -> ArmingEnds \cup {Absent}]
          /\ lock' \in Asks \cup Runners \cup {Nobody}
      BY <3>1, Leaving
    <3>q. QED
      BY <2>0, <2>2, <3>2 DEF Check, TypeOK, store, intent, world
  <2>q. QED
    BY <2>0, <2>1, <2>2 DEF Check
<1>17. CASE \E p \in Runners : Enter(p)
  BY <1>17
  DEF TypeOK, Places, Enter, Goto, store, intent, world, Enders
<1>18. CASE \E p \in Runners : Admit(p)
  <2>0. PICK p \in Runners : Admit(p)
    BY <1>18
  <2>1. CASE AdmitRun(p)
    BY <2>0, <2>1
    DEF TypeOK, Places, Admit, AdmitRun, Doom, Goto, AskGoes, store, intent,
        world, Enders
  <2>2. CASE Defer(p)
    <3>1. Leave(p)
      BY <2>0, <2>2 DEF Admit, Defer, Enders
    <3>q. QED
      BY <2>0, <2>2, <3>1, Leaving
      DEF TypeOK, Places, Admit, Defer, Enders, store, intent, world
  <2>3. CASE Refuse(p)
    BY <2>0, <2>3, ArmAssumption, ActorsAssumption
    DEF TypeOK, Places, Definition, ArmingEnds, Refusals, Admit, Refuse,
        Doom, Goto, AskGoes, store, intent, world, Enders
  <2>q. QED
    BY <2>0, <2>1, <2>2, <2>3 DEF Admit
<1>19. CASE \E p \in Runners : Adopt(p)
  <2>0. PICK p \in Runners : Adopt(p)
    BY <1>19
  <2>1. CASE status[arming[p]] = "ARMED"
    <3>1. Leave(p) /\ p \in Enders
      BY <2>0, <2>1 DEF Adopt, Enders, FromArmed
    <3>2. /\ pc' \in [Enders -> Places]
          /\ arming' \in [Enders -> Asks \cup {Nobody}]
          /\ fate' \in [Enders -> ArmingEnds \cup {Absent}]
          /\ lock' \in Asks \cup Runners \cup {Nobody}
      BY <3>1, Leaving
    <3>3. status' \in [Asks -> {Absent, "ARMED", "PENDING"} \cup ArmingEnds]
      BY <2>0, <2>1 DEF Adopt, TypeOK, IntentKept, Dealing, FromArmed
    <3>4. arming[p] \in Asks
      BY <2>0, <2>1 DEF Adopt, TypeOK, IntentKept, Dealing, FromArmed, Enders
    <3>5. fired[arming[p]] + 1 \in Nat /\ fired' = [fired EXCEPT ![arming[p]] = fired[arming[p]] + 1]
      BY <2>0, <2>1, <3>4 DEF Adopt, TypeOK, FromArmed
    <3>6. fired' \in [Asks -> Nat]
      BY <2>0, <2>1, <3>5 DEF Adopt, TypeOK, FromArmed
    <3>q. QED
      BY <2>0, <2>1, <3>2, <3>3, <3>4, <3>5, <3>6 DEF Adopt, FromArmed,
         TypeOK, store, intent, world
  <2>2. CASE status[arming[p]] # "ARMED"
    <3>1. Leave(p) /\ p \in Enders
      BY <2>0, <2>2 DEF Adopt, Enders, FromArmed
    <3>2. /\ pc' \in [Enders -> Places]
          /\ arming' \in [Enders -> Asks \cup {Nobody}]
          /\ fate' \in [Enders -> ArmingEnds \cup {Absent}]
          /\ lock' \in Asks \cup Runners \cup {Nobody}
      BY <3>1, Leaving
    <3>q. QED
      BY <2>0, <2>2, <3>2 DEF Adopt, FromArmed, TypeOK, store, intent, world
  <2>q. QED
    BY <2>0, <2>1, <2>2 DEF Adopt
<1>20. CASE \E e \in Enders : Die(e)
  BY <1>20
  DEF TypeOK, Places, Die, Doom, Goto, store, intent, world, Enders
<1>21. CASE PowerChanges \/ Edit
  <2>1. CASE PowerChanges
    <3>1. battery' \in BOOLEAN
      BY <2>1, Zenon DEF PowerChanges, TypeOK
    <3>q. QED
      BY <2>1, <3>1 DEF PowerChanges, TypeOK, store, intent
  <2>2. CASE Edit
    <3>1. chore' \in Definition /\ edits' \in Nat
      BY <2>2 DEF Edit, TypeOK
    <3>q. QED
      BY <2>2, <3>1 DEF Edit, TypeOK, store, intent
  <2>q. QED
    BY <1>21, <2>1, <2>2
<1>22. CASE UNCHANGED vars
  BY <1>22
  DEF TypeOK, Places, vars, store, intent, world, Enders
<1>q. QED
  BY <1>1, <1>2, <1>3, <1>4, <1>5, <1>6, <1>7, <1>8, <1>9, <1>10, <1>11,
     <1>12, <1>13, <1>14, <1>15, <1>16, <1>17, <1>18, <1>19, <1>20, <1>21,
     <1>22
  DEF Next, Arm, End, TickStep, TickConsider, RunnerStep, Enders

(* Every step keeps what the processes carry.                              *)
LEMMA IntentStep ==
  ASSUME TypeOK, IntentKept, [Next]_vars
  PROVE  IntentKept'
<1>1. CASE \E a \in Asks : Ask(a)
  BY <1>1
  DEF TypeOK, IntentKept, Dealing, Places, Ask, AskGoes, store, intent,
      world, Enders
<1>2. CASE \E a \in Asks : ArmEnter(a)
  BY <1>2
  DEF TypeOK, IntentKept, Dealing, Places, ArmEnter, AskGoes, store, intent,
      world, Enders
<1>3. CASE \E a \in Asks : ArmCheck(a)
  BY <1>3
  DEF TypeOK, IntentKept, Dealing, Places, ArmCheck, AskGoes, store, intent,
      world, Enders
<1>4. CASE \E a \in Asks : ArmWrite(a)
  BY <1>4
  DEF TypeOK, IntentKept, Dealing, Places, ArmWrite, AskGoes, store, intent,
      world, Enders
<1>5. CASE \E a \in Asks : Cancel(a)
  BY <1>5
  DEF TypeOK, IntentKept, Dealing, Places, ArmingEnds, Refusals, Cancel,
      Doom, Goto, store, intent, world, Enders
<1>6. CASE \E a \in Asks : Ripen(a)
  BY <1>6
  DEF TypeOK, IntentKept, Dealing, Places, Ripen, store, intent, world, Enders
<1>7. CASE \E e \in Enders : EndSet(e)
  <2>0. PICK e \in Enders : EndSet(e)
    BY <1>7
  <2>1. CASE status[arming[e]] = "ARMED"
    BY <2>0, <2>1
    DEF TypeOK, IntentKept, Dealing, Places, EndSet, FromArmed, Doom, Goto,
        AskGoes, store, intent, world, Enders
  <2>2. CASE status[arming[e]] # "ARMED"
    <3>1. Leave(e)
      BY <2>0, <2>2 DEF EndSet, FromArmed
    <3>q. QED
      BY <2>0, <2>2, <3>1, Leaving
      DEF TypeOK, IntentKept, Dealing, Places, EndSet, FromArmed, store,
          intent, world, Enders
  <2>q. QED
    BY <2>0, <2>1, <2>2 DEF EndSet
<1>8. CASE \E e \in Enders : EndRow(e)
  <2>0. PICK e \in Enders : EndRow(e)
    BY <1>8
  <2>1. CASE TRUE
    <3>1. Leave(e)
      BY <2>0, <2>1 DEF EndRow
    <3>q. QED
      BY <2>0, <2>1, <3>1, Leaving
      DEF TypeOK, IntentKept, Dealing, Places, EndRow, store, intent, world,
          Enders
  <2>q. QED
    BY <2>0, <2>1 DEF EndRow
<1>9. CASE TickLoad
  BY <1>9
  DEF TypeOK, IntentKept, Dealing, Places, TickLoad, Goto, store, intent,
      world, Enders
<1>10. CASE TickScan
  BY <1>10
  DEF TypeOK, IntentKept, Dealing, Places, TickScan, Goto, store, intent,
      world, Enders
<1>11. CASE TickEnd
  BY <1>11
  DEF TypeOK, IntentKept, Dealing, Places, TickEnd, Goto, store, intent,
      world, Enders
<1>12. CASE \E a \in Asks : TickConsider(a) /\ TickAbandon(a)
  BY <1>12
  DEF TypeOK, IntentKept, Dealing, Places, ArmingEnds, Refusals,
      TickConsider, TickAbandon, Doom, Goto, store, intent, world, Enders
<1>13. CASE \E a \in Asks : TickConsider(a) /\ TickFire(a)
  BY <1>13
  DEF TypeOK, IntentKept, Dealing, Places, TickConsider, TickFire, Goto,
      store, intent, world, Enders
<1>14. CASE \E a \in Asks : TickConsider(a) /\ TickRefuse(a)
  BY <1>14, ArmAssumption, ActorsAssumption
  DEF TypeOK, IntentKept, Dealing, Places, ArmingEnds, Refusals,
      TickConsider, TickRefuse, Doom, Goto, store, intent, world, Enders
<1>15. CASE \E a \in Asks : TickConsider(a) /\ TickLeave(a)
  BY <1>15
  DEF TypeOK, IntentKept, Dealing, Places, TickConsider, TickLeave, store,
      intent, world, Enders
<1>16. CASE \E p \in Runners : Check(p)
  <2>0. PICK p \in Runners : Check(p)
    BY <1>16
  <2>1. CASE status[arming[p]] = "ARMED" /\ chore # "gone"
    BY <2>0, <2>1
    DEF TypeOK, IntentKept, Dealing, Places, Check, Doom, Goto, AskGoes,
        store, intent, world, Enders
  <2>2. CASE status[arming[p]] # "ARMED" \/ chore = "gone"
    <3>1. Leave(p)
      BY <2>0, <2>2 DEF Check, Enders
    <3>q. QED
      BY <2>0, <2>2, <3>1, Leaving
      DEF TypeOK, IntentKept, Dealing, Places, Check, Enders, store, intent,
          world
  <2>q. QED
    BY <2>0, <2>1, <2>2 DEF Check
<1>17. CASE \E p \in Runners : Enter(p)
  BY <1>17
  DEF TypeOK, IntentKept, Dealing, Places, Enter, Goto, store, intent, world,
      Enders
<1>18. CASE \E p \in Runners : Admit(p)
  <2>0. PICK p \in Runners : Admit(p)
    BY <1>18
  <2>1. CASE AdmitRun(p)
    BY <2>0, <2>1
    DEF TypeOK, IntentKept, Dealing, Places, Admit, AdmitRun, Doom, Goto,
        AskGoes, store, intent, world, Enders
  <2>2. CASE Defer(p)
    <3>1. Leave(p)
      BY <2>0, <2>2 DEF Admit, Defer, Enders
    <3>q. QED
      BY <2>0, <2>2, <3>1, Leaving
      DEF TypeOK, IntentKept, Dealing, Places, Admit, Defer, Enders, store,
          intent, world
  <2>3. CASE Refuse(p)
    BY <2>0, <2>3, ArmAssumption, ActorsAssumption
    DEF TypeOK, IntentKept, Dealing, Places, ArmingEnds, Refusals, Admit,
        Refuse, Doom, Goto, AskGoes, store, intent, world, Enders
  <2>q. QED
    BY <2>0, <2>1, <2>2, <2>3 DEF Admit
<1>19. CASE \E p \in Runners : Adopt(p)
  <2>0. PICK p \in Runners : Adopt(p)
    BY <1>19
  <2>1. CASE status[arming[p]] = "ARMED"
    <3>1. Leave(p)
      BY <2>0, <2>1 DEF Adopt, FromArmed, Enders
    <3>q. QED
      BY <2>0, <2>1, <3>1, Leaving
      DEF TypeOK, IntentKept, Dealing, Places, Adopt, FromArmed, Enders,
          store, intent, world
  <2>2. CASE status[arming[p]] # "ARMED"
    <3>1. Leave(p)
      BY <2>0, <2>2 DEF Adopt, FromArmed, Enders
    <3>q. QED
      BY <2>0, <2>2, <3>1, Leaving
      DEF TypeOK, IntentKept, Dealing, Places, Adopt, FromArmed, Enders,
          store, intent, world
  <2>q. QED
    BY <2>0, <2>1, <2>2 DEF Adopt
<1>20. CASE \E e \in Enders : Die(e)
  BY <1>20
  DEF TypeOK, IntentKept, Dealing, Places, Die, Doom, Goto, store, intent,
      world, Enders
<1>21. CASE PowerChanges \/ Edit
  BY <1>21
  DEF TypeOK, IntentKept, Dealing, Places, PowerChanges, Edit, store, intent,
      world, Enders
<1>22. CASE UNCHANGED vars
  BY <1>22
  DEF TypeOK, IntentKept, Dealing, Places, vars, store, intent, world, Enders
<1>q. QED
  BY <1>1, <1>2, <1>3, <1>4, <1>5, <1>6, <1>7, <1>8, <1>9, <1>10, <1>11,
     <1>12, <1>13, <1>14, <1>15, <1>16, <1>17, <1>18, <1>19, <1>20, <1>21,
     <1>22
  DEF Next, Arm, End, TickStep, TickConsider, RunnerStep, Enders

(* Every step keeps the asks' hold on the lock and what they saw under it. *)
LEMMA AskStep ==
  ASSUME TypeOK, IntentKept, AskKept, [Next]_vars
  PROVE  AskKept'
<1>1. CASE \E a \in Asks : Ask(a)
  BY <1>1
  DEF TypeOK, AskKept, ArmedNow, ArmingEnds, Refusals, Absent, Ask, AskGoes,
      store, intent, world, Enders
<1>2. CASE \E a \in Asks : ArmEnter(a)
  BY <1>2, ArmAssumption, ActorsAssumption
  DEF TypeOK, AskKept, ArmEnter, AskGoes, store, intent, world, Enders
<1>3. CASE \E a \in Asks : ArmCheck(a)
  <2>0. PICK a \in Asks : ArmCheck(a)
    BY <1>3
  <2>1. CASE ArmedNow = {}
    BY <2>0, <2>1
    DEF TypeOK, AskKept, ArmedNow, ArmingEnds, Refusals, Absent, ArmCheck,
        Doom, Goto, AskGoes, store, intent, world, Enders
  <2>2. CASE ArmedNow # {}
    BY <2>0, <2>2
    DEF TypeOK, AskKept, ArmCheck, Doom, Goto, AskGoes, store, intent, world,
        Enders
  <2>q. QED
    BY <2>0, <2>1, <2>2 DEF ArmCheck
<1>4. CASE \E a \in Asks : ArmWrite(a)
  BY <1>4
  DEF TypeOK, AskKept, ArmWrite, AskGoes, store, intent, world, Enders
<1>5. CASE \E a \in Asks : Cancel(a)
  BY <1>5
  DEF TypeOK, AskKept, ArmedNow, ArmingEnds, Refusals, Absent, Cancel, Doom,
      Goto, store, intent, world, Enders
<1>6. CASE \E a \in Asks : Ripen(a)
  BY <1>6
  DEF TypeOK, AskKept, ArmedNow, ArmingEnds, Refusals, Absent, Ripen, store,
      intent, world, Enders
<1>7. CASE \E e \in Enders : EndSet(e)
  <2>0. PICK e \in Enders : EndSet(e)
    BY <1>7
  <2>1. CASE status[arming[e]] = "ARMED"
    BY <2>0, <2>1
    DEF TypeOK, AskKept, ArmedNow, ArmingEnds, Refusals, Absent, EndSet,
        FromArmed, Doom, Goto, AskGoes, store, intent, world, Enders
  <2>2. CASE status[arming[e]] # "ARMED"
    <3>1. Leave(e)
      BY <2>0, <2>2 DEF EndSet, FromArmed
    <3>q. QED
      BY <2>0, <2>2, <3>1, Leaving, ArmAssumption, ActorsAssumption
      DEF TypeOK, IntentKept, AskKept, ArmedNow, Dealing, ArmingEnds,
          Refusals, Absent, EndSet, FromArmed, store, intent, world, Enders
  <2>q. QED
    BY <2>0, <2>1, <2>2 DEF EndSet
<1>8. CASE \E e \in Enders : EndRow(e)
  <2>0. PICK e \in Enders : EndRow(e)
    BY <1>8
  <2>1. CASE TRUE
    <3>1. Leave(e)
      BY <2>0, <2>1 DEF EndRow
    <3>q. QED
      BY <2>0, <2>1, <3>1, Leaving, ArmAssumption, ActorsAssumption
      DEF TypeOK, IntentKept, AskKept, ArmedNow, Dealing, ArmingEnds,
          Refusals, Absent, EndRow, store, intent, world, Enders
  <2>q. QED
    BY <2>0, <2>1 DEF EndRow
<1>9. CASE TickLoad
  BY <1>9
  DEF TypeOK, AskKept, ArmedNow, ArmingEnds, Refusals, Absent, TickLoad,
      Goto, store, intent, world, Enders
<1>10. CASE TickScan
  BY <1>10
  DEF TypeOK, AskKept, ArmedNow, ArmingEnds, Refusals, Absent, TickScan,
      Goto, store, intent, world, Enders
<1>11. CASE TickEnd
  BY <1>11
  DEF TypeOK, AskKept, ArmedNow, ArmingEnds, Refusals, Absent, TickEnd, Goto,
      store, intent, world, Enders
<1>12. CASE \E a \in Asks : TickConsider(a) /\ TickAbandon(a)
  BY <1>12
  DEF TypeOK, AskKept, ArmedNow, ArmingEnds, Refusals, Absent, TickConsider,
      TickAbandon, Doom, Goto, store, intent, world, Enders
<1>13. CASE \E a \in Asks : TickConsider(a) /\ TickFire(a)
  BY <1>13
  DEF TypeOK, AskKept, ArmedNow, ArmingEnds, Refusals, Absent, TickConsider,
      TickFire, Goto, store, intent, world, Enders
<1>14. CASE \E a \in Asks : TickConsider(a) /\ TickRefuse(a)
  BY <1>14
  DEF TypeOK, AskKept, ArmedNow, ArmingEnds, Refusals, Absent, TickConsider,
      TickRefuse, Doom, Goto, store, intent, world, Enders
<1>15. CASE \E a \in Asks : TickConsider(a) /\ TickLeave(a)
  BY <1>15
  DEF TypeOK, AskKept, ArmedNow, ArmingEnds, Refusals, Absent, TickConsider,
      TickLeave, store, intent, world, Enders
<1>16. CASE \E p \in Runners : Check(p)
  <2>0. PICK p \in Runners : Check(p)
    BY <1>16
  <2>1. CASE status[arming[p]] = "ARMED" /\ chore # "gone"
    BY <2>0, <2>1
    DEF TypeOK, AskKept, ArmedNow, ArmingEnds, Refusals, Absent, Check, Doom,
        Goto, AskGoes, store, intent, world, Enders
  <2>2. CASE status[arming[p]] # "ARMED" \/ chore = "gone"
    <3>1. Leave(p)
      BY <2>0, <2>2 DEF Check, Enders
    <3>q. QED
      BY <2>0, <2>2, <3>1, Leaving, ArmAssumption, ActorsAssumption
      DEF TypeOK, IntentKept, AskKept, ArmedNow, Dealing, ArmingEnds,
          Refusals, Absent, Check, Enders, store, intent, world
  <2>q. QED
    BY <2>0, <2>1, <2>2 DEF Check
<1>17. CASE \E p \in Runners : Enter(p)
  BY <1>17, ArmAssumption, ActorsAssumption
  DEF TypeOK, AskKept, Enter, Goto, store, intent, world, Enders
<1>18. CASE \E p \in Runners : Admit(p)
  <2>0. PICK p \in Runners : Admit(p)
    BY <1>18
  <2>1. CASE AdmitRun(p)
    BY <2>0, <2>1
    DEF TypeOK, AskKept, ArmedNow, ArmingEnds, Refusals, Absent, Admit,
        AdmitRun, Doom, Goto, AskGoes, store, intent, world, Enders
  <2>2. CASE Defer(p)
    <3>1. Leave(p)
      BY <2>0, <2>2 DEF Admit, Defer, Enders
    <3>q. QED
      BY <2>0, <2>2, <3>1, Leaving, ArmAssumption, ActorsAssumption
      DEF TypeOK, IntentKept, AskKept, ArmedNow, Dealing, ArmingEnds,
          Refusals, Absent, Admit, Defer, Enders, store, intent, world
  <2>3. CASE Refuse(p)
    BY <2>0, <2>3
    DEF TypeOK, AskKept, ArmedNow, ArmingEnds, Refusals, Absent, Admit,
        Refuse, Doom, Goto, AskGoes, store, intent, world, Enders
  <2>q. QED
    BY <2>0, <2>1, <2>2, <2>3 DEF Admit
<1>19. CASE \E p \in Runners : Adopt(p)
  <2>0. PICK p \in Runners : Adopt(p)
    BY <1>19
  <2>1. CASE status[arming[p]] = "ARMED"
    <3>1. Leave(p)
      BY <2>0, <2>1 DEF Adopt, FromArmed, Enders
    <3>q. QED
      BY <2>0, <2>1, <3>1, Leaving, ArmAssumption, ActorsAssumption
      DEF TypeOK, IntentKept, AskKept, ArmedNow, Dealing, ArmingEnds,
          Refusals, Absent, Adopt, FromArmed, Enders, store, intent, world
  <2>2. CASE status[arming[p]] # "ARMED"
    <3>1. Leave(p)
      BY <2>0, <2>2 DEF Adopt, FromArmed, Enders
    <3>q. QED
      BY <2>0, <2>2, <3>1, Leaving, ArmAssumption, ActorsAssumption
      DEF TypeOK, IntentKept, AskKept, ArmedNow, Dealing, ArmingEnds,
          Refusals, Absent, Adopt, FromArmed, Enders, store, intent, world
  <2>q. QED
    BY <2>0, <2>1, <2>2 DEF Adopt
<1>20. CASE \E e \in Enders : Die(e)
  BY <1>20, ArmAssumption, ActorsAssumption
  DEF TypeOK, IntentKept, AskKept, ArmedNow, Dealing, ArmingEnds, Refusals,
      Absent, Die, Doom, Goto, store, intent, world, Enders
<1>21. CASE PowerChanges \/ Edit
  BY <1>21
  DEF TypeOK, AskKept, ArmedNow, ArmingEnds, Refusals, Absent, PowerChanges,
      Edit, store, intent, world, Enders
<1>22. CASE UNCHANGED vars
  BY <1>22
  DEF TypeOK, AskKept, ArmedNow, ArmingEnds, Refusals, Absent, vars, store,
      intent, world, Enders
<1>q. QED
  BY <1>1, <1>2, <1>3, <1>4, <1>5, <1>6, <1>7, <1>8, <1>9, <1>10, <1>11,
     <1>12, <1>13, <1>14, <1>15, <1>16, <1>17, <1>18, <1>19, <1>20, <1>21,
     <1>22
  DEF Next, Arm, End, TickStep, TickConsider, RunnerStep, Enders

(* The three ways a record moves: an ask that was granted under the lock   *)
(* arms it, and the check-and-set takes it from ARMED to a run or an end.  *)
LEMMA StatusMoves ==
  ASSUME TypeOK, IntentKept, AskKept, [Next]_vars
  PROVE  \A a \in Asks :
           \/ status'[a] = status[a]
           \/ status[a] = "ARMED" /\ status'[a] \in {"PENDING"} \cup ArmingEnds
           \/ status[a] = Absent /\ status'[a] = "ARMED" /\ askPc[a] = "granted"
<1>1. CASE \E a \in Asks : ArmWrite(a)
  BY <1>1 DEF ArmWrite, TypeOK, AskKept
<1>2. CASE \E e \in Enders : EndSet(e)
  <2>1. PICK e \in Enders : EndSet(e)
    BY <1>2
  <2>2. fate[e] \in ArmingEnds
    BY <2>1 DEF EndSet, IntentKept
  <2>q. QED
    BY <2>1, <2>2 DEF EndSet, FromArmed, TypeOK
<1>3. CASE \E p \in Runners : Adopt(p)
  BY <1>3 DEF Adopt, FromArmed, TypeOK
<1>4. CASE UNCHANGED status
  BY <1>4
<1>5. CASE \E a \in Asks : Ask(a) \/ ArmEnter(a) \/ ArmCheck(a) \/ Cancel(a) \/ Ripen(a)
  BY <1>4, <1>5 DEF Ask, ArmEnter, ArmCheck, Cancel, Ripen, store
<1>6. CASE \E e \in Enders : EndRow(e) \/ Die(e)
  BY <1>4, <1>6 DEF EndRow, Die, store
<1>7. CASE TickLoad \/ TickScan \/ TickEnd \/ \E a \in Asks : TickConsider(a)
  BY <1>4, <1>7 DEF TickLoad, TickScan, TickEnd, TickConsider, store
<1>8. CASE \E p \in Runners : Check(p) \/ Enter(p) \/ Admit(p)
  BY <1>4, <1>8 DEF Check, Enter, Admit, store
<1>9. CASE PowerChanges \/ Edit \/ UNCHANGED vars
  BY <1>4, <1>9 DEF PowerChanges, Edit, vars, store
<1>q. QED
  BY <1>1, <1>2, <1>3, <1>5, <1>6, <1>7, <1>8, <1>9
  DEF Next, Arm, End, TickStep, RunnerStep, Enders

(* Every step leaves at most one record ARMED: whoever arms one still      *)
(* holds the lock under which it saw none.                                 *)
LEMMA ArmingStep ==
  ASSUME TypeOK, IntentKept, AskKept, OneArming, [Next]_vars
  PROVE  OneArming'
<1>1. SUFFICES ASSUME NEW a \in Asks, NEW b \in Asks,
                      status'[a] = "ARMED", status'[b] = "ARMED"
               PROVE  a = b
  BY DEF OneArming, ArmedNow
<1>2. /\ status[a] = "ARMED" \/ askPc[a] = "granted"
      /\ status[b] = "ARMED" \/ askPc[b] = "granted"
  BY <1>1, StatusMoves DEF ArmingEnds, Refusals
<1>3. CASE status[a] = "ARMED" /\ status[b] = "ARMED"
  BY <1>3 DEF OneArming, ArmedNow
<1>4. CASE askPc[a] = "granted"
  BY <1>2, <1>4 DEF AskKept, ArmedNow
<1>5. CASE askPc[b] = "granted"
  BY <1>2, <1>5 DEF AskKept, ArmedNow
<1>q. QED
  BY <1>2, <1>3, <1>4, <1>5

(* Every step keeps the story of every arming: unused, a run, or ended.    *)
LEMMA StoryStep ==
  ASSUME TypeOK, IntentKept, AskKept, StoryKept, [Next]_vars
  PROVE  StoryKept'
<1>1. CASE \E a \in Asks : Ask(a)
  BY <1>1
  DEF TypeOK, StoryKept, Unused, Became, Ended, AtRow, Ask, AskGoes, store,
      intent, world, Enders
<1>2. CASE \E a \in Asks : ArmEnter(a)
  BY <1>2
  DEF TypeOK, StoryKept, Unused, Became, Ended, AtRow, ArmEnter, AskGoes,
      store, intent, world, Enders
<1>3. CASE \E a \in Asks : ArmCheck(a)
  BY <1>3
  DEF TypeOK, StoryKept, Unused, Became, Ended, AtRow, ArmCheck, AskGoes,
      store, intent, world, Enders
<1>4. CASE \E a \in Asks : ArmWrite(a)
  BY <1>4
  DEF TypeOK, IntentKept, AskKept, StoryKept, Unused, Became, Ended, AtRow,
      Dealing, ArmingEnds, Refusals, Absent, ArmWrite, AskGoes, store,
      intent, world, Enders
<1>5. CASE \E a \in Asks : Cancel(a)
  BY <1>5
  DEF TypeOK, StoryKept, Unused, Became, Ended, AtRow, Cancel, Doom, Goto,
      store, intent, world, Enders
<1>6. CASE \E a \in Asks : Ripen(a)
  BY <1>6
  DEF TypeOK, StoryKept, Unused, Became, Ended, AtRow, Ripen, store, intent,
      world, Enders
<1>7. CASE \E e \in Enders : EndSet(e)
  <2>0. PICK e \in Enders : EndSet(e)
    BY <1>7
  <2>1. CASE status[arming[e]] = "ARMED"
    BY <2>0, <2>1, ArmAssumption, ActorsAssumption
    DEF TypeOK, IntentKept, AskKept, StoryKept, Unused, Became, Ended, AtRow,
        Dealing, ArmingEnds, Refusals, Absent, EndSet, FromArmed, Goto,
        store, intent, world, Enders
  <2>2. CASE status[arming[e]] # "ARMED"
    <3>1. Leave(e) /\ e \in Enders
      BY <2>0, <2>2 DEF EndSet, Enders, FromArmed
    <3>2. \A a \in Asks : AtRow(a)' \subseteq AtRow(a)
      BY <3>1, LeavingRow
    <3>3. UNCHANGED <<status, rows, fired>>
      BY <2>0, <2>2 DEF EndSet, FromArmed, store
    <3>q. QED
      BY <3>2, <3>3, StoryFrame
  <2>q. QED
    BY <2>1, <2>2
<1>8. CASE \E e \in Enders : EndRow(e)
  <2>0. PICK e \in Enders : EndRow(e)
    BY <1>8
  <2>1. Leave(e) /\ e \in AtRow(arming[e]) /\ arming[e] \in Asks
    BY <2>0 DEF EndRow, AtRow, IntentKept, Dealing
  <2>b. PICK b \in Asks : b = arming[e]
    BY <2>1
  <2>2. \A a \in Asks : AtRow(a)' \subseteq AtRow(a) \ {e}
    BY <2>1, LeavingRow
  <2>3. \A a \in Asks : Unused(a) /\ Became(a) /\ Ended(a)
    BY DEF StoryKept
  <2>4. status[b] \in ArmingEnds
    BY <2>1, <2>b, <2>3 DEF Unused, Became, TypeOK
  <2>5. /\ fired[b] = 0
        /\ rows[b] = <<>>
        /\ AtRow(b)' = {}
    BY <2>1, <2>b, <2>2, <2>3, <2>4 DEF Ended
  <2>6. /\ status' = status /\ fired' = fired
        /\ \A a \in Asks \ {b} : rows'[a] = rows[a]
        /\ rows'[b] = Append(<<>>, fate[e])
    BY <2>0, <2>1, <2>b, <2>5 DEF EndRow, TypeOK
  <2>7. ASSUME NEW a \in Asks \ {b}
        PROVE  Unused(a)' /\ Became(a)' /\ Ended(a)'
    BY <2>2, <2>3, <2>6 DEF Unused, Became, Ended
  <2>8. Unused(b)' /\ Became(b)' /\ Ended(b)'
    <3>1. Len(rows'[b]) = 1
      BY <2>6
    <3>q. QED
      BY <2>4, <2>5, <2>6, <3>1 DEF Unused, Became, Ended, Absent,
         ArmingEnds, Refusals
  <2>q. QED
    BY <2>7, <2>8 DEF StoryKept
<1>9. CASE TickLoad
  BY <1>9
  DEF TypeOK, StoryKept, Unused, Became, Ended, AtRow, TickLoad, Goto, store,
      intent, world, Enders
<1>10. CASE TickScan
  BY <1>10
  DEF TypeOK, StoryKept, Unused, Became, Ended, AtRow, TickScan, Goto, store,
      intent, world, Enders
<1>11. CASE TickEnd
  BY <1>11
  DEF TypeOK, StoryKept, Unused, Became, Ended, AtRow, TickEnd, Goto, store,
      intent, world, Enders
<1>12. CASE \E a \in Asks : TickConsider(a) /\ TickAbandon(a)
  BY <1>12
  DEF TypeOK, StoryKept, Unused, Became, Ended, AtRow, TickConsider,
      TickAbandon, Doom, Goto, store, intent, world, Enders
<1>13. CASE \E a \in Asks : TickConsider(a) /\ TickFire(a)
  BY <1>13
  DEF TypeOK, StoryKept, Unused, Became, Ended, AtRow, TickConsider,
      TickFire, Goto, store, intent, world, Enders
<1>14. CASE \E a \in Asks : TickConsider(a) /\ TickRefuse(a)
  BY <1>14
  DEF TypeOK, StoryKept, Unused, Became, Ended, AtRow, TickConsider,
      TickRefuse, Doom, Goto, store, intent, world, Enders
<1>15. CASE \E a \in Asks : TickConsider(a) /\ TickLeave(a)
  BY <1>15
  DEF TypeOK, StoryKept, Unused, Became, Ended, AtRow, TickConsider,
      TickLeave, store, intent, world, Enders
<1>16. CASE \E p \in Runners : Check(p)
  <2>0. PICK p \in Runners : Check(p)
    BY <1>16
  <2>1. CASE status[arming[p]] = "ARMED" /\ chore # "gone"
    BY <2>0, <2>1
    DEF TypeOK, StoryKept, Unused, Became, Ended, AtRow, Check, Goto, store,
        intent, world, Enders
  <2>2. CASE status[arming[p]] # "ARMED" \/ chore = "gone"
    <3>1. Leave(p) /\ p \in Enders
      BY <2>0, <2>2 DEF Check, Enders
    <3>2. \A a \in Asks : AtRow(a)' \subseteq AtRow(a)
      BY <3>1, LeavingRow
    <3>3. UNCHANGED <<status, rows, fired>>
      BY <2>0, <2>2 DEF Check, store
    <3>q. QED
      BY <3>2, <3>3, StoryFrame
  <2>q. QED
    BY <2>1, <2>2
<1>17. CASE \E p \in Runners : Enter(p)
  BY <1>17
  DEF TypeOK, StoryKept, Unused, Became, Ended, AtRow, Enter, Goto, store,
      intent, world, Enders
<1>18. CASE \E p \in Runners : Admit(p)
  <2>0. PICK p \in Runners : Admit(p)
    BY <1>18
  <2>1. CASE AdmitRun(p) \/ Refuse(p)
    <3>1. \A a \in Asks : AtRow(a)' \subseteq AtRow(a)
      <4>1. pc'[p] # "row" /\ \A f \in Enders \ {p} : pc'[f] = pc[f] /\ arming'[f] = arming[f]
        BY <2>0, <2>1 DEF AdmitRun, Refuse, Doom, Goto, TypeOK, Enders, intent
      <4>q. QED
        BY <4>1 DEF AtRow
    <3>2. UNCHANGED <<status, rows, fired>>
      BY <2>0 DEF Admit, store
    <3>q. QED
      BY <3>1, <3>2, StoryFrame
  <2>2. CASE Defer(p)
    <3>1. Leave(p) /\ p \in Enders
      BY <2>0, <2>2 DEF Admit, Enders, Defer
    <3>2. \A a \in Asks : AtRow(a)' \subseteq AtRow(a)
      BY <3>1, LeavingRow
    <3>3. UNCHANGED <<status, rows, fired>>
      BY <2>0, <2>2 DEF Admit, Defer, store
    <3>q. QED
      BY <3>2, <3>3, StoryFrame
  <2>q. QED
    BY <2>0, <2>1, <2>2 DEF Admit
<1>19. CASE \E p \in Runners : Adopt(p)
  <2>0. PICK p \in Runners : Adopt(p)
    BY <1>19
  <2>1. CASE status[arming[p]] = "ARMED"
    <3>1. Leave(p) /\ p \in Enders /\ arming[p] \in Asks
      BY <2>0 DEF Adopt, Enders, IntentKept, Dealing
    <3>b. PICK b \in Asks : b = arming[p]
      BY <3>1
    <3>2. \A a \in Asks : AtRow(a)' \subseteq AtRow(a)
      BY <3>1, LeavingRow
    <3>3. /\ rows' = rows
          /\ \A a \in Asks \ {b} : status'[a] = status[a] /\ fired'[a] = fired[a]
          /\ status'[b] = "PENDING"
          /\ fired'[b] = fired[b] + 1
      BY <2>0, <2>1, <3>1, <3>b DEF Adopt, FromArmed, TypeOK
    <3>4. Unused(b) /\ \A a \in Asks : Unused(a) /\ Became(a) /\ Ended(a)
      BY <3>1 DEF StoryKept
    <3>5. ASSUME NEW a \in Asks \ {b}
          PROVE  Unused(a)' /\ Became(a)' /\ Ended(a)'
      BY <3>2, <3>3, <3>4 DEF Unused, Became, Ended
    <3>6. Unused(b)' /\ Became(b)' /\ Ended(b)'
      BY <2>1, <3>b, <3>2, <3>3, <3>4 DEF Unused, Became, Ended, Absent,
         ArmingEnds, Refusals
    <3>q. QED
      BY <3>5, <3>6 DEF StoryKept
  <2>2. CASE status[arming[p]] # "ARMED"
    <3>1. Leave(p) /\ p \in Enders
      BY <2>0, <2>2 DEF Adopt, Enders, FromArmed
    <3>2. \A a \in Asks : AtRow(a)' \subseteq AtRow(a)
      BY <3>1, LeavingRow
    <3>3. UNCHANGED <<status, rows, fired>>
      BY <2>0, <2>2 DEF Adopt, FromArmed, store
    <3>q. QED
      BY <3>2, <3>3, StoryFrame
  <2>q. QED
    BY <2>1, <2>2
<1>20. CASE \E e \in Enders : Die(e)
  BY <1>20
  DEF TypeOK, StoryKept, Unused, Became, Ended, AtRow, Die, Doom, Goto,
      store, intent, world, Enders
<1>21. CASE PowerChanges \/ Edit
  BY <1>21
  DEF TypeOK, StoryKept, Unused, Became, Ended, AtRow, PowerChanges, Edit,
      store, intent, world, Enders
<1>22. CASE UNCHANGED vars
  BY <1>22
  DEF TypeOK, StoryKept, Unused, Became, Ended, AtRow, vars, store, intent,
      world, Enders
<1>q. QED
  BY <1>1, <1>2, <1>3, <1>4, <1>5, <1>6, <1>7, <1>8, <1>9, <1>10, <1>11,
     <1>12, <1>13, <1>14, <1>15, <1>16, <1>17, <1>18, <1>19, <1>20, <1>21,
     <1>22
  DEF Next, Arm, End, TickStep, TickConsider, RunnerStep, Enders

(* The inductive invariant holds for ever.                                 *)
THEOREM Invariance == Spec => []IInv
<1>1. Init => IInv
  <2>1. SUFFICES ASSUME Init PROVE IInv
    OBVIOUS
  <2>2. TypeOK
    <3>1. /\ rows \in [Asks -> Seq(ArmingEnds)]
          /\ fired \in [Asks -> Nat]
          /\ status \in [Asks -> {Absent, "ARMED", "PENDING"} \cup ArmingEnds]
          /\ askPc \in [Asks -> {"idle", "asked", "locked", "granted", "done"}]
      BY <2>1 DEF Init
    <3>2. /\ pc \in [Enders -> Places]
          /\ arming \in [Enders -> Asks \cup {Nobody}]
          /\ fate \in [Enders -> ArmingEnds \cup {Absent}]
          /\ sees \in [Enders -> Definition]
      BY <2>1 DEF Init, Places, Definition
    <3>3. /\ due \subseteq Asks /\ scan \subseteq Asks
          /\ lock \in Asks \cup Runners \cup {Nobody}
          /\ chore \in Definition
          /\ edits \in Nat /\ crashes \in Nat
      BY <2>1 DEF Init, Definition
    <3>4. battery \in BOOLEAN
      BY <2>1, Zenon DEF Init
    <3>q. QED
      BY <3>1, <3>2, <3>3, <3>4 DEF TypeOK
  <2>3. IntentKept /\ AskKept /\ OneArming
    BY <2>1 DEF Init, IntentKept, AskKept, OneArming, ArmedNow, Dealing, Absent
  <2>4. StoryKept
    BY <2>1 DEF Init, StoryKept, Unused, Became, Ended, AtRow, Absent,
       ArmingEnds, Refusals
  <2>q. QED
    BY <2>2, <2>3, <2>4 DEF IInv
<1>2. IInv /\ [Next]_vars => IInv'
  BY TypeStep, IntentStep, AskStep, ArmingStep, StoryStep DEF IInv
<1>q. QED
  BY <1>1, <1>2, PTL DEF Spec

(* Every variable stays in its domain, however many asks, runners, edits   *)
(* and crashes there are (arm.py, context.py:455-479).                     *)
THEOREM TypeCorrect == Spec => []TypeOK
<1>1. IInv => TypeOK
  BY DEF IInv
<1>q. QED
  BY <1>1, Invariance, PTL

(* A chore never has two armings at once (arm.py:68-82).                   *)
THEOREM OneArmingHolds == Spec => []OneArming
<1>1. IInv => OneArming
  BY DEF IInv
<1>q. QED
  BY <1>1, Invariance, PTL

(* An ask becomes one run or gets one row that says how it ended, never    *)
(* both (run.py:675-694, context.py:462-479).                              *)
THEOREM UsedOnceHolds == Spec => []UsedOnce
<1>1. IInv => UsedOnce
  <2>1. SUFFICES ASSUME IInv, NEW a \in Asks
                 PROVE  fired[a] + Len(rows[a]) <= 1
    BY DEF UsedOnce
  <2>2. Unused(a) /\ Became(a) /\ Ended(a) /\ TypeOK
    BY <2>1 DEF IInv, StoryKept
  <2>3. status[a] \in {Absent, "ARMED", "PENDING"} \cup ArmingEnds
    BY <2>2 DEF TypeOK
  <2>4. fired[a] \in {0, 1} /\ (fired[a] = 1 => rows[a] = <<>>)
    BY <2>2, <2>3 DEF Unused, Became, Ended
  <2>5. rows[a] = <<>> \/ Len(rows[a]) = 1
    BY <2>2, <2>3 DEF Unused, Became, Ended
  <2>6. rows[a] = <<>> => Len(rows[a]) = 0
    OBVIOUS
  <2>7. fired[a] = 1 => Len(rows[a]) = 0
    BY <2>4, <2>6
  <2>8. PICK n \in {0, 1} : Len(rows[a]) = n
    BY <2>5, <2>6
  <2>9. PICK k \in {0, 1} : fired[a] = k
    BY <2>4
  <2>10. k + n <= 1
    BY <2>7, <2>8, <2>9
  <2>q. QED
    BY <2>8, <2>9, <2>10
<1>q. QED
  BY <1>1, Invariance, PTL

(* A record that has left ARMED never moves here again (context.py:462,    *)
(* run.py:678, fs_store.py:342-358).                                       *)
THEOREM EndIsFinalHolds == Spec => EndIsFinal
<1>1. ASSUME IInv, [Next]_vars
      PROVE  \A a \in Asks : status[a] \notin {Absent, "ARMED"} => status'[a] = status[a]
  BY <1>1, StatusMoves DEF IInv
<1>2. IInv /\ [Next]_vars =>
        [\A a \in Asks : status[a] \notin {Absent, "ARMED"} => status'[a] = status[a]]_vars
  BY <1>1
<1>q. QED
  BY <1>2, Invariance, PTL DEF Spec, EndIsFinal

=============================================================================
