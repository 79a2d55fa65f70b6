---------------------------- MODULE PromisesProofs ----------------------------
(***************************************************************************)
(* What the two abstract specifications amount to, for any number of runs, *)
(* batches and operations: RunLifecycle charges every run once, for its    *)
(* record alone decides which rows a run may have (RowsFit); and the       *)
(* ledger of verdicts, BatchLedger, is true of the tree.  Where ChoresRun  *)
(* and DynomarkBatch implement them, each of these holds of the records    *)
(* and rows, and of the verdicts, the tree and the receipts there.         *)
(***************************************************************************)
EXTENDS BatchLedger, SequenceTheorems, TLAPS

CONSTANT Runs

VARIABLES status, rows, stage

Life == INSTANCE RunLifecycle

-----------------------------------------------------------------------------
(* The lifecycle of a run.                                                 *)

OnRecord == {Life!Absent, "PENDING", "RUNNING"} \cup Life!RunTerminal \cup Life!Refusals

Corrected ==
  {<<v>> : v \in Life!TrueOutcomes} \cup {<<"INTERRUPTED", v>> : v \in Life!TrueOutcomes}

RowsFit(r) ==
  /\ status[r] \in OnRecord
  /\ status[r] \in {Life!Absent, "PENDING", "RUNNING"} => rows[r] = <<>>
  /\ status[r] = "INTERRUPTED" => rows[r] \in {<<>>, <<"INTERRUPTED">>} \cup Corrected
  /\ status[r] \in Life!TrueOutcomes => rows[r] \in {<<>>} \cup Corrected
  /\ status[r] \in Life!Refusals => rows[r] \in {<<>>, <<status[r]>>}

Fits ==
  /\ status \in [Runs -> OnRecord]
  /\ DOMAIN rows = Runs
  /\ rows = [r \in Runs |-> rows[r]]
  /\ \A r \in Runs : RowsFit(r)

(* What appending to a ledger of no row or one row gives.                  *)
LEMMA AppendToShort ==
  ASSUME NEW u, NEW v
  PROVE  Append(<<>>, v) = <<v>> /\ Append(<<u>>, v) = <<u, v>>
<1> DEFINE S == {u, v}
<1>1. Append(<<>>, v) = <<v>>
  OBVIOUS
<1>2. /\ <<u>> \in Seq(S) /\ Len(<<u>>) = 1
      /\ <<u, v>> \in Seq(S) /\ Len(<<u, v>>) = 2
      /\ <<u, v>>[1] = u /\ <<u, v>>[2] = v
  OBVIOUS
<1>3. /\ Append(<<u>>, v) \in Seq(S) /\ Len(Append(<<u>>, v)) = 2
      /\ Append(<<u>>, v)[1] = u /\ Append(<<u>>, v)[2] = v
  BY <1>2, AppendProperties
<1>4. \A i \in 1 .. 2 : i = 1 \/ i = 2
  OBVIOUS
<1> QED
  BY <1>1, <1>2, <1>3, <1>4, SeqEqual

(* A row is only added to, and a record only changed in, a run whose rows  *)
(* fit what it becomes.                                                    *)
LEMMA FitsKept == Fits /\ [Life!Next]_(Life!vars) => Fits'
<1> SUFFICES ASSUME Fits, [Life!Next]_(Life!vars) PROVE Fits'
  OBVIOUS
<1> USE DEF Fits, RowsFit, OnRecord, Corrected, Life!Become, Life!Absent, Life!TrueOutcomes,
            Life!RunTerminal, Life!Failures, Life!Refusals
<1>1. CASE UNCHANGED Life!vars
  BY <1>1 DEF Life!vars
<1>2. ASSUME NEW r \in Runs, Life!Arrive(r) \/ Life!Leave(r) PROVE Fits'
  BY <1>2 DEF Life!Arrive, Life!Leave
<1>3. ASSUME NEW r \in Runs, Life!Refuse(r) PROVE Fits'
  BY <1>3 DEF Life!Refuse
<1>4. ASSUME NEW r \in Runs, Life!Admit(r) \/ Life!Start(r) PROVE Fits'
  BY <1>4 DEF Life!Admit, Life!Start
<1>5. ASSUME NEW r \in Runs, Life!Finish(r) PROVE Fits'
  BY <1>5 DEF Life!Finish
<1>6. ASSUME NEW r \in Runs, Life!Interrupt(r) PROVE Fits'
  BY <1>6 DEF Life!Interrupt
<1>7. ASSUME NEW r \in Runs, Life!Charge(r) PROVE Fits'
  <2>1. /\ rows' = [rows EXCEPT ![r] = <<status[r]>>]
        /\ status' = status
        /\ status[r] \in Life!RunTerminal \cup Life!Refusals
    BY <1>7
    DEF Life!Charge, Life!IsTerminal, Life!RunStatus, Life!NotTerminal, Life!ArmingEnds
  <2>2. rows'[r] = <<status[r]>> /\ \A s \in Runs \ {r} : rows'[s] = rows[s]
    BY <2>1
  <2>3. RowsFit(r)'
    BY <2>1, <2>2
  <2>4. \A s \in Runs \ {r} : RowsFit(s)'
    BY <2>1, <2>2
  <2> QED
    BY <2>1, <2>3, <2>4
<1>8. ASSUME NEW r \in Runs, Life!Amend(r) PROVE Fits'
  <2>1. PICK v \in Life!TrueOutcomes : rows' = [rows EXCEPT ![r] = Append(rows[r], v)]
    BY <1>8 DEF Life!Amend
  <2>2. /\ status[r] = "INTERRUPTED" /\ status' = status
        /\ rows[r] \in {<<>>, <<"INTERRUPTED">>}
    BY <1>8 DEF Life!Amend
  <2>3. Append(<<>>, v) = <<v>> /\ Append(<<"INTERRUPTED">>, v) = <<"INTERRUPTED", v>>
    BY AppendToShort
  <2>4. rows'[r] \in Corrected
    BY <2>1, <2>2, <2>3
  <2> QED
    BY <2>1, <2>2, <2>4
<1>9. ASSUME NEW r \in Runs, Life!Correct(r) PROVE Fits'
  <2>1. PICK v \in Life!TrueOutcomes : status' = [status EXCEPT ![r] = v]
    BY <1>9 DEF Life!Correct
  <2>2. rows[r] \in Corrected /\ rows' = rows
    <3>1. rows[r] \in {<<>>, <<"INTERRUPTED">>} \cup Corrected
      BY <1>9 DEF Life!Correct
    <3>2. Life!Last(<<"INTERRUPTED">>) = "INTERRUPTED"
      BY DEF Life!Last
    <3> QED
      BY <1>9, <3>1, <3>2 DEF Life!Correct
  <2> QED
    BY <2>1, <2>2
<1> QED
  BY <1>1, <1>2, <1>3, <1>4, <1>5, <1>6, <1>7, <1>8, <1>9 DEF Life!Next

(* No run is ever charged twice, however often it is read, closed and      *)
(* corrected.                                                              *)
THEOREM LifecycleChargesOnce == Life!Spec => []Life!ChargedOnce
<1>1. Life!Init => Fits
  BY DEF Life!Init, Fits, RowsFit, OnRecord, Life!Absent, Life!TrueOutcomes,
         Life!RunTerminal, Life!Failures, Life!Refusals
<1>2. Fits => Life!ChargedOnce
  <2> SUFFICES ASSUME Fits, NEW r \in Runs
      PROVE  \/ rows[r] = <<>>
             \/ Len(rows[r]) = 1
             \/ /\ Len(rows[r]) = 2
                /\ rows[r][1] = "INTERRUPTED" /\ rows[r][2] \in Life!TrueOutcomes
    BY DEF Life!ChargedOnce
  <2>1. \/ rows[r] = <<>>
        \/ \E v : rows[r] = <<v>>
        \/ \E v \in Life!TrueOutcomes : rows[r] = <<"INTERRUPTED", v>>
    BY DEF Fits, RowsFit, OnRecord, Corrected, Life!TrueOutcomes, Life!RunTerminal
  <2>2. ASSUME NEW v, rows[r] = <<v>> PROVE Len(rows[r]) = 1
    BY <2>2
  <2>3. ASSUME NEW v \in Life!TrueOutcomes, rows[r] = <<"INTERRUPTED", v>>
        PROVE  Len(rows[r]) = 2 /\ rows[r][1] = "INTERRUPTED" /\ rows[r][2] = v
    BY <2>3
  <2> QED
    BY <2>1, <2>2, <2>3
<1> QED
  BY <1>1, <1>2, FitsKept, PTL DEF Life!Spec

-----------------------------------------------------------------------------
(* The ledger of verdicts.                                                 *)

States == Decided \cup {"NONE", "PROPOSED"}

LedgerType ==
  /\ verdict \in [Batches -> States]
  /\ made \in [Batches -> SUBSET Ops]
  /\ reported \in [Batches -> SUBSET Ops]

(* An APPLIED verdict is exact, a PARTIAL one reports nothing that was not *)
(* made, and a REJECTED one nothing at all.                                *)
ReportsAreTrue ==
  \A b \in Batches :
    /\ reported[b] \subseteq made[b]
    /\ verdict[b] = "APPLIED" => reported[b] = made[b]
    /\ verdict[b] = "REJECTED" => reported[b] = {}

(* No batch changes the tree while one offered before it is undecided.     *)
OneAtATime ==
  \A b \in Batches : made[b] # {} => verdict[b] # "NONE" /\ EarlierDecided(b)

(* Batches are offered in order.                                           *)
OfferedInOrder ==
  \A a, b \in Batches : a < b /\ verdict[b] # "NONE" => verdict[a] # "NONE"

NothingReported ==
  \A b \in Batches : verdict[b] \in {"NONE", "PROPOSED"} => reported[b] = {}

LedgerInv == LedgerType /\ ReportsAreTrue /\ OneAtATime /\ OfferedInOrder /\ NothingReported

(* A verdict is given once, and what it reports is never changed.          *)
VerdictStands ==
  [][\A b \in Batches : verdict[b] \in Decided =>
       verdict'[b] = verdict[b] /\ reported'[b] = reported[b]]_vars

(* A batch that is APPLIED changes nothing any more.                       *)
AppliedIsOver ==
  [][\A b \in Batches : verdict[b] = "APPLIED" => made'[b] = made[b]]_vars

-----------------------------------------------------------------------------
(* A verdict changes only from NONE to PROPOSED, or is given to a proposed *)
(* batch.                                                                  *)
LEMMA VerdictsChange ==
  ASSUME [Next]_vars, NEW b \in Batches
  PROVE  \/ verdict'[b] = verdict[b] /\ reported'[b] = reported[b]
         \/ Offered(b) /\ reported'[b] = reported[b]
         \/ Decide(b)
  BY DEF Next, Propose, Decide, Make, vars

(* Every step of the ledger keeps the invariant.                           *)
LEMMA LedgerKept == LedgerInv /\ [Next]_vars => LedgerInv'
<1> SUFFICES ASSUME LedgerInv, [Next]_vars PROVE LedgerInv'
  OBVIOUS
<1>1. LedgerType'
  <2>1. verdict' \in [Batches -> States] /\ reported' \in [Batches -> SUBSET Ops]
    BY DEF LedgerInv, LedgerType, Next, Shaped, States, vars
  <2>2. made' \in [Batches -> SUBSET Ops]
    BY DEF LedgerInv, LedgerType, Next, Propose, Decide, Make, vars
  <2>q. QED
    BY <2>1, <2>2 DEF LedgerType
<1>2. \/ made' = made
      \/ \E b \in Batches : /\ verdict' = verdict /\ reported' = reported
                            /\ \E op \in Ops : Make(b, op)
  BY DEF Next, Propose, Decide, Make, vars
<1>3. ASSUME NEW b \in Batches, verdict[b] # "NONE" PROVE verdict'[b] # "NONE"
  BY <1>3, VerdictsChange DEF Offered, Decide
<1>4. ASSUME NEW b \in Batches, verdict[b] \in Decided
      PROVE  verdict'[b] = verdict[b] /\ reported'[b] = reported[b]
  BY <1>4, VerdictsChange DEF Offered, Decide, Decided
<1>5. CASE made' = made
  <2>1. ReportsAreTrue'
    <3>1. ASSUME NEW b \in Batches
          PROVE  /\ reported'[b] \subseteq made[b]
                 /\ verdict'[b] = "APPLIED" => reported'[b] = made[b]
                 /\ verdict'[b] = "REJECTED" => reported'[b] = {}
      BY VerdictsChange DEF Offered, Decide, LedgerInv, ReportsAreTrue
    <3>q. QED
      BY <1>5, <3>1 DEF ReportsAreTrue
  <2>2. OneAtATime'
    BY <1>3, <1>4, <1>5 DEF LedgerInv, OneAtATime, EarlierDecided
  <2>3. OfferedInOrder'
    <3>1. ASSUME NEW a \in Batches, NEW b \in Batches, a < b, verdict'[b] # "NONE"
          PROVE  verdict[a] # "NONE"
      BY <3>1, VerdictsChange DEF Offered, Decide, LedgerInv, OfferedInOrder
    <3>q. QED
      BY <1>3, <3>1 DEF OfferedInOrder
  <2>4. NothingReported'
    <3>1. ASSUME NEW b \in Batches, verdict'[b] \in {"NONE", "PROPOSED"}
          PROVE  reported'[b] = {}
      BY <3>1, VerdictsChange DEF Offered, Decide, LedgerInv, NothingReported
    <3>q. QED
      BY <3>1 DEF NothingReported
  <2>q. QED
    BY <1>1, <2>1, <2>2, <2>3, <2>4 DEF LedgerInv
<1>6. ASSUME NEW b \in Batches, NEW op \in Ops, Make(b, op) PROVE LedgerInv'
  <2>1. /\ verdict' = verdict /\ reported' = reported
        /\ verdict[b] \in {"PROPOSED", "PARTIAL", "REJECTED"} /\ EarlierDecided(b)
        /\ made'[b] = made[b] \cup {op}
        /\ \A c \in Batches \ {b} : made'[c] = made[c]
    BY <1>6 DEF Make, LedgerInv, LedgerType
  <2>2. ReportsAreTrue'
    BY <2>1 DEF LedgerInv, ReportsAreTrue
  <2>3. OneAtATime'
    BY <2>1 DEF LedgerInv, OneAtATime, EarlierDecided
  <2>4. OfferedInOrder' /\ NothingReported'
    BY <2>1 DEF LedgerInv, OfferedInOrder, NothingReported
  <2>q. QED
    BY <1>1, <2>2, <2>3, <2>4 DEF LedgerInv
<1>q. QED
  BY <1>2, <1>5, <1>6

(* Whatever copies, deaths and lost answers a batch goes through, it       *)
(* changes the tree in its turn only, and its receipt is true of it.       *)
THEOREM LedgerHolds == Spec => [](ReportsAreTrue /\ OneAtATime)
<1>1. Init => LedgerInv
  BY DEF Init, LedgerInv, LedgerType, States, ReportsAreTrue, OneAtATime, OfferedInOrder,
         NothingReported, EarlierDecided, Decided
<1>2. LedgerInv /\ [Next]_vars => LedgerInv'
  BY LedgerKept
<1>3. LedgerInv => ReportsAreTrue /\ OneAtATime
  BY DEF LedgerInv
<1>q. QED
  BY <1>1, <1>2, <1>3, PTL DEF Spec

(* A batch has one verdict: no late or repeated receipt replaces it.       *)
THEOREM OneVerdict == Spec => VerdictStands
<1>1. [Next]_vars => [\A b \in Batches : verdict[b] \in Decided =>
                        verdict'[b] = verdict[b] /\ reported'[b] = reported[b]]_vars
  BY VerdictsChange DEF Offered, Decide, Decided
<1>q. QED
  BY <1>1, PTL DEF Spec, VerdictStands

(* After an APPLIED verdict no copy of the batch has an effect, which is   *)
(* what an undo built from its receipt relies on.                          *)
THEOREM NothingAfterApplied == Spec => AppliedIsOver
<1>1. ASSUME NEW b \in Batches, NEW c \in Batches, NEW op \in Ops, Make(c, op),
             verdict[b] = "APPLIED"
      PROVE  made'[b] = made[b]
  BY <1>1 DEF Make
<1>2. [Next]_vars => [\A b \in Batches : verdict[b] = "APPLIED" => made'[b] = made[b]]_vars
  BY <1>1 DEF Next, Propose, Decide, vars
<1>q. QED
  BY <1>2, PTL DEF Spec, AppliedIsOver
===============================================================================
