------------------------ MODULE ChoresCeilingProofs ------------------------
(***************************************************************************)
(* Proofs about ChoresCeiling, for any number of runs, any budget, cap and *)
(* spend, and any number of deaths.                                        *)
(*                                                                         *)
(* What a run's ledger rows say is settled by three parties that never     *)
(* meet under one lock: its runner, the tick that may close it, and death. *)
(* Books says for every place of a runner what its record and its rows are *)
(* by then. What the ceiling promises is about sums: the lemmas on sums    *)
(* reduce them to one run's share, and the share an admission counts for a *)
(* run is compared with what that run has committed.                       *)
(***************************************************************************)
EXTENDS ChoresCeiling, TLAPS, SequenceTheorems, FiniteSetTheorems,
        WellFoundedInduction

Places ==
  {"due", "enter", "ledger", "records", "pend", "start", "exec", "finish",
   "row", "amend", "amended", "done", "dead"}

Admitting == {"ledger", "records", "pend"}

Types ==
  /\ pc \in [Runs -> Places]
  /\ status \in [Runs -> RunStatus \cup {Absent}]
  /\ usage \in [Runs -> Nat]
  /\ spent \in [Runs -> Nat]
  /\ rows \in [Runs -> Seq(Nat)]
  /\ window \in [Runs -> Seq(Nat)]
  /\ tickWindow \in [Runs -> Seq(Nat)]
  /\ admission \in Runs \cup {Nobody}
  /\ closing \in Runs \cup {Nobody}
  /\ crashes \in 0 .. MaxCrashes

(* The pass considers a run that is due and launches no other.             *)
PassKept ==
  /\ tickPc \in {"idle", "pass", "decide"}
  /\ considered \in Due \cup {Nobody}
  /\ considered # Nobody => pc[considered] = "due"
  /\ known \subseteq launched
  /\ launched \subseteq Due
  /\ \A r \in Runs : pc[r] = "due" => r \in Due

(* The admission lock is held by exactly the runner inside its admission.  *)
AdmissionKept == \A r \in Runs : pc[r] \in Admitting <=> admission = r

(* The tick has closed the run; its row is written or being written.       *)
Closed(r) ==
  /\ status[r] = "INTERRUPTED"
  /\ rows[r] = IF closing = r THEN <<>> ELSE <<0>>

Blank(r) == rows[r] = <<>> /\ closing # r

Open(r, as) == (status[r] = as /\ Blank(r)) \/ Closed(r)

(* The rows of a run whose runner has nothing left to do.                  *)
Booked(r) ==
  \/ rows[r] \in {<<spent[r]>>, <<0, spent[r]>>} /\ closing # r
  \/ spent[r] = 0 /\ Closed(r)

Books(r) ==
  /\ pc[r] \in {"due", "enter"} \cup Admitting =>
       status[r] \in {Absent, "ARMED"} /\ Blank(r) /\ spent[r] = 0
  /\ pc[r] = "start" => Open(r, "PENDING") /\ spent[r] = 0
  /\ pc[r] = "exec" => Open(r, "RUNNING") /\ spent[r] = 0
  /\ pc[r] = "finish" => Open(r, "RUNNING")
  /\ pc[r] = "row" => status[r] = "SUCCEEDED" /\ Blank(r)
  /\ pc[r] = "amend" => Closed(r)
  /\ pc[r] = "amended" =>
       /\ status[r] = "INTERRUPTED"
       /\ rows[r] = <<0, spent[r]>>
       /\ closing # r
  /\ pc[r] = "done" => ~Unfinished(r) /\ Booked(r)
  /\ pc[r] = "dead" => (Unfinished(r) => Blank(r))

BooksKept == \A r \in Runs : Books(r)

IInv == Types /\ PassKept /\ AdmissionKept /\ BooksKept

(* A run's books are about that run only.                                  *)
LEMMA BooksFrame ==
  ASSUME NEW r \in Runs, Books(r),
         pc'[r] = pc[r], status'[r] = status[r], rows'[r] = rows[r],
         spent'[r] = spent[r], closing' = r <=> closing = r
  PROVE  Books(r)'
  BY DEF Books, Blank, Open, Closed, Booked, Unfinished, Admitting

(* A row after a closed run's one row.                                     *)
LEMMA TwoRows == \A n \in Nat : Append(<<0>>, n) = <<0, n>>
<1> TAKE n \in Nat
<1>1. Append(<<0>>, n) \in Seq(Nat) /\ <<0, n>> \in Seq(Nat)
  OBVIOUS
<1>2. Len(Append(<<0>>, n)) = 2 /\ Len(<<0, n>>) = 2
  OBVIOUS
<1>3. \A i \in 1 .. 2 : Append(<<0>>, n)[i] = <<0, n>>[i]
  OBVIOUS
<1>q. QED
  BY <1>1, <1>2, <1>3, SeqEqual

(* The invariant holds before anybody has moved.                           *)
LEMMA InitHolds == Init => IInv
<1> SUFFICES ASSUME Init PROVE IInv
  OBVIOUS
<1> USE CeilingAssumption, NobodyAssumption
<1>1. Types
  BY DEF Init, Types, Places, NoRows, Absent, RunStatus, NotTerminal
<1>2. PassKept
  BY DEF Init, PassKept
<1>3. AdmissionKept
  BY DEF Init, AdmissionKept, Admitting
<1>4. BooksKept
  BY DEF Init, BooksKept, Books, Blank, NoRows, Absent, Admitting
<1>q. QED
  BY <1>1, <1>2, <1>3, <1>4 DEF IInv

(* No step takes a variable out of its domain.                             *)
LEMMA TypesStep == IInv /\ [Next]_vars => Types'
<1> SUFFICES ASSUME IInv, [Next]_vars PROVE Types'
  OBVIOUS
<1> USE CeilingAssumption, NobodyAssumption DEF Types, IInv
<1>s. {"PENDING", "RUNNING", "SUCCEEDED", "INTERRUPTED", "SKIPPED_CEILING"} \subseteq RunStatus
  BY DEF RunStatus, NotTerminal, RunTerminal, Failures, Refusals
<1>n. NoRows \in [Runs -> Seq(Nat)]
  BY DEF NoRows
<1>1. ASSUME NEW r \in Runs, Enter(r) PROVE Types'
  BY <1>1 DEF Enter, Goto, Places, record, pass
<1>2. ASSUME NEW r \in Runs, ReadLedger(r) PROVE Types'
  BY <1>2 DEF ReadLedger, Goto, Places, record, pass
<1>3. ASSUME NEW r \in Runs, Decide(r) PROVE Types'
  <2>0. Append(rows[r], 0) \in Seq(Nat)
    OBVIOUS
  <2>1. rows' \in [Runs -> Seq(Nat)]
    BY <1>3, <2>0 DEF Decide, AppendLedger
  <2>2. pc' \in [Runs -> Places]
    BY <1>3 DEF Decide, Goto, Places
  <2>3. status' \in [Runs -> RunStatus \cup {Absent}]
    BY <1>3, <1>s DEF Decide
  <2>q. QED
    BY <1>3, <1>n, <2>1, <2>2, <2>3 DEF Decide, pass
<1>4. ASSUME NEW r \in Runs, WritePending(r) PROVE Types'
  <2>1. status' \in [Runs -> RunStatus \cup {Absent}]
    BY <1>4, <1>s DEF WritePending
  <2>q. QED
    BY <1>4, <2>1 DEF WritePending, Goto, Places, pass
<1>5. ASSUME NEW r \in Runs, Start(r) PROVE Types'
  <2>1. status' \in [Runs -> RunStatus \cup {Absent}]
    BY <1>5, <1>s DEF Start
  <2>2. pc' \in [Runs -> Places]
    BY <1>5 DEF Start, Goto, Places
  <2>q. QED
    BY <1>5, <2>1, <2>2 DEF Start, pass
<1>6. ASSUME NEW r \in Runs, Complete(r) PROVE Types'
  BY <1>6 DEF Complete, Goto, Places, record, pass
<1>7. ASSUME NEW r \in Runs, Finish(r) PROVE Types'
  <2>1. status' \in [Runs -> RunStatus \cup {Absent}]
    BY <1>7, <1>s DEF Finish, Finished, record
  <2>2. spent[r] \in Nat
    OBVIOUS
  <2>3. usage' \in [Runs -> Nat]
    BY <1>7, <2>2 DEF Finish, Finished, record
  <2>4. pc' \in [Runs -> Places]
    BY <1>7 DEF Finish, Goto, Places
  <2>q. QED
    BY <1>7, <2>1, <2>3, <2>4 DEF Finish, pass
<1>8. ASSUME NEW r \in Runs, FinishRow(r) PROVE Types'
  <2>1. rows' \in [Runs -> Seq(Nat)]
    BY <1>8 DEF FinishRow, AppendLedger
  <2>q. QED
    BY <1>8, <2>1 DEF FinishRow, Goto, Places, record, pass
<1>9. ASSUME NEW r \in Runs, AmendRow(r) PROVE Types'
  <2>1. rows' \in [Runs -> Seq(Nat)]
    BY <1>9 DEF AmendRow, AppendLedger
  <2>q. QED
    BY <1>9, <2>1 DEF AmendRow, Goto, Places, record, pass
<1>10. ASSUME NEW r \in Runs, AmendSet(r) PROVE Types'
  BY <1>10, <1>s DEF AmendSet, Finished, Goto, Places, pass
<1>11. ASSUME NEW r \in Runs, Die(r) PROVE Types'
  <2>1. crashes' \in 0 .. MaxCrashes
    BY <1>11 DEF Die
  <2>2. pc' \in [Runs -> Places]
    BY <1>11 DEF Die, Goto, Places
  <2>q. QED
    BY <1>11, <2>1, <2>2 DEF Die, record, pass
<1>12. ASSUME NEW r \in Runs, TickClose(r) PROVE Types'
  BY <1>12, <1>s DEF TickClose, pass
<1>13. ASSUME TickCloseRow PROVE Types'
  <2>1. closing \in Runs
    BY <1>13 DEF TickCloseRow
  <2>2. rows' \in [Runs -> Seq(Nat)]
    BY <1>13, <2>1 DEF TickCloseRow, AppendLedger
  <2>q. QED
    BY <1>13, <2>2 DEF TickCloseRow, record, pass
<1>14. ASSUME TickStart PROVE Types'
  BY <1>14 DEF TickStart, record
<1>15. ASSUME NEW r \in Runs, TickReadLedger(r) PROVE Types'
  BY <1>15 DEF TickReadLedger, record
<1>16. ASSUME NEW r \in Runs, TickDecide(r) PROVE Types'
  <2>0. Append(rows[r], 0) \in Seq(Nat)
    OBVIOUS
  <2>1. rows' \in [Runs -> Seq(Nat)]
    BY <1>16, <2>0 DEF TickDecide, AppendLedger
  <2>2. pc' \in [Runs -> Places]
    BY <1>16 DEF TickDecide, Goto, Places
  <2>3. status' \in [Runs -> RunStatus \cup {Absent}]
    BY <1>16, <1>s DEF TickDecide
  <2>q. QED
    BY <1>16, <1>n, <2>1, <2>2, <2>3 DEF TickDecide
<1>17. ASSUME TickEnd PROVE Types'
  BY <1>17 DEF TickEnd, record
<1>18. CASE UNCHANGED vars
  BY <1>18 DEF vars, record, pass
<1>q. QED
  BY <1>1, <1>2, <1>3, <1>4, <1>5, <1>6, <1>7, <1>8, <1>9, <1>10, <1>11, <1>12,
     <1>13, <1>14, <1>15, <1>16, <1>17, <1>18 DEF Next, Runner, TickPass

(* Every action of a runner moves that runner from one place to another.   *)
LEMMA PassStep == IInv /\ [Next]_vars => PassKept'
<1> SUFFICES ASSUME IInv, [Next]_vars PROVE PassKept'
  OBVIOUS
<1> USE CeilingAssumption, NobodyAssumption DEF IInv, PassKept
<1>p. pc \in [Runs -> Places]
  BY DEF Types
<1>1. ASSUME NEW r \in Runs, Runner(r) \/ Die(r) PROVE PassKept'
  <2>1. UNCHANGED pass
    BY <1>1 DEF Runner, Enter, ReadLedger, Decide, WritePending, Start, Complete,
                Finish, FinishRow, AmendRow, AmendSet, Die, pass
  <2>2. PICK there \in Places : pc' = [pc EXCEPT ![r] = there] /\ there # "due"
    BY <1>1 DEF Runner, Enter, ReadLedger, Decide, WritePending, Start, Complete,
                Finish, FinishRow, AmendRow, AmendSet, Die, Goto, Places
  <2>3. pc[r] # "due"
    BY <1>1 DEF Runner, Enter, ReadLedger, Decide, WritePending, Start, Complete,
                Finish, FinishRow, AmendRow, AmendSet, Die
  <2>q. QED
    BY <1>p, <2>1, <2>2, <2>3 DEF pass
<1>2. ASSUME NEW r \in Runs, TickClose(r) PROVE PassKept'
  BY <1>2 DEF TickClose, pass
<1>3. CASE TickCloseRow
  BY <1>3 DEF TickCloseRow, pass
<1>4. CASE TickStart
  BY <1>4 DEF TickStart
<1>5. ASSUME NEW r \in Runs, TickReadLedger(r) PROVE PassKept'
  BY <1>5 DEF TickReadLedger
<1>6. ASSUME NEW r \in Runs, TickDecide(r) PROVE PassKept'
  <2>1. r \in Due
    BY <1>6 DEF TickDecide
  <2>2. considered' = Nobody /\ tickPc' = "pass"
    BY <1>6 DEF TickDecide
  <2>3. launched' \subseteq Due /\ known' \subseteq launched'
    BY <1>6, <2>1 DEF TickDecide
  <2>4. \A x \in Runs : pc'[x] = "due" => pc[x] = "due"
    BY <1>6, <1>p DEF TickDecide, Goto
  <2>q. QED
    BY <2>2, <2>3, <2>4
<1>7. CASE TickEnd
  BY <1>7 DEF TickEnd
<1>8. CASE UNCHANGED vars
  BY <1>8 DEF vars, pass
<1>q. QED
  BY <1>1, <1>2, <1>3, <1>4, <1>5, <1>6, <1>7, <1>8 DEF Next, TickPass

(* A step hands the admission lock over with the place it guards.          *)
LEMMA AdmissionStep == IInv /\ [Next]_vars => AdmissionKept'
<1> SUFFICES ASSUME IInv, [Next]_vars PROVE AdmissionKept'
  OBVIOUS
<1> USE CeilingAssumption, NobodyAssumption DEF IInv, AdmissionKept, Admitting
<1>p. pc \in [Runs -> Places]
  BY DEF Types
<1>1. ASSUME NEW r \in Runs, Enter(r) PROVE AdmissionKept'
  BY <1>1, <1>p DEF Enter, Goto
<1>2. ASSUME NEW r \in Runs, ReadLedger(r) PROVE AdmissionKept'
  BY <1>2, <1>p DEF ReadLedger, Goto
<1>3. ASSUME NEW r \in Runs, Decide(r) PROVE AdmissionKept'
  BY <1>3, <1>p DEF Decide, Goto
<1>4. ASSUME NEW r \in Runs, WritePending(r) PROVE AdmissionKept'
  BY <1>4, <1>p DEF WritePending, Goto
<1>5. ASSUME NEW r \in Runs,
             \/ Start(r) \/ Complete(r) \/ Finish(r) \/ FinishRow(r)
             \/ AmendRow(r) \/ AmendSet(r) \/ Die(r)
      PROVE  AdmissionKept'
  <2>1. admission' = admission /\ pc[r] \notin Admitting
    BY <1>5 DEF Start, Complete, Finish, FinishRow, AmendRow, AmendSet, Die
  <2>2. PICK there \in Places : pc' = [pc EXCEPT ![r] = there] /\ there \notin Admitting
    BY <1>5 DEF Start, Complete, Finish, FinishRow, AmendRow, AmendSet, Die, Goto, Places
  <2>q. QED
    BY <1>p, <2>1, <2>2
<1>6. ASSUME NEW r \in Runs, TickDecide(r) PROVE AdmissionKept'
  <2>1. admission' = admission /\ pc[r] = "due"
    BY <1>6 DEF TickDecide, PassKept
  <2>2. PICK there \in {"enter", "done"} : pc' = [pc EXCEPT ![r] = there]
    BY <1>6 DEF TickDecide, Goto
  <2>q. QED
    BY <1>p, <2>1, <2>2
<1>7. CASE \/ UNCHANGED vars
           \/ \E r \in Runs : TickClose(r) \/ TickReadLedger(r)
           \/ TickCloseRow \/ TickStart \/ TickEnd
  BY <1>7 DEF vars, TickClose, TickReadLedger, TickCloseRow, TickStart, TickEnd
<1>q. QED
  BY <1>1, <1>2, <1>3, <1>4, <1>5, <1>6, <1>7 DEF Next, Runner, TickPass

(* A step keeps the books of the run it is about, and of every other.      *)
LEMMA BooksStep == IInv /\ [Next]_vars => BooksKept'
<1> SUFFICES ASSUME IInv, [Next]_vars, NEW x \in Runs PROVE Books(x)'
  BY DEF BooksKept
<1> USE CeilingAssumption, NobodyAssumption
<1>b. Books(x)
  BY DEF IInv, BooksKept
<1>t. /\ pc \in [Runs -> Places]
      /\ status \in [Runs -> RunStatus \cup {Absent}]
      /\ spent \in [Runs -> Nat]
      /\ rows \in [Runs -> Seq(Nat)]
  BY DEF IInv, Types
<1>1. ASSUME NEW r \in Runs, Runner(r) \/ Die(r) \/ TickDecide(r), r # x PROVE Books(x)'
  <2>1. pc'[x] = pc[x]
    BY <1>1, <1>t DEF Runner, Enter, ReadLedger, Decide, WritePending, Start, Complete,
                Finish, FinishRow, AmendRow, AmendSet, Die, TickDecide, Goto
  <2>2. status'[x] = status[x]
    BY <1>1, <1>t DEF Runner, Enter, ReadLedger, Decide, WritePending, Start, Complete,
                Finish, Finished, FinishRow, AmendRow, AmendSet, Die, TickDecide, record
  <2>3. rows'[x] = rows[x]
    BY <1>1, <1>t DEF Runner, Enter, ReadLedger, Decide, WritePending, Start, Complete,
                Finish, FinishRow, AmendRow, AmendSet, Die, TickDecide, AppendLedger
  <2>4. spent'[x] = spent[x]
    BY <1>1, <1>t DEF Runner, Enter, ReadLedger, Decide, WritePending, Start, Complete,
                Finish, FinishRow, AmendRow, AmendSet, Die, TickDecide
  <2>5. closing' = closing
    BY <1>1 DEF Runner, Enter, ReadLedger, Decide, WritePending, Start, Complete,
                Finish, FinishRow, AmendRow, AmendSet, Die, TickDecide
  <2>q. QED
    BY <1>b, <2>1, <2>2, <2>3, <2>4, <2>5, BooksFrame
<1>2. CASE Enter(x) \/ ReadLedger(x)
  BY <1>2, <1>b, <1>t DEF Enter, ReadLedger, Goto, Books, Blank, record, pass, Admitting
<1>3. CASE Decide(x)
  <2>1. CASE pc' = [pc EXCEPT ![x] = "pend"] /\ UNCHANGED <<status, rows, spent, closing>>
    BY <1>3, <2>1, <1>b, <1>t DEF Decide, Books, Blank, Admitting
  <2>2. CASE /\ status' = [status EXCEPT ![x] = "SKIPPED_CEILING"]
             /\ AppendLedger(x, 0)
             /\ pc' = [pc EXCEPT ![x] = "done"]
             /\ UNCHANGED <<spent, closing>>
    <3>1. rows[x] = <<>> /\ spent[x] = 0 /\ closing # x
      BY <1>3, <1>b DEF Decide, Books, Blank, Admitting
    <3>2. rows'[x] = <<0>>
      BY <2>2, <3>1, <1>t DEF AppendLedger
    <3>q. QED
      BY <2>2, <3>1, <3>2, <1>t DEF Books, Booked, Unfinished, Admitting
  <2>q. QED
    BY <1>3, <2>1, <2>2 DEF Decide, Goto, pass
<1>4. CASE WritePending(x)
  BY <1>4, <1>b, <1>t DEF WritePending, Goto, Books, Blank, Open, pass, Admitting
<1>5. CASE Start(x)
  BY <1>5, <1>b, <1>t DEF Start, Goto, Books, Blank, Open, Closed, Booked, Unfinished, pass, Admitting
<1>6. CASE Complete(x)
  BY <1>6, <1>b, <1>t DEF Complete, Goto, Books, Blank, Open, Closed, record, pass, Admitting
<1>7. CASE Finish(x)
  BY <1>7, <1>b, <1>t DEF Finish, Finished, Goto, Books, Blank, Open, Closed, record, pass, Admitting
<1>8. CASE FinishRow(x)
  <2>1. rows[x] = <<>> /\ closing # x /\ status[x] = "SUCCEEDED"
    BY <1>8, <1>b DEF FinishRow, Books, Blank
  <2>2. rows'[x] = <<spent[x]>>
    BY <1>8, <2>1, <1>t DEF FinishRow, AppendLedger
  <2>q. QED
    BY <1>8, <2>1, <2>2, <1>t DEF FinishRow, Goto, Books, Booked, Unfinished, record, Admitting
<1>9. CASE AmendRow(x)
  <2>1. rows[x] = <<0>> /\ closing # x /\ status[x] = "INTERRUPTED"
    BY <1>9, <1>b DEF AmendRow, Books, Closed
  <2>2. rows'[x] = <<0, spent[x]>>
    <3>1. Append(<<0>>, spent[x]) = <<0, spent[x]>>
      BY <1>t, TwoRows
    <3>2. rows'[x] = Append(rows[x], spent[x])
      BY <1>9, <1>t DEF AmendRow, AppendLedger
    <3>q. QED
      BY <2>1, <3>1, <3>2
  <2>q. QED
    BY <1>9, <2>1, <2>2, <1>t DEF AmendRow, Goto, Books, record, Admitting
<1>10. CASE AmendSet(x)
  BY <1>10, <1>b, <1>t DEF AmendSet, Finished, Goto, Books, Booked, Unfinished, pass, Admitting
<1>11. CASE Die(x)
  BY <1>11, <1>b, <1>t DEF Die, Goto, Books, Blank, Open, Closed, Unfinished, record, pass, Admitting
<1>12. CASE TickDecide(x)
  <2>1. pc[x] = "due"
    BY <1>12 DEF TickDecide, IInv, PassKept
  <2>2. rows[x] = <<>> /\ spent[x] = 0 /\ closing # x /\ status[x] \in {Absent, "ARMED"}
    BY <2>1, <1>b DEF Books, Blank
  <2>3. CASE pc' = [pc EXCEPT ![x] = "enter"] /\ UNCHANGED <<status, rows, spent, closing>>
    BY <2>2, <2>3, <1>t DEF Books, Blank, Admitting
  <2>4. CASE /\ status' = [status EXCEPT ![x] = "SKIPPED_CEILING"]
             /\ AppendLedger(x, 0)
             /\ pc' = [pc EXCEPT ![x] = "done"]
             /\ UNCHANGED <<spent, closing>>
    <3>1. rows'[x] = <<0>>
      BY <2>2, <2>4, <1>t DEF AppendLedger
    <3>q. QED
      BY <2>2, <2>4, <3>1, <1>t DEF Books, Booked, Unfinished, Admitting
  <2>q. QED
    BY <1>12, <2>3, <2>4 DEF TickDecide, Goto
<1>13. ASSUME NEW r \in Runs, TickClose(r) PROVE Books(x)'
  <2>1. CASE r = x
    <3>1. Blank(x) /\ pc[x] \in {"start", "exec", "finish", "dead"}
      BY <1>13, <2>1, <1>b, <1>t
         DEF TickClose, Books, Open, Closed, Unfinished, Places, Absent, Admitting
    <3>q. QED
      BY <1>13, <2>1, <3>1, <1>b, <1>t
         DEF TickClose, Books, Blank, Open, Closed, Unfinished, Admitting
  <2>2. CASE r # x
    <3>1. status'[x] = status[x] /\ (closing' = x <=> closing = x)
      BY <1>13, <2>2, <1>t DEF TickClose
    <3>q. QED
      BY <1>13, <3>1, <1>b, BooksFrame DEF TickClose
  <2>q. QED
    BY <2>1, <2>2
<1>14. CASE TickCloseRow
  <2>1. CASE closing = x
    <3>1. closing' # x /\ UNCHANGED <<pc, status, spent>>
      BY <1>14, <2>1 DEF TickCloseRow, record
    <3>2. ASSUME rows[x] = <<>> PROVE rows'[x] = <<0>>
      BY <1>14, <2>1, <3>2, <1>t DEF TickCloseRow, AppendLedger
    <3>3. pc[x] \in {"start", "exec", "finish", "amend", "done", "dead"}
      BY <2>1, <1>b, <1>t DEF Books, Blank, Places, Admitting
    <3>4. CASE pc[x] = "dead"
      BY <2>1, <3>1, <3>4, <1>b DEF Books, Blank, Unfinished, Admitting
    <3>5. CASE pc[x] # "dead"
      <4>1. Closed(x) /\ (pc[x] \in {"start", "exec", "done"} => spent[x] = 0)
        BY <2>1, <3>3, <3>5, <1>b DEF Books, Open, Blank, Booked, Closed
      <4>2. Closed(x)'
        BY <2>1, <3>1, <3>2, <4>1 DEF Closed
      <4>q. QED
        BY <3>1, <3>3, <3>5, <4>1, <4>2 DEF Books, Open, Booked, Unfinished, Closed, Admitting
    <3>q. QED
      BY <3>4, <3>5
  <2>2. CASE closing # x
    <3>1. rows'[x] = rows[x] /\ closing' # x
      BY <1>14, <2>2, <1>t DEF TickCloseRow, AppendLedger
    <3>q. QED
      BY <1>14, <2>2, <3>1, <1>b, BooksFrame DEF TickCloseRow, record
  <2>q. QED
    BY <2>1, <2>2
<1>15. CASE \/ UNCHANGED vars
            \/ TickStart \/ TickEnd
            \/ \E r \in Runs : TickReadLedger(r)
  BY <1>15, <1>b, BooksFrame DEF vars, record, TickStart, TickEnd, TickReadLedger
<1>q. QED
  BY <1>1, <1>2, <1>3, <1>4, <1>5, <1>6, <1>7, <1>8, <1>9, <1>10, <1>11, <1>12,
     <1>13, <1>14, <1>15 DEF Next, Runner, TickPass

(* The inductive invariant of admissions, closings and deaths.             *)
THEOREM Invariance == Spec => []IInv
<1>1. Init => IInv
  BY InitHolds
<1>2. IInv /\ [Next]_vars => IInv'
  BY TypesStep, PassStep, AdmissionStep, BooksStep DEF IInv
<1>q. QED
  BY <1>1, <1>2, PTL DEF Spec

(* At most one runner is inside its admission, and it is the one that      *)
(* holds the store-wide lock; every variable keeps its domain (run.py's    *)
(* ExitStack around admit and the PENDING record).                         *)
THEOREM TypeCorrect == Spec => []TypeOK
<1>1. IInv => TypeOK
  <2> SUFFICES ASSUME IInv PROVE TypeOK
    OBVIOUS
  <2>1. {r \in Runs : pc[r] \in {"ledger", "records", "pend"}} = {admission} \ {Nobody}
    BY NobodyAssumption DEF IInv, Types, AdmissionKept, Admitting
  <2>q. QED
    BY <2>1 DEF IInv, Types, PassKept, TypeOK, Places
<1>q. QED
  BY <1>1, Invariance, PTL

(* What a run has spent, as its rows add up to it.                         *)
BookedOnce ==
  \A r \in Runs : pc[r] = "done" =>
    \/ rows[r] \in {<<spent[r]>>, <<0, spent[r]>>}
    \/ spent[r] = 0 /\ rows[r] \in {<<>>, <<0>>}

(* A run whose runner came to its end has its spend in the ledger exactly  *)
(* once: in its own row, or in the row that amends the tick's, and a run   *)
(* that the tick closed before it started has spent nothing (run.py:467-   *)
(* 499, tick.py:161-176).                                                  *)
THEOREM EndedIsBooked == Spec => []BookedOnce
<1>1. IInv => BookedOnce
  BY DEF IInv, BooksKept, Books, Booked, Closed, BookedOnce
<1>q. QED
  BY <1>1, Invariance, PTL
-----------------------------------------------------------------------------
(* Sums. SumFunction is a fold over the subsets of a domain; a statement   *)
(* about it is proved for the smallest set that would contradict it.       *)

Pick(s) == CHOOSE x \in s : TRUE

Adds(f, S, it) ==
  it = [s \in SUBSET S |-> IF s = {} THEN 0 ELSE f[Pick(s)] + it[s \ {Pick(s)}]]

SumOver(f, S) == (CHOOSE it : Adds(f, S, it))[S]

(* What the community module's SumFunction is, spelled out.                *)
LEMMA SumIsFold == \A f : SumFunction(f) = SumOver(f, DOMAIN f)
BY DEF SumFunction, SumFunctionOnSet, FoldFunctionOnSet, MapThenFoldSet, SumOver, Adds, Pick

(* Among sets of subsets of a finite set there is a smallest one.          *)
LEMMA SmallestSet ==
  ASSUME NEW S, IsFiniteSet(S), NEW Bad, Bad \subseteq SUBSET S, Bad # {}
  PROVE  \E T \in Bad : \A U \in Bad : U \subseteq T => U = T
<1>1. IsWellFoundedOn(StrictSubsetOrdering(S), SUBSET S)
  BY FS_StrictSubsetOrderingWellFounded, FS_FiniteSubsetsOfFinite, Zenon
<1>2. PICK T \in Bad : \A U \in Bad : ~ (<<U, T>> \in StrictSubsetOrdering(S))
  BY <1>1, WFMin, Zenon
<1>3. ASSUME NEW U \in Bad, U \subseteq T, U # T PROVE FALSE
  <2>1. <<U, T>> \in (SUBSET S) \X (SUBSET S)
    BY <1>2
  <2>2. <<U, T>> \in StrictSubsetOrdering(S)
    BY <2>1, <1>3 DEF StrictSubsetOrdering
  <2>q. QED
    BY <2>2, <1>2, <1>3
<1>q. QED
  BY <1>2, <1>3

(* A set that is not empty gives up an element.                            *)
LEMMA Picked == \A s : s # {} => Pick(s) \in s /\ s \ {Pick(s)} \subseteq s /\ s \ {Pick(s)} # s
BY DEF Pick

(* Two folds of one function agree where both are defined.                 *)
LEMMA FoldsAgree ==
  ASSUME NEW f, NEW A, NEW B, NEW a, NEW b, Adds(f, A, a), Adds(f, B, b),
         NEW S, IsFiniteSet(S), S \subseteq A, S \subseteq B
  PROVE  a[S] = b[S]
<1> DEFINE Bad == {T \in SUBSET S : a[T] # b[T]}
<1>1. SUFFICES ASSUME Bad # {} PROVE FALSE
  OBVIOUS
<1>2. PICK T \in Bad : \A U \in Bad : U \subseteq T => U = T
  <2>1. Bad \subseteq SUBSET S
    OBVIOUS
  <2> HIDE DEF Bad
  <2>q. QED
    BY <1>1, <2>1, SmallestSet
<1>3. T \in SUBSET A /\ T \in SUBSET B /\ a[T] # b[T]
  BY <1>2
<1>4. a[T] = IF T = {} THEN 0 ELSE f[Pick(T)] + a[T \ {Pick(T)}]
  BY <1>3 DEF Adds
<1>5. b[T] = IF T = {} THEN 0 ELSE f[Pick(T)] + b[T \ {Pick(T)}]
  BY <1>3 DEF Adds
<1>6. T # {}
  BY <1>3, <1>4, <1>5
<1>7. T \ {Pick(T)} \in SUBSET S /\ T \ {Pick(T)} \notin Bad
  BY <1>2, <1>6, Picked
<1>q. QED
  BY <1>3, <1>4, <1>5, <1>7

(* There is a fold over the subsets of every finite set.                   *)
LEMMA FoldExists ==
  ASSUME NEW f, NEW S, IsFiniteSet(S)
  PROVE  \E it : Adds(f, S, it)
<1> DEFINE Bad == {T \in SUBSET S : ~ \E it : Adds(f, T, it)}
<1>1. SUFFICES ASSUME Bad # {} PROVE FALSE
  OBVIOUS
<1>2. PICK T \in Bad : \A U \in Bad : U \subseteq T => U = T
  <2>1. Bad \subseteq SUBSET S
    OBVIOUS
  <2> HIDE DEF Bad
  <2>q. QED
    BY <1>1, <2>1, SmallestSet
<1>3. \A U \in SUBSET T : U # T => \E it : Adds(f, U, it)
  BY <1>2
<1> DEFINE Val(s) == (CHOOSE it : Adds(f, s, it))[s]
           g == [s \in SUBSET T |-> IF s = {} THEN 0 ELSE f[Pick(s)] + Val(s \ {Pick(s)})]
<1>4. ASSUME NEW u \in SUBSET T, u # T PROVE g[u] = Val(u)
  <2>1. PICK it : it = CHOOSE i : Adds(f, u, i)
    OBVIOUS
  <2>2. Adds(f, u, it)
    BY <2>1, <1>3, <1>4
  <2>3. Val(u) = it[u]
    BY <2>1
  <2>4. it[u] = IF u = {} THEN 0 ELSE f[Pick(u)] + it[u \ {Pick(u)}]
    <3>1. u \in SUBSET u
      OBVIOUS
    <3>q. QED
      BY <2>2, <3>1 DEF Adds
  <2>5. ASSUME u # {} PROVE it[u \ {Pick(u)}] = Val(u \ {Pick(u)})
    <3> DEFINE v == u \ {Pick(u)}
    <3>1. v \in SUBSET T /\ v # T /\ v \subseteq u
      BY <2>5, Picked
    <3>2. PICK jt : jt = CHOOSE i : Adds(f, v, i)
      OBVIOUS
    <3>3. Adds(f, v, jt)
      BY <3>1, <3>2, <1>3
    <3>4. IsFiniteSet(v)
      BY <3>1, <1>2, FS_Subset
    <3>5. it[v] = jt[v]
      <4> HIDE DEF v
      <4>q. QED
        BY <2>2, <3>3, <3>4, <3>1, FoldsAgree
    <3>q. QED
      BY <3>5, <3>2
  <2>q. QED
    BY <2>3, <2>4, <2>5
<1>5. g = [s \in SUBSET T |-> IF s = {} THEN 0 ELSE f[Pick(s)] + g[s \ {Pick(s)}]]
  <2>1. ASSUME NEW s \in SUBSET T, s # {} PROVE g[s \ {Pick(s)}] = Val(s \ {Pick(s)})
    <3>1. s \ {Pick(s)} \in SUBSET T /\ s \ {Pick(s)} # T
      BY <2>1, Picked
    <3>q. QED
      BY <3>1, <1>4
  <2> HIDE DEF Val
  <2>2. \A s \in SUBSET T :
          (IF s = {} THEN 0 ELSE f[Pick(s)] + Val(s \ {Pick(s)}))
            = (IF s = {} THEN 0 ELSE f[Pick(s)] + g[s \ {Pick(s)}])
    <3> HIDE DEF g
    <3>q. QED
      BY <2>1
  <2>q. QED
    BY <2>2, Zenon
<1>6. Adds(f, T, g)
  BY <1>5 DEF Adds
<1>q. QED
  BY <1>6, <1>2
(* A sum is one element and the sum of the others.                         *)
LEMMA SumStep ==
  ASSUME NEW f, NEW S, IsFiniteSet(S)
  PROVE  SumOver(f, S) = IF S = {} THEN 0 ELSE f[Pick(S)] + SumOver(f, S \ {Pick(S)})
<1>1. PICK it : it = CHOOSE i : Adds(f, S, i)
  OBVIOUS
<1>2. Adds(f, S, it) /\ SumOver(f, S) = it[S]
  BY <1>1, FoldExists DEF SumOver
<1>3. it[S] = IF S = {} THEN 0 ELSE f[Pick(S)] + it[S \ {Pick(S)}]
  <2>1. S \in SUBSET S
    OBVIOUS
  <2>q. QED
    BY <1>2, <2>1 DEF Adds
<1>4. ASSUME S # {} PROVE it[S \ {Pick(S)}] = SumOver(f, S \ {Pick(S)})
  <2> DEFINE R == S \ {Pick(S)}
  <2>1. IsFiniteSet(R) /\ R \subseteq S
    BY FS_Subset
  <2>2. PICK jt : jt = CHOOSE i : Adds(f, R, i)
    OBVIOUS
  <2>3. Adds(f, R, jt) /\ SumOver(f, R) = jt[R]
    BY <2>1, <2>2, FoldExists DEF SumOver
  <2> HIDE DEF R
  <2>4. it[R] = jt[R]
    BY <1>2, <2>1, <2>3, FoldsAgree
  <2>q. QED
    BY <2>3, <2>4 DEF R
<1>q. QED
  BY <1>2, <1>3, <1>4

(* A function that exceeds another in one place only, and there by no more *)
(* than d, has a sum that exceeds the other's by no more than d.           *)
LEMMA SumOverBound ==
  ASSUME NEW S, IsFiniteSet(S), NEW f \in [S -> Nat], NEW g \in [S -> Nat],
         NEW r, NEW d \in Nat,
         \A x \in S : g[x] <= f[x] + (IF x = r THEN d ELSE 0)
  PROVE  /\ SumOver(f, S) \in Nat
         /\ SumOver(g, S) \in Nat
         /\ SumOver(g, S) <= SumOver(f, S) + d
<1> DEFINE Good(T) ==
             /\ SumOver(f, T) \in Nat
             /\ SumOver(g, T) \in Nat
             /\ SumOver(g, T) <= SumOver(f, T) + (IF r \in T THEN d ELSE 0)
           Bad == {T \in SUBSET S : ~Good(T)}
<1>1. ASSUME Bad # {} PROVE FALSE
  <2>1. PICK T \in Bad : \A U \in Bad : U \subseteq T => U = T
    <3>1. Bad \subseteq SUBSET S
      OBVIOUS
    <3> HIDE DEF Bad
    <3>q. QED
      BY <1>1, <3>1, SmallestSet
  <2>2. T \in SUBSET S /\ ~Good(T) /\ IsFiniteSet(T)
    BY <2>1, FS_Subset
  <2>3. \A h : SumOver(h, T) = IF T = {} THEN 0 ELSE h[Pick(T)] + SumOver(h, T \ {Pick(T)})
    BY <2>2, SumStep
  <2>4. T # {}
    <3>1. ASSUME T = {} PROVE Good(T)
      BY <2>3, <3>1
    <3>q. QED
      BY <3>1, <2>2
  <2>5. Pick(T) \in T /\ Pick(T) \in S
    BY <2>2, <2>4, Picked
  <2> DEFINE p == Pick(T)
             R == T \ {p}
  <2>6. Good(R)
    <3>1. R \in SUBSET S /\ R \subseteq T /\ R # T
      BY <2>2, <2>5
    <3>q. QED
      BY <3>1, <2>1
  <2>7. /\ SumOver(f, T) = f[p] + SumOver(f, R)
        /\ SumOver(g, T) = g[p] + SumOver(g, R)
    BY <2>3, <2>4
  <2>8. f[p] \in Nat /\ g[p] \in Nat /\ g[p] <= f[p] + (IF p = r THEN d ELSE 0)
    BY <2>5
  <2>9. (r \in T <=> r \in R \/ p = r) /\ p \notin R
    BY <2>5
  <2> HIDE DEF p, R
  <2>10. Good(T)
    BY <2>6, <2>7, <2>8, <2>9
  <2>q. QED
    BY <2>2, <2>10
<1>2. Good(S)
  BY <1>1
<1>q. QED
  BY <1>2

(* The same for SumFunction.                                               *)
LEMMA SumBound ==
  ASSUME NEW S, IsFiniteSet(S), NEW f \in [S -> Nat], NEW g \in [S -> Nat],
         NEW r, NEW d \in Nat,
         \A x \in S : g[x] <= f[x] + (IF x = r THEN d ELSE 0)
  PROVE  /\ SumFunction(f) \in Nat
         /\ SumFunction(g) \in Nat
         /\ SumFunction(g) <= SumFunction(f) + d
<1>1. DOMAIN f = S /\ DOMAIN g = S
  OBVIOUS
<1>2. SumFunction(f) = SumOver(f, S) /\ SumFunction(g) = SumOver(g, S)
  BY <1>1, SumIsFold
<1>q. QED
  BY <1>2, SumOverBound

(* Nothing adds up to nothing.                                             *)
LEMMA ZeroSum ==
  ASSUME NEW S, IsFiniteSet(S)
  PROVE  SumFunction([x \in S |-> 0]) = 0
<1> DEFINE f == [x \in S |-> 0]
           Bad == {T \in SUBSET S : SumOver(f, T) # 0}
<1>1. ASSUME Bad # {} PROVE FALSE
  <2>1. PICK T \in Bad : \A U \in Bad : U \subseteq T => U = T
    <3>1. Bad \subseteq SUBSET S
      OBVIOUS
    <3> HIDE DEF Bad
    <3>q. QED
      BY <1>1, <3>1, SmallestSet
  <2>2. T \in SUBSET S /\ IsFiniteSet(T) /\ SumOver(f, T) # 0
    BY <2>1, FS_Subset
  <2>3. SumOver(f, T) =
          IF T = {} THEN 0 ELSE f[Pick(T)] + SumOver(f, T \ {Pick(T)})
    BY <2>2, SumStep
  <2>4. T # {} /\ Pick(T) \in S
    BY <2>2, <2>3, Picked
  <2>5. T \ {Pick(T)} \in SUBSET S /\ T \ {Pick(T)} \notin Bad
    BY <2>1, <2>2, <2>4, Picked
  <2>q. QED
    BY <2>2, <2>3, <2>4, <2>5
<1>2. SumOver(f, S) = 0
  BY <1>1
<1>3. DOMAIN f = S
  OBVIOUS
<1>q. QED
  BY <1>2, <1>3, SumIsFold

(* What the rows of a run add up to.                                       *)
LEMMA RowSums ==
  /\ SumFunction(<<>>) = 0
  /\ \A n \in Nat : SumFunction(<<n>>) = n /\ SumFunction(<<0, n>>) = n
<1>1. /\ IsFiniteSet({})
      /\ IsFiniteSet({1}) /\ IsFiniteSet({2})
      /\ IsFiniteSet({1, 2})
  <2>1. IsFiniteSet({1}) /\ IsFiniteSet({2})
    BY FS_Singleton
  <2>2. IsFiniteSet({1} \cup {2})
    BY <2>1, FS_AddElement
  <2>3. {1, 2} = {1} \cup {2}
    OBVIOUS
  <2>q. QED
    BY <2>1, <2>2, <2>3, FS_EmptySet
<1>2. \A f : SumOver(f, {}) = 0
  BY <1>1, SumStep
<1>3. \A f, x : x \in {1, 2} => SumOver(f, {x}) = f[x] + 0
  <2> TAKE f, x
  <2> HAVE x \in {1, 2}
  <2>1. IsFiniteSet({x}) /\ {x} # {} /\ Pick({x}) = x
    BY <1>1, Picked
  <2>2. {x} \ {Pick({x})} = {}
    BY <2>1
  <2>q. QED
    BY <2>1, <2>2, <1>2, SumStep
<1>4. \A f : SumOver(f, {1, 2}) = f[1] + (f[2] + 0) \/ SumOver(f, {1, 2}) = f[2] + (f[1] + 0)
  <2> TAKE f
  <2>1. Pick({1, 2}) = 1 \/ Pick({1, 2}) = 2
    BY Picked
  <2>2. CASE Pick({1, 2}) = 1
    <3>1. {1, 2} \ {1} = {2}
      OBVIOUS
    <3>q. QED
      BY <2>2, <3>1, <1>1, <1>3, SumStep
  <2>3. CASE Pick({1, 2}) = 2
    <3>1. {1, 2} \ {2} = {1}
      OBVIOUS
    <3>q. QED
      BY <2>3, <3>1, <1>1, <1>3, SumStep
  <2>q. QED
    BY <2>1, <2>2, <2>3
<1>5. SumFunction(<<>>) = 0
  <2>1. DOMAIN <<>> = {}
    OBVIOUS
  <2>q. QED
    BY <2>1, <1>2, SumIsFold
<1>6. ASSUME NEW n \in Nat PROVE SumFunction(<<n>>) = n
  <2>1. DOMAIN <<n>> = {1} /\ <<n>>[1] = n
    OBVIOUS
  <2>q. QED
    BY <2>1, <1>3, SumIsFold
<1>7. ASSUME NEW n \in Nat PROVE SumFunction(<<0, n>>) = n
  <2>1. DOMAIN <<0, n>> = {1, 2} /\ <<0, n>>[1] = 0 /\ <<0, n>>[2] = n
    OBVIOUS
  <2>q. QED
    BY <2>1, <1>4, SumIsFold
<1>q. QED
  BY <1>5, <1>6, <1>7
-----------------------------------------------------------------------------
(* What has been committed of the ceiling.                                 *)

(* While the tick has closed no run, a run's row is what it has spent, a   *)
(* run that is not finished has none, and the record of any other carries  *)
(* its whole spend.                                                        *)
Straight(r) ==
  /\ rows[r] \in {<<>>, <<spent[r]>>}
  /\ Unfinished(r) => rows[r] = <<>>
  /\ ~Unfinished(r) => usage[r] = spent[r]
  /\ spent[r] \in Spends \cup {0}

(* The run the tick is closing is closed, and what has no record has left  *)
(* nothing behind.                                                         *)
ClosingKept == closing # Nobody => status[closing] = "INTERRUPTED"

Unseen(r) == usage[r] = 0 /\ rows[r] = <<>>

UnseenKept == \A r \in Runs : status[r] = Absent => Unseen(r)

(* Only armed runs have a record before they are launched.                 *)
ArmedKept ==
  /\ known \subseteq Armed
  /\ \A r \in Runs : status[r] = "ARMED" => r \in Armed

(* A row that was read is there.                                           *)
TickReadKept == \A r \in Runs : rows[r] = <<>> => tickWindow[r] = <<>>

StraightKept ==
  NoneClosed =>
    \A r \in Runs : Straight(r) /\ window[r] \in {<<>>, rows[r]}

(* So do the row and the record of a run that the pass under way has       *)
(* launched, whatever earlier passes closed.                               *)
LaunchedKept ==
  /\ tickPc # "idle" => closing = Nobody
  /\ launched # {} => tickPc # "idle"
  /\ \A r \in launched \ Armed :
       /\ Straight(r)
       /\ status[r] # "INTERRUPTED"
       /\ tickWindow[r] \in {<<>>, rows[r]}

(* What an admitted run may still come to: its budget, and once it is      *)
(* finished what it has spent.                                             *)
Committed(r) ==
  IF Unfinished(r) \/ pc[r] = "pend" THEN Budget ELSE spent[r]

CommittedFits == NoneClosed => Total([r \in Runs |-> Committed(r)]) <= Cap

CInv ==
  /\ IInv
  /\ ClosingKept /\ UnseenKept /\ ArmedKept /\ TickReadKept /\ StraightKept
  /\ LaunchedKept

(* The ledger is only ever appended to.                                    *)
LEMMA RowsGrow ==
  IInv /\ [Next]_vars =>
    \A x \in Runs : rows'[x] = rows[x] \/ \E n \in Nat : rows'[x] = Append(rows[x], n)
<1> SUFFICES ASSUME IInv, [Next]_vars, NEW x \in Runs
             PROVE  rows'[x] = rows[x] \/ \E n \in Nat : rows'[x] = Append(rows[x], n)
  OBVIOUS
<1>t. rows \in [Runs -> Seq(Nat)] /\ spent \in [Runs -> Nat]
  BY DEF IInv, Types
<1>1. ASSUME NEW r \in Runs, NEW n \in Nat, AppendLedger(r, n)
      PROVE  rows'[x] = rows[x] \/ rows'[x] = Append(rows[x], n)
  BY <1>1, <1>t DEF AppendLedger
<1>2. \/ rows' = rows
      \/ \E r \in Runs, n \in Nat : AppendLedger(r, n)
  <2>1. ASSUME NEW r \in Runs, Runner(r) \/ Die(r) \/ TickClose(r)
        PROVE  rows' = rows \/ \E n \in Nat : AppendLedger(r, n)
    BY <2>1, <1>t DEF Runner, Enter, ReadLedger, Decide, WritePending, Start, Complete,
                 Finish, FinishRow, AmendRow, AmendSet, Die, TickClose
  <2>2. CASE TickCloseRow
    <3>1. closing \in Runs
      BY <2>2 DEF IInv, Types, TickCloseRow
    <3>q. QED
      BY <2>2, <3>1 DEF TickCloseRow
  <2>3. CASE TickPass
    BY <2>3 DEF TickPass, TickStart, TickReadLedger, TickDecide, TickEnd
  <2>4. CASE UNCHANGED vars
    BY <2>4 DEF vars
  <2>q. QED
    BY <2>1, <2>2, <2>3, <2>4 DEF Next
<1>q. QED
  BY <1>1, <1>2

(* Nobody reopens a run the tick closed, except the runner that amends it. *)
LEMMA StaysClosed == IInv /\ [Next]_vars /\ NoneClosed' => NoneClosed
<1> SUFFICES ASSUME IInv, [Next]_vars, NoneClosed', NEW x \in Runs
             PROVE  status[x] # "INTERRUPTED" /\ Len(rows[x]) <= 1
  BY DEF NoneClosed
<1> USE CeilingAssumption, NobodyAssumption
<1>t. /\ pc \in [Runs -> Places]
      /\ status \in [Runs -> RunStatus \cup {Absent}]
      /\ rows \in [Runs -> Seq(Nat)]
      /\ BooksKept
  BY DEF IInv, Types
<1>1. Len(rows[x]) <= 1
  <2>1. rows[x] \in Seq(Nat) /\ Len(rows'[x]) <= 1
    BY <1>t DEF NoneClosed
  <2>q. QED
    BY <2>1, RowsGrow
<1>2. ASSUME status[x] = "INTERRUPTED" PROVE FALSE
  <2>1. status'[x] # "INTERRUPTED"
    BY DEF NoneClosed
  <2>2. ASSUME NEW r \in Runs, Runner(r) \/ Die(r) \/ TickClose(r) \/ TickDecide(r)
        PROVE  FALSE
    <3>1. status' = [status EXCEPT ![r] = status'[r]] \/ status' = status
      BY <2>2, <1>t DEF Runner, Enter, ReadLedger, Decide, WritePending, Start, Complete,
                Finish, Finished, FinishRow, AmendRow, AmendSet, Die, TickClose,
                TickDecide, record
    <3>2. r = x
      BY <3>1, <2>1, <1>2, <1>t
    <3>3. Books(x)
      BY <1>t DEF BooksKept
    <3>4. AmendSet(x)
      <4>1. ~ (Enter(x) \/ ReadLedger(x) \/ Complete(x) \/ FinishRow(x) \/ AmendRow(x) \/ Die(x))
        BY <2>1, <1>2 DEF Enter, ReadLedger, Complete, FinishRow, AmendRow, Die, record
      <4>2. ~ (Decide(x) \/ WritePending(x))
        BY <1>2, <3>3 DEF Decide, WritePending, Books, Admitting, Absent
      <4>3. ~ (Start(x) \/ Finish(x))
        BY <1>2, <2>1 DEF Start, Finish, record
      <4>4. ~ TickClose(x)
        BY <1>2 DEF TickClose, Unfinished
      <4>5. ~ TickDecide(x)
        <5>1. TickDecide(x) => pc[x] = "due"
          BY DEF TickDecide, IInv, PassKept
        <5>q. QED
          BY <5>1, <1>2, <3>3 DEF Books, Admitting, Absent
      <4>q. QED
        BY <2>2, <3>2, <4>1, <4>2, <4>3, <4>4, <4>5 DEF Runner
    <3>5. rows'[x] = <<0, spent[x]>>
      BY <3>3, <3>4 DEF AmendSet, Books
    <3>6. Len(rows'[x]) = 2
      BY <3>5
    <3>q. QED
      BY <3>6 DEF NoneClosed
  <2>3. CASE TickCloseRow \/ TickStart \/ TickEnd \/ UNCHANGED vars
    BY <2>3, <2>1, <1>2 DEF TickCloseRow, TickStart, TickEnd, vars, record
  <2>4. CASE \E r \in Runs : TickReadLedger(r)
    BY <2>4, <2>1, <1>2 DEF TickReadLedger, record
  <2>q. QED
    BY <2>2, <2>3, <2>4 DEF Next, TickPass
<1>q. QED
  BY <1>1, <1>2

(* What the books add holds before anybody has moved.                      *)
LEMMA CommittedInit == Init => CInv /\ CommittedFits
<1> SUFFICES ASSUME Init PROVE CInv /\ CommittedFits
  OBVIOUS
<1> USE CeilingAssumption, NobodyAssumption
<1>1. IInv
  BY InitHolds
<1>2. ClosingKept
  BY DEF Init, ClosingKept
<1>3. UnseenKept
  BY DEF Init, UnseenKept, Unseen, NoRows
<1>4. ArmedKept
  BY DEF Init, ArmedKept, Absent
<1>5. TickReadKept
  BY DEF Init, TickReadKept, NoRows
<1>6. StraightKept
  BY DEF Init, StraightKept, Straight, Unfinished, NoRows, Absent
<1>8. LaunchedKept
  BY DEF Init, LaunchedKept
<1>7. CommittedFits
  <2>1. \A r \in Runs : Committed(r) = 0
    BY DEF Init, Committed, Unfinished, Absent
  <2> DEFINE f == [r \in Runs |-> 0]
  <2>2. [r \in Runs |-> Committed(r)] = f
    BY <2>1
  <2>3. Total(f) = 0
    BY ZeroSum DEF Total
  <2>q. QED
    BY <2>2, <2>3 DEF CommittedFits
<1>q. QED
  BY <1>1, <1>2, <1>3, <1>4, <1>5, <1>6, <1>7, <1>8 DEF CInv
(* The run being closed stays closed until its row is written.             *)
LEMMA ClosingStep == CInv /\ [Next]_vars => ClosingKept'
<1> SUFFICES ASSUME CInv, [Next]_vars PROVE ClosingKept'
  OBVIOUS
<1> USE CeilingAssumption, NobodyAssumption DEF CInv
<1>t. /\ status \in [Runs -> RunStatus \cup {Absent}]
      /\ closing \in Runs \cup {Nobody}
      /\ \A r \in Runs : Books(r)
      /\ PassKept
  BY DEF IInv, Types, BooksKept
<1>1. ASSUME NEW r \in Runs,
             \/ Enter(r) \/ ReadLedger(r) \/ Complete(r) \/ FinishRow(r)
             \/ AmendRow(r) \/ Die(r) \/ TickReadLedger(r)
      PROVE  ClosingKept'
  BY <1>1 DEF ClosingKept, Enter, ReadLedger, Complete, FinishRow, AmendRow, Die,
              TickReadLedger, record
<1>2. ASSUME NEW r \in Runs,
             \/ Decide(r) \/ WritePending(r) \/ Start(r) \/ Finish(r)
             \/ AmendSet(r) \/ TickDecide(r)
      PROVE  ClosingKept'
  <2>1. closing' = closing /\ \A x \in Runs : x # r => status'[x] = status[x]
    BY <1>2, <1>t DEF Decide, WritePending, Start, Finish, Finished, AmendSet, TickDecide,
                 record
  <2>2. closing = r => status'[r] = status[r]
    <3>1. CASE Start(r) \/ Finish(r)
      BY <3>1, <1>t DEF Start, Finish, Finished, record, ClosingKept
    <3>2. CASE Decide(r) \/ WritePending(r) \/ AmendSet(r) \/ TickDecide(r)
      <4>1. pc[r] \in {"due", "records", "pend", "amended"}
        BY <3>2, <1>t DEF Decide, WritePending, AmendSet, TickDecide, PassKept
      <4>q. QED
        BY <4>1, <1>t DEF Books, Blank, Admitting
    <3>q. QED
      BY <1>2, <3>1, <3>2
  <2>q. QED
    BY <2>1, <2>2, <1>t DEF ClosingKept
<1>3. ASSUME NEW r \in Runs, TickClose(r) PROVE ClosingKept'
  BY <1>3, <1>t DEF TickClose, ClosingKept
<1>4. CASE TickCloseRow \/ TickStart \/ TickEnd \/ UNCHANGED vars
  BY <1>4 DEF TickCloseRow, TickStart, TickEnd, vars, record, ClosingKept
<1>q. QED
  BY <1>1, <1>2, <1>3, <1>4 DEF Next, Runner, TickPass

(* A run without a record has neither usage nor a row.                     *)
LEMMA UnseenStep == CInv /\ [Next]_vars => UnseenKept'
<1> SUFFICES ASSUME CInv, [Next]_vars, NEW x \in Runs, status'[x] = Absent
             PROVE  Unseen(x)'
  BY DEF UnseenKept
<1> USE CeilingAssumption, NobodyAssumption DEF CInv
<1>t. /\ status \in [Runs -> RunStatus \cup {Absent}]
      /\ usage \in [Runs -> Nat]
      /\ rows \in [Runs -> Seq(Nat)]
      /\ closing \in Runs \cup {Nobody}
      /\ \A r \in Runs : Books(r)
      /\ PassKept
  BY DEF IInv, Types, BooksKept
<1>1. ASSUME NEW r \in Runs,
             \/ Decide(r) \/ WritePending(r) \/ Start(r) \/ Finish(r)
             \/ AmendSet(r) \/ TickDecide(r) \/ TickClose(r)
      PROVE  Unseen(x)'
  <2>1. CASE r # x
    <3>1. status'[x] = status[x] /\ usage'[x] = usage[x] /\ rows'[x] = rows[x]
      BY <1>1, <2>1, <1>t DEF Decide, WritePending, Start, Finish, Finished, AmendSet,
                     TickDecide, TickClose, AppendLedger, record
    <3>q. QED
      BY <3>1 DEF UnseenKept, Unseen
  <2>2. CASE r = x
    <3>1. status'[x] = status[x] /\ UNCHANGED <<usage, rows>>
      BY <1>1, <2>2, <1>t DEF Decide, WritePending, Start, Finish, Finished, AmendSet,
                     TickDecide, TickClose, record, Absent
    <3>q. QED
      BY <3>1 DEF UnseenKept, Unseen
  <2>q. QED
    BY <2>1, <2>2
<1>2. ASSUME NEW r \in Runs,
             Enter(r) \/ ReadLedger(r) \/ Complete(r) \/ Die(r) \/ TickReadLedger(r)
      PROVE  Unseen(x)'
  BY <1>2 DEF Enter, ReadLedger, Complete, Die, TickReadLedger, record, UnseenKept, Unseen
<1>3. ASSUME NEW r \in Runs, FinishRow(r) \/ AmendRow(r) PROVE Unseen(x)'
  <2>1. status[r] # Absent
    BY <1>3, <1>t DEF FinishRow, AmendRow, Books, Closed, Absent
  <2>2. UNCHANGED <<status, usage>>
    BY <1>3 DEF FinishRow, AmendRow, record
  <2>3. r # x => rows'[x] = rows[x]
    BY <1>3, <1>t DEF FinishRow, AmendRow, AppendLedger
  <2>q. QED
    BY <2>1, <2>2, <2>3 DEF UnseenKept, Unseen
<1>4. CASE TickCloseRow
  <2>1. status[closing] # Absent
    BY <1>4 DEF TickCloseRow, ClosingKept, Absent
  <2>2. UNCHANGED <<status, usage>>
    BY <1>4 DEF TickCloseRow, record
  <2>3. closing # x => rows'[x] = rows[x]
    BY <1>4, <1>t DEF TickCloseRow, AppendLedger
  <2>q. QED
    BY <2>1, <2>2, <2>3 DEF UnseenKept, Unseen
<1>5. CASE TickStart \/ TickEnd \/ UNCHANGED vars
  BY <1>5 DEF TickStart, TickEnd, vars, record, UnseenKept, Unseen
<1>q. QED
  BY <1>1, <1>2, <1>3, <1>4, <1>5 DEF Next, Runner, TickPass

(* No run becomes armed, and only armed runs are launched with a record.   *)
LEMMA ArmedStep == CInv /\ [Next]_vars => ArmedKept'
<1> SUFFICES ASSUME CInv, [Next]_vars PROVE ArmedKept'
  OBVIOUS
<1> USE CeilingAssumption, NobodyAssumption DEF CInv
<1>t. /\ status \in [Runs -> RunStatus \cup {Absent}]
      /\ \A r \in Runs : Books(r)
      /\ PassKept
  BY DEF IInv, Types, BooksKept
<1>1. \A x \in Runs : status'[x] = "ARMED" => x \in Armed
  <2> SUFFICES ASSUME NEW x \in Runs, status'[x] = "ARMED" PROVE status[x] = "ARMED"
    BY DEF ArmedKept
  <2>1. ASSUME NEW r \in Runs, Runner(r) \/ Die(r) \/ TickClose(r) PROVE status[x] = "ARMED"
    BY <2>1, <1>t DEF Runner, Enter, ReadLedger, Decide, WritePending, Start, Complete,
                 Finish, Finished, FinishRow, AmendRow, AmendSet, Die, TickClose, record
  <2>2. CASE TickCloseRow \/ TickPass \/ UNCHANGED vars
    BY <2>2, <1>t DEF TickCloseRow, TickPass, TickStart, TickReadLedger, TickDecide, TickEnd,
                 vars, record
  <2>q. QED
    BY <2>1, <2>2 DEF Next
<1>2. known' \subseteq Armed
  <2>1. ASSUME NEW r \in Runs, TickDecide(r) PROVE known' \subseteq Armed
    <3>1. pc[r] = "due"
      BY <2>1, <1>t DEF TickDecide, PassKept
    <3>2. status[r] # Absent => r \in Armed
      BY <3>1, <1>t DEF Books, Admitting, ArmedKept
    <3>q. QED
      BY <2>1, <3>2 DEF TickDecide, ArmedKept
  <2>2. ASSUME NEW r \in Runs, Runner(r) \/ Die(r) \/ TickClose(r) \/ TickReadLedger(r)
        PROVE  known' \subseteq Armed
    BY <2>2 DEF Runner, Enter, ReadLedger, Decide, WritePending, Start, Complete,
                Finish, FinishRow, AmendRow, AmendSet, Die, TickClose, TickReadLedger, pass,
                ArmedKept
  <2>3. CASE TickCloseRow \/ TickStart \/ TickEnd \/ UNCHANGED vars
    BY <2>3 DEF TickCloseRow, TickStart, TickEnd, vars, pass, ArmedKept
  <2>q. QED
    BY <2>1, <2>2, <2>3 DEF Next, TickPass
<1>q. QED
  BY <1>1, <1>2 DEF ArmedKept

(* The rows a pass has read change only when it reads them again, or is    *)
(* done with them.                                                         *)
LEMMA TickWindowMoves ==
  [Next]_vars =>
    \/ tickWindow' = tickWindow
    \/ tickWindow' = rows /\ rows' = rows
    \/ tickWindow' = NoRows
<1> SUFFICES ASSUME [Next]_vars
             PROVE  \/ tickWindow' = tickWindow
                    \/ tickWindow' = rows /\ rows' = rows
                    \/ tickWindow' = NoRows
  OBVIOUS
<1>1. ASSUME NEW r \in Runs, Runner(r) \/ Die(r) \/ TickClose(r)
      PROVE  tickWindow' = tickWindow
  BY <1>1 DEF Runner, Enter, ReadLedger, Decide, WritePending, Start, Complete,
              Finish, FinishRow, AmendRow, AmendSet, Die, TickClose, pass
<1>2. CASE TickCloseRow \/ TickPass \/ UNCHANGED vars
  BY <1>2 DEF TickCloseRow, TickPass, TickStart, TickReadLedger, TickDecide, TickEnd,
              vars, pass
<1>q. QED
  BY <1>1, <1>2 DEF Next

(* A run whose ledger is still empty was read as empty.                    *)
LEMMA TickReadStep == CInv /\ [Next]_vars => TickReadKept'
<1> SUFFICES ASSUME CInv, [Next]_vars, NEW x \in Runs, rows'[x] = <<>>
             PROVE  tickWindow'[x] = <<>>
  BY DEF TickReadKept
<1> USE DEF CInv
<1>t. rows \in [Runs -> Seq(Nat)] /\ tickWindow \in [Runs -> Seq(Nat)]
  BY DEF IInv, Types
<1>1. rows[x] = <<>> /\ tickWindow[x] = <<>>
  <2>1. ASSUME NEW n \in Nat PROVE Append(rows[x], n) # <<>>
    <3>1. rows[x] \in Seq(Nat)
      BY <1>t
    <3>2. Len(Append(rows[x], n)) = Len(rows[x]) + 1 /\ Len(rows[x]) \in Nat
      BY <3>1
    <3>3. Len(<<>>) = 0 /\ Len(Append(rows[x], n)) # 0
      BY <3>2
    <3>q. QED
      BY <3>3, Zenon
  <2>q. QED
    BY <2>1, RowsGrow DEF TickReadKept
<1>q. QED
  BY <1>1, TickWindowMoves DEF NoRows

(* The row and the record of a run that the tick does not close go on      *)
(* agreeing.                                                               *)
LEMMA StraightStays ==
  ASSUME CInv, [Next]_vars, NEW x \in Runs, Straight(x),
         status[x] # "INTERRUPTED", status'[x] # "INTERRUPTED"
  PROVE  Straight(x)'
<1> USE CeilingAssumption, NobodyAssumption DEF CInv
<1>t. /\ pc \in [Runs -> Places]
      /\ status \in [Runs -> RunStatus \cup {Absent}]
      /\ usage \in [Runs -> Nat]
      /\ spent \in [Runs -> Nat]
      /\ rows \in [Runs -> Seq(Nat)]
      /\ closing \in Runs \cup {Nobody}
      /\ \A r \in Runs : Books(r)
      /\ PassKept
  BY DEF IInv, Types, BooksKept
<1>o. status[x] # "INTERRUPTED" /\ status'[x] # "INTERRUPTED" /\ closing # x
  BY DEF ClosingKept
<1>s. Straight(x)
  OBVIOUS
<1>f. ASSUME status'[x] = status[x], usage'[x] = usage[x],
             spent'[x] = spent[x], rows'[x] = rows[x]
      PROVE  Straight(x)'
  BY <1>f, <1>s DEF Straight, Unfinished
<1>1. ASSUME NEW r \in Runs, Runner(r) \/ Die(r) \/ TickDecide(r) \/ TickClose(r), r # x
      PROVE  Straight(x)'
  <2>1. status'[x] = status[x] /\ usage'[x] = usage[x]
    BY <1>1, <1>t DEF Runner, Enter, ReadLedger, Decide, WritePending, Start, Complete,
              Finish, Finished, FinishRow, AmendRow, AmendSet, Die, TickDecide, TickClose,
              record
  <2>2. spent'[x] = spent[x]
    BY <1>1, <1>t DEF Runner, Enter, ReadLedger, Decide, WritePending, Start, Complete,
              Finish, FinishRow, AmendRow, AmendSet, Die, TickDecide, TickClose
  <2>3. rows'[x] = rows[x]
    BY <1>1, <1>t DEF Runner, Enter, ReadLedger, Decide, WritePending, Start, Complete,
              Finish, FinishRow, AmendRow, AmendSet, Die, TickDecide, TickClose,
              AppendLedger
  <2>q. QED
    BY <2>1, <2>2, <2>3, <1>f
<1>2. CASE Enter(x) \/ ReadLedger(x) \/ Die(x)
  BY <1>2, <1>f DEF Enter, ReadLedger, Die, record
<1>3. CASE Decide(x) \/ TickDecide(x)
  <2>1. rows[x] = <<>> /\ spent[x] = 0 /\ ~Unfinished(x)
    <3>1. pc[x] \in {"due", "records"}
      BY <1>3, <1>t DEF Decide, TickDecide, PassKept
    <3>q. QED
      BY <3>1, <1>t DEF Books, Blank, Unfinished, Admitting, Absent
  <2>2. CASE UNCHANGED <<status, rows>>
    BY <1>3, <2>2, <1>f DEF Decide, TickDecide
  <2>3. CASE status' = [status EXCEPT ![x] = "SKIPPED_CEILING"] /\ AppendLedger(x, 0)
    <3>1. rows'[x] = <<0>> /\ status'[x] = "SKIPPED_CEILING"
      BY <2>1, <2>3, <1>t DEF AppendLedger
    <3>2. UNCHANGED <<usage, spent>>
      BY <1>3 DEF Decide, TickDecide
    <3>q. QED
      BY <2>1, <3>1, <3>2, <1>s DEF Straight, Unfinished
  <2>q. QED
    BY <1>3, <2>2, <2>3 DEF Decide, TickDecide
<1>4. CASE WritePending(x)
  <2>1. rows[x] = <<>> /\ status'[x] = "PENDING" /\ UNCHANGED <<spent, rows>>
    BY <1>4, <1>t DEF WritePending, Books, Blank, Admitting
  <2>q. QED
    BY <2>1, <1>s DEF Straight, Unfinished
<1>5. CASE Start(x)
  <2>1. CASE status[x] = "PENDING"
    <3>1. status'[x] = "RUNNING" /\ UNCHANGED <<spent, rows>>
      BY <1>5, <2>1, <1>t DEF Start
    <3>q. QED
      BY <2>1, <3>1, <1>s DEF Straight, Unfinished
  <2>2. CASE status[x] # "PENDING"
    BY <1>5, <2>2, <1>f DEF Start
  <2>q. QED
    BY <2>1, <2>2
<1>6. CASE Complete(x)
  <2>1. status'[x] = "RUNNING" /\ rows'[x] = <<>>
    BY <1>6, <1>t, <1>o DEF Complete, record, Books, Open, Closed, Blank
  <2>2. spent'[x] \in Spends
    BY <1>6, <1>t DEF Complete
  <2>q. QED
    BY <2>1, <2>2 DEF Straight, Unfinished
<1>7. CASE Finish(x)
  <2>1. CASE status[x] = "RUNNING"
    <3>1. status'[x] = "SUCCEEDED" /\ usage'[x] = spent[x] /\ UNCHANGED <<spent, rows>>
      BY <1>7, <2>1, <1>t DEF Finish, Finished
    <3>q. QED
      BY <3>1, <1>s DEF Straight, Unfinished
  <2>2. CASE status[x] # "RUNNING"
    BY <1>7, <2>2, <1>f DEF Finish, record
  <2>q. QED
    BY <2>1, <2>2
<1>8. CASE FinishRow(x)
  <2>1. rows[x] = <<>> /\ status[x] = "SUCCEEDED" /\ UNCHANGED <<status, usage, spent>>
    BY <1>8, <1>t DEF FinishRow, Books, Blank, record
  <2>2. rows'[x] = <<spent[x]>>
    BY <1>8, <2>1, <1>t DEF FinishRow, AppendLedger
  <2>q. QED
    BY <2>1, <2>2, <1>s DEF Straight, Unfinished
<1>9. CASE AmendRow(x) \/ AmendSet(x)
  BY <1>9, <1>t, <1>o DEF AmendRow, AmendSet, Books, Closed
<1>10. CASE TickDecide(x) \/ TickClose(x)
  BY <1>10, <1>3, <1>o, <1>t DEF TickClose
<1>11. CASE TickCloseRow
  <2>1. rows'[x] = rows[x]
    BY <1>11, <1>o, <1>t DEF TickCloseRow, AppendLedger
  <2>q. QED
    BY <1>11, <2>1, <1>f DEF TickCloseRow, record
<1>12. CASE \/ TickStart \/ TickEnd \/ UNCHANGED vars
            \/ \E r \in Runs : TickReadLedger(r)
  BY <1>12, <1>f DEF TickStart, TickEnd, TickReadLedger, vars, record
<1>q. QED
  BY <1>1, <1>2, <1>3, <1>4, <1>5, <1>6, <1>7, <1>8, <1>9, <1>10, <1>11, <1>12
     DEF Next, Runner, TickPass

(* A row that was there when it was read is the run's row.                 *)
LEMMA OneRow ==
  ASSUME CInv, [Next]_vars, NEW x \in Runs, Len(rows'[x]) <= 1
  PROVE  rows'[x] = rows[x] \/ rows[x] = <<>>
<1>1. ASSUME NEW n \in Nat, rows'[x] = Append(rows[x], n) PROVE rows[x] = <<>>
  <2>1. rows[x] \in Seq(Nat)
    BY DEF CInv, IInv, Types
  <2>2. Len(Append(rows[x], n)) <= 1
    BY <1>1
  <2>q. QED
    BY <2>1, <2>2
<1>q. QED
  BY <1>1, RowsGrow DEF CInv

(* While the tick closes nothing, every run's row and record agree.        *)
LEMMA StraightStep == CInv /\ [Next]_vars => StraightKept'
<1> SUFFICES ASSUME CInv, [Next]_vars, NoneClosed', NEW x \in Runs
             PROVE  Straight(x)' /\ window'[x] \in {<<>>, rows'[x]}
  BY DEF StraightKept
<1>n. NoneClosed
  BY StaysClosed DEF CInv
<1>s. Straight(x) /\ window[x] \in {<<>>, rows[x]}
  BY <1>n DEF CInv, StraightKept
<1>1. window'[x] \in {<<>>, rows'[x]}
  <2>1. rows'[x] = rows[x] \/ rows[x] = <<>>
    BY OneRow DEF NoneClosed
  <2>2. \/ window' = window
        \/ window' = rows /\ rows' = rows
        \/ window' = NoRows
    <3>1. ASSUME NEW r \in Runs, Runner(r) \/ Die(r) \/ TickClose(r)
          PROVE  \/ window' = window
                 \/ window' = rows /\ rows' = rows
                 \/ window' = NoRows
      BY <3>1 DEF Runner, Enter, ReadLedger, Decide, WritePending, Start, Complete,
                  Finish, FinishRow, AmendRow, AmendSet, Die, TickClose
    <3>2. CASE TickCloseRow \/ TickPass \/ UNCHANGED vars
      BY <3>2 DEF TickCloseRow, TickPass, TickStart, TickReadLedger, TickDecide, TickEnd,
                  vars
    <3>q. QED
      BY <3>1, <3>2 DEF Next
  <2>q. QED
    BY <1>s, <2>1, <2>2 DEF NoRows
<1>2. Straight(x)'
  BY <1>n, <1>s, StraightStays DEF NoneClosed
<1>q. QED
  BY <1>1, <1>2

(* In every later admission of its pass a launched run's row and record    *)
(* agree: a pass closes nothing.                                           *)
LEMMA LaunchedStep == CInv /\ [Next]_vars => LaunchedKept'
<1> SUFFICES ASSUME CInv, [Next]_vars PROVE LaunchedKept'
  OBVIOUS
<1> USE CeilingAssumption, NobodyAssumption DEF CInv
<1>t. /\ status \in [Runs -> RunStatus \cup {Absent}]
      /\ usage \in [Runs -> Nat]
      /\ spent \in [Runs -> Nat]
      /\ rows \in [Runs -> Seq(Nat)]
      /\ launched \subseteq Due /\ Due \subseteq Runs
      /\ \A r \in Runs : Books(r)
      /\ PassKept
  BY DEF IInv, Types, BooksKept, PassKept
<1>l. (tickPc # "idle" => closing = Nobody) /\ (launched # {} => tickPc # "idle")
  BY DEF LaunchedKept
<1>1. (tickPc' # "idle" => closing' = Nobody) /\ (launched' # {} => tickPc' # "idle")
  <2>1. ASSUME NEW r \in Runs, Runner(r) \/ Die(r)
        PROVE  tickPc' = tickPc /\ closing' = closing /\ launched' = launched
    BY <2>1 DEF Runner, Enter, ReadLedger, Decide, WritePending, Start, Complete,
                Finish, FinishRow, AmendRow, AmendSet, Die, pass
  <2>2. ASSUME NEW r \in Runs, TickClose(r)
        PROVE  tickPc' = "idle" /\ launched' = {}
    BY <2>2, <1>l DEF TickClose, pass
  <2>3. CASE TickCloseRow \/ UNCHANGED vars
    BY <2>3, <1>l DEF TickCloseRow, vars, pass
  <2>4. CASE TickPass
    <3>1. CASE TickStart \/ TickEnd
      BY <3>1, <1>l DEF TickStart, TickEnd
    <3>2. ASSUME NEW r \in Runs, TickReadLedger(r) \/ TickDecide(r)
          PROVE  tickPc # "idle" /\ tickPc' # "idle" /\ closing' = closing
      BY <3>2 DEF TickReadLedger, TickDecide
    <3>q. QED
      BY <2>4, <3>1, <3>2, <1>l DEF TickPass
  <2>q. QED
    BY <2>1, <2>2, <2>3, <2>4, <1>l DEF Next
<1>2. ASSUME NEW x \in launched' \ Armed
      PROVE  Straight(x)' /\ status'[x] # "INTERRUPTED" /\ tickWindow'[x] \in {<<>>, rows'[x]}
  <2>1. CASE x \in launched
    <3>1. /\ x \in Runs /\ Straight(x) /\ status[x] # "INTERRUPTED"
          /\ tickWindow[x] \in {<<>>, rows[x]} /\ tickPc # "idle" /\ closing = Nobody
      BY <1>2, <2>1, <1>t DEF LaunchedKept
    <3>2. status'[x] # "INTERRUPTED"
      <4>1. ASSUME NEW r \in Runs, Runner(r) PROVE status'[x] # "INTERRUPTED"
        BY <4>1, <3>1, <1>t DEF Runner, Enter, ReadLedger, Decide, WritePending, Start,
           Complete, Finish, Finished, FinishRow, AmendRow, AmendSet, record
      <4>2. ASSUME NEW r \in Runs, Die(r) \/ TickClose(r) PROVE status'[x] # "INTERRUPTED"
        BY <4>2, <3>1 DEF Die, TickClose, record
      <4>3. CASE TickCloseRow \/ TickPass \/ UNCHANGED vars
        BY <4>3, <3>1, <1>t DEF TickCloseRow, TickPass, TickStart, TickReadLedger,
           TickDecide, TickEnd, vars, record
      <4>q. QED
        BY <4>1, <4>2, <4>3 DEF Next
    <3>3. Straight(x)'
      BY <3>1, <3>2, StraightStays
    <3>4. rows'[x] = rows[x] \/ rows[x] = <<>>
      <4>1. Len(rows'[x]) <= 1
        <5>1. rows'[x] = <<>> \/ rows'[x] = <<spent'[x]>>
          BY <3>3 DEF Straight
        <5>2. Len(<<>>) <= 1 /\ Len(<<spent'[x]>>) <= 1
          OBVIOUS
        <5>q. QED
          BY <5>1, <5>2, Zenon
      <4>q. QED
        BY <4>1, <3>1, OneRow
    <3>5. tickWindow'[x] \in {<<>>, rows'[x]}
      BY <3>1, <3>4, TickWindowMoves DEF NoRows
    <3>q. QED
      BY <3>2, <3>3, <3>5
  <2>2. CASE x \notin launched
    <3>1. x \in Runs /\ TickDecide(x) /\ UNCHANGED <<status, rows>>
      <4>1. ASSUME NEW r \in Runs, Runner(r) \/ Die(r) \/ TickClose(r) \/ TickReadLedger(r)
            PROVE  launched' = launched
        BY <4>1 DEF Runner, Enter, ReadLedger, Decide, WritePending, Start, Complete,
           Finish, FinishRow, AmendRow, AmendSet, Die, TickClose, TickReadLedger, pass
      <4>2. CASE TickCloseRow \/ TickStart \/ TickEnd \/ UNCHANGED vars
        BY <4>2, <1>2, <2>2 DEF TickCloseRow, TickStart, TickEnd, vars, pass
      <4>3. ASSUME NEW r \in Runs, TickDecide(r)
            PROVE  x \in Runs /\ TickDecide(x) /\ UNCHANGED <<status, rows>>
        BY <4>3, <1>2, <2>2 DEF TickDecide
      <4>q. QED
        BY <4>1, <4>2, <4>3, <1>2, <2>2 DEF Next, TickPass
    <3>2. /\ x \in Runs /\ x \notin Armed /\ pc[x] = "due"
          /\ UNCHANGED <<usage, spent>> /\ tickWindow' = NoRows
      <4>1. considered = x /\ x # Nobody
        BY <3>1 DEF TickDecide
      <4>2. pc[x] = "due"
        BY <4>1, <1>t DEF PassKept
      <4>q. QED
        BY <1>2, <3>1, <4>1, <4>2 DEF TickDecide
    <3>3. status[x] \in {Absent, "ARMED"} /\ rows[x] = <<>> /\ spent[x] = 0
      BY <3>2, <1>t DEF Books, Blank
    <3>4. status[x] = Absent /\ usage[x] = 0
      BY <3>2, <3>3 DEF ArmedKept, UnseenKept, Unseen
    <3>5. Straight(x)'
      BY <3>1, <3>2, <3>3, <3>4 DEF Straight, Unfinished, Absent
    <3>q. QED
      BY <3>1, <3>2, <3>4, <3>5 DEF NoRows, Absent
  <2>q. QED
    BY <2>1, <2>2
<1>q. QED
  BY <1>1, <1>2 DEF LaunchedKept

(* What the books add holds in every state.                                *)
THEOREM CommittedInvariance == Spec => []CInv
<1>1. Init => CInv
  BY CommittedInit
<1>2. CInv /\ [Next]_vars => CInv'
  <2>1. IInv /\ [Next]_vars => IInv'
    BY TypesStep, PassStep, AdmissionStep, BooksStep DEF IInv
  <2>q. QED
    BY <2>1, ClosingStep, UnseenStep, ArmedStep, TickReadStep, StraightStep, LaunchedStep
       DEF CInv
<1>q. QED
  BY <1>1, <1>2, PTL DEF Spec

(* What a run that ended in its own runner has spent is in the ledger      *)
(* exactly once, whatever the tick booked meanwhile (run.py:467-499,       *)
(* tick.py:161-176).                                                       *)
THEOREM SpendIsAccounted == Spec => []Accounted
<1>1. CInv => Accounted
  <2> SUFFICES ASSUME CInv, NEW r \in Runs, pc[r] = "done"
               PROVE  SumFunction(rows[r]) = spent[r]
    BY DEF Accounted, Ledgered
  <2>1. Booked(r) /\ spent[r] \in Nat
    BY DEF CInv, IInv, Types, BooksKept, Books
  <2>2. CASE rows[r] \in {<<spent[r]>>, <<0, spent[r]>>}
    BY <2>1, <2>2, RowSums
  <2>3. CASE spent[r] = 0 /\ rows[r] \in {<<>>, <<0>>}
    BY <2>3, RowSums
  <2>q. QED
    BY <2>1, <2>2, <2>3 DEF Booked, Closed
<1>q. QED
  BY <1>1, CommittedInvariance, PTL

(* What one run counts for in the eyes of an admission.                    *)
LEMMA CountedOnce ==
  ASSUME CInv, NoneClosed, NEW x \in Runs
  PROVE  /\ Ledgered(x, window) \in Nat
         /\ Ledgered(x, window) + Held(x, window)
              = IF Unfinished(x) THEN Budget ELSE usage[x]
<1>1. Straight(x) /\ window[x] \in {<<>>, rows[x]} /\ spent[x] \in Nat /\ usage[x] \in Nat
  BY DEF CInv, StraightKept, IInv, Types
<1>2. Budget \in Nat
  BY CeilingAssumption
<1>3. CASE window[x] = <<>>
  <2>1. Ledgered(x, window) = 0
    BY <1>3, RowSums DEF Ledgered
  <2>q. QED
    BY <1>1, <1>2, <1>3, <2>1 DEF Held
<1>4. CASE window[x] # <<>>
  <2>1. window[x] = <<spent[x]>> /\ ~Unfinished(x) /\ usage[x] = spent[x]
    BY <1>1, <1>4 DEF Straight
  <2>2. Ledgered(x, window) = spent[x]
    BY <1>1, <2>1, RowSums DEF Ledgered
  <2>q. QED
    BY <1>1, <1>4, <2>1, <2>2 DEF Held
<1>q. QED
  BY <1>3, <1>4

(* The sum an admission compares with the ceiling.                         *)
LEMMA CountedSum ==
  ASSUME CInv, NoneClosed
  PROVE  Counted(window, {})
           = Total([x \in Runs |-> IF Unfinished(x) THEN Budget ELSE usage[x]])
<1>1. \A x \in Runs :
        Ledgered(x, window) + Held(x, window) + (IF x \in {} THEN Budget ELSE 0)
          = IF Unfinished(x) THEN Budget ELSE usage[x]
  <2> TAKE x \in Runs
  <2>1. Ledgered(x, window) + Held(x, window) = IF Unfinished(x) THEN Budget ELSE usage[x]
    BY CountedOnce
  <2>2. Budget \in Nat /\ usage[x] \in Nat
    BY CeilingAssumption DEF CInv, IInv, Types
  <2>q. QED
    BY <2>1, <2>2
<1>2. [x \in Runs |->
         Ledgered(x, window) + Held(x, window) + (IF x \in {} THEN Budget ELSE 0)]
        = [x \in Runs |-> IF Unfinished(x) THEN Budget ELSE usage[x]]
  BY <1>1, Zenon
<1>q. QED
  BY <1>2, Zenon DEF Counted, Total

(* An admission that decides counts every run once, by its declared budget *)
(* or by its usage, however the finishes of others fall between its read   *)
(* of the ledger and its read of the records (context.py:232-235).         *)
THEOREM AdmissionCountsOnce == Spec => []CountsEveryRunOnce
<1>1. CInv => CountsEveryRunOnce
  BY CountedSum DEF CountsEveryRunOnce
<1>q. QED
  BY <1>1, CommittedInvariance, PTL

(* A launched run that was not armed weighs once towards the pass: by its  *)
(* reservation until it has a record, then by its declared budget, and     *)
(* once it has ended by its usage.                                         *)
LaunchedOnce ==
  \A r \in launched \ Armed :
    Ledgered(r, tickWindow) + Held(r, tickWindow) + (IF r \in Reserved THEN Budget ELSE 0)
      = IF status[r] = Absent \/ Unfinished(r) THEN Budget ELSE usage[r]

(* A scheduled run counts once towards the pass that launched it.          *)
LEMMA LaunchedWeighsOnce == CInv => LaunchedOnce
<1> SUFFICES ASSUME CInv, NEW r \in launched \ Armed
             PROVE  Ledgered(r, tickWindow) + Held(r, tickWindow)
                      + (IF r \in Reserved THEN Budget ELSE 0)
                      = IF status[r] = Absent \/ Unfinished(r) THEN Budget ELSE usage[r]
  BY DEF LaunchedOnce
<1>1. r \in Runs /\ Budget \in Nat
  BY CeilingAssumption DEF CInv, IInv, PassKept
<1>2. usage[r] \in Nat /\ spent[r] \in Nat
  BY <1>1 DEF CInv, IInv, Types
<1>3. r \in Reserved <=> status[r] = Absent
  BY <1>1 DEF Reserved, Visible, CInv, ArmedKept
<1>4. Straight(r) /\ tickWindow[r] \in {<<>>, rows[r]}
  BY DEF CInv, LaunchedKept
<1>5. CASE status[r] = Absent
  <2>1. usage[r] = 0 /\ tickWindow[r] = <<>> /\ ~Unfinished(r)
    BY <1>1, <1>5 DEF CInv, UnseenKept, Unseen, TickReadKept, Unfinished, Absent
  <2>q. QED
    BY <1>1, <1>3, <1>5, <2>1, RowSums DEF Held, Ledgered
<1>6. CASE status[r] # Absent /\ tickWindow[r] = <<>>
  <2>1. Ledgered(r, tickWindow) = 0
    BY <1>6, RowSums DEF Ledgered
  <2>q. QED
    BY <1>1, <1>2, <1>3, <1>6, <2>1 DEF Held
<1>7. CASE status[r] # Absent /\ tickWindow[r] # <<>>
  <2>1. tickWindow[r] = <<spent[r]>> /\ ~Unfinished(r) /\ usage[r] = spent[r]
    BY <1>4, <1>7 DEF Straight
  <2>2. Ledgered(r, tickWindow) = spent[r]
    BY <1>2, <2>1, RowSums DEF Ledgered
  <2>q. QED
    BY <1>1, <1>2, <1>3, <1>7, <2>1, <2>2 DEF Held
<1>q. QED
  BY <1>5, <1>6, <1>7

(* In a pass that launches scheduled runs only, every launched run weighs  *)
(* once in every later admission of the pass, neither twice nor not at     *)
(* all, wherever its runner has got to meanwhile (context.py:150-176).     *)
THEOREM PassCountsOnce == ASSUME Armed = {} PROVE Spec => []TickCountsOnce
<1>1. CInv => TickCountsOnce
  <2> SUFFICES ASSUME CInv, NEW r \in launched
               PROVE  Ledgered(r, tickWindow) + Held(r, tickWindow)
                        + (IF r \in Reserved THEN Budget ELSE 0)
                        = IF status[r] \in {Absent, "ARMED"} \/ Unfinished(r)
                          THEN Budget ELSE usage[r]
    BY DEF TickCountsOnce
  <2>1. r \in Runs /\ status[r] # "ARMED"
    BY CeilingAssumption DEF CInv, IInv, PassKept, ArmedKept
  <2>q. QED
    BY <2>1, LaunchedWeighsOnce DEF LaunchedOnce
<1>q. QED
  BY <1>1, CommittedInvariance, PTL

(* What the runs have committed only grows where an admission lets a run   *)
(* through.                                                                *)
LEMMA OnlyAdmissionCommits ==
  ASSUME CInv, [Next]_vars, NoneClosed, NoneClosed', Spends \subseteq 0 .. Budget,
         NEW x \in Runs, ~ (Decide(x) /\ pc'[x] = "pend")
  PROVE  Committed(x)' <= Committed(x)
<1> USE CeilingAssumption, NobodyAssumption DEF CInv
<1>t. /\ pc \in [Runs -> Places]
      /\ status \in [Runs -> RunStatus \cup {Absent}]
      /\ spent \in [Runs -> Nat]
      /\ \A r \in Runs : Books(r)
      /\ PassKept
  BY DEF IInv, Types, BooksKept
<1>b. spent[x] \in Nat /\ spent[x] <= Budget /\ Budget \in Nat
  BY <1>t DEF StraightKept, Straight
<1>o. status[x] # "INTERRUPTED" /\ status'[x] # "INTERRUPTED"
  BY DEF NoneClosed
<1>f. ASSUME status'[x] = status[x], spent'[x] = spent[x], pc'[x] = "pend" => pc[x] = "pend"
      PROVE  Committed(x)' <= Committed(x)
  BY <1>f, <1>b DEF Committed, Unfinished
<1>1. ASSUME NEW r \in Runs, Runner(r) \/ Die(r) \/ TickDecide(r) \/ TickClose(r), r # x
      PROVE  Committed(x)' <= Committed(x)
  <2>1. status'[x] = status[x] /\ pc'[x] = pc[x]
    BY <1>1, <1>t DEF Runner, Enter, ReadLedger, Decide, WritePending, Start, Complete,
              Finish, Finished, FinishRow, AmendRow, AmendSet, Die, TickDecide, TickClose,
              record, Goto
  <2>2. spent'[x] = spent[x]
    BY <1>1, <1>t DEF Runner, Enter, ReadLedger, Decide, WritePending, Start, Complete,
              Finish, FinishRow, AmendRow, AmendSet, Die, TickDecide, TickClose
  <2>q. QED
    BY <2>1, <2>2, <1>f
<1>2. CASE Enter(x) \/ ReadLedger(x) \/ FinishRow(x) \/ AmendRow(x) \/ Die(x)
  <2>1. pc'[x] # "pend" /\ UNCHANGED <<status, spent>>
    BY <1>2, <1>t DEF Enter, ReadLedger, FinishRow, AmendRow, Die, Goto, record
  <2>q. QED
    BY <2>1, <1>f
<1>3. CASE Decide(x) \/ TickDecide(x)
  <2>1. spent[x] = 0 /\ ~Unfinished(x) /\ pc[x] # "pend" /\ UNCHANGED spent
    <3>1. pc[x] \in {"due", "records"} /\ UNCHANGED spent
      BY <1>3, <1>t DEF Decide, TickDecide, PassKept
    <3>q. QED
      BY <3>1, <1>t DEF Books, Unfinished, Admitting, Absent
  <2>2. ~Unfinished(x)'
    BY <1>3, <2>1, <1>t DEF Decide, TickDecide, Unfinished
  <2>3. pc'[x] # "pend"
    BY <1>3, <1>t DEF TickDecide, Goto
  <2>q. QED
    BY <2>1, <2>2, <2>3 DEF Committed
<1>4. CASE WritePending(x)
  <2>1. pc[x] = "pend"
    BY <1>4 DEF WritePending
  <2>2. status'[x] = "PENDING"
    BY <1>4, <1>t DEF WritePending
  <2>q. QED
    BY <2>1, <2>2, <1>b DEF Committed, Unfinished
<1>5. CASE Start(x)
  <2>1. status[x] = "PENDING" /\ status'[x] = "RUNNING"
    BY <1>5, <1>t, <1>o DEF Start, Books, Open, Closed
  <2>q. QED
    BY <2>1, <1>b DEF Committed, Unfinished
<1>6. CASE Complete(x)
  <2>1. status[x] = "RUNNING" /\ status'[x] = "RUNNING"
    BY <1>6, <1>t, <1>o DEF Complete, record, Books, Open, Closed
  <2>q. QED
    BY <2>1, <1>b DEF Committed, Unfinished
<1>7. CASE Finish(x)
  <2>1. status[x] = "RUNNING" /\ UNCHANGED spent
    BY <1>7, <1>t, <1>o DEF Finish, Books, Open, Closed
  <2>2. status'[x] = "SUCCEEDED" /\ pc'[x] # "pend"
    BY <1>7, <2>1, <1>t DEF Finish, Finished, Goto
  <2>q. QED
    BY <2>1, <2>2, <1>b DEF Committed, Unfinished
<1>8. CASE AmendSet(x) \/ TickClose(x)
  BY <1>8, <1>t, <1>o DEF AmendSet, TickClose, Books
<1>9. CASE \/ TickCloseRow \/ TickStart \/ TickEnd \/ UNCHANGED vars
           \/ \E r \in Runs : TickReadLedger(r)
  BY <1>9, <1>f DEF TickCloseRow, TickStart, TickEnd, TickReadLedger, vars, record
<1>q. QED
  BY <1>1, <1>2, <1>3, <1>4, <1>5, <1>6, <1>7, <1>8, <1>9 DEF Next, Runner, TickPass

(* An admission commits its own budget on top of what it counted.          *)
LEMMA AdmissionCommits ==
  ASSUME CInv, NoneClosed, NEW r \in Runs, Decide(r), pc'[r] = "pend", NEW x \in Runs
  PROVE  Committed(x)' <=
           (IF Unfinished(x) THEN Budget ELSE usage[x]) + (IF x = r THEN Budget ELSE 0)
<1> USE CeilingAssumption, NobodyAssumption DEF CInv
<1>t. /\ pc \in [Runs -> Places]
      /\ usage[x] \in Nat /\ spent[x] \in Nat /\ Budget \in Nat
      /\ AdmissionKept
  BY DEF IInv, Types
<1>1. UNCHANGED <<status, spent>> /\ pc' = [pc EXCEPT ![r] = "pend"]
  BY <1>t DEF Decide, Goto
<1>2. ~Unfinished(x) => usage[x] = spent[x]
  BY DEF StraightKept, Straight
<1>3. CASE x = r
  BY <1>1, <1>2, <1>3, <1>t DEF Committed, Unfinished
<1>4. CASE x # r
  <2>1. pc[x] # "pend"
    BY <1>4 DEF Decide, IInv, AdmissionKept, Admitting
  <2>q. QED
    BY <1>1, <1>2, <1>4, <2>1, <1>t DEF Committed, Unfinished
<1>q. QED
  BY <1>3, <1>4

(* What the runs have committed together fits the ceiling.                 *)
LEMMA CommittedStep ==
  ASSUME CInv, CInv', [Next]_vars, CommittedFits, Spends \subseteq 0 .. Budget
  PROVE  CommittedFits'
<1> SUFFICES ASSUME NoneClosed'
             PROVE  SumFunction([x \in Runs |-> Committed(x)'])  <= Cap
  BY DEF CommittedFits, Total
<1>n. NoneClosed
  BY StaysClosed DEF CInv
<1> DEFINE before == [x \in Runs |-> Committed(x)]
           after == [x \in Runs |-> Committed(x)']
           seen == [x \in Runs |-> IF Unfinished(x) THEN Budget ELSE usage[x]]
<1>t. /\ Budget \in Nat /\ Cap \in Nat
      /\ spent \in [Runs -> Nat] /\ spent' \in [Runs -> Nat]
      /\ usage \in [Runs -> Nat]
      /\ IsFiniteSet(Runs)
  BY CeilingAssumption DEF CInv, IInv, Types
<1>1. before \in [Runs -> Nat] /\ after \in [Runs -> Nat] /\ seen \in [Runs -> Nat]
  BY <1>t DEF Committed
<1>2. CASE \E r \in Runs : Decide(r) /\ pc'[r] = "pend"
  <2>1. PICK r \in Runs : Decide(r) /\ pc'[r] = "pend"
    BY <1>2
  <2>2. \A x \in Runs : after[x] <= seen[x] + (IF x = r THEN Budget ELSE 0)
    BY <1>n, <2>1, AdmissionCommits
  <2>3. SumFunction(seen) \in Nat /\ SumFunction(after) \in Nat
        /\ SumFunction(after) <= SumFunction(seen) + Budget
    <3> HIDE DEF after, seen
    <3>q. QED
      BY <1>1, <1>t, <2>2, SumBound
  <2>4. Fits(window, {})
    <3>1. pc[r] \in Places
      BY DEF CInv, IInv, Types
    <3>2. pc \in [Runs -> Places]
      BY DEF CInv, IInv, Types
    <3>q. QED
      BY <2>1, <3>2 DEF Decide, Goto
  <2>5. SumFunction(seen) + Budget <= Cap
    BY <1>n, <2>4, CountedSum DEF Fits, Total
  <2>q. QED
    <3> HIDE DEF after, seen
    <3>1. SumFunction(after) <= Cap
      BY <2>3, <2>5, <1>t
    <3>q. QED
      BY <3>1 DEF after
<1>3. CASE ~ \E r \in Runs : Decide(r) /\ pc'[r] = "pend"
  <2>1. \A x \in Runs : after[x] <= before[x] + (IF x = Nobody THEN 0 ELSE 0)
    <3> TAKE x \in Runs
    <3>1. Committed(x)' <= Committed(x)
      BY <1>n, <1>3, OnlyAdmissionCommits
    <3>2. before[x] \in Nat /\ after[x] <= before[x]
      BY <1>1, <3>1
    <3> HIDE DEF before, after
    <3>q. QED
      BY <3>2
  <2>2. SumFunction(before) \in Nat /\ SumFunction(after) \in Nat
        /\ SumFunction(after) <= SumFunction(before) + 0
    <3> HIDE DEF after, before
    <3>q. QED
      BY <1>1, <1>t, <2>1, SumBound
  <2>3. SumFunction(before) <= Cap
    BY <1>n DEF CommittedFits, Total
  <2>q. QED
    <3> HIDE DEF after, before
    <3>1. SumFunction(after) <= Cap
      BY <2>2, <2>3, <1>t
    <3>q. QED
      BY <3>1 DEF after
<1>q. QED
  BY <1>2, <1>3

(* As long as the tick has closed no run, runs that never spend more than  *)
(* they declare never cross the ceiling together: the admission lock makes *)
(* reading, deciding and recording one step, and what an admission counts  *)
(* is what is committed (run.py:587-707, context.py:234-253).              *)
THEOREM CeilingIsKept ==
  ASSUME Spends \subseteq 0 .. Budget
  PROVE  Spec => []CeilingHolds
<1>1. Init => CInv /\ CommittedFits
  BY CommittedInit
<1>2. CInv /\ CInv' /\ CommittedFits /\ [Next]_vars => CommittedFits'
  BY CommittedStep
<1>3. CInv /\ CommittedFits => CeilingHolds
  <2> SUFFICES ASSUME CInv, CommittedFits, NoneClosed PROVE SumFunction(spent) <= Cap
    BY DEF CeilingHolds, Total
  <2> DEFINE all == [x \in Runs |-> Committed(x)]
  <2>t. /\ Budget \in Nat /\ Cap \in Nat /\ IsFiniteSet(Runs)
        /\ spent \in [Runs -> Nat]
    BY CeilingAssumption DEF CInv, IInv, Types
  <2>1. all \in [Runs -> Nat]
    BY <2>t DEF Committed
  <2>2. \A x \in Runs : spent[x] <= all[x] + (IF x = Nobody THEN 0 ELSE 0)
    <3> TAKE x \in Runs
    <3>1. spent[x] \in Nat /\ spent[x] <= Budget
      BY <2>t DEF CInv, StraightKept, Straight
    <3>q. QED
      BY <3>1, <2>t DEF Committed
  <2>3. SumFunction(all) <= Cap
    BY DEF CommittedFits, Total
  <2>4. SumFunction(spent) \in Nat /\ SumFunction(all) \in Nat
        /\ SumFunction(spent) <= SumFunction(all) + 0
    <3> HIDE DEF all
    <3>q. QED
      BY <2>t, <2>1, <2>2, SumBound
  <2>q. QED
    <3> HIDE DEF all
    <3>q. QED
      BY <2>3, <2>4, <2>t
<1>q. QED
  BY <1>1, <1>2, <1>3, CommittedInvariance, PTL DEF Spec
=============================================================================
