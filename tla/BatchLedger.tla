---------------------------- MODULE BatchLedger ----------------------------
(***************************************************************************)
(* What a write batch is promised (contract/v2/README.md, "Write batches": *)
(* One batch at a time; Cursor and resume; Receipts): batches are tried    *)
(* one at a time in the order they were offered, each gets one verdict,    *)
(* and an APPLIED verdict is the whole of what the batch changed.          *)
(* DynomarkBatch, with its copies, deaths and lost answers, implements it. *)
(***************************************************************************)
EXTENDS Naturals

CONSTANTS MaxBatch, Ops

VARIABLES
  verdict,   \* each batch's state
  made,      \* the operations of each batch that changed the tree
  reported   \* the changes its recorded receipt reports

vars == <<verdict, made, reported>>

Batches == 1..MaxBatch
Decided == {"APPLIED", "PARTIAL", "REJECTED"}

EarlierDecided(b) == \A a \in Batches : a < b => verdict[a] \in Decided
LaterUntouched(b) == \A c \in Batches : b < c => made[c] = {}

Init ==
  /\ verdict = [b \in Batches |-> "NONE"]
  /\ made = [b \in Batches |-> {}]
  /\ reported = [b \in Batches |-> {}]

(* Batches are offered one after the other, in the order of their numbers.   *)
Offered(b) ==
  /\ verdict[b] = "NONE" /\ verdict'[b] = "PROPOSED"
  /\ \A a \in Batches : a < b => verdict[a] # "NONE"

Propose(b) ==
  /\ Offered(b)
  /\ \A a \in Batches \ {b} : verdict'[a] = verdict[a]
  /\ UNCHANGED <<made, reported>>

(* An operation takes effect: never after an APPLIED verdict, but an offer's *)
(* further copy may go on after a PARTIAL or REJECTED one.                   *)
Make(b, op) ==
  /\ verdict[b] \in {"PROPOSED", "PARTIAL", "REJECTED"}
  /\ EarlierDecided(b) /\ LaterUntouched(b)
  /\ made' = [made EXCEPT ![b] = @ \cup {op}]
  /\ UNCHANGED <<verdict, reported>>

(* A batch gets its verdict; in the same step its inverse may be offered.    *)
Decide(b) ==
  /\ verdict[b] = "PROPOSED" /\ EarlierDecided(b)
  /\ \/ verdict'[b] = "APPLIED" /\ reported'[b] = made[b]
     \/ verdict'[b] = "PARTIAL" /\ reported'[b] \subseteq made[b]
     \/ verdict'[b] = "REJECTED" /\ reported'[b] = {}
  /\ \A a \in Batches \ {b} : verdict'[a] = verdict[a] \/ Offered(a)
  /\ \A a \in Batches \ {b} : reported'[a] = reported[a]
  /\ UNCHANGED made

(* The shape of the variables after a step.                                  *)
Shaped ==
  /\ verdict' \in [Batches -> Decided \cup {"NONE", "PROPOSED"}]
  /\ reported' \in [Batches -> SUBSET Ops]

Next ==
  /\ Shaped
  /\ \E b \in Batches : Propose(b) \/ Decide(b) \/ \E op \in Ops : Make(b, op)

Spec == Init /\ [][Next]_vars
=============================================================================
