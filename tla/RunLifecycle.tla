---------------------------- MODULE RunLifecycle ----------------------------
(***************************************************************************)
(* What the run store promises its readers (the status query, the          *)
(* ceilings, the breaker) about each run, without processes, locks or      *)
(* check-and-sets: the state machine of a record, its ledger rows, and the *)
(* one correction a record may see. A run's runner is "away", "starting"   *)
(* (it has not reached RUNNING) or "running" (it has, and owes an          *)
(* outcome).                                                               *)
(***************************************************************************)
EXTENDS ChoresStatus, Naturals, Sequences

CONSTANT Runs

VARIABLES status, rows, stage

vars == <<status, rows, stage>>

Init ==
  /\ status = [r \in Runs |-> Absent]
  /\ rows = [r \in Runs |-> <<>>]
  /\ stage = [r \in Runs |-> "away"]

Become(r, from, to) ==
  /\ status[r] = from
  /\ status' = [status EXCEPT ![r] = to]

Last(row) == row[Len(row)]

Arrive(r) ==
  /\ stage[r] = "away" /\ status[r] = Absent
  /\ stage' = [stage EXCEPT ![r] = "starting"]
  /\ UNCHANGED <<status, rows>>

Leave(r) ==
  /\ stage[r] # "away"
  /\ stage' = [stage EXCEPT ![r] = "away"]
  /\ UNCHANGED <<status, rows>>

Refuse(r) ==
  /\ stage[r] = "starting"
  /\ \E why \in Refusals : Become(r, Absent, why)
  /\ UNCHANGED <<rows, stage>>

Admit(r) ==
  /\ stage[r] = "starting"
  /\ Become(r, Absent, "PENDING")
  /\ UNCHANGED <<rows, stage>>

Start(r) ==
  /\ stage[r] = "starting"
  /\ Become(r, "PENDING", "RUNNING")
  /\ stage' = [stage EXCEPT ![r] = "running"]
  /\ UNCHANGED rows

Finish(r) ==
  /\ stage[r] = "running"
  /\ \E outcome \in TrueOutcomes : Become(r, "RUNNING", outcome)
  /\ UNCHANGED <<rows, stage>>

(* Whoever finds the run's process gone closes it.                         *)
Interrupt(r) ==
  /\ \E from \in {"PENDING", "RUNNING"} : Become(r, from, "INTERRUPTED")
  /\ UNCHANGED <<rows, stage>>

(* The first row repeats the record; a refusal's row is the last thing its *)
(* runner does.                                                            *)
Charge(r) ==
  /\ IsTerminal(status[r])
  /\ rows[r] = <<>>
  /\ rows' = [rows EXCEPT ![r] = <<status[r]>>]
  /\ stage' \in {stage, [stage EXCEPT ![r] = "away"]}
  /\ UNCHANGED status

(* A runner whose run was closed under it first states its outcome in the  *)
(* ledger, then corrects the record to what the ledger says.               *)
Amend(r) ==
  /\ stage[r] = "running"
  /\ status[r] = "INTERRUPTED"
  /\ rows[r] \in {<<>>, <<"INTERRUPTED">>}
  /\ \E outcome \in TrueOutcomes : rows' = [rows EXCEPT ![r] = Append(@, outcome)]
  /\ UNCHANGED <<status, stage>>

Correct(r) ==
  /\ stage[r] = "running"
  /\ rows[r] # <<>>
  /\ Last(rows[r]) \in TrueOutcomes
  /\ Become(r, "INTERRUPTED", Last(rows[r]))
  /\ UNCHANGED <<rows, stage>>

Next ==
  \E r \in Runs :
    \/ Arrive(r) \/ Leave(r) \/ Refuse(r) \/ Admit(r) \/ Start(r) \/ Finish(r)
    \/ Interrupt(r) \/ Charge(r) \/ Amend(r) \/ Correct(r)

Spec == Init /\ [][Next]_vars

-----------------------------------------------------------------------------
(* A run is charged once: no row, one row, or the INTERRUPTED row and the  *)
(* one that amends it.                                                     *)
ChargedOnce ==
  \A r \in Runs :
    \/ rows[r] = <<>>
    \/ Len(rows[r]) = 1
    \/ Len(rows[r]) = 2 /\ rows[r][1] = "INTERRUPTED" /\ rows[r][2] \in TrueOutcomes
=============================================================================
