---------------------------- MODULE ChoresStatus ----------------------------
(***************************************************************************)
(* The statuses a run record can carry and the classes the code sorts them *)
(* into (chores/domain/run.py), shared by every chores module.             *)
(***************************************************************************)

Failures == {"FAILED", "TIMED_OUT", "BUDGET_EXCEEDED", "INTERRUPTED"}

RunTerminal == Failures \cup {"SUCCEEDED", "KILLED", "OFFLINE"}

(* What only the runner that executed a run can report of it.              *)
TrueOutcomes == RunTerminal \ {"INTERRUPTED"}

Refusals ==
  {"SKIPPED_PAUSED", "SKIPPED_CEILING", "SKIPPED_OVERLAP", "SKIPPED_OFFLINE",
   "DEFERRED_BATTERY"}

NotTerminal == {"PENDING", "RUNNING", "ARMED"}

ArmingEnds == (Refusals \ {"DEFERRED_BATTERY"}) \cup {"CANCELLED", "ARM_ABANDONED"}

RunStatus ==
  NotTerminal \cup RunTerminal \cup Refusals \cup ArmingEnds
    \cup {"MISSED", "INVALID"}

(* A run id with no record on disk.                                        *)
Absent == "ABSENT"

IsTerminal(status) == status \in RunStatus \ NotTerminal

(* The circuit breaker looks past these in both directions.                *)
Transparent == {"OFFLINE", "KILLED"}
=============================================================================
