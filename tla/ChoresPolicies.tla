--------------------------- MODULE ChoresPolicies ---------------------------
(***************************************************************************)
(* The pure decisions of chores/domain/policies.py that the run lifecycle  *)
(* rests on: the circuit breaker and the order of the admission rules.     *)
(***************************************************************************)
EXTENDS ChoresStatus, Naturals, Sequences, FiniteSets

(***************************************************************************)
(* circuit_breaker: `recent' is oldest first; PAUSE when its last          *)
(* `threshold' outcomes that say anything about the chore all failed.      *)
(***************************************************************************)
(* Where `recent' says something.                                          *)
Considered(recent) == {i \in 1 .. Len(recent) : recent[i] \in RunTerminal \ Transparent}

(* The last `threshold' of these places, all of them when they are fewer.  *)
Latest(considered, threshold) ==
  {i \in considered : Cardinality({j \in considered : j > i}) < threshold}

CircuitBreaker(recent, threshold) ==
  LET tail == Latest(Considered(recent), threshold)
  IN  /\ threshold > 0
      /\ Cardinality(tail) = threshold
      /\ \A i \in tail : recent[i] \in Failures

(***************************************************************************)
(* admission_policy: the facts that speak against a run, as a subset of    *)
(* Objections, and whether it was forced. The first rule that applies      *)
(* decides; --force lifts only overlap, offline and battery.               *)
(***************************************************************************)
Objections == Refusals \cup {"DISABLED"}

Precedence ==
  <<"SKIPPED_PAUSED", "DISABLED", "SKIPPED_CEILING",
    "SKIPPED_OVERLAP", "SKIPPED_OFFLINE", "DEFERRED_BATTERY">>

Liftable == {"SKIPPED_OVERLAP", "SKIPPED_OFFLINE", "DEFERRED_BATTERY"}

Standing(objections, force) ==
  IF force THEN objections \ Liftable ELSE objections

(* "ADMIT", or the status the refusal is recorded under.                   *)
AdmissionPolicy(objections, force) ==
  LET against == Standing(objections, force)
  IN  IF against = {}
      THEN "ADMIT"
      ELSE LET First(i) == /\ Precedence[i] \in against
                           /\ \A j \in 1 .. (i - 1) : Precedence[j] \notin against
           IN  Precedence[CHOOSE i \in 1 .. Len(Precedence) : First(i)]
=============================================================================
