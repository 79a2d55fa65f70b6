---------------------------- MODULE MCChoresRun ----------------------------
(***************************************************************************)
(* Instances of ChoresRun for TLC.                                         *)
(***************************************************************************)
EXTENDS ChoresRun, TLC

(* Runs are interchangeable in a safety run where none of them is forced.  *)
RunSymmetry == Permutations(Runs)

(* The circuit breaker as policies.py builds it: a filtered list, and its  *)
(* tail.                                                                   *)
BreakerByList(recent, threshold) ==
  LET SaysSomething(s) == s \in RunTerminal \ Transparent
      seen == SelectSeq(recent, SaysSomething)
  IN  /\ threshold > 0
      /\ Len(seen) >= threshold
      /\ \A i \in (Len(seen) - threshold + 1) .. Len(seen) : seen[i] \in Failures

Histories == UNION {[1 .. n -> {"FAILED", "SUCCEEDED", "KILLED", "PENDING"}] : n \in 0 .. 5}

(* Both forms decide alike: on every history of at most five runs, with    *)
(* an outcome of every class, and every threshold up to three.             *)
ASSUME BreakerFormsAgree ==
  \A recent \in Histories, threshold \in 0 .. 3 :
    CircuitBreaker(recent, threshold) <=> BreakerByList(recent, threshold)
=============================================================================
