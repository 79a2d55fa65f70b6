---------------------------- MODULE MCChoresArm ----------------------------
(***************************************************************************)
(* Instances of ChoresArm for TLC.                                         *)
(***************************************************************************)
EXTENDS ChoresArm, TLC

(* In a safety run asks are interchangeable, and so are runners.           *)
AskAndRunnerSymmetry == Permutations(Asks) \cup Permutations(Runners)
=============================================================================
