-------------------------- MODULE MCChoresCeiling --------------------------
(***************************************************************************)
(* Instances of ChoresCeiling for TLC.                                     *)
(***************************************************************************)
EXTENDS ChoresCeiling, TLC

(* The scheduled runs a tick launches are interchangeable, and so are the  *)
(* typed ones.                                                             *)
LaunchedSymmetry == Permutations(Due \ Armed) \cup Permutations(Runs \ Due)
=============================================================================
