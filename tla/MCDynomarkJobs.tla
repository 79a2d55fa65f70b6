--------------------------- MODULE MCDynomarkJobs ---------------------------
(***************************************************************************)
(* Instances of DynomarkJobs for TLC.  Liveness is checked without         *)
(* symmetry; instead the first bookmark starts in Follow Up, and the other *)
(* is still to be saved, or is there already, in Dynomark or elsewhere.    *)
(***************************************************************************)
EXTENDS DynomarkJobs

CONSTANT First

MCStarts ==
  {t \in [Nodes -> {"gone", "follow_up", "dynomark", "elsewhere"}] :
     \A n \in Nodes : (t[n] = "follow_up") = (n = First)}
=============================================================================
