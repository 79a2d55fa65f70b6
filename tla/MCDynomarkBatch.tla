-------------------------- MODULE MCDynomarkBatch --------------------------
(***************************************************************************)
(* Instances of DynomarkBatch for TLC.                                     *)
(***************************************************************************)
EXTENDS DynomarkBatch, TLC

CONSTANTS Deaths, Losses, Skips, Fails, Busies, Rejects, Watches
MCFaults == "death" :> Deaths @@ "loss" :> Losses @@ "skip" :> Skips @@ "fail" :> Fails
            @@ "busy" :> Busies @@ "reject" :> Rejects @@ "watch" :> Watches
=============================================================================
