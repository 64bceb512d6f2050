-------------------------- MODULE MCKubernetesJob --------------------------
(***************************************************************************)
(* Two requests at a time for one job, one that looks at it and one that   *)
(* stops it.                                                               *)
(***************************************************************************)
EXTENDS KubernetesJob, TLC

CONSTANTS r1, r2

LookAndStop == (r1 :> {"poll"}) @@ (r2 :> {"cancel", "force"})
=============================================================================
