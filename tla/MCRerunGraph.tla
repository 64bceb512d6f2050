----------------------------- MODULE MCRerunGraph -----------------------------
(***************************************************************************)
(* Pipelines of a few runs, run again in every way, for TLC.               *)
(***************************************************************************)
EXTENDS RerunGraph
=============================================================================
