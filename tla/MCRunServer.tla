---------------------------- MODULE MCRunServer ----------------------------
(***************************************************************************)
(* A pipeline run with one standalone function, for TLC.                   *)
(***************************************************************************)
EXTENDS RunServer
=============================================================================
