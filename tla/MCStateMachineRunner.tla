------------------------ MODULE MCStateMachineRunner ------------------------
(***************************************************************************)
(* Small pipelines for TLC.                                                *)
(***************************************************************************)
EXTENDS StateMachineRunner

NoRetries  == [f \in Ids |-> 0]
OneRetry   == [f \in Ids |-> 1]
TwoRetries == [f \in Ids |-> 2]
RootRetry  == [f \in Ids |-> IF f = Root THEN 1 ELSE 0]
=============================================================================
