------------------------------- MODULE MCGraphs -------------------------------
(***************************************************************************)
(* The graph of a pipeline, for TLC: as it is built by the bodies of small *)
(* functions, and as it is cloned to run a pipeline of a few runs again.   *)
(* The two share no state: `subject` picks the one that a behaviour is     *)
(* about.                                                                  *)
(***************************************************************************)
EXTENDS RerunGraph

CONSTANT MaxCalls

VARIABLES subject, program, futures, calls, state, output, values

B == INSTANCE FunctionBodies
F == INSTANCE FunctionCalls WITH Programs <- B!Bodies, Inputs <- B!AtHand, Returned <- B!Results

body == <<program, futures, calls, state, output, values>>
NoBody == program = "none" /\ futures = <<>> /\ calls = 0 /\ state = "none" /\ output = "none" /\ values = <<>>

GraphsInit ==
  /\ Init
  /\ \/ subject = "rerun" /\ NoBody
     \/ subject = "body" /\ F!Init
GraphsNext ==
  /\ UNCHANGED subject
  /\ \/ subject = "rerun" /\ Next /\ UNCHANGED body
     \/ subject = "body" /\ F!Next /\ UNCHANGED vars

GraphsSpec == GraphsInit /\ [][GraphsNext]_<<subject, body, vars>>

-----------------------------------------------------------------------------

\* No value is refused that was accepted when the pipeline was built.
NoLateTypeError == subject = "body" => F!NoLateTypeError

\* What storage returns is what was stored, of the same class.
StorageKeepsValues == subject = "body" => F!StorageKeepsValues

\* No call is dropped in silence.
NothingForgotten == subject = "body" => F!NothingForgotten
=============================================================================
