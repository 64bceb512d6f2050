---------------------------- MODULE FutureStates ----------------------------
(***************************************************************************)
(* The states of a future and of the run row that records it, shared by    *)
(* the runner, the API server and the workers                              *)
(* (sematic/abstract_future.py), and the states of a pipeline run          *)
(* (sematic/db/models/resolution.py).                                      *)
(***************************************************************************)

\* FutureState: the enumeration.
FutureState == {"CREATED", "SCHEDULED", "RAN", "RESOLVED", "RETRYING",
                "FAILED", "NESTED_FAILED", "CANCELED"}

\* _TERMINAL_STATES
TerminalStates == {"NESTED_FAILED", "FAILED", "RESOLVED", "CANCELED"}

\* FutureState.is_terminal
IsTerminal(s) == s \in TerminalStates

\* _ALLOWED_TRANSITIONS of abstract_future.py, for a state that exists.
AllowedTransitions ==
  [s \in FutureState |->
     CASE s = "CREATED"   -> {"SCHEDULED", "CANCELED", "FAILED"}
       [] s = "SCHEDULED" -> {"RAN", "RETRYING", "CANCELED", "RESOLVED", "FAILED"}
       [] s = "RAN"       -> {"NESTED_FAILED", "RESOLVED", "CANCELED"}
       [] s = "RETRYING"  -> {"FAILED", "SCHEDULED", "CANCELED"}
       [] s = "FAILED"    -> {"RETRYING"}
       [] OTHER           -> {}]

\* FutureState.is_allowed_transition
IsAllowedTransition(from, to) == to \in AllowedTransitions[from]

-----------------------------------------------------------------------------

\* ResolutionStatus (PipelineRunStatus): the enumeration.
PipelineStatus == {"CREATED", "SCHEDULED", "RUNNING", "FAILED", "COMPLETE", "CANCELED"}

TerminalStatuses == {"FAILED", "COMPLETE", "CANCELED"}

\* _ALLOWED_TRANSITIONS of resolution.py, for a pipeline run that exists.
StatusTransitions ==
  [s \in PipelineStatus |->
     CASE s = "CREATED"   -> {"SCHEDULED", "FAILED", "CANCELED"}
       [] s = "SCHEDULED" -> {"RUNNING", "FAILED", "CANCELED"}
       [] s = "RUNNING"   -> {"COMPLETE", "FAILED", "CANCELED"}
       [] OTHER           -> {}]

\* Resolution.update_with: the status a save leaves behind.  A disallowed
\* transition is refused by the server and leaves the row as it was.
UpdateStatus(from, to) == IF to \in StatusTransitions[from] THEN to ELSE from
=============================================================================
