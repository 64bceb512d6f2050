------------------------------ MODULE MCJobLogs ------------------------------
(***************************************************************************)
(* A run with a handful of lines for TLC.                                  *)
(***************************************************************************)
EXTENDS JobLogs

Scenario(inline, calls, lines) == [inline |-> inline, attempts |-> calls, lines |-> lines]

\* Inline and retried, inline with one line more, standalone.
SmallRuns == {Scenario(TRUE, 2, 2), Scenario(TRUE, 1, 3), Scenario(FALSE, 1, 3)}

ASSUME Log!StreamerAssumption
=============================================================================
