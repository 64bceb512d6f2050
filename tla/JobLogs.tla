------------------------------- MODULE JobLogs -------------------------------
(***************************************************************************)
(* The logs of one run, from the process that prints them to the people    *)
(* who read them: LogStreamer takes the output to storage while the        *)
(* command `sematic logs` or the log view of the dashboard reads it with   *)
(* LogReader, and the run goes through its states on the server.           *)
(*                                                                         *)
(* The run is that of a standalone function, whose worker's output is the  *)
(* run's, or inline, a part of the runner's output between two indicators. *)
(* A reader's call reads the run before it reads the files.                *)
(***************************************************************************)
EXTENDS LogReader

CONSTANTS
  Scenarios,    \* per behaviour: whether the run is inline (has no job of its
                \* own), and bounds on the times its function is called and on
                \* the lines printed, indicators aside
  MaxFileLines, PipeSize, MaxFailures,
  PageLines,    \* max_lines of a request
  MaxRequests,  \* bound: requests of the log view
  Clients       \* who reads: "follow", "show" (sematic logs), "view"

ReaderAssumption ==
  /\ PageLines \in Nat \ {0}
  /\ None \notin [file : Nat, index : Int, had : BOOLEAN]
ASSUME ReaderAssumption

VARIABLES
  printed, pipe, delta, previous, files, streamer, terminated, worker, tail, failures,
  scenario, \* one of Scenarios
  run,      \* state of the run on the server
  phase,    \* where the process is in the run
  attempts, \* calls of the function so far
  client,   \* who reads
  request,  \* the command's call under way: the run's state as it was read
  cursor,   \* logs(): cursor; forwardCursorToken of the log view
  rcursor,  \* reverseCursorToken
  shown,    \* the lines on the terminal or in the view
  more,     \* has_more; canContinueForward
  moreback, \* canContinueBackward
  over,     \* the command has ended
  requests  \* requests of the view so far

Log == INSTANCE LogStreamer WITH Lines <- Line, EOT <- "EOT"

logVars == <<printed, pipe, delta, previous, files, streamer, terminated, worker, tail, failures>>
Inline == scenario.inline

process == <<scenario, run, phase, attempts>>
reader  == <<client, request, cursor, rcursor, shown, more, moreback, over, requests>>
vars    == <<logVars, process, reader>>

NoRequest == "none"

Init ==
  /\ Log!StreamInit
  /\ scenario \in Scenarios
  /\ run = "CREATED" /\ phase = "before" /\ attempts = 0
  /\ client \in Clients
  /\ request = NoRequest
  /\ cursor = None /\ rcursor = None /\ shown = <<>>
  /\ more = TRUE /\ moreback = FALSE /\ over = FALSE /\ requests = 0

-----------------------------------------------------------------------------
(* The process. *)

CanPrint == Len(SelectSeq(printed, LAMBDA l : l \in {"match", "other"})) < scenario.lines

\* Whatever is printed outside of the function: the worker's own lines, the
\* runner's, other inline runs'.
PrintElsewhere ==
  /\ phase # "inside" /\ CanPrint
  /\ Log!Write("other")
  /\ UNCHANGED <<process, reader>>

PrintInside ==
  /\ phase = "inside" /\ CanPrint
  /\ \E l \in {"match", "other"} : Log!Write(l)
  /\ UNCHANGED <<process, reader>>

\* SilentRunner._run_inline, or the runner that schedules a job.
Schedule ==
  /\ phase = "before" /\ run \in {"CREATED", "RETRYING"} /\ worker = "running"
  /\ run' = "SCHEDULED" /\ attempts' = attempts + 1
  /\ phase' = IF Inline THEN "scheduled" ELSE "inside"
  /\ UNCHANGED <<logVars, scenario, reader>>

\* _start_inline_execution
StartInlineExecution ==
  /\ phase = "scheduled"
  /\ Log!Write("start")
  /\ phase' = "inside"
  /\ UNCHANGED <<scenario, run, attempts, reader>>

\* The function ends and the run is saved (RESOLVED stands for every terminal
\* state); an inline run that failed may be
\* retried.
SaveRun ==
  /\ phase = "inside" /\ worker = "running"
  /\ \/ run' \in {"RESOLVED", "RAN"}
     \/ Inline /\ attempts < scenario.attempts /\ run' = "RETRYING"
  /\ phase' = "saved"
  /\ UNCHANGED <<logVars, scenario, attempts, reader>>

\* _end_inline_execution
EndInlineExecution ==
  /\ Inline /\ phase = "saved"
  /\ Log!Write("end")
  /\ phase' = IF run = "RETRYING" THEN "before" ELSE "after"
  /\ UNCHANGED <<scenario, run, attempts, reader>>

\* The process leaves ingested_logs.
Leave ==
  /\ phase = "after" \/ (~ Inline /\ phase = "saved")
  /\ Log!LeaveContext
  /\ UNCHANGED <<process, reader>>

Terminate == Log!SigTerm /\ UNCHANGED <<process, reader>>

\* The worker was taken down before the run ended: the server notices.
RunFails ==
  /\ Log!Over /\ run \notin {"RESOLVED", "RAN"}
  /\ run' = "RESOLVED"
  /\ UNCHANGED <<logVars, scenario, phase, attempts, reader>>

Streams ==
  /\ Log!Streamer \/ Log!StreamerGone \/ Log!KillStreamer \/ Log!PodDies
  /\ UNCHANGED <<process, reader>>

-----------------------------------------------------------------------------
(* The command. *)

Run(state) == [state |-> state, inline |-> Inline, local |-> FALSE,
               pipeline |-> IF Inline \/ state # "CREATED" THEN "RUNNING" ELSE "SCHEDULED"]

\* logs(): the next call of load_log_lines.
CommandLoads ==
  /\ client \in {"follow", "show"} /\ ~ over /\ more /\ request = NoRequest
  /\ request' = run
  /\ UNCHANGED <<logVars, process, client, cursor, rcursor, shown, more, moreback, over, requests>>

\* What it does with the answer.
CommandShows ==
  /\ client \in {"follow", "show"} /\ request # NoRequest
  /\ request' = NoRequest
  /\ \E r \in LoadLogLines(Run(request), files, cursor, None, PageLines, FALSE, FALSE) :
       /\ more' = r.can_continue_forward
       /\ shown' = shown \o r.lines
       /\ cursor' = IF r.lines = <<>> THEN cursor ELSE r.forward_cursor_token
       /\ over' = (~ more' \/ (r.lines = <<>> /\ client = "show"))
  /\ UNCHANGED <<logVars, process, client, rcursor, moreback, requests>>

-----------------------------------------------------------------------------
(* The log view of the dashboard. *)

\* get_logs_endpoint, with the view's filter string.
GetLogs(ftoken, rtoken, reverse) ==
  LoadLogLines(Run(run), files, ftoken, rtoken, PageLines, TRUE, reverse)

\* pruneLines
PruneLines(lines) == At(lines, {i \in DOMAIN lines : \A j \in DOMAIN shown : shown[j] # lines[i]})

\* kickOff: fetchBeginning and fetchEnd
KickOff(reverse) ==
  \E r \in GetLogs(None, None, reverse) :
    /\ shown' = r.lines
    /\ more' = r.can_continue_forward /\ moreback' = r.can_continue_backward
    /\ cursor' = r.forward_cursor_token /\ rcursor' = r.reverse_cursor_token

\* getNext.  A token that is null is sent as a word, which the server cannot
\* decode: an error, the view stays as it is.
GetNext ==
  \/ cursor = None /\ UNCHANGED <<shown, more, moreback, cursor, rcursor>>
  \/ /\ cursor # None
     /\ \E r \in GetLogs(cursor, None, FALSE) :
          /\ shown' = shown \o PruneLines(r.lines)
          /\ more' = r.can_continue_forward /\ cursor' = r.forward_cursor_token
     /\ UNCHANGED <<moreback, rcursor>>

\* getPrev
GetPrev ==
  /\ \E r \in GetLogs(None, rcursor, TRUE) :
       /\ shown' = PruneLines(r.lines) \o shown
       /\ moreback' = r.can_continue_backward /\ rcursor' = r.reverse_cursor_token
  /\ UNCHANGED <<more, cursor>>

\* BidirectionalLogView: the first page when it opens, then its buttons.  One
\* request is one step here, what can come between its reads is left to the
\* command.
View ==
  /\ client = "view" /\ requests < MaxRequests
  /\ \/ (requests = 0 \/ moreback) /\ KickOff(FALSE)
     \/ requests > 0 /\ more /\ (KickOff(TRUE) \/ GetNext)
     \/ moreback /\ GetPrev
  /\ requests' = requests + 1
  /\ UNCHANGED <<logVars, process, client, request, over>>

-----------------------------------------------------------------------------

Done ==
  /\ Log!Over \/ Log!Stuck
  /\ UNCHANGED vars

Next ==
  \/ PrintElsewhere \/ PrintInside \/ Schedule \/ StartInlineExecution \/ SaveRun
  \/ EndInlineExecution \/ Leave \/ Terminate \/ RunFails \/ Streams
  \/ CommandLoads \/ CommandShows \/ View
  \/ Done

Spec == Init /\ [][Next]_vars

-----------------------------------------------------------------------------
(* Properties. *)

TypeOK ==
  /\ Log!StreamTypeOK
  /\ scenario \in Scenarios /\ run \in FutureState
  /\ phase \in {"before", "scheduled", "inside", "saved", "after"} /\ attempts \in 0..scenario.attempts
  /\ client \in Clients /\ request \in FutureState \cup {NoRequest}
  /\ {cursor, rcursor} \subseteq {None} \cup [file : DOMAIN files, index : Nat, had : BOOLEAN]
                                   \cup {NothingFound(FALSE)}
  /\ shown \in Seq([file : DOMAIN files, index : Nat, line : Line])
  /\ {more, moreback, over} \subseteq BOOLEAN /\ requests \in 0..MaxRequests

\* Storage holds what was printed, whatever the readers do: each line in the
\* order printed, and all of them once a worker has ended without an error.
NothingLost == Log!NothingLost

\* The lines of the attempt a reader that starts at the beginning is shown, or
\* (in reverse) of the last one that ended.
RunLines(reverse, filtered) ==
  LET all == LineStream(files, NothingFound(reverse), reverse)
  IN  Found(IF Inline THEN FilterForInline(all, FALSE, reverse) ELSE all, filtered)

\* The command shows the lines of the run from the first on, in order, none
\* twice and none left out, however its calls and the uploads interleave.
CommandShowsInOrder ==
  client # "view" => IsPrefix(shown, RunLines(FALSE, FALSE))

\* What the view shows is one stretch of the matching lines of the run,
\* however its pages were fetched.
ViewHasNoGaps ==
  client = "view" =>
    /\ \A i, j \in DOMAIN shown : i < j => Before(shown[i], shown[j])
    /\ \A reverse \in BOOLEAN :
         LET all == RunLines(reverse, TRUE) IN
         shown # <<>> /\ shown[1] \in Range(all) =>
           \A i \in DOMAIN all :
             Before(shown[1], all[i]) /\ Before(all[i], shown[Len(shown)]) => all[i] \in Range(shown)
=============================================================================
