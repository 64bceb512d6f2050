----------------------------- MODULE LogStreamer -----------------------------
(***************************************************************************)
(* How the output of a worker reaches storage.  Inside ingested_logs the   *)
(* worker's stdout is a pipe; a child process, the streamer, reads it line *)
(* by line into a file and uploads the file every few seconds, each upload *)
(* a new file holding only the lines since the last one.                   *)
(*                                                                         *)
(* A line is written to the pipe at once, and what a line says is of no    *)
(* interest here, except for the end of transmission (EOT) with which the  *)
(* worker stops the streamer.                                              *)
(***************************************************************************)
EXTENDS Integers, Sequences, SequencesExt

CONSTANTS
  Lines,        \* what the worker may print
  EOT,          \* _TERMINATION_CHAR on a line of its own
  MaxFileLines, \* MAX_LINES_PER_LOG_FILE
  PipeSize,     \* lines the pipe holds before a write blocks
  MaxFailures   \* bound: uploads that fail for good

StreamerAssumption ==
  /\ EOT \notin Lines
  /\ MaxFileLines \in Nat \ {0} /\ PipeSize \in Nat \ {0} /\ MaxFailures \in Nat

VARIABLES
  printed,    \* every line the worker printed, in order (history)
  pipe,       \* lines written and not yet read
  delta,      \* the file at file_path
  previous,   \* the last non-empty delta, kept for the tail
  files,      \* the log files in storage; their names sort in this order
  streamer,   \* the child process
  terminated, \* received_stream_termination
  worker,     \* the parent process, as far as its logs are concerned
  tail,       \* what _tail_log_file printed to the original stdout
  failures    \* uploads that failed

streamVars == <<printed, pipe, delta, previous, files, streamer, terminated, worker, tail, failures>>

\* The parent returned from os.fork, the child has opened its first file.
StreamInit ==
  /\ printed = <<>> /\ pipe = <<>> /\ delta = <<>> /\ previous = <<>> /\ files = <<>>
  /\ streamer = "reading" /\ terminated = FALSE /\ worker = "running"
  /\ tail = <<>> /\ failures = 0

StreamerAlive == streamer \in {"reading", "uploading"}
Over == worker \in {"ended", "ended with error", "dead"}
HasRoom == Len(pipe) < PipeSize

\* The worker prints.  A write to a full pipe blocks: the parent keeps its own
\* copy of the read end open, so a dead reader is no error.
Write(l) ==
  /\ worker = "running" /\ HasRoom
  /\ printed' = Append(printed, l) /\ pipe' = Append(pipe, l)
  /\ UNCHANGED <<delta, previous, files, streamer, terminated, worker, tail, failures>>

\* _flush_to_file up to the upload.
ReadLine ==
  /\ streamer = "reading" /\ pipe # <<>>
  /\ pipe' = Tail(pipe)
  /\ \/ /\ Head(pipe) = EOT
        /\ terminated' = TRUE /\ streamer' = "uploading"
        /\ UNCHANGED delta
     \/ /\ Head(pipe) # EOT
        /\ delta' = Append(delta, Head(pipe))
        /\ streamer' = IF Len(delta') >= MaxFileLines THEN "uploading" ELSE "reading"
        /\ UNCHANGED terminated
  /\ UNCHANGED <<printed, previous, files, worker, tail, failures>>

\* timeout_seconds is over; an empty delta changes nothing (_do_upload).
IntervalEnds ==
  /\ streamer = "reading" /\ delta # <<>>
  /\ streamer' = "uploading"
  /\ UNCHANGED <<printed, pipe, delta, previous, files, terminated, worker, tail, failures>>

\* _do_upload: the name is the time of the upload, an empty file is skipped.
Uploaded == IF delta = <<>> THEN files ELSE Append(files, delta)

\* Mutant: the file is not reset between uploads.
NextDeltaKept ==
  /\ previous' = IF delta = <<>> THEN previous ELSE delta
  /\ UNCHANGED delta

\* The next call of _flush_to_file puts a non-empty file aside.
NextDelta ==
  /\ previous' = IF delta = <<>> THEN previous ELSE delta
  /\ delta' = <<>>

\* _stream_logs_to_remote_from_file_descriptor: after an upload the process
\* exits or starts over.
Upload ==
  /\ streamer = "uploading"
  /\ files' = Uploaded
  /\ \/ terminated /\ streamer' = "exited" /\ UNCHANGED <<delta, previous>>
     \/ ~ terminated /\ streamer' = "reading" /\ NextDelta
  /\ UNCHANGED <<printed, pipe, terminated, worker, tail, failures>>

\* The uploader raises after its retries, and nothing catches it.
UploadFails ==
  /\ streamer = "uploading" /\ delta # <<>> /\ failures < MaxFailures
  /\ failures' = failures + 1 /\ streamer' = "crashed"
  /\ UNCHANGED <<printed, pipe, delta, previous, files, terminated, worker, tail>>

\* _clean_up_streamer: at the end of the context ("waiting"), or in the
\* handler of SIGTERM ("stopping").
CleanUp(next) ==
  /\ worker = "running" /\ HasRoom
  /\ pipe' = Append(pipe, EOT) /\ worker' = next
  /\ UNCHANGED <<printed, delta, previous, files, streamer, terminated, tail, failures>>

LeaveContext == CleanUp("waiting")
SigTerm == streamer # "exited" /\ CleanUp("stopping")

\* _tail_log_file
TailLogFile == tail' = previous \o delta

\* The end of _clean_up_streamer.  Out of the handler the worker goes on,
\* without a streamer: SIG_DFL cannot be called, so call_signal_handler does
\* nothing.  A streamer that died makes it raise.
CleanedUp(ok) ==
  \/ /\ worker = "waiting" /\ TailLogFile
     /\ worker' = IF ok THEN "ended" ELSE "ended with error"
  \/ /\ worker = "stopping"
     /\ \/ ok /\ worker' = "running" /\ UNCHANGED tail
        \/ ~ ok /\ worker' = "ended with error" /\ TailLogFile

\* _wait_or_kill_streamer while the streamer is on its way out.
StreamerGone ==
  /\ worker \in {"waiting", "stopping"} /\ ~ StreamerAlive
  /\ CleanedUp(streamer # "crashed")
  /\ UNCHANGED <<printed, pipe, delta, previous, files, streamer, terminated, failures>>

\* ... and when its time is over: SIGKILL.
KillStreamer ==
  /\ worker \in {"waiting", "stopping"} /\ StreamerAlive
  /\ streamer' = "killed"
  /\ CleanedUp(FALSE)
  /\ UNCHANGED <<printed, pipe, delta, previous, files, terminated, failures>>

\* A worker that has to write to a full pipe nobody reads stays there.
Stuck == worker = "running" /\ ~ HasRoom /\ streamer \in {"crashed", "exited"}

\* The pod is gone: out of memory, or SIGKILL after the grace period.
PodDies ==
  /\ worker \in {"running", "stopping", "waiting"}
  /\ worker' = "dead"
  /\ streamer' = IF StreamerAlive THEN "killed" ELSE streamer
  /\ UNCHANGED <<printed, pipe, delta, previous, files, terminated, tail, failures>>

Streamer == ReadLine \/ IntervalEnds \/ Upload \/ UploadFails

-----------------------------------------------------------------------------
(* Properties. *)

StreamTypeOK ==
  /\ printed \in Seq(Lines) /\ pipe \in Seq(Lines \cup {EOT}) /\ Len(pipe) <= PipeSize
  /\ delta \in Seq(Lines) /\ previous \in Seq(Lines) /\ files \in Seq(Seq(Lines))
  /\ streamer \in {"reading", "uploading", "exited", "crashed", "killed"}
  /\ worker \in {"running", "stopping", "waiting", "ended", "ended with error", "dead"}
  /\ terminated \in BOOLEAN /\ tail \in Seq(Lines) /\ failures \in Nat

\* Storage holds what was printed: as long as the streamer lives each line is
\* in storage, in the delta or in the pipe, once and in order; a worker that
\* ends without an error, and was not sent SIGTERM, has all its lines in
\* storage, and the tail it leaves on the pod's own output is the end of them.
InStorage == FlattenSeq(files)

\* The lines in the pipe: an EOT comes after them.
Unread == IF pipe # <<>> /\ Last(pipe) = EOT THEN Front(pipe) ELSE pipe

NothingLost ==
  /\ StreamerAlive => printed = InStorage \o delta \o Unread
  /\ IsPrefix(InStorage, printed)
  /\ worker = "ended" /\ pipe = <<>> =>
       InStorage = printed /\ IsSuffix(tail, printed) /\ (printed # <<>> => tail # <<>>)
=============================================================================
