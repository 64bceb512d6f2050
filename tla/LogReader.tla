------------------------------ MODULE LogReader ------------------------------
(***************************************************************************)
(* How log files are read back: load_log_lines as operators on the files   *)
(* of a run.  A file is a sequence of lines; files are numbered in the     *)
(* order of their names, lines from 0 as in the code.  What a line says is *)
(* abstracted to what matters to the reader: it starts or ends the run     *)
(* asked for (the indicators the runner prints around an inline run), or   *)
(* it matches the filter strings, or it does not.                          *)
(***************************************************************************)
EXTENDS FutureStates, Integers, Sequences, SequencesExt, FiniteSetsExt

Line == {"start", "end", "match", "other"}

CONSTANTS
  EndIndex, \* DEFAULT_END_INDEX: beyond every line
  None      \* no token

NoFile == 0

\* source_log_key, source_file_line_index, traversal_had_lines
Cursor(f, i, had) == [file |-> f, index |-> i, had |-> had]

\* Cursor.nothing_found
NothingFound(reverse) == Cursor(NoFile, IF reverse THEN EndIndex ELSE -1, FALSE)

\* LogLineResult without its message.  A position stands for a line and for
\* its id; the can_continue flags are kept apart from the tokens.
Result(fwd, back, lines, ftoken, rtoken) ==
  [can_continue_forward |-> fwd, can_continue_backward |-> back, lines |-> lines,
   forward_cursor_token |-> ftoken, reverse_cursor_token |-> rtoken]

\* to_line_id: by file, then by index.
Before(p, q) == p.file < q.file \/ (p.file = q.file /\ p.index < q.index)

-----------------------------------------------------------------------------
(* Streams of lines. *)

\* The elements of s at some of its places, in order.
At(s, places) == FlattenSeq([i \in DOMAIN s |-> IF i \in places THEN <<s[i]>> ELSE <<>>])

LinesOf(file, lines) == [i \in DOMAIN lines |-> [file |-> file, index |-> i - 1, line |-> lines[i]]]
AllLines(files) == FlattenSeq([f \in DOMAIN files |-> LinesOf(f, files[f])])

\* Mutant: going forward leaves out the line the cursor points to.
FromIndexAfter(p, cursor, reverse) ==
  IF reverse THEN p.index < cursor.index ELSE p.index > cursor.index

\* _stream_from_text_stream_from_index: forward the line at the index is
\* included, in reverse it is not.
FromIndex(p, cursor, reverse) ==
  IF reverse THEN p.index < cursor.index ELSE p.index >= cursor.index

\* line_stream_from_log_directory: the file of the cursor from its index on,
\* the files after it (before it, in reverse) as a whole.
InScope(p, cursor, reverse) ==
  \/ cursor.file = NoFile
  \/ IF reverse THEN p.file < cursor.file ELSE p.file > cursor.file
  \/ p.file = cursor.file /\ FromIndex(p, cursor, reverse)

LineStream(files, cursor, reverse) ==
  LET all   == AllLines(files)
      scope == At(all, {i \in DOMAIN all : InScope(all[i], cursor, reverse)})
  IN  IF reverse THEN Reverse(scope) ELSE scope

\* _filter_for_inline: what lies between the indicators.  The end of the
\* lines ends an inline run whose end was never printed.
ExpectedStart(reverse) == IF reverse THEN "end" ELSE "start"
ExpectedEnd(reverse) == IF reverse THEN "start" ELSE "end"

FilterForInline(stream, skip_start, reverse) ==
  LET first == IF skip_start THEN 0
               ELSE Min({i \in DOMAIN stream : stream[i].line = ExpectedStart(reverse)}
                        \cup {Len(stream)})
      last  == Min({i \in DOMAIN stream : i > first /\ stream[i].line = ExpectedEnd(reverse)}
                   \cup {Len(stream) + 1})
  IN  At(stream, {i \in (first + 1)..(last - 1) : stream[i].line # ExpectedStart(reverse)})

-----------------------------------------------------------------------------
(* get_log_lines_from_line_stream *)

\* The lines of a page: the first max_lines that pass the filter, or fewer,
\* but at least one, when the time limit is reached.
Found(stream, filtered) ==
  IF filtered THEN At(stream, {i \in DOMAIN stream : stream[i].line = "match"}) ELSE stream

Pages(stream, filtered, max_lines) ==
  LET found == Found(stream, filtered)
      full  == Min({Len(found), max_lines})
  IN  {[lines |-> SubSeq(found, 1, full), timed_out |-> FALSE]} \cup
      {[lines |-> SubSeq(found, 1, k), timed_out |-> TRUE] : k \in 1..full}

\* Mutant: forward goes on at the last line shown instead of after it.
AtLine(p, had) == Cursor(p.file, p.index, had)

\* The cursor forward goes on at after line p.
AfterLine(p, had) == Cursor(p.file, p.index + 1, had)

\* The result made of a page.  Forward goes on after the latest line of the
\* page, reverse at the earliest; an empty page leaves the cursor where it
\* was: for the other direction always, for forward while the run lasts.
PageResult(page, cursor, still_running, max_lines, reverse) ==
  LET lines    == page.lines
      had      == cursor.had \/ lines # <<>>
      limit    == Len(lines) = max_lines \/ page.timed_out
      latest   == IF reverse THEN lines[1] ELSE lines[Len(lines)]
      earliest == IF reverse THEN lines[Len(lines)] ELSE lines[1]
      forward  == IF lines # <<>> THEN AfterLine(latest, had)
                  ELSE IF reverse \/ still_running THEN cursor ELSE NothingFound(FALSE)
      backward == IF lines # <<>> THEN Cursor(earliest.file, earliest.index, had)
                  ELSE IF reverse THEN NothingFound(TRUE) ELSE cursor
      ftoken   == IF forward.file # NoFile /\ (reverse \/ limit \/ still_running)
                  THEN forward ELSE None
      rtoken   == IF backward.file # NoFile /\ (~ reverse \/ limit) THEN backward ELSE None
  IN  Result(ftoken # None, rtoken # None,
             IF reverse THEN Reverse(lines) ELSE lines, ftoken, rtoken)

\* "No log files found", "Runner logs are missing"
NoFiles(still_running) ==
  Result(still_running, FALSE, <<>>,
         IF still_running THEN NothingFound(FALSE) ELSE None, None)

\* _load_non_inline_logs
LoadNonInlineLogs(files, still_running, cursor, max_lines, filtered, reverse) ==
  IF files = <<>> THEN {NoFiles(still_running)}
  ELSE {PageResult(page, cursor, still_running, max_lines, reverse) :
          page \in Pages(LineStream(files, cursor, reverse), filtered, max_lines)}

\* _load_inline_logs: the files are the runner's; for a runner that is not in
\* a pod there are none.
LoadInlineLogs(files, local, still_running, cursor, max_lines, filtered, reverse) ==
  IF local THEN {Result(FALSE, FALSE, <<>>, None, None)}
  ELSE IF files = <<>> THEN {NoFiles(still_running)}
  ELSE {PageResult(page, cursor, still_running, max_lines, reverse) :
          page \in Pages(FilterForInline(LineStream(files, cursor, reverse), cursor.had, reverse),
                         filtered, max_lines)}

\* The first part of load_log_lines: the run or the pipeline run has not
\* started.
NotStarted(forward_token) ==
  Result(TRUE, FALSE, <<>>,
         IF forward_token = None THEN NothingFound(FALSE) ELSE forward_token, None)

\* Without a cursor it is the initial pull, which knows what lies in the
\* direction it came from.
InitialPull(r, run, reverse) ==
  IF reverse THEN [r EXCEPT !.can_continue_forward = ~ IsTerminal(run.state)]
  ELSE [r EXCEPT !.can_continue_backward = FALSE]

LoadLogLines(run, files, ftoken, rtoken, max_lines, filtered, reverse) ==
  LET still_running == ~ (IsTerminal(run.state) \/ run.state = "RAN")
      token  == IF reverse THEN rtoken ELSE ftoken
      cursor == IF token = None THEN NothingFound(reverse) ELSE token
  IN  IF run.state = "CREATED" \/ run.pipeline \in {"CREATED", "SCHEDULED"}
      THEN {NotStarted(ftoken)}
      ELSE {IF ftoken = None /\ rtoken = None THEN InitialPull(r, run, reverse) ELSE r : r \in
             IF run.inline
             THEN LoadInlineLogs(files, run.local, still_running, cursor, max_lines, filtered, reverse)
             ELSE LoadNonInlineLogs(files, still_running, cursor, max_lines, filtered, reverse)}
=============================================================================
