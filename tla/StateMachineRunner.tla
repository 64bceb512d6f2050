------------------------- MODULE StateMachineRunner -------------------------
(***************************************************************************)
(* The loop that executes a pipeline: StateMachineRunner with the hooks of *)
(* SilentRunner (inline execution), LocalRunner (every state change is     *)
(* saved to the server) and CloudRunner (standalone functions run as jobs).*)
(*                                                                         *)
(* The runner is one process.  It interleaves with the workers of the jobs *)
(* it started, with the cancellation endpoint of the server, with signals, *)
(* with the clocks of timeouts, and with the eviction and restart of its   *)
(* own pod.  A call of the runner to the server is one step of the model,  *)
(* the signals that can interrupt the runner come between steps.           *)
(*                                                                         *)
(* A future is a number: the root is 1, and a function that returns        *)
(* futures makes the next numbers, arguments before the futures that use   *)
(* them, the way Python evaluates the call.                                *)
(***************************************************************************)
EXTENDS FutureStates, Sequences, Integers, FiniteSets

CONSTANTS
  MaxFutures,     \* bound: futures a pipeline makes
  MaxSubgraph,    \* bound: futures one function call returns
  Standalone,     \* futures of standalone functions (run as jobs)
  Cached,         \* futures whose cache key may hit an earlier run
  Timed,          \* futures with timeout_mins
  Retries,        \* RetrySettings.retries of each future (0: no settings)
  MaxParallelism, \* max_parallelism (0: None)
  RunsRemotely,   \* _is_running_remotely: the runner is a pod
  MaxEvictions    \* bound: how often the runner's pod goes away

Ids == 1..MaxFutures
Root == 1
NoFuture == 0

ASSUME ConstantsAssumption ==
  /\ MaxFutures \in Nat \ {0}
  /\ MaxSubgraph \in Nat
  /\ Standalone \subseteq Ids
  /\ Cached \subseteq Ids
  /\ Timed \subseteq Ids
  /\ Retries \in [Ids -> Nat]
  /\ MaxParallelism \in Nat
  /\ RunsRemotely \in BOOLEAN
  /\ MaxEvictions \in Nat

VARIABLES
  fut,       \* the future objects in the runner's memory
  futures,   \* _futures: the order in which a pass visits them
  run,       \* future_state of each row of the runs table ("NONE": no row)
  jobs,      \* per run: live workers, and workers whose deletion was requested
  status,    \* status of the pipeline run (resolutions table)
  pc,        \* where the runner is
  error,     \* the error that ended the loop
  cursor,    \* the pass's position in _futures
  changed,   \* state_changed of the pass
  work,      \* run ids whose output the wait still has to process
  current,   \* the future being executed, or whose output is being processed
  armed,     \* the future whose timeout the wait's alarm stands for
  canceling, \* the server broadcast a cancellation not yet received
  evictions  \* how often the pod went away

memory  == <<fut, futures>>
server  == <<run, jobs, status>>
control == <<pc, cursor, changed, work, current, armed, error>>
env     == <<canceling, evictions>>
vars    == <<memory, server, control, env>>

FutureObject ==
  [state : FutureState \cup {"NONE"}, kwargs : SUBSET Ids,
   parent : Ids \cup {NoFuture}, nested : Ids \cup {NoFuture},
   value : BOOLEAN, retry_count : Nat, clock : {"off", "on", "expired"}]

\* Where the loop can be interrupted, and where run() has ended.
Active == {"loop", "pass", "executing", "nesting", "waiting", "processing"}
Errors == {"none", "PipelineRunError", "RunnerRestartError", "BadRequest", "NoKnownValue",
           "NoNestedFuture", "ResourceNotFoundError", "NotImplementedError", "CancellationError"}
Ended  == {"succeeded", "failed", "canceled"}

\* AbstractFuture.__init__
NewFuture == [state |-> "CREATED", kwargs |-> {}, parent |-> NoFuture,
              nested |-> NoFuture, value |-> FALSE, retry_count |-> 0, clock |-> "off"]
NotMade   == [NewFuture EXCEPT !.state = "NONE"]

Init ==
  /\ fut = [f \in Ids |-> IF f = Root THEN NewFuture ELSE NotMade]
  /\ futures = <<Root>>
  /\ run = [f \in Ids |-> IF f = Root THEN "CREATED" ELSE "NONE"]
  /\ jobs = [f \in Ids |-> [live |-> 0, doomed |-> 0]]
  /\ status = "SCHEDULED"
  /\ pc = "starting" /\ cursor = 1 /\ changed = FALSE
  /\ work = {} /\ current = NoFuture /\ armed = NoFuture /\ error = "none"
  /\ canceling = FALSE /\ evictions = 0

-----------------------------------------------------------------------------
(* Futures in memory. *)

\* The state setter of AbstractFuture: SCHEDULED starts the timeout's clock
\* unless it is already running, a terminal state or a retry stops it.
SetState(F, f, s) ==
  [F EXCEPT ![f].state = s,
            ![f].clock = IF IsTerminal(s) \/ s = "RETRYING" THEN "off"
                         ELSE IF s = "SCHEDULED" /\ f \in Timed /\ @ = "off"
                              THEN "on" ELSE @]

\* remaining_timeout_seconds is None for a future in a terminal state.
Limited(F, f) == F[f].clock # "off" /\ ~ IsTerminal(F[f].state)
Expired(F, f) == Limited(F, f) /\ F[f].clock = "expired"

\* get_future_call_chain without the future itself.  A parent is made before
\* the futures its function returns.
Ancestors(F, f) ==
  LET above[g \in 0..MaxFutures] ==
        {g} \cup (IF g # NoFuture /\ F[g].parent < g THEN above[F[g].parent] ELSE {})
  IN  Ids \cap above[F[f].parent]

\* Mutant: any for all.
ConcreteKwargsAny(f) ==
  \/ fut[f].kwargs = {}
  \/ \E k \in fut[f].kwargs : fut[k].state = "RESOLVED"
ConcreteKwargs(f) == \A k \in fut[f].kwargs : fut[k].state = "RESOLVED"

\* Mutant: one job too many.
CanScheduleOneMore(f) ==
  \/ f \notin Standalone
  \/ MaxParallelism = 0
  \/ Cardinality({g \in Ids : fut[g].state = "SCHEDULED"}) <= MaxParallelism

\* _get_remote_runs_count, _can_schedule_future
CanSchedule(f) ==
  \/ f \notin Standalone
  \/ MaxParallelism = 0
  \/ Cardinality({g \in Ids : fut[g].state = "SCHEDULED"}) < MaxParallelism

Unmade == {f \in Ids : fut[f].state = "NONE"}

\* What a function call that returns futures made: the new futures up to
\* top, the returned one; each of the others is an argument of a later one.
IsSubgraph(S, top, kw) ==
  /\ \A g \in S : kw[g] \subseteq {k \in S : k < g}
  /\ \A g \in S \ {top} : \E h \in S : g \in kw[h]

\* _enqueue_future: the returned future first, then whatever is reached from
\* it through kwargs.
IsEnqueueOrder(top, kw, order) ==
  /\ order[1] = top
  /\ \A i, j \in DOMAIN order : order[i] = order[j] => i = j
  /\ \A i \in DOMAIN order \ {1} : \E j \in 1..(i-1) : order[i] \in kw[order[j]]

-----------------------------------------------------------------------------
(* Rows on the server. *)

\* Every run of a set that is not terminal moves to CANCELED.
CancelNonTerminal(R) ==
  [f \in Ids |-> IF R[f] = "NONE" \/ IsTerminal(R[f]) THEN R[f] ELSE "CANCELED"]

\* save_graph_endpoint, _cancel_non_terminal_runs: once the rows are saved,
\* the jobs of the ones that are now terminal are deleted.  A worker learns
\* of it later (PodKilled).
SaveRuns(R) ==
  /\ run' = R
  /\ jobs' = [f \in Ids |->
                IF R[f] # run[f] /\ IsTerminal(R[f])
                THEN [live |-> 0, doomed |-> jobs[f].doomed + jobs[f].live]
                ELSE jobs[f]]

-----------------------------------------------------------------------------
(* How run() ends. *)

\* Mutant: only the root's run is moved.
MoveRootToTerminalState(R) ==
  [f \in Ids |-> IF f = Root /\ ~ IsTerminal(R[f]) THEN "FAILED" ELSE R[f]]

\* _move_runs_to_terminal_state: the root is failed, the others canceled.
MoveRunsToTerminalState(R) ==
  [f \in Ids |-> IF R[f] = "NONE" \/ IsTerminal(R[f]) THEN R[f]
                 ELSE IF f = Root THEN "FAILED" ELSE "CANCELED"]

Ends(how) ==
  /\ pc' = how /\ work' = {} /\ current' = NoFuture /\ armed' = NoFuture
  /\ UNCHANGED <<cursor, changed>>

\* _catch_pipeline_run_errors, _pipeline_run_did_fail: an error left the loop
\* with futures F and rows R; e says which.
PipelineRunDidFail(F, R, e) ==
  /\ fut' = F
  /\ error' = e
  /\ SaveRuns(MoveRunsToTerminalState(R))
  /\ status' = UpdateStatus(status, "FAILED")
  /\ Ends("failed")
  /\ UNCHANGED <<futures, env>>

\* _fail_future_and_parents
FailFutureAndParents(F, f) ==
  LET failed == SetState(F, f, "FAILED")
  IN  [g \in Ids |-> IF g \in Ancestors(F, f) \ {f}
                     THEN SetState(failed, g, "NESTED_FAILED")[g] ELSE failed[g]]

\* The rows that _future_did_fail saves for them.
FailRunAndParents(F, R, f) ==
  [g \in Ids |-> IF g = f THEN "FAILED"
                 ELSE IF g \in Ancestors(F, f) THEN "NESTED_FAILED" ELSE R[g]]

\* RetrySettings.should_retry: retriable says whether the exception is known
\* and matches the exceptions to retry for.
ShouldRetry(F, f, retriable) == retriable /\ F[f].retry_count < Retries[f]

\* Mutants: the retry is not counted, is taken off the count, or leaves the
\* state as it is.
MarkForRetryUncounted(F, f) == SetState(F, f, "RETRYING")
MarkForRetryLess(F, f) == [SetState(F, f, "RETRYING") EXCEPT ![f].retry_count = @ - 1]
MarkForRetryScheduled(F, f) == [F EXCEPT ![f].retry_count = @ + 1]

MarkForRetry(F, f) == [SetState(F, f, "RETRYING") EXCEPT ![f].retry_count = @ + 1]

\* Mutant: the failure is recorded, and the loop goes on.
HandleFailureQuietly(F, R, f, retriable, Continue) ==
  LET retry == ShouldRetry(F, f, retriable) IN
  /\ fut' = IF retry THEN MarkForRetry(F, f) ELSE FailFutureAndParents(F, f)
  /\ SaveRuns(IF retry THEN [R EXCEPT ![f] = "RETRYING"] ELSE FailRunAndParents(F, R, f))
  /\ Continue
  /\ UNCHANGED <<futures, status, env>>

\* _handle_future_failure, with the control state to go on in after a retry
\* given by the caller.
HandleFutureFailure(F, R, f, retriable, Continue) ==
  \/ /\ ShouldRetry(F, f, retriable)
     /\ fut' = MarkForRetry(F, f)
     /\ SaveRuns([R EXCEPT ![f] = "RETRYING"])
     /\ Continue
     /\ UNCHANGED <<futures, status, env>>
  \/ /\ ~ ShouldRetry(F, f, retriable)
     /\ PipelineRunDidFail(FailFutureAndParents(F, f), FailRunAndParents(F, R, f),
                           "PipelineRunError")

-----------------------------------------------------------------------------
(* Start. *)

\* _pipeline_run_will_start: a pipeline run that is no longer SCHEDULED makes
\* _update_pipeline_run_status raise RunnerRestartError.
Start ==
  /\ pc = "starting"
  /\ \/ /\ status = "SCHEDULED"
        /\ status' = "RUNNING"
        /\ pc' = "loop"
        /\ UNCHANGED <<memory, run, jobs, cursor, changed, work, current, armed, error, env>>
     \/ /\ status # "SCHEDULED"
        /\ PipelineRunDidFail(fut, run, "RunnerRestartError")

\* The head of the while loop of _pipeline_run_loop, and what follows it.
LoopHead ==
  /\ pc = "loop"
  /\ \/ /\ ~ IsTerminal(fut[Root].state)
        /\ pc' = "pass" /\ cursor' = 1 /\ changed' = FALSE
        /\ UNCHANGED <<memory, server, work, current, armed, error, env>>
     \/ /\ fut[Root].state = "RESOLVED"    \* _pipeline_run_did_succeed
        /\ status = "RUNNING"
        /\ status' = "COMPLETE"
        /\ SaveRuns(CancelNonTerminal(run))
        /\ Ends("succeeded")
        /\ UNCHANGED <<memory, error, env>>
     \/ /\ fut[Root].state = "RESOLVED"    \* the server refuses COMPLETE
        /\ status # "RUNNING"
        /\ PipelineRunDidFail(fut, run, "BadRequest")
     \/ /\ fut[Root].state = "CANCELED"
        /\ Ends("canceled")
        /\ UNCHANGED <<memory, server, error, env>>
     \/ /\ fut[Root].state \in {"FAILED", "NESTED_FAILED"}
        /\ PipelineRunDidFail(fut, run, "NoKnownValue")

-----------------------------------------------------------------------------
(* One pass over _futures. *)

AtFuture(f) == pc = "pass" /\ cursor <= Len(futures) /\ f = futures[cursor]

\* The loop goes on with the next future, having changed a state or not.
Advance(did) ==
  /\ pc' = "pass" /\ cursor' = cursor + 1 /\ changed' = (changed \/ did)
  /\ current' = NoFuture
  /\ UNCHANGED <<work, armed, error>>

\* The future is handed to _execute_future.
Executable(f) ==
  \/ fut[f].state = "RETRYING"
  \/ fut[f].state = "CREATED" /\ ConcreteKwargs(f)

\* Nothing to do: arguments not concrete, nested future not resolved, job
\* still out, terminal, or no room for another job.
VisitIdle(f) ==
  /\ AtFuture(f)
  /\ \/ fut[f].state = "SCHEDULED" \/ IsTerminal(fut[f].state)
     \/ fut[f].state = "CREATED" /\ ~ ConcreteKwargs(f)
     \/ Executable(f) /\ run[f] # "NONE" /\ ~ CanSchedule(f)
     \/ /\ fut[f].state = "RAN" /\ fut[f].nested # NoFuture
        /\ fut[fut[f].nested].state # "RESOLVED"
  /\ Advance(FALSE)
  /\ UNCHANGED <<memory, server, env>>

\* Mutant: the state bubbles up, the value does not.
BubbleState(f) == SetState(fut, f, "RESOLVED")

\* The value of the nested future becomes the future's.
Bubble(f) ==
  [SetState(fut, f, "RESOLVED") EXCEPT ![f].value = fut[fut[f].nested].value]

\* _run_nested_future
RunNestedFuture(f) ==
  /\ AtFuture(f) /\ fut[f].state = "RAN"
  /\ \/ /\ fut[f].nested # NoFuture
        /\ fut[fut[f].nested].state = "RESOLVED"
        /\ fut' = Bubble(f)
        /\ SaveRuns([run EXCEPT ![f] = "RESOLVED"])
        /\ Advance(TRUE)
        /\ UNCHANGED <<futures, status, env>>
     \/ /\ fut[f].nested = NoFuture        \* RuntimeError
        /\ PipelineRunDidFail(fut, run, "NoNestedFuture")

\* LocalRunner._execute_future starts by reading the run; the server knows no
\* run for a future whose nesting was interrupted.
ExecuteWithoutRun(f) ==
  /\ AtFuture(f) /\ Executable(f)
  /\ run[f] = "NONE"
  /\ PipelineRunDidFail(fut, run, "ResourceNotFoundError")

\* LocalRunner._execute_future: the cache key hits an earlier run.
CacheHit(f) ==
  /\ AtFuture(f) /\ Executable(f) /\ run[f] # "NONE"
  /\ f \in Cached
  /\ fut' = [SetState(fut, f, "RESOLVED") EXCEPT ![f].value = TRUE]
  /\ SaveRuns([run EXCEPT ![f] = "RESOLVED"])
  /\ Advance(TRUE)
  /\ UNCHANGED <<futures, status, env>>

\* SilentRunner._run_inline up to the call of the function.
RunInline(f) ==
  LET F == SetState(fut, f, "SCHEDULED")
      R == [run EXCEPT ![f] = "SCHEDULED"]
      chain == {f} \cup Ancestors(F, f)
      late == {r \in chain : Expired(F, r)}
  IN
  /\ AtFuture(f) /\ Executable(f) /\ run[f] # "NONE"
  /\ f \notin Standalone
  /\ \/ /\ late = {}
        /\ fut' = F /\ SaveRuns(R)
        /\ pc' = "executing" /\ current' = f
        /\ UNCHANGED <<futures, status, cursor, changed, work, armed, error, env>>
     \* a timeout in the call chain expired more than a second ago: that
     \* future fails; if it is retried, timeout() then refuses the negative
     \* duration and f fails as well
     \/ \E r \in late, retriable, again \in BOOLEAN :
          \/ /\ ~ ShouldRetry(F, r, retriable)
             /\ PipelineRunDidFail(FailFutureAndParents(F, r), FailRunAndParents(F, R, r),
                                   "PipelineRunError")
          \/ /\ ShouldRetry(F, r, retriable)
             /\ HandleFutureFailure(MarkForRetry(F, r), [R EXCEPT ![r] = "RETRYING"],
                                    f, again, Advance(TRUE))
     \* two timeouts of the chain end in the same second: the futures are
     \* compared to break the tie, which Future.__lt__ refuses
     \/ /\ \E r, q \in chain : r # q /\ Limited(F, r) /\ Limited(F, q)
        /\ PipelineRunDidFail(F, R, "NotImplementedError")
     \* it expired within the last second: timeout(0) is refused
     \/ /\ late # {}
        /\ \E retriable \in BOOLEAN :
             HandleFutureFailure(F, R, f, retriable, Advance(TRUE))

\* CloudRunner._future_will_schedule and _schedule_future, schedule_run_endpoint.
ScheduleFuture(f) ==
  /\ AtFuture(f) /\ Executable(f) /\ run[f] # "NONE"
  /\ f \in Standalone /\ CanSchedule(f)
  /\ \/ /\ run[f] \in {"CREATED", "RETRYING"} /\ status = "RUNNING"
        /\ fut' = SetState(fut, f, "SCHEDULED")
        /\ run' = [run EXCEPT ![f] = "SCHEDULED"]
        /\ jobs' = [jobs EXCEPT ![f].live = @ + 1]
        /\ Advance(TRUE)
        /\ UNCHANGED <<futures, status, env>>
     \/ /\ run[f] \in {"CREATED", "RETRYING"} /\ status # "RUNNING"
        /\ PipelineRunDidFail(fut, run, "BadRequest")
     \* "Tried to double schedule": the run's state becomes the future's
     \/ /\ run[f] \notin {"CREATED", "RETRYING"}
        /\ ~ (run[f] = "RAN" /\ fut[f].nested = NoFuture)
        /\ fut' = SetState(fut, f, run[f])
        /\ Advance(TRUE)
        /\ UNCHANGED <<futures, server, env>>
     \/ /\ run[f] = "RAN" /\ fut[f].nested = NoFuture
        /\ PipelineRunDidFail(SetState(fut, f, "RAN"), run, "NoNestedFuture")

\* Mutant: the loop waits after every pass.
EndPassWithWait ==
  /\ pc = "pass" /\ cursor > Len(futures)
  /\ pc' = "waiting"
  /\ UNCHANGED <<memory, server, cursor, changed, work, current, armed, error, env>>

\* The end of the pass.
EndPass ==
  /\ pc = "pass" /\ cursor > Len(futures)
  /\ pc' = IF changed THEN "loop" ELSE "waiting"
  /\ UNCHANGED <<memory, server, cursor, changed, work, current, armed, error, env>>

-----------------------------------------------------------------------------
(* The function of an inline future runs in the runner's process. *)

FunctionReturnsValue ==
  /\ pc = "executing"
  /\ fut' = [SetState(fut, current, "RESOLVED") EXCEPT ![current].value = TRUE]
  /\ SaveRuns([run EXCEPT ![current] = "RESOLVED"])
  /\ Advance(TRUE)
  /\ UNCHANGED <<futures, status, env>>

\* Bound: room is kept for the futures that workers have already returned.
AwaitingNesting == {g \in Ids : run[g] = "RAN" /\ fut[g].state # "RAN"}

\* The futures of a call that made those up to top.
Made(top) == {g \in Unmade : g <= top}

\* _set_nested_future: the returned future becomes the nested future of f, and
\* the new futures are enqueued.  f is RAN only after the next step, and a
\* signal can come between the two.
Enqueue(f, top, kw, order) ==
  /\ fut' = [g \in Ids |->
               IF g \in Made(top) THEN [NewFuture EXCEPT !.kwargs = kw[g], !.parent = f]
               ELSE IF g = f THEN [fut[f] EXCEPT !.nested = top] ELSE fut[g]]
  /\ futures' = futures \o order

SetNestedFuture(f) ==
  /\ \E top \in Unmade :
       /\ Cardinality(Made(top)) <= MaxSubgraph
       /\ Cardinality(Made(top)) <= Cardinality(Unmade) - Cardinality(AwaitingNesting \ {f})
       /\ \E kw \in [Made(top) -> SUBSET Made(top)],
             order \in [1..Cardinality(Made(top)) -> Made(top)] :
            /\ IsSubgraph(Made(top), top, kw)
            /\ IsEnqueueOrder(top, kw, order)
            /\ Enqueue(f, top, kw, order)
  /\ pc' = "nesting" /\ current' = f
  /\ UNCHANGED <<server, cursor, changed, work, armed, error, env>>

FunctionReturnsFuture == pc = "executing" /\ SetNestedFuture(current)

\* Mutant: only the returned future gets a row, not its arguments.
NestedRunOnly(f) == [run EXCEPT ![f] = "RAN", ![fut[f].nested] = "CREATED"]

\* _populate_graph_from_future: the rows of the futures that f returned.
NestedRuns(f) ==
  [g \in Ids |-> IF g = f THEN "RAN"
                 ELSE IF fut[g].parent = f /\ run[g] = "NONE" THEN "CREATED"
                 ELSE run[g]]

\* _set_future_state(RAN), _future_did_run: the rows of the nested futures are
\* made and saved with the row of f.
FutureDidRun ==
  /\ pc = "nesting"
  /\ fut' = SetState(fut, current, "RAN")
  /\ SaveRuns(NestedRuns(current))
  /\ IF work = {} THEN Advance(TRUE)
     ELSE /\ pc' = "processing" /\ work' = work \ {current} /\ current' = NoFuture
          /\ UNCHANGED <<cursor, changed, armed, error>>
  /\ UNCHANGED <<futures, status, env>>

FunctionRaises ==
  /\ pc = "executing"
  /\ \E retriable \in BOOLEAN :
       HandleFutureFailure(fut, run, current, retriable, Advance(TRUE))

\* The alarm of the call chain's most restrictive timeout.  After a retry is
\* granted, _run_inline goes on to use a value the function never returned;
\* the UnboundLocalError is a second failure of the same future.
FunctionTimesOut ==
  /\ pc = "executing"
  /\ \E r \in {current} \cup Ancestors(fut, current) : Expired(fut, r)
  /\ \E retriable, again \in BOOLEAN :
       \/ /\ ~ ShouldRetry(fut, current, retriable)
          /\ HandleFutureFailure(fut, run, current, retriable, FALSE)
       \/ /\ ShouldRetry(fut, current, retriable)
          /\ HandleFutureFailure(MarkForRetry(fut, current),
                                 [run EXCEPT ![current] = "RETRYING"],
                                 current, again, Advance(TRUE))

-----------------------------------------------------------------------------
(* _wait_for_scheduled_runs_with_timeout *)

BackToLoop ==
  /\ pc' = "loop" /\ work' = {} /\ current' = NoFuture /\ armed' = NoFuture
  /\ UNCHANGED <<cursor, changed, error>>

\* A timeout expired before the wait, or interrupts the wait for jobs.
WaitTimesOut ==
  /\ pc = "waiting"
  /\ \E f \in Ids, retriable \in BOOLEAN :
       /\ Expired(fut, f)
       /\ HandleFutureFailure(fut, run, f, retriable, BackToLoop)

OutJobs == {f \in Standalone : fut[f].state = "SCHEDULED"}
InlineOut == {f \in Ids \ Standalone : fut[f].state = "SCHEDULED"}

\* No job is out: the wait returns at once.
NothingToWaitFor ==
  /\ pc = "waiting"
  /\ \A f \in Ids : ~ Expired(fut, f)
  /\ OutJobs \cup InlineOut = {}
  /\ BackToLoop
  /\ UNCHANGED <<memory, server, env>>

\* _wait_for_any_inline_runs or _wait_for_any_remote_jobs: the runs the server
\* no longer reports as SCHEDULED.
ChangedRuns ==
  IF InlineOut # {} THEN InlineOut ELSE {f \in OutJobs : run[f] # "SCHEDULED"}

PollRuns ==
  /\ pc = "waiting"
  /\ \A f \in Ids : ~ Expired(fut, f)
  /\ ChangedRuns # {}
  /\ pc' = "processing" /\ work' = ChangedRuns
  /\ armed' \in IF \E f \in Ids : Limited(fut, f)
                THEN {f \in Ids : Limited(fut, f)} ELSE {NoFuture}
  /\ UNCHANGED <<memory, server, cursor, changed, current, error, env>>

\* CloudRunner._process_run_output for a run of the batch, which comes in the
\* order of the server's answer.
ProcessRunOutput ==
  /\ pc = "processing"
  /\ \E f \in work :
     \/ /\ run[f] = "RESOLVED"
        /\ fut' = [SetState(fut, f, "RESOLVED") EXCEPT ![f].value = TRUE]
        /\ work' = work \ {f}
        /\ UNCHANGED <<futures, server, pc, cursor, changed, current, armed, error, env>>
     \/ /\ run[f] = "RAN"
        /\ SetNestedFuture(f)
     \/ /\ run[f] \notin {"RESOLVED", "RAN"}
        /\ \E retriable \in BOOLEAN :
             /\ retriable => run[f] = "FAILED"  \* else there is no exception to match
             /\ HandleFutureFailure(fut, run, f, retriable,
                  /\ work' = work \ {f}
                  /\ UNCHANGED <<pc, cursor, changed, current, armed, error>>)

EndProcessing ==
  /\ pc = "processing" /\ work = {}
  /\ BackToLoop
  /\ UNCHANGED <<memory, server, env>>

\* SIGALRM while the batch is being processed: the handler's TimeoutError
\* leaves _process_run_output wherever it is, the rest of the batch is dropped.
\* The alarm rings for the future it was set for, whatever became of it.
AlarmInterrupts ==
  /\ pc = "processing" \/ (pc = "nesting" /\ work # {})
  /\ armed # NoFuture /\ fut[armed].clock # "on"
  /\ \/ /\ ~ IsTerminal(fut[armed].state)
        /\ \E retriable \in BOOLEAN :
             HandleFutureFailure(fut, run, armed, retriable, BackToLoop)
     \/ /\ IsTerminal(fut[armed].state)    \* only logged
        /\ BackToLoop
        /\ UNCHANGED <<memory, server, env>>

-----------------------------------------------------------------------------
(* Signals to the runner. *)

\* _cancel_non_terminal_futures: the refreshed state is the run's, and a
\* future without a run stops it (the server answers 404).
CanceledFutures ==
  [f \in Ids |-> IF run[f] = "NONE" \/ IsTerminal(run[f]) THEN fut[f]
                 ELSE SetState(fut, f, "CANCELED")[f]]

\* _handle_sig_cancel, LocalRunner._clean_up_pipeline_run.  The status is
\* decided from the root run once the runs are canceled.
StatusAfterCleanUp(R) ==
  CASE R[Root] = "CANCELED" -> "CANCELED"
    [] R[Root] = "RESOLVED" -> "COMPLETE"
    [] OTHER -> "FAILED"

CancelSignal ==
  /\ ~ RunsRemotely /\ pc \in Active
  /\ \A f \in Ids : fut[f].state # "NONE" => run[f] # "NONE"
  /\ fut' = CanceledFutures
  /\ SaveRuns(CancelNonTerminal(run))
  /\ status' = UpdateStatus(status, StatusAfterCleanUp(CancelNonTerminal(run)))
  /\ canceling' = FALSE
  /\ Ends("canceled") /\ error' = "CancellationError"
  /\ UNCHANGED <<futures, evictions>>

\* The signal comes while a future without a run is enqueued.  The handler
\* raises, and _run_inline takes that for an error of the function.
CancelSignalFails ==
  /\ ~ RunsRemotely /\ pc \in Active
  /\ \E f \in Ids : fut[f].state # "NONE" /\ run[f] = "NONE"
  /\ LET inline == pc = "executing" \/ (pc = "nesting" /\ work = {})
     IN \/ /\ inline
           /\ \E retriable \in BOOLEAN :
                HandleFutureFailure(CanceledFutures, CancelNonTerminal(run), current,
                                    retriable, Advance(TRUE))
        \/ /\ ~ inline
           /\ PipelineRunDidFail(CanceledFutures, CancelNonTerminal(run),
                                 "ResourceNotFoundError")

\* The runner's pod goes away: SIGTERM exits the process without cleaning up.
Evict ==
  /\ RunsRemotely /\ pc \in Active \cup {"starting"}
  /\ \/ canceling /\ UNCHANGED evictions  \* the server deletes the runner's job
     \/ evictions < MaxEvictions /\ evictions' = evictions + 1
  /\ canceling' = FALSE
  /\ pc' = "down"
  /\ UNCHANGED <<memory, server, cursor, changed, work, current, armed, error>>

\* Mutant: an inline future that was executing stays SCHEDULED.
RebuiltAsIs(f) ==
  IF run[f] = "NONE" THEN NotMade
  ELSE [fut[f] EXCEPT !.state = run[f], !.value = (run[f] = "RESOLVED"),
                      !.nested = IF @ # NoFuture /\ run[@] # "NONE" THEN @ ELSE NoFuture]

\* Mutant: whatever a function returned is taken for its value.
RebuiltWithOutput(f) ==
  IF run[f] = "NONE" THEN NotMade
  ELSE [fut[f] EXCEPT
          !.state = IF f \notin Standalone /\ run[f] = "SCHEDULED" THEN "RETRYING" ELSE run[f],
          !.nested = IF @ # NoFuture /\ run[@] # "NONE" THEN @ ELSE NoFuture,
          !.value = (run[f] \in {"RAN", "RESOLVED"}),
          !.retry_count = 0, !.clock = "off"]

\* to_future_graph, initialize_future_from_run, _reenter_inline_runs: futures
\* are rebuilt from the rows; an inline one that was executing is retried.
\* The retry count starts over; a clock starts from the row's started_at.
Rebuilt(f) ==
  LET reentered == f \notin Standalone /\ run[f] = "SCHEDULED"
  IN  IF run[f] = "NONE" THEN NotMade
      ELSE [fut[f] EXCEPT
              !.state = IF reentered THEN "RETRYING" ELSE run[f],
              !.nested = IF @ # NoFuture /\ run[@] # "NONE" THEN @ ELSE NoFuture,
              !.value = (run[f] = "RESOLVED"),
              !.retry_count = 0,
              !.clock = IF reentered \/ IsTerminal(run[f]) \/ run[f] = "CREATED"
                           \/ f \notin Timed THEN "off"
                        ELSE IF @ = "off" THEN "on" ELSE @]

\* _sorted_run_ids_by_layer: the root first, a parent before the futures its
\* function returned.
IsReentryOrder(order) ==
  /\ order[1] = Root
  /\ \A i, j \in DOMAIN order : order[i] = order[j] => i = j
  /\ \A i, j \in DOMAIN order : fut[order[i]].parent = order[j] => j < i

\* A new pod.  worker.main re-enters a RUNNING pipeline run and starts any
\* other from the root; the job of a canceled one was deleted.
Restart ==
  /\ pc = "down" /\ status # "CANCELED"
  /\ work' = {} /\ current' = NoFuture /\ armed' = NoFuture
  /\ \/ /\ status = "RUNNING"
        /\ fut' = [f \in Ids |-> Rebuilt(f)]
        /\ LET S == {f \in Ids : run[f] # "NONE"}
           IN  \E order \in [1..Cardinality(S) -> S] :
                 IsReentryOrder(order) /\ futures' = order
        /\ run' = [f \in Ids |->
                     IF f \notin Standalone /\ run[f] = "SCHEDULED" THEN "RETRYING" ELSE run[f]]
        /\ pc' = "loop"
     \/ /\ status = "SCHEDULED"
        /\ pc' = "starting"
        /\ UNCHANGED <<memory, run>>
  /\ UNCHANGED <<jobs, status, cursor, changed, error, env>>

-----------------------------------------------------------------------------
(* The world around the runner. *)

\* worker.main: the worker saves its own copy of the run, whatever the row has
\* become meanwhile.  FAILED also stands for a job that dies: the server then
\* reports the run as FAILED.
WorkerEnds(f) ==
  /\ jobs[f].live + jobs[f].doomed > 0
  /\ \E outcome \in {"RESOLVED", "RAN", "FAILED"}, doomed \in BOOLEAN :
       LET left == IF doomed THEN [jobs[f] EXCEPT !.doomed = @ - 1]
                   ELSE [jobs[f] EXCEPT !.live = @ - 1]
       IN  /\ IF doomed THEN jobs[f].doomed > 0 ELSE jobs[f].live > 0
           /\ outcome = "RAN" => Cardinality(AwaitingNesting) < Cardinality(Unmade)
           /\ run' = [run EXCEPT ![f] = outcome]
           /\ jobs' = [jobs EXCEPT ![f] =
                         IF outcome = "RAN" THEN left
                         ELSE [live |-> 0, doomed |-> left.live + left.doomed]]
  /\ UNCHANGED <<memory, status, control, env>>

\* Kubernetes kills a pod of a deleted job.
PodKilled(f) ==
  /\ jobs[f].doomed > 0
  /\ jobs' = [jobs EXCEPT ![f].doomed = @ - 1]
  /\ UNCHANGED <<memory, run, status, control, env>>

\* cancel_resolution_endpoint
ServerCancels ==
  /\ status \in {"SCHEDULED", "RUNNING"}
  /\ status' = "CANCELED"
  /\ SaveRuns(CancelNonTerminal(run))
  /\ canceling' = (pc \notin Ended \cup {"down"})
  /\ UNCHANGED <<memory, control, evictions>>

TimePasses(f) ==
  /\ fut[f].clock = "on"
  /\ fut' = [fut EXCEPT ![f].clock = "expired"]
  /\ UNCHANGED <<futures, server, control, env>>

\* run() has returned or raised and no worker is left.
Finished ==
  /\ pc \in Ended \/ (pc = "down" /\ status = "CANCELED")
  /\ UNCHANGED vars

Visit(f) ==
  \/ VisitIdle(f) \/ RunNestedFuture(f) \/ ExecuteWithoutRun(f) \/ CacheHit(f)
  \/ RunInline(f) \/ ScheduleFuture(f)

Execute == FunctionReturnsValue \/ FunctionReturnsFuture \/ FunctionRaises \/ FunctionTimesOut

Wait ==
  \/ WaitTimesOut \/ NothingToWaitFor \/ PollRuns \/ ProcessRunOutput \/ EndProcessing
  \/ AlarmInterrupts

Runner ==
  \/ Start \/ LoopHead \/ (\E f \in Ids : Visit(f)) \/ EndPass
  \/ Execute \/ FutureDidRun \/ Wait

Next ==
  \/ Runner
  \/ CancelSignal \/ CancelSignalFails \/ Evict \/ Restart \/ ServerCancels
  \/ \E f \in Ids : WorkerEnds(f) \/ PodKilled(f) \/ TimePasses(f)
  \/ Finished

\* The runner is a process that keeps running, Kubernetes starts a new pod for
\* its job, a job ends or is killed.  Nothing makes a user cancel, a pod go
\* away or a function take long.
Fairness ==
  /\ WF_vars(Runner) /\ WF_vars(Restart)
  /\ \A f \in Ids : WF_vars(WorkerEnds(f) \/ PodKilled(f))
  /\ WF_vars(canceling /\ (CancelSignal \/ CancelSignalFails \/ Evict))

Spec == Init /\ [][Next]_vars
FairSpec == Spec /\ Fairness

-----------------------------------------------------------------------------
(* Properties. *)

\* Every variable keeps its type.
TypeOK ==
  /\ fut \in [Ids -> FutureObject]
  /\ futures \in Seq(Ids)
  /\ run \in [Ids -> FutureState \cup {"NONE"}]
  /\ jobs \in [Ids -> [live : Nat, doomed : Nat]]
  /\ status \in PipelineStatus
  /\ pc \in {"starting", "down"} \cup Active \cup Ended
  /\ error \in Errors
  /\ cursor \in Nat \ {0}
  /\ changed \in BOOLEAN
  /\ work \subseteq Ids
  /\ current \in Ids \cup {NoFuture}
  /\ armed \in Ids \cup {NoFuture}
  /\ canceling \in BOOLEAN
  /\ evictions \in Nat

\* A future that is RESOLVED has its value: it is what the functions that use
\* it are called with.
ResolvedHasValue ==
  pc \in Active => \A f \in Ids : fut[f].state = "RESOLVED" => fut[f].value

\* A future has something to do in a pass: it can be executed, or its nested
\* future has resolved.
Ready(f) ==
  \/ Executable(f) /\ CanSchedule(f)
  \/ /\ fut[f].state = "RAN" /\ fut[f].nested # NoFuture
     /\ fut[fut[f].nested].state = "RESOLVED"

\* The loop only enters the wait when no future of _futures has anything to
\* do: nothing that could run is left lying during a wait.
WaitsOnlyWhenStuck ==
  pc = "waiting" => \A i \in DOMAIN futures : ~ Ready(futures[i])

\* Outside of the call of its function an inline future is never SCHEDULED:
\* _wait_for_any_inline_runs never finds one.
InlineOnlyWhileExecuting ==
  \A f \in InlineOut : pc \in Active => pc \in {"executing", "nesting"} /\ f = current

\* max_parallelism bounds the runs of standalone functions that are SCHEDULED
\* on the server.
ParallelismBound ==
  MaxParallelism # 0 =>
    Cardinality({f \in Standalone : run[f] = "SCHEDULED"}) <= MaxParallelism

\* Before every pass the runner's futures and the rows of the server agree,
\* up to jobs that have ended since: a runner restarted from the rows loses
\* nothing.
RowsFollowFutures ==
  pc \in {"loop", "pass"} /\ status = "RUNNING" =>
    \A f \in Ids :
      \/ run[f] = fut[f].state
      \/ f \in Standalone /\ fut[f].state = "SCHEDULED" /\ run[f] \in {"RAN", "RESOLVED", "FAILED"}

\* The sanity checks of the runner's own code never fire.
NoInternalError ==
  error \notin {"NoKnownValue", "NoNestedFuture", "NotImplementedError"}

\* run() leaves nothing open on the server: at its end the pipeline run and
\* all its runs are terminal.
EndsTidy ==
  [][pc \notin Ended /\ pc' \in Ended =>
       /\ status' \in TerminalStatuses
       /\ \A f \in Ids : run'[f] # "NONE" => IsTerminal(run'[f])]_vars

\* The runner implements the dataflow it promises: whatever retries, timeouts,
\* signals, workers and re-entries do, no function is called on an argument
\* that has no value yet, no value comes from anything but a call or the
\* future that stands for it, and run() returns only with the root's value.
D == INSTANCE Dataflow WITH
       Futures  <- Ids,
       kwargs   <- [f \in Ids \ Unmade |-> fut[f].kwargs],
       nested   <- [f \in Ids \ Unmade |-> fut[f].nested],
       value    <- {f \in Ids : fut[f].value},
       outcome  <- IF pc \in Ended THEN pc ELSE "running"
Implements == D!Spec

\* run() comes to an end.
Terminates == <>(pc \in Ended \/ (pc = "down" /\ status = "CANCELED"))
=============================================================================
