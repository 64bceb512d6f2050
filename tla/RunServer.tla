----------------------------- MODULE RunServer -----------------------------
(***************************************************************************)
(* The API server at work on one pipeline run: the requests that launch,   *)
(* schedule, update, cancel and clean it (sematic/api/endpoints/runs.py    *)
(* and resolutions.py, scheduling/job_scheduler.py, db/queries.py).        *)
(*                                                                         *)
(* A request is a sequence of steps.  It reads rows, calls Kubernetes and  *)
(* saves its copies; the requests of the launcher, the runner, the         *)
(* workers, a user and the cleaner interleave between any two steps.  A    *)
(* database session is one step.  The pipeline is a root function that     *)
(* runs in the runner's pod and calls the leaves, standalone functions     *)
(* that return values.  The runner and the workers are modelled by the     *)
(* requests that they make.                                                *)
(***************************************************************************)
EXTENDS FutureStates, Naturals, FiniteSets

CONSTANTS
  Leaves,           \* the standalone functions
  Tries,            \* how often update_run_status_endpoint is tried
  MaxDisturbances   \* Bound: how many faults and cancellations happen

Root == "root"
Runs == Leaves \cup {Root}
Clients == Leaves \cup {"launcher", "runner", "user", "cleaner"}

ConstantsAssumption ==
  /\ IsFiniteSet(Leaves) /\ Root \notin Leaves
  /\ Leaves \cap {"launcher", "runner", "user", "cleaner"} = {}
  /\ Tries \in Nat \ {0} /\ MaxDisturbances \in Nat
ASSUME ConstantsAssumption

VARIABLES
  run,            \* the rows of the runs
  status,         \* the row of the pipeline run
  row,            \* the rows of the jobs; the job of the root is the runner's
  live,           \* the jobs that Kubernetes runs
  doomed,         \* the jobs that were deleted and whose pod is still there
  req,            \* what each client's request is doing
  rpc,            \* where the runner is
  future,         \* the states of the runner's futures
  made,           \* who has made the request that is made only once
  disturbances    \* how many faults and cancellations have happened

database == <<run, status, row>>
cluster == <<live, doomed>>
clients == <<rpc, future, made>>
vars == <<database, cluster, req, clients, disturbances>>

States == FutureState \cup {"NONE"}
RowStates == {"none", "active", "ended"}
Ops == {"none", "launch", "schedule", "update", "graph", "put", "cancel",
          "clean_run", "clean_jobs", "clean_pipeline"}
Steps == {"idle", "submit", "refuse", "refuse_status", "save_run", "save_job", "check",
          "save_graph", "runner_job", "list_runs", "cancel_runs", "cancel_jobs",
          "save_status", "refresh"}

\* What a request knows: its copies of the rows or the runs that it saves, the
\* runs it still has to see to and the one it is at.
NoRequest ==
  [op |-> "none", at |-> "idle", on |-> {}, left |-> {}, now |-> Root, tries |-> 0,
   state |-> [r \in Runs |-> "NONE"], row |-> [r \in Runs |-> "none"], status |-> "CREATED"]

Init ==
  /\ run = [r \in Runs |-> IF r = Root THEN "CREATED" ELSE "NONE"]
  /\ status = "CREATED"
  /\ row = [r \in Runs |-> "none"]
  /\ live = {} /\ doomed = {}
  /\ req = [c \in Clients |-> NoRequest]
  /\ rpc = "begin" /\ future = [l \in Leaves |-> "CREATED"] /\ made = {}
  /\ disturbances = 0

TypeOK ==
  /\ run \in [Runs -> States] /\ status \in PipelineStatus /\ row \in [Runs -> RowStates]
  /\ live \subseteq Runs /\ doomed \subseteq Runs
  /\ \A c \in Clients :
       /\ req[c].op \in Ops /\ req[c].at \in Steps
       /\ req[c].on \subseteq Runs /\ req[c].left \subseteq Runs /\ req[c].now \in Runs
       /\ req[c].tries \in 0..Tries
       /\ req[c].state \in [Runs -> States] /\ req[c].row \in [Runs -> RowStates]
       /\ req[c].status \in PipelineStatus
  /\ rpc \in {"begin", "start", "expand", "schedule", "wait", "resolve", "succeed", "fail",
              "fail_status", "last_word", "gone"}
  /\ future \in [Leaves -> FutureState]
  /\ made \subseteq Clients
  /\ disturbances \in 0..MaxDisturbances

-----------------------------------------------------------------------------
(* Requests. *)

At(c, op, step) == req[c].op = op /\ req[c].at = step

IsOpen(s) == s # "NONE" /\ ~ IsTerminal(s)
IsClosed(s) == s \in TerminalStatuses
Alive(j) == j \in live \cup doomed

\* The rows R of the runs `on`: what a request has read of them.
Only(on, R, default) == [r \in Runs |-> IF r \in on THEN R[r] ELSE default]

\* Where the runner goes on with the futures F.
NextStep(F) ==
  IF \E l \in Leaves : F[l] \in TerminalStates \ {"RESOLVED"} THEN "fail"
  ELSE IF \E l \in Leaves : F[l] = "CREATED" THEN "schedule"
  ELSE IF \E l \in Leaves : F[l] = "SCHEDULED" THEN "wait" ELSE "resolve"

\* The futures of the leaves that the server has answered for: scheduled ones
\* are, and _process_run_output reads those again that have changed.
AnsweredFutures(answer) ==
  [l \in Leaves |->
     IF l \notin answer.on THEN future[l]
     ELSE IF answer.op = "schedule" THEN "SCHEDULED"
     ELSE IF answer.op = "update" /\ answer.state[l] # "SCHEDULED" THEN run[l] ELSE future[l]]

\* The runner goes on once it has its answer; an error ends it.
RunnerGoesOn(answer, how) ==
  /\ future' = IF how = "error" THEN future ELSE AnsweredFutures(answer)
  /\ rpc' = CASE rpc = "last_word" -> "gone"
              [] rpc = "fail_status" -> "last_word"
              [] rpc = "fail" -> IF how = "ok" THEN "fail_status" ELSE "last_word"
              [] rpc \notin {"last_word", "fail", "fail_status"} /\ how = "error" -> "fail"
              [] rpc = "begin" /\ how = "ok" -> "start"
              [] rpc = "start" /\ how = "ok" -> "expand"
              [] rpc \in {"expand", "schedule", "wait"} /\ how = "ok" -> NextStep(AnsweredFutures(answer))
              [] rpc = "resolve" /\ how = "ok" -> "succeed"
              [] rpc = "succeed" /\ how = "ok" -> "gone"

\* The request is over.  Only the runner looks at the answer.
Answer(c, how) ==
  /\ req' = [req EXCEPT ![c] = NoRequest]
  /\ IF c = "runner" /\ Alive(Root) THEN RunnerGoesOn(req[c], how) ELSE UNCHANGED <<rpc, future>>

GoOn(c, request) == req' = [req EXCEPT ![c] = request] /\ UNCHANGED <<rpc, future>>
Goto(c, step) == GoOn(c, [req[c] EXCEPT !.at = step])

\* A new request, which starts with reading the rows of its runs.
Request(op, on, step) ==
  [NoRequest EXCEPT !.op = op, !.on = on, !.left = on, !.at = step,
                    !.status = IF op = "schedule" THEN status ELSE @,
                    !.state = Only(on, run, "NONE"), !.row = Only(on, row, "none")]

\* save_graph with the runs that R says.
SaveRequest(on, R) ==
  [NoRequest EXCEPT !.op = "graph", !.on = on, !.state = Only(on, R, "NONE"), !.at = "save_graph"]

Ask(c, request) == req[c] = NoRequest /\ GoOn(c, request)

\* k8s.refresh_job: an active job whose pod is gone has ended.
Refreshed(rows, j) == IF rows[j] = "active" /\ j \notin live THEN "ended" ELSE rows[j]

\* Mutant: the row is not looked at.
SaveUnchecked(r, s) == FALSE

\* save_run raises IllegalStateTransitionError.
IllegalSave(r, s) == run[r] # s /\ ~ IsAllowedTransition(run[r], s)

\* cancel_job, and save_job of what it returns.
CancelJob(j) ==
  IF row[j] # "active" THEN UNCHANGED <<row, cluster>>
  ELSE /\ row' = [row EXCEPT ![j] = "ended"]
       /\ live' = live \ {j}
       /\ doomed' = doomed \cup (live \cap {j})

Disturbed == disturbances < MaxDisturbances /\ disturbances' = disturbances + 1

-----------------------------------------------------------------------------
(* schedule_resolution_endpoint *)

Launch(c) ==
  \/ /\ At(c, "launch", "submit")        \* the runner's job
     /\ live' = live \cup {Root}
     /\ Goto(c, "save_status")
     /\ UNCHANGED <<database, doomed>>
  \/ /\ At(c, "launch", "save_status")
     /\ status' = "SCHEDULED"
     /\ Goto(c, "save_job")
     /\ UNCHANGED <<run, row, cluster>>
  \/ /\ At(c, "launch", "save_job")
     /\ row' = [row EXCEPT ![Root] = "active"]
     /\ Answer(c, "ok")
     /\ UNCHANGED <<run, status, cluster>>
  \/ /\ At(c, "launch", "refuse")        \* StateNotSchedulable
     /\ run' = [run EXCEPT ![Root] = "FAILED"]
     /\ Goto(c, "refuse_status")
     /\ UNCHANGED <<status, row, cluster>>
  \/ /\ At(c, "launch", "refuse_status")
     /\ status' = "FAILED"
     /\ Answer(c, "error")
     /\ UNCHANGED <<run, row, cluster>>

-----------------------------------------------------------------------------
(* schedule_run_endpoint, schedule_run *)

Scheduleable(c, l) ==
  /\ req[c].state[l] \in {"CREATED", "RETRYING"}
  /\ Refreshed(req[c].row, l) # "active" \/ req[c].state[l] = "RETRYING"
  /\ req[c].status = "RUNNING"

Schedule(c) ==
  \E l \in req[c].on :
    \/ /\ At(c, "schedule", "submit")
       /\ IF Scheduleable(c, l)
          THEN live' = live \cup {l} /\ Goto(c, "save_run")
          ELSE UNCHANGED live /\ Answer(c, "error")
       /\ UNCHANGED <<database, doomed>>
    \/ /\ At(c, "schedule", "save_run")
       /\ IF IllegalSave(l, "SCHEDULED") THEN UNCHANGED run /\ Answer(c, "error")
          ELSE run' = [run EXCEPT ![l] = "SCHEDULED"] /\ Goto(c, "save_job")
       /\ UNCHANGED <<status, row, cluster>>
    \/ /\ At(c, "schedule", "save_job")
       /\ row' = [row EXCEPT ![l] = "active"]
       /\ Answer(c, "ok")
       /\ UNCHANGED <<run, status, cluster>>

-----------------------------------------------------------------------------
(* update_run_status_endpoint *)

\* update_run_status, for a run and a job as they were read: ValueError.
UpdateRaises(s, job) ==
  \/ s = "CREATED" /\ job # "none"
  \/ s = "SCHEDULED" /\ job = "none"
  \/ s = "RETRYING"

\* update_run_status: only a SCHEDULED run whose last job has ended changes.
UpdateRunStatus(s, job) == IF s = "SCHEDULED" /\ job # "active" THEN "FAILED" ELSE s

\* The run is done with; the next one, or the answer.
NextRun(c, l) ==
  IF req[c].left = {l} THEN Answer(c, "ok")
  ELSE GoOn(c, [req[c] EXCEPT !.at = "check", !.left = @ \ {l}])

\* _DetectedRunRaceCondition, retry: the whole request starts again.
RaceDetected(c) ==
  IF req[c].tries + 1 = Tries THEN Answer(c, "error")
  ELSE GoOn(c, [Request("update", req[c].on, "check") EXCEPT !.tries = req[c].tries + 1])

\* _get_run_and_jobs_if_modified: the run read again is in a third state.
ChangedOutOfBand(c, l, new) == run[l] \notin {req[c].state[l], new}

\* The jobs are looked at in Kubernetes, then the run is read again.
CheckRun(c, l) ==
  LET old == req[c].state[l]
      job == IF old \in {"RAN", "CREATED"} THEN req[c].row[l] ELSE Refreshed(req[c].row, l)
      new == UpdateRunStatus(old, job)
      Next(step) == GoOn(c, [req[c] EXCEPT !.at = step, !.now = l, !.state[l] = new, !.row[l] = job])
  IN  IF UpdateRaises(old, req[c].row[l]) THEN Answer(c, "error")
      ELSE IF new # old THEN IF ChangedOutOfBand(c, l, new) THEN RaceDetected(c) ELSE Next("save_run")
      ELSE IF job # req[c].row[l] THEN Next("save_job")
      ELSE NextRun(c, l)

Update(c) ==
  \/ /\ At(c, "update", "check")
     /\ \E l \in req[c].left : CheckRun(c, l)
     /\ UNCHANGED <<database, cluster>>
  \/ /\ At(c, "update", "save_run")
     /\ LET l == req[c].now IN
        IF IllegalSave(l, req[c].state[l]) THEN UNCHANGED run /\ RaceDetected(c)
        ELSE run' = [run EXCEPT ![l] = req[c].state[l]] /\ Goto(c, "save_job")
     /\ UNCHANGED <<status, row, cluster>>
  \/ /\ At(c, "update", "save_job")
     /\ row' = [row EXCEPT ![req[c].now] = req[c].row[req[c].now]]
     /\ NextRun(c, req[c].now)
     /\ UNCHANGED <<run, status, cluster>>

-----------------------------------------------------------------------------
(* save_graph_endpoint, and the requests on the pipeline run.              *)

\* What follows once the jobs have been deleted.
AfterJobs(c) == IF req[c].op = "put" THEN Goto(c, "save_status") ELSE Answer(c, "ok")

\* The request goes on with deleting the jobs of the runs.
CancelJobsOf(c, request, runs) ==
  IF runs = {} THEN AfterJobs(c) ELSE GoOn(c, [request EXCEPT !.at = "cancel_jobs", !.left = runs])

\* save_graph_endpoint: the rows are overwritten, whatever has become of them.
SaveGraph(c) ==
  /\ At(c, "graph", "save_graph")
  /\ run' = [r \in Runs |-> IF r \in req[c].on THEN req[c].state[r] ELSE run[r]]
  /\ CancelJobsOf(c, [NoRequest EXCEPT !.op = "graph"],
                  {r \in req[c].on \ {Root} : IsTerminal(req[c].state[r])})
  /\ UNCHANGED <<status, row>>

\* put_resolution_endpoint and cancel_resolution_endpoint check the status
\* against the row.
Accepted(op, s) == s \in StatusTransitions[status] \/ (op = "put" /\ s = status)

\* The order of the steps: a PUT cancels the runs before the status is saved,
\* a cancellation after it.
FirstStep(op, s) == IF op = "cancel" THEN "runner_job" ELSE IF IsClosed(s) THEN "list_runs" ELSE "save_status"
AfterSave(c) == IF req[c].op = "cancel" THEN "list_runs" ELSE "refresh"

\* A refused request changes nothing, and only matters to the runner.
AskStatus(c, op, s) ==
  /\ req[c] = NoRequest
  /\ IF Accepted(op, s)
     THEN GoOn(c, [NoRequest EXCEPT !.op = op, !.status = s, !.at = FirstStep(op, s)])
     ELSE Answer(c, "error")

\* cancel_resolution_endpoint: the runner's job.
CancelRunner(c) ==
  /\ At(c, "cancel", "runner_job")
  /\ CancelJob(Root)
  /\ Goto(c, "save_status")
  /\ UNCHANGED <<run, status>>

\* save_resolution overwrites the row.
SaveStatus(c) ==
  /\ req[c].op \in {"put", "cancel"} /\ req[c].at = "save_status"
  /\ status' = req[c].status
  /\ Goto(c, AfterSave(c))
  /\ UNCHANGED <<run, row, cluster>>

\* put_resolution_endpoint: the rows of the runner's jobs are brought up to date.
RefreshRunner(c) ==
  /\ At(c, "put", "refresh")
  /\ row' = [row EXCEPT ![Root] = Refreshed(row, Root)]
  /\ Answer(c, "ok")
  /\ UNCHANGED <<run, status, cluster>>

\* _cancel_non_terminal_runs: the runs are listed, ...
ListRuns(c) ==
  /\ req[c].at = "list_runs"
  /\ GoOn(c, [req[c] EXCEPT !.at = "cancel_runs", !.left = {r \in Runs : IsOpen(run[r])}])
  /\ UNCHANGED <<database, cluster>>

\* ... saved as CANCELED whatever has become of them, ...
CancelRuns(c) ==
  /\ req[c].at = "cancel_runs"
  /\ run' = [r \in Runs |-> IF r \in req[c].left THEN "CANCELED" ELSE run[r]]
  /\ CancelJobsOf(c, req[c], req[c].left \ {Root})
  /\ UNCHANGED <<status, row, cluster>>

\* ... and their jobs are deleted one by one.
CancelJobs(c) ==
  /\ req[c].at = "cancel_jobs"
  /\ \/ \E r \in req[c].left :
          /\ CancelJob(r)
          /\ CancelJobsOf(c, req[c], req[c].left \ {r})
          /\ UNCHANGED disturbances
     \* A fault: Kubernetes refuses.  The other jobs are forgotten, except by
     \* clean_jobs; put_resolution_endpoint goes on.
     \/ /\ Disturbed
        /\ \E r \in req[c].left :
             /\ row[r] = "active"
             /\ CASE req[c].op = "clean_jobs" -> CancelJobsOf(c, req[c], req[c].left \ {r})
                  [] req[c].op = "put" -> AfterJobs(c)
                  [] OTHER -> Answer(c, "error")
        /\ UNCHANGED <<row, cluster>>
  /\ UNCHANGED <<run, status>>

-----------------------------------------------------------------------------
(* The requests of the cleaner.                                            *)

\* clean_orphaned_run_endpoint: what a run that is still open becomes.
CleanedState(s) ==
  IF IsTerminal(s) THEN s
  ELSE IF s = "CREATED" THEN "CANCELED"
  ELSE IF IsAllowedTransition(s, "FAILED") THEN "FAILED" ELSE "NESTED_FAILED"

CleanRun(c) ==
  /\ At(c, "clean_run", "save_run")
  /\ \E r \in req[c].on :
       LET new == CleanedState(req[c].state[r]) IN
       run' = IF IllegalSave(r, new) THEN run ELSE [run EXCEPT ![r] = new]
  /\ Answer(c, "ok")
  /\ UNCHANGED <<status, row, cluster>>

\* clean_stale_resolution_endpoint, once the runner's jobs were looked at.
CleanPipeline(c) ==
  \/ /\ At(c, "clean_pipeline", "save_status")
     /\ status' = "FAILED"
     /\ Goto(c, "save_job")
     /\ UNCHANGED <<run, row, cluster>>
  \/ /\ At(c, "clean_pipeline", "save_job")
     /\ row' = [row EXCEPT ![Root] = IF req[c].row[Root] = "ended" THEN "ended" ELSE @]
     /\ Answer(c, "ok")
     /\ UNCHANGED <<run, status, cluster>>

-----------------------------------------------------------------------------
(* The clients.                                                            *)

Once(c) == c \notin made /\ made' = made \cup {c}

\* schedule_resolution_endpoint is asked before there is a job of the runner.
LaunchPipeline ==
  /\ Once("launcher")
  /\ Ask("launcher", [NoRequest EXCEPT !.op = "launch",
                                        !.at = IF status = "CREATED" THEN "submit" ELSE "refuse"])
  /\ UNCHANGED <<database, cluster, disturbances>>

CancelPipeline ==
  /\ "launcher" \in made /\ req["launcher"] = NoRequest
  /\ Once("user") /\ AskStatus("user", "cancel", "CANCELED")
  /\ Disturbed
  /\ UNCHANGED <<database, cluster>>

\* A worker saves its copy of the run, and leaves once that is done.
WorkerAnswers(l) ==
  /\ Alive(l) /\ Once(l)
  /\ \E s \in {"RESOLVED", "FAILED"} : Ask(l, SaveRequest({l}, [run EXCEPT ![l] = s]))
  /\ UNCHANGED <<database, cluster, disturbances>>

WorkerLeaves(l) ==
  /\ Alive(l) /\ l \in made /\ req[l] = NoRequest
  /\ live' = live \ {l} /\ doomed' = doomed \ {l}
  /\ UNCHANGED <<database, req, clients, disturbances>>

\* What `sematic clean` finds: get_orphaned_run_ids, _get_zombie_resolution_ids,
\* get_stale_resolution_ids, get_run_ids_with_orphaned_jobs and
\* get_resolution_ids_with_orphaned_jobs.
OrphanedRun(r) == IsClosed(status) /\ IsOpen(run[r])

\* Mutant: a pipeline run is only a zombie if it had a job.
ZombieHadJob ==
  /\ ~ IsClosed(status) /\ row[Root] # "none" /\ Refreshed(row, Root) # "active"
  /\ \A l \in Leaves : run[l] = "SCHEDULED" => Refreshed(row, l) # "active"

Zombie ==
  /\ ~ IsClosed(status) /\ Refreshed(row, Root) # "active"
  /\ \A l \in Leaves : run[l] = "SCHEDULED" => Refreshed(row, l) # "active"
Stale == ~ IsClosed(status) /\ IsTerminal(run[Root])
OrphanedJob(r) == row[r] = "active" /\ IF r = Root THEN IsClosed(status) ELSE IsTerminal(run[r])

\* clean_stale_resolution_endpoint looks at the root run and the runner's jobs
\* again: it refuses nothing that it was asked for in the same state.  The
\* others clean under the condition they were asked for.
Clean(op, r) ==
  /\ \/ op = "clean_run"      /\ OrphanedRun(r) /\ Ask("cleaner", Request(op, {r}, "save_run"))
     \/ op = "clean_jobs"     /\ OrphanedJob(r)
                              /\ Ask("cleaner", [NoRequest EXCEPT !.op = op, !.left = {r}, !.at = "cancel_jobs"])
     \/ op = "clean_pipeline" /\ r = Root /\ (Zombie \/ Stale)
                              /\ Ask("cleaner", [NoRequest EXCEPT !.op = op, !.at = "save_status",
                                                                 !.row[Root] = Refreshed(row, Root)])
  /\ UNCHANGED <<database, cluster, made, disturbances>>

CleanerOps == {"clean_run", "clean_pipeline", "clean_jobs"}

-----------------------------------------------------------------------------
(* The runner.                                                             *)

\* _move_runs_to_terminal_state, with the rows as they are when it reads them.
OpenRuns == {r \in Runs : IsOpen(run[r])}
MovedRuns == [r \in Runs |-> IF r = Root THEN "FAILED" ELSE "CANCELED"]

Save(on, R) == Ask("runner", SaveRequest(on, R))
Send(op, on, step) == Ask("runner", Request(op, on, step))

RunnerAsks ==
  /\ Alive(Root)
  /\ \/ rpc = "begin"       /\ AskStatus("runner", "put", "RUNNING")
     \/ rpc = "start"       /\ Save({Root}, [run EXCEPT ![Root] = "SCHEDULED"])
     \/ rpc = "expand"      /\ Save(Runs, [r \in Runs |-> IF r = Root THEN "RAN" ELSE "CREATED"])
     \/ rpc = "schedule"    /\ \E l \in Leaves : /\ future[l] = "CREATED" /\ run[l] = "CREATED"
                                               /\ Send("schedule", {l}, "submit")
     \/ rpc = "wait"        /\ Send("update", {l \in Leaves : future[l] = "SCHEDULED"}, "check")
     \/ rpc = "resolve"     /\ Save({Root}, [run EXCEPT ![Root] = "RESOLVED"])
     \/ rpc = "succeed"     /\ AskStatus("runner", "put", "COMPLETE")
     \/ rpc = "fail"        /\ Save(OpenRuns, MovedRuns)
     \/ rpc = "fail_status" /\ AskStatus("runner", "put", "FAILED")
     \/ rpc = "last_word"   /\ IsOpen(run[Root]) /\ Save({Root}, MovedRuns)
  /\ UNCHANGED <<database, cluster, made, disturbances>>

\* CloudRunner._schedule_future, "Tried to double schedule": somebody has
\* changed the run, and the future takes its state.
TakesState ==
  /\ Alive(Root) /\ rpc = "schedule" /\ req["runner"] = NoRequest
  /\ \E l \in Leaves :
       /\ future[l] = "CREATED" /\ run[l] # "CREATED"
       /\ future' = [future EXCEPT ![l] = run[l]]
       /\ rpc' = NextStep([future EXCEPT ![l] = run[l]])
  /\ UNCHANGED <<database, cluster, req, made, disturbances>>

\* A runner whose pod is gone remembers nothing.
RunnerMayBeGone ==
  IF Root \in (live \cup doomed)' \/ ~ Alive(Root) THEN UNCHANGED <<rpc, future>>
  ELSE rpc' = "gone" /\ future' = [l \in Leaves |-> "CREATED"]

\* worker.main only saves the root run if it is still open.  The process ends,
\* and its job with it.
RunnerLeaves ==
  /\ Alive(Root) /\ req["runner"] = NoRequest
  /\ rpc = "gone" \/ (rpc = "last_word" /\ ~ IsOpen(run[Root]))
  /\ live' = live \ {Root} /\ doomed' = doomed \ {Root}
  /\ UNCHANGED <<database, req, made, disturbances>>
  /\ RunnerMayBeGone

-----------------------------------------------------------------------------
(* The world around them.                                                  *)

\* Kubernetes stops the pod of a job that was deleted.
PodStops(j) ==
  /\ j \in doomed /\ doomed' = doomed \ {j}
  /\ UNCHANGED <<database, live, req, made, disturbances>>
  /\ RunnerMayBeGone

\* A fault: a pod dies.
PodDies(j) ==
  /\ j \in live /\ live' = live \ {j}
  /\ Disturbed
  /\ UNCHANGED <<database, doomed, req, made>>
  /\ RunnerMayBeGone

\* A fault: the server stops in the middle of a request.
ServerDies(c) ==
  /\ req[c].at # "idle"
  /\ Disturbed
  /\ Answer(c, "error")
  /\ UNCHANGED <<database, cluster, made>>

Serve(c) ==
  /\ \/ /\ \/ Launch(c) \/ Schedule(c) \/ Update(c)
           \/ CancelRunner(c) \/ SaveStatus(c) \/ RefreshRunner(c)
           \/ ListRuns(c) \/ CancelRuns(c) \/ CleanRun(c) \/ CleanPipeline(c)
           \/ SaveGraph(c) /\ UNCHANGED cluster
        /\ UNCHANGED disturbances
     \/ CancelJobs(c)
  /\ UNCHANGED made

Runner == RunnerAsks \/ TakesState \/ RunnerLeaves
Worker(l) == WorkerAnswers(l) \/ WorkerLeaves(l)

Next ==
  \/ \E c \in Clients : Serve(c) \/ ServerDies(c)
  \/ LaunchPipeline \/ CancelPipeline \/ Runner
  \/ \E l \in Leaves : Worker(l)
  \/ \E op \in CleanerOps, r \in Runs : Clean(op, r)
  \/ \E j \in Runs : PodStops(j) \/ PodDies(j)

\* The server and the runner go on, a function comes to its end, Kubernetes
\* stops pods, and the cleaner, a cron job that goes through all that it
\* finds, gets to everything that it finds again and again.
Fairness ==
  /\ WF_vars(Serve("runner")) /\ WF_vars(Runner)
  /\ WF_vars(\E c \in Clients \ {"runner"} : Serve(c))
  /\ WF_vars(\E l \in Leaves : Worker(l) \/ \E j \in Runs : PodStops(j))
  /\ WF_vars(\E op \in CleanerOps, r \in Runs : Clean(op, r))

Spec == Init /\ [][Next]_vars
FairSpec == Spec /\ Fairness

-----------------------------------------------------------------------------
(* Properties. *)

\* A value that a worker has saved is never turned into a failure: neither a
\* status update nor the cleaner nor a failing runner that read the run while
\* its worker was still at work fails it afterwards.
AnswersSurvive ==
  [][\A r \in Runs : run[r] = "RESOLVED" => run'[r] \in {"RESOLVED", "CANCELED"}]_vars

\* Nothing of the pipeline run is open, and the server knows of no job of it
\* that may still be at work.
Over == /\ IsClosed(status)
        /\ \A r \in Runs : ~ IsOpen(run[r]) /\ row[r] # "active"
        /\ \A r \in live : row[r] = "none"

\* Whatever fails, dies or is canceled on the way, in the end a pipeline run is
\* over and stays so: what the requests leave behind, the cleaner finds.
EverythingEnds == <>[]Over
=============================================================================
