-------------------------- MODULE ExternalResource --------------------------
(***************************************************************************)
(* One external resource of a cloud pipeline, its row in the database, and *)
(* all that changes them at the same time:                                 *)
(*   "block"  the main thread of the worker, which runs the with block;    *)
(*   "poll"   the thread that asks for updates while the block runs;       *)
(*   "server" the other requests: the runner of the pipeline deactivates   *)
(*            all resources when it fails, and the cleaner cleans what a   *)
(*            pipeline that is over has left behind.                       *)
(*                                                                         *)
(* A request reads the row, calls the plug-in, and saves the resource it   *)
(* got: others may do so in between.  The client of a request that raises  *)
(* tries it again, some number of times, then gives up.                    *)
(***************************************************************************)
EXTENDS ResourceStates

CONSTANT MaxFaults   \* Bound: how many faults happen, each kind once

ConstantsAssumption == MaxFaults \in Nat
ASSUME ConstantsAssumption

Clients == {"block", "poll", "server"}

\* crash: the server stops in the middle of a request.  reply: the answer gets
\* lost.  stalled: a save is overtaken.  create, delete, list: the Kubernetes API
\* fails.  setup: the cluster cannot be asked for.  workers: too few are left.
\* removed: somebody deletes the cluster.  forced: somebody cleans with --force.
\* tie: two times are of the same second.
FaultKinds == {"crash", "reply", "stalled", "create", "delete", "list", "setup",
               "workers", "removed", "forced", "tie"}

VARIABLES
  cluster,    \* the cluster in Kubernetes
  row,        \* the row of the resource
  linked,     \* the row is linked to the run
  pipeline,   \* "running", "failing", or "over": its status is terminal
  stage,      \* where the with block is
  entered,    \* the body of the block has been run
  resource,   \* the resource as the main thread knows it
  pc,         \* where the request of a client is
  copy,       \* its resource
  faults      \* the faults that have happened

worker == <<stage, entered, resource>>
outer  == <<linked, pipeline>>
vars   == <<cluster, row, outer, worker, pc, copy, faults>>

\* The calls of activate_resource_for_run, then of deactivate_resource.
Stages == {"create", "link", "activate", "resave", "wait", "waitsave", "inside",
           "leave", "deactivate", "desave", "dewait", "dewaitsave", "left", "failed"}

Absent == [NewResource EXCEPT !.state = "absent"]

Steps == {"idle", "activate", "deactivate", "update", "save", "merge",
          "await", "last", "lastmerge", "raised", "stopped"}

\* The last condition is __post_init__ of ResourceStatus.
TypeOK ==
  /\ cluster \in Clusters /\ row \in Resources
  /\ linked \in BOOLEAN /\ pipeline \in {"running", "failing", "over"}
  /\ stage \in Stages /\ entered \in BOOLEAN
  /\ resource \in Resources
  /\ pc \in [Clients -> Steps] /\ copy \in [Clients -> Resources]
  /\ faults \subseteq FaultKinds
  /\ \A r \in {row, resource} : r.managed_by = "UNKNOWN" =>
       r.state \in {"absent", "CREATED", "DEACTIVATED", "FORCE_KILLED"}

Init ==
  /\ cluster = "none" /\ row = Absent /\ linked = FALSE /\ pipeline = "running"
  /\ stage = "create" /\ entered = FALSE /\ resource = NewResource
  /\ pc = [c \in Clients |-> "idle"]
  /\ copy = [c \in Clients |-> Absent]
  /\ faults = {}

Fault(kind) ==
  /\ kind \notin faults /\ Cardinality(faults) < MaxFaults
  /\ faults' = faults \cup {kind}

(***************************************************************************)
(* Time.  Only the order of two times is looked at, so times are the ranks *)
(* 0 .. n - 1 of those in use, and the present is n.                       *)
(***************************************************************************)
Times(R, M, C) == {0, R.time, M.time} \cup {C[c].time : c \in Clients}
Now == Cardinality(Times(row, resource, copy))

Write(R, M, C) ==
  \E used \in {Times(R, M, C)} :
    LET Ranked(r) == [r EXCEPT !.time = Cardinality({t \in used : t < @})]
    IN  /\ row' = Ranked(R) /\ resource' = Ranked(M)
        /\ copy' = [c \in Clients |-> Ranked(C[c])]

(***************************************************************************)
(* Kubernetes, the pipeline and the worker.                                *)
(***************************************************************************)
ClusterBecomes(kind) ==
  /\ cluster' = kind
  /\ UNCHANGED <<row, outer, worker, pc, copy>>

WorkersReady == /\ cluster = "starting" /\ ClusterBecomes("up") /\ UNCHANGED faults
WorkersLost  == /\ cluster = "up" /\ Fault("workers") /\ ClusterBecomes("down")
Disappears   == /\ cluster = "deleting" /\ ClusterBecomes("gone") /\ UNCHANGED faults
Removed      == /\ cluster \in Alive /\ Fault("removed") /\ ClusterBecomes("gone")

\* Another run fails, or the pipeline is canceled: the runner cleans up.
PipelineFails ==
  /\ pipeline = "running" /\ pipeline' = "failing"
  /\ UNCHANGED <<cluster, row, linked, worker, pc, copy, faults>>

\* The status of the pipeline becomes terminal, at the end of that, or at once when
\* the server cancels it.  A run that has not ended may still be at work.
PipelineOver ==
  /\ pipeline # "over" /\ pc["server"] = "idle" /\ pipeline' = "over"
  /\ UNCHANGED <<cluster, row, linked, worker, pc, copy, faults>>

Working == stage \notin {"left", "failed"}

\* The job of the worker is deleted or evicted.  Requests it made go on.
Killed ==
  /\ Working /\ stage' = "failed" /\ entered' = FALSE
  /\ Write(row, NewResource, copy)
  /\ UNCHANGED <<cluster, outer, pc, faults>>

Outside ==
  \/ WorkersReady \/ WorkersLost \/ Disappears \/ Removed
  \/ PipelineFails \/ PipelineOver \/ Killed

(***************************************************************************)
(* The with block.                                                         *)
(***************************************************************************)
\* __exit__ raises unless the resource is DEACTIVATED; so does a block that was
\* not entered.
Ended(state) == IF entered /\ state = "DEACTIVATED" THEN "left" ELSE "failed"

\* What the main thread may do next, with what it was answered.
StagesAfter(state) ==
  CASE stage = "create"   -> {"link"}
    [] stage = "activate" -> {"resave"}
    [] stage = "resave"   -> {"wait"}
    [] stage = "wait"     -> {"waitsave"}
       \* a terminal state or the timeout raise, which leaves the block
    [] stage = "waitsave" ->
         {"leave"} \cup (IF IsTerminal(state) THEN {}
                         ELSE IF state = "ACTIVE" THEN {"inside"} ELSE {"wait"})
    [] stage = "leave"      -> {IF IsTerminal(state) THEN Ended(state) ELSE "deactivate"}
    [] stage = "deactivate" -> {"desave"}
    [] stage = "desave"     -> {IF IsTerminal(state) THEN Ended(state) ELSE "dewait"}
    [] stage = "dewait"     -> {"dewaitsave"}
    [] stage = "dewaitsave" ->
         {"failed", IF IsTerminal(state) THEN Ended(state) ELSE "dewait"}

\* What it does when it gives up: a failed update is logged, anything else raises.
StageAfterError ==
  CASE stage \in {"create", "activate", "resave", "waitsave"} -> "leave"
    [] stage = "wait"   -> "waitsave"
    [] stage = "dewait" -> "dewaitsave"
    [] OTHER            -> "failed"

Keeps == {"create", "resave", "waitsave", "desave", "dewaitsave"}

\* save_resource_run_links
Link ==
  /\ stage = "link" /\ stage' = "activate" /\ linked' = TRUE
  /\ UNCHANGED <<cluster, row, pipeline, entered, resource, pc, copy, faults>>

\* The body ends, with an exception or not.
BodyEnds ==
  /\ stage = "inside" /\ stage' = "leave" /\ entered' = TRUE
  /\ UNCHANGED <<cluster, row, outer, resource, pc, copy, faults>>

(***************************************************************************)
(* Requests.                                                               *)
(***************************************************************************)
At(c, step)   == pc[c] = step
GoTo(c, step) == pc' = [pc EXCEPT ![c] = step]
Forget(c)     == [copy EXCEPT ![c] = Absent]

\* The answer to c is answer, and the row becomes R.  A call of _save_resource
\* does not look at its answer.
Answer(c, R, answer) ==
  /\ GoTo(c, "idle")
  /\ IF c = "block" /\ Working
     THEN /\ \E mine \in {IF stage \in Keeps THEN resource ELSE answer} :
               /\ stage' \in StagesAfter(mine.state)
               /\ Write(R, mine, Forget(c))
          /\ UNCHANGED entered
     ELSE Write(R, resource, Forget(c)) /\ UNCHANGED <<stage, entered>>

\* The request raises: the client tries it again or not.  That is the end of the
\* thread that asks for updates.
Raise(c, R) ==
  /\ Write(R, resource, Forget(c))
  /\ \/ GoTo(c, "idle") /\ UNCHANGED stage
     \/ c = "block" /\ Working /\ GoTo(c, "idle") /\ stage' = StageAfterError
     \/ c = "poll" /\ GoTo(c, "stopped") /\ UNCHANGED stage
  /\ UNCHANGED entered

\* clean_resource_endpoint catches it.
Fails(c) ==
  IF c = "server" /\ pipeline = "over"
  THEN GoTo(c, "raised") /\ UNCHANGED <<row, worker, copy>>
  ELSE Raise(c, row)

\* get_external_resource_record
Read(c, step) ==
  /\ GoTo(c, step) /\ copy' = [copy EXCEPT ![c] = row]
  /\ UNCHANGED <<cluster, row, outer, worker, faults>>

AnswerRow(c) == Answer(c, row, row) /\ UNCHANGED <<cluster, outer, faults>>

\* 404
NoRow(c) == row.state = "absent" /\ Raise(c, row) /\ UNCHANGED <<cluster, outer, faults>>

\* get_resource_endpoint with refresh_remote
Get(c) ==
  \/ NoRow(c)
  \/ /\ row.state # "absent"
     /\ IF row.managed_by = "SERVER" /\ ~ IsTerminal(row.state)
        THEN Read(c, "update") ELSE AnswerRow(c)

\* deactivate_resource_endpoint, for a row that its client has seen.
DeactivateRequest(c) == IF IsTerminal(row.state) THEN AnswerRow(c) ELSE Read(c, "deactivate")

\* save_resource_endpoint
SaveRequest(c) ==
  /\ GoTo(c, "save") /\ copy' = [copy EXCEPT ![c] = resource]
  /\ UNCHANGED <<cluster, row, outer, worker, faults>>

\* Mutant: UNKNOWN is left out.
OrphanedOfServer ==
  pipeline = "over" /\ linked /\ ~ IsTerminal(row.state) /\ row.managed_by = "SERVER"

\* get_orphaned_resource_records: the row is managed by the server or CREATED.
Orphaned == pipeline = "over" /\ linked /\ ~ IsTerminal(row.state)

\* The cleaner: clean_resource_endpoint, up to the first call of the plug-in.
CleanRequest ==
  Orphaned /\ Read("server", IF row.state = "DEACTIVATING" THEN "await" ELSE "deactivate")

\* _deactivate_all_resources.  The runner may also try its request again when the
\* answer gets lost, which is not counted as a fault.
RunnerRequest == pipeline = "failing" /\ linked /\ DeactivateRequest("server")

\* poll_for_updates_by_resource_id, until __exit__ stops it
PollRequest == stage = "inside" /\ Get("poll")

\* The main thread.
BlockRequest ==
  \/ stage \in Keeps /\ SaveRequest("block")
  \/ stage = "activate" /\ Read("block", "activate")
  \/ stage \in {"wait", "leave", "dewait"} /\ Get("block")
  \/ stage = "deactivate" /\ DeactivateRequest("block")

Begin(c) ==
  /\ At(c, "idle")
  /\ \/ c = "block"  /\ BlockRequest
     \/ c = "poll"   /\ PollRequest
     \/ c = "server" /\ (RunnerRequest \/ CleanRequest)

\* The plug-in has tried a call for c, and what it returns is legal or raises.
Outcome(c, tried, legal, step) ==
  /\ cluster' = tried.cluster
  /\ IF legal
     THEN /\ Write(row, resource, [copy EXCEPT ![c] = tried.resource])
          /\ GoTo(c, step) /\ UNCHANGED <<stage, entered>>
     ELSE Fails(c)
  /\ UNCHANGED outer

ActivateOutcome(c, tried) == Outcome(c, tried, Activated(copy[c], tried.resource), "save")

\* activate_resource_endpoint: whatever the state is, it is the plug-in that is
\* called first.
Activate(c) ==
  /\ At(c, "activate")
  /\ \/ ActivateOutcome(c, DoActivate(cluster, copy[c], Now)) /\ UNCHANGED faults
     \/ ActivateOutcome(c, CannotActivate(cluster, copy[c], Now)) /\ Fault("setup")
     \/ ActivateOutcome(c, CreateFails(cluster, copy[c], Now)) /\ Fault("create")

DeactivateOutcome(c, tried) ==
  Outcome(c, tried, Deactivated(copy[c], tried.resource), "save")
UpdateOutcome(c, tried, step) ==
  Outcome(c, tried, ValidTransition(copy[c], tried.resource), step)

\* What the plug-in has tried began with the deletion of the cluster, which may fail.
Deletes(c, tried) ==
  copy[c].named /\ tried.resource.state \in {"DEACTIVATING", "DEACTIVATED"} /\ Fault("delete")

Deactivate(c) ==
  LET tried == DoDeactivate(cluster, copy[c], Now)
  IN  /\ At(c, "deactivate")
      /\ \/ DeactivateOutcome(c, tried) /\ UNCHANGED faults
         \/ Deletes(c, tried) /\ DeactivateOutcome(c, DeletionFails(cluster, copy[c], Now))

Updates(c, step) ==
  LET tried == DoUpdate(cluster, copy[c], Now)
  IN  \/ UpdateOutcome(c, tried, step) /\ UNCHANGED faults
      \/ Deletes(c, tried) /\ UpdateOutcome(c, DeletionFails(cluster, copy[c], Now), step)

Update(c) == At(c, "update") /\ Updates(c, "save")

\* wait_for_deactivation, then the save that follows.
Await(c) == At(c, "await") /\ Updates(c, "last")

AwaitMore(c) ==
  /\ At(c, "last") /\ ~ IsTerminal(copy[c].state)
  /\ GoTo(c, "await") /\ UNCHANGED <<cluster, row, outer, worker, copy, faults>>

\* The listing of pods raises.
ListFails(c) ==
  /\ pc[c] \in {"update", "await"} /\ copy[c].state \in {"ACTIVATING", "ACTIVE"}
  /\ Fault("list") /\ Fails(c) /\ UNCHANGED <<cluster, outer>>

(***************************************************************************)
(* save_external_resource_record.                                          *)
(***************************************************************************)
\* The row has become the copy of c.
Saved(c) ==
  IF c = "server" /\ pipeline = "over" /\ pc[c] \in {"save", "merge"}
  THEN /\ Write(copy[c], resource, copy) /\ GoTo(c, "await")
       /\ UNCHANGED <<stage, entered>>
  ELSE Answer(c, copy[c], copy[c])

\* The row is read and the copy checked against it, in one session.  It is merged
\* in another: what others have saved in between is overwritten.
Save(c) ==
  /\ pc[c] \in {"save", "last"}
  /\ IF ValidTransition(row, copy[c])
     THEN \/ Saved(c) /\ UNCHANGED faults
          \/ /\ Fault("stalled") /\ GoTo(c, IF At(c, "save") THEN "merge" ELSE "lastmerge")
             /\ UNCHANGED <<row, worker, copy>>
     ELSE \/ Fails(c) /\ UNCHANGED faults
          \/ /\ ValidTransition([row EXCEPT !.time = 0], copy[c])
             /\ Fault("tie") /\ Saved(c)
  /\ UNCHANGED <<cluster, outer>>

Merge(c) ==
  /\ pc[c] \in {"merge", "lastmerge"} /\ Saved(c)
  /\ UNCHANGED <<cluster, outer, faults>>

\* Cleaning has raised: an UPDATE_ERROR, until the cleaner runs again.
CleanFailed(c) ==
  /\ At(c, "raised") /\ Raise(c, row)
  /\ UNCHANGED <<cluster, outer, faults>>

\* With force, force_to_terminal_state.  A FORCE_KILLED record is not checked.
ForceKill(c) ==
  /\ At(c, "raised") /\ Fault("forced")
  /\ Answer(c, WithStatus(copy[c], "FORCE_KILLED", Now), copy[c])
  /\ UNCHANGED <<cluster, outer>>

\* The server crashes before the request has saved anything more, or the answer to
\* a save is lost.
Crash(c) ==
  /\ pc[c] \notin {"idle", "stopped"} /\ Fault("crash") /\ Raise(c, row)
  /\ UNCHANGED <<cluster, outer>>

ReplyLost(c) ==
  /\ c # "server" /\ At(c, "save") /\ ValidTransition(row, copy[c])
  /\ Fault("reply") /\ Raise(c, copy[c])
  /\ UNCHANGED <<cluster, outer>>

Serves(c) ==
  \/ Activate(c) \/ Deactivate(c) \/ Update(c) \/ Await(c) \/ AwaitMore(c) \/ ListFails(c)
  \/ Save(c) \/ Merge(c) \/ CleanFailed(c) \/ ForceKill(c)

Next ==
  \/ Outside \/ Link \/ BodyEnds
  \/ \E c \in Clients : Begin(c) \/ Serves(c) \/ Crash(c) \/ ReplyLost(c)

Spec == Init /\ [][Next]_vars

\* A request that was made is answered, the cleaner runs every so often, and
\* Kubernetes deletes what it was told to.
FairSpec ==
  /\ Spec
  /\ \A c \in Clients : WF_vars(Serves(c))
  /\ WF_vars(Begin("server")) /\ WF_vars(Disappears)

(***************************************************************************)
(* Properties.                                                             *)
(***************************************************************************)
None(kind) == kind \notin faults

\* A row that says DEACTIVATED and has the name of its cluster is right: the
\* cluster is gone, and nobody makes it again, whatever copies were saved late.
\* It needs that the activation was not tried again after it had been done.
NamedMeansGone ==
  row.state = "DEACTIVATED" /\ row.named /\ None("reply") => cluster = "gone"

\* As long as the pipeline runs and nothing fails, a cluster with all its workers is
\* there for the body of the block, and the row says so.
BodyHasCluster ==
  stage = "inside" /\ pipeline = "running" /\ faults = {} =>
    cluster = "up" /\ row.state = "ACTIVE" /\ row.named

\* Nobody loses sight of a cluster, whatever the worker, its polling thread, the
\* runner and the cleaner save late: when no request is under way, the row of a
\* cluster that exists has its name, and is not over as long as the pipeline runs.
\* Once the pipeline fails a row may be over without a name (TornDown).  A server that
\* stops after it has made the cluster loses its name for good, and so does an
\* activation that is tried again after a first one that had made no cluster.
ClusterIsKnown ==
  /\ cluster \in Alive /\ \A c \in Clients : pc[c] \in {"idle", "stopped"}
  /\ None("crash") /\ (None("reply") \/ faults = {"reply"})
  => IF pipeline = "running" THEN row.named /\ ~ IsTerminal(row.state)
     ELSE row.named \/ IsTerminal(row.state)

\* Once the pipeline is over and the worker has ended, the cleaner gets the row to
\* an end, or the cluster at least is gone: a row that is still ACTIVE when its cluster
\* is gone stays so, since update and deactivate may not go from there to DEACTIVATED.
CleanerGetsThere ==
  pipeline = "over" /\ linked /\ ~ Working ~> IsTerminal(row.state) \/ cluster = "gone"


\* docs/ray.md has it that the cluster is torn down "when training terminates
\* (successfully or with a failure)": a resource that is DEACTIVATED, with nobody
\* at work on it, has no cluster.
TornDown ==
  row.state = "DEACTIVATED" /\ (\A c \in Clients : pc[c] = "idle") => cluster \notin Alive
=============================================================================
