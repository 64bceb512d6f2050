--------------------------- MODULE KubernetesJob ---------------------------
(***************************************************************************)
(* One Kubernetes job, its row in the database, and the server's requests  *)
(* that look at the job and stop it (sematic/scheduling/kubernetes.py and  *)
(* job_scheduler.py, and the endpoints that call them).                    *)
(*                                                                         *)
(* A request reads the row, then calls Kubernetes, then saves its copy of  *)
(* the row: several requests may do so at the same time.  The cluster is     *)
(* external: it is modelled from what the code expects of it.  An          *)
(* ApiException is retried three times without a change in between, here   *)
(* a request that fails did so three times.                                *)
(***************************************************************************)
EXTENDS JobStatus

CONSTANTS
  Requests,   \* the requests that the server handles at the same time
  RolesOf,    \* what each of them may be
  MaxFaults   \* Bound: how many faults happen, each kind once

\* poll: update_run_status, PUT and clean of a pipeline run.  cancel: save_graph
\* with an ended run, cancel of a pipeline run, clean_jobs.  force: clean_jobs
\* with force.
Roles == {"poll", "cancel", "force"}

ConstantsAssumption ==
  /\ IsFiniteSet(Requests)
  /\ RolesOf \in [Requests -> SUBSET Roles]
  /\ MaxFaults \in Nat
ASSUME ConstantsAssumption

FaultKinds == {"read", "list", "delete", "network", "replaced"}

VARIABLES
  object,   \* the job object: "unseen", "there" or "gone"
  pods,     \* the pods of the job: number 1, and number 0 that it replaces
  late,     \* 24 hours have passed since the row was made
  row,      \* the row of the job
  pc,       \* where a request is
  copy,     \* its copy of the row
  role,     \* why it was made
  seen,     \* the counts that it has read from the job
  faults    \* the faults that have happened

cluster == <<object, pods>>
vars    == <<cluster, late, row, pc, copy, role, seen, faults>>

NoCounts == [active |-> 0, succeeded |-> 0]

Steps == {"idle", "read", "list", "delete", "save", "force"}

TypeOK ==
  /\ object \in {"unseen", "there", "gone"}
  /\ pods \in Pods /\ late \in BOOLEAN
  /\ row \in Rows
  /\ pc \in [Requests -> Steps]
  /\ copy \in [Requests -> Rows]
  /\ role \in [Requests -> Roles]
  /\ seen \in [Requests -> Counts]
  /\ faults \subseteq FaultKinds

Init ==
  /\ object \in {"unseen", "there"}
  /\ pods = {} /\ late = FALSE
  /\ row = NewRow
  /\ pc = [r \in Requests |-> "idle"]
  /\ copy = [r \in Requests |-> NewRow]
  /\ role = [r \in Requests |-> "poll"]
  /\ seen = [r \in Requests |-> NoCounts]
  /\ faults = {}

(***************************************************************************)
(* Time.  Only the order of two times is ever looked at, so times are the  *)
(* ranks 0 .. n - 1 of those in use, and the present is n.  The history of *)
(* a copy is never looked at.                                              *)
(***************************************************************************)
Times(R, C) == {0, R.since, R.last} \cup {C[r].last : r \in Requests}
Now == Cardinality(Times(row, copy))

\* The row becomes R, the copies of the requests C.
Write(R, C) ==
  \E used \in {Times(R, C)} :
    LET Rank(time) == Cardinality({t \in used : t < time})
    IN  /\ row'  = [R EXCEPT !.since = Rank(@), !.last = Rank(@)]
        /\ copy' = [r \in Requests |-> [C[r] EXCEPT !.since = 0, !.last = Rank(@)]]

Fault(kind) ==
  /\ kind \notin faults /\ Cardinality(faults) < MaxFaults
  /\ faults' = faults \cup {kind}

(***************************************************************************)
(* The cluster.                                                            *)
(***************************************************************************)
Live(p)  == p[2] \notin EndedPods
Counted  == [active    |-> Cardinality({p \in pods : Live(p)}),
             succeeded |-> Cardinality({p \in pods : p[2] = "Succeeded"})]
HasPod   == \E p \in pods : p[1] = 1
Finished == HasPod /\ \A p \in pods : ~ Live(p)

Appear ==
  /\ object = "unseen" /\ object' = "there"
  /\ UNCHANGED <<pods, late, row, pc, copy, role, seen, faults>>

\* The job controller makes the pod of the job, or the one that replaces it.
MakePod ==
  /\ object = "there" /\ ~ HasPod
  /\ pods' = pods \cup {<<1, "Pending">>}
  /\ UNCHANGED <<object, late, row, pc, copy, role, seen, faults>>

PodMoves ==
  /\ object = "there"
  /\ \E p \in pods : /\ p[1] = 1 /\ Live(p)
                     /\ \E phase \in PodPhases \ {"Pending", p[2]} :
                          pods' = (pods \ {p}) \cup {<<1, phase>>}
  /\ UNCHANGED <<object, late, row, pc, copy, role, seen, faults>>

\* A fault: a pod is evicted, and the job controller is going to replace it.
\* The pod shows up as failed, or is still being terminated.
PodEvicted ==
  /\ object = "there" /\ pods = {<<1, "Running">>}
  /\ Fault("replaced")
  /\ \E phase \in {"Failed", "Running"} : pods' = {<<0, phase>>}
  /\ UNCHANGED <<object, late, row, pc, copy, role, seen>>

PodRemoved ==
  /\ HasPod /\ \E p \in pods : p[1] = 0 /\ pods' = pods \ {p}
  /\ UNCHANGED <<object, late, row, pc, copy, role, seen, faults>>

\* The pods of a job go away with it.
Remove == object' = "gone" /\ pods' = {}

\* ttl_seconds_after_finished, or somebody deletes the job.
JobRemoved ==
  /\ object # "gone" /\ Remove
  /\ UNCHANGED <<late, row, pc, copy, role, seen, faults>>

\* _JOB_START_TIMEOUT_SECONDS, which matters to a job that cannot be read.  It
\* is visible long before that.
StartTimeout ==
  /\ ~ late /\ object = "gone" /\ late' = TRUE
  /\ UNCHANGED <<cluster, row, pc, copy, role, seen, faults>>

ClusterStep ==
  \/ Appear \/ MakePod \/ PodMoves \/ PodEvicted \/ PodRemoved \/ JobRemoved
  \/ StartTimeout

(***************************************************************************)
(* Requests.                                                               *)
(***************************************************************************)
At(r, step) == pc[r] = step
GoTo(r, step) == pc' = [pc EXCEPT ![r] = step]

\* The copy of r becomes job.
Keep(r, job) == \E kept \in {[copy EXCEPT ![r] = job]} : Write(row, kept)

\* A request that is over keeps nothing.
Done(r, R) ==
  /\ \E saved \in {R} : Write(saved, [copy EXCEPT ![r] = NewRow])
  /\ role' = [role EXCEPT ![r] = "poll"]
  /\ GoTo(r, "idle")

\* The job is cleaned by force.
Forced(r, step) ==
  /\ Keep(r, [copy[r] EXCEPT !.details = ForceClean(@)])
  /\ GoTo(r, step) /\ UNCHANGED role

\* An exception: clean_jobs goes on to force where it was asked to.
Fails(r) == IF role[r] = "force" THEN Forced(r, "force") ELSE Done(r, row)

\* A copy that is going to be refreshed gets a new time.
Begin(r, why, step, job) ==
  /\ At(r, "idle") /\ GoTo(r, step)
  /\ role' = [role EXCEPT ![r] = why]
  /\ Keep(r, IF step = "read" THEN [job EXCEPT !.last = 0] ELSE job)
  /\ UNCHANGED <<cluster, late, seen, faults>>

\* refresh_jobs: a job that is not active is not refreshed, but a PUT of a
\* pipeline run saves it.
StartPoll(r) == Begin(r, "poll", IF IsActive(row) THEN "read" ELSE "save", row)

\* cancel_job up to its call of refresh_job.  clean_jobs skips deleted jobs.  A
\* job that is known not to exist gets a status, but its details are left alone.
StartCancel(r, why) ==
  /\ why = "cancel" \/ (why = "force" /\ row.status # "Deleted")
  /\ \/ row.details.exists /\ Begin(r, why, "read", row)
     \/ /\ ~ row.details.exists
        /\ Begin(r, why, "save", UpdateStatus(row, GetStatus(ForceClean(row.details)), Now))

\* refresh_job has made job of the copy of r.  A poll saves it, or not where it has
\* nothing new (update_run_status) or is still active (clean of a pipeline run).
\* cancel_job sets the status again and deletes the job.
Refreshed(r, refreshed) ==
  \E job \in {refreshed} :
    \/ role[r] = "poll" /\ Keep(r, job) /\ GoTo(r, "save") /\ UNCHANGED role
    \/ role[r] = "poll" /\ (job.status = copy[r].status \/ IsActive(job)) /\ Done(r, row)
    \/ /\ role[r] # "poll"
       /\ Keep(r, UpdateStatus(job, GetStatus(job.details), Now))
       /\ GoTo(r, "delete") /\ UNCHANGED role

WithDetails(r, d) == UpdateStatus([copy[r] EXCEPT !.details = d], GetStatus(d), Now)

\* read_namespaced_job_status finds the job.  The job controller counts pods some
\* time after they change; so do requests, which list pods some time later.
ReadStatus(r) ==
  /\ At(r, "read") /\ object = "there"
  /\ seen' = [seen EXCEPT ![r] = Counted]
  /\ GoTo(r, "list")
  /\ UNCHANGED <<cluster, late, row, copy, role, faults>>

\* The pods of the job, then the new details.  A failed listing lists nothing.
ListPods(r, listed) ==
  LET d == [copy[r].details EXCEPT !.started = TRUE, !.says = PodStatus(seen[r], listed)]
  IN  /\ At(r, "list")
      /\ \/ CanUpdate(copy[r], GetStatus(d), Now) /\ Refreshed(r, WithDetails(r, d))
         \* update_status raises: cancel_job goes on with the details it had
         \/ ~ CanUpdate(copy[r], GetStatus(d), Now) /\ Refreshed(r, copy[r])
      /\ seen' = [seen EXCEPT ![r] = NoCounts]
      /\ UNCHANGED <<cluster, late>>

ListSucceeds(r) == ListPods(r, pods) /\ UNCHANGED faults
ListFails(r)    == ListPods(r, {}) /\ Fault("list")

\* 404 for a job that has been seen: it no longer exists.
NotFound(r) ==
  /\ At(r, "read") /\ object # "there" /\ copy[r].details.started
  /\ Refreshed(r, WithDetails(r, [copy[r].details EXCEPT !.exists = FALSE]))
  /\ UNCHANGED <<cluster, late, seen, faults>>

\* 404 for a job that has not been seen yet: it has not started.
NotStarted(r) ==
  /\ At(r, "read") /\ object # "there" /\ ~ copy[r].details.started /\ ~ late
  /\ Refreshed(r, UpdateStatus(copy[r], copy[r].status, Now))
  /\ UNCHANGED <<cluster, late, seen, faults>>

\* Mutant: no timeout.
NeverStartedNeverCanceled(r) ==
  /\ At(r, "read") /\ object # "there" /\ ~ copy[r].details.started /\ late
  /\ Refreshed(r, UpdateStatus(copy[r], copy[r].status, Now))
  /\ UNCHANGED <<cluster, late, seen, faults>>

\* ... for 24 hours.  refresh_job cancels the job: cancel_job refreshes it
\* first, which cancels it again, until the recursion is too deep and
\* force_clean ends it.  Every level then deletes the job.
NeverStarted(r) ==
  /\ At(r, "read") /\ object # "there" /\ ~ copy[r].details.started /\ late
  /\ Keep(r, WithDetails(r, ForceClean(copy[r].details)))
  /\ GoTo(r, "delete")
  /\ UNCHANGED <<cluster, late, role, seen, faults>>

\* Mutant: any ApiException is taken for a 404.
ReadFailsAs404(r) ==
  /\ At(r, "read") /\ Fault("read")
  /\ Refreshed(r, WithDetails(r, [copy[r].details EXCEPT !.exists = FALSE]))
  /\ UNCHANGED <<cluster, late, seen>>

\* Another ApiException: a poll fails, cancel_job goes on with what it had.
ReadFails(r) ==
  /\ At(r, "read") /\ Fault("read")
  /\ IF role[r] = "poll" THEN Done(r, row) ELSE Refreshed(r, copy[r])
  /\ UNCHANGED <<cluster, late, seen>>

\* What cancel_job makes of its call to delete the job, whatever came of it:
\* every ApiException is swallowed.
Deleted(r) ==
  LET d   == [copy[r].details EXCEPT !.exists = FALSE, !.canceled = TRUE]
      job == [copy[r] EXCEPT !.details = d]
  IN  /\ Keep(r, IF IsActive(job) THEN UpdateStatus(job, GetStatus(d), Now) ELSE job)
      /\ GoTo(r, "save")
      /\ UNCHANGED <<late, role, seen>>

DeleteJob(r) ==
  /\ At(r, "delete") /\ Deleted(r)
  /\ IF object = "there" THEN Remove ELSE UNCHANGED cluster
  /\ UNCHANGED faults

DeleteFails(r) ==
  /\ At(r, "delete") /\ Fault("delete") /\ Deleted(r) /\ UNCHANGED cluster

\* An exception that is not an ApiException.  A poll only deletes a job that never
\* started: refresh_job catches what its cancel_job raises.
NetworkFails(r) ==
  /\ At(r, "delete") /\ Fault("network")
  /\ IF role[r] = "poll" THEN Forced(r, "save") ELSE Fails(r)
  /\ UNCHANGED <<cluster, late, seen>>

\* save_job
Save(r) ==
  /\ At(r, "save")
  /\ \/ CanSave(row, copy[r]) /\ Done(r, Saved(row, copy[r]))
     \/ ~ CanSave(row, copy[r]) /\ Fails(r)
  /\ UNCHANGED <<cluster, late, seen, faults>>

\* save_job of a job that was cleaned by force.
ForceSave(r) ==
  /\ At(r, "force")
  /\ \/ CanSave(row, copy[r]) /\ Done(r, Saved(row, copy[r]))
     \/ ~ CanSave(row, copy[r]) /\ Done(r, row)
  /\ UNCHANGED <<cluster, late, seen, faults>>

Goes(r) ==
  \/ ReadStatus(r) \/ ListSucceeds(r) \/ ListFails(r) \/ NotFound(r) \/ NotStarted(r)
  \/ NeverStarted(r) \/ ReadFails(r) \/ DeleteJob(r) \/ DeleteFails(r) \/ NetworkFails(r)
  \/ Save(r) \/ ForceSave(r)

Next ==
  \/ ClusterStep
  \/ \E r \in Requests :
       \/ "poll" \in RolesOf[r] /\ StartPoll(r)
       \/ \E why \in RolesOf[r] : StartCancel(r, why)
       \/ Goes(r)

Spec == Init /\ [][Next]_vars

\* A request that was made is answered.  The runner polls again and again,
\* and 24 hours pass.
FairSpec ==
  /\ Spec
  /\ \A r \in Requests : WF_vars(Goes(r))
  /\ \A r \in Requests : WF_vars("poll" \in RolesOf[r] /\ StartPoll(r))
  /\ WF_vars(StartTimeout)

(***************************************************************************)
(* Properties.                                                             *)
(***************************************************************************)
Over    == object = "gone" \/ Finished
None(kind) == kind \notin faults

\* A job that the server holds for failed runs no more, so that the run fails
\* only with its job, although the counts and the pods are read at different
\* times.  It needs that pods could be listed and none was replaced.
FailedMeansOver ==
  row.status = "Failed" /\ None("list") /\ None("replaced") => Over

\* A job that was seen, and that the server believes to exist no more, is gone
\* from the cluster (refresh_job and cancel_job set still_exists).  It needs that
\* no deletion failed.
GoneMeansGone ==
  ~ row.details.exists /\ row.details.started /\ None("delete") => object = "gone"

\* A row that is no longer active never becomes active again, whatever copy of
\* it is saved late (save_job checks against the row that it replaces).
NeverActiveAgain == [][~ IsActive(row) => ~ IsActive(row')]_vars

\* The end of a job, of its own, by a deletion or before it was ever seen, is
\* noticed: polls get there whatever else is canceled and cleaned meanwhile.
EndIsNoticed == Over ~> ~ IsActive(row)
=============================================================================
