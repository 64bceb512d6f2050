----------------------------- MODULE JobStatus -----------------------------
(***************************************************************************)
(* What the server remembers of a Kubernetes job, and the state it reads   *)
(* from it: JobDetails and JobStatus (sematic/scheduling/job_details.py)   *)
(* and the row of the job (sematic/db/models/job.py).                      *)
(*                                                                         *)
(* A pod is its number and its phase: a pod that has ended has a container *)
(* that is terminated, which is an infra failure whatever it returned      *)
(* (_has_container_failure).  A pod has no condition called Complete or    *)
(* Failed, so the branches of get_status for these are never taken and no  *)
(* job is ever Succeeded.                                                  *)
(***************************************************************************)
EXTENDS Naturals, FiniteSets

PodPhases == {"Pending", "Running", "Succeeded", "Failed"}
EndedPods == {"Succeeded", "Failed"}

\* The status of a job is its state.  "NoPod" is the state Pending with its
\* other message: messages are compared too, and the other states need only one.
ActiveStates == {"Requested", "NoPod", "Pending", "Running", "Restarting"}
JobStates    == ActiveStates \cup {"Failed", "Deleted"}

Counts  == [active : Nat, succeeded : Nat]
Pods    == SUBSET ((0..1) \X PodPhases)

\* The phase of latest_pod_summary: POD_PHASE_PRECEDENCE, the last one wins.
LatestPhase(pods) ==
  LET phases == {p[2] : p \in pods}
  IN  CASE "Failed"    \in phases -> "Failed"
        [] "Failed" \notin phases /\ "Succeeded" \in phases -> "Succeeded"
        [] phases \cap EndedPods = {} /\ "Running" \in phases -> "Running"
        [] phases \subseteq {"Pending"} -> "Pending"

\* get_active_status_from_pods
ActiveStatus(pods) ==
  IF Cardinality(pods) > 1 THEN "Restarting" ELSE LatestPhase(pods)

\* Mutant: a job without a pod has failed, also before it has its first one.
PodStatusNoPodFails(counts, pods) ==
  IF pods # {} /\ LatestPhase(pods) \in EndedPods THEN "Failed"
  ELSE IF counts.succeeded # 0 \/ pods = {} THEN "Failed"
  ELSE IF counts.active = 0 THEN "NoPod"
  ELSE ActiveStatus(pods)

\* Mutant: the state of the job is the phase of its pod.
PodStatusIsPhase(counts, pods) ==
  IF counts.active = 0 /\ pods = {} THEN "NoPod"
  ELSE IF pods = {} THEN "Failed"
  ELSE ActiveStatus(pods)

\* The branches of get_status that look at the counts and the pods of the job.
PodStatus(counts, pods) ==
  IF pods # {} /\ LatestPhase(pods) \in EndedPods THEN "Failed"
  ELSE IF counts.succeeded # 0 THEN "Failed"
  ELSE IF counts.active = 0 THEN "NoPod"
  ELSE IF pods = {} THEN "Failed"
  ELSE ActiveStatus(pods)

\* Counts and pods are only kept for that, so the details keep what they say.
Details == [started : BOOLEAN, exists : BOOLEAN, canceled : BOOLEAN,
            says : JobStates]

NewDetails == [started |-> FALSE, exists |-> TRUE, canceled |-> FALSE, says |-> "NoPod"]

\* JobDetails.get_status
GetStatus(d) ==
  IF ~ (d.started \/ d.canceled) THEN "Requested"
  ELSE IF d.canceled \/ ~ d.exists THEN "Deleted"
  ELSE d.says

\* JobDetails.force_clean
ForceClean(d) == [d EXCEPT !.canceled = TRUE]

(***************************************************************************)
(* A row: its details, its status, the time of the status (last) and the   *)
(* time of the newest entry of its history (since).  A status that repeats *)
(* the one before it makes no entry.                                       *)
(***************************************************************************)
Rows == [details : Details, status : JobStates, since : Nat, last : Nat]

\* make_job: a job starts as what its details say.
NewRow == [details |-> NewDetails, status |-> GetStatus(NewDetails), since |-> 0, last |-> 0]

IsActive(row) == row.status \in ActiveStates

\* Job.update_status raises IllegalStateTransitionError where this is false.
CanUpdate(row, status, at) ==
  /\ row.since <= at
  /\ status \in ActiveStates => IsActive(row)

UpdateStatus(row, status, at) ==
  [row EXCEPT !.status = status, !.last = at,
              !.since = IF status = row.status THEN @ ELSE at]

\* Mutant: the job is checked against its own history and merged.
CanSaveMerged(row, job) == CanUpdate(job, job.status, job.last)

\* save_job: the status is checked against the row.
CanSave(row, job) == CanUpdate(row, job.status, job.last)

\* save_job: the row takes the details and the status.
Saved(row, job) == UpdateStatus([row EXCEPT !.details = job.details], job.status, job.last)
=============================================================================
