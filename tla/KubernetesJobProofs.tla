------------------------ MODULE KubernetesJobProofs ------------------------
(***************************************************************************)
(* Theorems about KubernetesJob, for any finite set of requests, whatever  *)
(* each may be, and any number of faults.                                  *)
(***************************************************************************)
EXTENDS KubernetesJob, FiniteSetTheorems, TLAPS

USE DEF JobStates, ActiveStates, PodPhases, EndedPods

(***************************************************************************)
(* Jobs.                                                                   *)
(***************************************************************************)

\* Setting the status of a job keeps its details.
LEMMA UpdateStatusFacts ==
  ASSUME NEW j \in Rows, NEW status \in JobStates, NEW at \in Nat
  PROVE  /\ UpdateStatus(j, status, at) \in Rows
         /\ UpdateStatus(j, status, at).details = j.details
         /\ UpdateStatus(j, status, at).status = status
  BY DEF UpdateStatus, Rows

\* The status that details stand for is a state of a job.
LEMMA GetStatusType ==
  ASSUME NEW d \in Details
  PROVE  GetStatus(d) \in JobStates
  BY DEF GetStatus, Details

\* What counts and pods say is a state of a job.
LEMMA PodStatusType ==
  ASSUME NEW counts, NEW listed \in Pods
  PROVE  PodStatus(counts, listed) \in JobStates
  <1>1. {p[2] : p \in listed} \subseteq PodPhases
    BY DEF Pods
  <1>2. LatestPhase(listed) \in PodPhases
    BY <1>1 DEF LatestPhase
  <1> QED
    BY <1>2 DEF PodStatus, ActiveStatus

\* A job starts as one that was requested and has not been seen.
LEMMA NewRowFacts ==
  /\ NewRow \in Rows
  /\ ~ NewRow.details.started /\ NewRow.details.exists /\ NewRow.status = "Requested"
  BY DEF NewRow, Rows, NewDetails, Details, GetStatus

(***************************************************************************)
(* Times.                                                                  *)
(***************************************************************************)

\* Requests hold finitely many times.
LEMMA FiniteTimes ==
  ASSUME NEW R, NEW C
  PROVE  IsFiniteSet(Times(R, C)) /\ Cardinality(Times(R, C)) \in Nat
  <1> DEFINE L == {C[r].last : r \in Requests}
  <1>1. IsFiniteSet(L)
    <2>1. PICK n \in Nat : ExistsSurjection(1..n, Requests)
      BY ConstantsAssumption, FS_NatSurjection DEF ConstantsAssumption
    <2>2. PICK g \in [1..n -> Requests] : \A r \in Requests : \E i \in 1..n : g[i] = r
      BY <2>1 DEF ExistsSurjection, Surjection
    <2> DEFINE h == [i \in 1..n |-> C[g[i]].last]
    <2>3. h \in [1..n -> L] /\ \A t \in L : \E i \in 1..n : h[i] = t
      BY <2>2
    <2>4. h \in Surjection(1..n, L)
      BY <2>3 DEF Surjection
    <2> QED
      BY <2>1, <2>4, FS_NatSurjection DEF ExistsSurjection
  <1>2. IsFiniteSet({0, R.since, R.last})
    <2>1. IsFiniteSet({0})
      BY FS_Singleton
    <2>2. IsFiniteSet({0} \cup {R.since})
      BY <2>1, FS_AddElement
    <2>3. IsFiniteSet(({0} \cup {R.since}) \cup {R.last})
      BY <2>2, FS_AddElement
    <2>4. {0, R.since, R.last} = ({0} \cup {R.since}) \cup {R.last}
      OBVIOUS
    <2> QED
      BY <2>3, <2>4
  <1> QED
    BY <1>1, <1>2, FS_Union, FS_CardinalityType DEF Times

\* The present is a time.
LEMMA NowType == Now \in Nat
  BY FiniteTimes DEF Now

\* Writing the row and the copies changes nothing but times.
LEMMA WriteFacts ==
  ASSUME NEW R \in Rows, NEW C \in [Requests -> Rows], Write(R, C)
  PROVE  /\ row' \in Rows /\ row'.details = R.details /\ row'.status = R.status
         /\ copy' \in [Requests -> Rows]
         /\ \A r \in Requests : copy'[r].details = C[r].details /\ copy'[r].status = C[r].status
  <1> DEFINE used == Times(R, C)
             Rank(time) == Cardinality({t \in used : t < time})
  <1>1. \A time : Rank(time) \in Nat
    BY FiniteTimes, FS_Subset, FS_CardinalityType
  <1>2. /\ row'  = [R EXCEPT !.since = Rank(R.since), !.last = Rank(R.last)]
        /\ copy' = [r \in Requests |-> [C[r] EXCEPT !.since = 0, !.last = Rank(C[r].last)]]
    BY DEF Write, Rows
  <1> HIDE DEF Rank
  <1>3. row' \in Rows /\ row'.details = R.details /\ row'.status = R.status
    <2> DEFINE since == Rank(R.since)
               last  == Rank(R.last)
    <2>1. since \in Nat /\ last \in Nat
      BY <1>1
    <2>2. row' = [R EXCEPT !.since = since, !.last = last]
      BY <1>2
    <2> HIDE DEF since, last
    <2> QED
      BY <2>1, <2>2 DEF Rows
  <1>4. ASSUME NEW r \in Requests
        PROVE  copy'[r] \in Rows /\ copy'[r].details = C[r].details /\ copy'[r].status = C[r].status
    <2> DEFINE last == Rank(C[r].last)
               job  == C[r]
               now  == copy'[r]
    <2>1. last \in Nat /\ job \in Rows
      BY <1>1
    <2>2. now = [job EXCEPT !.since = 0, !.last = last]
      BY <1>2
    <2> HIDE DEF last, job, now
    <2>3. now \in Rows /\ now.details = job.details /\ now.status = job.status
      BY <2>1, <2>2 DEF Rows
    <2> QED
      BY <2>3 DEF job, now
  <1>8. copy' \in [Requests -> Rows]
    BY <1>2, <1>4
  <1> QED
    BY <1>3, <1>4, <1>8

(***************************************************************************)
(* What a request keeps, and what it leaves when it is done.               *)
(***************************************************************************)
\* A request that keeps a job changes only its own copy.
LEMMA KeepFacts ==
  ASSUME TypeOK, NEW r \in Requests, NEW job \in Rows, Keep(r, job)
  PROVE  /\ row' \in Rows /\ row'.details = row.details /\ row'.status = row.status
         /\ copy' \in [Requests -> Rows]
         /\ copy'[r].details = job.details /\ copy'[r].status = job.status
         /\ \A q \in Requests \ {r} : /\ copy'[q].details = copy[q].details
                                      /\ copy'[q].status = copy[q].status
  <1> DEFINE C == [copy EXCEPT ![r] = job]
  <1>1. row \in Rows /\ copy \in [Requests -> Rows]
    BY DEF TypeOK
  <1>2. C \in [Requests -> Rows] /\ C[r] = job /\ \A q \in Requests \ {r} : C[q] = copy[q]
    BY <1>1
  <1>3. Write(row, C)
    BY DEF Keep
  <1> HIDE DEF C
  <1> QED
    BY <1>1, <1>2, <1>3, WriteFacts

\* A request that is done leaves a row, and no copy of it.
LEMMA DoneFacts ==
  ASSUME TypeOK, NEW r \in Requests, NEW R \in Rows, Done(r, R)
  PROVE  /\ row' \in Rows /\ row'.details = R.details /\ row'.status = R.status
         /\ copy' \in [Requests -> Rows]
         /\ copy'[r].details = NewRow.details /\ copy'[r].status = NewRow.status
         /\ \A q \in Requests \ {r} : /\ copy'[q].details = copy[q].details
                                      /\ copy'[q].status = copy[q].status
         /\ role' = [role EXCEPT ![r] = "poll"] /\ pc' = [pc EXCEPT ![r] = "idle"]
  <1> DEFINE C == [copy EXCEPT ![r] = NewRow]
  <1>1. copy \in [Requests -> Rows]
    BY DEF TypeOK
  <1>2. C \in [Requests -> Rows] /\ C[r] = NewRow /\ \A q \in Requests \ {r} : C[q] = copy[q]
    BY <1>1, NewRowFacts
  <1>3. Write(R, C) /\ role' = [role EXCEPT ![r] = "poll"] /\ pc' = [pc EXCEPT ![r] = "idle"]
    BY DEF Done, GoTo
  <1> HIDE DEF C
  <1> QED
    BY <1>2, <1>3, WriteFacts

(***************************************************************************)
(* The inductive invariant.  Four formulas about the cluster, each of which *)
(* stays true once it is, bound what a copy of the row may say, however old *)
(* it is, and what a request may have read of the job.                     *)
(***************************************************************************)
Visible   == object # "unseen"
GoneOr    == object = "gone" \/ ~ None("delete")
OverOr    == Over \/ ~ None("list") \/ ~ None("replaced")
HadPodOr  == HasPod \/ object = "gone" \/ ~ None("replaced")

Monotone ==
  /\ Visible => Visible'
  /\ GoneOr => GoneOr'
  /\ OverOr => OverOr'
  /\ HadPodOr => HadPodOr'

\* A pod that none replaces is the only one.
OnePod == None("replaced") => pods = {} \/ \E phase \in PodPhases : pods = {<<1, phase>>}

SoundDetails(d) ==
  /\ d.started => Visible
  /\ d.started /\ ~ d.exists => GoneOr
  /\ d.started /\ d.says = "Failed" => OverOr

Sound(j) ==
  /\ SoundDetails(j.details)
  /\ j.status = "Failed" => OverOr
  /\ j.status \in ActiveStates => j.details.exists

SoundSeen(r) ==
  /\ pc[r] \in {"read", "list"} => copy[r].details.exists
  /\ pc[r] = "list" => /\ Visible
                       /\ seen[r].succeeded # 0 => OverOr
                       /\ seen[r].active # 0 => HadPodOr

Inv ==
  /\ TypeOK
  /\ OnePod
  /\ Sound(row)
  /\ \A r \in Requests : Sound(copy[r]) /\ SoundSeen(r)

\* A row stays sound.
LEMMA SoundLater ==
  ASSUME NEW j, Sound(j), Monotone
  PROVE  Sound(j)'
  BY DEF Sound, SoundDetails, Monotone

(***************************************************************************)
(* The cluster.                                                            *)
(***************************************************************************)

\* When nothing happens to the cluster, nothing it has come to is undone.
LEMMA QuietMonotone ==
  ASSUME UNCHANGED cluster, faults \subseteq faults'
  PROVE  Monotone
  BY DEF Monotone, Visible, GoneOr, OverOr, HadPodOr, None, Over, Finished, HasPod, Live, cluster

\* An eviction or a deletion undoes nothing.
LEMMA ClusterMonotone ==
  ASSUME TypeOK, OnePod, ClusterStep
  PROVE  Monotone /\ OnePod' /\ object' \in {"unseen", "there", "gone"} /\ pods' \in Pods
         /\ late' \in BOOLEAN /\ faults' \subseteq FaultKinds
         /\ UNCHANGED <<row, pc, copy, role, seen>>
  <1> USE DEF TypeOK, OnePod, Monotone, Visible, GoneOr, OverOr, HadPodOr, None, Over, cluster, Pods
  <1>1. CASE Appear
    BY <1>1 DEF Appear, Finished, HasPod, Live
  <1>2. CASE MakePod
    <2>1. <<1, "Pending">> \in (0..1) \X PodPhases
      OBVIOUS
    <2>2. None("replaced") => pods = {}
      BY <1>2 DEF MakePod, HasPod
    <2> QED
      BY <1>2, <2>1, <2>2 DEF MakePod, HasPod, Finished
  <1>3. CASE PodMoves
    <2>1. PICK p \in pods, phase \in PodPhases :
            p[1] = 1 /\ Live(p) /\ pods' = (pods \ {p}) \cup {<<1, phase>>}
      BY <1>3 DEF PodMoves
    <2>2. UNCHANGED <<object, late, row, pc, copy, role, seen, faults>> /\ object = "there"
      BY <1>3 DEF PodMoves
    <2> DEFINE new == <<1, phase>>
    <2>5. new \in (0..1) \X PodPhases /\ new[1] = 1 /\ new \in pods'
      BY <2>1
    <2>6. pods' \in Pods
      BY <2>1, <2>5
    <2>3. pods' \in Pods /\ HasPod' /\ ~ Finished
      BY <2>1, <2>5, <2>6 DEF HasPod, Finished
    <2>4. None("replaced") => pods' = {<<1, phase>>}
      BY <2>1
    <2> QED
      BY <2>2, <2>3, <2>4
  <1>4. CASE PodEvicted
    <2>1. /\ UNCHANGED <<object, late, row, pc, copy, role, seen>>
          /\ faults' = faults \cup {"replaced"} /\ object = "there"
          /\ \E phase \in {"Failed", "Running"} : pods' = {<<0, phase>>}
      BY <1>4 DEF PodEvicted, Fault
    <2> QED
      BY <2>1 DEF FaultKinds
  <1>5. CASE PodRemoved
    <2>1. PICK p \in pods : p[1] = 0 /\ pods' = pods \ {p}
      BY <1>5 DEF PodRemoved
    <2>2. UNCHANGED <<object, late, row, pc, copy, role, seen, faults>>
      BY <1>5 DEF PodRemoved
    <2>3. ~ None("replaced")
      BY <2>1
    <2>4. HasPod => HasPod'
      BY <2>1 DEF HasPod
    <2> QED
      BY <2>1, <2>2, <2>3, <2>4
  <1>6. CASE JobRemoved
    BY <1>6 DEF JobRemoved, Remove
  <1>7. CASE StartTimeout
    BY <1>7 DEF StartTimeout, Finished, HasPod, Live
  <1> QED
    BY <1>1, <1>2, <1>3, <1>4, <1>5, <1>6, <1>7 DEF ClusterStep

(***************************************************************************)
(* What a step of a request may do to the row, the copies and the requests. *)
(***************************************************************************)
SameRow     == row'.details = row.details /\ row'.status = row.status
SavedRow(r) == /\ row'.details = copy[r].details /\ row'.status = copy[r].status
               /\ CanSave(row, copy[r])

\* A step of r writes only the row and its own copy.
Written(r) ==
  /\ row' \in Rows /\ copy' \in [Requests -> Rows]
  /\ SameRow \/ SavedRow(r)
  /\ Sound(copy[r])'
  /\ \A q \in Requests \ {r} : /\ copy'[q].details = copy[q].details
                               /\ copy'[q].status = copy[q].status

Effect(r) ==
  /\ Written(r)
  /\ pc' \in [Requests -> Steps] /\ role' \in [Requests -> Roles]
  /\ pc'[r] # "list"
  /\ pc'[r] = "read" => copy'[r].details.exists
  /\ \A q \in Requests \ {r} : pc'[q] = pc[q]

\* Whether a job is sound depends on its details and its status alone.
LEMMA SoundLike ==
  ASSUME NEW j, NEW k, j.details = k.details, j.status = k.status, Sound(k)
  PROVE  Sound(j)
  BY DEF Sound, SoundDetails

\* A request that goes on to a step, other than the listing of the pods.
LEMMA GoToFacts ==
  ASSUME TypeOK, NEW r \in Requests, NEW step \in Steps, step # "list", GoTo(r, step)
  PROVE  /\ pc' \in [Requests -> Steps] /\ pc'[r] = step
         /\ \A q \in Requests \ {r} : pc'[q] = pc[q]
  BY DEF TypeOK, GoTo

\* A request that keeps a sound job.
LEMMA KeepEffect ==
  ASSUME TypeOK, NEW r \in Requests, NEW job \in Rows, Sound(job)', Keep(r, job)
  PROVE  Written(r)
  <1>1. Sound(copy[r])'
    BY KeepFacts, SoundLike DEF Sound, SoundDetails
  <1> QED
    BY <1>1, KeepFacts DEF Written, SameRow

\* A request that is done, and has saved nothing.
LEMMA DoneEffect ==
  ASSUME TypeOK, NEW r \in Requests, Done(r, row)
  PROVE  Effect(r)
  <1>1. row \in Rows /\ role \in [Requests -> Roles] /\ pc \in [Requests -> Steps]
    BY DEF TypeOK
  <1>2. Sound(copy[r])'
    BY <1>1, DoneFacts, NewRowFacts DEF Sound, SoundDetails
  <1>3. Written(r)
    BY <1>1, <1>2, DoneFacts DEF Written, SameRow
  <1>4. role' = [role EXCEPT ![r] = "poll"] /\ pc' = [pc EXCEPT ![r] = "idle"]
    BY <1>1, DoneFacts
  <1>5. role' \in [Requests -> Roles] /\ pc' \in [Requests -> Steps] /\ pc'[r] = "idle"
    BY <1>1, <1>4 DEF Roles, Steps
  <1> QED
    BY <1>3, <1>4, <1>5 DEF Effect

\* A request that has saved its copy.
LEMMA SavedEffect ==
  ASSUME TypeOK, NEW r \in Requests, CanSave(row, copy[r]), Done(r, Saved(row, copy[r]))
  PROVE  Effect(r)
  <1>1. row \in Rows /\ role \in [Requests -> Roles] /\ pc \in [Requests -> Steps] /\ copy[r] \in Rows
    BY DEF TypeOK
  <1> DEFINE R == Saved(row, copy[r])
  <1>2. R \in Rows /\ R.details = copy[r].details /\ R.status = copy[r].status
    BY <1>1 DEF Saved, UpdateStatus, Rows
  <1>3. Done(r, R)
    OBVIOUS
  <1> HIDE DEF R
  <1>4. Sound(copy[r])'
    BY <1>2, <1>3, DoneFacts, NewRowFacts DEF Sound, SoundDetails
  <1>5. Written(r)
    BY <1>2, <1>3, <1>4, DoneFacts DEF Written, SavedRow
  <1>6. role' = [role EXCEPT ![r] = "poll"] /\ pc' = [pc EXCEPT ![r] = "idle"]
    BY <1>2, <1>3, DoneFacts
  <1>7. role' \in [Requests -> Roles] /\ pc' \in [Requests -> Steps] /\ pc'[r] = "idle"
    BY <1>1, <1>6 DEF Roles, Steps
  <1> QED
    BY <1>5, <1>6, <1>7 DEF Effect

\* What is cleaned by force is as sound as it was.
LEMMA ForcedEffect ==
  ASSUME TypeOK, NEW r \in Requests, Sound(copy[r]), Monotone,
         NEW step \in {"force", "save"}, Forced(r, step)
  PROVE  Effect(r)
  <1> DEFINE c   == copy[r]
             job == [c EXCEPT !.details = ForceClean(@)]
  <1>1. c \in Rows /\ role' \in [Requests -> Roles] /\ Keep(r, job) /\ GoTo(r, step)
    BY DEF TypeOK, Forced
  <1>2. /\ job \in Rows /\ job.status = c.status
        /\ job.details.started = c.details.started
        /\ job.details.exists = c.details.exists
        /\ job.details.says = c.details.says
    BY <1>1 DEF Rows, Details, ForceClean
  <1>3. Sound(c)
    OBVIOUS
  <1> HIDE DEF c, job
  <1>4. Sound(job)
    BY <1>2, <1>3 DEF Sound, SoundDetails
  <1>5. \A k : Sound(k) => Sound(k)'
    BY SoundLater
  <1>6. \E k \in Rows : Sound(k)' /\ Keep(r, k)
    BY <1>1, <1>2, <1>4, <1>5
  <1>7. step \in Steps
    BY DEF Steps
  <1> QED
    BY <1>1, <1>6, <1>7, KeepEffect, GoToFacts DEF Effect, Steps

\* An exception ends the request, or has the job cleaned by force.
LEMMA FailsEffect ==
  ASSUME TypeOK, NEW r \in Requests, Sound(copy[r]), Monotone, Fails(r)
  PROVE  Effect(r)
  <1>1. CASE role[r] # "force"
    BY <1>1, DoneEffect DEF Fails
  <1>2. CASE role[r] = "force"
    BY <1>2, ForcedEffect DEF Fails
  <1> QED
    BY <1>1, <1>2

\* A job that a refresh has made.
LEMMA RefreshedEffect ==
  ASSUME TypeOK, NEW r \in Requests, NEW job \in Rows, Sound(job)', Refreshed(r, job),
         job.details.started \/ job.details.exists
  PROVE  Effect(r)
  <1>1. CASE Keep(r, job) /\ GoTo(r, "save") /\ UNCHANGED role
    BY <1>1, KeepEffect, GoToFacts DEF Effect, Steps, TypeOK
  <1>2. CASE Done(r, row)
    BY <1>2, DoneEffect
  <1>3. CASE /\ Keep(r, UpdateStatus(job, GetStatus(job.details), Now))
             /\ GoTo(r, "delete") /\ UNCHANGED role
    <2>1. job.details \in Details
      BY DEF Rows
    <2>2. PICK k : k = UpdateStatus(job, GetStatus(job.details), Now) /\ Keep(r, k)
      BY <1>3
    <2>3. k \in Rows /\ k.details = job.details /\ k.status = GetStatus(job.details)
      BY <2>1, <2>2, UpdateStatusFacts, GetStatusType, NowType
    <2>4. Sound(k)'
      BY <2>1, <2>3 DEF Sound, SoundDetails, GetStatus, Details
    <2> QED
      BY <1>3, <2>2, <2>3, <2>4, KeepEffect, GoToFacts DEF Effect, Steps, TypeOK
  <1> QED
    BY <1>1, <1>2, <1>3 DEF Refreshed

\* New details make a sound job when they are sound.
LEMMA WithDetailsFacts ==
  ASSUME TypeOK, NEW r \in Requests, NEW d \in Details
  PROVE  /\ WithDetails(r, d) \in Rows
         /\ WithDetails(r, d).details = d
         /\ WithDetails(r, d).status = GetStatus(d)
  <1> DEFINE job == [copy[r] EXCEPT !.details = d]
  <1>1. job \in Rows /\ job.details = d
    BY DEF TypeOK, Rows
  <1> HIDE DEF job
  <1>2. GetStatus(d) \in JobStates
    BY GetStatusType
  <1>3. /\ UpdateStatus(job, GetStatus(d), Now) \in Rows
        /\ UpdateStatus(job, GetStatus(d), Now).details = job.details
        /\ UpdateStatus(job, GetStatus(d), Now).status = GetStatus(d)
    BY <1>1, <1>2, UpdateStatusFacts, NowType
  <1> QED
    BY <1>1, <1>3 DEF WithDetails, job

\* A refresh that has found d.
LEMMA FoundEffect ==
  ASSUME TypeOK, NEW r \in Requests, NEW d \in Details, SoundDetails(d)', d.started,
         Refreshed(r, WithDetails(r, d))
  PROVE  Effect(r)
  <1>1. PICK k : k = WithDetails(r, d) /\ Refreshed(r, k)
    OBVIOUS
  <1>2. k \in Rows /\ k.details = d /\ k.status = GetStatus(d)
    BY <1>1, WithDetailsFacts
  <1>3. Sound(k)' /\ k.details.started
    BY <1>2 DEF Sound, SoundDetails, GetStatus, Details
  <1> QED
    BY <1>1, <1>2, <1>3, RefreshedEffect

\* A refresh that has changed nothing but perhaps the time.
LEMMA NothingNewEffect ==
  ASSUME TypeOK, NEW r \in Requests, Sound(copy[r]), copy[r].details.exists, Monotone,
         NEW job \in Rows, job.details = copy[r].details, job.status = copy[r].status,
         Refreshed(r, job)
  PROVE  Effect(r)
  <1>1. Sound(job)
    BY DEF Sound, SoundDetails
  <1>2. Sound(job)'
    BY <1>1, SoundLater
  <1> QED
    BY <1>2, RefreshedEffect

\* A job that was deleted, or whose deletion failed.
LEMMA DeletedEffect ==
  ASSUME TypeOK, NEW r \in Requests, Sound(copy[r]), Monotone, Deleted(r),
         copy[r].details.started => GoneOr'
  PROVE  Effect(r)
  <1>1. PICK c : c = copy[r]
    OBVIOUS
  <1> DEFINE d   == [c.details EXCEPT !.exists = FALSE, !.canceled = TRUE]
             job == [c EXCEPT !.details = d]
  <1>2. PICK k : /\ k = IF IsActive(job) THEN UpdateStatus(job, GetStatus(d), Now) ELSE job
                 /\ Keep(r, k)
    BY <1>1 DEF Deleted
  <1>3. c \in Rows /\ Sound(c) /\ (c.details.started => GoneOr')
    BY <1>1 DEF TypeOK
  <1>4. /\ d \in Details /\ d.started = c.details.started /\ d.says = c.details.says
        /\ d.canceled
    BY <1>3 DEF Rows, Details
  <1>5. GetStatus(d) = "Deleted"
    BY <1>4 DEF GetStatus, Details
  <1>6. job \in Rows /\ job.details = d /\ job.status = c.status
    BY <1>3, <1>4 DEF Rows
  <1> HIDE DEF d, job
  <1>7. /\ k \in Rows /\ k.details = d
        /\ k.status = "Failed" => c.status = "Failed"
        /\ k.status \notin ActiveStates
    <2>1. PICK now \in Nat : now = Now
      BY NowType
    <2>2. CASE IsActive(job)
      <3>1. k = UpdateStatus(job, "Deleted", now)
        BY <1>2, <1>5, <2>1, <2>2
      <3>2. "Deleted" \in JobStates
        OBVIOUS
      <3>3. /\ UpdateStatus(job, "Deleted", now) \in Rows
            /\ UpdateStatus(job, "Deleted", now).details = job.details
            /\ UpdateStatus(job, "Deleted", now).status = "Deleted"
        BY <1>6, <3>2, UpdateStatusFacts, Zenon
      <3> QED
        BY <1>6, <3>1, <3>3
    <2>3. CASE ~ IsActive(job)
      BY <1>2, <1>6, <2>3 DEF IsActive
    <2> QED
      BY <2>2, <2>3
  <1>8. Sound(c)'
    BY <1>3, SoundLater
  <1>9. Sound(k)'
    BY <1>3, <1>4, <1>7, <1>8 DEF Sound, SoundDetails
  <1>10. Written(r)
    BY <1>2, <1>7, <1>9, KeepEffect
  <1>11. GoTo(r, "save") /\ role' = role
    BY DEF Deleted
  <1> QED
    BY <1>10, <1>11, GoToFacts DEF Effect, Steps, TypeOK

(***************************************************************************)
(* The steps of a request.                                                 *)
(***************************************************************************)

\* A request begins with the row, or with a status for the details of the row.
LEMMA BeginEffect ==
  ASSUME TypeOK, Sound(row), Monotone, NEW r \in Requests,
         ("poll" \in RolesOf[r] /\ StartPoll(r)) \/ \E why \in RolesOf[r] : StartCancel(r, why)
  PROVE  Effect(r) /\ UNCHANGED <<cluster, late, seen, faults>>
  <1>1. PICK w : w = row
    OBVIOUS
  <1>2. w \in Rows /\ w.details \in Details /\ Sound(w)
    BY <1>1 DEF TypeOK, Rows
  <1>3. RolesOf[r] \subseteq Roles
    BY ConstantsAssumption DEF ConstantsAssumption
  <1>4. ASSUME NEW why \in Roles, NEW step \in Steps, step # "list",
               NEW job \in Rows, Sound(job), step = "read" => job.details.exists,
               Begin(r, why, step, job)
        PROVE  Effect(r) /\ UNCHANGED <<cluster, late, seen, faults>>
    <2>1. PICK k : k = (IF step = "read" THEN [job EXCEPT !.last = 0] ELSE job) /\ Keep(r, k)
      BY <1>4 DEF Begin
    <2>2. k \in Rows /\ k.details = job.details /\ k.status = job.status
      BY <2>1 DEF Rows
    <2>3. Sound(k)
      BY <1>4, <2>2 DEF Sound, SoundDetails
    <2>4. Sound(k)'
      BY <2>3, SoundLater
    <2>5. Written(r)
      BY <2>1, <2>2, <2>4, KeepEffect
    <2>7. copy'[r].details = k.details
      BY <2>1, <2>2, KeepFacts
    <2>6. GoTo(r, step) /\ role' \in [Requests -> Roles] /\ UNCHANGED <<cluster, late, seen, faults>>
      BY <1>4 DEF Begin, TypeOK
    <2> QED
      BY <1>4, <2>2, <2>5, <2>6, <2>7, GoToFacts DEF Effect
  <1>5. CASE "poll" \in RolesOf[r] /\ StartPoll(r)
    BY <1>1, <1>2, <1>4, <1>5 DEF StartPoll, Roles, Steps, IsActive, Sound
  <1>6. CASE \E why \in RolesOf[r] : StartCancel(r, why)
    <2>1. PICK why \in RolesOf[r] : StartCancel(r, why)
      BY <1>6
    <2>2. CASE row.details.exists /\ Begin(r, why, "read", row)
      BY <1>1, <1>2, <1>3, <1>4, <2>2 DEF Steps
    <2>3. CASE /\ ~ row.details.exists
               /\ Begin(r, why, "save", UpdateStatus(row, GetStatus(ForceClean(row.details)), Now))
      <3>1. PICK k : /\ k = UpdateStatus(w, GetStatus(ForceClean(w.details)), Now)
                     /\ Begin(r, why, "save", k)
        BY <1>1, <2>3
      <3>2. ForceClean(w.details) \in Details /\ ForceClean(w.details).canceled
        BY <1>2 DEF ForceClean, Details
      <3>3. GetStatus(ForceClean(w.details)) = "Deleted"
        BY <3>2 DEF GetStatus, Details
      <3>4. k \in Rows /\ k.details = w.details /\ k.status = "Deleted"
        BY <1>2, <3>1, <3>3, UpdateStatusFacts, NowType
      <3>5. Sound(k)
        BY <1>2, <3>4 DEF Sound, SoundDetails
      <3> QED
        BY <1>3, <1>4, <3>1, <3>4, <3>5 DEF Steps
    <2> QED
      BY <2>1, <2>2, <2>3 DEF StartCancel
  <1> QED
    BY <1>5, <1>6

\* What a request makes of the counts it read and of the pods it lists.
LEMMA ListedFacts ==
  ASSUME Inv, NEW r \in Requests, pc[r] = "list", NEW listed, listed \in {pods, {}},
         PodStatus(seen[r], listed) = "Failed"
  PROVE  OverOr \/ listed # pods
  <1> SUFFICES ASSUME listed = pods, ~ OverOr
               PROVE  FALSE
    OBVIOUS
  <1>1. object # "gone" /\ ~ Finished /\ None("replaced")
    BY DEF OverOr, Over
  <1>2. CASE pods = {}
    <2>1. seen[r].succeeded # 0 \/ seen[r].active # 0
      BY <1>2 DEF PodStatus
    <2>2. ~ HadPodOr
      BY <1>1, <1>2 DEF HadPodOr, HasPod
    <2> QED
      BY <2>1, <2>2 DEF Inv, SoundSeen
  <1>3. CASE pods # {}
    <2>1. PICK phase \in PodPhases : pods = {<<1, phase>>}
      BY <1>1, <1>3 DEF Inv, OnePod
    <2>2. {p[2] : p \in pods} = {phase}
      BY <2>1
    <2>3. LatestPhase(pods) = phase
      BY <2>2 DEF LatestPhase
    <2>4. phase \notin EndedPods
      BY <1>1, <2>1 DEF Finished, HasPod, Live
    <2>5. seen[r].succeeded = 0
      BY DEF Inv, SoundSeen
    <2> QED
      BY <1>3, <2>3, <2>4, <2>5 DEF PodStatus, ActiveStatus
  <1> QED
    BY <1>2, <1>3

\* The counts of a job that are read at one time.
LEMMA CountedFacts ==
  ASSUME TypeOK, OnePod
  PROVE  /\ Counted \in Counts
         /\ Counted.succeeded # 0 => OverOr
         /\ Counted.active # 0 => HadPodOr
  <1> DEFINE Active    == {p \in pods : Live(p)}
             Succeeded == {p \in pods : p[2] = "Succeeded"}
  <1>1. IsFiniteSet(pods)
    <2>1. IsFiniteSet(0..1)
      <3>1. IsFiniteSet({0})
        BY FS_Singleton
      <3>2. IsFiniteSet({0} \cup {1})
        BY <3>1, FS_AddElement
      <3>3. 0..1 = {0} \cup {1}
        OBVIOUS
      <3> QED
        BY <3>2, <3>3
    <2>2. IsFiniteSet(PodPhases)
      <3>1. IsFiniteSet({"Pending"})
        BY FS_Singleton
      <3>2. IsFiniteSet({"Pending"} \cup {"Running"})
        BY <3>1, FS_AddElement
      <3>3. IsFiniteSet(({"Pending"} \cup {"Running"}) \cup {"Succeeded"})
        BY <3>2, FS_AddElement
      <3>4. IsFiniteSet((({"Pending"} \cup {"Running"}) \cup {"Succeeded"}) \cup {"Failed"})
        BY <3>3, FS_AddElement
      <3>5. PodPhases = (({"Pending"} \cup {"Running"}) \cup {"Succeeded"}) \cup {"Failed"}
        OBVIOUS
      <3> QED
        BY <3>4, <3>5
    <2>3. IsFiniteSet((0..1) \X PodPhases)
      BY <2>1, <2>2, FS_Product
    <2>4. pods \in SUBSET ((0..1) \X PodPhases)
      BY DEF TypeOK, Pods
    <2> QED
      BY <2>3, <2>4, FS_Subset
  <1>2. /\ Cardinality(Active) \in Nat
        /\ Cardinality(Active) # 0 => Active # {}
        /\ Cardinality(Succeeded) \in Nat
        /\ Cardinality(Succeeded) # 0 => Succeeded # {}
    <2>1. Active \in SUBSET pods /\ Succeeded \in SUBSET pods
      OBVIOUS
    <2>2. IsFiniteSet(Active) /\ IsFiniteSet(Succeeded)
      BY <1>1, <2>1, FS_Subset
    <2> QED
      BY <2>2, FS_CardinalityType, FS_EmptySet
  <1>3. Succeeded # {} => OverOr
    BY DEF OverOr, Over, Finished, HasPod, Live, OnePod
  <1>4. Active # {} => HadPodOr
    BY DEF HadPodOr, HasPod, OnePod
  <1>5. Counted = [active |-> Cardinality(Active), succeeded |-> Cardinality(Succeeded)]
    BY DEF Counted
  <1> DEFINE nActive    == Cardinality(Active)
             nSucceeded == Cardinality(Succeeded)
  <1>6. Counted = [active |-> nActive, succeeded |-> nSucceeded]
    BY <1>5
  <1>7. /\ nActive \in Nat
        /\ nActive # 0 => HadPodOr
        /\ nSucceeded \in Nat
        /\ nSucceeded # 0 => OverOr
    BY <1>2, <1>3, <1>4
  <1> HIDE DEF nActive, nSucceeded
  <1>8. PICK c : c = Counted
    OBVIOUS
  <1>9. c \in Counts /\ c.active = nActive /\ c.succeeded = nSucceeded
    BY <1>6, <1>7, <1>8 DEF Counts
  <1>10. (c.succeeded # 0 => OverOr) /\ (c.active # 0 => HadPodOr)
    BY <1>7, <1>9
  <1> QED
    BY <1>8, <1>9, <1>10

(***************************************************************************)
(* The invariant.                                                          *)
(***************************************************************************)

\* The invariant holds at first: nothing was seen and nothing was said.
LEMMA InitInv == Init => Inv
  <1> SUFFICES ASSUME Init PROVE Inv
    OBVIOUS
  <1>1. TypeOK
    <2>1. pods \in Pods /\ NoCounts \in Counts
      BY DEF Init, Pods, NoCounts, Counts
    <2> QED
      BY <2>1, NewRowFacts DEF Init, TypeOK, Steps, Roles
  <1>2. Sound(NewRow)
    BY NewRowFacts DEF Sound, SoundDetails
  <1>3. Sound(row) /\ \A r \in Requests : Sound(copy[r])
    BY <1>2 DEF Init
  <1>4. OnePod /\ \A r \in Requests : SoundSeen(r)
    BY DEF Init, OnePod, SoundSeen
  <1> QED
    BY <1>1, <1>3, <1>4 DEF Inv

\* A step of a request, whatever it does to the row, keeps the invariant.
LEMMA EffectInv ==
  ASSUME Inv, NEW r \in Requests, Effect(r), Monotone, OnePod',
         object' \in {"unseen", "there", "gone"}, pods' \in Pods, late' \in BOOLEAN,
         seen' \in [Requests -> Counts], \A q \in Requests \ {r} : seen'[q] = seen[q],
         faults' \subseteq FaultKinds
  PROVE  Inv'
  <1>1. TypeOK'
    BY DEF Effect, Written, TypeOK
  <1>2. \A k : Sound(k) => Sound(k)'
    BY SoundLater
  <1>3. Sound(row)'
    <2>1. PICK j, k : j = row /\ k = copy[r]
      OBVIOUS
    <2>2. Sound(j)' /\ Sound(k)'
      BY <1>2, <2>1 DEF Inv
    <2>3. (row'.details = j.details /\ row'.status = j.status)
          \/ (row'.details = k.details /\ row'.status = k.status)
      BY <2>1 DEF Effect, Written, SameRow, SavedRow
    <2> QED
      BY <2>2, <2>3 DEF Sound, SoundDetails
  <1>4. ASSUME NEW q \in Requests
        PROVE  Sound(copy[q])' /\ SoundSeen(q)'
    <2>1. CASE q = r
      BY <2>1 DEF Effect, Written, SoundSeen
    <2>2. CASE q # r
      <3>1. PICK k : k = copy[q]
        OBVIOUS
      <3>2. Sound(k)' /\ copy'[q].details = k.details /\ copy'[q].status = k.status
        BY <1>2, <2>2, <3>1 DEF Inv, Effect, Written
      <3>3. Sound(copy[q])'
        BY <3>2 DEF Sound, SoundDetails
      <3>4. pc'[q] = pc[q] /\ seen'[q] = seen[q] /\ SoundSeen(q)
        BY <2>2 DEF Effect, Inv
      <3> QED
        BY <3>1, <3>2, <3>3, <3>4 DEF SoundSeen, Monotone
    <2> QED
      BY <2>1, <2>2
  <1> QED
    BY <1>1, <1>3, <1>4 DEF Inv

\* Each step of a request but the reading of the status has such an effect.
LEMMA GoesEffect ==
  ASSUME Inv, NEW r \in Requests, Goes(r), ~ ReadStatus(r)
  PROVE  /\ Effect(r) /\ Monotone /\ OnePod'
         /\ object' \in {"unseen", "there", "gone"} /\ pods' \in Pods /\ late' \in BOOLEAN
         /\ seen' \in [Requests -> Counts]
         /\ \A q \in Requests \ {r} : seen'[q] = seen[q]
         /\ faults' \subseteq FaultKinds
  <1> DEFINE Quiet == /\ UNCHANGED <<cluster, late>>
                      /\ faults \subseteq faults' /\ faults' \subseteq FaultKinds
             Seen  == /\ seen' \in [Requests -> Counts]
                      /\ \A q \in Requests \ {r} : seen'[q] = seen[q]
  <1>1. PICK c : c = copy[r]
    OBVIOUS
  <1>2. /\ TypeOK /\ OnePod /\ Sound(copy[r]) /\ Sound(c) /\ c \in Rows /\ copy[r] \in Rows
        /\ c.details \in Details /\ seen \in [Requests -> Counts] /\ faults \subseteq FaultKinds
    BY <1>1 DEF Inv, TypeOK, Rows
  <1>3. ASSUME Quiet
        PROVE  /\ Monotone /\ OnePod'
               /\ object' \in {"unseen", "there", "gone"} /\ pods' \in Pods /\ late' \in BOOLEAN
    <2>1. Monotone
      BY <1>3, QuietMonotone
    <2> QED
      BY <1>2, <1>3, <2>1 DEF TypeOK, OnePod, None, cluster
  <1>4. \A kind \in FaultKinds : Fault(kind) => faults \subseteq faults' /\ faults' \subseteq FaultKinds
    BY <1>2 DEF Fault
  <1>5. UNCHANGED seen => Seen
    BY <1>2
  <1>6. pc[r] \in {"read", "list"} => c.details.exists
    BY <1>1 DEF Inv, SoundSeen
  <1>7. ASSUME NEW listed \in Pods, ListPods(r, listed), Quiet,
               PodStatus(seen[r], listed) = "Failed" => OverOr'
        PROVE  Effect(r) /\ Seen
    <2>1. pc[r] = "list" /\ seen' = [seen EXCEPT ![r] = NoCounts]
      BY <1>7 DEF ListPods, At
    <2>2. Seen
      BY <1>2, <2>1 DEF NoCounts, Counts
    <2>3. PICK says : says = PodStatus(seen[r], listed)
      OBVIOUS
    <2>4. says \in JobStates
      BY <1>7, <2>3, PodStatusType
    <2> DEFINE d == [c.details EXCEPT !.started = TRUE, !.says = says]
    <2>5. d \in Details /\ d.started /\ d.exists /\ d.says = says
      BY <1>2, <1>6, <2>1, <2>4 DEF Details
    <2>6. Refreshed(r, WithDetails(r, d)) \/ Refreshed(r, copy[r])
      BY <1>1, <1>7, <2>3 DEF ListPods
    <2> HIDE DEF d
    <2>7. Monotone /\ Visible
      BY <1>3, <1>7, <2>1 DEF Inv, SoundSeen
    <2>8. SoundDetails(d)'
      BY <1>7, <2>3, <2>5, <2>7 DEF SoundDetails, Monotone
    <2>9. Effect(r)
      BY <1>1, <1>2, <1>6, <2>1, <2>5, <2>6, <2>7, <2>8, FoundEffect, NothingNewEffect
    <2> QED
      BY <2>2, <2>9
  <1>8. CASE ListSucceeds(r) \/ ListFails(r)
    <2>1. CASE ListSucceeds(r)
      <3>1. Quiet /\ pods \in Pods /\ ListPods(r, pods) /\ pc[r] = "list"
        BY <1>2, <2>1 DEF ListSucceeds, ListPods, At, TypeOK
      <3>2. PodStatus(seen[r], pods) = "Failed" => OverOr'
        BY <1>3, <3>1, ListedFacts DEF Monotone
      <3> QED
        BY <1>3, <1>7, <3>1, <3>2
    <2>2. CASE ListFails(r)
      <3>1. Quiet /\ {} \in Pods /\ ListPods(r, {})
        BY <1>4, <2>2 DEF ListFails, ListPods, Pods, FaultKinds
      <3>2. OverOr'
        BY <2>2 DEF ListFails, Fault, OverOr, None
      <3> QED
        BY <1>3, <1>7, <3>1, <3>2
    <2> QED
      BY <1>8, <2>1, <2>2
  <1>9. CASE NotFound(r)
    <2>1. Quiet /\ UNCHANGED seen
      BY <1>2, <1>9 DEF NotFound
    <2> DEFINE d == [c.details EXCEPT !.exists = FALSE]
    <2>2. Refreshed(r, WithDetails(r, d))
      BY <1>1, <1>9 DEF NotFound
    <2>3. d \in Details /\ d.started /\ d.says = c.details.says /\ object = "gone"
      BY <1>1, <1>2, <1>9 DEF NotFound, Details, Sound, SoundDetails, Visible, TypeOK
    <2> HIDE DEF d
    <2>4. SoundDetails(d)'
      BY <2>1, <2>3 DEF SoundDetails, Visible, GoneOr, OverOr, Over, cluster
    <2> QED
      BY <1>2, <1>3, <1>5, <2>1, <2>2, <2>3, <2>4, FoundEffect
  <1>10. CASE NotStarted(r)
    <2>1. Quiet /\ UNCHANGED seen
      BY <1>2, <1>10 DEF NotStarted
    <2>2. PICK k : k = UpdateStatus(c, c.status, Now) /\ Refreshed(r, k)
      BY <1>1, <1>10 DEF NotStarted
    <2>3. k \in Rows /\ k.details = copy[r].details /\ k.status = copy[r].status
      <3>1. c.status \in JobStates
        BY <1>2 DEF Rows
      <3> QED
        BY <1>1, <1>2, <2>2, <3>1, UpdateStatusFacts, NowType
    <2>4. copy[r].details.exists
      BY <1>1, <1>6, <1>10 DEF NotStarted, At
    <2> QED
      BY <1>2, <1>3, <1>5, <2>1, <2>2, <2>3, <2>4, NothingNewEffect
  <1>11. CASE NeverStarted(r)
    <2>1. Quiet /\ UNCHANGED <<seen, role>>
      BY <1>2, <1>11 DEF NeverStarted
    <2> DEFINE d == ForceClean(c.details)
    <2>2. PICK k : k = WithDetails(r, d) /\ Keep(r, k)
      BY <1>1, <1>11 DEF NeverStarted
    <2>3. /\ d \in Details /\ d.started = c.details.started /\ d.exists = c.details.exists
          /\ d.says = c.details.says /\ d.canceled
      BY <1>2 DEF ForceClean, Details
    <2> HIDE DEF d
    <2>4. k \in Rows /\ k.details = d /\ k.status = "Deleted"
      BY <1>2, <2>2, <2>3, WithDetailsFacts DEF GetStatus, Details
    <2>5. Sound(c)'
      BY <1>2, <1>3, <2>1, SoundLater
    <2>6. Sound(k)'
      BY <2>3, <2>4, <2>5 DEF Sound, SoundDetails
    <2>7. Written(r)
      BY <1>2, <2>2, <2>4, <2>6, KeepEffect
    <2>8. GoTo(r, "delete") /\ role' \in [Requests -> Roles]
      BY <1>2, <1>11 DEF NeverStarted, TypeOK
    <2>9. Effect(r)
      BY <1>2, <2>7, <2>8, GoToFacts DEF Effect, Steps
    <2> QED
      BY <1>3, <1>5, <2>1, <2>9
  <1>12. CASE ReadFails(r)
    <2>1. Quiet /\ UNCHANGED seen
      BY <1>2, <1>4, <1>12 DEF ReadFails, FaultKinds
    <2>2. Done(r, row) \/ Refreshed(r, copy[r])
      BY <1>12 DEF ReadFails
    <2>4. copy[r].details.exists
      BY <1>1, <1>6, <1>12 DEF ReadFails, At
    <2>3. Effect(r)
      BY <1>2, <1>3, <2>1, <2>2, <2>4, DoneEffect, NothingNewEffect
    <2> QED
      BY <1>3, <1>5, <2>1, <2>3
  <1>13. CASE DeleteJob(r)
    <2>1. UNCHANGED <<late, seen, faults>> /\ Deleted(r)
      BY <1>13 DEF DeleteJob, Deleted
    <2>2. CASE object = "there"
      <3>1. object' = "gone" /\ pods' = {}
        BY <1>13, <2>2 DEF DeleteJob, Remove
      <3>2. Monotone /\ OnePod' /\ GoneOr' /\ pods' \in Pods
        BY <3>1, <2>1 DEF Monotone, Visible, GoneOr, OverOr, Over, HadPodOr, OnePod, Pods
      <3>3. Effect(r)
        BY <1>2, <2>1, <3>2, DeletedEffect
      <3> QED
        BY <1>2, <1>5, <2>1, <3>1, <3>2, <3>3 DEF TypeOK
    <2>3. CASE object # "there"
      <3>1. Quiet
        BY <1>2, <1>13, <2>1, <2>3 DEF DeleteJob
      <3>2. copy[r].details.started => GoneOr
        BY <1>2, <2>3 DEF Sound, SoundDetails, Visible, GoneOr, TypeOK
      <3>3. copy[r].details.started => GoneOr'
        BY <1>3, <3>1, <3>2 DEF Monotone
      <3>4. Effect(r)
        BY <1>2, <1>3, <2>1, <3>1, <3>3, DeletedEffect
      <3> QED
        BY <1>3, <1>5, <2>1, <3>1, <3>4
    <2> QED
      BY <2>2, <2>3
  <1>14. CASE DeleteFails(r)
    <2>1. Quiet /\ UNCHANGED seen
      BY <1>2, <1>4, <1>14 DEF DeleteFails, Deleted, FaultKinds
    <2>2. GoneOr'
      BY <1>14 DEF DeleteFails, Fault, GoneOr, None
    <2>3. Effect(r)
      BY <1>2, <1>3, <1>14, <2>1, <2>2, DeletedEffect DEF DeleteFails
    <2> QED
      BY <1>3, <1>5, <2>1, <2>3
  <1>15. CASE NetworkFails(r)
    <2>1. Quiet /\ UNCHANGED seen
      BY <1>2, <1>4, <1>15 DEF NetworkFails, FaultKinds
    <2>3. Forced(r, "save") \/ Fails(r)
      BY <1>15 DEF NetworkFails
    <2>2. Effect(r)
      BY <1>2, <1>3, <2>1, <2>3, ForcedEffect, FailsEffect
    <2> QED
      BY <1>3, <1>5, <2>1, <2>2
  <1>16. CASE Save(r) \/ ForceSave(r)
    <2>1. Quiet /\ UNCHANGED seen
      BY <1>2, <1>16 DEF Save, ForceSave
    <2>2. \/ CanSave(row, copy[r]) /\ Done(r, Saved(row, copy[r]))
          \/ Fails(r) \/ Done(r, row)
      BY <1>16 DEF Save, ForceSave
    <2>3. Effect(r)
      BY <1>2, <1>3, <2>1, <2>2, SavedEffect, FailsEffect, DoneEffect
    <2> QED
      BY <1>3, <1>5, <2>1, <2>3
  <1> QED
    BY <1>8, <1>9, <1>10, <1>11, <1>12, <1>13, <1>14, <1>15, <1>16 DEF Goes

\* Reading the status of the job: what the counts say of it is so.
LEMMA ReadStatusInv ==
  ASSUME Inv, NEW r \in Requests, ReadStatus(r)
  PROVE  Inv'
  <1>1. /\ UNCHANGED <<cluster, late, row, copy, role, faults>> /\ object = "there"
        /\ pc[r] = "read" /\ pc' = [pc EXCEPT ![r] = "list"]
        /\ seen' = [seen EXCEPT ![r] = Counted]
    BY DEF ReadStatus, At, GoTo
  <1>2. /\ TypeOK /\ OnePod /\ pc \in [Requests -> Steps] /\ seen \in [Requests -> Counts]
        /\ faults \subseteq faults'
    BY <1>1 DEF Inv, TypeOK
  <1>3. Monotone
    BY <1>1, <1>2, QuietMonotone
  <1>4. PICK c : c = Counted
    OBVIOUS
  <1>5. /\ c \in Counts
        /\ c.succeeded # 0 => OverOr
        /\ c.active # 0 => HadPodOr
    BY <1>2, <1>4, CountedFacts
  <1>6. TypeOK'
    <2>1. pc' \in [Requests -> Steps]
      BY <1>1, <1>2 DEF Steps
    <2>2. seen' \in [Requests -> Counts]
      BY <1>1, <1>2, <1>4, <1>5
    <2> QED
      BY <1>1, <1>2, <2>1, <2>2 DEF TypeOK, cluster
  <1>7. OnePod'
    BY <1>1, <1>2 DEF OnePod, None, cluster
  <1>8. \A k : Sound(k) => Sound(k)'
    BY <1>3, SoundLater
  <1>9. Sound(row)'
    <2>1. PICK k : k = row
      OBVIOUS
    <2>2. Sound(k)' /\ row' = k
      BY <1>1, <1>8, <2>1 DEF Inv
    <2> QED
      BY <2>2 DEF Sound, SoundDetails
  <1>10. ASSUME NEW q \in Requests
         PROVE  Sound(copy[q])' /\ SoundSeen(q)'
    <2>1. PICK k : k = copy[q]
      OBVIOUS
    <2>2. Sound(k)' /\ copy'[q] = k
      BY <1>1, <1>8, <2>1 DEF Inv
    <2>3. Sound(copy[q])'
      BY <2>2 DEF Sound, SoundDetails
    <2>4. CASE q = r
      <3>1. seen'[r] = c /\ pc'[r] = "list" /\ k.details.exists
        BY <1>1, <1>2, <1>4, <2>1, <2>4 DEF Inv, SoundSeen
      <3>2. Visible'
        BY <1>1 DEF Visible, cluster
      <3> QED
        BY <1>3, <1>5, <2>2, <2>3, <2>4, <3>1, <3>2 DEF SoundSeen, Monotone
    <2>5. CASE q # r
      <3>1. seen'[q] = seen[q] /\ pc'[q] = pc[q] /\ SoundSeen(q)
        BY <1>1, <1>2, <2>5 DEF Inv
      <3> QED
        BY <1>3, <2>1, <2>2, <2>3, <3>1 DEF SoundSeen, Monotone
    <2> QED
      BY <2>4, <2>5
  <1> QED
    BY <1>6, <1>7, <1>9, <1>10 DEF Inv

\* A step that leaves the row and the requests alone.
LEMMA ClusterInv ==
  ASSUME Inv, Monotone, UNCHANGED <<row, pc, copy, role, seen>>, OnePod',
         object' \in {"unseen", "there", "gone"}, pods' \in Pods, late' \in BOOLEAN,
         faults' \subseteq FaultKinds
  PROVE  Inv'
  <1>1. TypeOK'
    BY DEF Inv, TypeOK
  <1>2. \A k : Sound(k) => Sound(k)'
    BY SoundLater
  <1>3. Sound(row)'
    <2>1. PICK k : k = row
      OBVIOUS
    <2>2. Sound(k)' /\ row' = k
      BY <1>2, <2>1 DEF Inv
    <2> QED
      BY <2>2 DEF Sound, SoundDetails
  <1>4. ASSUME NEW q \in Requests
        PROVE  Sound(copy[q])' /\ SoundSeen(q)'
    <2>1. PICK k : k = copy[q]
      OBVIOUS
    <2>2. Sound(k)' /\ copy'[q] = k
      BY <1>2, <2>1 DEF Inv
    <2>3. Sound(copy[q])'
      BY <2>2 DEF Sound, SoundDetails
    <2> QED
      BY <2>3 DEF Inv, SoundSeen, Monotone
  <1> QED
    BY <1>1, <1>3, <1>4 DEF Inv

\* Every step keeps the invariant.
LEMMA NextInv == Inv /\ [Next]_vars => Inv'
  <1> SUFFICES ASSUME Inv, [Next]_vars PROVE Inv'
    OBVIOUS
  <1>1. TypeOK /\ OnePod /\ Sound(row)
    BY DEF Inv
  <1>2. CASE ClusterStep
    BY <1>1, <1>2, ClusterMonotone, ClusterInv
  <1>3. ASSUME NEW r \in Requests,
               ("poll" \in RolesOf[r] /\ StartPoll(r)) \/ \E why \in RolesOf[r] : StartCancel(r, why)
        PROVE  Inv'
    <2>1. UNCHANGED <<cluster, late, seen, faults>>
      BY <1>3 DEF StartPoll, StartCancel, Begin
    <2>2. Monotone
      BY <2>1, QuietMonotone
    <2>3. Effect(r)
      BY <1>1, <1>3, <2>2, BeginEffect
    <2> QED
      BY <2>1, <2>2, <2>3, <1>1, EffectInv DEF TypeOK, OnePod, None, cluster
  <1>4. ASSUME NEW r \in Requests, Goes(r)
        PROVE  Inv'
    <2>1. CASE ReadStatus(r)
      BY <2>1, ReadStatusInv
    <2>2. CASE ~ ReadStatus(r)
      BY <1>4, <2>2, GoesEffect, EffectInv
    <2> QED
      BY <2>1, <2>2
  <1>5. CASE UNCHANGED vars
    <2>1. Monotone
      BY <1>5, QuietMonotone DEF vars
    <2> QED
      BY <1>1, <1>5, <2>1, ClusterInv DEF vars, cluster, TypeOK, OnePod, None
  <1> QED
    BY <1>2, <1>3, <1>4, <1>5 DEF Next

\* The invariant holds in every reachable state.
THEOREM Invariant == Spec => []Inv
  BY InitInv, NextInv, PTL DEF Spec

(***************************************************************************)
(* The theorems.                                                           *)
(***************************************************************************)

\* The row, the copies, the counts and the steps of the requests are what the
\* code can make of them, for any number of requests (JobDetails, Job.update_status).
THEOREM TypeCorrect == Spec => []TypeOK
  <1>1. Inv => TypeOK
    BY DEF Inv
  <1> QED
    BY <1>1, Invariant, PTL

\* get_status: a job whose row says Failed is over, however old the copy was that
\* said so, and although counts and pods are read one after the other, as long as
\* no listing of the pods failed and no pod was replaced.
THEOREM FailedMeansOverAlways == Spec => []FailedMeansOver
  <1>1. Inv => FailedMeansOver
    BY DEF Inv, Sound, FailedMeansOver, OverOr
  <1> QED
    BY <1>1, Invariant, PTL

\* refresh_job and cancel_job: a job that was seen and that the row says exists no
\* more is gone, as long as no deletion failed.
THEOREM GoneMeansGoneAlways == Spec => []GoneMeansGone
  <1>1. Inv => GoneMeansGone
    BY DEF Inv, Sound, SoundDetails, GoneMeansGone, GoneOr
  <1> QED
    BY <1>1, Invariant, PTL

\* save_job: a row that is not active never becomes active again, whichever of any
\* number of copies is saved and however late.
THEOREM NeverActiveAgainAlways == Spec => NeverActiveAgain
  <1>1. ASSUME Inv, [Next]_vars
        PROVE  [~ IsActive(row) => ~ IsActive(row')]_vars
    <2>1. CASE UNCHANGED row
      BY <2>1
    <2>2. ASSUME NEW r \in Requests, Effect(r)
          PROVE  ~ IsActive(row) => ~ IsActive(row')
      BY <2>2 DEF Effect, Written, SameRow, SavedRow, CanSave, CanUpdate, IsActive
    <2>3. ASSUME NEW r \in Requests,
                 ("poll" \in RolesOf[r] /\ StartPoll(r)) \/ \E why \in RolesOf[r] : StartCancel(r, why)
          PROVE  ~ IsActive(row) => ~ IsActive(row')
      <3>1. Monotone
        BY <2>3, QuietMonotone DEF StartPoll, StartCancel, Begin
      <3> QED
        BY <1>1, <2>2, <2>3, <3>1, BeginEffect DEF Inv
    <2>4. ASSUME NEW r \in Requests, Goes(r)
          PROVE  ~ IsActive(row) => ~ IsActive(row')
      <3>1. CASE ReadStatus(r)
        BY <2>1, <3>1 DEF ReadStatus
      <3>2. CASE ~ ReadStatus(r)
        BY <1>1, <2>2, <2>4, <3>2, GoesEffect
      <3> QED
        BY <3>1, <3>2
    <2>5. CASE ClusterStep
      BY <1>1, <2>1, <2>5, ClusterMonotone DEF Inv
    <2>6. CASE UNCHANGED vars
      BY <2>6
    <2> QED
      BY <1>1, <2>3, <2>4, <2>5, <2>6 DEF Next
  <1> QED
    BY <1>1, Invariant, PTL DEF Spec, NeverActiveAgain
=============================================================================
