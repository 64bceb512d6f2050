----------------------- MODULE ExternalResourceProofs -----------------------
(***************************************************************************)
(* Theorems about ExternalResource, for any number of faults, requests and *)
(* retries.                                                                *)
(***************************************************************************)
EXTENDS ExternalResource, FiniteSetTheorems, TLAPS

(***************************************************************************)
(* Resources, and what the plug-in makes of them.                          *)
(***************************************************************************)
States    == ResourceState \cup {"absent"}
Unmanaged == {"absent", "CREATED", "DEACTIVATED", "FORCE_KILLED"}

\* What a resource can be: nobody manages it until it is activated, and it has no
\* name before.
Sound(r) ==
  /\ r.managed_by = "UNKNOWN" => r.state \in Unmanaged /\ ~ r.named
  /\ r.state \in {"absent", "CREATED"} => ~ r.named

\* A resource that says that its cluster is gone is right.
Right(kind, r) == r.state = "DEACTIVATED" /\ r.named => kind = "gone"

\* All but the times are the same.
Same(r, s) == r.state = s.state /\ r.managed_by = s.managed_by /\ r.named = s.named

\* The states are those the transitions are about.
LEMMA StatesFact ==
  /\ States = {"absent", "CREATED", "ACTIVATING", "ACTIVE", "DEACTIVATING", "DEACTIVATED",
               "FORCE_KILLED"}
  /\ States = DOMAIN AllowedTransitions
  /\ \A s \in States : IsTerminal(s) <=> s \in {"DEACTIVATED", "FORCE_KILLED"}
  BY DEF States, ResourceState, AllowedTransitions, IsTerminal

\* A change of status keeps who manages the resource, and its name.
LEMMA WithStatusFacts ==
  ASSUME NEW r \in Resources, NEW state \in States, NEW now \in Nat
  PROVE  /\ WithStatus(r, state, now) \in Resources
         /\ WithStatus(r, state, now).state = state
         /\ WithStatus(r, state, now).managed_by = r.managed_by
         /\ WithStatus(r, state, now).named = r.named
  BY DEF WithStatus, Resources, States

\* What is left behind by a call of the plug-in that makes no cluster.
Quiet(kind, r, tried) ==
  /\ tried.cluster \in Clusters /\ tried.resource \in Resources
  /\ kind = "gone" => tried.cluster = "gone"
  /\ tried.resource.named = r.named /\ tried.resource.state # "absent"
  /\ Sound(tried.resource)
  /\ Right(kind, r) => Right(tried.cluster, tried.resource)

\* _continue_deactivation, of a resource that is managed.
LEMMA ContinueDeactivationFacts ==
  ASSUME NEW kind \in Clusters, NEW r \in Resources, NEW now \in Nat, Sound(r),
         r.managed_by = "SERVER"
  PROVE  Quiet(kind, r, ContinueDeactivation(kind, r, now))
  <1> DEFINE next == IF \/ r.named /\ kind = "gone"
                        \/ ~ r.named /\ r.state = "DEACTIVATING"
                     THEN "DEACTIVATED" ELSE "DEACTIVATING"
             after == WithStatus(r, next, now)
             rest  == IF r.named /\ kind # "gone" THEN "deleting" ELSE kind
  <1>1. next \in States
    BY StatesFact
  <1>2. ContinueDeactivation(kind, r, now) = [cluster |-> rest, resource |-> after]
    BY DEF ContinueDeactivation, Tried
  <1>3. after \in Resources /\ after.state = next /\ after.managed_by = "SERVER"
        /\ after.named = r.named
    BY <1>1, WithStatusFacts
  <1>4. rest \in Clusters /\ (kind = "gone" => rest = "gone")
    BY DEF Clusters
  <1>5. next = "DEACTIVATED" /\ r.named => rest = "gone"
    OBVIOUS
  <1>6. next \in {"DEACTIVATED", "DEACTIVATING"}
    OBVIOUS
  <1> HIDE DEF next, after, rest
  <1> QED
    BY <1>2, <1>3, <1>4, <1>5, <1>6 DEF Quiet, Sound, Right

\* The deletion of a resource that is managed, or was never activated, fails.
LEMMA DeletionFailsFacts ==
  ASSUME NEW kind \in Clusters, NEW r \in Resources, NEW now \in Nat, r.managed_by = "SERVER"
  PROVE  Quiet(kind, r, DeletionFails(kind, r, now))
  <1>1. "DEACTIVATING" \in States
    BY StatesFact
  <1> DEFINE after == WithStatus(r, "DEACTIVATING", now)
  <1>2. after \in Resources /\ after.state = "DEACTIVATING" /\ after.managed_by = "SERVER"
        /\ after.named = r.named
    BY <1>1, WithStatusFacts
  <1>3. DeletionFails(kind, r, now) = [cluster |-> kind, resource |-> after]
    BY DEF DeletionFails, Tried
  <1> HIDE DEF after
  <1> QED
    BY <1>2, <1>3 DEF Quiet, Sound, Right

\* The states in which a request deactivates.
Deactivable == {"CREATED", "ACTIVATING", "ACTIVE", "DEACTIVATING"}

\* deactivate, of a resource that is not terminal.
LEMMA DoDeactivateFacts ==
  ASSUME NEW kind \in Clusters, NEW r \in Resources, NEW now \in Nat, Sound(r),
         r.state \in Deactivable
  PROVE  Quiet(kind, r, DoDeactivate(kind, r, now))
  <1>1. CASE r.state = "CREATED"
    <2> DEFINE after == WithStatus(r, "DEACTIVATED", now)
    <2>1. after \in Resources /\ after.state = "DEACTIVATED" /\ after.managed_by = r.managed_by
          /\ after.named = r.named
      BY StatesFact, WithStatusFacts
    <2>2. DoDeactivate(kind, r, now) = [cluster |-> kind, resource |-> after]
      BY <1>1 DEF DoDeactivate, Tried
    <2> HIDE DEF after
    <2> QED
      BY <1>1, <2>1, <2>2 DEF Quiet, Sound, Right, Unmanaged
  <1>2. CASE r.state # "CREATED"
    <2>1. r.managed_by = "SERVER"
      BY <1>2 DEF Sound, Unmanaged, Deactivable, Resources
    <2> QED
      BY <1>2, <2>1, ContinueDeactivationFacts DEF DoDeactivate
  <1> QED
    BY <1>1, <1>2

\* update
LEMMA DoUpdateFacts ==
  ASSUME NEW kind \in Clusters, NEW r \in Resources, NEW now \in Nat, Sound(r),
         r.state # "absent"
  PROVE  Quiet(kind, r, DoUpdate(kind, r, now))
  <1>1. ASSUME NEW state \in States,
               DoUpdate(kind, r, now) = Tried(kind, WithStatus(r, state, now)),
               state = r.state \/ (r.state = "ACTIVATING" /\ state = "ACTIVE")
        PROVE  Quiet(kind, r, DoUpdate(kind, r, now))
    <2> DEFINE after == WithStatus(r, state, now)
    <2>1. after \in Resources /\ after.state = state /\ after.managed_by = r.managed_by
          /\ after.named = r.named
      BY WithStatusFacts
    <2>2. DoUpdate(kind, r, now) = [cluster |-> kind, resource |-> after]
      BY <1>1 DEF Tried
    <2> HIDE DEF after
    <2> QED
      BY <1>1, <2>1, <2>2 DEF Quiet, Sound, Right, Unmanaged
  <1>2. r.state \in States
    BY DEF Resources, States
  <1>3. CASE r.state = "ACTIVATING"
    BY <1>1, <1>3, StatesFact DEF DoUpdate
  <1>4. CASE r.state = "ACTIVE" /\ Validated(kind)
    BY <1>1, <1>2, <1>4 DEF DoUpdate
  <1>5. CASE (r.state = "ACTIVE" /\ ~ Validated(kind)) \/ r.state = "DEACTIVATING"
    <2>1. r.managed_by = "SERVER"
      BY <1>5 DEF Sound, Unmanaged, Resources
    <2>2. DoUpdate(kind, r, now) = ContinueDeactivation(kind, r, now)
      BY <1>5 DEF DoUpdate
    <2> QED
      BY <2>1, <2>2, ContinueDeactivationFacts
  <1>6. CASE r.state \notin {"ACTIVATING", "ACTIVE", "DEACTIVATING"}
    BY <1>1, <1>2, <1>6 DEF DoUpdate
  <1> QED
    BY <1>3, <1>4, <1>5, <1>6

\* What the three outcomes of activate leave behind, of a resource without a name.
Made(r, tried) ==
  /\ tried.cluster \in Clusters /\ tried.resource \in Resources
  /\ tried.resource.state # "absent" /\ Sound(tried.resource)
  /\ ~ r.named => (tried.resource.named => tried.resource.state = "ACTIVATING")

LEMMA ActivateFacts ==
  ASSUME NEW kind \in Clusters, NEW r \in Resources, NEW now \in Nat, Sound(r)
  PROVE  /\ Made(r, DoActivate(kind, r, now))
         /\ Made(r, CannotActivate(kind, r, now))
         /\ Made(r, CreateFails(kind, r, now))
  <1>1. ASSUME NEW m \in Resources, Sound(m), m.managed_by = "SERVER", m.named = r.named
        PROVE  Made(r, ContinueDeactivation(kind, m, now))
    BY <1>1, ContinueDeactivationFacts DEF Quiet, Made
  <1>2. Made(r, CreateFails(kind, r, now))
    <2> DEFINE m == [r EXCEPT !.managed_by = "SERVER"]
    <2>1. m \in Resources /\ Sound(m) /\ m.managed_by = "SERVER" /\ m.named = r.named
      BY DEF Resources, Sound
    <2>2. CreateFails(kind, r, now) = ContinueDeactivation(kind, m, now)
      BY DEF CreateFails
    <2> HIDE DEF m
    <2> QED
      BY <1>1, <2>1, <2>2
  <1>3. Made(r, CannotActivate(kind, r, now))
    <2> DEFINE after == [WithStatus(r, "DEACTIVATING", now) EXCEPT !.managed_by = "SERVER"]
    <2>1. after \in Resources /\ after.state = "DEACTIVATING" /\ after.managed_by = "SERVER"
          /\ after.named = r.named
      BY StatesFact, WithStatusFacts DEF Resources
    <2>2. CannotActivate(kind, r, now) = [cluster |-> kind, resource |-> after]
      BY DEF CannotActivate, Tried
    <2> HIDE DEF after
    <2> QED
      BY <2>1, <2>2 DEF Made, Sound
  <1>4. Made(r, DoActivate(kind, r, now))
    <2> DEFINE m == [r EXCEPT !.managed_by = "SERVER", !.time = now]
               after == [WithStatus(m, "ACTIVATING", now) EXCEPT !.named = TRUE]
    <2>1. m \in Resources /\ Sound(m) /\ m.managed_by = "SERVER" /\ m.named = r.named
      BY DEF Resources, Sound
    <2>2. CASE kind \in Alive
      <3>1. DoActivate(kind, r, now) = ContinueDeactivation(kind, m, now)
        BY <2>2 DEF DoActivate
      <3> HIDE DEF m
      <3> QED
        BY <1>1, <2>1, <3>1
    <2>3. CASE kind \notin Alive
      <3>1. DoActivate(kind, r, now) = [cluster |-> "starting", resource |-> after]
        BY <2>3 DEF DoActivate, Tried
      <3> HIDE DEF m
      <3>2. after \in Resources /\ after.state = "ACTIVATING" /\ after.managed_by = "SERVER"
        <4> DEFINE base == WithStatus(m, "ACTIVATING", now)
        <4>0. "ACTIVATING" \in States
          BY StatesFact
        <4>1. base \in Resources /\ base.state = "ACTIVATING" /\ base.managed_by = "SERVER"
          BY <2>1, <4>0, WithStatusFacts
        <4>2. after = [base EXCEPT !.named = TRUE]
          OBVIOUS
        <4> HIDE DEF base, after
        <4> QED
          BY <4>1, <4>2 DEF Resources
      <3> HIDE DEF after
      <3> QED
        BY <3>1, <3>2 DEF Made, Sound, Clusters
    <2> QED
      BY <2>2, <2>3
  <1> QED
    BY <1>2, <1>3, <1>4

(***************************************************************************)
(* Times.                                                                  *)
(***************************************************************************)

\* There are finitely many times.
LEMMA FiniteTimes ==
  ASSUME NEW R, NEW M, NEW C
  PROVE  IsFiniteSet(Times(R, M, C)) /\ Cardinality(Times(R, M, C)) \in Nat
  <1> DEFINE a == C["block"].time
             b == C["poll"].time
             d == C["server"].time
  <1>1. Times(R, M, C) = (((({0} \cup {R.time}) \cup {M.time}) \cup {a}) \cup {b}) \cup {d}
    BY DEF Times, Clients
  <1> HIDE DEF a, b, d
  <1>2. IsFiniteSet({0})
    BY FS_Singleton
  <1>3. IsFiniteSet(({0} \cup {R.time}) \cup {M.time})
    BY <1>2, FS_AddElement
  <1>4. IsFiniteSet(((({0} \cup {R.time}) \cup {M.time}) \cup {a}) \cup {b})
    BY <1>3, FS_AddElement
  <1>5. IsFiniteSet(Times(R, M, C))
    BY <1>1, <1>4, FS_AddElement
  <1> QED
    BY <1>5, FS_CardinalityType

\* The present is a time.
LEMMA NowType == Now \in Nat
  BY FiniteTimes DEF Now

\* Writing changes nothing but times.
LEMMA WriteFacts ==
  ASSUME NEW R \in Resources, NEW M \in Resources, NEW C \in [Clients -> Resources],
         Write(R, M, C)
  PROVE  /\ row' \in Resources /\ Same(row', R)
         /\ resource' \in Resources /\ Same(resource', M)
         /\ copy' \in [Clients -> Resources]
         /\ \A c \in Clients : Same(copy'[c], C[c])
  <1> DEFINE used == Times(R, M, C)
             Rank(time) == Cardinality({t \in used : t < time})
  <1>1. \A time : Rank(time) \in Nat
    BY FiniteTimes, FS_Subset, FS_CardinalityType
  <1>2. /\ row' = [R EXCEPT !.time = Rank(R.time)]
        /\ resource' = [M EXCEPT !.time = Rank(M.time)]
        /\ copy' = [c \in Clients |-> [C[c] EXCEPT !.time = Rank(C[c].time)]]
    BY DEF Write, Resources
  <1> HIDE DEF Rank
  <1>3. ASSUME NEW r \in Resources, NEW t \in Nat
        PROVE  [r EXCEPT !.time = t] \in Resources /\ Same([r EXCEPT !.time = t], r)
    BY DEF Resources, Same
  <1>4. row' \in Resources /\ Same(row', R)
    BY <1>1, <1>2, <1>3
  <1>5. resource' \in Resources /\ Same(resource', M)
    BY <1>1, <1>2, <1>3
  <1>6. ASSUME NEW c \in Clients
        PROVE  copy'[c] \in Resources /\ Same(copy'[c], C[c])
    <2>1. copy'[c] = [C[c] EXCEPT !.time = Rank(C[c].time)] /\ C[c] \in Resources
      BY <1>2
    <2> QED
      BY <1>1, <1>3, <2>1
  <1>7. copy' \in [Clients -> Resources]
    BY <1>2, <1>6
  <1> QED
    BY <1>4, <1>5, <1>6, <1>7

(***************************************************************************)
(* The inductive invariant.                                                *)
(***************************************************************************)
Busy(c) == pc[c] \notin {"idle", "stopped"}

\* The stages in which a request of the main thread is under way, or may be.
Asking == {"create", "activate", "resave", "wait", "waitsave", "leave", "deactivate", "desave",
           "dewait", "dewaitsave"}

\* What a request holds while it is at a step.
Held(c) ==
  /\ Sound(copy[c])
  /\ Busy(c) => copy[c].state # "absent"
  /\ pc[c] = "activate"   => c = "block" /\ stage \in {"activate", "failed"}
  /\ pc[c] = "deactivate" => copy[c].state \in Deactivable
  /\ pc[c] = "update"     => copy[c].managed_by = "SERVER"
  /\ pc[c] \in {"merge", "lastmerge"} => "stalled" \in faults
  /\ c = "block" /\ Busy(c) => stage \in Asking \cup {"failed"}

\* The row is there once it was saved.
Exists ==
  linked \/ stage \in Stages \ {"create", "leave", "left", "failed"} => row.state # "absent"

\* An activation is still to come, or on its way.
MayActivate == stage \in {"create", "link", "activate"} \/ pc["block"] = "activate"

\* Then nobody has the name of a cluster, but the activation that just made it.
Unnamed ==
  MayActivate =>
    /\ ~ row.named /\ ~ resource.named
    /\ \A c \in Clients : copy[c].named =>
         c = "block" /\ stage = "activate" /\ pc[c] \in {"save", "merge"}

AllRight ==
  Right(cluster, row) /\ Right(cluster, resource) /\ \A c \in Clients : Right(cluster, copy[c])

Inv ==
  /\ TypeOK
  /\ Sound(row) /\ Sound(resource) /\ resource.state # "absent"
  /\ \A c \in Clients : Held(c)
  /\ Exists
  /\ None("reply") => Unnamed /\ AllRight

\* Who may write what to the row, in an answer to c or when its request raises.
Writable(c, R) ==
  /\ R \in Resources /\ Sound(R)
  /\ row.state # "absent" => R.state # "absent"
  /\ None("reply") => /\ MayActivate /\ R.named =>
                           c = "block" /\ stage = "activate" /\ pc[c] \in {"save", "merge"}

\* Nothing but time goes on, or a cluster is made when nobody else has its name.
ClusterFits(c) ==
  /\ cluster' \in Clusters
  /\ None("reply") => \/ cluster = "gone" => cluster' = "gone"
                      \/ /\ ~ row.named /\ ~ resource.named
                         /\ \A d \in Clients \ {c} : ~ copy[d].named

Faulty == faults' \subseteq FaultKinds /\ faults \subseteq faults'

\* What was so of a resource is so of the same one with another time.
LEMMA SameFacts ==
  ASSUME NEW r, NEW q, Same(q, r)
  PROVE  /\ Sound(r) => Sound(q)
         /\ q.named = r.named /\ q.state = r.state /\ q.managed_by = r.managed_by
         /\ \A kind : Right(kind, r) => Right(kind, q)
  BY DEF Same, Sound, Right

\* Forgetting what a request holds.
LEMMA ForgetFacts ==
  ASSUME TypeOK, NEW c \in Clients
  PROVE  /\ Forget(c) \in [Clients -> Resources]
         /\ Sound(Forget(c)[c]) /\ ~ Forget(c)[c].named
         /\ \A d \in Clients \ {c} : Forget(c)[d] = copy[d]
  <1>1. Absent \in Resources /\ Sound(Absent) /\ ~ Absent.named
    BY DEF Absent, NewResource, Resources, Sound, Unmanaged
  <1> QED
    BY <1>1 DEF Forget, TypeOK

\* Stages, and those after them.
LEMMA StageFacts ==
  ASSUME NEW state
  PROVE  /\ stage \in Asking => StagesAfter(state) \subseteq Stages \ {"create", "activate"}
         /\ stage \in Asking \ {"create"} => "link" \notin StagesAfter(state)
         /\ StageAfterError \in {"leave", "waitsave", "dewaitsave", "failed"}
         /\ StageAfterError = "waitsave" => stage = "wait"
         /\ StageAfterError = "dewaitsave" => stage = "dewait"
  <1>1. Ended(state) \in {"left", "failed"}
    BY DEF Ended
  <1> HIDE DEF Ended
  <1>2. stage \in Asking => StagesAfter(state) \subseteq Stages \ {"create", "activate"}
    BY <1>1 DEF Asking, StagesAfter, Stages
  <1>3. stage \in Asking \ {"create"} => "link" \notin StagesAfter(state)
    BY <1>1 DEF Asking, StagesAfter
  <1>4. /\ StageAfterError \in {"leave", "waitsave", "dewaitsave", "failed"}
        /\ StageAfterError = "waitsave" => stage = "wait"
        /\ StageAfterError = "dewaitsave" => stage = "dewait"
    BY DEF StageAfterError
  <1> QED
    BY <1>2, <1>3, <1>4

\* An answer leaves the invariant as it is.
LEMMA AnswerKeeps ==
  ASSUME Inv, NEW c \in Clients, NEW R, NEW A, Answer(c, R, A),
         Writable(c, R), R.state # "absent", None("reply") => Right(cluster, R),
         Writable(c, A), A.state # "absent", None("reply") => Right(cluster, A),
         c = "block" /\ Working => stage \in Asking,
         UNCHANGED <<cluster, outer>>, Faulty
  PROVE  Inv'
  <1> DEFINE C == Forget(c)
  <1>1. TypeOK
    BY DEF Inv
  <1>2. /\ C \in [Clients -> Resources] /\ Sound(C[c]) /\ ~ C[c].named
        /\ \A d \in Clients \ {c} : C[d] = copy[d]
    BY <1>1, ForgetFacts
  <1>3. pc' = [pc EXCEPT ![c] = "idle"] /\ entered' = entered
    BY DEF Answer, GoTo
  <1>4. PICK M \in Resources :
          /\ Write(R, M, C) /\ Sound(M) /\ M.state # "absent"
          /\ \/ /\ c = "block" /\ stage \in Asking /\ stage' \in StagesAfter(M.state)
                /\ M = resource \/ (M = A /\ stage \notin Keeps)
             \/ (c # "block" \/ ~ Working) /\ stage' = stage /\ M = resource
    <2>1. CASE c = "block" /\ Working
      <3>1. PICK mine \in {IF stage \in Keeps THEN resource ELSE A} :
              stage' \in StagesAfter(mine.state) /\ Write(R, mine, C)
        BY <2>1 DEF Answer
      <3>2. mine \in Resources /\ Sound(mine) /\ mine.state # "absent"
        BY <3>1, <1>1 DEF Inv, TypeOK, Writable
      <3> QED
        BY <2>1, <3>1, <3>2
    <2>2. CASE ~ (c = "block" /\ Working)
      BY <2>2, <1>1 DEF Answer, Inv, TypeOK
    <2> QED
      BY <2>1, <2>2
  <1> HIDE DEF C
  <1>5. /\ row' \in Resources /\ Same(row', R)
        /\ resource' \in Resources /\ Same(resource', M)
        /\ copy' \in [Clients -> Resources] /\ \A d \in Clients : Same(copy'[d], C[d])
    BY <1>2, <1>4, WriteFacts DEF Writable
  <1>6. /\ stage' \in Stages
        /\ stage' = stage \/ /\ stage' \notin {"create", "activate"}
                             /\ c = "block" /\ stage \in Asking
                             /\ stage' = "link" => stage = "create"
    BY <1>1, <1>4, StageFacts DEF TypeOK
  <1>7. Sound(row') /\ Sound(resource') /\ resource'.state # "absent" /\ row'.state # "absent"
    BY <1>4, <1>5, SameFacts DEF Writable
  <1>8. TypeOK'
    BY <1>1, <1>3, <1>5, <1>6, <1>7 DEF TypeOK, Sound, Unmanaged, Faulty, outer, Steps
  <1>9. ASSUME NEW d \in Clients
        PROVE  Held(d)'
    <2>1. CASE d = c
      <3>1. pc'[c] = "idle"
        BY <1>1, <1>3 DEF TypeOK
      <3>2. Sound(copy'[c])
        BY <1>2, <1>5, SameFacts
      <3> QED
        BY <2>1, <3>1, <3>2 DEF Held, Busy
    <2>2. CASE d # c
      <3>1. Held(d)
        BY DEF Inv
      <3>2. pc'[d] = pc[d] /\ Same(copy'[d], copy[d])
        BY <1>1, <1>2, <1>3, <1>5, <2>2 DEF TypeOK
      <3>3. d = "block" => stage' = stage
        BY <1>4, <2>2
      <3>4. Sound(copy'[d])
        BY <3>1, <3>2, SameFacts DEF Held
      <3> QED
        BY <3>1, <3>2, <3>3, <3>4, SameFacts DEF Held, Busy, Faulty
    <2> QED
      BY <2>1, <2>2
  <1>10. Exists'
    BY <1>7 DEF Exists
  <1>11. ASSUME None("reply")'
         PROVE  Unnamed' /\ AllRight'
    <2>1. None("reply") /\ Unnamed /\ AllRight
      BY <1>11 DEF None, Faulty, Inv
    <2>2. Right(cluster, row') /\ Right(cluster, resource')
      BY <1>4, <1>5, <2>1, SameFacts DEF AllRight
    <2>3. \A d \in Clients : Right(cluster, copy'[d])
      BY <1>2, <1>5, <2>1, SameFacts DEF AllRight, Right
    <2>4. ASSUME MayActivate'
          PROVE  /\ ~ row'.named /\ ~ resource'.named
                 /\ \A d \in Clients : copy'[d].named =>
                      d = "block" /\ stage' = "activate" /\ pc'[d] \in {"save", "merge"}
      <3>1. MayActivate
        BY <1>1, <1>3, <1>6, <2>4 DEF MayActivate, TypeOK
      <3>2. stage = "activate" => c # "block" \/ ~ Working
        <4>1. SUFFICES ASSUME stage = "activate", c = "block", Working
              PROVE  FALSE
          OBVIOUS
        <4>2. stage' # stage /\ pc'["block"] = "idle"
          BY <1>1, <1>3, <1>4, <1>6, <4>1, StageFacts DEF TypeOK, Asking
        <4> QED
          BY <1>6, <2>4, <4>1, <4>2 DEF MayActivate
      <3>3. ~ R.named /\ (A.named => M # A \/ M = resource)
        BY <2>1, <3>1, <3>2 DEF Writable, Working, Clients
      <3>4. ~ row'.named /\ ~ resource'.named
        BY <1>4, <1>5, <2>1, <3>1, <3>3, SameFacts DEF Unnamed
      <3>5. ASSUME NEW d \in Clients, copy'[d].named
            PROVE  d = "block" /\ stage' = "activate" /\ pc'[d] \in {"save", "merge"}
        <4>1. d # c /\ copy[d].named
          BY <1>2, <1>5, <3>5, SameFacts
        <4>2. d = "block" /\ stage = "activate" /\ pc[d] \in {"save", "merge"}
          BY <2>1, <3>1, <4>1 DEF Unnamed
        <4>3. pc'[d] = pc[d] /\ stage' = stage
          BY <1>1, <1>3, <1>4, <4>1, <4>2 DEF TypeOK
        <4> QED
          BY <4>2, <4>3
      <3> QED
        BY <3>4, <3>5
    <2> QED
      BY <2>2, <2>3, <2>4 DEF Unnamed, AllRight
  <1> QED
    BY <1>7, <1>8, <1>9, <1>10, <1>11 DEF Inv

\* Nothing that is right of the cluster is wrong later, for what has no name or when
\* the cluster is not made again.
LEMMA RightLater ==
  ASSUME NEW r, Right(cluster, r), (cluster = "gone" => cluster' = "gone") \/ ~ r.named
  PROVE  Right(cluster', r)
  BY DEF Right

\* Nor does an exception break it, whatever the plug-in has done to the cluster.
LEMMA RaiseKeeps ==
  ASSUME Inv, NEW c \in Clients, NEW R \in Resources, Raise(c, R), Sound(R),
         row.state # "absent" => R.state # "absent",
         R = row \/ ~ None("reply")',
         ClusterFits(c), UNCHANGED outer, Faulty
  PROVE  Inv'
  <1> DEFINE C == Forget(c)
  <1>1. TypeOK
    BY DEF Inv
  <1>2. /\ C \in [Clients -> Resources] /\ Sound(C[c]) /\ ~ C[c].named
        /\ \A d \in Clients \ {c} : C[d] = copy[d]
    BY <1>1, ForgetFacts
  <1>3. Write(R, resource, C) /\ entered' = entered
    BY DEF Raise
  <1>4. pc' = [pc EXCEPT ![c] = "idle"] \/ pc' = [pc EXCEPT ![c] = "stopped"]
    BY DEF Raise, GoTo
  <1>5. stage' = stage \/ (c = "block" /\ stage' = StageAfterError)
    BY DEF Raise
  <1> HIDE DEF C
  <1>6. /\ row' \in Resources /\ Same(row', R)
        /\ resource' \in Resources /\ Same(resource', resource)
        /\ copy' \in [Clients -> Resources] /\ \A d \in Clients : Same(copy'[d], C[d])
    BY <1>1, <1>2, <1>3, WriteFacts DEF TypeOK
  <1>7. /\ Sound(row') /\ Sound(resource') /\ resource'.state # "absent"
        /\ row.state # "absent" => row'.state # "absent"
    BY <1>6, SameFacts DEF Inv
  <1>8. stage' \in Stages /\ (stage' # stage => stage' \notin {"create", "link", "activate"})
    BY <1>1, <1>5, StageFacts DEF TypeOK, Stages
  <1>9. TypeOK'
    BY <1>1, <1>3, <1>4, <1>6, <1>7, <1>8
       DEF TypeOK, Sound, Unmanaged, Faulty, ClusterFits, outer, Steps
  <1>10. ASSUME NEW d \in Clients
         PROVE  Held(d)'
    <2>1. CASE d = c
      <3>1. pc'[c] \in {"idle", "stopped"}
        BY <1>1, <1>4 DEF TypeOK
      <3>2. Sound(copy'[c])
        BY <1>2, <1>6, SameFacts
      <3> QED
        BY <2>1, <3>1, <3>2 DEF Held, Busy
    <2>2. CASE d # c
      <3>1. Held(d)
        BY DEF Inv
      <3>2. pc'[d] = pc[d] /\ Same(copy'[d], copy[d])
        BY <1>1, <1>2, <1>4, <1>6, <2>2 DEF TypeOK
      <3>3. d = "block" => stage' = stage
        BY <1>5, <2>2
      <3>4. Sound(copy'[d])
        BY <3>1, <3>2, SameFacts DEF Held
      <3> QED
        BY <3>1, <3>2, <3>3, <3>4, SameFacts DEF Held, Busy, Faulty
    <2> QED
      BY <2>1, <2>2
  <1>11. Exists'
    <2>1. stage' \in Stages \ {"create", "leave", "left", "failed"} =>
            stage \in Stages \ {"create", "leave", "left", "failed"}
      BY <1>1, <1>5, StageFacts DEF TypeOK, Stages
    <2> QED
      BY <1>7, <2>1 DEF Inv, Exists, outer
  <1>12. ASSUME None("reply")'
         PROVE  Unnamed' /\ AllRight'
    <2>1. None("reply") /\ Unnamed /\ AllRight /\ R = row
      BY <1>12 DEF None, Faulty, Inv
    <2>2. Right(cluster', row) /\ Right(cluster', resource)
      BY <2>1, RightLater DEF AllRight, ClusterFits
    <2>3. ASSUME NEW d \in Clients
          PROVE  Right(cluster', C[d])
      BY <1>2, <2>1, RightLater DEF AllRight, ClusterFits, Right
    <2>4. AllRight'
      BY <1>6, <2>1, <2>2, <2>3, SameFacts DEF AllRight
    <2>5. ASSUME MayActivate'
          PROVE  /\ ~ row'.named /\ ~ resource'.named
                 /\ \A d \in Clients : copy'[d].named =>
                      d = "block" /\ stage' = "activate" /\ pc'[d] \in {"save", "merge"}
      <3>1. MayActivate
        BY <1>1, <1>4, <1>8, <2>5 DEF MayActivate, TypeOK, Clients
      <3>2. ~ row'.named /\ ~ resource'.named
        BY <1>6, <2>1, <3>1, SameFacts DEF Unnamed
      <3>3. ASSUME NEW d \in Clients, copy'[d].named
            PROVE  d = "block" /\ stage' = "activate" /\ pc'[d] \in {"save", "merge"}
        <4>1. d # c /\ copy[d].named
          BY <1>2, <1>6, <3>3, SameFacts
        <4>2. d = "block" /\ stage = "activate" /\ pc[d] \in {"save", "merge"}
          BY <2>1, <3>1, <4>1 DEF Unnamed
        <4> QED
          BY <1>1, <1>4, <1>5, <4>1, <4>2 DEF TypeOK
      <3> QED
        BY <3>2, <3>3
    <2> QED
      BY <2>4, <2>5 DEF Unnamed
  <1> QED
    BY <1>7, <1>9, <1>10, <1>11, <1>12 DEF Inv

\* A request that goes on, with the row and the main thread as they were, keeps the
\* invariant when what it holds may be held at the step it goes to.
LEMMA StepKeeps ==
  ASSUME Inv, NEW c \in Clients, NEW r \in Resources, NEW step \in Steps,
         Same(row', row), row' \in Resources, Same(resource', resource), resource' \in Resources,
         copy' \in [Clients -> Resources], Same(copy'[c], r),
         \A d \in Clients \ {c} : Same(copy'[d], copy[d]),
         pc' = [pc EXCEPT ![c] = step], UNCHANGED <<outer, stage, entered>>,
         Sound(r), r.state # "absent",
         step = "activate" => c = "block" /\ stage = "activate",
         step = "deactivate" => r.state \in Deactivable,
         step = "update" => r.managed_by = "SERVER",
         step \in {"merge", "lastmerge"} => "stalled" \in faults',
         c = "block" => stage \in Asking \cup {"failed"},
         None("reply") =>
           /\ Right(cluster', r)
           /\ MayActivate' /\ r.named => c = "block" /\ stage = "activate" /\ step \in {"save", "merge"},
         ClusterFits(c), Faulty
  PROVE  Inv'
  <1>1. TypeOK
    BY DEF Inv
  <1>2. /\ Sound(row') /\ Sound(resource') /\ resource'.state # "absent"
        /\ row.state # "absent" => row'.state # "absent"
    BY SameFacts DEF Inv
  <1>3. TypeOK'
    BY <1>1, <1>2 DEF TypeOK, Sound, Unmanaged, Faulty, ClusterFits, outer
  <1>4. ASSUME NEW d \in Clients
        PROVE  Held(d)'
    <2>1. CASE d = c
      <3>1. pc'[c] = step
        BY <1>1 DEF TypeOK
      <3>2. Sound(copy'[c])
        BY SameFacts
      <3> QED
        BY <2>1, <3>1, <3>2, SameFacts DEF Held
    <2>2. CASE d # c
      <3>1. Held(d)
        BY DEF Inv
      <3>2. pc'[d] = pc[d] /\ Same(copy'[d], copy[d])
        BY <1>1, <2>2 DEF TypeOK
      <3>3. Sound(copy'[d])
        BY <3>1, <3>2, SameFacts DEF Held
      <3> QED
        BY <3>1, <3>2, <3>3, SameFacts DEF Held, Busy, Faulty
    <2> QED
      BY <2>1, <2>2
  <1>5. Exists'
    BY <1>2 DEF Inv, Exists, outer
  <1>6. ASSUME None("reply")'
        PROVE  Unnamed' /\ AllRight'
    <2>1. None("reply") /\ Unnamed /\ AllRight
      BY <1>6 DEF None, Faulty, Inv
    <2>2. Right(cluster', row) /\ Right(cluster', resource)
      BY <2>1, RightLater DEF AllRight, ClusterFits
    <2>3. ASSUME NEW d \in Clients
          PROVE  Right(cluster', copy'[d])
      <3>1. CASE d = c
        BY <2>1, <3>1, SameFacts
      <3>2. CASE d # c
        <4>1. Right(cluster', copy[d])
          BY <2>1, <3>2, RightLater DEF AllRight, ClusterFits
        <4> QED
          BY <3>2, <4>1, SameFacts
      <3> QED
        BY <3>1, <3>2
    <2>4. AllRight'
      BY <2>2, <2>3, SameFacts DEF AllRight
    <2>5. ASSUME MayActivate'
          PROVE  /\ ~ row'.named /\ ~ resource'.named
                 /\ \A d \in Clients : copy'[d].named =>
                      d = "block" /\ stage' = "activate" /\ pc'[d] \in {"save", "merge"}
      <3>1. MayActivate
        BY <1>1, <2>5 DEF MayActivate, TypeOK, Clients
      <3>2. ~ row'.named /\ ~ resource'.named
        BY <2>1, <3>1, SameFacts DEF Unnamed
      <3>3. ASSUME NEW d \in Clients, copy'[d].named
            PROVE  d = "block" /\ stage' = "activate" /\ pc'[d] \in {"save", "merge"}
        <4>1. CASE d = c
          BY <1>1, <2>1, <2>5, <3>3, <4>1, SameFacts DEF TypeOK
        <4>2. CASE d # c
          <5>1. copy[d].named
            BY <3>3, <4>2, SameFacts
          <5>2. d = "block" /\ stage = "activate" /\ pc[d] \in {"save", "merge"}
            BY <2>1, <3>1, <5>1 DEF Unnamed
          <5> QED
            BY <1>1, <4>2, <5>2 DEF TypeOK
        <4> QED
          BY <4>1, <4>2
      <3> QED
        BY <3>2, <3>3
    <2> QED
      BY <2>4, <2>5 DEF Unnamed
  <1> QED
    BY <1>2, <1>3, <1>4, <1>5, <1>6 DEF Inv

(***************************************************************************)
(* The steps.                                                              *)
(***************************************************************************)

\* A resource is the same as itself, and may be written back as it was read.
LEMMA RowFacts ==
  ASSUME Inv, NEW c \in Clients
  PROVE  /\ Same(row, row) /\ Same(resource, resource) /\ \A d \in Clients : Same(copy[d], copy[d])
         /\ row \in Resources /\ resource \in Resources /\ copy \in [Clients -> Resources]
         /\ Writable(c, row) /\ (None("reply") => Right(cluster, row))
  BY DEF Same, Inv, TypeOK, Writable, Unnamed, AllRight

\* A request that does nothing but read.
LEMMA ReadKeeps ==
  ASSUME Inv, NEW c \in Clients, NEW step \in Steps, Read(c, step), ~ Busy(c), row.state # "absent",
         step = "activate" => c = "block" /\ stage = "activate",
         step = "deactivate" => row.state \in Deactivable,
         step = "update" => row.managed_by = "SERVER",
         step \notin {"merge", "lastmerge"},
         c = "block" => stage \in Asking
  PROVE  Inv'
  <1>1. TypeOK
    BY DEF Inv
  <1>2. /\ pc' = [pc EXCEPT ![c] = step] /\ copy' = [copy EXCEPT ![c] = row]
        /\ UNCHANGED <<cluster, row, linked, pipeline, stage, entered, resource, faults>>
    BY DEF Read, GoTo, outer, worker
  <1>3. Same(row', row) /\ Same(resource', resource) /\ Same(copy'[c], row)
    BY <1>1, <1>2 DEF Same, TypeOK
  <1>4. copy' \in [Clients -> Resources] /\ \A d \in Clients \ {c} : Same(copy'[d], copy[d])
    BY <1>1, <1>2 DEF Same, TypeOK
  <1>5. step = "activate" => MayActivate
    BY DEF MayActivate
  <1>6. MayActivate' => MayActivate
    BY <1>1, <1>2, <1>5 DEF MayActivate, TypeOK, Clients
  <1>7. ClusterFits(c) /\ Faulty
    BY <1>1, <1>2 DEF ClusterFits, Faulty, TypeOK
  <1>8. None("reply") => Right(cluster', row) /\ (MayActivate' /\ row.named => FALSE)
    BY <1>2, <1>6 DEF Inv, AllRight, Unnamed
  <1>9. row \in Resources /\ Sound(row) /\ row' \in Resources /\ resource' \in Resources
    BY <1>1, <1>2 DEF Inv, TypeOK
  <1>10. UNCHANGED <<outer, stage, entered>>
    BY <1>2 DEF outer
  <1> QED
    BY <1>2, <1>3, <1>4, <1>7, <1>8, <1>9, <1>10, StepKeeps

\* An answer that is the row itself.
LEMMA AnswerRowKeeps ==
  ASSUME Inv, NEW c \in Clients, AnswerRow(c), row.state # "absent",
         c = "block" => stage \in Asking
  PROVE  Inv'
  <1>1. Answer(c, row, row) /\ UNCHANGED <<cluster, outer>> /\ Faulty
    BY DEF AnswerRow, Faulty, Inv, TypeOK
  <1> QED
    BY <1>1, RowFacts, AnswerKeeps DEF Writable

\* A request that raises before it has done anything.
LEMMA RaiseRowKeeps ==
  ASSUME Inv, NEW c \in Clients, Raise(c, row), UNCHANGED <<cluster, outer>>, Faulty
  PROVE  Inv'
  <1>1. ClusterFits(c)
    BY DEF ClusterFits, Inv, TypeOK
  <1> QED
    BY <1>1, RaiseKeeps, RowFacts DEF Inv

\* get_resource_endpoint
LEMMA GetKeeps ==
  ASSUME Inv, NEW c \in Clients, Get(c), ~ Busy(c), c = "block" => stage \in Asking
  PROVE  Inv'
  <1>1. CASE NoRow(c)
    BY <1>1, RaiseRowKeeps DEF NoRow, Faulty, Inv, TypeOK
  <1>2. CASE row.state # "absent" /\ AnswerRow(c)
    BY <1>2, AnswerRowKeeps
  <1>3. CASE row.state # "absent" /\ row.managed_by = "SERVER" /\ Read(c, "update")
    BY <1>3, ReadKeeps DEF Steps
  <1> QED
    BY <1>1, <1>2, <1>3 DEF Get

\* What may be deactivated, when it is not terminal.
LEMMA DeactivableFact ==
  ASSUME Inv, row.state # "absent"
  PROVE  ~ IsTerminal(row.state) => row.state \in Deactivable
  BY StatesFact DEF Inv, TypeOK, Resources, States, Deactivable

\* deactivate_resource_endpoint
LEMMA DeactivateRequestKeeps ==
  ASSUME Inv, NEW c \in Clients, DeactivateRequest(c), ~ Busy(c), row.state # "absent",
         c = "block" => stage \in Asking
  PROVE  Inv'
  <1>1. CASE AnswerRow(c)
    BY <1>1, AnswerRowKeeps
  <1>2. CASE ~ IsTerminal(row.state) /\ Read(c, "deactivate")
    BY <1>2, DeactivableFact, ReadKeeps DEF Steps
  <1> QED
    BY <1>1, <1>2 DEF DeactivateRequest

\* save_resource_endpoint
LEMMA SaveRequestKeeps ==
  ASSUME Inv, SaveRequest("block"), ~ Busy("block"), stage \in Keeps
  PROVE  Inv'
  <1> DEFINE c == "block"
  <1>1. TypeOK /\ c \in Clients
    BY DEF Inv, Clients
  <1>2. /\ pc' = [pc EXCEPT ![c] = "save"] /\ copy' = [copy EXCEPT ![c] = resource]
        /\ UNCHANGED <<cluster, row, linked, pipeline, stage, entered, resource, faults>>
    BY DEF SaveRequest, GoTo, outer, worker
  <1>3. Same(row', row) /\ Same(resource', resource) /\ Same(copy'[c], resource)
    BY <1>1, <1>2 DEF Same, TypeOK
  <1>4. copy' \in [Clients -> Resources] /\ \A d \in Clients \ {c} : Same(copy'[d], copy[d])
    BY <1>1, <1>2 DEF Same, TypeOK
  <1>5. MayActivate' => MayActivate
    BY <1>1, <1>2 DEF MayActivate, TypeOK, Clients
  <1>6. ClusterFits(c) /\ Faulty
    BY <1>1, <1>2 DEF ClusterFits, Faulty, TypeOK
  <1>7. None("reply") => Right(cluster', resource) /\ (MayActivate' /\ resource.named => FALSE)
    BY <1>2, <1>5 DEF Inv, AllRight, Unnamed
  <1>8. /\ resource \in Resources /\ Sound(resource) /\ resource.state # "absent"
        /\ row' \in Resources /\ resource' \in Resources /\ "save" \in Steps
    BY <1>1, <1>2 DEF Inv, TypeOK, Steps
  <1>9. UNCHANGED <<outer, stage, entered>> /\ stage \in Asking
    BY <1>2 DEF outer, Keeps, Asking
  <1> HIDE DEF c
  <1>10. c = "block"
    BY DEF c
  <1> QED
    BY <1>1, <1>2, <1>3, <1>4, <1>6, <1>7, <1>8, <1>9, <1>10, StepKeeps

\* A client begins a request.
LEMMA BeginKeeps ==
  ASSUME Inv, NEW c \in Clients, Begin(c)
  PROVE  Inv'
  <1>1. ~ Busy(c) /\ TypeOK
    BY DEF Begin, At, Busy, Inv
  <1>2. CASE c = "block" /\ BlockRequest
    <2>1. CASE stage \in Keeps /\ SaveRequest("block")
      BY <1>1, <1>2, <2>1, SaveRequestKeeps
    <2>2. CASE stage = "activate" /\ Read("block", "activate")
      <3>1. row.state # "absent" /\ stage \in Asking
        BY <2>2 DEF Inv, Exists, Stages, Asking
      <3> QED
        BY <1>1, <1>2, <2>2, <3>1, ReadKeeps DEF Steps
    <2>3. CASE stage \in {"wait", "leave", "dewait"} /\ Get("block")
      <3>1. stage \in Asking
        BY <2>3 DEF Asking
      <3> QED
        BY <1>1, <1>2, <2>3, <3>1, GetKeeps
    <2>4. CASE stage = "deactivate" /\ DeactivateRequest("block")
      <3>1. row.state # "absent" /\ stage \in Asking
        BY <2>4 DEF Inv, Exists, Stages, Asking
      <3> QED
        BY <1>1, <1>2, <2>4, <3>1, DeactivateRequestKeeps
    <2> QED
      BY <1>2, <2>1, <2>2, <2>3, <2>4 DEF BlockRequest
  <1>3. CASE c = "poll" /\ PollRequest
    BY <1>1, <1>3, GetKeeps DEF PollRequest
  <1>4. CASE c = "server" /\ RunnerRequest
    <2>1. row.state # "absent"
      BY <1>4 DEF RunnerRequest, Inv, Exists
    <2> QED
      BY <1>1, <1>4, <2>1, DeactivateRequestKeeps DEF RunnerRequest
  <1>5. CASE c = "server" /\ CleanRequest
    <2>1. row.state # "absent" /\ ~ IsTerminal(row.state)
      BY <1>5 DEF CleanRequest, Orphaned, Inv, Exists
    <2>2. row.state \in Deactivable
      BY <2>1, DeactivableFact
    <2>3. CASE Read("server", "await")
      BY <1>1, <1>5, <2>1, <2>3, ReadKeeps DEF Steps
    <2>4. CASE Read("server", "deactivate")
      BY <1>1, <1>5, <2>1, <2>2, <2>4, ReadKeeps DEF Steps
    <2> QED
      BY <1>5, <2>3, <2>4 DEF CleanRequest
  <1> QED
    BY <1>2, <1>3, <1>4, <1>5 DEF Begin

\* Only the cleaner's exceptions are kept for later.
LEMMA FailsKeeps ==
  ASSUME Inv, NEW c \in Clients, Busy(c), Fails(c), ClusterFits(c), UNCHANGED outer, Faulty,
         c = "server" /\ cluster = "gone" => cluster' = "gone"
  PROVE  Inv'
  <1>1. CASE Raise(c, row)
    BY <1>1, RaiseKeeps, RowFacts DEF Inv
  <1>2. CASE c = "server" /\ GoTo(c, "raised") /\ UNCHANGED <<row, worker, copy>>
    <2>1. /\ Same(row', row) /\ Same(resource', resource) /\ Same(copy'[c], copy[c])
          /\ \A d \in Clients \ {c} : Same(copy'[d], copy[d])
          /\ row' \in Resources /\ resource' \in Resources /\ copy' \in [Clients -> Resources]
      BY <1>2, RowFacts DEF worker
    <2>2. pc' = [pc EXCEPT ![c] = "raised"] /\ UNCHANGED <<outer, stage, entered>>
      BY <1>2 DEF GoTo, worker
    <2>3. copy[c] \in Resources /\ Sound(copy[c]) /\ copy[c].state # "absent"
      BY DEF Inv, Held, TypeOK
    <2>4. MayActivate' => MayActivate
      BY <1>2, <2>2 DEF MayActivate, Inv, TypeOK, Clients
    <2>5. None("reply") => /\ Right(cluster', copy[c])
                           /\ MayActivate' /\ copy[c].named => FALSE
      BY <1>2, <2>4 DEF Inv, AllRight, Unnamed, Right
    <2> QED
      BY <1>2, <2>1, <2>2, <2>3, <2>5, StepKeeps DEF Steps
  <1> QED
    BY <1>1, <1>2 DEF Fails

\* A call of the plug-in that makes no cluster.
LEMMA QuietKeeps ==
  ASSUME Inv, NEW c \in Clients, NEW tried, NEW legal \in BOOLEAN, NEW step \in {"save", "last"},
         Quiet(cluster, copy[c], tried), Outcome(c, tried, legal, step), Faulty,
         pc[c] \in {"deactivate", "update", "await"}
  PROVE  Inv'
  <1> DEFINE C == [copy EXCEPT ![c] = tried.resource]
  <1>1. TypeOK /\ Busy(c) /\ Held(c)
    BY DEF Inv, Busy
  <1>2. /\ cluster' = tried.cluster /\ cluster' \in Clusters /\ (cluster = "gone" => cluster' = "gone")
        /\ tried.resource \in Resources /\ UNCHANGED outer
    BY DEF Outcome, Quiet
  <1>3. ClusterFits(c)
    BY <1>2 DEF ClusterFits
  <1>4. CASE Fails(c)
    BY <1>1, <1>2, <1>3, <1>4, FailsKeeps
  <1>5. CASE Write(row, resource, C) /\ GoTo(c, step) /\ UNCHANGED <<stage, entered>>
    <2>1. C \in [Clients -> Resources] /\ C[c] = tried.resource /\ \A d \in Clients \ {c} : C[d] = copy[d]
      BY <1>1, <1>2 DEF TypeOK
    <2> HIDE DEF C
    <2>2. /\ row' \in Resources /\ Same(row', row) /\ resource' \in Resources /\ Same(resource', resource)
          /\ copy' \in [Clients -> Resources] /\ Same(copy'[c], tried.resource)
          /\ \A d \in Clients \ {c} : Same(copy'[d], copy[d])
      BY <1>1, <1>5, <2>1, WriteFacts DEF TypeOK
    <2>3. pc' = [pc EXCEPT ![c] = step] /\ UNCHANGED <<outer, stage, entered>>
      BY <1>2, <1>5 DEF GoTo
    <2>4. MayActivate' => MayActivate
      BY <1>1, <2>3 DEF MayActivate, TypeOK, Clients
    <2>5. None("reply") => /\ Right(cluster', tried.resource)
                           /\ MayActivate' /\ tried.resource.named => FALSE
      BY <1>2, <2>4 DEF Inv, AllRight, Unnamed, Quiet
    <2> QED
      BY <1>1, <1>2, <1>3, <2>2, <2>3, <2>5, StepKeeps DEF Quiet, Steps, Held
  <1> QED
    BY <1>4, <1>5 DEF Outcome

\* What a busy request holds, and what it may write.
LEMMA CopyFacts ==
  ASSUME Inv, NEW c \in Clients, Busy(c)
  PROVE  /\ copy[c] \in Resources /\ Sound(copy[c]) /\ copy[c].state # "absent"
         /\ copy[c].named => copy[c].managed_by = "SERVER"
         /\ cluster \in Clusters
         /\ Writable(c, copy[c]) /\ (None("reply") => Right(cluster, copy[c]))
         /\ c = "block" => stage \in Asking \cup {"failed"}
         /\ c = "block" /\ Working => stage \in Asking
  <1>1. TypeOK /\ Held(c) /\ (None("reply") => Unnamed /\ AllRight)
    BY DEF Inv
  <1>2. copy[c] \in Resources /\ Sound(copy[c]) /\ copy[c].state # "absent" /\ cluster \in Clusters
    BY <1>1 DEF TypeOK, Held
  <1>3. copy[c].named => copy[c].managed_by = "SERVER"
    BY <1>2 DEF Sound, Resources
  <1>4. Writable(c, copy[c]) /\ (None("reply") => Right(cluster, copy[c]))
    BY <1>1, <1>2 DEF Writable, Unnamed, AllRight
  <1>5. c = "block" => stage \in Asking \cup {"failed"}
    BY <1>1 DEF Held
  <1> QED
    BY <1>2, <1>3, <1>4, <1>5 DEF Working

\* A fault is one of the kinds, and is not forgotten.
LEMMA FaultFact ==
  ASSUME Inv, NEW kind \in FaultKinds, Fault(kind)
  PROVE  Faulty /\ kind \in faults'
  BY DEF Fault, Faulty, Inv, TypeOK

\* A request of update, or a wait for the deactivation to end.
LEMMA UpdatesKeep ==
  ASSUME Inv, NEW c \in Clients, NEW step \in {"save", "last"}, Updates(c, step),
         pc[c] \in {"update", "await"}
  PROVE  Inv'
  <1> DEFINE tried == DoUpdate(cluster, copy[c], Now)
             missed == DeletionFails(cluster, copy[c], Now)
  <1>1. Busy(c)
    BY DEF Busy
  <1>2. Quiet(cluster, copy[c], tried)
    BY <1>1, CopyFacts, NowType, DoUpdateFacts
  <1>3. copy[c].named => Quiet(cluster, copy[c], missed)
    BY <1>1, CopyFacts, NowType, DeletionFailsFacts
  <1>4. Updates(c, step) <=>
          \/ UpdateOutcome(c, tried, step) /\ UNCHANGED faults
          \/ Deletes(c, tried) /\ UpdateOutcome(c, missed, step)
    BY DEF Updates
  <1> HIDE DEF tried, missed
  <1>5. \A t : ValidTransition(copy[c], t.resource) \in BOOLEAN
    BY DEF ValidTransition
  <1>6. CASE UpdateOutcome(c, tried, step) /\ UNCHANGED faults
    <2>1. Faulty
      BY <1>6 DEF Faulty, Inv, TypeOK
    <2> QED
      BY <1>2, <1>5, <1>6, <2>1, QuietKeeps DEF UpdateOutcome
  <1>7. CASE Deletes(c, tried) /\ UpdateOutcome(c, missed, step)
    <2>1. Faulty /\ Quiet(cluster, copy[c], missed)
      BY <1>3, <1>7, FaultFact DEF Deletes, FaultKinds
    <2> QED
      BY <1>5, <1>7, <2>1, QuietKeeps DEF UpdateOutcome
  <1> QED
    BY <1>4, <1>6, <1>7

\* A request to deactivate.
LEMMA DeactivateKeeps ==
  ASSUME Inv, NEW c \in Clients, Deactivate(c)
  PROVE  Inv'
  <1> DEFINE tried == DoDeactivate(cluster, copy[c], Now)
             missed == DeletionFails(cluster, copy[c], Now)
  <1>1. pc[c] = "deactivate" /\ Busy(c) /\ copy[c].state \in Deactivable
    BY DEF Deactivate, At, Busy, Inv, Held
  <1>2. Quiet(cluster, copy[c], tried)
    BY <1>1, CopyFacts, NowType, DoDeactivateFacts
  <1>3. copy[c].named => Quiet(cluster, copy[c], missed)
    BY <1>1, CopyFacts, NowType, DeletionFailsFacts
  <1>4. \/ DeactivateOutcome(c, tried) /\ UNCHANGED faults
        \/ Deletes(c, tried) /\ DeactivateOutcome(c, missed)
    BY DEF Deactivate
  <1> HIDE DEF tried, missed
  <1>5. \A t : Deactivated(copy[c], t.resource) \in BOOLEAN
    BY DEF Deactivated
  <1>6. CASE DeactivateOutcome(c, tried) /\ UNCHANGED faults
    <2>1. Faulty
      BY <1>6 DEF Faulty, Inv, TypeOK
    <2> QED
      BY <1>1, <1>2, <1>5, <1>6, <2>1, QuietKeeps DEF DeactivateOutcome
  <1>7. CASE Deletes(c, tried) /\ DeactivateOutcome(c, missed)
    <2>1. Faulty /\ Quiet(cluster, copy[c], missed)
      BY <1>3, <1>7, FaultFact DEF Deletes, FaultKinds
    <2> QED
      BY <1>1, <1>5, <1>7, <2>1, QuietKeeps DEF DeactivateOutcome
  <1> QED
    BY <1>4, <1>6, <1>7

\* An outcome of activate, which may make a cluster: then nobody else has its name.
LEMMA MadeKeeps ==
  ASSUME Inv, NEW c \in Clients, NEW tried, NEW legal \in BOOLEAN, pc[c] = "activate",
         Made(copy[c], tried), Outcome(c, tried, legal, "save"), Faulty
  PROVE  Inv'
  <1> DEFINE C == [copy EXCEPT ![c] = tried.resource]
  <1>1. TypeOK /\ Busy(c) /\ c = "block" /\ stage \in {"activate", "failed"}
    BY DEF Inv, Busy, Held
  <1>2. cluster' = tried.cluster /\ cluster' \in Clusters /\ tried.resource \in Resources
        /\ UNCHANGED outer
    BY DEF Outcome, Made
  <1>3. None("reply") => /\ ~ row.named /\ ~ resource.named
                         /\ \A d \in Clients : ~ copy[d].named
    BY <1>1 DEF Inv, Unnamed, MayActivate
  <1>4. ClusterFits(c)
    BY <1>2, <1>3 DEF ClusterFits
  <1>5. CASE Fails(c)
    BY <1>1, <1>2, <1>4, <1>5, FailsKeeps
  <1>6. CASE Write(row, resource, C) /\ GoTo(c, "save") /\ UNCHANGED <<stage, entered>>
    <2>1. C \in [Clients -> Resources] /\ C[c] = tried.resource /\ \A d \in Clients \ {c} : C[d] = copy[d]
      BY <1>1, <1>2 DEF TypeOK
    <2> HIDE DEF C
    <2>2. /\ row' \in Resources /\ Same(row', row) /\ resource' \in Resources /\ Same(resource', resource)
          /\ copy' \in [Clients -> Resources] /\ Same(copy'[c], tried.resource)
          /\ \A d \in Clients \ {c} : Same(copy'[d], copy[d])
      BY <1>1, <1>6, <2>1, WriteFacts DEF TypeOK
    <2>3. pc' = [pc EXCEPT ![c] = "save"] /\ UNCHANGED <<outer, stage, entered>>
      BY <1>2, <1>6 DEF GoTo
    <2>4. MayActivate' => stage = "activate"
      BY <1>1, <2>3 DEF MayActivate, TypeOK
    <2>5. None("reply") => /\ Right(cluster', tried.resource)
                           /\ MayActivate' => stage = "activate"
      BY <1>3, <2>4 DEF Made, Right
    <2>6. stage \in Asking \cup {"failed"} /\ "save" \in Steps
      BY <1>1 DEF Asking, Steps
    <2>7. /\ tried.resource \in Resources /\ Sound(tried.resource)
          /\ tried.resource.state # "absent"
      BY DEF Made
    <2> QED
      BY <1>1, <1>2, <1>4, <2>2, <2>3, <2>5, <2>6, <2>7, StepKeeps
  <1> QED
    BY <1>5, <1>6 DEF Outcome

\* A request to activate.
LEMMA ActivateKeeps ==
  ASSUME Inv, NEW c \in Clients, Activate(c)
  PROVE  Inv'
  <1>1. pc[c] = "activate" /\ Busy(c)
    BY DEF Activate, At, Busy
  <1>2. /\ Made(copy[c], DoActivate(cluster, copy[c], Now))
        /\ Made(copy[c], CannotActivate(cluster, copy[c], Now))
        /\ Made(copy[c], CreateFails(cluster, copy[c], Now))
    BY <1>1, CopyFacts, NowType, ActivateFacts
  <1>3. PICK tried : Made(copy[c], tried) /\ ActivateOutcome(c, tried) /\ Faulty
    <2>1. CASE UNCHANGED faults /\ ActivateOutcome(c, DoActivate(cluster, copy[c], Now))
      BY <1>2, <2>1 DEF Faulty, Inv, TypeOK
    <2>2. CASE ActivateOutcome(c, CannotActivate(cluster, copy[c], Now)) /\ Fault("setup")
      BY <1>2, <2>2, FaultFact DEF FaultKinds
    <2>3. CASE ActivateOutcome(c, CreateFails(cluster, copy[c], Now)) /\ Fault("create")
      BY <1>2, <2>3, FaultFact DEF FaultKinds
    <2> QED
      BY <2>1, <2>2, <2>3 DEF Activate
  <1>4. Activated(copy[c], tried.resource) \in BOOLEAN
    BY DEF Activated
  <1> QED
    BY <1>1, <1>3, <1>4, MadeKeeps DEF ActivateOutcome

\* A request goes on with what it holds.
LEMMA GoesOnKeeps ==
  ASSUME Inv, NEW c \in Clients, NEW step \in {"await", "merge", "lastmerge"}, Busy(c),
         GoTo(c, step), UNCHANGED <<cluster, row, outer, worker, copy>>, Faulty,
         step = "merge" \/ pc[c] = "last",
         step \in {"merge", "lastmerge"} => "stalled" \in faults'
  PROVE  Inv'
  <1>1. TypeOK /\ pc' = [pc EXCEPT ![c] = step] /\ UNCHANGED <<cluster, outer, stage, entered>>
    BY DEF Inv, GoTo, worker
  <1>2. /\ row' \in Resources /\ Same(row', row) /\ resource' \in Resources /\ Same(resource', resource)
        /\ copy' \in [Clients -> Resources] /\ \A d \in Clients : Same(copy'[d], copy[d])
    BY RowFacts DEF worker
  <1>3. ClusterFits(c)
    BY <1>1 DEF ClusterFits, TypeOK
  <1>4. MayActivate' => MayActivate
    BY <1>1 DEF MayActivate, TypeOK, Clients
  <1>5. None("reply") =>
          /\ Right(cluster', copy[c])
          /\ MayActivate' /\ copy[c].named =>
               c = "block" /\ stage = "activate" /\ pc[c] \in {"save", "merge"}
    BY <1>1, <1>4, CopyFacts DEF Writable
  <1>6. step \in Steps /\ step \notin {"activate", "deactivate", "update"}
    BY DEF Steps
  <1>7. None("reply") =>
          /\ Right(cluster', copy[c])
          /\ MayActivate' /\ copy[c].named =>
               c = "block" /\ stage = "activate" /\ step \in {"save", "merge"}
    BY <1>5
  <1> QED
    BY <1>1, <1>2, <1>3, <1>6, <1>7, CopyFacts, StepKeeps

\* The row becomes what the cleaner holds, and the cleaner goes on.
LEMMA CleanedKeeps ==
  ASSUME Inv, Busy("server"), Write(copy["server"], resource, copy), GoTo("server", "await"),
         UNCHANGED <<cluster, outer, stage, entered>>, Faulty
  PROVE  Inv'
  <1>1. TypeOK /\ "server" \in Clients
    BY DEF Inv, Clients
  <1>2. /\ copy["server"] \in Resources /\ Sound(copy["server"]) /\ copy["server"].state # "absent"
        /\ None("reply") => Right(cluster, copy["server"])
        /\ None("reply") /\ MayActivate => ~ copy["server"].named
    BY <1>1, CopyFacts DEF Writable
  <1>3. /\ row' \in Resources /\ Same(row', copy["server"])
        /\ resource' \in Resources /\ Same(resource', resource)
        /\ copy' \in [Clients -> Resources] /\ \A d \in Clients : Same(copy'[d], copy[d])
    BY <1>1, <1>2, WriteFacts DEF TypeOK
  <1>4. pc' = [pc EXCEPT !["server"] = "await"]
    BY DEF GoTo
  <1>5. Sound(row') /\ row'.state # "absent" /\ Sound(resource') /\ resource'.state # "absent"
    BY <1>2, <1>3, SameFacts DEF Inv
  <1>6. TypeOK'
    BY <1>1, <1>3, <1>4, <1>5 DEF TypeOK, Sound, Unmanaged, Faulty, outer, Steps
  <1>7. ASSUME NEW d \in Clients
        PROVE  Held(d)'
    <2>1. Held(d) /\ Same(copy'[d], copy[d])
      BY <1>3 DEF Inv
    <2>2. Sound(copy'[d]) /\ copy'[d].state = copy[d].state /\ copy'[d].managed_by = copy[d].managed_by
      BY <2>1, SameFacts DEF Held
    <2>3. CASE d = "server"
      BY <1>1, <1>2, <1>4, <2>2, <2>3 DEF Held, TypeOK
    <2>4. CASE d # "server"
      BY <1>1, <1>4, <2>1, <2>2, <2>4 DEF Held, Busy, TypeOK, Faulty
    <2> QED
      BY <2>3, <2>4
  <1>8. ASSUME None("reply")'
        PROVE  Unnamed' /\ AllRight'
    <2>1. None("reply") /\ Unnamed /\ AllRight
      BY <1>8 DEF None, Faulty, Inv
    <2>2. AllRight'
      BY <1>2, <1>3, <2>1, SameFacts DEF AllRight
    <2>3. MayActivate' => MayActivate
      BY <1>1, <1>4 DEF MayActivate, TypeOK
    <2>4. MayActivate' => ~ row'.named /\ ~ resource'.named
      BY <1>2, <1>3, <2>1, <2>3, SameFacts DEF Unnamed
    <2>5. ASSUME MayActivate', NEW d \in Clients, copy'[d].named
          PROVE  d = "block" /\ stage' = "activate" /\ pc'[d] \in {"save", "merge"}
      <3>1. copy[d].named
        BY <1>3, <2>5, SameFacts
      <3>2. d = "block" /\ stage = "activate" /\ pc[d] \in {"save", "merge"}
        BY <2>1, <2>3, <2>5, <3>1 DEF Unnamed
      <3> QED
        BY <1>1, <1>4, <3>2 DEF TypeOK
    <2> QED
      BY <2>2, <2>4, <2>5 DEF Unnamed
  <1> QED
    BY <1>5, <1>6, <1>7, <1>8 DEF Inv, Exists

\* The row becomes what a request holds.
LEMMA SavedKeeps ==
  ASSUME Inv, NEW c \in Clients, Saved(c), Busy(c), UNCHANGED <<cluster, outer>>, Faulty
  PROVE  Inv'
  <1>1. CASE Answer(c, copy[c], copy[c])
    BY <1>1, CopyFacts, AnswerKeeps
  <1>2. CASE c = "server" /\ Write(copy[c], resource, copy) /\ GoTo(c, "await")
             /\ UNCHANGED <<stage, entered>>
    BY <1>2, CleanedKeeps
  <1> QED
    BY <1>1, <1>2 DEF Saved

\* The check of a save, and the save or what comes instead.
LEMMA SaveKeeps ==
  ASSUME Inv, NEW c \in Clients, Save(c)
  PROVE  Inv'
  <1>1. pc[c] \in {"save", "last"} /\ Busy(c) /\ UNCHANGED <<cluster, outer>>
    BY DEF Save, Busy
  <1>2. CASE Saved(c) /\ (UNCHANGED faults \/ Fault("tie"))
    <2>1. Faulty
      BY <1>2, FaultFact DEF FaultKinds, Faulty, Inv, TypeOK
    <2> QED
      BY <1>1, <1>2, <2>1, SavedKeeps
  <1>3. CASE Fails(c) /\ UNCHANGED faults
    <2>1. Faulty /\ ClusterFits(c) /\ cluster' = cluster
      BY <1>1, <1>3 DEF Faulty, ClusterFits, Inv, TypeOK
    <2> QED
      BY <1>1, <1>3, <2>1, FailsKeeps
  <1>4. CASE /\ Fault("stalled") /\ GoTo(c, IF At(c, "save") THEN "merge" ELSE "lastmerge")
             /\ UNCHANGED <<row, worker, copy>>
    <2>1. Faulty /\ "stalled" \in faults'
      BY <1>4, FaultFact DEF FaultKinds
    <2>2. CASE pc[c] = "save"
      BY <1>1, <1>4, <2>1, <2>2, GoesOnKeeps DEF At
    <2>3. CASE pc[c] = "last"
      BY <1>1, <1>4, <2>1, <2>3, GoesOnKeeps DEF At
    <2> QED
      BY <1>1, <2>2, <2>3
  <1> QED
    BY <1>2, <1>3, <1>4 DEF Save

\* The steps of a request that was begun.
LEMMA ServesKeeps ==
  ASSUME Inv, NEW c \in Clients, Serves(c)
  PROVE  Inv'
  <1>1. CASE Activate(c)
    BY <1>1, ActivateKeeps
  <1>2. CASE Deactivate(c)
    BY <1>2, DeactivateKeeps
  <1>3. CASE Update(c)
    BY <1>3, UpdatesKeep DEF Update, At
  <1>4. CASE Await(c)
    BY <1>4, UpdatesKeep DEF Await, At
  <1>5. CASE AwaitMore(c)
    <2>1. Busy(c) /\ pc[c] = "last" /\ Faulty
      BY <1>5 DEF AwaitMore, At, Busy, Faulty, Inv, TypeOK
    <2> QED
      BY <1>5, <2>1, GoesOnKeeps DEF AwaitMore
  <1>6. CASE ListFails(c)
    <2>1. Busy(c) /\ Faulty /\ UNCHANGED <<cluster, outer>> /\ Fails(c) /\ ClusterFits(c)
      BY <1>6, FaultFact DEF ListFails, Busy, FaultKinds, ClusterFits, Inv, TypeOK
    <2> QED
      BY <2>1, FailsKeeps
  <1>7. CASE Save(c)
    BY <1>7, SaveKeeps
  <1>8. CASE Merge(c)
    <2>1. Busy(c) /\ Faulty
      BY <1>8 DEF Merge, Busy, Faulty, Inv, TypeOK
    <2> QED
      BY <1>8, <2>1, SavedKeeps DEF Merge
  <1>9. CASE CleanFailed(c)
    BY <1>9, RaiseRowKeeps DEF CleanFailed, Faulty, Inv, TypeOK
  <1>10. CASE ForceKill(c)
    <2> DEFINE R == WithStatus(copy[c], "FORCE_KILLED", Now)
    <2>1. pc[c] = "raised" /\ Busy(c) /\ Faulty
      BY <1>10, FaultFact DEF ForceKill, At, Busy, FaultKinds
    <2>2. "FORCE_KILLED" \in States
      BY StatesFact
    <2>3. /\ R \in Resources /\ R.state = "FORCE_KILLED" /\ R.managed_by = copy[c].managed_by
          /\ R.named = copy[c].named
      BY <2>1, <2>2, CopyFacts, NowType, WithStatusFacts
    <2>4. Answer(c, R, copy[c]) /\ UNCHANGED <<cluster, outer>>
      BY <1>10 DEF ForceKill
    <2> HIDE DEF R
    <2>5. Writable(c, R) /\ R.state # "absent" /\ (None("reply") => Right(cluster, R))
      BY <2>1, <2>3, CopyFacts DEF Writable, Sound, Unmanaged, Right
    <2> QED
      BY <2>1, <2>4, <2>5, CopyFacts, AnswerKeeps
  <1> QED
    BY <1>1, <1>2, <1>3, <1>4, <1>5, <1>6, <1>7, <1>8, <1>9, <1>10 DEF Serves

\* Kubernetes does something, and does not make the cluster again.
LEMMA ClusterKeeps ==
  ASSUME Inv, NEW kind \in Clusters, ClusterBecomes(kind), cluster = "gone" => kind = "gone", Faulty
  PROVE  Inv'
  <1>1. TypeOK /\ UNCHANGED <<row, linked, pipeline, stage, entered, resource, pc, copy>>
        /\ cluster' \in Clusters /\ (cluster = "gone" => cluster' = "gone")
    BY DEF Inv, ClusterBecomes, outer, worker
  <1>2. TypeOK'
    BY <1>1 DEF TypeOK, Faulty
  <1>3. \A c \in Clients : Held(c)'
    BY <1>1 DEF Inv, Held, Busy, Faulty
  <1>4. Exists'
    BY <1>1 DEF Inv, Exists
  <1>5. None("reply")' => Unnamed' /\ AllRight'
    BY <1>1 DEF Inv, None, Faulty, Unnamed, MayActivate, AllRight, Right
  <1> QED
    BY <1>1, <1>2, <1>3, <1>4, <1>5 DEF Inv

\* A resource that is not saved yet, and a row that is not there.
LEMMA NewFacts ==
  /\ NewResource \in Resources /\ Sound(NewResource) /\ NewResource.state = "CREATED"
  /\ ~ NewResource.named
  /\ Absent \in Resources /\ Sound(Absent) /\ ~ Absent.named /\ Absent.state = "absent"
  <1>1. "CREATED" \in ResourceState
    BY DEF ResourceState, AllowedTransitions
  <1> QED
    BY <1>1 DEF NewResource, Absent, Resources, Sound, Unmanaged

\* The job of the worker ends: what it knows is lost.
LEMMA KilledKeeps ==
  ASSUME Inv, Killed
  PROVE  Inv'
  <1>1. TypeOK /\ (None("reply") => Unnamed /\ AllRight)
    BY DEF Inv
  <1>2. NewResource \in Resources /\ Sound(NewResource) /\ NewResource.state = "CREATED"
        /\ ~ NewResource.named
    BY NewFacts
  <1>3. stage' = "failed" /\ entered' = FALSE /\ Write(row, NewResource, copy)
        /\ UNCHANGED <<cluster, linked, pipeline, pc, faults>>
    BY DEF Killed, outer
  <1>4. /\ row' \in Resources /\ Same(row', row)
        /\ resource' \in Resources /\ Same(resource', NewResource)
        /\ copy' \in [Clients -> Resources] /\ \A d \in Clients : Same(copy'[d], copy[d])
    BY <1>1, <1>2, <1>3, WriteFacts DEF TypeOK
  <1>5. Sound(row') /\ Sound(resource') /\ resource'.state # "absent" /\ row'.state = row.state
        /\ row'.named = row.named /\ ~ resource'.named
    BY <1>2, <1>4, SameFacts DEF Inv
  <1>6. TypeOK'
    BY <1>1, <1>3, <1>4, <1>5 DEF TypeOK, Sound, Unmanaged, Stages
  <1>7. ASSUME NEW d \in Clients
        PROVE  Held(d)' /\ copy'[d].named = copy[d].named
    <2>1. Held(d) /\ Same(copy'[d], copy[d])
      BY <1>4 DEF Inv
    <2>2. Sound(copy'[d]) /\ copy'[d].state = copy[d].state
          /\ copy'[d].managed_by = copy[d].managed_by /\ copy'[d].named = copy[d].named
      BY <2>1, SameFacts DEF Held
    <2> QED
      BY <1>3, <2>1, <2>2 DEF Held, Busy
  <1>8. Exists'
    BY <1>3, <1>5 DEF Inv, Exists
  <1>9. None("reply")' => Unnamed' /\ AllRight'
    <2>1. SUFFICES ASSUME None("reply") PROVE Unnamed' /\ AllRight'
      BY <1>3 DEF None
    <2>2. AllRight'
      BY <1>1, <1>3, <1>4, <1>5, <2>1, SameFacts DEF AllRight, Right
    <2>3. MayActivate' => MayActivate /\ pc["block"] = "activate"
      BY <1>3 DEF MayActivate
    <2>4. Unnamed'
      BY <1>1, <1>5, <1>7, <2>1, <2>3 DEF Unnamed
    <2> QED
      BY <2>2, <2>4
  <1> QED
    BY <1>5, <1>6, <1>7, <1>8, <1>9 DEF Inv

\* What happens without a request.
LEMMA OutsideKeeps ==
  ASSUME Inv, Outside
  PROVE  Inv'
  <1>1. CASE WorkersReady \/ WorkersLost \/ Disappears \/ Removed
    <2>1. PICK kind \in Clusters : ClusterBecomes(kind) /\ (cluster = "gone" => kind = "gone")
      BY <1>1 DEF WorkersReady, WorkersLost, Disappears, Removed, Clusters
    <2>2. Faulty
      BY <1>1, FaultFact DEF WorkersReady, WorkersLost, Disappears, Removed, FaultKinds, Faulty,
                             Inv, TypeOK
    <2> QED
      BY <2>1, <2>2, ClusterKeeps
  <1>2. CASE PipelineFails \/ PipelineOver
    <2>1. pipeline' \in {"failing", "over"}
          /\ UNCHANGED <<cluster, row, linked, stage, entered, resource, pc, copy, faults>>
      BY <1>2 DEF PipelineFails, PipelineOver, worker
    <2>2. TypeOK'
      BY <2>1 DEF Inv, TypeOK
    <2>3. (\A c \in Clients : Held(c)') /\ Exists'
      BY <2>1 DEF Inv, Held, Busy, Exists
    <2>4. None("reply")' => Unnamed' /\ AllRight'
      BY <2>1 DEF Inv, None, Unnamed, MayActivate, AllRight
    <2> QED
      BY <2>1, <2>2, <2>3, <2>4 DEF Inv
  <1>3. CASE Killed
    BY <1>3, KilledKeeps
  <1> QED
    BY <1>1, <1>2, <1>3 DEF Outside

\* The main thread goes on between two requests.
LEMMA WorkerKeeps ==
  ASSUME Inv, Link \/ BodyEnds
  PROVE  Inv'
  <1>1. TypeOK /\ Held("block")
    BY DEF Inv, Clients
  <1>2. /\ UNCHANGED <<cluster, row, pipeline, resource, pc, copy, faults>>
        /\ linked' \in BOOLEAN /\ entered' \in BOOLEAN
        /\ \/ stage = "link" /\ stage' = "activate"
           \/ stage = "inside" /\ stage' = "leave" /\ linked' = linked
    BY <1>1 DEF Link, BodyEnds, outer, TypeOK
  <1>3. ~ Busy("block")
    BY <1>1, <1>2 DEF Held, Asking
  <1>4. TypeOK'
    BY <1>1, <1>2 DEF TypeOK, Stages
  <1>5. \A c \in Clients : Held(c)'
    BY <1>2, <1>3 DEF Inv, Held, Busy
  <1>6. Exists'
    BY <1>1, <1>2 DEF Inv, Exists, Stages
  <1>7. None("reply")' => Unnamed' /\ AllRight'
    <2>1. SUFFICES ASSUME None("reply") PROVE Unnamed' /\ AllRight'
      BY <1>2 DEF None
    <2>2. AllRight'
      BY <1>2, <2>1 DEF Inv, AllRight
    <2>3. MayActivate' => MayActivate /\ stage = "link"
      BY <1>2, <1>3 DEF MayActivate, Busy
    <2>4. Unnamed'
      BY <1>2, <2>1, <2>3 DEF Inv, Unnamed
    <2> QED
      BY <2>2, <2>4
  <1> QED
    BY <1>2, <1>4, <1>5, <1>6, <1>7 DEF Inv

(***************************************************************************)
(* The theorems.                                                           *)
(***************************************************************************)
LEMMA InitInv == Init => Inv
  <1> SUFFICES ASSUME Init PROVE Inv
    OBVIOUS
  <1>1. /\ Absent \in Resources /\ Sound(Absent) /\ ~ Absent.named /\ Absent.state = "absent"
        /\ NewResource \in Resources /\ Sound(NewResource) /\ ~ NewResource.named
        /\ NewResource.state = "CREATED"
    BY NewFacts
  <1>2. /\ cluster = "none" /\ row = Absent /\ linked = FALSE /\ pipeline = "running"
        /\ stage = "create" /\ entered = FALSE /\ resource = NewResource /\ faults = {}
        /\ pc = [c \in Clients |-> "idle"] /\ copy = [c \in Clients |-> Absent]
    BY DEF Init
  <1>3. TypeOK
    BY <1>1, <1>2 DEF TypeOK, Clusters, Stages, Steps, Sound, Unmanaged
  <1>4. \A c \in Clients : Held(c)
    BY <1>1, <1>2 DEF Held, Busy
  <1>5. Exists
    BY <1>2 DEF Exists
  <1>6. Unnamed /\ AllRight
    BY <1>1, <1>2 DEF Unnamed, AllRight, Right
  <1> QED
    BY <1>1, <1>2, <1>3, <1>4, <1>5, <1>6 DEF Inv

LEMMA NextInv == Inv /\ [Next]_vars => Inv'
  <1> SUFFICES ASSUME Inv, [Next]_vars PROVE Inv'
    OBVIOUS
  <1>1. CASE Outside
    BY <1>1, OutsideKeeps
  <1>2. CASE Link \/ BodyEnds
    BY <1>2, WorkerKeeps
  <1>3. ASSUME NEW c \in Clients, Begin(c) \/ Serves(c) \/ Crash(c) \/ ReplyLost(c)
        PROVE  Inv'
    <2>1. CASE Begin(c)
      BY <2>1, BeginKeeps
    <2>2. CASE Serves(c)
      BY <2>2, ServesKeeps
    <2>3. CASE Crash(c)
      BY <2>3, FaultFact, RaiseRowKeeps DEF Crash, FaultKinds
    <2>4. CASE ReplyLost(c)
      <3>1. Busy(c) /\ Faulty /\ ~ None("reply")' /\ Raise(c, copy[c]) /\ UNCHANGED <<cluster, outer>>
        BY <2>4, FaultFact DEF ReplyLost, At, Busy, FaultKinds, None
      <3>2. ClusterFits(c)
        BY <3>1 DEF ClusterFits, Inv, TypeOK
      <3> QED
        BY <3>1, <3>2, CopyFacts, RaiseKeeps
    <2> QED
      BY <1>3, <2>1, <2>2, <2>3, <2>4
  <1>4. CASE UNCHANGED vars
    <2>1. UNCHANGED <<cluster, row, linked, pipeline, stage, entered, resource, pc, copy, faults>>
      BY <1>4 DEF vars, outer, worker
    <2>2. TypeOK' /\ (\A c \in Clients : Held(c)') /\ Exists'
      BY <2>1 DEF Inv, TypeOK, Held, Busy, Exists
    <2>3. None("reply")' => Unnamed' /\ AllRight'
      BY <2>1 DEF Inv, None, Unnamed, MayActivate, AllRight
    <2> QED
      BY <2>1, <2>2, <2>3 DEF Inv
  <1> QED
    BY <1>1, <1>2, <1>3, <1>4 DEF Next

LEMMA Invariant == Spec => []Inv
  BY InitInv, NextInv, PTL DEF Spec

\* Whatever the requests of the worker, the runner and the cleaner do to each other,
\* and however often a client tries one again, the row and what the worker knows are
\* resources that the states of AbstractExternalResource allow: one that nobody
\* manages (__post_init__ of ResourceStatus) is new, was never activated, or was killed.
THEOREM TypeCorrect == Spec => []TypeOK
  <1>1. Inv => TypeOK
    BY DEF Inv
  <1> QED
    BY <1>1, Invariant, PTL

\* Whatever copies of the resource are saved late by save_external_resource_record, a
\* row that says DEACTIVATED and has the name of its cluster is right: the cluster is
\* gone, and is not made again, as long as no answer to an activation was lost.
THEOREM NamedMeansGoneAlways == Spec => []NamedMeansGone
  <1>1. Inv => NamedMeansGone
    BY DEF Inv, NamedMeansGone, AllRight, Right
  <1> QED
    BY <1>1, Invariant, PTL

-----------------------------------------------------------------------------
(***************************************************************************)
(* The body of a with block has its cluster, as long as the pipeline runs  *)
(* and nothing fails.                                                      *)
(*                                                                         *)
(* The argument: until the block is left, only the main thread and, inside *)
(* the block, the thread that asks for updates make requests; and at any   *)
(* moment everything that is known of the resource, in the row, by the     *)
(* worker or by a request, fits the cluster there is.                      *)
(***************************************************************************)

\* The way to the body.
Climbing == {"create", "link", "activate", "resave", "wait", "waitsave", "inside"}

Calm == pipeline = "running" /\ faults = {} /\ stage \in Climbing

\* No cluster has been lost or deleted.
Sane == {"none", "starting", "up"}

\* The resource r can be what is known when the cluster is kind.
Fits(kind, r) ==
  /\ r.named <=> r.state \in {"ACTIVATING", "ACTIVE"}
  /\ r.state = "ACTIVE" => kind = "up"
  /\ r.state = "ACTIVATING" => kind \in {"starting", "up"}

AllFit ==
  /\ cluster \in Sane
  /\ Fits(cluster, row) /\ Fits(cluster, resource)
  /\ \A c \in Clients : Fits(cluster, copy[c])

\* The main thread asks for nothing else on its way; what it saves is what it knows.
BlockClimbs ==
  /\ pc["block"] \in {"idle", "activate", "update", "save"}
  /\ pc["block"] = "update" => stage = "wait"
  /\ stage \in Keeps /\ pc["block"] = "save" => copy["block"].state = resource.state

\* The other thread asks inside the block only, where the resource is ACTIVE.
PollClimbs ==
  /\ pc["poll"] \in {"idle", "update", "save", "stopped"}
  /\ stage # "inside" => pc["poll"] = "idle"
  /\ stage = "inside" => /\ row.state = "ACTIVE"
                         /\ pc["poll"] \in {"update", "save"} => copy["poll"].state = "ACTIVE"

\* The inductive invariant.
Climbs == AllFit /\ pc["server"] = "idle" /\ BlockClimbs /\ PollClimbs

BodyInv == Calm => Climbs

(***************************************************************************)
(* What fits.                                                              *)
(***************************************************************************)
\* A cluster gets further, or stays as it is.
Grows ==
  /\ cluster' \in Sane
  /\ cluster = "up" => cluster' = "up"
  /\ cluster = "starting" => cluster' # "none"

\* What fits does so when the cluster has grown, with another time too.
LEMMA FitsLater ==
  ASSUME Grows, NEW r, NEW q, Same(q, r), Fits(cluster, r)
  PROVE  Fits(cluster', q)
  BY DEF Grows, Same, Fits, Sane

\* So does what is written.
LEMMA FitsSame ==
  ASSUME NEW kind, NEW r, NEW q, Same(q, r), Fits(kind, r)
  PROVE  Fits(kind, q)
  BY DEF Same, Fits

\* A resource that is not there, or new, fits any cluster.
LEMMA FitsNew ==
  ASSUME NEW kind
  PROVE  Fits(kind, Absent) /\ Fits(kind, NewResource)
  BY DEF Fits, Absent, NewResource

\* What a request writes fits when it did before.
LEMMA WriteFits ==
  ASSUME NEW R \in Resources, NEW M \in Resources, NEW C \in [Clients -> Resources],
         Write(R, M, C), cluster' \in Sane,
         Fits(cluster', R), Fits(cluster', M), \A c \in Clients : Fits(cluster', C[c])
  PROVE  AllFit'
  <1>1. /\ Same(row', R) /\ Same(resource', M)
        /\ \A c \in Clients : Same(copy'[c], C[c])
    BY WriteFacts
  <1> QED
    BY <1>1, FitsSame DEF AllFit

\* Forgetting a request leaves what fits.
LEMMA ForgetFits ==
  ASSUME TypeOK, Grows, AllFit, NEW c \in Clients
  PROVE  \A d \in Clients : Fits(cluster', Forget(c)[d])
  <1>1. SUFFICES ASSUME NEW d \in Clients PROVE Fits(cluster', Forget(c)[d])
    OBVIOUS
  <1>2. CASE d = c
    <2>1. Forget(c)[d] = Absent
      BY <1>2 DEF Forget, TypeOK
    <2> QED
      BY <2>1, FitsNew
  <1>3. CASE d # c
    <2>1. Forget(c)[d] = copy[d] /\ Fits(cluster, copy[d])
      BY <1>3, ForgetFacts DEF AllFit
    <2> QED
      BY <2>1, FitsLater DEF Same
  <1> QED
    BY <1>2, <1>3

\* activate_resource, of a resource that has no cluster yet, makes one that fits.
LEMMA DoActivateFits ==
  ASSUME cluster \in Sane, NEW r \in Resources, ~ r.named, NEW now \in Nat,
         NEW tried, tried = DoActivate(cluster, r, now), cluster' = tried.cluster
  PROVE  Grows /\ Fits(cluster', tried.resource)
  <1> DEFINE m == [r EXCEPT !.managed_by = "SERVER", !.time = now]
  <1>1. m \in Resources /\ ~ m.named
    BY DEF Resources
  <1>2. CASE cluster \in Alive
    <2> DEFINE next  == IF m.state = "DEACTIVATING" THEN "DEACTIVATED" ELSE "DEACTIVATING"
               after == WithStatus(m, next, now)
    <2>1. tried = ContinueDeactivation(cluster, m, now)
      BY <1>2 DEF DoActivate
    <2> HIDE DEF m
    <2>2. tried = [cluster |-> cluster, resource |-> after]
      BY <1>1, <2>1 DEF ContinueDeactivation, Tried
    <2>3. next \in States /\ next \notin {"ACTIVATING", "ACTIVE"}
      BY StatesFact
    <2>4. after.state = next /\ ~ after.named
      BY <1>1, <2>3, WithStatusFacts
    <2> HIDE DEF next, after
    <2> QED
      BY <2>2, <2>3, <2>4 DEF Grows, Fits
  <1>3. CASE cluster \notin Alive
    <2> DEFINE base  == WithStatus(m, "ACTIVATING", now)
               after == [base EXCEPT !.named = TRUE]
    <2>1. tried = [cluster |-> "starting", resource |-> after]
      BY <1>3 DEF DoActivate, Tried
    <2> HIDE DEF m
    <2>2. "ACTIVATING" \in States
      BY StatesFact
    <2>3. base \in Resources /\ base.state = "ACTIVATING"
      BY <1>1, <2>2, WithStatusFacts
    <2> HIDE DEF base
    <2>4. after.state = "ACTIVATING" /\ after.named
      BY <2>3 DEF Resources
    <2> HIDE DEF after
    <2> QED
      BY <1>3, <2>1, <2>4 DEF Grows, Fits, Sane, Alive
  <1> QED
    BY <1>2, <1>3

\* update leaves a cluster that fits as it is; a resource that is ACTIVE stays so.
LEMMA DoUpdateFits ==
  ASSUME NEW kind \in Sane, NEW r \in Resources, Fits(kind, r), NEW now \in Nat
  PROVE  /\ DoUpdate(kind, r, now).cluster = kind
         /\ Fits(kind, DoUpdate(kind, r, now).resource)
         /\ r.state = "ACTIVE" => DoUpdate(kind, r, now).resource.state = "ACTIVE"
  <1>1. ASSUME NEW state \in States, DoUpdate(kind, r, now) = Tried(kind, WithStatus(r, state, now)),
               state \in {"ACTIVATING", "ACTIVE"} <=> r.named,
               state = "ACTIVE" => kind = "up",
               state = "ACTIVATING" => kind \in {"starting", "up"},
               r.state = "ACTIVE" => state = "ACTIVE"
        PROVE  /\ DoUpdate(kind, r, now).cluster = kind
               /\ Fits(kind, DoUpdate(kind, r, now).resource)
               /\ r.state = "ACTIVE" => DoUpdate(kind, r, now).resource.state = "ACTIVE"
    <2> DEFINE after == WithStatus(r, state, now)
    <2>1. after.state = state /\ after.named = r.named
      BY WithStatusFacts
    <2>2. DoUpdate(kind, r, now) = [cluster |-> kind, resource |-> after]
      BY <1>1 DEF Tried
    <2> HIDE DEF after
    <2> QED
      BY <1>1, <2>1, <2>2 DEF Fits
  <1>2. r.state \in States
    BY DEF Resources, States
  <1>3. CASE r.state = "ACTIVATING"
    BY <1>1, <1>3, StatesFact DEF DoUpdate, Fits, Validated
  <1>4. CASE r.state = "ACTIVE"
    BY <1>1, <1>2, <1>4 DEF DoUpdate, Fits, Validated
  <1>5. CASE r.state = "DEACTIVATING"
    <2> DEFINE after == WithStatus(r, "DEACTIVATED", now)
    <2>1. "DEACTIVATED" \in States
      BY StatesFact
    <2>2. after.state = "DEACTIVATED" /\ after.named = r.named /\ ~ r.named
      BY <1>5, <2>1, WithStatusFacts DEF Fits
    <2>3. DoUpdate(kind, r, now) = [cluster |-> kind, resource |-> after]
      BY <1>5, <2>2 DEF DoUpdate, ContinueDeactivation, Tried
    <2> HIDE DEF after
    <2> QED
      BY <1>5, <2>2, <2>3 DEF Fits
  <1>6. CASE r.state \notin {"ACTIVATING", "ACTIVE", "DEACTIVATING"}
    BY <1>1, <1>2, <1>6 DEF DoUpdate, Fits
  <1> QED
    BY <1>3, <1>4, <1>5, <1>6

(***************************************************************************)
(* Stages.                                                                 *)
(***************************************************************************)
\* The way to the body is not entered again once it was left, and goes inside only
\* when the resource is ACTIVE.
LEMMA ClimbingFacts ==
  ASSUME NEW state
  PROVE  /\ \A s \in Climbing : stage \in Asking /\ s \in StagesAfter(state) =>
              stage \in Climbing /\ (s = "inside" => stage = "waitsave" /\ state = "ACTIVE")
         /\ StageAfterError \in Climbing => stage = "wait" /\ StageAfterError = "waitsave"
  <1>1. Ended(state) \notin Climbing
    BY DEF Ended, Climbing
  <1> HIDE DEF Ended
  <1>2. ASSUME NEW s \in Climbing, stage \in Asking, s \in StagesAfter(state)
        PROVE  stage \in Climbing /\ (s = "inside" => stage = "waitsave" /\ state = "ACTIVE")
    BY <1>1, <1>2 DEF StagesAfter, Asking, Climbing
  <1>3. StageAfterError \in Climbing => stage = "wait" /\ StageAfterError = "waitsave"
    BY DEF StageAfterError, Climbing
  <1> QED
    BY <1>2, <1>3

(***************************************************************************)
(* Steps.                                                                  *)
(***************************************************************************)
\* An answer to a thread of the worker.
LEMMA AnswerClimbs ==
  ASSUME Inv, Climbs, NEW c \in {"block", "poll"}, NEW R \in Resources, NEW A \in Resources,
         Answer(c, R, A), cluster' = cluster, Fits(cluster, R), Fits(cluster, A),
         c = "block" /\ Working => stage \in Asking,
         c = "block" /\ stage \in Keeps => R.state = resource.state,
         c = "poll" => stage = "inside" /\ R.state = "ACTIVE",
         stage' \in Climbing, stage # "failed"
  PROVE  stage \in Climbing /\ Climbs'
  <1> DEFINE C == Forget(c)
  <1>1. TypeOK /\ AllFit /\ Grows
    BY DEF Inv, Climbs, AllFit, Grows, Sane
  <1>2. C \in [Clients -> Resources] /\ (\A d \in Clients : Fits(cluster', C[d]))
        /\ \A d \in Clients \ {c} : C[d] = copy[d]
    BY <1>1, ForgetFacts, ForgetFits DEF Clients
  <1>3. pc' = [pc EXCEPT ![c] = "idle"]
    BY DEF Answer, GoTo
  <1>4. PICK M \in Resources :
          /\ Write(R, M, C) /\ Fits(cluster, M) /\ stage \in Climbing
          /\ stage' = stage \/ (c = "block" /\ (stage' = "inside" =>
                                  stage = "waitsave" /\ M = resource /\ M.state = "ACTIVE"))
    <2>1. CASE c = "block" /\ Working
      <3>1. PICK mine \in {IF stage \in Keeps THEN resource ELSE A} :
              stage' \in StagesAfter(mine.state) /\ Write(R, mine, C)
        BY <2>1 DEF Answer
      <3>2. mine \in Resources /\ Fits(cluster, mine)
        BY <3>1, <1>1 DEF TypeOK, AllFit
      <3>3. stage \in Climbing /\ (stage' = "inside" => stage = "waitsave" /\ mine.state = "ACTIVE")
        BY <2>1, <3>1, ClimbingFacts
      <3>4. stage = "waitsave" => mine = resource
        BY <3>1 DEF Keeps
      <3> QED
        BY <2>1, <3>1, <3>2, <3>3, <3>4
    <2>2. CASE ~ (c = "block" /\ Working)
      BY <2>2, <1>1 DEF Answer, TypeOK, AllFit
    <2> QED
      BY <2>1, <2>2
  <1> HIDE DEF C
  <1>5. AllFit'
    BY <1>1, <1>2, <1>4, WriteFits DEF Grows
  <1>6. /\ row'.state = R.state /\ resource'.state = M.state
        /\ \A d \in Clients \ {c} : copy'[d].state = copy[d].state
    BY <1>2, <1>4, WriteFacts DEF Same
  <1>7. pc'[c] = "idle" /\ \A d \in Clients \ {c} : pc'[d] = pc[d]
    BY <1>1, <1>3 DEF TypeOK, Clients
  <1>8. pc'["server"] = "idle"
    BY <1>7 DEF Climbs, Clients
  <1>9. CASE c = "block"
    <2>1. pc'["block"] = "idle" /\ pc'["poll"] = pc["poll"] /\ copy'["poll"].state = copy["poll"].state
      BY <1>6, <1>7, <1>9 DEF Clients
    <2>2. BlockClimbs'
      BY <2>1 DEF BlockClimbs
    <2>3. stage # "inside"
      BY <1>9 DEF Asking, Working
    <2>4. stage' = "inside" => row'.state = "ACTIVE"
      BY <1>4, <1>6, <1>9, <2>3 DEF Keeps
    <2>5. PollClimbs'
      BY <2>1, <2>3, <2>4 DEF Climbs, PollClimbs
    <2> QED
      BY <1>4, <1>5, <1>8, <2>2, <2>5 DEF Climbs
  <1>10. CASE c = "poll"
    <2>1. pc'["poll"] = "idle" /\ pc'["block"] = pc["block"] /\ stage' = "inside" /\ stage = "inside"
          /\ row'.state = "ACTIVE"
      BY <1>4, <1>6, <1>7, <1>10 DEF Clients
    <2>2. BlockClimbs'
      BY <2>1 DEF Climbs, BlockClimbs, Keeps
    <2>3. PollClimbs'
      BY <2>1 DEF PollClimbs
    <2> QED
      BY <1>4, <1>5, <1>8, <2>2, <2>3 DEF Climbs
  <1> QED
    BY <1>9, <1>10

\* A request of the worker that raises.
LEMMA RaiseClimbs ==
  ASSUME Inv, Climbs, NEW c \in {"block", "poll"}, Raise(c, row), Grows,
         c = "poll" => stage = "inside",
         stage' \in Climbing
  PROVE  stage \in Climbing /\ Climbs'
  <1> DEFINE C == Forget(c)
  <1>1. TypeOK /\ AllFit
    BY DEF Inv, Climbs
  <1>2. C \in [Clients -> Resources] /\ (\A d \in Clients : Fits(cluster', C[d]))
        /\ \A d \in Clients \ {c} : C[d] = copy[d]
    BY <1>1, ForgetFacts, ForgetFits DEF Clients
  <1>3. /\ Write(row, resource, C)
        /\ pc' = [pc EXCEPT ![c] = "idle"] \/ (c = "poll" /\ pc' = [pc EXCEPT ![c] = "stopped"])
        /\ stage' = stage \/ (c = "block" /\ stage' = StageAfterError)
    BY DEF Raise, GoTo
  <1> HIDE DEF C
  <1>4. row \in Resources /\ resource \in Resources /\ Fits(cluster', row) /\ Fits(cluster', resource)
    BY <1>1, FitsLater DEF TypeOK, AllFit, Same
  <1>5. AllFit'
    BY <1>2, <1>3, <1>4, WriteFits DEF Grows
  <1>6. /\ row'.state = row.state /\ resource'.state = resource.state
        /\ \A d \in Clients \ {c} : copy'[d].state = copy[d].state
    BY <1>2, <1>3, <1>4, WriteFacts DEF Same
  <1>7. /\ pc'[c] \in {"idle", "stopped"} /\ (c = "block" => pc'[c] = "idle")
        /\ \A d \in Clients \ {c} : pc'[d] = pc[d]
    BY <1>1, <1>3 DEF TypeOK, Clients
  <1>8. stage' = stage \/ (c = "block" /\ stage = "wait" /\ stage' = "waitsave")
    BY <1>3, ClimbingFacts
  <1>9. pc'["server"] = "idle"
    BY <1>7 DEF Climbs, Clients
  <1>10. CASE c = "block"
    <2>1. pc'["block"] = "idle" /\ pc'["poll"] = pc["poll"] /\ copy'["poll"].state = copy["poll"].state
      BY <1>6, <1>7, <1>10 DEF Clients
    <2> QED
      BY <1>5, <1>6, <1>8, <1>9, <2>1 DEF Climbs, BlockClimbs, PollClimbs, Climbing
  <1>11. CASE c = "poll"
    <2>1. /\ pc'["poll"] \in {"idle", "stopped"} /\ pc'["block"] = pc["block"]
          /\ stage' = "inside" /\ stage = "inside"
      BY <1>7, <1>8, <1>11 DEF Clients
    <2>2. BlockClimbs'
      BY <2>1 DEF Climbs, BlockClimbs, Keeps
    <2>3. PollClimbs'
      BY <1>6, <2>1 DEF Climbs, PollClimbs
    <2> QED
      BY <1>5, <1>9, <2>1, <2>2, <2>3 DEF Climbs, Climbing
  <1> QED
    BY <1>10, <1>11

\* A request that reads the row, or brings the resource along.
LEMMA ReadClimbs ==
  ASSUME Inv, Climbs, NEW c \in {"block", "poll"}, NEW step, NEW r \in {row, resource},
         GoTo(c, step), copy' = [copy EXCEPT ![c] = r],
         UNCHANGED <<cluster, row, stage, resource>>,
         c = "block" => \/ step = "save" /\ r = resource
                        \/ step = "activate" \/ (step = "update" /\ stage = "wait"),
         c = "block" => stage # "inside",
         c = "poll" => stage = "inside" /\ step \in {"update", "save"} /\ r = row
  PROVE  Climbs'
  <1>1. /\ copy'[c] = r /\ \A d \in Clients \ {c} : copy'[d] = copy[d]
        /\ pc'[c] = step /\ \A d \in Clients \ {c} : pc'[d] = pc[d]
    BY DEF Inv, TypeOK, Clients, GoTo
  <1>2. AllFit'
    BY <1>1 DEF Climbs, AllFit
  <1>3. pc'["server"] = "idle"
    BY <1>1 DEF Climbs, Clients
  <1>4. CASE c = "block"
    <2>1. pc'["poll"] = pc["poll"] /\ copy'["poll"] = copy["poll"] /\ pc'["block"] = step
          /\ copy'["block"] = r
      BY <1>1, <1>4 DEF Clients
    <2> QED
      BY <1>2, <1>3, <1>4, <2>1 DEF Climbs, BlockClimbs, PollClimbs
  <1>5. CASE c = "poll"
    <2>1. pc'["block"] = pc["block"] /\ copy'["block"] = copy["block"] /\ pc'["poll"] = step
          /\ copy'["poll"] = r
      BY <1>1, <1>5 DEF Clients
    <2> QED
      BY <1>2, <1>3, <1>5, <2>1 DEF Climbs, BlockClimbs, PollClimbs
  <1> QED
    BY <1>4, <1>5

\* The plug-in has tried a call.
LEMMA OutcomeClimbs ==
  ASSUME Inv, Climbs, NEW c \in {"block", "poll"}, NEW tried, tried.resource \in Resources,
         NEW legal \in BOOLEAN, Outcome(c, tried, legal, "save"),
         Grows, Fits(cluster', tried.resource),
         c = "block" => stage \in {"activate", "wait"},
         c = "poll" => stage = "inside" /\ tried.resource.state = "ACTIVE",
         stage' \in Climbing
  PROVE  stage \in Climbing /\ Climbs'
  <1> DEFINE C == [copy EXCEPT ![c] = tried.resource]
  <1>1. TypeOK /\ AllFit
    BY DEF Inv, Climbs
  <1>2. CASE Fails(c)
    <2>1. Raise(c, row)
      BY <1>2 DEF Fails
    <2> QED
      BY <2>1, RaiseClimbs
  <1>3. CASE Write(row, resource, C) /\ GoTo(c, "save") /\ UNCHANGED <<stage, entered>>
    <2>1. C \in [Clients -> Resources] /\ C[c] = tried.resource
          /\ \A d \in Clients \ {c} : C[d] = copy[d]
      BY <1>1 DEF TypeOK, Clients
    <2> HIDE DEF C
    <2>2. row \in Resources /\ resource \in Resources /\ Fits(cluster', row) /\ Fits(cluster', resource)
      BY <1>1, FitsLater DEF TypeOK, AllFit, Same
    <2>3. ASSUME NEW d \in Clients PROVE Fits(cluster', C[d])
      BY <1>1, <2>1, FitsLater DEF AllFit, Same
    <2>4. AllFit'
      BY <1>3, <2>1, <2>2, <2>3, WriteFits DEF Grows
    <2>5. /\ row'.state = row.state /\ copy'[c].state = tried.resource.state
          /\ \A d \in Clients \ {c} : copy'[d].state = copy[d].state
      BY <1>3, <2>1, <2>2, WriteFacts DEF Same, Clients
    <2>6. pc'[c] = "save" /\ \A d \in Clients \ {c} : pc'[d] = pc[d]
      BY <1>1, <1>3 DEF TypeOK, Clients, GoTo
    <2>7. pc'["server"] = "idle"
      BY <2>6 DEF Climbs, Clients
    <2>8. CASE c = "block"
      <3>1. /\ pc'["poll"] = pc["poll"] /\ copy'["poll"].state = copy["poll"].state
            /\ pc'["block"] = "save" /\ stage' = stage /\ stage \notin Keeps /\ stage # "inside"
        BY <1>3, <2>5, <2>6, <2>8 DEF Clients, Keeps
      <3> QED
        BY <2>4, <2>7, <3>1 DEF Climbs, BlockClimbs, PollClimbs
    <2>9. CASE c = "poll"
      <3>1. /\ pc'["block"] = pc["block"] /\ pc'["poll"] = "save" /\ stage' = stage
            /\ stage = "inside" /\ copy'["poll"].state = "ACTIVE"
        BY <1>3, <2>5, <2>6, <2>9 DEF Clients
      <3>2. BlockClimbs' /\ PollClimbs'
        BY <2>5, <3>1 DEF Climbs, BlockClimbs, PollClimbs, Keeps
      <3> QED
        BY <1>3, <2>4, <2>7, <3>2 DEF Climbs
    <2> QED
      BY <1>3, <2>8, <2>9
  <1> QED
    BY <1>2, <1>3 DEF Outcome

\* The main thread, and the thread that asks for updates, make requests.
LEMMA BeginClimbs ==
  ASSUME Inv, Climbs, pipeline = "running", NEW c \in Clients, Begin(c), stage' \in Climbing
  PROVE  stage \in Climbing /\ Climbs'
  <1>1. TypeOK /\ AllFit
    BY DEF Inv, Climbs
  <1>2. c \in {"block", "poll"}
    BY DEF Begin, Clients, RunnerRequest, CleanRequest, Orphaned
  <1>3. row \in Resources /\ resource \in Resources
    BY <1>1 DEF TypeOK
  <1>4. ASSUME c = "poll" => stage = "inside",
               c = "block" => stage \in {"wait", "leave", "dewait", "deactivate"},
               NoRow(c) \/ AnswerRow(c)
        PROVE  stage \in Climbing /\ Climbs'
    <2>1. c = "poll" => row.state = "ACTIVE"
      BY <1>4 DEF Climbs, PollClimbs
    <2>2. c = "block" => stage \in Asking /\ stage \notin Keeps
      BY <1>4 DEF Asking, Keeps
    <2>3. stage # "failed"
      BY <1>2, <1>4
    <2>4. CASE AnswerRow(c)
      <3>1. Answer(c, row, row) /\ cluster' = cluster
        BY <2>4 DEF AnswerRow
      <3> QED
        BY <1>1, <1>2, <1>3, <1>4, <2>1, <2>2, <2>3, <3>1, AnswerClimbs DEF AllFit
    <2>5. CASE NoRow(c)
      <3>1. Raise(c, row) /\ cluster' = cluster
        BY <2>5 DEF NoRow
      <3>2. Grows
        BY <1>1, <3>1 DEF AllFit, Grows, Sane
      <3> QED
        BY <1>2, <1>4, <3>1, <3>2, RaiseClimbs
    <2> QED
      BY <1>4, <2>4, <2>5
  <1>5. ASSUME NEW step, Read(c, step),
               c = "poll" => stage = "inside" /\ step = "update",
               c = "block" => step = "activate" \/ (step = "update" /\ stage = "wait"),
               c = "block" => stage # "inside"
        PROVE  stage \in Climbing /\ Climbs'
    BY <1>2, <1>5, ReadClimbs DEF Read, worker
  <1>6. CASE c = "poll"
    <2>1. stage = "inside" /\ Get("poll")
      BY <1>6 DEF Begin, PollRequest
    <2> QED
      BY <1>4, <1>5, <1>6, <2>1 DEF Get
  <1>7. CASE c = "block"
    <2>1. BlockRequest
      BY <1>7 DEF Begin
    <2>2. CASE stage \in Keeps /\ SaveRequest("block")
      BY <1>7, <2>2, ReadClimbs DEF SaveRequest, worker, Keeps
    <2>3. CASE stage = "activate" /\ Read("block", "activate")
      BY <1>5, <1>7, <2>3
    <2>4. CASE stage \in {"wait", "leave", "dewait"} /\ Get("block")
      <3>1. CASE NoRow(c) \/ AnswerRow(c)
        BY <1>4, <1>7, <2>4, <3>1
      <3>2. CASE Read(c, "update")
        <4>1. stage' = stage
          BY <3>2 DEF Read, worker
        <4> QED
          BY <1>5, <1>7, <2>4, <3>2, <4>1 DEF Climbing
      <3> QED
        BY <1>7, <2>4, <3>1, <3>2 DEF Get
    <2>5. CASE stage = "deactivate" /\ DeactivateRequest("block")
      <3>1. CASE AnswerRow(c)
        BY <1>4, <1>7, <2>5, <3>1
      <3>2. CASE Read(c, "deactivate")
        BY <2>5, <3>2 DEF Read, worker, Climbing
      <3> QED
        BY <1>7, <2>5, <3>1, <3>2 DEF DeactivateRequest
    <2> QED
      BY <2>1, <2>2, <2>3, <2>4, <2>5 DEF BlockRequest
  <1> QED
    BY <1>2, <1>6, <1>7

\* A fault is remembered.
LEMMA FaultSeen ==
  ASSUME NEW kind, Fault(kind)
  PROVE  faults' # {}
  BY DEF Fault

\* The server serves a request.
LEMMA ServesClimbs ==
  ASSUME Inv, Climbs, pipeline = "running", NEW c \in Clients, Serves(c), faults' = {},
         stage \in Climbing, stage' \in Climbing
  PROVE  Climbs'
  <1>1. TypeOK /\ AllFit /\ Held(c)
    BY DEF Inv, Climbs
  <1>2. pc[c] # "idle"
    BY DEF Serves, Activate, Deactivate, Update, Await, AwaitMore, ListFails, Save, Merge,
           CleanFailed, ForceKill, At
  <1>3. /\ c \in {"block", "poll"} /\ (c = "poll" => stage = "inside")
        /\ pc[c] \in {"activate", "update", "save", "stopped"}
        /\ c = "block" /\ pc[c] = "update" => stage = "wait"
    BY <1>2 DEF Climbs, BlockClimbs, PollClimbs, Clients
  <1>4. pc[c] = "activate" => c = "block" /\ stage = "activate"
    BY <1>1 DEF Held, Climbing
  <1>5. copy[c] \in Resources /\ Fits(cluster, copy[c]) /\ cluster \in Sane
    BY <1>1, <1>3 DEF TypeOK, AllFit
  <1>6. Activate(c) \/ Update(c) \/ Save(c)
    BY <1>3, FaultSeen
       DEF Serves, Deactivate, Await, AwaitMore, ListFails, Merge, CleanFailed, ForceKill, At
  <1>7. CASE Activate(c)
    <2> DEFINE tried == DoActivate(cluster, copy[c], Now)
    <2>1. c = "block" /\ stage = "activate"
      BY <1>4, <1>7 DEF Activate, At
    <2>2. ActivateOutcome(c, tried)
      BY <1>7, FaultSeen DEF Activate
    <2>3. ~ copy[c].named
      <3>1. faults = {}
        BY <1>7, FaultSeen DEF Activate
      <3>2. Unnamed /\ MayActivate
        BY <2>1, <3>1 DEF Inv, None, MayActivate
      <3> QED
        BY <1>7, <3>2 DEF Unnamed, Activate, At, Clients
    <2>4. tried.resource \in Resources
      BY <1>1, <1>5, NowType, ActivateFacts DEF Held, Made, Sane, Clusters
    <2>5. cluster' = tried.cluster
      BY <2>2 DEF ActivateOutcome, Outcome
    <2>6. PICK t : t = tried
      OBVIOUS
    <2> HIDE DEF tried
    <2>7. Grows /\ Fits(cluster', t.resource)
      BY <1>5, <2>3, <2>5, <2>6, NowType, DoActivateFits DEF tried
    <2>8. Activated(copy[c], t.resource) \in BOOLEAN
      BY DEF Activated
    <2>9. Outcome(c, t, Activated(copy[c], t.resource), "save")
      BY <2>2, <2>6 DEF ActivateOutcome
    <2> QED
      BY <1>3, <2>1, <2>4, <2>6, <2>7, <2>8, <2>9, OutcomeClimbs
  <1>8. CASE Update(c)
    <2> DEFINE tried == DoUpdate(cluster, copy[c], Now)
    <2>1. Updates(c, "save") /\ pc[c] = "update"
      BY <1>8 DEF Update, At
    <2>2. UpdateOutcome(c, tried, "save")
      BY <2>1, FaultSeen DEF Updates, Deletes
    <2>3. /\ tried.cluster = cluster /\ Fits(cluster, tried.resource)
          /\ copy[c].state = "ACTIVE" => tried.resource.state = "ACTIVE"
      BY <1>5, NowType, DoUpdateFits
    <2>4. copy[c].state # "absent"
      BY <1>1, <2>1 DEF Held, Busy
    <2>5. tried.resource \in Resources
      BY <1>1, <1>5, <2>4, NowType, DoUpdateFacts DEF Held, Quiet, Sane, Clusters
    <2>6. PICK t : t = tried
      OBVIOUS
    <2> HIDE DEF tried
    <2>7. cluster' = t.cluster /\ Outcome(c, t, ValidTransition(copy[c], t.resource), "save")
      BY <2>2, <2>6 DEF UpdateOutcome, Outcome
    <2>8. Grows /\ Fits(cluster', t.resource)
      BY <1>5, <2>3, <2>6, <2>7 DEF Grows, Sane
    <2>9. ValidTransition(copy[c], t.resource) \in BOOLEAN
      BY DEF ValidTransition
    <2>10. c = "block" => stage = "wait"
      BY <1>3, <2>1
    <2>11. c = "poll" => stage = "inside" /\ t.resource.state = "ACTIVE"
      BY <1>3, <2>1, <2>3, <2>6 DEF Climbs, PollClimbs
    <2> QED
      BY <1>3, <2>5, <2>6, <2>7, <2>8, <2>9, <2>10, <2>11, OutcomeClimbs
  <1>9. CASE Save(c)
    <2>1. pc[c] = "save" /\ cluster' = cluster
      BY <1>3, <1>9 DEF Save
    <2>2. CASE Saved(c)
      <3>1. Answer(c, copy[c], copy[c])
        BY <1>3, <2>2 DEF Saved
      <3>2. c = "block" => stage \in Asking
        BY <1>1, <2>1 DEF Held, Busy, Climbing
      <3>3. c = "block" /\ stage \in Keeps => copy[c].state = resource.state
        BY <2>1 DEF Climbs, BlockClimbs
      <3>4. c = "poll" => stage = "inside" /\ copy[c].state = "ACTIVE"
        BY <1>3, <2>1 DEF Climbs, PollClimbs
      <3>5. stage # "failed"
        BY DEF Climbing
      <3> QED
        BY <1>3, <1>5, <2>1, <3>1, <3>2, <3>3, <3>4, <3>5, AnswerClimbs
    <2>3. CASE Fails(c)
      <3>1. Raise(c, row)
        BY <1>3, <2>3 DEF Fails
      <3>2. Grows
        BY <1>5, <2>1 DEF Grows, Sane
      <3> QED
        BY <1>3, <3>1, <3>2, RaiseClimbs
    <2> QED
      BY <1>9, <2>2, <2>3, FaultSeen DEF Save
  <1> QED
    BY <1>6, <1>7, <1>8, <1>9

(***************************************************************************)
(* Once it has been left, or something has failed, that stays so.          *)
(***************************************************************************)
\* An answer, or a request that raises, does not lead back to the way to the body.
LEMMA StageBefore ==
  ASSUME Inv, Next, stage' \in Climbing
  PROVE  stage \in Climbing
  <1>1. ASSUME NEW c \in Clients, NEW R, NEW A, Answer(c, R, A),
               c = "block" /\ Working => stage \in Asking
        PROVE  stage \in Climbing
    BY <1>1, ClimbingFacts DEF Answer
  <1>2. ASSUME NEW c \in Clients, NEW R, Raise(c, R)
        PROVE  stage \in Climbing
    <2>1. stage' = stage \/ stage' = StageAfterError
      BY <1>2 DEF Raise
    <2> QED
      BY <2>1, ClimbingFacts DEF Climbing
  <1>3. CASE Outside \/ Link \/ BodyEnds
    <2>1. stage' = stage \/ stage = "link"
      BY <1>3 DEF Outside, WorkersReady, WorkersLost, Disappears, Removed, ClusterBecomes,
                  PipelineFails, PipelineOver, Killed, Link, BodyEnds, worker, Climbing
    <2> QED
      BY <2>1 DEF Climbing
  <1>4. ASSUME NEW c \in Clients, Begin(c)
        PROVE  stage \in Climbing
    <2>1. \/ UNCHANGED worker
          \/ Raise(c, row)
          \/ Answer(c, row, row) /\ (c = "block" => stage \in Asking)
      BY <1>4 DEF Begin, BlockRequest, PollRequest, RunnerRequest, CleanRequest, Get, NoRow,
                  DeactivateRequest, SaveRequest, AnswerRow, Read, Asking
    <2> QED
      BY <1>1, <1>2, <2>1 DEF worker
  <1>5. ASSUME NEW c \in Clients, Serves(c) \/ Crash(c) \/ ReplyLost(c)
        PROVE  stage \in Climbing
    <2>1. c = "block" /\ Busy(c) /\ Working => stage \in Asking
      BY DEF Inv, Held, Working
    <2>2. Busy(c)
      BY <1>5 DEF Serves, Activate, Deactivate, Update, Await, AwaitMore, ListFails, Save, Merge,
                  CleanFailed, ForceKill, Crash, ReplyLost, At, Busy
    <2>3. Fails(c) => stage \in Climbing
      BY <1>2 DEF Fails, worker
    <2>4. Saved(c) => stage \in Climbing
      BY <1>1, <2>1, <2>2 DEF Saved
    <2>5. ASSUME NEW tried, NEW legal, NEW step, Outcome(c, tried, legal, step)
          PROVE  stage \in Climbing
      BY <2>3, <2>5 DEF Outcome
    <2>6. CASE Activate(c)
      BY <2>5, <2>6 DEF Activate, ActivateOutcome
    <2>7. CASE Deactivate(c)
      BY <2>5, <2>7 DEF Deactivate, DeactivateOutcome
    <2>8. CASE Update(c) \/ Await(c)
      BY <2>5, <2>8 DEF Update, Await, Updates, UpdateOutcome
    <2>9. CASE AwaitMore(c) \/ ListFails(c) \/ Save(c) \/ Merge(c)
      BY <2>3, <2>4, <2>9 DEF AwaitMore, ListFails, Save, Merge, worker
    <2>10. CASE CleanFailed(c) \/ Crash(c) \/ ReplyLost(c)
      BY <1>2, <2>10 DEF CleanFailed, Crash, ReplyLost
    <2>11. CASE ForceKill(c)
      BY <1>1, <2>1, <2>2, <2>11 DEF ForceKill
    <2> QED
      BY <1>5, <2>6, <2>7, <2>8, <2>9, <2>10, <2>11 DEF Serves
  <1> QED
    BY <1>3, <1>4, <1>5 DEF Next

\* A pipeline that is over does not run again, and faults are not forgotten.
LEMMA CalmBefore ==
  ASSUME Inv, Next, Calm'
  PROVE  Calm
  <1>1. stage \in Climbing
    BY StageBefore DEF Calm
  <1>2. ASSUME NEW kind, Fault(kind) PROVE FALSE
    BY <1>2, FaultSeen DEF Calm
  <1>3. CASE Outside \/ Link \/ BodyEnds
    <2>1. pipeline = "running" /\ faults' = faults
      BY <1>2, <1>3
         DEF Outside, WorkersReady, WorkersLost, Disappears, Removed, ClusterBecomes,
             PipelineFails, PipelineOver, Killed, Link, BodyEnds, outer, Calm
    <2> QED
      BY <1>1, <2>1 DEF Calm
  <1>4. ASSUME NEW c \in Clients, Begin(c)
        PROVE  pipeline' = pipeline /\ faults' = faults
    BY <1>4 DEF Begin, BlockRequest, PollRequest, RunnerRequest, CleanRequest, Get, NoRow,
                DeactivateRequest, SaveRequest, AnswerRow, Read, outer
  <1>5. ASSUME NEW c \in Clients, Serves(c) \/ Crash(c) \/ ReplyLost(c)
        PROVE  pipeline' = pipeline /\ faults' = faults
    <2>1. CASE Activate(c) \/ Deactivate(c) \/ Update(c) \/ Await(c)
      BY <1>2, <2>1 DEF Activate, ActivateOutcome, Deactivate, DeactivateOutcome, Deletes,
                        Update, Await, Updates, UpdateOutcome, Outcome, outer
    <2>2. CASE ~ (Activate(c) \/ Deactivate(c) \/ Update(c) \/ Await(c))
      BY <1>2, <1>5, <2>2 DEF Serves, AwaitMore, ListFails, Save, Merge, CleanFailed, ForceKill,
                              Crash, ReplyLost, outer
    <2> QED
      BY <2>1, <2>2
  <1> QED
    BY <1>1, <1>3, <1>4, <1>5 DEF Next, Calm

(***************************************************************************)
(* The theorem.                                                            *)
(***************************************************************************)
\* What happens outside while nothing fails, and what the main thread does between
\* two requests.
LEMMA OutsideClimbs ==
  ASSUME Inv, Climbs, Outside \/ Link \/ BodyEnds, Calm'
  PROVE  Climbs'
  <1>1. CASE WorkersReady
    <2>1. /\ cluster = "starting" /\ cluster' = "up"
          /\ UNCHANGED <<row, resource, pc, copy, stage>>
      BY <1>1 DEF WorkersReady, ClusterBecomes, worker
    <2>2. AllFit'
      BY <2>1 DEF Climbs, AllFit, Fits, Sane
    <2> QED
      BY <2>1, <2>2 DEF Climbs, BlockClimbs, PollClimbs
  <1>2. CASE Link
    <2>1. /\ stage = "link" /\ stage' = "activate"
          /\ UNCHANGED <<cluster, row, resource, pc, copy>>
      BY <1>2 DEF Link
    <2> QED
      BY <2>1 DEF Climbs, AllFit, BlockClimbs, PollClimbs, Keeps
  <1>3. CASE Disappears
    BY <1>3 DEF Disappears, Climbs, AllFit, Sane
  <1>4. CASE WorkersLost \/ Removed
    BY <1>4, FaultSeen DEF WorkersLost, Removed, Calm
  <1>5. CASE PipelineFails \/ PipelineOver \/ Killed \/ BodyEnds
    BY <1>5 DEF PipelineFails, PipelineOver, Killed, BodyEnds, Calm, Climbing
  <1> QED
    BY <1>1, <1>2, <1>3, <1>4, <1>5 DEF Outside

\* The step of the proof.
LEMMA NextBody == Inv /\ BodyInv /\ [Next]_vars => BodyInv'
  <1> SUFFICES ASSUME Inv, BodyInv, [Next]_vars, Calm' PROVE Climbs'
    BY DEF BodyInv
  <1>1. CASE Next
    <2>1. Calm /\ Climbs
      BY <1>1, CalmBefore DEF BodyInv
    <2>2. CASE Outside \/ Link \/ BodyEnds
      BY <2>1, <2>2, OutsideClimbs
    <2>3. ASSUME NEW c \in Clients, Begin(c)
          PROVE  Climbs'
      BY <2>1, <2>3, BeginClimbs DEF Calm
    <2>4. ASSUME NEW c \in Clients, Serves(c)
          PROVE  Climbs'
      BY <2>1, <2>4, ServesClimbs DEF Calm
    <2>5. ASSUME NEW c \in Clients, Crash(c) \/ ReplyLost(c)
          PROVE  FALSE
      BY <2>5, FaultSeen DEF Crash, ReplyLost, Calm
    <2> QED
      BY <1>1, <2>2, <2>3, <2>4, <2>5 DEF Next
  <1>2. CASE UNCHANGED vars
    <2>1. UNCHANGED <<cluster, row, pipeline, stage, resource, pc, copy, faults>>
      BY <1>2 DEF vars, outer, worker
    <2> QED
      BY <2>1 DEF BodyInv, Calm, Climbs, AllFit, BlockClimbs, PollClimbs
  <1> QED
    BY <1>1, <1>2

LEMMA InitBody == Init => BodyInv
  <1> SUFFICES ASSUME Init PROVE Climbs
    BY DEF BodyInv
  <1>1. AllFit
    BY FitsNew DEF Init, AllFit, Sane
  <1>2. pc["block"] = "idle" /\ pc["poll"] = "idle" /\ pc["server"] = "idle" /\ stage = "create"
    BY DEF Init, Clients
  <1> QED
    BY <1>1, <1>2 DEF Climbs, BlockClimbs, PollClimbs

\* Whatever the thread that asks for updates saves while the body of the with block
\* (__enter__ to __exit__ of AbstractExternalResource) is run, and however long it takes
\* Kubernetes to start the workers: as long as the pipeline runs and nothing fails, the
\* body has its cluster, with all its workers, and the row says so and has its name.
THEOREM BodyHasClusterAlways == Spec => []BodyHasCluster
  <1>1. BodyInv => BodyHasCluster
    BY DEF BodyInv, BodyHasCluster, Calm, Climbing, Climbs, AllFit, Fits, PollClimbs
  <1> QED
    BY <1>1, InitBody, NextBody, Invariant, PTL DEF Spec
=============================================================================
