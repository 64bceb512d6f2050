--------------------------- MODULE ResourceStates ---------------------------
(***************************************************************************)
(* What an external resource may become (AbstractExternalResource in       *)
(* sematic/plugins/abstract_external_resource.py), and what the RayCluster *)
(* plug-in makes of it, given the state of its cluster                     *)
(* (sematic/ee/plugins/external_resource/ray/cluster.py).                  *)
(*                                                                         *)
(* A resource is an immutable value.  It is activated on the server here:  *)
(* managed_by is RESOLVER only with the other runners.  The messages, the  *)
(* id and the settings of the cluster are left out.                        *)
(***************************************************************************)
EXTENDS Naturals, FiniteSets

\* RayCluster objects in Kubernetes (external): whether there is one, and
\* whether enough of its workers are ready.
Clusters == {"none", "starting", "up", "down", "deleting", "gone"}
Alive    == {"starting", "up", "down", "deleting"}

\* A row is "absent" until it is first saved.
AllowedTransitions ==
  [absent       |-> {"CREATED"},
   CREATED      |-> {"ACTIVATING", "DEACTIVATING", "DEACTIVATED", "FORCE_KILLED"},
   ACTIVATING   |-> {"ACTIVE", "DEACTIVATING", "FORCE_KILLED"},
   ACTIVE       |-> {"DEACTIVATING", "FORCE_KILLED"},
   DEACTIVATING |-> {"DEACTIVATED", "FORCE_KILLED"},
   DEACTIVATED  |-> {},
   FORCE_KILLED |-> {}]
ResourceState == DOMAIN AllowedTransitions \ {"absent"}

IsTerminal(state) == AllowedTransitions[state] = {}

\* named: _cluster_name is set.  time: last_update_epoch_time.
Resources == [state : ResourceState \cup {"absent"}, managed_by : {"UNKNOWN", "SERVER"},
              named : BOOLEAN, time : Nat]

NewResource == [state |-> "CREATED", managed_by |-> "UNKNOWN", named |-> FALSE, time |-> 0]

\* Mutant: nothing is said of the states.
AnyTransition(resource, updated) ==
  /\ resource.time <= updated.time
  /\ resource.managed_by \in {updated.managed_by, "UNKNOWN"}

\* validate_transition
ValidTransition(resource, updated) ==
  /\ \/ resource.state = updated.state
     \/ updated.state \in AllowedTransitions[resource.state]
  /\ resource.time <= updated.time
  /\ resource.managed_by \in {updated.managed_by, "UNKNOWN"}

WithStatus(resource, state, now) == [resource EXCEPT !.state = state, !.time = now]

(***************************************************************************)
(* A call of the plug-in is tried: what becomes of the cluster and of the  *)
(* resource.                                                               *)
(***************************************************************************)
Tried(cluster, resource) == [cluster |-> cluster, resource |-> resource]

\* Mutant: the deletion is taken for done.
HastyDeactivation(cluster, resource, now) ==
  IF resource.named
  THEN Tried(IF cluster = "gone" THEN "gone" ELSE "deleting",
             WithStatus(resource, "DEACTIVATED", now))
  ELSE Tried(cluster, WithStatus(resource,
         IF resource.state = "DEACTIVATING" THEN "DEACTIVATED" ELSE "DEACTIVATING", now))

\* _continue_deactivation: without a name there is no cluster to delete.  The
\* API answers 404 for a cluster that is gone.
ContinueDeactivation(cluster, resource, now) ==
  LET next == IF \/ resource.named /\ cluster = "gone"
                 \/ ~ resource.named /\ resource.state = "DEACTIVATING"
              THEN "DEACTIVATED" ELSE "DEACTIVATING"
  IN  Tried(IF resource.named /\ cluster # "gone" THEN "deleting" ELSE cluster,
            WithStatus(resource, next, now))

\* It catches any other error of the deletion.
DeletionFails(cluster, resource, now) ==
  Tried(cluster, WithStatus(resource, "DEACTIVATING", now))

\* activate, _do_activate, _request_cluster.  The name of the cluster is made
\* of the id of the resource: one that is still there is not made twice.
DoActivate(cluster, resource, now) ==
  LET managed == [resource EXCEPT !.managed_by = "SERVER", !.time = now]
  IN  IF cluster \in Alive
      THEN ContinueDeactivation(cluster, managed, now)
      ELSE Tried("starting", [WithStatus(managed, "ACTIVATING", now) EXCEPT !.named = TRUE])

\* Mutant: nobody manages it.
CannotActivateQuietly(cluster, resource, now) ==
  Tried(cluster, WithStatus(resource, "DEACTIVATING", now))

\* It gives up before it has made a cluster: there is no Kuberay, no namespace
\* or no run.
CannotActivate(cluster, resource, now) ==
  Tried(cluster, [WithStatus(resource, "DEACTIVATING", now) EXCEPT !.managed_by = "SERVER"])

\* The request for a cluster fails.
CreateFails(cluster, resource, now) ==
  ContinueDeactivation(cluster, [resource EXCEPT !.managed_by = "SERVER"], now)

\* deactivate, _do_deactivate
DoDeactivate(cluster, resource, now) ==
  IF resource.state = "CREATED"
  THEN Tried(cluster, WithStatus(resource, "DEACTIVATED", now))
  ELSE ContinueDeactivation(cluster, resource, now)

\* Mutant: a cluster that is there is ready.
HastyUpdate(cluster, resource, now) ==
  CASE resource.state = "ACTIVATING" -> Tried(cluster, WithStatus(resource, "ACTIVE", now))
    [] resource.state = "DEACTIVATING" -> ContinueDeactivation(cluster, resource, now)
    [] OTHER -> Tried(cluster, WithStatus(resource, resource.state, now))

\* _validate_ray counts the workers that are ready.
Validated(cluster) == cluster = "up"

\* update, _do_update
DoUpdate(cluster, resource, now) ==
  CASE resource.state = "ACTIVATING" ->
         Tried(cluster,
               WithStatus(resource, IF Validated(cluster) THEN "ACTIVE" ELSE "ACTIVATING", now))
    [] resource.state = "ACTIVE" /\ Validated(cluster) ->
         Tried(cluster, WithStatus(resource, "ACTIVE", now))
    [] resource.state = "ACTIVE" /\ ~ Validated(cluster) ->
         ContinueDeactivation(cluster, resource, now)
    [] resource.state = "DEACTIVATING" -> ContinueDeactivation(cluster, resource, now)
    [] OTHER -> Tried(cluster, WithStatus(resource, resource.state, now))

(***************************************************************************)
(* The final methods check what the plug-in returns, after it has acted.   *)
(***************************************************************************)
Activated(resource, updated) ==
  ValidTransition(resource, updated) /\ updated.state \in {"ACTIVATING", "DEACTIVATING"}

Deactivated(resource, updated) ==
  /\ ValidTransition(resource, updated)
  /\ resource.state = "CREATED" \/ updated.state = "DEACTIVATING"
=============================================================================
