------------------------------ MODULE RerunGraph ------------------------------
(***************************************************************************)
(* Rerunning a pipeline (sematic/graph.py, LocalRunner._seed_from_existing *)
(* and rerun_resolution_endpoint): the runs of an earlier execution,       *)
(* whatever became of it, are cloned into futures or read back as futures, *)
(* and the runner goes on with these.                                      *)
(*                                                                         *)
(* The runner itself is in StateMachineRunner.  Here a function is called  *)
(* in one step: it returns a value or futures, or raises.                  *)
(***************************************************************************)
EXTENDS Algorithms, FutureStates

CONSTANTS
  MaxRuns,        \* Bound: runs that are ever made
  MaxSubgraph,    \* Bound: futures that one call returns
  TakesTwice      \* whether a function may take one future for two arguments

Runs == 1..MaxRuns
Root == 1
NoRun == 0

ConstantsAssumption ==
  /\ MaxRuns \in Nat \ {0} /\ MaxSubgraph \in Nat \ {0} /\ TakesTwice \in BOOLEAN
ASSUME ConstantsAssumption

VARIABLES
  graph,      \* the runs, and once it has begun the futures of the rerun
  stage,      \* the original execution, the rerun, or its refusal
  mode,       \* how the pipeline is run again
  from,       \* rerun_from
  original,   \* the runs as they were when they were cloned
  called,     \* the functions that the rerun has called
  again       \* those that had returned futures, which the rerun had, too

vars == <<graph, stage, mode, from, original, called, again>>

RerunMode == {"SPECIFIC_RUN", "CONTINUE", "REENTER"}

\* made_of: which of the original calls the value was made of.
NoRuns == [state |-> "NONE", parent |-> NoRun, nested |-> NoRun, args |-> <<>>, made_of |-> {}]
Created == [NoRuns EXCEPT !.state = "CREATED"]

Made(G) == {r \in Runs : G[r].state # "NONE"}
ArgsOf(G, r) == ToSet(G[r].args)
Children(G, r) == {c \in Made(G) : G[c].parent = r}

Init ==
  /\ graph = [r \in Runs |-> IF r = Root THEN Created ELSE NoRuns]
  /\ original = [r \in Runs |-> NoRuns]
  /\ stage = "original" /\ mode = "none" /\ from = NoRun /\ called = {} /\ again = {}

Graphs == [Runs -> [state : FutureState \cup {"NONE"}, parent : Runs \cup {NoRun}, nested : Runs \cup {NoRun},
                    args : Seq(Runs), made_of : SUBSET Runs]]
TypeOK ==
  /\ graph \in Graphs /\ original \in Graphs
  /\ stage \in {"original", "over", "rerun", "refused"}
  /\ mode \in RerunMode \cup {"none", "all"} /\ from \in Runs \cup {NoRun}
  /\ called \subseteq Runs /\ again \subseteq called

-----------------------------------------------------------------------------
(* The execution of a pipeline. *)

Executing == stage \in {"original", "rerun"} /\ ~ IsTerminal(graph[Root].state)

\* The runs that are reached from some of them, by one step to the next after the other.
Reached(next, start) ==
  {r \in Runs : \A S \in SUBSET Runs : start \subseteq S /\ (\A s \in S : next[s] \subseteq S) => r \in S}

Parents(G) == [r \in Runs |-> {G[r].parent} \ {NoRun}]
Ancestors(G, r) == Reached(Parents(G), Parents(G)[r])

Executable(r) == graph[r].state = "CREATED" /\ \A a \in ArgsOf(graph, r) : graph[a].state = "RESOLVED"

\* The call of a function, given the calls that made its arguments, and made
\* it: its parents' functions chose it and passed on what they were given.
CallOf(r) ==
  LET given(f) == UNION {graph[a].made_of : a \in ArgsOf(graph, f)} IN
  (IF stage = "original" THEN {r} ELSE {}) \cup given(r)
    \cup UNION {given(p) \cup {p} : p \in Ancestors(graph, r) \ called}

Calls(r) ==
  /\ Executing /\ Executable(r)
  /\ called' = IF stage = "rerun" THEN called \cup {r} ELSE called
  /\ again' = IF stage = "rerun" /\ Children(graph, r) # {} THEN again \cup {r} ELSE again
  /\ UNCHANGED <<stage, mode, from, original>>

ReturnsValue(r) ==
  /\ Calls(r)
  /\ graph' = [graph EXCEPT ![r].state = "RESOLVED", ![r].made_of = CallOf(r)]

\* The arguments of a call that returns the futures S, the last of them: every
\* other one is an argument of a later one.
Arguments(S) ==
  LET Args(s) == UNION {[1..n -> {a \in S : a < s}] : n \in 0..2} IN
  {A \in [S -> UNION {Args(s) : s \in S}] :
     /\ \A s \in S : A[s] \in Args(s)
     /\ \A s \in S : s = Max(S) \/ \E t \in S : s \in ToSet(A[t])
     /\ \A s \in S : Len(A[s]) = 2 => IF TakesTwice THEN A[s][1] <= A[s][2] ELSE A[s][1] < A[s][2]}

ReturnsFutures(r) ==
  /\ Calls(r)
  /\ \E n \in 1..MaxSubgraph :
       LET last == Max(Made(graph))
           S == (last + 1)..(last + n)
       IN  /\ last + n <= MaxRuns
           /\ \E A \in Arguments(S) :
                graph' = [f \in Runs |->
                            IF f \in S THEN [Created EXCEPT !.parent = r, !.args = A[f]]
                            ELSE IF f = r THEN [graph[r] EXCEPT !.state = "RAN", !.nested = Max(S)]
                            ELSE graph[f]]

\* _run_nested_future
Bubbles(r) ==
  /\ Executing
  /\ graph[r].state = "RAN" /\ graph[graph[r].nested].state = "RESOLVED"
  /\ graph' = [graph EXCEPT ![r].state = "RESOLVED",
                            ![r].made_of = graph[graph[r].nested].made_of \cup
                                             (IF r \in called THEN {} ELSE {r})]
  /\ UNCHANGED <<stage, mode, from, original, called, again>>

\* _fail_future_and_parents, _move_runs_to_terminal_state
Raises(r) ==
  /\ stage = "original" /\ Executing /\ Executable(r)
  /\ graph' = [f \in Runs |->
                 [graph[f] EXCEPT !.state =
                    IF f = r THEN "FAILED"
                    ELSE IF f \in Ancestors(graph, r) THEN "NESTED_FAILED"
                    ELSE IF @ = "NONE" \/ IsTerminal(@) THEN @ ELSE "CANCELED"]]
  /\ stage' = "over"
  /\ UNCHANGED <<mode, from, original, called, again>>

Cancel ==
  /\ stage = "original" /\ Executing
  /\ graph' = [f \in Runs |->
                 [graph[f] EXCEPT !.state = IF @ = "NONE" \/ IsTerminal(@) THEN @ ELSE "CANCELED"]]
  /\ stage' = "over"
  /\ UNCHANGED <<mode, from, original, called, again>>

-----------------------------------------------------------------------------
(* The order of the runs. *)

\* The run sorters, with the runs that an edge connects a run to: one edge per
\* argument, and one for the output of a run that nobody takes.
ExecutionOrder(G, layer) ==
  TopologicalSort([r \in layer |-> IF G[r].args = <<>> THEN <<None>> ELSE G[r].args])

Destinations(G, r) ==
  LET edges == {e \in Made(G) \X (1..2) : e[2] \in DOMAIN G[e[1]].args /\ G[e[1]].args[e[2]] = r}
  IN  IF edges = {} THEN <<None>> ELSE [k \in 1..Cardinality(edges) |-> SetToSeq(edges)[k][1]]

ReverseExecutionOrder(G, layer) == TopologicalSort([r \in layer |-> Destinations(G, r)])

\* _sorted_run_ids_by_layer
SortedRunIdsByLayer(layers) == BreadthFirstSearch(<<Root>>, layers)

ByExecution(G) ==
  SortedRunIdsByLayer([r \in Runs |-> ExecutionOrder(G, Children(G, r))])
ByReverseExecution(G) ==
  SortedRunIdsByLayer([r \in Runs |-> ReverseExecutionOrder(G, Children(G, r))])

-----------------------------------------------------------------------------
(* The clone. *)

Descendants(G, r) == Reached([p \in Runs |-> Children(G, p)], Children(G, r))

Takers(G) == [r \in Runs |-> {t \in Made(G) : r \in ArgsOf(G, t)}]
Downstream(G, r) == Reached(Takers(G), Takers(G)[r])

\* Mutant: what the run's ancestors feed is not reset.
ResetNearby(G, r) == {r} \cup Ancestors(G, r) \cup Downstream(G, r)

\* Mutant: the whole layers of the run and of its ancestors are reset.
ResetLayers(G, r) ==
  {r} \cup UNION {Children(G, p) \cup {p} : p \in Ancestors(G, r)}

\* _get_skip_reset_run_ids with reset_from: the run, its ancestors, and
\* whatever is downstream of any of these is reset, ...
Reset(G, r) ==
  LET path == {r} \cup Ancestors(G, r) IN path \cup UNION {Downstream(G, p) : p \in path}

\* Mutant: only what these functions returned, not what that returned in turn.
SkipChildren(G, r) ==
  LET path == {r} \cup Ancestors(G, r)
  IN  Children(G, r) \cup UNION {Children(G, d) : d \in UNION {Downstream(G, p) : p \in path}}

\* ... and what the run, and what is downstream of the path, had made is left out.
Skip(G, r) ==
  LET path == {r} \cup Ancestors(G, r)
  IN  Descendants(G, r) \cup UNION {Descendants(G, d) : d \in UNION {Downstream(G, p) : p \in path}}

\* ... and without it.
ResetUnfinished(G) ==
  {r \in ToSet(ByExecution(G)) : G[r].state \notin {"RESOLVED", "RAN", "NESTED_FAILED"}}

\* The nested future of a clone: the clone of the run's, if there is one.
NestedWithin(G, runs, r) == IF G[r].nested \in runs THEN G[r].nested ELSE NoRun

\* Mutant: a run that was not reset keeps its state.
CloneWithState(G, runs, reset) ==
  [r \in Runs |->
     IF r \notin runs THEN NoRuns
     ELSE IF r \notin reset THEN G[r]
     ELSE LET nested == NestedWithin(G, runs, r) IN
          [G[r] EXCEPT !.state = IF nested \in reset THEN "RAN" ELSE "CREATED",
                       !.nested = nested, !.made_of = {}]]

\* _clone_future for all of them: a clone is CREATED, RESOLVED with the value
\* of its run, or RAN when its nested future has been reset.
Clone(G, runs, reset) ==
  [r \in Runs |->
     IF r \notin runs THEN NoRuns
     ELSE LET nested == NestedWithin(G, runs, r) IN
          IF G[r].state = "RESOLVED" /\ r \notin reset THEN [G[r] EXCEPT !.nested = nested]
          ELSE [G[r] EXCEPT !.state = IF nested \in reset THEN "RAN" ELSE "CREATED",
                            !.nested = nested, !.made_of = {}]]

\* clone_futures(reset_from), set_root_future_id
CloneFrom(G, r) ==
  Clone(G, (ToSet(ByExecution(G)) \ Skip(G, r)) \cap ToSet(ByReverseExecution(G)), Reset(G, r))

-----------------------------------------------------------------------------
(* The pipeline is run again. *)

\* input_artifacts_ready
InputArtifactsReady(r) == \A a \in ArgsOf(graph, r) : graph[a].state = "RESOLVED"

Seed(how, r, G) ==
  /\ stage \in {"original", "over"}
  /\ stage' = "rerun" /\ mode' = how /\ from' = r /\ graph' = G /\ original' = graph
  /\ UNCHANGED <<called, again>>

\* "Not all futures duplicated"
Refuse(how) ==
  /\ stage \in {"original", "over"}
  /\ stage' = "refused" /\ mode' = how /\ from' = Root
  /\ UNCHANGED <<graph, original, called, again>>

AllSorted == ToSet(ByExecution(graph)) = Made(graph)

\* rerun_resolution_endpoint without rerun_from: clone_root_run.
RerunAll == Seed("all", Root, [r \in Runs |-> IF r = Root THEN Created ELSE NoRuns])

RerunFrom(r) == r \in Made(graph) /\ InputArtifactsReady(r) /\ Seed("SPECIFIC_RUN", r, CloneFrom(graph, r))

Continue ==
  IF AllSorted
  THEN Seed("CONTINUE", Root,
            Clone(graph, Made(graph) \cap ToSet(ByReverseExecution(graph)), ResetUnfinished(graph)))
  ELSE Refuse("CONTINUE")

\* to_future_graph: the runner's pod was evicted.
Reenter ==
  /\ stage = "original" /\ ~ IsTerminal(graph[Root].state)
  /\ IF AllSorted
     THEN Seed("REENTER", Root, [r \in Runs |-> IF r \in ToSet(ByReverseExecution(graph))
                                                THEN graph[r] ELSE NoRuns])
     ELSE Refuse("REENTER")

Run == \E r \in Runs : ReturnsValue(r) \/ ReturnsFutures(r) \/ Bubbles(r)

Next ==
  \/ Run
  \/ \E r \in Runs : Raises(r)
  \/ Cancel
  \/ RerunAll \/ Continue \/ Reenter
  \/ \E r \in Runs : RerunFrom(r)

Spec == Init /\ [][Next]_vars

-----------------------------------------------------------------------------
(* Properties. *)

\* The runs of a layer are put in an order in which every run comes after all
\* the runs whose outputs it takes, and in one in which it comes before them:
\* the clones are made in the first, and looked for by the runner in the second.
LayersAreSorted ==
  stage \in {"original", "over"} =>
    \A p \in Runs :
      LET layer == Children(graph, p) IN
      /\ IsTopologicalOrder(ExecutionOrder(graph, layer), [r \in layer |-> graph[r].args])
      /\ IsTopologicalOrder(ReverseExecutionOrder(graph, layer), [r \in layer |-> Destinations(graph, r)])

\* A rerun from a run has no value, its own or one of any other run, that the
\* original call of that run's function had a part in: what is downstream of
\* it, of its parents, or inside of any of these is computed again.
NothingStale ==
  stage = "rerun" /\ mode = "SPECIFIC_RUN" =>
    \A r \in Made(graph) : graph[r].state = "RESOLVED" => from \notin graph[r].made_of

\* The futures that a rerun starts with make sense to the runner: whatever a
\* future takes or belongs to is there, one that is RAN has the future that it
\* waits for, and the root is the first.
GraphIsClosed ==
  stage = "rerun" =>
    /\ graph[Root].state # "NONE"
    /\ \A r \in Made(graph) :
         /\ ArgsOf(graph, r) \cup ({graph[r].parent} \ {NoRun}) \subseteq Made(graph)
         /\ graph[r].state = "RAN" => graph[r].nested \in Made(graph)

\* The rerun of a pipeline that succeeded makes no future that it has already:
\* the functions that it calls again are those whose futures were left out.
NothingTwice ==
  original[Root].state = "RESOLVED" => again = {}

\* A rerun whose functions return always finds something to do until its root
\* is resolved: no clone waits for one that is never going to be resolved.
RerunGoesOn ==
  stage = "rerun" /\ graph[Root].state # "RESOLVED" =>
    \E r \in Runs :
      \/ Executable(r)
      \/ graph[r].state = "RAN" /\ graph[graph[r].nested].state = "RESOLVED"

\* A runner whose pod was evicted finds all of its futures again.
PicksUp == ~ (stage = "refused" /\ mode = "REENTER")
=============================================================================
