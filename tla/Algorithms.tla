------------------------------ MODULE Algorithms ------------------------------
(***************************************************************************)
(* sematic/utils/algorithms.py: the two graph algorithms that order runs.  *)
(* The operators are the loops of the code; what they should return is     *)
(* stated beside them.                                                     *)
(***************************************************************************)
EXTENDS Sequences, Naturals, FiniteSets, SequencesExt

None == 0      \* Python's None among the dependencies; the nodes are positive

\* The nodes in order.
Sorted(S) ==
  CHOOSE s \in [1..Cardinality(S) -> S] : \A i, j \in DOMAIN s : i < j => s[i] < s[j]

\* Bound: more turns than the loop takes.  It ends as every node is visited once,
\* and has at most that many nodes added to the queue.
Turns(nodes) == (Cardinality(nodes) + 1) * (Cardinality(nodes) + 1)

\* A turn of the loop of breadth_first_search: the first in the queue is visited,
\* unless it was, and its next elements queue up.
BreadthFirstTurn(search, next) ==
  LET visiting == Head(search.queue)
      queue == Tail(search.queue)
  IN  IF search.queue = <<>> THEN search
      ELSE IF visiting \in ToSet(search.visited) THEN [search EXCEPT !.queue = queue]
      ELSE [queue |-> queue \o next[visiting], visited |-> Append(search.visited, visiting)]

BreadthFirstSearch(start, next) ==
  LET turns[n \in 0..Turns(DOMAIN next)] ==
        IF n = 0 THEN [queue |-> start, visited |-> <<>>] ELSE BreadthFirstTurn(turns[n - 1], next)
  IN  turns[Turns(DOMAIN next)].visited

\* Mutant: one dependency that has been visited is enough.
HalfFreeNodes(dependencies) ==
  {n \in DOMAIN dependencies : Len(dependencies[n]) <= 1 \/ ToSet(dependencies[n]) \subseteq {None}}

\* The nodes that have no dependency left.
FreeNodes(dependencies) == {n \in DOMAIN dependencies : ToSet(dependencies[n]) \subseteq {None}}

\* deps.remove: only the first of them goes.
RemoveDependency(dependencies, id) ==
  [n \in DOMAIN dependencies |-> RemoveFirst(dependencies[n], id)]

\* topological_sort is a breadth-first search whose next elements are found
\* by taking the visited node out of everybody's dependencies.
TopologicalTurn(search) ==
  LET visiting == Head(search.queue)
      queue == Tail(search.queue)
      left == RemoveDependency(search.left, visiting)
  IN  IF search.queue = <<>> THEN search
      ELSE IF visiting \in ToSet(search.visited) THEN [search EXCEPT !.queue = queue]
      ELSE [queue |-> queue \o Sorted(FreeNodes(left)), left |-> left,
            visited |-> Append(search.visited, visiting)]

TopologicalSort(dependencies) ==
  LET start == [queue |-> Sorted(FreeNodes(dependencies)), left |-> dependencies, visited |-> <<>>]
      turns[n \in 0..Turns(DOMAIN dependencies)] ==
        IF n = 0 THEN start ELSE TopologicalTurn(turns[n - 1])
  IN  turns[Turns(DOMAIN dependencies)].visited

\* What a topological order is: every node once, after all that it depends on.
IsTopologicalOrder(order, dependencies) ==
  /\ ToSet(order) = DOMAIN dependencies /\ Len(order) = Cardinality(DOMAIN dependencies)
  /\ \A i \in DOMAIN order :
       ToSet(dependencies[order[i]]) \ {None} \subseteq {order[j] : j \in 1..(i - 1)}
=============================================================================
