-------------------------- MODULE RerunGraphProofs --------------------------
(***************************************************************************)
(* Theorems about rerunning a pipeline: the order of the runs, and what    *)
(* is cloned, for any number of runs and graphs of any shape.              *)
(***************************************************************************)
EXTENDS RerunGraph, FiniteSetTheorems, SequenceTheorems, TLAPS

-----------------------------------------------------------------------------
(* The inductive invariant.                                                   *)

\* The graph of runs, or of futures: a layer's runs take only earlier ones of it.
Shaped(G) ==
  /\ Root \in Made(G) /\ G[Root].parent = NoRun
  /\ \A r \in Made(G) :
       /\ r # Root => G[r].parent \in Made(G) /\ G[r].parent < r
       /\ \A a \in ArgsOf(G, r) : a \in Made(G) /\ a < r /\ G[a].parent = G[r].parent
       /\ G[r].nested \in Children(G, r) \cup {NoRun}
       /\ Len(G[r].args) <= 2 /\ (~ TakesTwice => IsInjective(G[r].args))
Blank(G) == \A r \in Runs \ Made(G) : G[r] = NoRuns
Live(G) == \A r \in Made(G) : /\ G[r].state \in {"CREATED", "RAN", "RESOLVED"}
                              /\ G[r].state = "RAN" => G[r].nested # NoRun
FreshAreAlone(G) == \A r \in Made(G) : G[r].state = "CREATED" => Children(G, r) = {}

\* What an execution leaves behind: a function's futures all lead to the last of
\* them, nothing is called before its arguments are resolved, or resolved before
\* all that it returned, and what a call has had a part in would be reset or left
\* out in a rerun from it.
Affected(G, x) == Reset(G, x) \cup Skip(G, x)
LeadOn(G) == \A r \in Made(G) \ {Root} :
               r = G[G[r].parent].nested \/ \E t \in Made(G) : r \in ArgsOf(G, t)
Executed(G) ==
  /\ FreshAreAlone(G) /\ LeadOn(G)
  /\ \A r \in Made(G) :
       /\ Children(G, r) # {} => G[r].nested # NoRun
       /\ G[r].state \in {"RAN", "RESOLVED"} => \A a \in ArgsOf(G, r) : G[a].state = "RESOLVED"
       /\ G[r].state = "RESOLVED" => \A c \in Children(G, r) : G[c].state = "RESOLVED"
       /\ \A x \in G[r].made_of : x \in Made(G) /\ r \in Affected(G, x)

\* Nothing of the function that is called again is left in a rerun from it.
Renewed ==
  /\ \A r \in Runs : from \notin graph[r].made_of
  /\ Children(graph, from) # {} \/ graph[from].state = "RAN" => from \in called

RerunInv ==
  /\ TypeOK /\ Blank(graph)
  /\ stage # "rerun" =>
       /\ Shaped(graph) /\ Executed(graph) /\ called = {} /\ again = {} /\ original[Root].state = "NONE"
       /\ stage = "original" => Live(graph)
  /\ stage = "rerun" =>
       /\ Live(graph) /\ from \in Runs /\ (mode = "SPECIFIC_RUN" => Renewed)
       /\ ~ TakesTwice => /\ Shaped(graph)
                          /\ original[Root].state = "RESOLVED" => again = {} /\ FreshAreAlone(graph)

-----------------------------------------------------------------------------
(* Numbers, sequences and repeated steps.                                     *)

\* A set of numbers up to a bound has a least one.
LEMMA LeastNumber ==
  ASSUME NEW n \in Nat, NEW S \in SUBSET (0..n), S # {}
  PROVE  \E m \in S : \A k \in S : m <= k
  <1> DEFINE Up == {0..k : k \in S}
  <1>1. IsWellFoundedOn(StrictSubsetOrdering(0..n), FiniteSubsetsOf(0..n))
    BY FS_StrictSubsetOrderingWellFounded
  <1>2. Up \subseteq FiniteSubsetsOf(0..n) /\ Up # {}
    <2>1. \A k \in S : IsFiniteSet(0..k) /\ 0..k \subseteq 0..n
      BY FS_Interval
    <2> QED
      BY <2>1 DEF FiniteSubsetsOf
  <1>3. PICK X \in Up : \A Y \in Up : ~ (<<Y, X>> \in StrictSubsetOrdering(0..n))
    <2> HIDE DEF Up
    <2> QED
      BY <1>1, <1>2, WFMin
  <1>4. PICK m \in S : X = 0..m
    BY <1>3
  <1>5. ASSUME NEW k \in S, k < m PROVE FALSE
    <2>1. 0..k \subseteq 0..m /\ 0..k # 0..m
      BY <1>5
    <2>2. 0..k \in SUBSET (0..n) /\ 0..m \in SUBSET (0..n) /\ 0..k \in Up
      BY <1>2
    <2> QED
      BY <1>3, <1>4, <2>1, <2>2 DEF StrictSubsetOrdering
  <1> QED
    BY <1>5

\* What holds of 0, and of each number that follows one of which it holds, holds up to the bound.
LEMMA UpTo ==
  ASSUME NEW n \in Nat, NEW P, 0 \in P, \A i \in 0..n : i # 0 /\ i - 1 \in P => i \in P
  PROVE  0..n \subseteq P
  <1> DEFINE Bad == (0..n) \ P
  <1> SUFFICES ASSUME Bad # {} PROVE FALSE
    OBVIOUS
  <1>1. Bad \in SUBSET (0..n)
    OBVIOUS
  <1>2. PICK m \in Bad : \A k \in Bad : m <= k
    <2> HIDE DEF Bad
    <2> QED
      BY <1>1, LeastNumber
  <1>3. m \in 0..n /\ m # 0 /\ m - 1 \in 0..n
    BY <1>2
  <1>4. m - 1 \in P
    BY <1>2, <1>3
  <1> QED
    BY <1>2, <1>3, <1>4

\* A step that is repeated n times, as a function of the number of times.
Iterates(h, n, start, step) == h = [i \in 0..n |-> IF i = 0 THEN start ELSE step[h[i - 1]]]

LEMMA IteratesExists ==
  ASSUME NEW n \in Nat, NEW S, NEW start \in S, NEW step \in [S -> S]
  PROVE  \E h \in [0..n -> S] : Iterates(h, n, start, step)
  <1> DEFINE Good == {m \in 0..n : \E h \in [0..m -> S] : Iterates(h, m, start, step)}
  <1>1. 0 \in Good
    <2>1. [i \in 0..0 |-> start] \in [0..0 -> S]
      OBVIOUS
    <2>2. Iterates([i \in 0..0 |-> start], 0, start, step)
      BY DEF Iterates
    <2> QED
      BY <2>1, <2>2
  <1>2. ASSUME NEW m \in 0..n, m # 0, m - 1 \in Good PROVE m \in Good
    <2>1. PICK h \in [0..(m - 1) -> S] : Iterates(h, m - 1, start, step)
      BY <1>2
    <2> DEFINE k == [i \in 0..m |-> IF i = 0 THEN start ELSE step[h[i - 1]]]
    <2>2. \A i \in 0..m : i # 0 => i - 1 \in 0..(m - 1)
      BY <1>2
    <2>3. k \in [0..m -> S]
      BY <2>1, <2>2
    <2>4. \A i \in 0..(m - 1) : k[i] = h[i]
      <3> SUFFICES ASSUME NEW i \in 0..(m - 1) PROVE k[i] = h[i]
        OBVIOUS
      <3>1. i \in 0..m
        BY <1>2
      <3>2. h[i] = IF i = 0 THEN start ELSE step[h[i - 1]]
        BY <2>1, Zenon DEF Iterates
      <3>3. k[i] = IF i = 0 THEN start ELSE step[h[i - 1]]
        BY <3>1, Zenon
      <3> QED
        BY <3>2, <3>3
    <2>5. Iterates(k, m, start, step)
      <3>1. \A i \in 0..m : i # 0 => k[i - 1] = h[i - 1]
        BY <2>2, <2>4
      <3> QED
        BY <3>1 DEF Iterates
    <2> HIDE DEF k
    <2> QED
      BY <2>3, <2>5
  <1>3. 0..n \subseteq Good
    <2> HIDE DEF Good
    <2> QED
      BY <1>1, <1>2, UpTo
  <1>4. n \in Good
    BY <1>3
  <1> QED
    BY <1>4

\* Counted from the bottom, the elements of a finite set of numbers are its first, second ...
LEMMA Ranked ==
  ASSUME NEW X \in SUBSET Nat, IsFiniteSet(X)
  PROVE  \E s \in [1 .. Cardinality(X) -> X] : \A m, n \in 1 .. Cardinality(X) : m < n => s[m] < s[n]
  <1> DEFINE n == Cardinality(X)
             Upto(x) == {y \in X : y <= x}
             Rank(x) == Cardinality(Upto(x))
             r == [x \in X |-> Rank(x)]
  <1>1. n \in Nat /\ IsFiniteSet(1 .. n) /\ Cardinality(1 .. n) = n
    BY FS_CardinalityType, FS_Interval
  <1>2. ASSUME NEW x \in X PROVE Rank(x) \in 1 .. n /\ IsFiniteSet(Upto(x))
    <2>1. Upto(x) \in SUBSET X /\ x \in Upto(x)
      OBVIOUS
    <2>2. IsFiniteSet(Upto(x)) /\ Cardinality(Upto(x)) <= n
      BY <2>1, FS_Subset
    <2>3. Cardinality(Upto(x)) \in Nat /\ Cardinality(Upto(x)) # 0
      BY <2>1, <2>2, FS_EmptySet, FS_CardinalityType
    <2> QED
      BY <1>1, <2>2, <2>3
  <1>3. ASSUME NEW x \in X, NEW y \in X, x < y PROVE Rank(x) < Rank(y)
    <2>1. Upto(x) \in SUBSET Upto(y) /\ Upto(x) # Upto(y)
      <3>1. x \in Nat /\ y \in Nat
        OBVIOUS
      <3>2. \A z \in X : z \in Nat /\ (z <= x => z <= y)
        BY <1>3, <3>1
      <3>3. y \in Upto(y) /\ y \notin Upto(x)
        BY <1>3, <3>1
      <3> QED
        BY <3>2, <3>3
    <2>2. IsFiniteSet(Upto(y))
      BY <1>2
    <2>3. Cardinality(Upto(x)) <= Cardinality(Upto(y)) /\ Cardinality(Upto(x)) # Cardinality(Upto(y))
      BY <2>1, <2>2, FS_Subset
    <2>4. Rank(x) \in 1 .. n /\ Rank(y) \in 1 .. n
      BY <1>2
    <2> HIDE DEF Upto, n
    <2> QED
      BY <1>1, <2>3, <2>4
  <1> HIDE DEF Rank, n
  <1>4. r \in [X -> 1 .. n] /\ \A x, y \in X : r[x] = r[y] => x = y
    <2>1. ASSUME NEW x \in X, NEW y \in X, Rank(x) = Rank(y) PROVE x = y
      <3>1. x \in Nat /\ y \in Nat /\ Rank(x) \in 1 .. n
        BY <1>2
      <3>2. ~ (x < y) /\ ~ (y < x)
        BY <1>1, <1>3, <2>1, <3>1
      <3> QED
        BY <3>1, <3>2
    <2> QED
      BY <1>2, <2>1
  <1>5. r \in Injection(X, 1 .. n)
    BY <1>4 DEF Injection, IsInjective
  <1>6. r \in Surjection(X, 1 .. n)
    <2>1. Cardinality(X) = Cardinality(1 .. n)
      BY <1>1 DEF n
    <2> QED
      BY <1>1, <1>5, <2>1, FS_Injection
  <1>7. \A m \in 1 .. n : \E x \in X : Rank(x) = m
    BY <1>6 DEF Surjection
  <1> DEFINE s == [m \in 1 .. n |-> CHOOSE x \in X : Rank(x) = m]
  <1>8. \A m \in 1 .. n : s[m] \in X /\ Rank(s[m]) = m
    BY <1>7
  <1> HIDE DEF r
  <1>9. s \in [1 .. n -> X]
    BY <1>8
  <1>10. ASSUME NEW a \in 1 .. n, NEW b \in 1 .. n, a < b PROVE s[a] < s[b]
    <2> HIDE DEF s
    <2>1. s[a] \in X /\ s[b] \in X /\ Rank(s[a]) = a /\ Rank(s[b]) = b
      BY <1>8
    <2>2. s[a] # s[b]
      BY <1>1, <1>10, <2>1
    <2>3. ~ (s[b] < s[a])
      <3> SUFFICES ASSUME s[b] < s[a] PROVE FALSE
        OBVIOUS
      <3>1. Rank(s[b]) < Rank(s[a])
        BY <1>3, <2>1
      <3>2. b < a
        BY <2>1, <3>1
      <3> QED
        BY <1>1, <1>10, <3>2
    <2>4. s[a] \in Nat /\ s[b] \in Nat
      BY <2>1
    <2> QED
      BY <2>2, <2>3, <2>4
  <1> QED
    BY <1>9, <1>10 DEF n

\* The nodes in order are all of them.
LEMMA SortedFacts ==
  ASSUME NEW X \in SUBSET Nat, IsFiniteSet(X)
  PROVE  Sorted(X) \in Seq(X) /\ Len(Sorted(X)) = Cardinality(X) /\ ToSet(Sorted(X)) = X
  <1> DEFINE n == Cardinality(X)
             s == Sorted(X)
             Ordered == {t \in [1 .. n -> X] : \A a, b \in DOMAIN t : a < b => t[a] < t[b]}
  <1>1. n \in Nat /\ IsFiniteSet(1 .. n) /\ Cardinality(1 .. n) = n
    BY FS_CardinalityType, FS_Interval
  <1>2. PICK d \in [1 .. n -> X] : \A a, b \in 1 .. n : a < b => d[a] < d[b]
    BY Ranked
  <1>3. d \in Ordered
    BY <1>2
  <1>4. s = CHOOSE t \in [1 .. n -> X] : \A a, b \in DOMAIN t : a < b => t[a] < t[b]
    BY DEF Sorted
  <1> HIDE DEF n, s
  <1>5. s \in Ordered
    BY <1>3, <1>4, Zenon
  <1>6. s \in [1 .. n -> X] /\ \A a, b \in 1 .. n : a < b => s[a] < s[b]
    BY <1>5
  <1> HIDE DEF Ordered
  <1>7. \A a, b \in 1 .. n : s[a] = s[b] => a = b
    <2> SUFFICES ASSUME NEW a \in 1 .. n, NEW b \in 1 .. n, s[a] = s[b], a # b PROVE FALSE
      OBVIOUS
    <2>1. s[a] \in Nat /\ s[b] \in Nat
      BY <1>6
    <2>2. CASE a < b
      BY <1>6, <2>1, <2>2
    <2>3. CASE b < a
      BY <1>6, <2>1, <2>3
    <2> QED
      BY <1>1, <2>2, <2>3
  <1>8. s \in Surjection(1 .. n, X)
    <2>1. s \in Injection(1 .. n, X)
      BY <1>6, <1>7 DEF Injection, IsInjective
    <2>2. Cardinality(1 .. n) = Cardinality(X)
      BY <1>1 DEF n
    <2> QED
      BY <1>1, <2>1, <2>2, FS_Injection
  <1>9. s \in Seq(X) /\ Len(s) = n /\ DOMAIN s = 1 .. n
    BY <1>1, <1>6
  <1>10. ToSet(s) = X
    BY <1>6, <1>8, <1>9 DEF ToSet, Surjection
  <1> QED
    BY <1>9, <1>10 DEF n, s

\* A list without repetitions loses the element that is removed.
LEMMA RemoveFirstFacts ==
  ASSUME NEW S, NEW s \in Seq(S), IsInjective(s), NEW e
  PROVE  /\ RemoveFirst(s, e) \in Seq(S) /\ IsInjective(RemoveFirst(s, e))
         /\ ToSet(RemoveFirst(s, e)) = ToSet(s) \ {e}
  <1>1. /\ Len(s) \in Nat /\ DOMAIN s = 1..Len(s) /\ \A i \in 1..Len(s) : s[i] \in S
        /\ \A i, j \in 1..Len(s) : s[i] = s[j] => i = j
    BY DEF IsInjective
  <1>2. CASE ~ \E i \in 1..Len(s) : s[i] = e
    <2>1. RemoveFirst(s, e) = s
      BY <1>2 DEF RemoveFirst
    <2> QED
      BY <1>1, <1>2, <2>1 DEF ToSet
  <1>3. CASE \E i \in 1..Len(s) : s[i] = e
    <2> DEFINE I == {i \in 1..Len(s) : s[i] = e}
    <2>1. PICK k \in 1..Len(s) : s[k] = e
      BY <1>3
    <2>2. I = {k}
      BY <1>1, <2>1
    <2>3. Min(I) = k
      BY <1>1, <2>1, <2>2 DEF Min
    <2>4. SelectInSeq(s, LAMBDA v : v = e) = k
      BY <2>2, <2>3 DEF SelectInSeq
    <2> DEFINE p == SubSeq(s, 1, k - 1)
               q == SubSeq(s, k + 1, Len(s))
               t == p \o q
    <2>5. RemoveFirst(s, e) = t
      BY <1>3, <2>4 DEF RemoveFirst, RemoveAt
    <2>6. p \in Seq(S) /\ Len(p) = k - 1 /\ \A i \in 1..(k - 1) : p[i] = s[i]
      <3>1. 1 \in 1..(Len(s) + 1) /\ k - 1 \in (1 - 1)..Len(s)
        BY <1>1, <2>1
      <3>2. p \in Seq(S) /\ Len(p) = (k - 1) - 1 + 1 /\ \A i \in 1..((k - 1) - 1 + 1) : p[i] = s[1 + i - 1]
        BY <3>1, SubSeqProperties
      <3>3. (k - 1) - 1 + 1 = k - 1 /\ \A i \in 1..(k - 1) : 1 + i - 1 = i
        BY <1>1, <2>1
      <3> HIDE DEF p
      <3> QED
        BY <3>2, <3>3
    <2>7. q \in Seq(S) /\ Len(q) = Len(s) - k /\ \A i \in 1..(Len(s) - k) : q[i] = s[k + i]
      <3>1. k + 1 \in 1..(Len(s) + 1) /\ Len(s) \in ((k + 1) - 1)..Len(s)
        BY <1>1, <2>1
      <3>2. q \in Seq(S) /\ Len(q) = Len(s) - (k + 1) + 1 /\ \A i \in 1..(Len(s) - (k + 1) + 1) : q[i] = s[(k + 1) + i - 1]
        BY <3>1, SubSeqProperties
      <3>3. Len(s) - (k + 1) + 1 = Len(s) - k /\ \A i \in 1..(Len(s) - k) : (k + 1) + i - 1 = k + i
        BY <1>1, <2>1
      <3> HIDE DEF q
      <3> QED
        BY <3>2, <3>3
    <2> HIDE DEF p, q
    <2>8. t \in Seq(S) /\ Len(t) = Len(s) - 1 /\ DOMAIN t = 1..(Len(s) - 1)
      <3>1. t \in Seq(S) /\ Len(t) = Len(p) + Len(q)
        BY <2>6, <2>7, ConcatProperties
      <3>2. Len(t) = Len(s) - 1
        BY <1>1, <2>1, <2>6, <2>7, <3>1
      <3> HIDE DEF t
      <3> QED
        BY <3>1, <3>2
    <2>9. \A i \in 1..(Len(s) - 1) : t[i] = IF i < k THEN s[i] ELSE s[i + 1]
      <3> SUFFICES ASSUME NEW i \in 1..(Len(s) - 1) PROVE t[i] = IF i < k THEN s[i] ELSE s[i + 1]
        OBVIOUS
      <3>1. i \in 1..(Len(p) + Len(q)) /\ t[i] = IF i <= Len(p) THEN p[i] ELSE q[i - Len(p)]
        <4>1. i \in 1..(Len(p) + Len(q))
          BY <1>1, <2>1, <2>6, <2>7
        <4> QED
          BY <2>6, <2>7, <4>1, ConcatProperties
      <3>2. CASE i < k
        <4>1. i \in 1..(k - 1) /\ i <= Len(p)
          BY <1>1, <2>1, <2>6, <3>2
        <4> QED
          BY <2>6, <3>1, <3>2, <4>1
      <3>3. CASE ~ (i < k)
        <4>1. i - (k - 1) \in 1..(Len(s) - k) /\ k + (i - (k - 1)) = i + 1 /\ ~ (i <= Len(p)) /\ i - Len(p) = i - (k - 1)
          BY <1>1, <2>1, <2>6, <3>3
        <4> QED
          BY <2>7, <3>1, <3>3, <4>1
      <3> QED
        BY <3>2, <3>3
    <2> HIDE DEF t
    <2>10. IsInjective(t)
      <3> SUFFICES ASSUME NEW i \in 1..(Len(s) - 1), NEW j \in 1..(Len(s) - 1), t[i] = t[j] PROVE i = j
        BY <2>8 DEF IsInjective
      <3> DEFINE at(n) == IF n < k THEN n ELSE n + 1
      <3>1. at(i) \in 1..Len(s) /\ at(j) \in 1..Len(s) /\ t[i] = s[at(i)] /\ t[j] = s[at(j)]
        BY <1>1, <2>1, <2>9
      <3>2. at(i) = at(j)
        BY <1>1, <3>1
      <3> QED
        BY <1>1, <2>1, <3>2
    <2>11. ASSUME NEW x \in ToSet(t) PROVE x \in ToSet(s) \ {e}
      <3>1. PICK i \in 1..(Len(s) - 1) : x = t[i]
        BY <2>8 DEF ToSet
      <3>2. PICK j \in 1..Len(s) : x = s[j] /\ j # k
        BY <1>1, <2>1, <2>9, <3>1
      <3> QED
        BY <1>1, <2>1, <3>2 DEF ToSet
    <2>12. ASSUME NEW x \in ToSet(s) \ {e} PROVE x \in ToSet(t)
      <3>1. PICK j \in 1..Len(s) : x = s[j]
        BY <1>1 DEF ToSet
      <3>2. j # k
        BY <2>1, <2>12, <3>1
      <3> DEFINE i == IF j < k THEN j ELSE j - 1
      <3>3. i \in 1..(Len(s) - 1) /\ t[i] = s[j]
        BY <1>1, <2>1, <2>9, <3>2
      <3> QED
        BY <2>8, <3>1, <3>3 DEF ToSet
    <2> QED
      BY <2>5, <2>8, <2>10, <2>11, <2>12
  <1> QED
    BY <1>2, <1>3

-----------------------------------------------------------------------------
(* The topological sort.                                                      *)

\* Nodes that depend on each other, or on None, none twice ...
Depends(nodes, dependencies) ==
  /\ nodes \in SUBSET (Nat \ {0}) /\ IsFiniteSet(nodes)
  /\ dependencies \in [nodes -> Seq(nodes \cup {None})]
  /\ \A n \in nodes : IsInjective(dependencies[n])

\* ... and not in circles.
Acyclic(nodes, dependencies) ==
  \A S \in SUBSET nodes : S # {} => \E n \in S : ToSet(dependencies[n]) \cap S = {}

\* The search, between two turns of the loop.
SearchTyped(nodes, search) ==
  search \in [queue : Seq(nodes), left : [nodes -> Seq(nodes \cup {None})], visited : Seq(nodes)]
SortsThese(nodes, dependencies, queue, left, visited) ==
  /\ IsInjective(visited)
  /\ \A n \in nodes : /\ IsInjective(left[n])
                      /\ ToSet(left[n]) = ToSet(dependencies[n]) \ ToSet(visited)
  /\ ToSet(queue) \subseteq FreeNodes(left)
  /\ FreeNodes(left) \subseteq ToSet(queue) \cup ToSet(visited)
  /\ \A i \in DOMAIN visited :
       ToSet(dependencies[visited[i]]) \ {None} \subseteq {visited[j] : j \in 1..(i - 1)}
Sorts(nodes, dependencies, search) ==
  SortsThese(nodes, dependencies, search.queue, search.left, search.visited)

\* What the loop has left to do at most.
ToDo(nodes, search) ==
  Len(search.queue) + Cardinality(nodes) * (Cardinality(nodes) - Len(search.visited))

\* A list without repetitions is no longer than there are nodes.
LEMMA InjectiveLength ==
  ASSUME NEW nodes, IsFiniteSet(nodes), NEW s \in Seq(nodes), IsInjective(s)
  PROVE  Len(s) <= Cardinality(nodes) /\ Len(s) \in Nat /\ Cardinality(nodes) \in Nat
  <1>1. Len(s) \in Nat /\ IsFiniteSet(1..Len(s)) /\ Cardinality(1..Len(s)) = Len(s)
    <2>1. Len(s) \in Nat /\ 1 \in Int /\ Len(s) \in Int
      OBVIOUS
    <2>2. IsFiniteSet(1..Len(s)) /\ Cardinality(1..Len(s)) = IF 1 > Len(s) THEN 0 ELSE Len(s) - 1 + 1
      BY <2>1, FS_Interval
    <2> QED
      BY <2>1, <2>2
  <1>2. s \in Injection(1..Len(s), nodes)
    BY DEF Injection
  <1>3. Cardinality(1..Len(s)) <= Cardinality(nodes)
    BY <1>1, <1>2, FS_Injection
  <1> QED
    BY <1>1, <1>3, FS_CardinalityType

LEMMA ListDomain ==
  ASSUME NEW S, NEW s \in Seq(S)
  PROVE  Len(s) \in Nat /\ DOMAIN s = 1..Len(s) /\ ToSet(s) = {s[i] : i \in 1..Len(s)}
  BY DEF ToSet

LEMMA ListsJoin ==
  ASSUME NEW S, NEW s \in Seq(S), NEW t \in Seq(S)
  PROVE  ToSet(s \o t) = ToSet(s) \cup ToSet(t) /\ s \o t \in Seq(S)
  <1>1. /\ Len(s) \in Nat /\ DOMAIN s = 1..Len(s) /\ Len(t) \in Nat /\ DOMAIN t = 1..Len(t)
        /\ \A i \in 1..Len(s) : s[i] \in S
    OBVIOUS
  <1>2. ToSet(s \o t) = ToSet(s) \cup ToSet(t)
    <2>1. s \o t \in Seq(S) /\ Len(s \o t) = Len(s) + Len(t) /\ DOMAIN (s \o t) = 1..(Len(s) + Len(t))
      OBVIOUS
    <2>2. \A i \in 1..Len(s) : (s \o t)[i] = s[i] /\ i \in 1..(Len(s) + Len(t))
      BY <1>1
    <2>3. \A i \in 1..Len(t) : (s \o t)[Len(s) + i] = t[i] /\ Len(s) + i \in 1..(Len(s) + Len(t))
      BY <1>1
    <2>4. \A i \in 1..(Len(s) + Len(t)) : i \in 1..Len(s) \/ (i - Len(s) \in 1..Len(t) /\ i = Len(s) + (i - Len(s)))
      BY <1>1
    <2>5. ToSet(s) \cup ToSet(t) \subseteq ToSet(s \o t)
      BY <1>1, <2>1, <2>2, <2>3 DEF ToSet
    <2>6. ASSUME NEW x \in ToSet(s \o t) PROVE x \in ToSet(s) \cup ToSet(t)
      <3>1. PICK i \in 1..(Len(s) + Len(t)) : x = (s \o t)[i]
        BY <2>1 DEF ToSet
      <3>2. CASE i \in 1..Len(s)
        BY <1>1, <2>2, <3>1, <3>2 DEF ToSet
      <3>3. CASE i - Len(s) \in 1..Len(t) /\ i = Len(s) + (i - Len(s))
        BY <1>1, <2>3, <3>1, <3>3 DEF ToSet
      <3> QED
        BY <2>4, <3>2, <3>3
    <2> QED
      BY <2>5, <2>6
  <1> QED
    BY <1>2

LEMMA ListParts ==
  ASSUME NEW S, NEW s \in Seq(S)
  PROVE  /\ \A e \in S : ToSet(Append(s, e)) = ToSet(s) \cup {e} /\ Append(s, e) \in Seq(S)
         /\ ToSet(s) \subseteq S
         /\ s # <<>> => /\ Head(s) \in S /\ Tail(s) \in Seq(S) /\ Len(Tail(s)) = Len(s) - 1
                        /\ ToSet(s) = {Head(s)} \cup ToSet(Tail(s))
         /\ ToSet(<<>>) = {}
  <1>1. /\ Len(s) \in Nat /\ DOMAIN s = 1..Len(s)
        /\ \A i \in 1..Len(s) : s[i] \in S
    OBVIOUS
  <1>3. ASSUME NEW e \in S PROVE ToSet(Append(s, e)) = ToSet(s) \cup {e} /\ Append(s, e) \in Seq(S)
    <2>1. /\ DOMAIN Append(s, e) = 1..(Len(s) + 1) /\ Append(s, e)[Len(s) + 1] = e
          /\ \A i \in 1..Len(s) : Append(s, e)[i] = s[i]
      OBVIOUS
    <2>2. \A i \in 1..(Len(s) + 1) : i \in 1..Len(s) \/ i = Len(s) + 1
      BY <1>1
    <2>3. Len(s) + 1 \in 1..(Len(s) + 1) /\ 1..Len(s) \subseteq 1..(Len(s) + 1)
      BY <1>1
    <2> QED
      BY <1>1, <2>1, <2>2, <2>3 DEF ToSet
  <1>4. ASSUME s # <<>> PROVE /\ Head(s) \in S /\ Tail(s) \in Seq(S) /\ Len(Tail(s)) = Len(s) - 1
                              /\ ToSet(s) = {Head(s)} \cup ToSet(Tail(s))
    <2>1. Head(s) \in S /\ Tail(s) \in Seq(S) /\ Len(Tail(s)) = Len(s) - 1 /\ Len(s) >= 1 /\ Head(s) = s[1]
      BY <1>4
    <2>2. DOMAIN Tail(s) = 1..(Len(s) - 1) /\ \A i \in 1..(Len(s) - 1) : Tail(s)[i] = s[i + 1]
      BY <1>4
    <2>3. \A i \in 1..Len(s) : i = 1 \/ (i - 1 \in 1..(Len(s) - 1) /\ (i - 1) + 1 = i)
      BY <1>1
    <2>4. \A i \in 1..(Len(s) - 1) : i + 1 \in 1..Len(s)
      BY <1>1
    <2>5. {Head(s)} \cup ToSet(Tail(s)) \subseteq ToSet(s)
      BY <1>1, <2>1, <2>2, <2>4 DEF ToSet
    <2>6. ASSUME NEW x \in ToSet(s) PROVE x \in {Head(s)} \cup ToSet(Tail(s))
      <3>1. PICK i \in 1..Len(s) : x = s[i]
        BY <1>1 DEF ToSet
      <3>2. CASE i = 1
        BY <2>1, <3>1, <3>2
      <3>3. CASE i - 1 \in 1..(Len(s) - 1) /\ (i - 1) + 1 = i
        <4>1. x = Tail(s)[i - 1]
          BY <2>2, <3>1, <3>3
        <4> QED
          BY <2>2, <3>3, <4>1 DEF ToSet
      <3> QED
        BY <2>3, <3>2, <3>3
    <2> QED
      BY <2>1, <2>5, <2>6
  <1>5. ToSet(s) \subseteq S
    BY <1>1 DEF ToSet
  <1>6. ToSet(<<>>) = {}
    BY DEF ToSet
  <1> QED
    BY <1>3, <1>4, <1>5, <1>6

LEMMA FreeFacts ==
  ASSUME NEW nodes, NEW left \in [nodes -> Seq(nodes \cup {None})], nodes \in SUBSET Nat, IsFiniteSet(nodes)
  PROVE  /\ FreeNodes(left) = {n \in nodes : ToSet(left[n]) \subseteq {None}}
         /\ Sorted(FreeNodes(left)) \in Seq(nodes) /\ Len(Sorted(FreeNodes(left))) <= Cardinality(nodes)
         /\ ToSet(Sorted(FreeNodes(left))) = FreeNodes(left)
         /\ Len(Sorted(FreeNodes(left))) \in Nat /\ Cardinality(nodes) \in Nat
  <1>1. FreeNodes(left) = {n \in nodes : ToSet(left[n]) \subseteq {None}}
    BY DEF FreeNodes
  <1> DEFINE free == FreeNodes(left)
  <1>2. free \subseteq nodes
    BY <1>1
  <1> HIDE DEF free
  <1>3. IsFiniteSet(free) /\ Cardinality(free) <= Cardinality(nodes)
    BY <1>2, FS_Subset
  <1>4. free \in SUBSET Nat
    BY <1>2
  <1>5. Sorted(free) \in Seq(free) /\ Len(Sorted(free)) = Cardinality(free) /\ ToSet(Sorted(free)) = free
    BY <1>3, <1>4, SortedFacts
  <1>6. Sorted(free) \in Seq(nodes)
    <2>1. Seq(free) \subseteq Seq(nodes)
      BY <1>2, SeqMonotonic
    <2> QED
      BY <1>5, <2>1
  <1>7. Len(Sorted(free)) \in Nat /\ Cardinality(nodes) \in Nat
    BY <1>3, <1>5, FS_CardinalityType
  <1> QED
    BY <1>1, <1>3, <1>5, <1>6, <1>7 DEF free

LEMMA TurnKeeps ==
  ASSUME NEW nodes, NEW dependencies, Depends(nodes, dependencies),
         NEW q, SearchTyped(nodes, q), Sorts(nodes, dependencies, q)
  PROVE  LET t == TopologicalTurn(q) IN
         /\ SearchTyped(nodes, t) /\ Sorts(nodes, dependencies, t)
         /\ q.queue = <<>> => t = q
         /\ q.queue # <<>> => ToDo(nodes, t) <= ToDo(nodes, q) - 1
  <1> DEFINE t == TopologicalTurn(q)
             v == Head(q.queue)
             rest == Tail(q.queue)
             left == RemoveDependency(q.left, v)
             card == Cardinality(nodes)
  <1>1. /\ q.queue \in Seq(nodes) /\ q.left \in [nodes -> Seq(nodes \cup {None})] /\ q.visited \in Seq(nodes)
        /\ nodes \in SUBSET Nat /\ IsFiniteSet(nodes) /\ None \notin nodes
        /\ q = [queue |-> q.queue, left |-> q.left, visited |-> q.visited]
    BY DEF SearchTyped, Depends, None
  <1>2. card \in Nat /\ Len(q.queue) \in Nat /\ Len(q.visited) \in Nat
    BY <1>1, FS_CardinalityType
  <1>3. CASE q.queue = <<>>
    <2>1. t = q
      BY <1>3 DEF TopologicalTurn
    <2> QED
      BY <1>3, <2>1
  <1>4. ASSUME q.queue # <<>>
        PROVE  /\ v \in nodes /\ rest \in Seq(nodes) /\ Len(rest) = Len(q.queue) - 1
               /\ ToSet(q.queue) = {v} \cup ToSet(rest)
    BY <1>1, <1>4, ListParts
  <1>5. CASE q.queue # <<>> /\ v \in ToSet(q.visited)
    <2>1. t = [q EXCEPT !.queue = rest]
      BY <1>5 DEF TopologicalTurn
    <2>2. t.queue = rest /\ t.left = q.left /\ t.visited = q.visited
          /\ t = [queue |-> rest, left |-> q.left, visited |-> q.visited]
      BY <1>1, <2>1
    <2> HIDE DEF t, rest, v, card
    <2>3. SearchTyped(nodes, t)
      BY <1>1, <1>4, <1>5, <2>2 DEF SearchTyped
    <2>4. Sorts(nodes, dependencies, t)
      <3>1. SortsThese(nodes, dependencies, q.queue, q.left, q.visited)
        BY DEF Sorts
      <3>2. ToSet(rest) \subseteq FreeNodes(q.left) /\ FreeNodes(q.left) \subseteq ToSet(rest) \cup ToSet(q.visited)
        BY <1>4, <1>5, <3>1 DEF SortsThese
      <3>3. SortsThese(nodes, dependencies, rest, q.left, q.visited)
        BY <3>1, <3>2 DEF SortsThese
      <3> QED
        BY <2>2, <3>3 DEF Sorts
    <2>5. ToDo(nodes, t) <= ToDo(nodes, q) - 1
      <3>1. ToDo(nodes, t) = Len(rest) + card * (card - Len(q.visited))
            /\ ToDo(nodes, q) = Len(q.queue) + card * (card - Len(q.visited))
        BY <2>2 DEF ToDo, card
      <3> DEFINE x == card * (card - Len(q.visited))
      <3>2. x \in Int
        BY <1>2
      <3>3. Len(rest) = Len(q.queue) - 1
        BY <1>4, <1>5
      <3> HIDE DEF x
      <3> QED
        BY <1>2, <3>1, <3>2, <3>3 DEF x
    <2> QED
      BY <1>5, <2>3, <2>4, <2>5 DEF t
  <1>6. CASE q.queue # <<>> /\ v \notin ToSet(q.visited)
    <2> DEFINE more == Sorted(FreeNodes(left))
               visited == Append(q.visited, v)
    <2>1. t = [queue |-> rest \o more, left |-> left, visited |-> visited]
      BY <1>6 DEF TopologicalTurn
    <2>2. \A n \in nodes : /\ q.left[n] \in Seq(nodes \cup {None}) /\ IsInjective(q.left[n])
                           /\ ToSet(q.left[n]) = ToSet(dependencies[n]) \ ToSet(q.visited)
      BY <1>1 DEF Sorts, SortsThese
    <2>3. left \in [nodes -> Seq(nodes \cup {None})] /\ \A n \in nodes : left[n] = RemoveFirst(q.left[n], v)
      <3>1. left = [n \in nodes |-> RemoveFirst(q.left[n], v)]
        BY <1>1 DEF RemoveDependency
      <3>2. \A n \in nodes : RemoveFirst(q.left[n], v) \in Seq(nodes \cup {None})
        BY <2>2, RemoveFirstFacts
      <3> HIDE DEF left
      <3> QED
        BY <3>1, <3>2
    <2> HIDE DEF left, t, rest, v, card
    <2>4. ToSet(visited) = ToSet(q.visited) \cup {v} /\ visited \in Seq(nodes)
      BY <1>1, <1>4, <1>6, ListParts
    <2>5. \A n \in nodes : /\ IsInjective(left[n])
                           /\ ToSet(left[n]) = ToSet(dependencies[n]) \ ToSet(visited)
      <3>1. \A n \in nodes : IsInjective(left[n]) /\ ToSet(left[n]) = ToSet(q.left[n]) \ {v}
        BY <2>2, <2>3, RemoveFirstFacts
      <3> QED
        BY <2>2, <2>4, <3>1
    <2>6. /\ FreeNodes(left) = {n \in nodes : ToSet(left[n]) \subseteq {None}}
          /\ FreeNodes(q.left) = {n \in nodes : ToSet(q.left[n]) \subseteq {None}}
          /\ more \in Seq(nodes) /\ Len(more) <= card /\ ToSet(more) = FreeNodes(left) /\ Len(more) \in Nat
      BY <1>1, <2>3, FreeFacts DEF card
    <2>7. FreeNodes(q.left) \subseteq FreeNodes(left)
      BY <2>2, <2>4, <2>5, <2>6
    <2>8. ToSet(rest \o more) = ToSet(rest) \cup ToSet(more) /\ rest \o more \in Seq(nodes)
      <3>1. rest \in Seq(nodes) /\ v \in nodes
        BY <1>4, <1>6
      <3> HIDE DEF more
      <3> QED
        BY <2>6, <3>1, ListsJoin
    <2> HIDE DEF more
    <2>9. SearchTyped(nodes, t)
      BY <2>1, <2>3, <2>4, <2>8 DEF SearchTyped
    <2>10. v \in FreeNodes(q.left)
      BY <1>4, <1>6 DEF Sorts, SortsThese
    <2>11. /\ Len(visited) = Len(q.visited) + 1 /\ DOMAIN visited = 1..(Len(q.visited) + 1)
           /\ visited[Len(q.visited) + 1] = v /\ \A i \in 1..Len(q.visited) : visited[i] = q.visited[i]
      BY <1>1, <1>2
    <2>12. DOMAIN q.visited = 1..Len(q.visited) /\ ToSet(q.visited) = {q.visited[i] : i \in 1..Len(q.visited)}
      BY <1>1, ListDomain
    <2>13. \A i \in 1..(Len(q.visited) + 1) : i \in 1..Len(q.visited) \/ i = Len(q.visited) + 1
      BY <1>2
    <2> HIDE DEF visited
    <2>14. IsInjective(visited)
      <3> SUFFICES ASSUME NEW i \in 1..(Len(q.visited) + 1), NEW j \in 1..(Len(q.visited) + 1), visited[i] = visited[j]
                   PROVE  i = j
        BY <2>11 DEF IsInjective
      <3>1. \A k \in 1..Len(q.visited) : q.visited[k] # v
        BY <1>6, <2>12
      <3>2. \A k, l \in 1..Len(q.visited) : q.visited[k] = q.visited[l] => k = l
        BY <2>12 DEF Sorts, SortsThese, IsInjective
      <3> QED
        BY <2>11, <2>13, <3>1, <3>2
    <2>15. ASSUME NEW i \in DOMAIN visited
           PROVE  ToSet(dependencies[visited[i]]) \ {None} \subseteq {visited[j] : j \in 1..(i - 1)}
      <3>1. CASE i \in 1..Len(q.visited)
        <4>1. ToSet(dependencies[q.visited[i]]) \ {None} \subseteq {q.visited[j] : j \in 1..(i - 1)}
          BY <2>12, <3>1 DEF Sorts, SortsThese
        <4>2. \A j \in 1..(i - 1) : j \in 1..Len(q.visited)
          BY <1>2, <3>1
        <4> QED
          BY <2>11, <3>1, <4>1, <4>2
      <3>2. CASE i = Len(q.visited) + 1
        <4>1. visited[i] = v /\ 1..(i - 1) = 1..Len(q.visited)
          BY <1>2, <2>11, <3>2
        <4>2. ToSet(q.left[v]) \subseteq {None} /\ ToSet(q.left[v]) = ToSet(dependencies[v]) \ ToSet(q.visited)
          BY <1>4, <1>6, <2>2, <2>6, <2>10
        <4>3. ToSet(dependencies[v]) \ {None} \subseteq ToSet(q.visited)
          BY <4>2
        <4> QED
          BY <2>11, <2>12, <4>1, <4>3
      <3> QED
        BY <2>11, <2>13, <3>1, <3>2
    <2>16. Sorts(nodes, dependencies, t)
      <3>1. t.queue = rest \o more /\ t.left = left /\ t.visited = visited
        BY <2>1
      <3>2. ToSet(rest \o more) \subseteq FreeNodes(left)
            /\ FreeNodes(left) \subseteq ToSet(rest \o more) \cup ToSet(visited)
        <4>1. ToSet(rest) \subseteq FreeNodes(q.left)
          BY <1>4, <1>6 DEF Sorts, SortsThese
        <4> QED
          BY <2>6, <2>7, <2>8, <4>1
      <3> QED
        <4>1. SortsThese(nodes, dependencies, rest \o more, left, visited)
          BY <2>5, <2>14, <2>15, <3>2 DEF SortsThese
        <4> QED
          BY <3>1, <4>1 DEF Sorts
    <2>17. ToDo(nodes, t) <= ToDo(nodes, q) - 1
      <3>1. t.queue = rest \o more /\ t.visited = visited
        BY <2>1
      <3>2. Len(rest \o more) = Len(rest) + Len(more)
        BY <1>4, <1>6, <2>6
      <3>3. ToDo(nodes, t) = Len(rest) + Len(more) + card * (card - (Len(q.visited) + 1))
            /\ ToDo(nodes, q) = Len(q.queue) + card * (card - Len(q.visited))
        BY <2>11, <3>1, <3>2 DEF ToDo, card
      <3> DEFINE x == card * (card - Len(q.visited))
                 y == card * (card - (Len(q.visited) + 1))
      <3>4. y = x - card /\ x \in Int
        BY <1>2
      <3>5. Len(rest) = Len(q.queue) - 1
        BY <1>4, <1>6
      <3>6. ToDo(nodes, t) = Len(rest) + Len(more) + y /\ ToDo(nodes, q) = Len(q.queue) + x
        BY <3>3
      <3> HIDE DEF x, y
      <3> QED
        BY <1>2, <2>6, <3>4, <3>5, <3>6
    <2> QED
      BY <1>6, <2>9, <2>16, <2>17 DEF t
  <1> QED
    BY <1>3, <1>5, <1>6

\* The loop: what the recursive function of topological_sort is.
Turned(dependencies, h) ==
  h = [n \in 0..Turns(DOMAIN dependencies) |->
         IF n = 0 THEN [queue |-> Sorted(FreeNodes(dependencies)), left |-> dependencies, visited |-> <<>>]
         ELSE TopologicalTurn(h[n - 1])]

LEMMA TurnsNumber ==
  ASSUME NEW nodes, IsFiniteSet(nodes)
  PROVE  /\ Turns(nodes) \in Nat /\ Cardinality(nodes) \in Nat
         /\ Turns(nodes) >= Cardinality(nodes) * Cardinality(nodes) + Cardinality(nodes) + 1
  <1>1. Cardinality(nodes) \in Nat
    BY FS_CardinalityType
  <1> QED
    BY <1>1 DEF Turns

\* Nodes that do not depend on each other in circles are put in a topological order.
LEMMA TopologicalOrder ==
  ASSUME NEW nodes, NEW dependencies, Depends(nodes, dependencies), Acyclic(nodes, dependencies)
  PROVE  /\ IsTopologicalOrder(TopologicalSort(dependencies), dependencies)
         /\ TopologicalSort(dependencies) \in Seq(nodes) /\ IsInjective(TopologicalSort(dependencies))
  <1> DEFINE start == [queue |-> Sorted(FreeNodes(dependencies)), left |-> dependencies, visited |-> <<>>]
             last == Turns(nodes)
             Found == {q \in [queue : Seq(nodes), left : [nodes -> Seq(nodes \cup {None})], visited : Seq(nodes)] :
                         Sorts(nodes, dependencies, q)}
             step == [q \in Found |-> TopologicalTurn(q)]
             card == Cardinality(nodes)
  <1>1. /\ DOMAIN dependencies = nodes /\ IsFiniteSet(nodes) /\ nodes \in SUBSET Nat /\ None \notin nodes
        /\ dependencies \in [nodes -> Seq(nodes \cup {None})]
    BY DEF Depends, None
  <1>2. last \in Nat /\ card \in Nat /\ last >= card * card + card + 1
    BY <1>1, TurnsNumber
  <1>3. start \in Found /\ ToDo(nodes, start) <= card + card * card
    <2>1. /\ Sorted(FreeNodes(dependencies)) \in Seq(nodes) /\ Len(Sorted(FreeNodes(dependencies))) <= card
          /\ ToSet(Sorted(FreeNodes(dependencies))) = FreeNodes(dependencies)
          /\ Len(Sorted(FreeNodes(dependencies))) \in Nat
      BY <1>1, FreeFacts
    <2> DEFINE s == Sorted(FreeNodes(dependencies))
    <2> HIDE DEF s
    <2>2. start \in [queue : Seq(nodes), left : [nodes -> Seq(nodes \cup {None})], visited : Seq(nodes)]
      BY <1>1, <2>1 DEF s
    <2>3. start.queue = s /\ start.left = dependencies /\ start.visited = <<>> /\ Len(start.visited) = 0
      BY DEF s
    <2> HIDE DEF start
    <2>4. Sorts(nodes, dependencies, start)
      <3>1. ToSet(start.visited) = {} /\ DOMAIN start.visited = {} /\ IsInjective(start.visited)
        BY <2>3 DEF ToSet, IsInjective
      <3> QED
        BY <2>1, <2>3, <3>1 DEF Sorts, SortsThese, Depends, s
    <2>5. ToDo(nodes, start) <= card + card * card
      <3>1. ToDo(nodes, start) = Len(s) + card * (card - 0)
        BY <2>3 DEF ToDo
      <3>2. card - 0 = card /\ card * card \in Nat
        BY <1>2
      <3> HIDE DEF card
      <3> QED
        BY <1>2, <2>1, <3>1, <3>2 DEF s
    <2> QED
      BY <2>2, <2>4, <2>5
  <1>4. \A q \in Found : /\ TopologicalTurn(q) \in Found
                         /\ q.queue = <<>> => TopologicalTurn(q) = q
                         /\ q.queue # <<>> => ToDo(nodes, TopologicalTurn(q)) <= ToDo(nodes, q) - 1
    <2> SUFFICES ASSUME NEW q \in Found
                 PROVE  /\ TopologicalTurn(q) \in Found
                        /\ q.queue = <<>> => TopologicalTurn(q) = q
                        /\ q.queue # <<>> => ToDo(nodes, TopologicalTurn(q)) <= ToDo(nodes, q) - 1
      OBVIOUS
    <2>1. SearchTyped(nodes, q) /\ Sorts(nodes, dependencies, q)
      BY DEF SearchTyped
    <2>2. LET t == TopologicalTurn(q) IN
          /\ SearchTyped(nodes, t) /\ Sorts(nodes, dependencies, t)
          /\ q.queue = <<>> => t = q
          /\ q.queue # <<>> => ToDo(nodes, t) <= ToDo(nodes, q) - 1
      BY <2>1, TurnKeeps
    <2> QED
      BY <2>2 DEF SearchTyped
  <1>5. step \in [Found -> Found]
    BY <1>4
  <1> HIDE DEF start, last, Found, step, card
  <1>6. \E h : Turned(dependencies, h)
    <2>1. PICK h \in [0..last -> Found] : Iterates(h, last, start, step)
      BY <1>2, <1>3, <1>5, IteratesExists
    <2>2. \A n \in 0..last : n # 0 => n - 1 \in 0..last
      BY <1>2
    <2>3. \A n \in 0..last : n # 0 => step[h[n - 1]] = TopologicalTurn(h[n - 1])
      BY <2>1, <2>2 DEF step
    <2>4. h = [n \in 0..last |-> IF n = 0 THEN start ELSE TopologicalTurn(h[n - 1])]
      BY <2>1, <2>3 DEF Iterates
    <2>5. Turned(dependencies, h)
      BY <1>1, <2>4, Zenon DEF Turned, start, last
    <2> QED
      BY <2>5
  <1>7. PICK h : TopologicalSort(dependencies) = h[last].visited /\ Turned(dependencies, h)
    <2> DEFINE f == CHOOSE g : g = [n \in 0..Turns(DOMAIN dependencies) |->
                      IF n = 0 THEN [queue |-> Sorted(FreeNodes(dependencies)), left |-> dependencies, visited |-> <<>>]
                      ELSE TopologicalTurn(g[n - 1])]
    <2>1. Turned(dependencies, f)
      BY <1>6, Zenon DEF Turned
    <2>2. TopologicalSort(dependencies) = f[last].visited
      BY <1>1 DEF TopologicalSort, last
    <2> QED
      BY <2>1, <2>2
  <1>8. /\ h[0] = start
        /\ \A n \in 0..last : n # 0 => h[n] = TopologicalTurn(h[n - 1])
    <2>1. h = [n \in 0..last |-> IF n = 0 THEN start ELSE TopologicalTurn(h[n - 1])]
      BY <1>1, <1>7, Zenon DEF Turned, start, last
    <2>2. 0 \in 0..last
      BY <1>2
    <2> QED
      BY <2>1, <2>2, Zenon
  <1> DEFINE Here(n) == h[n] \in Found /\ (h[n].queue = <<>> \/ ToDo(nodes, h[n]) + n <= card + card * card)
             Good == {n \in 0..last : Here(n)}
  <1>9. \A q \in Found : ToDo(nodes, q) \in Int /\ (q.queue # <<>> => ToDo(nodes, q) >= 0)
    <2> SUFFICES ASSUME NEW q \in Found PROVE ToDo(nodes, q) \in Int /\ (q.queue # <<>> => ToDo(nodes, q) >= 0)
      OBVIOUS
    <2>1. q.queue \in Seq(nodes) /\ q.visited \in Seq(nodes) /\ IsInjective(q.visited)
      BY DEF Found, Sorts, SortsThese
    <2>2. Len(q.queue) \in Nat /\ Len(q.visited) \in Nat /\ Len(q.visited) <= card
      BY <1>1, <2>1, InjectiveLength DEF card
    <2>3. card - Len(q.visited) \in Nat
      BY <1>2, <2>2
    <2>4. card * (card - Len(q.visited)) \in Nat
      BY <1>2, <2>3
    <2> QED
      BY <2>2, <2>4 DEF ToDo, card
  <1>10. 0..last \subseteq Good
    <2>1. 0 \in Good
      BY <1>2, <1>3, <1>8, <1>9
    <2>2. ASSUME NEW n \in 0..last, n # 0, n - 1 \in Good PROVE n \in Good
      <3>1. Here(n - 1) /\ h[n] = TopologicalTurn(h[n - 1])
        BY <1>8, <2>2
      <3>2. h[n] \in Found
        BY <1>4, <3>1
      <3>3. CASE h[n - 1].queue = <<>>
        <4>1. h[n].queue = <<>>
          BY <1>4, <3>1, <3>3
        <4> QED
          BY <3>2, <4>1
      <3>4. CASE h[n - 1].queue # <<>>
        <4>1. ToDo(nodes, h[n]) <= ToDo(nodes, h[n - 1]) - 1 /\ ToDo(nodes, h[n - 1]) + (n - 1) <= card + card * card
          BY <1>4, <3>1, <3>4
        <4>2. ToDo(nodes, h[n]) \in Int /\ ToDo(nodes, h[n - 1]) \in Int /\ card + card * card \in Int
          BY <1>2, <1>9, <3>1, <3>2
        <4>3. ToDo(nodes, h[n]) + n <= card + card * card
          BY <4>1, <4>2
        <4> QED
          BY <3>2, <4>3
      <3> QED
        BY <3>3, <3>4
    <2> HIDE DEF Good
    <2> QED
      BY <1>2, <2>1, <2>2, UpTo
  <1> DEFINE q == h[last]
  <1>11. q \in Found /\ q.queue = <<>>
    <2>1. last \in 0..last
      BY <1>2
    <2>2. Here(last)
      BY <1>10, <2>1
    <2>3. ASSUME q.queue # <<>> PROVE FALSE
      <3>1. ToDo(nodes, q) + last <= card + card * card /\ ToDo(nodes, q) \in Int /\ ToDo(nodes, q) >= 0
        BY <1>9, <2>2, <2>3
      <3>2. card * card \in Nat
        BY <1>2
      <3> QED
        BY <1>2, <3>1, <3>2
    <2> QED
      BY <2>2, <2>3
  <1> HIDE DEF q
  <1>12. /\ q.visited \in Seq(nodes) /\ q.left \in [nodes -> Seq(nodes \cup {None})]
         /\ Sorts(nodes, dependencies, q) /\ TopologicalSort(dependencies) = q.visited
    BY <1>7, <1>11 DEF Found, q
  <1>13. nodes \subseteq ToSet(q.visited)
    <2> DEFINE S == nodes \ ToSet(q.visited)
    <2> SUFFICES ASSUME S # {} PROVE FALSE
      OBVIOUS
    <2>1. PICK n \in S : ToSet(dependencies[n]) \cap S = {}
      <3>1. S \in SUBSET nodes
        OBVIOUS
      <3> HIDE DEF S
      <3> QED
        BY <3>1 DEF Acyclic
    <2>2. ToSet(dependencies[n]) \subseteq nodes \cup {None}
      <3>1. dependencies[n] \in Seq(nodes \cup {None})
        BY <1>1
      <3> QED
        BY <3>1, ListParts
    <2>3. ToSet(q.left[n]) = ToSet(dependencies[n]) \ ToSet(q.visited)
      BY <1>12 DEF Sorts, SortsThese
    <2>4. ToSet(q.left[n]) \subseteq {None}
      BY <2>1, <2>2, <2>3
    <2>5. n \in FreeNodes(q.left)
      <3>1. nodes \in SUBSET Nat /\ IsFiniteSet(nodes) /\ n \in nodes
        BY <1>1
      <3>2. FreeNodes(q.left) = {k \in nodes : ToSet(q.left[k]) \subseteq {None}}
        BY <1>12, <3>1, FreeFacts
      <3> QED
        BY <2>4, <3>1, <3>2
    <2>6. ToSet(q.queue) = {}
      BY <1>11 DEF ToSet
    <2>7. n \in ToSet(q.visited)
      BY <1>12, <2>5, <2>6 DEF Sorts, SortsThese
    <2> QED
      BY <2>7
  <1>14. ToSet(q.visited) = nodes /\ IsInjective(q.visited)
    <2>1. ToSet(q.visited) \subseteq nodes
      BY <1>12 DEF ToSet
    <2> QED
      BY <1>12, <1>13, <2>1 DEF Sorts, SortsThese
  <1>15. Len(q.visited) = Cardinality(nodes)
    <2>1. Len(q.visited) \in Nat /\ DOMAIN q.visited = 1..Len(q.visited)
      BY <1>12
    <2>2. q.visited \in Bijection(1..Len(q.visited), nodes)
      <3>1. q.visited \in [1..Len(q.visited) -> nodes]
        BY <1>12, <2>1
      <3>2. \A n \in nodes : \E i \in 1..Len(q.visited) : q.visited[i] = n
        BY <1>14, <2>1 DEF ToSet
      <3> QED
        BY <1>14, <3>1, <3>2 DEF Bijection, Injection, Surjection
    <2>3. IsFiniteSet(1..Len(q.visited)) /\ Cardinality(1..Len(q.visited)) = Len(q.visited)
      <3>1. IsFiniteSet(1..Len(q.visited)) /\ Cardinality(1..Len(q.visited)) = IF 1 > Len(q.visited) THEN 0 ELSE Len(q.visited) - 1 + 1
        BY <2>1, FS_Interval
      <3> QED
        BY <2>1, <3>1
    <2> QED
      <3>1. ExistsBijection(1..Len(q.visited), nodes)
        BY <2>2 DEF ExistsBijection
      <3> QED
        BY <2>3, <3>1, FS_Bijection
  <1>16. IsTopologicalOrder(q.visited, dependencies)
    <2>1. \A i \in DOMAIN q.visited :
            ToSet(dependencies[q.visited[i]]) \ {None} \subseteq {q.visited[j] : j \in 1..(i - 1)}
      BY <1>12 DEF Sorts, SortsThese
    <2> QED
      BY <1>1, <1>14, <1>15, <2>1 DEF IsTopologicalOrder
  <1> QED
    BY <1>12, <1>14, <1>16

-----------------------------------------------------------------------------
(* The search by layers.                                                      *)

\* The search from a node, between two turns of the loop.
Visits(nodes, next, start, queue, visited) ==
  /\ queue \in Seq(nodes) /\ visited \in Seq(nodes) /\ IsInjective(visited)
  /\ start \in ToSet(queue) \cup ToSet(visited)
  /\ \A v \in ToSet(visited) : ToSet(next[v]) \subseteq ToSet(queue) \cup ToSet(visited)
  /\ \A S \in SUBSET nodes : start \in S /\ (\A v \in S : ToSet(next[v]) \subseteq S) =>
       ToSet(queue) \cup ToSet(visited) \subseteq S

LEMMA BreadthFirstTurnKeeps ==
  ASSUME NEW nodes, IsFiniteSet(nodes), NEW next \in [nodes -> Seq(nodes)],
         \A n \in nodes : Len(next[n]) <= Cardinality(nodes), NEW start \in nodes,
         NEW q \in [queue : Seq(nodes), visited : Seq(nodes)],
         Visits(nodes, next, start, q.queue, q.visited)
  PROVE  LET t == BreadthFirstTurn(q, next) IN
         /\ t \in [queue : Seq(nodes), visited : Seq(nodes)]
         /\ Visits(nodes, next, start, t.queue, t.visited)
         /\ q.queue = <<>> => t = q
         /\ q.queue # <<>> => ToDo(nodes, t) <= ToDo(nodes, q) - 1
  <1> DEFINE t == BreadthFirstTurn(q, next)
             v == Head(q.queue)
             rest == Tail(q.queue)
             card == Cardinality(nodes)
  <1>1. /\ q.queue \in Seq(nodes) /\ q.visited \in Seq(nodes)
        /\ card \in Nat /\ Len(q.queue) \in Nat /\ Len(q.visited) \in Nat
        /\ q = [queue |-> q.queue, visited |-> q.visited]
    BY FS_CardinalityType
  <1>2. ASSUME q.queue # <<>>
        PROVE  /\ v \in nodes /\ rest \in Seq(nodes) /\ Len(rest) = Len(q.queue) - 1
               /\ ToSet(q.queue) = {v} \cup ToSet(rest)
    BY <1>1, <1>2, ListParts
  <1>3. CASE q.queue = <<>>
    <2>1. t = q
      BY <1>3 DEF BreadthFirstTurn
    <2> QED
      BY <1>3, <2>1
  <1>4. CASE q.queue # <<>> /\ v \in ToSet(q.visited)
    <2>1. t = [q EXCEPT !.queue = rest]
      BY <1>4 DEF BreadthFirstTurn
    <2>2. t.queue = rest /\ t.visited = q.visited /\ t = [queue |-> rest, visited |-> q.visited]
      BY <1>1, <2>1
    <2> HIDE DEF t, rest, v, card
    <2>3. t \in [queue : Seq(nodes), visited : Seq(nodes)]
      BY <1>1, <1>2, <1>4, <2>2
    <2>4. ToSet(rest) \cup ToSet(q.visited) = ToSet(q.queue) \cup ToSet(q.visited) /\ rest \in Seq(nodes)
      BY <1>2, <1>4
    <2>5. Visits(nodes, next, start, rest, q.visited)
      BY <2>4 DEF Visits
    <2>6. ToDo(nodes, t) <= ToDo(nodes, q) - 1
      <3> DEFINE x == card * (card - Len(q.visited))
      <3>1. ToDo(nodes, t) = Len(rest) + x /\ ToDo(nodes, q) = Len(q.queue) + x
        BY <2>2 DEF ToDo, card
      <3>2. x \in Int
        BY <1>1
      <3>3. Len(rest) = Len(q.queue) - 1
        BY <1>2, <1>4
      <3> HIDE DEF x
      <3> QED
        BY <1>1, <3>1, <3>2, <3>3
    <2> QED
      BY <1>4, <2>2, <2>3, <2>5, <2>6 DEF t
  <1>5. CASE q.queue # <<>> /\ v \notin ToSet(q.visited)
    <2> DEFINE more == next[v]
               visited == Append(q.visited, v)
    <2>1. t = [queue |-> rest \o more, visited |-> visited]
      BY <1>5 DEF BreadthFirstTurn
    <2> HIDE DEF t, rest, v, card
    <2>2. v \in nodes /\ rest \in Seq(nodes)
      BY <1>2, <1>5
    <2>3. more \in Seq(nodes) /\ Len(more) <= card /\ Len(more) \in Nat
      BY <2>2 DEF card
    <2>4. ToSet(visited) = ToSet(q.visited) \cup {v} /\ visited \in Seq(nodes)
      BY <1>1, <2>2, ListParts
    <2>5. ToSet(rest \o more) = ToSet(rest) \cup ToSet(more) /\ rest \o more \in Seq(nodes)
      BY <2>2, <2>3, ListsJoin
    <2>6. /\ Len(visited) = Len(q.visited) + 1 /\ DOMAIN visited = 1..(Len(q.visited) + 1)
          /\ visited[Len(q.visited) + 1] = v /\ \A i \in 1..Len(q.visited) : visited[i] = q.visited[i]
      BY <1>1
    <2>7. IsInjective(visited)
      <3> SUFFICES ASSUME NEW i \in 1..(Len(q.visited) + 1), NEW j \in 1..(Len(q.visited) + 1), visited[i] = visited[j]
                   PROVE  i = j
        BY <2>6 DEF IsInjective
      <3>1. DOMAIN q.visited = 1..Len(q.visited) /\ ToSet(q.visited) = {q.visited[k] : k \in 1..Len(q.visited)}
        BY <1>1, ListDomain
      <3>2. \A k \in 1..Len(q.visited) : q.visited[k] # v
        BY <1>5, <3>1
      <3>3. \A k, l \in 1..Len(q.visited) : q.visited[k] = q.visited[l] => k = l
        BY <3>1 DEF Visits, IsInjective
      <3>4. \A k \in 1..(Len(q.visited) + 1) : k \in 1..Len(q.visited) \/ k = Len(q.visited) + 1
        BY <1>1
      <3> HIDE DEF visited
      <3> QED
        BY <2>6, <3>2, <3>3, <3>4
    <2> HIDE DEF visited
    <2>8. Visits(nodes, next, start, rest \o more, visited)
      <3>1. ToSet(rest \o more) \cup ToSet(visited) = ToSet(q.queue) \cup ToSet(q.visited) \cup ToSet(more)
        BY <1>2, <1>5, <2>4, <2>5
      <3> HIDE DEF more
      <3>2. ASSUME NEW w \in ToSet(visited) PROVE ToSet(next[w]) \subseteq ToSet(rest \o more) \cup ToSet(visited)
        <4>1. CASE w \in ToSet(q.visited)
          BY <3>1, <4>1 DEF Visits
        <4>2. CASE w = v
          BY <3>1, <4>2 DEF more
        <4> QED
          BY <2>4, <4>1, <4>2
      <3>3. ASSUME NEW S \in SUBSET nodes, start \in S /\ \A w \in S : ToSet(next[w]) \subseteq S
            PROVE  ToSet(rest \o more) \cup ToSet(visited) \subseteq S
        <4>1. ToSet(q.queue) \cup ToSet(q.visited) \subseteq S
          BY <3>3 DEF Visits
        <4>2. v \in S
          BY <1>2, <1>5, <4>1
        <4>3. ToSet(more) \subseteq S
          BY <3>3, <4>2 DEF more
        <4> QED
          BY <3>1, <4>1, <4>3
      <3>4. start \in ToSet(rest \o more) \cup ToSet(visited)
        BY <3>1 DEF Visits
      <3> QED
        BY <2>4, <2>5, <2>7, <3>2, <3>3, <3>4 DEF Visits
    <2>9. ToDo(nodes, t) <= ToDo(nodes, q) - 1
      <3>1. t.queue = rest \o more /\ t.visited = visited
        BY <2>1
      <3> HIDE DEF more
      <3>2. Len(rest \o more) = Len(rest) + Len(more)
        BY <2>2, <2>3
      <3> DEFINE x == card * (card - Len(q.visited))
                 y == card * (card - (Len(q.visited) + 1))
      <3>3. ToDo(nodes, t) = Len(rest) + Len(more) + y /\ ToDo(nodes, q) = Len(q.queue) + x
        BY <2>6, <3>1, <3>2 DEF ToDo, card
      <3>4. y = x - card /\ x \in Int
        BY <1>1
      <3>5. Len(rest) = Len(q.queue) - 1
        BY <1>2, <1>5
      <3> HIDE DEF x, y
      <3> QED
        BY <1>1, <2>3, <3>3, <3>4, <3>5
    <2>10. t \in [queue : Seq(nodes), visited : Seq(nodes)] /\ t.queue = rest \o more /\ t.visited = visited
      BY <2>1, <2>4, <2>5
    <2> QED
      BY <1>5, <2>8, <2>9, <2>10 DEF t
  <1> QED
    BY <1>3, <1>4, <1>5

BreadthFirstTurned(start, next, h) ==
  h = [n \in 0..Turns(DOMAIN next) |->
         IF n = 0 THEN [queue |-> start, visited |-> <<>>] ELSE BreadthFirstTurn(h[n - 1], next)]

\* The search finds what can be reached from the start, and nothing else.
LEMMA BreadthFirstFacts ==
  ASSUME NEW nodes, IsFiniteSet(nodes), NEW next \in [nodes -> Seq(nodes)],
         \A n \in nodes : Len(next[n]) <= Cardinality(nodes), NEW start \in nodes
  PROVE  LET found == ToSet(BreadthFirstSearch(<<start>>, next)) IN
         /\ start \in found /\ found \subseteq nodes
         /\ \A v \in found : ToSet(next[v]) \subseteq found
         /\ \A S \in SUBSET nodes : start \in S /\ (\A v \in S : ToSet(next[v]) \subseteq S) => found \subseteq S
  <1> DEFINE first == [queue |-> <<start>>, visited |-> <<>>]
             last == Turns(nodes)
             Found == {q \in [queue : Seq(nodes), visited : Seq(nodes)] : Visits(nodes, next, start, q.queue, q.visited)}
             step == [q \in Found |-> BreadthFirstTurn(q, next)]
             card == Cardinality(nodes)
  <1>1. DOMAIN next = nodes
    OBVIOUS
  <1>2. last \in Nat /\ card \in Nat /\ last >= card * card + card + 1
    BY TurnsNumber
  <1>3. first \in Found /\ ToDo(nodes, first) <= card + card * card
    <2>1. first \in [queue : Seq(nodes), visited : Seq(nodes)]
      OBVIOUS
    <2>2. first.queue = <<start>> /\ first.visited = <<>> /\ Len(first.queue) = 1 /\ Len(first.visited) = 0
      OBVIOUS
    <2> HIDE DEF first
    <2>3. ToSet(<<start>>) = {start} /\ ToSet(<<>>) = {} /\ <<start>> \in Seq(nodes) /\ <<>> \in Seq(nodes)
      BY DEF ToSet
    <2>4. IsInjective(<<>>)
      BY DEF IsInjective
    <2>5. Visits(nodes, next, start, <<start>>, <<>>)
      BY <2>3, <2>4 DEF Visits
    <2>6. card >= 1
      <3>1. card # 0
        BY FS_EmptySet DEF card
      <3> HIDE DEF card
      <3> QED
        BY <1>2, <3>1
    <2>7. ToDo(nodes, first) = 1 + card * (card - 0)
      BY <2>2 DEF ToDo, card
    <2>8. card * (card - 0) = card * card /\ card * card \in Nat
      BY <1>2
    <2>9. first \in Found
      BY <2>1, <2>2, <2>5, Zenon
    <2>10. ToDo(nodes, first) <= card + card * card
      <3> DEFINE x == card * card
      <3>1. ToDo(nodes, first) = 1 + x /\ x \in Nat
        BY <2>7, <2>8
      <3> HIDE DEF x, card
      <3>2. ToDo(nodes, first) <= card + x
        BY <1>2, <2>6, <3>1
      <3> QED
        BY <3>2 DEF x
    <2> QED
      BY <2>9, <2>10
  <1>4. \A q \in Found : /\ BreadthFirstTurn(q, next) \in Found
                         /\ q.queue = <<>> => BreadthFirstTurn(q, next) = q
                         /\ q.queue # <<>> => ToDo(nodes, BreadthFirstTurn(q, next)) <= ToDo(nodes, q) - 1
    <2> SUFFICES ASSUME NEW q \in Found
                 PROVE  /\ BreadthFirstTurn(q, next) \in Found
                        /\ q.queue = <<>> => BreadthFirstTurn(q, next) = q
                        /\ q.queue # <<>> => ToDo(nodes, BreadthFirstTurn(q, next)) <= ToDo(nodes, q) - 1
      OBVIOUS
    <2>1. q \in [queue : Seq(nodes), visited : Seq(nodes)] /\ Visits(nodes, next, start, q.queue, q.visited)
      OBVIOUS
    <2>2. LET t == BreadthFirstTurn(q, next) IN
          /\ t \in [queue : Seq(nodes), visited : Seq(nodes)]
          /\ Visits(nodes, next, start, t.queue, t.visited)
          /\ q.queue = <<>> => t = q
          /\ q.queue # <<>> => ToDo(nodes, t) <= ToDo(nodes, q) - 1
      BY <2>1, BreadthFirstTurnKeeps
    <2> QED
      BY <2>2
  <1>5. step \in [Found -> Found]
    BY <1>4
  <1> HIDE DEF first, last, Found, step, card
  <1>6. \E h : BreadthFirstTurned(<<start>>, next, h)
    <2>1. PICK h \in [0..last -> Found] : Iterates(h, last, first, step)
      BY <1>2, <1>3, <1>5, IteratesExists
    <2>2. \A n \in 0..last : n # 0 => n - 1 \in 0..last
      BY <1>2
    <2>3. \A n \in 0..last : n # 0 => step[h[n - 1]] = BreadthFirstTurn(h[n - 1], next)
      BY <2>1, <2>2 DEF step
    <2>4. h = [n \in 0..last |-> IF n = 0 THEN first ELSE BreadthFirstTurn(h[n - 1], next)]
      BY <2>1, <2>3 DEF Iterates
    <2>5. BreadthFirstTurned(<<start>>, next, h)
      BY <1>1, <2>4, Zenon DEF BreadthFirstTurned, first, last
    <2> QED
      BY <2>5
  <1>7. PICK h : BreadthFirstSearch(<<start>>, next) = h[last].visited /\ BreadthFirstTurned(<<start>>, next, h)
    <2> DEFINE f == CHOOSE g : g = [n \in 0..Turns(DOMAIN next) |->
                      IF n = 0 THEN [queue |-> <<start>>, visited |-> <<>>] ELSE BreadthFirstTurn(g[n - 1], next)]
    <2>1. BreadthFirstTurned(<<start>>, next, f)
      BY <1>6, Zenon DEF BreadthFirstTurned
    <2>2. BreadthFirstSearch(<<start>>, next) = f[last].visited
      BY <1>1 DEF BreadthFirstSearch, last
    <2> QED
      BY <2>1, <2>2
  <1>8. /\ h[0] = first
        /\ \A n \in 0..last : n # 0 => h[n] = BreadthFirstTurn(h[n - 1], next)
    <2>1. h = [n \in 0..last |-> IF n = 0 THEN first ELSE BreadthFirstTurn(h[n - 1], next)]
      BY <1>1, <1>7, Zenon DEF BreadthFirstTurned, first, last
    <2>2. 0 \in 0..last
      BY <1>2
    <2> QED
      BY <2>1, <2>2, Zenon
  <1> DEFINE Here(n) == h[n] \in Found /\ (h[n].queue = <<>> \/ ToDo(nodes, h[n]) + n <= card + card * card)
             Good == {n \in 0..last : Here(n)}
  <1>9. \A q \in Found : ToDo(nodes, q) \in Int /\ (q.queue # <<>> => ToDo(nodes, q) >= 0)
    <2> SUFFICES ASSUME NEW q \in Found PROVE ToDo(nodes, q) \in Int /\ (q.queue # <<>> => ToDo(nodes, q) >= 0)
      OBVIOUS
    <2>1. q.queue \in Seq(nodes) /\ q.visited \in Seq(nodes) /\ IsInjective(q.visited)
      BY DEF Found, Visits
    <2>2. Len(q.queue) \in Nat /\ Len(q.visited) \in Nat /\ Len(q.visited) <= card
      BY <2>1, InjectiveLength DEF card
    <2>3. card - Len(q.visited) \in Nat
      BY <1>2, <2>2
    <2>4. card * (card - Len(q.visited)) \in Nat
      BY <1>2, <2>3
    <2> QED
      BY <2>2, <2>4 DEF ToDo, card
  <1>10. 0..last \subseteq Good
    <2>1. 0 \in Good
      BY <1>2, <1>3, <1>8, <1>9
    <2>2. ASSUME NEW n \in 0..last, n # 0, n - 1 \in Good PROVE n \in Good
      <3>1. Here(n - 1) /\ h[n] = BreadthFirstTurn(h[n - 1], next)
        BY <1>8, <2>2
      <3>2. h[n] \in Found
        BY <1>4, <3>1
      <3>3. CASE h[n - 1].queue = <<>>
        <4>1. h[n].queue = <<>>
          BY <1>4, <3>1, <3>3
        <4> QED
          BY <3>2, <4>1
      <3>4. CASE h[n - 1].queue # <<>>
        <4>1. ToDo(nodes, h[n]) <= ToDo(nodes, h[n - 1]) - 1 /\ ToDo(nodes, h[n - 1]) + (n - 1) <= card + card * card
          BY <1>4, <3>1, <3>4
        <4>2. ToDo(nodes, h[n]) \in Int /\ ToDo(nodes, h[n - 1]) \in Int /\ card + card * card \in Int
          BY <1>2, <1>9, <3>1, <3>2
        <4>3. ToDo(nodes, h[n]) + n <= card + card * card
          BY <4>1, <4>2
        <4> QED
          BY <3>2, <4>3
      <3> QED
        BY <3>3, <3>4
    <2> HIDE DEF Good
    <2> QED
      BY <1>2, <2>1, <2>2, UpTo
  <1> DEFINE q == h[last]
  <1>11. q \in Found /\ q.queue = <<>>
    <2>1. last \in 0..last
      BY <1>2
    <2>2. Here(last)
      BY <1>10, <2>1
    <2>3. ASSUME q.queue # <<>> PROVE FALSE
      <3>1. ToDo(nodes, q) + last <= card + card * card /\ ToDo(nodes, q) \in Int /\ ToDo(nodes, q) >= 0
        BY <1>9, <2>2, <2>3
      <3>2. card * card \in Nat
        BY <1>2
      <3> QED
        BY <1>2, <3>1, <3>2
    <2> QED
      BY <2>2, <2>3
  <1> HIDE DEF q
  <1>12. /\ Visits(nodes, next, start, q.queue, q.visited) /\ q.visited \in Seq(nodes)
         /\ ToSet(q.queue) = {} /\ BreadthFirstSearch(<<start>>, next) = q.visited
    BY <1>7, <1>11 DEF Found, q, ToSet
  <1>13. ToSet(q.visited) \subseteq nodes
    BY <1>12, ListParts
  <1> QED
    BY <1>12, <1>13 DEF Visits

-----------------------------------------------------------------------------
(* What is reached in a graph.                                                *)

LEMMA RunsFinite == Runs \in SUBSET (Nat \ {0}) /\ IsFiniteSet(Runs) /\ Runs = 1..MaxRuns /\ MaxRuns \in Nat /\ Root \in Runs
  <1>1. MaxRuns \in Nat /\ MaxRuns # 0
    BY ConstantsAssumption DEF ConstantsAssumption
  <1>2. Runs = 1..MaxRuns
    BY DEF Runs
  <1>3. IsFiniteSet(1..MaxRuns)
    BY <1>1, FS_Interval
  <1> QED
    BY <1>1, <1>2, <1>3 DEF Root

\* Of some runs, there is a first and a last one.
LEMMA FirstRun ==
  ASSUME NEW S \in SUBSET Runs, S # {}
  PROVE  \E m \in S : \A k \in S : m <= k
  <1>1. S \in SUBSET (0..MaxRuns) /\ MaxRuns \in Nat
    BY RunsFinite
  <1> QED
    BY <1>1, LeastNumber

LEMMA LastRun ==
  ASSUME NEW S \in SUBSET Runs, S # {}
  PROVE  \E m \in S : \A k \in S : m >= k
  <1> DEFINE T == {MaxRuns - k : k \in S}
  <1>1. S \in SUBSET (0..MaxRuns) /\ MaxRuns \in Nat
    BY RunsFinite
  <1>2. T \in SUBSET (0..MaxRuns) /\ T # {}
    <2>1. PICK k \in S : TRUE
      OBVIOUS
    <2>2. MaxRuns - k \in T
      BY <2>1
    <2>3. \A l \in S : MaxRuns - l \in 0..MaxRuns
      BY <1>1
    <2> QED
      BY <2>2, <2>3
  <1>3. PICK t \in T : \A k \in T : t <= k
    <2> HIDE DEF T
    <2> QED
      BY <1>1, <1>2, LeastNumber
  <1>4. PICK m \in S : t = MaxRuns - m
    BY <1>3
  <1>5. ASSUME NEW k \in S PROVE m >= k
    <2>1. MaxRuns - m <= MaxRuns - k
      BY <1>3, <1>4
    <2> QED
      BY <1>1, <2>1
  <1> QED
    BY <1>5

\* Steps between runs.
Steps == [Runs -> SUBSET Runs]

LEMMA ReachedFacts ==
  ASSUME NEW next \in Steps, NEW start \in SUBSET Runs
  PROVE  /\ start \subseteq Reached(next, start) /\ Reached(next, start) \subseteq Runs
         /\ \A x \in Reached(next, start) : next[x] \subseteq Reached(next, start)
         /\ \A S \in SUBSET Runs : start \subseteq S /\ (\A s \in S : next[s] \subseteq S) => Reached(next, start) \subseteq S
  <1>1. start \subseteq Reached(next, start) /\ Reached(next, start) \subseteq Runs
    BY DEF Reached
  <1>2. ASSUME NEW x \in Reached(next, start), NEW y \in next[x] PROVE y \in Reached(next, start)
    <2>1. y \in Runs
      BY <1>1 DEF Steps
    <2>2. ASSUME NEW S \in SUBSET Runs, start \subseteq S /\ \A s \in S : next[s] \subseteq S PROVE y \in S
      <3>1. x \in S
        BY <2>2 DEF Reached
      <3> QED
        BY <1>2, <2>2, <3>1
    <2> QED
      BY <2>1, <2>2 DEF Reached
  <1>3. ASSUME NEW S \in SUBSET Runs, start \subseteq S /\ \A s \in S : next[s] \subseteq S
        PROVE  Reached(next, start) \subseteq S
    BY <1>3 DEF Reached
  <1> QED
    BY <1>1, <1>2, <1>3

\* More is reached from more, and by more steps.
LEMMA MoreReached ==
  ASSUME NEW next \in Steps, NEW start \in SUBSET Runs, NEW wider \in Steps, NEW first \in SUBSET Runs,
         start \subseteq first, \A r \in Runs : next[r] \subseteq wider[r]
  PROVE  Reached(next, start) \subseteq Reached(wider, first)
  <1> DEFINE S == Reached(wider, first)
  <1>1. first \subseteq S /\ S \in SUBSET Runs /\ \A x \in S : wider[x] \subseteq S
    BY ReachedFacts
  <1> HIDE DEF S
  <1>2. start \subseteq S /\ \A x \in S : next[x] \subseteq S
    BY <1>1
  <1>3. Reached(next, start) \subseteq S
    BY <1>1, <1>2, ReachedFacts
  <1> QED
    BY <1>3 DEF S

\* The steps of a graph.
ChildrenOf(G) == [p \in Runs |-> Children(G, p)]
LEMMA GraphSteps ==
  ASSUME NEW G \in Graphs
  PROVE  /\ Parents(G) \in Steps /\ Takers(G) \in Steps /\ ChildrenOf(G) \in Steps /\ Made(G) \subseteq Runs
         /\ \A r \in Runs : /\ Parents(G)[r] = {G[r].parent} \ {NoRun} /\ ChildrenOf(G)[r] = Children(G, r)
                            /\ Takers(G)[r] = {t \in Made(G) : r \in ArgsOf(G, t)}
                            /\ G[r].args \in Seq(Runs) /\ ArgsOf(G, r) \subseteq Runs
  <1>1. \A r \in Runs : /\ G[r].parent \in Runs \cup {NoRun} /\ G[r].args \in Seq(Runs)
    BY DEF Graphs
  <1>2. \A r \in Runs : ArgsOf(G, r) \subseteq Runs
    BY <1>1, ListParts DEF ArgsOf
  <1> QED
    BY <1>1, <1>2 DEF Parents, Takers, ChildrenOf, Children, Made, Steps

\* The functions that led to a run: its parent, and those that led to it.
LEMMA AncestorsFacts ==
  ASSUME NEW G \in Graphs, NEW r \in Runs
  PROVE  /\ Ancestors(G, r) \subseteq Runs
         /\ \A x \in Ancestors(G, r) : Parents(G)[x] \subseteq Ancestors(G, r)
         /\ Parents(G)[r] \subseteq Ancestors(G, r)
         /\ \A S \in SUBSET Runs : Parents(G)[r] \subseteq S /\ (\A s \in S : Parents(G)[s] \subseteq S) => Ancestors(G, r) \subseteq S
  <1>1. Parents(G) \in Steps /\ Parents(G)[r] \in SUBSET Runs
    BY GraphSteps DEF Steps
  <1> QED
    BY <1>1, ReachedFacts DEF Ancestors

LEMMA DescendantsFacts ==
  ASSUME NEW G \in Graphs, NEW r \in Runs
  PROVE  /\ Descendants(G, r) \subseteq Runs
         /\ \A x \in Descendants(G, r) : Children(G, x) \subseteq Descendants(G, r)
         /\ Children(G, r) \subseteq Descendants(G, r)
         /\ \A S \in SUBSET Runs : Children(G, r) \subseteq S /\ (\A s \in S : Children(G, s) \subseteq S) => Descendants(G, r) \subseteq S
  <1>1. ChildrenOf(G) \in Steps /\ Children(G, r) \in SUBSET Runs /\ \A x \in Runs : ChildrenOf(G)[x] = Children(G, x)
    BY GraphSteps DEF Steps
  <1>2. Descendants(G, r) = Reached(ChildrenOf(G), Children(G, r))
    BY DEF Descendants, ChildrenOf
  <1> DEFINE D == Reached(ChildrenOf(G), Children(G, r))
  <1>3. /\ Children(G, r) \subseteq D /\ D \subseteq Runs
        /\ \A x \in D : ChildrenOf(G)[x] \subseteq D
        /\ \A S \in SUBSET Runs : Children(G, r) \subseteq S /\ (\A s \in S : ChildrenOf(G)[s] \subseteq S) => D \subseteq S
    BY <1>1, ReachedFacts
  <1> HIDE DEF D
  <1>4. \A S \in SUBSET Runs : Children(G, r) \subseteq S /\ (\A s \in S : Children(G, s) \subseteq S) => D \subseteq S
    <2> SUFFICES ASSUME NEW S \in SUBSET Runs, Children(G, r) \subseteq S, \A s \in S : Children(G, s) \subseteq S
                 PROVE  D \subseteq S
      OBVIOUS
    <2>1. \A s \in S : ChildrenOf(G)[s] \subseteq S
      BY <1>1
    <2> QED
      BY <1>3, <2>1
  <1> QED
    BY <1>1, <1>2, <1>3, <1>4 DEF D

LEMMA DownstreamFacts ==
  ASSUME NEW G \in Graphs, NEW r \in Runs
  PROVE  /\ Downstream(G, r) \subseteq Runs
         /\ \A x \in Downstream(G, r) : Takers(G)[x] \subseteq Downstream(G, r)
         /\ Takers(G)[r] \subseteq Downstream(G, r)
         /\ \A S \in SUBSET Runs : Takers(G)[r] \subseteq S /\ (\A s \in S : Takers(G)[s] \subseteq S) => Downstream(G, r) \subseteq S
  <1>1. Takers(G) \in Steps /\ Takers(G)[r] \in SUBSET Runs
    BY GraphSteps DEF Steps
  <1> QED
    BY <1>1, ReachedFacts DEF Downstream

\* What is an ancestor has children.
LEMMA AncestorsHaveChildren ==
  ASSUME NEW G \in Graphs, Blank(G), NEW r \in Runs, NEW x \in Ancestors(G, r)
  PROVE  Children(G, x) # {}
  <1> DEFINE S == {y \in Runs : Children(G, y) # {}}
  <1>1. \A y \in Runs : Parents(G)[y] \subseteq S
    <2> SUFFICES ASSUME NEW y \in Runs, NEW p \in Parents(G)[y] PROVE p \in S
      OBVIOUS
    <2>1. p = G[y].parent /\ p # NoRun /\ p \in Runs
      BY GraphSteps DEF Steps
    <2>2. y \in Made(G)
      BY <2>1 DEF Blank, NoRuns
    <2>3. y \in Children(G, p)
      BY <2>1, <2>2 DEF Children
    <2> QED
      BY <2>1, <2>3
  <1>2. S \in SUBSET Runs
    OBVIOUS
  <1> HIDE DEF S
  <1>3. Ancestors(G, r) \subseteq S
    BY <1>1, <1>2, AncestorsFacts
  <1> QED
    BY <1>3 DEF S

\* Ancestors are made, and made earlier.
LEMMA AncestorsEarlier ==
  ASSUME NEW G \in Graphs, Shaped(G), NEW r \in Made(G), NEW x \in Ancestors(G, r)
  PROVE  x < r /\ x \in Made(G)
  <1> DEFINE S == {y \in Made(G) : y < r}
  <1>1. \A y \in Made(G) : \A p \in Parents(G)[y] : p \in Made(G) /\ p < y /\ p \in Nat /\ y \in Nat
    <2> SUFFICES ASSUME NEW y \in Made(G), NEW p \in Parents(G)[y] PROVE p \in Made(G) /\ p < y /\ p \in Nat /\ y \in Nat
      OBVIOUS
    <2>1. y \in Runs /\ p = G[y].parent /\ p # NoRun
      BY GraphSteps
    <2>2. y # Root
      BY <2>1 DEF Shaped
    <2> QED
      BY <2>1, <2>2, RunsFinite DEF Shaped, Made
  <1>2. S \in SUBSET Runs /\ r \in Runs /\ r \in Nat
    BY GraphSteps, RunsFinite
  <1>3. Parents(G)[r] \subseteq S
    BY <1>1
  <1>4. \A s \in S : Parents(G)[s] \subseteq S
    BY <1>1, <1>2
  <1> HIDE DEF S
  <1>5. Ancestors(G, r) \subseteq S
    BY <1>2, <1>3, <1>4, AncestorsFacts
  <1> QED
    BY <1>5 DEF S

\* The ancestors of a run with a parent are this parent and its ancestors.
LEMMA AncestorsOfParent ==
  ASSUME NEW G \in Graphs, NEW r \in Runs, G[r].parent # NoRun
  PROVE  /\ G[r].parent \in Runs
         /\ Ancestors(G, r) = {G[r].parent} \cup Ancestors(G, G[r].parent)
  <1> DEFINE p == G[r].parent
             S == {p} \cup Ancestors(G, p)
  <1>1. p \in Runs /\ Parents(G)[r] = {p}
    BY GraphSteps DEF Graphs
  <1> HIDE DEF p
  <1>2. /\ Ancestors(G, p) \subseteq Runs /\ Parents(G)[p] \subseteq Ancestors(G, p)
        /\ \A x \in Ancestors(G, p) : Parents(G)[x] \subseteq Ancestors(G, p)
        /\ \A T \in SUBSET Runs : Parents(G)[p] \subseteq T /\ (\A s \in T : Parents(G)[s] \subseteq T) => Ancestors(G, p) \subseteq T
    BY <1>1, AncestorsFacts
  <1>3. /\ Ancestors(G, r) \subseteq Runs /\ Parents(G)[r] \subseteq Ancestors(G, r)
        /\ \A x \in Ancestors(G, r) : Parents(G)[x] \subseteq Ancestors(G, r)
        /\ \A T \in SUBSET Runs : Parents(G)[r] \subseteq T /\ (\A s \in T : Parents(G)[s] \subseteq T) => Ancestors(G, r) \subseteq T
    BY AncestorsFacts
  <1>4. Ancestors(G, r) \subseteq S
    <2>1. S \in SUBSET Runs /\ Parents(G)[r] \subseteq S /\ \A s \in S : Parents(G)[s] \subseteq S
      BY <1>1, <1>2
    <2> HIDE DEF S
    <2> QED
      BY <1>3, <2>1
  <1>5. S \subseteq Ancestors(G, r)
    <2>1. p \in Ancestors(G, r)
      BY <1>1, <1>3
    <2>2. Ancestors(G, p) \subseteq Ancestors(G, r)
      BY <1>2, <1>3, <2>1
    <2> QED
      BY <2>1, <2>2
  <1> QED
    BY <1>1, <1>4, <1>5 DEF p

\* The ancestors of an ancestor are ancestors.
LEMMA AncestorsOfAncestors ==
  ASSUME NEW G \in Graphs, NEW r \in Runs, NEW x \in Ancestors(G, r)
  PROVE  Ancestors(G, x) \subseteq Ancestors(G, r)
  <1>1. /\ Ancestors(G, r) \in SUBSET Runs /\ x \in Runs
        /\ \A y \in Ancestors(G, r) : Parents(G)[y] \subseteq Ancestors(G, r)
    BY AncestorsFacts
  <1>2. \A S \in SUBSET Runs : Parents(G)[x] \subseteq S /\ (\A s \in S : Parents(G)[s] \subseteq S) => Ancestors(G, x) \subseteq S
    BY <1>1, AncestorsFacts
  <1> QED
    BY <1>1, <1>2

\* Of two ancestors, one is an ancestor of the other; of two in one layer, there is one.
LEMMA AncestorsAreAChain ==
  ASSUME NEW G \in Graphs, NEW r \in Runs, NEW y \in {r} \cup Ancestors(G, r), NEW x \in {r} \cup Ancestors(G, r)
  PROVE  x = y \/ x \in Ancestors(G, y) \/ y \in Ancestors(G, x)
  <1> DEFINE T == {z \in Runs : z = y \/ z \in Ancestors(G, y) \/ y \in Ancestors(G, z)}
  <1>1. y \in Runs /\ Ancestors(G, r) \subseteq Runs
    BY AncestorsFacts
  <1>2. \A z \in T : Parents(G)[z] \subseteq T
    <2> SUFFICES ASSUME NEW z \in T, NEW p \in Parents(G)[z] PROVE p \in T
      OBVIOUS
    <2>1. z \in Runs /\ p = G[z].parent /\ p # NoRun /\ p \in Runs
      BY GraphSteps DEF Steps
    <2>2. CASE z = y
      BY <1>1, <2>1, <2>2, AncestorsFacts
    <2>3. CASE z \in Ancestors(G, y)
      BY <1>1, <2>1, <2>3, AncestorsFacts
    <2>4. CASE y \in Ancestors(G, z)
      BY <2>1, <2>4, AncestorsOfParent
    <2> QED
      BY <2>2, <2>3, <2>4
  <1>3. r \in T /\ T \in SUBSET Runs
    BY <1>1
  <1> HIDE DEF T
  <1>4. Ancestors(G, r) \subseteq T
    BY <1>2, <1>3, AncestorsFacts
  <1> QED
    BY <1>3, <1>4 DEF T

LEMMA OneAncestorPerLayer ==
  ASSUME NEW G \in Graphs, Shaped(G), NEW r \in Made(G), NEW y \in {r} \cup Ancestors(G, r), NEW x \in {r} \cup Ancestors(G, r),
         G[x].parent = G[y].parent
  PROVE  x = y
  <1>1. r \in Runs /\ x \in Made(G) /\ y \in Made(G) /\ Made(G) \subseteq Runs
    BY GraphSteps, AncestorsEarlier
  <1>2. x = y \/ x \in Ancestors(G, y) \/ y \in Ancestors(G, x)
    BY <1>1, AncestorsAreAChain
  <1>3. ASSUME NEW a \in Made(G), NEW b \in Made(G), G[a].parent = G[b].parent, a \in Ancestors(G, b) PROVE FALSE
    <2>1. a < b /\ a \in Nat /\ b \in Nat
      BY <1>1, <1>3, AncestorsEarlier, RunsFinite
    <2>2. b # Root
      BY <1>1, <2>1, RunsFinite DEF Root
    <2>3. G[b].parent # NoRun /\ G[b].parent \in Made(G)
      BY <2>2 DEF Shaped, Made, NoRun, Runs
    <2>4. a = G[a].parent \/ a \in Ancestors(G, G[a].parent)
      BY <1>1, <1>3, <2>3, AncestorsOfParent
    <2>5. G[a].parent < a
      <3>1. a # Root
        BY <1>3, <2>3 DEF Shaped
      <3> QED
        BY <3>1 DEF Shaped
    <2>6. a < G[a].parent \/ a = G[a].parent
      BY <1>3, <2>3, <2>4, AncestorsEarlier
    <2>7. G[a].parent \in Nat
      BY <1>1, <1>3, <2>3, RunsFinite
    <2> QED
      BY <2>1, <2>5, <2>6, <2>7
  <1> QED
    BY <1>1, <1>2, <1>3

\* The two ways of saying that a run led to another one.
LEMMA DescendantsAncestors ==
  ASSUME NEW G \in Graphs, NEW x \in Runs, NEW y \in Descendants(G, x)
  PROVE  x \in Ancestors(G, y) /\ y \in Made(G) /\ G[y].parent \in {x} \cup Descendants(G, x)
  <1> DEFINE S == {z \in Made(G) : x \in Ancestors(G, z) /\ z \in Descendants(G, x) /\ G[z].parent \in {x} \cup Descendants(G, x)}
  <1>1. Made(G) \subseteq Runs /\ Descendants(G, x) \subseteq Runs
    BY GraphSteps, DescendantsFacts
  <1>2. \A c \in Runs, z \in Runs : c \in Children(G, z) => c \in Made(G) /\ G[c].parent = z /\ z # NoRun
    BY RunsFinite DEF Children, NoRun
  <1>3. Children(G, x) \subseteq S
    <2> SUFFICES ASSUME NEW c \in Children(G, x) PROVE c \in S
      OBVIOUS
    <2>1. c \in Made(G) /\ c \in Runs /\ G[c].parent = x /\ x # NoRun
      BY <1>1, <1>2 DEF Children
    <2>2. Ancestors(G, c) = {x} \cup Ancestors(G, x)
      BY <2>1, AncestorsOfParent
    <2>3. c \in Descendants(G, x)
      BY DescendantsFacts
    <2> QED
      BY <2>1, <2>2, <2>3
  <1>4. ASSUME NEW z \in S PROVE Children(G, z) \subseteq S
    <2> SUFFICES ASSUME NEW c \in Children(G, z) PROVE c \in S
      OBVIOUS
    <2>1. c \in Made(G) /\ c \in Runs /\ z \in Runs /\ G[c].parent = z /\ z # NoRun
      BY <1>1, <1>2 DEF Children
    <2>2. Ancestors(G, c) = {z} \cup Ancestors(G, z)
      BY <2>1, AncestorsOfParent
    <2>3. c \in Descendants(G, x)
      BY <2>1, DescendantsFacts
    <2> QED
      BY <2>1, <2>2, <2>3
  <1>5. S \in SUBSET Runs
    BY <1>1
  <1> HIDE DEF S
  <1>6. Descendants(G, x) \subseteq S
    BY <1>3, <1>4, <1>5, DescendantsFacts
  <1> QED
    BY <1>6 DEF S

LEMMA AncestorsDescendants ==
  ASSUME NEW G \in Graphs, Shaped(G), NEW y \in Made(G), NEW x \in Ancestors(G, y)
  PROVE  y \in Descendants(G, x)
  <1> DEFINE S == {z \in Made(G) : y \in Descendants(G, z)}
  <1>1. Made(G) \subseteq Runs /\ y \in Runs
    BY GraphSteps
  <1>2. ASSUME NEW z \in Made(G), NEW p \in Parents(G)[z], z = y \/ y \in Descendants(G, z) PROVE p \in S
    <2>1. z \in Runs /\ p = G[z].parent /\ p \in Runs /\ p # NoRun
      BY <1>1, GraphSteps DEF Steps
    <2>2. p \in Made(G)
      BY <2>1 DEF Shaped
    <2>3. z \in Children(G, p)
      BY <2>1 DEF Children
    <2>4. z \in Descendants(G, p) /\ \A w \in Descendants(G, p) : Children(G, w) \subseteq Descendants(G, p)
      BY <2>1, <2>3, DescendantsFacts
    <2>5. Descendants(G, z) \subseteq Descendants(G, p)
      <3>1. Descendants(G, p) \in SUBSET Runs
        BY <2>1, DescendantsFacts
      <3>2. \A T \in SUBSET Runs : Children(G, z) \subseteq T /\ (\A s \in T : Children(G, s) \subseteq T) => Descendants(G, z) \subseteq T
        BY <2>1, DescendantsFacts
      <3> QED
        BY <2>4, <3>1, <3>2
    <2> QED
      BY <1>2, <2>2, <2>4, <2>5
  <1>3. S \in SUBSET Runs /\ Parents(G)[y] \subseteq S /\ \A s \in S : Parents(G)[s] \subseteq S
    BY <1>1, <1>2
  <1> HIDE DEF S
  <1>4. Ancestors(G, y) \subseteq S
    BY <1>1, <1>3, AncestorsFacts
  <1> QED
    BY <1>4 DEF S

\* What is downstream of a run is in its layer, and later.
LEMMA DownstreamLater ==
  ASSUME NEW G \in Graphs, Shaped(G), NEW x \in Made(G), NEW y \in Downstream(G, x)
  PROVE  y \in Made(G) /\ y > x /\ G[y].parent = G[x].parent
  <1> DEFINE S == {z \in Made(G) : z > x /\ G[z].parent = G[x].parent}
  <1>1. Made(G) \subseteq Runs /\ Runs \subseteq Nat
    BY GraphSteps, RunsFinite
  <1>2. \A z \in Made(G) : \A t \in Takers(G)[z] : t \in Made(G) /\ t > z /\ G[t].parent = G[z].parent
    <2> SUFFICES ASSUME NEW z \in Made(G), NEW t \in Takers(G)[z] PROVE t \in Made(G) /\ t > z /\ G[t].parent = G[z].parent
      OBVIOUS
    <2>1. t \in Made(G) /\ z \in ArgsOf(G, t)
      BY <1>1, GraphSteps
    <2>2. z < t /\ G[z].parent = G[t].parent
      BY <2>1 DEF Shaped
    <2> QED
      BY <1>1, <2>1, <2>2
  <1>3. S \in SUBSET Runs /\ Takers(G)[x] \subseteq S /\ \A s \in S : Takers(G)[s] \subseteq S
    <2>1. S \in SUBSET Runs /\ Takers(G)[x] \subseteq S
      BY <1>1, <1>2
    <2>2. ASSUME NEW s \in S, NEW t \in Takers(G)[s] PROVE t \in S
      <3>1. t \in Made(G) /\ t > s /\ G[t].parent = G[s].parent
        BY <1>2
      <3>2. t \in Nat /\ s \in Nat /\ x \in Nat
        BY <1>1, <3>1
      <3>3. t > x
        BY <3>1, <3>2
      <3> QED
        BY <3>1, <3>3
    <2> QED
      BY <2>1, <2>2
  <1> HIDE DEF S
  <1>4. Downstream(G, x) \subseteq S
    BY <1>1, <1>3, DownstreamFacts
  <1> QED
    BY <1>4 DEF S

-----------------------------------------------------------------------------
(* The order of the runs.                                                     *)

\* A finite set as a list.
LEMMA Listed ==
  ASSUME NEW S, IsFiniteSet(S)
  PROVE  /\ Cardinality(S) \in Nat /\ SetToSeq(S) \in [1..Cardinality(S) -> S] /\ IsInjective(SetToSeq(S))
         /\ \A e \in S : \E k \in 1..Cardinality(S) : SetToSeq(S)[k] = e
  <1> DEFINE n == Cardinality(S)
             s == SetToSeq(S)
             Lists == {t \in [1..n -> S] : IsInjective(t)}
  <1>1. n \in Nat /\ IsFiniteSet(1..n) /\ Cardinality(1..n) = n
    BY FS_CardinalityType, FS_Interval
  <1>2. PICK d \in Bijection(1..n, S) : TRUE
    BY FS_CardinalityType DEF ExistsBijection
  <1>3. d \in Lists
    BY <1>2 DEF Bijection, Injection
  <1>4. s = CHOOSE t \in [1..n -> S] : IsInjective(t)
    BY DEF SetToSeq
  <1> HIDE DEF n, s
  <1>5. s \in Lists
    BY <1>3, <1>4, Zenon
  <1>6. s \in Injection(1..n, S) /\ s \in [1..n -> S] /\ IsInjective(s)
    BY <1>5 DEF Injection
  <1> HIDE DEF Lists
  <1>7. s \in Surjection(1..n, S)
    <2>1. Cardinality(1..n) = Cardinality(S)
      BY <1>1 DEF n
    <2> QED
      BY <1>1, <1>6, <2>1, FS_Injection
  <1> QED
    BY <1>1, <1>6, <1>7 DEF Surjection, n, s

\* The runs that take a run's output, each once; its layer has all of them.
LEMMA DestinationsFacts ==
  ASSUME NEW G \in Graphs, Shaped(G), ~ TakesTwice, NEW r \in Runs
  PROVE  /\ Destinations(G, r) \in Seq(Takers(G)[r] \cup {None}) /\ IsInjective(Destinations(G, r))
         /\ ToSet(Destinations(G, r)) = IF Takers(G)[r] = {} THEN {None} ELSE Takers(G)[r]
  <1> DEFINE edges == {e \in Made(G) \X (1..2) : e[2] \in DOMAIN G[e[1]].args /\ G[e[1]].args[e[2]] = r}
             n == Cardinality(edges)
             s == SetToSeq(edges)
             d == [k \in 1..n |-> s[k][1]]
  <1>1. Made(G) \subseteq Runs /\ IsFiniteSet(Made(G)) /\ Takers(G)[r] = {t \in Made(G) : r \in ArgsOf(G, t)}
    BY GraphSteps, RunsFinite, FS_Subset
  <1>2. \A t \in Made(G) : /\ G[t].args \in Seq(Runs) /\ DOMAIN G[t].args = 1..Len(G[t].args) /\ Len(G[t].args) \in 0..2
                           /\ \A i, j \in DOMAIN G[t].args : G[t].args[i] = G[t].args[j] => i = j
                           /\ ArgsOf(G, t) = {G[t].args[i] : i \in DOMAIN G[t].args}
    <2> SUFFICES ASSUME NEW t \in Made(G)
                 PROVE  /\ G[t].args \in Seq(Runs) /\ DOMAIN G[t].args = 1..Len(G[t].args) /\ Len(G[t].args) \in 0..2
                        /\ \A i, j \in DOMAIN G[t].args : G[t].args[i] = G[t].args[j] => i = j
                        /\ ArgsOf(G, t) = {G[t].args[i] : i \in DOMAIN G[t].args}
      OBVIOUS
    <2>1. G[t].args \in Seq(Runs)
      BY <1>1, GraphSteps
    <2>2. Len(G[t].args) <= 2 /\ IsInjective(G[t].args)
      BY DEF Shaped
    <2>3. Len(G[t].args) \in Nat /\ DOMAIN G[t].args = 1..Len(G[t].args)
      BY <2>1
    <2>4. Len(G[t].args) \in 0..2
      <3> DEFINE l == Len(G[t].args)
      <3>1. l \in Nat /\ l <= 2
        BY <2>2, <2>3
      <3> HIDE DEF l
      <3>2. l \in 0..2
        BY <3>1
      <3> QED
        BY <3>2 DEF l
    <2> QED
      BY <2>1, <2>2, <2>3, <2>4 DEF IsInjective, ArgsOf, ToSet
  <1>3. IsFiniteSet(edges)
    <2>1. IsFiniteSet(1..2)
      <3>1. 1 \in Int /\ 2 \in Int
        OBVIOUS
      <3> QED
        BY <3>1, FS_Interval, Zenon
    <2>2. IsFiniteSet(Made(G) \X (1..2))
      BY <1>1, <2>1, FS_Product
    <2> QED
      BY <2>2, FS_Subset
  <1>4. \A e \in edges : e[1] \in Takers(G)[r] /\ e = <<e[1], e[2]>>
    BY <1>1, <1>2
  <1>5. \A t \in Takers(G)[r] : \E e \in edges : e[1] = t
    <2> SUFFICES ASSUME NEW t \in Takers(G)[r] PROVE \E e \in edges : e[1] = t
      OBVIOUS
    <2>1. PICK i \in DOMAIN G[t].args : G[t].args[i] = r
      BY <1>1, <1>2
    <2>2. i \in 1..2 /\ t \in Made(G)
      BY <1>1, <1>2
    <2>3. <<t, i>> \in edges
      BY <2>1, <2>2
    <2> QED
      BY <2>3
  <1>6. \A e, f \in edges : e[1] = f[1] => e = f
    <2> SUFFICES ASSUME NEW e \in edges, NEW f \in edges, e[1] = f[1] PROVE e = f
      OBVIOUS
    <2>1. e[2] = f[2]
      BY <1>2
    <2> QED
      BY <1>4, <2>1
  <1>7. Destinations(G, r) = IF edges = {} THEN <<None>> ELSE d
    BY DEF Destinations
  <1> HIDE DEF edges
  <1>8. n \in Nat /\ s \in [1..n -> edges] /\ IsInjective(s) /\ \A e \in edges : \E k \in 1..n : s[k] = e
    BY <1>3, Listed
  <1> HIDE DEF s, n
  <1>9. CASE edges = {}
    <2>1. Takers(G)[r] = {}
      BY <1>5, <1>9
    <2>2. Destinations(G, r) = <<None>> /\ ToSet(<<None>>) = {None} /\ IsInjective(<<None>>)
      BY <1>7, <1>9 DEF ToSet, IsInjective
    <2> QED
      BY <2>1, <2>2
  <1>10. CASE edges # {}
    <2>1. Takers(G)[r] # {}
      BY <1>4, <1>10
    <2>2. d \in Seq(Takers(G)[r]) /\ DOMAIN d = 1..n
      <3>1. \A k \in 1..n : s[k] \in edges
        BY <1>8
      <3>2. \A k \in 1..n : s[k][1] \in Takers(G)[r]
        BY <1>4, <3>1
      <3>3. d \in [1..n -> Takers(G)[r]]
        BY <3>2
      <3> HIDE DEF d
      <3> QED
        BY <1>8, <3>3
    <2>3. IsInjective(d)
      <3> SUFFICES ASSUME NEW a \in 1..n, NEW b \in 1..n, d[a] = d[b] PROVE a = b
        BY <2>2 DEF IsInjective
      <3>1. s[a] \in edges /\ s[b] \in edges /\ s[a][1] = s[b][1]
        BY <1>8
      <3>2. s[a] = s[b]
        BY <1>6, <3>1
      <3> QED
        BY <1>8, <3>2 DEF IsInjective
    <2>4. ToSet(d) = Takers(G)[r]
      <3>1. ToSet(d) = {s[k][1] : k \in 1..n}
        BY <2>2 DEF ToSet
      <3>2. \A k \in 1..n : s[k][1] \in Takers(G)[r]
        BY <1>4, <1>8
      <3>3. \A t \in Takers(G)[r] : \E k \in 1..n : s[k][1] = t
        BY <1>5, <1>8
      <3> HIDE DEF d
      <3>4. ASSUME NEW t \in Takers(G)[r] PROVE t \in ToSet(d)
        BY <3>1, <3>3
      <3>5. ASSUME NEW t \in ToSet(d) PROVE t \in Takers(G)[r]
        BY <3>1, <3>2
      <3> QED
        BY <3>4, <3>5
    <2>5. d \in Seq(Takers(G)[r] \cup {None})
      BY <2>2, SeqMonotonic, Takers(G)[r] \subseteq Takers(G)[r] \cup {None}
    <2> HIDE DEF d
    <2> QED
      BY <1>7, <1>10, <2>1, <2>3, <2>4, <2>5
  <1> QED
    BY <1>9, <1>10

\* The runs of a layer in the order of execution.
LEMMA ExecutionOrdered ==
  ASSUME NEW G \in Graphs, Shaped(G), ~ TakesTwice, NEW p \in Runs
  PROVE  LET layer == Children(G, p)
             order == ExecutionOrder(G, layer)
         IN  /\ order \in Seq(layer) /\ IsInjective(order) /\ ToSet(order) = layer
             /\ IsTopologicalOrder(order, [r \in layer |-> G[r].args])
  <1> DEFINE layer == Children(G, p)
             args == [r \in layer |-> IF G[r].args = <<>> THEN <<None>> ELSE G[r].args]
             order == TopologicalSort(args)
  <1>1. layer \subseteq Made(G) /\ layer \subseteq Runs /\ IsFiniteSet(layer) /\ layer \in SUBSET (Nat \ {0})
    BY GraphSteps, RunsFinite, FS_Subset DEF Children
  <1>2. \A r \in layer : /\ G[r].args \in Seq(layer) /\ IsInjective(G[r].args)
                         /\ \A a \in ToSet(G[r].args) : a < r
    <2> SUFFICES ASSUME NEW r \in layer
                 PROVE  G[r].args \in Seq(layer) /\ IsInjective(G[r].args) /\ \A a \in ToSet(G[r].args) : a < r
      OBVIOUS
    <2>1. r \in Made(G) /\ G[r].parent = p /\ r \in Runs
      BY <1>1 DEF Children
    <2>2. G[r].args \in Seq(Runs) /\ IsInjective(G[r].args)
      BY <2>1, GraphSteps DEF Shaped
    <2>3. \A a \in ToSet(G[r].args) : a \in Made(G) /\ a < r /\ G[a].parent = p
      BY <2>1 DEF Shaped, ArgsOf
    <2>4. \A a \in ToSet(G[r].args) : a \in layer
      BY <2>3 DEF Children
    <2>5. G[r].args \in Seq(layer)
      <3>1. Len(G[r].args) \in Nat /\ DOMAIN G[r].args = 1..Len(G[r].args) /\ ToSet(G[r].args) = {G[r].args[i] : i \in 1..Len(G[r].args)}
        BY <2>2, ListDomain
      <3>2. \A i \in 1..Len(G[r].args) : G[r].args[i] \in layer
        BY <2>4, <3>1
      <3>3. G[r].args \in [1..Len(G[r].args) -> layer]
        BY <2>2, <3>1, <3>2
      <3> QED
        BY <3>1, <3>3
    <2> QED
      BY <2>2, <2>3, <2>5
  <1> HIDE DEF layer
  <1>3. \A r \in layer : args[r] \in Seq(layer \cup {None}) /\ IsInjective(args[r]) /\ ToSet(args[r]) \ {None} = ToSet(G[r].args)
    <2> SUFFICES ASSUME NEW r \in layer
                 PROVE  args[r] \in Seq(layer \cup {None}) /\ IsInjective(args[r]) /\ ToSet(args[r]) \ {None} = ToSet(G[r].args)
      OBVIOUS
    <2>1. CASE G[r].args = <<>>
      <3>1. args[r] = <<None>>
        BY <2>1
      <3>2. ToSet(<<None>>) = {None} /\ ToSet(<<>>) = {} /\ IsInjective(<<None>>) /\ <<None>> \in Seq(layer \cup {None})
        BY DEF ToSet, IsInjective
      <3> QED
        BY <2>1, <3>1, <3>2
    <2>2. CASE G[r].args # <<>>
      <3>1. args[r] = G[r].args
        BY <2>2
      <3>2. ToSet(G[r].args) \subseteq layer /\ None \notin layer
        BY <1>1, <1>2, ListParts DEF None
      <3>3. G[r].args \in Seq(layer \cup {None})
        BY <1>2, SeqMonotonic, layer \subseteq layer \cup {None}
      <3> QED
        BY <1>2, <3>1, <3>2, <3>3
    <2> QED
      BY <2>1, <2>2
  <1>4. Depends(layer, args)
    <2>1. args \in [layer -> Seq(layer \cup {None})]
      BY <1>3
    <2> QED
      BY <1>1, <1>3, <2>1 DEF Depends
  <1>5. Acyclic(layer, args)
    <2> SUFFICES ASSUME NEW S \in SUBSET layer, S # {} PROVE \E n \in S : ToSet(args[n]) \cap S = {}
      BY DEF Acyclic
    <2>1. PICK m \in S : \A k \in S : m <= k
      BY <1>1, FirstRun
    <2>2. ASSUME NEW a \in ToSet(args[m]) \cap S PROVE FALSE
      <3>1. a \in layer /\ a # None /\ a \in Nat /\ m \in Nat
        BY <1>1, <2>2 DEF None
      <3>2. a < m
        BY <1>2, <1>3, <2>2, <3>1
      <3> QED
        BY <2>1, <2>2, <3>1, <3>2
    <2> QED
      BY <2>2
  <1> HIDE DEF args
  <1>6. IsTopologicalOrder(order, args) /\ order \in Seq(layer) /\ IsInjective(order)
    BY <1>4, <1>5, TopologicalOrder
  <1>7. ExecutionOrder(G, layer) = order
    BY DEF ExecutionOrder, args
  <1>8. DOMAIN args = layer
    BY DEF args
  <1> HIDE DEF order
  <1>9. ToSet(order) = layer
    BY <1>6, <1>8 DEF IsTopologicalOrder
  <1>10. IsTopologicalOrder(order, [r \in layer |-> G[r].args])
    <2>1. \A i \in DOMAIN order : order[i] \in layer
      BY <1>6
    <2>2. \A i \in DOMAIN order : ToSet(G[order[i]].args) \subseteq {order[j] : j \in 1..(i - 1)}
      <3> SUFFICES ASSUME NEW i \in DOMAIN order PROVE ToSet(G[order[i]].args) \subseteq {order[j] : j \in 1..(i - 1)}
        OBVIOUS
      <3>1. ToSet(args[order[i]]) \ {None} \subseteq {order[j] : j \in 1..(i - 1)}
        BY <1>6 DEF IsTopologicalOrder
      <3>2. ToSet(args[order[i]]) \ {None} = ToSet(G[order[i]].args)
        BY <1>3, <2>1 DEF args
      <3> QED
        BY <3>1, <3>2
    <2>3. ToSet(order) = layer /\ Len(order) = Cardinality(layer)
      BY <1>6, <1>8 DEF IsTopologicalOrder
    <2> DEFINE takes == [r \in layer |-> G[r].args]
    <2>4. DOMAIN takes = layer /\ \A i \in DOMAIN order : takes[order[i]] = G[order[i]].args
      BY <2>1
    <2> HIDE DEF takes
    <2>5. IsTopologicalOrder(order, takes)
      <3>1. \A i \in DOMAIN order : ToSet(takes[order[i]]) \ {None} \subseteq {order[j] : j \in 1..(i - 1)}
        BY <2>2, <2>4
      <3> QED
        BY <2>3, <2>4, <3>1 DEF IsTopologicalOrder
    <2> QED
      BY <2>5 DEF takes
  <1> QED
    BY <1>6, <1>7, <1>9, <1>10 DEF layer

\* The runs of a layer in the other order.
LEMMA ReverseOrdered ==
  ASSUME NEW G \in Graphs, Shaped(G), ~ TakesTwice, NEW p \in Runs
  PROVE  LET layer == Children(G, p)
             order == ReverseExecutionOrder(G, layer)
         IN  /\ order \in Seq(layer) /\ IsInjective(order) /\ ToSet(order) = layer
             /\ IsTopologicalOrder(order, [r \in layer |-> Destinations(G, r)])
  <1> DEFINE layer == Children(G, p)
             to == [r \in layer |-> Destinations(G, r)]
             order == TopologicalSort(to)
  <1>1. layer \subseteq Made(G) /\ layer \subseteq Runs /\ IsFiniteSet(layer) /\ layer \in SUBSET (Nat \ {0})
    BY GraphSteps, RunsFinite, FS_Subset DEF Children
  <1>2. \A r \in layer : \A t \in Takers(G)[r] : t \in layer /\ t > r
    <2> SUFFICES ASSUME NEW r \in layer, NEW t \in Takers(G)[r] PROVE t \in layer /\ t > r
      OBVIOUS
    <2>1. r \in Runs /\ r \in Nat /\ G[r].parent = p /\ t \in Made(G) /\ r \in ArgsOf(G, t) /\ t \in Nat
      BY <1>1, GraphSteps, RunsFinite DEF Children
    <2>2. r < t /\ G[r].parent = G[t].parent
      BY <2>1 DEF Shaped
    <2> QED
      BY <2>1, <2>2 DEF Children
  <1> HIDE DEF layer
  <1>3. \A r \in layer : /\ to[r] \in Seq(layer \cup {None}) /\ IsInjective(to[r])
                         /\ ToSet(to[r]) \ {None} \subseteq Takers(G)[r]
    <2> SUFFICES ASSUME NEW r \in layer
                 PROVE  to[r] \in Seq(layer \cup {None}) /\ IsInjective(to[r]) /\ ToSet(to[r]) \ {None} \subseteq Takers(G)[r]
      OBVIOUS
    <2>1. to[r] = Destinations(G, r) /\ r \in Runs
      BY <1>1
    <2>2. Takers(G)[r] \cup {None} \subseteq layer \cup {None}
      BY <1>2
    <2>3. /\ Destinations(G, r) \in Seq(Takers(G)[r] \cup {None}) /\ IsInjective(Destinations(G, r))
          /\ ToSet(Destinations(G, r)) = IF Takers(G)[r] = {} THEN {None} ELSE Takers(G)[r]
      BY <2>1, DestinationsFacts
    <2>4. Destinations(G, r) \in Seq(layer \cup {None})
      BY <2>2, <2>3, SeqMonotonic
    <2> QED
      BY <2>1, <2>3, <2>4
  <1>4. Depends(layer, to)
    <2>1. to \in [layer -> Seq(layer \cup {None})]
      BY <1>3
    <2> QED
      BY <1>1, <1>3, <2>1 DEF Depends
  <1>5. Acyclic(layer, to)
    <2> SUFFICES ASSUME NEW S \in SUBSET layer, S # {} PROVE \E n \in S : ToSet(to[n]) \cap S = {}
      BY DEF Acyclic
    <2>1. PICK m \in S : \A k \in S : m >= k
      BY <1>1, LastRun
    <2>2. ASSUME NEW a \in ToSet(to[m]) \cap S PROVE FALSE
      <3>1. a \in layer /\ a # None /\ a \in Nat /\ m \in Nat
        BY <1>1, <2>2 DEF None
      <3>2. a > m
        BY <1>2, <1>3, <2>2, <3>1
      <3> QED
        BY <2>1, <2>2, <3>1, <3>2
    <2> QED
      BY <2>2
  <1> HIDE DEF to
  <1>6. IsTopologicalOrder(order, to) /\ order \in Seq(layer) /\ IsInjective(order)
    BY <1>4, <1>5, TopologicalOrder
  <1>7. ReverseExecutionOrder(G, layer) = order
    BY DEF ReverseExecutionOrder, to
  <1>8. DOMAIN to = layer
    BY DEF to
  <1> HIDE DEF order
  <1>9. ToSet(order) = layer
    BY <1>6, <1>8 DEF IsTopologicalOrder
  <1> QED
    BY <1>6, <1>7, <1>9 DEF layer, to

\* Layer by layer, all of the runs are found.
LEMMA AllFound ==
  ASSUME NEW G \in Graphs, Shaped(G), NEW next \in [Runs -> Seq(Runs)],
         \A r \in Runs : IsInjective(next[r]) /\ ToSet(next[r]) = Children(G, r)
  PROVE  ToSet(BreadthFirstSearch(<<Root>>, next)) = Made(G)
  <1> DEFINE found == ToSet(BreadthFirstSearch(<<Root>>, next))
  <1>1. \A r \in Runs : Len(next[r]) <= Cardinality(Runs)
    BY RunsFinite, InjectiveLength
  <1>2. /\ Root \in found /\ found \subseteq Runs
        /\ \A v \in found : ToSet(next[v]) \subseteq found
        /\ \A S \in SUBSET Runs : Root \in S /\ (\A v \in S : ToSet(next[v]) \subseteq S) => found \subseteq S
    <2>1. IsFiniteSet(Runs) /\ Root \in Runs /\ DOMAIN next = Runs
      BY RunsFinite
    <2> DEFINE nodes == Runs
    <2> HIDE DEF nodes
    <2>2. /\ Root \in found /\ found \subseteq nodes
          /\ \A v \in found : ToSet(next[v]) \subseteq found
          /\ \A S \in SUBSET nodes : Root \in S /\ (\A v \in S : ToSet(next[v]) \subseteq S) => found \subseteq S
      <3>1. IsFiniteSet(nodes) /\ Root \in nodes /\ next \in [nodes -> Seq(nodes)]
        BY <2>1 DEF nodes
      <3>2. \A n \in nodes : Len(next[n]) <= Cardinality(nodes)
        BY <1>1 DEF nodes
      <3> QED
        BY <3>1, <3>2, BreadthFirstFacts
    <2> QED
      BY <2>2 DEF nodes
  <1> HIDE DEF found
  <1>3. found \subseteq Made(G)
    <2>1. Made(G) \in SUBSET Runs /\ Root \in Made(G)
      BY GraphSteps DEF Shaped
    <2>2. \A v \in Made(G) : ToSet(next[v]) \subseteq Made(G)
      BY <2>1 DEF Children
    <2> QED
      BY <1>2, <2>1, <2>2
  <1>4. ASSUME Made(G) \ found # {} PROVE FALSE
    <2> DEFINE Missing == Made(G) \ found
    <2>1. Missing \in SUBSET Runs /\ Missing # {}
      BY <1>4, GraphSteps
    <2>2. PICK m \in Missing : \A k \in Missing : m <= k
      <3> HIDE DEF Missing
      <3> QED
        BY <2>1, FirstRun
    <2>3. m \in Made(G) /\ m # Root /\ m \in Runs
      BY <1>2, <2>1
    <2>4. G[m].parent \in Made(G) /\ G[m].parent < m
      BY <2>3 DEF Shaped
    <2>5. G[m].parent \in Runs /\ G[m].parent \in Nat /\ m \in Nat
      BY <2>3, <2>4, GraphSteps, RunsFinite
    <2>6. G[m].parent \in found
      BY <2>2, <2>4, <2>5
    <2>7. m \in Children(G, G[m].parent)
      BY <2>3 DEF Children
    <2> QED
      BY <1>2, <2>5, <2>6, <2>7
  <1> QED
    BY <1>3, <1>4 DEF found

LEMMA AllSortedBothWays ==
  ASSUME NEW G \in Graphs, Shaped(G), ~ TakesTwice
  PROVE  ToSet(ByExecution(G)) = Made(G) /\ ToSet(ByReverseExecution(G)) = Made(G)
  <1> DEFINE next == [r \in Runs |-> ExecutionOrder(G, Children(G, r))]
             back == [r \in Runs |-> ReverseExecutionOrder(G, Children(G, r))]
  <1>1. \A r \in Runs : Children(G, r) \subseteq Runs
    BY GraphSteps DEF Children
  <1>2. \A r \in Runs : /\ next[r] \in Seq(Children(G, r)) /\ IsInjective(next[r]) /\ ToSet(next[r]) = Children(G, r)
                        /\ back[r] \in Seq(Children(G, r)) /\ IsInjective(back[r]) /\ ToSet(back[r]) = Children(G, r)
    BY ExecutionOrdered, ReverseOrdered
  <1>3. \A r \in Runs : next[r] \in Seq(Runs) /\ back[r] \in Seq(Runs)
    BY <1>1, <1>2, SeqMonotonic
  <1>4. next \in [Runs -> Seq(Runs)] /\ back \in [Runs -> Seq(Runs)]
    BY <1>3
  <1>5. ByExecution(G) = BreadthFirstSearch(<<Root>>, next) /\ ByReverseExecution(G) = BreadthFirstSearch(<<Root>>, back)
    BY DEF ByExecution, ByReverseExecution, SortedRunIdsByLayer
  <1> HIDE DEF next, back
  <1> QED
    BY <1>2, <1>4, <1>5, AllFound

-----------------------------------------------------------------------------
(* What a rerun from a run resets, and what it leaves out.                    *)

Path(G, x) == {x} \cup Ancestors(G, x)
After(G, x) == UNION {Downstream(G, p) : p \in Path(G, x)}

LEMMA ResetSkip ==
  ASSUME NEW G \in Graphs, NEW x \in Runs
  PROVE  /\ Path(G, x) \subseteq Runs /\ After(G, x) \subseteq Runs
         /\ Reset(G, x) = Path(G, x) \cup After(G, x)
         /\ \A p \in Path(G, x) : Downstream(G, p) \subseteq After(G, x)
         /\ \A d \in {x} \cup After(G, x) : Descendants(G, d) \subseteq Skip(G, x) /\ Children(G, d) \subseteq Skip(G, x)
         /\ \A s \in Skip(G, x) : \E d \in {x} \cup After(G, x) : s \in Descendants(G, d)
  <1>1. Path(G, x) \subseteq Runs
    BY AncestorsFacts DEF Path
  <1>2. After(G, x) \subseteq Runs /\ \A p \in Path(G, x) : Downstream(G, p) \subseteq After(G, x)
    BY <1>1, DownstreamFacts DEF After
  <1>3. Reset(G, x) = Path(G, x) \cup After(G, x)
    BY DEF Reset, Path, After
  <1>4. Skip(G, x) = Descendants(G, x) \cup UNION {Descendants(G, d) : d \in After(G, x)}
    BY DEF Skip, Path, After
  <1>5. \A d \in {x} \cup After(G, x) : Descendants(G, d) \subseteq Skip(G, x)
    BY <1>4
  <1>6. \A d \in {x} \cup After(G, x) : Children(G, d) \subseteq Descendants(G, d)
    BY <1>2, DescendantsFacts
  <1>7. \A s \in Skip(G, x) : \E d \in {x} \cup After(G, x) : s \in Descendants(G, d)
    BY <1>4
  <1> QED
    BY <1>1, <1>2, <1>3, <1>5, <1>6, <1>7

\* The runs of a layer are all left out, or none of them is.
LEMMA LayersAreSkipped ==
  ASSUME NEW G \in Graphs, NEW x \in Runs, NEW s \in Skip(G, x)
  PROVE  /\ s \in Made(G) /\ G[s].parent # NoRun /\ G[s].parent \in {x} \cup After(G, x) \cup Skip(G, x)
         /\ Children(G, s) \subseteq Skip(G, x)
         /\ \A c \in Made(G) : G[c].parent = G[s].parent => c \in Skip(G, x)
  <1>1. PICK d \in {x} \cup After(G, x) : s \in Descendants(G, d)
    BY ResetSkip
  <1>2. d \in Runs /\ Descendants(G, d) \subseteq Skip(G, x) /\ Children(G, d) \subseteq Skip(G, x)
    BY <1>1, ResetSkip
  <1>3. d \in Ancestors(G, s) /\ s \in Made(G) /\ G[s].parent \in {d} \cup Descendants(G, d)
    BY <1>1, <1>2, DescendantsAncestors
  <1>4. Descendants(G, d) \subseteq Runs /\ \A y \in Descendants(G, d) : Children(G, y) \subseteq Descendants(G, d)
    BY <1>2, DescendantsFacts
  <1>5. G[s].parent # NoRun
    BY <1>2, <1>3, <1>4, RunsFinite DEF NoRun
  <1>6. ASSUME NEW c \in Made(G), G[c].parent = G[s].parent PROVE c \in Skip(G, x)
    <2>1. c \in Children(G, G[s].parent)
      BY <1>6 DEF Children
    <2> QED
      BY <1>2, <1>3, <1>4, <2>1
  <1> QED
    BY <1>1, <1>2, <1>3, <1>4, <1>5, <1>6

\* Nothing that is reset is left out.
LEMMA ResetIsNotSkipped ==
  ASSUME NEW G \in Graphs, Shaped(G), NEW x \in Made(G), NEW y \in Reset(G, x)
  PROVE  y \notin Skip(G, x) /\ y \in Made(G)
  <1>1. x \in Runs /\ Made(G) \subseteq Runs
    BY GraphSteps
  <1>2. \A p \in Path(G, x) : p \in Made(G) /\ (p = x \/ p < x) /\ p \in Runs /\ p \in Nat
    <2> SUFFICES ASSUME NEW p \in Path(G, x) PROVE p \in Made(G) /\ (p = x \/ p < x) /\ p \in Runs /\ p \in Nat
      OBVIOUS
    <2>1. p = x \/ p \in Ancestors(G, x)
      BY DEF Path
    <2>2. p \in Made(G) /\ (p = x \/ p < x)
      BY <2>1, AncestorsEarlier
    <2> QED
      BY <1>1, <2>2, RunsFinite
  <1>3. ASSUME NEW p \in Path(G, x), p \in Skip(G, x) PROVE FALSE
    <2>1. PICK d \in {x} \cup After(G, x) : p \in Descendants(G, d)
      BY <1>1, <1>3, ResetSkip
    <2>2. d \in Runs /\ d \in Ancestors(G, p)
      BY <1>1, <2>1, ResetSkip, DescendantsAncestors
    <2>3. d < p /\ d \in Made(G)
      BY <1>2, <2>2, AncestorsEarlier
    <2>4. d \in Ancestors(G, x)
      <3>1. p = x \/ p \in Ancestors(G, x)
        BY DEF Path
      <3> QED
        BY <1>1, <2>2, <3>1, AncestorsOfAncestors
    <2>5. d < x
      BY <2>4, AncestorsEarlier
    <2>6. CASE d = x
      BY <1>1, <2>5, <2>6, RunsFinite
    <2>7. CASE d \in After(G, x)
      <3>1. PICK q \in Path(G, x) : d \in Downstream(G, q)
        BY <2>7 DEF After
      <3>2. d > q /\ G[d].parent = G[q].parent
        BY <1>2, <3>1, DownstreamLater
      <3>3. d = q
        BY <2>4, <3>2, OneAncestorPerLayer DEF Path
      <3> QED
        BY <1>2, <3>2, <3>3
    <2> QED
      BY <2>1, <2>6, <2>7
  <1>4. ASSUME NEW d \in After(G, x) PROVE d \notin Skip(G, x) /\ d \in Made(G)
    <2>1. PICK q \in Path(G, x) : d \in Downstream(G, q)
      BY DEF After
    <2>2. d \in Made(G) /\ G[d].parent = G[q].parent
      BY <1>2, <2>1, DownstreamLater
    <2>3. d \in Skip(G, x) => q \in Skip(G, x)
      BY <1>1, <1>2, <2>2, LayersAreSkipped
    <2> QED
      BY <1>3, <2>2, <2>3
  <1>5. y \in Path(G, x) \/ y \in After(G, x)
    BY <1>1, ResetSkip
  <1> QED
    BY <1>2, <1>3, <1>4, <1>5

\* What takes something affected is called again or left out, with all that it had made.
LEMMA TakersAreAffected ==
  ASSUME NEW G \in Graphs, Shaped(G), NEW x \in Made(G), NEW a \in Affected(G, x),
         NEW t \in Made(G), a \in ArgsOf(G, t)
  PROVE  t \in Affected(G, x) /\ Descendants(G, t) \subseteq Skip(G, x)
  <1>1. x \in Runs /\ t \in Runs /\ a \in Made(G) /\ a \in Runs /\ G[a].parent = G[t].parent
    BY GraphSteps DEF Shaped
  <1>2. t \in Takers(G)[a]
    BY <1>1, GraphSteps
  <1>3. a \in Path(G, x) \/ a \in After(G, x) \/ a \in Skip(G, x)
    BY <1>1, ResetSkip DEF Affected
  <1>4. CASE a \in Path(G, x)
    <2>1. t \in After(G, x)
      BY <1>1, <1>2, <1>4, DownstreamFacts, ResetSkip
    <2> QED
      BY <1>1, <2>1, ResetSkip DEF Affected
  <1>5. CASE a \in After(G, x)
    <2>1. PICK p \in Path(G, x) : a \in Downstream(G, p)
      BY <1>5 DEF After
    <2>2. p \in Runs /\ Downstream(G, p) \subseteq After(G, x)
      BY <1>1, ResetSkip
    <2>3. t \in After(G, x)
      BY <1>1, <1>2, <2>1, <2>2, DownstreamFacts
    <2> QED
      BY <1>1, <2>3, ResetSkip DEF Affected
  <1>6. CASE a \in Skip(G, x)
    <2>1. t \in Skip(G, x)
      BY <1>1, <1>6, LayersAreSkipped
    <2>2. \A s \in Skip(G, x) : Children(G, s) \subseteq Skip(G, x)
      BY <1>1, LayersAreSkipped
    <2>3. Skip(G, x) \in SUBSET Runs
      BY <1>1, GraphSteps, LayersAreSkipped
    <2>4. Descendants(G, t) \subseteq Skip(G, x)
      BY <1>1, <2>1, <2>2, <2>3, DescendantsFacts
    <2> QED
      BY <2>1, <2>4 DEF Affected
  <1> QED
    BY <1>3, <1>4, <1>5, <1>6

\* So is a function that returned something affected.
LEMMA ParentsAreAffected ==
  ASSUME NEW G \in Graphs, Shaped(G), NEW x \in Made(G), NEW n \in Affected(G, x), G[n].parent # NoRun
  PROVE  G[n].parent \in Affected(G, x)
  <1>1. x \in Runs
    BY GraphSteps
  <1>2. \A p \in Path(G, x) : p \in Made(G) /\ p \in Runs
    <2> SUFFICES ASSUME NEW p \in Path(G, x) PROVE p \in Made(G) /\ p \in Runs
      OBVIOUS
    <2>1. p = x \/ p \in Ancestors(G, x)
      BY DEF Path
    <2> QED
      BY <2>1, AncestorsEarlier, GraphSteps
  <1>3. \A p \in Path(G, x) : G[p].parent # NoRun => G[p].parent \in Path(G, x)
    <2> SUFFICES ASSUME NEW p \in Path(G, x), G[p].parent # NoRun PROVE G[p].parent \in Path(G, x)
      OBVIOUS
    <2>1. p \in Runs /\ Parents(G)[p] = {G[p].parent}
      BY <1>2, GraphSteps
    <2>2. p = x \/ p \in Ancestors(G, x)
      BY DEF Path
    <2>3. Parents(G)[p] \subseteq Ancestors(G, x)
      BY <1>1, <2>2, AncestorsFacts
    <2> QED
      BY <2>1, <2>3 DEF Path
  <1>4. n \in Path(G, x) \/ n \in After(G, x) \/ n \in Skip(G, x)
    BY <1>1, ResetSkip DEF Affected
  <1>5. CASE n \in Path(G, x)
    BY <1>1, <1>3, <1>5, ResetSkip DEF Affected
  <1>6. CASE n \in After(G, x)
    <2>1. PICK q \in Path(G, x) : n \in Downstream(G, q)
      BY <1>6 DEF After
    <2>2. G[n].parent = G[q].parent
      BY <1>2, <2>1, DownstreamLater
    <2> QED
      BY <1>1, <1>3, <2>2, ResetSkip DEF Affected
  <1>7. CASE n \in Skip(G, x)
    BY <1>1, <1>7, LayersAreSkipped, ResetSkip DEF Affected, Path
  <1> QED
    BY <1>4, <1>5, <1>6, <1>7

\* What a call has had a part in stays so while the graph grows.
Grows(G, H) ==
  Made(G) \subseteq Made(H) /\ \A r \in Made(G) : H[r].parent = G[r].parent /\ H[r].args = G[r].args

LEMMA AffectedGrows ==
  ASSUME NEW G \in Graphs, NEW H \in Graphs, Blank(G), Grows(G, H), NEW x \in Runs
  PROVE  Affected(G, x) \subseteq Affected(H, x)
  <1>1. \A r \in Runs : /\ Parents(G)[r] \subseteq Parents(H)[r]
                        /\ Takers(G)[r] \subseteq Takers(H)[r]
                        /\ ChildrenOf(G)[r] \subseteq ChildrenOf(H)[r]
    <2> SUFFICES ASSUME NEW r \in Runs
                 PROVE  /\ Parents(G)[r] \subseteq Parents(H)[r]
                        /\ Takers(G)[r] \subseteq Takers(H)[r]
                        /\ ChildrenOf(G)[r] \subseteq ChildrenOf(H)[r]
      OBVIOUS
    <2>1. Parents(G)[r] \subseteq Parents(H)[r]
      <3>1. Parents(G)[r] = {G[r].parent} \ {NoRun} /\ Parents(H)[r] = {H[r].parent} \ {NoRun}
        BY GraphSteps
      <3>2. CASE r \in Made(G)
        BY <3>1, <3>2 DEF Grows
      <3>3. CASE r \notin Made(G)
        <4>1. G[r].parent = NoRun
          BY <3>3 DEF Blank, NoRuns
        <4> QED
          BY <3>1, <4>1
      <3> QED
        BY <3>2, <3>3
    <2>2. Takers(G)[r] \subseteq Takers(H)[r]
      <3>1. Takers(G)[r] = {t \in Made(G) : r \in ArgsOf(G, t)} /\ Takers(H)[r] = {t \in Made(H) : r \in ArgsOf(H, t)}
        BY GraphSteps
      <3>2. \A t \in Made(G) : t \in Made(H) /\ ArgsOf(G, t) = ArgsOf(H, t)
        BY DEF Grows, ArgsOf
      <3> QED
        BY <3>1, <3>2
    <2>3. Children(G, r) \subseteq Children(H, r)
      BY DEF Grows, Children
    <2>4. ChildrenOf(G)[r] = Children(G, r) /\ ChildrenOf(H)[r] = Children(H, r)
      BY GraphSteps
    <2> QED
      BY <2>1, <2>2, <2>3, <2>4
  <1>2. /\ Parents(G) \in Steps /\ Takers(G) \in Steps /\ ChildrenOf(G) \in Steps
        /\ Parents(H) \in Steps /\ Takers(H) \in Steps /\ ChildrenOf(H) \in Steps
    BY GraphSteps
  <1>3. \A r \in Runs : /\ Ancestors(G, r) \subseteq Ancestors(H, r)
                        /\ Downstream(G, r) \subseteq Downstream(H, r)
                        /\ Descendants(G, r) \subseteq Descendants(H, r)
    <2> SUFFICES ASSUME NEW r \in Runs
                 PROVE  /\ Ancestors(G, r) \subseteq Ancestors(H, r)
                        /\ Downstream(G, r) \subseteq Downstream(H, r)
                        /\ Descendants(G, r) \subseteq Descendants(H, r)
      OBVIOUS
    <2>1. /\ Parents(G)[r] \in SUBSET Runs /\ Takers(G)[r] \in SUBSET Runs /\ ChildrenOf(G)[r] \in SUBSET Runs
          /\ Parents(H)[r] \in SUBSET Runs /\ Takers(H)[r] \in SUBSET Runs /\ ChildrenOf(H)[r] \in SUBSET Runs
      BY <1>2 DEF Steps
    <2>2. Ancestors(G, r) \subseteq Ancestors(H, r)
      BY <1>1, <1>2, <2>1, MoreReached DEF Ancestors
    <2>3. Downstream(G, r) \subseteq Downstream(H, r)
      BY <1>1, <1>2, <2>1, MoreReached DEF Downstream
    <2>4. /\ Descendants(G, r) = Reached(ChildrenOf(G), ChildrenOf(G)[r])
          /\ Descendants(H, r) = Reached(ChildrenOf(H), ChildrenOf(H)[r])
      BY DEF Descendants, ChildrenOf
    <2>5. Reached(ChildrenOf(G), ChildrenOf(G)[r]) \subseteq Reached(ChildrenOf(H), ChildrenOf(H)[r])
      BY <1>1, <1>2, <2>1, MoreReached
    <2> QED
      BY <2>2, <2>3, <2>4, <2>5
  <1>4. Path(G, x) \subseteq Path(H, x) /\ Path(G, x) \subseteq Runs
    BY <1>3, ResetSkip DEF Path
  <1>5. After(G, x) \subseteq After(H, x) /\ After(G, x) \subseteq Runs
    BY <1>3, <1>4, ResetSkip DEF After
  <1>6. ASSUME NEW s \in Skip(G, x) PROVE s \in Skip(H, x)
    <2>1. PICK d \in {x} \cup After(G, x) : s \in Descendants(G, d)
      BY ResetSkip
    <2>2. d \in Runs /\ d \in {x} \cup After(H, x)
      BY <1>5
    <2>3. s \in Descendants(H, d)
      BY <1>3, <2>1, <2>2
    <2> QED
      BY <2>2, <2>3, ResetSkip
  <1>7. Reset(G, x) \subseteq Reset(H, x)
    BY <1>4, <1>5, ResetSkip
  <1> QED
    BY <1>6, <1>7 DEF Affected

\* The way down from an ancestor.
LEMMA WayDown ==
  ASSUME NEW G \in Graphs, Shaped(G), NEW x \in Made(G), NEW y \in Ancestors(G, x)
  PROVE  \E c \in Path(G, x) : c \in Children(G, y)
  <1> DEFINE S == {z \in Ancestors(G, x) : \E c \in Path(G, x) : c \in Children(G, z)}
  <1>1. x \in Runs /\ Ancestors(G, x) \subseteq Runs /\ \A z \in Path(G, x) : Parents(G)[z] \subseteq Ancestors(G, x)
    <2>1. x \in Runs
      BY GraphSteps
    <2> QED
      BY <2>1, AncestorsFacts DEF Path
  <1>2. ASSUME NEW z \in Path(G, x), NEW p \in Parents(G)[z] PROVE p \in S
    <2>1. z \in Made(G) /\ z \in Runs
      BY AncestorsEarlier, GraphSteps DEF Path
    <2>2. p = G[z].parent
      BY <2>1, GraphSteps
    <2>3. z \in Children(G, p)
      BY <2>1, <2>2 DEF Children
    <2> QED
      BY <1>1, <2>3
  <1>3. S \in SUBSET Runs /\ Parents(G)[x] \subseteq S /\ \A s \in S : Parents(G)[s] \subseteq S
    BY <1>1, <1>2 DEF Path
  <1> HIDE DEF S
  <1>4. Ancestors(G, x) \subseteq S
    BY <1>1, <1>3, AncestorsFacts
  <1> QED
    BY <1>4 DEF S

\* Every future of a function leads to the last one.
LEMMA LeadsToTheLast ==
  ASSUME NEW G \in Graphs, Shaped(G), LeadOn(G), NEW p \in Made(G), NEW c \in Children(G, p)
  PROVE  G[p].nested \in {c} \cup Downstream(G, c)
  <1> DEFINE S == {c} \cup Downstream(G, c)
  <1>1. c \in Made(G) /\ c \in Runs /\ G[c].parent = p /\ Made(G) \subseteq Runs /\ p # NoRun
    BY GraphSteps, RunsFinite DEF Children, NoRun
  <1>2. Downstream(G, c) \subseteq Runs /\ \A z \in {c} \cup Downstream(G, c) : Takers(G)[z] \subseteq Downstream(G, c)
    BY <1>1, DownstreamFacts
  <1>3. S \in SUBSET Runs /\ S # {} /\ \A z \in S : z \in Made(G) /\ G[z].parent = p
    BY <1>1, <1>2, DownstreamLater
  <1>4. PICK m \in S : \A k \in S : m >= k
    <2> HIDE DEF S
    <2> QED
      BY <1>3, LastRun
  <1>5. m \in Made(G) /\ G[m].parent = p /\ m # Root
    BY <1>1, <1>3 DEF Shaped
  <1>6. m = G[p].nested \/ \E t \in Made(G) : m \in ArgsOf(G, t)
    BY <1>5 DEF LeadOn
  <1>7. ASSUME NEW t \in Made(G), m \in ArgsOf(G, t) PROVE FALSE
    <2>1. t \in Takers(G)[m] /\ m < t
      BY <1>1, <1>5, <1>7, GraphSteps DEF Shaped
    <2>2. t \in S
      BY <1>2, <2>1
    <2>3. m >= t /\ m \in Nat /\ t \in Nat
      BY <1>1, <1>4, <1>5, <2>2, RunsFinite
    <2> QED
      BY <2>1, <2>3
  <1> QED
    BY <1>6, <1>7

\* What a resolved function has made is resolved.
LEMMA ResolvedDown ==
  ASSUME NEW G \in Graphs, Shaped(G), Executed(G), NEW p \in Made(G), G[p].state = "RESOLVED"
  PROVE  \A d \in Descendants(G, p) : G[d].state = "RESOLVED"
  <1> DEFINE S == {d \in Made(G) : G[d].state = "RESOLVED"}
  <1>1. p \in Runs /\ S \in SUBSET Runs
    BY GraphSteps
  <1>2. \A s \in S : Children(G, s) \subseteq S
    BY DEF Executed, Children
  <1>3. p \in S
    OBVIOUS
  <1> HIDE DEF S
  <1>4. Children(G, p) \subseteq S
    BY <1>2, <1>3
  <1>5. Descendants(G, p) \subseteq S
    BY <1>1, <1>2, <1>4, DescendantsFacts
  <1> QED
    BY <1>5 DEF S

LEMMA AllResolved ==
  ASSUME NEW G \in Graphs, Shaped(G), Executed(G), G[Root].state = "RESOLVED", NEW r \in Made(G)
  PROVE  G[r].state = "RESOLVED"
  <1> DEFINE Bad == {z \in Made(G) : G[z].state # "RESOLVED"}
  <1> SUFFICES ASSUME Bad # {} PROVE FALSE
    OBVIOUS
  <1>1. Bad \in SUBSET Runs
    BY GraphSteps
  <1>2. PICK m \in Bad : \A k \in Bad : m <= k
    <2> HIDE DEF Bad
    <2> QED
      BY <1>1, FirstRun
  <1>3. m \in Made(G) /\ m # Root /\ G[m].state # "RESOLVED"
    OBVIOUS
  <1>4. G[m].parent \in Made(G) /\ G[m].parent < m
    BY <1>3 DEF Shaped
  <1>5. G[m].parent \in Nat /\ m \in Nat
    BY <1>3, <1>4, GraphSteps, RunsFinite
  <1>6. G[G[m].parent].state = "RESOLVED"
    BY <1>2, <1>4, <1>5
  <1>7. m \in Children(G, G[m].parent)
    BY <1>3 DEF Children
  <1> QED
    BY <1>3, <1>4, <1>6, <1>7 DEF Executed

-----------------------------------------------------------------------------
(* The clone.                                                                 *)

\* A clone is a future of its run, with what it takes and belongs to.
Cloned(G, runs, reset, r) ==
  /\ Clone(G, runs, reset)[r].parent = G[r].parent
  /\ Clone(G, runs, reset)[r].args = G[r].args
  /\ Clone(G, runs, reset)[r].nested = NestedWithin(G, runs, r)
  /\ G[r].state = "RESOLVED" /\ r \notin reset =>
       Clone(G, runs, reset)[r].state = "RESOLVED" /\ Clone(G, runs, reset)[r].made_of = G[r].made_of
  /\ ~ (G[r].state = "RESOLVED" /\ r \notin reset) =>
       /\ Clone(G, runs, reset)[r].made_of = {}
       /\ NestedWithin(G, runs, r) \in reset => Clone(G, runs, reset)[r].state = "RAN"
       /\ NestedWithin(G, runs, r) \notin reset => Clone(G, runs, reset)[r].state = "CREATED"

LEMMA ClonesTyped ==
  ASSUME NEW G \in Graphs, NEW runs, NEW reset \in SUBSET Runs
  PROVE  /\ Clone(G, runs, reset) \in Graphs /\ Made(Clone(G, runs, reset)) = runs \cap Runs
         /\ Blank(Clone(G, runs, reset)) /\ Live(Clone(G, runs, reset))
         /\ \A r \in runs \cap Runs : Cloned(G, runs, reset, r)
  <1> DEFINE C == Clone(G, runs, reset)
             Entry == [state : FutureState \cup {"NONE"}, parent : Runs \cup {NoRun}, nested : Runs \cup {NoRun},
                       args : Seq(Runs), made_of : SUBSET Runs]
             n(r) == NestedWithin(G, runs, r)
             Kept(r) == [G[r] EXCEPT !.nested = n(r)]
             Again(r) == [G[r] EXCEPT !.state = IF n(r) \in reset THEN "RAN" ELSE "CREATED", !.nested = n(r), !.made_of = {}]
  <1>1. \A r \in Runs : G[r] \in Entry
    BY DEF Graphs
  <1>2. \A r \in Runs : n(r) \in Runs \cup {NoRun}
    BY <1>1 DEF NestedWithin
  <1>3. \A r \in Runs : C[r] = IF r \notin runs THEN NoRuns
                               ELSE IF G[r].state = "RESOLVED" /\ r \notin reset THEN Kept(r) ELSE Again(r)
    BY DEF Clone
  <1>4. DOMAIN C = Runs /\ C = [r \in Runs |-> C[r]]
    BY DEF Clone
  <1> HIDE DEF C, n
  <1>5. \A r \in Runs : /\ Kept(r) \in Entry /\ Again(r) \in Entry
                        /\ Kept(r).state = G[r].state /\ Kept(r).parent = G[r].parent /\ Kept(r).args = G[r].args
                        /\ Kept(r).nested = n(r) /\ Kept(r).made_of = G[r].made_of
                        /\ Again(r).parent = G[r].parent /\ Again(r).args = G[r].args
                        /\ Again(r).nested = n(r) /\ Again(r).made_of = {}
                        /\ Again(r).state = IF n(r) \in reset THEN "RAN" ELSE "CREATED"
    <2> SUFFICES ASSUME NEW r \in Runs
                 PROVE  /\ Kept(r) \in Entry /\ Again(r) \in Entry
                        /\ Kept(r).state = G[r].state /\ Kept(r).parent = G[r].parent /\ Kept(r).args = G[r].args
                        /\ Kept(r).nested = n(r) /\ Kept(r).made_of = G[r].made_of
                        /\ Again(r).parent = G[r].parent /\ Again(r).args = G[r].args
                        /\ Again(r).nested = n(r) /\ Again(r).made_of = {}
                        /\ Again(r).state = IF n(r) \in reset THEN "RAN" ELSE "CREATED"
      OBVIOUS
    <2> DEFINE m == n(r)
               anew == IF n(r) \in reset THEN "RAN" ELSE "CREATED"
    <2>1. /\ G[r].state \in FutureState \cup {"NONE"} /\ G[r].parent \in Runs \cup {NoRun} /\ G[r].nested \in Runs \cup {NoRun}
          /\ G[r].args \in Seq(Runs) /\ G[r].made_of \in SUBSET Runs
          /\ m \in Runs \cup {NoRun} /\ anew \in FutureState
      BY <1>1, <1>2 DEF FutureState
    <2>2. G[r] = [state |-> G[r].state, parent |-> G[r].parent, nested |-> G[r].nested, args |-> G[r].args, made_of |-> G[r].made_of]
      BY <1>1
    <2>3. Kept(r) = [G[r] EXCEPT !.nested = m] /\ Again(r) = [G[r] EXCEPT !.state = anew, !.nested = m, !.made_of = {}]
      OBVIOUS
    <2> HIDE DEF m, anew
    <2>4. Kept(r) = [state |-> G[r].state, parent |-> G[r].parent, nested |-> m, args |-> G[r].args, made_of |-> G[r].made_of]
      BY <2>2, <2>3
    <2>5. Again(r) = [state |-> anew, parent |-> G[r].parent, nested |-> m, args |-> G[r].args, made_of |-> {}]
      <3>1. PICK st, pa, ne, ar, mo : G[r] = [state |-> st, parent |-> pa, nested |-> ne, args |-> ar, made_of |-> mo]
        BY <2>2
      <3> DEFINE one == [G[r] EXCEPT !.state = anew]
                 two == [one EXCEPT !.nested = m]
      <3>2. Again(r) = [two EXCEPT !.made_of = {}]
        BY <2>3
      <3>3. one = [state |-> anew, parent |-> pa, nested |-> ne, args |-> ar, made_of |-> mo]
        BY <3>1
      <3> HIDE DEF one
      <3>4. two = [state |-> anew, parent |-> pa, nested |-> m, args |-> ar, made_of |-> mo]
        BY <3>3
      <3> HIDE DEF two
      <3>5. Again(r) = [state |-> anew, parent |-> pa, nested |-> m, args |-> ar, made_of |-> {}]
        BY <3>2, <3>4
      <3> QED
        BY <3>1, <3>5
    <2> HIDE DEF Kept, Again
    <2>6. Kept(r) \in Entry
      BY <2>1, <2>4
    <2>7. Again(r) \in Entry
      BY <2>1, <2>5
    <2>8. /\ Kept(r).state = G[r].state /\ Kept(r).parent = G[r].parent /\ Kept(r).args = G[r].args
          /\ Kept(r).nested = m /\ Kept(r).made_of = G[r].made_of
      BY <2>4
    <2>9. /\ Again(r).parent = G[r].parent /\ Again(r).args = G[r].args
          /\ Again(r).nested = m /\ Again(r).made_of = {} /\ Again(r).state = anew
      BY <2>5
    <2> QED
      BY <2>6, <2>7, <2>8, <2>9 DEF m, anew
  <1>6. NoRuns \in Entry /\ NoRuns.state = "NONE"
    <2>1. <<>> \in Seq(Runs)
      OBVIOUS
    <2> QED
      BY <2>1 DEF NoRuns
  <1> HIDE DEF Kept, Again
  <1>7. C \in Graphs
    <2>1. \A r \in Runs : C[r] \in Entry
      BY <1>3, <1>5, <1>6
    <2> HIDE DEF Entry
    <2>2. C \in [Runs -> Entry]
      BY <1>4, <2>1
    <2> QED
      BY <2>2 DEF Graphs, Entry
  <1> HIDE DEF Entry
  <1>8. \A r \in runs \cap Runs : Cloned(G, runs, reset, r)
    BY <1>3, <1>5 DEF Cloned, C, n
  <1>9. \A r \in runs \cap Runs : C[r].state \in {"CREATED", "RAN", "RESOLVED"} /\ (C[r].state = "RAN" => C[r].nested \in reset)
    <2> SUFFICES ASSUME NEW r \in runs \cap Runs
                 PROVE  C[r].state \in {"CREATED", "RAN", "RESOLVED"} /\ (C[r].state = "RAN" => C[r].nested \in reset)
      OBVIOUS
    <2>1. C[r] = IF G[r].state = "RESOLVED" /\ r \notin reset THEN Kept(r) ELSE Again(r)
      BY <1>3
    <2> QED
      BY <1>5, <2>1
  <1>10. \A r \in Runs : r \notin runs => C[r] = NoRuns /\ C[r].state = "NONE"
    BY <1>3, <1>6
  <1>11. Made(C) = runs \cap Runs
    BY <1>9, <1>10 DEF Made
  <1>12. Blank(C)
    BY <1>10, <1>11 DEF Blank
  <1>13. Live(C)
    BY <1>9, <1>11, RunsFinite DEF Live, NoRun
  <1> QED
    BY <1>7, <1>8, <1>11, <1>12, <1>13 DEF C

\* If all that its runs take and belong to is cloned, the clone has the shape of a graph.
LEMMA CloneShaped ==
  ASSUME NEW G \in Graphs, Shaped(G), NEW runs \in SUBSET Made(G), Root \in runs, NEW reset \in SUBSET Runs,
         \A r \in runs : (r # Root => G[r].parent \in runs) /\ ArgsOf(G, r) \subseteq runs
  PROVE  Shaped(Clone(G, runs, reset))
  <1> DEFINE C == Clone(G, runs, reset)
  <1>1. /\ Made(C) = runs /\ runs \subseteq Runs
        /\ \A r \in runs : C[r].parent = G[r].parent /\ C[r].args = G[r].args /\ C[r].nested = NestedWithin(G, runs, r)
    <2>1. runs \cap Runs = runs
      BY GraphSteps
    <2>2. Made(C) = runs \cap Runs /\ \A r \in runs \cap Runs : Cloned(G, runs, reset, r)
      BY ClonesTyped
    <2> QED
      BY <2>1, <2>2 DEF Cloned
  <1> HIDE DEF C
  <1>2. ASSUME NEW r \in runs
        PROVE  /\ r # Root => C[r].parent \in Made(C) /\ C[r].parent < r
               /\ \A a \in ArgsOf(C, r) : a \in Made(C) /\ a < r /\ C[a].parent = C[r].parent
               /\ C[r].nested \in Children(C, r) \cup {NoRun}
               /\ Len(C[r].args) <= 2 /\ (~ TakesTwice => IsInjective(C[r].args))
    <2>1. /\ r # Root => G[r].parent \in Made(G) /\ G[r].parent < r
          /\ \A a \in ArgsOf(G, r) : a \in Made(G) /\ a < r /\ G[a].parent = G[r].parent
          /\ G[r].nested \in Children(G, r) \cup {NoRun}
          /\ Len(G[r].args) <= 2 /\ (~ TakesTwice => IsInjective(G[r].args))
      BY DEF Shaped
    <2>2. ArgsOf(C, r) = ArgsOf(G, r) /\ ArgsOf(G, r) \subseteq runs
      BY <1>1 DEF ArgsOf
    <2>3. C[r].nested \in Children(C, r) \cup {NoRun}
      <3>1. C[r].nested = IF G[r].nested \in runs THEN G[r].nested ELSE NoRun
        BY <1>1 DEF NestedWithin
      <3>2. CASE G[r].nested \in runs /\ G[r].nested # NoRun
        <4>1. G[r].nested \in Children(G, r)
          BY <2>1, <3>2
        <4>2. G[r].nested \in Children(C, r)
          BY <1>1, <3>2, <4>1 DEF Children
        <4> QED
          BY <3>1, <3>2, <4>2
      <3> QED
        BY <3>1, <3>2
    <2> QED
      BY <1>1, <2>1, <2>2, <2>3
  <1>3. Root \in Made(C) /\ C[Root].parent = NoRun
    BY <1>1 DEF Shaped
  <1> QED
    BY <1>1, <1>2, <1>3 DEF Shaped, C

\* What the rerun from a run starts with, whatever order its runs were found in.
LEMMA CloneIsRenewed ==
  ASSUME NEW G \in Graphs, Blank(G), Shaped(G), Executed(G), NEW x \in Made(G)
  PROVE  /\ CloneFrom(G, x) \in Graphs /\ Blank(CloneFrom(G, x)) /\ Live(CloneFrom(G, x))
         /\ \A r \in Runs : x \notin CloneFrom(G, x)[r].made_of
         /\ Children(CloneFrom(G, x), x) = {} /\ CloneFrom(G, x)[x].state # "RAN"
  <1> DEFINE runs == (ToSet(ByExecution(G)) \ Skip(G, x)) \cap ToSet(ByReverseExecution(G))
             reset == Reset(G, x)
             C == Clone(G, runs, reset)
  <1>1. x \in Runs /\ Made(G) \subseteq Runs
    BY GraphSteps
  <1>2. reset \in SUBSET Runs
    BY <1>1, ResetSkip
  <1>3. CloneFrom(G, x) = C
    BY DEF CloneFrom
  <1>4. runs \cap Skip(G, x) = {}
    OBVIOUS
  <1> HIDE DEF runs, reset
  <1>5. /\ C \in Graphs /\ Made(C) = runs \cap Runs /\ Blank(C) /\ Live(C)
        /\ \A r \in runs \cap Runs : Cloned(G, runs, reset, r)
    BY <1>2, ClonesTyped
  <1>6. \A r \in runs \cap Runs : /\ C[r].parent = G[r].parent /\ C[r].nested = NestedWithin(G, runs, r)
                                  /\ G[r].state = "RESOLVED" /\ r \notin reset => C[r].made_of = G[r].made_of
                                  /\ ~ (G[r].state = "RESOLVED" /\ r \notin reset) => C[r].made_of = {}
    BY <1>5 DEF Cloned
  <1>7. \A r \in Runs : C[r].state = "RAN" => r \in runs /\ C[r].nested # NoRun
    BY <1>5 DEF Live, Made, Blank, NoRuns
  <1> HIDE DEF C
  <1>8. ASSUME NEW r \in Runs, x \in C[r].made_of PROVE FALSE
    <2>1. r \in Made(C)
      BY <1>5, <1>8 DEF Blank, NoRuns
    <2>2. r \in runs /\ G[r].state = "RESOLVED" /\ r \notin reset /\ x \in G[r].made_of
      BY <1>5, <1>6, <1>8, <2>1
    <2>3. r \in Made(G)
      BY <2>2 DEF Made
    <2>4. r \in Affected(G, x)
      BY <2>2, <2>3 DEF Executed
    <2> QED
      BY <1>4, <2>2, <2>4 DEF Affected, reset
  <1>9. Children(G, x) \subseteq Skip(G, x)
    BY <1>1, ResetSkip
  <1>10. ASSUME NEW c \in Children(C, x) PROVE FALSE
    <2>1. c \in runs \cap Runs /\ C[c].parent = x /\ x # NoRun
      BY <1>1, <1>5, RunsFinite DEF Children, NoRun
    <2>2. G[c].parent = x
      BY <1>6, <2>1
    <2>3. c \in Made(G)
      BY <2>1, <2>2 DEF Blank, NoRuns
    <2>4. c \in Skip(G, x)
      BY <1>9, <2>2, <2>3 DEF Children
    <2> QED
      BY <1>4, <2>1, <2>4
  <1>11. ASSUME C[x].state = "RAN" PROVE FALSE
    <2>1. x \in runs /\ C[x].nested # NoRun
      BY <1>1, <1>7, <1>11
    <2>2. C[x].nested = NestedWithin(G, runs, x)
      BY <1>1, <1>6, <2>1
    <2>3. G[x].nested \in runs /\ G[x].nested # NoRun
      BY <2>1, <2>2 DEF NestedWithin
    <2>4. G[x].nested \in Skip(G, x)
      BY <1>9, <2>3 DEF Shaped
    <2> QED
      BY <1>4, <2>3, <2>4
  <1> QED
    BY <1>3, <1>5, <1>8, <1>10, <1>11

\* If no function takes a future twice, it is a graph in which all that is to be called is alone.
LEMMA CloneFromIsSound ==
  ASSUME NEW G \in Graphs, Blank(G), Shaped(G), Executed(G), NEW x \in Made(G), ~ TakesTwice
  PROVE  /\ Shaped(CloneFrom(G, x))
         /\ G[Root].state = "RESOLVED" => FreshAreAlone(CloneFrom(G, x))
  <1> DEFINE runs == Made(G) \ Skip(G, x)
             reset == Reset(G, x)
             C == Clone(G, runs, reset)
  <1>1. x \in Runs /\ Made(G) \subseteq Runs /\ reset \in SUBSET Runs
    BY GraphSteps, ResetSkip
  <1>2. CloneFrom(G, x) = C
    <2>1. ToSet(ByExecution(G)) = Made(G) /\ ToSet(ByReverseExecution(G)) = Made(G)
      BY AllSortedBothWays
    <2>2. (ToSet(ByExecution(G)) \ Skip(G, x)) \cap ToSet(ByReverseExecution(G)) = runs
      BY <2>1
    <2> HIDE DEF runs
    <2> QED
      BY <2>2 DEF CloneFrom
  <1>3. \A r \in runs : (r # Root => G[r].parent \in runs) /\ ArgsOf(G, r) \subseteq runs
    <2> SUFFICES ASSUME NEW r \in runs
                 PROVE  (r # Root => G[r].parent \in runs) /\ ArgsOf(G, r) \subseteq runs
      OBVIOUS
    <2>1. r \in Made(G) /\ r \notin Skip(G, x) /\ r \in Runs
      BY <1>1
    <2>2. ASSUME r # Root PROVE G[r].parent \in runs
      <3>1. G[r].parent \in Made(G)
        BY <2>1, <2>2 DEF Shaped
      <3>2. r \in Children(G, G[r].parent)
        BY <2>1 DEF Children
      <3>3. G[r].parent \notin Skip(G, x)
        BY <1>1, <2>1, <3>2, LayersAreSkipped
      <3> QED
        BY <3>1, <3>3
    <2>3. ASSUME NEW a \in ArgsOf(G, r) PROVE a \in runs
      <3>1. a \in Made(G) /\ G[a].parent = G[r].parent
        BY <2>1 DEF Shaped
      <3>2. a \notin Skip(G, x)
        BY <1>1, <2>1, <3>1, LayersAreSkipped
      <3> QED
        BY <3>1, <3>2
    <2> QED
      BY <2>2, <2>3
  <1>4. Root \in runs
    <2>1. Root \in Made(G) /\ G[Root].parent = NoRun
      BY DEF Shaped
    <2>2. Root \notin Skip(G, x)
      BY <1>1, <2>1, LayersAreSkipped
    <2> QED
      BY <2>1, <2>2
  <1>5. runs \in SUBSET Made(G) /\ runs \cap Runs = runs /\ runs \cap Skip(G, x) = {}
    BY <1>1
  <1>6. \A y \in reset : y \notin Skip(G, x) /\ y \in runs
    BY ResetIsNotSkipped
  <1> HIDE DEF runs
  <1>7. Shaped(C)
    BY <1>1, <1>3, <1>4, <1>5, CloneShaped
  <1>8. Made(C) = runs /\ \A r \in runs : Cloned(G, runs, reset, r)
    BY <1>1, <1>5, ClonesTyped
  <1>9. \A r \in runs : /\ C[r].parent = G[r].parent
                        /\ G[r].state = "RESOLVED" /\ C[r].state = "CREATED" =>
                             r \in reset /\ NestedWithin(G, runs, r) \notin reset
    BY <1>8 DEF Cloned
  <1> HIDE DEF C, reset
  <1>10. ASSUME G[Root].state = "RESOLVED", NEW r \in Made(C), C[r].state = "CREATED", NEW c \in Children(C, r) PROVE FALSE
    <2>1. r \in runs /\ r \in Made(G) /\ G[r].state = "RESOLVED" /\ r \in Runs
      BY <1>1, <1>5, <1>8, <1>10, AllResolved
    <2>2. r \in reset /\ NestedWithin(G, runs, r) \notin reset
      BY <1>9, <1>10, <2>1
    <2>3. c \in runs /\ G[c].parent = r
      BY <1>8, <1>9 DEF Children
    <2>4. c \in Children(G, r)
      BY <1>5, <2>3 DEF Children
    <2>5. r \notin {x} \cup After(G, x)
      BY <1>1, <1>5, <2>3, <2>4, ResetSkip
    <2>6. r \in Ancestors(G, x)
      BY <1>1, <2>2, <2>5, ResetSkip DEF reset, Path
    <2>7. PICK d \in Path(G, x) : d \in Children(G, r)
      BY <2>6, WayDown
    <2>8. G[r].nested \in {d} \cup Downstream(G, d)
      BY <2>1, <2>7, LeadsToTheLast DEF Executed
    <2>9. G[r].nested \in reset
      BY <1>1, <2>7, <2>8, ResetSkip DEF reset
    <2>10. NestedWithin(G, runs, r) = G[r].nested
      BY <1>6, <2>9 DEF NestedWithin
    <2> QED
      BY <2>2, <2>9, <2>10
  <1> QED
    BY <1>2, <1>7, <1>10 DEF FreshAreAlone

\* The clone of all of the runs.
LEMMA CloneOfAllIsSound ==
  ASSUME NEW G \in Graphs, Blank(G), Shaped(G), Executed(G), ~ TakesTwice
  PROVE  LET C == Clone(G, Made(G) \cap ToSet(ByReverseExecution(G)), ResetUnfinished(G)) IN
         Shaped(C) /\ (G[Root].state = "RESOLVED" => FreshAreAlone(C))
  <1> DEFINE runs == Made(G)
             reset == ResetUnfinished(G)
             C == Clone(G, runs, reset)
  <1>1. ToSet(ByExecution(G)) = Made(G) /\ Made(G) \cap ToSet(ByReverseExecution(G)) = runs /\ Made(G) \subseteq Runs
    BY AllSortedBothWays, GraphSteps
  <1>2. reset \in SUBSET Runs
    BY <1>1 DEF ResetUnfinished
  <1>3. \A r \in runs : (r # Root => G[r].parent \in runs) /\ ArgsOf(G, r) \subseteq runs
    BY DEF Shaped
  <1>4. runs \in SUBSET Made(G) /\ runs \cap Runs = runs /\ Root \in runs
    BY <1>1 DEF Shaped
  <1>5. G[Root].state = "RESOLVED" => reset = {}
    BY <1>1, AllResolved DEF ResetUnfinished
  <1> HIDE DEF runs, reset
  <1>6. Shaped(C)
    BY <1>2, <1>3, <1>4, CloneShaped
  <1>7. Made(C) = runs /\ \A r \in runs : Cloned(G, runs, reset, r)
    BY <1>2, <1>4, ClonesTyped
  <1>8. G[Root].state = "RESOLVED" => \A r \in runs : C[r].state = "RESOLVED"
    BY <1>4, <1>5, <1>7, AllResolved DEF Cloned
  <1> HIDE DEF C
  <1>9. G[Root].state = "RESOLVED" => FreshAreAlone(C)
    BY <1>7, <1>8 DEF FreshAreAlone
  <1> QED
    BY <1>1, <1>6, <1>9 DEF C, reset

-----------------------------------------------------------------------------
(* The steps of an execution.                                                 *)

\* A graph in which nothing has moved.
SameShape(G, H) ==
  Made(H) = Made(G) /\ \A q \in Runs : H[q].parent = G[q].parent /\ H[q].args = G[q].args /\ H[q].nested = G[q].nested

LEMMA SameShapeFacts ==
  ASSUME NEW G \in Graphs, NEW H \in Graphs, SameShape(G, H)
  PROVE  /\ \A q \in Runs : Children(H, q) = Children(G, q) /\ ArgsOf(H, q) = ArgsOf(G, q)
         /\ Shaped(G) => Shaped(H)
         /\ LeadOn(G) /\ Shaped(G) => LeadOn(H)
         /\ Blank(G) => \A x \in Runs : Affected(G, x) \subseteq Affected(H, x)
  <1>1. Made(G) \subseteq Runs /\ Made(H) = Made(G) /\ Root \in Runs
    BY GraphSteps, RunsFinite DEF SameShape
  <1>2. \A q \in Runs : H[q].parent = G[q].parent /\ H[q].args = G[q].args /\ H[q].nested = G[q].nested
    BY DEF SameShape
  <1>3. \A q \in Runs : Children(H, q) = Children(G, q) /\ ArgsOf(H, q) = ArgsOf(G, q)
    BY <1>1, <1>2 DEF Children, ArgsOf
  <1>4. ASSUME Shaped(G) PROVE Shaped(H)
    <2>1. \A r \in Made(G) : \A a \in ArgsOf(G, r) : a \in Runs
      BY GraphSteps
    <2> QED
      BY <1>1, <1>2, <1>3, <1>4, <2>1 DEF Shaped
  <1>5. ASSUME LeadOn(G), Shaped(G) PROVE LeadOn(H)
    <2>1. \A r \in Made(G) \ {Root} : G[r].parent \in Runs
      BY <1>1, <1>5 DEF Shaped
    <2> QED
      BY <1>1, <1>2, <1>3, <1>5, <2>1 DEF LeadOn
  <1>6. ASSUME Blank(G), NEW x \in Runs PROVE Affected(G, x) \subseteq Affected(H, x)
    <2>1. Grows(G, H)
      BY <1>1, <1>2 DEF Grows
    <2> QED
      BY <1>6, <2>1, AffectedGrows
  <1> QED
    BY <1>3, <1>4, <1>5, <1>6

\* A run is resolved.
Resolves(G, H, r, m) ==
  /\ SameShape(G, H) /\ \A q \in Runs \ {r} : H[q] = G[q]
  /\ H[r].state = "RESOLVED" /\ H[r].made_of = m

LEMMA ResolvesTyped ==
  ASSUME NEW G \in Graphs, NEW r \in Made(G), NEW m \in SUBSET Runs
  PROVE  LET H == [G EXCEPT ![r].state = "RESOLVED", ![r].made_of = m] IN H \in Graphs /\ Resolves(G, H, r, m)
  <1> DEFINE H == [G EXCEPT ![r].state = "RESOLVED", ![r].made_of = m]
             Entry == [state : FutureState \cup {"NONE"}, parent : Runs \cup {NoRun}, nested : Runs \cup {NoRun},
                       args : Seq(Runs), made_of : SUBSET Runs]
  <1>1. G \in [Runs -> Entry] /\ r \in Runs
    BY GraphSteps DEF Graphs
  <1>2. PICK st, pa, ne, ar, mo : /\ G[r] = [state |-> st, parent |-> pa, nested |-> ne, args |-> ar, made_of |-> mo]
                                  /\ pa \in Runs \cup {NoRun} /\ ne \in Runs \cup {NoRun} /\ ar \in Seq(Runs)
    <2>1. G[r] \in Entry
      BY <1>1
    <2>2. G[r] = [state |-> G[r].state, parent |-> G[r].parent, nested |-> G[r].nested, args |-> G[r].args, made_of |-> G[r].made_of]
      BY <2>1
    <2>3. G[r].parent \in Runs \cup {NoRun} /\ G[r].nested \in Runs \cup {NoRun} /\ G[r].args \in Seq(Runs)
      BY <2>1
    <2> QED
      BY <2>2, <2>3
  <1> DEFINE entry == [state |-> "RESOLVED", parent |-> pa, nested |-> ne, args |-> ar, made_of |-> m]
  <1>3. H = [G EXCEPT ![r] = entry]
    <2> DEFINE one == [G[r] EXCEPT !.state = "RESOLVED"]
               two == [one EXCEPT !.made_of = m]
               F == [G EXCEPT ![r] = one]
    <2>1. H = [F EXCEPT ![r].made_of = m]
      OBVIOUS
    <2>2. F[r] = one /\ F \in [Runs -> UNION {Entry, {one}}] /\ \A q \in Runs \ {r} : F[q] = G[q]
      BY <1>1
    <2>3. one = [state |-> "RESOLVED", parent |-> pa, nested |-> ne, args |-> ar, made_of |-> mo]
      BY <1>2
    <2> HIDE DEF one
    <2>4. two = entry
      BY <2>3
    <2>5. H = [F EXCEPT ![r] = two]
      <3>1. [F EXCEPT ![r].made_of = m] = [F EXCEPT ![r] = [F[r] EXCEPT !.made_of = m]]
        BY Zenon
      <3>2. [F[r] EXCEPT !.made_of = m] = two
        BY <2>2
      <3> HIDE DEF F, two, H
      <3> QED
        BY <2>1, <3>1, <3>2
    <2>6. [F EXCEPT ![r] = two] = [G EXCEPT ![r] = two]
      <3> HIDE DEF two
      <3> QED
        BY <1>1
    <2> HIDE DEF H, F, two, entry
    <2> QED
      BY <2>4, <2>5, <2>6
  <1> HIDE DEF H
  <1>4. entry \in Entry
    BY <1>2 DEF FutureState
  <1>5. H \in [Runs -> Entry] /\ H[r] = entry /\ \A q \in Runs \ {r} : H[q] = G[q]
    <2> HIDE DEF entry, Entry
    <2> QED
      BY <1>1, <1>3, <1>4
  <1>6. H[r].state = "RESOLVED" /\ H[r].made_of = m /\ H[r].parent = G[r].parent /\ H[r].args = G[r].args /\ H[r].nested = G[r].nested
    BY <1>2, <1>5
  <1>7. Made(H) = Made(G)
    <2>1. H[r].state # "NONE"
      BY <1>6
    <2>2. r \in Made(H)
      BY <1>1, <2>1 DEF Made
    <2>3. ASSUME NEW q \in Runs \ {r} PROVE q \in Made(H) <=> q \in Made(G)
      BY <1>5 DEF Made
    <2>4. Made(H) \subseteq Runs /\ Made(G) \subseteq Runs
      BY DEF Made
    <2> QED
      BY <2>2, <2>3, <2>4
  <1>8. \A q \in Runs : H[q].parent = G[q].parent /\ H[q].args = G[q].args /\ H[q].nested = G[q].nested
    BY <1>5, <1>6
  <1> HIDE DEF entry
  <1> QED
    BY <1>5, <1>6, <1>7, <1>8 DEF Graphs, Resolves, SameShape, H

LEMMA ResolvedGraph ==
  ASSUME NEW G \in Graphs, NEW H \in Graphs, NEW r \in Made(G), NEW m, Resolves(G, H, r, m)
  PROVE  /\ Blank(G) => Blank(H)
         /\ Live(G) => Live(H)
         /\ Shaped(G) => Shaped(H)
         /\ FreshAreAlone(G) => FreshAreAlone(H)
  <1>1. r \in Runs /\ Made(G) \subseteq Runs /\ Made(H) = Made(G) /\ \A q \in Runs : Children(H, q) = Children(G, q)
    BY GraphSteps, SameShapeFacts DEF Resolves, SameShape
  <1>2. \A q \in Runs : q # r => H[q] = G[q]
    BY DEF Resolves
  <1>3. H[r].state = "RESOLVED"
    BY DEF Resolves
  <1>4. Shaped(G) => Shaped(H)
    BY SameShapeFacts DEF Resolves
  <1>5. Blank(G) => Blank(H)
    BY <1>1, <1>2 DEF Blank
  <1>6. Live(G) => Live(H)
    BY <1>1, <1>2, <1>3 DEF Live
  <1>7. FreshAreAlone(G) => FreshAreAlone(H)
    BY <1>1, <1>2, <1>3 DEF FreshAreAlone
  <1> QED
    BY <1>4, <1>5, <1>6, <1>7

LEMMA ResolvedExecution ==
  ASSUME NEW G \in Graphs, NEW H \in Graphs, NEW r \in Made(G), NEW m, Resolves(G, H, r, m),
         Blank(G), Shaped(G), Executed(G),
         \A a \in ArgsOf(G, r) : G[a].state = "RESOLVED",
         \A c \in Children(G, r) : G[c].state = "RESOLVED",
         \A x \in m : x \in Made(G) /\ r \in Affected(G, x)
  PROVE  Executed(H)
  <1>1. /\ r \in Runs /\ Made(G) \subseteq Runs /\ Made(H) = Made(G)
        /\ \A q \in Runs : Children(H, q) = Children(G, q) /\ ArgsOf(H, q) = ArgsOf(G, q) /\ ArgsOf(G, q) \subseteq Runs
                           /\ H[q].nested = G[q].nested /\ Children(G, q) \subseteq Runs
    BY GraphSteps, SameShapeFacts DEF Resolves, SameShape, Children
  <1>2. \A q \in Runs : q # r => H[q] = G[q]
    BY DEF Resolves
  <1>3. H[r].state = "RESOLVED" /\ H[r].made_of = m
    BY DEF Resolves
  <1>4. LeadOn(H) /\ FreshAreAlone(H)
    BY SameShapeFacts, ResolvedGraph DEF Resolves, Executed
  <1>5. \A q \in Runs : G[q].state = "RESOLVED" => H[q].state = "RESOLVED"
    BY <1>2, <1>3
  <1>6. ASSUME NEW q \in Made(G)
        PROVE  /\ Children(H, q) # {} => H[q].nested # NoRun
               /\ H[q].state \in {"RAN", "RESOLVED"} => \A a \in ArgsOf(H, q) : H[a].state = "RESOLVED"
               /\ H[q].state = "RESOLVED" => \A c \in Children(H, q) : H[c].state = "RESOLVED"
    <2>1. /\ Children(G, q) # {} => G[q].nested # NoRun
          /\ G[q].state \in {"RAN", "RESOLVED"} => \A a \in ArgsOf(G, q) : G[a].state = "RESOLVED"
          /\ G[q].state = "RESOLVED" => \A c \in Children(G, q) : G[c].state = "RESOLVED"
      BY DEF Executed
    <2>2. q \in Runs
      BY <1>1
    <2>3. CASE q = r
      BY <1>1, <1>5, <2>1, <2>3
    <2>4. CASE q # r
      BY <1>1, <1>2, <1>5, <2>1, <2>2, <2>4
    <2> QED
      BY <2>3, <2>4
  <1>7. ASSUME NEW q \in Made(G), NEW x \in H[q].made_of PROVE x \in Made(G) /\ q \in Affected(H, x)
    <2>1. x \in Made(G) /\ q \in Affected(G, x)
      <3>1. CASE q = r
        BY <1>3, <1>7, <3>1
      <3>2. CASE q # r
        BY <1>1, <1>2, <1>7, <3>2 DEF Executed
      <3> QED
        BY <3>1, <3>2
    <2>2. Affected(G, x) \subseteq Affected(H, x)
      BY <1>1, <2>1, SameShapeFacts DEF Resolves
    <2> QED
      BY <2>1, <2>2
  <1> QED
    BY <1>1, <1>4, <1>6, <1>7 DEF Executed

\* The last of some runs.
LEMMA MaxRun ==
  ASSUME NEW S \in SUBSET Runs, S # {}
  PROVE  Max(S) \in S /\ \A k \in S : k <= Max(S)
  <1>1. PICK m \in S : \A k \in S : m >= k
    BY LastRun
  <1>2. Max(S) = CHOOSE y \in S : \A k \in S : y >= k
    BY DEF Max
  <1>3. Max(S) \in S /\ \A k \in S : Max(S) >= k
    BY <1>1, <1>2
  <1>4. \A k \in S : k \in Nat
    BY RunsFinite
  <1> QED
    BY <1>3, <1>4

\* The arguments of the futures that a call returns.
LEMMA ArgumentsFacts ==
  ASSUME NEW S \in SUBSET Runs, NEW A \in Arguments(S)
  PROVE  \A f \in S : /\ A[f] \in Seq(Runs) /\ Len(A[f]) <= 2 /\ (~ TakesTwice => IsInjective(A[f]))
                      /\ \A a \in ToSet(A[f]) : a \in S /\ a < f
                      /\ f = Max(S) \/ \E t \in S : f \in ToSet(A[t])
  <1> DEFINE Args(s) == UNION {[1..n -> {a \in S : a < s}] : n \in 0..2}
  <1>1. /\ \A s \in S : A[s] \in Args(s)
        /\ \A s \in S : s = Max(S) \/ \E t \in S : s \in ToSet(A[t])
        /\ \A s \in S : Len(A[s]) = 2 => IF TakesTwice THEN A[s][1] <= A[s][2] ELSE A[s][1] < A[s][2]
    BY Zenon DEF Arguments
  <1>2. ASSUME NEW f \in S
        PROVE  /\ A[f] \in Seq(Runs) /\ Len(A[f]) <= 2 /\ (~ TakesTwice => IsInjective(A[f]))
               /\ \A a \in ToSet(A[f]) : a \in S /\ a < f
    <2>1. PICK n \in 0..2 : A[f] \in [1..n -> {a \in S : a < f}]
      BY <1>1
    <2>2. \A i \in 1..n : A[f][i] \in S /\ A[f][i] < f /\ A[f][i] \in Runs
      BY <2>1
    <2>3. A[f] \in [1..n -> Runs] /\ n \in Nat
      BY <2>1, <2>2
    <2>4. A[f] \in Seq(Runs) /\ Len(A[f]) = n /\ DOMAIN A[f] = 1..n
      BY <2>3
    <2>5. \A a \in ToSet(A[f]) : a \in S /\ a < f
      BY <2>2, <2>4 DEF ToSet
    <2>6. ASSUME ~ TakesTwice PROVE IsInjective(A[f])
      <3> SUFFICES ASSUME NEW i \in 1..n, NEW j \in 1..n, A[f][i] = A[f][j], i # j PROVE FALSE
        BY <2>4 DEF IsInjective
      <3>1. n = 2 /\ ((i = 1 /\ j = 2) \/ (i = 2 /\ j = 1))
        <4>1. n \in Nat /\ n <= 2 /\ i \in Nat /\ j \in Nat /\ 1 <= i /\ i <= n /\ 1 <= j /\ j <= n
          OBVIOUS
        <4> QED
          BY <2>6, <4>1
      <3>2. A[f][1] < A[f][2]
        BY <1>1, <2>4, <2>6, <3>1
      <3>3. A[f][1] = A[f][2] /\ A[f][1] \in Nat
        BY <2>2, <3>1, RunsFinite
      <3> QED
        BY <3>2, <3>3
    <2> QED
      BY <2>4, <2>5, <2>6
  <1> QED
    BY <1>1, <1>2

\* The numbers of the futures that a call returns are new.
Following(S, last, n) == S = (last + 1)..(last + n)
LEMMA NewRuns ==
  ASSUME NEW G \in Graphs, NEW last \in Made(G), \A q \in Made(G) : q <= last,
         NEW n \in Nat, n # 0, last + n <= MaxRuns, NEW S, Following(S, last, n)
  PROVE  S \in SUBSET Runs /\ S # {} /\ \A f \in S : \A q \in Made(G) : q < f
  <1>1. Made(G) \subseteq Runs /\ Runs \subseteq Nat
    BY GraphSteps, RunsFinite
  <1>2. last \in Made(G) /\ \A q \in Made(G) : q <= last
    OBVIOUS
  <1>3. S = (last + 1)..(last + n) /\ last + n <= MaxRuns
    BY DEF Following
  <1>4. last \in Nat /\ last # 0 /\ n \in Nat /\ n # 0 /\ MaxRuns \in Nat
    BY <1>1, <1>2, RunsFinite
  <1>5. ASSUME NEW f \in S PROVE f \in Nat /\ f > last /\ f <= MaxRuns /\ f >= 1 /\ f \in Runs
    <2>1. f \in (last + 1)..(last + n)
      BY <1>3
    <2>2. f \in Nat /\ f > last /\ f <= MaxRuns /\ f >= 1
      BY <1>3, <1>4, <2>1
    <2>3. f \in 1..MaxRuns
      BY <1>4, <2>2
    <2> QED
      BY <2>2, <2>3, RunsFinite
  <1>6. last + 1 \in S
    <2>1. last + 1 \in (last + 1)..(last + n)
      BY <1>4
    <2> QED
      BY <1>3, <2>1, Zenon
  <1>7. ASSUME NEW f \in S, NEW q \in Made(G) PROVE q < f
    <2>1. q \in Nat /\ q <= last /\ f \in Nat /\ f > last
      BY <1>1, <1>2, <1>5
    <2> QED
      BY <1>4, <2>1
  <1> QED
    BY <1>5, <1>6, <1>7

\* A run with one of its fields changed.
LEMMA Entries ==
  ASSUME NEW st, NEW pa, NEW ne, NEW ar, NEW mo, NEW v,
         NEW g, g = [state |-> st, parent |-> pa, nested |-> ne, args |-> ar, made_of |-> mo]
  PROVE  /\ [g EXCEPT !.state = v] = [state |-> v, parent |-> pa, nested |-> ne, args |-> ar, made_of |-> mo]
         /\ [g EXCEPT !.parent = v] = [state |-> st, parent |-> v, nested |-> ne, args |-> ar, made_of |-> mo]
         /\ [g EXCEPT !.nested = v] = [state |-> st, parent |-> pa, nested |-> v, args |-> ar, made_of |-> mo]
         /\ [g EXCEPT !.args = v] = [state |-> st, parent |-> pa, nested |-> ne, args |-> v, made_of |-> mo]
         /\ [g EXCEPT !.made_of = v] = [state |-> st, parent |-> pa, nested |-> ne, args |-> ar, made_of |-> v]
  OBVIOUS

\* A call returns the futures S.
Returns(G, H, r, S) ==
  /\ S \in SUBSET Runs /\ S # {} /\ \A f \in S : \A q \in Made(G) : q < f
  /\ Made(H) = Made(G) \cup S
  /\ \A q \in Runs \ (S \cup {r}) : H[q] = G[q]
  /\ H[r].state = "RAN" /\ H[r].nested = Max(S)
  /\ H[r].parent = G[r].parent /\ H[r].args = G[r].args /\ H[r].made_of = G[r].made_of
  /\ \A f \in S : /\ H[f].state = "CREATED" /\ H[f].parent = r /\ H[f].nested = NoRun /\ H[f].made_of = {}
                  /\ Len(H[f].args) <= 2 /\ (~ TakesTwice => IsInjective(H[f].args))
                  /\ \A a \in ArgsOf(H, f) : a \in S /\ a < f
                  /\ f = Max(S) \/ \E t \in S : f \in ArgsOf(H, t)

LEMMA ReturnsTyped ==
  ASSUME NEW G \in Graphs, NEW r \in Made(G), NEW S \in SUBSET Runs, S # {}, \A f \in S : \A q \in Made(G) : q < f,
         NEW A \in Arguments(S)
  PROVE  LET H == [f \in Runs |->
                     IF f \in S THEN [Created EXCEPT !.parent = r, !.args = A[f]]
                     ELSE IF f = r THEN [G[r] EXCEPT !.state = "RAN", !.nested = Max(S)]
                     ELSE G[f]]
         IN  H \in Graphs /\ Returns(G, H, r, S)
  <1> DEFINE H == [f \in Runs |->
                     IF f \in S THEN [Created EXCEPT !.parent = r, !.args = A[f]]
                     ELSE IF f = r THEN [G[r] EXCEPT !.state = "RAN", !.nested = Max(S)]
                     ELSE G[f]]
             Entry == [state : FutureState \cup {"NONE"}, parent : Runs \cup {NoRun}, nested : Runs \cup {NoRun},
                       args : Seq(Runs), made_of : SUBSET Runs]
  <1>1. G \in [Runs -> Entry] /\ r \in Runs /\ Made(G) \subseteq Runs /\ Runs \subseteq Nat
    BY GraphSteps, RunsFinite DEF Graphs
  <1>4. S \in SUBSET Runs /\ S # {} /\ \A f \in S : \A q \in Made(G) : q < f
    OBVIOUS
  <1> HIDE DEF H
  <1>5. \A f \in Made(G) : f \notin S
    <2> SUFFICES ASSUME NEW f \in Made(G), f \in S PROVE FALSE
      OBVIOUS
    <2>1. f < f /\ f \in Nat
      BY <1>1, <1>4
    <2> QED
      BY <2>1
  <1>6. DOMAIN H = Runs /\ H = [f \in Runs |-> H[f]]
    BY DEF H
  <1>7. \A f \in S : H[f] = [state |-> "CREATED", parent |-> r, nested |-> NoRun, args |-> A[f], made_of |-> {}]
    <2> SUFFICES ASSUME NEW f \in S
                 PROVE  H[f] = [state |-> "CREATED", parent |-> r, nested |-> NoRun, args |-> A[f], made_of |-> {}]
      OBVIOUS
    <2> DEFINE one == [Created EXCEPT !.parent = r]
               two == [one EXCEPT !.args = A[f]]
    <2> DEFINE no == <<>>
    <2>1. NoRuns = [state |-> "NONE", parent |-> NoRun, nested |-> NoRun, args |-> no, made_of |-> {}]
          /\ Created = [NoRuns EXCEPT !.state = "CREATED"]
      BY Zenon DEF Created, NoRuns
    <2> HIDE DEF no
    <2>6. Created = [state |-> "CREATED", parent |-> NoRun, nested |-> NoRun, args |-> no, made_of |-> {}]
      BY <2>1, Entries
    <2>2. one = [state |-> "CREATED", parent |-> r, nested |-> NoRun, args |-> no, made_of |-> {}]
      BY <2>6, Entries
    <2>3. H[f] = [Created EXCEPT !.parent = r, !.args = A[f]]
      BY <1>4 DEF H
    <2>4. H[f] = two
      BY <2>3
    <2> HIDE DEF one
    <2>5. two = [state |-> "CREATED", parent |-> r, nested |-> NoRun, args |-> A[f], made_of |-> {}]
      BY <2>2, Entries
    <2> QED
      BY <2>4, <2>5
  <1>8. PICK st, pa, ne, ar, mo : /\ G[r] = [state |-> st, parent |-> pa, nested |-> ne, args |-> ar, made_of |-> mo]
                                  /\ pa \in Runs \cup {NoRun} /\ ar \in Seq(Runs) /\ mo \in SUBSET Runs
    <2>1. G[r] \in Entry
      BY <1>1
    <2>2. G[r] = [state |-> G[r].state, parent |-> G[r].parent, nested |-> G[r].nested, args |-> G[r].args, made_of |-> G[r].made_of]
      BY <2>1
    <2>3. G[r].parent \in Runs \cup {NoRun} /\ G[r].args \in Seq(Runs) /\ G[r].made_of \in SUBSET Runs
      BY <2>1
    <2> QED
      BY <2>2, <2>3
  <1> DEFINE top == Max(S)
  <1>9. top \in S /\ top \in Runs
    BY <1>4, MaxRun
  <1>10. H[r] = [state |-> "RAN", parent |-> pa, nested |-> top, args |-> ar, made_of |-> mo]
    <2> DEFINE one == [G[r] EXCEPT !.state = "RAN"]
               two == [one EXCEPT !.nested = top]
    <2>1. H[r] = [G[r] EXCEPT !.state = "RAN", !.nested = top]
      BY <1>1, <1>5 DEF H
    <2> HIDE DEF top
    <2>2. one = [state |-> "RAN", parent |-> pa, nested |-> ne, args |-> ar, made_of |-> mo]
      BY <1>8
    <2>3. H[r] = two
      BY <2>1
    <2> HIDE DEF one
    <2>4. two = [state |-> "RAN", parent |-> pa, nested |-> top, args |-> ar, made_of |-> mo]
      BY <2>2
    <2> QED
      BY <2>3, <2>4
  <1>11. \A q \in Runs \ (S \cup {r}) : H[q] = G[q]
    BY DEF H
  <1>12. \A f \in S : /\ A[f] \in Seq(Runs) /\ Len(A[f]) <= 2 /\ (~ TakesTwice => IsInjective(A[f]))
                      /\ \A a \in ToSet(A[f]) : a \in S /\ a < f
                      /\ f = Max(S) \/ \E t \in S : f \in ToSet(A[t])
    BY <1>4, ArgumentsFacts
  <1>13. \A f \in S : /\ H[f].state = "CREATED" /\ H[f].parent = r /\ H[f].nested = NoRun /\ H[f].made_of = {}
                      /\ H[f].args = A[f] /\ H[f] \in Entry
    <2> SUFFICES ASSUME NEW f \in S
                 PROVE  /\ H[f].state = "CREATED" /\ H[f].parent = r /\ H[f].nested = NoRun /\ H[f].made_of = {}
                        /\ H[f].args = A[f] /\ H[f] \in Entry
      OBVIOUS
    <2>1. H[f] = [state |-> "CREATED", parent |-> r, nested |-> NoRun, args |-> A[f], made_of |-> {}]
      BY <1>7
    <2>2. A[f] \in Seq(Runs) /\ "CREATED" \in FutureState
      BY <1>12 DEF FutureState
    <2>3. H[f] \in Entry
      BY <1>1, <2>1, <2>2
    <2> QED
      BY <2>1, <2>3
  <1>14. /\ H[r].state = "RAN" /\ H[r].nested = top /\ H[r] \in Entry
         /\ H[r].parent = G[r].parent /\ H[r].args = G[r].args /\ H[r].made_of = G[r].made_of
    <2>1. "RAN" \in FutureState
      BY DEF FutureState
    <2> HIDE DEF top
    <2>2. H[r] \in Entry
      BY <1>8, <1>9, <1>10, <2>1
    <2> QED
      BY <1>8, <1>10, <2>2
  <1>15. H \in Graphs
    <2>1. \A q \in Runs : H[q] \in Entry
      BY <1>1, <1>11, <1>13, <1>14
    <2> HIDE DEF Entry
    <2>2. H \in [Runs -> Entry]
      BY <1>6, <2>1
    <2> QED
      BY <2>2 DEF Graphs, Entry
  <1>16. Made(H) = Made(G) \cup S
    <2>1. \A f \in S : f \in Made(H)
      BY <1>4, <1>13 DEF Made
    <2>2. r \in Made(H)
      BY <1>1, <1>14 DEF Made
    <2>3. \A q \in Runs \ (S \cup {r}) : q \in Made(H) <=> q \in Made(G)
      BY <1>11 DEF Made
    <2>4. Made(H) \subseteq Runs
      BY DEF Made
    <2> QED
      BY <1>1, <2>1, <2>2, <2>3, <2>4
  <1>17. \A f \in S : /\ Len(H[f].args) <= 2 /\ (~ TakesTwice => IsInjective(H[f].args))
                      /\ \A a \in ArgsOf(H, f) : a \in S /\ a < f
                      /\ f = Max(S) \/ \E t \in S : f \in ArgsOf(H, t)
    BY <1>12, <1>13 DEF ArgsOf
  <1> HIDE DEF Entry
  <1>18. Returns(G, H, r, S)
    BY <1>4, <1>11, <1>13, <1>14, <1>16, <1>17 DEF Returns
  <1> QED
    BY <1>15, <1>18 DEF H

\* The graph that is left.
LEMMA ReturnedGraph ==
  ASSUME NEW G \in Graphs, NEW H \in Graphs, NEW r \in Made(G), NEW S, Returns(G, H, r, S)
  PROVE  /\ S \subseteq Runs /\ S \cap Made(G) = {} /\ S \subseteq Children(H, r)
         /\ \A q \in Made(G) : H[q].parent = G[q].parent /\ H[q].args = G[q].args /\ ArgsOf(H, q) = ArgsOf(G, q)
         /\ \A q \in Runs : Children(H, q) = Children(G, q) \cup (IF q = r THEN S ELSE {})
         /\ Blank(G) => Blank(H)
         /\ Live(G) => Live(H)
         /\ Shaped(G) => Shaped(H)
         /\ Shaped(G) /\ FreshAreAlone(G) => FreshAreAlone(H)
  <1>1. /\ S \subseteq Runs /\ S # {} /\ \A f \in S : \A q \in Made(G) : q < f
        /\ Made(H) = Made(G) \cup S /\ \A q \in Runs \ (S \cup {r}) : H[q] = G[q]
        /\ H[r].state = "RAN" /\ H[r].nested = Max(S)
        /\ H[r].parent = G[r].parent /\ H[r].args = G[r].args
    BY DEF Returns
  <1>2. \A f \in S : /\ H[f].state = "CREATED" /\ H[f].parent = r /\ H[f].nested = NoRun
                     /\ Len(H[f].args) <= 2 /\ (~ TakesTwice => IsInjective(H[f].args))
                     /\ \A a \in ArgsOf(H, f) : a \in S /\ a < f
    BY DEF Returns
  <1>3. Made(G) \subseteq Runs /\ r \in Runs /\ Runs \subseteq Nat
    BY GraphSteps, RunsFinite
  <1>4. S \cap Made(G) = {}
    <2> SUFFICES ASSUME NEW f \in S, f \in Made(G) PROVE FALSE
      OBVIOUS
    <2>1. f < f /\ f \in Nat
      BY <1>1, <1>3
    <2> QED
      BY <2>1
  <1>5. \A q \in Made(G) : H[q].parent = G[q].parent /\ H[q].args = G[q].args /\ ArgsOf(H, q) = ArgsOf(G, q)
    BY <1>1, <1>3, <1>4 DEF ArgsOf
  <1>6. \A q \in Runs : Children(H, q) = Children(G, q) \cup (IF q = r THEN S ELSE {})
    BY <1>1, <1>2, <1>5 DEF Children
  <1>7. S \subseteq Children(H, r)
    BY <1>3, <1>6
  <1>8. Max(S) \in S
    BY <1>1, MaxRun
  <1>9. ASSUME Blank(G) PROVE Blank(H)
    <2> SUFFICES ASSUME NEW q \in Runs \ Made(H) PROVE H[q] = NoRuns
      BY DEF Blank
    <2>1. q \notin S /\ q # r /\ q \notin Made(G)
      BY <1>1
    <2> QED
      BY <1>1, <1>9, <2>1 DEF Blank
  <1>10. ASSUME Live(G) PROVE Live(H)
    <2> SUFFICES ASSUME NEW q \in Made(H)
                 PROVE  H[q].state \in {"CREATED", "RAN", "RESOLVED"} /\ (H[q].state = "RAN" => H[q].nested # NoRun)
      BY DEF Live
    <2>1. CASE q \in S
      BY <1>2, <2>1
    <2>2. CASE q = r
      BY <1>1, <1>3, <1>8, <2>2, RunsFinite DEF NoRun
    <2>3. CASE q \notin S \cup {r}
      <3>1. q \in Made(G) /\ q \in Runs
        BY <1>1, <1>3, <2>3
      <3>2. H[q] = G[q]
        BY <1>1, <2>3, <3>1
      <3>3. G[q].state \in {"CREATED", "RAN", "RESOLVED"} /\ (G[q].state = "RAN" => G[q].nested # NoRun)
        BY <1>10, <3>1 DEF Live
      <3> QED
        BY <3>2, <3>3
    <2> QED
      BY <2>1, <2>2, <2>3
  <1>11. ASSUME Shaped(G) PROVE Shaped(H)
    <2>1. Root \in Made(H) /\ H[Root].parent = NoRun
      BY <1>1, <1>5, <1>11 DEF Shaped
    <2>2. ASSUME NEW q \in Made(H)
          PROVE  /\ q # Root => H[q].parent \in Made(H) /\ H[q].parent < q
                 /\ \A a \in ArgsOf(H, q) : a \in Made(H) /\ a < q /\ H[a].parent = H[q].parent
                 /\ H[q].nested \in Children(H, q) \cup {NoRun}
                 /\ Len(H[q].args) <= 2 /\ (~ TakesTwice => IsInjective(H[q].args))
      <3>1. CASE q \in S
        BY <1>1, <1>2, <3>1
      <3>2. CASE q \notin S
        <4>1. q \in Made(G) /\ q \in Runs
          BY <1>1, <1>3, <3>2
        <4>2. /\ q # Root => G[q].parent \in Made(G) /\ G[q].parent < q
              /\ \A a \in ArgsOf(G, q) : a \in Made(G) /\ a < q /\ G[a].parent = G[q].parent
              /\ G[q].nested \in Children(G, q) \cup {NoRun}
              /\ Len(G[q].args) <= 2 /\ (~ TakesTwice => IsInjective(G[q].args))
          BY <1>11, <4>1 DEF Shaped
        <4>3. \A a \in ArgsOf(H, q) : a \in Made(H) /\ a < q /\ H[a].parent = H[q].parent
          BY <1>1, <1>5, <4>1, <4>2
        <4>4. H[q].nested \in Children(H, q) \cup {NoRun}
          <5>1. CASE q = r
            BY <1>1, <1>7, <1>8, <5>1
          <5>2. CASE q # r
            <6>1. H[q] = G[q]
              BY <1>1, <3>2, <4>1, <5>2
            <6> QED
              BY <1>6, <4>1, <4>2, <6>1
          <5> QED
            BY <5>1, <5>2
        <4> QED
          BY <1>1, <1>5, <4>1, <4>2, <4>3, <4>4
      <3> QED
        BY <3>1, <3>2
    <2> QED
      BY <2>1, <2>2 DEF Shaped
  <1>12. ASSUME Shaped(G), FreshAreAlone(G) PROVE FreshAreAlone(H)
    <2> SUFFICES ASSUME NEW q \in Made(H), H[q].state = "CREATED" PROVE Children(H, q) = {}
      BY DEF FreshAreAlone
    <2>1. q # r /\ q \in Runs
      BY <1>1, <1>3
    <2>2. Children(H, q) = Children(G, q)
      BY <1>6, <2>1
    <2>3. CASE q \in S
      <3>1. ASSUME NEW c \in Children(G, q) PROVE FALSE
        <4>1. c \in Made(G) /\ G[c].parent = q /\ q # NoRun
          BY <2>1, RunsFinite DEF Children, NoRun
        <4>2. q \in Made(G)
          BY <1>12, <4>1 DEF Shaped
        <4> QED
          BY <1>4, <2>3, <4>2
      <3> QED
        BY <2>2, <3>1
    <2>4. CASE q \notin S
      <3>1. q \in Made(G) /\ G[q].state = "CREATED"
        BY <1>1, <2>1, <2>4
      <3> QED
        BY <1>12, <2>2, <3>1 DEF FreshAreAlone
    <2> QED
      BY <2>3, <2>4
  <1> QED
    BY <1>1, <1>4, <1>5, <1>6, <1>7, <1>9, <1>10, <1>11, <1>12

LEMMA ReturnedExecution ==
  ASSUME NEW G \in Graphs, NEW H \in Graphs, NEW r \in Made(G), NEW S, Returns(G, H, r, S),
         Blank(G), Shaped(G), Executed(G), G[r].state = "CREATED",
         \A a \in ArgsOf(G, r) : G[a].state = "RESOLVED"
  PROVE  Executed(H)
  <1>1. /\ S \subseteq Runs /\ S # {} /\ Made(H) = Made(G) \cup S /\ \A q \in Runs \ (S \cup {r}) : H[q] = G[q]
        /\ H[r].state = "RAN" /\ H[r].nested = Max(S) /\ H[r].made_of = G[r].made_of
    BY DEF Returns
  <1>2. \A f \in S : /\ H[f].state = "CREATED" /\ H[f].parent = r /\ H[f].made_of = {}
                     /\ f = Max(S) \/ \E t \in S : f \in ArgsOf(H, t)
    BY DEF Returns
  <1>3. /\ S \cap Made(G) = {}
        /\ \A q \in Made(G) : H[q].parent = G[q].parent /\ H[q].args = G[q].args /\ ArgsOf(H, q) = ArgsOf(G, q)
        /\ \A q \in Runs : Children(H, q) = Children(G, q) \cup (IF q = r THEN S ELSE {})
        /\ Shaped(H) /\ FreshAreAlone(H)
    BY ReturnedGraph DEF Executed
  <1>4. Made(G) \subseteq Runs /\ r \in Runs /\ NoRun \notin Runs
    BY GraphSteps, RunsFinite DEF NoRun
  <1>5. \A q \in Made(G) : q # r => H[q] = G[q]
    BY <1>1, <1>3, <1>4
  <1>6. Children(G, r) = {}
    BY DEF Executed, FreshAreAlone
  <1>7. Max(S) \in S
    BY <1>1, MaxRun
  <1>8. \A q \in Made(G) : G[q].state = "RESOLVED" => H[q].state = "RESOLVED"
    BY <1>5
  <1>9. LeadOn(H)
    <2> SUFFICES ASSUME NEW q \in Made(H) \ {Root}
                 PROVE  q = H[H[q].parent].nested \/ \E t \in Made(H) : q \in ArgsOf(H, t)
      BY DEF LeadOn
    <2>1. CASE q \in S
      BY <1>1, <1>2, <2>1
    <2>2. CASE q \notin S
      <3>1. q \in Made(G) /\ q # Root
        BY <1>1, <2>2
      <3>2. q = G[G[q].parent].nested \/ \E t \in Made(G) : q \in ArgsOf(G, t)
        BY <3>1 DEF Executed, LeadOn
      <3>3. G[q].parent \in Made(G) /\ G[q].parent # r
        <4>1. G[q].parent \in Made(G)
          BY <3>1 DEF Shaped
        <4>2. q \in Children(G, G[q].parent)
          BY <3>1 DEF Children
        <4> QED
          BY <1>6, <4>1, <4>2
      <3>4. H[H[q].parent] = G[G[q].parent]
        BY <1>3, <1>5, <3>1, <3>3
      <3>5. \A t \in Made(G) : t \in Made(H) /\ ArgsOf(H, t) = ArgsOf(G, t)
        BY <1>1, <1>3
      <3> QED
        BY <3>2, <3>4, <3>5
    <2> QED
      BY <2>1, <2>2
  <1>10. ASSUME NEW q \in Made(H)
         PROVE  /\ Children(H, q) # {} => H[q].nested # NoRun
                /\ H[q].state \in {"RAN", "RESOLVED"} => \A a \in ArgsOf(H, q) : H[a].state = "RESOLVED"
                /\ H[q].state = "RESOLVED" => \A c \in Children(H, q) : H[c].state = "RESOLVED"
    <2>1. CASE q \in S
      <3>1. H[q].state = "CREATED" /\ Children(H, q) = {}
        BY <1>1, <1>2, <1>3, <2>1 DEF FreshAreAlone
      <3> QED
        BY <3>1
    <2>2. CASE q = r
      <3>1. H[r].nested # NoRun /\ H[r].state = "RAN"
        BY <1>1, <1>4, <1>7
      <3>2. \A a \in ArgsOf(H, r) : a \in Made(G) /\ G[a].state = "RESOLVED"
        BY <1>3 DEF Shaped
      <3> QED
        BY <1>8, <2>2, <3>1, <3>2
    <2>3. CASE q \notin S \cup {r}
      <3>4. q \in Made(G) /\ q \in Runs /\ q # r
        BY <1>1, <1>4, <2>3
      <3>1. q \in Made(G) /\ q \in Runs /\ H[q] = G[q] /\ Children(H, q) = Children(G, q) /\ ArgsOf(H, q) = ArgsOf(G, q)
        BY <1>3, <1>5, <3>4
      <3>2. /\ Children(G, q) # {} => G[q].nested # NoRun
            /\ G[q].state \in {"RAN", "RESOLVED"} => \A a \in ArgsOf(G, q) : G[a].state = "RESOLVED"
            /\ G[q].state = "RESOLVED" => \A c \in Children(G, q) : G[c].state = "RESOLVED"
        BY <3>1 DEF Executed
      <3>3. (\A a \in ArgsOf(G, q) : a \in Made(G)) /\ Children(G, q) \subseteq Made(G)
        BY <3>1 DEF Shaped, Children
      <3> QED
        BY <1>8, <3>1, <3>2, <3>3
    <2> QED
      BY <2>1, <2>2, <2>3
  <1>11. ASSUME NEW q \in Made(H), NEW x \in H[q].made_of PROVE x \in Made(H) /\ q \in Affected(H, x)
    <2>1. q \notin S
      BY <1>2, <1>11
    <2>2. q \in Made(G) /\ x \in G[q].made_of
      BY <1>1, <1>5, <1>11, <2>1
    <2>3. x \in Made(G) /\ q \in Affected(G, x)
      BY <2>2 DEF Executed
    <2>4. Grows(G, H)
      BY <1>1, <1>3 DEF Grows
    <2>5. Affected(G, x) \subseteq Affected(H, x)
      BY <1>4, <2>3, <2>4, AffectedGrows
    <2> QED
      BY <1>1, <2>3, <2>5
  <1> QED
    BY <1>3, <1>9, <1>10, <1>11 DEF Executed

\* An execution fails or is canceled: what is not resolved is never going to be.
LEMMA EndedExecution ==
  ASSUME NEW G \in Graphs, NEW H \in Graphs, Blank(G), Shaped(G), Executed(G), SameShape(G, H), Blank(H),
         \A q \in Made(G) : /\ H[q].made_of = G[q].made_of /\ H[q].state \notin {"CREATED", "RAN"}
                            /\ H[q].state = "RESOLVED" <=> G[q].state = "RESOLVED"
  PROVE  Shaped(H) /\ Executed(H)
  <1>1. /\ Made(G) \subseteq Runs /\ Made(H) = Made(G)
        /\ \A q \in Runs : /\ Children(H, q) = Children(G, q) /\ ArgsOf(H, q) = ArgsOf(G, q) /\ H[q].nested = G[q].nested
    BY GraphSteps, SameShapeFacts DEF SameShape
  <1>2. Shaped(H) /\ LeadOn(H)
    BY SameShapeFacts DEF Executed
  <1>3. FreshAreAlone(H)
    BY <1>1 DEF FreshAreAlone
  <1>4. ASSUME NEW q \in Made(G)
        PROVE  /\ Children(H, q) # {} => H[q].nested # NoRun
               /\ H[q].state \in {"RAN", "RESOLVED"} => \A a \in ArgsOf(H, q) : H[a].state = "RESOLVED"
               /\ H[q].state = "RESOLVED" => \A c \in Children(H, q) : H[c].state = "RESOLVED"
    <2>1. /\ Children(G, q) # {} => G[q].nested # NoRun
          /\ G[q].state \in {"RAN", "RESOLVED"} => \A a \in ArgsOf(G, q) : G[a].state = "RESOLVED"
          /\ G[q].state = "RESOLVED" => \A c \in Children(G, q) : G[c].state = "RESOLVED"
      BY DEF Executed
    <2>2. (\A a \in ArgsOf(G, q) : a \in Made(G)) /\ Children(G, q) \subseteq Made(G)
      BY DEF Shaped, Children
    <2> QED
      BY <1>1, <2>1, <2>2
  <1>5. ASSUME NEW q \in Made(G), NEW x \in H[q].made_of PROVE x \in Made(G) /\ q \in Affected(H, x)
    <2>1. x \in Made(G) /\ q \in Affected(G, x)
      BY <1>5 DEF Executed
    <2>2. Affected(G, x) \subseteq Affected(H, x)
      BY <1>1, <2>1, SameShapeFacts
    <2> QED
      BY <2>1, <2>2
  <1> QED
    BY <1>1, <1>2, <1>3, <1>4, <1>5 DEF Executed

-----------------------------------------------------------------------------
(* The inductive invariant.                                                   *)

\* The invariant, of the values of the variables.
RenewedOf(G, x, cl) ==
  /\ \A r \in Runs : x \notin G[r].made_of
  /\ Children(G, x) # {} \/ G[x].state = "RAN" => x \in cl

InvOf(G, stg, how, x, og, cl, ag) ==
  /\ G \in Graphs /\ og \in Graphs
  /\ stg \in {"original", "over", "rerun", "refused"}
  /\ how \in RerunMode \cup {"none", "all"} /\ x \in Runs \cup {NoRun}
  /\ cl \subseteq Runs /\ ag \subseteq cl
  /\ Blank(G)
  /\ stg # "rerun" =>
       /\ Shaped(G) /\ Executed(G) /\ cl = {} /\ ag = {} /\ og[Root].state = "NONE"
       /\ stg = "original" => Live(G)
  /\ stg = "rerun" =>
       /\ Live(G) /\ x \in Runs /\ (how = "SPECIFIC_RUN" => RenewedOf(G, x, cl))
       /\ ~ TakesTwice => /\ Shaped(G)
                          /\ og[Root].state = "RESOLVED" => ag = {} /\ FreshAreAlone(G)

LEMMA Unfolded ==
  /\ RerunInv <=> InvOf(graph, stage, mode, from, original, called, again)
  /\ RerunInv' <=> InvOf(graph', stage', mode', from', original', called', again')
  BY DEF RerunInv, TypeOK, InvOf, Renewed, RenewedOf

\* The start of an execution.
Fresh == [r \in Runs |-> IF r = Root THEN Created ELSE NoRuns]
LEMMA FreshGraph ==
  /\ Fresh \in Graphs /\ Blank(Fresh) /\ Live(Fresh) /\ Shaped(Fresh) /\ Executed(Fresh) /\ FreshAreAlone(Fresh)
  /\ [r \in Runs |-> NoRuns] \in Graphs
  <1> DEFINE Entry == [state : FutureState \cup {"NONE"}, parent : Runs \cup {NoRun}, nested : Runs \cup {NoRun},
                       args : Seq(Runs), made_of : SUBSET Runs]
             no == <<>>
  <1>1. NoRuns = [state |-> "NONE", parent |-> NoRun, nested |-> NoRun, args |-> no, made_of |-> {}]
    BY DEF NoRuns
  <1>2. no \in Seq(Runs) /\ Len(no) = 0 /\ DOMAIN no = {} /\ ToSet(no) = {} /\ IsInjective(no)
    BY DEF ToSet, IsInjective
  <1> HIDE DEF no
  <1>3. Created = [state |-> "CREATED", parent |-> NoRun, nested |-> NoRun, args |-> no, made_of |-> {}]
    BY <1>1, Entries DEF Created
  <1>4. Root \in Runs /\ NoRun \notin Runs
    BY RunsFinite DEF NoRun
  <1>5. NoRuns \in Entry /\ Created \in Entry
    BY <1>1, <1>2, <1>3 DEF FutureState
  <1>6. Fresh[Root] = Created /\ \A r \in Runs \ {Root} : Fresh[r] = NoRuns
    BY <1>4 DEF Fresh
  <1>7. Fresh \in Graphs /\ [r \in Runs |-> NoRuns] \in Graphs
    <2> HIDE DEF Entry
    <2>1. Fresh \in [Runs -> Entry] /\ [r \in Runs |-> NoRuns] \in [Runs -> Entry]
      BY <1>5 DEF Fresh
    <2> QED
      BY <2>1 DEF Graphs, Entry
  <1>8. Made(Fresh) = {Root}
    BY <1>1, <1>3, <1>4, <1>6 DEF Made
  <1>9. /\ Fresh[Root].state = "CREATED" /\ Fresh[Root].parent = NoRun /\ Fresh[Root].nested = NoRun
        /\ Fresh[Root].args = no /\ Fresh[Root].made_of = {}
    BY <1>3, <1>6
  <1>10. Children(Fresh, Root) = {} /\ ArgsOf(Fresh, Root) = {}
    BY <1>2, <1>4, <1>8, <1>9 DEF Children, ArgsOf
  <1>11. Blank(Fresh) /\ Live(Fresh)
    BY <1>6, <1>8, <1>9 DEF Blank, Live
  <1>12. Shaped(Fresh)
    BY <1>2, <1>8, <1>9, <1>10 DEF Shaped
  <1>13. FreshAreAlone(Fresh) /\ LeadOn(Fresh)
    BY <1>8, <1>10 DEF FreshAreAlone, LeadOn
  <1>14. Executed(Fresh)
    BY <1>8, <1>9, <1>10, <1>13 DEF Executed
  <1> QED
    BY <1>7, <1>11, <1>12, <1>13, <1>14

LEMMA RerunStarts == Init => RerunInv
  <1> SUFFICES ASSUME Init PROVE RerunInv
    OBVIOUS
  <1>1. /\ graph = Fresh /\ original = [r \in Runs |-> NoRuns]
        /\ stage = "original" /\ mode = "none" /\ from = NoRun /\ called = {} /\ again = {}
    BY DEF Init, Fresh
  <1>2. original[Root].state = "NONE"
    BY <1>1, RunsFinite DEF NoRuns
  <1>3. InvOf(graph, stage, mode, from, original, called, again)
    BY <1>1, <1>2, FreshGraph DEF InvOf
  <1> QED
    BY <1>3, Unfolded

\* What the call of a function was made of.
LEMMA CallOfTyped ==
  ASSUME TypeOK, NEW r \in Runs
  PROVE  CallOf(r) \in SUBSET Runs
  <1> DEFINE Given(f) == UNION {graph[a].made_of : a \in ArgsOf(graph, f)}
  <1>1. PICK G : G = graph /\ G \in Graphs
    BY DEF TypeOK
  <1>2. \A f \in Runs : \A a \in ArgsOf(G, f) : a \in Runs /\ G[a].made_of \in SUBSET Runs
    BY <1>1, GraphSteps DEF Graphs
  <1>3. \A f \in Runs : Given(f) \subseteq Runs
    BY <1>1, <1>2
  <1>4. Ancestors(G, r) \subseteq Runs
    BY <1>1, AncestorsFacts
  <1>5. CallOf(r) = (IF stage = "original" THEN {r} ELSE {}) \cup Given(r)
                       \cup UNION {Given(p) \cup {p} : p \in Ancestors(G, r) \ called}
    BY <1>1 DEF CallOf
  <1> HIDE DEF Given
  <1>6. \A p \in Ancestors(G, r) \ called : Given(p) \cup {p} \subseteq Runs
    BY <1>3, <1>4
  <1> QED
    BY <1>3, <1>5, <1>6

LEMMA CallOfAffected ==
  ASSUME RerunInv, stage = "original", NEW r \in Made(graph)
  PROVE  \A x \in CallOf(r) : x \in Made(graph) /\ r \in Affected(graph, x)
  <1> DEFINE Given(f) == UNION {graph[a].made_of : a \in ArgsOf(graph, f)}
  <1>1. PICK G : G = graph
    OBVIOUS
  <1>2. G \in Graphs /\ Blank(G) /\ Shaped(G) /\ Executed(G) /\ r \in Made(G) /\ r \in Runs /\ Made(G) \subseteq Runs
    BY <1>1, GraphSteps DEF RerunInv, TypeOK
  <1>3. ASSUME NEW f \in Made(G), NEW x \in Given(f)
        PROVE  x \in Made(G) /\ f \in Affected(G, x) /\ Descendants(G, f) \subseteq Skip(G, x)
    <2>1. PICK a \in ArgsOf(G, f) : x \in G[a].made_of
      BY <1>1, <1>3
    <2>2. a \in Made(G)
      BY <1>2, <2>1 DEF Shaped
    <2>3. x \in Made(G) /\ a \in Affected(G, x)
      BY <1>2, <2>1, <2>2 DEF Executed
    <2> QED
      BY <1>2, <2>1, <2>2, <2>3, TakersAreAffected
  <1>4. r \in Affected(G, r)
    BY <1>2, ResetSkip DEF Affected, Path
  <1>5. ASSUME NEW p \in Ancestors(G, r), NEW x \in Given(p) \cup {p}
        PROVE  x \in Made(G) /\ r \in Affected(G, x)
    <2>1. p \in Made(G) /\ r \in Descendants(G, p) /\ p \in Runs
      BY <1>2, AncestorsEarlier, AncestorsDescendants
    <2>2. CASE x = p
      <3>1. Descendants(G, p) \subseteq Skip(G, p)
        BY <1>2, <2>1, ResetSkip
      <3> QED
        BY <2>1, <2>2, <3>1 DEF Affected
    <2>3. CASE x \in Given(p)
      <3> HIDE DEF Given
      <3>1. x \in Made(G) /\ Descendants(G, p) \subseteq Skip(G, x)
        BY <1>3, <2>1, <2>3
      <3> QED
        BY <2>1, <3>1 DEF Affected
    <2> QED
      BY <1>5, <2>2, <2>3
  <1>6. CallOf(r) = {r} \cup Given(r) \cup UNION {Given(p) \cup {p} : p \in Ancestors(G, r) \ called}
    BY <1>1 DEF CallOf
  <1> HIDE DEF Given
  <1>7. ASSUME NEW x \in CallOf(r) PROVE x \in Made(G) /\ r \in Affected(G, x)
    <2>1. x = r \/ x \in Given(r) \/ \E p \in Ancestors(G, r) : x \in Given(p) \cup {p}
      BY <1>6, <1>7
    <2> QED
      BY <1>2, <1>3, <1>4, <1>5, <2>1
  <1> QED
    BY <1>1, <1>7

\* A function that is called again has no part in what it is called for.
LEMMA CallOfRenewed ==
  ASSUME RerunInv, stage = "rerun", mode = "SPECIFIC_RUN", NEW r \in Runs
  PROVE  from \notin CallOf(r)
  <1> DEFINE Given(f) == UNION {graph[a].made_of : a \in ArgsOf(graph, f)}
  <1>1. PICK G : G = graph
    OBVIOUS
  <1>2. G \in Graphs /\ Blank(G) /\ from \in Runs /\ Renewed
    BY <1>1 DEF RerunInv, TypeOK
  <1>3. \A f \in Runs : from \notin Given(f)
    <2> SUFFICES ASSUME NEW f \in Runs, NEW a \in ArgsOf(G, f), from \in G[a].made_of PROVE FALSE
      BY <1>1
    <2>1. a \in Runs
      BY <1>2, GraphSteps
    <2> QED
      BY <1>1, <1>2, <2>1 DEF Renewed
  <1>4. \A p \in Ancestors(G, r) \ called : p \in Runs /\ p # from
    <2>1. Ancestors(G, r) \subseteq Runs
      BY <1>2, AncestorsFacts
    <2>2. \A p \in Ancestors(G, r) : Children(G, p) # {}
      BY <1>2, AncestorsHaveChildren
    <2> QED
      BY <1>1, <1>2, <2>1, <2>2 DEF Renewed
  <1>5. CallOf(r) = (IF stage = "original" THEN {r} ELSE {}) \cup Given(r)
                       \cup UNION {Given(p) \cup {p} : p \in Ancestors(G, r) \ called}
    BY <1>1 DEF CallOf
  <1>6. CallOf(r) = Given(r) \cup UNION {Given(p) \cup {p} : p \in Ancestors(G, r) \ called}
    BY <1>5
  <1> HIDE DEF Given
  <1> QED
    BY <1>3, <1>4, <1>6

\* A run of an execution or of a rerun is resolved.
LEMMA ResolveKeeps ==
  ASSUME NEW G, NEW H \in Graphs, NEW stg \in {"original", "rerun"}, NEW how, NEW x, NEW og, NEW cl, NEW ag, NEW cm, NEW am,
         InvOf(G, stg, how, x, og, cl, ag), NEW r \in Made(G), NEW m, Resolves(G, H, r, m),
         cl \subseteq cm, cm \subseteq Runs, am \subseteq cm,
         stg = "original" => /\ cm = {} /\ am = {}
                             /\ \A a \in ArgsOf(G, r) : G[a].state = "RESOLVED"
                             /\ \A c \in Children(G, r) : G[c].state = "RESOLVED"
                             /\ \A y \in m : y \in Made(G) /\ r \in Affected(G, y),
         stg = "rerun" => /\ how = "SPECIFIC_RUN" => x \notin m
                          /\ ~ TakesTwice /\ og[Root].state = "RESOLVED" => am = {}
  PROVE  InvOf(H, stg, how, x, og, cm, am)
  <1>1. /\ G \in Graphs /\ og \in Graphs
        /\ how \in RerunMode \cup {"none", "all"} /\ x \in Runs \cup {NoRun} /\ Blank(G)
    BY DEF InvOf
  <1>2. Blank(H) /\ (Live(G) => Live(H)) /\ (Shaped(G) => Shaped(H)) /\ (FreshAreAlone(G) => FreshAreAlone(H))
    BY <1>1, ResolvedGraph
  <1>3. CASE stg = "original"
    <2>1. Shaped(G) /\ Executed(G) /\ cl = {} /\ ag = {} /\ og[Root].state = "NONE" /\ Live(G)
      BY <1>3 DEF InvOf
    <2>2. Executed(H)
      BY <1>1, <1>3, <2>1, ResolvedExecution
    <2> QED
      BY <1>1, <1>2, <1>3, <2>1, <2>2 DEF InvOf
  <1>4. CASE stg = "rerun"
    <2>1. /\ Live(G) /\ x \in Runs /\ (how = "SPECIFIC_RUN" => RenewedOf(G, x, cl))
          /\ ~ TakesTwice => Shaped(G) /\ (og[Root].state = "RESOLVED" => ag = {} /\ FreshAreAlone(G))
      BY <1>4 DEF InvOf
    <2>2. ASSUME how = "SPECIFIC_RUN" PROVE RenewedOf(H, x, cm)
      <3>1. /\ \A q \in Runs : x \notin G[q].made_of
            /\ Children(G, x) # {} \/ G[x].state = "RAN" => x \in cl
        BY <2>1, <2>2 DEF RenewedOf
      <3>2. Children(H, x) = Children(G, x)
        BY <1>1, <2>1, SameShapeFacts DEF Resolves
      <3>3. \A q \in Runs \ {r} : H[q] = G[q]
        BY DEF Resolves
      <3>4. H[r].state = "RESOLVED" /\ x \notin H[r].made_of
        BY <1>4, <2>2 DEF Resolves
      <3>5. \A q \in Runs : x \notin H[q].made_of
        BY <3>1, <3>3, <3>4
      <3>6. H[x].state = "RAN" => G[x].state = "RAN"
        BY <2>1, <3>3, <3>4
      <3> QED
        BY <3>1, <3>2, <3>5, <3>6 DEF RenewedOf
    <2> QED
      BY <1>1, <1>2, <1>4, <2>1, <2>2 DEF InvOf
  <1> QED
    BY <1>3, <1>4

\* A call returns futures.
LEMMA ReturnKeeps ==
  ASSUME NEW G, NEW H \in Graphs, NEW stg \in {"original", "rerun"}, NEW how, NEW x, NEW og, NEW cl, NEW ag, NEW cm, NEW am,
         InvOf(G, stg, how, x, og, cl, ag), NEW r \in Made(G), NEW S, Returns(G, H, r, S),
         G[r].state = "CREATED", \A a \in ArgsOf(G, r) : G[a].state = "RESOLVED",
         cl \subseteq cm, cm \subseteq Runs, am \subseteq cm,
         stg = "original" => cm = {} /\ am = {},
         stg = "rerun" => r \in cm /\ (~ TakesTwice /\ og[Root].state = "RESOLVED" => am = {})
  PROVE  InvOf(H, stg, how, x, og, cm, am)
  <1>1. /\ G \in Graphs /\ og \in Graphs
        /\ how \in RerunMode \cup {"none", "all"} /\ x \in Runs \cup {NoRun} /\ Blank(G)
    BY DEF InvOf
  <1>2. /\ Blank(H) /\ (Live(G) => Live(H)) /\ (Shaped(G) => Shaped(H))
        /\ Shaped(G) /\ FreshAreAlone(G) => FreshAreAlone(H)
    BY <1>1, ReturnedGraph
  <1>3. CASE stg = "original"
    <2>1. Shaped(G) /\ Executed(G) /\ cl = {} /\ ag = {} /\ og[Root].state = "NONE" /\ Live(G)
      BY <1>3 DEF InvOf
    <2>2. Executed(H)
      BY <1>1, <2>1, ReturnedExecution
    <2> QED
      BY <1>1, <1>2, <1>3, <2>1, <2>2 DEF InvOf
  <1>4. CASE stg = "rerun"
    <2>1. /\ Live(G) /\ x \in Runs /\ (how = "SPECIFIC_RUN" => RenewedOf(G, x, cl))
          /\ ~ TakesTwice => Shaped(G) /\ (og[Root].state = "RESOLVED" => ag = {} /\ FreshAreAlone(G))
      BY <1>4 DEF InvOf
    <2>2. ASSUME how = "SPECIFIC_RUN" PROVE RenewedOf(H, x, cm)
      <3>1. /\ \A q \in Runs : x \notin G[q].made_of
            /\ Children(G, x) # {} \/ G[x].state = "RAN" => x \in cl
        BY <2>1, <2>2 DEF RenewedOf
      <3>8. \A q \in Runs : Children(H, q) = Children(G, q) \cup (IF q = r THEN S ELSE {})
        BY <1>1, ReturnedGraph
      <3>2. x # r => Children(H, x) = Children(G, x)
        BY <2>1, <3>8
      <3>3. /\ S \subseteq Runs /\ \A q \in Runs \ (S \cup {r}) : H[q] = G[q]
            /\ H[r].made_of = G[r].made_of /\ \A f \in S : H[f].made_of = {} /\ H[f].state = "CREATED"
        BY DEF Returns
      <3>4. r \in Runs
        BY <1>1, GraphSteps
      <3>5. \A q \in Runs : x \notin H[q].made_of
        BY <3>1, <3>3, <3>4
      <3>6. x # r /\ H[x].state = "RAN" => G[x].state = "RAN"
        BY <2>1, <3>3
      <3>7. x = r => x \in cm
        BY <1>4
      <3> QED
        BY <3>1, <3>2, <3>5, <3>6, <3>7 DEF RenewedOf
    <2> QED
      BY <1>1, <1>2, <1>4, <2>1, <2>2 DEF InvOf
  <1> QED
    BY <1>3, <1>4

\* A rerun begins.
LEMMA RerunBegins ==
  ASSUME NEW G, NEW stg \in {"original", "over"}, NEW was, NEW x, NEW og, NEW cl, NEW ag,
         InvOf(G, stg, was, x, og, cl, ag),
         NEW H \in Graphs, NEW how \in RerunMode \cup {"all"}, NEW f \in Runs, Blank(H), Live(H),
         how = "SPECIFIC_RUN" => RenewedOf(H, f, cl),
         ~ TakesTwice => Shaped(H) /\ (G[Root].state = "RESOLVED" => FreshAreAlone(H))
  PROVE  InvOf(H, "rerun", how, f, G, cl, ag)
  <1>1. G \in Graphs /\ cl = {} /\ ag = {}
    BY DEF InvOf
  <1> QED
    BY <1>1 DEF InvOf

\* A function's futures are all resolved when the last of them is.
LEMMA AllOfThem ==
  ASSUME NEW G \in Graphs, Shaped(G), Executed(G), NEW r \in Made(G), G[G[r].nested].state = "RESOLVED",
         NEW c \in Children(G, r)
  PROVE  G[c].state = "RESOLVED"
  <1> DEFINE Bad == {d \in Children(G, r) : G[d].state # "RESOLVED"}
  <1> SUFFICES ASSUME Bad # {} PROVE FALSE
    OBVIOUS
  <1>1. Children(G, r) \subseteq Made(G) /\ Made(G) \subseteq Runs /\ Runs \subseteq Nat /\ r \in Runs
    BY GraphSteps, RunsFinite DEF Children
  <1>2. PICK m \in Bad : \A k \in Bad : m >= k
    <2>1. Bad \in SUBSET Runs
      BY <1>1
    <2> HIDE DEF Bad
    <2> QED
      BY <2>1, LastRun
  <1>3. m \in Made(G) /\ m \in Nat /\ G[m].parent = r /\ G[m].state # "RESOLVED"
    BY <1>1 DEF Children
  <1>4. m # Root
    BY <1>1, <1>3, RunsFinite DEF Shaped, NoRun
  <1>5. PICK t \in Made(G) : m \in ArgsOf(G, t)
    BY <1>3, <1>4 DEF Executed, LeadOn
  <1>6. m < t /\ G[t].parent = r /\ t \in Nat
    BY <1>1, <1>3, <1>5 DEF Shaped
  <1>7. t \in Children(G, r) /\ t \notin Bad
    BY <1>2, <1>3, <1>6 DEF Children
  <1>8. t \in Made(G) /\ G[t].state \in {"RAN", "RESOLVED"}
    BY <1>7
  <1>9. \A a \in ArgsOf(G, t) : G[a].state = "RESOLVED"
    BY <1>8 DEF Executed
  <1> QED
    BY <1>3, <1>5, <1>9

\* The runner, in general: what a call leaves of the other variables.
LEMMA CallsFacts ==
  ASSUME RerunInv, NEW r \in Runs, Calls(r)
  PROVE  /\ stage \in {"original", "rerun"} /\ r \in Made(graph) /\ graph[r].state = "CREATED"
         /\ \A a \in ArgsOf(graph, r) : graph[a].state = "RESOLVED"
         /\ stage' = stage /\ mode' = mode /\ from' = from /\ original' = original
         /\ called \subseteq called' /\ called' \subseteq Runs /\ again' \subseteq called'
         /\ stage = "original" => called' = {} /\ again' = {} /\ Children(graph, r) = {}
         /\ stage = "rerun" => r \in called' /\ (~ TakesTwice /\ original[Root].state = "RESOLVED" => again' = {})
  <1>1. /\ stage \in {"original", "rerun"} /\ graph[r].state = "CREATED"
        /\ \A a \in ArgsOf(graph, r) : graph[a].state = "RESOLVED"
        /\ called' = IF stage = "rerun" THEN called \cup {r} ELSE called
        /\ again' = IF stage = "rerun" /\ Children(graph, r) # {} THEN again \cup {r} ELSE again
        /\ stage' = stage /\ mode' = mode /\ from' = from /\ original' = original
    BY DEF Calls, Executing, Executable
  <1>2. r \in Made(graph)
    BY <1>1 DEF Made
  <1>3. called \subseteq Runs /\ again \subseteq called
    BY DEF RerunInv, TypeOK
  <1>4. stage = "original" => called = {} /\ again = {} /\ FreshAreAlone(graph)
    BY DEF RerunInv, Executed
  <1>5. stage = "rerun" /\ ~ TakesTwice /\ original[Root].state = "RESOLVED" => again = {} /\ FreshAreAlone(graph)
    BY DEF RerunInv
  <1>6. FreshAreAlone(graph) => Children(graph, r) = {}
    BY <1>1, <1>2 DEF FreshAreAlone
  <1> QED
    BY <1>1, <1>2, <1>3, <1>4, <1>5, <1>6

LEMMA ReturnsValueKeeps ==
  ASSUME RerunInv, NEW r \in Runs, ReturnsValue(r)
  PROVE  RerunInv'
  <1>1. Calls(r) /\ graph' = [graph EXCEPT ![r].state = "RESOLVED", ![r].made_of = CallOf(r)]
    BY DEF ReturnsValue
  <1>2. /\ stage \in {"original", "rerun"} /\ r \in Made(graph)
        /\ \A a \in ArgsOf(graph, r) : graph[a].state = "RESOLVED"
        /\ stage' = stage /\ mode' = mode /\ from' = from /\ original' = original
        /\ called \subseteq called' /\ called' \subseteq Runs /\ again' \subseteq called'
        /\ stage = "original" => called' = {} /\ again' = {} /\ Children(graph, r) = {}
        /\ stage = "rerun" => (~ TakesTwice /\ original[Root].state = "RESOLVED" => again' = {})
    BY <1>1, CallsFacts
  <1>3. PICK m : m = CallOf(r)
    OBVIOUS
  <1>4. PICK G, H : G = graph /\ H = graph'
    OBVIOUS
  <1>5. PICK og, cl, ag, cm, am : og = original /\ cl = called /\ ag = again /\ cm = called' /\ am = again'
    OBVIOUS
  <1>6. PICK stg, how, x : stg = stage /\ how = mode /\ x = from
    OBVIOUS
  <1>7. InvOf(G, stg, how, x, og, cl, ag)
    BY <1>4, <1>5, <1>6, Unfolded
  <1>8. m \in SUBSET Runs /\ G \in Graphs /\ r \in Made(G)
    BY <1>2, <1>3, <1>4, CallOfTyped DEF RerunInv, TypeOK
  <1>9. H = [G EXCEPT ![r].state = "RESOLVED", ![r].made_of = m]
    BY <1>1, <1>3, <1>4
  <1>10. H \in Graphs /\ Resolves(G, H, r, m)
    BY <1>8, <1>9, ResolvesTyped
  <1>11. stg = "original" => \A y \in m : y \in Made(G) /\ r \in Affected(G, y)
    BY <1>2, <1>3, <1>4, <1>6, CallOfAffected
  <1>12. stg = "rerun" /\ how = "SPECIFIC_RUN" => x \notin m
    BY <1>3, <1>6, CallOfRenewed
  <1>13. /\ stg \in {"original", "rerun"} /\ \A a \in ArgsOf(G, r) : G[a].state = "RESOLVED"
         /\ cl \subseteq cm /\ cm \subseteq Runs /\ am \subseteq cm
         /\ stg = "original" => cm = {} /\ am = {} /\ Children(G, r) = {}
         /\ stg = "rerun" => (~ TakesTwice /\ og[Root].state = "RESOLVED" => am = {})
    BY <1>2, <1>4, <1>5, <1>6
  <1>14. InvOf(H, stg, how, x, og, cm, am)
    BY <1>7, <1>8, <1>10, <1>11, <1>12, <1>13, ResolveKeeps
  <1>15. InvOf(graph', stage', mode', from', original', called', again')
    BY <1>2, <1>4, <1>5, <1>6, <1>14
  <1> QED
    BY <1>15, Unfolded

ReturnedAs(G, H, r, S) ==
  \E A \in Arguments(S) :
    H = [f \in Runs |->
           IF f \in S THEN [Created EXCEPT !.parent = r, !.args = A[f]]
           ELSE IF f = r THEN [G[r] EXCEPT !.state = "RAN", !.nested = Max(S)]
           ELSE G[f]]
LEMMA ReturnsFuturesFacts ==
  ASSUME NEW r \in Runs, ReturnsFutures(r)
  PROVE  \E n \in 1..MaxSubgraph :
           /\ Max(Made(graph)) + n <= MaxRuns
           /\ ReturnedAs(graph, graph', r, (Max(Made(graph)) + 1)..(Max(Made(graph)) + n))
  BY Zenon DEF ReturnsFutures, ReturnedAs

LEMMA ReturnsFuturesKeeps ==
  ASSUME RerunInv, NEW r \in Runs, ReturnsFutures(r)
  PROVE  RerunInv'
  <1>1. Calls(r)
    BY DEF ReturnsFutures
  <1>2. /\ stage \in {"original", "rerun"} /\ r \in Made(graph) /\ graph[r].state = "CREATED"
        /\ \A a \in ArgsOf(graph, r) : graph[a].state = "RESOLVED"
        /\ stage' = stage /\ mode' = mode /\ from' = from /\ original' = original
        /\ called \subseteq called' /\ called' \subseteq Runs /\ again' \subseteq called'
        /\ stage = "original" => called' = {} /\ again' = {}
        /\ stage = "rerun" => r \in called' /\ (~ TakesTwice /\ original[Root].state = "RESOLVED" => again' = {})
    BY <1>1, CallsFacts
  <1>3. PICK G, H : G = graph /\ H = graph'
    OBVIOUS
  <1>4. PICK og, cl, ag, cm, am : og = original /\ cl = called /\ ag = again /\ cm = called' /\ am = again'
    OBVIOUS
  <1>5. PICK stg, how, x : stg = stage /\ how = mode /\ x = from
    OBVIOUS
  <1>6. InvOf(G, stg, how, x, og, cl, ag)
    BY <1>3, <1>4, <1>5, Unfolded
  <1>7. G \in Graphs /\ r \in Made(G)
    BY <1>2, <1>3 DEF RerunInv, TypeOK
  <1>8. PICK n \in 1..MaxSubgraph : Max(Made(G)) + n <= MaxRuns /\ ReturnedAs(G, H, r, (Max(Made(G)) + 1)..(Max(Made(G)) + n))
    BY <1>3, ReturnsFuturesFacts
  <1>9. PICK last, S : last = Max(Made(G)) /\ S = (last + 1)..(last + n)
    OBVIOUS
  <1>10. PICK A \in Arguments(S) :
           H = [f \in Runs |->
                  IF f \in S THEN [Created EXCEPT !.parent = r, !.args = A[f]]
                  ELSE IF f = r THEN [G[r] EXCEPT !.state = "RAN", !.nested = Max(S)]
                  ELSE G[f]]
    <2>1. ReturnedAs(G, H, r, S)
      BY <1>8, <1>9
    <2> QED
      BY <2>1 DEF ReturnedAs
  <1>12. n \in Nat /\ n # 0
    <2>1. MaxSubgraph \in Nat
      BY ConstantsAssumption DEF ConstantsAssumption
    <2> QED
      BY <2>1
  <1>13. S \in SUBSET Runs /\ S # {} /\ \A f \in S : \A q \in Made(G) : q < f
    <2>1. last \in Made(G) /\ \A q \in Made(G) : q <= last
      <3>1. Made(G) \in SUBSET Runs /\ Made(G) # {}
        BY <1>7, GraphSteps
      <3> QED
        BY <1>9, <3>1, MaxRun
    <2>2. last + n <= MaxRuns
      BY <1>8, <1>9
    <2>3. Following(S, last, n)
      BY <1>9 DEF Following
    <2>4. G \in Graphs
      BY <1>7
    <2> QED
      BY <1>12, <2>1, <2>2, <2>3, <2>4, NewRuns
  <1>14. H \in Graphs /\ Returns(G, H, r, S)
    BY <1>7, <1>10, <1>13, ReturnsTyped
  <1>15. /\ stg \in {"original", "rerun"} /\ G[r].state = "CREATED" /\ \A a \in ArgsOf(G, r) : G[a].state = "RESOLVED"
         /\ cl \subseteq cm /\ cm \subseteq Runs /\ am \subseteq cm
         /\ stg = "original" => cm = {} /\ am = {}
         /\ stg = "rerun" => r \in cm /\ (~ TakesTwice /\ og[Root].state = "RESOLVED" => am = {})
    BY <1>2, <1>3, <1>4, <1>5
  <1>16. InvOf(H, stg, how, x, og, cm, am)
    BY <1>6, <1>7, <1>14, <1>15, ReturnKeeps
  <1>17. InvOf(graph', stage', mode', from', original', called', again')
    BY <1>2, <1>3, <1>4, <1>5, <1>16
  <1> QED
    BY <1>17, Unfolded

LEMMA BubblesKeeps ==
  ASSUME RerunInv, NEW r \in Runs, Bubbles(r)
  PROVE  RerunInv'
  <1> DEFINE own == graph[graph[r].nested].made_of
  <1>1. /\ stage \in {"original", "rerun"} /\ graph[r].state = "RAN" /\ graph[graph[r].nested].state = "RESOLVED"
        /\ graph' = [graph EXCEPT ![r].state = "RESOLVED", ![r].made_of = own \cup (IF r \in called THEN {} ELSE {r})]
        /\ stage' = stage /\ mode' = mode /\ from' = from /\ original' = original /\ called' = called /\ again' = again
    BY DEF Bubbles, Executing
  <1>2. PICK m : m = own \cup (IF r \in called THEN {} ELSE {r})
    OBVIOUS
  <1>3. PICK G, H : G = graph /\ H = graph'
    OBVIOUS
  <1>4. PICK og, cl, ag : og = original /\ cl = called /\ ag = again
    OBVIOUS
  <1>5. PICK stg, how, x : stg = stage /\ how = mode /\ x = from
    OBVIOUS
  <1>6. InvOf(G, stg, how, x, og, cl, ag)
    BY <1>3, <1>4, <1>5, Unfolded
  <1>7. /\ G \in Graphs /\ r \in Made(G) /\ G[r].state = "RAN" /\ G[G[r].nested].state = "RESOLVED"
        /\ stg \in {"original", "rerun"} /\ cl \subseteq Runs /\ ag \subseteq cl
    BY <1>1, <1>3, <1>4, <1>5 DEF RerunInv, TypeOK, Made
  <1>8. H = [G EXCEPT ![r].state = "RESOLVED", ![r].made_of = m]
    BY <1>1, <1>2, <1>3
  <1>9. m = G[G[r].nested].made_of \cup (IF r \in cl THEN {} ELSE {r})
    BY <1>2, <1>3, <1>4
  <1>10. Live(G)
    BY <1>6, <1>7 DEF InvOf
  <1>11. G[r].nested \in Runs
    BY <1>7, <1>10 DEF Live, Graphs
  <1>12. m \in SUBSET Runs
    <2>1. G[G[r].nested].made_of \in SUBSET Runs
      BY <1>7, <1>11 DEF Graphs
    <2> QED
      BY <1>9, <2>1
  <1>13. H \in Graphs /\ Resolves(G, H, r, m)
    BY <1>7, <1>8, <1>12, ResolvesTyped
  <1>14. ASSUME stg = "original"
         PROVE  /\ cl = {} /\ ag = {}
                /\ \A a \in ArgsOf(G, r) : G[a].state = "RESOLVED"
                /\ \A c \in Children(G, r) : G[c].state = "RESOLVED"
                /\ \A y \in m : y \in Made(G) /\ r \in Affected(G, y)
    <2>1. Shaped(G) /\ Executed(G) /\ cl = {} /\ ag = {}
      BY <1>6, <1>14 DEF InvOf
    <2>2. \A a \in ArgsOf(G, r) : G[a].state = "RESOLVED"
      BY <1>7, <2>1 DEF Executed
    <2>3. \A c \in Children(G, r) : G[c].state = "RESOLVED"
      BY <1>7, <2>1, AllOfThem
    <2>4. G[r].nested \in Made(G) /\ G[G[r].nested].parent = r
      <3>1. G[r].nested \in Children(G, r)
        BY <1>7, <1>11, <2>1, RunsFinite DEF Shaped, NoRun
      <3> QED
        BY <3>1 DEF Children
    <2>5. ASSUME NEW y \in m PROVE y \in Made(G) /\ r \in Affected(G, y)
      <3>1. CASE y = r
        <4>1. r \in Affected(G, r)
          BY <1>7, ResetSkip DEF Affected, Path
        <4> QED
          BY <1>7, <3>1, <4>1
      <3>2. CASE y \in G[G[r].nested].made_of
        <4>1. y \in Made(G) /\ G[r].nested \in Affected(G, y)
          BY <2>1, <2>4, <3>2 DEF Executed
        <4>2. r # NoRun
          BY RunsFinite DEF NoRun
        <4>3. G[G[r].nested].parent \in Affected(G, y)
          BY <1>7, <2>1, <2>4, <4>1, <4>2, ParentsAreAffected
        <4> QED
          BY <2>4, <4>1, <4>3
      <3> QED
        BY <1>9, <2>5, <3>1, <3>2
    <2> QED
      BY <2>1, <2>2, <2>3, <2>5
  <1>15. ASSUME stg = "rerun"
         PROVE  /\ how = "SPECIFIC_RUN" => x \notin m
                /\ ~ TakesTwice /\ og[Root].state = "RESOLVED" => ag = {}
    <2>1. /\ how = "SPECIFIC_RUN" => RenewedOf(G, x, cl)
          /\ ~ TakesTwice /\ og[Root].state = "RESOLVED" => ag = {}
      BY <1>6, <1>15 DEF InvOf
    <2>2. ASSUME how = "SPECIFIC_RUN" PROVE x \notin m
      <3>1. x \notin G[G[r].nested].made_of /\ (G[x].state = "RAN" => x \in cl)
        BY <1>11, <2>1, <2>2 DEF RenewedOf
      <3> QED
        BY <1>7, <1>9, <3>1
    <2> QED
      BY <2>1, <2>2
  <1>16. InvOf(H, stg, how, x, og, cl, ag)
    <2>1. cl \subseteq cl
      OBVIOUS
    <2> QED
      BY <1>6, <1>7, <1>13, <1>14, <1>15, <2>1, ResolveKeeps
  <1>17. InvOf(graph', stage', mode', from', original', called', again')
    BY <1>1, <1>3, <1>4, <1>5, <1>16
  <1> QED
    BY <1>17, Unfolded

\* The runs get other states.
LEMMA StatesChange ==
  ASSUME NEW G \in Graphs, NEW s \in [Runs -> FutureState \cup {"NONE"}],
         \A q \in Runs : s[q] = "NONE" <=> G[q].state = "NONE"
  PROVE  LET H == [q \in Runs |-> [G[q] EXCEPT !.state = s[q]]] IN
         /\ H \in Graphs /\ SameShape(G, H)
         /\ \A q \in Runs : /\ H[q].state = s[q] /\ H[q].made_of = G[q].made_of
                            /\ s[q] = G[q].state => H[q] = G[q]
  <1> DEFINE H == [q \in Runs |-> [G[q] EXCEPT !.state = s[q]]]
             Entry == [state : FutureState \cup {"NONE"}, parent : Runs \cup {NoRun}, nested : Runs \cup {NoRun},
                       args : Seq(Runs), made_of : SUBSET Runs]
  <1>1. \A q \in Runs : G[q] \in Entry
    BY DEF Graphs
  <1>2. \A q \in Runs : H[q] = [G[q] EXCEPT !.state = s[q]]
    OBVIOUS
  <1>3. DOMAIN H = Runs /\ H = [q \in Runs |-> H[q]]
    OBVIOUS
  <1> HIDE DEF H
  <1>4. ASSUME NEW q \in Runs
        PROVE  /\ H[q] \in Entry /\ H[q].state = s[q] /\ H[q].made_of = G[q].made_of
               /\ H[q].parent = G[q].parent /\ H[q].args = G[q].args /\ H[q].nested = G[q].nested
               /\ s[q] = G[q].state => H[q] = G[q]
    <2> DEFINE new == s[q]
    <2>1. new \in FutureState \cup {"NONE"} /\ H[q] = [G[q] EXCEPT !.state = new]
      BY <1>2
    <2>2. G[q] = [state |-> G[q].state, parent |-> G[q].parent, nested |-> G[q].nested, args |-> G[q].args, made_of |-> G[q].made_of]
      BY <1>1
    <2>3. /\ G[q].parent \in Runs \cup {NoRun} /\ G[q].nested \in Runs \cup {NoRun}
          /\ G[q].args \in Seq(Runs) /\ G[q].made_of \in SUBSET Runs
      BY <1>1
    <2> HIDE DEF new
    <2>4. H[q] = [state |-> new, parent |-> G[q].parent, nested |-> G[q].nested, args |-> G[q].args, made_of |-> G[q].made_of]
      BY <2>1, <2>2, Entries
    <2>5. H[q] \in Entry
      BY <2>1, <2>3, <2>4
    <2>6. new = G[q].state => H[q] = G[q]
      BY <2>2, <2>4
    <2> HIDE DEF Entry
    <2> QED
      BY <2>4, <2>5, <2>6 DEF new
  <1>5. H \in Graphs
    <2> HIDE DEF Entry
    <2>1. H \in [Runs -> Entry]
      BY <1>3, <1>4
    <2> QED
      BY <2>1 DEF Graphs, Entry
  <1> HIDE DEF Entry
  <1>6. Made(H) = Made(G)
    BY <1>4 DEF Made
  <1> QED
    BY <1>4, <1>5, <1>6 DEF SameShape, H

\* The original execution ends before its root is resolved.
LEMMA EndKeeps ==
  ASSUME NEW G, NEW how, NEW x, NEW og, NEW cl, NEW ag, InvOf(G, "original", how, x, og, cl, ag),
         NEW s \in [Runs -> FutureState \cup {"NONE"}],
         \A q \in Runs : q \notin Made(G) => s[q] = "NONE",
         \A q \in Made(G) : /\ s[q] \notin {"NONE", "CREATED", "RAN"}
                            /\ s[q] = "RESOLVED" <=> G[q].state = "RESOLVED"
  PROVE  InvOf([q \in Runs |-> [G[q] EXCEPT !.state = s[q]]], "over", how, x, og, cl, ag)
  <1> DEFINE H == [q \in Runs |-> [G[q] EXCEPT !.state = s[q]]]
  <1>1. /\ G \in Graphs /\ og \in Graphs
        /\ how \in RerunMode \cup {"none", "all"} /\ x \in Runs \cup {NoRun} /\ cl \subseteq Runs /\ ag \subseteq cl
        /\ Blank(G) /\ Shaped(G) /\ Executed(G) /\ cl = {} /\ ag = {} /\ og[Root].state = "NONE"
    BY DEF InvOf
  <1>2. \A q \in Runs : q \in Made(G) <=> G[q].state # "NONE"
    BY DEF Made
  <1>3. \A q \in Runs : s[q] = "NONE" <=> G[q].state = "NONE"
    BY <1>2
  <1>4. /\ H \in Graphs /\ SameShape(G, H)
        /\ \A q \in Runs : /\ H[q].state = s[q] /\ H[q].made_of = G[q].made_of
                           /\ s[q] = G[q].state => H[q] = G[q]
    BY <1>1, <1>3, StatesChange
  <1> HIDE DEF H
  <1>5. Blank(H)
    <2> SUFFICES ASSUME NEW q \in Runs \ Made(H) PROVE H[q] = NoRuns
      BY DEF Blank
    <2>1. q \in Runs \ Made(G)
      BY <1>4 DEF SameShape
    <2>2. s[q] = G[q].state
      BY <1>2, <1>3, <2>1
    <2> QED
      BY <1>1, <1>4, <2>1, <2>2 DEF Blank
  <1>6. \A q \in Made(G) : /\ H[q].made_of = G[q].made_of /\ H[q].state \notin {"CREATED", "RAN"}
                           /\ H[q].state = "RESOLVED" <=> G[q].state = "RESOLVED"
    BY <1>1, <1>4, GraphSteps
  <1>7. Shaped(H) /\ Executed(H)
    BY <1>1, <1>4, <1>5, <1>6, EndedExecution
  <1>8. InvOf(H, "over", how, x, og, cl, ag)
    BY <1>1, <1>4, <1>5, <1>7 DEF InvOf
  <1> QED
    BY <1>8 DEF H

\* The original execution ends.
LEMMA RaisesKeeps ==
  ASSUME RerunInv, NEW r \in Runs, Raises(r)
  PROVE  RerunInv'
  <1>1. /\ stage = "original" /\ graph[r].state = "CREATED"
        /\ stage' = "over" /\ mode' = mode /\ from' = from /\ original' = original /\ called' = called /\ again' = again
    BY DEF Raises, Executable
  <1>2. PICK G, H : G = graph /\ H = graph'
    OBVIOUS
  <1>3. PICK og, cl, ag, how, x : og = original /\ cl = called /\ ag = again /\ how = mode /\ x = from
    OBVIOUS
  <1>4. InvOf(G, "original", how, x, og, cl, ag)
    BY <1>1, <1>2, <1>3, Unfolded
  <1>5. G \in Graphs /\ Shaped(G) /\ Executed(G) /\ Live(G)
    BY <1>4 DEF InvOf
  <1>6. r \in Made(G) /\ Made(G) \subseteq Runs /\ \A q \in Runs : q \in Made(G) <=> G[q].state # "NONE"
    BY <1>1, <1>2 DEF Made
  <1> DEFINE Over(q) == IF q = r THEN "FAILED"
                        ELSE IF q \in Ancestors(G, r) THEN "NESTED_FAILED"
                        ELSE IF G[q].state = "NONE" \/ IsTerminal(G[q].state) THEN G[q].state ELSE "CANCELED"
             s == [q \in Runs |-> Over(q)]
  <1>7. H = [q \in Runs |-> [G[q] EXCEPT !.state = s[q]]]
    BY <1>2 DEF Raises
  <1>8. \A q \in Ancestors(G, r) : q \in Made(G) /\ G[q].state # "RESOLVED"
    <2> SUFFICES ASSUME NEW q \in Ancestors(G, r) PROVE q \in Made(G) /\ G[q].state # "RESOLVED"
      OBVIOUS
    <2>1. q \in Made(G) /\ r \in Descendants(G, q)
      BY <1>5, <1>6, AncestorsEarlier, AncestorsDescendants
    <2>2. G[q].state = "RESOLVED" => G[r].state = "RESOLVED"
      BY <1>5, <2>1, ResolvedDown
    <2> QED
      BY <1>1, <1>2, <2>1, <2>2
  <1>9. \A q \in Runs : q \notin Made(G) => s[q] = "NONE"
    BY <1>6, <1>8
  <1>10. ASSUME NEW q \in Made(G)
         PROVE  /\ s[q] \notin {"NONE", "CREATED", "RAN"} /\ s[q] \in FutureState
                /\ s[q] = "RESOLVED" <=> G[q].state = "RESOLVED"
    <2>1. G[q].state \in {"CREATED", "RAN", "RESOLVED"} /\ q \in Runs
      BY <1>5, <1>6 DEF Live
    <2>2. CASE q = r
      BY <1>1, <1>2, <2>1, <2>2 DEF FutureState
    <2>3. CASE q \in Ancestors(G, r) /\ q # r
      BY <1>8, <2>1, <2>3 DEF FutureState
    <2>4. CASE q \notin Ancestors(G, r) /\ q # r
      <3>1. s[q] = IF G[q].state = "NONE" \/ IsTerminal(G[q].state) THEN G[q].state ELSE "CANCELED"
        BY <2>1, <2>4
      <3> QED
        BY <2>1, <3>1 DEF IsTerminal, TerminalStates, FutureState
    <2> QED
      BY <2>2, <2>3, <2>4
  <1> HIDE DEF Over
  <1>11. s \in [Runs -> FutureState \cup {"NONE"}]
    BY <1>9, <1>10
  <1> HIDE DEF s
  <1>12. InvOf(H, "over", how, x, og, cl, ag)
    BY <1>4, <1>7, <1>9, <1>10, <1>11, EndKeeps
  <1> QED
    BY <1>1, <1>2, <1>3, <1>12, Unfolded

LEMMA CancelKeeps ==
  ASSUME RerunInv, Cancel
  PROVE  RerunInv'
  <1>1. /\ stage = "original"
        /\ stage' = "over" /\ mode' = mode /\ from' = from /\ original' = original /\ called' = called /\ again' = again
    BY DEF Cancel
  <1>2. PICK G, H : G = graph /\ H = graph'
    OBVIOUS
  <1>3. PICK og, cl, ag, how, x : og = original /\ cl = called /\ ag = again /\ how = mode /\ x = from
    OBVIOUS
  <1>4. InvOf(G, "original", how, x, og, cl, ag)
    BY <1>1, <1>2, <1>3, Unfolded
  <1>5. G \in Graphs /\ Live(G) /\ \A q \in Runs : q \in Made(G) <=> G[q].state # "NONE"
    BY <1>4 DEF InvOf, Made
  <1> DEFINE s == [q \in Runs |-> IF G[q].state = "NONE" \/ IsTerminal(G[q].state) THEN G[q].state ELSE "CANCELED"]
  <1>6. H = [q \in Runs |-> [G[q] EXCEPT !.state = s[q]]]
    BY <1>2 DEF Cancel
  <1>7. \A q \in Runs : q \notin Made(G) => s[q] = "NONE"
    BY <1>5
  <1>8. ASSUME NEW q \in Made(G)
        PROVE  /\ s[q] \notin {"NONE", "CREATED", "RAN"} /\ s[q] \in FutureState
               /\ s[q] = "RESOLVED" <=> G[q].state = "RESOLVED"
    <2>1. G[q].state \in {"CREATED", "RAN", "RESOLVED"} /\ q \in Runs
      BY <1>5 DEF Live, Made
    <2> QED
      BY <2>1 DEF IsTerminal, TerminalStates, FutureState
  <1>9. s \in [Runs -> FutureState \cup {"NONE"}]
    <2>1. \A q \in Runs : s[q] \in FutureState \cup {"NONE"}
      BY <1>7, <1>8
    <2> QED
      BY <2>1
  <1> HIDE DEF s
  <1>10. InvOf(H, "over", how, x, og, cl, ag)
    BY <1>4, <1>6, <1>7, <1>8, <1>9, EndKeeps
  <1> QED
    BY <1>1, <1>2, <1>3, <1>10, Unfolded

\* The pipeline is run again, or is not.
LEMMA SeedKeeps ==
  ASSUME RerunInv, NEW how \in RerunMode \cup {"all"}, NEW f \in Runs, NEW H \in Graphs, Seed(how, f, H),
         Blank(H), Live(H),
         how = "SPECIFIC_RUN" => (\A r \in Runs : f \notin H[r].made_of) /\ Children(H, f) = {} /\ H[f].state # "RAN",
         ~ TakesTwice => Shaped(H) /\ (graph[Root].state = "RESOLVED" => FreshAreAlone(H))
  PROVE  RerunInv'
  <1>1. /\ stage \in {"original", "over"} /\ stage' = "rerun" /\ mode' = how /\ from' = f /\ graph' = H
        /\ original' = graph /\ called' = called /\ again' = again
    BY DEF Seed
  <1>2. PICK G, og, cl, ag, was, x, stg :
          G = graph /\ og = original /\ cl = called /\ ag = again /\ was = mode /\ x = from /\ stg = stage
    OBVIOUS
  <1>3. InvOf(G, stg, was, x, og, cl, ag)
    BY <1>2, Unfolded
  <1>4. stg \in {"original", "over"}
    BY <1>1, <1>2
  <1>5. how = "SPECIFIC_RUN" => RenewedOf(H, f, cl)
    BY DEF RenewedOf
  <1>6. ~ TakesTwice => Shaped(H) /\ (G[Root].state = "RESOLVED" => FreshAreAlone(H))
    BY <1>2
  <1>7. InvOf(H, "rerun", how, f, G, cl, ag)
    BY <1>3, <1>4, <1>5, <1>6, RerunBegins
  <1> QED
    BY <1>1, <1>2, <1>7, Unfolded

LEMMA RefuseKeeps ==
  ASSUME RerunInv, NEW how \in RerunMode, Refuse(how)
  PROVE  RerunInv'
  <1>1. /\ stage \in {"original", "over"} /\ stage' = "refused" /\ mode' = how /\ from' = Root /\ graph' = graph
        /\ original' = original /\ called' = called /\ again' = again
    BY DEF Refuse
  <1>2. PICK G, og, cl, ag, was, x, stg :
          G = graph /\ og = original /\ cl = called /\ ag = again /\ was = mode /\ x = from /\ stg = stage
    OBVIOUS
  <1>3. InvOf(G, stg, was, x, og, cl, ag)
    BY <1>2, Unfolded
  <1>4. stg \in {"original", "over"} /\ Root \in Runs
    BY <1>1, <1>2, RunsFinite
  <1>5. InvOf(G, "refused", how, Root, og, cl, ag)
    BY <1>3, <1>4 DEF InvOf
  <1> QED
    BY <1>1, <1>2, <1>5, Unfolded

\* What is known of the runs that are cloned.
LEMMA Clonable ==
  ASSUME RerunInv, stage \in {"original", "over"}
  PROVE  graph \in Graphs /\ Blank(graph) /\ Shaped(graph) /\ Executed(graph)
  BY DEF RerunInv, TypeOK

LEMMA RerunAllKeeps ==
  ASSUME RerunInv, RerunAll
  PROVE  RerunInv'
  <1>1. Seed("all", Root, Fresh) /\ Root \in Runs /\ "all" \in RerunMode \cup {"all"}
    BY RunsFinite DEF RerunAll, Fresh
  <1> QED
    BY <1>1, FreshGraph, SeedKeeps

LEMMA RerunFromKeeps ==
  ASSUME RerunInv, NEW r \in Runs, RerunFrom(r)
  PROVE  RerunInv'
  <1>1. r \in Made(graph) /\ Seed("SPECIFIC_RUN", r, CloneFrom(graph, r)) /\ stage \in {"original", "over"}
    BY DEF RerunFrom, Seed
  <1>2. PICK G, C : G = graph /\ C = CloneFrom(G, r)
    OBVIOUS
  <1>3. G \in Graphs /\ Blank(G) /\ Shaped(G) /\ Executed(G) /\ r \in Made(G)
    BY <1>1, <1>2, Clonable
  <1>4. /\ C \in Graphs /\ Blank(C) /\ Live(C)
        /\ \A q \in Runs : r \notin C[q].made_of
        /\ Children(C, r) = {} /\ C[r].state # "RAN"
    BY <1>2, <1>3, CloneIsRenewed
  <1>5. ~ TakesTwice => Shaped(C) /\ (graph[Root].state = "RESOLVED" => FreshAreAlone(C))
    BY <1>2, <1>3, CloneFromIsSound
  <1>6. Seed("SPECIFIC_RUN", r, C) /\ "SPECIFIC_RUN" \in RerunMode \cup {"all"}
    BY <1>1, <1>2 DEF RerunMode
  <1> QED
    BY <1>4, <1>5, <1>6, SeedKeeps

LEMMA ContinueKeeps ==
  ASSUME RerunInv, Continue
  PROVE  RerunInv'
  <1>1. CASE Refuse("CONTINUE")
    BY <1>1, RefuseKeeps DEF RerunMode
  <1>2. CASE /\ AllSorted
             /\ Seed("CONTINUE", Root, Clone(graph, Made(graph) \cap ToSet(ByReverseExecution(graph)), ResetUnfinished(graph)))
    <2>1. stage \in {"original", "over"}
      BY <1>2 DEF Seed
    <2>2. PICK G : G = graph
      OBVIOUS
    <2>3. G \in Graphs /\ Blank(G) /\ Shaped(G) /\ Executed(G)
      BY <2>1, <2>2, Clonable
    <2>4. PICK runs, reset, C : /\ runs = Made(G) \cap ToSet(ByReverseExecution(G)) /\ reset = ResetUnfinished(G)
                                /\ C = Clone(G, runs, reset)
      OBVIOUS
    <2>5. C \in Graphs /\ Blank(C) /\ Live(C)
      <3>1. reset \in SUBSET Runs
        <4>1. ToSet(ByExecution(G)) = Made(G) /\ Made(G) \subseteq Runs
          BY <1>2, <2>2, <2>3, GraphSteps DEF AllSorted
        <4> QED
          BY <2>4, <4>1 DEF ResetUnfinished
      <3> QED
        BY <2>3, <2>4, <3>1, ClonesTyped
    <2>6. ~ TakesTwice => Shaped(C) /\ (graph[Root].state = "RESOLVED" => FreshAreAlone(C))
      BY <2>2, <2>3, <2>4, CloneOfAllIsSound
    <2>7. Seed("CONTINUE", Root, C) /\ Root \in Runs /\ "CONTINUE" \in RerunMode \cup {"all"} /\ "CONTINUE" # "SPECIFIC_RUN"
      BY <1>2, <2>2, <2>4, RunsFinite DEF RerunMode
    <2> QED
      BY <2>5, <2>6, <2>7, SeedKeeps
  <1> QED
    BY <1>1, <1>2 DEF Continue

LEMMA ReenterKeeps ==
  ASSUME RerunInv, Reenter
  PROVE  RerunInv'
  <1>1. CASE Refuse("REENTER")
    BY <1>1, RefuseKeeps DEF RerunMode
  <1>2. CASE Seed("REENTER", Root, [r \in Runs |-> IF r \in ToSet(ByReverseExecution(graph)) THEN graph[r] ELSE NoRuns])
    <2>1. stage = "original" /\ ~ IsTerminal(graph[Root].state)
      BY DEF Reenter
    <2>2. PICK G, found, C : /\ G = graph /\ found = ToSet(ByReverseExecution(G))
                             /\ C = [r \in Runs |-> IF r \in found THEN G[r] ELSE NoRuns]
      OBVIOUS
    <2>3. G \in Graphs /\ Blank(G) /\ Shaped(G) /\ Executed(G) /\ Live(G)
      BY <2>1, <2>2, Clonable DEF RerunInv
    <2>4. G[Root].state # "RESOLVED"
      BY <2>1, <2>2 DEF IsTerminal, TerminalStates
    <2>5. Fresh \in Graphs /\ [r \in Runs |-> NoRuns] \in Graphs
      BY FreshGraph
    <2>6. \A r \in Runs : C[r] = G[r] \/ C[r] = NoRuns
      BY <2>2
    <2>7. C \in Graphs
      <3> DEFINE Entry == [state : FutureState \cup {"NONE"}, parent : Runs \cup {NoRun}, nested : Runs \cup {NoRun},
                           args : Seq(Runs), made_of : SUBSET Runs]
      <3>1. G \in [Runs -> Entry] /\ [r \in Runs |-> NoRuns] \in [Runs -> Entry]
        BY <2>3, <2>5 DEF Graphs
      <3> HIDE DEF Entry
      <3>2. \A r \in Runs : G[r] \in Entry /\ NoRuns \in Entry
        BY <3>1
      <3>3. C \in [Runs -> Entry]
        BY <2>2, <3>2
      <3> QED
        BY <3>3 DEF Graphs, Entry
    <2>8. NoRuns.state = "NONE"
      BY DEF NoRuns
    <2>9. \A r \in Made(C) : r \in Made(G) /\ C[r] = G[r]
      BY <2>6, <2>8 DEF Made
    <2>10. Blank(C)
      <3> SUFFICES ASSUME NEW r \in Runs \ Made(C) PROVE C[r] = NoRuns
        BY DEF Blank
      <3>1. CASE C[r] = G[r]
        BY <2>3, <3>1 DEF Made, Blank
      <3> QED
        BY <2>6, <3>1
    <2>11. Live(C)
      BY <2>3, <2>9 DEF Live
    <2>12. ASSUME ~ TakesTwice PROVE Shaped(C)
      <3>1. found = Made(G)
        BY <2>2, <2>3, <2>12, AllSortedBothWays
      <3>2. \A r \in Runs : C[r] = G[r]
        BY <2>2, <2>3, <3>1 DEF Blank
      <3>3. C = G
        BY <2>2, <2>3, <3>2 DEF Graphs
      <3> QED
        BY <2>3, <3>3
    <2>13. ~ TakesTwice => Shaped(C) /\ (graph[Root].state = "RESOLVED" => FreshAreAlone(C))
      BY <2>2, <2>4, <2>12
    <2>14. Seed("REENTER", Root, C) /\ Root \in Runs /\ "REENTER" \in RerunMode \cup {"all"} /\ "REENTER" # "SPECIFIC_RUN"
      BY <1>2, <2>2, RunsFinite DEF RerunMode
    <2> QED
      BY <2>7, <2>10, <2>11, <2>13, <2>14, SeedKeeps
  <1> QED
    BY <1>1, <1>2 DEF Reenter

LEMMA RerunInvariant == Spec => []RerunInv
  <1>1. RerunInv /\ [Next]_vars => RerunInv'
    <2> SUFFICES ASSUME RerunInv, [Next]_vars PROVE RerunInv'
      OBVIOUS
    <2>1. ASSUME NEW r \in Runs, ReturnsValue(r) \/ ReturnsFutures(r) \/ Bubbles(r) PROVE RerunInv'
      BY <2>1, ReturnsValueKeeps, ReturnsFuturesKeeps, BubblesKeeps
    <2>2. ASSUME NEW r \in Runs, Raises(r) PROVE RerunInv'
      BY <2>2, RaisesKeeps
    <2>3. CASE Cancel
      BY <2>3, CancelKeeps
    <2>4. CASE RerunAll
      BY <2>4, RerunAllKeeps
    <2>5. CASE Continue
      BY <2>5, ContinueKeeps
    <2>6. CASE Reenter
      BY <2>6, ReenterKeeps
    <2>7. ASSUME NEW r \in Runs, RerunFrom(r) PROVE RerunInv'
      BY <2>7, RerunFromKeeps
    <2>8. CASE UNCHANGED vars
      BY <2>8, Unfolded DEF vars
    <2> QED
      BY <2>1, <2>2, <2>3, <2>4, <2>5, <2>6, <2>7, <2>8 DEF Next, Run
  <1> QED
    BY <1>1, RerunStarts, PTL DEF Spec

-----------------------------------------------------------------------------
(* The theorems.                                                              *)

\* A rerun from a run has no value that the original call of that run's
\* function had a part in: what clone_futures resets and leaves out is enough,
\* whatever the shape of the graph, and whatever the order that it finds.
THEOREM NothingStaleAlways == Spec => []NothingStale
  <1>1. RerunInv => NothingStale
    <2> SUFFICES ASSUME RerunInv, stage = "rerun", mode = "SPECIFIC_RUN", NEW r \in Made(graph)
                 PROVE  from \notin graph[r].made_of
      BY DEF NothingStale
    <2>1. r \in Runs
      BY DEF Made
    <2> QED
      BY <2>1 DEF RerunInv, Renewed
  <1> QED
    BY <1>1, RerunInvariant, PTL

\* If no function is given a future twice, the layers of the graph of runs are
\* put in topological orders by both run sorters.
THEOREM LayersAreSortedAlways ==
  ASSUME ~ TakesTwice
  PROVE  Spec => []LayersAreSorted
  <1>1. RerunInv => LayersAreSorted
    <2> SUFFICES ASSUME RerunInv, stage \in {"original", "over"}, NEW p \in Runs
                 PROVE  LET layer == Children(graph, p) IN
                        /\ IsTopologicalOrder(ExecutionOrder(graph, layer), [r \in layer |-> graph[r].args])
                        /\ IsTopologicalOrder(ReverseExecutionOrder(graph, layer), [r \in layer |-> Destinations(graph, r)])
      BY DEF LayersAreSorted
    <2>1. PICK G : G = graph
      OBVIOUS
    <2>2. G \in Graphs /\ Shaped(G)
      BY <2>1, Clonable
    <2>3. PICK layer : layer = Children(G, p)
      OBVIOUS
    <2>4. /\ IsTopologicalOrder(ExecutionOrder(G, layer), [r \in layer |-> G[r].args])
          /\ IsTopologicalOrder(ReverseExecutionOrder(G, layer), [r \in layer |-> Destinations(G, r)])
      BY <2>2, <2>3, ExecutionOrdered, ReverseOrdered
    <2> QED
      BY <2>1, <2>3, <2>4
  <1> QED
    BY <1>1, RerunInvariant, PTL

\* If no function is given a future twice, a rerun starts with, and keeps, a
\* graph that makes sense to the runner: clone_futures leaves nothing out that
\* a clone takes, belongs to or waits for.
THEOREM GraphIsClosedAlways ==
  ASSUME ~ TakesTwice
  PROVE  Spec => []GraphIsClosed
  <1>1. RerunInv => GraphIsClosed
    <2> SUFFICES ASSUME RerunInv, stage = "rerun"
                 PROVE  /\ graph[Root].state # "NONE"
                        /\ \A r \in Made(graph) :
                             /\ ArgsOf(graph, r) \cup ({graph[r].parent} \ {NoRun}) \subseteq Made(graph)
                             /\ graph[r].state = "RAN" => graph[r].nested \in Made(graph)
      BY DEF GraphIsClosed
    <2>1. PICK G : G = graph
      OBVIOUS
    <2>2. Shaped(G) /\ Live(G)
      BY <2>1 DEF RerunInv
    <2>3. G[Root].state # "NONE"
      BY <2>2 DEF Shaped, Made
    <2>4. ASSUME NEW r \in Made(G)
          PROVE  /\ ArgsOf(G, r) \cup ({G[r].parent} \ {NoRun}) \subseteq Made(G)
                 /\ G[r].state = "RAN" => G[r].nested \in Made(G)
      <3>1. ArgsOf(G, r) \subseteq Made(G)
        BY <2>2 DEF Shaped
      <3>2. {G[r].parent} \ {NoRun} \subseteq Made(G)
        BY <2>2 DEF Shaped
      <3>3. G[r].nested \in Children(G, r) \cup {NoRun} /\ (G[r].state = "RAN" => G[r].nested # NoRun)
        BY <2>2 DEF Shaped, Live
      <3> QED
        BY <3>1, <3>2, <3>3 DEF Children
    <2> QED
      BY <2>1, <2>3, <2>4
  <1> QED
    BY <1>1, RerunInvariant, PTL

\* If no function is given a future twice, the rerun of a pipeline that
\* succeeded makes no future that it has: a function whose clone is CREATED
\* has none of its futures among the clones.
THEOREM NothingTwiceAlways ==
  ASSUME ~ TakesTwice
  PROVE  Spec => []NothingTwice
  <1>1. RerunInv => NothingTwice
    BY DEF RerunInv, NothingTwice
  <1> QED
    BY <1>1, RerunInvariant, PTL

\* What is not resolved either has what it waits for, or waits for what is not
\* resolved either, and is earlier in its layer or in a later layer: some run
\* does not wait.
LEMMA SomethingToDo ==
  ASSUME NEW G \in Graphs, Shaped(G), Live(G), G[Root].state # "RESOLVED"
  PROVE  \E r \in Runs :
           \/ G[r].state = "CREATED" /\ \A a \in ArgsOf(G, r) : G[a].state = "RESOLVED"
           \/ G[r].state = "RAN" /\ G[G[r].nested].state = "RESOLVED"
  <1> DEFINE U == {r \in Made(G) : G[r].state # "RESOLVED"}
             P == {G[r].parent : r \in U}
  <1>1. Made(G) \subseteq Runs /\ Runs \subseteq Nat /\ NoRun \notin Runs /\ NoRun = 0 /\ Root \in U
    BY GraphSteps, RunsFinite DEF Shaped, NoRun
  <1>2. \A r \in U : G[r].parent \in Runs \cup {NoRun} /\ G[r].parent < r
    <2> SUFFICES ASSUME NEW r \in U PROVE G[r].parent \in Runs \cup {NoRun} /\ G[r].parent < r
      OBVIOUS
    <2>1. CASE r = Root
      <3>1. G[r].parent = 0 /\ r = 1
        BY <1>1, <2>1 DEF Shaped, Root
      <3> QED
        BY <1>1, <3>1
    <2>2. CASE r # Root
      BY <1>1, <2>2 DEF Shaped
    <2> QED
      BY <2>1, <2>2
  <1>3. PICK p \in P : \A q \in P : p >= q
    <2>1. P \subseteq Runs \cup {NoRun} /\ P # {}
      BY <1>1, <1>2
    <2> HIDE DEF P
    <2>2. CASE P \cap Runs = {}
      <3>1. PICK q \in P : q = 0
        BY <1>1, <2>1, <2>2
      <3>2. \A k \in P : k = 0
        BY <1>1, <2>1, <2>2
      <3> QED
        BY <3>1, <3>2
    <2>3. CASE P \cap Runs # {}
      <3>1. PICK m \in P \cap Runs : \A k \in P \cap Runs : m >= k
        <4>1. P \cap Runs \in SUBSET Runs
          OBVIOUS
        <4> QED
          BY <2>3, <4>1, LastRun
      <3>2. m \in Nat /\ m >= 0 /\ m \in P
        <4>1. m \in P /\ m \in Runs
          OBVIOUS
        <4>2. m \in Nat
          BY <1>1, <4>1
        <4> QED
          BY <4>1, <4>2
      <3>3. ASSUME NEW q \in P PROVE m >= q
        <4>1. CASE q \in Runs
          BY <3>1, <4>1
        <4>2. CASE q = 0
          BY <3>2, <4>2
        <4> QED
          BY <1>1, <2>1, <4>1, <4>2
      <3> QED
        BY <3>2, <3>3
    <2> QED
      BY <2>2, <2>3
  <1> DEFINE W == {r \in U : G[r].parent = p}
  <1>4. PICK w \in W : \A k \in W : w <= k
    <2>1. W \in SUBSET Runs /\ W # {}
      BY <1>1, <1>3
    <2> HIDE DEF W
    <2> QED
      BY <2>1, FirstRun
  <1>5. w \in Made(G) /\ w \in Runs /\ w \in Nat /\ G[w].parent = p /\ G[w].state # "RESOLVED" /\ p < w
    BY <1>1, <1>2, <1>4
  <1>6. G[w].state \in {"CREATED", "RAN"} /\ (G[w].state = "RAN" => G[w].nested # NoRun)
    BY <1>5 DEF Live
  <1>7. \A a \in ArgsOf(G, w) : G[a].state = "RESOLVED"
    <2> SUFFICES ASSUME NEW a \in ArgsOf(G, w), G[a].state # "RESOLVED" PROVE FALSE
      OBVIOUS
    <2>1. a \in Made(G) /\ a < w /\ G[a].parent = p
      BY <1>5 DEF Shaped
    <2>2. a \in W /\ a \in Nat
      BY <1>1, <2>1
    <2> QED
      BY <1>4, <1>5, <2>1, <2>2
  <1>8. ASSUME G[w].state = "RAN" PROVE G[G[w].nested].state = "RESOLVED"
    <2> SUFFICES ASSUME G[G[w].nested].state # "RESOLVED" PROVE FALSE
      OBVIOUS
    <2>1. G[w].nested \in Children(G, w)
      BY <1>5, <1>6, <1>8 DEF Shaped
    <2>2. G[w].nested \in U /\ G[G[w].nested].parent = w
      BY <2>1 DEF Children
    <2>3. w \in P
      BY <2>2
    <2>4. p \in Nat
      <3>1. p \in Runs \cup {NoRun}
        BY <1>2, <1>3
      <3> QED
        BY <1>1, <3>1
    <2> QED
      BY <1>3, <1>5, <2>3, <2>4
  <1> QED
    BY <1>5, <1>6, <1>7, <1>8

\* If no function is given a future twice, the runner of a rerun has something
\* to do until the root is resolved: no clone waits for ever.
THEOREM RerunGoesOnAlways ==
  ASSUME ~ TakesTwice
  PROVE  Spec => []RerunGoesOn
  <1>1. RerunInv => RerunGoesOn
    <2> SUFFICES ASSUME RerunInv, stage = "rerun", graph[Root].state # "RESOLVED"
                 PROVE  \E r \in Runs :
                          \/ Executable(r)
                          \/ graph[r].state = "RAN" /\ graph[graph[r].nested].state = "RESOLVED"
      BY DEF RerunGoesOn
    <2>1. PICK G : G = graph
      OBVIOUS
    <2>2. G \in Graphs /\ Shaped(G) /\ Live(G) /\ G[Root].state # "RESOLVED"
      BY <2>1 DEF RerunInv, TypeOK
    <2>3. PICK r \in Runs : \/ G[r].state = "CREATED" /\ \A a \in ArgsOf(G, r) : G[a].state = "RESOLVED"
                            \/ G[r].state = "RAN" /\ G[G[r].nested].state = "RESOLVED"
      BY <2>2, SomethingToDo
    <2> QED
      BY <2>1, <2>3 DEF Executable
  <1> QED
    BY <1>1, RerunInvariant, PTL
=============================================================================
