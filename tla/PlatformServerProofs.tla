------------------------- MODULE PlatformServerProofs -------------------------
(***************************************************************************)
(* Theorems about what the server lists and counts, in the composition     *)
(* that the run checks: there x1 to x9 stand for the variables of each     *)
(* part.                                                                   *)
(*   Listing      x1 rows     x2 asked      x3 loads     x4 cache          *)
(*                x5 page     x6 broken     x7 patient   x8 began          *)
(*                x9 reply                                                 *)
(*   Metrics      x1 runTable x2 jobsLeft   x3 labelRows x4 valueRows      *)
(*                x5 serving  x6 sent       x7 overlapped x8 uncounted     *)
(***************************************************************************)
EXTENDS MCPlatform, FiniteSetTheorems, SequenceTheorems, TLAPS

-----------------------------------------------------------------------------
(* The list of runs.                                                          *)

\* Counting is the same in all modules.
LEMMA ListCount == \A R : L!Cardinality(R) = Cardinality(R)
  BY DEF L!Cardinality, Cardinality

\* Counted from the top, the elements of a finite set of numbers are its first, second ...
LEMMA Ranked ==
  ASSUME NEW X \in SUBSET Nat, IsFiniteSet(X)
  PROVE  \E s \in [1 .. Cardinality(X) -> X] : \A m, n \in 1 .. Cardinality(X) : m < n => s[m] > s[n]
  <1> DEFINE n == Cardinality(X)
             Above(x) == {y \in X : y >= x}
             Rank(x) == Cardinality(Above(x))
             r == [x \in X |-> Rank(x)]
  <1>1. n \in Nat /\ IsFiniteSet(1 .. n) /\ Cardinality(1 .. n) = n
    BY FS_CardinalityType, FS_Interval
  <1>2. ASSUME NEW x \in X PROVE Rank(x) \in 1 .. n /\ IsFiniteSet(Above(x))
    <2>1. Above(x) \in SUBSET X /\ x \in Above(x)
      OBVIOUS
    <2>2. IsFiniteSet(Above(x)) /\ Cardinality(Above(x)) <= n
      BY <2>1, FS_Subset
    <2>3. Cardinality(Above(x)) \in Nat /\ Cardinality(Above(x)) # 0
      BY <2>1, <2>2, FS_EmptySet, FS_CardinalityType
    <2> QED
      BY <1>1, <2>2, <2>3
  <1>3. ASSUME NEW x \in X, NEW y \in X, x < y PROVE Rank(y) < Rank(x)
    <2>1. Above(y) \in SUBSET Above(x) /\ Above(y) # Above(x)
      <3>1. x \in Nat /\ y \in Nat
        OBVIOUS
      <3>2. \A z \in X : z \in Nat /\ (z >= y => z >= x)
        BY <1>3, <3>1
      <3>3. x \in Above(x) /\ x \notin Above(y)
        BY <1>3, <3>1
      <3> QED
        BY <3>2, <3>3
    <2>2. IsFiniteSet(Above(x))
      BY <1>2
    <2>3. Cardinality(Above(y)) <= Cardinality(Above(x)) /\ Cardinality(Above(y)) # Cardinality(Above(x))
      BY <2>1, <2>2, FS_Subset
    <2>4. Rank(x) \in 1 .. n /\ Rank(y) \in 1 .. n
      BY <1>2
    <2> HIDE DEF Above, n
    <2> QED
      BY <1>1, <2>3, <2>4
  <1> HIDE DEF Rank, n
  <1>4. r \in [X -> 1 .. n] /\ \A x, y \in X : r[x] = r[y] => x = y
    <2>1. ASSUME NEW x \in X, NEW y \in X, Rank(x) = Rank(y) PROVE x = y
      <3>1. x \in Nat /\ y \in Nat /\ Rank(x) \in 1 .. n
        BY <1>2
      <3>2. ~ (x < y) /\ ~ (y < x)
        BY <1>1, <1>3, <2>1, <3>1
      <3> QED
        BY <3>1, <3>2
    <2> QED
      BY <1>2, <2>1
  <1>5. r \in Injection(X, 1 .. n)
    BY <1>4 DEF Injection, IsInjective
  <1>6. r \in Surjection(X, 1 .. n)
    <2>1. Cardinality(X) = Cardinality(1 .. n)
      BY <1>1 DEF n
    <2> QED
      BY <1>1, <1>5, <2>1, FS_Injection
  <1>7. \A m \in 1 .. n : \E x \in X : Rank(x) = m
    BY <1>6 DEF Surjection
  <1> DEFINE s == [m \in 1 .. n |-> CHOOSE x \in X : Rank(x) = m]
  <1>8. \A m \in 1 .. n : s[m] \in X /\ Rank(s[m]) = m
    BY <1>7
  <1> HIDE DEF r
  <1>9. s \in [1 .. n -> X]
    BY <1>8
  <1>10. ASSUME NEW a \in 1 .. n, NEW b \in 1 .. n, a < b PROVE s[a] > s[b]
    <2> HIDE DEF s
    <2>1. s[a] \in X /\ s[b] \in X /\ Rank(s[a]) = a /\ Rank(s[b]) = b
      BY <1>8
    <2>2. s[a] # s[b]
      BY <1>1, <1>10, <2>1
    <2>3. ~ (s[a] < s[b])
      <3> SUFFICES ASSUME s[a] < s[b] PROVE FALSE
        OBVIOUS
      <3>1. Rank(s[b]) < Rank(s[a])
        BY <1>3, <2>1
      <3>2. b < a
        BY <2>1, <3>1
      <3> QED
        BY <1>1, <1>10, <3>2
    <2>4. s[a] \in Nat /\ s[b] \in Nat
      BY <2>1
    <2> QED
      BY <2>2, <2>3, <2>4
  <1> QED
    BY <1>9, <1>10 DEF n

\* The rows that a query orders: each of them, in that order.
LEMMA SortedFacts ==
  ASSUME NEW X \in SUBSET Nat, IsFiniteSet(X), NEW order, NEW s, s = L!Sorted(X, order)
  PROVE  /\ s \in Seq(X) /\ Len(s) = Cardinality(X)
         /\ L!ToSet(s) = X
         /\ order = "desc" => L!Descending(s)
  <1> DEFINE n == Cardinality(X)
             Before(i, j) == IF order = "desc" THEN i > j ELSE i < j
             Ordered == {t \in [1 .. n -> X] : \A a, b \in DOMAIN t : a < b => Before(t[a], t[b])}
  <1>1. n \in Nat /\ IsFiniteSet(1 .. n) /\ Cardinality(1 .. n) = n
    BY FS_CardinalityType, FS_Interval
  <1>2. PICK d \in [1 .. n -> X] : \A a, b \in 1 .. n : a < b => d[a] > d[b]
    BY Ranked
  <1> HIDE DEF n
  <1>3. Ordered # {}
    <2>1. CASE order = "desc"
      <3>1. d \in Ordered
        BY <1>2, <2>1
      <3> QED
        BY <3>1
    <2>2. CASE order # "desc"
      <3> DEFINE u == [a \in 1 .. n |-> d[n + 1 - a]]
      <3>1. \A a \in 1 .. n : n + 1 - a \in 1 .. n
        BY <1>1
      <3>2. u \in [1 .. n -> X]
        BY <1>2, <3>1
      <3>3. ASSUME NEW a \in 1 .. n, NEW b \in 1 .. n, a < b PROVE u[a] < u[b]
        <4>1. n + 1 - a \in 1 .. n /\ n + 1 - b \in 1 .. n /\ n + 1 - b < n + 1 - a
          BY <1>1, <3>1, <3>3
        <4>2. d[n + 1 - b] > d[n + 1 - a]
          BY <1>2, <4>1
        <4>3. d[n + 1 - a] \in Nat /\ d[n + 1 - b] \in Nat
          BY <1>2, <4>1
        <4> QED
          BY <4>2, <4>3
      <3> HIDE DEF u
      <3>4. u \in Ordered
        BY <2>2, <3>2, <3>3
      <3> QED
        BY <3>4
    <2> QED
      BY <2>1, <2>2
  <1>4. s = CHOOSE t \in [1 .. n -> X] : \A a, b \in DOMAIN t : a < b => Before(t[a], t[b])
    BY ListCount DEF L!Sorted, n
  <1>5. s \in Ordered
    BY <1>3, <1>4, Zenon
  <1>6. s \in [1 .. n -> X] /\ \A a, b \in 1 .. n : a < b => Before(s[a], s[b])
    BY <1>5
  <1> HIDE DEF Ordered
  <1>7. \A a, b \in 1 .. n : s[a] = s[b] => a = b
    <2> SUFFICES ASSUME NEW a \in 1 .. n, NEW b \in 1 .. n, s[a] = s[b], a # b PROVE FALSE
      OBVIOUS
    <2>1. s[a] \in Nat /\ s[b] \in Nat
      BY <1>6
    <2>2. CASE a < b
      BY <1>6, <2>1, <2>2
    <2>3. CASE b < a
      BY <1>6, <2>1, <2>3
    <2> QED
      BY <1>1, <2>2, <2>3
  <1>8. s \in Surjection(1 .. n, X)
    <2>1. s \in Injection(1 .. n, X)
      BY <1>6, <1>7 DEF Injection, IsInjective
    <2>2. Cardinality(1 .. n) = Cardinality(X)
      BY <1>1 DEF n
    <2> QED
      BY <2>1, <2>2, FS_Injection
  <1>9. s \in Seq(X) /\ Len(s) = n /\ DOMAIN s = 1 .. n
    BY <1>1, <1>6
  <1>10. L!ToSet(s) = X
    BY <1>6, <1>8, <1>9 DEF L!ToSet, Surjection
  <1>11. order = "desc" => L!Descending(s)
    BY <1>6, <1>9 DEF L!Descending
  <1> QED
    BY <1>9, <1>10, <1>11 DEF n

\* A page of them: nothing that is not on it comes before its last.
LEMMA PageFacts ==
  ASSUME NEW X \in SUBSET Nat, IsFiniteSet(X), NEW order, NEW limit \in Int,
         NEW s, s = L!Limited(L!Sorted(X, order), limit)
  PROVE  /\ s \in Seq(X) /\ L!ToSet(s) \subseteq X
         /\ order = "desc" =>
              /\ L!Descending(s)
              /\ limit > 0 => \A i \in X \ L!ToSet(s) : Len(s) = limit /\ i < L!Last(s)
  <1> DEFINE t == L!Sorted(X, order)
  <1>1. /\ t \in Seq(X) /\ L!ToSet(t) = X
        /\ order = "desc" => L!Descending(t)
    BY SortedFacts
  <1> HIDE DEF t
  <1>2. Len(t) \in Nat /\ DOMAIN t = 1 .. Len(t) /\ t \in [1 .. Len(t) -> X]
    BY <1>1
  <1>3. CASE limit < 1 \/ limit > Len(t)
    <2>1. s = t
      BY <1>3 DEF L!Limited, t
    <2> QED
      BY <1>1, <2>1
  <1>4. CASE ~ (limit < 1 \/ limit > Len(t))
    <2>1. s = SubSeq(t, 1, limit) /\ limit \in 1 .. Len(t)
      BY <1>2, <1>4 DEF L!Limited, t
    <2>2. /\ s \in Seq(X) /\ Len(s) = limit /\ DOMAIN s = 1 .. limit
          /\ \A a \in 1 .. limit : s[a] = t[a]
      BY <1>1, <1>2, <2>1
    <2>3. L!ToSet(s) \subseteq X
      BY <2>2 DEF L!ToSet
    <2>4. ASSUME order = "desc" PROVE L!Descending(s)
      BY <1>1, <1>2, <2>1, <2>2, <2>4 DEF L!Descending
    <2>5. ASSUME order = "desc", NEW i \in X \ L!ToSet(s)
          PROVE  i < L!Last(s)
      <3>1. PICK a \in 1 .. Len(t) : t[a] = i
        BY <1>1, <1>2 DEF L!ToSet
      <3>2. ~ (a <= limit)
        <4>1. a <= limit => a \in DOMAIN s /\ s[a] = i
          BY <1>2, <2>2, <3>1
        <4> QED
          BY <2>5, <4>1 DEF L!ToSet
      <3>3. limit < a /\ limit \in 1 .. Len(t)
        BY <1>2, <2>1, <3>2
      <3>4. t[limit] > t[a]
        BY <1>1, <1>2, <2>5, <3>3 DEF L!Descending
      <3>5. L!Last(s) = t[limit]
        BY <2>1, <2>2 DEF L!Last
      <3>6. t[limit] \in Nat /\ t[a] \in Nat
        BY <1>2, <2>1
      <3> QED
        BY <3>1, <3>4, <3>5, <3>6
    <2> QED
      BY <2>2, <2>3, <2>4, <2>5
  <1> QED
    BY <1>3, <1>4

\* What the filters say of a run depends on the runs alone ...
LEMMA SameRows ==
  ASSUME UNCHANGED x1
  PROVE  \A f, i : L!Satisfies(f, i)' = L!Satisfies(f, i)
  <1>1. \A i, c : L!Column(i, c)' = L!Column(i, c)
    BY DEF L!Column
  <1>2. \A i : L!Root(i)' = L!Root(i) /\ L!OrphanedJob(i)' = L!OrphanedJob(i)
    BY DEF L!Root, L!OrphanedJob
  <1>3. \A c, i : L!Holds(c, i)' = L!Holds(c, i)
    BY <1>1, <1>2 DEF L!Holds
  <1> QED
    BY <1>3 DEF L!Satisfies

\* ... and where it does not depend on their states, on what they were created with.
LEMMA LastingFits ==
  ASSUME x2 \in L!Lists, L!Lasting, NEW i,
         x1'[i].path = x1[i].path, x1'[i].parent = x1[i].parent, NEW f, f = x2.filters
  PROVE  L!Satisfies(f, i)' <=> L!Satisfies(f, i)
  <1>1. \/ f = L!All(<<>>)
        \/ f = L!All(<<L!Condition("function_path", "eq", "f"), L!RootsOnly>>)
    <2>1. L!InStates({"RESOLVED"}).column = "future_state"
      BY DEF L!InStates, L!Condition
    <2>2. x2.filters # L!All(<<L!InStates({"RESOLVED"})>>)
      BY <2>1 DEF L!Lasting, L!Settled, L!All
    <2> QED
      BY <2>2 DEF L!Lists, L!Lasting
  <1>2. CASE f = L!All(<<>>)
    BY <1>2 DEF L!All, L!Satisfies
  <1>3. CASE f = L!All(<<L!Condition("function_path", "eq", "f"), L!RootsOnly>>)
    <2> DEFINE of == <<L!Condition("function_path", "eq", "f"), L!RootsOnly>>
    <2>1. L!Column(i, "function_path") = x1[i].path /\ L!Column(i, "parent_id") = x1[i].parent
      BY DEF L!Column
    <2>2. L!Column(i, "function_path")' = x1'[i].path /\ L!Column(i, "parent_id")' = x1'[i].parent
      BY DEF L!Column
    <2>3. /\ L!Holds(of[1], i) <=> x1[i].path = "f"
          /\ L!Holds(of[2], i) <=> x1[i].parent = 0
      BY <2>1 DEF L!Holds, L!Condition, L!RootsOnly, L!Relationships, L!GarbageFilters
    <2>4. /\ L!Holds(of[1], i)' <=> x1'[i].path = "f"
          /\ L!Holds(of[2], i)' <=> x1'[i].parent = 0
      BY <2>2 DEF L!Holds, L!Condition, L!RootsOnly, L!Relationships, L!GarbageFilters
    <2>5. f.of = of /\ f.how = "AND" /\ DOMAIN of = {1, 2}
      BY <1>3 DEF L!All
    <2> HIDE DEF of
    <2>6. \A n \in DOMAIN f.of : L!Holds(f.of[n], i)' <=> L!Holds(f.of[n], i)
      BY <2>3, <2>4, <2>5
    <2> QED
      BY <2>5, <2>6 DEF L!Satisfies
  <1> QED
    BY <1>1, <1>2, <1>3

\* The request of a page.
LEMMA RequestFacts ==
  ASSUME NEW l, NEW req, req = L!RequestOf(l)
  PROVE  /\ req.limit = PageSize /\ req.order = "desc" /\ req.cursor = l.cursor
         /\ req.filters = x2.filters /\ (~ x2.grouped => req.group_by = "")
  BY DEF L!RequestOf, L!PlainRequest

LEMMA ChosenFacts ==
  ASSUME L!ListTyped, NEW req
  PROVE  /\ L!Chosen(req) \in SUBSET Nat /\ IsFiniteSet(L!Chosen(req))
         /\ \A i \in L!Chosen(req) : /\ i \in DOMAIN x1 /\ i \in Nat \ {0}
                                     /\ L!Satisfies(req.filters, i)
                                     /\ req.cursor # 0 => i < req.cursor
  <1>1. Len(x1) \in Nat /\ DOMAIN x1 = 1 .. Len(x1)
    BY DEF L!ListTyped
  <1>2. IsFiniteSet(1 .. Len(x1))
    BY <1>1, FS_Interval
  <1> DEFINE X == L!Chosen(req)
  <1>3. X \subseteq DOMAIN x1
    BY DEF L!Chosen
  <1>4. \A i \in X : L!Satisfies(req.filters, i) /\ (req.cursor # 0 => i < req.cursor)
    BY DEF L!Chosen
  <1> HIDE DEF X
  <1>5. X \in SUBSET (1 .. Len(x1))
    BY <1>1, <1>3
  <1>6. IsFiniteSet(X)
    BY <1>2, <1>5, FS_Subset
  <1>7. X \in SUBSET Nat /\ \A i \in X : i \in DOMAIN x1 /\ i \in Nat \ {0}
    BY <1>1, <1>5
  <1> QED
    BY <1>4, <1>6, <1>7 DEF X

\* A list that lasts chooses what fits, below the cursor.
LEMMA LastingChosen ==
  ASSUME L!Lasting, NEW l, NEW i
  PROVE  i \in L!Chosen(L!RequestOf(l)) <=> i \in L!Fits /\ (l.cursor # 0 => i < l.cursor)
  <1> DEFINE req == L!RequestOf(l)
  <1>1. req.cursor = l.cursor /\ req.filters = x2.filters /\ req.group_by = ""
    BY RequestFacts DEF L!Lasting
  <1> HIDE DEF req
  <1>2. i \in L!Chosen(req) <=> i \in L!Fits /\ (l.cursor # 0 => i < l.cursor)
    BY <1>1 DEF L!Chosen, L!Fits
  <1> QED
    BY <1>2 DEF req

LEMMA SameList ==
  ASSUME UNCHANGED <<x1, x2, x4, x8>>
  PROVE  /\ L!Lasting' = L!Lasting /\ L!Fits' = L!Fits /\ L!Shown' = L!Shown /\ L!Unseen' = L!Unseen
         /\ L!PagesInOrder' = L!PagesInOrder
         /\ \A l : /\ L!FollowsCache(l)' = L!FollowsCache(l) /\ L!BelowCursor(l)' = L!BelowCursor(l)
                   /\ L!Reaches(l)' = L!Reaches(l)
  <1>1. \A f, i : L!Satisfies(f, i)' = L!Satisfies(f, i)
    BY SameRows
  <1>2. L!Lasting' = L!Lasting
    BY DEF L!Lasting
  <1>3. L!Fits' = L!Fits
    BY <1>1 DEF L!Fits
  <1>4. L!Shown' = L!Shown /\ L!Unseen' = L!Unseen
    BY DEF L!Shown, L!Unseen
  <1>5. L!PagesInOrder' = L!PagesInOrder
    BY DEF L!PagesInOrder
  <1>6. \A l : L!FollowsCache(l)' = L!FollowsCache(l) /\ L!BelowCursor(l)' = L!BelowCursor(l)
    BY DEF L!FollowsCache, L!BelowCursor
  <1>7. ASSUME NEW l PROVE L!Reaches(l)' = L!Reaches(l)
    <2>1. L!RequestOf(l)' = L!RequestOf(l)
      BY DEF L!RequestOf
    <2>2. PICK req : req = L!RequestOf(l)
      OBVIOUS
    <2>3. \A c, i : L!Column(i, c)' = L!Column(i, c)
      BY DEF L!Column
    <2>4. \A c, i : L!NewestOfGroup(c, i)' = L!NewestOfGroup(c, i)
      BY <2>3 DEF L!NewestOfGroup
    <2>5. L!Chosen(req)' = L!Chosen(req)
      BY <1>1, <2>4 DEF L!Chosen
    <2>6. L!Chosen(L!RequestOf(l))' = L!Chosen(L!RequestOf(l))
      BY <2>1, <2>2, <2>5
    <2> QED
      BY <1>4, <2>6 DEF L!Reaches
  <1> QED
    BY <1>2, <1>3, <1>4, <1>5, <1>6, <1>7

\* Steps that only start, drop or forget a load.
Goes(F) == /\ Len(F) <= 1
           /\ \A n \in DOMAIN F : \/ \E m \in DOMAIN x3 : F[n] = x3[m]
                                  \/ ~ L!WasRead(F[n]) /\ L!FollowsCache(F[n])
Loads == [page : Nat, cursor : Int, content : Seq(Nat)]
LEMMA LoadsKeep ==
  ASSUME L!ListInv, UNCHANGED <<x1, x2, x4, x8>>, x3' \in Seq(Loads), x5' \in Nat, L!NoConditionIgnored',
         x7' => x7 /\ Goes(x3')
  PROVE  L!ListInv'
  <1>1. /\ L!Lasting' = L!Lasting /\ L!Fits' = L!Fits /\ L!Shown' = L!Shown /\ L!Unseen' = L!Unseen
        /\ L!PagesInOrder' = L!PagesInOrder
        /\ \A l : /\ L!FollowsCache(l)' = L!FollowsCache(l) /\ L!BelowCursor(l)' = L!BelowCursor(l)
                  /\ L!Reaches(l)' = L!Reaches(l)
    BY SameList
  <1>2. L!ListTyped'
    BY DEF L!ListInv, L!ListTyped, Loads
  <1>3. \A n \in DOMAIN x4' : L!EndsPage(x4'[n])
    BY DEF L!ListInv
  <1> PICK F : F = x3'
    OBVIOUS
  <1>5. x7' => x7 /\ Goes(F)
    OBVIOUS
  <1>6. \A l : L!WasRead(l)' = L!WasRead(l)
    BY DEF L!WasRead, L!NotRead
  <1>4. ASSUME x7' PROVE L!OneAtATime' /\ L!PagesInOrder' /\ (L!Lasting' => L!NothingSkipped')
    <2>1. L!OneAtATime /\ L!PagesInOrder /\ (L!Lasting => L!NothingSkipped)
      BY <1>4, <1>5 DEF L!ListInv
    <2>2. ASSUME NEW n \in DOMAIN F, L!WasRead(F[n])
          PROVE  \E m \in DOMAIN x3 : F[n] = x3[m] /\ L!WasRead(x3[m])
      BY <1>4, <1>5, <2>2 DEF Goes
    <2>3. \A n \in DOMAIN F : L!FollowsCache(F[n])
      BY <1>4, <1>5, <2>1 DEF L!OneAtATime, Goes
    <2>4. \A n \in DOMAIN F : L!WasRead(F[n]) => L!BelowCursor(F[n])
      BY <2>1, <2>2 DEF L!OneAtATime
    <2>5. L!OneAtATime'
      <3>1. \A n \in DOMAIN F : L!FollowsCache(F[n])'
        BY <1>1, <2>3
      <3>2. \A n \in DOMAIN F : L!WasRead(F[n])' => L!BelowCursor(F[n])'
        BY <1>1, <1>6, <2>4
      <3> QED
        BY <1>4, <1>5, <3>1, <3>2 DEF L!OneAtATime, Goes
    <2>6. ASSUME L!Lasting' PROVE L!NothingSkipped'
      <3>1. L!NothingSkipped
        BY <1>1, <2>1, <2>6
      <3>2. \A n \in DOMAIN F : L!WasRead(F[n]) => L!Reaches(F[n])
        BY <2>2, <3>1 DEF L!NothingSkipped
      <3>3. \A n \in DOMAIN F : L!WasRead(F[n])' => L!Reaches(F[n])'
        BY <1>1, <1>6, <3>2
      <3> QED
        BY <1>1, <3>1, <3>3 DEF L!NothingSkipped
    <2> QED
      BY <1>1, <2>1, <2>5, <2>6
  <1> QED
    BY <1>2, <1>3, <1>4 DEF L!ListInv, L!EndsPage

LEMMA NoReplyKeeps == ASSUME L!NoReply PROVE L!NoConditionIgnored'
  BY DEF L!NoReply, L!NoConditionIgnored

LEMMA RemoveFacts ==
  ASSUME NEW S, NEW s \in Seq(S), NEW n \in DOMAIN s
  PROVE  L!RemoveAt(s, n) \in Seq(S) /\ Len(L!RemoveAt(s, n)) = Len(s) - 1
  <1>1. Len(s) \in Nat /\ n \in 1 .. Len(s) /\ DOMAIN s = 1 .. Len(s)
    OBVIOUS
  <1>2. SubSeq(s, 1, n - 1) \in Seq(S) /\ Len(SubSeq(s, 1, n - 1)) = n - 1
    BY <1>1, SubSeqProperties
  <1>3. SubSeq(s, n + 1, Len(s)) \in Seq(S) /\ Len(SubSeq(s, n + 1, Len(s))) = Len(s) - n
    BY <1>1, SubSeqProperties
  <1> DEFINE a == SubSeq(s, 1, n - 1)
             b == SubSeq(s, n + 1, Len(s))
  <1>4. L!RemoveAt(s, n) = a \o b
    BY DEF L!RemoveAt
  <1> HIDE DEF a, b
  <1>5. a \in Seq(S) /\ b \in Seq(S) /\ Len(a) = n - 1 /\ Len(b) = Len(s) - n
    BY <1>2, <1>3 DEF a, b
  <1>6. a \o b \in Seq(S) /\ Len(a \o b) = Len(a) + Len(b)
    BY <1>5, ConcatProperties
  <1> QED
    BY <1>1, <1>4, <1>5, <1>6

LEMMA NewLoad == \A p \in Nat, c \in Int : L!Load(p, c) \in Loads /\ ~ L!WasRead(L!Load(p, c))
                                           /\ L!Load(p, c).cursor = c
  <1>1. <<0>> \in Seq(Nat)
    OBVIOUS
  <1> QED
    BY <1>1 DEF L!Load, L!NotRead, L!WasRead, Loads

Pages == [content : Seq(Nat), next : Nat, count : Nat]
LEMMA PagesTyped ==
  ASSUME L!ListInv
  PROVE  /\ x4 \in Seq(Pages) /\ Len(x4) \in Nat /\ DOMAIN x4 = 1 .. Len(x4) /\ x5 \in Nat
         /\ \A n \in DOMAIN x4 : x4[n].next \in Nat /\ x4[n].count \in Nat /\ x4[n].content \in Seq(Nat)
         /\ x4 # <<>> => Len(x4) \in DOMAIN x4 /\ L!Last(x4) = x4[Len(x4)] /\ 1 \in DOMAIN x4
  <1>1. x4 \in Seq(Pages) /\ x5 \in Nat
    BY DEF L!ListInv, L!ListTyped, Pages
  <1>2. Len(x4) \in Nat /\ DOMAIN x4 = 1 .. Len(x4)
    BY <1>1
  <1>3. \A n \in DOMAIN x4 : x4[n] \in Pages
    BY <1>1, <1>2, ElementOfSeq
  <1>4. \A n \in DOMAIN x4 : x4[n].next \in Nat /\ x4[n].count \in Nat /\ x4[n].content \in Seq(Nat)
    BY <1>3 DEF Pages
  <1>5. x4 # <<>> => Len(x4) \in Nat \ {0}
    BY <1>1, EmptySeq
  <1> QED
    BY <1>1, <1>2, <1>4, <1>5 DEF L!Last

LEMMA OpenKeeps == ASSUME L!ListInv, L!Open PROVE L!ListInv'
  <1>1. L!Load(0, 0) \in Loads /\ ~ L!WasRead(L!Load(0, 0)) /\ L!Load(0, 0).cursor = 0
    BY NewLoad
  <1>2. x3' = <<L!Load(0, 0)>> /\ x4 = <<>> /\ x7' = x7
    BY DEF L!Open
  <1> DEFINE l == L!Load(0, 0)
  <1> HIDE DEF l
  <1>3. x3' \in Seq(Loads) /\ Len(x3') = 1 /\ DOMAIN x3' = {1} /\ x3'[1] = l
    BY <1>1, <1>2 DEF l
  <1>4. ~ L!WasRead(l) /\ L!FollowsCache(l)
    BY <1>1, <1>2 DEF L!FollowsCache, l
  <1>5. Goes(x3')
    BY <1>3, <1>4 DEF Goes
  <1> QED
    BY <1>2, <1>3, <1>5, LoadsKeep, NoReplyKeeps, PagesTyped DEF L!Open

\* Without a load more, whatever else changes.
LEMMA SameLoads == L!ListInv => /\ x3 \in Seq(Loads) /\ (x7 => Goes(x3))
                                /\ \A n \in DOMAIN x3 : /\ L!RemoveAt(x3, n) \in Seq(Loads)
                                                        /\ x7 => Goes(L!RemoveAt(x3, n))
  <1> SUFFICES ASSUME L!ListInv PROVE /\ x3 \in Seq(Loads) /\ (x7 => Goes(x3))
                                      /\ \A n \in DOMAIN x3 : /\ L!RemoveAt(x3, n) \in Seq(Loads)
                                                              /\ x7 => Goes(L!RemoveAt(x3, n))
    OBVIOUS
  <1>1. x3 \in Seq(Loads) /\ Len(x3) \in Nat
    BY DEF L!ListInv, L!ListTyped, Loads
  <1>2. x7 => Len(x3) <= 1
    BY DEF L!ListInv, L!OneAtATime
  <1>3. ASSUME NEW n \in DOMAIN x3
        PROVE  L!RemoveAt(x3, n) \in Seq(Loads) /\ (x7 => Goes(L!RemoveAt(x3, n)))
    <2> DEFINE F == L!RemoveAt(x3, n)
    <2>1. F \in Seq(Loads) /\ Len(F) = Len(x3) - 1
      BY <1>1, RemoveFacts
    <2> HIDE DEF F
    <2>2. DOMAIN F = 1 .. Len(F)
      BY <2>1
    <2>3. x7 => Goes(F)
      BY <1>1, <1>2, <2>1, <2>2 DEF Goes
    <2> QED
      BY <2>1, <2>3 DEF F
  <1> QED
    BY <1>1, <1>2, <1>3 DEF Goes

LEMMA NextPageKeeps == ASSUME L!ListInv, L!NextPage PROVE L!ListInv'
  <1>0. x5' \in Nat /\ x4 # <<>> /\ L!NoReply /\ UNCHANGED <<x1, x2, x4, x6, x8>>
    BY PagesTyped DEF L!NextPage
  <1>1. CASE UNCHANGED <<x3, x7>>
    BY <1>0, <1>1, SameLoads, LoadsKeep, NoReplyKeeps
  <1> DEFINE c == IF L!Last(x4).next = 0 THEN -1 ELSE L!Last(x4).next
             l == L!Load(x5 + 1, c)
  <1>2. CASE x3' = Append(x3, l) /\ x7' = (x7 /\ x3 = <<>>)
    <2>1. x4 # <<>> /\ c \in Int /\ x5 + 1 \in Nat
      <3>1. L!Last(x4).next \in Nat /\ x5 \in Nat
        BY <1>0, PagesTyped
      <3> QED
        BY <1>0, <3>1
    <2>2. l \in Loads /\ ~ L!WasRead(l) /\ l.cursor = c
      BY <2>1, NewLoad
    <2>3. L!FollowsCache(l)
      BY <2>1, <2>2 DEF L!FollowsCache
    <2> HIDE DEF l, c
    <2>4. x3' \in Seq(Loads)
      BY <1>2, <2>2, SameLoads
    <2>5. ASSUME x7' PROVE x7 /\ Goes(x3')
      <3>1. x7 /\ x3 = <<>> /\ x3' = Append(<<>>, l)
        BY <1>2, <2>5
      <3>2. Len(x3') = 1 /\ DOMAIN x3' = {1} /\ x3'[1] = l
        BY <2>2, <3>1
      <3> QED
        BY <2>2, <2>3, <3>1, <3>2 DEF Goes
    <2> QED
      BY <1>0, <2>4, <2>5, LoadsKeep, NoReplyKeeps
  <1> QED
    BY <1>1, <1>2 DEF L!NextPage

LEMMA RefreshKeeps == ASSUME L!ListInv, L!Refresh PROVE L!ListInv'
  <1>1. x5 \in Nat /\ x5' = x5 /\ x3' = <<L!Load(x5, 0)>> /\ x7' = FALSE
    BY PagesTyped DEF L!Refresh
  <1>2. L!Load(x5, 0) \in Loads
    BY <1>1, NewLoad
  <1>3. x3' \in Seq(Loads)
    BY <1>1, <1>2
  <1> QED
    BY <1>1, <1>3, LoadsKeep, NoReplyKeeps DEF L!Refresh

LEMMA OtherStepsKeep ==
  ASSUME L!ListInv, UNCHANGED <<x1, x2, x4, x7, x8>>, L!NoReply, x5' \in Nat,
         x3' = x3 \/ \E n \in DOMAIN x3 : x3' = L!RemoveAt(x3, n)
  PROVE  L!ListInv'
  BY SameLoads, LoadsKeep, NoReplyKeeps

\* What is answered satisfies the conditions asked for.
RequestFields == {"filters", "limit", "order", "cursor", "group_by", "fields"}
IsRequest(r) == r = [f \in RequestFields |-> r[f]] /\ r.limit \in Int
LEMMA RequestsChange ==
  ASSUME NEW r, IsRequest(r), NEW v
  PROVE  /\ IsRequest([r EXCEPT !.filters = v]) /\ IsRequest([r EXCEPT !.order = v])
         /\ IsRequest([r EXCEPT !.cursor = v]) /\ IsRequest([r EXCEPT !.group_by = v])
         /\ IsRequest([r EXCEPT !.fields = v]) /\ (v \in Int => IsRequest([r EXCEPT !.limit = v]))
  BY DEF IsRequest, RequestFields
LEMMA LimitsAreNumbers == \A req \in L!OtherRequests : req.limit \in Int
  <1>0. 0 \in Int /\ 1 \in Int /\ -1 \in Int /\ -2 \in Int
    OBVIOUS
  <1>1. IsRequest(L!PlainRequest)
    <2>1. PageSize \in Int
      BY PageAssumption
    <2> QED
      BY <2>1 DEF L!PlainRequest, IsRequest, RequestFields
  <1> PICK P : P = L!PlainRequest
    OBVIOUS
  <1>2. IsRequest(P)
    BY <1>1
  <1>3. \A f : IsRequest([P EXCEPT !.filters = f])
    BY <1>2, RequestsChange
  <1>4. ASSUME NEW f PROVE IsRequest(L!Id(f))
    <2> DEFINE a == [P EXCEPT !.filters = f]
               b == [a EXCEPT !.limit = 0]
               c == [b EXCEPT !.fields = "id"]
    <2>1. IsRequest(a)
      BY <1>3
    <2>2. L!Id(f) = c
      BY <1>2 DEF L!Id, IsRequest, RequestFields
    <2> HIDE DEF a
    <2>3. IsRequest(b)
      BY <1>0, <2>1, RequestsChange, Zenon
    <2> HIDE DEF b
    <2>4. IsRequest(c)
      BY <2>3, RequestsChange, Zenon
    <2> QED
      BY <2>2, <2>4
  <1>5. PICK id : id = L!Id(L!All(<<L!OrphanedJobs("True")>>))
    OBVIOUS
  <1>6. PICK plain : plain = [P EXCEPT !.filters = L!All(<<L!RunsOf("f")>>)]
    OBVIOUS
  <1>7. IsRequest(id) /\ IsRequest(plain)
    BY <1>3, <1>4, <1>5, <1>6
  <1>8. /\ IsRequest([id EXCEPT !.fields = "all"]) /\ IsRequest([id EXCEPT !.cursor = 2])
        /\ IsRequest([id EXCEPT !.limit = 1]) /\ IsRequest([id EXCEPT !.order = "up"])
    BY <1>0, <1>7, RequestsChange, Zenon
  <1> DEFINE g == L!Either(<<L!RunsOf("f"), L!InStates({"RESOLVED"})>>)
             h == L!All(<<L!Condition("mood", "eq", "good")>>)
             e == [plain EXCEPT !.filters = g]
             o == [plain EXCEPT !.order = "asc"]
  <1> HIDE DEF g, h
  <1>9. /\ IsRequest([plain EXCEPT !.limit = -2]) /\ IsRequest([plain EXCEPT !.filters = h])
        /\ IsRequest([plain EXCEPT !.group_by = "mood"]) /\ IsRequest([plain EXCEPT !.fields = "name"])
        /\ IsRequest(e) /\ IsRequest(o)
    BY <1>0, <1>7, RequestsChange, Zenon
  <1>10. IsRequest([e EXCEPT !.limit = -1]) /\ IsRequest([o EXCEPT !.cursor = 2])
    <2> HIDE DEF e, o
    <2> QED
      BY <1>0, <1>9, RequestsChange, Zenon
  <1>11. \A req \in L!OtherRequests : IsRequest(req)
    <2>1. /\ [plain EXCEPT !.filters = g, !.limit = -1] = [e EXCEPT !.limit = -1]
          /\ [plain EXCEPT !.order = "asc", !.cursor = 2] = [o EXCEPT !.cursor = 2]
      BY <1>7 DEF IsRequest, RequestFields
    <2> HIDE DEF e, o
    <2>2. L!OtherRequests =
            {id, L!Id(L!All(<<L!OrphanedJobs("True"), L!RunsOf("f")>>)),
             L!Id(L!Either(<<L!OrphanedJobs("True")>>)), L!Id(L!All(<<L!OrphanedJobs("False")>>)),
             [id EXCEPT !.fields = "all"], [id EXCEPT !.cursor = 2], [id EXCEPT !.limit = 1],
             [id EXCEPT !.order = "up"], plain, [e EXCEPT !.limit = -1], [o EXCEPT !.cursor = 2],
             [plain EXCEPT !.limit = -2], [plain EXCEPT !.filters = h],
             [plain EXCEPT !.group_by = "mood"], [plain EXCEPT !.fields = "name"]}
      BY <1>5, <1>6, <2>1, Zenon DEF L!OtherRequests, g, h
    <2> QED
      BY <1>4, <1>7, <1>8, <1>9, <1>10, <2>2, Zenon
  <1> QED
    BY <1>11 DEF IsRequest

LEMMA AnswerFits ==
  ASSUME L!ListTyped, NEW req \in L!OtherRequests, L!Status(req) = 200
  PROVE  \A i \in L!ToSet(L!Answer(req)) : L!Satisfies(req.filters, i)
  <1>1. CASE L!Garbage(req.filters) = {}
    <2> DEFINE s == L!Read(req)
    <2>1. L!Chosen(req) \in SUBSET Nat /\ IsFiniteSet(L!Chosen(req)) /\ req.limit \in Int
      BY ChosenFacts, LimitsAreNumbers
    <2>2. s = L!Limited(L!Sorted(L!Chosen(req), req.order), req.limit)
      BY DEF L!Read
    <2>3. L!ToSet(s) \subseteq L!Chosen(req)
      <3> DEFINE X == L!Chosen(req)
                 limit == req.limit
                 order == req.order
      <3>1. X \in SUBSET Nat /\ IsFiniteSet(X) /\ limit \in Int
        BY <2>1
      <3>2. s = L!Limited(L!Sorted(X, order), limit)
        BY <2>2
      <3> HIDE DEF s, X, limit, order
      <3>3. L!ToSet(s) \subseteq X
        BY <3>1, <3>2, PageFacts
      <3> QED
        BY <3>3 DEF X
    <2>4. L!Answer(req) = s
      BY <1>1 DEF L!Answer
    <2> QED
      BY <2>3, <2>4, ChosenFacts
  <1>2. CASE L!Garbage(req.filters) # {}
    <2> DEFINE X == {i \in DOMAIN x1 : L!OrphanedJob(i)}
    <2>1. /\ L!Garbage(req.filters) = DOMAIN req.filters.of
          /\ \A n \in DOMAIN req.filters.of : L!WellAsked(req.filters.of[n])
      BY <1>2 DEF L!Status
    <2>2. L!ToSet(L!Answer(req)) = X
      <3>1. Len(x1) \in Nat /\ DOMAIN x1 = 1 .. Len(x1) /\ IsFiniteSet(1 .. Len(x1))
        BY FS_Interval DEF L!ListTyped
      <3>2. X \in SUBSET Nat /\ X \in SUBSET (1 .. Len(x1))
        BY <3>1
      <3>3. IsFiniteSet(X)
        BY <3>1, <3>2, FS_Subset
      <3>4. L!Answer(req) = L!Sorted(X, "asc")
        BY <1>2 DEF L!Answer, L!GarbageIds
      <3> HIDE DEF X
      <3> QED
        BY <3>2, <3>3, <3>4, SortedFacts
    <2>3. ASSUME NEW i \in X, NEW n \in DOMAIN req.filters.of
          PROVE  L!Holds(req.filters.of[n], i)
      <3>1. req.filters.of[n].column = "orphaned_jobs"
        BY <2>1, <2>3 DEF L!Garbage, L!GarbageFilters
      <3>2. req.filters.of[n].operator = "eq" /\ L!OrphanedJob(i)
        BY <2>1, <2>3 DEF L!WellAsked
      <3> PICK c : c = req.filters.of[n]
        OBVIOUS
      <3>3. c.column \notin L!Relationships /\ c.column \in L!GarbageFilters /\ ~ (c.operator = "in")
        BY <3>1, <3>2 DEF L!Relationships, L!GarbageFilters
      <3>4. L!Holds(c, i) = L!OrphanedJob(i)
        BY <3>3 DEF L!Holds
      <3> QED
        BY <3>2, <3>4
    <2>4. DOMAIN req.filters.of # {}
      BY <1>2, <2>1
    <2> HIDE DEF X
    <2> QED
      BY <2>2, <2>3, <2>4 DEF L!Satisfies
  <1> QED
    BY <1>1, <1>2

LEMMA AskKeeps == ASSUME L!ListInv, L!Ask PROVE L!ListInv'
  <1>1. PICK req \in L!OtherRequests : /\ L!Status(req) = 200
                                       /\ x9' = <<[request |-> req, content |-> L!Answer(req)]>>
    BY DEF L!Ask
  <1> DEFINE a == [request |-> req, content |-> L!Answer(req)]
  <1>2. UNCHANGED <<x1, x2, x3, x4, x5, x7, x8>>
    BY DEF L!Ask
  <1>3. \A i \in L!ToSet(L!Answer(req)) : L!Satisfies(req.filters, i)
    BY <1>1, AnswerFits DEF L!ListInv
  <1>4. PICK R : R = x9'
    OBVIOUS
  <1>5. a.request = req /\ a.content = L!Answer(req)
    OBVIOUS
  <1> HIDE DEF a
  <1>6. DOMAIN R = {1} /\ R[1] = a
    BY <1>1, <1>4 DEF a
  <1>7. \A n \in DOMAIN R : \A i \in L!ToSet(R[n].content) : L!Satisfies(R[n].request.filters, i)
    BY <1>3, <1>5, <1>6
  <1>8. \A f, i : L!Satisfies(f, i)' = L!Satisfies(f, i)
    BY <1>2, SameRows
  <1>9. \A n \in DOMAIN R : \A i \in L!ToSet(R[n].content) : L!Satisfies(R[n].request.filters, i)'
    BY <1>7, <1>8
  <1>10. L!NoConditionIgnored'
    BY <1>4, <1>9 DEF L!NoConditionIgnored, L!ToSet
  <1> QED
    BY <1>2, <1>10, SameLoads, PagesTyped, LoadsKeep

\* Runs that are created or move on leave a patient reader's list as it is.
LEMMA RowsKeep ==
  ASSUME L!ListInv, UNCHANGED <<x2, x3, x4, x5, x7, x8>>, L!NoReply, x1' \in Seq(L!Row),
         DOMAIN x1 \subseteq DOMAIN x1',
         \A i \in DOMAIN x1 : x1'[i].path = x1[i].path /\ x1'[i].parent = x1[i].parent
  PROVE  L!ListInv'
  <1>1. L!ListTyped
    BY DEF L!ListInv
  <1>2. L!ListTyped'
    BY <1>1 DEF L!ListTyped
  <1>3. \A n \in DOMAIN x4' : L!EndsPage(x4'[n])
    BY DEF L!ListInv
  <1>4. L!NoConditionIgnored'
    BY NoReplyKeeps
  <1>5. ASSUME x7' PROVE L!OneAtATime' /\ L!PagesInOrder' /\ (L!Lasting' => L!NothingSkipped')
    <2>1. L!OneAtATime /\ L!PagesInOrder /\ (L!Lasting => L!NothingSkipped)
      BY <1>5 DEF L!ListInv
    <2>2. L!PagesInOrder'
      BY <2>1 DEF L!PagesInOrder
    <2>3. \A l : (L!BelowCursor(l) => L!BelowCursor(l)') /\ L!FollowsCache(l)' = L!FollowsCache(l)
      BY DEF L!BelowCursor, L!FollowsCache
    <2>4. L!OneAtATime'
      BY <2>1, <2>3 DEF L!OneAtATime, L!WasRead, L!NotRead
    <2>5. ASSUME L!Lasting' PROVE L!NothingSkipped'
      <3>1. L!Lasting /\ L!NothingSkipped
        BY <2>1, <2>5 DEF L!Lasting
      <3>2. PICK Q : Q = x1'
        OBVIOUS
      <3> PICK f : f = x2.filters
        OBVIOUS
      <3>3. \A i \in DOMAIN x1 : L!Satisfies(f, i)' <=> L!Satisfies(f, i)
        BY <1>1, <3>1, LastingFits DEF L!ListTyped
      <3>4. /\ \A i : i \in L!Fits <=> i \in DOMAIN x1 /\ L!Satisfies(f, i)
            /\ \A i : i \in L!Fits' <=> i \in DOMAIN Q /\ L!Satisfies(f, i)'
        BY <3>2 DEF L!Fits
      <3>5. DOMAIN x1 \subseteq DOMAIN Q /\ DOMAIN Q = 1 .. Len(Q) /\ DOMAIN x1 = 1 .. Len(x1)
            /\ Len(x1) \in Nat /\ Len(Q) \in Nat /\ x8 \subseteq DOMAIN x1
        BY <1>1, <3>2 DEF L!ListTyped
      <3>6. L!Fits \subseteq L!Fits' /\ \A i \in L!Fits' : i \in DOMAIN x1 => i \in L!Fits
        BY <3>3, <3>4, <3>5
      <3>7. \A i \in L!Fits', k \in x8 : i <= k => i \in x8
        <4> TAKE i \in L!Fits', k \in x8
        <4> HAVE i <= k
        <4>1. i \in DOMAIN x1
          BY <3>4, <3>5
        <4> QED
          BY <3>1, <3>6, <4>1 DEF L!NothingSkipped
      <3>8. L!Shown' = L!Shown /\ L!Unseen' = L!Unseen
        BY DEF L!Shown, L!Unseen
      <3>9. ASSUME NEW l, L!Reaches(l) PROVE L!Reaches(l)'
        <4>1. L!RequestOf(l)' = L!RequestOf(l)
          BY DEF L!RequestOf
        <4> PICK req : req = L!RequestOf(l)
          OBVIOUS
        <4>2. req.filters = f /\ req.group_by = ""
          BY <3>1, RequestFacts DEF L!Lasting
        <4>3. L!Chosen(req) \subseteq L!Chosen(req)'
          BY <3>2, <3>3, <3>5, <4>2 DEF L!Chosen
        <4>4. L!Chosen(L!RequestOf(l)) \subseteq L!Chosen(L!RequestOf(l))'
          BY <4>1, <4>3
        <4> QED
          BY <3>8, <3>9, <4>4 DEF L!Reaches
      <3>10. \A n \in DOMAIN x3 : L!WasRead(x3[n]) => L!Reaches(x3[n])'
        BY <3>1, <3>9 DEF L!NothingSkipped
      <3> QED
        BY <3>1, <3>6, <3>7, <3>8, <3>10 DEF L!NothingSkipped, L!WasRead, L!NotRead
    <2> QED
      BY <2>2, <2>4, <2>5
  <1> QED
    BY <1>2, <1>3, <1>4, <1>5 DEF L!ListInv, L!EndsPage

LEMMA CreateRunKeeps == ASSUME L!ListInv, L!CreateRun PROVE L!ListInv'
  <1>1. PICK path \in {"f", "g"}, parent \in 0 .. 1 :
          x1' = Append(x1, [path |-> path, parent |-> parent, state |-> "SCHEDULED", job |-> TRUE])
    BY DEF L!CreateRun
  <1> DEFINE r == [path |-> path, parent |-> parent, state |-> "SCHEDULED", job |-> TRUE]
  <1>2. r \in L!Row /\ x1 \in Seq(L!Row)
    BY DEF L!Row, L!ListInv, L!ListTyped
  <1> HIDE DEF r
  <1>3. x1' = Append(x1, r)
    BY <1>1 DEF r
  <1>4. /\ x1' \in Seq(L!Row) /\ DOMAIN x1 \subseteq DOMAIN x1'
        /\ \A i \in DOMAIN x1 : x1'[i] = x1[i]
    BY <1>2, <1>3
  <1> QED
    BY <1>4, RowsKeep DEF L!CreateRun

LEMMA RunEndsKeeps == ASSUME L!ListInv, NEW i \in DOMAIN x1, L!RunEnds(i) PROVE L!ListInv'
  <1>1. PICK job \in BOOLEAN : x1' = [x1 EXCEPT ![i].state = "RESOLVED", ![i].job = job]
    BY DEF L!RunEnds
  <1>2. x1 \in Seq(L!Row)
    BY DEF L!ListInv, L!ListTyped
  <1>3. x1[i] \in L!Row
    BY <1>2
  <1> DEFINE r == [x1[i] EXCEPT !.state = "RESOLVED", !.job = job]
  <1>4. r \in L!Row /\ r.path = x1[i].path /\ r.parent = x1[i].parent
    BY <1>3 DEF L!Row
  <1>5. x1' = [x1 EXCEPT ![i] = r]
    BY <1>1, <1>2
  <1> HIDE DEF r
  <1>6. x1' \in Seq(L!Row) /\ DOMAIN x1' = DOMAIN x1
    BY <1>2, <1>4, <1>5
  <1>7. \A k \in DOMAIN x1 : x1'[k].path = x1[k].path /\ x1'[k].parent = x1[k].parent
    BY <1>4, <1>5
  <1> QED
    BY <1>6, <1>7, RowsKeep DEF L!RunEnds

\* The pages shown before a page that follows the last of them are above its cursor.
LEMMA AboveCursor ==
  ASSUME L!ListInv, L!PagesInOrder, x4 # <<>>, L!Last(x4).next # 0, NEW m \in DOMAIN x4,
         NEW i \in L!ToSet(x4[m].content)
  PROVE  i >= L!Last(x4).next /\ L!Last(x4).next \in L!Shown /\ i \in Nat
  <1>1. /\ x4 \in Seq(Pages) /\ Len(x4) \in Nat /\ DOMAIN x4 = 1 .. Len(x4) /\ x5 \in Nat
        /\ \A n \in DOMAIN x4 : x4[n].next \in Nat /\ x4[n].count \in Nat /\ x4[n].content \in Seq(Nat)
        /\ x4 # <<>> => Len(x4) \in DOMAIN x4 /\ L!Last(x4) = x4[Len(x4)] /\ 1 \in DOMAIN x4
    BY PagesTyped
  <1> DEFINE k == Len(x4)
             s == x4[k].content
  <1>2. k \in DOMAIN x4 /\ s \in Seq(Nat) /\ L!EndsPage(x4[k]) /\ x4[k].next # 0 /\ L!Descending(s)
    BY <1>1 DEF L!ListInv, L!PagesInOrder
  <1>3. s # <<>> /\ L!Last(x4).next = L!Last(s)
    BY <1>1, <1>2 DEF L!EndsPage
  <1> HIDE DEF s
  <1>4. Len(s) \in Nat \ {0} /\ DOMAIN s = 1 .. Len(s) /\ L!Last(s) = s[Len(s)] /\ s[Len(s)] \in Nat
    BY <1>2, <1>3, EmptySeq DEF L!Last
  <1>5. L!Last(s) \in L!ToSet(s)
    BY <1>4 DEF L!ToSet
  <1>6. L!Last(s) \in L!Shown
    BY <1>2, <1>5 DEF L!Shown, s
  <1>7. x4[m].content \in Seq(Nat)
    BY <1>1
  <1>8. i \in Nat
    BY <1>7 DEF L!ToSet
  <1>9. CASE m = k
    <2>1. PICK a \in 1 .. Len(s) : s[a] = i
      BY <1>4, <1>9 DEF L!ToSet, s
    <2>2. s[Len(s)] \in Nat /\ a \in Nat /\ Len(s) \in Nat /\ a <= Len(s)
      BY <1>4, <2>1
    <2>3. a < Len(s) => s[a] > s[Len(s)]
      BY <1>2, <1>4, <2>1 DEF L!Descending
    <2>4. i >= L!Last(s)
      <3>1. CASE a = Len(s)
        BY <1>4, <2>1, <2>2, <3>1
      <3>2. CASE a # Len(s)
        <4>1. a < Len(s)
          BY <2>2, <3>2
        <4> PICK e : e = s[Len(s)]
          OBVIOUS
        <4>2. i > e /\ e \in Nat
          BY <2>1, <2>2, <2>3, <4>1
        <4>3. i >= e
          BY <1>8, <4>2
        <4> QED
          BY <1>4, <4>3
      <3> QED
        BY <3>1, <3>2
    <2> QED
      BY <1>3, <1>6, <1>8, <2>4
  <1>10. CASE m # k
    <2>1. m < k
      BY <1>1, <1>10
    <2>2. i > L!Last(s)
      BY <1>2, <1>5, <2>1 DEF L!PagesInOrder, s
    <2> QED
      BY <1>3, <1>4, <1>6, <1>8, <2>2
  <1> QED
    BY <1>9, <1>10

\* The page that the server chooses is in order, and the next of what is unseen.
LEMMA ServerReadsKeeps == ASSUME L!ListInv, NEW n \in DOMAIN x3, L!ServerReads(n) PROVE L!ListInv'
  <1>1. L!ListTyped /\ x3 \in Seq(Loads) /\ x3[n] \in Loads
    <2>1. L!ListTyped /\ x3 \in Seq(Loads)
      BY DEF L!ListInv, L!ListTyped, Loads
    <2> QED
      BY <2>1
  <1> PICK l : l = x3[n]
    OBVIOUS
  <1>0. PICK req : req = L!RequestOf(l)
    OBVIOUS
  <1>a. PICK X : X = L!Chosen(req)
    OBVIOUS
  <1>b. PICK s : s = L!Read(req)
    OBVIOUS
  <1>c. PICK new : new = [l EXCEPT !.content = s]
    OBVIOUS
  <1>2. /\ req.limit = PageSize /\ req.order = "desc" /\ req.cursor = l.cursor
        /\ (~ x2.grouped => req.group_by = "")
    BY <1>0, RequestFacts
  <1>3. /\ X \in SUBSET Nat /\ IsFiniteSet(X)
        /\ \A i \in X : i \in DOMAIN x1 /\ i \in Nat \ {0} /\ (l.cursor # 0 => i < l.cursor)
    BY <1>1, <1>2, <1>a, ChosenFacts
  <1>4. PageSize \in Int /\ PageSize \in Nat \ {0}
    BY PageAssumption
  <1>5. s = L!Limited(L!Sorted(X, "desc"), PageSize)
    BY <1>2, <1>a, <1>b DEF L!Read
  <1>6. x3' = [x3 EXCEPT ![n] = new]
    BY <1>0, <1>1, <1>b, <1>c DEF L!ServerReads
  <1>7. UNCHANGED <<x1, x2, x4, x5, x7>> /\ L!NoReply /\ ~ L!WasRead(l)
        /\ x8' = IF x4 = <<>> THEN X ELSE x8
    BY <1>0, <1>a DEF L!ServerReads, L!WasRead
  <1>8. /\ s \in Seq(X) /\ L!ToSet(s) \subseteq X /\ L!Descending(s)
        /\ \A i \in X \ L!ToSet(s) : Len(s) = PageSize /\ i < L!Last(s)
    BY <1>3, <1>4, <1>5, PageFacts
  <1>9. L!Lasting => \A i : i \in X <=> i \in L!Fits /\ (l.cursor # 0 => i < l.cursor)
    BY <1>0, <1>a, LastingChosen
  <1>10. s \in Seq(Nat)
    BY <1>3, <1>8, SeqMonotonic
  <1>11. new \in Loads /\ new.cursor = l.cursor /\ new.content = s
    BY <1>1, <1>10, <1>c DEF Loads
  <1>12. x3' \in Seq(Loads) /\ DOMAIN x3' = DOMAIN x3 /\ Len(x3') = Len(x3) /\ x3'[n] = new
    BY <1>1, <1>6, <1>11
  <1>13. L!ListTyped'
    <2>1. x8' \subseteq DOMAIN x1
      BY <1>1, <1>3, <1>7 DEF L!ListTyped
    <2> QED
      BY <1>1, <1>7, <1>12, <2>1 DEF L!ListTyped, Loads
  <1>14. L!NoConditionIgnored' /\ \A p \in DOMAIN x4' : L!EndsPage(x4'[p])
    BY <1>7, NoReplyKeeps DEF L!ListInv
  <1>15. ASSUME x7' PROVE L!OneAtATime' /\ L!PagesInOrder' /\ (L!Lasting' => L!NothingSkipped')
    <2>1. L!OneAtATime /\ L!PagesInOrder /\ (L!Lasting => L!NothingSkipped)
      BY <1>7, <1>15 DEF L!ListInv
    <2>2. DOMAIN x3 = {n} /\ Len(x3) = 1 /\ n = 1
      <3>1. Len(x3) \in Nat /\ Len(x3) <= 1 /\ DOMAIN x3 = 1 .. Len(x3)
        BY <1>1, <2>1 DEF L!OneAtATime
      <3>2. n \in 1 .. Len(x3)
        BY <3>1
      <3>3. Len(x3) = 1
        BY <3>1, <3>2
      <3>4. DOMAIN x3 = 1 .. 1
        BY <3>1, <3>3
      <3> QED
        BY <3>2, <3>3, <3>4
    <2>3. L!FollowsCache(l)
      BY <2>1 DEF L!OneAtATime
    <2>4. L!PagesInOrder'
      BY <1>7, <2>1 DEF L!PagesInOrder
    <2>5. L!FollowsCache(new)' /\ L!BelowCursor(new)'
      <3>1. L!FollowsCache(new)'
        BY <1>7, <1>11, <2>3 DEF L!FollowsCache
      <3>2. L!BelowCursor(new)'
        BY <1>3, <1>7, <1>8, <1>11 DEF L!BelowCursor
      <3> QED
        BY <3>1, <3>2
    <2> PICK F : F = x3'
      OBVIOUS
    <2>6. DOMAIN F = {n} /\ F[n] = new /\ Len(F) <= 1
      BY <1>12, <2>2
    <2>7. L!OneAtATime'
      BY <2>5, <2>6 DEF L!OneAtATime
    <2>8. ASSUME L!Lasting' PROVE L!NothingSkipped'
      <3>1. L!Lasting /\ L!NothingSkipped
        BY <1>7, <2>1, <2>8 DEF L!Lasting
      <3>2. L!Shown' = L!Shown /\ L!Fits' = L!Fits
        BY <1>7, SameRows DEF L!Shown, L!Fits
      <3>3. L!Chosen(L!RequestOf(new))' = X
        <4>1. L!RequestOf(new)' = req
          BY <1>0, <1>7, <1>11 DEF L!RequestOf
        <4>2. L!Chosen(req)' = X
          <5>1. req.group_by = ""
            BY <1>2, <3>1 DEF L!Lasting
          <5> QED
            BY <1>7, <1>a, <5>1, SameRows DEF L!Chosen
        <4> QED
          BY <4>1, <4>2
      <3>4. CASE x4 = <<>>
        <4>1. x8' = X /\ l.cursor = 0 /\ X = L!Fits
          BY <1>7, <1>9, <2>3, <3>1, <3>4 DEF L!FollowsCache
        <4>2. L!Shown = {} /\ Len(x4) = 0 /\ L!Cardinality({}) = 0
          BY <3>4, ListCount, FS_EmptySet DEF L!Shown
        <4>3. L!Unseen' = X
          BY <3>2, <4>1, <4>2 DEF L!Unseen
        <4>4. L!Reaches(new)'
          BY <1>8, <1>11, <3>3, <4>1, <4>3 DEF L!Reaches
        <4>5. L!Cardinality(L!Shown)' = Len(x4) * PageSize
          BY <1>4, <3>2, <4>2 DEF L!Cardinality
        <4>6. \A i \in L!Fits', k \in x8' : i <= k => i \in x8'
          BY <3>2, <4>1
        <4> QED
          BY <1>7, <2>6, <3>2, <3>4, <4>1, <4>2, <4>3, <4>4, <4>5, <4>6 DEF L!NothingSkipped
      <3>5. CASE x4 # <<>>
        <4>1. x8' = x8 /\ L!Unseen' = L!Unseen
          BY <1>7, <3>2, <3>5 DEF L!Unseen
        <4>2. L!Last(x4).next \in Nat
          BY <3>5, PagesTyped
        <4>3. CASE L!Last(x4).next = 0
          <5>1. l.cursor = -1 /\ X = {} /\ L!Unseen = {}
            <6>1. l.cursor = -1
              BY <2>3, <3>5, <4>3 DEF L!FollowsCache
            <6>2. \A i \in X : i \in Nat /\ i < -1
              BY <1>3, <6>1
            <6>3. L!Unseen = {}
              BY <3>1, <3>5, <4>3 DEF L!NothingSkipped
            <6> QED
              BY <6>1, <6>2, <6>3
          <5>2. L!Reaches(new)'
            BY <1>8, <1>11, <3>3, <4>1, <5>1 DEF L!Reaches
          <5> QED
            BY <1>7, <2>6, <3>1, <3>2, <4>1, <5>2 DEF L!NothingSkipped
        <4>4. CASE L!Last(x4).next # 0
          <5> PICK c : c = L!Last(x4).next
            OBVIOUS
          <5>1. l.cursor = c /\ c \in Nat /\ c # 0
            BY <2>3, <3>5, <4>2, <4>4 DEF L!FollowsCache
          <5>2. c \in x8
            <6>1. Len(x4) \in DOMAIN x4 /\ L!Last(x4) = x4[Len(x4)] /\ x4[Len(x4)].content \in Seq(Nat)
                  /\ L!EndsPage(x4[Len(x4)])
              BY <3>5, PagesTyped DEF L!ListInv
            <6>2. c = L!Last(x4[Len(x4)].content) /\ x4[Len(x4)].content # <<>>
              BY <4>4, <6>1 DEF L!EndsPage
            <6>3. c \in L!ToSet(x4[Len(x4)].content)
              BY <6>1, <6>2, EmptySeq DEF L!ToSet, L!Last
            <6>4. c \in L!Shown
              BY <6>1, <6>3 DEF L!Shown
            <6> QED
              BY <3>1, <6>4 DEF L!NothingSkipped
          <5>3. X \subseteq x8
            <6>1. \A i \in X : i \in L!Fits /\ i <= c
              BY <1>3, <1>9, <3>1, <5>1
            <6> QED
              BY <3>1, <5>2, <6>1 DEF L!NothingSkipped
          <5>4. L!Unseen \subseteq X
            <6>1. \A i \in L!Unseen : i \in L!Fits /\ i < c
              BY <3>1, <3>5 DEF L!NothingSkipped, L!Unseen
            <6> QED
              BY <1>9, <3>1, <5>1, <6>1
          <5>5. L!Reaches(new)'
            BY <1>8, <1>11, <3>3, <4>1, <5>3, <5>4 DEF L!Reaches
          <5> QED
            BY <1>7, <2>6, <3>1, <3>2, <4>1, <5>5 DEF L!NothingSkipped
        <4> QED
          BY <4>3, <4>4
      <3> QED
        BY <3>4, <3>5
    <2> QED
      BY <2>4, <2>7, <2>8
  <1> QED
    BY <1>13, <1>14, <1>15 DEF L!ListInv, L!EndsPage

\* A page in order holds as many runs as it is long.
LEMMA PageCount ==
  ASSUME NEW s \in Seq(Nat), L!Descending(s)
  PROVE  IsFiniteSet(L!ToSet(s)) /\ Cardinality(L!ToSet(s)) = Len(s)
  <1>1. Len(s) \in Nat /\ DOMAIN s = 1 .. Len(s) /\ \A a \in 1 .. Len(s) : s[a] \in Nat
    BY LenProperties, ElementOfSeq
  <1>2. \A a, b \in 1 .. Len(s) : s[a] = s[b] => a = b
    <2> SUFFICES ASSUME NEW a \in 1 .. Len(s), NEW b \in 1 .. Len(s), s[a] = s[b], a < b PROVE FALSE
      BY <1>1
    <2>1. s[a] > s[b] /\ s[a] \in Nat /\ s[b] \in Nat
      BY <1>1 DEF L!Descending
    <2> QED
      BY <2>1
  <1> DEFINE T == L!ToSet(s)
  <1>3. s \in [1 .. Len(s) -> T] /\ \A x \in T : \E a \in 1 .. Len(s) : s[a] = x
    BY <1>1 DEF L!ToSet
  <1> HIDE DEF T
  <1>4. s \in Bijection(1 .. Len(s), T)
    BY <1>2, <1>3 DEF Bijection, Injection, Surjection, IsInjective
  <1>5. ExistsBijection(1 .. Len(s), T)
    BY <1>4 DEF ExistsBijection
  <1>6. Cardinality(T) = Len(s) /\ IsFiniteSet(T)
    BY <1>1, <1>5, FS_CountingElements, FS_NatBijection
  <1> QED
    BY <1>6 DEF T

LEMMA OneMore ==
  ASSUME NEW P, NEW i, i \notin P, NEW Q, IsFiniteSet(Q), P \subseteq Q, i \in Q
  PROVE  IsFiniteSet(P) /\ Cardinality(P) \in Nat /\ Cardinality(Q) \in Nat /\ Cardinality(P) + 1 <= Cardinality(Q)
  <1>1. IsFiniteSet(P)
    BY FS_Subset
  <1>2. IsFiniteSet(P \cup {i}) /\ Cardinality(P \cup {i}) = Cardinality(P) + 1
    BY <1>1, FS_AddElement
  <1>3. P \cup {i} \in SUBSET Q
    OBVIOUS
  <1>4. Cardinality(P \cup {i}) <= Cardinality(Q)
    BY <1>3, FS_Subset
  <1> QED
    BY <1>1, <1>2, <1>4, FS_CardinalityType

LEMMA TwoParts ==
  ASSUME NEW P, NEW Q, IsFiniteSet(P), IsFiniteSet(Q), P \cap Q = {}
  PROVE  Cardinality(P \cup Q) = Cardinality(P) + Cardinality(Q)
  <1>1. Cardinality(P \cap Q) = 0
    BY FS_EmptySet
  <1>2. Cardinality(P \cup Q) = Cardinality(P) + Cardinality(Q) - Cardinality(P \cap Q)
    BY FS_Union
  <1>3. Cardinality(P) \in Nat /\ Cardinality(Q) \in Nat
    BY FS_CardinalityType
  <1> QED
    BY <1>1, <1>2, <1>3

\* A page that arrives continues those before it, and says so when it is the last.
LEMMA PageArrivesKeeps == ASSUME L!ListInv, NEW n \in DOMAIN x3, L!PageArrives(n) PROVE L!ListInv'
  <1>1. L!ListTyped /\ x3 \in Seq(Loads) /\ x3[n] \in Loads
    <2>1. L!ListTyped /\ x3 \in Seq(Loads)
      BY DEF L!ListInv, L!ListTyped, Loads
    <2> QED
      BY <2>1
  <1>2. PICK l : l = x3[n]
    OBVIOUS
  <1>3. PICK req : req = L!RequestOf(l)
    OBVIOUS
  <1>4. PICK X : X = L!Chosen(req)
    OBVIOUS
  <1>5. PICK p : p = L!Payload(req, l.content, L!Cardinality(X))
    OBVIOUS
  <1>6. PICK s : s = l.content
    OBVIOUS
  <1>7. UNCHANGED <<x1, x2, x7, x8>> /\ L!NoReply /\ x5' = l.page /\ L!WasRead(l)
        /\ x4' = Append(x4, p) /\ x3' = L!RemoveAt(x3, n)
    BY <1>2, <1>3, <1>4, <1>5 DEF L!PageArrives, L!WasRead
  <1>8. X \in SUBSET Nat /\ IsFiniteSet(X) /\ Cardinality(X) \in Nat /\ req.limit = PageSize
    BY <1>1, <1>3, <1>4, ChosenFacts, RequestFacts, FS_CardinalityType
  <1>9. s \in Seq(Nat) /\ l.page \in Nat
    BY <1>1, <1>2, <1>6 DEF Loads
  <1>10. /\ p.content = s /\ p.count = Cardinality(X)
         /\ p.next = IF s # <<>> /\ Cardinality(X) > PageSize THEN L!Last(s) ELSE 0
    BY <1>5, <1>6, <1>8, ListCount DEF L!Payload
  <1>11. p \in Pages
    <2>1. s # <<>> => L!Last(s) \in Nat
      BY <1>9, EmptySeq, ElementOfSeq DEF L!Last
    <2>2. p.next \in Nat
      BY <1>10, <2>1
    <2>3. p = [content |-> p.content, count |-> p.count, next |-> p.next]
      BY <1>5 DEF L!Payload
    <2> QED
      BY <1>8, <1>9, <1>10, <2>2, <2>3 DEF Pages
  <1>12. /\ x4 \in Seq(Pages) /\ Len(x4) \in Nat /\ DOMAIN x4 = 1 .. Len(x4)
         /\ x4 # <<>> => Len(x4) \in DOMAIN x4 /\ L!Last(x4) = x4[Len(x4)] /\ 1 \in DOMAIN x4
    BY PagesTyped
  <1>13. PICK G : G = x4'
    OBVIOUS
  <1>14. /\ G \in Seq(Pages) /\ Len(G) = Len(x4) + 1 /\ DOMAIN G = 1 .. Len(x4) + 1
         /\ (\A m \in DOMAIN x4 : G[m] = x4[m]) /\ G[Len(x4) + 1] = p /\ G # <<>>
         /\ L!Last(G) = p
    BY <1>7, <1>11, <1>12, <1>13, AppendProperties DEF L!Last
  <1>15. L!RemoveAt(x3, n) \in Seq(Loads) /\ Len(L!RemoveAt(x3, n)) = Len(x3) - 1
    BY <1>1, RemoveFacts
  <1>16. L!ListTyped'
    BY <1>1, <1>7, <1>9, <1>13, <1>14, <1>15 DEF L!ListTyped, Loads, Pages
  <1>17. L!NoConditionIgnored'
    BY <1>7, NoReplyKeeps
  <1>18. \A m \in DOMAIN G : L!EndsPage(G[m])
    <2>1. L!EndsPage(p)
      BY <1>10 DEF L!EndsPage
    <2>2. \A m \in DOMAIN x4 : L!EndsPage(x4[m])
      BY DEF L!ListInv
    <2>3. \A m \in DOMAIN G : m \in DOMAIN x4 \/ m = Len(x4) + 1
      BY <1>12, <1>14
    <2> QED
      BY <1>14, <2>1, <2>2, <2>3
  <1>19. ASSUME x7' PROVE L!OneAtATime' /\ L!PagesInOrder' /\ (L!Lasting' => L!NothingSkipped')
    <2>1. L!OneAtATime /\ L!PagesInOrder /\ (L!Lasting => L!NothingSkipped)
      BY <1>7, <1>19 DEF L!ListInv
    <2> PICK F : F = x3'
      OBVIOUS
    <2>2. Len(F) = 0 /\ DOMAIN F = {}
      <3>1. Len(x3) \in Nat /\ Len(x3) <= 1 /\ DOMAIN x3 = 1 .. Len(x3)
        BY <1>1, <2>1 DEF L!OneAtATime
      <3>2. Len(x3) = 1
        BY <3>1
      <3>3. F \in Seq(Loads) /\ Len(F) = Len(x3) - 1
        BY <1>7, <1>15
      <3> QED
        BY <3>2, <3>3
    <2>3. L!OneAtATime'
      BY <2>2 DEF L!OneAtATime
    <2>4. L!FollowsCache(l) /\ L!BelowCursor(l)
      BY <1>2, <1>7, <2>1 DEF L!OneAtATime
    <2>5. L!Descending(s) /\ \A i \in L!ToSet(s) : i \in Nat \ {0} /\ (l.cursor # 0 => i < l.cursor)
      <3>1. Len(x1) \in Nat /\ DOMAIN x1 = 1 .. Len(x1)
        BY <1>1 DEF L!ListTyped
      <3> QED
        BY <1>6, <2>4, <3>1 DEF L!BelowCursor
    <2>6. ASSUME NEW m \in DOMAIN x4, NEW i \in L!ToSet(x4[m].content), NEW j \in L!ToSet(s)
          PROVE  i > j
      <3>1. x4 # <<>>
        BY <1>12, <2>6
      <3>2. j \in Nat /\ (l.cursor # 0 => j < l.cursor)
        BY <2>5
      <3>3. CASE L!Last(x4).next = 0
        <4>1. l.cursor = -1
          BY <2>4, <3>1, <3>3 DEF L!FollowsCache
        <4> QED
          BY <3>2, <4>1
      <3>4. CASE L!Last(x4).next # 0
        <4> PICK c : c = L!Last(x4).next
          OBVIOUS
        <4>1. l.cursor = c /\ c \in Nat /\ c # 0
          BY <2>4, <3>1, <3>4, PagesTyped DEF L!FollowsCache
        <4>2. i >= c /\ i \in Nat
          BY <2>1, <2>6, <3>1, <3>4, AboveCursor
        <4> QED
          BY <3>2, <4>1, <4>2
      <3> QED
        BY <3>3, <3>4
    <2>7. L!PagesInOrder'
      <3>1. \A m \in DOMAIN G : m \in DOMAIN x4 \/ (m = Len(x4) + 1 /\ G[m] = p)
        BY <1>12, <1>14
      <3>2. \A m \in DOMAIN G : L!Descending(G[m].content)
        BY <1>10, <1>14, <2>1, <2>5, <3>1 DEF L!PagesInOrder
      <3>3. ASSUME NEW m \in DOMAIN G, NEW k \in DOMAIN G, m < k,
                   NEW i \in L!ToSet(G[m].content), NEW j \in L!ToSet(G[k].content)
            PROVE  i > j
        <4>1. m \in DOMAIN x4
          BY <1>12, <1>14, <3>3
        <4>2. CASE k \in DOMAIN x4
          BY <1>14, <2>1, <3>3, <4>1, <4>2 DEF L!PagesInOrder
        <4>3. CASE G[k] = p
          BY <1>10, <1>14, <2>6, <3>3, <4>1, <4>3
        <4> QED
          BY <3>1, <4>2, <4>3
      <3> QED
        BY <1>13, <3>2, <3>3 DEF L!PagesInOrder, L!Descending, L!ToSet
    <2>8. ASSUME L!Lasting' PROVE L!NothingSkipped'
      <3>1. L!Lasting /\ L!NothingSkipped
        BY <1>7, <2>1, <2>8 DEF L!Lasting
      <3>2. L!Reaches(l)
        BY <1>2, <1>7, <3>1 DEF L!NothingSkipped
      <3>3. L!Shown' = L!Shown \cup L!ToSet(s)
        <4> DEFINE U == UNION {L!ToSet(G[m].content) : m \in DOMAIN G}
        <4>1. L!Shown' = U
          BY <1>13 DEF L!Shown, L!ToSet
        <4>2. ASSUME NEW i PROVE i \in U <=> i \in L!Shown \/ i \in L!ToSet(s)
          <5>1. i \in U <=> \E m \in DOMAIN G : i \in L!ToSet(G[m].content)
            OBVIOUS
          <5>2. i \in L!Shown <=> \E m \in DOMAIN x4 : i \in L!ToSet(x4[m].content)
            BY DEF L!Shown
          <5>3. DOMAIN G = DOMAIN x4 \cup {Len(x4) + 1}
            BY <1>12, <1>14
          <5> QED
            BY <1>10, <1>14, <5>1, <5>2, <5>3
        <4> QED
          BY <4>1, <4>2
      <3>4. L!Unseen' = L!Unseen \ L!ToSet(s)
        BY <1>7, <3>3 DEF L!Unseen
      <3>5. L!Fits' = L!Fits
        BY <1>7, SameRows DEF L!Fits
      <3>6. /\ L!ToSet(s) \subseteq x8 /\ L!ToSet(s) \subseteq X /\ L!Unseen \subseteq X
            /\ \A i \in L!Unseen' : Len(s) = PageSize /\ i < L!Last(s)
        BY <1>3, <1>4, <1>6, <3>2, <3>4 DEF L!Reaches
      <3>7. x8' \subseteq L!Fits' /\ L!Shown' \subseteq x8'
        BY <1>7, <3>1, <3>3, <3>5, <3>6 DEF L!NothingSkipped
      <3>8. \A i \in L!Fits', k \in x8' : i <= k => i \in x8'
        BY <1>7, <3>1, <3>5 DEF L!NothingSkipped
      <3>9. G[1].count >= L!Cardinality(x8)
        <4>1. CASE x4 = <<>>
          <5>1. G[1] = p /\ L!Shown = {} /\ L!Unseen = x8
            BY <1>14, <4>1 DEF L!Shown, L!Unseen
          <5>2. x8 \in SUBSET X
            BY <3>6, <5>1
          <5>3. Cardinality(x8) <= Cardinality(X) /\ Cardinality(x8) \in Nat
            BY <1>8, <5>2, FS_Subset, FS_CardinalityType
          <5> QED
            BY <1>8, <1>10, <5>1, <5>3, ListCount
        <4>2. CASE x4 # <<>>
          BY <1>12, <1>14, <3>1, <4>2 DEF L!NothingSkipped
        <4> QED
          BY <4>1, <4>2
      <3>10. ASSUME NEW i \in L!Unseen'
             PROVE  /\ p.next # 0 /\ i < p.next
                    /\ Cardinality(L!Shown') = (Len(x4) + 1) * PageSize
        <4>1. i \in L!Unseen /\ i \notin L!ToSet(s) /\ Len(s) = PageSize /\ i < L!Last(s)
          BY <3>4, <3>6
        <4>2. IsFiniteSet(L!ToSet(s)) /\ Cardinality(L!ToSet(s)) = PageSize
          BY <1>9, <2>5, <4>1, PageCount
        <4>3. Cardinality(X) > PageSize
          <5>1. Cardinality(L!ToSet(s)) + 1 <= Cardinality(X)
            BY <1>8, <3>6, <4>1, OneMore
          <5> QED
            BY <1>8, <4>2, <5>1, PageAssumption
        <4>4. s # <<>>
          BY <4>1, PageAssumption
        <4>5. p.next = L!Last(s) /\ L!Last(s) # 0
          <5>1. Len(s) \in DOMAIN s
            BY <1>9, <4>4, EmptySeq
          <5>2. L!Last(s) \in L!ToSet(s)
            BY <5>1 DEF L!ToSet, L!Last
          <5> QED
            BY <1>10, <2>5, <4>3, <4>4, <5>2
        <4>6. L!Shown \cap L!ToSet(s) = {}
          <5>1. ASSUME NEW j \in L!Shown \cap L!ToSet(s) PROVE FALSE
            <6>1. PICK m \in DOMAIN x4 : j \in L!ToSet(x4[m].content)
              BY <5>1 DEF L!Shown
            <6>2. j > j /\ j \in Nat
              BY <2>5, <2>6, <5>1, <6>1
            <6> QED
              BY <6>2
          <5> QED
            BY <5>1
        <4>7. IsFiniteSet(L!Shown) /\ Cardinality(L!Shown) = Len(x4) * PageSize
          <5>1. L!Shown \in SUBSET x8 /\ IsFiniteSet(x8)
            <6>1. Len(x1) \in Nat /\ x8 \in SUBSET (1 .. Len(x1))
              BY <1>1 DEF L!ListTyped
            <6>2. IsFiniteSet(1 .. Len(x1))
              BY <6>1, FS_Interval
            <6>3. IsFiniteSet(x8)
              BY <6>1, <6>2, FS_Subset
            <6> QED
              BY <3>1, <6>3 DEF L!NothingSkipped
          <5>2. IsFiniteSet(L!Shown)
            BY <5>1, FS_Subset
          <5> QED
            BY <3>1, <4>1, <5>2, ListCount DEF L!NothingSkipped
        <4>8. Cardinality(L!Shown \cup L!ToSet(s)) = Len(x4) * PageSize + PageSize
          BY <4>2, <4>6, <4>7, TwoParts
        <4>9. (Len(x4) + 1) * PageSize = Len(x4) * PageSize + PageSize
          BY <1>12, PageAssumption
        <4> QED
          BY <3>3, <4>1, <4>5, <4>8, <4>9
      <3>11. L!Unseen' # {} => L!Cardinality(L!Shown)' = Len(G) * PageSize
        <4>1. L!Cardinality(L!Shown)' = Cardinality(L!Shown')
          BY DEF L!Cardinality, Cardinality
        <4> QED
          BY <1>14, <3>10, <4>1
      <3>12. \A i \in L!Unseen' : L!Last(G).next # 0 /\ i < L!Last(G).next
        BY <1>14, <3>10
      <3>13. G[1].count >= L!Cardinality(x8)'
        BY <1>7, <3>9 DEF L!Cardinality
      <3> QED
        BY <1>13, <1>14, <2>2, <3>7, <3>8, <3>11, <3>12, <3>13 DEF L!NothingSkipped, L!Last
    <2> QED
      BY <2>3, <2>7, <2>8
  <1> QED
    BY <1>13, <1>16, <1>17, <1>18, <1>19 DEF L!ListInv, L!EndsPage, L!Last

LEMMA ListInit == L!Init => L!ListInv
  <1> SUFFICES ASSUME L!Init PROVE L!ListInv
    OBVIOUS
  <1>1. x1 = <<>> /\ x2 \in L!Lists /\ x4 = <<>> /\ x5 = 0 /\ x3 = <<>> /\ x8 = {} /\ x9 = <<>>
    BY DEF L!Init
  <1>2. L!ListTyped
    BY <1>1 DEF L!ListTyped
  <1>3. L!NoConditionIgnored /\ L!OneAtATime /\ L!PagesInOrder
    BY <1>1 DEF L!NoConditionIgnored, L!OneAtATime, L!PagesInOrder
  <1>4. L!Shown = {} /\ L!Unseen = {}
    BY <1>1 DEF L!Shown, L!Unseen
  <1>5. L!NothingSkipped
    BY <1>1, <1>4 DEF L!NothingSkipped
  <1> QED
    BY <1>1, <1>2, <1>3, <1>5 DEF L!ListInv

LEMMA ListStep == L!ListInv /\ L!Next => L!ListInv'
  <1> SUFFICES ASSUME L!ListInv, L!Next PROVE L!ListInv'
    OBVIOUS
  <1>1. CASE L!Open
    BY <1>1, OpenKeeps
  <1>2. CASE L!NextPage
    BY <1>2, NextPageKeeps
  <1>3. CASE L!PreviousPage
    BY <1>3, PagesTyped, OtherStepsKeep DEF L!PreviousPage
  <1>4. CASE L!Refresh
    BY <1>4, RefreshKeeps
  <1>5. CASE L!CreateRun
    BY <1>5, CreateRunKeeps
  <1>6. CASE L!Ask
    BY <1>6, AskKeeps
  <1>7. ASSUME NEW n \in DOMAIN x3, L!ServerReads(n) PROVE L!ListInv'
    BY <1>7, ServerReadsKeeps
  <1>8. ASSUME NEW n \in DOMAIN x3, L!ServerRefuses(n) PROVE L!ListInv'
    BY <1>8, PagesTyped, OtherStepsKeep DEF L!ServerRefuses
  <1>9. ASSUME NEW n \in DOMAIN x3, L!PageArrives(n) PROVE L!ListInv'
    BY <1>9, PageArrivesKeeps
  <1>10. ASSUME NEW i \in DOMAIN x1, L!RunEnds(i) PROVE L!ListInv'
    BY <1>10, RunEndsKeeps
  <1> QED
    BY <1>1, <1>2, <1>3, <1>4, <1>5, <1>6, <1>7, <1>8, <1>9, <1>10 DEF L!Next

LEMMA ListStutters == L!ListInv /\ UNCHANGED allVars => L!ListInv'
  <1> SUFFICES ASSUME L!ListInv, UNCHANGED allVars PROVE L!ListInv'
    OBVIOUS
  <1>1. UNCHANGED <<x1, x2, x3, x4, x5, x6, x7, x8, x9>>
    BY DEF allVars
  <1>2. L!NoConditionIgnored'
    BY <1>1, SameRows DEF L!ListInv, L!NoConditionIgnored
  <1> QED
    BY <1>1, <1>2, SameLoads, PagesTyped, LoadsKeep

\* The number of the last page.
LEMMA PagesNeeded ==
  ASSUME NEW n \in Nat, NEW size \in Nat \ {0}, NEW c \in Nat, n * size + 1 <= c
  PROVE  (c + size - 1) \div size # n
  <1> DEFINE d == c + size - 1
             q == d \div size
  <1>1. d \in Nat
    OBVIOUS
  <1>2. q \in Nat /\ d < (q + 1) * size
    BY <1>1
  <1>3. d >= n * size + size /\ n * size + size = (n + 1) * size
    OBVIOUS
  <1> HIDE DEF d, q
  <1>4. q = n => FALSE
    BY <1>1, <1>2, <1>3
  <1> QED
    BY <1>4 DEF q, d

\* When the pages run out, nothing is left of what the list began with.
LEMMA ReaderSees == L!ListInv => L!ReaderSeesEveryRun
  <1> SUFFICES ASSUME L!ListInv, x7, L!Lasting, L!NoMorePages, NEW i \in L!Unseen PROVE FALSE
    BY DEF L!ListInv, L!ReaderSeesEveryRun, L!Unseen
  <1>1. L!NothingSkipped /\ L!ListTyped
    BY DEF L!ListInv
  <1>2. x4 # <<>> /\ L!Last(x4).next # 0
    BY <1>1 DEF L!NoMorePages, L!NothingSkipped
  <1>3. Len(x4) = L!TotalPages
    BY <1>2 DEF L!NoMorePages
  <1>4. Len(x4) \in Nat /\ x4[1].count \in Nat /\ Len(x4) \in DOMAIN x4
    BY <1>2, PagesTyped
  <1>5. IsFiniteSet(x8)
    <2>1. Len(x1) \in Nat /\ x8 \in SUBSET (1 .. Len(x1))
      BY <1>1 DEF L!ListTyped
    <2>2. IsFiniteSet(1 .. Len(x1))
      BY <2>1, FS_Interval
    <2> QED
      BY <2>1, <2>2, FS_Subset
  <1>6. Cardinality(L!Shown) + 1 <= Cardinality(x8) /\ Cardinality(x8) \in Nat
    <2>1. L!Shown \subseteq x8 /\ i \in x8 /\ i \notin L!Shown
      BY <1>1 DEF L!NothingSkipped, L!Unseen
    <2> QED
      BY <1>5, <2>1, OneMore
  <1>7. Cardinality(L!Shown) = Len(x4) * PageSize /\ x4[1].count >= Cardinality(x8)
    BY <1>1, <1>2, ListCount DEF L!NothingSkipped
  <1>8. Len(x4) * PageSize + 1 <= x4[1].count
    <2> PICK k : k = Len(x4) * PageSize
      OBVIOUS
    <2>1. k \in Nat
      BY <1>4, PageAssumption
    <2> QED
      BY <1>4, <1>6, <1>7, <2>1
  <1>9. (x4[1].count + PageSize - 1) \div PageSize # Len(x4)
    BY <1>4, <1>8, PagesNeeded, PageAssumption
  <1>10. x4[1].count # 0
    <2> PICK k : k = Len(x4) * PageSize
      OBVIOUS
    <2>1. k \in Nat
      BY <1>4, PageAssumption
    <2> QED
      BY <1>4, <1>8, <2>1
  <1> QED
    BY <1>2, <1>3, <1>9, <1>10 DEF L!TotalPages

\* However runs are created and end between two pages, a reader who waits for each page
\* meets every run once and in order, and no answer holds a run that breaks a condition.
THEOREM ListsAreRightAlways == Spec => []ListsAreRight
  <1> DEFINE Inv == subject = "listing" => L!ListInv
  <1>1. Init => Inv
    BY ListInit DEF Init
  <1>2. Inv /\ [Next]_allVars => Inv'
    <2> SUFFICES ASSUME Inv, [Next]_allVars, subject' = "listing" PROVE L!ListInv'
      OBVIOUS
    <2>1. CASE Next
      BY <2>1, ListStep DEF Next
    <2>2. CASE UNCHANGED allVars
      <3>1. L!ListInv
        BY <2>2 DEF allVars
      <3> QED
        BY <2>2, <3>1, ListStutters
    <2> QED
      BY <2>1, <2>2
  <1>3. Inv => ListsAreRight
    BY ReaderSees DEF L!ListInv, ListsAreRight
  <1> QED
    BY <1>1, <1>2, <1>3, PTL DEF Spec

-----------------------------------------------------------------------------
(* The counts of runs: sums.                                                  *)

LEMMA MetricsCount == \A R : M!Cardinality(R) = Cardinality(R)
  BY DEF M!Cardinality, Cardinality

\* One set is as large as another if each element of the first stands for one of the second.
LEMMA SameSize ==
  ASSUME NEW S, NEW T, NEW h, h \in [S -> T], IsFiniteSet(S),
         \A a, b \in S : h[a] = h[b] => a = b, \A t \in T : \E a \in S : h[a] = t
  PROVE  IsFiniteSet(T) /\ Cardinality(T) = Cardinality(S)
  <1>1. h \in Bijection(S, T)
    BY DEF Bijection, Injection, Surjection, IsInjective
  <1> QED
    BY <1>1, FS_Bijection DEF ExistsBijection

\* The elements of X that h sends to g, and what is made of the values of a set, by their keys.
Fibre(h, X, g) == {x \in X : h[x] = g}
Groups(values, K) == {M!Aggregate(K[v], Fibre(K, values, K[v])) : v \in values}

\* h sorts the elements of X into the groups G, and f gives the size of each.
Sorts(h, X, G) == h \in [X -> G] /\ \A g \in G : \E x \in X : h[x] = g
Sizes(f, h, X, G) == f = [g \in G |-> f[g]] /\ \A g \in G : f[g] = Cardinality(Fibre(h, X, g))

\* The sizes of the groups of a finite set add up to its size.
LEMMA SumOfSizes ==
  ASSUME NEW X, IsFiniteSet(X), NEW G, NEW h, Sorts(h, X, G), NEW f, Sizes(f, h, X, G)
  PROVE  M!SumOf(f) = Cardinality(X)
  <1>0. /\ h \in [X -> G] /\ \A g \in G : \E x \in X : h[x] = g
        /\ f = [g \in G |-> f[g]] /\ \A g \in G : f[g] = Cardinality(Fibre(h, X, g))
    BY DEF Sorts, Sizes
  <1> DEFINE Members(g) == {x \in X : h[x] = g}
             Orders(g) == Bijection(1 .. f[g], Members(g))
             b == [g \in G |-> CHOOSE o : o \in Orders(g)]
             Units == UNION {{g} \X (1 .. f[g]) : g \in G}
             m == [u \in Units |-> b[u[1]][u[2]]]
  <1>1. ASSUME NEW g \in G PROVE b[g] \in Orders(g)
    <2>1. IsFiniteSet(Members(g)) /\ f[g] = Cardinality(Members(g))
      BY <1>0, FS_Subset DEF Fibre
    <2>2. Orders(g) # {}
      BY <2>1, FS_CardinalityType DEF ExistsBijection
    <2>3. PICK e : e \in Orders(g)
      BY <2>2, Zenon
    <2>4. b[g] = CHOOSE o : o \in Orders(g)
      OBVIOUS
    <2> HIDE DEF Orders, b
    <2> QED
      BY <2>3, <2>4, Zenon
  <1> HIDE DEF b
  <1> DEFINE Slots(g) == 1 .. f[g]
  <1>2. \A g \in G : /\ \A i \in Slots(g) : b[g][i] \in X /\ h[b[g][i]] = g
                     /\ \A i, j \in Slots(g) : b[g][i] = b[g][j] => i = j
                     /\ \A x \in X : h[x] = g => \E i \in Slots(g) : b[g][i] = x
    <2> TAKE g \in G
    <2>1. b[g] \in Bijection(Slots(g), Members(g))
      BY <1>1
    <2> HIDE DEF Slots
    <2> QED
      BY <2>1 DEF Bijection, Injection, Surjection, IsInjective
  <1>3. \A u : u \in Units <=> \E g \in G : \E i \in Slots(g) : u = <<g, i>>
    OBVIOUS
  <1> HIDE DEF Units, Members, Slots
  <1>4. \A g \in G : \A i \in Slots(g) : <<g, i>> \in Units /\ m[<<g, i>>] = b[g][i]
    <2> TAKE g \in G
    <2> TAKE i \in Slots(g)
    <2>1. <<g, i>> \in Units
      BY <1>3
    <2> QED
      BY <2>1
  <1> HIDE DEF m
  <1>5. \A x \in X : \E u \in Units : m[u] = x
    <2> TAKE x \in X
    <2>1. h[x] \in G
      BY <1>0
    <2>2. PICK i \in Slots(h[x]) : b[h[x]][i] = x
      BY <1>2, <2>1
    <2>3. <<h[x], i>> \in Units /\ m[<<h[x], i>>] = b[h[x]][i]
      BY <1>4, <2>1, Zenon
    <2> QED
      BY <2>2, <2>3, Zenon
  <1>6. \A u, v \in Units : m[u] = m[v] => u = v
    <2> SUFFICES ASSUME NEW u \in Units, NEW v \in Units, m[u] = m[v] PROVE u = v
      OBVIOUS
    <2>1. PICK g \in G : \E i \in Slots(g) : u = <<g, i>>
      BY <1>3
    <2>2. PICK i \in Slots(g) : u = <<g, i>>
      BY <2>1
    <2>3. PICK k \in G : \E j \in Slots(k) : v = <<k, j>>
      BY <1>3
    <2>4. PICK j \in Slots(k) : v = <<k, j>>
      BY <2>3
    <2>5. m[u] = b[g][i] /\ m[v] = b[k][j]
      BY <1>4, <2>2, <2>4
    <2>6. g = k
      <3>1. h[b[g][i]] = g /\ h[b[k][j]] = k
        BY <1>2
      <3> QED
        BY <2>5, <3>1, Zenon
    <2>7. i = j
      BY <1>2, <2>5, <2>6
    <2> QED
      BY <2>2, <2>4, <2>6, <2>7
  <1>7. m \in [Units -> X]
    <2>1. \A u \in Units : m[u] \in X
      BY <1>2, <1>3, <1>4
    <2> QED
      BY <2>1 DEF m
  <1>8. IsFiniteSet(Units) /\ Cardinality(Units) = Cardinality(X)
    <2> DEFINE w == [x \in X |-> CHOOSE u \in Units : m[u] = x]
    <2>1. \A x \in X : w[x] \in Units /\ m[w[x]] = x
      BY <1>5
    <2>2. w \in [X -> Units]
      BY <2>1
    <2> HIDE DEF w
    <2>3. \A x, y \in X : w[x] = w[y] => x = y
      BY <2>1
    <2>4. \A u \in Units : \E x \in X : w[x] = u
      <3> TAKE u \in Units
      <3>1. m[u] \in X
        BY <1>7
      <3> QED
        BY <1>6, <2>1, <3>1
    <2> QED
      BY <2>2, <2>3, <2>4, SameSize
  <1>9. DOMAIN f = G /\ M!SumOf(f) = Cardinality(Units)
    BY <1>0, MetricsCount DEF M!SumOf, Units
  <1> QED
    BY <1>8, <1>9

\* The sum over a finite set of ones is its size.
LEMMA SumOfOnes ==
  ASSUME NEW X, IsFiniteSet(X), NEW f, f = [x \in X |-> f[x]], \A x \in X : f[x] = 1
  PROVE  M!SumOf(f) = Cardinality(X)
  <1> DEFINE h == [x \in X |-> x]
  <1>1. h \in [X -> X] /\ \A g \in X : \E x \in X : h[x] = g
    OBVIOUS
  <1>2. \A g \in X : f[g] = Cardinality(Fibre(h, X, g))
    <2> TAKE g \in X
    <2>1. Fibre(h, X, g) = {g}
      BY DEF Fibre
    <2> QED
      BY <2>1, FS_Singleton
  <1> HIDE DEF h
  <1>3. Sorts(h, X, X) /\ Sizes(f, h, X, X)
    BY <1>1, <1>2 DEF Sorts, Sizes
  <1> QED
    BY <1>3, SumOfSizes, Zenon

\* However a finite set of values of 1 is split into groups, their sums add up to its size.
LEMMA SumOfGroups ==
  ASSUME NEW values, IsFiniteSet(values), \A v \in values : v.value = 1, NEW K
  PROVE  M!SumOf([g \in Groups(values, K) |-> g.sum]) = Cardinality(values)
  <1> DEFINE G == Groups(values, K)
             Here(k) == Fibre(K, values, k)
             h == [v \in values |-> M!Aggregate(K[v], Here(K[v]))]
             f == [g \in G |-> g.sum]
  <1>1. \A v \in values : h[v].at = K[v] /\ h[v].sum = M!SumOf([w \in Here(K[v]) |-> w.value])
    BY DEF M!Aggregate
  <1>2. \A v \in values : IsFiniteSet(Here(K[v])) /\ M!SumOf([w \in Here(K[v]) |-> w.value]) = Cardinality(Here(K[v]))
    <2> TAKE v \in values
    <2> DEFINE e == [w \in Here(K[v]) |-> w.value]
    <2>1. IsFiniteSet(Here(K[v])) /\ Here(K[v]) \subseteq values
      BY FS_Subset DEF Fibre
    <2>2. e = [w \in Here(K[v]) |-> e[w]] /\ \A w \in Here(K[v]) : e[w] = 1
      BY <2>1
    <2> HIDE DEF e
    <2>3. M!SumOf(e) = Cardinality(Here(K[v]))
      BY <2>1, <2>2, SumOfOnes
    <2> QED
      BY <2>1, <2>3 DEF e
  <1>3. h \in [values -> G] /\ \A g \in G : \E v \in values : h[v] = g
    BY DEF Groups
  <1>4. \A v, w \in values : K[w] = K[v] => h[w] = h[v]
    OBVIOUS
  <1>5. \A g \in G : f[g] = g.sum
    OBVIOUS
  <1>8. f = [g \in G |-> f[g]]
    OBVIOUS
  <1> HIDE DEF h, f, G
  <1>6. \A g \in G : f[g] = Cardinality(Fibre(h, values, g))
    <2> TAKE g \in G
    <2>1. PICK v \in values : h[v] = g
      BY <1>3
    <2>2. Fibre(h, values, g) = Here(K[v])
      BY <1>1, <1>4, <2>1 DEF Fibre
    <2> QED
      BY <1>1, <1>2, <1>5, <2>1, <2>2
  <1>7. M!SumOf(f) = Cardinality(values)
    <2>1. Sorts(h, values, G)
      BY <1>3 DEF Sorts
    <2>2. Sizes(f, h, values, G)
      BY <1>6, <1>8 DEF Sizes
    <2> QED
      BY <2>1, <2>2, SumOfSizes, Zenon
  <1> QED
    BY <1>7 DEF f, G

\* Of the runs of a table, the keys are few.
LEMMA TableRuns ==
  ASSUME NEW F \in M!Tables
  PROVE  /\ DOMAIN F \in SUBSET M!Runs /\ IsFiniteSet(DOMAIN F) /\ F = [r \in DOMAIN F |-> F[r]]
         /\ \A r \in DOMAIN F : F[r] \in [state : M!Ended \cup {"SCHEDULED"}, cloned : BOOLEAN]
  <1>1. PICK S \in SUBSET M!Runs : F \in [S -> [state : M!Ended \cup {"SCHEDULED"}, cloned : BOOLEAN]]
    BY DEF M!Tables
  <1>2. DOMAIN F = S
    BY <1>1
  <1>3. IsFiniteSet(S)
    <2>1. M!Runs = 1 .. 2 /\ 1 \in Int /\ 2 \in Int
      BY DEF M!Runs
    <2>2. IsFiniteSet(M!Runs)
      BY <2>1, FS_Interval
    <2> QED
      BY <2>2, FS_Subset
  <1> QED
    BY <1>1, <1>2, <1>3

\* When no request is under way, each run saved has its count, or it went with a
\* request that failed, and the sums say so.
LEMMA QuietCounts ==
  ASSUME M!MetricsInv
  PROVE  M!RunsCountedOnce
  <1> SUFFICES ASSUME ~x7, \A c \in M!Clients : x5[c] = M!None, NEW byPath \in BOOLEAN, NEW rollup \in 0 .. 2
               PROVE  M!Total("run_count", byPath, rollup) = M!Cardinality(DOMAIN x1 \ x8)
    BY DEF M!RunsCountedOnce, M!Quiet
  <1> DEFINE values == M!Counts
             K(v) == M!Key(v, byPath, rollup)
             key == [v \in values |-> K(v)]
             G == Groups(values, key)
  <1> PICK R : R = DOMAIN x1 \ x8
    OBVIOUS
  <1>1. M!Due = {}
    BY DEF M!Due, M!Owed
  <1>2. /\ \A v \in values : v.value = 1
        /\ \A v, w \in values : v.time = w.time => v = w
        /\ {v.time : v \in values} = R
    BY <1>1 DEF M!MetricsInv, M!CountedOnce
  <1>3. R \in SUBSET M!Runs /\ IsFiniteSet(R)
    <2>1. DOMAIN x1 \in SUBSET M!Runs /\ IsFiniteSet(DOMAIN x1)
      BY TableRuns DEF M!MetricsInv, M!MetricsTyped
    <2> QED
      BY <2>1, FS_Subset
  <1>4. M!Selected("run_count", 0, 9) = values
    <2>1. \A v \in values : v.label \in x3 /\ v.time \in {1, 2}
      BY <1>2, <1>3 DEF M!MetricsInv, M!ValuesAreLabelled, M!Counts, M!Runs
    <2>2. \A v \in values : 0 <= v.time /\ v.time < 9
      BY <2>1
    <2> QED
      BY <2>1, <2>2 DEF M!Selected, M!Counts, M!IsCount
  <1>5. IsFiniteSet(values) /\ Cardinality(values) = Cardinality(R)
    <2> DEFINE h == [r \in R |-> CHOOSE v \in values : v.time = r]
    <2>1. \A r \in R : h[r] \in values /\ h[r].time = r
      <3> HIDE DEF values
      <3> QED
        BY <1>2
    <2>2. h \in [R -> values]
      BY <2>1
    <2> HIDE DEF h, values
    <2>3. \A r, s \in R : h[r] = h[s] => r = s
      BY <2>1
    <2>4. \A v \in values : \E r \in R : h[r] = v
      BY <1>2, <2>1
    <2> QED
      BY <1>3, <2>2, <2>3, <2>4, SameSize
  <1>6. M!Aggregated("run_count", 0, 9, byPath, rollup) = G
    <2>1. M!Aggregated("run_count", 0, 9, byPath, rollup) = {M!Aggregate(K(v), {w \in values : K(w) = K(v)}) : v \in values}
      BY <1>4 DEF M!Aggregated
    <2> HIDE DEF values, K
    <2> QED
      BY <2>1 DEF Groups, Fibre
  <1>7. M!Total("run_count", byPath, rollup) = M!SumOf([g \in G |-> g.sum])
    BY <1>6 DEF M!Total
  <1> HIDE DEF values, K, key
  <1>8. M!SumOf([g \in G |-> g.sum]) = Cardinality(values)
    BY <1>2, <1>5, SumOfGroups
  <1> QED
    BY <1>5, <1>7, <1>8, MetricsCount

-----------------------------------------------------------------------------
(* The counts of runs: requests.                                              *)

MaybeRequest == M!RequestUnderWay \cup {M!None}
Table(S) == [S -> MaybeRequest]

LEMMA ServedFacts ==
  ASSUME NEW q \in MaybeRequest
  PROVE  /\ q = M!None <=> q.kind = "none"
         /\ q # M!None => q \in M!RequestUnderWay
         /\ M!TouchesSystem(q) <=> q # M!None /\ q.kind # "log"
  BY DEF MaybeRequest, M!RequestUnderWay, M!None, M!TouchesSystem, M!SystemMetrics

\* The counts that are still to be stored, by one request and by all.
DueOf(s) == UNION {M!Owed(s[c]) : c \in M!Clients}
CountedBut(due) ==
  /\ \A v \in M!Counts : v.label = M!CountOf(v.time).label /\ v.value = 1
  /\ \A v, w \in M!Counts : v.time = w.time => v = w
  /\ {v.time : v \in M!Counts} = DOMAIN x1 \ (due \cup x8)
  /\ due \subseteq DOMAIN x1

LEMMA DueParts ==
  /\ M!Due = DueOf(x5) /\ M!Due' = DueOf(x5')
  /\ \A due : due = M!Due => (CountedBut(due) <=> M!CountedOnce)
  /\ \A due : due = M!Due' => (CountedBut(due)' <=> M!CountedOnce')
  <1>1. M!Due = DueOf(x5)
    BY DEF M!Due, DueOf
  <1>2. M!Due' = DueOf(x5')
    BY DEF M!Due, DueOf, M!Owed
  <1>3. \A due : due = M!Due => (CountedBut(due) <=> M!CountedOnce)
    BY DEF CountedBut, M!CountedOnce
  <1>4. \A due : due = M!Due' => (CountedBut(due)' <=> M!CountedOnce')
    BY DEF CountedBut, M!CountedOnce
  <1> QED
    BY <1>1, <1>2, <1>3, <1>4

\* When one client moves on, the counts due are those of its request, if no other has any.
Others(s, c, t) == \A d \in M!Clients \ {c} : t[d] = s[d]
OthersOwe(s, c) == \E d \in M!Clients \ {c} : M!Owed(s[d]) # {}
LEMMA DueMoves ==
  ASSUME NEW s, NEW c \in M!Clients, NEW t, Others(s, c, t)
  PROVE  /\ ~OthersOwe(s, c) => DueOf(s) = M!Owed(s[c]) /\ DueOf(t) = M!Owed(t[c])
         /\ M!Owed(s[c]) = M!Owed(t[c]) => DueOf(t) = DueOf(s)
  <1>1. ASSUME ~OthersOwe(s, c) PROVE DueOf(s) = M!Owed(s[c]) /\ DueOf(t) = M!Owed(t[c])
    BY <1>1 DEF DueOf, Others, OthersOwe
  <1>2. ASSUME M!Owed(s[c]) = M!Owed(t[c]) PROVE DueOf(t) = DueOf(s)
    <2>1. \A d \in M!Clients : M!Owed(t[d]) = M!Owed(s[d])
      BY <1>2 DEF Others
    <2> QED
      BY <2>1 DEF DueOf
  <1> QED
    BY <1>1, <1>2

\* A function logs no counts.
LEMMA LogsNoCounts ==
  ASSUME NEW q \in MaybeRequest, q = M!None \/ M!RequestFits(q), ~M!TouchesSystem(q)
  PROVE  M!Owed(q) = {}
  <1>1. CASE q = M!None
    BY <1>1 DEF M!Owed
  <1>2. CASE q # M!None
    <2>1. q.kind = "log" /\ M!PointsFit(q)
      BY <1>2, ServedFacts DEF M!RequestFits
    <2>2. \A p \in q.points : ~M!IsCount(p)
      BY <2>1 DEF M!PointsFit, M!IsCount
    <2> QED
      BY <2>2 DEF M!Owed
  <1> QED
    BY <1>1, <1>2

\* A request owes counts of runs.
LEMMA OwesRuns ==
  ASSUME NEW q \in M!RequestUnderWay, M!RequestFits(q)
  PROVE  M!Owed(q) \subseteq M!Runs
  <1> SUFFICES ASSUME NEW p \in q.points, M!IsCount(p) PROVE p.time \in M!Runs
    BY DEF M!Owed
  <1>1. q.kind # "log"
    BY DEF M!RequestFits, M!PointsFit, M!IsCount
  <1> QED
    BY <1>1 DEF M!RequestFits, M!PointsFit

\* What is left to show of a step of one request: that what it says of the request itself, and
\* what it stores, fits.  Functions that log values disturb nobody, and requests that touch
\* system metrics are alone.
LEMMA RequestStep ==
  ASSUME M!MetricsInv, NEW c \in M!Clients, NEW q, q = x5[c], q # M!None,
         NEW r \in MaybeRequest, x5' = [x5 EXCEPT ![c] = r], x7' = x7,
         M!MetricsTyped', M!ValuesAreLabelled',
         DOMAIN x1 \subseteq DOMAIN x1', x3 \subseteq x3',
         \A l \in x3' \ x3 : l.name = "accuracy" \/ M!SystemLabel(l),
         r # M!None => r.kind = q.kind /\ M!RequestFits(r)',
         q.kind = "log" => /\ DOMAIN x1' = DOMAIN x1 /\ M!Counts' = M!Counts /\ x8' = x8
                           /\ \A l \in x3' \ x3 : l.name = "accuracy",
         ~x7 /\ q.kind # "log" => /\ r # M!None => M!StillSo(r)'
                                  /\ CountedBut(M!Owed(q)) => CountedBut(M!Owed(r))'
  PROVE  M!MetricsInv'
  <1> PICK s : s = x5
    OBVIOUS
  <1> PICK t : t = x5'
    OBVIOUS
  <1>1. s \in Table(M!Clients) /\ q \in MaybeRequest /\ t = [s EXCEPT ![c] = r] /\ q = s[c]
    BY DEF M!MetricsInv, M!MetricsTyped, Table, MaybeRequest
  <1>2. t[c] = r /\ \A d \in M!Clients \ {c} : t[d] = s[d]
    BY <1>1 DEF Table
  <1>12. /\ ~OthersOwe(s, c) => DueOf(s) = M!Owed(q) /\ DueOf(t) = M!Owed(r)
         /\ M!Owed(q) = M!Owed(r) => DueOf(t) = DueOf(s)
    <2>1. Others(s, c, t)
      BY <1>2 DEF Others
    <2>2. /\ ~OthersOwe(s, c) => DueOf(s) = M!Owed(s[c]) /\ DueOf(t) = M!Owed(t[c])
          /\ M!Owed(s[c]) = M!Owed(t[c]) => DueOf(t) = DueOf(s)
      BY <2>1, DueMoves
    <2>3. s[c] = q /\ t[c] = r
      BY <1>1, <1>2
    <2> QED
      BY <2>2, <2>3, Zenon
  <1>3. \A l \in x3' : l.name = "accuracy" \/ M!SystemLabel(l)
    BY DEF M!MetricsInv
  <1>4. \A d \in M!Clients : s[d] \in MaybeRequest /\ (s[d] # M!None => M!RequestFits(s[d]))
    BY <1>1 DEF M!MetricsInv, Table
  <1>5. \A d \in M!Clients : t[d] # M!None => M!RequestFits(t[d])'
    <2>1. ASSUME NEW e \in MaybeRequest, M!RequestFits(e) PROVE M!RequestFits(e)'
      BY <2>1 DEF M!RequestFits, M!PointsFit
    <2> QED
      BY <1>2, <1>4, <2>1
  <1>6. q.kind # "none" /\ (q.kind = "log" <=> ~M!TouchesSystem(q))
    BY <1>1, ServedFacts
  <1>7. M!TouchesSystem(r) => M!TouchesSystem(q) /\ r # M!None
    BY <1>6, ServedFacts DEF M!TouchesSystem, M!None
  <1>8. ASSUME ~x7
        PROVE  \A d, e \in M!Clients : M!TouchesSystem(s[d]) /\ M!TouchesSystem(s[e]) => d = e
    BY <1>8 DEF M!MetricsInv
  <1>9. ASSUME ~x7
        PROVE  \A d, e \in M!Clients : M!TouchesSystem(t[d]) /\ M!TouchesSystem(t[e]) => d = e
    BY <1>1, <1>2, <1>7, <1>8, <1>9
  <1>10. ASSUME ~x7, NEW d \in M!Clients, M!TouchesSystem(t[d])
         PROVE  M!StillSo(t[d])'
    <2>1. CASE d = c
      BY <1>2, <1>6, <1>7, <1>10, <2>1
    <2>2. CASE d # c
      <3>1. q.kind = "log" /\ s[d] = t[d]
        BY <1>1, <1>2, <1>6, <1>8, <1>10, <2>2
      <3> PICK e : e = s[d]
        OBVIOUS
      <3>2. M!StillSo(e) /\ M!RequestFits(e) /\ M!TouchesSystem(e) /\ e \in MaybeRequest
        BY <1>4, <1>10, <3>1, ServedFacts DEF M!MetricsInv
      <3>4. M!StillSo(e)'
        BY <3>1, <3>2 DEF M!StillSo
      <3> QED
        BY <3>1, <3>4
    <2> QED
      BY <2>1, <2>2
  <1>11. ASSUME ~x7 PROVE M!CountedOnce'
    <2>1. M!CountedOnce
      BY <1>11 DEF M!MetricsInv
    <2>2. CASE q.kind = "log"
      <3>1. M!Owed(q) = {} /\ M!Owed(r) = {}
        <4>1. ~M!TouchesSystem(q) /\ ~M!TouchesSystem(r)
          BY <1>6, <1>7, <2>2
        <4>2. M!Owed(q) = {}
          BY <1>1, <1>4, <4>1, LogsNoCounts
        <4>3. CASE r = M!None
          BY <4>2, <4>3 DEF M!Owed
        <4>4. CASE r # M!None
          <5>1. r.kind = "log" /\ M!PointsFit(r)
            BY <2>2, <4>4 DEF M!RequestFits, M!PointsFit
          <5>2. \A p \in r.points : ~M!IsCount(p)
            BY <5>1 DEF M!PointsFit, M!IsCount
          <5> QED
            BY <4>2, <5>2 DEF M!Owed
        <4> QED
          BY <4>3, <4>4
      <3>2. DueOf(t) = DueOf(s)
        BY <1>1, <1>12, <3>1
      <3>3. M!Due' = M!Due
        BY <3>2, DueParts
      <3> QED
        BY <2>1, <2>2, <3>3 DEF M!CountedOnce
    <2>3. CASE q.kind # "log"
      <3>1. ~OthersOwe(s, c)
        <4> SUFFICES ASSUME NEW d \in M!Clients \ {c} PROVE M!Owed(s[d]) = {}
          BY DEF OthersOwe
        <4>1. ~M!TouchesSystem(s[d])
          BY <1>1, <1>6, <1>8, <1>11, <2>3
        <4> QED
          BY <1>4, <4>1, LogsNoCounts
      <3>2. DueOf(s) = M!Owed(q) /\ DueOf(t) = M!Owed(r)
        BY <1>1, <1>12, <3>1
      <3>3. CountedBut(M!Owed(q))
        BY <2>1, <3>2, DueParts
      <3>4. CountedBut(M!Owed(r))'
        BY <1>11, <2>3, <3>3
      <3> QED
        BY <3>2, <3>4, DueParts
    <2> QED
      BY <2>2, <2>3
  <1> QED
    BY <1>3, <1>5, <1>9, <1>10, <1>11 DEF M!MetricsInv

\* What a metric measures of a run is a point of that metric, labelled as system metrics are.
Measured(name, P) ==
  \A p \in P : /\ p \in M!MetricPoint /\ M!SystemLabel(p.label) /\ p.label.name = name
               /\ name = "run_count" => p = M!CountOf(p.time) /\ p.time \in M!Runs
LEMMA MeasuresOne ==
  ASSUME NEW r \in M!Runs, NEW row, row \in [state : M!Ended \cup {"SCHEDULED"}, cloned : BOOLEAN]
  PROVE  /\ Measured("run_count", M!RunCount(r, row)) /\ M!RunCount(r, row) = {M!CountOf(r)}
         /\ Measured("success_rate", M!SuccessRate(r, row))
         /\ Measured("runtime", M!Runtime(r, row))
  <1>1. r \in {1, 2} /\ M!Path(r) \in {"pipeline", "step"}
    BY DEF M!Runs, M!Path
  <1>2. M!CountOf(r) \in M!MetricPoint /\ M!SystemLabel(M!CountOf(r).label)
        /\ M!CountOf(r).label.name = "run_count" /\ M!CountOf(r).time = r
    BY <1>1 DEF M!CountOf, M!Point, M!MetricPoint, M!Label, M!SystemMetrics, M!SystemLabel
  <1>3. M!RunCount(r, row) = {M!CountOf(r)}
    BY DEF M!RunCount, M!CountOf
  <1>4. M!EndOf(r) \in 1 .. 4 /\ M!EndOf(r) - r \in 0 .. 2
    BY <1>1 DEF M!EndOf
  <1>5. ASSUME NEW p \in M!SuccessRate(r, row)
        PROVE  p \in M!MetricPoint /\ M!SystemLabel(p.label) /\ p.label.name = "success_rate"
    <2>1. PICK v \in {0, 1} : p = M!Point("success_rate", "GAUGE", r, 0, M!EndOf(r), v)
      BY <1>5 DEF M!SuccessRate
    <2> QED
      BY <1>1, <1>4, <2>1 DEF M!Point, M!MetricPoint, M!Label, M!SystemMetrics, M!SystemLabel
  <1>6. ASSUME NEW p \in M!Runtime(r, row)
        PROVE  p \in M!MetricPoint /\ M!SystemLabel(p.label) /\ p.label.name = "runtime"
    <2>1. PICK v \in 0 .. 2 : p = M!Point("runtime", "GAUGE", r, 0, M!EndOf(r), v)
      BY <1>4, <1>6 DEF M!Runtime
    <2> QED
      BY <1>1, <1>4, <2>1 DEF M!Point, M!MetricPoint, M!Label, M!SystemMetrics, M!SystemLabel
  <1> QED
    BY <1>2, <1>3, <1>5, <1>6 DEF Measured

\* The points of events and backfills: a count for each run that was created, and none otherwise.
LEMMA CountTime == \A r : M!CountOf(r).time = r /\ M!IsCount(M!CountOf(r))
  BY DEF M!CountOf, M!Point, M!IsCount

LEMMA EventFacts ==
  ASSUME NEW F \in M!Tables
  PROVE  /\ Measured("run_count", M!EventPoints("run_created", F))
         /\ {p.time : p \in M!EventPoints("run_created", F)} = DOMAIN F
         /\ \A p \in M!EventPoints("run_state_changed", F) :
              p \in M!MetricPoint /\ M!SystemLabel(p.label) /\ ~M!IsCount(p)
  <1>1. \A r \in DOMAIN F : r \in M!Runs /\ F[r] \in [state : M!Ended \cup {"SCHEDULED"}, cloned : BOOLEAN]
    BY TableRuns
  <1>2. M!EventPoints("run_created", F) = {M!CountOf(r) : r \in DOMAIN F}
    BY <1>1, MeasuresOne DEF M!EventPoints
  <1>3. \A p \in M!EventPoints("run_state_changed", F) :
          \E r \in DOMAIN F : p \in M!SuccessRate(r, F[r]) \/ p \in M!Runtime(r, F[r])
    BY DEF M!EventPoints
  <1>4. \A p \in M!EventPoints("run_state_changed", F) :
          p \in M!MetricPoint /\ M!SystemLabel(p.label) /\ p.label.name \in {"success_rate", "runtime"}
    BY <1>1, <1>3, MeasuresOne DEF Measured
  <1>5. Measured("run_count", M!EventPoints("run_created", F))
    BY <1>1, <1>2, MeasuresOne DEF Measured
  <1>6. {p.time : p \in M!EventPoints("run_created", F)} = DOMAIN F
    BY <1>2, CountTime
  <1> QED
    BY <1>4, <1>5, <1>6 DEF M!IsCount

LEMMA BackfillFacts ==
  ASSUME x1 \in M!Tables, NEW name \in M!SystemMetrics
  PROVE  /\ Measured(name, M!BackfillPoints(name))
         /\ name = "run_count" => {p.time : p \in M!BackfillPoints(name)} = DOMAIN x1
  <1>1. \A r \in DOMAIN x1 : r \in M!Runs /\ x1[r] \in [state : M!Ended \cup {"SCHEDULED"}, cloned : BOOLEAN]
    BY TableRuns
  <1>2. CASE name = "run_count"
    <2>1. M!BackfillPoints(name) = UNION {M!RunCount(r, x1[r]) : r \in DOMAIN x1}
      BY <1>2 DEF M!BackfillPoints
    <2>2. M!BackfillPoints(name) = {M!CountOf(r) : r \in DOMAIN x1}
      BY <1>1, <2>1, MeasuresOne
    <2>3. Measured(name, M!BackfillPoints(name))
      BY <1>1, <1>2, <2>2, MeasuresOne DEF Measured
    <2>4. {p.time : p \in M!BackfillPoints(name)} = DOMAIN x1
      <3> PICK P : P = M!BackfillPoints(name)
        OBVIOUS
      <3> PICK R : R = DOMAIN x1
        OBVIOUS
      <3>1. P = {M!CountOf(r) : r \in R}
        BY <2>2
      <3>2. {p.time : p \in P} = R
        BY <3>1, CountTime
      <3> QED
        BY <3>2
    <2> QED
      BY <2>3, <2>4, Zenon
  <1>3. CASE name = "success_rate"
    <2>1. M!BackfillPoints(name) = UNION {M!SuccessRate(r, x1[r]) : r \in DOMAIN x1}
      BY <1>3 DEF M!BackfillPoints
    <2> QED
      BY <1>1, <1>3, <2>1, MeasuresOne DEF Measured
  <1>4. CASE name = "runtime"
    <2>1. M!BackfillPoints(name) = UNION {M!Runtime(r, x1[r]) : r \in DOMAIN x1}
      BY <1>4 DEF M!BackfillPoints
    <2> QED
      BY <1>1, <1>4, <2>1, MeasuresOne DEF Measured
  <1> QED
    BY <1>2, <1>3, <1>4 DEF M!SystemMetrics

-----------------------------------------------------------------------------
(* The counts of runs: steps.                                                 *)

Kinds == M!SystemMetrics \cup {"graph", "status", "log"}

LEMMA SendStep ==
  ASSUME M!MetricsInv, NEW c \in M!Clients, NEW kind \in Kinds, NEW rows \in M!Tables,
         NEW points \in SUBSET M!MetricPoint,
         kind = "log" => \A p \in points : p.label.name = "accuracy",
         kind # "log" => points = {},
         kind = "status" => DOMAIN rows \subseteq DOMAIN x1,
         M!Send(c, kind, rows, points)
  PROVE  M!MetricsInv'
  <1> PICK s : s = x5
    OBVIOUS
  <1> PICK t : t = x5'
    OBVIOUS
  <1> PICK r : r = M!Request(kind, rows, points)
    OBVIOUS
  <1>1. /\ s[c] = M!None /\ t = [s EXCEPT ![c] = r] /\ x6' = x6 + 1
        /\ UNCHANGED <<x1, x2, x3, x4, x8>>
        /\ x7' = (x7 \/ (kind # "log" /\ \E d \in M!Clients : M!TouchesSystem(s[d])))
    BY DEF M!Send, M!Goes, M!TouchesSystem
  <1>2. M!MetricsTyped /\ s \in Table(M!Clients)
    BY DEF M!MetricsInv, M!MetricsTyped, Table, MaybeRequest
  <1>3. /\ r = [kind |-> kind, stage |-> "check", rows |-> rows, fresh |-> {}, points |-> points,
                new |-> {}, n |-> x6]
        /\ r \in M!RequestUnderWay
    BY <1>2 DEF M!Request, M!RequestUnderWay, Kinds, M!MetricsTyped
  <1>4. t[c] = r /\ \A d \in M!Clients \ {c} : t[d] = s[d]
    BY <1>1, <1>2 DEF Table
  <1>5. M!MetricsTyped'
    <2>1. t \in Table(M!Clients)
      BY <1>1, <1>2, <1>3 DEF Table, MaybeRequest
    <2>2. x6' \in Nat /\ x7' \in BOOLEAN
      BY <1>1, <1>2 DEF M!MetricsTyped
    <2> QED
      BY <1>1, <1>2, <2>1, <2>2 DEF M!MetricsTyped, Table, MaybeRequest
  <1>6. M!ValuesAreLabelled' /\ \A l \in x3' : l.name = "accuracy" \/ M!SystemLabel(l)
    BY <1>1 DEF M!MetricsInv, M!ValuesAreLabelled
  <1>7. \A d \in M!Clients : t[d] # M!None => M!RequestFits(t[d])'
    <2>1. M!RequestFits(r)'
      BY <1>1, <1>3 DEF M!RequestFits, M!PointsFit
    <2>2. ASSUME NEW e, M!RequestFits(e) PROVE M!RequestFits(e)'
      BY <1>1, <2>2 DEF M!RequestFits, M!PointsFit
    <2>3. \A d \in M!Clients : s[d] # M!None => M!RequestFits(s[d])
      BY DEF M!MetricsInv
    <2> QED
      BY <1>4, <2>1, <2>2, <2>3
  <1>8. ASSUME ~x7'
        PROVE  /\ \A d, e \in M!Clients : M!TouchesSystem(t[d]) /\ M!TouchesSystem(t[e]) => d = e
               /\ \A d \in M!Clients : M!TouchesSystem(t[d]) => M!StillSo(t[d])'
               /\ M!CountedOnce'
    <2>1. ~x7 /\ (M!TouchesSystem(r) => \A d \in M!Clients : ~M!TouchesSystem(s[d]))
      <3>1. M!TouchesSystem(r) => kind # "log"
        BY <1>3 DEF M!TouchesSystem
      <3> QED
        BY <1>1, <1>8, <3>1, Zenon
    <2>2. /\ \A d, e \in M!Clients : M!TouchesSystem(s[d]) /\ M!TouchesSystem(s[e]) => d = e
          /\ \A d \in M!Clients : M!TouchesSystem(s[d]) => M!StillSo(s[d])
          /\ M!CountedOnce
      BY <2>1 DEF M!MetricsInv
    <2>3. \A d, e \in M!Clients : M!TouchesSystem(t[d]) /\ M!TouchesSystem(t[e]) => d = e
      BY <1>4, <2>1, <2>2
    <2>4. M!StillSo(r)'
      BY <1>3 DEF M!StillSo
    <2>5. ASSUME NEW e, M!StillSo(e) PROVE M!StillSo(e)'
      BY <1>1, <2>5 DEF M!StillSo
    <2>6. \A d \in M!Clients : M!TouchesSystem(t[d]) => M!StillSo(t[d])'
      BY <1>4, <2>2, <2>4, <2>5
    <2>7. M!Owed(s[c]) = {} /\ M!Owed(t[c]) = {}
      BY <1>1, <1>3, <1>4 DEF M!Owed
    <2>8. Others(s, c, t)
      BY <1>4 DEF Others
    <2>9. DueOf(t) = DueOf(s)
      BY <2>7, <2>8, DueMoves
    <2>10. M!Due' = M!Due
      BY <2>9, DueParts
    <2>11. M!CountedOnce'
      BY <1>1, <2>2, <2>10 DEF M!CountedOnce, M!Counts
    <2> QED
      BY <2>3, <2>6, <2>11
  <1> QED
    BY <1>5, <1>6, <1>7, <1>8 DEF M!MetricsInv

LEMMA SendSteps ==
  ASSUME M!MetricsInv, M!SendGraph \/ M!SendStatus \/ M!LogMetric \/ M!Backfill
  PROVE  M!MetricsInv'
  <1> DEFINE Row == [state : M!Ended \cup {"SCHEDULED"}, cloned : BOOLEAN]
  <1>1. x1 \in M!Tables
    BY DEF M!MetricsInv, M!MetricsTyped
  <1>2. \A r \in DOMAIN x1 : r \in M!Runs /\ x1[r] \in Row
    BY <1>1, TableRuns
  <1>3. \A S \in SUBSET M!Runs : [S -> Row] \subseteq M!Tables
    BY DEF M!Tables
  <1>4. {} \in SUBSET M!MetricPoint
    OBVIOUS
  <1>5. <<>> \in M!Tables
    <2>1. <<>> = [r \in {} |-> r]
      OBVIOUS
    <2>2. <<>> \in [{} -> Row]
      BY <2>1
    <2> QED
      BY <1>3, <2>2
  <1>6. CASE M!SendGraph
    <2>1. PICK c \in M!Runners, rs \in (SUBSET M!Runs) \ {{}}, state \in {"SCHEDULED", "RESOLVED"}, cloned \in BOOLEAN :
            M!Send(c, "graph", [r \in rs |-> [state |-> state, cloned |-> cloned]], {})
      BY <1>6 DEF M!SendGraph
    <2>2. [r \in rs |-> [state |-> state, cloned |-> cloned]] \in M!Tables
      <3>1. [r \in rs |-> [state |-> state, cloned |-> cloned]] \in [rs -> Row]
        BY DEF M!Ended
      <3> QED
        BY <1>3, <3>1
    <2>3. c \in M!Clients /\ "graph" \in Kinds
      BY DEF M!Clients, Kinds
    <2> QED
      BY <1>4, <2>1, <2>2, <2>3, SendStep
  <1>7. CASE M!SendStatus
    <2>1. PICK c \in M!Runners, rs \in SUBSET {r \in DOMAIN x1 : x1[r].state = "SCHEDULED"} :
            M!Send(c, "status", [r \in rs |-> [x1[r] EXCEPT !.state = "FAILED"]], {})
      BY <1>7 DEF M!SendStatus
    <2> PICK F : F = [r \in rs |-> [x1[r] EXCEPT !.state = "FAILED"]]
      OBVIOUS
    <2>2. F \in M!Tables /\ DOMAIN F \subseteq DOMAIN x1
      <3>1. F \in [rs -> Row] /\ rs \in SUBSET M!Runs
        BY <1>2 DEF M!Ended
      <3> QED
        BY <1>3, <3>1
    <2>3. c \in M!Clients /\ "status" \in Kinds
      BY DEF M!Clients, Kinds
    <2>4. M!Send(c, "status", F, {})
      BY <2>1
    <2> QED
      BY <1>4, <2>2, <2>3, <2>4, SendStep
  <1>8. CASE M!LogMetric
    <2>1. PICK r \in DOMAIN x1, type \in {"COUNT", "GAUGE"} :
            M!Send("function", "log", <<>>, {M!Point("accuracy", type, r, r, M!EndOf(r), 1)})
      BY <1>8 DEF M!LogMetric
    <2> PICK p : p = M!Point("accuracy", type, r, r, M!EndOf(r), 1)
      OBVIOUS
    <2>2. p \in M!MetricPoint /\ p.label.name = "accuracy"
      <3>1. r \in {1, 2} /\ M!Path(r) \in {"pipeline", "step"} /\ M!EndOf(r) \in 1 .. 4
        BY <1>2 DEF M!Runs, M!Path, M!EndOf
      <3> QED
        BY <3>1 DEF M!Point, M!MetricPoint, M!Label
    <2>3. "function" \in M!Clients /\ "log" \in Kinds
      BY DEF M!Clients, Kinds
    <2>4. M!Send("function", "log", <<>>, {p}) /\ {p} \in SUBSET M!MetricPoint
      BY <2>1, <2>2
    <2> QED
      BY <1>5, <2>2, <2>3, <2>4, SendStep
  <1>9. CASE M!Backfill
    <2>1. PICK name \in M!SystemMetrics : M!Send("operator", name, <<>>, {})
      BY <1>9 DEF M!Backfill, M!SystemMetrics
    <2>2. "operator" \in M!Clients /\ name \in Kinds /\ name # "log" /\ name # "status"
      BY DEF M!Clients, Kinds, M!SystemMetrics
    <2> QED
      BY <1>4, <1>5, <2>1, <2>2, SendStep
  <1> QED
    BY <1>6, <1>7, <1>8, <1>9

\* What is known of a request under way.
LEMMA UnderWay ==
  ASSUME M!MetricsInv, NEW c \in M!Clients, NEW q, q = x5[c], q # M!None
  PROVE  /\ q \in M!RequestUnderWay /\ q \in MaybeRequest /\ q.kind # "none"
         /\ M!RequestFits(q)
         /\ ~x7 /\ q.kind # "log" => M!StillSo(q)
  <1>1. q \in MaybeRequest
    BY DEF M!MetricsInv, M!MetricsTyped, MaybeRequest
  <1>2. q \in M!RequestUnderWay /\ q.kind # "none" /\ (M!TouchesSystem(q) <=> q.kind # "log")
    BY <1>1, ServedFacts
  <1>3. M!RequestFits(q)
    BY DEF M!MetricsInv
  <1>4. ~x7 /\ q.kind # "log" => M!StillSo(q)
    <2>1. ~x7 => \A d \in M!Clients : M!TouchesSystem(x5[d]) => M!StillSo(x5[d])
      BY DEF M!MetricsInv
    <2> QED
      BY <1>2, <2>1
  <1> QED
    BY <1>1, <1>2, <1>3, <1>4

LEMMA StepTyped ==
  ASSUME M!MetricsTyped, NEW c \in M!Clients, NEW r \in MaybeRequest, x5' = [x5 EXCEPT ![c] = r],
         x1' \in M!Tables, x2' \subseteq M!Runs, x3' \subseteq M!Label,
         x4' \subseteq [by : Nat, label : M!Label, time : 1 .. 4, value : 0 .. 2],
         x6' \in Nat, x7' = x7, x8' \subseteq M!Runs
  PROVE  M!MetricsTyped'
  <1>1. x5' \in [M!Clients -> M!RequestUnderWay \cup {M!None}]
    BY DEF M!MetricsTyped, MaybeRequest
  <1>2. x7' \in BOOLEAN
    BY DEF M!MetricsTyped
  <1> QED
    BY <1>1, <1>2 DEF M!MetricsTyped

\* A step that saves and stores nothing: what it does not store is still owed, or never will be.
LEMMA QuietStep ==
  ASSUME M!MetricsInv, NEW c \in M!Clients, NEW q, q = x5[c], q # M!None,
         NEW r \in MaybeRequest, x5' = [x5 EXCEPT ![c] = r],
         UNCHANGED <<x1, x3, x4, x7>>, x2' \subseteq M!Runs, x6' \in Nat, x8' \subseteq M!Runs,
         r # M!None => r.kind = q.kind /\ M!RequestFits(r),
         q.kind = "log" => x8' = x8,
         ~x7 /\ q.kind # "log" => /\ r # M!None => M!StillSo(r)
                                  /\ M!Owed(r) \subseteq M!Owed(q)
                                  /\ M!Owed(r) \cup x8' = M!Owed(q) \cup x8
  PROVE  M!MetricsInv'
  <1>1. M!MetricsTyped /\ M!ValuesAreLabelled
    BY DEF M!MetricsInv
  <1>2. M!MetricsTyped'
    BY <1>1, StepTyped DEF M!MetricsTyped
  <1>3. M!ValuesAreLabelled' /\ M!Counts' = M!Counts
    BY <1>1 DEF M!ValuesAreLabelled, M!Counts
  <1>4. r # M!None => r.kind = q.kind /\ M!RequestFits(r)'
    BY DEF M!RequestFits, M!PointsFit
  <1>5. ~x7 /\ q.kind # "log" => (r # M!None => M!StillSo(r)')
    BY DEF M!StillSo
  <1>6. ASSUME ~x7, q.kind # "log", CountedBut(M!Owed(q))
        PROVE  CountedBut(M!Owed(r))'
    <2> PICK owed : owed = M!Owed(q)
      OBVIOUS
    <2> PICK due : due = M!Owed(r)
      OBVIOUS
    <2>1. due \subseteq owed /\ due \cup x8' = owed \cup x8
      BY <1>6
    <2>2. CountedBut(owed)
      BY <1>6
    <2>3. CountedBut(due)'
      BY <1>3, <2>1, <2>2 DEF CountedBut
    <2>4. M!Owed(r)' = due
      BY DEF M!Owed
    <2> QED
      BY <2>3
  <1>7. DOMAIN x1 \subseteq DOMAIN x1' /\ x3 \subseteq x3' /\ x3' \ x3 = {} /\ DOMAIN x1' = DOMAIN x1
    OBVIOUS
  <1> QED
    BY <1>2, <1>3, <1>4, <1>5, <1>6, <1>7, RequestStep

LEMMA ChecksStep ==
  ASSUME M!MetricsInv, NEW c \in M!Clients, M!Checks(c)
  PROVE  M!MetricsInv'
  <1> PICK q : q = x5[c]
    OBVIOUS
  <1>1. q # M!None /\ q.stage = "check" /\ UNCHANGED <<x1, x2, x3, x4, x6, x7, x8>>
    BY DEF M!Checks, M!At
  <1>2. q \in M!RequestUnderWay /\ M!RequestFits(q)
    BY <1>1, UnderWay
  <1>3. x1 \in M!Tables /\ x2' \subseteq M!Runs /\ x6' \in Nat /\ x8' \subseteq M!Runs
    BY <1>1 DEF M!MetricsInv, M!MetricsTyped
  <1>4. M!Owed(q) = {}
    BY <1>1 DEF M!Owed
  <1>5. CASE q.kind \in {"graph", "status"}
    <2> PICK r : r = [q EXCEPT !.stage = "save", !.fresh = DOMAIN q.rows \ DOMAIN x1]
      OBVIOUS
    <2>1. x5' = [x5 EXCEPT ![c] = r]
      BY <1>5 DEF M!Checks, M!Goes
    <2>2. DOMAIN q.rows \subseteq M!Runs
      BY <1>2, TableRuns DEF M!RequestUnderWay
    <2>3. /\ r \in M!RequestUnderWay /\ r.kind = q.kind /\ r.stage = "save" /\ r.points = q.points /\ r.rows = q.rows
          /\ r.fresh = DOMAIN r.rows \ DOMAIN x1
      BY <1>2, <2>2 DEF M!RequestUnderWay
    <2>4. M!RequestFits(r)
      BY <1>2, <1>5, <2>3 DEF M!RequestFits, M!PointsFit
    <2>5. M!StillSo(r) /\ M!Owed(r) = {}
      BY <2>3 DEF M!StillSo, M!Owed
    <2> QED
      BY <1>1, <1>3, <1>4, <2>1, <2>3, <2>4, <2>5, QuietStep DEF MaybeRequest
  <1>6. CASE q.kind = "log"
    <2> PICK r : r = [q EXCEPT !.stage = "label"]
      OBVIOUS
    <2>1. x5' = [x5 EXCEPT ![c] = r]
      BY <1>6 DEF M!Checks, M!Goes
    <2>2. r \in M!RequestUnderWay /\ r.kind = q.kind /\ r.stage = "label" /\ r.points = q.points
      BY <1>2 DEF M!RequestUnderWay
    <2>3. M!RequestFits(r)
      BY <1>2, <1>6, <2>2 DEF M!RequestFits, M!PointsFit
    <2> QED
      BY <1>1, <1>3, <1>6, <2>1, <2>2, <2>3, QuietStep DEF MaybeRequest
  <1>7. CASE q.kind \in M!SystemMetrics
    <2> PICK P : P = M!BackfillPoints(q.kind)
      OBVIOUS
    <2> PICK r : r = [q EXCEPT !.stage = "clear", !.points = P]
      OBVIOUS
    <2>1. x5' = [x5 EXCEPT ![c] = r]
      BY <1>7 DEF M!Checks, M!Goes, M!SystemMetrics
    <2>2. Measured(q.kind, P) /\ (q.kind = "run_count" => {p.time : p \in P} = DOMAIN x1)
      BY <1>3, <1>7, BackfillFacts
    <2>3. P \subseteq M!MetricPoint
      BY <2>2 DEF Measured
    <2>4. /\ r \in M!RequestUnderWay /\ r.kind = q.kind /\ r.stage = "clear" /\ r.points = P
          /\ r.fresh = q.fresh /\ r.rows = q.rows
      BY <1>2, <2>3 DEF M!RequestUnderWay
    <2>5. M!RequestFits(r)
      <3>1. M!PointsFit(r) /\ \A p \in r.points : p.label.name = r.kind
        BY <1>7, <2>2, <2>4 DEF M!PointsFit, Measured, M!SystemMetrics, M!IsCount
      <3>2. r.fresh \subseteq DOMAIN r.rows
        BY <1>2, <2>4 DEF M!RequestFits
      <3> QED
        BY <1>7, <2>4, <3>1, <3>2 DEF M!RequestFits, M!SystemMetrics
    <2>6. M!StillSo(r) /\ M!Owed(r) = {}
      BY <2>2, <2>4 DEF M!StillSo, M!Owed
    <2> QED
      BY <1>1, <1>3, <1>4, <2>1, <2>4, <2>5, <2>6, QuietStep DEF MaybeRequest
  <1> QED
    BY <1>2, <1>5, <1>6, <1>7 DEF M!RequestUnderWay

LEMMA LabelsStep ==
  ASSUME M!MetricsInv, NEW c \in M!Clients, M!LooksUpLabels(c)
  PROVE  M!MetricsInv'
  <1> PICK q : q = x5[c]
    OBVIOUS
  <1> PICK labels : labels = {p.label : p \in q.points}
    OBVIOUS
  <1> PICK r : r = [q EXCEPT !.stage = "insert", !.new = labels \ x3]
    OBVIOUS
  <1>1. q # M!None /\ q.stage = "label" /\ UNCHANGED <<x1, x2, x3, x4, x6, x7, x8>>
    BY DEF M!LooksUpLabels, M!At
  <1>2. q \in M!RequestUnderWay /\ M!RequestFits(q) /\ (~x7 /\ q.kind # "log" => M!StillSo(q))
    BY <1>1, UnderWay
  <1>3. x2' \subseteq M!Runs /\ x6' \in Nat /\ x8' \subseteq M!Runs
    BY <1>1 DEF M!MetricsInv, M!MetricsTyped
  <1>4. x5' = [x5 EXCEPT ![c] = r]
    BY DEF M!LooksUpLabels, M!Goes
  <1>5. labels \subseteq M!Label
    BY <1>2 DEF M!RequestUnderWay, M!MetricPoint
  <1>6. /\ r \in M!RequestUnderWay /\ r.kind = q.kind /\ r.stage = "insert" /\ r.points = q.points
        /\ r.rows = q.rows /\ r.new = labels \ x3
    BY <1>2, <1>5 DEF M!RequestUnderWay
  <1>7. M!RequestFits(r)
    <2>1. M!PointsFit(r)
      BY <1>2, <1>6 DEF M!RequestFits, M!PointsFit
    <2>2. labels = {p.label : p \in r.points} /\ r.new \subseteq labels /\ labels \subseteq x3 \cup r.new
      BY <1>6
    <2> QED
      BY <1>2, <1>6, <2>1, <2>2 DEF M!RequestFits
  <1>8. M!StillSo(r)
    BY <1>6 DEF M!StillSo
  <1>9. M!Owed(r) = M!Owed(q)
    <2>1. r # M!None
      BY <1>6, ServedFacts DEF MaybeRequest, M!None, M!RequestUnderWay
    <2> QED
      BY <1>1, <1>6, <2>1 DEF M!Owed
  <1> QED
    BY <1>1, <1>3, <1>4, <1>6, <1>7, <1>8, <1>9, QuietStep DEF MaybeRequest

\* Sending a request again, or giving it up: what it owes is counted no more.
LEMMA AgainStep ==
  ASSUME M!MetricsInv, NEW c \in M!Clients, x5[c] # M!None,
         M!SendsAgain(c) \/ (M!Goes(c, M!None) /\ UNCHANGED x6),
         UNCHANGED <<x1, x3, x4, x7>>, x2' \subseteq M!Runs, x8' = x8 \cup M!Owed(x5[c])
  PROVE  M!MetricsInv'
  <1> PICK q : q = x5[c]
    OBVIOUS
  <1>1. q # M!None /\ q \in M!RequestUnderWay /\ q \in MaybeRequest /\ M!RequestFits(q) /\ x6 \in Nat /\ x8 \subseteq M!Runs
    BY UnderWay DEF M!MetricsInv, M!MetricsTyped
  <1>2. M!Owed(q) \subseteq M!Runs
    BY <1>1, OwesRuns
  <1>3. x8' \subseteq M!Runs /\ (q.kind = "log" => x8' = x8)
    <2>1. q.kind = "log" => M!Owed(q) = {}
      BY <1>1, LogsNoCounts DEF M!TouchesSystem
    <2> QED
      BY <1>1, <1>2, <2>1
  <1>4. CASE M!Goes(c, M!None) /\ UNCHANGED x6
    <2> PICK r : r = M!None
      OBVIOUS
    <2>1. x5' = [x5 EXCEPT ![c] = r] /\ x6' \in Nat /\ r \in MaybeRequest
      BY <1>1, <1>4 DEF M!Goes, MaybeRequest
    <2>2. M!Owed(r) = {}
      BY DEF M!Owed
    <2>3. r # M!None => r.kind = q.kind /\ M!RequestFits(r)
      OBVIOUS
    <2>4. ~x7 /\ q.kind # "log" => /\ r # M!None => M!StillSo(r)
                                   /\ M!Owed(r) \subseteq M!Owed(q)
                                   /\ M!Owed(r) \cup x8' = M!Owed(q) \cup x8
      BY <2>2
    <2> QED
      BY <1>1, <1>3, <2>1, <2>3, <2>4, QuietStep
  <1>5. CASE M!SendsAgain(c) /\ ~(M!Goes(c, M!None) /\ UNCHANGED x6)
    <2> PICK n : n = x6
      OBVIOUS
    <2> PICK P : P = IF q.kind = "log" THEN q.points ELSE {}
      OBVIOUS
    <2> PICK r : r = [q EXCEPT !.stage = "check", !.n = n, !.fresh = {}, !.new = {}, !.points = P]
      OBVIOUS
    <2>1. /\ q.kind \in {"graph", "log"} /\ x6' = x6 + 1
          /\ M!Goes(c, [q EXCEPT !.stage = "check", !.n = n, !.fresh = {}, !.new = {},
                                 !.points = IF q.kind = "log" THEN q.points ELSE {}])
      BY <1>5 DEF M!SendsAgain
    <2>2. x5' = [x5 EXCEPT ![c] = r]
      BY <2>1 DEF M!Goes
    <2>3. r \in M!RequestUnderWay /\ r.kind = q.kind /\ r.stage = "check" /\ r.points = P
      BY <1>1 DEF M!RequestUnderWay
    <2>4. M!RequestFits(r)
      <3>1. M!PointsFit(r)
        BY <1>1, <2>3 DEF M!RequestFits, M!PointsFit
      <3> QED
        BY <2>1, <2>3, <3>1 DEF M!RequestFits
    <2>5. M!StillSo(r) /\ M!Owed(r) = {}
      BY <2>3 DEF M!StillSo, M!Owed
    <2>6. x6' \in Nat
      BY <1>1, <2>1
    <2>7. ~x7 /\ q.kind # "log" => /\ r # M!None => M!StillSo(r)
                                   /\ M!Owed(r) \subseteq M!Owed(q)
                                   /\ M!Owed(r) \cup x8' = M!Owed(q) \cup x8
      BY <2>5
    <2> QED
      BY <1>1, <1>3, <2>2, <2>3, <2>4, <2>6, <2>7, QuietStep DEF MaybeRequest
  <1> QED
    BY <1>4, <1>5

LEMMA EndSteps ==
  ASSUME M!MetricsInv, NEW c \in M!Clients,
         M!DetectsRace(c) \/ M!Fails(c) \/ M!Answers(c) \/ M!AnswerIsLost(c)
  PROVE  M!MetricsInv'
  <1>1. x5[c] # M!None /\ UNCHANGED <<x1, x3, x4, x7>>
    BY DEF M!DetectsRace, M!Fails, M!Answers, M!AnswerIsLost, M!At
  <1>2. x2' \subseteq M!Runs
    BY DEF M!DetectsRace, M!Fails, M!Answers, M!AnswerIsLost, M!MetricsInv, M!MetricsTyped
  <1>3. M!SendsAgain(c) \/ (M!Goes(c, M!None) /\ UNCHANGED x6)
    BY DEF M!DetectsRace, M!Fails, M!Answers, M!AnswerIsLost
  <1>4. x8' = x8 \cup M!Owed(x5[c])
    <2>1. CASE M!Fails(c)
      BY <2>1 DEF M!Fails
    <2>2. CASE ~M!Fails(c)
      BY <2>2 DEF M!DetectsRace, M!Answers, M!AnswerIsLost, M!At, M!Owed
    <2> QED
      BY <2>1, <2>2
  <1> QED
    BY <1>1, <1>2, <1>3, <1>4, AgainStep

LEMMA SavesStep ==
  ASSUME M!MetricsInv, NEW c \in M!Clients, M!Saves(c)
  PROVE  M!MetricsInv'
  <1> PICK q : q = x5[c]
    OBVIOUS
  <1> PICK T : T = x1'
    OBVIOUS
  <1>1. q # M!None /\ q.stage = "save" /\ UNCHANGED <<x3, x4, x6, x7, x8>>
    BY DEF M!Saves, M!At
  <1>2. q \in M!RequestUnderWay /\ M!RequestFits(q) /\ (~x7 /\ q.kind # "log" => M!StillSo(q))
    BY <1>1, UnderWay
  <1>3. q.kind \in {"graph", "status"} /\ q.rows \in M!Tables /\ q.fresh \in SUBSET M!Runs
    BY <1>1, <1>2 DEF M!RequestFits, M!RequestUnderWay
  <1>4. x1 \in M!Tables /\ x2 \subseteq M!Runs /\ M!MetricsTyped
    BY DEF M!MetricsInv, M!MetricsTyped
  <1> DEFINE Row == [state : M!Ended \cup {"SCHEDULED"}, cloned : BOOLEAN]
  <1>5. /\ DOMAIN q.rows \subseteq M!Runs /\ \A r \in DOMAIN q.rows : q.rows[r] \in Row
        /\ DOMAIN x1 \subseteq M!Runs /\ \A r \in DOMAIN x1 : x1[r] \in Row
    BY <1>3, <1>4, TableRuns
  <1>6. T \in M!Tables /\ DOMAIN T = DOMAIN x1 \cup DOMAIN q.rows /\ x2' \subseteq M!Runs
    <2>1. T = [r \in DOMAIN x1 \cup DOMAIN q.rows |-> IF r \in DOMAIN q.rows THEN q.rows[r] ELSE x1[r]]
      BY DEF M!Saves
    <2> HIDE DEF Row
    <2>2. T \in [DOMAIN x1 \cup DOMAIN q.rows -> Row] /\ DOMAIN x1 \cup DOMAIN q.rows \in SUBSET M!Runs
      BY <1>5, <2>1
    <2>3. T \in M!Tables
      BY <2>2 DEF M!Tables, Row
    <2>4. x2' \subseteq M!Runs
      BY <1>4, <1>5 DEF M!Saves
    <2> QED
      BY <2>1, <2>3, <2>4
  <1> PICK P : P = M!RunPoints(q)
    OBVIOUS
  <1> PICK r : r = [q EXCEPT !.points = P, !.stage = IF P = {} THEN "jobs" ELSE "label"]
    OBVIOUS
  <1>7. x5' = [x5 EXCEPT ![c] = r]
    BY DEF M!Saves, M!Goes
  <1>8. /\ \A p \in P : p \in M!MetricPoint /\ M!SystemLabel(p.label) /\ (M!IsCount(p) => p = M!CountOf(p.time) /\ p.time \in M!Runs)
        /\ q.kind = "graph" =>
             {p.time : p \in P} = q.fresh /\ \A p \in P : M!IsCount(p)
        /\ q.kind = "status" => \A p \in P : ~M!IsCount(p)
    <2>1. CASE q.kind = "status"
      <3>1. P = M!EventPoints("run_state_changed", q.rows)
        BY <2>1 DEF M!RunPoints
      <3> QED
        BY <1>3, <2>1, <3>1, EventFacts
    <2>2. CASE q.kind = "graph"
      <3> PICK F : F = M!Restrict(q.rows, q.fresh)
        OBVIOUS
      <3>1. P = M!EventPoints("run_created", F)
        BY <2>2 DEF M!RunPoints
      <3>2. ASSUME q.fresh \subseteq DOMAIN q.rows
            PROVE  F \in M!Tables /\ DOMAIN F = q.fresh
        <4>1. F = [a \in q.fresh |-> q.rows[a]]
          BY DEF M!Restrict
        <4>2. F \in [q.fresh -> Row]
          BY <1>5, <3>2, <4>1
        <4> QED
          BY <1>3, <4>1, <4>2 DEF M!Tables
      <3>3. ASSUME q.fresh \subseteq DOMAIN q.rows
            PROVE  Measured("run_count", P) /\ {p.time : p \in P} = q.fresh
        BY <3>1, <3>2, <3>3, EventFacts
      <3>4. q.fresh \subseteq DOMAIN q.rows
        BY <1>2 DEF M!RequestFits
      <3> QED
        BY <2>2, <3>3, <3>4 DEF Measured, M!IsCount
    <2> QED
      BY <1>3, <2>1, <2>2
  <1>9. /\ r \in M!RequestUnderWay /\ r.kind = q.kind /\ r.points = P /\ r.rows = q.rows /\ r.fresh = q.fresh
        /\ r.stage = IF P = {} THEN "jobs" ELSE "label"
    <2>1. P \subseteq M!MetricPoint
      BY <1>8
    <2> QED
      BY <1>2, <2>1 DEF M!RequestUnderWay
  <1>10. r.stage \in {"jobs", "label"} /\ r \in MaybeRequest
    BY <1>9 DEF MaybeRequest
  <1>11. M!MetricsTyped'
    <2>1. x1' \in M!Tables /\ x2' \subseteq M!Runs
      BY <1>6
    <2> QED
      BY <1>1, <1>4, <1>7, <1>10, <2>1, StepTyped DEF M!MetricsTyped
  <1>12. M!ValuesAreLabelled' /\ M!Counts' = M!Counts
    BY <1>1 DEF M!MetricsInv, M!ValuesAreLabelled, M!Counts
  <1>13. M!RequestFits(r)'
    <2>1. M!PointsFit(r)
      BY <1>3, <1>8, <1>9 DEF M!PointsFit
    <2>2. r.fresh \subseteq DOMAIN r.rows /\ (r.kind = "status" => DOMAIN r.rows \subseteq DOMAIN x1)
      BY <1>2, <1>9 DEF M!RequestFits
    <2>3. r.kind = "status" => DOMAIN r.rows \subseteq DOMAIN x1'
      BY <1>6, <2>2
    <2> QED
      BY <1>10, <2>1, <2>2, <2>3 DEF M!RequestFits, M!PointsFit
  <1>14. M!StillSo(r)'
    BY <1>10 DEF M!StillSo
  <1>15. ASSUME ~x7, CountedBut(M!Owed(q)) PROVE CountedBut(M!Owed(r))'
    <2>1. M!Owed(q) = {}
      BY <1>1 DEF M!Owed
    <2>2. M!Owed(r) = {p.time : p \in {a \in P : M!IsCount(a)}}
      <3>1. r # M!None
        <4>1. r.kind # "none"
          BY <1>3, <1>9
        <4> QED
          BY <4>1 DEF M!None
      <3> QED
        BY <1>9, <3>1 DEF M!Owed
    <2>3. M!Owed(r) = DOMAIN T \ DOMAIN x1 /\ DOMAIN x1 \subseteq DOMAIN T
      <3>1. CASE q.kind = "status"
        <4>1. M!Owed(r) = {} /\ DOMAIN q.rows \subseteq DOMAIN x1
          BY <1>2, <1>8, <2>2, <3>1 DEF M!RequestFits
        <4> QED
          BY <1>6, <4>1
      <3>2. CASE q.kind = "graph"
        <4>1. M!Owed(r) = q.fresh
          BY <1>8, <2>2, <3>2
        <4>2. q.fresh = DOMAIN q.rows \ DOMAIN x1
          BY <1>1, <1>2, <1>15, <3>2 DEF M!StillSo
        <4> QED
          BY <1>6, <4>1, <4>2
      <3> QED
        BY <1>3, <3>1, <3>2
    <2>4. /\ \A v \in M!Counts : v.label = M!CountOf(v.time).label /\ v.value = 1
          /\ \A v, w \in M!Counts : v.time = w.time => v = w
          /\ {v.time : v \in M!Counts} = DOMAIN x1 \ x8
      BY <1>15, <2>1 DEF CountedBut
    <2> PICK due : due = M!Owed(r)
      OBVIOUS
    <2> PICK V : V = M!Counts
      OBVIOUS
    <2>5. {v.time : v \in V} = DOMAIN T \ (due \cup x8) /\ due \subseteq DOMAIN T
      BY <2>3, <2>4
    <2>6. CountedBut(due)'
      BY <1>1, <1>12, <2>4, <2>5 DEF CountedBut
    <2> QED
      BY <2>6
  <1>16. DOMAIN x1 \subseteq DOMAIN x1' /\ x3 \subseteq x3' /\ x3' \ x3 = {}
    BY <1>1, <1>6
  <1>17. q.kind # "log"
    BY <1>3
  <1>18. r # M!None => r.kind = q.kind /\ M!RequestFits(r)'
    BY <1>9, <1>13
  <1>19. ~x7 /\ q.kind # "log" => /\ r # M!None => M!StillSo(r)'
                                  /\ CountedBut(M!Owed(q)) => CountedBut(M!Owed(r))'
    BY <1>14, <1>15
  <1>20. \A l \in x3' \ x3 : l.name = "accuracy" \/ M!SystemLabel(l)
    BY <1>16
  <1> QED
    BY <1>1, <1>7, <1>10, <1>11, <1>12, <1>16, <1>17, <1>18, <1>19, <1>20, RequestStep

LEMMA ClearsStep ==
  ASSUME M!MetricsInv, NEW c \in M!Clients, M!Clears(c)
  PROVE  M!MetricsInv'
  <1> PICK q : q = x5[c]
    OBVIOUS
  <1> PICK r : r = [q EXCEPT !.stage = "label"]
    OBVIOUS
  <1> PICK V : V = x4'
    OBVIOUS
  <1>1. /\ q # M!None /\ q.stage = "clear" /\ UNCHANGED <<x1, x2, x3, x6, x7, x8>>
        /\ V = {v \in x4 : v.label.name # q.kind} /\ x5' = [x5 EXCEPT ![c] = r]
    BY DEF M!Clears, M!Clear, M!At, M!Goes
  <1>2. q \in M!RequestUnderWay /\ M!RequestFits(q) /\ (~x7 /\ q.kind # "log" => M!StillSo(q)) /\ q.kind # "none"
    BY <1>1, UnderWay
  <1>3. /\ r \in M!RequestUnderWay /\ r \in MaybeRequest /\ r.kind = q.kind /\ r.stage = "label"
        /\ r.points = q.points /\ r.rows = q.rows /\ r.fresh = q.fresh
    BY <1>2 DEF M!RequestUnderWay, MaybeRequest
  <1>4. M!MetricsTyped'
    <2>1. M!MetricsTyped
      BY DEF M!MetricsInv
    <2> QED
      BY <1>1, <1>3, <2>1, StepTyped DEF M!MetricsTyped
  <1>5. M!ValuesAreLabelled'
    BY <1>1 DEF M!MetricsInv, M!ValuesAreLabelled
  <1>6. r # M!None => r.kind = q.kind /\ M!RequestFits(r)'
    <2>1. M!PointsFit(r)
      BY <1>2, <1>3 DEF M!RequestFits, M!PointsFit
    <2>2. M!RequestFits(r)
      BY <1>2, <1>3, <2>1 DEF M!RequestFits
    <2> QED
      BY <1>1, <1>3, <2>2 DEF M!RequestFits, M!PointsFit
  <1>7. \A p \in q.points : p.label.name = q.kind
    BY <1>1, <1>2 DEF M!RequestFits
  <1>8. M!Counts' = {v \in V : M!IsCount(v)}
    BY DEF M!Counts, M!IsCount
  <1>9. M!Owed(q) = {} /\ M!Owed(r) = {p.time : p \in {a \in q.points : M!IsCount(a)}}
    <2>1. r # M!None
      <3>1. r.kind # "none"
        BY <1>2, <1>3
      <3> QED
        BY <3>1 DEF M!None
    <2> QED
      BY <1>1, <1>3, <2>1 DEF M!Owed
  <1>10. q.kind # "run_count" => M!Counts' = M!Counts /\ M!Owed(r) = {}
    BY <1>1, <1>7, <1>8, <1>9 DEF M!Counts, M!IsCount
  <1>11. ASSUME ~x7, q.kind # "log", CountedBut(M!Owed(q)) PROVE CountedBut(M!Owed(r))'
    <2> PICK due : due = M!Owed(r)
      OBVIOUS
    <2>1. CASE q.kind # "run_count"
      <3>1. CountedBut(due)'
        BY <1>1, <1>9, <1>10, <1>11, <2>1 DEF CountedBut
      <3> QED
        BY <3>1
    <2>2. CASE q.kind = "run_count"
      <3>1. M!Counts' = {} /\ due = {p.time : p \in q.points}
        BY <1>1, <1>7, <1>8, <1>9, <2>2 DEF M!IsCount
      <3>2. due = DOMAIN x1
        BY <1>1, <1>2, <1>11, <2>2, <3>1 DEF M!StillSo
      <3>3. CountedBut(due)'
        BY <1>1, <3>1, <3>2 DEF CountedBut
      <3> QED
        BY <3>3
    <2> QED
      BY <2>1, <2>2
  <1>12. ~x7 /\ q.kind # "log" => /\ r # M!None => M!StillSo(r)'
                                  /\ CountedBut(M!Owed(q)) => CountedBut(M!Owed(r))'
    <2>1. M!StillSo(r)'
      BY <1>3 DEF M!StillSo
    <2> QED
      BY <1>11, <2>1
  <1>13. DOMAIN x1 \subseteq DOMAIN x1' /\ x3 \subseteq x3' /\ x3' \ x3 = {} /\ DOMAIN x1' = DOMAIN x1 /\ x7' = x7
    BY <1>1
  <1>14. \A l \in x3' \ x3 : l.name = "accuracy" \/ M!SystemLabel(l)
    BY <1>13
  <1>15. q.kind = "log" => /\ DOMAIN x1' = DOMAIN x1 /\ M!Counts' = M!Counts /\ x8' = x8
                           /\ \A l \in x3' \ x3 : l.name = "accuracy"
    BY <1>1, <1>10, <1>13
  <1> QED
    BY <1>1, <1>3, <1>4, <1>5, <1>6, <1>12, <1>13, <1>14, <1>15, RequestStep

LEMMA InsertsStep ==
  ASSUME M!MetricsInv, NEW c \in M!Clients, M!Inserts(c)
  PROVE  M!MetricsInv'
  <1> PICK q : q = x5[c]
    OBVIOUS
  <1> PICK r : r = [q EXCEPT !.stage = "jobs"]
    OBVIOUS
  <1> PICK V : V = x4'
    OBVIOUS
  <1> DEFINE Stored(p) == [by |-> q.n, label |-> p.label, time |-> p.time, value |-> p.value]
             New == {Stored(p) : p \in q.points}
             Values == [by : Nat, label : M!Label, time : 1 .. 4, value : 0 .. 2]
  <1>1. /\ q # M!None /\ q.stage = "insert" /\ UNCHANGED <<x1, x2, x6, x7>>
        /\ x3' = x3 \cup q.new /\ V = x4 \cup New /\ x8' = x8 \ M!Owed(q) /\ x5' = [x5 EXCEPT ![c] = r]
    BY DEF M!Inserts, M!At, M!Goes
  <1>2. q \in M!RequestUnderWay /\ M!RequestFits(q) /\ q.kind # "none"
    BY <1>1, UnderWay
  <1>3. /\ r \in M!RequestUnderWay /\ r \in MaybeRequest /\ r.kind = q.kind /\ r.stage = "jobs"
        /\ r.points = q.points /\ r.rows = q.rows /\ r.fresh = q.fresh
    BY <1>2 DEF M!RequestUnderWay, MaybeRequest
  <1>4. \A p \in q.points : Stored(p) \in Values
    BY <1>2 DEF M!RequestUnderWay, M!MetricPoint
  <1>5. \A p : Stored(p).label = p.label /\ Stored(p).time = p.time /\ Stored(p).value = p.value
    OBVIOUS
  <1> HIDE DEF Stored
  <1>6. M!MetricsTyped'
    <2>1. M!MetricsTyped /\ q.new \subseteq M!Label
      BY <1>2 DEF M!MetricsInv, M!RequestUnderWay
    <2>2. x3' \subseteq M!Label /\ x4' \subseteq Values /\ x8' \subseteq M!Runs
      BY <1>1, <1>4, <2>1 DEF M!MetricsTyped
    <2> QED
      BY <1>1, <1>3, <2>1, <2>2, StepTyped DEF M!MetricsTyped
  <1>7. /\ \A p \in q.points : p.label \in x3 \cup q.new
        /\ \A l \in q.new : \E p \in q.points : l = p.label
    BY <1>1, <1>2 DEF M!RequestFits
  <1>8. M!ValuesAreLabelled'
    <2>1. \A v \in V : v.label \in x3 \cup q.new
      BY <1>1, <1>5, <1>7 DEF M!MetricsInv, M!ValuesAreLabelled
    <2> QED
      BY <1>1, <2>1 DEF M!ValuesAreLabelled
  <1>9. M!PointsFit(q)
    BY <1>2 DEF M!RequestFits
  <1>10. /\ \A l \in q.new : l.name = "accuracy" \/ M!SystemLabel(l)
         /\ q.kind = "log" => \A l \in q.new : l.name = "accuracy"
    BY <1>7, <1>9 DEF M!PointsFit
  <1>11. M!RequestFits(r)'
    <2>1. M!PointsFit(r) /\ r.fresh \subseteq DOMAIN r.rows /\ (r.kind = "status" => DOMAIN r.rows \subseteq DOMAIN x1)
      BY <1>2, <1>3 DEF M!RequestFits, M!PointsFit
    <2> QED
      BY <1>1, <1>3, <2>1 DEF M!RequestFits, M!PointsFit
  <1> PICK points : points = {p \in q.points : M!IsCount(p)}
    OBVIOUS
  <1>12. M!Owed(q) = {p.time : p \in points} /\ M!Owed(r) = {}
    BY <1>1, <1>3 DEF M!Owed
  <1>13. M!Counts' = M!Counts \cup {Stored(p) : p \in points}
    <2>1. M!Counts' = {v \in V : M!IsCount(v)}
      BY DEF M!Counts, M!IsCount
    <2>2. \A p \in q.points : M!IsCount(Stored(p)) <=> M!IsCount(p)
      BY <1>5 DEF M!IsCount
    <2> QED
      BY <1>1, <1>12, <2>1, <2>2 DEF M!Counts
  <1>14. q.kind = "log" => M!Counts' = M!Counts /\ x8' = x8
    <2>1. q.kind = "log" => points = {}
      BY <1>9 DEF M!PointsFit, M!IsCount
    <2> QED
      BY <1>1, <1>12, <1>13, <2>1
  <1>15. ASSUME ~x7, q.kind # "log", CountedBut(M!Owed(q)) PROVE CountedBut(M!Owed(r))'
    <2> PICK due : due = points
      OBVIOUS
    <2> PICK stored : stored = M!Counts
      OBVIOUS
    <2> PICK N : N = M!Counts'
      OBVIOUS
    <2> PICK R : R = DOMAIN x1 \ (x8 \ M!Owed(q))
      OBVIOUS
    <2>1. \A p \in due : p = M!CountOf(p.time)
      BY <1>9, <1>15 DEF M!PointsFit
    <2>2. N = stored \cup {Stored(p) : p \in due}
      BY <1>13
    <2>3. /\ \A v \in stored : v.label = M!CountOf(v.time).label /\ v.value = 1
          /\ \A v, w \in stored : v.time = w.time => v = w
          /\ {v.time : v \in stored} = R \ {p.time : p \in due}
          /\ {p.time : p \in due} \subseteq R
      <3>1. M!Owed(q) = {p.time : p \in due}
        BY <1>12
      <3>2. /\ {v.time : v \in stored} = DOMAIN x1 \ (M!Owed(q) \cup x8)
            /\ M!Owed(q) \subseteq DOMAIN x1
        BY <1>15 DEF CountedBut
      <3>3. R \ M!Owed(q) = DOMAIN x1 \ (M!Owed(q) \cup x8) /\ M!Owed(q) \subseteq R
        BY <3>2
      <3> QED
        BY <1>15, <3>1, <3>2, <3>3 DEF CountedBut
    <2>4. \A t : M!CountOf(t).value = 1
      BY DEF M!CountOf, M!Point
    <2>5. \A v \in N : v.label = M!CountOf(v.time).label /\ v.value = 1
      BY <1>5, <2>1, <2>2, <2>3, <2>4
    <2>6. \A p \in due : Stored(p).time = p.time /\ p.time \in R /\ p.time \notin {v.time : v \in stored}
      BY <1>5, <2>3
    <2>7. \A v, w \in N : v.time = w.time => v = w
      <3> SUFFICES ASSUME NEW v \in N, NEW w \in N, v.time = w.time PROVE v = w
        OBVIOUS
      <3>1. CASE v \in stored /\ w \in stored
        BY <2>3, <3>1
      <3>2. ASSUME NEW p \in due, NEW o \in due, v = Stored(p), w = Stored(o) PROVE v = w
        <4>1. p.time = o.time
          BY <2>6, <3>2
        <4>2. p = M!CountOf(p.time) /\ o = M!CountOf(o.time)
          BY <2>1
        <4>3. p = o
          BY <4>1, <4>2, Zenon
        <4> QED
          BY <3>2, <4>3
      <3>3. \A p \in due : (v = Stored(p) => w \notin stored) /\ (w = Stored(p) => v \notin stored)
        BY <2>6
      <3> QED
        BY <2>2, <3>1, <3>2, <3>3
    <2>8. {v.time : v \in N} = R
      <3>1. \A t : t \in {v.time : v \in N} <=> \E v \in N : v.time = t
        OBVIOUS
      <3>2. \A t : t \in {v.time : v \in stored} <=> \E v \in stored : v.time = t
        OBVIOUS
      <3>3. \A t : t \in {p.time : p \in due} <=> \E p \in due : p.time = t
        OBVIOUS
      <3>4. \A v : v \in N <=> v \in stored \/ \E p \in due : v = Stored(p)
        BY <2>2
      <3>5. \A t : (\E v \in N : v.time = t) <=> t \in {v.time : v \in stored} \/ t \in {p.time : p \in due}
        BY <2>6, <3>2, <3>3, <3>4
      <3> QED
        BY <2>3, <3>1, <3>5
    <2> PICK E : E = M!Owed(r)
      OBVIOUS
    <2>9. E = {} /\ R = DOMAIN x1' \ x8'
      BY <1>1, <1>12
    <2>10. CountedBut(E)'
      BY <2>5, <2>7, <2>8, <2>9 DEF CountedBut
    <2> QED
      BY <2>10
  <1>16. ~x7 /\ q.kind # "log" => /\ r # M!None => M!StillSo(r)'
                                  /\ CountedBut(M!Owed(q)) => CountedBut(M!Owed(r))'
    <2>1. M!StillSo(r)'
      BY <1>3 DEF M!StillSo
    <2> QED
      BY <1>15, <2>1
  <1>17. DOMAIN x1 \subseteq DOMAIN x1' /\ x3 \subseteq x3' /\ DOMAIN x1' = DOMAIN x1 /\ x7' = x7
    BY <1>1
  <1>18. \A l \in x3' \ x3 : l.name = "accuracy" \/ M!SystemLabel(l)
    BY <1>1, <1>10
  <1>19. q.kind = "log" => /\ DOMAIN x1' = DOMAIN x1 /\ M!Counts' = M!Counts /\ x8' = x8
                           /\ \A l \in x3' \ x3 : l.name = "accuracy"
    BY <1>1, <1>10, <1>14, <1>17
  <1>20. r # M!None => r.kind = q.kind /\ M!RequestFits(r)'
    BY <1>3, <1>11
  <1> QED
    BY <1>1, <1>3, <1>6, <1>8, <1>16, <1>17, <1>18, <1>19, <1>20, RequestStep

LEMMA MetricsStep ==
  ASSUME M!MetricsInv, M!Next
  PROVE  M!MetricsInv'
  <1>1. CASE M!SendGraph \/ M!SendStatus \/ M!LogMetric \/ M!Backfill
    BY <1>1, SendSteps
  <1>2. ASSUME NEW c \in M!Clients,
               M!Checks(c) \/ M!DetectsRace(c) \/ M!Saves(c) \/ M!Clears(c) \/ M!LooksUpLabels(c)
               \/ M!Inserts(c) \/ M!Fails(c) \/ M!Answers(c) \/ M!AnswerIsLost(c)
        PROVE  M!MetricsInv'
    BY <1>2, ChecksStep, EndSteps, SavesStep, ClearsStep, LabelsStep, InsertsStep
  <1> QED
    BY <1>1, <1>2 DEF M!Next

LEMMA MetricsStutters ==
  ASSUME M!MetricsInv, UNCHANGED <<x1, x2, x3, x4, x5, x6, x7, x8>>
  PROVE  M!MetricsInv'
  <1> PICK s : s = x5
    OBVIOUS
  <1>1. M!MetricsTyped' /\ M!ValuesAreLabelled' /\ \A l \in x3' : l.name = "accuracy" \/ M!SystemLabel(l)
    BY DEF M!MetricsInv, M!MetricsTyped, M!ValuesAreLabelled
  <1>2. ASSUME NEW e PROVE (M!RequestFits(e) => M!RequestFits(e)') /\ (M!StillSo(e) => M!StillSo(e)')
    BY DEF M!RequestFits, M!PointsFit, M!StillSo
  <1>3. \A c \in M!Clients : s[c] # M!None => M!RequestFits(s[c])'
    BY <1>2 DEF M!MetricsInv
  <1>4. ASSUME ~x7
        PROVE  /\ \A c, d \in M!Clients : M!TouchesSystem(s[c]) /\ M!TouchesSystem(s[d]) => c = d
               /\ \A c \in M!Clients : M!TouchesSystem(s[c]) => M!StillSo(s[c])'
               /\ M!CountedOnce'
    <2>1. /\ \A c, d \in M!Clients : M!TouchesSystem(s[c]) /\ M!TouchesSystem(s[d]) => c = d
          /\ \A c \in M!Clients : M!TouchesSystem(s[c]) => M!StillSo(s[c])
          /\ M!CountedOnce
      BY <1>4 DEF M!MetricsInv
    <2>2. M!Counts' = M!Counts /\ M!Due' = M!Due
      BY DEF M!Counts, M!Due, M!Owed
    <2>3. M!CountedOnce'
      BY <2>1, <2>2 DEF M!CountedOnce
    <2> QED
      BY <1>2, <2>1, <2>3
  <1>5. s = x5' /\ x7' = x7
    OBVIOUS
  <1> QED
    BY <1>1, <1>3, <1>4, <1>5 DEF M!MetricsInv

LEMMA MetricsInit ==
  ASSUME M!Init
  PROVE  M!MetricsInv
  <1>1. /\ x1 = <<>> /\ x2 = {} /\ x3 = {} /\ x4 = {} /\ x6 = 0 /\ x7 = FALSE /\ x8 = {}
        /\ x5 = [c \in M!Clients |-> M!None]
    BY DEF M!Init
  <1>2. DOMAIN x1 = {} /\ x1 \in M!Tables
    <2>1. x1 = [r \in {} |-> r]
      BY <1>1
    <2>2. x1 \in [{} -> [state : M!Ended \cup {"SCHEDULED"}, cloned : BOOLEAN]]
      BY <2>1
    <2> QED
      BY <2>1, <2>2 DEF M!Tables
  <1>3. M!MetricsTyped
    BY <1>1, <1>2 DEF M!MetricsTyped
  <1>4. M!ValuesAreLabelled /\ \A l \in x3 : l.name = "accuracy" \/ M!SystemLabel(l)
    BY <1>1 DEF M!ValuesAreLabelled
  <1>5. \A c \in M!Clients : x5[c] = M!None /\ ~M!TouchesSystem(x5[c])
    BY <1>1 DEF M!TouchesSystem, M!None
  <1>6. M!Due = {} /\ M!Counts = {}
    BY <1>1, <1>5 DEF M!Due, M!Counts, M!Owed
  <1>7. M!CountedOnce
    BY <1>2, <1>6 DEF M!CountedOnce
  <1> QED
    BY <1>3, <1>4, <1>5, <1>7 DEF M!MetricsInv

\* Whenever no request is under way, each run saved is counted exactly once, however the counts
\* are split, but for the runs whose count went with a request that failed and that no backfill
\* has counted since, unless two requests that touch system metrics overlapped; and no value is
\* without its label.
THEOREM RunsAreCountedAlways == Spec => []RunsAreCounted
  <1> DEFINE I == subject = "metrics" => M!MetricsInv
  <1>1. Init => I
    BY MetricsInit DEF Init
  <1>2. I /\ [Next]_allVars => I'
    <2> SUFFICES ASSUME I, [Next]_allVars, subject' = "metrics" PROVE M!MetricsInv'
      OBVIOUS
    <2>1. CASE Next
      <3>1. subject = "metrics" /\ M!Next
        BY <2>1 DEF Next
      <3> QED
        BY <3>1, MetricsStep
    <2>2. CASE UNCHANGED allVars
      <3>1. M!MetricsInv /\ UNCHANGED <<x1, x2, x3, x4, x5, x6, x7, x8>>
        BY <2>2 DEF allVars
      <3> QED
        BY <3>1, MetricsStutters
    <2> QED
      BY <2>1, <2>2
  <1>3. I => RunsAreCounted
    BY QuietCounts DEF RunsAreCounted, M!MetricsInv
  <1> QED
    BY <1>1, <1>2, <1>3, PTL DEF Spec
===============================================================================
