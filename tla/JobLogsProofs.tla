----------------------------- MODULE JobLogsProofs -----------------------------
(***************************************************************************)
(* Theorems about JobLogs, for any number of lines, files, failures and    *)
(* requests and any size of the pipe, of the files and of the pages: first *)
(* the lines on their way to storage, then what the readers show of them.  *)
(***************************************************************************)
EXTENDS JobLogs, SequenceTheorems, FiniteSetTheorems, WellFoundedInduction, TLAPS

(***************************************************************************)
(* Sequences of sequences, laid end to end.                                *)
(***************************************************************************)
\* Every set of numbers has a least one.
LEMMA LeastNumber ==
  ASSUME NEW n \in Nat, NEW S \in SUBSET (0..n), S # {}
  PROVE  \E m \in S : \A k \in S : m <= k
  <1> DEFINE Below == {0..k : k \in S}
  <1>1. IsWellFoundedOn(StrictSubsetOrdering(0..n), FiniteSubsetsOf(0..n))
    BY FS_StrictSubsetOrderingWellFounded
  <1>2. Below \subseteq FiniteSubsetsOf(0..n) /\ Below # {}
    <2>1. \A k \in S : IsFiniteSet(0..k) /\ 0..k \subseteq 0..n
      BY FS_Interval
    <2> QED
      BY <2>1 DEF FiniteSubsetsOf
  <1>3. PICK X \in Below : \A Y \in Below : ~ (<<Y, X>> \in StrictSubsetOrdering(0..n))
    <2> HIDE DEF Below
    <2> QED
      BY <1>1, <1>2, WFMin
  <1>4. PICK m \in S : X = 0..m
    BY <1>3
  <1>5. ASSUME NEW k \in S, k < m PROVE FALSE
    <2>1. 0..k \subseteq 0..m /\ 0..k # 0..m
      BY <1>5
    <2>2. 0..k \in SUBSET (0..n) /\ 0..m \in SUBSET (0..n) /\ 0..k \in Below
      BY <1>2
    <2> QED
      BY <1>3, <1>4, <2>1, <2>2 DEF StrictSubsetOrdering
  <1> QED
    BY <1>5

\* g[i] is what the first i sequences of s make, up to the n-th.
Joins(s, n, g) == g = [i \in 1..n |-> IF i = 1 THEN s[i] ELSE g[i - 1] \o s[i]]

LEMMA JoinsUnique ==
  ASSUME NEW s, NEW n \in Nat, NEW g, NEW h, Joins(s, n, g), Joins(s, n, h)
  PROVE  \A i \in 1..n : g[i] = h[i]
  <1> DEFINE Wrong == {i \in 1..n : g[i] # h[i]}
  <1>1. SUFFICES ASSUME Wrong # {} PROVE FALSE
    OBVIOUS
  <1>2. PICK m \in Wrong : \A k \in Wrong : m <= k
    <2>1. Wrong \in SUBSET (0..n)
      OBVIOUS
    <2> HIDE DEF Wrong
    <2> QED
      BY <1>1, <2>1, LeastNumber
  <1>3. \A i \in 1..n : /\ g[i] = IF i = 1 THEN s[i] ELSE g[i - 1] \o s[i]
                        /\ h[i] = IF i = 1 THEN s[i] ELSE h[i - 1] \o s[i]
    BY DEF Joins
  <1>4. CASE m = 1
    BY <1>2, <1>3, <1>4
  <1>5. CASE m # 1
    <2>1. m - 1 \in 1..n /\ m - 1 < m /\ m \in 1..n /\ g[m] # h[m]
      BY <1>2, <1>5
    <2>2. g[m - 1] = h[m - 1]
      BY <1>2, <2>1
    <2> QED
      BY <1>3, <1>5, <2>1, <2>2
  <1> QED
    BY <1>4, <1>5

LEMMA JoinsExists ==
  ASSUME NEW S, NEW s \in Seq(Seq(S)), NEW n \in 0..Len(s)
  PROVE  \E g \in [1..n -> Seq(S)] : Joins(s, n, g)
  <1> DEFINE Wrong == {i \in 0..n : ~ \E g \in [1..i -> Seq(S)] : Joins(s, i, g)}
  <1>0. n \in Nat /\ n <= Len(s) /\ Len(s) \in Nat
    BY LenProperties
  <1>1. SUFFICES ASSUME Wrong # {} PROVE FALSE
    BY <1>0
  <1>2. PICK m \in Wrong : \A k \in Wrong : m <= k
    <2>1. Wrong \in SUBSET (0..n)
      OBVIOUS
    <2> HIDE DEF Wrong
    <2> QED
      BY <1>0, <1>1, <2>1, LeastNumber
  <1>3. m \in 0..n /\ ~ \E g \in [1..m -> Seq(S)] : Joins(s, m, g)
    BY <1>2
  <1>4. CASE m = 0
    <2>1. [i \in 1..0 |-> <<>>] \in [1..0 -> Seq(S)] /\ Joins(s, 0, [i \in 1..0 |-> <<>>])
      BY DEF Joins
    <2> QED
      BY <1>3, <1>4, <2>1
  <1>5. CASE m # 0
    <2>1. m - 1 \in 0..n /\ m - 1 < m
      BY <1>3, <1>5
    <2>2. m - 1 \notin Wrong
      BY <1>2, <2>1
    <2>3. PICK g \in [1..m - 1 -> Seq(S)] : Joins(s, m - 1, g)
      BY <2>1, <2>2
    <2> DEFINE new == IF m = 1 THEN s[m] ELSE g[m - 1] \o s[m]
               h   == [i \in 1..m |-> IF i = m THEN new ELSE g[i]]
    <2>4. m \in 1..Len(s) /\ s[m] \in Seq(S)
      BY <1>0, <1>3, <1>5, ElementOfSeq
    <2>5. new \in Seq(S)
      BY <1>3, <1>5, <2>4, ConcatProperties
    <2>6. h \in [1..m -> Seq(S)]
      BY <1>3, <2>1, <2>5
    <2>7. ASSUME NEW i \in 1..m
          PROVE  h[i] = IF i = 1 THEN s[i] ELSE h[i - 1] \o s[i]
      <3>1. CASE i = m
        <4>1. m # 1 => m - 1 \in 1..m /\ m - 1 # m
          BY <1>0, <1>3, <1>5
        <4> QED
          BY <3>1, <4>1
      <3>2. CASE i # m
        <4>1. i \in 1..m - 1 /\ (i # 1 => i - 1 \in 1..m /\ i - 1 # m)
          BY <1>0, <1>3, <3>2
        <4>2. g[i] = IF i = 1 THEN s[i] ELSE g[i - 1] \o s[i]
          BY <2>3, <4>1 DEF Joins
        <4> QED
          BY <3>2, <4>1, <4>2
      <3> QED
        BY <3>1, <3>2
    <2>8. Joins(s, m, h)
      BY <2>7 DEF Joins
    <2> QED
      BY <1>3, <2>6, <2>8
  <1> QED
    BY <1>4, <1>5

LEMMA FlattenFacts ==
  ASSUME NEW S, NEW s \in Seq(Seq(S))
  PROVE  /\ FlattenSeq(s) \in Seq(S)
         /\ s = <<>> => FlattenSeq(s) = <<>>
         /\ s # <<>> => \E g : Joins(s, Len(s), g) /\ FlattenSeq(s) = g[Len(s)]
  <1>1. CASE s = <<>>
    BY <1>1 DEF FlattenSeq
  <1>2. CASE s # <<>>
    <2>1. Len(s) \in 1..Len(s) /\ Len(s) # 0
      BY <1>2, EmptySeq
    <2>2. PICK h \in [1..Len(s) -> Seq(S)] : Joins(s, Len(s), h)
      BY <2>1, JoinsExists, SMTT(30)
    <2> DEFINE g == CHOOSE g : Joins(s, Len(s), g)
    <2>3. FlattenSeq(s) = g[Len(s)]
      BY <2>1 DEF FlattenSeq, Joins
    <2>4. Joins(s, Len(s), g)
      BY <2>2
    <2> HIDE DEF g
    <2>5. g[Len(s)] = h[Len(s)]
      BY <2>1, <2>2, <2>4, JoinsUnique
    <2> QED
      BY <1>2, <2>1, <2>2, <2>3, <2>4, <2>5
  <1> QED
    BY <1>1, <1>2

LEMMA FlattenAppend ==
  ASSUME NEW S, NEW s \in Seq(Seq(S)), NEW d \in Seq(S)
  PROVE  FlattenSeq(Append(s, d)) = FlattenSeq(s) \o d
  <1> DEFINE t == Append(s, d)
             n == Len(s)
  <1>1. t \in Seq(Seq(S)) /\ t # <<>> /\ Len(t) = n + 1 /\ n \in Nat
        /\ (\A i \in 1..n : t[i] = s[i]) /\ t[n + 1] = d
    BY AppendProperties, EmptySeq
  <1> HIDE DEF t
  <1>2. PICK g : Joins(t, n + 1, g) /\ FlattenSeq(t) = g[n + 1]
    BY <1>1, FlattenFacts
  <1>3. \A i \in 1..n + 1 : g[i] = IF i = 1 THEN t[i] ELSE g[i - 1] \o t[i]
    BY <1>2 DEF Joins
  <1>4. CASE s = <<>>
    <2>1. n = 0 /\ FlattenSeq(s) = <<>>
      BY <1>4, FlattenFacts
    <2>2. FlattenSeq(t) = d
      BY <1>1, <1>2, <1>3, <2>1
    <2> QED
      BY <2>1, <2>2, ConcatEmptySeq DEF t
  <1>5. CASE s # <<>>
    <2>1. n \in 1..n /\ n + 1 \in 1..n + 1 /\ n + 1 # 1
      BY <1>5, EmptySeq
    <2>2. PICK h : Joins(s, n, h) /\ FlattenSeq(s) = h[n]
      BY <1>5, FlattenFacts
    <2> DEFINE k == [i \in 1..n |-> g[i]]
    <2>3. \A i \in 1..n : k[i] = IF i = 1 THEN s[i] ELSE k[i - 1] \o s[i]
      BY <1>1, <1>3
    <2>4. Joins(s, n, k)
      BY <2>3 DEF Joins
    <2>5. k[n] = h[n] /\ k[n] = g[n]
      BY <1>1, <2>1, <2>2, <2>4, JoinsUnique
    <2>6. g[n + 1] = g[n] \o d
      <3>1. (n + 1) - 1 = n
        BY <1>1
      <3>2. g[n + 1] = g[(n + 1) - 1] \o t[n + 1]
        BY <1>3, <2>1
      <3> QED
        BY <1>1, <3>1, <3>2
    <2> QED
      BY <1>2, <2>2, <2>5, <2>6 DEF t
  <1> QED
    BY <1>4, <1>5

(***************************************************************************)
(* Beginnings and ends.                                                    *)
(***************************************************************************)
EndsWith(s, t) == \E n \in 0..Len(s) : s = SubSeq(s, 1, n) \o t

LEMMA EndsWithFact ==
  ASSUME NEW S, NEW s \in Seq(S), NEW t \in Seq(S)
  PROVE  EndsWith(s, t) <=> \E r \in Seq(S) : s = r \o t
  <1>1. ASSUME NEW n \in 0..Len(s), s = SubSeq(s, 1, n) \o t
        PROVE  \E r \in Seq(S) : s = r \o t
    <2>1. \A i \in 1..n : s[i] \in S
      BY LenProperties, ElementOfSeq
    <2>2. SubSeq(s, 1, n) \in Seq(S)
      BY <2>1, SubSeqProperties
    <2> QED
      BY <1>1, <2>2
  <1>2. ASSUME NEW r \in Seq(S), s = r \o t
        PROVE  EndsWith(s, t)
    <2>1. Len(s) = Len(r) + Len(t) /\ Len(r) \in 0..Len(s) /\ (\A i \in 1..Len(r) : s[i] = r[i])
      BY <1>2, ConcatProperties, LenProperties
    <2>2. \A i \in 1..Len(r) : s[i] \in S
      BY <2>1, ElementOfSeq
    <2>3. /\ SubSeq(s, 1, Len(r)) \in Seq(S) /\ Len(SubSeq(s, 1, Len(r))) = Len(r)
          /\ \A i \in 1..Len(r) : SubSeq(s, 1, Len(r))[i] = s[i]
      BY <2>1, <2>2, SubSeqProperties, LenProperties
    <2>4. SubSeq(s, 1, Len(r)) = r
      BY <2>1, <2>3, SeqEqual
    <2> QED
      BY <1>2, <2>1, <2>4 DEF EndsWith
  <1> QED
    BY <1>1, <1>2 DEF EndsWith

LEMMA SuffixFact ==
  ASSUME NEW S, NEW s \in Seq(S), NEW t \in Seq(S), EndsWith(s, t)
  PROVE  IsSuffix(t, s)
  <1>1. PICK r \in Seq(S) : s = r \o t
    BY EndsWithFact
  <1> DEFINE n == Len(t)
             m == Len(r)
  <1>2. n \in Nat /\ m \in Nat /\ Len(s) = m + n /\ (\A i \in 1..n : s[m + i] = t[i])
        /\ (\A i \in 1..n : t[i] \in S) /\ (\A i \in 1..m + n : s[i] \in S)
    <2>1. n \in Nat /\ m \in Nat /\ Len(s) = m + n
      BY <1>1, ConcatProperties, LenProperties
    <2>2. ASSUME NEW i \in 1..n
          PROVE  s[m + i] = t[i]
      <3>1. m + i \in 1..m + n /\ ~ (m + i <= m) /\ (m + i) - m = i
        BY <2>1
      <3>2. s[m + i] = t[(m + i) - m]
        BY <1>1, <3>1, ConcatProperties
      <3> QED
        BY <3>1, <3>2
    <2> QED
      BY <2>1, <2>2, ElementOfSeq
  <1> DEFINE T == Reverse(t)
             R == Reverse(s)
  <1>3. T = [i \in 1..n |-> t[(n - i) + 1]] /\ R = [i \in 1..m + n |-> s[((m + n) - i) + 1]]
    BY <1>2 DEF Reverse
  <1>4. Len(T) = n /\ Len(R) = m + n /\ T \in Seq(S) /\ R \in Seq(S)
    BY <1>2, <1>3
  <1>5. \A i \in 1..n : T[i] = R[i]
    <2>1. ASSUME NEW i \in 1..n
          PROVE  T[i] = R[i]
      <3>1. (n - i) + 1 \in 1..n /\ m + ((n - i) + 1) = ((m + n) - i) + 1 /\ i \in 1..m + n
        BY <1>2
      <3>2. s[((m + n) - i) + 1] = t[(n - i) + 1]
        BY <1>2, <3>1
      <3> QED
        BY <1>3, <3>1, <3>2
    <2> QED
      BY <2>1
  <1>6. n <= m + n /\ n \in Int
    BY <1>2
  <1> HIDE DEF T, R, n, m
  <1>7. SubSeq(T, 1, n) = SubSeq(R, 1, n)
    <2>1. /\ \A i \in 1..n : T[i] \in S /\ R[i] \in S
      BY <1>2, <1>4, <1>6, ElementOfSeq
    <2>2. /\ SubSeq(T, 1, n) \in Seq(S) /\ SubSeq(R, 1, n) \in Seq(S)
          /\ Len(SubSeq(T, 1, n)) = n /\ Len(SubSeq(R, 1, n)) = n
          /\ \A i \in 1..n : SubSeq(T, 1, n)[i] = T[i] /\ SubSeq(R, 1, n)[i] = R[i]
      <3>1. (IF 1 <= n THEN (n - 1) + 1 ELSE 0) = n /\ (n - 1) + 1 = n /\ \A i \in 1..n : (1 + i) - 1 = i
        BY <1>2
      <3> QED
        BY <1>6, <2>1, <3>1, SubSeqProperties
    <2> QED
      BY <1>5, <2>2, SeqEqual
  <1> QED
    BY <1>4, <1>6, <1>7 DEF IsSuffix, IsPrefix, T, R

LEMMA PrefixFact ==
  ASSUME NEW S, NEW s \in Seq(S), NEW t \in Seq(S)
  PROVE  IsPrefix(s, t) <=> Len(s) <= Len(t) /\ \A i \in 1..Len(s) : s[i] = t[i]
  <1>1. Len(s) \in Nat /\ Len(t) \in Nat /\ SubSeq(s, 1, Len(s)) = s
    BY LenProperties, SubSeqFull
  <1>2. CASE Len(s) <= Len(t)
    <2>1. \A i \in 1..Len(s) : t[i] \in S /\ s[i] \in S
      BY <1>1, <1>2, ElementOfSeq
    <2>2. /\ SubSeq(t, 1, Len(s)) \in Seq(S) /\ Len(SubSeq(t, 1, Len(s))) = Len(s)
          /\ \A i \in 1..Len(s) : SubSeq(t, 1, Len(s))[i] = t[i]
      <3>1. Len(s) \in Int /\ (Len(s) - 1) + 1 = Len(s) /\ (IF 1 <= Len(s) THEN (Len(s) - 1) + 1 ELSE 0) = Len(s)
            /\ \A i \in 1..Len(s) : (1 + i) - 1 = i
        BY <1>1
      <3> QED
        BY <2>1, <3>1, SubSeqProperties
    <2>3. SubSeq(t, 1, Len(s)) = s <=> \A i \in 1..Len(s) : s[i] = t[i]
      BY <2>2, SeqEqual
    <2> QED
      BY <1>1, <1>2, <2>3 DEF IsPrefix
  <1>3. CASE ~ (Len(s) <= Len(t))
    BY <1>3 DEF IsPrefix
  <1> QED
    BY <1>2, <1>3

LEMMA PrefixOfConcat ==
  ASSUME NEW S, NEW s \in Seq(S), NEW t \in Seq(S)
  PROVE  IsPrefix(s, s \o t)
  <1>1. s \o t \in Seq(S) /\ Len(s) <= Len(s \o t) /\ \A i \in 1..Len(s) : s[i] = (s \o t)[i]
    BY ConcatProperties, LenProperties
  <1> QED
    BY <1>1, PrefixFact

LEMMA PrefixOfAppend ==
  ASSUME NEW S, NEW s \in Seq(S), NEW t \in Seq(S), NEW e \in S, IsPrefix(s, t)
  PROVE  IsPrefix(s, Append(t, e))
  <1>1. Append(t, e) \in Seq(S) /\ Len(Append(t, e)) = Len(t) + 1 /\ \A i \in 1..Len(t) : Append(t, e)[i] = t[i]
    BY AppendProperties
  <1>2. Len(s) <= Len(t) /\ (\A i \in 1..Len(s) : s[i] = t[i]) /\ Len(s) \in Nat /\ Len(t) \in Nat
    BY PrefixFact, LenProperties
  <1> DEFINE u == Append(t, e)
  <1>3. Len(s) <= Len(u) /\ \A i \in 1..Len(s) : s[i] = u[i]
    BY <1>1, <1>2
  <1>4. u \in Seq(S)
    BY <1>1
  <1> HIDE DEF u
  <1>5. IsPrefix(s, u)
    BY <1>3, <1>4, PrefixFact
  <1> QED
    BY <1>5 DEF u

(***************************************************************************)
(* The inductive invariant.                                                *)
(***************************************************************************)
Stored == Log!InStorage

LogTyped ==
  /\ printed \in Seq(Line) /\ pipe \in Seq(Line \cup {"EOT"})
  /\ delta \in Seq(Line) /\ previous \in Seq(Line) /\ files \in Seq(Seq(Line)) /\ tail \in Seq(Line)
  /\ streamer \in {"reading", "uploading", "exited", "crashed", "killed"}
  /\ worker \in {"running", "stopping", "waiting", "ended", "ended with error", "dead"}
  /\ terminated \in BOOLEAN

\* What the tail of the logs is made of: the last file stored and the one after it.
LastFile == EndsWith(Stored, previous) /\ (Stored # <<>> => previous # <<>>)

\* The end of transmission comes last, and only once the worker prints nothing any more.
EndComesLast ==
  /\ pipe \notin Seq(Line) => pipe # <<>> /\ Front(pipe) \in Seq(Line) /\ Last(pipe) = "EOT"
  /\ worker = "running" => ~ terminated /\ pipe \in Seq(Line)
  /\ terminated => pipe = <<>> /\ streamer = "uploading"

Streaming ==
  Log!StreamerAlive =>
    /\ worker \in {"running", "stopping", "waiting"}
    /\ printed = Stored \o delta \o Log!Unread
    /\ LastFile /\ EndComesLast

\* A streamer that has exited has stored all that the worker had printed by then.
Exited ==
  /\ streamer = "killed" => worker \in {"ended with error", "dead"}
  /\ worker = "ended" => streamer = "exited" /\ tail = previous \o delta
  /\ streamer = "exited" /\ pipe = <<>> /\ worker \in {"waiting", "ended"} =>
       /\ Stored = printed /\ EndsWith(printed, previous \o delta)
       /\ printed # <<>> => previous \o delta # <<>>

LogInv == LogTyped /\ Streaming /\ Exited /\ IsPrefix(Stored, printed)

(***************************************************************************)
(* The steps of the logs.                                                  *)
(***************************************************************************)
\* The operators on sequences that the instance names are those of this module.
LEMMA InstanceFact ==
  \A s, t : /\ Log!FlattenSeq(s) = FlattenSeq(s)
            /\ Log!Last(s) = Last(s) /\ Log!Front(s) = Front(s)
            /\ Log!IsPrefix(s, t) = IsPrefix(s, t) /\ Log!IsSuffix(s, t) = IsSuffix(s, t)
  <1>1. \A s : Log!Last(s) = Last(s) /\ Log!Front(s) = Front(s) /\ Log!FlattenSeq(s) = FlattenSeq(s)
    BY DEF Log!Last, Last, Log!Front, Front, Log!FlattenSeq, FlattenSeq
  <1>2. \A s, t : Log!IsPrefix(s, t) = IsPrefix(s, t)
    BY DEF Log!IsPrefix, IsPrefix
  <1>3. \A s : Log!Reverse(s) = Reverse(s)
    BY DEF Log!Reverse, Reverse
  <1>4. \A s, t : Log!IsSuffix(s, t) = IsSuffix(s, t)
    BY <1>2, <1>3 DEF Log!IsSuffix, IsSuffix
  <1> QED
    BY <1>1, <1>2, <1>4

LEMMA StoredFact ==
  ASSUME LogTyped
  PROVE  Stored \in Seq(Line)
  BY FlattenFacts, InstanceFact DEF LogTyped, Stored, Log!InStorage

LEMMA FrontAndLast ==
  ASSUME NEW S, NEW s \in Seq(S), NEW e
  PROVE  Last(Append(s, e)) = e /\ Front(Append(s, e)) = s /\ Append(s, e) # <<>>
  <1> DEFINE t == Append(s, e)
             T == S \cup {e}
  <1>1. s \in Seq(T) /\ e \in T
    BY SeqMonotonic
  <1>2. /\ t \in Seq(T) /\ t # <<>> /\ Len(t) = Len(s) + 1 /\ Len(s) \in Nat
        /\ (\A i \in 1..Len(s) : t[i] = s[i]) /\ t[Len(s) + 1] = e
    BY <1>1, AppendProperties, LenProperties
  <1> HIDE DEF t, T
  <1>3. Last(t) = e
    BY <1>2 DEF Last
  <1>4. Front(t) = SubSeq(t, 1, Len(s))
    <2>1. Len(t) - 1 = Len(s)
      BY <1>2
    <2> QED
      BY <2>1 DEF Front
  <1>5. SubSeq(t, 1, Len(s)) = s
    <2>1. \A i \in 1..Len(s) : t[i] \in T
      BY <1>1, <1>2, ElementOfSeq
    <2>2. /\ SubSeq(t, 1, Len(s)) \in Seq(T) /\ Len(SubSeq(t, 1, Len(s))) = Len(s)
          /\ \A i \in 1..Len(s) : SubSeq(t, 1, Len(s))[i] = t[i]
      <3>1. Len(s) \in Int /\ (Len(s) - 1) + 1 = Len(s) /\ (IF 1 <= Len(s) THEN (Len(s) - 1) + 1 ELSE 0) = Len(s)
            /\ \A i \in 1..Len(s) : (1 + i) - 1 = i
        BY <1>2
      <3> QED
        BY <2>1, <3>1, SubSeqProperties
    <2> QED
      BY <1>1, <1>2, <2>2, SeqEqual
  <1> QED
    BY <1>2, <1>3, <1>4, <1>5 DEF t

LEMMA AppendConcat ==
  ASSUME NEW S, NEW s \in Seq(S), NEW t \in Seq(S), NEW e \in S
  PROVE  Append(s \o t, e) = s \o Append(t, e)
  <1>1. <<e>> \in Seq(S) /\ s \o t \in Seq(S)
    BY ConcatProperties
  <1>2. Append(s \o t, e) = (s \o t) \o <<e>> /\ Append(t, e) = t \o <<e>>
    BY <1>1, AppendIsConcat
  <1> QED
    BY <1>1, <1>2, ConcatAssociative

\* The first of the lines moves from one sequence to the one before it.
LEMMA HeadMoves ==
  ASSUME NEW S, NEW s \in Seq(S), NEW t \in Seq(S), t # <<>>
  PROVE  s \o t = Append(s, Head(t)) \o Tail(t)
  <1> DEFINE h == Head(t)
             u == Tail(t)
  <1>1. h \in S /\ u \in Seq(S) /\ <<h>> \in Seq(S)
    BY HeadTailProperties
  <1>2. t = <<h>> \o u
    <2>1. /\ Len(t) \in Nat /\ Len(u) = Len(t) - 1 /\ (\A i \in 1..Len(u) : u[i] = t[i + 1]) /\ h = t[1]
      BY HeadTailProperties, LenProperties
    <2>2. /\ <<h>> \o u \in Seq(S) /\ Len(<<h>> \o u) = 1 + Len(u) /\ Len(<<h>>) = 1 /\ <<h>>[1] = h
          /\ \A i \in 1..1 + Len(u) : (<<h>> \o u)[i] = IF i <= 1 THEN <<h>>[i] ELSE u[i - 1]
      BY <1>1, ConcatProperties
    <2>3. ASSUME NEW i \in 1..Len(t)
          PROVE  t[i] = (<<h>> \o u)[i]
      <3>1. CASE i = 1
        BY <2>1, <2>2, <3>1
      <3>2. CASE i # 1
        <4>1. i - 1 \in 1..Len(u) /\ (i - 1) + 1 = i /\ ~ (i <= 1) /\ i \in 1..1 + Len(u)
          BY <2>1, <3>2
        <4>2. u[i - 1] = t[(i - 1) + 1]
          BY <2>1, <4>1
        <4> QED
          BY <2>2, <4>1, <4>2
      <3> QED
        BY <3>1, <3>2
    <2>4. Len(t) = Len(<<h>> \o u)
      BY <2>1, <2>2
    <2> QED
      BY <2>2, <2>3, <2>4, SeqEqual
  <1>3. Append(s, h) = s \o <<h>>
    BY <1>1, AppendIsConcat
  <1> HIDE DEF h, u
  <1>4. (s \o <<h>>) \o u = s \o t
    BY <1>1, <1>2, ConcatAssociative
  <1> QED
    BY <1>3, <1>4 DEF h, u

\* A pipe that holds lines does not end with an EOT; one that does is its front and the EOT.
LEMMA LinesFact ==
  ASSUME NEW p \in Seq(Line)
  PROVE  ~ (p # <<>> /\ Last(p) = "EOT")
  <1>1. p # <<>> => Len(p) \in 1..Len(p)
    BY EmptySeq
  <1>2. p # <<>> => Last(p) \in Line
    BY <1>1, ElementOfSeq DEF Last
  <1> QED
    BY <1>2 DEF Line

LEMMA EndedFact ==
  ASSUME NEW S, NEW p \in Seq(S), p # <<>>
  PROVE  p = Append(Front(p), Last(p))
  <1>1. PICK s \in Seq(S), e \in S : p = Append(s, e)
    BY SequenceEmptyOrAppend
  <1>2. Last(Append(s, e)) = e /\ Front(Append(s, e)) = s
    BY FrontAndLast
  <1> QED
    BY <1>1, <1>2

LEMMA WriteKeeps ==
  ASSUME LogInv, NEW l \in Line, Log!Write(l)
  PROVE  LogInv'
  <1>1. /\ LogTyped /\ Streaming /\ Exited /\ IsPrefix(Stored, printed) /\ Stored \in Seq(Line)
        /\ worker = "running"
        /\ printed' = Append(printed, l) /\ pipe' = Append(pipe, l)
        /\ UNCHANGED <<delta, previous, files, streamer, terminated, worker, tail, failures>>
    BY StoredFact DEF LogInv, Log!Write
  <1>2. Stored' = Stored
    BY <1>1 DEF Stored, Log!InStorage
  <1>3. LogTyped'
    <2>1. l \in Line \cup {"EOT"}
      OBVIOUS
    <2>2. printed' \in Seq(Line) /\ pipe' \in Seq(Line \cup {"EOT"})
      BY <1>1, <2>1, AppendProperties DEF LogTyped
    <2> QED
      BY <1>1, <2>2 DEF LogTyped
  <1>4. Streaming'
    <2>1. SUFFICES ASSUME Log!StreamerAlive PROVE Streaming'
      BY <1>1 DEF Streaming, Log!StreamerAlive
    <2>2. printed = Stored \o delta \o Log!Unread /\ LastFile /\ ~ terminated /\ pipe \in Seq(Line)
      BY <1>1, <2>1 DEF Streaming, EndComesLast
    <2>3. pipe' \in Seq(Line)
      BY <1>1, <2>2, AppendProperties
    <2>4. Log!Unread = pipe /\ Log!Unread' = pipe'
      BY <2>2, <2>3, LinesFact, InstanceFact DEF Log!Unread
    <2>5. Append((Stored \o delta) \o pipe, l) = (Stored \o delta) \o Append(pipe, l)
      <3> DEFINE before == Stored \o delta
      <3>1. before \in Seq(Line)
        BY <1>1, ConcatProperties DEF LogTyped
      <3> HIDE DEF before
      <3>2. Append(before \o pipe, l) = before \o Append(pipe, l)
        BY <2>2, <3>1, AppendConcat, SMTT(30)
      <3> QED
        BY <3>2 DEF before
    <2>6. printed' = Stored' \o delta' \o Log!Unread'
      BY <1>1, <1>2, <2>2, <2>4, <2>5
    <2>7. LastFile' /\ EndComesLast'
      BY <1>1, <1>2, <2>2, <2>3 DEF LastFile, EndsWith, EndComesLast
    <2> QED
      BY <1>1, <2>6, <2>7 DEF Streaming
  <1>5. Exited'
    BY <1>1 DEF Exited
  <1>6. IsPrefix(Stored', printed')
    BY <1>1, <1>2, PrefixOfAppend DEF LogTyped
  <1> QED
    BY <1>3, <1>4, <1>5, <1>6 DEF LogInv

LEMMA CleanUpKeeps ==
  ASSUME LogInv, NEW next \in {"waiting", "stopping"}, Log!CleanUp(next)
  PROVE  LogInv'
  <1>1. /\ LogTyped /\ Streaming /\ Exited /\ IsPrefix(Stored, printed)
        /\ worker = "running" /\ worker' = next
        /\ pipe' = Append(pipe, "EOT")
        /\ UNCHANGED <<printed, delta, previous, files, streamer, terminated, tail, failures>>
    BY DEF LogInv, Log!CleanUp
  <1>2. Stored' = Stored
    BY <1>1 DEF Stored, Log!InStorage
  <1>3. Last(pipe') = "EOT" /\ Front(pipe') = pipe /\ pipe' # <<>>
    BY <1>1, FrontAndLast DEF LogTyped
  <1>4. LogTyped'
    <2>1. pipe' \in Seq(Line \cup {"EOT"})
      BY <1>1, AppendProperties DEF LogTyped
    <2> QED
      BY <1>1, <2>1 DEF LogTyped
  <1>5. Streaming'
    <2>1. SUFFICES ASSUME Log!StreamerAlive PROVE Streaming'
      BY <1>1 DEF Streaming, Log!StreamerAlive
    <2>2. printed = Stored \o delta \o Log!Unread /\ LastFile /\ ~ terminated /\ pipe \in Seq(Line)
      BY <1>1, <2>1 DEF Streaming, EndComesLast
    <2>3. Log!Unread = pipe /\ Log!Unread' = pipe
      BY <1>3, <2>2, LinesFact, InstanceFact DEF Log!Unread
    <2>4. LastFile' /\ EndComesLast'
      BY <1>1, <1>2, <1>3, <2>2 DEF LastFile, EndsWith, EndComesLast
    <2> QED
      BY <1>1, <1>2, <2>2, <2>3, <2>4 DEF Streaming
  <1>6. Exited'
    BY <1>1, <1>3 DEF Exited
  <1> QED
    BY <1>1, <1>2, <1>4, <1>5, <1>6 DEF LogInv

\* What the streamer finds in the pipe: lines, of which the first is read, or an EOT alone.
LEMMA PipeFacts ==
  ASSUME LogTyped, EndComesLast, pipe # <<>>
  PROVE  /\ Tail(pipe) \in Seq(Line \cup {"EOT"})
         /\ Log!Unread \in Seq(Line)
         /\ Head(pipe) = "EOT" => Log!Unread = <<>> /\ Tail(pipe) = <<>> /\ worker # "running"
         /\ Head(pipe) # "EOT" =>
              /\ Log!Unread # <<>> /\ Head(pipe) = Head(Log!Unread) /\ Head(pipe) \in Line
              /\ \/ Tail(pipe) \in Seq(Line) /\ Tail(pipe) = Tail(Log!Unread) /\ pipe \in Seq(Line)
                 \/ Tail(pipe) = Append(Tail(Log!Unread), "EOT") /\ worker # "running"
  <1>1. Tail(pipe) \in Seq(Line \cup {"EOT"})
    BY HeadTailProperties DEF LogTyped
  <1>2. CASE pipe \in Seq(Line)
    <2>1. Log!Unread = pipe
      BY <1>2, LinesFact, InstanceFact DEF Log!Unread
    <2>2. Head(pipe) \in Line /\ Tail(pipe) \in Seq(Line) /\ "EOT" \notin Line
      BY <1>2, HeadTailProperties DEF Line
    <2> QED
      BY <1>1, <1>2, <2>1, <2>2
  <1>3. CASE pipe \notin Seq(Line)
    <2> DEFINE u == Front(pipe)
    <2>1. u \in Seq(Line) /\ Last(pipe) = "EOT" /\ Log!Unread = u /\ worker # "running"
      BY <1>3, InstanceFact DEF EndComesLast, Log!Unread
    <2>2. pipe = Append(u, Last(pipe))
      BY EndedFact DEF LogTyped
    <2>3. pipe = Append(u, "EOT")
      BY <2>1, <2>2
    <2> HIDE DEF u
    <2>4. /\ Head(pipe) = IF u = <<>> THEN "EOT" ELSE Head(u)
          /\ Tail(pipe) = IF u = <<>> THEN <<>> ELSE Append(Tail(u), "EOT")
      BY <2>1, <2>3, HeadTailAppend
    <2>5. u # <<>> => Head(u) \in Line /\ "EOT" \notin Line
      BY <2>1, HeadTailProperties DEF Line
    <2> QED
      BY <1>1, <2>1, <2>4, <2>5
  <1> QED
    BY <1>2, <1>3

LEMMA ReadLineKeeps ==
  ASSUME LogInv, Log!ReadLine
  PROVE  LogInv'
  <1>1. /\ LogTyped /\ Streaming /\ Exited /\ IsPrefix(Stored, printed) /\ Stored \in Seq(Line)
        /\ streamer = "reading" /\ Log!StreamerAlive /\ pipe # <<>> /\ pipe' = Tail(pipe)
        /\ UNCHANGED <<printed, previous, files, worker, tail, failures>>
    BY StoredFact DEF LogInv, Log!ReadLine, Log!StreamerAlive
  <1>2. Stored' = Stored
    BY <1>1 DEF Stored, Log!InStorage
  <1>3. printed = Stored \o delta \o Log!Unread /\ LastFile /\ EndComesLast /\ ~ terminated
        /\ worker \in {"running", "stopping", "waiting"}
    BY <1>1 DEF Streaming, EndComesLast
  <1>4. LastFile' /\ pipe' \in Seq(Line \cup {"EOT"})
    BY <1>1, <1>2, <1>3, PipeFacts DEF LastFile, EndsWith
  <1>5. CASE /\ Head(pipe) = "EOT"
             /\ terminated' = TRUE /\ streamer' = "uploading"
             /\ UNCHANGED delta
    <2>1. Log!Unread = <<>> /\ pipe' = <<>> /\ worker # "running"
      BY <1>1, <1>3, <1>5, PipeFacts
    <2>2. <<>> \in Seq(Line)
      BY EmptySeq
    <2>3. Log!Unread' = <<>>
      BY <2>1, <2>2, LinesFact, InstanceFact DEF Log!Unread
    <2>4. EndComesLast'
      BY <1>1, <1>5, <2>1, <2>2 DEF EndComesLast
    <2>5. LogTyped' /\ Streaming' /\ Exited'
      BY <1>1, <1>2, <1>3, <1>4, <1>5, <2>1, <2>3, <2>4 DEF LogTyped, Streaming, Exited
    <2> QED
      BY <1>1, <1>2, <2>5 DEF LogInv
  <1>6. CASE /\ Head(pipe) # "EOT"
             /\ delta' = Append(delta, Head(pipe))
             /\ streamer' \in {"reading", "uploading"}
             /\ UNCHANGED terminated
    <2> DEFINE u == Log!Unread
    <2>1. /\ u \in Seq(Line) /\ u # <<>> /\ Head(pipe) = Head(u) /\ Head(pipe) \in Line
          /\ \/ pipe' \in Seq(Line) /\ pipe' = Tail(u) /\ pipe \in Seq(Line)
             \/ pipe' = Append(Tail(u), "EOT") /\ worker # "running"
      BY <1>1, <1>3, <1>6, PipeFacts
    <2>2. delta' \in Seq(Line) /\ Tail(u) \in Seq(Line) /\ delta \in Seq(Line)
      BY <1>1, <1>6, <2>1, AppendProperties, HeadTailProperties DEF LogTyped
    <2>3. Log!Unread' = Tail(u) /\ EndComesLast'
      <3>1. CASE pipe' \in Seq(Line) /\ pipe' = Tail(u)
        BY <1>3, <1>6, <3>1, LinesFact, InstanceFact DEF Log!Unread, EndComesLast
      <3>2. CASE pipe' = Append(Tail(u), "EOT") /\ worker # "running"
        <4>1. Last(pipe') = "EOT" /\ Front(pipe') = Tail(u) /\ pipe' # <<>>
          BY <2>2, <3>2, FrontAndLast
        <4> QED
          BY <1>1, <1>3, <1>6, <2>2, <3>2, <4>1, InstanceFact DEF Log!Unread, EndComesLast
      <3> QED
        BY <2>1, <3>1, <3>2
    <2> DEFINE before == Stored \o delta
    <2>4. before \in Seq(Line)
      BY <1>1, <2>2, ConcatProperties
    <2>5. Append(before, Head(u)) = Stored \o delta'
      <3> DEFINE h == Head(u)
      <3>1. h \in Line /\ delta' = Append(delta, h)
        BY <1>6, <2>1
      <3> HIDE DEF h, u
      <3>2. Append(Stored \o delta, h) = Stored \o Append(delta, h)
        <4>1. Stored \in Seq(Line) /\ delta \in Seq(Line) /\ h \in Line
          BY <1>1, <2>2, <3>1
        <4>2. \A s, d \in Seq(Line), e \in Line : Append(s \o d, e) = s \o Append(d, e)
          BY AppendConcat, SMTT(30)
        <4> QED
          BY <4>1, <4>2
      <3> QED
        BY <3>1, <3>2 DEF h
    <2>6. before \o u = printed
      BY <1>3
    <2> HIDE DEF before, u
    <2>7. before \o u = Append(before, Head(u)) \o Tail(u)
      BY <2>1, <2>4, HeadMoves
    <2>8. printed' = Stored' \o delta' \o Log!Unread'
      BY <1>1, <1>2, <2>3, <2>5, <2>6, <2>7
    <2>9. LogTyped' /\ Exited'
      BY <1>1, <1>2, <1>3, <1>4, <1>6, <2>2 DEF LogTyped, Exited
    <2>10. Streaming'
      BY <1>1, <1>3, <1>4, <2>3, <2>8 DEF Streaming
    <2> QED
      BY <1>1, <1>2, <2>9, <2>10 DEF LogInv
  <1> QED
    BY <1>5, <1>6 DEF Log!ReadLine

LEMMA UploadKeeps ==
  ASSUME LogInv, Log!Upload
  PROVE  LogInv'
  <1>1. /\ LogTyped /\ Streaming /\ Exited /\ Stored \in Seq(Line)
        /\ streamer = "uploading" /\ Log!StreamerAlive /\ files' = Log!Uploaded
        /\ UNCHANGED <<printed, pipe, terminated, worker, tail, failures>>
    BY StoredFact DEF LogInv, Log!Upload, Log!StreamerAlive
  <1>2. /\ printed = Stored \o delta \o Log!Unread /\ LastFile /\ EndComesLast
        /\ worker \in {"running", "stopping", "waiting"}
        /\ delta \in Seq(Line) /\ previous \in Seq(Line) /\ <<>> \in Seq(Line)
    BY <1>1, EmptySeq DEF Streaming, LogTyped
  <1>3. Stored' = Stored \o delta /\ files' \in Seq(Seq(Line))
    <2>1. CASE delta = <<>>
      <3>1. files' = files /\ Stored' = Stored
        BY <1>1, <2>1 DEF Log!Uploaded, Stored, Log!InStorage
      <3> QED
        BY <1>1, <2>1, <3>1, ConcatEmptySeq DEF LogTyped
    <2>2. CASE delta # <<>>
      <3>1. files' = Append(files, delta)
        BY <1>1, <2>2 DEF Log!Uploaded
      <3>2. FlattenSeq(files') = FlattenSeq(files) \o delta
        BY <1>1, <1>2, <3>1, FlattenAppend DEF LogTyped
      <3>3. files' \in Seq(Seq(Line))
        <4>1. files \in Seq(Seq(Line)) /\ delta \in Seq(Line)
          BY <1>1, <1>2 DEF LogTyped
        <4>2. Append(files, delta) \in Seq(Seq(Line))
          BY <4>1, AppendProperties
        <4> QED
          BY <3>1, <4>2
      <3>4. Stored = FlattenSeq(files) /\ Stored' = FlattenSeq(files')
        BY InstanceFact DEF Stored, Log!InStorage
      <3> QED
        BY <3>2, <3>3, <3>4
    <2> QED
      BY <2>1, <2>2
  <1>4. Stored' \in Seq(Line) /\ Log!Unread \in Seq(Line) /\ Log!Unread' = Log!Unread
    <2>1. Log!Unread \in Seq(Line)
      <3>1. CASE pipe = <<>>
        BY <1>2, <3>1 DEF Log!Unread
      <3>2. CASE pipe # <<>>
        BY <1>1, <1>2, <3>2, PipeFacts
      <3> QED
        BY <3>1, <3>2
    <2> QED
      BY <1>1, <1>2, <1>3, <2>1, ConcatProperties DEF Log!Unread
  <1>5. printed' = Stored' \o Log!Unread' /\ IsPrefix(Stored', printed')
    <2>1. printed' = Stored' \o Log!Unread'
      BY <1>1, <1>2, <1>3, <1>4
    <2> QED
      BY <1>4, <2>1, PrefixOfConcat
  <1>6. CASE terminated /\ streamer' = "exited" /\ UNCHANGED <<delta, previous>>
    <2>1. Log!Unread' = <<>> /\ pipe = <<>>
      BY <1>2, <1>4, <1>6 DEF EndComesLast, Log!Unread
    <2>2. printed' = Stored'
      BY <1>4, <1>5, <2>1, ConcatEmptySeq
    <2>3. PICK r \in Seq(Line) : Stored = r \o previous
      BY <1>1, <1>2, EndsWithFact DEF LastFile
    <2>4. previous \o delta \in Seq(Line) /\ printed' = r \o (previous \o delta)
      <3>1. previous \in Seq(Line) /\ delta \in Seq(Line)
        BY <1>2
      <3>2. (r \o previous) \o delta = r \o (previous \o delta)
        BY <3>1, ConcatAssociative
      <3> QED
        BY <1>3, <2>2, <2>3, <3>1, <3>2, ConcatProperties
    <2>5. EndsWith(printed', previous' \o delta')
      <3>1. printed' \in Seq(Line)
        BY <1>4, <2>2
      <3>2. EndsWith(printed', previous \o delta)
        BY <2>4, <3>1, EndsWithFact
      <3> QED
        BY <1>6, <3>2
    <2>6. ASSUME previous' \o delta' = <<>>
          PROVE  printed' = <<>>
      <3>1. previous = <<>> /\ delta = <<>>
        BY <1>2, <1>6, <2>6, ConcatEqualIffEmpty
      <3>2. Stored = <<>>
        BY <1>2, <3>1 DEF LastFile
      <3> QED
        BY <1>2, <1>3, <2>2, <3>1, <3>2, ConcatEmptySeq
    <2>7. LogTyped'
      BY <1>1, <1>3, <1>6 DEF LogTyped
    <2>8. Streaming'
      BY <1>6 DEF Streaming, Log!StreamerAlive
    <2>9. Exited'
      BY <1>1, <1>2, <1>6, <2>2, <2>5, <2>6 DEF Exited
    <2> QED
      BY <1>5, <2>7, <2>8, <2>9 DEF LogInv
  <1>7. CASE ~ terminated /\ streamer' = "reading" /\ Log!NextDelta
    <2>1. delta' = <<>> /\ previous' = IF delta = <<>> THEN previous ELSE delta
      BY <1>7 DEF Log!NextDelta
    <2>2. LogTyped'
      BY <1>1, <1>2, <1>3, <1>7, <2>1 DEF LogTyped
    <2>3. printed' = Stored' \o delta' \o Log!Unread'
      BY <1>4, <1>5, <2>1, ConcatEmptySeq
    <2>4. LastFile'
      <3>1. CASE delta = <<>>
        <4>1. Stored' = Stored /\ previous' = previous
          BY <1>1, <1>3, <2>1, <3>1, ConcatEmptySeq
        <4> QED
          BY <1>2, <4>1 DEF LastFile, EndsWith
      <3>2. CASE delta # <<>>
        <4>1. EndsWith(Stored', delta)
          BY <1>1, <1>2, <1>3, <1>4, EndsWithFact
        <4>2. previous' = delta
          BY <2>1, <3>2
        <4> QED
          BY <3>2, <4>1, <4>2 DEF LastFile
      <3> QED
        BY <3>1, <3>2
    <2>5. EndComesLast'
      BY <1>1, <1>2, <1>7 DEF EndComesLast
    <2>6. Streaming' /\ Exited'
      BY <1>1, <1>2, <1>7, <2>3, <2>4, <2>5 DEF Streaming, Exited
    <2> QED
      BY <1>5, <2>2, <2>6 DEF LogInv
  <1> QED
    BY <1>6, <1>7 DEF Log!Upload

\* What ends the streamer or the worker, or changes neither the lines nor the files.
LEMMA OthersKeep ==
  ASSUME LogInv, UNCHANGED <<printed, pipe, delta, previous, files, terminated>>,
         \/ Log!IntervalEnds \/ Log!UploadFails \/ Log!StreamerGone \/ Log!KillStreamer \/ Log!PodDies
         \/ UNCHANGED <<streamer, worker, tail>>
  PROVE  LogInv'
  <1>1. /\ LogTyped /\ Streaming /\ Exited /\ IsPrefix(Stored, printed) /\ previous \o delta \in Seq(Line)
    BY ConcatProperties DEF LogInv, LogTyped
  <1>2. Stored' = Stored /\ Log!Unread' = Log!Unread
    BY DEF Stored, Log!InStorage, Log!Unread
  <1>3. LogTyped'
    BY <1>1 DEF LogTyped, Log!IntervalEnds, Log!UploadFails, Log!StreamerGone, Log!KillStreamer,
                Log!PodDies, Log!CleanedUp, Log!TailLogFile
  <1>4. Streaming'
    BY <1>1, <1>2
       DEF Streaming, Log!StreamerAlive, LastFile, EndsWith, EndComesLast, Log!IntervalEnds,
           Log!UploadFails, Log!StreamerGone, Log!KillStreamer, Log!PodDies
  <1>5. Exited'
    <2>1. CASE Log!IntervalEnds \/ Log!UploadFails
      BY <1>1, <2>1 DEF Exited, Log!IntervalEnds, Log!UploadFails
    <2>2. CASE Log!StreamerGone
      BY <1>1, <1>2, <2>2 DEF Exited, Log!StreamerGone, Log!CleanedUp, Log!TailLogFile, Log!StreamerAlive,
                              LogTyped
    <2>3. CASE Log!KillStreamer \/ Log!PodDies
      BY <1>1, <1>2, <2>3 DEF Exited, Log!KillStreamer, Log!PodDies, Log!CleanedUp
    <2>4. CASE UNCHANGED <<streamer, worker, tail>>
      BY <1>1, <1>2, <2>4 DEF Exited
    <2> QED
      BY <2>1, <2>2, <2>3, <2>4
  <1> QED
    BY <1>1, <1>2, <1>3, <1>4, <1>5 DEF LogInv

LEMMA LogInit ==
  ASSUME Init
  PROVE  LogInv
  <1>1. /\ printed = <<>> /\ pipe = <<>> /\ delta = <<>> /\ previous = <<>> /\ files = <<>> /\ tail = <<>>
        /\ streamer = "reading" /\ terminated = FALSE /\ worker = "running"
    BY DEF Init, Log!StreamInit
  <1>2. \A S : <<>> \in Seq(S)
    BY EmptySeq
  <1>3. LogTyped
    BY <1>1, <1>2 DEF LogTyped
  <1>4. Stored = <<>>
    BY <1>1, <1>2, FlattenFacts, InstanceFact DEF Stored, Log!InStorage
  <1>5. Log!Unread = <<>>
    BY <1>1 DEF Log!Unread
  <1>6. <<>> \o <<>> = <<>> /\ IsPrefix(<<>>, <<>> \o <<>>) /\ EndsWith(<<>>, <<>>)
    BY <1>2, ConcatEmptySeq, PrefixOfConcat, EndsWithFact
  <1> QED
    BY <1>1, <1>2, <1>3, <1>4, <1>5, <1>6 DEF LogInv, Streaming, Exited, LastFile, EndComesLast

LEMMA LogNext ==
  ASSUME LogInv, [Next]_vars
  PROVE  LogInv'
  <1>1. CASE \E l \in Line : Log!Write(l)
    BY <1>1, WriteKeeps
  <1>2. CASE Log!LeaveContext \/ Log!SigTerm
    BY <1>2, CleanUpKeeps DEF Log!LeaveContext, Log!SigTerm
  <1>3. CASE Log!ReadLine \/ Log!Upload
    BY <1>3, ReadLineKeeps, UploadKeeps
  <1>4. CASE Log!IntervalEnds \/ Log!UploadFails \/ Log!StreamerGone \/ Log!KillStreamer \/ Log!PodDies
    BY <1>4, OthersKeep DEF Log!IntervalEnds, Log!UploadFails, Log!StreamerGone, Log!KillStreamer, Log!PodDies
  <1>5. CASE UNCHANGED logVars
    BY <1>5, OthersKeep DEF logVars
  <1>6. CASE UNCHANGED vars
    BY <1>5, <1>6 DEF vars
  <1>7. CASE PrintElsewhere \/ PrintInside \/ StartInlineExecution \/ EndInlineExecution
    BY <1>1, <1>7 DEF PrintElsewhere, PrintInside, StartInlineExecution, EndInlineExecution, Line
  <1>8. CASE Leave \/ Terminate \/ Streams
    BY <1>2, <1>3, <1>4, <1>8 DEF Leave, Terminate, Streams, Log!Streamer
  <1>9. CASE Schedule \/ SaveRun \/ RunFails \/ CommandLoads \/ CommandShows \/ View
    BY <1>5, <1>9 DEF Schedule, SaveRun, RunFails, CommandLoads, CommandShows, View
  <1> QED
    BY <1>6, <1>7, <1>8, <1>9 DEF Next, Done

\* What was printed is in storage, in the file or in the pipe, once and in order, as long as the
\* streamer lives; what is in storage was printed; and all of it is there when a worker ends
\* without an error (ingested_logs, _stream_logs_to_remote_from_file_descriptor).
THEOREM NothingLostAlways == Spec => []NothingLost
  <1>1. LogInv => NothingLost
    <2>1. SUFFICES ASSUME LogInv PROVE Log!NothingLost
      BY DEF NothingLost
    <2>2. LogTyped /\ Streaming /\ Exited /\ IsPrefix(Stored, printed)
      BY <2>1 DEF LogInv
    <2>3. Log!IsPrefix(Log!InStorage, printed)
      BY <2>2, InstanceFact DEF Stored
    <2>4. Log!StreamerAlive => printed = Log!InStorage \o delta \o Log!Unread
      BY <2>2 DEF Streaming, Stored
    <2>5. ASSUME worker = "ended", pipe = <<>>
          PROVE  /\ Log!InStorage = printed /\ Log!IsSuffix(tail, printed)
                 /\ printed # <<>> => tail # <<>>
      <3>1. /\ Stored = printed /\ EndsWith(printed, tail) /\ (printed # <<>> => tail # <<>>)
            /\ printed \in Seq(Line) /\ tail \in Seq(Line)
        BY <2>2, <2>5 DEF Exited, LogTyped
      <3>2. IsSuffix(tail, printed)
        BY <3>1, SuffixFact
      <3> QED
        BY <3>1, <3>2, InstanceFact DEF Stored
    <2> QED
      BY <2>3, <2>4, <2>5 DEF Log!NothingLost
  <1>2. Init => LogInv
    BY LogInit
  <1>3. LogInv /\ [Next]_vars => LogInv'
    BY LogNext
  <1> QED
    BY <1>1, <1>2, <1>3, PTL DEF Spec

(***************************************************************************)
(* Places in the files, and sequences that are in their order.             *)
(***************************************************************************)
Place == [file : Nat \ {0}, index : Nat, line : Line]

\* p is met before q by a reader that goes in a direction.
Sooner(p, q, reverse) == IF reverse THEN Before(q, p) ELSE Before(p, q)

Ordered(s, reverse) == \A i, j \in DOMAIN s : i < j => Sooner(s[i], s[j], reverse)

LEMMA SoonerFacts ==
  ASSUME NEW r \in BOOLEAN
  PROVE  /\ \A p \in Place : ~ Sooner(p, p, r)
         /\ \A p, q, x \in Place : Sooner(p, q, r) /\ Sooner(q, x, r) => Sooner(p, x, r)
         /\ \A p, q \in Place : Sooner(p, q, r) => ~ Sooner(q, p, r)
         /\ \A p, q : Sooner(p, q, r) <=> Sooner(q, p, ~ r)
  BY DEF Sooner, Before, Place

\* Two elements of a sequence in order are the same or one comes first.
LEMMA InOrder ==
  ASSUME NEW s \in Seq(Place), NEW r \in BOOLEAN, Ordered(s, r)
  PROVE  /\ ToSet(s) \subseteq Place
         /\ \A p, q \in ToSet(s) : p = q \/ Sooner(p, q, r) \/ Sooner(q, p, r)
         /\ \A i, j \in DOMAIN s : Sooner(s[i], s[j], r) => i < j
         /\ s # <<>> => /\ s[1] \in ToSet(s) /\ Last(s) \in ToSet(s) /\ Last(s) = s[Len(s)]
                        /\ \A p \in ToSet(s) : p = s[1] \/ Sooner(s[1], p, r)
                        /\ \A p \in ToSet(s) : p = Last(s) \/ Sooner(p, Last(s), r)
  <1>1. DOMAIN s = 1..Len(s) /\ Len(s) \in Nat /\ \A i \in DOMAIN s : s[i] \in Place
    BY LenProperties, ElementOfSeq
  <1>2. ToSet(s) \subseteq Place
    BY <1>1 DEF ToSet
  <1>3. ASSUME NEW p \in ToSet(s), NEW q \in ToSet(s)
        PROVE  p = q \/ Sooner(p, q, r) \/ Sooner(q, p, r)
    <2>1. PICK i \in DOMAIN s : p = s[i]
      BY DEF ToSet
    <2>2. PICK j \in DOMAIN s : q = s[j]
      BY DEF ToSet
    <2>3. i \in Nat /\ j \in Nat
      BY <1>1
    <2>4. i = j \/ i < j \/ j < i
      BY <2>3
    <2> QED
      BY <2>1, <2>2, <2>4 DEF Ordered
  <1>4. ASSUME NEW i \in DOMAIN s, NEW j \in DOMAIN s, Sooner(s[i], s[j], r)
        PROVE  i < j
    <2>1. i \in Nat /\ j \in Nat /\ s[i] \in Place /\ s[j] \in Place
      BY <1>1
    <2>2. i # j
      BY <1>4, <2>1, SoonerFacts
    <2>3. ~ (j < i)
      BY <1>4, <2>1, SoonerFacts DEF Ordered
    <2> QED
      BY <2>1, <2>2, <2>3
  <1>5. ASSUME s # <<>>
        PROVE  /\ s[1] \in ToSet(s) /\ Last(s) \in ToSet(s) /\ Last(s) = s[Len(s)]
               /\ \A p \in ToSet(s) : p = s[1] \/ Sooner(s[1], p, r)
               /\ \A p \in ToSet(s) : p = Last(s) \/ Sooner(p, Last(s), r)
    <2>1. Len(s) \in Nat \ {0}
      BY <1>5, EmptySeq
    <2>2. 1 \in DOMAIN s /\ Len(s) \in DOMAIN s /\ Last(s) = s[Len(s)]
      BY <1>1, <2>1 DEF Last
    <2>3. ASSUME NEW p \in ToSet(s)
          PROVE  (p = s[1] \/ Sooner(s[1], p, r)) /\ (p = Last(s) \/ Sooner(p, Last(s), r))
      <3>1. PICK i \in DOMAIN s : p = s[i]
        BY DEF ToSet
      <3>2. (i = 1 \/ 1 < i) /\ (i = Len(s) \/ i < Len(s))
        BY <1>1, <2>1
      <3> QED
        BY <2>2, <3>1, <3>2 DEF Ordered
    <2> QED
      BY <2>2, <2>3 DEF ToSet
  <1> QED
    BY <1>2, <1>3, <1>4, <1>5

LEMMA OrderedAppend ==
  ASSUME NEW s \in Seq(Place), NEW r \in BOOLEAN, Ordered(s, r),
         NEW e \in Place, \A p \in ToSet(s) : Sooner(p, e, r)
  PROVE  /\ Append(s, e) \in Seq(Place) /\ Ordered(Append(s, e), r)
         /\ ToSet(Append(s, e)) = ToSet(s) \cup {e}
  <1> DEFINE t == Append(s, e)
             n == Len(s)
  <1>1. /\ t \in Seq(Place) /\ Len(t) = n + 1 /\ n \in Nat /\ DOMAIN s = 1..n
        /\ (\A i \in 1..n : t[i] = s[i]) /\ t[n + 1] = e
    BY AppendProperties, LenProperties
  <1>2. DOMAIN t = 1..(n + 1)
    BY <1>1, LenProperties
  <1> HIDE DEF t, n
  <1>3. Ordered(t, r)
    <2> SUFFICES ASSUME NEW i \in DOMAIN t, NEW j \in DOMAIN t, i < j
                 PROVE  Sooner(t[i], t[j], r)
      BY DEF Ordered
    <2>1. i \in 1..n /\ (j \in 1..n \/ j = n + 1)
      BY <1>1, <1>2
    <2>2. s[i] \in ToSet(s)
      BY <1>1, <2>1 DEF ToSet
    <2> QED
      BY <1>1, <2>1, <2>2 DEF Ordered
  <1>4. ToSet(t) = ToSet(s) \cup {e}
    <2>1. ASSUME NEW p \in ToSet(t) PROVE p \in ToSet(s) \cup {e}
      <3>1. PICK i \in 1..(n + 1) : p = t[i]
        BY <1>2 DEF ToSet
      <3>2. i \in 1..n \/ i = n + 1
        BY <1>1
      <3> QED
        BY <1>1, <3>1, <3>2 DEF ToSet
    <2>2. ASSUME NEW p \in ToSet(s) PROVE p \in ToSet(t)
      <3>1. PICK i \in 1..n : p = s[i]
        BY <1>1 DEF ToSet
      <3>2. i \in DOMAIN t
        BY <1>1, <1>2
      <3> QED
        BY <1>1, <3>1, <3>2 DEF ToSet
    <2>3. e \in ToSet(t)
      <3>1. n + 1 \in DOMAIN t
        BY <1>1, <1>2
      <3> QED
        BY <1>1, <3>1 DEF ToSet
    <2> QED
      BY <2>1, <2>2, <2>3
  <1> QED
    BY <1>1, <1>3, <1>4 DEF t

LEMMA OrderedConcat ==
  ASSUME NEW s \in Seq(Place), NEW t \in Seq(Place), NEW r \in BOOLEAN, Ordered(s, r), Ordered(t, r),
         \A p \in ToSet(s), q \in ToSet(t) : Sooner(p, q, r)
  PROVE  /\ s \o t \in Seq(Place) /\ Ordered(s \o t, r)
         /\ ToSet(s \o t) = ToSet(s) \cup ToSet(t)
  <1> DEFINE u == s \o t
             m == Len(s)
             n == Len(t)
  <1>1. /\ u \in Seq(Place) /\ Len(u) = m + n /\ m \in Nat /\ n \in Nat /\ DOMAIN s = 1..m /\ DOMAIN t = 1..n
        /\ \A i \in 1..(m + n) : u[i] = IF i <= m THEN s[i] ELSE t[i - m]
    BY ConcatProperties, LenProperties
  <1>2. DOMAIN u = 1..(m + n)
    BY <1>1, LenProperties
  <1> HIDE DEF u, m, n
  <1>3. \A i \in DOMAIN u : \/ i <= m /\ i \in DOMAIN s /\ u[i] = s[i] /\ s[i] \in ToSet(s)
                            \/ i > m /\ i - m \in DOMAIN t /\ u[i] = t[i - m] /\ t[i - m] \in ToSet(t)
    <2> TAKE i \in DOMAIN u
    <2>1. i \in 1..(m + n)
      BY <1>2
    <2>2. CASE i <= m
      BY <1>1, <2>1, <2>2 DEF ToSet
    <2>3. CASE i > m
      <3>1. i - m \in DOMAIN t /\ ~ (i <= m)
        BY <1>1, <2>1, <2>3
      <3> QED
        BY <1>1, <2>1, <2>3, <3>1 DEF ToSet
    <2> QED
      BY <1>1, <2>1, <2>2, <2>3
  <1>4. Ordered(u, r)
    <2> SUFFICES ASSUME NEW i \in DOMAIN u, NEW j \in DOMAIN u, i < j
                 PROVE  Sooner(u[i], u[j], r)
      BY DEF Ordered
    <2>1. i \in Int /\ j \in Int /\ m \in Int
      BY <1>1, <1>2
    <2>2. CASE j <= m
      <3>1. i <= m
        BY <2>1, <2>2
      <3> QED
        BY <1>3, <2>1, <2>2, <3>1 DEF Ordered
    <2>3. CASE i <= m /\ j > m
      BY <1>3, <2>1, <2>3
    <2>4. CASE i > m
      <3>1. j > m /\ i - m < j - m
        BY <2>1, <2>4
      <3> QED
        BY <1>3, <2>1, <2>4, <3>1 DEF Ordered
    <2> QED
      BY <2>1, <2>2, <2>3, <2>4
  <1>5. ToSet(u) = ToSet(s) \cup ToSet(t)
    <2>1. ToSet(u) \subseteq ToSet(s) \cup ToSet(t)
      BY <1>3 DEF ToSet
    <2>2. ASSUME NEW i \in DOMAIN s PROVE s[i] \in ToSet(u)
      <3>1. i \in DOMAIN u /\ u[i] = s[i]
        BY <1>1, <1>2
      <3> QED
        BY <3>1 DEF ToSet
    <2>3. ASSUME NEW i \in DOMAIN t PROVE t[i] \in ToSet(u)
      <3>1. i + m \in 1..(m + n) /\ ~ (i + m <= m) /\ (i + m) - m = i
        BY <1>1
      <3>2. u[i + m] = t[i]
        BY <1>1, <3>1
      <3> QED
        BY <1>2, <3>1, <3>2 DEF ToSet
    <2> QED
      BY <2>1, <2>2, <2>3 DEF ToSet
  <1> QED
    BY <1>1, <1>4, <1>5 DEF u

\* The elements at some places of a sequence are in its order.
LEMMA AtFacts ==
  ASSUME NEW s \in Seq(Place), NEW r \in BOOLEAN, Ordered(s, r), NEW P
  PROVE  /\ At(s, P) \in Seq(Place) /\ Ordered(At(s, P), r)
         /\ ToSet(At(s, P)) = {s[i] : i \in DOMAIN s \cap P}
  <1> DEFINE parts == [i \in DOMAIN s |-> IF i \in P THEN <<s[i]>> ELSE <<>>]
             n     == Len(s)
  <1>1. n \in Nat /\ DOMAIN s = 1..n /\ (\A i \in 1..n : s[i] \in Place) /\ <<>> \in Seq(Place)
    BY LenProperties, ElementOfSeq, EmptySeq
  <1>2. parts \in Seq(Seq(Place)) /\ Len(parts) = n
    <2>1. \A i \in 1..n : <<s[i]>> \in Seq(Place)
      BY <1>1
    <2>2. parts \in [1..n -> Seq(Place)]
      BY <1>1, <2>1
    <2> QED
      BY <1>1, <2>2
  <1>3. At(s, P) = FlattenSeq(parts)
    BY DEF At
  <1>4. \A i \in 1..n : parts[i] = IF i \in P THEN <<s[i]>> ELSE <<>>
    BY <1>1
  <1> HIDE DEF parts
  <1>5. CASE n = 0
    <2>1. parts = <<>>
      BY <1>2, <1>5, EmptySeq
    <2>2. At(s, P) = <<>>
      BY <1>2, <1>3, <2>1, FlattenFacts
    <2>3. DOMAIN At(s, P) = {} /\ DOMAIN s = {}
      BY <1>1, <1>5, <2>2
    <2> QED
      BY <1>1, <2>2, <2>3 DEF Ordered, ToSet
  <1>6. CASE n # 0
    <2>1. parts # <<>>
      BY <1>2, <1>6, EmptySeq
    <2>2. PICK g : Joins(parts, n, g) /\ FlattenSeq(parts) = g[n]
      BY <1>2, <2>1, FlattenFacts
    <2>3. \A i \in 1..n : g[i] = IF i = 1 THEN parts[i] ELSE g[i - 1] \o parts[i]
      BY <2>2 DEF Joins
    <2> DEFINE Right(i) == /\ g[i] \in Seq(Place) /\ Ordered(g[i], r)
                           /\ ToSet(g[i]) = {s[j] : j \in (1..i) \cap P}
               Wrong    == {i \in 1..n : ~ Right(i)}
    <2>4. SUFFICES ASSUME Wrong # {} PROVE FALSE
      <3>1. n \in 1..n
        BY <1>1, <1>6
      <3> QED
        BY <1>1, <1>3, <2>2, <3>1
    <2>5. PICK m \in Wrong : \A k \in Wrong : m <= k
      <3>1. Wrong \in SUBSET (0..n)
        BY <1>1
      <3> HIDE DEF Wrong
      <3> QED
        BY <1>1, <2>4, <3>1, LeastNumber
    <2>6. m \in 1..n /\ ~ Right(m) /\ s[m] \in Place /\ m \in Nat
      BY <1>1, <2>5
    <2>0. \A k \in 1..n : k < m => Right(k)
      <3> TAKE k \in 1..n
      <3> HAVE k < m
      <3>1. ~ (m <= k)
        BY <2>6
      <3>2. k \notin Wrong
        BY <2>5, <3>1
      <3> QED
        BY <3>2
    <2> DEFINE before == IF m = 1 THEN <<>> ELSE g[m - 1]
    <2>7. /\ before \in Seq(Place) /\ Ordered(before, r)
          /\ ToSet(before) = {s[j] : j \in (1..(m - 1)) \cap P}
      <3>1. CASE m = 1
        <4>1. DOMAIN before = {} /\ 1..(m - 1) = {}
          BY <3>1
        <4> QED
          BY <1>1, <3>1, <4>1 DEF Ordered, ToSet
      <3>2. CASE m # 1
        <4>1. m - 1 \in 1..n /\ m - 1 < m
          BY <2>6, <3>2
        <4>2. Right(m - 1)
          BY <2>0, <4>1
        <4> QED
          BY <3>2, <4>2
      <3> QED
        BY <3>1, <3>2
    <2>8. g[m] = before \o parts[m]
      <3>1. parts[m] \in Seq(Place)
        <4>1. <<s[m]>> \in Seq(Place)
          BY <2>6
        <4> QED
          BY <1>1, <1>4, <2>6, <4>1
      <3>2. <<>> \o parts[m] = parts[m]
        BY <3>1, ConcatEmptySeq
      <3> QED
        BY <2>3, <2>6, <3>2
    <2> HIDE DEF before
    <2>9. CASE m \notin P
      <3>1. g[m] = before
        BY <1>4, <2>6, <2>7, <2>8, <2>9, ConcatEmptySeq
      <3>2. (1..m) \cap P = (1..(m - 1)) \cap P
        BY <2>6, <2>9
      <3> QED
        BY <2>6, <2>7, <3>1, <3>2
    <2>10. CASE m \in P
      <3>1. g[m] = Append(before, s[m])
        <4>1. parts[m] = <<s[m]>>
          BY <1>4, <2>6, <2>10
        <4> QED
          BY <2>6, <2>7, <2>8, <4>1, AppendIsConcat
      <3>2. \A p \in ToSet(before) : Sooner(p, s[m], r)
        <4> TAKE p \in ToSet(before)
        <4>1. PICK j \in (1..(m - 1)) \cap P : p = s[j]
          BY <2>7
        <4>2. j \in DOMAIN s /\ m \in DOMAIN s /\ j < m
          BY <1>1, <2>6, <4>1
        <4> QED
          BY <4>1, <4>2 DEF Ordered
      <3>3. (1..m) \cap P = ((1..(m - 1)) \cap P) \cup {m}
        BY <2>6, <2>10
      <3>4. {s[j] : j \in (1..m) \cap P} = {s[j] : j \in (1..(m - 1)) \cap P} \cup {s[m]}
        BY <3>3
      <3>5. /\ Append(before, s[m]) \in Seq(Place) /\ Ordered(Append(before, s[m]), r)
            /\ ToSet(Append(before, s[m])) = ToSet(before) \cup {s[m]}
        BY <2>6, <2>7, <3>2, OrderedAppend
      <3>6. ToSet(g[m]) = {s[j] : j \in (1..m) \cap P}
        BY <2>7, <3>1, <3>4, <3>5
      <3>7. g[m] \in Seq(Place) /\ Ordered(g[m], r)
        BY <3>1, <3>5
      <3> QED
        BY <2>6, <3>6, <3>7
    <2> QED
      BY <2>9, <2>10
  <1> QED
    BY <1>5, <1>6

LEMMA ReverseFacts ==
  ASSUME NEW s \in Seq(Place), NEW r \in BOOLEAN, Ordered(s, r)
  PROVE  /\ Reverse(s) \in Seq(Place) /\ Ordered(Reverse(s), ~ r) /\ ToSet(Reverse(s)) = ToSet(s)
         /\ s = <<>> <=> Reverse(s) = <<>>
         /\ s # <<>> => Reverse(s)[1] = s[Len(s)] /\ Last(Reverse(s)) = s[1]
  <1> DEFINE n == Len(s)
             R == Reverse(s)
  <1>1. n \in Nat /\ DOMAIN s = 1..n /\ (\A i \in 1..n : s[i] \in Place)
    BY LenProperties, ElementOfSeq
  <1>2. R = [i \in 1..n |-> s[(n - i) + 1]]
    BY DEF Reverse
  <1>3. \A i \in 1..n : (n - i) + 1 \in 1..n /\ (n - ((n - i) + 1)) + 1 = i
    BY <1>1
  <1>4. \A i \in 1..n : s[(n - i) + 1] \in Place
    BY <1>1, <1>3
  <1>5. R \in [1..n -> Place]
    BY <1>2, <1>4
  <1>6. R \in Seq(Place) /\ Len(R) = n /\ DOMAIN R = 1..n /\ \A i \in 1..n : R[i] = s[(n - i) + 1]
    BY <1>1, <1>2, <1>5
  <1> HIDE DEF R, n
  <1>7. Ordered(R, ~ r)
    <2> SUFFICES ASSUME NEW i \in DOMAIN R, NEW j \in DOMAIN R, i < j
                 PROVE  Sooner(R[i], R[j], ~ r)
      BY DEF Ordered
    <2>1. i \in 1..n /\ j \in 1..n
      BY <1>6
    <2>2. (n - j) + 1 < (n - i) + 1
      BY <1>1, <2>1
    <2>3. Sooner(s[(n - j) + 1], s[(n - i) + 1], r)
      BY <1>1, <1>3, <2>1, <2>2 DEF Ordered
    <2> QED
      BY <1>6, <2>1, <2>3, SoonerFacts
  <1>8. ToSet(R) = ToSet(s)
    <2>1. \A i \in 1..n : R[i] \in ToSet(s) /\ s[i] \in ToSet(R)
      <3> TAKE i \in 1..n
      <3>1. R[i] = s[(n - i) + 1] /\ R[(n - i) + 1] = s[i]
        BY <1>3, <1>6
      <3> QED
        BY <1>1, <1>3, <1>6, <3>1 DEF ToSet
    <2> QED
      BY <1>1, <1>6, <2>1 DEF ToSet
  <1>9. s = <<>> <=> R = <<>>
    <2>1. (s # <<>> => n # 0) /\ (R # <<>> => n # 0)
      BY <1>6, EmptySeq DEF n
    <2>2. (s = <<>> => n = 0) /\ (R = <<>> => n = 0)
      BY <1>6 DEF n
    <2> QED
      BY <2>1, <2>2
  <1>10. ASSUME s # <<>>
         PROVE  R[1] = s[n] /\ Last(R) = s[1]
    <2>1. n \in Nat \ {0}
      BY <1>10, EmptySeq DEF n
    <2>2. 1 \in 1..n /\ n \in 1..n /\ (n - 1) + 1 = n /\ (n - n) + 1 = 1
      BY <2>1
    <2>3. R[1] = s[n] /\ R[n] = s[1]
      BY <1>6, <2>2
    <2> QED
      BY <1>6, <2>3 DEF Last
  <1> QED
    BY <1>6, <1>7, <1>8, <1>9, <1>10 DEF R, n

\* What is met first in t, up to some point, is a prefix of t.
LEMMA PrefixBySets ==
  ASSUME NEW s \in Seq(Place), NEW t \in Seq(Place), NEW r \in BOOLEAN, Ordered(s, r), Ordered(t, r),
         ToSet(s) \subseteq ToSet(t),
         \A q \in ToSet(t), p \in ToSet(s) : Sooner(q, p, r) => q \in ToSet(s)
  PROVE  IsPrefix(s, t)
  <1> DEFINE m == Len(s)
             n == Len(t)
             Wrong == {i \in 1..m : i > n \/ s[i] # t[i]}
  <1>1. /\ m \in Nat /\ n \in Nat /\ DOMAIN s = 1..m /\ DOMAIN t = 1..n
        /\ (\A i \in 1..m : s[i] \in Place) /\ (\A i \in 1..n : t[i] \in Place)
    BY LenProperties, ElementOfSeq
  <1>2. SUFFICES ASSUME Wrong # {} PROVE FALSE
    <2>1. \A i \in 1..m : i <= n /\ s[i] = t[i]
      BY <1>1, <1>2
    <2>2. m <= n
      <3>1. m = 0 \/ m \in 1..m
        BY <1>1
      <3> QED
        BY <1>1, <2>1, <3>1
    <2> QED
      BY <2>1, <2>2, PrefixFact
  <1>3. PICK i \in Wrong : \A k \in Wrong : i <= k
    <2>1. Wrong \in SUBSET (0..m)
      BY <1>1
    <2> HIDE DEF Wrong
    <2> QED
      BY <1>1, <1>2, <2>1, LeastNumber
  <1>4. i \in 1..m /\ i \in Nat /\ (i > n \/ s[i] # t[i]) /\ s[i] \in Place
    BY <1>1, <1>3
  <1>5. \A k \in 1..(i - 1) : k \in 1..m /\ k \in 1..n /\ s[k] = t[k]
    <2> TAKE k \in 1..(i - 1)
    <2>1. k \in 1..m /\ ~ (i <= k)
      BY <1>1, <1>4
    <2>2. k \notin Wrong
      BY <1>3, <2>1
    <2> QED
      BY <1>1, <2>1, <2>2
  <1> HIDE DEF Wrong
  <1>6. PICK k \in 1..n : t[k] = s[i]
    <2>1. s[i] \in ToSet(t)
      BY <1>1, <1>4 DEF ToSet
    <2> QED
      BY <1>1, <2>1 DEF ToSet
  <1>7. k >= i
    <2> SUFFICES ASSUME k < i PROVE FALSE
      BY <1>1, <1>4
    <2>1. k \in 1..(i - 1) /\ k \in DOMAIN s /\ i \in DOMAIN s
      BY <1>1, <1>4
    <2>2. s[k] = s[i]
      BY <1>5, <1>6, <2>1
    <2>3. Sooner(s[k], s[i], r)
      BY <2>1 DEF Ordered
    <2> QED
      BY <1>4, <2>2, <2>3, SoonerFacts
  <1>8. i \in 1..n /\ k # i /\ i < k
    BY <1>1, <1>4, <1>6, <1>7
  <1>9. Sooner(t[i], s[i], r) /\ t[i] \in ToSet(t) /\ s[i] \in ToSet(s)
    BY <1>1, <1>4, <1>6, <1>8 DEF Ordered, ToSet
  <1>10. PICK j \in 1..m : s[j] = t[i]
    <2>1. t[i] \in ToSet(s)
      BY <1>9
    <2> QED
      BY <1>1, <2>1 DEF ToSet
  <1>11. j \in DOMAIN s /\ i \in DOMAIN s /\ Sooner(s[j], s[i], r)
    BY <1>1, <1>4, <1>9, <1>10
  <1>12. j < i
    BY <1>11, InOrder
  <1>13. j \in 1..(i - 1)
    BY <1>4, <1>12
  <1>14. t[j] = t[i] /\ j \in DOMAIN t /\ i \in DOMAIN t
    BY <1>1, <1>5, <1>8, <1>10, <1>13
  <1>15. Sooner(t[j], t[i], r) /\ t[i] \in Place
    BY <1>1, <1>12, <1>14 DEF Ordered
  <1> QED
    BY <1>14, <1>15, SoonerFacts

\* Two sequences in order with the same elements are the same.
LEMMA SameBySets ==
  ASSUME NEW s \in Seq(Place), NEW t \in Seq(Place), NEW r \in BOOLEAN, Ordered(s, r), Ordered(t, r),
         ToSet(s) = ToSet(t)
  PROVE  s = t
  <1>1. IsPrefix(s, t) /\ IsPrefix(t, s)
    BY PrefixBySets
  <1>2. Len(s) \in Nat /\ Len(t) \in Nat
    BY LenProperties
  <1>3. Len(s) = Len(t) /\ \A i \in 1..Len(s) : s[i] = t[i]
    BY <1>1, <1>2, PrefixFact
  <1> QED
    BY <1>3, SeqEqual

(***************************************************************************)
(* What a request reads, as a set of places.                               *)
(***************************************************************************)
InFiles(F) == AllLines(F) \in Seq(Place) /\ Ordered(AllLines(F), FALSE)

LEMMA StreamFacts ==
  ASSUME NEW F, InFiles(F), NEW c, NEW r \in BOOLEAN
  PROVE  /\ LineStream(F, c, r) \in Seq(Place) /\ Ordered(LineStream(F, c, r), r)
         /\ ToSet(LineStream(F, c, r)) = {p \in ToSet(AllLines(F)) : InScope(p, c, r)}
  <1> DEFINE all   == AllLines(F)
             scope == At(all, {i \in DOMAIN all : InScope(all[i], c, r)})
  <1>1. /\ scope \in Seq(Place) /\ Ordered(scope, FALSE)
        /\ ToSet(scope) = {all[i] : i \in DOMAIN all \cap {i \in DOMAIN all : InScope(all[i], c, r)}}
    BY AtFacts DEF InFiles
  <1>2. ToSet(scope) = {p \in ToSet(all) : InScope(p, c, r)}
    BY <1>1 DEF ToSet
  <1>3. LineStream(F, c, r) = IF r THEN Reverse(scope) ELSE scope
    BY DEF LineStream
  <1> HIDE DEF scope, all
  <1>4. CASE r
    <2>1. /\ Reverse(scope) \in Seq(Place) /\ Ordered(Reverse(scope), ~ FALSE)
          /\ ToSet(Reverse(scope)) = ToSet(scope)
      BY <1>1, ReverseFacts
    <2> QED
      BY <1>2, <1>3, <1>4, <2>1 DEF all
  <1>5. CASE ~ r
    BY <1>1, <1>2, <1>3, <1>5 DEF all
  <1> QED
    BY <1>4, <1>5

\* Whether a place is between the indicators, given all the places X of a stream.
Inside(X, p, skip_start, r) ==
  IF skip_start
  THEN \A e \in X : e.line = ExpectedEnd(r) => Sooner(p, e, r)
  ELSE \E s \in X :
         /\ s.line = ExpectedStart(r) /\ \A u \in X : u.line = ExpectedStart(r) => u = s \/ Sooner(s, u, r)
         /\ Sooner(s, p, r)
         /\ \A e \in X : e.line = ExpectedEnd(r) /\ Sooner(s, e, r) => Sooner(p, e, r)

\* The least of some numbers, or n if there are none of them.
LEMMA MinFact ==
  ASSUME NEW n \in Nat, NEW S \in SUBSET (0..n)
  PROVE  /\ Min(S \cup {n}) \in S \cup {n} /\ Min(S \cup {n}) \in Nat
         /\ \A k \in S \cup {n} : Min(S \cup {n}) <= k
  <1>1. S \cup {n} \in SUBSET (0..n) /\ S \cup {n} # {}
    OBVIOUS
  <1>2. \E m \in S \cup {n} : \A k \in S \cup {n} : m <= k
    BY <1>1, LeastNumber
  <1>3. Min(S \cup {n}) = CHOOSE m \in S \cup {n} : \A k \in S \cup {n} : m <= k
    BY DEF Min
  <1> DEFINE T == S \cup {n}
  <1> HIDE DEF T
  <1>4. (CHOOSE m \in T : \A k \in T : m <= k) \in T /\ \A i \in T : (CHOOSE m \in T : \A k \in T : m <= k) <= i
    BY <1>2, Zenon DEF T
  <1>5. Min(T) \in T /\ \A k \in T : Min(T) <= k
    BY <1>3, <1>4 DEF T
  <1>6. \A k \in T : k \in Nat
    BY <1>1 DEF T
  <1>7. Min(T) \in T /\ Min(T) \in Nat /\ \A k \in T : Min(T) <= k
    BY <1>5, <1>6
  <1>8. T = S \cup {n}
    BY DEF T
  <1> QED
    BY <1>7, <1>8

LEMMA FilterFacts ==
  ASSUME NEW s \in Seq(Place), NEW r \in BOOLEAN, Ordered(s, r), NEW skip \in BOOLEAN
  PROVE  /\ FilterForInline(s, skip, r) \in Seq(Place) /\ Ordered(FilterForInline(s, skip, r), r)
         /\ ToSet(FilterForInline(s, skip, r)) =
              {p \in ToSet(s) : p.line # ExpectedStart(r) /\ Inside(ToSet(s), p, skip, r)}
  <1> DEFINE n      == Len(s)
             X      == ToSet(s)
             Starts == {i \in DOMAIN s : s[i].line = ExpectedStart(r)}
             first  == IF skip THEN 0 ELSE Min(Starts \cup {n})
             Ends   == {i \in DOMAIN s : i > first /\ s[i].line = ExpectedEnd(r)}
             last   == Min(Ends \cup {n + 1})
             P      == {i \in (first + 1)..(last - 1) : s[i].line # ExpectedStart(r)}
             f      == FilterForInline(s, skip, r)
  <1>1. n \in Nat /\ DOMAIN s = 1..n /\ (\A i \in 1..n : s[i] \in Place)
    BY LenProperties, ElementOfSeq
  <1>2. f = At(s, P)
    BY DEF FilterForInline
  <1>3. f \in Seq(Place) /\ Ordered(f, r) /\ ToSet(f) = {s[i] : i \in DOMAIN s \cap P}
    BY <1>2, AtFacts
  <1>4. /\ first \in Nat
        /\ skip => first = 0
        /\ ~ skip => first \in Starts \cup {n} /\ \A k \in Starts \cup {n} : first <= k
    <2>1. Starts \in SUBSET (0..n)
      BY <1>1
    <2> HIDE DEF Starts
    <2>2. /\ Min(Starts \cup {n}) \in Starts \cup {n} /\ Min(Starts \cup {n}) \in Nat
          /\ \A k \in Starts \cup {n} : Min(Starts \cup {n}) <= k
      BY <1>1, <2>1, MinFact
    <2>3. first = IF skip THEN 0 ELSE Min(Starts \cup {n})
      OBVIOUS
    <2> HIDE DEF first
    <2> QED
      BY <2>2, <2>3
  <1> HIDE DEF first
  <1>5. last \in Ends \cup {n + 1} /\ (\A k \in Ends \cup {n + 1} : last <= k) /\ last \in Nat
    <2>1. Ends \in SUBSET (0..(n + 1)) /\ n + 1 \in Nat
      BY <1>1
    <2> HIDE DEF Ends
    <2> QED
      BY <2>1, MinFact
  <1> HIDE DEF last
  <1>6. \A i, j \in 1..n : Sooner(s[i], s[j], r) <=> i < j
    BY <1>1, InOrder DEF Ordered
  <1>7. \A p \in X : \E i \in 1..n : p = s[i]
    BY <1>1 DEF ToSet
  <1>8. \A i \in 1..n : s[i] \in X
    BY <1>1 DEF ToSet
  <1>9. ASSUME NEW i \in 1..n
        PROVE  (first < i /\ i < last) <=> Inside(X, s[i], skip, r)
    <2>1. ASSUME first < i, i < last, NEW e \in X, e.line = ExpectedEnd(r),
                 skip \/ Sooner(s[first], e, r), skip \/ first \in 1..n
          PROVE  Sooner(s[i], e, r)
      <3>1. PICK j \in 1..n : e = s[j]
        BY <1>7
      <3>2. first < j
        <4>1. CASE skip
          BY <1>4, <4>1
        <4>2. CASE ~ skip
          BY <1>6, <2>1, <3>1, <4>2
        <4> QED
          BY <4>1, <4>2
      <3>3. j \in Ends
        BY <1>1, <2>1, <3>1, <3>2
      <3>4. i < j
        BY <1>5, <2>1, <3>3
      <3> QED
        BY <1>6, <3>1, <3>4
    <2>2. ASSUME first < i, \A e \in X : e.line = ExpectedEnd(r) /\ (skip \/ Sooner(s[first], e, r)) => Sooner(s[i], e, r),
                 skip \/ first \in 1..n
          PROVE  i < last
      <3>1. CASE last = n + 1
        BY <3>1
      <3>2. CASE last \in Ends
        <4>1. last \in 1..n /\ last > first /\ s[last].line = ExpectedEnd(r) /\ s[last] \in X
          BY <1>1, <1>8, <3>2
        <4>2. skip \/ Sooner(s[first], s[last], r)
          BY <1>6, <2>2, <4>1
        <4>3. Sooner(s[i], s[last], r)
          BY <2>2, <4>1, <4>2
        <4> QED
          BY <1>6, <4>1, <4>3
      <3> QED
        BY <1>5, <3>1, <3>2
    <2>3. CASE skip
      <3>1. first < i
        BY <1>4, <2>3
      <3>2. (i < last) <=> \A e \in X : e.line = ExpectedEnd(r) => Sooner(s[i], e, r)
        BY <2>1, <2>2, <2>3, <3>1
      <3> QED
        BY <2>3, <3>1, <3>2 DEF Inside
    <2>4. CASE ~ skip
      <3>1. ASSUME first < i, i < last
            PROVE  Inside(X, s[i], skip, r)
        <4>1. first \in Starts /\ first \in 1..n
          <5>1. first # n
            <6>1. i <= n /\ i \in Nat /\ n \in Nat
              BY <1>1
            <6> HIDE DEF n
            <6> QED
              BY <1>4, <3>1, <6>1
          <5>2. first \in Starts
            BY <1>4, <2>4, <5>1
          <5> QED
            BY <1>1, <5>2
        <4>2. s[first] \in X /\ s[first].line = ExpectedStart(r) /\ Sooner(s[first], s[i], r)
          BY <1>6, <1>8, <3>1, <4>1
        <4>3. \A u \in X : u.line = ExpectedStart(r) => u = s[first] \/ Sooner(s[first], u, r)
          <5> TAKE u \in X
          <5> HAVE u.line = ExpectedStart(r)
          <5>1. PICK k \in 1..n : u = s[k]
            BY <1>7
          <5>2. k \in Starts
            BY <1>1, <5>1
          <5>3. first <= k
            BY <1>4, <2>4, <5>2
          <5> QED
            BY <1>6, <4>1, <5>1, <5>3
        <4>4. \A e \in X : e.line = ExpectedEnd(r) /\ Sooner(s[first], e, r) => Sooner(s[i], e, r)
          BY <2>1, <3>1, <4>1
        <4> QED
          BY <2>4, <4>2, <4>3, <4>4 DEF Inside
      <3>2. ASSUME Inside(X, s[i], skip, r)
            PROVE  first < i /\ i < last
        <4>1. PICK v \in X : /\ v.line = ExpectedStart(r)
                             /\ \A u \in X : u.line = ExpectedStart(r) => u = v \/ Sooner(v, u, r)
                             /\ Sooner(v, s[i], r)
                             /\ \A e \in X : e.line = ExpectedEnd(r) /\ Sooner(v, e, r) => Sooner(s[i], e, r)
          BY <2>4, <3>2 DEF Inside
        <4>2. PICK k \in 1..n : v = s[k]
          BY <1>7
        <4>3. k \in Starts /\ first <= k
          BY <1>1, <1>4, <2>4, <4>1, <4>2
        <4>4. first = k
          <5>1. CASE first = n
            BY <1>1, <4>3, <5>1
          <5>2. CASE first \in Starts
            <6>1. first \in 1..n /\ s[first] \in X /\ s[first].line = ExpectedStart(r)
              BY <1>1, <1>8, <5>2
            <6>2. ~ (first < k)
              <7> SUFFICES ASSUME first < k PROVE FALSE
                OBVIOUS
              <7>1. s[first] = v \/ Sooner(v, s[first], r)
                BY <4>1, <6>1
              <7>2. Sooner(s[first], v, r)
                BY <1>6, <4>2, <6>1
              <7> QED
                BY <1>6, <4>2, <6>1, <7>1, <7>2
            <6> QED
              BY <4>3, <6>1, <6>2
          <5> QED
            BY <1>4, <2>4, <5>1, <5>2
        <4>5. first < i /\ first \in 1..n
          BY <1>6, <4>1, <4>2, <4>4
        <4>6. \A e \in X : e.line = ExpectedEnd(r) /\ (skip \/ Sooner(s[first], e, r)) => Sooner(s[i], e, r)
          BY <2>4, <4>1, <4>2, <4>4
        <4> QED
          BY <2>2, <4>5, <4>6
      <3> QED
        BY <3>1, <3>2
    <2> QED
      BY <2>3, <2>4
  <1>10. \A i \in 1..n : i \in P <=> s[i].line # ExpectedStart(r) /\ Inside(X, s[i], skip, r)
    BY <1>4, <1>5, <1>9
  <1> HIDE DEF P, X, f
  <1>11. ToSet(f) = {p \in X : p.line # ExpectedStart(r) /\ Inside(X, p, skip, r)}
    <2>1. ASSUME NEW p \in ToSet(f) PROVE p \in X /\ p.line # ExpectedStart(r) /\ Inside(X, p, skip, r)
      <3>1. PICK i \in DOMAIN s \cap P : p = s[i]
        BY <1>3
      <3> QED
        BY <1>1, <1>8, <1>10, <3>1
    <2>2. ASSUME NEW p \in X, p.line # ExpectedStart(r), Inside(X, p, skip, r) PROVE p \in ToSet(f)
      <3>1. PICK i \in 1..n : p = s[i]
        BY <1>7
      <3> QED
        BY <1>1, <1>3, <1>10, <2>2, <3>1
    <2> QED
      BY <2>1, <2>2
  <1> QED
    BY <1>3, <1>11 DEF X, f

LEMMA FoundFacts ==
  ASSUME NEW s \in Seq(Place), NEW r \in BOOLEAN, Ordered(s, r), NEW filtered \in BOOLEAN
  PROVE  /\ Found(s, filtered) \in Seq(Place) /\ Ordered(Found(s, filtered), r)
         /\ ToSet(Found(s, filtered)) = {p \in ToSet(s) : filtered => p.line = "match"}
  <1> DEFINE P == {i \in DOMAIN s : s[i].line = "match"}
  <1>1. /\ At(s, P) \in Seq(Place) /\ Ordered(At(s, P), r)
        /\ ToSet(At(s, P)) = {s[i] : i \in DOMAIN s \cap P}
    BY AtFacts
  <1>2. {s[i] : i \in DOMAIN s \cap P} = {p \in ToSet(s) : p.line = "match"}
    BY DEF ToSet
  <1>3. Found(s, filtered) = IF filtered THEN At(s, P) ELSE s
    BY DEF Found
  <1> HIDE DEF P
  <1> QED
    BY <1>1, <1>2, <1>3

\* A page has the lines that are met first.
LEMMA PageFacts ==
  ASSUME NEW s \in Seq(Place), NEW r \in BOOLEAN, Ordered(s, r), NEW filtered \in BOOLEAN,
         NEW page \in Pages(s, filtered, PageLines)
  PROVE  /\ page.lines \in Seq(Place) /\ Ordered(page.lines, r)
         /\ ToSet(page.lines) \subseteq {p \in ToSet(s) : filtered => p.line = "match"}
         /\ \A p \in ToSet(page.lines), q \in ToSet(s) :
              Sooner(q, p, r) /\ (filtered => q.line = "match") => q \in ToSet(page.lines)
  <1> DEFINE found == Found(s, filtered)
             n     == Len(found)
             full  == Min({n, PageLines})
  <1>1. /\ found \in Seq(Place) /\ Ordered(found, r)
        /\ ToSet(found) = {p \in ToSet(s) : filtered => p.line = "match"}
    BY FoundFacts
  <1>2. n \in Nat /\ DOMAIN found = 1..n /\ (\A i \in 1..n : found[i] \in Place)
    BY <1>1, LenProperties, ElementOfSeq
  <1>3. full \in 0..n
    <2>1. PageLines \in Nat
      BY ReaderAssumption DEF ReaderAssumption
    <2>2. CASE PageLines <= n
      <3>1. {n, PageLines} = {PageLines} \cup {n} /\ {PageLines} \in SUBSET (0..n)
        BY <1>2, <2>1, <2>2
      <3> HIDE DEF n
      <3>2. full \in {PageLines} \cup {n}
        BY <1>2, <3>1, MinFact
      <3> QED
        BY <1>2, <2>1, <2>2, <3>2
    <2>3. CASE ~ (PageLines <= n)
      <3>1. {n, PageLines} = {n} \cup {PageLines} /\ {n} \in SUBSET (0..PageLines)
        BY <1>2, <2>1, <2>3
      <3> HIDE DEF n
      <3>2. full \in {n} \cup {PageLines} /\ full <= n
        BY <2>1, <3>1, MinFact
      <3> QED
        BY <1>2, <2>1, <3>2
    <2> QED
      BY <2>2, <2>3
  <1>4. PICK k \in 0..full : page.lines = SubSeq(found, 1, k)
    <2>1. page \in {[lines |-> SubSeq(found, 1, full), timed_out |-> FALSE]} \cup
                   {[lines |-> SubSeq(found, 1, k), timed_out |-> TRUE] : k \in 1..full}
      BY DEF Pages
    <2> HIDE DEF found, full
    <2>2. CASE page = [lines |-> SubSeq(found, 1, full), timed_out |-> FALSE]
      BY <1>3, <2>2
    <2>3. CASE page \in {[lines |-> SubSeq(found, 1, k), timed_out |-> TRUE] : k \in 1..full}
      BY <1>3, <2>3
    <2> QED
      BY <2>1, <2>2, <2>3
  <1> HIDE DEF found, n, full
  <1>5. k \in 0..n /\ k \in Int
    BY <1>2, <1>3, <1>4
  <1> DEFINE L == SubSeq(found, 1, k)
  <1>6. L \in Seq(Place) /\ Len(L) = k /\ DOMAIN L = 1..k /\ \A i \in 1..k : L[i] = found[i]
    <2>1. \A i \in 1..k : found[i] \in Place
      BY <1>2, <1>5
    <2>2. (IF 1 <= k THEN (k - 1) + 1 ELSE 0) = k /\ (k - 1) + 1 = k /\ \A i \in 1..k : (1 + i) - 1 = i
      BY <1>5
    <2>3. L \in Seq(Place) /\ Len(L) = k /\ \A i \in 1..k : L[i] = found[i]
      BY <1>5, <2>1, <2>2, SubSeqProperties
    <2> QED
      BY <2>3, LenProperties
  <1> HIDE DEF L
  <1>7. \A i \in 1..k : i \in DOMAIN found
    BY <1>2, <1>5
  <1>8. Ordered(L, r)
    BY <1>1, <1>6, <1>7 DEF Ordered
  <1>9. ToSet(L) \subseteq ToSet(found)
    BY <1>6, <1>7 DEF ToSet
  <1>10. \A p \in ToSet(L), q \in ToSet(found) : Sooner(q, p, r) => q \in ToSet(L)
    <2> TAKE p \in ToSet(L), q \in ToSet(found)
    <2> HAVE Sooner(q, p, r)
    <2>1. PICK i \in 1..k : p = L[i]
      BY <1>6 DEF ToSet
    <2>2. PICK j \in DOMAIN found : q = found[j]
      BY DEF ToSet
    <2>3. Sooner(found[j], found[i], r) /\ i \in DOMAIN found
      BY <1>6, <1>7, <2>1, <2>2
    <2>4. j < i
      BY <1>1, <2>3, InOrder
    <2>5. j \in 1..k
      BY <1>2, <1>5, <2>1, <2>2, <2>4
    <2> QED
      BY <1>6, <2>2, <2>5 DEF ToSet
  <1> QED
    BY <1>1, <1>4, <1>6, <1>8, <1>9, <1>10 DEF L

(***************************************************************************)
(* The invariants of the readers.                                          *)
(***************************************************************************)
There == ToSet(AllLines(files))

FilesInv == InFiles(files) /\ \A p \in There : p.file \in 1..Len(files)

\* The lines of the run that RunLines reads from the first on.
MineOf(X) == IF Inline THEN {p \in X : p.line # "start" /\ Inside(X, p, FALSE, FALSE)} ELSE X
Mine == MineOf(There)

\* What the command shows is a beginning of the run's lines, and its next call
\* starts where it ends.
CommandInv ==
  client # "view" =>
    /\ shown \in Seq(Place) /\ Ordered(shown, FALSE) /\ ToSet(shown) \subseteq Mine
    /\ \A p \in ToSet(shown), q \in Mine : Before(q, p) => q \in ToSet(shown)
    /\ (~ over /\ more) \/ request # NoRequest =>
         cursor = IF shown = <<>> THEN None ELSE AfterLine(Last(shown), TRUE)

Matching == {p \in There : p.line = "match"}

\* What the view shows is a stretch of the matching lines, and its cursors
\* point to its ends.
ViewInv ==
  client = "view" =>
    /\ shown \in Seq(Place) /\ Ordered(shown, FALSE) /\ ToSet(shown) \subseteq Matching
    /\ \A p, q \in ToSet(shown), x \in Matching : Before(p, x) /\ Before(x, q) => x \in ToSet(shown)
    /\ cursor # None => cursor = IF shown = <<>> THEN NothingFound(FALSE) ELSE AfterLine(Last(shown), TRUE)
    /\ moreback => shown # <<>> /\ rcursor = Cursor(shown[1].file, shown[1].index, TRUE)

LEMMA LinesOfFacts ==
  ASSUME NEW f \in Nat \ {0}, NEW l \in Seq(Line)
  PROVE  /\ LinesOf(f, l) \in Seq(Place) /\ Ordered(LinesOf(f, l), FALSE)
         /\ \A p \in ToSet(LinesOf(f, l)) : p.file = f
  <1> DEFINE n == Len(l)
             t == LinesOf(f, l)
  <1>1. n \in Nat /\ DOMAIN l = 1..n /\ \A i \in 1..n : l[i] \in Line
    BY LenProperties, ElementOfSeq
  <1>2. t = [i \in 1..n |-> [file |-> f, index |-> i - 1, line |-> l[i]]]
    BY <1>1 DEF LinesOf
  <1> HIDE DEF t, n
  <1>3. \A i \in 1..n : i - 1 \in Nat /\ t[i] = [file |-> f, index |-> i - 1, line |-> l[i]] /\ t[i] \in Place
    BY <1>1, <1>2 DEF Place
  <1>4. t \in [1..n -> Place]
    BY <1>2, <1>3
  <1>5. t \in Seq(Place) /\ DOMAIN t = 1..n
    BY <1>1, <1>4
  <1>6. Ordered(t, FALSE)
    BY <1>1, <1>3, <1>5 DEF Ordered, Sooner, Before
  <1>7. \A p \in ToSet(t) : p.file = f
    BY <1>3, <1>5 DEF ToSet
  <1> QED
    BY <1>5, <1>6, <1>7 DEF t

\* What a new file does to the lines there are: its lines come after all others.
LEMMA FileAdded ==
  ASSUME NEW F \in Seq(Seq(Line)), NEW d \in Seq(Line), InFiles(F),
         \A p \in ToSet(AllLines(F)) : p.file \in 1..Len(F)
  PROVE  LET G == Append(F, d)
         IN  /\ InFiles(G) /\ \A p \in ToSet(AllLines(G)) : p.file \in 1..Len(G)
             /\ ToSet(AllLines(F)) \subseteq ToSet(AllLines(G))
             /\ \A p \in ToSet(AllLines(F)), q \in ToSet(AllLines(G)) \ ToSet(AllLines(F)) : Before(p, q)
  <1> DEFINE G == Append(F, d)
             n == Len(F)
             A == [f \in DOMAIN F |-> LinesOf(f, F[f])]
             B == [f \in DOMAIN G |-> LinesOf(f, G[f])]
             t == LinesOf(n + 1, d)
  <1>1. /\ G \in Seq(Seq(Line)) /\ Len(G) = n + 1 /\ n \in Nat /\ DOMAIN F = 1..n
        /\ (\A i \in 1..n : G[i] = F[i]) /\ G[n + 1] = d
    BY AppendProperties, LenProperties
  <1>2. DOMAIN G = 1..(n + 1) /\ \A i \in 1..n : F[i] \in Seq(Line)
    BY <1>1, LenProperties, ElementOfSeq
  <1>3. t \in Seq(Place) /\ Ordered(t, FALSE) /\ \A p \in ToSet(t) : p.file = n + 1
    <2>1. n + 1 \in Nat \ {0}
      BY <1>1
    <2> HIDE DEF n
    <2> QED
      BY <2>1, LinesOfFacts, Zenon
  <1> HIDE DEF G, t
  <1>4. A \in Seq(Seq(Place))
    <2>1. \A i \in 1..n : LinesOf(i, F[i]) \in Seq(Place)
      <3> TAKE i \in 1..n
      <3>1. i \in Nat \ {0} /\ F[i] \in Seq(Line)
        BY <1>1, <1>2
      <3> QED
        BY <3>1, LinesOfFacts, Zenon
    <2>2. A \in [1..n -> Seq(Place)]
      BY <1>1, <2>1
    <2> QED
      BY <1>1, <2>2
  <1>5. B = Append(A, t)
    <2>1. /\ Append(A, t) \in Seq(Seq(Place)) /\ Len(A) = n /\ Len(Append(A, t)) = n + 1
          /\ \A i \in 1..(n + 1) : Append(A, t)[i] = IF i = n + 1 THEN t ELSE A[i]
      <3>1. Len(A) = n
        BY <1>1, <1>4, LenProperties
      <3> HIDE DEF A
      <3>2. /\ Append(A, t) \in Seq(Seq(Place)) /\ Len(Append(A, t)) = n + 1
            /\ (\A i \in 1..n : Append(A, t)[i] = A[i]) /\ Append(A, t)[n + 1] = t
        <4>0. t \in Seq(Place)
          BY <1>3
        <4>1. /\ Append(A, t) \in Seq(Seq(Place)) /\ Len(Append(A, t)) = Len(A) + 1
              /\ (\A i \in 1..Len(A) : Append(A, t)[i] = A[i]) /\ Append(A, t)[Len(A) + 1] = t
          BY <1>4, <4>0, AppendProperties
        <4> QED
          BY <3>1, <4>1
      <3> QED
        BY <1>1, <3>1, <3>2
    <2>2. DOMAIN Append(A, t) = 1..(n + 1)
      BY <2>1, LenProperties
    <2>3. \A i \in 1..(n + 1) : B[i] = Append(A, t)[i]
      <3> TAKE i \in 1..(n + 1)
      <3>1. B[i] = LinesOf(i, G[i])
        BY <1>2
      <3>2. CASE i = n + 1
        <4>1. Append(A, t)[i] = t
          BY <2>1, <3>2
        <4>2. LinesOf(i, G[i]) = t
          BY <1>1, <3>2 DEF t
        <4> QED
          BY <3>1, <4>1, <4>2
      <3>3. CASE i # n + 1
        <4>1. i \in 1..n /\ G[i] = F[i]
          BY <1>1, <3>3
        <4>2. A[i] = LinesOf(i, F[i])
          BY <1>1, <4>1
        <4>3. Append(A, t)[i] = A[i]
          BY <2>1, <3>3
        <4> QED
          BY <3>1, <4>1, <4>2, <4>3
      <3> QED
        BY <3>2, <3>3
    <2> DEFINE C == Append(A, t)
    <2>4. B = [i \in 1..(n + 1) |-> B[i]]
      BY <1>2
    <2>5. C = [i \in 1..(n + 1) |-> C[i]]
      <3>1. C \in Seq(Seq(Place)) /\ DOMAIN C = 1..(n + 1)
        BY <2>1, <2>2
      <3> HIDE DEF C
      <3> QED
        BY <3>1
    <2>6. \A i \in 1..(n + 1) : B[i] = C[i]
      BY <2>3
    <2> HIDE DEF B, C
    <2>7. B = C
      BY <2>4, <2>5, <2>6
    <2> QED
      BY <2>7 DEF C
  <1>6. AllLines(F) = FlattenSeq(A) /\ AllLines(G) = FlattenSeq(B)
    BY DEF AllLines
  <1> HIDE DEF A, B
  <1>7. AllLines(G) = AllLines(F) \o t
    BY <1>3, <1>4, <1>5, <1>6, FlattenAppend
  <1> DEFINE s == AllLines(F)
  <1>8. s \in Seq(Place) /\ Ordered(s, FALSE) /\ ToSet(s) \subseteq Place /\ ToSet(t) \subseteq Place
    BY <1>3, InOrder DEF InFiles
  <1>9. \A p \in ToSet(s) : p.file \in 1..n
    OBVIOUS
  <1> HIDE DEF s
  <1>10. \A p \in ToSet(s), q \in ToSet(t) : Before(p, q)
    BY <1>1, <1>3, <1>9 DEF Before
  <1>11. s \o t \in Seq(Place) /\ Ordered(s \o t, FALSE) /\ ToSet(s \o t) = ToSet(s) \cup ToSet(t)
    <2>1. \A p \in ToSet(s), q \in ToSet(t) : Sooner(p, q, FALSE)
      BY <1>10 DEF Sooner
    <2> QED
      BY <1>3, <1>8, <2>1, OrderedConcat
  <1>12. AllLines(G) = s \o t
    BY <1>7 DEF s
  <1>13. InFiles(G) /\ ToSet(AllLines(G)) = ToSet(s) \cup ToSet(t)
    BY <1>11, <1>12 DEF InFiles
  <1>14. \A p \in ToSet(AllLines(G)) : p.file \in 1..Len(G)
    BY <1>1, <1>3, <1>9, <1>13
  <1>15. \A p \in ToSet(s), q \in ToSet(AllLines(G)) \ ToSet(s) : Before(p, q)
    BY <1>10, <1>13
  <1> QED
    BY <1>13, <1>14, <1>15 DEF s, G

(***************************************************************************)
(* Between the indicators.                                                 *)
(***************************************************************************)
LEMMA InsideConvex ==
  ASSUME NEW X \in SUBSET Place, NEW r \in BOOLEAN, NEW skip \in BOOLEAN,
         NEW p \in X, NEW q \in X, NEW x \in X, Inside(X, p, skip, r), Inside(X, q, skip, r),
         skip \/ Sooner(p, x, r), Sooner(x, q, r)
  PROVE  Inside(X, x, skip, r)
  <1>1. /\ \A a, b, c \in Place : Sooner(a, b, r) /\ Sooner(b, c, r) => Sooner(a, c, r)
        /\ \A a, b \in Place : Sooner(a, b, r) => ~ Sooner(b, a, r)
    BY SoonerFacts
  <1>2. CASE skip
    BY <1>1, <1>2 DEF Inside
  <1>3. CASE ~ skip
    <2>1. PICK s \in X : /\ s.line = ExpectedStart(r)
                         /\ \A u \in X : u.line = ExpectedStart(r) => u = s \/ Sooner(s, u, r)
                         /\ Sooner(s, p, r)
      BY <1>3 DEF Inside
    <2>2. PICK v \in X : /\ v.line = ExpectedStart(r)
                         /\ \A u \in X : u.line = ExpectedStart(r) => u = v \/ Sooner(v, u, r)
                         /\ \A e \in X : e.line = ExpectedEnd(r) /\ Sooner(v, e, r) => Sooner(q, e, r)
      BY <1>3 DEF Inside
    <2>3. v = s
      BY <1>1, <2>1, <2>2
    <2>4. Sooner(s, x, r)
      BY <1>1, <1>3, <2>1
    <2>5. \A e \in X : e.line = ExpectedEnd(r) /\ Sooner(s, e, r) => Sooner(x, e, r)
      BY <1>1, <2>2, <2>3
    <2> QED
      BY <1>3, <2>1, <2>4, <2>5 DEF Inside
  <1> QED
    BY <1>2, <1>3

\* Lines that are added at the end change nothing for those there are.
LEMMA MineGrows ==
  ASSUME NEW X \in SUBSET Place, NEW Y \in SUBSET Place, X \subseteq Y,
         \A p \in X, q \in Y \ X : Before(p, q), NEW p \in X
  PROVE  p \in MineOf(Y) <=> p \in MineOf(X)
  <1>1. /\ \A a, b \in Place : Before(a, b) => ~ Before(b, a)
        /\ \A a, b : Sooner(a, b, FALSE) <=> Before(a, b)
        /\ \A a, b, c \in Place : Before(a, b) /\ Before(b, c) => Before(a, c)
    BY DEF Sooner, Before, Place
  <1>2. ASSUME Inside(Y, p, FALSE, FALSE) PROVE Inside(X, p, FALSE, FALSE)
    <2>1. PICK s \in Y :
            /\ s.line = ExpectedStart(FALSE)
            /\ \A u \in Y : u.line = ExpectedStart(FALSE) => u = s \/ Sooner(s, u, FALSE)
            /\ Sooner(s, p, FALSE)
            /\ \A e \in Y : e.line = ExpectedEnd(FALSE) /\ Sooner(s, e, FALSE) => Sooner(p, e, FALSE)
      BY <1>2 DEF Inside
    <2>2. s \in X
      BY <1>1, <2>1
    <2> QED
      BY <2>1, <2>2 DEF Inside
  <1>3. ASSUME Inside(X, p, FALSE, FALSE) PROVE Inside(Y, p, FALSE, FALSE)
    <2>1. PICK s \in X :
            /\ s.line = ExpectedStart(FALSE)
            /\ \A u \in X : u.line = ExpectedStart(FALSE) => u = s \/ Sooner(s, u, FALSE)
            /\ Sooner(s, p, FALSE)
            /\ \A e \in X : e.line = ExpectedEnd(FALSE) /\ Sooner(s, e, FALSE) => Sooner(p, e, FALSE)
      BY <1>3 DEF Inside
    <2>2. s \in Y /\ \A u \in Y : u.line = ExpectedStart(FALSE) => u = s \/ Sooner(s, u, FALSE)
      BY <1>1, <2>1
    <2>3. \A e \in Y : e.line = ExpectedEnd(FALSE) /\ Sooner(s, e, FALSE) => Sooner(p, e, FALSE)
      BY <1>1, <2>1
    <2> QED
      BY <2>1, <2>2, <2>3 DEF Inside
  <1> QED
    BY <1>2, <1>3 DEF MineOf

\* Reading on after a line of the run reads the rest of the run's lines.
LEMMA MineRest ==
  ASSUME Inline, NEW X \in SUBSET Place, NEW l \in MineOf(X), NEW R, R = {q \in X : Before(l, q)},
         NEW p \in R
  PROVE  (p.line # "start" /\ Inside(R, p, TRUE, FALSE)) <=> p \in MineOf(X)
  <1>1. /\ \A a, b \in Place : Before(a, b) => ~ Before(b, a)
        /\ \A a, b : Sooner(a, b, FALSE) <=> Before(a, b)
        /\ \A a, b, c \in Place : Before(a, b) /\ Before(b, c) => Before(a, c)
    BY DEF Sooner, Before, Place
  <1>2. l \in X /\ Inside(X, l, FALSE, FALSE)
    BY DEF MineOf
  <1>3. PICK s \in X :
          /\ s.line = ExpectedStart(FALSE)
          /\ \A u \in X : u.line = ExpectedStart(FALSE) => u = s \/ Sooner(s, u, FALSE)
          /\ Sooner(s, l, FALSE)
          /\ \A e \in X : e.line = ExpectedEnd(FALSE) /\ Sooner(s, e, FALSE) => Sooner(l, e, FALSE)
    BY <1>2 DEF Inside
  <1>4. p \in X /\ Before(l, p)
    OBVIOUS
  <1>5. \A e \in X : e.line = ExpectedEnd(FALSE) => (Before(s, e) <=> Before(l, e))
    BY <1>1, <1>2, <1>3
  <1>6. ASSUME Inside(R, p, TRUE, FALSE) PROVE Inside(X, p, FALSE, FALSE)
    <2>1. \A e \in X : e.line = ExpectedEnd(FALSE) /\ Sooner(s, e, FALSE) => Sooner(p, e, FALSE)
      BY <1>1, <1>5, <1>6 DEF Inside
    <2>2. Sooner(s, p, FALSE)
      BY <1>1, <1>2, <1>3, <1>4
    <2> QED
      BY <1>3, <2>1, <2>2 DEF Inside
  <1>7. ASSUME Inside(X, p, FALSE, FALSE) PROVE Inside(R, p, TRUE, FALSE)
    <2>1. PICK v \in X :
            /\ v.line = ExpectedStart(FALSE)
            /\ \A u \in X : u.line = ExpectedStart(FALSE) => u = v \/ Sooner(v, u, FALSE)
            /\ \A e \in X : e.line = ExpectedEnd(FALSE) /\ Sooner(v, e, FALSE) => Sooner(p, e, FALSE)
      BY <1>7 DEF Inside
    <2>2. v = s
      BY <1>1, <1>3, <2>1
    <2>3. \A e \in R : e.line = ExpectedEnd(FALSE) => Sooner(p, e, FALSE)
      BY <1>1, <1>5, <2>1, <2>2
    <2> QED
      BY <2>3 DEF Inside
  <1> QED
    BY <1>4, <1>6, <1>7 DEF MineOf

(***************************************************************************)
(* What an answer brings.                                                  *)
(***************************************************************************)
\* What a cursor reaches of the lines X, and what the reader hands on of it.
Reach(X, c, r) == {p \in X : InScope(p, c, r)}

Handed(X, c, r) ==
  IF Inline
  THEN {p \in Reach(X, c, r) : p.line # ExpectedStart(r) /\ Inside(Reach(X, c, r), p, c.had, r)}
  ELSE Reach(X, c, r)

LEMMA ReachFacts ==
  ASSUME NEW l \in Place, NEW p \in Place, NEW had
  PROVE  /\ InScope(p, AfterLine(l, had), FALSE) <=> Before(l, p)
         /\ InScope(p, Cursor(l.file, l.index, had), TRUE) <=> Before(p, l)
         /\ InScope(p, NothingFound(FALSE), FALSE) /\ InScope(p, NothingFound(TRUE), TRUE)
  BY DEF InScope, AfterLine, Cursor, NothingFound, FromIndex, Before, Place, NoFile

LEMMA HandedFacts ==
  ASSUME NEW F, InFiles(F), NEW c, c.had \in BOOLEAN, NEW r \in BOOLEAN, NEW s,
         s = IF Inline THEN FilterForInline(LineStream(F, c, r), c.had, r) ELSE LineStream(F, c, r)
  PROVE  s \in Seq(Place) /\ Ordered(s, r) /\ ToSet(s) = Handed(ToSet(AllLines(F)), c, r)
  <1> DEFINE t == LineStream(F, c, r)
  <1>1. t \in Seq(Place) /\ Ordered(t, r) /\ ToSet(t) = Reach(ToSet(AllLines(F)), c, r)
    BY StreamFacts DEF Reach
  <1>2. s = IF Inline THEN FilterForInline(t, c.had, r) ELSE t
    OBVIOUS
  <1> HIDE DEF t
  <1>3. CASE Inline
    <2>1. /\ FilterForInline(t, c.had, r) \in Seq(Place) /\ Ordered(FilterForInline(t, c.had, r), r)
          /\ ToSet(FilterForInline(t, c.had, r)) =
               {p \in ToSet(t) : p.line # ExpectedStart(r) /\ Inside(ToSet(t), p, c.had, r)}
      BY <1>1, FilterFacts
    <2> QED
      BY <1>1, <1>2, <1>3, <2>1 DEF Handed
  <1>4. CASE ~ Inline
    BY <1>1, <1>2, <1>4 DEF Handed
  <1> QED
    BY <1>3, <1>4

\* The lines of an answer, and where its tokens point to.
IsResult(res) == \E fwd, back, lines, ftoken, rtoken : res = Result(fwd, back, lines, ftoken, rtoken)

AnswersPage(res, page, c, r) ==
  /\ IsResult(res)
  /\ res.can_continue_forward = (res.forward_cursor_token # None)
  /\ res.can_continue_backward = (res.reverse_cursor_token # None)
  /\ res.lines = IF r THEN Reverse(page.lines) ELSE page.lines
  /\ res.lines = <<>> => /\ r => ~ res.can_continue_backward
                         /\ res.forward_cursor_token \in {None, c}
                         /\ c.file = NoFile => res.forward_cursor_token = None
  /\ res.lines # <<>> =>
       /\ res.forward_cursor_token \in {None, AfterLine(Last(res.lines), TRUE)}
       /\ res.reverse_cursor_token \in {None, Cursor(res.lines[1].file, res.lines[1].index, TRUE)}

LEMMA ResultFacts ==
  ASSUME NEW page, page.lines \in Seq(Place), NEW r \in BOOLEAN, Ordered(page.lines, r),
         NEW c, c.had \in BOOLEAN, NEW still \in BOOLEAN
  PROVE  AnswersPage(PageResult(page, c, still, PageLines, r), page, c, r)
  <1> DEFINE lines    == page.lines
             had      == c.had \/ lines # <<>>
             limit    == Len(lines) = PageLines \/ page.timed_out
             latest   == IF r THEN lines[1] ELSE lines[Len(lines)]
             earliest == IF r THEN lines[Len(lines)] ELSE lines[1]
             forward  == IF lines # <<>> THEN AfterLine(latest, had)
                         ELSE IF r \/ still THEN c ELSE NothingFound(FALSE)
             backward == IF lines # <<>> THEN Cursor(earliest.file, earliest.index, had)
                         ELSE IF r THEN NothingFound(TRUE) ELSE c
             ftoken   == IF forward.file # NoFile /\ (r \/ limit \/ still) THEN forward ELSE None
             rtoken   == IF backward.file # NoFile /\ (~ r \/ limit) THEN backward ELSE None
             res      == PageResult(page, c, still, PageLines, r)
  <1>1. res = Result(ftoken # None, rtoken # None, IF r THEN Reverse(lines) ELSE lines, ftoken, rtoken)
    BY Zenon DEF PageResult
  <1>2. /\ res.can_continue_forward = (ftoken # None) /\ res.can_continue_backward = (rtoken # None)
        /\ res.forward_cursor_token = ftoken /\ res.reverse_cursor_token = rtoken
        /\ res.lines = IF r THEN Reverse(lines) ELSE lines
        /\ IsResult(res)
    <2> HIDE DEF ftoken, rtoken, res
    <2>1. IsResult(res)
      BY <1>1, Zenon DEF IsResult
    <2> QED
      BY <1>1, <2>1 DEF Result
  <1> HIDE DEF res
  <1>3. /\ lines = <<>> <=> Reverse(lines) = <<>>
        /\ lines # <<>> => Reverse(lines)[1] = lines[Len(lines)] /\ Last(Reverse(lines)) = lines[1]
        /\ Last(lines) = lines[Len(lines)]
    BY ReverseFacts DEF Last
  <1>4. CASE lines = <<>>
    <2>1. /\ forward = (IF r \/ still THEN c ELSE NothingFound(FALSE))
          /\ backward = (IF r THEN NothingFound(TRUE) ELSE c)
      BY <1>4
    <2>2. NothingFound(TRUE).file = NoFile /\ NothingFound(FALSE).file = NoFile
      BY DEF NothingFound, Cursor
    <2>3. ftoken \in {None, c} /\ (c.file = NoFile => ftoken = None) /\ (r => rtoken = None)
      <3> HIDE DEF forward, backward, limit
      <3> QED
        BY <2>1, <2>2
    <2>4. res.lines = <<>>
      BY <1>2, <1>3, <1>4
    <2> HIDE DEF ftoken, rtoken
    <2> QED
      BY <1>2, <2>3, <2>4 DEF AnswersPage, res
  <1>5. CASE lines # <<>>
    <2>1. had = TRUE
      BY <1>5
    <2>2. forward = AfterLine(latest, TRUE) /\ backward = Cursor(earliest.file, earliest.index, TRUE)
      BY <1>5, <2>1
    <2>3. /\ ftoken \in {None, AfterLine(latest, TRUE)}
          /\ rtoken \in {None, Cursor(earliest.file, earliest.index, TRUE)}
      <3> HIDE DEF forward, backward, limit, latest, earliest
      <3> QED
        BY <2>2
    <2>4. res.lines # <<>> /\ Last(res.lines) = latest /\ res.lines[1] = earliest
      BY <1>2, <1>3, <1>5
    <2> HIDE DEF ftoken, rtoken, latest, earliest
    <2> QED
      BY <1>2, <2>3, <2>4 DEF AnswersPage, res
  <1> QED
    BY <1>4, <1>5 DEF res

\* An answer has lines, the first ones that are handed on, or leaves the
\* reader where it is.
Nothing(res, F, ft, rt, r) ==
  /\ res.lines = <<>>
  /\ r \/ (ft = None /\ rt = None) => ~ res.can_continue_backward
  /\ (r => ft = None /\ rt = None) =>
       \/ res.forward_cursor_token \in {None, ft}
       \/ res.forward_cursor_token = NothingFound(FALSE) /\ (ft = None \/ F = <<>>)

Something(res, X, c, filtered, r) ==
  /\ res.lines # <<>> /\ res.lines \in Seq(Place) /\ Ordered(res.lines, FALSE)
  /\ ToSet(res.lines) \subseteq {p \in Handed(X, c, r) : filtered => p.line = "match"}
  /\ \A p \in ToSet(res.lines), q \in Handed(X, c, r) :
       Sooner(q, p, r) /\ (filtered => q.line = "match") => q \in ToSet(res.lines)
  /\ res.forward_cursor_token \in {None, AfterLine(Last(res.lines), TRUE)}
  /\ res.reverse_cursor_token \in {None, Cursor(res.lines[1].file, res.lines[1].index, TRUE)}
  /\ ~ r /\ res.can_continue_forward => res.forward_cursor_token # None
  /\ res.can_continue_backward => res.reverse_cursor_token # None

LEMMA PageAnswer ==
  ASSUME NEW F, InFiles(F), NEW c, c.had \in BOOLEAN, NEW r \in BOOLEAN, NEW filtered \in BOOLEAN,
         NEW s, s = IF Inline THEN FilterForInline(LineStream(F, c, r), c.had, r) ELSE LineStream(F, c, r),
         NEW page \in Pages(s, filtered, PageLines), NEW still \in BOOLEAN,
         NEW res, res = PageResult(page, c, still, PageLines, r), res.lines # <<>>
  PROVE  Something(res, ToSet(AllLines(F)), c, filtered, r)
  <1> DEFINE X == ToSet(AllLines(F))
  <1>1. s \in Seq(Place) /\ Ordered(s, r) /\ ToSet(s) = Handed(X, c, r)
    BY HandedFacts
  <1>2. /\ page.lines \in Seq(Place) /\ Ordered(page.lines, r)
        /\ ToSet(page.lines) \subseteq {p \in ToSet(s) : filtered => p.line = "match"}
        /\ \A p \in ToSet(page.lines), q \in ToSet(s) :
             Sooner(q, p, r) /\ (filtered => q.line = "match") => q \in ToSet(page.lines)
    BY <1>1, PageFacts
  <1>3. AnswersPage(res, page, c, r)
    BY <1>2, ResultFacts
  <1>4. res.lines \in Seq(Place) /\ Ordered(res.lines, FALSE) /\ ToSet(res.lines) = ToSet(page.lines)
    <2>1. CASE r
      <3>1. /\ Reverse(page.lines) \in Seq(Place) /\ Ordered(Reverse(page.lines), ~ r)
            /\ ToSet(Reverse(page.lines)) = ToSet(page.lines)
        BY <1>2, ReverseFacts
      <3> QED
        BY <1>3, <2>1, <3>1 DEF AnswersPage
    <2>2. CASE ~ r
      BY <1>2, <1>3, <2>2 DEF AnswersPage
    <2> QED
      BY <2>1, <2>2
  <1> QED
    BY <1>1, <1>2, <1>3, <1>4 DEF Something, AnswersPage

LEMMA AnswerFacts ==
  ASSUME NEW state, NEW F, InFiles(F), NEW ft, NEW rt, NEW filtered \in BOOLEAN, NEW r \in BOOLEAN,
         NEW c, c = IF (IF r THEN rt ELSE ft) = None THEN NothingFound(r) ELSE IF r THEN rt ELSE ft,
         c.had \in BOOLEAN,
         NEW res \in LoadLogLines(Run(state), F, ft, rt, PageLines, filtered, r)
  PROVE  Nothing(res, F, ft, rt, r) \/ Something(res, ToSet(AllLines(F)), c, filtered, r)
  <1> DEFINE rn    == Run(state)
             still == ~ (IsTerminal(rn.state) \/ rn.state = "RAN")
             s     == IF Inline THEN FilterForInline(LineStream(F, c, r), c.had, r) ELSE LineStream(F, c, r)
             B     == IF rn.inline
                      THEN LoadInlineLogs(F, rn.local, still, c, PageLines, filtered, r)
                      ELSE LoadNonInlineLogs(F, still, c, PageLines, filtered, r)
  <1>1. rn.inline = Inline /\ rn.local = FALSE
    BY DEF Run
  <1>2. NothingFound(r).file = NoFile
    BY DEF NothingFound, Cursor
  <1>3. \/ res = NotStarted(ft)
        \/ \E b \in B : res = IF ft = None /\ rt = None THEN InitialPull(b, rn, r) ELSE b
    BY Zenon DEF LoadLogLines
  <1>4. CASE res = NotStarted(ft)
    <2>1. /\ res.lines = <<>> /\ res.can_continue_backward = FALSE
          /\ res.forward_cursor_token = IF ft = None THEN NothingFound(FALSE) ELSE ft
      BY <1>4 DEF NotStarted, Result
    <2> QED
      BY <2>1 DEF Nothing
  <1>5. ASSUME NEW b \in B, res = IF ft = None /\ rt = None THEN InitialPull(b, rn, r) ELSE b
        PROVE  Nothing(res, F, ft, rt, r) \/ Something(res, ToSet(AllLines(F)), c, filtered, r)
    <2>1. still \in BOOLEAN
      OBVIOUS
    <2>2. \/ F = <<>> /\ b = NoFiles(still)
          \/ \E page \in Pages(s, filtered, PageLines) : b = PageResult(page, c, still, PageLines, r)
      <3> HIDE DEF rn, still
      <3> QED
        BY <1>1 DEF LoadInlineLogs, LoadNonInlineLogs
    <2> HIDE DEF rn, still, B
    <2>3. /\ res.lines = b.lines /\ res.forward_cursor_token = b.forward_cursor_token
          /\ res.reverse_cursor_token = b.reverse_cursor_token
          /\ ~ r => res.can_continue_forward = b.can_continue_forward
          /\ res.can_continue_backward => b.can_continue_backward
          /\ ft = None /\ rt = None /\ ~ r => ~ res.can_continue_backward
      <3>1. IsResult(b)
        <4>1. ASSUME NEW page \in Pages(s, filtered, PageLines), b = PageResult(page, c, still, PageLines, r)
              PROVE  IsResult(b)
          <5>1. s \in Seq(Place) /\ Ordered(s, r)
            BY HandedFacts
          <5>2. page.lines \in Seq(Place) /\ Ordered(page.lines, r)
            BY <5>1, PageFacts
          <5>3. AnswersPage(b, page, c, r)
            BY <2>1, <4>1, <5>2, ResultFacts
          <5> QED
            BY <5>3 DEF AnswersPage
        <4>2. ASSUME b = NoFiles(still) PROVE IsResult(b)
          BY <4>2, Zenon DEF NoFiles, IsResult
        <4> QED
          BY <2>2, <4>1, <4>2
      <3>2. PICK x, y, z, u, v : b = Result(x, y, z, u, v)
        BY <3>1 DEF IsResult
      <3>3. b = [can_continue_forward |-> x, can_continue_backward |-> y, lines |-> z,
                 forward_cursor_token |-> u, reverse_cursor_token |-> v]
        BY <3>2 DEF Result
      <3>4. CASE r
        BY <1>5, <3>3, <3>4 DEF InitialPull
      <3>5. CASE ~ r
        BY <1>5, <3>3, <3>5 DEF InitialPull
      <3> QED
        BY <3>4, <3>5
    <2>4. CASE F = <<>> /\ b = NoFiles(still)
      <3>1. /\ b.lines = <<>> /\ b.can_continue_backward = FALSE
            /\ b.forward_cursor_token \in {None, NothingFound(FALSE)}
        BY <2>4 DEF NoFiles, Result
      <3> QED
        BY <2>3, <2>4, <3>1 DEF Nothing
    <2>5. ASSUME NEW page \in Pages(s, filtered, PageLines), b = PageResult(page, c, still, PageLines, r)
          PROVE  Nothing(res, F, ft, rt, r) \/ Something(res, ToSet(AllLines(F)), c, filtered, r)
      <3>1. s \in Seq(Place) /\ Ordered(s, r)
        BY HandedFacts
      <3>2. page.lines \in Seq(Place) /\ Ordered(page.lines, r)
        BY <3>1, PageFacts
      <3>3. CASE b.lines = <<>>
        <4>1. /\ r => ~ b.can_continue_backward
              /\ b.forward_cursor_token \in {None, c}
              /\ c.file = NoFile => b.forward_cursor_token = None
          <5>1. AnswersPage(b, page, c, r)
            BY <2>1, <2>5, <3>2, ResultFacts
          <5> QED
            BY <3>3, <5>1 DEF AnswersPage
        <4>2. (r => ft = None /\ rt = None) => b.forward_cursor_token \in {None, ft}
          <5>1. CASE (IF r THEN rt ELSE ft) = None
            BY <1>2, <4>1, <5>1
          <5>2. CASE (IF r THEN rt ELSE ft) # None
            BY <4>1, <5>2
          <5> QED
            BY <5>1, <5>2
        <4> QED
          BY <2>3, <3>3, <4>1, <4>2 DEF Nothing
      <3>4. CASE b.lines # <<>>
        <4> HIDE DEF s
        <4>1. s = IF Inline THEN FilterForInline(LineStream(F, c, r), c.had, r) ELSE LineStream(F, c, r)
          BY DEF s
        <4>2. Something(b, ToSet(AllLines(F)), c, filtered, r)
          BY <2>1, <2>5, <3>4, <4>1, PageAnswer
        <4> QED
          BY <2>3, <4>2 DEF Something
      <3> QED
        BY <3>3, <3>4
    <2> QED
      BY <2>2, <2>4, <2>5
  <1> QED
    BY <1>3, <1>4, <1>5

LEMMA ConcatEnds ==
  ASSUME NEW S, NEW s \in Seq(S), NEW t \in Seq(S)
  PROVE  /\ t # <<>> => s \o t # <<>> /\ Last(s \o t) = Last(t)
         /\ s # <<>> => s \o t # <<>> /\ (s \o t)[1] = s[1]
  <1>1. /\ s \o t \in Seq(S) /\ Len(s \o t) = Len(s) + Len(t) /\ Len(s) \in Nat /\ Len(t) \in Nat
        /\ \A i \in 1..(Len(s) + Len(t)) : (s \o t)[i] = IF i <= Len(s) THEN s[i] ELSE t[i - Len(s)]
    BY ConcatProperties, LenProperties
  <1>2. /\ s # <<>> => Len(s) > 0
        /\ t # <<>> => Len(t) > 0
    BY <1>1, EmptySeq
  <1>3. s \o t = <<>> => Len(s) + Len(t) = 0
    BY <1>1, EmptySeq
  <1>4. ASSUME t # <<>> PROVE s \o t # <<>> /\ Last(s \o t) = Last(t)
    <2>1. Len(s) + Len(t) \in 1..(Len(s) + Len(t)) /\ ~ (Len(s) + Len(t) <= Len(s))
          /\ (Len(s) + Len(t)) - Len(s) = Len(t)
      BY <1>1, <1>2, <1>4
    <2>2. (s \o t)[Len(s) + Len(t)] = t[Len(t)]
      BY <1>1, <2>1
    <2> QED
      BY <1>1, <1>2, <1>3, <1>4, <2>2 DEF Last
  <1>5. ASSUME s # <<>> PROVE s \o t # <<>> /\ (s \o t)[1] = s[1]
    BY <1>1, <1>2, <1>3, <1>5
  <1> QED
    BY <1>4, <1>5

\* The places of the lines there are: each is before or after each other.
LEMMA ThereFacts ==
  ASSUME FilesInv
  PROVE  /\ There \subseteq Place
         /\ \A p, q \in There : p = q \/ Before(p, q) \/ Before(q, p)
         /\ files = <<>> => There = {}
  <1>1. AllLines(files) \in Seq(Place) /\ Ordered(AllLines(files), FALSE)
    BY DEF FilesInv, InFiles
  <1>2. There \subseteq Place /\ \A p, q \in There : p = q \/ Sooner(p, q, FALSE) \/ Sooner(q, p, FALSE)
    BY <1>1, InOrder DEF There
  <1>3. ASSUME files = <<>> PROVE There = {}
    <2>1. Len(files) = 0
      BY <1>3
    <2>2. \A p \in There : p.file \in 1..0
      BY <2>1 DEF FilesInv
    <2> QED
      BY <2>2
  <1> QED
    BY <1>2, <1>3 DEF Sooner

Grown == /\ There \subseteq There'
         /\ \A p \in There, q \in There' \ There : Before(p, q)

LEMMA FilesInit ==
  ASSUME Init
  PROVE  FilesInv
  <1>1. files = <<>> /\ <<>> \in Seq(Seq(Place)) /\ <<>> \in Seq(Place)
    BY EmptySeq DEF Init, Log!StreamInit
  <1>2. [f \in DOMAIN files |-> LinesOf(f, files[f])] = <<>>
    BY <1>1
  <1>3. AllLines(files) = <<>>
    BY <1>1, <1>2, FlattenFacts DEF AllLines
  <1>4. There = {}
    BY <1>3 DEF There, ToSet
  <1>5. Ordered(<<>>, FALSE)
    BY DEF Ordered
  <1> QED
    BY <1>1, <1>3, <1>4, <1>5 DEF FilesInv, InFiles

LEMMA FilesNext ==
  ASSUME LogInv, FilesInv, [Next]_vars
  PROVE  FilesInv' /\ Grown
  <1>1. files \in Seq(Seq(Line)) /\ delta \in Seq(Line)
    BY DEF LogInv, LogTyped
  <1>2. files' = files \/ files' = Append(files, delta)
    <2>1. Log!Upload => files' = files \/ files' = Append(files, delta)
      BY DEF Log!Upload, Log!Uploaded
    <2>2. CASE PrintElsewhere \/ PrintInside \/ StartInlineExecution \/ EndInlineExecution
      BY <2>2 DEF PrintElsewhere, PrintInside, StartInlineExecution, EndInlineExecution, Log!Write
    <2>3. CASE Leave \/ Terminate
      BY <2>3 DEF Leave, Terminate, Log!LeaveContext, Log!SigTerm, Log!CleanUp
    <2>4. CASE Streams
      BY <2>1, <2>4 DEF Streams, Log!Streamer, Log!ReadLine, Log!IntervalEnds, Log!UploadFails,
                        Log!StreamerGone, Log!KillStreamer, Log!PodDies
    <2>5. CASE Schedule \/ SaveRun \/ RunFails \/ CommandLoads \/ CommandShows \/ View
      BY <2>5 DEF Schedule, SaveRun, RunFails, CommandLoads, CommandShows, View, logVars
    <2>6. CASE UNCHANGED vars
      BY <2>6 DEF vars, logVars
    <2> QED
      BY <2>2, <2>3, <2>4, <2>5, <2>6 DEF Next, Done
  <1>3. CASE files' = files
    BY <1>3 DEF FilesInv, There, Grown
  <1>4. CASE files' = Append(files, delta)
    <2> DEFINE G == Append(files, delta)
    <2>1. \A p \in ToSet(AllLines(files)) : p.file \in 1..Len(files)
      BY DEF FilesInv, There
    <2>2. /\ InFiles(G) /\ (\A p \in ToSet(AllLines(G)) : p.file \in 1..Len(G))
          /\ ToSet(AllLines(files)) \subseteq ToSet(AllLines(G))
          /\ \A p \in ToSet(AllLines(files)), q \in ToSet(AllLines(G)) \ ToSet(AllLines(files)) : Before(p, q)
      BY <1>1, <2>1, FileAdded DEF FilesInv
    <2>3. There' = ToSet(AllLines(G)) /\ files' = G
      BY <1>4 DEF There
    <2> HIDE DEF G
    <2> QED
      BY <2>2, <2>3 DEF FilesInv, There, Grown
  <1> QED
    BY <1>2, <1>3, <1>4

(***************************************************************************)
(* The command.                                                            *)
(***************************************************************************)
LEMMA CommandWaits ==
  ASSUME FilesInv, FilesInv', Grown, CommandInv, UNCHANGED <<scenario, client, cursor, shown, more, over>>,
         \/ request' = request
         \/ request = NoRequest /\ ~ over /\ more
  PROVE  CommandInv'
  <1> SUFFICES ASSUME client' # "view" PROVE CommandInv'
    BY DEF CommandInv
  <1>1. /\ There \subseteq Place /\ There' \subseteq Place
    <2>1. \A F : InFiles(F) => ToSet(AllLines(F)) \subseteq Place
      BY InOrder DEF InFiles
    <2> QED
      BY <2>1 DEF FilesInv, There
  <1>2. /\ shown \in Seq(Place) /\ Ordered(shown, FALSE) /\ ToSet(shown) \subseteq Mine
        /\ \A p \in ToSet(shown), q \in Mine : Before(q, p) => q \in ToSet(shown)
        /\ (~ over /\ more) \/ request # NoRequest =>
             cursor = IF shown = <<>> THEN None ELSE AfterLine(Last(shown), TRUE)
    BY DEF CommandInv
  <1>3. Mine' = MineOf(There')
    BY DEF Mine, MineOf, Inline
  <1> DEFINE X == There
             Y == There'
  <1>4. X \in SUBSET Place /\ Y \in SUBSET Place /\ X \subseteq Y /\ (\A p \in X, q \in Y \ X : Before(p, q))
    BY <1>1 DEF Grown
  <1>5. Mine = MineOf(X) /\ Mine' = MineOf(Y)
    BY <1>3 DEF Mine
  <1> HIDE DEF X, Y
  <1>6. \A p \in X : p \in MineOf(Y) <=> p \in MineOf(X)
    BY <1>4, MineGrows
  <1>7. MineOf(X) \subseteq X /\ MineOf(Y) \subseteq Y
    BY DEF MineOf
  <1>8. ToSet(shown) \subseteq Mine'
    BY <1>2, <1>5, <1>6, <1>7
  <1>9. ASSUME NEW p \in ToSet(shown), NEW q \in Mine', Before(q, p)
        PROVE  q \in ToSet(shown)
    <2>1. p \in X /\ p \in Place /\ q \in Y /\ q \in Place
      BY <1>2, <1>4, <1>5, <1>7
    <2>2. ~ Before(p, q)
      BY <1>9, <2>1 DEF Before, Place
    <2>3. q \in X
      BY <1>4, <2>1, <2>2
    <2> QED
      BY <1>2, <1>5, <1>6, <1>9, <2>3
  <1>10. (~ over' /\ more') \/ request' # NoRequest =>
           cursor' = IF shown' = <<>> THEN None ELSE AfterLine(Last(shown'), TRUE)
    BY <1>2
  <1>11. shown' = shown
    OBVIOUS
  <1> QED
    BY <1>2, <1>8, <1>9, <1>10, <1>11 DEF CommandInv

LEMMA CommandMore ==
  ASSUME FilesInv, CommandInv, client # "view", request # NoRequest, NEW c,
         c = (IF cursor = None THEN NothingFound(FALSE) ELSE cursor), NEW res, Something(res, There, c, FALSE, FALSE)
  PROVE  /\ shown \o res.lines \in Seq(Place) /\ Ordered(shown \o res.lines, FALSE)
         /\ ToSet(shown \o res.lines) \subseteq Mine
         /\ \A p \in ToSet(shown \o res.lines), q \in Mine : Before(q, p) => q \in ToSet(shown \o res.lines)
         /\ shown \o res.lines # <<>> /\ Last(shown \o res.lines) = Last(res.lines)
  <1> DEFINE N == res.lines
             X == There
  <1>1. /\ X \subseteq Place /\ \A p, q \in X : p = q \/ Before(p, q) \/ Before(q, p)
    BY ThereFacts
  <1>2. /\ shown \in Seq(Place) /\ Ordered(shown, FALSE) /\ ToSet(shown) \subseteq Mine
        /\ \A p \in ToSet(shown), q \in Mine : Before(q, p) => q \in ToSet(shown)
        /\ cursor = IF shown = <<>> THEN None ELSE AfterLine(Last(shown), TRUE)
    BY DEF CommandInv
  <1>3. /\ N # <<>> /\ N \in Seq(Place) /\ Ordered(N, FALSE)
        /\ ToSet(N) \subseteq Handed(X, c, FALSE)
        /\ \A p \in ToSet(N), q \in Handed(X, c, FALSE) : Before(q, p) => q \in ToSet(N)
    BY DEF Something, Sooner
  <1>4. Mine = MineOf(X) /\ MineOf(X) \subseteq X /\ ExpectedStart(FALSE) = "start"
    BY DEF Mine, MineOf, ExpectedStart
  <1> HIDE DEF N, X
  <1>5. \A a, b, e \in Place : (Before(a, b) => ~ Before(b, a)) /\ (Before(a, b) /\ Before(b, e) => Before(a, e))
    BY DEF Before, Place
  <1>6. /\ shown \o N # <<>> /\ Last(shown \o N) = Last(N)
    BY <1>2, <1>3, ConcatEnds
  <1>7. CASE shown = <<>>
    <2>1. c = NothingFound(FALSE) /\ c.had = FALSE
      BY <1>2, <1>7 DEF NothingFound, Cursor
    <2>2. Reach(X, c, FALSE) = X
      <3>1. \A p \in X : InScope(p, c, FALSE)
        BY <1>1, <2>1, ReachFacts
      <3> QED
        BY <3>1 DEF Reach
    <2>3. Handed(X, c, FALSE) = Mine
      BY <1>4, <2>1, <2>2 DEF Handed, MineOf
    <2>4. shown \o N = N
      BY <1>3, <1>7, ConcatEmptySeq
    <2> QED
      BY <1>3, <1>6, <2>3, <2>4 DEF N
  <1>8. CASE shown # <<>>
    <2> DEFINE l == Last(shown)
    <2>1. l \in ToSet(shown) /\ l \in Place /\ \A p \in ToSet(shown) : p = l \/ Before(p, l)
      BY <1>2, <1>8, InOrder DEF Sooner
    <2>2. c = AfterLine(l, TRUE) /\ c.had = TRUE
      <3>1. AfterLine(l, TRUE) \in [file : Nat, index : Int, had : BOOLEAN] /\ AfterLine(l, TRUE).had = TRUE
        BY <2>1 DEF AfterLine, Cursor, Place
      <3>2. cursor = AfterLine(l, TRUE)
        BY <1>2, <1>8
      <3> QED
        BY <3>1, <3>2, ReaderAssumption DEF ReaderAssumption
    <2> HIDE DEF l
    <2>3. Reach(X, c, FALSE) = {p \in X : Before(l, p)}
      <3>1. \A p \in X : InScope(p, c, FALSE) <=> Before(l, p)
        BY <1>1, <2>1, <2>2, ReachFacts
      <3> QED
        BY <3>1 DEF Reach
    <2>4. Handed(X, c, FALSE) = {p \in Mine : Before(l, p)}
      <3> DEFINE R == {p \in X : Before(l, p)}
      <3>1. CASE Inline
        <4>1. l \in MineOf(X) /\ X \in SUBSET Place
          BY <1>1, <1>2, <1>4, <2>1
        <4>2. \A p \in R : (p.line # "start" /\ Inside(R, p, TRUE, FALSE)) <=> p \in MineOf(X)
          BY <3>1, <4>1, MineRest
        <4>3. Handed(X, c, FALSE) = {p \in R : p.line # "start" /\ Inside(R, p, TRUE, FALSE)}
          BY <1>4, <2>2, <2>3, <3>1 DEF Handed
        <4> QED
          BY <1>4, <4>2, <4>3
      <3>2. CASE ~ Inline
        BY <1>4, <2>3, <3>2 DEF Handed, MineOf
      <3> QED
        BY <3>1, <3>2
    <2>5. \A p \in ToSet(shown), q \in ToSet(N) : Before(p, q)
      <3> TAKE p \in ToSet(shown), q \in ToSet(N)
      <3>1. Before(l, q) /\ q \in Place /\ p \in Place
        BY <1>1, <1>2, <1>3, <1>4, <2>4
      <3> QED
        BY <1>5, <2>1, <3>1
    <2>6. /\ shown \o N \in Seq(Place) /\ Ordered(shown \o N, FALSE)
          /\ ToSet(shown \o N) = ToSet(shown) \cup ToSet(N)
      <3>1. \A p \in ToSet(shown), q \in ToSet(N) : Sooner(p, q, FALSE)
        BY <2>5 DEF Sooner
      <3> QED
        BY <1>2, <1>3, <3>1, OrderedConcat
    <2>7. ToSet(shown \o N) \subseteq Mine
      BY <1>2, <1>3, <2>4, <2>6
    <2>8. ASSUME NEW p \in ToSet(shown \o N), NEW q \in Mine, Before(q, p)
          PROVE  q \in ToSet(shown \o N)
      <3>1. CASE p \in ToSet(shown)
        BY <1>2, <2>6, <2>8, <3>1
      <3>2. CASE p \in ToSet(N)
        <4>1. q = l \/ Before(q, l) \/ Before(l, q)
          BY <1>1, <1>2, <1>4, <2>1
        <4>2. CASE q = l \/ Before(q, l)
          BY <1>2, <2>1, <2>6, <4>2
        <4>3. CASE Before(l, q)
          <5>1. q \in Handed(X, c, FALSE)
            BY <2>4, <4>3
          <5> QED
            BY <1>3, <2>6, <2>8, <3>2, <5>1
        <4> QED
          BY <4>1, <4>2, <4>3
      <3> QED
        BY <2>6, <3>1, <3>2
    <2> QED
      BY <1>6, <2>6, <2>7, <2>8 DEF N
  <1> QED
    BY <1>7, <1>8

LEMMA CommandShowsKeeps ==
  ASSUME FilesInv, CommandInv, CommandShows
  PROVE  CommandInv'
  <1>1. /\ client # "view" /\ request # NoRequest /\ request' = NoRequest
        /\ UNCHANGED <<logVars, process, client>>
    BY DEF CommandShows
  <1>2. PICK res \in LoadLogLines(Run(request), files, cursor, None, PageLines, FALSE, FALSE) :
          /\ more' = res.can_continue_forward
          /\ shown' = shown \o res.lines
          /\ cursor' = IF res.lines = <<>> THEN cursor ELSE res.forward_cursor_token
    BY DEF CommandShows
  <1>3. /\ shown \in Seq(Place) /\ Ordered(shown, FALSE) /\ ToSet(shown) \subseteq Mine
        /\ \A p \in ToSet(shown), q \in Mine : Before(q, p) => q \in ToSet(shown)
        /\ cursor = IF shown = <<>> THEN None ELSE AfterLine(Last(shown), TRUE)
    BY <1>1 DEF CommandInv
  <1> DEFINE c == IF cursor = None THEN NothingFound(FALSE) ELSE cursor
  <1>4. c.had \in BOOLEAN
    BY <1>3 DEF AfterLine, NothingFound, Cursor
  <1>5. Nothing(res, files, cursor, None, FALSE) \/ Something(res, There, c, FALSE, FALSE)
    <2>1. c = IF (IF FALSE THEN None ELSE cursor) = None THEN NothingFound(FALSE) ELSE IF FALSE THEN None ELSE cursor
      OBVIOUS
    <2> HIDE DEF c
    <2> QED
      BY <1>4, <2>1, AnswerFacts DEF FilesInv, There
  <1>6. Mine' = Mine
    BY <1>1 DEF Mine, MineOf, There, Inline, logVars, process
  <1>7. CASE Nothing(res, files, cursor, None, FALSE)
    <2>1. res.lines = <<>>
      BY <1>7 DEF Nothing
    <2>2. shown' = shown /\ cursor' = cursor
      BY <1>2, <1>3, <2>1, ConcatEmptySeq
    <2> QED
      BY <1>3, <1>6, <2>2 DEF CommandInv
  <1>8. CASE Something(res, There, c, FALSE, FALSE)
    <2> DEFINE s == shown \o res.lines
    <2>1. /\ s \in Seq(Place) /\ Ordered(s, FALSE) /\ ToSet(s) \subseteq Mine
          /\ (\A p \in ToSet(s), q \in Mine : Before(q, p) => q \in ToSet(s))
          /\ s # <<>> /\ Last(s) = Last(res.lines)
      BY <1>1, <1>8, CommandMore
    <2>2. /\ res.lines # <<>> /\ res.forward_cursor_token \in {None, AfterLine(Last(res.lines), TRUE)}
          /\ res.can_continue_forward => res.forward_cursor_token # None
      BY <1>8 DEF Something
    <2>3. more' => cursor' = AfterLine(Last(s), TRUE)
      BY <1>2, <2>1, <2>2
    <2>4. shown' = s
      BY <1>2
    <2> HIDE DEF s
    <2> QED
      BY <1>1, <1>6, <2>1, <2>3, <2>4 DEF CommandInv
  <1> QED
    BY <1>5, <1>7, <1>8

(***************************************************************************)
(* The view.                                                               *)
(***************************************************************************)
\* A stretch of the matching lines of X.
Stretch(P, X) ==
  /\ P \subseteq {p \in X : p.line = "match"}
  /\ \A p, q \in P, x \in X : x.line = "match" /\ Before(p, x) /\ Before(x, q) => x \in P

LEMMA ViewForm ==
  ASSUME client = "view"
  PROVE  ViewInv <=>
           /\ shown \in Seq(Place) /\ Ordered(shown, FALSE) /\ Stretch(ToSet(shown), There)
           /\ cursor # None => cursor = IF shown = <<>> THEN NothingFound(FALSE) ELSE AfterLine(Last(shown), TRUE)
           /\ moreback => shown # <<>> /\ rcursor = Cursor(shown[1].file, shown[1].index, TRUE)
  BY DEF ViewInv, Stretch, Matching

LEMMA ViewWaits ==
  ASSUME FilesInv, FilesInv', Grown, ViewInv, UNCHANGED <<client, cursor, rcursor, shown, moreback>>
  PROVE  ViewInv'
  <1> SUFFICES ASSUME client' = "view" PROVE ViewInv'
    BY DEF ViewInv
  <1> DEFINE X == There
             Y == There'
  <1>1. /\ X \subseteq Place /\ Y \subseteq Place
    <2>1. \A F : InFiles(F) => ToSet(AllLines(F)) \subseteq Place
      BY InOrder DEF InFiles
    <2> QED
      BY <2>1 DEF FilesInv, There
  <1>2. X \subseteq Y /\ \A p \in X, q \in Y \ X : Before(p, q)
    BY DEF Grown
  <1>3. /\ shown \in Seq(Place) /\ Ordered(shown, FALSE) /\ ToSet(shown) \subseteq {p \in X : p.line = "match"}
        /\ \A p, q \in ToSet(shown), x \in {p \in X : p.line = "match"} :
             Before(p, x) /\ Before(x, q) => x \in ToSet(shown)
        /\ cursor # None => cursor = IF shown = <<>> THEN NothingFound(FALSE) ELSE AfterLine(Last(shown), TRUE)
        /\ moreback => shown # <<>> /\ rcursor = Cursor(shown[1].file, shown[1].index, TRUE)
    BY DEF ViewInv, Matching
  <1>4. Matching' = {p \in Y : p.line = "match"}
    BY DEF Matching
  <1> HIDE DEF X, Y
  <1>5. ASSUME NEW p \in ToSet(shown), NEW q \in ToSet(shown), NEW x \in Y, x.line = "match",
               Before(p, x), Before(x, q)
        PROVE  x \in ToSet(shown)
    <2>1. q \in X /\ q \in Place /\ x \in Place
      BY <1>1, <1>2, <1>3
    <2>2. ~ Before(q, x)
      BY <1>5, <2>1 DEF Before, Place
    <2>3. x \in X
      BY <1>2, <1>5, <2>1, <2>2
    <2> QED
      BY <1>3, <1>5, <2>3
  <1>6. ToSet(shown) \subseteq {p \in Y : p.line = "match"}
    BY <1>2, <1>3
  <1>7. shown' = shown /\ cursor' = cursor /\ rcursor' = rcursor /\ moreback' = moreback
    OBVIOUS
  <1>8. shown' \in Seq(Place) /\ Ordered(shown', FALSE) /\ ToSet(shown') \subseteq Matching'
    BY <1>3, <1>4, <1>6, <1>7
  <1>9. \A p, q \in ToSet(shown'), x \in Matching' : Before(p, x) /\ Before(x, q) => x \in ToSet(shown')
    BY <1>4, <1>5, <1>7
  <1>10. cursor' # None => cursor' = IF shown' = <<>> THEN NothingFound(FALSE) ELSE AfterLine(Last(shown'), TRUE)
    BY <1>3, <1>7
  <1>11. moreback' => shown' # <<>> /\ rcursor' = Cursor(shown'[1].file, shown'[1].index, TRUE)
    BY <1>3, <1>7
  <1> QED
    BY <1>8, <1>9, <1>10, <1>11 DEF ViewInv

\* A cursor knows whether lines were shown before.
Knows(c) == c.had \in BOOLEAN

\* The page begins at the cursor, or with p before x.
Begins(c, p, x, r) == c.had = TRUE \/ Sooner(p, x, r)

\* The matching lines met first.
FirstOnes(P, X, c, r) ==
  /\ P \subseteq {p \in Handed(X, c, r) : p.line = "match"}
  /\ \A p \in P, q \in Handed(X, c, r) : Sooner(q, p, r) /\ q.line = "match" => q \in P

\* A page of matching lines is a stretch of what the cursor reaches, and
\* begins at the cursor if it is not the first page.
LEMMA PageStretch ==
  ASSUME NEW X \in SUBSET Place, NEW c, Knows(c), NEW r \in BOOLEAN, NEW P, FirstOnes(P, X, c, r),
         NEW p \in P, NEW q \in P, NEW x \in X, InScope(x, c, r), x.line = "match",
         Begins(c, p, x, r), Sooner(x, q, r)
  PROVE  x \in P
  <1> DEFINE R == Reach(X, c, r)
  <1>1. R \in SUBSET Place /\ x \in R /\ p \in R /\ q \in R
    BY DEF Reach, Handed, FirstOnes
  <1>2. ExpectedStart(r) # "match"
    BY DEF ExpectedStart
  <1>3. CASE Inline
    <2>1. Inside(R, p, c.had, r) /\ Inside(R, q, c.had, r)
      BY <1>3 DEF Handed, FirstOnes
    <2> HIDE DEF R
    <2>2. Inside(R, x, c.had, r)
      BY <1>1, <2>1, InsideConvex DEF Knows, Begins
    <2>3. x \in Handed(X, c, r)
      BY <1>1, <1>2, <1>3, <2>2 DEF Handed, R
    <2> QED
      BY <2>3 DEF FirstOnes
  <1>4. CASE ~ Inline
    <2>1. x \in Handed(X, c, r)
      BY <1>1, <1>4 DEF Handed
    <2> QED
      BY <2>1 DEF FirstOnes
  <1> QED
    BY <1>3, <1>4

\* What Something says of an answer to the view.
ViewsPage(T, X, c, r) ==
  /\ T \subseteq {p \in X : p.line = "match" /\ InScope(p, c, r)}
  /\ \A p, q \in T, x \in X :
       x.line = "match" /\ InScope(x, c, r) /\ Sooner(x, q, r) /\ Begins(c, p, x, r) => x \in T

LEMMA ViewPage ==
  ASSUME NEW res, NEW X \in SUBSET Place, NEW c, Knows(c), NEW r \in BOOLEAN,
         Something(res, X, c, TRUE, r)
  PROVE  /\ res.lines # <<>> /\ res.lines \in Seq(Place) /\ Ordered(res.lines, FALSE)
         /\ ViewsPage(ToSet(res.lines), X, c, r)
  <1> DEFINE P == ToSet(res.lines)
  <1>1. res.lines # <<>> /\ res.lines \in Seq(Place) /\ Ordered(res.lines, FALSE) /\ FirstOnes(P, X, c, r)
    BY DEF Something, FirstOnes
  <1> HIDE DEF P
  <1>2. P \subseteq {p \in X : p.line = "match" /\ InScope(p, c, r)}
    BY <1>1 DEF Handed, Reach, FirstOnes
  <1>3. ASSUME NEW p \in P, NEW q \in P, NEW x \in X, x.line = "match", InScope(x, c, r),
               Sooner(x, q, r), Begins(c, p, x, r)
        PROVE  x \in P
    BY <1>1, <1>3, PageStretch
  <1>4. ViewsPage(P, X, c, r)
    BY <1>2, <1>3 DEF ViewsPage
  <1> QED
    BY <1>1, <1>4 DEF P

\* The first page, from either end.
LEMMA KickOffStretch ==
  ASSUME NEW res, NEW X \in SUBSET Place, NEW r \in BOOLEAN, Something(res, X, NothingFound(r), TRUE, r)
  PROVE  Stretch(ToSet(res.lines), X)
  <1> DEFINE c == NothingFound(r)
             P == ToSet(res.lines)
  <1>1. c.had = FALSE
    BY DEF NothingFound, Cursor
  <1>2. \A x \in X : InScope(x, c, r)
    BY DEF InScope, NothingFound, Cursor
  <1> HIDE DEF c
  <1>3. ViewsPage(P, X, c, r)
    <2>1. Knows(c) /\ Something(res, X, c, TRUE, r)
      BY <1>1 DEF c, Knows
    <2> QED
      BY <2>1, ViewPage
  <1> HIDE DEF P
  <1>4. ASSUME NEW p \in P, NEW q \in P, NEW x \in X, x.line = "match", Before(p, x), Before(x, q)
        PROVE  x \in P
    <2>1. CASE r
      BY <1>1, <1>2, <1>3, <1>4, <2>1 DEF Sooner, ViewsPage, Begins
    <2>2. CASE ~ r
      BY <1>1, <1>2, <1>3, <1>4, <2>2 DEF Sooner, ViewsPage, Begins
    <2> QED
      BY <2>1, <2>2
  <1> QED
    BY <1>3, <1>4 DEF Stretch, ViewsPage, P

\* The view drops none of the lines it has not shown.
LEMMA PruneFacts ==
  ASSUME shown \in Seq(Place), NEW N \in Seq(Place), Ordered(N, FALSE), ToSet(N) \cap ToSet(shown) = {}
  PROVE  PruneLines(N) = N
  <1> DEFINE P == {i \in DOMAIN N : \A j \in DOMAIN shown : shown[j] # N[i]}
  <1>1. \A i \in DOMAIN N : \A j \in DOMAIN shown : shown[j] # N[i]
    BY DEF ToSet
  <1>2. DOMAIN N \cap P = DOMAIN N
    BY <1>1
  <1>3. PruneLines(N) = At(N, P)
    BY DEF PruneLines
  <1> HIDE DEF P
  <1>4. /\ At(N, P) \in Seq(Place) /\ Ordered(At(N, P), FALSE)
        /\ ToSet(At(N, P)) = {N[i] : i \in DOMAIN N \cap P}
    BY AtFacts
  <1>5. ToSet(At(N, P)) = ToSet(N)
    BY <1>2, <1>4 DEF ToSet
  <1>6. At(N, P) = N
    BY <1>4, <1>5, SameBySets
  <1> QED
    BY <1>3, <1>6

LEMMA PruneNothing ==
  ASSUME shown \in Seq(Place)
  PROVE  PruneLines(<<>>) = <<>>
  <1>1. <<>> \in Seq(Place) /\ Ordered(<<>>, FALSE) /\ ToSet(<<>>) \cap ToSet(shown) = {}
    BY EmptySeq DEF Ordered, ToSet
  <1> QED
    BY <1>1, PruneFacts

\* A page after the last line shown, or before the first, makes the stretch longer.
LEMMA NextStretch ==
  ASSUME FilesInv, shown \in Seq(Place), Ordered(shown, FALSE), Stretch(ToSet(shown), There),
         shown # <<>>, NEW res, Something(res, There, AfterLine(Last(shown), TRUE), TRUE, FALSE)
  PROVE  /\ PruneLines(res.lines) = res.lines
         /\ shown \o res.lines \in Seq(Place) /\ Ordered(shown \o res.lines, FALSE)
         /\ Stretch(ToSet(shown \o res.lines), There)
  <1> DEFINE N == res.lines
             X == There
             S == ToSet(shown)
             T == ToSet(N)
             l == Last(shown)
             c == AfterLine(l, TRUE)
  <1>1. X \subseteq Place /\ \A p, q \in X : p = q \/ Before(p, q) \/ Before(q, p)
    BY ThereFacts
  <1>2. S \subseteq Place /\ l \in S /\ \A p \in S : p = l \/ Before(p, l)
    BY InOrder DEF Sooner
  <1>3. c.had = TRUE
    BY DEF AfterLine, Cursor
  <1> HIDE DEF l
  <1>4. \A p \in X : InScope(p, c, FALSE) <=> Before(l, p)
    BY <1>1, <1>2, ReachFacts
  <1> HIDE DEF c
  <1>5. /\ N \in Seq(Place) /\ Ordered(N, FALSE)
        /\ T \subseteq {p \in X : p.line = "match" /\ InScope(p, c, FALSE)}
        /\ \A q \in T, x \in X : x.line = "match" /\ InScope(x, c, FALSE) /\ Sooner(x, q, FALSE) => x \in T
    <2>1. Something(res, X, c, TRUE, FALSE)
      BY DEF c, l
    <2>2. X \in SUBSET Place /\ Knows(c)
      BY <1>1, <1>3 DEF Knows
    <2> HIDE DEF X
    <2>3. N \in Seq(Place) /\ Ordered(N, FALSE) /\ ViewsPage(T, X, c, FALSE)
      BY <2>1, <2>2, ViewPage
    <2> HIDE DEF N, T
    <2> QED
      BY <1>3, <2>3 DEF ViewsPage, Begins
  <1>6. /\ S \subseteq {p \in X : p.line = "match"}
        /\ \A p, q \in S, x \in X : x.line = "match" /\ Before(p, x) /\ Before(x, q) => x \in S
    BY DEF Stretch
  <1> HIDE DEF N, X, S, T
  <1>7. \A a, b, e \in Place : (Before(a, b) => ~ Before(b, a)) /\ (Before(a, b) /\ Before(b, e) => Before(a, e))
    BY DEF Before, Place
  <1>8. \A p \in S, q \in T : Before(p, q)
    <2> TAKE p \in S, q \in T
    <2>1. Before(l, q) /\ p \in Place /\ q \in Place /\ l \in Place
      BY <1>1, <1>2, <1>4, <1>5
    <2> QED
      BY <1>2, <1>7, <2>1
  <1>9. S \cap T = {}
    BY <1>2, <1>7, <1>8
  <1>10. PruneLines(N) = N
    BY <1>5, <1>9, PruneFacts DEF S, T
  <1>11. shown \o N \in Seq(Place) /\ Ordered(shown \o N, FALSE) /\ ToSet(shown \o N) = S \cup T
    <2>1. \A p \in ToSet(shown), q \in ToSet(N) : Sooner(p, q, FALSE)
      BY <1>8 DEF Sooner, S, T
    <2> QED
      BY <1>5, <2>1, OrderedConcat DEF S, T
  <1>12. ASSUME NEW p \in S \cup T, NEW q \in S \cup T, NEW x \in X, x.line = "match", Before(p, x), Before(x, q)
         PROVE  x \in S \cup T
    <2>1. x = l \/ Before(x, l) \/ Before(l, x)
      BY <1>1, <1>2, <1>6
    <2>2. x \in Place /\ p \in Place /\ q \in Place /\ l \in Place
      BY <1>1, <1>2, <1>5
    <2>3. CASE x = l
      BY <1>2, <2>3
    <2>4. CASE Before(x, l)
      <3>1. p \in S
        BY <1>2, <1>4, <1>5, <1>7, <1>12, <2>2, <2>4
      <3> QED
        BY <1>2, <1>6, <1>12, <2>4, <3>1
    <2>5. CASE Before(l, x)
      <3>1. q \in T
        BY <1>2, <1>7, <1>12, <2>2, <2>5
      <3> QED
        BY <1>3, <1>4, <1>5, <1>12, <2>5, <3>1 DEF Sooner
    <2> QED
      BY <2>1, <2>3, <2>4, <2>5
  <1>13. S \cup T \subseteq {p \in X : p.line = "match"}
    BY <1>5, <1>6
  <1>14. Stretch(S \cup T, X)
    BY <1>12, <1>13 DEF Stretch
  <1> QED
    BY <1>10, <1>11, <1>14 DEF N, X

LEMMA PrevStretch ==
  ASSUME FilesInv, shown \in Seq(Place), Ordered(shown, FALSE), Stretch(ToSet(shown), There),
         shown # <<>>, NEW res, Something(res, There, Cursor(shown[1].file, shown[1].index, TRUE), TRUE, TRUE)
  PROVE  /\ PruneLines(res.lines) = res.lines
         /\ res.lines \o shown \in Seq(Place) /\ Ordered(res.lines \o shown, FALSE)
         /\ Stretch(ToSet(res.lines \o shown), There)
  <1> DEFINE N == res.lines
             X == There
             S == ToSet(shown)
             T == ToSet(N)
             l == shown[1]
             c == Cursor(l.file, l.index, TRUE)
  <1>1. X \subseteq Place /\ \A p, q \in X : p = q \/ Before(p, q) \/ Before(q, p)
    BY ThereFacts
  <1>2. S \subseteq Place /\ l \in S /\ \A p \in S : p = l \/ Before(l, p)
    BY InOrder DEF Sooner
  <1>3. c.had = TRUE
    BY DEF Cursor
  <1> HIDE DEF l
  <1>4. \A p \in X : InScope(p, c, TRUE) <=> Before(p, l)
    BY <1>1, <1>2, ReachFacts
  <1> HIDE DEF c
  <1>5. /\ N \in Seq(Place) /\ Ordered(N, FALSE)
        /\ T \subseteq {p \in X : p.line = "match" /\ InScope(p, c, TRUE)}
        /\ \A q \in T, x \in X : x.line = "match" /\ InScope(x, c, TRUE) /\ Sooner(x, q, TRUE) => x \in T
    <2>1. Something(res, X, c, TRUE, TRUE)
      BY DEF c, l
    <2>2. X \in SUBSET Place /\ Knows(c)
      BY <1>1, <1>3 DEF Knows
    <2> HIDE DEF X
    <2>3. N \in Seq(Place) /\ Ordered(N, FALSE) /\ ViewsPage(T, X, c, TRUE)
      BY <2>1, <2>2, ViewPage
    <2> HIDE DEF N, T
    <2> QED
      BY <1>3, <2>3 DEF ViewsPage, Begins
  <1>6. /\ S \subseteq {p \in X : p.line = "match"}
        /\ \A p, q \in S, x \in X : x.line = "match" /\ Before(p, x) /\ Before(x, q) => x \in S
    BY DEF Stretch
  <1> HIDE DEF N, X, S, T
  <1>7. \A a, b, e \in Place : (Before(a, b) => ~ Before(b, a)) /\ (Before(a, b) /\ Before(b, e) => Before(a, e))
    BY DEF Before, Place
  <1>8. \A p \in T, q \in S : Before(p, q)
    <2> TAKE p \in T, q \in S
    <2>1. Before(p, l) /\ p \in Place /\ q \in Place /\ l \in Place
      BY <1>1, <1>2, <1>4, <1>5
    <2> QED
      BY <1>2, <1>7, <2>1
  <1>9. T \cap S = {}
    BY <1>2, <1>7, <1>8
  <1>10. PruneLines(N) = N
    BY <1>5, <1>9, PruneFacts DEF S, T
  <1>11. N \o shown \in Seq(Place) /\ Ordered(N \o shown, FALSE) /\ ToSet(N \o shown) = T \cup S
    <2>1. \A p \in ToSet(N), q \in ToSet(shown) : Sooner(p, q, FALSE)
      BY <1>8 DEF Sooner, S, T
    <2> QED
      BY <1>5, <2>1, OrderedConcat DEF S, T
  <1>12. ASSUME NEW p \in T \cup S, NEW q \in T \cup S, NEW x \in X, x.line = "match", Before(p, x), Before(x, q)
         PROVE  x \in T \cup S
    <2>1. x = l \/ Before(x, l) \/ Before(l, x)
      BY <1>1, <1>2, <1>6
    <2>2. x \in Place /\ p \in Place /\ q \in Place /\ l \in Place
      BY <1>1, <1>2, <1>5
    <2>3. CASE x = l
      BY <1>2, <2>3
    <2>4. CASE Before(l, x)
      <3>1. q \in S
        BY <1>2, <1>4, <1>5, <1>7, <1>12, <2>2, <2>4
      <3> QED
        BY <1>2, <1>6, <1>12, <2>4, <3>1
    <2>5. CASE Before(x, l)
      <3>1. p \in T
        BY <1>2, <1>7, <1>12, <2>2, <2>5
      <3> QED
        BY <1>3, <1>4, <1>5, <1>12, <2>5, <3>1 DEF Sooner
    <2> QED
      BY <2>1, <2>3, <2>4, <2>5
  <1>13. T \cup S \subseteq {p \in X : p.line = "match"}
    BY <1>5, <1>6
  <1>14. Stretch(T \cup S, X)
    BY <1>12, <1>13 DEF Stretch
  <1> QED
    BY <1>10, <1>11, <1>14 DEF N, X

LEMMA KickOffKeeps ==
  ASSUME FilesInv, ViewInv, client = "view", client' = client, files' = files, scenario' = scenario,
         NEW r \in BOOLEAN, KickOff(r)
  PROVE  ViewInv'
  <1>1. PICK res \in LoadLogLines(Run(run), files, None, None, PageLines, TRUE, r) :
          /\ shown' = res.lines
          /\ moreback' = res.can_continue_backward
          /\ cursor' = res.forward_cursor_token /\ rcursor' = res.reverse_cursor_token
    BY DEF KickOff, GetLogs
  <1> DEFINE c == NothingFound(r)
  <1>2. c.had \in BOOLEAN
    BY DEF NothingFound, Cursor
  <1>3. Nothing(res, files, None, None, r) \/ Something(res, There, c, TRUE, r)
    <2>1. c = IF (IF r THEN None ELSE None) = None THEN NothingFound(r) ELSE IF r THEN None ELSE None
      OBVIOUS
    <2> HIDE DEF c
    <2> QED
      BY <1>2, <2>1, AnswerFacts DEF FilesInv, There
  <1>4. There' = There
    BY DEF There
  <1>5. CASE Nothing(res, files, None, None, r)
    <2>1. /\ res.lines = <<>> /\ ~ res.can_continue_backward
          /\ res.forward_cursor_token \in {None, NothingFound(FALSE)}
      BY <1>5 DEF Nothing
    <2>2. shown' = <<>> /\ cursor' \in {None, NothingFound(FALSE)} /\ ~ moreback'
      BY <1>1, <2>1
    <2>3. <<>> \in Seq(Place) /\ Ordered(<<>>, FALSE) /\ ToSet(<<>>) = {}
      BY EmptySeq DEF Ordered, ToSet
    <2>4. cursor' # None => cursor' = IF shown' = <<>> THEN NothingFound(FALSE) ELSE AfterLine(Last(shown'), TRUE)
      BY <2>2
    <2> QED
      BY <2>2, <2>3, <2>4 DEF ViewInv
  <1>6. CASE Something(res, There, c, TRUE, r)
    <2>1. There \in SUBSET Place
      BY ThereFacts
    <2>2. Stretch(ToSet(res.lines), There)
      BY <1>6, <2>1, KickOffStretch
    <2>3. /\ res.lines # <<>> /\ res.lines \in Seq(Place) /\ Ordered(res.lines, FALSE)
          /\ res.forward_cursor_token \in {None, AfterLine(Last(res.lines), TRUE)}
          /\ res.reverse_cursor_token \in {None, Cursor(res.lines[1].file, res.lines[1].index, TRUE)}
          /\ res.can_continue_backward => res.reverse_cursor_token # None
      BY <1>6 DEF Something
    <2>4. cursor' # None => cursor' = IF shown' = <<>> THEN NothingFound(FALSE) ELSE AfterLine(Last(shown'), TRUE)
      BY <1>1, <2>3
    <2>5. moreback' => shown' # <<>> /\ rcursor' = Cursor(shown'[1].file, shown'[1].index, TRUE)
      BY <1>1, <2>3
    <2>6. shown' \in Seq(Place) /\ Ordered(shown', FALSE) /\ Stretch(ToSet(shown'), There')
      BY <1>1, <1>4, <2>2, <2>3
    <2> QED
      BY <2>4, <2>5, <2>6 DEF ViewInv, Stretch, Matching
  <1> QED
    BY <1>3, <1>5, <1>6

LEMMA GetNextKeeps ==
  ASSUME FilesInv, ViewInv, client = "view", client' = client, files' = files, scenario' = scenario, GetNext
  PROVE  ViewInv'
  <1>1. There' = There
    BY DEF There
  <1>2. /\ shown \in Seq(Place) /\ Ordered(shown, FALSE) /\ Stretch(ToSet(shown), There)
        /\ cursor # None => cursor = IF shown = <<>> THEN NothingFound(FALSE) ELSE AfterLine(Last(shown), TRUE)
        /\ moreback => shown # <<>> /\ rcursor = Cursor(shown[1].file, shown[1].index, TRUE)
    BY ViewForm
  <1>3. CASE UNCHANGED <<shown, moreback, cursor, rcursor>>
    <2>1. shown' = shown /\ moreback' = moreback /\ cursor' = cursor /\ rcursor' = rcursor
      BY <1>3
    <2>2. cursor' # None => cursor' = IF shown' = <<>> THEN NothingFound(FALSE) ELSE AfterLine(Last(shown'), TRUE)
      BY <1>2, <2>1
    <2> QED
      BY <1>1, <1>2, <2>1, <2>2 DEF ViewInv, Stretch, Matching
  <1>4. CASE /\ cursor # None /\ UNCHANGED <<moreback, rcursor>>
             /\ \E res \in GetLogs(cursor, None, FALSE) :
                  /\ shown' = shown \o PruneLines(res.lines)
                  /\ cursor' = res.forward_cursor_token
    <2>1. PICK res \in LoadLogLines(Run(run), files, cursor, None, PageLines, TRUE, FALSE) :
            /\ shown' = shown \o PruneLines(res.lines)
            /\ cursor' = res.forward_cursor_token
      BY <1>4 DEF GetLogs
    <2>2. cursor = (IF shown = <<>> THEN NothingFound(FALSE) ELSE AfterLine(Last(shown), TRUE))
      BY <1>2, <1>4
    <2>3. cursor.had \in BOOLEAN
      BY <2>2 DEF AfterLine, NothingFound, Cursor
    <2>4. Nothing(res, files, cursor, None, FALSE) \/ Something(res, There, cursor, TRUE, FALSE)
      <3>1. cursor = IF (IF FALSE THEN None ELSE cursor) = None THEN NothingFound(FALSE)
                     ELSE IF FALSE THEN None ELSE cursor
        BY <1>4
      <3> QED
        BY <2>3, <3>1, AnswerFacts DEF FilesInv, There
    <2>5. CASE Nothing(res, files, cursor, None, FALSE)
      <3>1. /\ res.lines = <<>>
            /\ \/ res.forward_cursor_token \in {None, cursor}
               \/ res.forward_cursor_token = NothingFound(FALSE) /\ files = <<>>
        BY <1>4, <2>5 DEF Nothing
      <3>2. shown' = shown
        BY <1>2, <2>1, <3>1, PruneNothing, ConcatEmptySeq
      <3>3. files = <<>> => shown = <<>>
        <4>1. files = <<>> => ToSet(shown) = {}
          BY <1>2, ThereFacts DEF Stretch
        <4>2. shown # <<>> => ToSet(shown) # {}
          BY <1>2, InOrder
        <4> QED
          BY <4>1, <4>2
      <3>4. cursor' # None => cursor' = IF shown' = <<>> THEN NothingFound(FALSE) ELSE AfterLine(Last(shown'), TRUE)
        BY <2>1, <2>2, <3>1, <3>2, <3>3
      <3> QED
        BY <1>1, <1>2, <1>4, <3>2, <3>4 DEF ViewInv, Stretch, Matching
    <2>6. CASE Something(res, There, cursor, TRUE, FALSE)
      <3> DEFINE s == shown \o res.lines
      <3>1. /\ PruneLines(res.lines) = res.lines
            /\ s \in Seq(Place) /\ Ordered(s, FALSE) /\ Stretch(ToSet(s), There)
        <4>1. CASE shown = <<>>
          <5>1. Something(res, There, NothingFound(FALSE), TRUE, FALSE)
            BY <2>2, <2>6, <4>1
          <5>2. There \in SUBSET Place
            BY ThereFacts
          <5>3. Stretch(ToSet(res.lines), There)
            BY <5>1, <5>2, KickOffStretch
          <5>4. res.lines \in Seq(Place) /\ Ordered(res.lines, FALSE)
            BY <5>1 DEF Something
          <5>5. s = res.lines
            BY <4>1, <5>4, ConcatEmptySeq
          <5>6. ToSet(res.lines) \cap ToSet(shown) = {}
            BY <4>1 DEF ToSet
          <5>7. PruneLines(res.lines) = res.lines
            BY <1>2, <5>4, <5>6, PruneFacts
          <5> QED
            BY <5>3, <5>4, <5>5, <5>7
        <4>2. CASE shown # <<>>
          BY <1>2, <2>2, <2>6, <4>2, NextStretch
        <4> QED
          BY <4>1, <4>2
      <3>2. /\ res.lines # <<>> /\ res.lines \in Seq(Place)
            /\ res.forward_cursor_token \in {None, AfterLine(Last(res.lines), TRUE)}
        BY <2>6 DEF Something
      <3>3. s # <<>> /\ Last(s) = Last(res.lines) /\ (shown # <<>> => s[1] = shown[1])
        BY <1>2, <3>2, ConcatEnds
      <3>4. shown' = s
        BY <2>1, <3>1
      <3> HIDE DEF s
      <3>5. cursor' # None => cursor' = IF shown' = <<>> THEN NothingFound(FALSE) ELSE AfterLine(Last(shown'), TRUE)
        BY <2>1, <3>2, <3>3, <3>4
      <3>6. moreback' => shown' # <<>> /\ rcursor' = Cursor(shown'[1].file, shown'[1].index, TRUE)
        BY <1>2, <1>4, <3>3, <3>4
      <3> QED
        BY <1>1, <3>1, <3>4, <3>5, <3>6 DEF ViewInv, Stretch, Matching
    <2> QED
      BY <2>4, <2>5, <2>6
  <1> QED
    BY <1>3, <1>4 DEF GetNext

LEMMA GetPrevKeeps ==
  ASSUME FilesInv, ViewInv, client = "view", client' = client, files' = files, scenario' = scenario,
         moreback, GetPrev
  PROVE  ViewInv'
  <1>1. There' = There
    BY DEF There
  <1>2. /\ shown \in Seq(Place) /\ Ordered(shown, FALSE) /\ Stretch(ToSet(shown), There)
        /\ cursor # None => cursor = IF shown = <<>> THEN NothingFound(FALSE) ELSE AfterLine(Last(shown), TRUE)
        /\ shown # <<>> /\ rcursor = Cursor(shown[1].file, shown[1].index, TRUE)
    BY ViewForm
  <1>3. PICK res \in LoadLogLines(Run(run), files, None, rcursor, PageLines, TRUE, TRUE) :
          /\ shown' = PruneLines(res.lines) \o shown
          /\ moreback' = res.can_continue_backward /\ rcursor' = res.reverse_cursor_token
    BY DEF GetPrev, GetLogs
  <1>4. cursor' = cursor
    BY DEF GetPrev
  <1>5. shown[1] \in Place
    BY <1>2, InOrder
  <1>6. rcursor \in [file : Nat, index : Int, had : BOOLEAN] /\ rcursor.had \in BOOLEAN /\ rcursor # None
    <2>1. Cursor(shown[1].file, shown[1].index, TRUE) \in [file : Nat, index : Int, had : BOOLEAN]
      BY <1>5 DEF Cursor, Place
    <2> QED
      BY <1>2, <2>1, ReaderAssumption DEF ReaderAssumption
  <1>7. Nothing(res, files, None, rcursor, TRUE) \/ Something(res, There, rcursor, TRUE, TRUE)
    <2>1. rcursor = IF (IF TRUE THEN rcursor ELSE None) = None THEN NothingFound(TRUE)
                    ELSE IF TRUE THEN rcursor ELSE None
      BY <1>6
    <2> QED
      BY <1>6, <2>1, AnswerFacts DEF FilesInv, There
  <1>8. CASE Nothing(res, files, None, rcursor, TRUE)
    <2>1. res.lines = <<>> /\ ~ res.can_continue_backward
      BY <1>8 DEF Nothing
    <2>2. shown' = shown /\ ~ moreback'
      BY <1>2, <1>3, <2>1, PruneNothing, ConcatEmptySeq
    <2>3. cursor' # None => cursor' = IF shown' = <<>> THEN NothingFound(FALSE) ELSE AfterLine(Last(shown'), TRUE)
      BY <1>2, <1>4, <2>2
    <2> QED
      BY <1>1, <1>2, <2>2, <2>3 DEF ViewInv, Stretch, Matching
  <1>9. CASE Something(res, There, rcursor, TRUE, TRUE)
    <2> DEFINE s == res.lines \o shown
    <2>1. /\ PruneLines(res.lines) = res.lines
          /\ s \in Seq(Place) /\ Ordered(s, FALSE) /\ Stretch(ToSet(s), There)
      BY <1>2, <1>9, PrevStretch
    <2>2. /\ res.lines # <<>> /\ res.lines \in Seq(Place)
          /\ res.reverse_cursor_token \in {None, Cursor(res.lines[1].file, res.lines[1].index, TRUE)}
          /\ res.can_continue_backward => res.reverse_cursor_token # None
      BY <1>9 DEF Something
    <2>3. s # <<>> /\ Last(s) = Last(shown) /\ s[1] = res.lines[1]
      BY <1>2, <2>2, ConcatEnds
    <2>4. shown' = s
      BY <1>3, <2>1
    <2> HIDE DEF s
    <2>5. cursor' # None => cursor' = IF shown' = <<>> THEN NothingFound(FALSE) ELSE AfterLine(Last(shown'), TRUE)
      BY <1>2, <1>4, <2>3, <2>4
    <2>6. moreback' => shown' # <<>> /\ rcursor' = Cursor(shown'[1].file, shown'[1].index, TRUE)
      BY <1>3, <2>2, <2>3, <2>4
    <2> QED
      BY <1>1, <2>1, <2>4, <2>5, <2>6 DEF ViewInv, Stretch, Matching
  <1> QED
    BY <1>7, <1>8, <1>9

(***************************************************************************)
(* The readers' theorems.                                                  *)
(***************************************************************************)
LEMMA RunLinesFacts ==
  ASSUME FilesInv, NEW r \in BOOLEAN, NEW filtered \in BOOLEAN
  PROVE  /\ RunLines(r, filtered) \in Seq(Place) /\ Ordered(RunLines(r, filtered), r)
         /\ ToSet(RunLines(r, filtered)) =
              {p \in Handed(There, NothingFound(r), r) : filtered => p.line = "match"}
  <1> DEFINE c   == NothingFound(r)
             all == LineStream(files, c, r)
             s   == IF Inline THEN FilterForInline(all, c.had, r) ELSE all
  <1>1. c.had = FALSE
    BY DEF NothingFound, Cursor
  <1> HIDE DEF c
  <1>2. s \in Seq(Place) /\ Ordered(s, r) /\ ToSet(s) = Handed(There, c, r)
    <2>1. c.had \in BOOLEAN /\ InFiles(files)
      BY <1>1 DEF FilesInv
    <2>2. s = IF Inline THEN FilterForInline(LineStream(files, c, r), c.had, r) ELSE LineStream(files, c, r)
      OBVIOUS
    <2> HIDE DEF s
    <2> QED
      BY <2>1, <2>2, HandedFacts DEF There
  <1>3. RunLines(r, filtered) = Found(s, filtered)
    BY <1>1, Zenon DEF RunLines, c
  <1> HIDE DEF s
  <1>4. /\ Found(s, filtered) \in Seq(Place) /\ Ordered(Found(s, filtered), r)
        /\ ToSet(Found(s, filtered)) = {p \in ToSet(s) : filtered => p.line = "match"}
    BY <1>2, FoundFacts
  <1> QED
    BY <1>2, <1>3, <1>4 DEF c

LEMMA MineIsHanded ==
  ASSUME FilesInv
  PROVE  Handed(There, NothingFound(FALSE), FALSE) = Mine
  <1> DEFINE c == NothingFound(FALSE)
  <1>1. c.had = FALSE /\ c.file = NoFile /\ ExpectedStart(FALSE) = "start"
    BY DEF NothingFound, Cursor, ExpectedStart
  <1>2. Reach(There, c, FALSE) = There
    BY <1>1 DEF Reach, InScope
  <1> HIDE DEF c
  <1>3. Handed(There, c, FALSE) = Mine
    BY <1>1, <1>2 DEF Handed, Mine, MineOf
  <1> QED
    BY <1>3 DEF c

ReaderInv == FilesInv /\ CommandInv /\ ViewInv

LEMMA ReaderInit ==
  ASSUME Init
  PROVE  ReaderInv
  <1>1. FilesInv
    BY FilesInit
  <1>2. shown = <<>> /\ cursor = None /\ moreback = FALSE
    BY DEF Init
  <1>3. <<>> \in Seq(Place) /\ Ordered(<<>>, FALSE) /\ ToSet(<<>>) = {}
    BY EmptySeq DEF Ordered, ToSet
  <1> QED
    BY <1>1, <1>2, <1>3 DEF ReaderInv, CommandInv, ViewInv

LEMMA ReaderNext ==
  ASSUME LogInv, ReaderInv, [Next]_vars
  PROVE  ReaderInv'
  <1>1. FilesInv /\ CommandInv /\ ViewInv
    BY DEF ReaderInv
  <1>2. FilesInv' /\ Grown
    BY <1>1, FilesNext
  <1>3. CASE UNCHANGED <<scenario, client, request, cursor, rcursor, shown, more, moreback, over>>
    BY <1>1, <1>2, <1>3, CommandWaits, ViewWaits DEF ReaderInv
  <1>4. CASE CommandLoads
    <2>1. /\ UNCHANGED <<scenario, client, cursor, rcursor, shown, more, moreback, over>>
          /\ request = NoRequest /\ ~ over /\ more
      BY <1>4 DEF CommandLoads, process
    <2> QED
      BY <1>1, <1>2, <2>1, CommandWaits, ViewWaits DEF ReaderInv
  <1>5. CASE CommandShows
    <2>1. client # "view" /\ client' = client
      BY <1>5 DEF CommandShows
    <2>2. ViewInv'
      BY <2>1 DEF ViewInv
    <2>3. CommandInv'
      BY <1>1, <1>5, CommandShowsKeeps
    <2> QED
      BY <1>2, <2>2, <2>3 DEF ReaderInv
  <1>6. CASE View
    <2>1. client = "view" /\ client' = client /\ files' = files /\ scenario' = scenario
      BY <1>6 DEF View, logVars, process
    <2>2. CommandInv'
      BY <2>1 DEF CommandInv
    <2>3. \/ KickOff(FALSE) \/ KickOff(TRUE) \/ GetNext
          \/ moreback /\ GetPrev
      BY <1>6 DEF View
    <2>4. ViewInv'
      <3>1. \A r \in BOOLEAN : KickOff(r) => ViewInv'
        BY <1>1, <2>1, KickOffKeeps
      <3>2. GetNext => ViewInv'
        BY <1>1, <2>1, GetNextKeeps
      <3>3. moreback /\ GetPrev => ViewInv'
        BY <1>1, <2>1, GetPrevKeeps
      <3> QED
        BY <2>3, <3>1, <3>2, <3>3
    <2> QED
      BY <1>2, <2>2, <2>4 DEF ReaderInv
  <1>7. CASE PrintElsewhere \/ PrintInside \/ Schedule \/ StartInlineExecution \/ SaveRun \/ EndInlineExecution
    BY <1>3, <1>7 DEF PrintElsewhere, PrintInside, Schedule, StartInlineExecution, SaveRun,
                      EndInlineExecution, process, reader
  <1>8. CASE Leave \/ Terminate \/ RunFails \/ Streams \/ UNCHANGED vars
    BY <1>3, <1>8 DEF Leave, Terminate, RunFails, Streams, vars, process, reader
  <1> QED
    BY <1>4, <1>5, <1>6, <1>7, <1>8 DEF Next, Done

LEMMA ReadersAlways == Spec => [](LogInv /\ ReaderInv)
  <1>1. Init => LogInv /\ ReaderInv
    BY LogInit, ReaderInit
  <1>2. LogInv /\ ReaderInv /\ [Next]_vars => (LogInv /\ ReaderInv)'
    BY LogNext, ReaderNext
  <1> QED
    BY <1>1, <1>2, PTL DEF Spec

\* The command `sematic logs` shows the lines of the run from the first on, in order, none twice and
\* none left out, however its calls and the uploads of new files interleave (logs, load_log_lines).
THEOREM CommandShowsInOrderAlways == Spec => []CommandShowsInOrder
  <1>1. ReaderInv => CommandShowsInOrder
    <2> SUFFICES ASSUME ReaderInv, client # "view" PROVE IsPrefix(shown, RunLines(FALSE, FALSE))
      BY DEF CommandShowsInOrder
    <2>1. FilesInv
      BY DEF ReaderInv
    <2>2. /\ shown \in Seq(Place) /\ Ordered(shown, FALSE) /\ ToSet(shown) \subseteq Mine
          /\ \A p \in ToSet(shown), q \in Mine : Before(q, p) => q \in ToSet(shown)
      BY DEF ReaderInv, CommandInv
    <2> DEFINE t == RunLines(FALSE, FALSE)
    <2>3. t \in Seq(Place) /\ Ordered(t, FALSE) /\ ToSet(t) = Mine
      <3>1. /\ t \in Seq(Place) /\ Ordered(t, FALSE)
            /\ ToSet(t) = {p \in Handed(There, NothingFound(FALSE), FALSE) : FALSE => p.line = "match"}
        BY <2>1, RunLinesFacts
      <3> HIDE DEF t
      <3> QED
        BY <2>1, <3>1, MineIsHanded
    <2> HIDE DEF t
    <2>4. \A q \in ToSet(t), p \in ToSet(shown) : Sooner(q, p, FALSE) => q \in ToSet(shown)
      BY <2>2, <2>3 DEF Sooner
    <2>5. IsPrefix(shown, t)
      BY <2>2, <2>3, <2>4, PrefixBySets
    <2> QED
      BY <2>5 DEF t
  <1> QED
    BY <1>1, ReadersAlways, PTL

\* What the log view shows is one stretch of the lines that match, whichever end it was opened at and
\* whatever it fetched since (kickOff, getNext, getPrev and pruneLines of the dashboard).
THEOREM ViewHasNoGapsAlways == Spec => []ViewHasNoGaps
  <1>1. ReaderInv => ViewHasNoGaps
    <2> SUFFICES ASSUME ReaderInv, client = "view" PROVE ViewHasNoGaps
      BY DEF ViewHasNoGaps
    <2>1. FilesInv
      BY DEF ReaderInv
    <2>2. /\ shown \in Seq(Place) /\ Ordered(shown, FALSE) /\ Stretch(ToSet(shown), There)
      BY ViewForm DEF ReaderInv
    <2>3. \A i, j \in DOMAIN shown : i < j => Before(shown[i], shown[j])
      BY <2>2 DEF Ordered, Sooner
    <2>4. ASSUME NEW r \in BOOLEAN, shown # <<>>, NEW i \in DOMAIN RunLines(r, TRUE),
                 Before(shown[1], RunLines(r, TRUE)[i]), Before(RunLines(r, TRUE)[i], shown[Len(shown)])
          PROVE  RunLines(r, TRUE)[i] \in Range(shown)
      <3> DEFINE t == RunLines(r, TRUE)
                 x == t[i]
      <3>1. x \in ToSet(t)
        BY DEF ToSet
      <3>2. ToSet(t) = {p \in Handed(There, NothingFound(r), r) : TRUE => p.line = "match"}
        BY <2>1, RunLinesFacts
      <3> HIDE DEF t
      <3>3. x \in There /\ x.line = "match"
        BY <3>1, <3>2 DEF Handed, Reach
      <3>4. shown[1] \in ToSet(shown) /\ shown[Len(shown)] \in ToSet(shown)
        BY <2>2, <2>4, InOrder
      <3>5. Before(shown[1], x) /\ Before(x, shown[Len(shown)])
        BY <2>4 DEF t
      <3> HIDE DEF x
      <3>6. x \in ToSet(shown)
        BY <2>2, <3>3, <3>4, <3>5 DEF Stretch
      <3>7. ToSet(shown) = Range(shown)
        BY DEF ToSet, Range
      <3> QED
        BY <3>6, <3>7 DEF x, t
    <2>5. \A r \in BOOLEAN :
            shown # <<>> /\ shown[1] \in Range(RunLines(r, TRUE)) =>
              \A i \in DOMAIN RunLines(r, TRUE) :
                Before(shown[1], RunLines(r, TRUE)[i]) /\ Before(RunLines(r, TRUE)[i], shown[Len(shown)])
                  => RunLines(r, TRUE)[i] \in Range(shown)
      BY <2>4
    <2> QED
      BY <2>3, <2>5, Zenon DEF ViewHasNoGaps
  <1> QED
    BY <1>1, ReadersAlways, PTL
=============================================================================
