----------------------------- MODULE PlatformProofs -----------------------------
(***************************************************************************)
(* Theorems about parts of the platform, in the composition that the run   *)
(* checks: there x1 to x9 stand for the variables of each part.            *)
(*   ApiClient    x1 backend   x2 release       x3 artifactOf  x4 states   *)
(*                x5 outputs   x6 payloads      x7 storers     x8 workers  *)
(*                x9 waiter                                                *)
(*   CommandLine  x1 versions  x2 schema        x3 settingsFile            *)
(*                x4 serverFile x5 commands     x6 started     x7 wanted   *)
(*                x8 disturbed x9 killed                                   *)
(*   DockerBuilder x1 layout   x2 edition      x3 baseEdition x4 images    *)
(*                x5 tagged    x6 repoDigests  x7 remoteTags               *)
(*                x8 remoteImages              x9 builders                 *)
(*   JobManifest  x1 pipeline    x2 requirements x3 runStates   x4 server  *)
(*                x5 submitted   x6 refused                                *)
(***************************************************************************)
EXTENDS MCPlatform, FiniteSetTheorems, SequenceTheorems, TLAPS

-----------------------------------------------------------------------------
(* The client of the API: outputs and their payloads.                         *)

\* The order of a worker's steps on an output.
LEMMA ClientSteps == /\ A!After("validate") = "locate"
                     /\ A!After("locate") = "save"
                     /\ A!After("save") = "ended"
  <1>1. A!Steps = <<"validate", "locate", "save", "ended">>
    BY DEF A!Steps
  <1>2. \A s \in {"validate", "locate", "save"} : \E n \in 1 .. 3 :
          A!Steps[n] = s /\ \A m \in DOMAIN A!Steps : A!Steps[m] = s => m = n
    BY <1>1
  <1>3. (CHOOSE m \in DOMAIN A!Steps : A!Steps[m] = "validate") = 1
    BY <1>1
  <1>4. (CHOOSE m \in DOMAIN A!Steps : A!Steps[m] = "locate") = 2
    BY <1>1
  <1>5. (CHOOSE m \in DOMAIN A!Steps : A!Steps[m] = "save") = 3
    BY <1>1
  <1> QED
    BY <1>1, <1>3, <1>4, <1>5 DEF A!After

\* Two workers in a set, or in one of its subsets, are more than one.
LEMMA StorersCount ==
  ASSUME NEW S \in SUBSET Workers
  PROVE  /\ \A v, w \in S : v # w => A!Cardinality(S) > 1
         /\ \A T \in SUBSET S : A!Cardinality(T) > 1 => A!Cardinality(S) > 1
  <1>1. \A R : A!Cardinality(R) = Cardinality(R)
    BY DEF A!Cardinality, Cardinality
  <1>2. IsFiniteSet(S)
    BY WorkersAssumption, FS_Subset
  <1>3. ASSUME NEW v \in S, NEW w \in S, v # w PROVE Cardinality(S) > 1
    <2>1. IsFiniteSet({v, w}) /\ Cardinality({v, w}) = 2
      <3>1. IsFiniteSet({v}) /\ Cardinality({v}) = 1
        BY FS_Singleton
      <3>2. {v} \cup {w} = {v, w}
        OBVIOUS
      <3>3. w \notin {v}
        BY <1>3
      <3>4. IsFiniteSet({v} \cup {w}) /\ Cardinality({v} \cup {w}) = Cardinality({v}) + 1
        BY <3>1, <3>3, FS_AddElement
      <3> QED
        BY <3>1, <3>2, <3>4
    <2>2. Cardinality({v, w}) =< Cardinality(S) /\ Cardinality(S) \in Nat
      BY <1>2, FS_Subset, FS_CardinalityType
    <2> QED
      BY <2>1, <2>2
  <1>4. ASSUME NEW T \in SUBSET S, Cardinality(T) > 1 PROVE Cardinality(S) > 1
    <2>1. Cardinality(T) =< Cardinality(S) /\ Cardinality(S) \in Nat
      BY <1>2, FS_Subset, FS_CardinalityType
    <2>2. Cardinality(T) \in Nat
      BY <1>2, FS_Subset, FS_CardinalityType
    <2> QED
      BY <1>4, <2>1, <2>2
  <1> QED
    BY <1>1, <1>3, <1>4

\* A payload opened by two stays so.
LEMMA ReopenedKept ==
  ASSUME A!ClientTyped, A!ClientTyped', NEW a \in A!Artifacts,
         x7[a] \subseteq x7'[a], x1' = x1
  PROVE  A!Reopened(a) => A!Reopened(a)'
  BY StorersCount DEF A!ClientTyped, A!Reopened

\* The client begins with nothing stored and nothing named.
LEMMA ClientInit == A!Init => A!ClientInv
  <1> SUFFICES ASSUME A!Init PROVE A!ClientInv
    OBVIOUS
  <1>1. A!ClientTyped
    BY WorkersAssumption DEF A!Init, A!ClientTyped, A!None, A!Artifacts, A!WorkerPlaces, A!WaiterPlaces
  <1>2. \A w \in Workers : A!StoredBy(w)
    BY DEF A!Init, A!StoredBy, A!AtWorker
  <1> QED
    BY <1>1, <1>2 DEF A!Init, A!ClientInv, A!At, A!WholeOutput

\* Types, for each step of a worker and of the waiter.
LEMMA ClientType ==
  ASSUME A!ClientInv, A!Next
  PROVE  A!ClientTyped'
  <1> DEFINE W == [Workers -> [at : A!WorkerPlaces, tries : Int, stores : Int]]
             R == [at : A!WaiterPlaces, tries : Int, cancels : BOOLEAN, limit : BOOLEAN,
                   known : BOOLEAN, content : {A!None, "partial", "full"}]
  <1> USE DEF A!ClientInv, A!ClientTyped, A!None
  <1>1. Tries \in Int
    BY WorkersAssumption
  <1>2. \A w \in Workers, place \in A!WorkerPlaces : A!WorkerGoes(w, place) => x8' \in W
    <2> TAKE w \in Workers, place \in A!WorkerPlaces
    <2> HAVE A!WorkerGoes(w, place)
    <2>1. /\ x8' = [v \in Workers |-> IF v = w THEN x8'[w] ELSE x8[v]]
          /\ x8'[w] = [[x8[w] EXCEPT !.at = place] EXCEPT !.tries = Tries]
      BY DEF A!WorkerGoes
    <2>2. x8[w] \in [at : A!WorkerPlaces, tries : Int, stores : Int]
      OBVIOUS
    <2>3. x8'[w] \in [at : A!WorkerPlaces, tries : Int, stores : Int]
      BY <1>1, <2>1, <2>2
    <2> QED
      BY <2>1, <2>3
  <1>3. \A w \in Workers : A!Raises(w) \/ A!StoreAgain(w) \/ A!Again(w) => x8' \in W
    BY <1>1, <1>2 DEF A!Raises, A!StoreAgain, A!Again, A!WorkerPlaces
  <1>4. ASSUME NEW w \in Workers, A!WorkerStarts(w) PROVE A!ClientTyped'
    BY <1>4, <1>2, ClientSteps DEF A!WorkerStarts, A!WorkerPlaces
  <1>5. ASSUME NEW w \in Workers, A!Locate(w) PROVE A!ClientTyped'
    BY <1>5, <1>2, <1>3 DEF A!Locate, A!WorkerPlaces
  <1>6. ASSUME NEW w \in Workers, A!PutStarts(w) PROVE A!ClientTyped'
    BY <1>6, <1>2, <1>3 DEF A!PutStarts, A!WorkerPlaces
  <1>7. ASSUME NEW w \in Workers, A!PutObject(w) PROVE A!ClientTyped'
    BY <1>7, <1>2, <1>3, ClientSteps DEF A!PutObject, A!WorkerPlaces
  <1>8. ASSUME NEW w \in Workers, A!PutEnds(w) PROVE A!ClientTyped'
    BY <1>8, <1>2, <1>3, ClientSteps DEF A!PutEnds, A!WorkerPlaces
  <1>9. ASSUME NEW w \in Workers, A!Save(w) PROVE A!ClientTyped'
    BY <1>9, <1>2, <1>3, ClientSteps DEF A!Save, A!WorkerPlaces
  <1>10. ASSUME NEW w \in Workers, A!Fail(w) PROVE A!ClientTyped'
    BY <1>10, <1>2, <1>3 DEF A!Fail, A!WorkerPlaces
  <1>11. ASSUME NEW w \in Workers, A!Killed(w) PROVE A!ClientTyped'
    BY <1>11, <1>2 DEF A!Killed, A!WorkerPlaces
  <1>12. \A place \in A!WaiterPlaces : A!Goes(place) \/ A!Leave(place) \/ A!Lost(place) => x9' \in R
    <2>1. \A place \in A!WaiterPlaces : A!Goes(place) => x9' \in R
      BY <1>1 DEF A!Goes
    <2>2. "cancel" \in A!WaiterPlaces
      BY DEF A!WaiterPlaces
    <2>3. x9.tries - 1 \in Int
      OBVIOUS
    <2> QED
      BY <2>1, <2>2, <2>3 DEF A!Leave, A!Lost
  <1>13. CASE A!WaiterStarts
    BY <1>13, <1>12 DEF A!WaiterStarts, A!WaiterLeaves, A!WaiterPlaces
  <1>14. CASE A!Poll
    <2>1. x9' = [x9 EXCEPT !.at = "sleep", !.tries = Tries, !.known = TRUE] => x9' \in R
      BY <1>1 DEF A!WaiterPlaces
    <2> QED
      BY <1>14, <1>12, <2>1 DEF A!Poll, A!WaiterLeaves, A!WaiterPlaces
  <1>15. CASE A!Sleep
    BY <1>15, <1>12 DEF A!Sleep, A!WaiterLeaves, A!WaiterPlaces
  <1>16. CASE A!Cancel
    BY <1>16, <1>12 DEF A!Cancel, A!WaiterPlaces
  <1>17. CASE A!ReadGraph
    BY <1>17, <1>12 DEF A!ReadGraph, A!WaiterLeaves, A!WaiterPlaces
  <1>18. CASE A!ReadData
    <2>1. x6[x5[1]] \in {A!None, "partial", "full"}
      BY <1>18, WorkersAssumption DEF A!ReadData, A!At
    <2>2. \A v \in {A!None, "partial", "full"} : [x9 EXCEPT !.at = "Value", !.content = v] \in R
      <3>1. x9 \in R /\ "Value" \in A!WaiterPlaces
        BY DEF A!WaiterPlaces
      <3> QED
        BY <3>1
    <2>3. x9' = [x9 EXCEPT !.at = "Value", !.content = x6[x5[1]]] => x9' \in R
      BY <2>1, <2>2, Zenon
    <2> QED
      BY <1>18, <1>12, <2>3 DEF A!ReadData, A!WaiterLeaves, A!WaiterPlaces
  <1> QED
    BY <1>4, <1>5, <1>6, <1>7, <1>8, <1>9, <1>10, <1>11, <1>13, <1>14, <1>15, <1>16, <1>17,
       <1>18 DEF A!Next

\* What a step of worker w may do to where he is, and that all others stay.
LEMMA WorkerMoves ==
  ASSUME A!ClientInv, NEW w \in Workers
  PROVE  /\ \A place \in A!WorkerPlaces : A!WorkerGoes(w, place) =>
              x8'[w].at = place /\ \A v \in Workers \ {w} : x8'[v] = x8[v]
         /\ A!Raises(w) \/ A!Again(w) =>
              /\ x8'[w].at \in {x8[w].at, "raised", "fail"}
              /\ \A v \in Workers \ {w} : x8'[v] = x8[v]
         /\ A!StoreAgain(w) =>
              /\ x8'[w].at \in {"locate", "raised", "fail"}
              /\ \A v \in Workers \ {w} : x8'[v] = x8[v]
  <1>1. /\ x8 \in [Workers -> [at : A!WorkerPlaces, tries : Int, stores : Int]]
        /\ {"locate", "raised", "fail"} \subseteq A!WorkerPlaces
    BY DEF A!ClientInv, A!ClientTyped, A!WorkerPlaces
  <1>2. ASSUME NEW place \in A!WorkerPlaces, A!WorkerGoes(w, place)
        PROVE  x8'[w].at = place /\ \A v \in Workers \ {w} : x8'[v] = x8[v]
    BY <1>1, <1>2 DEF A!WorkerGoes
  <1>3. ASSUME A!Raises(w)
        PROVE  x8'[w].at \in {"raised", "fail"} /\ \A v \in Workers \ {w} : x8'[v] = x8[v]
    BY <1>1, <1>2, <1>3 DEF A!Raises
  <1>4. ASSUME A!StoreAgain(w)
        PROVE  /\ x8'[w].at \in {"locate", "raised", "fail"}
               /\ \A v \in Workers \ {w} : x8'[v] = x8[v]
    BY <1>1, <1>3, <1>4 DEF A!StoreAgain
  <1>5. ASSUME A!Again(w)
        PROVE  /\ x8'[w].at \in {x8[w].at, "raised", "fail"}
               /\ \A v \in Workers \ {w} : x8'[v] = x8[v]
    BY <1>1, <1>3, <1>4, <1>5 DEF A!Again, A!AtWorker
  <1> QED
    BY <1>2, <1>3, <1>4, <1>5

\* A step of a worker that leaves the payloads alone.
LEMMA LeavesPayloads ==
  ASSUME A!ClientInv, A!ClientTyped', NEW w \in Workers,
         x1' = x1, x3' = x3, x6' = x6, x7' = x7,
         \A v \in Workers \ {w} : x8'[v] = x8[v] /\ x5'[v] = x5[v],
         A!StoredBy(w)'
  PROVE  \A v \in Workers : A!StoredBy(v)'
  <1>1. \A a \in A!Artifacts : A!Reopened(a) => A!Reopened(a)'
    BY DEF A!Reopened
  <1>2. ASSUME NEW v \in Workers \ {w} PROVE A!StoredBy(v)'
    <2>1. x3[v] \in A!Artifacts /\ x3'[v] = x3[v]
      BY DEF A!ClientInv, A!ClientTyped
    <2>2. A!StoredBy(v)
      BY DEF A!ClientInv
    <2> QED
      BY <1>1, <1>2, <2>1, <2>2 DEF A!StoredBy, A!AtWorker
  <1> QED
    BY <1>2

\* A step of a worker that opens or ends an upload: what others rely on is whole,
\* or was opened by two.
LEMMA WritesPayload ==
  ASSUME A!ClientInv, A!ClientTyped', NEW w \in Workers,
         x1' = x1, x3' = x3, x5' = x5, \A v \in Workers \ {w} : x8'[v] = x8[v],
         \A a \in A!Artifacts \ {x3[w]} : x6'[a] = x6[a] /\ x7'[a] = x7[a],
         x7'[x3[w]] = x7[x3[w]] \cup {w},
         x6'[x3[w]] = "full" \/ x1 = "local",
         A!StoredBy(w)'
  PROVE  \A v \in Workers : A!StoredBy(v)'
  <1>1. x3 \in [Workers -> A!Artifacts] /\ x7 \in [A!Artifacts -> SUBSET Workers]
    BY DEF A!ClientInv, A!ClientTyped
  <1>2. \A a \in A!Artifacts : A!Reopened(a) => A!Reopened(a)'
    BY <1>1, ReopenedKept DEF A!ClientInv
  <1>3. ASSUME NEW v \in Workers \ {w} PROVE A!StoredBy(v)'
    <2>1. x3[v] \in A!Artifacts /\ x3'[v] = x3[v]
      BY <1>1
    <2>2. A!StoredBy(v)
      BY DEF A!ClientInv
    <2>3. CASE x3[v] # x3[w]
      BY <1>2, <1>3, <2>1, <2>2, <2>3 DEF A!StoredBy, A!AtWorker
    <2>4. CASE x3[v] = x3[w] /\ v \in x7[x3[v]]
      <3>1. x7'[x3[w]] \in SUBSET Workers /\ v \in x7'[x3[w]] /\ w \in x7'[x3[w]]
        BY <1>1, <2>4 DEF A!ClientTyped
      <3>2. A!Cardinality(x7'[x3[w]]) > 1
        BY <3>1, StorersCount
      <3>3. x6'[x3[v]] = "full" \/ A!Reopened(x3[v])'
        BY <2>4, <3>2 DEF A!Reopened
      <3> QED
        BY <1>3, <2>1, <2>2, <2>4, <3>1, <3>3 DEF A!StoredBy, A!AtWorker
    <2>5. CASE v \notin x7[x3[v]]
      BY <1>3, <2>1, <2>2, <2>5 DEF A!StoredBy, A!AtWorker
    <2> QED
      BY <2>3, <2>4, <2>5
  <1> QED
    BY <1>3

\* What a worker relies on is stored, after every step of a worker.
LEMMA WorkersKeep ==
  ASSUME A!ClientInv, A!ClientTyped', NEW w \in Workers,
         \/ A!WorkerStarts(w) \/ A!Locate(w) \/ A!PutStarts(w) \/ A!PutObject(w)
         \/ A!PutEnds(w) \/ A!Save(w) \/ A!Fail(w) \/ A!Killed(w)
  PROVE  \A v \in Workers : A!StoredBy(v)'
  <1>1. /\ x3 \in [Workers -> A!Artifacts] /\ x5 \in [Workers -> A!Artifacts \cup {A!None}]
        /\ x6 \in [A!Artifacts -> {A!None, "partial", "full"}]
        /\ x7 \in [A!Artifacts -> SUBSET Workers] /\ x1 \in {"local", "s3"}
        /\ x3[w] \in A!Artifacts /\ A!StoredBy(w)
    BY DEF A!ClientInv, A!ClientTyped
  <1>2. /\ {"locate", "put", "write", "save", "fail", "ended", "raised", "killed"} \subseteq A!WorkerPlaces
        /\ A!None \notin A!Artifacts
    BY DEF A!WorkerPlaces, A!None, A!Artifacts
  <1>3. A!Reopened(x3[w]) /\ x7' = x7 /\ x1' = x1 /\ x3' = x3 => A!Reopened(x3[w])'
    BY DEF A!Reopened
  <1>4. CASE A!WorkerStarts(w) \/ A!Locate(w) \/ A!Fail(w) \/ A!Killed(w)
    <2>1. /\ x1' = x1 /\ x3' = x3 /\ x5' = x5 /\ x6' = x6 /\ x7' = x7
          /\ \A v \in Workers \ {w} : x8'[v] = x8[v]
          /\ \/ x8[w].at \in {"validate", "locate"} /\ x8'[w].at \in {"raised", "locate", "put", "fail"}
             \/ x8[w].at = "fail" /\ x8'[w].at \in {"raised", "fail"}
             \/ x8'[w].at = "killed"
      BY <1>2, <1>4, WorkerMoves, ClientSteps
         DEF A!WorkerStarts, A!Locate, A!Fail, A!Killed, A!AtWorker
    <2>2. A!StoredBy(w)'
      BY <1>1, <1>3, <2>1 DEF A!StoredBy, A!AtWorker
    <2> QED
      BY <2>1, <2>2, LeavesPayloads
  <1>5. CASE A!Save(w)
    <2>1. /\ x1' = x1 /\ x3' = x3 /\ x6' = x6 /\ x7' = x7 /\ x8[w].at = "save"
          /\ \A v \in Workers \ {w} : x8'[v] = x8[v] /\ x5'[v] = x5[v]
          /\ x5'[w] \in {x5[w], x3[w]} /\ x8'[w].at \in {"save", "ended", "raised", "fail"}
      BY <1>1, <1>2, <1>5, WorkerMoves, ClientSteps DEF A!Save, A!AtWorker
    <2>2. A!StoredBy(w)'
      BY <1>1, <1>3, <2>1 DEF A!StoredBy, A!AtWorker
    <2> QED
      BY <2>1, <2>2, LeavesPayloads
  <1>6. CASE A!PutStarts(w)
    <2>1. /\ x1' = x1 /\ x3' = x3 /\ x5' = x5 /\ x8[w].at = "put" /\ x1 = "local"
          /\ \A v \in Workers \ {w} : x8'[v] = x8[v]
          /\ \/ /\ x6' = x6 /\ x7' = x7 /\ x8'[w].at \in {"locate", "raised", "fail"}
             \/ /\ \A a \in A!Artifacts \ {x3[w]} : x6'[a] = x6[a] /\ x7'[a] = x7[a]
                /\ x7'[x3[w]] = x7[x3[w]] \cup {w} /\ x8'[w].at = "write"
      BY <1>1, <1>2, <1>6, WorkerMoves DEF A!PutStarts, A!AtWorker
    <2>2. A!StoredBy(w)'
      BY <1>1, <2>1 DEF A!StoredBy, A!AtWorker
    <2> QED
      BY <2>1, <2>2, LeavesPayloads, WritesPayload
  <1>7. CASE A!PutObject(w)
    <2>1. /\ x1' = x1 /\ x3' = x3 /\ x5' = x5 /\ x8[w].at = "put"
          /\ \A v \in Workers \ {w} : x8'[v] = x8[v]
          /\ \/ /\ x6' = x6 /\ x7' = x7 /\ x8'[w].at \in {"locate", "raised", "fail"}
             \/ /\ \A a \in A!Artifacts \ {x3[w]} : x6'[a] = x6[a] /\ x7'[a] = x7[a]
                /\ x7'[x3[w]] = x7[x3[w]] \cup {w} /\ x6'[x3[w]] = "full"
                /\ x8'[w].at \in {"save", "locate", "raised", "fail"}
      BY <1>1, <1>2, <1>7, WorkerMoves, ClientSteps DEF A!PutObject, A!AtWorker
    <2>2. A!StoredBy(w)'
      BY <1>1, <2>1 DEF A!StoredBy, A!AtWorker
    <2> QED
      BY <2>1, <2>2, LeavesPayloads, WritesPayload
  <1>8. CASE A!PutEnds(w)
    <2> DEFINE others == {v \in Workers \ {w} : A!AtWorker(v, "write") /\ x3[v] = x3[w]}
    <2>1. w \in x7[x3[w]] /\ x1 = "local" /\ x8[w].at = "write"
      BY <1>1, <1>8 DEF A!PutEnds, A!StoredBy, A!AtWorker
    <2>2. /\ x1' = x1 /\ x3' = x3 /\ x5' = x5 /\ x7' = x7
          /\ \A v \in Workers \ {w} : x8'[v] = x8[v]
          /\ x8'[w].at \in {"save", "locate", "raised", "fail"}
          /\ \/ /\ \A a \in A!Artifacts \ {x3[w]} : x6'[a] = x6[a]
                /\ x6'[x3[w]] = IF others = {} THEN "full" ELSE "partial"
             \/ x6' = x6 /\ x8'[w].at # "save"
      BY <1>1, <1>2, <1>8, WorkerMoves, ClientSteps DEF A!PutEnds, A!AtWorker
    <2>3. ASSUME others # {} PROVE A!Reopened(x3[w])'
      <3>1. PICK v \in Workers \ {w} : A!AtWorker(v, "write") /\ x3[v] = x3[w]
        BY <2>3
      <3>2. v \in x7[x3[w]]
        BY <3>1 DEF A!ClientInv, A!StoredBy
      <3>3. A!Cardinality(x7[x3[w]]) > 1
        BY <1>1, <2>1, <3>2, StorersCount
      <3> QED
        BY <2>1, <2>2, <3>3 DEF A!Reopened
    <2> HIDE DEF others
    <2>4. A!StoredBy(w)'
      BY <1>1, <2>1, <2>2, <2>3 DEF A!StoredBy, A!AtWorker
    <2>5. x7'[x3[w]] = x7[x3[w]] \cup {w}
      BY <2>1, <2>2
    <2> QED
      BY <2>1, <2>2, <2>4, <2>5, WritesPayload
  <1> QED
    BY <1>4, <1>5, <1>6, <1>7, <1>8

\* The client reads what the graph names, which is whole, or was opened again.
LEMMA WaiterKeeps ==
  ASSUME A!ClientInv, A!ClientTyped',
         A!WaiterStarts \/ A!Poll \/ A!Sleep \/ A!Cancel \/ A!ReadGraph \/ A!ReadData
  PROVE  A!ClientInv'
  <1>1. /\ x1' = x1 /\ x3' = x3 /\ x5' = x5 /\ x6' = x6 /\ x7' = x7 /\ x8' = x8
    BY DEF A!WaiterStarts, A!Poll, A!Sleep, A!Cancel, A!ReadGraph, A!ReadData, A!WaiterLeaves
  <1>2. \A a \in A!Artifacts : A!Reopened(a)' = A!Reopened(a)
    BY <1>1 DEF A!Reopened
  <1>3. x3 \in [Workers -> A!Artifacts] /\ 1 \in Workers
    BY WorkersAssumption DEF A!ClientInv, A!ClientTyped
  <1>4. \A w \in Workers : A!StoredBy(w)'
    <2> TAKE w \in Workers
    <2>1. A!StoredBy(w) /\ x3[w] \in A!Artifacts
      BY <1>3 DEF A!ClientInv
    <2> QED
      BY <1>1, <1>2, <2>1 DEF A!StoredBy, A!AtWorker
  <1>5. x9 \in [at : A!WaiterPlaces, tries : Int, cancels : BOOLEAN, limit : BOOLEAN,
                known : BOOLEAN, content : {A!None, "partial", "full"}]
    BY DEF A!ClientInv, A!ClientTyped
  <1>6. \A place \in A!WaiterPlaces : /\ A!Goes(place) => x9'.at = place
                                      /\ A!Leave(place) => x9'.at \in {place, "cancel"}
                                      /\ A!Lost(place) => /\ x9'.at \in {x9.at, place}
                                                          /\ x9'.content = x9.content
    BY <1>5 DEF A!Goes, A!Leave, A!Lost, A!WaiterPlaces
  <1>7. CASE A!WaiterStarts \/ A!Poll \/ A!Sleep \/ A!Cancel
    <2>1. x9' = [x9 EXCEPT !.at = "sleep", !.tries = Tries, !.known = TRUE] => x9'.at = "sleep"
      BY <1>5
    <2>2. x9'.at \notin {"data", "Value"}
      BY <1>5, <1>6, <1>7, <2>1 DEF A!WaiterStarts, A!Poll, A!Sleep, A!Cancel, A!At, A!WaiterPlaces
    <2> QED
      BY <1>4, <2>2 DEF A!ClientInv, A!At, A!WholeOutput
  <1>8. CASE A!ReadGraph
    <2>1. x9'.at # "Value" /\ (x9'.at = "data" => x5[1] # A!None)
      BY <1>5, <1>6, <1>8 DEF A!ReadGraph, A!At, A!WaiterPlaces
    <2> QED
      BY <1>1, <1>4, <2>1 DEF A!ClientInv, A!At, A!WholeOutput
  <1>9. CASE A!ReadData
    <2>1. x5[1] = x3[1] /\ (x6[x3[1]] = "full" \/ A!Reopened(x3[1]))
      BY <1>3, <1>9 DEF A!ReadData, A!ClientInv, A!StoredBy, A!At
    <2>2. \/ x9'.at \in {"data", "Error"}
          \/ x9'.at = "Value" /\ x9'.content = x6[x3[1]]
      <3>1. x9' = [x9 EXCEPT !.at = "Value", !.content = x6[x5[1]]] =>
              x9'.at = "Value" /\ x9'.content = x6[x3[1]]
        BY <1>5, <2>1
      <3> QED
        BY <1>5, <1>6, <1>9, <3>1 DEF A!ReadData, A!At, A!WaiterPlaces
    <2>3. x5'[1] # A!None
      BY <1>1, <1>9 DEF A!ReadData, A!ClientInv, A!At
    <2> QED
      BY <1>1, <1>2, <1>3, <1>4, <2>1, <2>2, <2>3 DEF A!ClientInv, A!At, A!WholeOutput
  <1> QED
    BY <1>7, <1>8, <1>9

\* The invariant of the client is kept.
LEMMA ClientStep == A!ClientInv /\ A!Next => A!ClientInv'
  <1> SUFFICES ASSUME A!ClientInv, A!Next PROVE A!ClientInv'
    OBVIOUS
  <1>1. A!ClientTyped'
    BY ClientType
  <1>2. CASE A!WaiterStarts \/ A!Poll \/ A!Sleep \/ A!Cancel \/ A!ReadGraph \/ A!ReadData
    BY <1>1, <1>2, WaiterKeeps
  <1>3. ASSUME NEW w \in Workers,
               \/ A!WorkerStarts(w) \/ A!Locate(w) \/ A!PutStarts(w) \/ A!PutObject(w)
               \/ A!PutEnds(w) \/ A!Save(w) \/ A!Fail(w) \/ A!Killed(w)
        PROVE  A!ClientInv'
    <2>1. \A v \in Workers : A!StoredBy(v)'
      BY <1>1, <1>3, WorkersKeep
    <2>2. x9' = x9 /\ x3' = x3 /\ x1' = x1
      BY <1>3 DEF A!WorkerStarts, A!Locate, A!PutStarts, A!PutObject, A!PutEnds, A!Save, A!Fail, A!Killed
    <2>3. x7[x3[1]] \subseteq x7'[x3[1]] /\ x3[1] \in A!Artifacts
      <3>1. x7 \in [A!Artifacts -> SUBSET Workers] /\ x3[1] \in A!Artifacts /\ x3[w] \in A!Artifacts
        BY WorkersAssumption DEF A!ClientInv, A!ClientTyped
      <3>2. x7' = x7 \/ x7' = [x7 EXCEPT ![x3[w]] = @ \cup {w}]
        BY <1>3 DEF A!WorkerStarts, A!Locate, A!PutStarts, A!PutObject, A!PutEnds, A!Save, A!Fail, A!Killed
      <3> QED
        BY <3>1, <3>2
    <2>4. A!WholeOutput'
      BY <1>1, <2>2, <2>3, ReopenedKept DEF A!ClientInv, A!WholeOutput, A!At
    <2>5. A!At("data")' => x5'[1] # A!None
      <3>1. x5 \in [Workers -> A!Artifacts \cup {A!None}] /\ 1 \in Workers /\ x3[w] # A!None
        BY WorkersAssumption DEF A!ClientInv, A!ClientTyped, A!None, A!Artifacts
      <3>2. x5' = x5 \/ x5' = [x5 EXCEPT ![w] = x3[w]]
        BY <1>3 DEF A!WorkerStarts, A!Locate, A!PutStarts, A!PutObject, A!PutEnds, A!Save, A!Fail, A!Killed
      <3> QED
        BY <2>2, <3>1, <3>2 DEF A!ClientInv, A!At
    <2> QED
      BY <1>1, <2>1, <2>4, <2>5 DEF A!ClientInv
  <1> QED
    BY <1>2, <1>3 DEF A!Next

\* Whatever is lost, repeated or killed, and for any number of workers and of tries:
\* a graph names no payload that is missing or cut off (_set_run_output stores before
\* it saves), and who has waited for a run reads its whole output, unless another
\* worker has opened the same file of a local server again.
THEOREM OutputsCanBeReadAlways == Spec => []OutputsCanBeRead
  <1> DEFINE Inv == subject = "client" => A!ClientInv
  <1>1. Init => Inv
    BY ClientInit DEF Init
  <1>2. Inv /\ [Next]_allVars => Inv'
    <2> SUFFICES ASSUME Inv, [Next]_allVars, subject' = "client" PROVE A!ClientInv'
      OBVIOUS
    <2>1. CASE Next
      BY <2>1, ClientStep DEF Next
    <2>2. CASE UNCHANGED allVars
      <3>1. A!ClientInv
        BY <2>2 DEF allVars
      <3> QED
        BY <2>2, <3>1 DEF allVars, A!ClientInv, A!ClientTyped, A!StoredBy, A!AtWorker, A!At, A!WholeOutput, A!Reopened
    <2> QED
      BY <2>1, <2>2
  <1>3. Inv => OutputsCanBeRead
    <2> SUFFICES ASSUME A!ClientInv PROVE A!NamedMeansStored /\ A!WholeOutput
      BY DEF OutputsCanBeRead
    <2>1. A!NamedMeansStored
      BY DEF A!ClientInv, A!StoredBy, A!NamedMeansStored
    <2> QED
      BY <2>1 DEF A!ClientInv
  <1> QED
    BY <1>1, <1>2, <1>3, PTL DEF Spec

-----------------------------------------------------------------------------
(* Commands: migrations and settings.                                         *)

\* The three migrations and their statements.
LEMMA MigrationFacts ==
  /\ C!Number = 1 .. 3 /\ {C!Migrations[i] : i \in C!Number} = {"jobs", "settings_file", "metrics"}
  /\ C!Migrations[1] = "jobs" /\ C!Migrations[2] = "settings_file" /\ C!Migrations[3] = "metrics"
  /\ 0 .. Len(C!Migrations) = 0 .. 3
  /\ \A m : C!IsSql(m) <=> m # "settings_file"
  /\ \A m : C!Statements(m) = IF m = "jobs" THEN 2 ELSE 1
  <1>1. /\ Len(C!Migrations) = 3 /\ C!Migrations[1] = "jobs" /\ C!Migrations[2] = "settings_file"
        /\ C!Migrations[3] = "metrics"
    BY DEF C!Migrations
  <1>2. C!Number = {1, 2, 3}
    BY <1>1 DEF C!Number
  <1>3. {C!Migrations[i] : i \in {1, 2, 3}} = {"jobs", "settings_file", "metrics"}
    BY <1>1
  <1> QED
    BY <1>1, <1>2, <1>3 DEF C!Number, C!IsSql, C!Statements

\* A step of process p puts something else in its place, and leaves the others.
LEMMA CommandSet ==
  ASSUME C!CliTyped, NEW p \in Processes, NEW d \in C!Command \cup {C!Ready},
         x5' = [x5 EXCEPT ![p] = d]
  PROVE  /\ x5' \in [Processes -> C!Command \cup {C!Ready}]
         /\ x5'[p] = d /\ \A q \in Processes \ {p} : x5'[q] = x5[q]
  BY DEF C!CliTyped

\* A process runs a command or none.
LEMMA CommandOrReady ==
  /\ C!Ready \notin C!Command
  /\ \A c \in C!Command \cup {C!Ready} : c # C!Ready <=> c \in C!Command
  <1>1. C!Ready.cmd = "none" /\ \A c \in C!Command : c.cmd # "none"
    BY DEF C!Ready, C!Command
  <1> QED
    BY <1>1

\* What a step that rewrites the files, or reads them, changes of its command.
LEMMA FileSteps ==
  ASSUME C!CliTyped, C!OrderInv, NEW p \in Processes,
         \/ C!ReadsFiles(p) \/ C!Reverts(p) \/ C!EmptiesFile(p) \/ C!WritesFile(p)
         \/ C!RemovesServerFile(p) \/ C!EmptiesServerFile(p) \/ C!WritesServerFile(p)
         \/ C!LoadsSettings(p) \/ C!OpensToSave(p) \/ C!SavesSettings(p)
  PROVE  /\ x1' = x1 /\ x2' = x2 /\ x6' = x6 /\ x8' = x8 /\ x9' = x9
         /\ x3' \in C!FileType /\ x4' \in C!FileType /\ x7' \in [C!Vars -> Nat]
         /\ x5' \in [Processes -> C!Command \cup {C!Ready}]
         /\ \A q \in Processes \ {p} : x5'[q] = x5[q]
         /\ x5[p] \in C!Command
         /\ \/ x5'[p] = C!Ready
            \/ /\ x5'[p] \in C!Command
               /\ x5'[p] = [x5[p] EXCEPT !.pc = x5'[p].pc, !.loaded = x5'[p].loaded]
               /\ \/ x5[p].pc \in C!Moving /\ x5'[p].pc \in (C!Moving \ {"revert"}) \cup {"record"}
                  \/ x5[p].pc = "load" /\ x5'[p].pc = "save"
                  \/ x5[p].pc = "save" /\ x5'[p].pc = "saving"
  <1> DEFINE c == x5[p]
  <1>1. /\ x3 \in C!FileType /\ x4 \in C!FileType /\ x7 \in [C!Vars -> Nat]
        /\ x5 \in [Processes -> C!Command \cup {C!Ready}] /\ x6 \in Nat
    BY DEF C!CliTyped
  <1>2. c \in C!Command
    <2>1. C!Running(p)
      BY DEF C!ReadsFiles, C!Reverts, C!EmptiesFile, C!WritesFile, C!RemovesServerFile, C!EmptiesServerFile,
             C!WritesServerFile, C!LoadsSettings, C!OpensToSave, C!SavesSettings, C!At
    <2> QED
      BY <1>1, <2>1 DEF C!Running
  <1>3. /\ C!Empty \in C!FileType /\ C!Absent \in C!FileType /\ c.loaded \in C!FileType
        /\ \A layout \in {"old", "new"}, user, server \in Nat : C!File(layout, user, server) \in C!FileType
    BY <1>2 DEF C!Empty, C!Absent, C!File, C!FileType, C!Command
  <1>4. \A pc \in C!Moving \cup {"record", "saving"} :
          [c EXCEPT !.pc = pc] \in C!Command /\ [c EXCEPT !.pc = pc].pc = pc
          /\ [c EXCEPT !.pc = pc] = [c EXCEPT !.pc = pc, !.loaded = c.loaded]
    BY <1>2 DEF C!Command
  <1>5. ASSUME NEW pc \in C!Moving \cup {"record", "save"}, NEW l \in C!FileType,
               x5' = [x5 EXCEPT ![p] = [c EXCEPT !.pc = pc, !.loaded = l]]
        PROVE  /\ x5' \in [Processes -> C!Command \cup {C!Ready}]
               /\ \A q \in Processes \ {p} : x5'[q] = x5[q]
               /\ x5'[p] \in C!Command /\ x5'[p].pc = pc
               /\ x5'[p] = [c EXCEPT !.pc = x5'[p].pc, !.loaded = x5'[p].loaded]
    <2>1. [c EXCEPT !.pc = pc, !.loaded = l] \in C!Command
      BY <1>2 DEF C!Command
    <2>2. [c EXCEPT !.pc = pc, !.loaded = l].pc = pc /\ [c EXCEPT !.pc = pc, !.loaded = l].loaded = l
      BY <1>2 DEF C!Command
    <2>3. x5'[p] = [c EXCEPT !.pc = pc, !.loaded = l]
      BY <1>5, <2>1, CommandSet
    <2> QED
      BY <1>5, <2>1, <2>2, <2>3, CommandSet
  <1>6. {"read", "empty", "write", "remove", "empty_server", "write_server"} \subseteq C!Moving \ {"revert"}
    BY DEF C!Moving
  <1>7. ASSUME NEW pc \in C!Moving \cup {"record", "saving"}, C!Goes(p, pc)
        PROVE  /\ x5' = [x5 EXCEPT ![p] = [c EXCEPT !.pc = pc]]
               /\ x5' \in [Processes -> C!Command \cup {C!Ready}]
               /\ \A q \in Processes \ {p} : x5'[q] = x5[q]
               /\ x5'[p] \in C!Command /\ x5'[p].pc = pc
               /\ x5'[p] = [c EXCEPT !.pc = x5'[p].pc, !.loaded = x5'[p].loaded]
    <2>1. x5' = [x5 EXCEPT ![p] = [c EXCEPT !.pc = pc]]
      BY <1>1, <1>7 DEF C!Goes
    <2>2. x5'[p] = [c EXCEPT !.pc = pc]
      BY <1>4, <2>1, CommandSet
    <2>3. [c EXCEPT !.pc = pc].loaded = c.loaded
      BY <1>2 DEF C!Command
    <2> QED
      <3>1. [c EXCEPT !.pc = pc] \in C!Command /\ [c EXCEPT !.pc = pc].pc = pc
            /\ [c EXCEPT !.pc = pc] = [c EXCEPT !.pc = pc, !.loaded = c.loaded]
        BY <1>4
      <3>2. /\ x5' \in [Processes -> C!Command \cup {C!Ready}]
            /\ \A q \in Processes \ {p} : x5'[q] = x5[q]
        BY <2>1, <3>1, CommandSet
      <3>3. x5'[p].pc = pc /\ x5'[p].loaded = c.loaded
        BY <2>2, <2>3, <3>1
      <3>4. x5'[p] = [c EXCEPT !.pc = x5'[p].pc, !.loaded = x5'[p].loaded]
        BY <2>2, <3>1, <3>3
      <3> QED
        BY <2>1, <2>2, <3>1, <3>2, <3>3, <3>4
  <1>8. C!Ends(p) => /\ x5' \in [Processes -> C!Command \cup {C!Ready}] /\ x5'[p] = C!Ready
                     /\ \A q \in Processes \ {p} : x5'[q] = x5[q]
    BY CommandSet DEF C!Ends
  <1>9. CASE C!ReadsFiles(p)
    <2> DEFINE l == IF C!Going(c) = "up" \/ x3.layout = "old" THEN C!File("new", x3.user, x4.server)
                    ELSE C!File("old", x3.user, x3.server)
               pc == IF IF C!Going(c) = "up" THEN x3.layout = "new" ELSE x3.layout \in {"absent", "empty"}
                     THEN "record" ELSE "empty"
    <2>1. l \in C!FileType
      BY <1>1, <1>3 DEF C!FileType
    <2>2. c.pc \in C!Moving /\ pc \in (C!Moving \ {"revert"}) \cup {"record"}
      BY <1>6, <1>9 DEF C!ReadsFiles, C!At
    <2>3. x5' = [x5 EXCEPT ![p] = [c EXCEPT !.pc = pc, !.loaded = l]]
      <3>1. x5' = [x5 EXCEPT ![p].loaded = l, ![p].pc = pc]
        BY <1>9 DEF C!ReadsFiles
      <3>2. [c EXCEPT !.pc = pc, !.loaded = l] = [[c EXCEPT !.loaded = l] EXCEPT !.pc = pc]
        BY <1>2 DEF C!Command
      <3> HIDE DEF l, pc, c
      <3>3. [x5 EXCEPT ![p].loaded = l, ![p].pc = pc] = [x5 EXCEPT ![p] = [[x5[p] EXCEPT !.loaded = l] EXCEPT !.pc = pc]]
        BY <1>1
      <3> QED
        BY <3>1, <3>2, <3>3 DEF c
    <2> HIDE DEF l, pc
    <2> QED
      BY <1>1, <1>2, <1>5, <1>9, <2>1, <2>2, <2>3 DEF C!ReadsFiles, C!Database, C!Files, C!Log
  <1>10. CASE C!Reverts(p)
    <2> DEFINE l == C!File("old", x3.user, x3.server)
    <2>1. l \in C!FileType
      BY <1>1, <1>3 DEF C!FileType
    <2>2. c.pc \in C!Moving /\ "empty" \in (C!Moving \ {"revert"}) \cup {"record"}
      BY <1>10 DEF C!Reverts, C!At, C!Moving
    <2>3. CASE x5' = [x5 EXCEPT ![p] = C!Ready]
      BY <1>1, <1>2, <1>10, <2>3, CommandSet DEF C!Reverts, C!Database, C!Files, C!Log
    <2>4. CASE x5' = [x5 EXCEPT ![p] = [c EXCEPT !.loaded = l, !.pc = "empty"]]
      <3>1. [c EXCEPT !.loaded = l, !.pc = "empty"] = [c EXCEPT !.pc = "empty", !.loaded = l]
        BY <1>2 DEF C!Command
      <3>2. x1' = x1 /\ x2' = x2 /\ x3' = x3 /\ x4' = x4 /\ x6' = x6 /\ x7' = x7 /\ x8' = x8 /\ x9' = x9
        BY <1>10 DEF C!Reverts, C!Database, C!Files, C!Log
      <3> HIDE DEF l
      <3> QED
        BY <1>1, <1>2, <1>5, <2>1, <2>2, <2>4, <3>1, <3>2
    <2> QED
      BY <1>10, <2>3, <2>4 DEF C!Reverts
  <1>11. CASE C!EmptiesFile(p)
    BY <1>1, <1>2, <1>3, <1>6, <1>7, <1>11 DEF C!EmptiesFile, C!At, C!Database, C!Log
  <1>12. CASE C!WritesFile(p)
    <2>1. x3' \in C!FileType
      BY <1>2, <1>3, <1>12 DEF C!WritesFile, C!Kept, C!FileType
    <2> QED
      BY <1>1, <1>2, <1>6, <1>7, <1>12, <2>1 DEF C!WritesFile, C!At, C!Database, C!Log
  <1>13. CASE C!RemovesServerFile(p)
    BY <1>1, <1>2, <1>3, <1>6, <1>7, <1>8, <1>13 DEF C!RemovesServerFile, C!At, C!Database, C!Log
  <1>14. CASE C!EmptiesServerFile(p)
    BY <1>1, <1>2, <1>3, <1>6, <1>7, <1>14 DEF C!EmptiesServerFile, C!At, C!Database, C!Log
  <1>15. CASE C!WritesServerFile(p)
    <2>1. x4' \in C!FileType
      BY <1>2, <1>3, <1>15 DEF C!WritesServerFile, C!FileType
    <2> QED
      BY <1>1, <1>2, <1>6, <1>7, <1>8, <1>15, <2>1 DEF C!WritesServerFile, C!At, C!Database, C!Log
  <1>16. CASE C!LoadsSettings(p)
    <2> DEFINE l == C!Changed(C!ApplyOverrides(C!Loaded(x3), c), c)
    <2>1. l \in C!FileType
      <3>1. C!Loaded(x3) \in C!FileType
        BY <1>1, <1>3 DEF C!Loaded
      <3>2. C!ApplyOverrides(C!Loaded(x3), c) \in C!FileType
        BY <1>2, <3>1 DEF C!ApplyOverrides, C!FileType, C!Command
      <3> QED
        BY <1>1, <1>2, <3>2, SMTT(30) DEF C!Changed, C!FileType, C!Command, C!Vars
    <2>2. CASE x5' = [x5 EXCEPT ![p] = C!Ready]
      BY <1>1, <1>2, <1>16, <2>2, CommandSet DEF C!LoadsSettings, C!Database, C!Files, C!Log
    <2>3. CASE x5' = [x5 EXCEPT ![p] = [c EXCEPT !.loaded = l, !.pc = "save"]]
      <3>1. [c EXCEPT !.loaded = l, !.pc = "save"] = [c EXCEPT !.pc = "save", !.loaded = l]
        BY <1>2 DEF C!Command
      <3>2. c.pc = "load"
        BY <1>16 DEF C!LoadsSettings, C!At
      <3>3. x1' = x1 /\ x2' = x2 /\ x3' = x3 /\ x4' = x4 /\ x6' = x6 /\ x7' = x7 /\ x8' = x8 /\ x9' = x9
        BY <1>16 DEF C!LoadsSettings, C!Database, C!Files, C!Log
      <3> HIDE DEF l
      <3> QED
        BY <1>1, <1>2, <1>5, <2>1, <2>3, <3>1, <3>2, <3>3
    <2> QED
      BY <1>16, <2>2, <2>3 DEF C!LoadsSettings
  <1>17. CASE C!OpensToSave(p)
    BY <1>1, <1>2, <1>3, <1>7, <1>17 DEF C!OpensToSave, C!At, C!Database, C!Log
  <1>18. CASE C!SavesSettings(p)
    <2>1. c.loaded[c.var] \in Nat
      BY <1>2 DEF C!Command, C!FileType, C!Vars
    <2>2. x7' \in [C!Vars -> Nat]
      BY <1>1, <1>18, <2>1 DEF C!SavesSettings
    <2> QED
      BY <1>1, <1>2, <1>3, <1>8, <1>18, <2>2 DEF C!SavesSettings, C!Database
  <1> QED
    BY <1>9, <1>10, <1>11, <1>12, <1>13, <1>14, <1>15, <1>16, <1>17, <1>18

\* The order of the migrations on record is kept by a step of p that leaves them as
\* they are and p's command in order.
LEMMA OrderKept ==
  ASSUME C!CliTyped, C!OrderInv, NEW p \in Processes, x1' = x1,
         \A q \in Processes \ {p} : x5'[q] = x5[q],
         \/ x5'[p] = C!Ready
         \/ x5[p] \in C!Command /\ x5'[p].cmd = x5[p].cmd /\ C!Applies(x5[p])'
  PROVE  C!OrderInv'
  <1>1. C!Closed(x1)'
    BY DEF C!OrderInv, C!Closed
  <1>2. C!Running(p)' => C!Running(p) /\ C!Applies(x5[p])' /\ x5'[p].cmd = x5[p].cmd
    BY CommandOrReady DEF C!Running, C!Applies
  <1>3. \A q \in Processes \ {p} : C!Running(q)' = C!Running(q) /\ (C!Applies(x5[q]) => C!Applies(x5[q])')
    BY DEF C!Running, C!Applies
  <1> QED
    BY <1>1, <1>2, <1>3 DEF C!OrderInv

\* So is what is in effect, by a step of p that begins and ends no statement.
LEMMA SchemaKept ==
  ASSUME C!SchemaInv, NEW p \in Processes, x1' = x1, x2' = x2,
         \A q \in Processes \ {p} : x5'[q] = x5[q],
         \A m \in {C!Migrations[i] : i \in C!Number}, n \in 1 .. 2 : C!IsSql(m) =>
           /\ C!Begun(p, m, n)' <=> C!Begun(p, m, n)
           /\ C!Begun(p, m, n) => x5'[p].cmd = x5[p].cmd
  PROVE  C!SchemaInv'
  <1>1. \A q \in Processes, m \in {C!Migrations[i] : i \in C!Number}, n \in 1 .. 2 : C!IsSql(m) =>
          /\ C!Begun(q, m, n)' <=> C!Begun(q, m, n)
          /\ C!Begun(q, m, n) => x5'[q].cmd = x5[q].cmd
    BY DEF C!Begun, C!Running
  <1>2. \A m : 1 .. C!Statements(m) \subseteq 1 .. 2
    BY MigrationFacts
  <1>3. \A m \in {C!Migrations[i] : i \in C!Number}, n \in 1 .. 2 : C!IsSql(m) =>
          (C!InEffect(m, n)' <=> C!InEffect(m, n))
    BY <1>1 DEF C!InEffect
  <1> QED
    BY <1>1, <1>2, <1>3 DEF C!SchemaInv

\* A step on the files disturbs neither.
LEMMA FileStepsKeep ==
  ASSUME C!CliTyped, C!OrderInv, NEW p \in Processes,
         \/ C!ReadsFiles(p) \/ C!Reverts(p) \/ C!EmptiesFile(p) \/ C!WritesFile(p)
         \/ C!RemovesServerFile(p) \/ C!EmptiesServerFile(p) \/ C!WritesServerFile(p)
         \/ C!LoadsSettings(p) \/ C!OpensToSave(p) \/ C!SavesSettings(p)
  PROVE  C!CliTyped' /\ C!OrderInv' /\ (C!SchemaInv => C!SchemaInv')
  <1> DEFINE c == x5[p]
             d == x5'[p]
  <1>1. C!CliTyped'
    BY FileSteps DEF C!CliTyped
  <1>2. C!Running(p) /\ C!Applies(c) /\ c \in C!Command
    BY FileSteps, CommandOrReady DEF C!OrderInv, C!Running
  <1>3. c.pc \notin {"statement", "record"}
    BY DEF C!ReadsFiles, C!Reverts, C!EmptiesFile, C!WritesFile, C!RemovesServerFile, C!EmptiesServerFile,
           C!WritesServerFile, C!LoadsSettings, C!OpensToSave, C!SavesSettings, C!At
  <1>4. d # C!Ready => /\ d.cmd = c.cmd /\ d.m = c.m /\ d.n = c.n /\ d.known = c.known
                       /\ \/ c.pc \in C!Moving /\ d.pc \in (C!Moving \ {"revert"}) \cup {"record"}
                          \/ c.pc = "load" /\ d.pc = "save"
                          \/ c.pc = "save" /\ d.pc = "saving"
    <2>1. \/ d = C!Ready
          \/ /\ d = [c EXCEPT !.pc = d.pc, !.loaded = d.loaded]
             /\ \/ c.pc \in C!Moving /\ d.pc \in (C!Moving \ {"revert"}) \cup {"record"}
                \/ c.pc = "load" /\ d.pc = "save"
                \/ c.pc = "save" /\ d.pc = "saving"
      BY FileSteps, ZenonT(30)
    <2>2. \A pc, l : /\ [c EXCEPT !.pc = pc, !.loaded = l].cmd = c.cmd
                     /\ [c EXCEPT !.pc = pc, !.loaded = l].m = c.m
                     /\ [c EXCEPT !.pc = pc, !.loaded = l].n = c.n
                     /\ [c EXCEPT !.pc = pc, !.loaded = l].known = c.known
      BY <1>2 DEF C!Command
    <2>3. d # C!Ready => /\ d.cmd = [c EXCEPT !.pc = d.pc, !.loaded = d.loaded].cmd
                         /\ d.m = [c EXCEPT !.pc = d.pc, !.loaded = d.loaded].m
                         /\ d.n = [c EXCEPT !.pc = d.pc, !.loaded = d.loaded].n
                         /\ d.known = [c EXCEPT !.pc = d.pc, !.loaded = d.loaded].known
      <3> HIDE DEF d, c
      <3> QED
        BY <2>1, Zenon
    <2> HIDE DEF d, c
    <2> QED
      BY <2>1, <2>2, <2>3
  <1>5. /\ "load" \notin C!Moving /\ "save" \notin C!Moving /\ "saving" \notin C!Moving
        /\ "statement" \notin C!Moving /\ "record" \notin C!Moving
    BY DEF C!Moving
  <1>6. d # C!Ready => C!Applies(x5[p])'
    <2>1. x1' = x1
      BY FileSteps
    <2>2. SUFFICES ASSUME d # C!Ready PROVE C!Applies(x5[p])'
      OBVIOUS
    <2>3. CASE c.pc \in C!Moving
      BY <1>2, <1>4, <1>5, <2>1, <2>2, <2>3 DEF C!Applies
    <2>4. CASE c.pc \in {"load", "save"}
      BY <1>2, <1>4, <1>5, <2>1, <2>2, <2>4 DEF C!Applies
    <2> QED
      BY <1>4, <2>2, <2>3, <2>4
  <1>7. C!OrderInv'
    BY <1>2, <1>4, <1>6, FileSteps, OrderKept
  <1>8. \A m \in {C!Migrations[i] : i \in C!Number}, n \in 1 .. 2 : C!IsSql(m) =>
          ~ C!Begun(p, m, n) /\ ~ C!Begun(p, m, n)'
    BY <1>2, <1>3, <1>4, <1>5 DEF C!Begun, C!Running, C!Applies
  <1>9. C!SchemaInv => C!SchemaInv'
    BY <1>8, FileSteps, SchemaKept
  <1> QED
    BY <1>1, <1>7, <1>9

\* The lowest and the highest of a set of migrations.
LEMMA LowestHighest ==
  ASSUME NEW S \in SUBSET (1 .. 3), S # {}
  PROVE  /\ C!Lowest(S) \in S /\ \A j \in S : C!Lowest(S) <= j
         /\ C!Highest(S) \in S /\ \A j \in S : C!Highest(S) >= j
  <1>1. S \subseteq {1, 2, 3}
    OBVIOUS
  <1>2. \E i \in S : \A j \in S : i <= j
    <2>1. CASE 1 \in S
      BY <1>1, <2>1
    <2>2. CASE 1 \notin S /\ 2 \in S
      BY <1>1, <2>2
    <2>3. CASE 1 \notin S /\ 2 \notin S
      <3>1. S = {3}
        BY <1>1, <2>3
      <3> QED
        BY <3>1
    <2> QED
      BY <2>1, <2>2, <2>3
  <1>3. \E i \in S : \A j \in S : i >= j
    <2>1. CASE 3 \in S
      BY <1>1, <2>1
    <2>2. CASE 3 \notin S /\ 2 \in S
      BY <1>1, <2>2
    <2>3. CASE 3 \notin S /\ 2 \notin S
      <3>1. S = {1}
        BY <1>1, <2>3
      <3> QED
        BY <3>1
    <2> QED
      BY <2>1, <2>2, <2>3
  <1> QED
    BY <1>2, <1>3 DEF C!Lowest, C!Highest

\* What a command that begins a migration is then.
LEMMA BeginFacts ==
  ASSUME NEW c \in C!Command, NEW i \in C!Number
  PROVE  /\ C!Begin(c, i) \in C!Command
         /\ C!Begin(c, i).cmd = c.cmd /\ C!Begin(c, i).known = c.known /\ C!Begin(c, i).env = c.env
         /\ C!Begin(c, i).m = i /\ C!Begin(c, i).n = 1
         /\ C!Begin(c, i).pc = IF C!IsSql(C!Migrations[i]) THEN "statement" ELSE "read"
  <1>1. i \in 0 .. Len(C!Migrations)
    BY MigrationFacts
  <1> QED
    BY <1>1 DEF C!Begin, C!Command, C!Moving

\* The migration that comes next is the first of those that are not known.
LEMMA NextMigrationFacts ==
  ASSUME NEW c \in C!Command, c.known \subseteq {"jobs", "settings_file", "metrics"}
  PROVE  /\ C!NextMigration(c) \in C!Command
         /\ C!NextMigration(c).cmd = c.cmd /\ C!NextMigration(c).known = c.known
         /\ C!NextMigration(c).env = c.env
         /\ \/ /\ C!NextMigration(c).pc = "load" /\ "settings_file" \in c.known
            \/ /\ C!NextMigration(c).m \in C!Number /\ C!NextMigration(c).n = 1
               /\ C!Migrations[C!NextMigration(c).m] \notin c.known
               /\ \A i \in C!Number : i < C!NextMigration(c).m => C!Migrations[i] \in c.known
               /\ C!NextMigration(c).pc = IF C!IsSql(C!Migrations[C!NextMigration(c).m])
                                           THEN "statement" ELSE "read"
  <1>1. CASE C!Pending(c.known) = {}
    <2>1. "settings_file" \in c.known
      BY <1>1, MigrationFacts DEF C!Pending
    <2>2. C!NextMigration(c) = [c EXCEPT !.pc = "load"]
      BY <1>1 DEF C!NextMigration
    <2> QED
      BY <2>1, <2>2 DEF C!Command
  <1>2. CASE C!Pending(c.known) # {}
    <2> DEFINE i == C!Lowest(C!Pending(c.known))
    <2>1. C!Pending(c.known) \in SUBSET (1 .. 3)
      BY MigrationFacts DEF C!Pending
    <2>2. i \in C!Pending(c.known) /\ \A j \in C!Pending(c.known) : i <= j
      BY <1>2, <2>1, LowestHighest
    <2>3. i \in C!Number /\ C!Migrations[i] \notin c.known
      BY <2>2 DEF C!Pending
    <2>4. \A j \in C!Number : j < i => C!Migrations[j] \in c.known
      <3> SUFFICES ASSUME NEW j \in C!Number, j < i, C!Migrations[j] \notin c.known PROVE FALSE
        OBVIOUS
      <3>1. i <= j
        BY <2>2 DEF C!Pending
      <3>2. i \in 1 .. 3 /\ j \in 1 .. 3
        BY <2>3, MigrationFacts
      <3> QED
        BY <3>1, <3>2
    <2>5. C!NextMigration(c) = C!Begin(c, i)
      BY <1>2 DEF C!NextMigration
    <2> HIDE DEF i
    <2> QED
      BY <2>3, <2>4, <2>5, BeginFacts
  <1> QED
    BY <1>1, <1>2

\* A command that starts has migrated nothing.
LEMMA StartKeeps ==
  ASSUME C!CliTyped, C!OrderInv, NEW p \in Processes, C!Start(p)
  PROVE  C!CliTyped' /\ C!OrderInv' /\ (C!SchemaInv => C!SchemaInv')
  <1>1. /\ x1' = x1 /\ x2' = x2 /\ x3' = x3 /\ x4' = x4 /\ x7' = x7 /\ x9' = x9 /\ x6' = x6 + 1
        /\ ~C!Running(p) /\ \A q \in Processes : C!Running(q) => x5[q].cmd # "down"
    BY DEF C!Start
  <1>2. PICK cmd \in {"set", "delete", "show", "down"}, var \in C!Vars, env \in {"none", "user"} :
          /\ cmd = "down" => \A q \in Processes : ~C!Running(q)
          /\ x5' = [x5 EXCEPT ![p] =
               [cmd |-> cmd, var |-> var, env |-> env, pc |-> "versions", known |-> {},
                m |-> 0, n |-> 1, loaded |-> C!Absent]]
          /\ x8' = (x8 \/ env # "none" \/ \E q \in Processes : C!Running(q))
    BY DEF C!Start
  <1> DEFINE d == [cmd |-> cmd, var |-> var, env |-> env, pc |-> "versions", known |-> {},
                   m |-> 0, n |-> 1, loaded |-> C!Absent]
  <1>3. d \in C!Command
    BY MigrationFacts DEF C!Command, C!Absent, C!File, C!FileType
  <1>4. /\ d.cmd = cmd /\ d.pc = "versions" /\ d.known = {}
        /\ x5' = [x5 EXCEPT ![p] = d]
    BY <1>2
  <1> HIDE DEF d
  <1>5. /\ x5' \in [Processes -> C!Command \cup {C!Ready}]
        /\ x5'[p] = d /\ \A q \in Processes \ {p} : x5'[q] = x5[q]
    BY <1>3, <1>4, CommandSet
  <1>6. C!CliTyped'
    BY <1>1, <1>2, <1>5 DEF C!CliTyped
  <1>7. C!Applies(x5[p])'
    BY <1>4, <1>5 DEF C!Applies, C!Moving
  <1>8. C!OrderInv'
    <2>1. C!Closed(x1)'
      BY <1>1 DEF C!OrderInv, C!Closed
    <2>2. \A q \in Processes \ {p} : C!Running(q)' = C!Running(q) /\ (C!Applies(x5[q]) => C!Applies(x5[q])')
      BY <1>1, <1>5 DEF C!Running, C!Applies
    <2> QED
      BY <1>1, <1>2, <1>4, <1>5, <1>7, <2>1, <2>2 DEF C!OrderInv
  <1>9. C!SchemaInv => C!SchemaInv'
    <2>1. \A m, n : ~C!Begun(p, m, n) /\ ~C!Begun(p, m, n)'
      BY <1>1, <1>4, <1>5 DEF C!Begun
    <2> QED
      BY <1>1, <1>5, <2>1, SchemaKept
  <1> QED
    BY <1>6, <1>8, <1>9

\* A command that ends, or is killed, before it has an effect on the schema.
LEMMA EndKeeps ==
  ASSUME C!CliTyped, C!OrderInv, NEW p \in Processes, C!Ends(p),
         x1' = x1, x2' = x2, x3' = x3, x4' = x4, x6' = x6, x7' = x7,
         x8' \in BOOLEAN, x9' \in BOOLEAN
  PROVE  /\ C!CliTyped' /\ C!OrderInv'
         /\ C!SchemaInv /\ (\A m \in {C!Migrations[i] : i \in C!Number}, n \in 1 .. 2 :
                              C!IsSql(m) => ~C!Begun(p, m, n)) => C!SchemaInv'
  <1>1. /\ x5' \in [Processes -> C!Command \cup {C!Ready}] /\ x5'[p] = C!Ready
        /\ \A q \in Processes \ {p} : x5'[q] = x5[q]
    BY CommandSet DEF C!Ends
  <1>2. C!CliTyped'
    BY <1>1 DEF C!CliTyped
  <1>3. C!OrderInv'
    BY <1>1, OrderKept
  <1>4. \A m, n : ~C!Begun(p, m, n)'
    BY <1>1 DEF C!Begun, C!Running
  <1> QED
    BY <1>1, <1>2, <1>3, <1>4, SchemaKept

\* The versions are read: the command begins its first migration, or has none.
LEMMA ReadsVersionsKeeps ==
  ASSUME C!CliTyped, C!OrderInv, NEW p \in Processes, C!ReadsVersions(p)
  PROVE  C!CliTyped' /\ C!OrderInv' /\ (C!SchemaInv => C!SchemaInv')
  <1> DEFINE c == [x5[p] EXCEPT !.known = x1]
             d == IF c.cmd # "down" THEN C!NextMigration(c)
                  ELSE IF x1 = {} THEN C!Ready
                  ELSE C!Begin(c, C!Highest(C!Number \ C!Pending(x1)))
  <1>1. /\ x1' = x1 /\ x2' = x2 /\ x3' = x3 /\ x4' = x4 /\ x6' = x6 /\ x7' = x7 /\ x8' = x8 /\ x9' = x9
        /\ C!Running(p) /\ x5[p].pc = "versions" /\ x5' = [x5 EXCEPT ![p] = d]
    BY DEF C!ReadsVersions, C!At, C!Database, C!Files, C!Log
  <1>2. x5[p] \in C!Command /\ x1 \subseteq {"jobs", "settings_file", "metrics"}
    BY <1>1, CommandOrReady, MigrationFacts DEF C!Running, C!CliTyped
  <1>3. c \in C!Command /\ c.known = x1 /\ c.cmd = x5[p].cmd
    BY <1>2, MigrationFacts DEF C!Command
  <1> HIDE DEF c
  <1>4. CASE x5[p].cmd # "down"
    <2>1. d = C!NextMigration(c)
      BY <1>3, <1>4
    <2> HIDE DEF d
    <2>2. /\ d \in C!Command /\ d.cmd = x5[p].cmd /\ d.known = x1
          /\ \/ d.pc = "load"
             \/ /\ d.m \in C!Number /\ d.n = 1 /\ C!Migrations[d.m] \notin d.known
                /\ \A i \in C!Number : i < d.m => C!Migrations[i] \in d.known
                /\ d.pc = IF C!IsSql(C!Migrations[d.m]) THEN "statement" ELSE "read"
      BY <1>2, <1>3, <2>1, NextMigrationFacts
    <2>3. /\ x5' \in [Processes -> C!Command \cup {C!Ready}]
          /\ x5'[p] = d /\ \A q \in Processes \ {p} : x5'[q] = x5[q]
      BY <1>1, <2>2, CommandSet
    <2>4. C!Applies(x5[p])'
      <3>1. 1 \in 1 .. C!Statements(C!Migrations[d.m])
        BY MigrationFacts
      <3> QED
        BY <1>1, <1>4, <2>2, <2>3, <3>1 DEF C!Applies, C!Moving
    <2>5. C!CliTyped' /\ C!OrderInv'
      <3>1. C!CliTyped'
        BY <1>1, <2>3 DEF C!CliTyped
      <3> QED
        BY <1>1, <1>2, <2>2, <2>3, <2>4, <3>1, OrderKept
    <2>6. \A m : \A n \in 1 .. 2 : ~C!Begun(p, m, n) /\ ~C!Begun(p, m, n)'
      BY <1>1, <2>2, <2>3 DEF C!Begun
    <2> QED
      BY <1>1, <2>3, <2>5, <2>6, SchemaKept
  <1>5. CASE x5[p].cmd = "down" /\ x1 = {}
    <2>1. C!Ends(p)
      BY <1>1, <1>3, <1>5 DEF C!Ends
    <2>2. \A m, n : ~C!Begun(p, m, n)
      BY <1>1 DEF C!Begun
    <2> QED
      BY <1>1, <2>1, <2>2, EndKeeps DEF C!CliTyped
  <1>6. CASE x5[p].cmd = "down" /\ x1 # {}
    <2> DEFINE i == C!Highest(C!Number \ C!Pending(x1))
    <2>1. C!Number \ C!Pending(x1) \in SUBSET (1 .. 3) /\ C!Number \ C!Pending(x1) # {}
      <3>1. C!Number \ C!Pending(x1) = {j \in 1 .. 3 : C!Migrations[j] \in x1}
        BY MigrationFacts DEF C!Pending
      <3>2. \E j \in 1 .. 3 : C!Migrations[j] \in x1
        <4>1. 1 \in 1 .. 3 /\ 2 \in 1 .. 3 /\ 3 \in 1 .. 3
          OBVIOUS
        <4>2. "jobs" \in x1 \/ "settings_file" \in x1 \/ "metrics" \in x1
          BY <1>2, <1>6
        <4>3. /\ C!Migrations[1] = "jobs" /\ C!Migrations[2] = "settings_file"
              /\ C!Migrations[3] = "metrics"
          BY MigrationFacts
        <4> QED
          BY <4>1, <4>2, <4>3
      <3> QED
        BY <3>1, <3>2
    <2>2. i \in C!Number \ C!Pending(x1) /\ \A j \in C!Number \ C!Pending(x1) : i >= j
      BY <2>1, LowestHighest
    <2>3. /\ i \in C!Number /\ C!Migrations[i] \in x1
          /\ \A j \in C!Number : i < j => C!Migrations[j] \notin x1
      BY <2>2, MigrationFacts DEF C!Pending
    <2>4. d = C!Begin(c, i)
      BY <1>3, <1>6
    <2> HIDE DEF i, d
    <2>5. /\ d \in C!Command /\ d.cmd = "down" /\ d.m = i /\ d.n = 1
          /\ d.pc = IF C!IsSql(C!Migrations[i]) THEN "statement" ELSE "read"
      BY <1>3, <1>6, <2>3, <2>4, BeginFacts
    <2>6. /\ x5' \in [Processes -> C!Command \cup {C!Ready}]
          /\ x5'[p] = d /\ \A q \in Processes \ {p} : x5'[q] = x5[q]
      BY <1>1, <2>5, CommandSet
    <2>7. C!Applies(x5[p])'
      <3>1. 1 \in 1 .. C!Statements(C!Migrations[i])
        BY MigrationFacts
      <3> QED
        BY <1>1, <2>3, <2>5, <2>6, <3>1 DEF C!Applies, C!Moving
    <2>8. C!CliTyped' /\ C!OrderInv'
      <3>1. C!CliTyped'
        BY <1>1, <2>6 DEF C!CliTyped
      <3> QED
        BY <1>1, <1>2, <1>6, <2>5, <2>6, <2>7, <3>1, OrderKept
    <2>9. \A m : \A n \in 1 .. 2 : ~C!Begun(p, m, n) /\ ~C!Begun(p, m, n)'
      BY <1>1, <2>5, <2>6 DEF C!Begun
    <2> QED
      BY <1>1, <2>6, <2>8, <2>9, SchemaKept
  <1> QED
    BY <1>4, <1>5, <1>6

\* A statement takes effect: it is the only one of its kind.
LEMMA RunsStatementKeeps ==
  ASSUME C!CliTyped, C!OrderInv, NEW p \in Processes, C!RunsStatement(p)
  PROVE  C!CliTyped' /\ C!OrderInv' /\ (C!SchemaInv => C!SchemaInv')
  <1> DEFINE c == x5[p]
  <1>1. c \in C!Command /\ C!Applies(c) /\ c.pc = "statement" /\ C!Running(p)
    BY CommandOrReady DEF C!RunsStatement, C!At, C!Running, C!CliTyped, C!OrderInv
  <1>2. PICK m \in {C!Migrations[i] : i \in C!Number}, k \in {1, 2} : m = C!Migrations[c.m] /\ k = c.n
    <2>1. /\ c.m \in C!Number
          /\ c.n \in 1 .. C!Statements(C!Migrations[c.m])
      BY <1>1 DEF C!Applies
    <2>2. c.n \in {1, 2}
      BY <2>1, MigrationFacts
    <2> QED
      BY <2>1, <2>2, Zenon
  <1>3. /\ c.m \in C!Number /\ C!IsSql(m) /\ k \in 1 .. C!Statements(m)
        /\ c.cmd = "down" => /\ m \in x1 /\ \A j \in C!Number : c.m < j => C!Migrations[j] \notin x1
                             /\ \A q \in Processes \ {p} : ~C!Running(q)
        /\ c.cmd # "down" => /\ m \notin c.known /\ c.known \subseteq x1
                             /\ \A i \in C!Number : i < c.m => C!Migrations[i] \in c.known
    BY <1>1, <1>2 DEF C!Applies, C!OrderInv
  <1>4. /\ C!Statements(m) \in {1, 2} /\ k \in Nat /\ k + 1 \in Nat
        /\ x1' = x1 /\ x3' = x3 /\ x4' = x4 /\ x6' = x6 /\ x7' = x7 /\ x8' = x8 /\ x9' = x9
        /\ (<<m, k>> \in x2) = (C!Going(c) = "down")
        /\ x2' = IF C!Going(c) = "up" THEN x2 \cup {<<m, k>>} ELSE x2 \ {<<m, k>>}
    <2>1. C!Statements(m) \in {1, 2} /\ k \in Nat /\ k + 1 \in Nat
      BY MigrationFacts
    <2> QED
      BY <1>2, <2>1 DEF C!RunsStatement, C!At, C!Fits, C!Files, C!Log
  <1> DEFINE d == [c EXCEPT !.n = k + 1,
                            !.pc = IF k = C!Statements(m) THEN "record" ELSE c.pc]
  <1>5. x5' = [x5 EXCEPT ![p] = d]
    <2>1. x5' = [x5 EXCEPT ![p].n = @ + 1, ![p].pc = IF c.n = C!Statements(C!Migrations[c.m]) THEN "record" ELSE @]
      BY DEF C!RunsStatement
    <2>2. x5' = [x5 EXCEPT ![p] = [c EXCEPT !.n = c.n + 1,
                             !.pc = IF c.n = C!Statements(C!Migrations[c.m]) THEN "record" ELSE c.pc]]
      BY <2>1 DEF C!CliTyped
    <2> QED
      BY <1>2, <2>2
  <1>6. /\ d \in C!Command /\ d.cmd = c.cmd /\ d.m = c.m /\ d.n = k + 1 /\ d.known = c.known
        /\ d.pc = IF k = C!Statements(m) THEN "record" ELSE "statement"
    BY <1>1, <1>4 DEF C!Command
  <1> HIDE DEF d
  <1>7. /\ x5' \in [Processes -> C!Command \cup {C!Ready}]
        /\ x5'[p] = d /\ \A q \in Processes \ {p} : x5'[q] = x5[q]
    BY <1>5, <1>6, CommandSet
  <1>8. C!CliTyped'
    <2>1. <<m, k>> \in C!Recorded(m)
      BY <1>3 DEF C!Recorded
    <2>2. <<m, k>> \in UNION {C!Recorded(C!Migrations[i]) : i \in {j \in C!Number : C!IsSql(C!Migrations[j])}}
      BY <1>3, <2>1
    <2> QED
      BY <1>4, <1>7, <2>2 DEF C!CliTyped
  <1>9. C!Applies(x5[p])'
    <2>1. k # C!Statements(m) => k + 1 \in 1 .. C!Statements(m)
      BY <1>3, <1>4
    <2> QED
      BY <1>2, <1>3, <1>4, <1>6, <1>7, <2>1 DEF C!Applies, C!Moving
  <1>10. C!OrderInv'
    BY <1>1, <1>4, <1>6, <1>7, <1>9, OrderKept
  <1>11. ASSUME C!SchemaInv PROVE C!SchemaInv'
    <2>1. \A l, n : /\ \A q \in Processes \ {p} : C!Begun(q, l, n)' <=> C!Begun(q, l, n)
                    /\ l # m => ~C!Begun(p, l, n) /\ ~C!Begun(p, l, n)'
      BY <1>2, <1>6, <1>7 DEF C!Begun, C!Running
    <2>2. \A n \in 1 .. 2 : /\ C!Begun(p, m, n) <=> n < k
                            /\ C!Begun(p, m, n)' <=> n <= k
      <3>1. \A n \in 1 .. 2 : C!Begun(p, m, n) <=> n < k
        BY <1>1, <1>2 DEF C!Begun
      <3>2. d # C!Ready /\ d.pc \in {"statement", "record"}
        BY <1>6, CommandOrReady
      <3>3. \A n \in 1 .. 2 : C!Begun(p, m, n)' <=> n < k + 1
        BY <1>2, <1>6, <1>7, <3>2 DEF C!Begun, C!Running
      <3> QED
        BY <1>4, <3>1, <3>3
    <2>3. C!Going(c) = "down" <=> c.cmd = "down"
      BY DEF C!Going
    <2>4. /\ \A n \in 1 .. C!Statements(m) : <<m, n>> \in x2 <=> C!InEffect(m, n)
          /\ \A q, r \in Processes : C!Begun(q, m, 1) /\ C!Begun(r, m, 1) => q = r
          /\ m \in x1 => \A q \in Processes : C!Begun(q, m, 1) => x5[q].cmd = "down"
      BY <1>3, <1>4, <1>11 DEF C!SchemaInv
    <2>5. ASSUME NEW l \in {C!Migrations[i] : i \in C!Number}, C!IsSql(l), l # m
          PROVE  /\ \A n \in 1 .. C!Statements(l) : <<l, n>> \in x2' <=> C!InEffect(l, n)'
                 /\ \A q, r \in Processes : C!Begun(q, l, 1)' /\ C!Begun(r, l, 1)' => q = r
                 /\ l \in x1' => \A q \in Processes : C!Begun(q, l, 1)' => x5'[q].cmd = "down"
      <3>1. \A q \in Processes : C!Begun(q, l, 1)' <=> C!Begun(q, l, 1)
        BY <2>1, <2>5
      <3>2. \A n \in 1 .. C!Statements(l) : <<l, n>> \in x2' <=> <<l, n>> \in x2
        BY <1>4, <2>5
      <3>3. \A n \in 1 .. C!Statements(l) : C!InEffect(l, n)' <=> C!InEffect(l, n)
        BY <1>4, <1>7, <2>1, <2>5 DEF C!InEffect
      <3>4. /\ \A n \in 1 .. C!Statements(l) : <<l, n>> \in x2 <=> C!InEffect(l, n)
            /\ \A q, r \in Processes : C!Begun(q, l, 1) /\ C!Begun(r, l, 1) => q = r
            /\ l \in x1 => \A q \in Processes : C!Begun(q, l, 1) => x5[q].cmd = "down"
        BY <1>11, <2>5 DEF C!SchemaInv
      <3>5. \A q \in Processes : C!Begun(q, l, 1) => q # p
        BY <2>1, <2>5
      <3> QED
        BY <1>4, <1>7, <3>1, <3>2, <3>3, <3>4, <3>5
    <2>6. CASE c.cmd = "down"
      <3>1. \A q \in Processes \ {p} : \A n : ~C!Begun(q, m, n) /\ ~C!Begun(q, m, n)'
        BY <1>3, <2>1, <2>6 DEF C!Begun
      <3>2. ASSUME NEW n \in 1 .. C!Statements(m) PROVE <<m, n>> \in x2' <=> C!InEffect(m, n)'
        <4>1. n \in 1 .. 2
          BY <1>4
        <4>2. C!InEffect(m, n) <=> ~(n < k)
          BY <1>3, <2>2, <2>6, <3>1, <4>1 DEF C!InEffect
        <4>3. C!InEffect(m, n)' <=> ~(n <= k)
          BY <1>3, <1>4, <1>6, <1>7, <2>2, <2>6, <3>1, <4>1 DEF C!InEffect
        <4>4. <<m, n>> \in x2' <=> <<m, n>> \in x2 /\ n # k
          BY <1>4, <2>3, <2>6 DEF C!Going
        <4> QED
          BY <1>4, <2>4, <4>1, <4>2, <4>3, <4>4
      <3>3. /\ \A q, r \in Processes : C!Begun(q, m, 1)' /\ C!Begun(r, m, 1)' => q = r
            /\ \A q \in Processes : C!Begun(q, m, 1)' => x5'[q].cmd = "down"
        BY <1>6, <1>7, <2>6, <3>1
      <3> QED
        BY <2>5, <3>2, <3>3 DEF C!SchemaInv
    <2>7. CASE c.cmd # "down"
      <3>1. <<m, k>> \notin x2 /\ x2' = x2 \cup {<<m, k>>}
        BY <1>4, <2>3, <2>7 DEF C!Going
      <3>2. \A q \in Processes : C!Running(q) => x5[q].cmd # "down"
        BY <1>1, <2>7 DEF C!OrderInv
      <3>3. m \notin x1
        <4>1. ~C!InEffect(m, k)
          BY <1>3, <2>4, <3>1
        <4> QED
          BY <3>2, <4>1 DEF C!InEffect, C!Begun
      <3>4. \A q \in Processes \ {p} : ~C!Begun(q, m, 1)
        <4>1. CASE k = 1
          <5>1. ~C!InEffect(m, 1)
            BY <1>3, <2>4, <3>1, <4>1
          <5> QED
            BY <3>3, <5>1 DEF C!InEffect
        <4>2. CASE k = 2
          <5>1. C!Begun(p, m, 1)
            BY <2>2, <4>2
          <5> QED
            BY <2>4, <5>1
        <4> QED
          BY <1>4, <4>1, <4>2
      <3>5. ASSUME NEW n \in 1 .. C!Statements(m) PROVE <<m, n>> \in x2' <=> C!InEffect(m, n)'
        <4>1. n \in 1 .. 2
          BY <1>4
        <4>2. <<m, n>> \in x2' <=> <<m, n>> \in x2 \/ n = k
          BY <3>1
        <4>3. C!InEffect(m, n) <=> \E q \in Processes : C!Begun(q, m, n)
          BY <3>3 DEF C!InEffect
        <4>4. C!InEffect(m, n)' <=> \E q \in Processes : C!Begun(q, m, n)'
          BY <1>4, <3>3 DEF C!InEffect
        <4>5. C!Begun(p, m, n)' <=> C!Begun(p, m, n) \/ n = k
          BY <1>4, <2>2, <4>1
        <4>6. \A q \in Processes \ {p} : C!Begun(q, m, n)' <=> C!Begun(q, m, n)
          BY <2>1
        <4> QED
          BY <2>4, <4>2, <4>3, <4>4, <4>5, <4>6
      <3>6. \A q \in Processes \ {p} : ~C!Begun(q, m, 1)'
        BY <2>1, <3>4
      <3>7. \A q, r \in Processes : C!Begun(q, m, 1)' /\ C!Begun(r, m, 1)' => q = r
        BY <3>6
      <3> QED
        BY <1>4, <2>5, <3>3, <3>5, <3>7 DEF C!SchemaInv
    <2> QED
      BY <2>6, <2>7
  <1> QED
    BY <1>8, <1>10, <1>11

\* A statement that fails was the first of its migration, and nothing was done of it.
LEMMA StatementFailsKeeps ==
  ASSUME C!CliTyped, C!OrderInv, NEW p \in Processes, C!StatementFails(p)
  PROVE  C!CliTyped' /\ C!OrderInv' /\ (C!SchemaInv => C!SchemaInv')
  <1> DEFINE c == x5[p]
  <1>1. c \in C!Command /\ C!Applies(c) /\ c.pc = "statement" /\ C!Running(p)
    BY CommandOrReady DEF C!StatementFails, C!At, C!Running, C!CliTyped, C!OrderInv
  <1>2. PICK m \in {C!Migrations[i] : i \in C!Number}, k \in {1, 2} : m = C!Migrations[c.m] /\ k = c.n
    <2>1. /\ c.m \in C!Number
          /\ c.n \in 1 .. C!Statements(C!Migrations[c.m])
      BY <1>1 DEF C!Applies
    <2>2. c.n \in {1, 2}
      BY <2>1, MigrationFacts
    <2> QED
      BY <2>1, <2>2, Zenon
  <1>3. /\ C!IsSql(m) /\ k \in 1 .. C!Statements(m)
        /\ c.cmd = "down" => m \in x1 /\ \A q \in Processes \ {p} : ~C!Running(q)
    BY <1>1, <1>2 DEF C!Applies, C!OrderInv
  <1>4. /\ x1' = x1 /\ x2' = x2 /\ x3' = x3 /\ x4' = x4 /\ x6' = x6 /\ x7' = x7 /\ x8' = x8 /\ x9' = x9
        /\ C!Ends(p) /\ (<<m, k>> \in x2) # (C!Going(c) = "down")
    BY <1>2 DEF C!StatementFails, C!AfterFailure, C!Ends, C!Fits, C!Database, C!Files, C!Log
  <1>5. ASSUME C!SchemaInv
        PROVE  \A l \in {C!Migrations[i] : i \in C!Number}, n \in 1 .. 2 : C!IsSql(l) => ~C!Begun(p, l, n)
    <2>1. /\ <<m, k>> \in x2 <=> C!InEffect(m, k)
          /\ \A q, r \in Processes : C!Begun(q, m, 1) /\ C!Begun(r, m, 1) => q = r
          /\ m \in x1 => \A q \in Processes : C!Begun(q, m, 1) => x5[q].cmd = "down"
      BY <1>3, <1>5 DEF C!SchemaInv
    <2>2. \A l, n : C!Begun(p, l, n) <=> l = m /\ n < k
      BY <1>1, <1>2 DEF C!Begun
    <2>3. c.cmd # "down"
      <3> SUFFICES ASSUME c.cmd = "down" PROVE FALSE
        OBVIOUS
      <3>1. <<m, k>> \notin x2 /\ m \in x1
        BY <1>3, <1>4 DEF C!Going
      <3>2. PICK q \in Processes : C!Begun(q, m, k) /\ x5[q].cmd = "down"
        BY <2>1, <3>1 DEF C!InEffect
      <3>3. q = p
        BY <1>3, <3>2 DEF C!Begun
      <3> QED
        BY <1>2, <2>2, <3>2, <3>3
    <2>4. k = 1
      <3> SUFFICES ASSUME k = 2 PROVE FALSE
        BY <1>2
      <3>1. C!Begun(p, m, 1) /\ <<m, 2>> \in x2
        BY <1>4, <2>2, <2>3 DEF C!Going
      <3>2. m \notin x1
        BY <2>1, <2>3, <3>1
      <3>3. PICK q \in Processes : C!Begun(q, m, 2)
        BY <2>1, <3>1, <3>2 DEF C!InEffect
      <3>4. C!Begun(q, m, 1)
        <4>1. x5[q] \in C!Command
          BY <3>3, CommandOrReady DEF C!Begun, C!Running, C!CliTyped
        <4>2. x5[q].n \in Nat
          BY <4>1 DEF C!Command
        <4> QED
          BY <3>3, <4>2 DEF C!Begun
      <3>5. q = p
        BY <2>1, <3>1, <3>4
      <3> QED
        BY <2>2, <3>3, <3>5
    <2> QED
      BY <2>2, <2>4
  <1>6. x8' \in BOOLEAN /\ x9' \in BOOLEAN
    BY <1>4 DEF C!CliTyped
  <1> QED
    BY <1>4, <1>5, <1>6, EndKeeps

\* The three ends of a migration.
LEMMA RecordsCases ==
  ASSUME C!CliTyped, C!OrderInv, NEW p \in Processes, C!Records(p)
  PROVE  /\ x2' = x2 /\ x3' = x3 /\ x4' = x4 /\ x6' = x6 /\ x7' = x7 /\ x8' = x8 /\ x9' = x9
         /\ x5[p] \in C!Command /\ C!Applies(x5[p]) /\ x5[p].pc = "record" /\ C!Running(p)
         /\ x5[p].cmd = "down" => \A q \in Processes \ {p} : ~C!Running(q)
         /\ \E m \in {C!Migrations[i] : i \in C!Number} :
              /\ m = C!Migrations[x5[p].m] /\ x5[p].m \in C!Number
              /\ \/ /\ x5[p].cmd = "down" /\ x1' = x1 \ {m}
                    /\ C!Ends(p)
                 \/ /\ x5[p].cmd # "down" /\ m \notin x1 /\ x1' = x1 \cup {m}
                    /\ x5' = [x5 EXCEPT ![p] = C!NextMigration([x5[p] EXCEPT !.known = @ \cup {m}])]
                 \/ /\ x5[p].cmd # "down" /\ m \in x1 /\ x1' = x1
                    /\ IF C!IsSql(m) THEN C!Ends(p)
                       ELSE x5' = [x5 EXCEPT ![p] = [x5[p] EXCEPT !.pc = "revert"]]
  <1> DEFINE c == x5[p]
  <1>1. c \in C!Command /\ C!Applies(c) /\ c.pc = "record" /\ C!Running(p)
    BY CommandOrReady DEF C!Records, C!At, C!Running, C!CliTyped, C!OrderInv
  <1>2. c.cmd = "down" => \A q \in Processes \ {p} : ~C!Running(q)
    BY <1>1 DEF C!OrderInv
  <1>3. c.m \in C!Number
    BY <1>1 DEF C!Applies
  <1>4. PICK m \in {C!Migrations[i] : i \in C!Number} : m = C!Migrations[c.m]
    BY <1>3, Zenon
  <1>5. x2' = x2 /\ x3' = x3 /\ x4' = x4 /\ x6' = x6 /\ x7' = x7 /\ x8' = x8 /\ x9' = x9
    BY DEF C!Records, C!Files, C!Log
  <1>6. IF c.cmd = "down"
        THEN x1' = x1 \ {m} /\ x5' = [x5 EXCEPT ![p] = C!Ready]
        ELSE IF m \notin x1
        THEN x1' = x1 \cup {m} /\ x5' = [x5 EXCEPT ![p] = C!NextMigration([c EXCEPT !.known = @ \cup {m}])]
        ELSE x1' = x1 /\ x5' = [x5 EXCEPT ![p] = IF C!IsSql(m) THEN C!Ready ELSE [c EXCEPT !.pc = "revert"]]
    BY <1>4 DEF C!Records, C!Going, C!AfterFailure
  <1>7. \/ /\ c.cmd = "down" /\ x1' = x1 \ {m} /\ C!Ends(p)
        \/ /\ c.cmd # "down" /\ m \notin x1 /\ x1' = x1 \cup {m}
           /\ x5' = [x5 EXCEPT ![p] = C!NextMigration([c EXCEPT !.known = @ \cup {m}])]
        \/ /\ c.cmd # "down" /\ m \in x1 /\ x1' = x1
           /\ IF C!IsSql(m) THEN C!Ends(p)
              ELSE x5' = [x5 EXCEPT ![p] = [c EXCEPT !.pc = "revert"]]
    BY <1>6 DEF C!Ends
  <1> QED
    BY <1>1, <1>2, <1>3, <1>4, <1>5, <1>7

\* A migration taken off the record was the last, and nothing of it is in effect.
LEMMA RecordsDown ==
  ASSUME C!CliTyped, C!OrderInv, NEW p \in Processes, C!Records(p), x5[p].cmd = "down"
  PROVE  C!CliTyped' /\ C!OrderInv' /\ (C!SchemaInv => C!SchemaInv')
  <1> DEFINE c == x5[p]
  <1>1. PICK m \in {C!Migrations[i] : i \in C!Number} :
          m = C!Migrations[c.m] /\ c.m \in C!Number /\ x1' = x1 \ {m} /\ C!Ends(p)
    BY RecordsCases
  <1>2. /\ x5' \in [Processes -> C!Command \cup {C!Ready}] /\ x5'[p] = C!Ready
        /\ \A q \in Processes \ {p} : x5'[q] = x5[q]
    BY <1>1, CommandSet DEF C!Ends
  <1>3. \A q \in Processes : ~C!Running(q)'
    BY <1>2, RecordsCases DEF C!Running
  <1>4. C!CliTyped'
    BY <1>1, <1>2, RecordsCases DEF C!CliTyped
  <1>5. /\ m \in x1 /\ \A j \in C!Number : c.m < j => C!Migrations[j] \notin x1
        /\ C!IsSql(m) => c.n = C!Statements(m) + 1
    BY <1>1, RecordsCases DEF C!Applies
  <1>6. C!OrderInv'
    <2>1. ASSUME NEW i \in C!Number, NEW j \in C!Number, i < j, C!Migrations[j] \in x1'
          PROVE  C!Migrations[i] \in x1'
      <3>1. C!Migrations[i] \in x1
        BY <1>1, <2>1 DEF C!OrderInv, C!Closed
      <3>2. C!Migrations[i] # m
        <4> SUFFICES ASSUME C!Migrations[i] = m PROVE FALSE
          OBVIOUS
        <4>1. i = c.m
          BY <1>1, MigrationFacts
        <4> QED
          BY <1>1, <1>5, <2>1, <4>1
      <3> QED
        BY <1>1, <3>1, <3>2
    <2>2. C!Closed(x1)'
      BY <2>1 DEF C!Closed
    <2> QED
      BY <1>3, <2>2 DEF C!OrderInv
  <1>7. ASSUME C!SchemaInv PROVE C!SchemaInv'
    <2>1. \A q \in Processes : \A l, n : ~C!Begun(q, l, n)'
      BY <1>3 DEF C!Begun
    <2>2. \A q \in Processes \ {p} : \A l, n : ~C!Begun(q, l, n)
      BY RecordsCases DEF C!Begun
    <2>3. \A l, n : C!Begun(p, l, n) <=> l = m /\ n < c.n
      BY <1>1, RecordsCases DEF C!Begun
    <2>4. ASSUME NEW l \in {C!Migrations[i] : i \in C!Number}, C!IsSql(l), NEW n \in 1 .. C!Statements(l)
          PROVE  <<l, n>> \in x2' <=> C!InEffect(l, n)'
      <3>1. <<l, n>> \in x2' <=> C!InEffect(l, n)
        BY <1>7, <2>4, RecordsCases DEF C!SchemaInv
      <3>2. C!InEffect(l, n)' <=> l \in x1 /\ l # m
        BY <1>1, <2>1 DEF C!InEffect
      <3>3. CASE l = m
        <4>1. n < c.n
          BY <1>5, <2>4, <3>3, MigrationFacts
        <4>2. ~C!InEffect(l, n)
          BY <1>5, <2>3, <3>3, <4>1 DEF C!InEffect
        <4> QED
          BY <3>1, <3>2, <3>3, <4>2
      <3>4. CASE l # m
        <4>1. \A q \in Processes : ~C!Begun(q, l, n)
          BY <2>2, <2>3, <3>4
        <4> QED
          BY <3>1, <3>2, <3>4, <4>1 DEF C!InEffect
      <3> QED
        BY <3>3, <3>4
    <2> QED
      BY <2>1, <2>4 DEF C!SchemaInv
  <1> QED
    BY <1>4, <1>6, <1>7

\* A migration put on record is the next one, and all of it is in effect.
LEMMA RecordsUp ==
  ASSUME C!CliTyped, C!OrderInv, NEW p \in Processes, C!Records(p), x5[p].cmd # "down",
         NEW m \in {C!Migrations[i] : i \in C!Number}, m = C!Migrations[x5[p].m],
         m \notin x1, x1' = x1 \cup {m},
         x5' = [x5 EXCEPT ![p] = C!NextMigration([x5[p] EXCEPT !.known = @ \cup {m}])]
  PROVE  C!CliTyped' /\ C!OrderInv' /\ (C!SchemaInv => C!SchemaInv')
  <1> DEFINE c == x5[p]
             done == [c EXCEPT !.known = @ \cup {m}]
             d == C!NextMigration(done)
  <1>1. done \in C!Command /\ done.known = c.known \cup {m} /\ done.cmd = c.cmd
    <2>1. c \in C!Command
      BY RecordsCases, ZenonT(30)
    <2> QED
      BY <2>1 DEF C!Command
  <1>2. /\ c.m \in C!Number /\ c.known \subseteq x1
        /\ \A i \in C!Number : i < c.m => C!Migrations[i] \in c.known
        /\ C!IsSql(m) => c.n = C!Statements(m) + 1
    BY RecordsCases DEF C!Applies
  <1>3. done.known \subseteq {"jobs", "settings_file", "metrics"}
    BY <1>1, MigrationFacts DEF C!Command
  <1> HIDE DEF done
  <1>4. /\ d \in C!Command /\ d.cmd = c.cmd /\ d.known = c.known \cup {m}
        /\ \/ d.pc = "load"
           \/ /\ d.m \in C!Number /\ d.n = 1 /\ C!Migrations[d.m] \notin d.known
              /\ \A i \in C!Number : i < d.m => C!Migrations[i] \in d.known
              /\ d.pc = IF C!IsSql(C!Migrations[d.m]) THEN "statement" ELSE "read"
    BY <1>1, <1>3, NextMigrationFacts
  <1>5. x5' = [x5 EXCEPT ![p] = d]
    BY DEF done
  <1> HIDE DEF d
  <1>6. /\ x5' \in [Processes -> C!Command \cup {C!Ready}]
        /\ x5'[p] = d /\ \A q \in Processes \ {p} : x5'[q] = x5[q]
    BY <1>4, <1>5, CommandSet
  <1>7. C!CliTyped'
    BY <1>6, RecordsCases DEF C!CliTyped
  <1>8. C!Applies(x5[p])'
    <2>1. 1 \in 1 .. C!Statements(C!Migrations[d.m])
      BY MigrationFacts
    <2>2. d.known \subseteq x1'
      BY <1>2, <1>4
    <2> QED
      BY <1>4, <1>6, <2>1, <2>2 DEF C!Applies, C!Moving
  <1>9. \A q \in Processes : C!Running(q) => x5[q].cmd # "down"
    BY RecordsCases DEF C!OrderInv
  <1>10. C!OrderInv'
    <2>1. ASSUME NEW i \in C!Number, NEW j \in C!Number, i < j, C!Migrations[j] \in x1'
          PROVE  C!Migrations[i] \in x1'
      <3>1. CASE C!Migrations[j] \in x1
        BY <2>1, <3>1 DEF C!OrderInv, C!Closed
      <3>2. CASE C!Migrations[j] = m
        <4>1. j = c.m
          BY <1>2, <3>2, MigrationFacts
        <4> QED
          BY <1>2, <2>1, <4>1
      <3> QED
        BY <2>1, <3>1, <3>2
    <2>2. C!Closed(x1)'
      BY <2>1 DEF C!Closed
    <2>3. ASSUME NEW q \in Processes \ {p}, C!Running(q)'
          PROVE  C!Applies(x5[q])' /\ x5'[q].cmd # "down"
      <3>1. C!Running(q) /\ x5'[q] = x5[q]
        BY <1>6, <2>3 DEF C!Running
      <3>2. C!Applies(x5[q]) /\ x5[q].cmd # "down"
        BY <1>9, <3>1 DEF C!OrderInv
      <3> QED
        BY <3>1, <3>2 DEF C!Applies
    <2> QED
      BY <1>4, <1>6, <1>8, <2>2, <2>3 DEF C!OrderInv
  <1>11. ASSUME C!SchemaInv PROVE C!SchemaInv'
    <2>1. \A l, n : \A q \in Processes \ {p} : C!Begun(q, l, n)' <=> C!Begun(q, l, n)
      BY <1>6 DEF C!Begun, C!Running
    <2>2. \A l : \A n \in 1 .. 2 : ~C!Begun(p, l, n)'
      BY <1>4, <1>6 DEF C!Begun
    <2>3. \A l, n : C!Begun(p, l, n) <=> l = m /\ n < c.n
      BY RecordsCases DEF C!Begun
    <2>4. \A q \in Processes : \A l, n : C!Begun(q, l, n)' => x5'[q].cmd # "down"
      <3>1. ASSUME NEW q \in Processes \ {p}, C!Running(q)' PROVE x5'[q].cmd # "down"
        BY <1>6, <1>9, <3>1 DEF C!Running
      <3> QED
        BY <1>4, <1>6, <3>1 DEF C!Begun
    <2>5. ASSUME NEW l \in {C!Migrations[i] : i \in C!Number}, C!IsSql(l)
          PROVE  /\ \A n \in 1 .. C!Statements(l) : <<l, n>> \in x2 <=> C!InEffect(l, n)
                 /\ \A q, r \in Processes : C!Begun(q, l, 1) /\ C!Begun(r, l, 1) => q = r
                 /\ l \in x1 => \A q \in Processes : C!Begun(q, l, 1) => x5[q].cmd = "down"
                 /\ 1 .. C!Statements(l) \subseteq 1 .. 2
      BY <1>11, <2>5, MigrationFacts DEF C!SchemaInv
    <2>6. ASSUME NEW l \in {C!Migrations[i] : i \in C!Number}, C!IsSql(l), l # m
          PROVE  /\ \A n \in 1 .. C!Statements(l) : <<l, n>> \in x2' <=> C!InEffect(l, n)'
                 /\ \A q, r \in Processes : C!Begun(q, l, 1)' /\ C!Begun(r, l, 1)' => q = r
                 /\ l \in x1' => \A q \in Processes : C!Begun(q, l, 1)' => x5'[q].cmd = "down"
      <3>1. \A n \in 1 .. 2 : \A q \in Processes : C!Begun(q, l, n)' <=> C!Begun(q, l, n)
        BY <2>1, <2>2, <2>3, <2>6
      <3>2. l \in x1' <=> l \in x1
        BY <2>6
      <3>3. \A n \in 1 .. 2 : \A q \in Processes : C!Begun(q, l, n) => x5[q].cmd # "down"
        BY <1>9 DEF C!Begun
      <3>4. ASSUME NEW n \in 1 .. 2 PROVE C!InEffect(l, n)' <=> C!InEffect(l, n)
        <4>1. \A q \in Processes : C!Begun(q, l, n)' <=> C!Begun(q, l, n)
          BY <3>1
        <4>2. C!InEffect(l, n)' <=> l \in x1 \/ \E q \in Processes : C!Begun(q, l, n)'
          BY <2>4, <3>2 DEF C!InEffect
        <4>3. C!InEffect(l, n) <=> l \in x1 \/ \E q \in Processes : C!Begun(q, l, n)
          BY <3>3 DEF C!InEffect
        <4> QED
          BY <4>1, <4>2, <4>3
      <3>5. 1 \in 1 .. 2 /\ x2' = x2
        <4>1. x2' = x2
          BY RecordsCases
        <4> QED
          BY <4>1
      <3>6. l \in x1 => \A q \in Processes : ~C!Begun(q, l, 1)
        BY <2>5, <2>6, <3>3, <3>5
      <3> QED
        BY <2>5, <2>6, <3>1, <3>2, <3>4, <3>5, <3>6
    <2>7. ASSUME C!IsSql(m)
          PROVE  /\ \A n \in 1 .. C!Statements(m) : <<m, n>> \in x2' <=> C!InEffect(m, n)'
                 /\ \A q \in Processes : ~C!Begun(q, m, 1)'
      <3>1. ASSUME NEW n \in 1 .. C!Statements(m) PROVE <<m, n>> \in x2' /\ C!InEffect(m, n)'
        <4>1. n < c.n
          BY <1>2, <2>7, <3>1, MigrationFacts
        <4>2. C!Begun(p, m, n)
          BY <2>3, <4>1
        <4>3. C!InEffect(m, n)
          BY <4>2 DEF C!InEffect
        <4>4. <<m, n>> \in x2'
          BY <2>5, <2>7, <4>3, RecordsCases
        <4>5. C!InEffect(m, n)'
          BY <2>4 DEF C!InEffect
        <4> QED
          BY <4>4, <4>5
      <3>2. 1 < c.n /\ 1 \in 1 .. 2
        BY <1>2, <2>7, MigrationFacts
      <3>3. \A q \in Processes : ~C!Begun(q, m, 1)'
        BY <2>1, <2>2, <2>3, <2>5, <2>7, <3>2
      <3> QED
        BY <3>1, <3>3
    <2> QED
      BY <2>6, <2>7 DEF C!SchemaInv
  <1> QED
    BY <1>7, <1>10, <1>11

\* All the ends of a migration together.
LEMMA RecordsKeeps ==
  ASSUME C!CliTyped, C!OrderInv, NEW p \in Processes, C!Records(p)
  PROVE  C!CliTyped' /\ C!OrderInv' /\ (C!SchemaInv => C!SchemaInv')
  <1> DEFINE c == x5[p]
  <1>1. PICK m \in {C!Migrations[i] : i \in C!Number} :
          /\ m = C!Migrations[c.m] /\ c.m \in C!Number
          /\ \/ c.cmd = "down" /\ x1' = x1 \ {m} /\ C!Ends(p)
             \/ /\ c.cmd # "down" /\ m \notin x1 /\ x1' = x1 \cup {m}
                /\ x5' = [x5 EXCEPT ![p] = C!NextMigration([c EXCEPT !.known = @ \cup {m}])]
             \/ /\ c.cmd # "down" /\ m \in x1 /\ x1' = x1
                /\ IF C!IsSql(m) THEN C!Ends(p)
                   ELSE x5' = [x5 EXCEPT ![p] = [c EXCEPT !.pc = "revert"]]
    BY RecordsCases
  <1>2. CASE c.cmd = "down"
    BY <1>2, RecordsDown
  <1>3. CASE c.cmd # "down" /\ m \notin x1
    BY <1>1, <1>3, RecordsUp
  <1>4. CASE c.cmd # "down" /\ m \in x1 /\ C!IsSql(m)
    <2>1. x1' = x1 /\ C!Ends(p)
      BY <1>1, <1>4
    <2>2. x8' \in BOOLEAN /\ x9' \in BOOLEAN
      BY RecordsCases DEF C!CliTyped
    <2>3. C!SchemaInv => \A l \in {C!Migrations[i] : i \in C!Number}, n \in 1 .. 2 :
                           C!IsSql(l) => ~C!Begun(p, l, n)
      <3> SUFFICES ASSUME C!SchemaInv PROVE FALSE
        OBVIOUS
      <3>1. c.n = C!Statements(m) + 1 /\ C!Statements(m) \in {1, 2}
        BY <1>1, <1>4, RecordsCases, MigrationFacts DEF C!Applies
      <3>2. C!Begun(p, m, 1)
        BY <1>1, <3>1, RecordsCases DEF C!Begun
      <3> QED
        BY <1>4, <3>2 DEF C!SchemaInv
    <2> QED
      BY <2>1, <2>2, <2>3, RecordsCases, EndKeeps
  <1>5. CASE c.cmd # "down" /\ m \in x1 /\ ~C!IsSql(m)
    <2> DEFINE d == [c EXCEPT !.pc = "revert"]
    <2>1. x1' = x1 /\ x5' = [x5 EXCEPT ![p] = d]
      BY <1>1, <1>5
    <2>2. /\ d \in C!Command /\ d.cmd = c.cmd /\ d.m = c.m /\ d.known = c.known
          /\ d.pc = "revert"
      BY RecordsCases DEF C!Command, C!Moving
    <2> HIDE DEF d
    <2>3. /\ x5' \in [Processes -> C!Command \cup {C!Ready}]
          /\ x5'[p] = d /\ \A q \in Processes \ {p} : x5'[q] = x5[q]
      BY <2>1, <2>2, CommandSet
    <2>4. C!CliTyped'
      BY <2>1, <2>3, RecordsCases DEF C!CliTyped
    <2>5. C!Applies(x5[p])'
      BY <1>1, <1>5, <2>1, <2>2, <2>3, RecordsCases DEF C!Applies, C!Moving
    <2>6. C!OrderInv'
      BY <2>1, <2>2, <2>3, <2>5, RecordsCases, OrderKept
    <2>7. \A l, n : C!IsSql(l) => ~C!Begun(p, l, n) /\ ~C!Begun(p, l, n)'
      BY <1>1, <1>5, <2>2, <2>3, RecordsCases DEF C!Begun
    <2> QED
      BY <2>1, <2>3, <2>4, <2>6, <2>7, RecordsCases, SchemaKept
  <1> QED
    BY <1>2, <1>3, <1>4, <1>5

\* A command that is killed disturbs the order of nothing.
LEMMA KillKeeps ==
  ASSUME C!CliTyped, C!OrderInv, NEW p \in Processes, C!Kill(p)
  PROVE  C!CliTyped' /\ C!OrderInv' /\ x8' /\ x9'
  <1>1. /\ C!Ends(p) /\ x8' = TRUE /\ x9' = TRUE
        /\ x1' = x1 /\ x2' = x2 /\ x3' = x3 /\ x4' = x4 /\ x6' = x6 /\ x7' = x7
    BY DEF C!Kill, C!Database, C!Files
  <1> QED
    BY <1>1, EndKeeps

\* The command that goes on, or starts, is alone: what it leaves the files with is enough.
LEMMA SettingsStep ==
  ASSUME NEW p \in Processes, \A q \in Processes \ {p} : x5'[q] = x5[q] /\ ~C!Running(q),
         (x5'[p] = C!Ready /\ C!Resting') \/ (x5'[p] \in C!Command /\ C!Holds(x5[p])')
  PROVE  C!SettingsInv'
  <1>1. \A q \in Processes \ {p} : ~C!Running(q)'
    BY DEF C!Running
  <1>2. CASE x5'[p] = C!Ready /\ C!Resting'
    BY <1>1, <1>2 DEF C!SettingsInv, C!Running
  <1>3. CASE x5'[p] \in C!Command /\ C!Holds(x5[p])'
    <2>1. C!Running(p)'
      BY <1>3, CommandOrReady DEF C!Running
    <2> QED
      BY <1>1, <1>3, <2>1 DEF C!SettingsInv
  <1> QED
    BY <1>2, <1>3

\* The steps of the migration of the settings.
LEMMA MovingFacts ==
  /\ "read" \in C!Moving /\ "empty" \in C!Moving /\ "write" \in C!Moving /\ "remove" \in C!Moving
  /\ "empty_server" \in C!Moving /\ "write_server" \in C!Moving /\ "revert" \in C!Moving
  BY DEF C!Moving

\* The settings through a command's start, and through the steps on the database.
LEMMA StartSettles ==
  ASSUME C!CliTyped, C!OrderInv, C!SettingsInv, NEW p \in Processes, C!Start(p), ~x8'
  PROVE  C!SettingsInv'
  <1>1. /\ x1' = x1 /\ x3' = x3 /\ x4' = x4 /\ x7' = x7 /\ ~C!Running(p)
    BY DEF C!Start
  <1>2. PICK cmd \in {"set", "delete", "show", "down"}, var \in C!Vars, env \in {"none", "user"} :
          /\ x5' = [x5 EXCEPT ![p] =
               [cmd |-> cmd, var |-> var, env |-> env, pc |-> "versions", known |-> {},
                m |-> 0, n |-> 1, loaded |-> C!Absent]]
          /\ x8' = (x8 \/ env # "none" \/ \E q \in Processes : C!Running(q))
    BY DEF C!Start
  <1> DEFINE d == [cmd |-> cmd, var |-> var, env |-> env, pc |-> "versions", known |-> {},
                   m |-> 0, n |-> 1, loaded |-> C!Absent]
  <1>3. d \in C!Command
    BY MigrationFacts DEF C!Command, C!Absent, C!File, C!FileType
  <1>4. d.pc = "versions" /\ d.env = env /\ x5' = [x5 EXCEPT ![p] = d]
    BY <1>2
  <1> HIDE DEF d
  <1>5. x5'[p] = d /\ \A q \in Processes \ {p} : x5'[q] = x5[q]
    BY <1>3, <1>4, CommandSet
  <1>6. env = "none" /\ \A q \in Processes : ~C!Running(q)
    BY <1>2
  <1>7. C!Resting /\ C!Resting'
    BY <1>1, <1>6 DEF C!SettingsInv, C!Resting
  <1>8. C!Holds(x5[p])'
    BY <1>4, <1>5, <1>6, <1>7 DEF C!Holds
  <1> QED
    BY <1>3, <1>5, <1>6, <1>8, SettingsStep

\* With nothing disturbed, who runs is alone.
LEMMA Alone ==
  ASSUME C!CliTyped, C!OrderInv, C!SettingsInv, NEW p \in Processes, C!Running(p)
  PROVE  /\ \A q \in Processes \ {p} : ~C!Running(q)
         /\ C!Holds(x5[p]) /\ x5[p] \in C!Command /\ C!Applies(x5[p])
  BY CommandOrReady DEF C!SettingsInv, C!OrderInv, C!CliTyped, C!Running

\* The settings rest while the versions are read.
LEMMA ReadsVersionsSettles ==
  ASSUME C!CliTyped, C!OrderInv, C!SettingsInv, NEW p \in Processes, C!ReadsVersions(p)
  PROVE  C!SettingsInv'
  <1> DEFINE c == [x5[p] EXCEPT !.known = x1]
             d == IF c.cmd # "down" THEN C!NextMigration(c)
                  ELSE IF x1 = {} THEN C!Ready
                  ELSE C!Begin(c, C!Highest(C!Number \ C!Pending(x1)))
  <1>1. /\ x1' = x1 /\ x2' = x2 /\ x3' = x3 /\ x4' = x4 /\ x6' = x6 /\ x7' = x7 /\ x8' = x8 /\ x9' = x9
        /\ C!Running(p) /\ x5[p].pc = "versions" /\ x5' = [x5 EXCEPT ![p] = d]
    BY DEF C!ReadsVersions, C!At, C!Database, C!Files, C!Log
  <1>2. /\ \A q \in Processes \ {p} : ~C!Running(q)
        /\ C!Holds(x5[p]) /\ x5[p] \in C!Command
    BY <1>1, Alone
  <1>3. /\ x1 \subseteq {"jobs", "settings_file", "metrics"} /\ x5[p].env = "none"
        /\ C!Resting'
    BY <1>1, <1>2, MigrationFacts DEF C!CliTyped, C!Holds, C!Resting
  <1>4. c \in C!Command /\ c.known = x1 /\ c.cmd = x5[p].cmd /\ c.env = "none"
    BY <1>2, <1>3, MigrationFacts DEF C!Command
  <1> HIDE DEF c
  <1>5. CASE x5[p].cmd # "down"
    <2>1. d = C!NextMigration(c)
      BY <1>4, <1>5
    <2>2. /\ d \in C!Command /\ d.known = x1 /\ d.env = "none"
          /\ (d.pc = "load" /\ "settings_file" \in x1) \/ d.pc \in {"statement", "read"}
      <3>1. c.known \subseteq {"jobs", "settings_file", "metrics"}
        BY <1>3, <1>4
      <3>2. /\ d \in C!Command /\ d.known = c.known /\ d.env = c.env
            /\ \/ d.pc = "load" /\ "settings_file" \in c.known
               \/ d.pc = IF C!IsSql(C!Migrations[d.m]) THEN "statement" ELSE "read"
        BY <1>4, <2>1, <3>1, NextMigrationFacts, ZenonT(30)
      <3> QED
        BY <1>4, <3>2
    <2> HIDE DEF d
    <2>3. x5'[p] = d /\ \A q \in Processes \ {p} : x5'[q] = x5[q]
      BY <1>1, <2>2, CommandSet
    <2>4. C!Holds(x5[p])'
      BY <1>1, <1>3, <2>2, <2>3 DEF C!Holds
    <2> QED
      BY <1>2, <2>2, <2>3, <2>4, SettingsStep
  <1>6. CASE x5[p].cmd = "down" /\ x1 = {}
    <2>1. d = C!Ready
      BY <1>4, <1>6
    <2>2. x5'[p] = C!Ready /\ \A q \in Processes \ {p} : x5'[q] = x5[q]
      BY <1>1, <2>1, CommandSet
    <2> QED
      BY <1>2, <1>3, <2>2, SettingsStep
  <1>7. CASE x5[p].cmd = "down" /\ x1 # {}
    <2> DEFINE i == C!Highest(C!Number \ C!Pending(x1))
    <2>1. C!Number \ C!Pending(x1) \in SUBSET (1 .. 3) /\ C!Number \ C!Pending(x1) # {}
      <3>1. C!Number \ C!Pending(x1) = {j \in 1 .. 3 : C!Migrations[j] \in x1}
        BY MigrationFacts DEF C!Pending
      <3>2. \E j \in 1 .. 3 : C!Migrations[j] \in x1
        <4>1. 1 \in 1 .. 3 /\ 2 \in 1 .. 3 /\ 3 \in 1 .. 3
          OBVIOUS
        <4>2. "jobs" \in x1 \/ "settings_file" \in x1 \/ "metrics" \in x1
          BY <1>3, <1>7
        <4>3. /\ C!Migrations[1] = "jobs" /\ C!Migrations[2] = "settings_file"
              /\ C!Migrations[3] = "metrics"
          BY MigrationFacts
        <4> QED
          BY <4>1, <4>2, <4>3
      <3> QED
        BY <3>1, <3>2
    <2>2. i \in C!Number
      BY <2>1, LowestHighest
    <2>3. d = C!Begin(c, i)
      BY <1>4, <1>7
    <2> HIDE DEF i, d
    <2>4. d \in C!Command /\ d.cmd = "down" /\ d.env = "none" /\ d.pc \in {"statement", "read"}
      BY <1>4, <1>7, <2>2, <2>3, BeginFacts
    <2>5. x5'[p] = d /\ \A q \in Processes \ {p} : x5'[q] = x5[q]
      BY <1>1, <2>4, CommandSet
    <2>6. C!Holds(x5[p])'
      BY <1>1, <1>3, <2>4, <2>5 DEF C!Holds
    <2> QED
      BY <1>2, <2>4, <2>5, <2>6, SettingsStep
  <1> QED
    BY <1>5, <1>6, <1>7

\* Nor does a statement touch them.
LEMMA StatementsSettle ==
  ASSUME C!CliTyped, C!OrderInv, C!SettingsInv, NEW p \in Processes,
         C!RunsStatement(p) \/ C!StatementFails(p)
  PROVE  C!SettingsInv'
  <1> DEFINE c == x5[p]
  <1>1. C!Running(p) /\ c.pc = "statement"
    BY DEF C!RunsStatement, C!StatementFails, C!At
  <1>2. /\ \A q \in Processes \ {p} : ~C!Running(q)
        /\ C!Holds(c) /\ c \in C!Command /\ C!Applies(c)
    BY <1>1, Alone
  <1>3. /\ C!Resting /\ c.env = "none" /\ (c.cmd # "down" => c.known = x1)
        /\ C!IsSql(C!Migrations[c.m]) /\ c.n \in 1 .. C!Statements(C!Migrations[c.m])
    BY <1>1, <1>2 DEF C!Holds, C!Applies
  <1>4. x1' = x1 /\ x3' = x3 /\ x4' = x4 /\ x7' = x7
    BY DEF C!RunsStatement, C!StatementFails, C!Database, C!Files, C!Log
  <1>5. C!Resting'
    BY <1>3, <1>4 DEF C!Resting
  <1>6. CASE C!StatementFails(p)
    <2>1. C!Ends(p)
      BY <1>6 DEF C!StatementFails, C!AfterFailure, C!Ends
    <2>2. x5'[p] = C!Ready /\ \A q \in Processes \ {p} : x5'[q] = x5[q]
      BY <2>1, CommandSet DEF C!Ends
    <2> QED
      BY <1>2, <1>5, <2>2, SettingsStep
  <1>7. CASE C!RunsStatement(p)
    <2> DEFINE d == [c EXCEPT !.n = c.n + 1,
                       !.pc = IF c.n = C!Statements(C!Migrations[c.m]) THEN "record" ELSE c.pc]
    <2>1. x5' = [x5 EXCEPT ![p].n = @ + 1, ![p].pc = IF c.n = C!Statements(C!Migrations[c.m]) THEN "record" ELSE @]
      BY <1>7 DEF C!RunsStatement
    <2>2. x5' = [x5 EXCEPT ![p] = d]
      BY <2>1 DEF C!CliTyped
    <2>3. c.n + 1 \in Nat
      BY <1>2 DEF C!Command
    <2>4. /\ d \in C!Command /\ d.cmd = c.cmd /\ d.m = c.m /\ d.known = c.known /\ d.env = c.env
          /\ d.pc \in {"record", "statement"}
      BY <1>1, <1>2, <2>3 DEF C!Command
    <2> HIDE DEF d
    <2>5. x5'[p] = d /\ \A q \in Processes \ {p} : x5'[q] = x5[q]
      BY <2>2, <2>4, CommandSet
    <2>6. C!Holds(x5[p])'
      BY <1>3, <1>4, <1>5, <2>4, <2>5 DEF C!Holds
    <2> QED
      BY <1>2, <2>4, <2>5, <2>6, SettingsStep
  <1> QED
    BY <1>6, <1>7

\* The migration of the settings is on record when the files have the new layout, and off
\* it when they have the old.
LEMMA RecordsSettle ==
  ASSUME C!CliTyped, C!OrderInv, C!SettingsInv, NEW p \in Processes, C!Records(p)
  PROVE  C!SettingsInv'
  <1> DEFINE c == x5[p]
  <1>1. PICK m \in {C!Migrations[i] : i \in C!Number} :
          /\ m = C!Migrations[c.m] /\ c.m \in C!Number
          /\ \/ c.cmd = "down" /\ x1' = x1 \ {m} /\ C!Ends(p)
             \/ /\ c.cmd # "down" /\ m \notin x1 /\ x1' = x1 \cup {m}
                /\ x5' = [x5 EXCEPT ![p] = C!NextMigration([c EXCEPT !.known = @ \cup {m}])]
             \/ c.cmd # "down" /\ m \in x1
    BY RecordsCases
  <1>2. /\ \A q \in Processes \ {p} : ~C!Running(q)
        /\ C!Holds(c) /\ c \in C!Command /\ C!Applies(c) /\ c.pc = "record"
    BY Alone, RecordsCases
  <1>3. /\ c.env = "none" /\ (c.cmd # "down" => c.known = x1)
        /\ C!IsSql(m) => C!Resting
        /\ ~C!IsSql(m) => IF C!Going(c) = "up" THEN x3 = C!Wanted("new")
                          ELSE x3 = C!Kept(C!Wanted("old")) /\ x4 = C!File("old", 0, x7.server)
        /\ c.cmd # "down" => m \notin c.known
    BY <1>1, <1>2 DEF C!Holds, C!Applies
  <1>4. x3' = x3 /\ x4' = x4 /\ x7' = x7
    BY RecordsCases
  <1>5. C!IsSql(m) <=> m # "settings_file"
    BY MigrationFacts
  <1>6. CASE c.cmd = "down"
    <2>1. x5'[p] = C!Ready /\ \A q \in Processes \ {p} : x5'[q] = x5[q]
      BY <1>1, <1>6, CommandSet DEF C!Ends
    <2>2. x1' = x1 \ {m}
      BY <1>1, <1>6
    <2>3. CASE C!IsSql(m)
      BY <1>2, <1>3, <1>4, <1>5, <2>1, <2>2, <2>3, SettingsStep DEF C!Resting
    <2>4. CASE ~C!IsSql(m)
      <3>1. x3 = C!Kept(C!Wanted("old")) /\ x4 = C!File("old", 0, x7.server)
        BY <1>3, <1>6, <2>4 DEF C!Going
      <3>2. x3.layout = "old" /\ x3.user = x7.user /\ x4.server = x7.server
        BY <3>1 DEF C!Kept, C!Wanted, C!File
      <3>3. C!Resting'
        BY <1>4, <1>5, <2>2, <2>4, <3>2 DEF C!Resting
      <3> QED
        BY <1>2, <2>1, <3>3, SettingsStep
    <2> QED
      BY <2>3, <2>4
  <1>7. CASE c.cmd # "down"
    <2> DEFINE done == [c EXCEPT !.known = @ \cup {m}]
               d == C!NextMigration(done)
    <2>1. m \notin x1 /\ x1' = x1 \cup {m} /\ x5' = [x5 EXCEPT ![p] = d]
      BY <1>1, <1>3, <1>7
    <2>2. done \in C!Command /\ done.known = x1' /\ done.env = "none"
      BY <1>2, <1>3, <1>7, <2>1 DEF C!Command
    <2>3. done.known \subseteq {"jobs", "settings_file", "metrics"}
      BY <2>2, MigrationFacts DEF C!Command
    <2> HIDE DEF done
    <2>4. /\ d \in C!Command /\ d.known = x1' /\ d.env = "none"
          /\ (d.pc = "load" /\ "settings_file" \in x1') \/ d.pc \in {"statement", "read"}
      BY <2>2, <2>3, NextMigrationFacts
    <2> HIDE DEF d
    <2>5. x5'[p] = d /\ \A q \in Processes \ {p} : x5'[q] = x5[q]
      BY <2>1, <2>4, CommandSet
    <2>6. C!Resting'
      <3>1. CASE C!IsSql(m)
        BY <1>3, <1>4, <1>5, <2>1, <3>1 DEF C!Resting
      <3>2. CASE ~C!IsSql(m)
        <4>1. x3 = C!Wanted("new")
          BY <1>3, <1>7, <3>2 DEF C!Going
        <4>2. x3.layout = "new" /\ x3.user = x7.user /\ x3.server = x7.server
          BY <4>1 DEF C!Wanted, C!File
        <4> QED
          BY <1>4, <1>5, <2>1, <3>2, <4>2 DEF C!Resting
      <3> QED
        BY <3>1, <3>2
    <2>7. C!Holds(x5[p])'
      BY <2>4, <2>5, <2>6 DEF C!Holds
    <2> QED
      BY <1>2, <2>4, <2>5, <2>7, SettingsStep
  <1> QED
    BY <1>6, <1>7

\* What a step on the files leaves of the command when it is alone.
LEMMA FileStepsAlone ==
  ASSUME C!CliTyped, C!OrderInv, C!SettingsInv, NEW p \in Processes,
         \/ C!ReadsFiles(p) \/ C!Reverts(p) \/ C!EmptiesFile(p) \/ C!WritesFile(p)
         \/ C!RemovesServerFile(p) \/ C!EmptiesServerFile(p) \/ C!WritesServerFile(p)
         \/ C!LoadsSettings(p) \/ C!OpensToSave(p) \/ C!SavesSettings(p)
  PROVE  /\ \A q \in Processes \ {p} : x5'[q] = x5[q] /\ ~C!Running(q)
         /\ x5[p] \in C!Command /\ C!Holds(x5[p]) /\ C!Applies(x5[p]) /\ x1' = x1
         /\ x5'[p] # C!Ready =>
              /\ x5'[p] \in C!Command /\ x5'[p].cmd = x5[p].cmd /\ x5'[p].m = x5[p].m
              /\ x5'[p].var = x5[p].var /\ x5'[p].env = "none"
              /\ x5[p].cmd # "down" => x5'[p].known = x1
         /\ x5[p].pc \in C!Moving => C!Migrations[x5[p].m] = "settings_file" /\ x5[p].m \in C!Number
         /\ x5[p].pc # "versions"
  <1> DEFINE c == x5[p]
  <1>1. C!Running(p) /\ c.pc # "versions"
    BY DEF C!ReadsFiles, C!Reverts, C!EmptiesFile, C!WritesFile, C!RemovesServerFile, C!EmptiesServerFile,
           C!WritesServerFile, C!LoadsSettings, C!OpensToSave, C!SavesSettings, C!At
  <1>2. /\ \A q \in Processes \ {p} : ~C!Running(q)
        /\ C!Holds(c) /\ c \in C!Command /\ C!Applies(c)
    BY <1>1, Alone
  <1>3. /\ x1' = x1 /\ \A q \in Processes \ {p} : x5'[q] = x5[q]
        /\ x5'[p] # C!Ready => /\ x5'[p] \in C!Command
                               /\ x5'[p] = [c EXCEPT !.pc = x5'[p].pc, !.loaded = x5'[p].loaded]
    <2>1. /\ x1' = x1 /\ \A q \in Processes \ {p} : x5'[q] = x5[q]
          /\ \/ x5'[p] = C!Ready
             \/ /\ x5'[p] \in C!Command
                /\ x5'[p] = [c EXCEPT !.pc = x5'[p].pc, !.loaded = x5'[p].loaded]
      BY FileSteps, Zenon
    <2> QED
      BY <2>1, Zenon
  <1>4. c.env = "none" /\ (c.cmd # "down" => c.known = x1)
    BY <1>1, <1>2 DEF C!Holds
  <1>5. c.pc \in C!Moving => C!Migrations[c.m] = "settings_file" /\ c.m \in C!Number
    BY <1>2, MigrationFacts DEF C!Applies
  <1>6. x5'[p] # C!Ready =>
              /\ x5'[p].cmd = c.cmd /\ x5'[p].m = c.m /\ x5'[p].var = c.var /\ x5'[p].env = c.env
              /\ x5'[p].known = c.known
    BY <1>2, <1>3 DEF C!Command
  <1> QED
    BY <1>1, <1>2, <1>3, <1>4, <1>5, <1>6

\* The migration of the files, and the change of the settings, when nothing overlaps.
LEMMA FilesSettle ==
  ASSUME C!CliTyped, C!OrderInv, C!SettingsInv, NEW p \in Processes,
         \/ C!ReadsFiles(p) \/ C!Reverts(p) \/ C!EmptiesFile(p) \/ C!WritesFile(p)
         \/ C!RemovesServerFile(p) \/ C!EmptiesServerFile(p) \/ C!WritesServerFile(p)
  PROVE  C!SettingsInv'
  <1> DEFINE c == x5[p]
             d == x5'[p]
  <1>1. /\ \A q \in Processes \ {p} : x5'[q] = x5[q] /\ ~C!Running(q)
        /\ c \in C!Command /\ C!Holds(c) /\ C!Applies(c) /\ x1' = x1
        /\ d # C!Ready => /\ d \in C!Command /\ d.cmd = c.cmd /\ d.m = c.m /\ d.env = "none"
                          /\ c.cmd # "down" => d.known = x1
        /\ c.pc \in C!Moving => C!Migrations[c.m] = "settings_file" /\ c.m \in C!Number
    BY FileStepsAlone
  <1>2. ~C!IsSql("settings_file")
    BY MigrationFacts
  <1>3. ASSUME NEW pc, C!Goes(p, pc)
        PROVE  d = [c EXCEPT !.pc = pc] /\ d # C!Ready /\ d.pc = pc /\ d.loaded = c.loaded
    <2>1. d = [c EXCEPT !.pc = pc]
      BY <1>3 DEF C!Goes, C!CliTyped
    <2>2. d.cmd = c.cmd /\ d.pc = pc /\ d.loaded = c.loaded
      BY <1>1, <2>1 DEF C!Command
    <2>3. c.cmd # "none" /\ C!Ready.cmd = "none"
      BY <1>1 DEF C!Command, C!Ready
    <2> QED
      BY <2>1, <2>2, <2>3
  <1>4. C!Going(c) \in {"up", "down"} /\ (C!Going(c) = "down" <=> c.cmd = "down")
    BY DEF C!Going
  <1>5. /\ C!Wanted("new").layout = "new" /\ C!Wanted("old").layout = "old"
        /\ C!Wanted("old").server = x7.server
        /\ C!Kept(C!Wanted("new")) = C!Wanted("new")
    BY DEF C!Kept, C!Wanted, C!File
  <1>6. x7' = x7 => \A l : C!Wanted(l)' = C!Wanted(l)
    BY DEF C!Wanted
  <1>7. CASE C!ReadsFiles(p)
    <2>1. c.pc = "read" /\ x3' = x3 /\ x4' = x4 /\ x7' = x7
      BY <1>7 DEF C!ReadsFiles, C!At, C!Files, C!Log
    <2>2. C!Resting /\ C!Migrations[c.m] = "settings_file"
      BY <1>1, <2>1, MovingFacts DEF C!Holds
    <2>3. x3.layout = IF C!Going(c) = "up" THEN "old" ELSE "new"
      BY <1>1, <1>4, <2>1, <2>2, MovingFacts DEF C!Applies, C!Holds, C!Resting
    <2> DEFINE l == C!Wanted(IF C!Going(c) = "up" THEN "new" ELSE "old")
    <2>4. l = IF C!Going(c) = "up" \/ x3.layout = "old" THEN C!File("new", x3.user, x4.server)
              ELSE C!File("old", x3.user, x3.server)
      BY <1>4, <2>2, <2>3 DEF C!Resting, C!Wanted
    <2>5. ~ IF C!Going(c) = "up" THEN x3.layout = "new" ELSE x3.layout \in {"absent", "empty"}
      BY <1>4, <2>3
    <2>6. x5' = [x5 EXCEPT ![p].loaded = l, ![p].pc = "empty"]
      <3>1. x5' = [x5 EXCEPT
              ![p].loaded = IF C!Going(c) = "up" \/ x3.layout = "old" THEN C!File("new", x3.user, x4.server)
                            ELSE C!File("old", x3.user, x3.server),
              ![p].pc = IF IF C!Going(c) = "up" THEN x3.layout = "new" ELSE x3.layout \in {"absent", "empty"}
                        THEN "record" ELSE "empty"]
        BY <1>7 DEF C!ReadsFiles
      <3> QED
        BY <2>4, <2>5, <3>1
    <2> HIDE DEF l
    <2>7. d = [[c EXCEPT !.loaded = l] EXCEPT !.pc = "empty"]
      BY <2>6 DEF C!CliTyped
    <2>8. d.loaded = l /\ d.pc = "empty" /\ d.cmd = c.cmd
      BY <1>1, <2>7 DEF C!Command
    <2>9. d # C!Ready
      <3>1. c.cmd # "none" /\ C!Ready.cmd = "none"
        BY <1>1 DEF C!Command, C!Ready
      <3> QED
        BY <2>8, <3>1
    <2>10. C!Going(d) = C!Going(c)
      BY <2>8 DEF C!Going
    <2>11. C!Holds(x5[p])'
      <3>1. d.loaded = C!File(IF C!Going(d) = "up" THEN "new" ELSE "old", x7'.user, x7'.server)
        BY <2>1, <2>8, <2>10 DEF l, C!Wanted
      <3> QED
        BY <1>1, <2>8, <2>9, <3>1 DEF C!Holds, C!Wanted
    <2> QED
      BY <1>1, <2>9, <2>11, SettingsStep
  <1>8. CASE C!Reverts(p)
    BY <1>1, <1>8 DEF C!Reverts, C!At, C!Holds
  <1>9. CASE C!EmptiesFile(p)
    <2>1. c.pc = "empty" /\ C!Goes(p, "write") /\ x4' = x4 /\ x7' = x7
      BY <1>9 DEF C!EmptiesFile, C!At, C!Log
    <2>2. d # C!Ready /\ d.pc = "write" /\ d.loaded = c.loaded /\ C!Going(d) = C!Going(c)
      BY <1>1, <1>3, <2>1 DEF C!Going
    <2>3. c.loaded = C!Wanted(IF C!Going(c) = "up" THEN "new" ELSE "old")
      BY <1>1, <2>1 DEF C!Holds
    <2>4. d.loaded = C!File(IF C!Going(d) = "up" THEN "new" ELSE "old", x7'.user, x7'.server)
      BY <2>1, <2>2, <2>3 DEF C!Wanted
    <2>5. C!Holds(x5[p])'
      BY <1>1, <2>2, <2>4 DEF C!Holds, C!Wanted
    <2> QED
      BY <1>1, <2>2, <2>5, SettingsStep
  <1>10. CASE C!WritesFile(p)
    <2>1. /\ c.pc = "write" /\ x3' = C!Kept(c.loaded) /\ x4' = x4 /\ x7' = x7
          /\ C!Goes(p, IF c.loaded.layout = "new" THEN "remove" ELSE "empty_server")
      BY <1>10 DEF C!WritesFile, C!At, C!Log
    <2>2. c.loaded = C!Wanted(IF C!Going(c) = "up" THEN "new" ELSE "old")
      BY <1>1, <2>1 DEF C!Holds
    <2>3. /\ d # C!Ready /\ d.loaded = c.loaded /\ C!Going(d) = C!Going(c)
          /\ d.pc = IF C!Going(c) = "up" THEN "remove" ELSE "empty_server"
      BY <1>1, <1>3, <1>5, <2>1, <2>2 DEF C!Going
    <2>4. CASE C!Going(c) = "up"
      <3>1. d.pc = "remove" /\ C!Going(d) = "up" /\ x3' = C!Wanted("new")'
        BY <1>5, <1>6, <2>1, <2>2, <2>3, <2>4
      <3> QED
        BY <1>1, <2>3, <3>1, SettingsStep DEF C!Holds
    <2>5. CASE C!Going(c) = "down"
      <3>1. /\ d.pc = "empty_server" /\ C!Going(d) = "down" /\ d.loaded = C!Wanted("old")'
            /\ x3' = C!Kept(C!Wanted("old")')
        BY <1>6, <2>1, <2>2, <2>3, <2>5
      <3> QED
        BY <1>1, <2>3, <3>1, SettingsStep DEF C!Holds
    <2> QED
      BY <1>4, <2>4, <2>5
  <1>11. CASE C!RemovesServerFile(p)
    <2>1. c.pc = "remove" /\ x3' = x3 /\ x7' = x7
      BY <1>11 DEF C!RemovesServerFile, C!At, C!Log
    <2>2. C!Going(c) = "up" /\ x3 = C!Wanted("new")
      BY <1>1, <2>1 DEF C!Holds
    <2>3. C!Goes(p, "record")
      BY <1>11, <2>2 DEF C!RemovesServerFile
    <2>4. d # C!Ready /\ d.pc = "record" /\ C!Going(d) = "up" /\ d.m = c.m /\ C!Migrations[c.m] = "settings_file"
      BY <1>1, <1>3, <2>1, <2>2, <2>3, MovingFacts DEF C!Going
    <2>5. x3' = C!Wanted("new")'
      BY <1>6, <2>1, <2>2
    <2> QED
      BY <1>1, <1>2, <2>4, <2>5, SettingsStep DEF C!Holds
  <1>12. CASE C!EmptiesServerFile(p)
    <2>1. c.pc = "empty_server" /\ x3' = x3 /\ x7' = x7 /\ C!Goes(p, "write_server")
      BY <1>12 DEF C!EmptiesServerFile, C!At, C!Log
    <2>2. C!Going(c) = "down" /\ c.loaded = C!Wanted("old") /\ x3 = C!Kept(C!Wanted("old"))
      BY <1>1, <2>1 DEF C!Holds
    <2>3. d # C!Ready /\ d.pc = "write_server" /\ C!Going(d) = "down" /\ d.loaded = c.loaded
      BY <1>1, <1>3, <2>1, <2>2 DEF C!Going
    <2>4. d.loaded = C!Wanted("old")' /\ x3' = C!Kept(C!Wanted("old")')
      BY <1>6, <2>1, <2>2, <2>3
    <2> QED
      BY <1>1, <2>3, <2>4, SettingsStep DEF C!Holds
  <1>13. CASE C!WritesServerFile(p)
    <2>1. c.pc = "write_server" /\ x3' = x3 /\ x7' = x7 /\ x4' = C!File("old", 0, c.loaded.server)
      BY <1>13 DEF C!WritesServerFile, C!At, C!Log
    <2>2. C!Going(c) = "down" /\ c.loaded = C!Wanted("old") /\ x3 = C!Kept(C!Wanted("old"))
      BY <1>1, <2>1 DEF C!Holds
    <2>3. C!Goes(p, "record")
      BY <1>13, <2>2 DEF C!WritesServerFile
    <2>4. d # C!Ready /\ d.pc = "record" /\ C!Going(d) = "down" /\ d.m = c.m /\ C!Migrations[c.m] = "settings_file"
      BY <1>1, <1>3, <2>1, <2>2, <2>3, MovingFacts DEF C!Going
    <2>5. x3' = C!Kept(C!Wanted("old")') /\ x4' = C!File("old", 0, x7'.server)
      BY <1>5, <1>6, <2>1, <2>2
    <2> QED
      BY <1>1, <1>2, <2>4, <2>5, SettingsStep DEF C!Holds
  <1> QED
    BY <1>7, <1>8, <1>9, <1>10, <1>11, <1>12, <1>13

\* The change of a setting: it is loaded, opened and saved, and no other is changed.
LEMMA SettingsSettle ==
  ASSUME C!CliTyped, C!OrderInv, C!SettingsInv, NEW p \in Processes,
         C!LoadsSettings(p) \/ C!OpensToSave(p) \/ C!SavesSettings(p)
  PROVE  C!SettingsInv'
  <1> DEFINE c == x5[p]
             d == x5'[p]
  <1>1. /\ \A q \in Processes \ {p} : x5'[q] = x5[q] /\ ~C!Running(q)
        /\ c \in C!Command /\ C!Holds(c) /\ C!Applies(c) /\ x1' = x1
        /\ d # C!Ready => /\ d \in C!Command /\ d.cmd = c.cmd /\ d.m = c.m /\ d.var = c.var
                          /\ d.env = "none" /\ (c.cmd # "down" => d.known = x1)
    BY FileStepsAlone
  <1>2. c.cmd # "none" /\ C!Ready.cmd = "none" /\ c.var \in {"user", "server"}
    BY <1>1 DEF C!Command, C!Ready, C!Vars
  <1>3. c.env = "none"
    BY <1>1 DEF C!Holds
  <1>4. CASE C!LoadsSettings(p)
    <2>1. c.pc = "load" /\ x3' = x3 /\ x4' = x4 /\ x7' = x7
      BY <1>4 DEF C!LoadsSettings, C!At, C!Files, C!Log
    <2>2. C!Resting /\ "settings_file" \in x1
      BY <1>1, <2>1 DEF C!Holds
    <2>3. x3.layout = "new" /\ x3.user = x7.user /\ x3.server = x7.server
      BY <2>2 DEF C!Resting
    <2>4. CASE d = C!Ready
      <3>1. C!Resting'
        BY <1>1, <2>1, <2>2 DEF C!Resting
      <3> QED
        BY <1>1, <2>4, <3>1, SettingsStep
    <2>5. CASE d # C!Ready
      <3> DEFINE l == C!Changed(C!ApplyOverrides(C!Loaded(x3), c), c)
      <3>1. l = C!Changed(x3, c)
        BY <1>3, <2>3 DEF C!ApplyOverrides, C!Loaded
      <3>2. x5' = [x5 EXCEPT ![p] = IF c.cmd = "show" THEN C!Ready
                                   ELSE [c EXCEPT !.loaded = l, !.pc = "save"]]
        BY <1>4 DEF C!LoadsSettings
      <3> HIDE DEF l
      <3>3. d = [c EXCEPT !.loaded = l, !.pc = "save"]
        BY <2>5, <3>2 DEF C!CliTyped
      <3>4. d.loaded = l /\ d.pc = "save"
        BY <1>1, <3>3 DEF C!Command
      <3>5. x3 \in C!FileType
        BY DEF C!CliTyped
      <3>6. l.layout = "new" /\ \A v \in C!Vars \ {c.var} : l[v] = x7[v]
        BY <1>2, <2>3, <3>1, <3>5 DEF C!Changed, C!FileType, C!Vars
      <3>7. C!Holds(x5[p])'
        BY <1>1, <2>1, <2>2, <2>5, <3>4, <3>6 DEF C!Holds
      <3> QED
        BY <1>1, <2>5, <3>7, SettingsStep
    <2> QED
      BY <2>4, <2>5
  <1>5. CASE C!OpensToSave(p)
    <2>1. c.pc = "save" /\ C!Goes(p, "saving") /\ x7' = x7
      BY <1>5 DEF C!OpensToSave, C!At, C!Log
    <2>2. d = [c EXCEPT !.pc = "saving"]
      BY <2>1 DEF C!Goes, C!CliTyped
    <2>3. d.pc = "saving" /\ d.loaded = c.loaded /\ d.cmd = c.cmd
      BY <1>1, <2>2 DEF C!Command
    <2>4. d # C!Ready
      BY <1>2, <2>3
    <2>5. C!Holds(x5[p])'
      BY <1>1, <2>1, <2>3, <2>4 DEF C!Holds
    <2> QED
      BY <1>1, <2>4, <2>5, SettingsStep
  <1>6. CASE C!SavesSettings(p)
    <2>1. /\ c.pc = "saving" /\ x3' = c.loaded /\ x7' = [x7 EXCEPT ![c.var] = c.loaded[c.var]]
          /\ C!Ends(p)
      BY <1>6 DEF C!SavesSettings, C!At
    <2>2. d = C!Ready
      BY <2>1, CommandSet DEF C!Ends
    <2>3. /\ "settings_file" \in x1 /\ c.loaded.layout = "new"
          /\ \A v \in C!Vars \ {c.var} : c.loaded[v] = x7[v]
      BY <1>1, <2>1 DEF C!Holds
    <2>4. \A v \in C!Vars : x7'[v] = c.loaded[v]
      BY <2>1, <2>3 DEF C!CliTyped
    <2>5. x7'.user = c.loaded.user /\ x7'.server = c.loaded.server
      BY <2>4 DEF C!Vars
    <2>6. C!Resting'
      BY <1>1, <2>1, <2>3, <2>5 DEF C!Resting
    <2> QED
      BY <1>1, <2>2, <2>6, SettingsStep
  <1> QED
    BY <1>4, <1>5, <1>6

\* The machine begins with the old layout and no migration.
LEMMA CliInit == C!Init => C!CliInv
  <1> SUFFICES ASSUME C!Init PROVE C!CliInv
    OBVIOUS
  <1>1. /\ x1 = {} /\ x2 = {} /\ x3 = C!File("old", 1, 0) /\ x4 = C!File("old", 0, 2)
        /\ x7 = [user |-> 1, server |-> 2] /\ x5 = [q \in Processes |-> C!Ready] /\ x6 = 0
        /\ x8 = FALSE /\ x9 = FALSE
    BY DEF C!Init
  <1>2. C!CliTyped
    <2>1. x3 \in C!FileType /\ x4 \in C!FileType
      BY <1>1 DEF C!File, C!FileType
    <2>2. x7 \in [C!Vars -> Nat]
      BY <1>1 DEF C!Vars
    <2> QED
      BY <1>1, <2>1, <2>2 DEF C!CliTyped
  <1>3. \A q \in Processes : ~C!Running(q)
    BY <1>1 DEF C!Running
  <1>4. C!OrderInv
    BY <1>1, <1>3 DEF C!OrderInv, C!Closed
  <1>5. C!SchemaInv
    BY <1>1, <1>3 DEF C!SchemaInv, C!InEffect, C!Begun
  <1>6. C!SettingsInv
    <2>1. C!Resting
      BY <1>1 DEF C!Resting, C!File
    <2> QED
      BY <1>3, <2>1 DEF C!SettingsInv
  <1> QED
    BY <1>1, <1>2, <1>4, <1>5, <1>6 DEF C!CliInv

\* Every step of a command keeps the invariant.
LEMMA CliStep == C!CliInv /\ C!Next => C!CliInv'
  <1> SUFFICES ASSUME C!CliInv, C!Next PROVE C!CliInv'
    OBVIOUS
  <1> USE DEF C!CliInv
  <1>1. PICK p \in Processes :
          \/ C!Start(p) \/ C!ReadsVersions(p) \/ C!RunsStatement(p) \/ C!StatementFails(p) \/ C!Records(p)
          \/ C!ReadsFiles(p) \/ C!Reverts(p) \/ C!EmptiesFile(p) \/ C!WritesFile(p) \/ C!RemovesServerFile(p)
          \/ C!EmptiesServerFile(p) \/ C!WritesServerFile(p) \/ C!LoadsSettings(p) \/ C!OpensToSave(p)
          \/ C!SavesSettings(p) \/ C!Kill(p)
    BY DEF C!Next
  <1>2. CASE C!Start(p)
    <2>1. x9' = x9 /\ (x8 => x8')
      BY <1>2 DEF C!Start
    <2> QED
      BY <1>2, <2>1, StartKeeps, StartSettles
  <1>3. CASE C!ReadsVersions(p)
    <2>1. x8' = x8 /\ x9' = x9
      BY <1>3 DEF C!ReadsVersions, C!Log
    <2> QED
      BY <1>3, <2>1, ReadsVersionsKeeps, ReadsVersionsSettles
  <1>4. CASE C!RunsStatement(p)
    <2>1. x8' = x8 /\ x9' = x9
      BY <1>4 DEF C!RunsStatement, C!Log
    <2> QED
      BY <1>4, <2>1, RunsStatementKeeps, StatementsSettle
  <1>5. CASE C!StatementFails(p)
    <2>1. x8' = x8 /\ x9' = x9
      BY <1>5 DEF C!StatementFails, C!Log
    <2> QED
      BY <1>5, <2>1, StatementFailsKeeps, StatementsSettle
  <1>6. CASE C!Records(p)
    <2>1. x8' = x8 /\ x9' = x9
      BY <1>6 DEF C!Records, C!Log
    <2> QED
      BY <1>6, <2>1, RecordsKeeps, RecordsSettle
  <1>7. CASE \/ C!ReadsFiles(p) \/ C!Reverts(p) \/ C!EmptiesFile(p) \/ C!WritesFile(p)
             \/ C!RemovesServerFile(p) \/ C!EmptiesServerFile(p) \/ C!WritesServerFile(p)
    <2>1. x8' = x8 /\ x9' = x9
      BY <1>7 DEF C!ReadsFiles, C!Reverts, C!EmptiesFile, C!WritesFile, C!RemovesServerFile,
                  C!EmptiesServerFile, C!WritesServerFile, C!Log
    <2>2. C!CliTyped' /\ C!OrderInv' /\ (C!SchemaInv => C!SchemaInv')
      BY <1>7, FileStepsKeep
    <2>3. C!SettingsInv => C!SettingsInv'
      BY <1>7, FilesSettle
    <2> QED
      BY <2>1, <2>2, <2>3
  <1>8. CASE C!LoadsSettings(p) \/ C!OpensToSave(p) \/ C!SavesSettings(p)
    <2>1. x8' = x8 /\ x9' = x9
      BY <1>8 DEF C!LoadsSettings, C!OpensToSave, C!SavesSettings, C!Log
    <2>2. C!CliTyped' /\ C!OrderInv' /\ (C!SchemaInv => C!SchemaInv')
      BY <1>8, FileStepsKeep
    <2>3. C!SettingsInv => C!SettingsInv'
      BY <1>8, SettingsSettle
    <2> QED
      BY <2>1, <2>2, <2>3
  <1>9. CASE C!Kill(p)
    BY <1>9, KillKeeps
  <1> QED
    BY <1>1, <1>2, <1>3, <1>4, <1>5, <1>6, <1>7, <1>8, <1>9

\* So does a step of nobody.
LEMMA CliStutters == C!CliInv /\ UNCHANGED allVars => C!CliInv'
  <1> SUFFICES ASSUME C!CliInv, UNCHANGED allVars PROVE C!CliInv'
    OBVIOUS
  <1>1. /\ x1' = x1 /\ x2' = x2 /\ x3' = x3 /\ x4' = x4 /\ x5' = x5 /\ x6' = x6 /\ x7' = x7 /\ x8' = x8
        /\ x9' = x9
    BY DEF allVars
  <1>2. C!CliTyped'
    BY <1>1 DEF C!CliInv, C!CliTyped
  <1>3. C!OrderInv'
    BY <1>1 DEF C!CliInv, C!OrderInv, C!Closed, C!Applies, C!Running
  <1>4. C!SchemaInv => C!SchemaInv'
    BY <1>1 DEF C!SchemaInv, C!InEffect, C!Begun, C!Running
  <1>5. C!Resting <=> C!Resting'
    BY <1>1 DEF C!Resting
  <1>6. \A c : C!Holds(c) <=> C!Holds(c)'
    BY <1>1, <1>5 DEF C!Holds, C!Wanted
  <1>7. C!SettingsInv => C!SettingsInv'
    BY <1>1, <1>5, <1>6 DEF C!SettingsInv, C!Running
  <1> QED
    BY <1>1, <1>2, <1>3, <1>4, <1>7 DEF C!CliInv

\* With nobody migrating and nobody killed, what is in effect is what is on record.
LEMMA SchemaIsRecorded ==
  ASSUME C!CliTyped, C!SchemaInv, \A p \in Processes : ~C!Running(p)
  PROVE  x2 = UNION {C!Recorded(m) : m \in {n \in x1 : C!IsSql(n)}}
  <1> DEFINE All == UNION {C!Recorded(m) : m \in {n \in x1 : C!IsSql(n)}}
  <1>1. ASSUME NEW s \in x2 PROVE s \in All
    <2>1. PICK i \in C!Number : C!IsSql(C!Migrations[i]) /\ s \in C!Recorded(C!Migrations[i])
      BY <1>1 DEF C!CliTyped
    <2>2. PICK m \in {C!Migrations[j] : j \in C!Number} : m = C!Migrations[i]
      BY <2>1
    <2>3. PICK n \in 1 .. C!Statements(m) : s = <<m, n>>
      BY <2>1, <2>2 DEF C!Recorded
    <2>4. C!InEffect(m, n)
      BY <1>1, <2>1, <2>2, <2>3 DEF C!SchemaInv
    <2>5. m \in x1
      BY <2>4 DEF C!InEffect, C!Begun
    <2> QED
      BY <2>1, <2>2, <2>5
  <1>2. ASSUME NEW s \in All PROVE s \in x2
    <2>1. PICK m \in x1 : C!IsSql(m) /\ s \in C!Recorded(m)
      BY <1>2
    <2>2. PICK n \in 1 .. C!Statements(m) : s = <<m, n>>
      BY <2>1 DEF C!Recorded
    <2>3. C!InEffect(m, n)
      BY <2>1 DEF C!InEffect, C!Begun
    <2>4. m \in {C!Migrations[i] : i \in C!Number}
      BY <2>1 DEF C!CliTyped
    <2> QED
      BY <2>1, <2>2, <2>3, <2>4 DEF C!SchemaInv
  <1> QED
    BY <1>1, <1>2

\* However commands overlap and are killed, the migrations on record are the first ones,
\* what is in effect is theirs, and commands run one by one keep every setting.
THEOREM CommandsAreSafeAlways == Spec => []CommandsAreSafe
  <1> DEFINE Inv == subject = "cli" => C!CliInv
  <1>1. Init => Inv
    BY CliInit DEF Init
  <1>2. Inv /\ [Next]_allVars => Inv'
    <2> SUFFICES ASSUME Inv, [Next]_allVars, subject' = "cli" PROVE C!CliInv'
      OBVIOUS
    <2>1. CASE Next
      BY <2>1, CliStep DEF Next
    <2>2. CASE UNCHANGED allVars
      <3>1. C!CliInv
        BY <2>2 DEF allVars
      <3> QED
        BY <2>2, <3>1, CliStutters
    <2> QED
      BY <2>1, <2>2
  <1>3. Inv => CommandsAreSafe
    <2> SUFFICES ASSUME C!CliInv PROVE C!MigrationsInOrder /\ C!SettingsKept
      BY DEF CommandsAreSafe
    <2>1. C!MigrationsInOrder
      <3>1. \A i, j \in C!Number : i < j /\ C!Migrations[j] \in x1 => C!Migrations[i] \in x1
        BY DEF C!CliInv, C!OrderInv, C!Closed
      <3>2. (\A p \in Processes : ~C!Running(p)) /\ ~x9 =>
              x2 = UNION {C!Recorded(m) : m \in {n \in x1 : C!IsSql(n)}}
        BY SchemaIsRecorded DEF C!CliInv
      <3> QED
        BY <3>1, <3>2 DEF C!MigrationsInOrder
    <2>2. C!SettingsKept
      BY DEF C!CliInv, C!SettingsInv, C!Resting, C!SettingsKept
    <2> QED
      BY <2>1, <2>2
  <1> QED
    BY <1>1, <1>2, <1>3, PTL DEF Spec

-----------------------------------------------------------------------------
(* Image building: commands that share a Docker server and a registry.        *)

\* Names given to images keep being names of images.
LEMMA StandsWith ==
  ASSUME NEW f, D!Stands(f), NEW k \in D!Names, NEW v \in Nat
  PROVE  D!Stands(D!With(f, k, v))
  <1>1. PICK g : g = D!With(f, k, v)
    OBVIOUS
  <1>2. /\ DOMAIN g = DOMAIN f \cup {k} /\ g[k] = v
        /\ \A n \in DOMAIN f : n # k => g[n] = f[n]
        /\ g = [n \in DOMAIN g |-> g[n]]
    BY <1>1 DEF D!With
  <1>3. D!Stands(g)
    BY <1>2 DEF D!Stands
  <1> QED
    BY <1>1, <1>3

\* Two files of a project make one configuration.
LEMMA MergeTyped ==
  ASSUME NEW c \in D!Configs, NEW d \in D!Configs
  PROVE  D!Merge(c, d) \in D!Configs
  <1> DEFINE Pushes == [repository : D!Repositories, suffix : D!Suffixes]
  <1>1. c.push \in Pushes /\ d.push \in Pushes
    BY DEF D!Configs
  <1>2. D!MergePush(c.push, d.push) \in Pushes
    BY <1>1 DEF D!MergePush
  <1>3. PICK push \in Pushes : push = D!MergePush(c.push, d.push)
    BY <1>2
  <1>4. D!Merge(c, d) = [version |-> c.version, script |-> d.script, base |-> d.base,
                         data |-> c.data \cup d.data, src |-> c.src \cup d.src, push |-> push]
    BY <1>3 DEF D!Merge
  <1>5. /\ c.version \in {0, 1, 2} /\ d.script \in BOOLEAN /\ d.base \in {"base", D!None}
        /\ c.data \cup d.data \in SUBSET D!Globs /\ c.src \cup d.src \in SUBSET D!Globs
    BY DEF D!Configs
  <1> QED
    BY <1>4, <1>5 DEF D!Configs

\* What is loaded for a target is a configuration.
LEMMA LoadedTyped ==
  ASSUME \A path \in DOMAIN x1 : x1[path] \in D!Configs, NEW target
  PROVE  D!BuildConfigOf(target) \in D!Configs
  <1>1. D!NoConfig \in D!Configs
    BY DEF D!NoConfig, D!Plain, D!Configs, D!NoPush, D!Repositories, D!Unnamed, D!Suffixes, D!None, D!Globs
  <1>2. \A c \in D!Configs : \A path : D!Loaded(c, path) \in D!Configs
    BY MergeTyped DEF D!Loaded
  <1> QED
    BY <1>1, <1>2 DEF D!BuildConfigOf

\* No repository is called like a directory of the project.
LEMMA NamesTyped ==
  ASSUME NEW c \in D!Configs, NEW target
  PROVE  /\ D!LocalName(target, c) \in D!Names /\ D!LocalName(target, c)[1] \in {"d", "e"}
         /\ D!RemoteName(c) \in D!Names /\ D!RemoteName(c)[1] = c.push.repository
         /\ c.push.repository \in D!Repositories
         /\ \A d \in D!Configs : D!LocalName(target, c) # D!RemoteName(d)
  <1>1. \A d \in D!Configs : d.push.repository \in D!Repositories /\ D!Tag(d.push) \in D!Tags
    BY DEF D!Configs, D!Tag, D!Tags
  <1>2. D!DirName(target) \in {"d", "e"}
    BY DEF D!DirName
  <1>3. "default" \in D!Tags
    BY DEF D!Tags
  <1>4. "d" \notin D!Repositories /\ "e" \notin D!Repositories
    BY DEF D!Repositories, D!None, D!Unnamed
  <1>5. D!LocalName(target, c) \in D!Names /\ D!LocalName(target, c)[1] = D!DirName(target)
    BY <1>1, <1>2, <1>3 DEF D!LocalName, D!Names
  <1>6. \A d \in D!Configs : D!RemoteName(d) \in D!Names /\ D!RemoteName(d)[1] = d.push.repository
    BY <1>1 DEF D!RemoteName, D!Names
  <1> QED
    BY <1>1, <1>2, <1>4, <1>5, <1>6

\* An image has the files that its Dockerfile copies.
LEMMA DockerfileTyped ==
  ASSUME NEW c \in D!Configs, NEW target \in D!Targets, x2 \in {1, 2}, x3 \in {1, 2}
  PROVE  /\ D!Dockerfile(target, c) \in D!Contents
         /\ DOMAIN D!Dockerfile(target, c).files = D!Copied(target, c)
  <1>1. D!Copied(target, c) \subseteq D!Targets
    <2>1. \A glob : D!Matches(glob) \subseteq D!Targets
      BY DEF D!Matches, D!Targets
    <2> QED
      BY <2>1 DEF D!Copied
  <1>2. PICK paths \in SUBSET D!Targets : paths = D!Copied(target, c)
    BY <1>1
  <1>3. [f \in paths |-> x2] \in UNION {[s -> {1, 2}] : s \in SUBSET D!Targets}
    <2>1. [f \in paths |-> x2] \in [paths -> {1, 2}]
      OBVIOUS
    <2> QED
      BY <2>1, <1>2
  <1>4. (IF c.script THEN "scripted" ELSE c.base) \in {"scripted", "base", D!None}
    BY DEF D!Configs
  <1>5. D!Dockerfile(target, c) = [base |-> <<IF c.script THEN "scripted" ELSE c.base, x3>>,
                                   files |-> [f \in paths |-> x2]]
    BY <1>2 DEF D!Dockerfile
  <1>6. D!Dockerfile(target, c) \in D!Contents
    BY <1>3, <1>4, <1>5 DEF D!Contents
  <1> QED
    BY <1>2, <1>5, <1>6

\* What a command relies on stays, as long as images, names and what the registries hold are
\* added to and its own name stands for what it did.
LEMMA Stays ==
  ASSUME NEW b, D!Relies(b),
         DOMAIN x4 \subseteq DOMAIN x4', \A i \in DOMAIN x4 : x4'[i] = x4[i],
         DOMAIN x5 \subseteq DOMAIN x5', x8 \subseteq x8',
         b.at = "inspect" /\ ~b.raced =>
           x5'[D!LocalName(b.target, b.config)] = x5[D!LocalName(b.target, b.config)]
  PROVE  D!Relies(b)'
  <1> QED
    BY DEF D!Relies, D!HasBuilt, D!HasUri

\* A step of one command that disturbs no other.
LEMMA CommandKeeps ==
  ASSUME D!BuildInv, NEW p \in Builders, NEW b \in D!Builder, D!Relies(b)',
         x9' = [x9 EXCEPT ![p] = b],
         UNCHANGED <<x1, x2, x3>>, x4' = x4, D!Stands(x5)', D!Stands(x7)',
         x6' = [i \in DOMAIN x6' |-> x6'[i]], \A i \in DOMAIN x6' : x6'[i] \subseteq D!Repositories,
         x8' \subseteq D!Repositories \X Nat, D!RegistryHas',
         DOMAIN x5 \subseteq DOMAIN x5', x8 \subseteq x8',
         \A n \in DOMAIN x5 : n[1] \in {"d", "e"} => x5'[n] = x5[n]
  PROVE  D!BuildInv'
  <1>1. D!BuildTyped'
    BY DEF D!BuildInv, D!BuildTyped
  <1>2. ASSUME NEW q \in Builders PROVE D!Relies(x9[q])'
    <2>1. x9'[q] = IF q = p THEN b ELSE x9[q]
      BY DEF D!BuildInv, D!BuildTyped
    <2>2. PICK r \in D!Builder : r = x9[q]
      BY DEF D!BuildInv, D!BuildTyped
    <2>3. D!Relies(r)
      BY <2>2 DEF D!BuildInv
    <2>4. r.config \in D!Configs
      BY DEF D!Builder
    <2>5. r.at = "inspect" => x5'[D!LocalName(r.target, r.config)] = x5[D!LocalName(r.target, r.config)]
      BY <2>3, <2>4, NamesTyped DEF D!Relies
    <2>6. D!Relies(r)'
      BY <2>3, <2>5, Stays
    <2>7. x9'[q] = IF q = p THEN b ELSE r
      BY <2>1, <2>2
    <2> QED
      BY <2>6, <2>7
  <1> QED
    BY <1>1, <1>2 DEF D!BuildInv

\* A step of one command that touches nothing that is shared.
LEMMA AloneKeeps ==
  ASSUME D!BuildInv, NEW p \in Builders, NEW b \in D!Builder, D!Relies(b),
         x9' = [x9 EXCEPT ![p] = b],
         UNCHANGED <<x1, x2, x3, x4, x5, x6, x7, x8>>
  PROVE  D!BuildInv'
  <1>1. D!BuildTyped /\ D!RegistryHas
    BY DEF D!BuildInv
  <1>2. D!Stands(x5)' /\ D!Stands(x7)'
    BY <1>1 DEF D!BuildTyped, D!Stands
  <1>3. D!RegistryHas'
    BY <1>1 DEF D!RegistryHas
  <1>4. D!Relies(b)'
    BY Stays
  <1>5. /\ x6' = [i \in DOMAIN x6' |-> x6'[i]] /\ \A i \in DOMAIN x6' : x6'[i] \subseteq D!Repositories
        /\ x8' \subseteq D!Repositories \X Nat
    BY <1>1 DEF D!BuildTyped
  <1> QED
    BY <1>2, <1>3, <1>4, <1>5, CommandKeeps

\* A command whose place changes to one where it relies on no more.
LEMMA PlaceKeeps ==
  ASSUME D!BuildInv, NEW p \in Builders,
         NEW place \in {"failed", "local", "script", "pull", "build", "launched"},
         D!Goes(p, place), D!At(p, "launch") \/ place # "launched",
         place \in {"script", "pull", "build"} => x9[p].at \notin {"idle", "failed", "local"},
         UNCHANGED <<x1, x2, x3, x4, x5, x6, x7, x8>>
  PROVE  D!BuildInv'
  <1>1. x9 \in [Builders -> D!Builder] /\ D!Relies(x9[p])
    BY DEF D!BuildInv, D!BuildTyped
  <1>2. PICK r \in D!Builder : r = x9[p]
    BY <1>1
  <1>3. PICK b : b = [r EXCEPT !.at = place]
    OBVIOUS
  <1>4. b \in D!Builder
    BY <1>3 DEF D!Builder, D!HasBuilt
  <1>5. D!Relies(b)
    <2>1. D!Relies(r)
      BY <1>1, <1>2
    <2>2. /\ b.at = place /\ b.target = r.target /\ b.config = r.config /\ b.built = r.built
          /\ b.image = r.image /\ b.uri = r.uri /\ b.raced = r.raced
      BY <1>3 DEF D!Builder
    <2>3. place = "launched" => r.at = "launch"
      BY <1>2 DEF D!At
    <2>4. place \in {"script", "pull", "build"} => r.at \notin {"idle", "failed", "local"}
      BY <1>2
    <2> QED
      BY <2>1, <2>2, <2>3, <2>4 DEF D!Relies, D!HasBuilt, D!HasUri
  <1>6. x9' = [x9 EXCEPT ![p] = b]
    BY <1>1, <1>2, <1>3 DEF D!Goes
  <1> QED
    BY <1>4, <1>5, <1>6, AloneKeeps

\* The steps of a command, one by one.
LEMMA RunKeeps == ASSUME D!BuildInv, NEW p \in Builders, D!Run(p) PROVE D!BuildInv'
  <1>1. UNCHANGED <<x1, x2, x3, x4, x5, x6, x7, x8>> /\ D!At(p, "idle")
    BY DEF D!Run
  <1>2. CASE D!Goes(p, "failed") \/ D!Goes(p, "local")
    BY <1>1, <1>2, PlaceKeeps DEF D!At
  <1>3. CASE ~(D!Goes(p, "failed") \/ D!Goes(p, "local"))
    <2>1. PICK target \in D!Targets, noCache \in BOOLEAN : D!Builds(p, target, noCache)
      BY <1>3 DEF D!Run
    <2>2. PICK r \in D!Builder : r = x9[p]
      BY DEF D!BuildInv, D!BuildTyped
    <2>3. PICK c \in D!Configs : c = D!BuildConfigOf(target)
      BY LoadedTyped DEF D!BuildInv, D!BuildTyped
    <2>4. PICK b : b = [r EXCEPT !.at = "connect", !.target = target, !.noCache = noCache, !.config = c]
      OBVIOUS
    <2>5. x9' = [x9 EXCEPT ![p] = b]
      <3>1. x9 \in [Builders -> D!Builder]
        BY DEF D!BuildInv, D!BuildTyped
      <3>2. x9' = [x9 EXCEPT ![p].at = "connect", ![p].target = target, ![p].noCache = noCache,
                             ![p].config = c]
        BY <2>1, <2>3 DEF D!Builds
      <3> QED
        BY <2>2, <2>4, <3>1, <3>2
    <2>6. b \in D!Builder
      BY <2>4 DEF D!Builder
    <2>7. b.at = "connect" /\ b.target = target
      BY <2>4 DEF D!Builder
    <2>8. D!Relies(b)
      BY <2>7 DEF D!Relies, D!HasBuilt, D!HasUri
    <2> QED
      BY <1>1, <2>5, <2>6, <2>8, AloneKeeps
  <1> QED
    BY <1>2, <1>3

\* The repositories that an image is known from hold it.
LEMMA Located ==
  ASSUME D!BuildInv, NEW i, NEW repository \in D!Repositories, x6' = D!Locates(i, repository),
         x8 \subseteq x8', <<repository, i>> \in x8'
  PROVE  /\ x6' = [k \in DOMAIN x6' |-> x6'[k]]
         /\ \A k \in DOMAIN x6' : x6'[k] \subseteq D!Repositories
         /\ \A k \in DOMAIN x6' : \A r \in x6'[k] : <<r, k>> \in x8'
  <1>1. PICK known : known = D!Known(i) \cup {repository}
    OBVIOUS
  <1>2. x6' = [k \in DOMAIN x6 \cup {i} |-> IF k = i THEN known ELSE x6[k]]
    BY <1>1 DEF D!Locates, D!With
  <1>3. /\ \A k \in DOMAIN x6 : x6[k] \subseteq D!Repositories
        /\ \A k \in DOMAIN x6 : \A r \in x6[k] : <<r, k>> \in x8
    BY DEF D!BuildInv, D!BuildTyped, D!RegistryHas
  <1>4. known \subseteq D!Repositories /\ \A r \in known : <<r, i>> \in x8'
    BY <1>1, <1>3 DEF D!Known
  <1> QED
    BY <1>2, <1>3, <1>4

LEMMA PullKeeps == ASSUME D!BuildInv, NEW p \in Builders, D!Pull(p) PROVE D!BuildInv'
  <1>1. /\ D!At(p, "pull") /\ D!Goes(p, "build") /\ UNCHANGED <<x1, x2, x3, x4, x7, x8>>
        /\ \/ UNCHANGED <<x5, x6>>
           \/ /\ D!RemoteName(D!Config(p)) \in DOMAIN x7
              /\ x5' = D!With(x5, D!RemoteName(D!Config(p)), x7[D!RemoteName(D!Config(p))])
              /\ x6' = D!Locates(x7[D!RemoteName(D!Config(p))], D!Config(p).push.repository)
    BY DEF D!Pull
  <1>2. CASE UNCHANGED <<x5, x6>>
    BY <1>1, <1>2, PlaceKeeps DEF D!At
  <1>3. CASE ~UNCHANGED <<x5, x6>>
    <2>1. PICK r \in D!Builder : r = x9[p]
      BY DEF D!BuildInv, D!BuildTyped
    <2>2. PICK c \in D!Configs : c = r.config /\ c = D!Config(p)
      BY <2>1 DEF D!Builder, D!Config
    <2>3. PICK name \in D!Names : name = D!RemoteName(c) /\ name[1] = c.push.repository
      BY NamesTyped
    <2>4. PICK i \in Nat : i = x7[name] /\ name \in DOMAIN x7
      BY <1>1, <1>3, <2>2, <2>3 DEF D!BuildInv, D!BuildTyped, D!Stands
    <2>5. x5' = D!With(x5, name, i) /\ x6' = D!Locates(i, name[1])
      BY <1>1, <1>3, <2>2, <2>3, <2>4
    <2>6. name[1] \in D!Repositories
      BY <2>3, NamesTyped
    <2>7. <<name[1], i>> \in x8
      BY <2>4 DEF D!BuildInv, D!RegistryHas
    <2>8. D!Relies(x9[p]) /\ x9 \in [Builders -> D!Builder]
      BY DEF D!BuildInv, D!BuildTyped
    <2>9. PICK b : b = [r EXCEPT !.at = "build"]
      OBVIOUS
    <2>10. b \in D!Builder /\ b.at = "build" /\ b.target = r.target
      BY <2>9 DEF D!Builder
    <2>11. r.target \in D!Targets
      BY <1>1, <2>1, <2>8 DEF D!At, D!Relies
    <2>12. D!Relies(b)'
      BY <2>10, <2>11 DEF D!Relies, D!HasBuilt, D!HasUri
    <2>13. x9' = [x9 EXCEPT ![p] = b]
      BY <1>1, <2>1, <2>8, <2>9 DEF D!Goes
    <2>14. D!Stands(x5') /\ DOMAIN x5 \subseteq DOMAIN x5'
           /\ \A n \in DOMAIN x5 : n[1] \in {"d", "e"} => x5'[n] = x5[n]
      <3>1. D!Stands(x5)
        BY DEF D!BuildInv, D!BuildTyped
      <3>2. name[1] \notin {"d", "e"}
        BY <2>6 DEF D!Repositories, D!None, D!Unnamed
      <3>3. D!Stands(x5')
        BY <2>5, <3>1, StandsWith
      <3> QED
        BY <2>5, <3>2, <3>3 DEF D!With
    <2>15. x6' = [k \in DOMAIN x6' |-> x6'[k]] /\ D!RegistryHas'
           /\ \A k \in DOMAIN x6' : x6'[k] \subseteq D!Repositories
      <3>1. /\ x6' = [k \in DOMAIN x6' |-> x6'[k]]
            /\ \A k \in DOMAIN x6' : x6'[k] \subseteq D!Repositories
            /\ \A k \in DOMAIN x6' : \A repository \in x6'[k] : <<repository, k>> \in x8'
        BY <1>1, <2>5, <2>6, <2>7, Located
      <3> QED
        BY <1>1, <3>1 DEF D!BuildInv, D!RegistryHas
    <2>16. D!Stands(x7') /\ x8' \subseteq D!Repositories \X Nat
      BY <1>1 DEF D!BuildInv, D!BuildTyped
    <2> QED
      BY <1>1, <2>10, <2>12, <2>13, <2>14, <2>15, <2>16, CommandKeeps
  <1> QED
    BY <1>2, <1>3

\* An image takes over the local name: from now on the others that have built one of the
\* same name, and have not looked it up, have been raced.
LEMMA NamedKeeps ==
  ASSUME D!BuildInv, NEW p \in Builders, D!At(p, "build"), NEW i \in Nat,
         UNCHANGED <<x1, x2, x3, x6, x7, x8>>, x4' \in Seq(D!Contents),
         DOMAIN x4 \subseteq DOMAIN x4', \A k \in DOMAIN x4 : x4'[k] = x4[k],
         i \in DOMAIN x4', DOMAIN x4'[i].files = D!Copied(x9[p].target, x9[p].config),
         D!Named(p, i)
  PROVE  D!BuildInv'
  <1>1. x9 \in [Builders -> D!Builder] /\ D!Stands(x5) /\ \A q \in Builders : D!Relies(x9[q])
    BY DEF D!BuildInv, D!BuildTyped
  <1>2. PICK r \in D!Builder : r = x9[p]
    BY <1>1
  <1>3. r.config \in D!Configs
    BY DEF D!Builder
  <1>4. PICK name \in D!Names : name = D!LocalName(r.target, r.config)
    BY <1>3, NamesTyped
  <1>5. x5' = D!With(x5, name, i)
    BY <1>2, <1>4 DEF D!Named, D!Config
  <1>6. /\ D!Stands(x5') /\ DOMAIN x5 \subseteq DOMAIN x5' /\ name \in DOMAIN x5' /\ x5'[name] = i
        /\ \A n \in DOMAIN x5 : n # name => x5'[n] = x5[n]
    <2>1. D!Stands(x5')
      BY <1>1, <1>5, StandsWith
    <2> QED
      BY <1>5, <2>1 DEF D!With
  <1>7. ASSUME NEW q \in Builders PROVE x9'[q] \in D!Builder /\ D!Relies(x9[q])'
    <2>1. PICK s \in D!Builder : s = x9[q]
      BY <1>1
    <2>2. D!Relies(s)
      BY <1>1, <2>1
    <2>3. CASE q = p
      <3>1. PICK b : b = [r EXCEPT !.at = "inspect", !.built = i]
        OBVIOUS
      <3>2. b \in D!Builder
        BY <3>1 DEF D!Builder, D!HasBuilt
      <3>3. /\ b.at = "inspect" /\ b.built = i /\ b.target = r.target /\ b.config = r.config
        BY <3>1 DEF D!Builder
      <3>4. r.target \in D!Targets
        <4>1. r.at = "build"
          BY <1>2 DEF D!At
        <4> QED
          BY <1>1, <1>2, <4>1 DEF D!Relies
      <3>5. DOMAIN x4'[b.built].files = D!Copied(b.target, b.config)
        BY <1>2, <3>3
      <3>6. D!LocalName(b.target, b.config) = name
        BY <1>4, <3>3
      <3>7. D!Relies(b)'
        BY <1>6, <3>3, <3>4, <3>5, <3>6 DEF D!Relies, D!HasBuilt, D!HasUri
      <3>8. x9'[q] = b
        BY <1>2, <2>3, <3>1 DEF D!Named
      <3> QED
        BY <3>2, <3>7, <3>8
    <2>4. CASE q # p /\ s.at = "inspect" /\ D!LocalName(s.target, s.config) = name
      <3>1. PICK b : b = [s EXCEPT !.raced = TRUE]
        OBVIOUS
      <3>2. b \in D!Builder
        BY <3>1 DEF D!Builder
      <3>3. /\ b.at = "inspect" /\ b.built = s.built /\ b.target = s.target /\ b.config = s.config
            /\ b.raced
        BY <2>4, <3>1 DEF D!Builder
      <3>4. D!Relies(b)
        BY <2>2, <2>4, <3>3 DEF D!Relies, D!HasBuilt, D!HasUri
      <3>5. D!Relies(b)'
        BY <1>6, <3>3, <3>4, Stays
      <3>6. x9'[q] = b
        BY <1>2, <1>4, <2>1, <2>4, <3>1 DEF D!At, D!Named, D!Config
      <3> QED
        BY <3>2, <3>5, <3>6
    <2>5. CASE q # p /\ ~(s.at = "inspect" /\ D!LocalName(s.target, s.config) = name)
      <3>1. x9'[q] = s
        BY <1>2, <1>4, <2>1, <2>5 DEF D!At, D!Named, D!Config
      <3>2. s.at = "inspect" => x5'[D!LocalName(s.target, s.config)] = x5[D!LocalName(s.target, s.config)]
        BY <1>6, <2>2, <2>5 DEF D!Relies
      <3>3. D!Relies(s)'
        BY <1>6, <2>2, <3>2, Stays
      <3> QED
        BY <3>1, <3>3
    <2> QED
      BY <2>3, <2>4, <2>5
  <1>8. x9' \in [Builders -> D!Builder]
    BY <1>7 DEF D!Named
  <1>9. D!BuildTyped'
    BY <1>6, <1>8 DEF D!BuildInv, D!BuildTyped, D!Stands
  <1>10. D!RegistryHas'
    BY DEF D!BuildInv, D!RegistryHas
  <1> QED
    BY <1>7, <1>9, <1>10 DEF D!BuildInv

LEMMA BuildKeeps == ASSUME D!BuildInv, NEW p \in Builders, D!Build(p) PROVE D!BuildInv'
  <1>1. PICK r \in D!Builder : r = x9[p]
    BY DEF D!BuildInv, D!BuildTyped
  <1>2. /\ D!At(p, "build") /\ UNCHANGED <<x1, x2, x3, x6, x7, x8>>
        /\ \/ UNCHANGED x4 /\ \E i \in D!Cached(D!Dockerfile(x9[p].target, D!Config(p))) : D!Named(p, i)
           \/ /\ x4' = Append(x4, D!Dockerfile(x9[p].target, D!Config(p)))
              /\ D!Named(p, Len(x4) + 1)
           \/ D!Goes(p, "failed") /\ UNCHANGED <<x4, x5>>
    BY DEF D!Build
  <1>3. r.config \in D!Configs /\ r.target \in D!Targets
    <2>1. r.at = "build" /\ D!Relies(r)
      BY <1>1, <1>2 DEF D!At, D!BuildInv
    <2> QED
      BY <2>1 DEF D!Builder, D!Relies
  <1>4. PICK content \in D!Contents : /\ content = D!Dockerfile(r.target, r.config)
                                      /\ DOMAIN content.files = D!Copied(r.target, r.config)
    BY <1>3, DockerfileTyped DEF D!BuildInv, D!BuildTyped
  <1>5. content = D!Dockerfile(x9[p].target, D!Config(p)) /\ x4 \in Seq(D!Contents)
    BY <1>1, <1>4 DEF D!Config, D!BuildInv, D!BuildTyped
  <1>6. ASSUME NEW i \in Nat, D!Named(p, i), x4' \in Seq(D!Contents), i \in DOMAIN x4', x4'[i] = content,
               DOMAIN x4 \subseteq DOMAIN x4', \A k \in DOMAIN x4 : x4'[k] = x4[k]
        PROVE  D!BuildInv'
    <2>1. DOMAIN x4'[i].files = D!Copied(x9[p].target, x9[p].config)
      BY <1>1, <1>4, <1>6
    <2> QED
      BY <1>2, <1>6, <2>1, NamedKeeps
  <1>7. CASE UNCHANGED x4 /\ \E i \in D!Cached(content) : D!Named(p, i)
    <2>1. PICK i \in D!Cached(content) : D!Named(p, i)
      BY <1>7
    <2>2. i \in DOMAIN x4 /\ x4[i] = content /\ i \in Nat
      BY <1>5 DEF D!Cached
    <2> QED
      BY <1>5, <1>6, <1>7, <2>1, <2>2
  <1>8. CASE x4' = Append(x4, content) /\ D!Named(p, Len(x4) + 1)
    <2>1. PICK i \in Nat : i = Len(x4) + 1
      BY <1>5
    <2>2. /\ x4' \in Seq(D!Contents) /\ i \in DOMAIN x4' /\ x4'[i] = content
          /\ DOMAIN x4 \subseteq DOMAIN x4' /\ \A k \in DOMAIN x4 : x4'[k] = x4[k]
      BY <1>5, <1>8, <2>1
    <2>3. D!Named(p, i)
      BY <1>8, <2>1
    <2> QED
      BY <1>6, <2>2, <2>3
  <1>9. CASE D!Goes(p, "failed") /\ UNCHANGED <<x4, x5>>
    BY <1>2, <1>9, PlaceKeeps
  <1> QED
    BY <1>2, <1>5, <1>7, <1>8, <1>9

LEMMA InspectKeeps == ASSUME D!BuildInv, NEW p \in Builders, D!Inspect(p) PROVE D!BuildInv'
  <1>1. PICK r \in D!Builder : r = x9[p]
    BY DEF D!BuildInv, D!BuildTyped
  <1>2. r.config \in D!Configs /\ r.at = "inspect" /\ D!Relies(r)
    BY <1>1 DEF D!Builder, D!Inspect, D!At, D!BuildInv
  <1>3. PICK name \in D!Names : name = D!LocalName(r.target, r.config) /\ name[1] \in {"d", "e"}
    BY <1>2, NamesTyped
  <1>4. PICK i \in Nat : i = x5[name] /\ (~r.raced => i = r.built)
    BY <1>2, <1>3 DEF D!BuildInv, D!BuildTyped, D!Stands, D!Relies
  <1>5. PICK place \in {"launch", "tag"} : /\ place = IF r.config.push = D!NoPush THEN "launch" ELSE "tag"
    OBVIOUS
  <1>6. PICK uri : uri = [repository |-> name[1], tag |-> name[2], image |-> i]
    OBVIOUS
  <1>7. UNCHANGED <<x1, x2, x3, x4, x5, x6, x7, x8>>
    BY DEF D!Inspect
  <1>8. PICK b : b = [r EXCEPT !.image = i, !.uri = uri, !.at = place]
    OBVIOUS
  <1>9. x9' = [x9 EXCEPT ![p] = b]
    <2>1. x9' = [x9 EXCEPT ![p].image = i, ![p].uri = uri, ![p].at = place]
      BY <1>1, <1>3, <1>4, <1>5, <1>6 DEF D!Inspect, D!Config, D!Uri
    <2>2. x9 \in [Builders -> D!Builder]
      BY DEF D!BuildInv, D!BuildTyped
    <2> QED
      BY <1>1, <1>8, <2>1, <2>2
  <1>10. uri \in [repository : D!Repositories \cup {"d", "e"}, tag : D!Tags \cup {D!None}, image : Nat]
    BY <1>3, <1>6 DEF D!Names
  <1>11. b \in D!Builder
    BY <1>8, <1>10 DEF D!Builder, D!HasBuilt
  <1>12. D!Relies(b)
    <2>1. /\ b.at = place /\ b.image = i /\ b.uri = uri /\ b.uri.image = i /\ b.target = r.target
          /\ b.config = r.config /\ b.built = r.built /\ b.raced = r.raced
      BY <1>6, <1>8 DEF D!Builder
    <2> QED
      BY <1>2, <1>4, <1>5, <2>1 DEF D!Relies, D!HasBuilt, D!HasUri
  <1> QED
    BY <1>7, <1>9, <1>11, <1>12, AloneKeeps

LEMMA TagKeeps == ASSUME D!BuildInv, NEW p \in Builders, D!TagImage(p) PROVE D!BuildInv'
  <1>1. /\ D!At(p, "tag") /\ UNCHANGED <<x1, x2, x3, x4, x6, x7, x8>>
        /\ \/ x5' = D!With(x5, D!RemoteName(D!Config(p)), x9[p].image) /\ D!Goes(p, "push")
           \/ UNCHANGED x5 /\ D!Goes(p, "failed")
    BY DEF D!TagImage
  <1>2. CASE UNCHANGED x5 /\ D!Goes(p, "failed")
    BY <1>1, <1>2, PlaceKeeps
  <1>3. CASE x5' = D!With(x5, D!RemoteName(D!Config(p)), x9[p].image) /\ D!Goes(p, "push")
    <2>1. PICK r \in D!Builder : r = x9[p]
      BY DEF D!BuildInv, D!BuildTyped
    <2>2. r.config \in D!Configs /\ r.image \in Nat /\ r.at = "tag" /\ D!Relies(r)
      BY <1>1, <2>1 DEF D!Builder, D!At, D!BuildInv
    <2>3. PICK name \in D!Names : name = D!RemoteName(r.config) /\ name[1] \in D!Repositories
      BY <2>2, NamesTyped
    <2>4. x5' = D!With(x5, name, r.image)
      BY <1>3, <2>1, <2>3 DEF D!Config
    <2>5. /\ D!Stands(x5') /\ DOMAIN x5 \subseteq DOMAIN x5' /\ name \in DOMAIN x5'
          /\ \A n \in DOMAIN x5 : n[1] \in {"d", "e"} => x5'[n] = x5[n]
      <3>1. D!Stands(x5)
        BY DEF D!BuildInv, D!BuildTyped
      <3>2. name[1] \notin {"d", "e"}
        BY <2>3 DEF D!Repositories, D!None, D!Unnamed
      <3>3. D!Stands(x5')
        BY <2>2, <2>4, <3>1, StandsWith
      <3> QED
        BY <2>4, <3>2, <3>3 DEF D!With
    <2>6. PICK b : b = [r EXCEPT !.at = "push"]
      OBVIOUS
    <2>7. b \in D!Builder
      BY <2>6 DEF D!Builder, D!HasBuilt
    <2>8. D!Relies(b)'
      <3>1. /\ b.at = "push" /\ b.target = r.target /\ b.config = r.config /\ b.built = r.built
            /\ b.image = r.image /\ b.raced = r.raced
        BY <2>6 DEF D!Builder
      <3> QED
        BY <1>1, <2>2, <2>3, <2>5, <3>1 DEF D!Relies, D!HasBuilt, D!HasUri
    <2>9. x9' = [x9 EXCEPT ![p] = b]
      <3>1. x9 \in [Builders -> D!Builder]
        BY DEF D!BuildInv, D!BuildTyped
      <3> QED
        BY <1>3, <2>1, <2>6, <3>1 DEF D!Goes
    <2>10. D!RegistryHas' /\ D!Stands(x7') /\ x8' \subseteq D!Repositories \X Nat
           /\ x6' = [k \in DOMAIN x6' |-> x6'[k]] /\ \A k \in DOMAIN x6' : x6'[k] \subseteq D!Repositories
      BY <1>1 DEF D!BuildInv, D!BuildTyped, D!RegistryHas
    <2> QED
      BY <1>1, <2>5, <2>7, <2>8, <2>9, <2>10, CommandKeeps
  <1> QED
    BY <1>1, <1>2, <1>3

LEMMA PushKeeps == ASSUME D!BuildInv, NEW p \in Builders, D!Push(p) PROVE D!BuildInv'
  <1>1. PICK r \in D!Builder : r = x9[p]
    BY DEF D!BuildInv, D!BuildTyped
  <1>2. r.config \in D!Configs /\ r.at = "push" /\ D!Relies(r)
    BY <1>1 DEF D!Builder, D!Push, D!At, D!BuildInv
  <1>3. PICK name \in D!Names : name = D!RemoteName(r.config) /\ name[1] \in D!Repositories
    BY <1>2, NamesTyped
  <1>4. PICK i \in Nat : i = x5[name]
    BY <1>2, <1>3 DEF D!BuildInv, D!BuildTyped, D!Stands, D!Relies
  <1>5. /\ UNCHANGED <<x1, x2, x3, x4, x5>>
        /\ \/ /\ x7' = D!With(x7, name, i) /\ x8' = x8 \cup {<<name[1], i>>}
              /\ x6' = D!Locates(i, name[1]) /\ D!Goes(p, "reload")
           \/ D!Goes(p, "failed") /\ UNCHANGED <<x6, x7, x8>>
    BY <1>1, <1>3, <1>4 DEF D!Push, D!Config
  <1>6. CASE D!Goes(p, "failed") /\ UNCHANGED <<x6, x7, x8>>
    BY <1>5, <1>6, PlaceKeeps
  <1>7. CASE /\ x7' = D!With(x7, name, i) /\ x8' = x8 \cup {<<name[1], i>>}
             /\ x6' = D!Locates(i, name[1]) /\ D!Goes(p, "reload")
    <2>1. D!Stands(x7') /\ D!Stands(x5')
      <3>1. D!Stands(x7) /\ D!Stands(x5)
        BY DEF D!BuildInv, D!BuildTyped
      <3> QED
        BY <1>5, <1>7, <3>1, StandsWith
    <2>2. /\ x6' = [k \in DOMAIN x6' |-> x6'[k]]
          /\ \A k \in DOMAIN x6' : x6'[k] \subseteq D!Repositories
          /\ \A k \in DOMAIN x6' : \A repository \in x6'[k] : <<repository, k>> \in x8'
      BY <1>3, <1>7, Located
    <2>3. \A n \in DOMAIN x7' : <<n[1], x7'[n]>> \in x8'
      <3>1. \A n \in DOMAIN x7 : <<n[1], x7[n]>> \in x8
        BY DEF D!BuildInv, D!RegistryHas
      <3> QED
        BY <1>7, <3>1 DEF D!With
    <2>4. x8' \subseteq D!Repositories \X Nat
      BY <1>3, <1>7 DEF D!BuildInv, D!BuildTyped
    <2>5. PICK b : b = [r EXCEPT !.at = "reload"]
      OBVIOUS
    <2>6. b \in D!Builder
      BY <2>5 DEF D!Builder, D!HasBuilt
    <2>7. D!Relies(b)'
      <3>1. /\ b.at = "reload" /\ b.target = r.target /\ b.config = r.config /\ b.built = r.built
            /\ b.image = r.image /\ b.raced = r.raced
        BY <2>5 DEF D!Builder
      <3> QED
        BY <1>2, <1>5, <3>1 DEF D!Relies, D!HasBuilt, D!HasUri
    <2>8. x9' = [x9 EXCEPT ![p] = b]
      <3>1. x9 \in [Builders -> D!Builder]
        BY DEF D!BuildInv, D!BuildTyped
      <3> QED
        BY <1>1, <1>7, <2>5, <3>1 DEF D!Goes
    <2>9. D!RegistryHas'
      BY <2>2, <2>3 DEF D!RegistryHas
    <2> QED
      BY <1>5, <1>7, <2>1, <2>2, <2>4, <2>6, <2>7, <2>8, <2>9, CommandKeeps
  <1> QED
    BY <1>5, <1>6, <1>7

LEMMA ReloadKeeps == ASSUME D!BuildInv, NEW p \in Builders, D!Reload(p) PROVE D!BuildInv'
  <1>1. PICK r \in D!Builder : r = x9[p]
    BY DEF D!BuildInv, D!BuildTyped
  <1>2. r.image \in Nat /\ r.at = "reload" /\ D!Relies(r)
    BY <1>1 DEF D!Builder, D!Reload, D!At, D!BuildInv
  <1>3. UNCHANGED <<x1, x2, x3, x4, x5, x6, x7, x8>>
    BY DEF D!Reload
  <1>4. CASE D!Goes(p, "failed")
    BY <1>3, <1>4, PlaceKeeps
  <1>5. CASE ~D!Goes(p, "failed")
    <2>1. PICK repository \in D!RepoDigests(p), name \in D!RepoTags(x9[p].image) :
            x9' = [x9 EXCEPT ![p].at = "launch", ![p].uri = D!Uri(<<repository, name[2]>>, x9[p].image)]
      BY <1>5 DEF D!Reload
    <2>2. repository \in D!Repositories /\ <<repository, r.image>> \in x8
      BY <1>1 DEF D!RepoDigests, D!Known, D!BuildInv, D!BuildTyped, D!RegistryHas
    <2>3. name[2] \in D!Tags
      <3>1. name \in D!Names
        BY DEF D!RepoTags, D!BuildInv, D!BuildTyped, D!Stands
      <3> QED
        BY <3>1 DEF D!Names
    <2>4. PICK uri : uri = [repository |-> repository, tag |-> name[2], image |-> r.image]
      OBVIOUS
    <2>5. uri \in [repository : D!Repositories \cup {"d", "e"}, tag : D!Tags \cup {D!None}, image : Nat]
      BY <1>2, <2>2, <2>3, <2>4
    <2>6. PICK b : b = [r EXCEPT !.at = "launch", !.uri = uri]
      OBVIOUS
    <2>7. b \in D!Builder
      BY <2>5, <2>6 DEF D!Builder, D!HasBuilt
    <2>8. D!Relies(b)
      <3>1. /\ b.at = "launch" /\ b.target = r.target /\ b.config = r.config /\ b.built = r.built
            /\ b.image = r.image /\ b.raced = r.raced
            /\ b.uri.repository = repository /\ b.uri.image = r.image
        BY <2>4, <2>6 DEF D!Builder
      <3> QED
        BY <1>2, <2>2, <3>1 DEF D!Relies, D!HasBuilt, D!HasUri
    <2>9. x9' = [x9 EXCEPT ![p] = b]
      <3>1. x9' = [x9 EXCEPT ![p].at = "launch", ![p].uri = uri]
        BY <1>1, <2>1, <2>4 DEF D!Uri
      <3>2. x9 \in [Builders -> D!Builder]
        BY DEF D!BuildInv, D!BuildTyped
      <3> QED
        BY <1>1, <2>6, <3>1, <3>2
    <2> QED
      BY <1>3, <2>7, <2>8, <2>9, AloneKeeps
  <1> QED
    BY <1>4, <1>5

\* The project and the base image change beside the commands.
LEMMA OutsideKeeps ==
  ASSUME D!BuildInv, UNCHANGED <<x1, x4, x5, x6, x7, x8, x9>>, x2' \in {1, 2}, x3' \in {1, 2}
  PROVE  D!BuildInv'
  <1>1. D!BuildTyped'
    BY DEF D!BuildInv, D!BuildTyped, D!Stands
  <1>2. D!RegistryHas'
    BY DEF D!BuildInv, D!RegistryHas
  <1>3. ASSUME NEW p \in Builders PROVE D!Relies(x9[p])'
    <2>1. PICK r : r = x9[p]
      OBVIOUS
    <2>2. D!Relies(r)
      BY <2>1 DEF D!BuildInv
    <2>3. D!Relies(r)'
      BY <2>2, Stays
    <2>4. x9'[p] = r
      BY <2>1
    <2> QED
      BY <2>3, <2>4
  <1> QED
    BY <1>1, <1>2, <1>3 DEF D!BuildInv

\* No step breaks the invariant.
LEMMA BuildStep == D!BuildInv /\ D!Next => D!BuildInv'
  <1> SUFFICES ASSUME D!BuildInv, D!Next PROVE D!BuildInv'
    OBVIOUS
  <1>1. ASSUME NEW p \in Builders, D!Connect(p) PROVE D!BuildInv'
    BY <1>1, PlaceKeeps DEF D!Connect, D!At
  <1>2. ASSUME NEW p \in Builders, D!Script(p) PROVE D!BuildInv'
    <2>1. D!Goes(p, "build") \/ D!Goes(p, "pull") \/ D!Goes(p, "failed")
      BY <1>2 DEF D!Script, D!AfterScript
    <2> QED
      BY <1>2, <2>1, PlaceKeeps DEF D!Script, D!At
  <1>3. ASSUME NEW p \in Builders, D!Launch(p) PROVE D!BuildInv'
    BY <1>3, PlaceKeeps DEF D!Launch
  <1>4. CASE D!Edit \/ D!BaseMoves
    <2>1. x2 \in {1, 2} /\ x3 \in {1, 2}
      BY DEF D!BuildInv, D!BuildTyped
    <2> QED
      BY <1>4, <2>1, OutsideKeeps DEF D!Edit, D!BaseMoves
  <1> QED
    BY <1>1, <1>2, <1>3, <1>4, RunKeeps, PullKeeps, BuildKeeps, InspectKeeps, TagKeeps, PushKeeps,
       ReloadKeeps DEF D!Next

\* The projects that the model starts with.
LEMMA LayoutsTyped == \A l \in D!Layouts : \A path \in DOMAIN l : l[path] \in D!Configs
  <1> DEFINE only(path, c) == [p \in {path} |-> c]
             pushing == [D!Plain EXCEPT !.push = D!PushTo("reg/app", D!None)]
             other == [D!Plain EXCEPT !.push = D!PushTo("reg:5000/app", D!None), !.src = {"one"}]
             scripted == [D!Plain EXCEPT !.base = D!None, !.script = TRUE, !.data = {"//d/*"}]
             suffixed == [D!Plain EXCEPT !.push = D!PushTo("reg/app", "x"), !.src = {"nothing"}]
             baseless == [D!Plain EXCEPT !.base = D!None]
             outside == [D!Plain EXCEPT !.src = {"../../lib"}]
             unnamed == [D!Plain EXCEPT !.push = D!PushTo(D!Unnamed, D!None)]
             future == [D!Plain EXCEPT !.version = 2]
             Fits(l) == \A path \in DOMAIN l : l[path] \in D!Configs
  <1> USE DEF D!Plain, D!PushTo, D!None, D!NoPush, D!Unnamed
  <1>1. /\ D!Plain \in D!Configs /\ pushing \in D!Configs /\ other \in D!Configs
        /\ scripted \in D!Configs /\ suffixed \in D!Configs
    BY DEF D!Configs, D!Repositories, D!Suffixes, D!Globs
  <1>2. /\ baseless \in D!Configs /\ outside \in D!Configs /\ unnamed \in D!Configs
        /\ future \in D!Configs
    BY DEF D!Configs, D!Repositories, D!Suffixes, D!Globs
  <1>3. D!Layouts = {only("sematic_build", D!Plain), only("sematic_build", pushing),
                     D!With(only("sematic_build", pushing), "d/sematic_build", other),
                     D!With(D!With(only("sematic_build", pushing), "d/sematic_build", scripted),
                            "d/two", suffixed),
                     only("d/one", baseless), only("d/one", outside),
                     only("sematic_build", unnamed), only("sematic_build", future)}
    BY DEF D!Layouts
  <1>4. \A path : \A c \in D!Configs : Fits(only(path, c))
    OBVIOUS
  <1>5. \A l, path : \A c \in D!Configs : Fits(l) => Fits(D!With(l, path, c))
    BY DEF D!With
  <1> HIDE DEF only, pushing, other, scripted, suffixed, baseless, outside, unnamed, future, Fits
  <1>6. \A l \in D!Layouts : Fits(l)
    BY <1>1, <1>2, <1>3, <1>4, <1>5
  <1> QED
    BY <1>6 DEF Fits

LEMMA BuildInit == D!Init => D!BuildInv
  <1> SUFFICES ASSUME D!Init PROVE D!BuildInv
    OBVIOUS
  <1>1. \A path \in DOMAIN x1 : x1[path] \in D!Configs
    BY LayoutsTyped DEF D!Init
  <1>2. D!Idle \in D!Builder
    <2>1. D!Plain \in D!Configs
      BY DEF D!Plain, D!Configs, D!NoPush, D!Repositories, D!Suffixes, D!None, D!Globs
    <2>2. D!NoUri \in [repository : D!Repositories \cup {"d", "e"}, tag : D!Tags \cup {D!None}, image : Nat]
      BY DEF D!NoUri, D!Repositories
    <2> QED
      BY <2>1, <2>2 DEF D!Idle, D!Builder
  <1>3. D!Relies(D!Idle)
    BY DEF D!Relies, D!Idle, D!HasBuilt, D!HasUri
  <1>4. x5 = <<>> /\ x6 = <<>> /\ x7 = <<>> /\ x8 = {} /\ x4 = <<>> /\ x2 = 1 /\ x3 = 1
        /\ x9 = [p \in Builders |-> D!Idle]
    BY DEF D!Init
  <1>5. DOMAIN x5 = {} /\ DOMAIN x6 = {} /\ DOMAIN x7 = {}
    BY <1>4
  <1>6. D!Stands(x5) /\ D!Stands(x7) /\ x6 = [i \in DOMAIN x6 |-> x6[i]]
    BY <1>4, <1>5 DEF D!Stands
  <1>7. x4 \in Seq(D!Contents)
    BY <1>4
  <1>8. D!BuildTyped
    BY <1>1, <1>2, <1>4, <1>5, <1>6, <1>7 DEF D!BuildTyped
  <1>9. D!RegistryHas
    BY <1>5 DEF D!RegistryHas
  <1> QED
    BY <1>3, <1>4, <1>8, <1>9 DEF D!BuildInv

LEMMA BuildStutters == D!BuildInv /\ UNCHANGED allVars => D!BuildInv'
  <1> SUFFICES ASSUME D!BuildInv, UNCHANGED allVars PROVE D!BuildInv'
    OBVIOUS
  <1>1. UNCHANGED <<x1, x2, x3, x4, x5, x6, x7, x8, x9>>
    BY DEF allVars
  <1>2. x2 \in {1, 2} /\ x3 \in {1, 2}
    BY DEF D!BuildInv, D!BuildTyped
  <1> QED
    BY <1>1, <1>2, OutsideKeeps

\* Whatever commands share the Docker server and the registry, a pipeline that is launched
\* can pull its image, and unless it was raced it is the one built from its configuration.
THEOREM LaunchesItsImageAlways == Spec => []LaunchesItsImage
  <1> DEFINE Inv == subject = "docker" => D!BuildInv
  <1>1. Init => Inv
    BY BuildInit DEF Init
  <1>2. Inv /\ [Next]_allVars => Inv'
    <2> SUFFICES ASSUME Inv, [Next]_allVars, subject' = "docker" PROVE D!BuildInv'
      OBVIOUS
    <2>1. CASE Next
      BY <2>1, BuildStep DEF Next
    <2>2. CASE UNCHANGED allVars
      <3>1. D!BuildInv
        BY <2>2 DEF allVars
      <3> QED
        BY <2>2, <3>1, BuildStutters
    <2> QED
      BY <2>1, <2>2
  <1>3. Inv => LaunchesItsImage
    <2> SUFFICES ASSUME D!BuildInv PROVE D!LaunchedCanBePulled /\ D!LaunchedIsTheOneBuilt
      BY DEF LaunchesItsImage
    <2>1. ASSUME NEW p \in D!Launched
          PROVE  /\ x9[p].at = "launched" /\ D!Relies(x9[p])
      BY <2>1 DEF D!Launched, D!At, D!BuildInv
    <2>2. D!LaunchedCanBePulled
      BY <2>1 DEF D!LaunchedCanBePulled, D!Relies, D!HasUri, D!Config
    <2>3. D!LaunchedIsTheOneBuilt
      BY <2>1 DEF D!LaunchedIsTheOneBuilt, D!Relies, D!HasUri, D!HasBuilt, D!Config
    <2> QED
      BY <2>2, <2>3
  <1> QED
    BY <1>1, <1>2, <1>3, PTL DEF Spec

-----------------------------------------------------------------------------
(* The jobs that the server makes.                                            *)

\* Counting is the same in all modules.
LEMMA SameCount == \A R : J!Cardinality(R) = Cardinality(R)
  BY DEF J!Cardinality, Cardinality

\* A finite set in some order has each of its elements once.
LEMMA InOrder ==
  ASSUME NEW T, IsFiniteSet(T)
  PROVE  \E n \in Nat : /\ J!SetToSeq(T) \in [1 .. n -> T]
                        /\ \A a, b \in 1 .. n : J!SetToSeq(T)[a] = J!SetToSeq(T)[b] => a = b
                        /\ \A x \in T : \E a \in 1 .. n : J!SetToSeq(T)[a] = x
  <1>1. PICK n \in Nat : n = Cardinality(T) /\ ExistsBijection(1 .. n, T)
    BY FS_CardinalityType
  <1>2. PICK g \in Bijection(1 .. n, T) : TRUE
    BY <1>1 DEF ExistsBijection
  <1>3. g \in [1 .. n -> T] /\ \A a, b \in 1 .. n : g[a] = g[b] => a = b
    BY <1>2 DEF Bijection, Injection, IsInjective
  <1> DEFINE Is(h) == h \in [1 .. n -> T] /\ \A a, b \in DOMAIN h : h[a] = h[b] => a = b
  <1>4. J!SetToSeq(T) = CHOOSE h \in [1 .. n -> T] : \A a, b \in DOMAIN h : h[a] = h[b] => a = b
    BY <1>1, SameCount DEF J!SetToSeq, J!IsInjective
  <1>5. PICK s : s = J!SetToSeq(T)
    OBVIOUS
  <1>6. s \in [1 .. n -> T] /\ \A a, b \in DOMAIN s : s[a] = s[b] => a = b
    BY <1>3, <1>4, <1>5
  <1>7. s \in Injection(1 .. n, T)
    BY <1>6 DEF Injection, IsInjective
  <1>8. IsFiniteSet(1 .. n) /\ Cardinality(1 .. n) = n
    BY FS_Interval
  <1>9. s \in Surjection(1 .. n, T)
    BY <1>1, <1>7, <1>8, FS_Injection
  <1>10. \A x \in T : \E a \in 1 .. n : s[a] = x
    BY <1>9 DEF Surjection
  <1> QED
    BY <1>5, <1>6, <1>10

\* The settings of a container: at most two, and the server's address before the user's.
LEMMA SettingsFacts ==
  ASSUME NEW e, e \in J!UserSettings, NEW s, s = J!Settings(e)
  PROVE  /\ DOMAIN s \subseteq {"SEMATIC_API_ADDRESS", "AWS_S3_BUCKET"}
         /\ x4.address # J!None => /\ "SEMATIC_API_ADDRESS" \in DOMAIN s
                                   /\ s["SEMATIC_API_ADDRESS"] = x4.address
  <1>1. DOMAIN J!NoEnv = {}
    BY DEF J!NoEnv
  <1>2. DOMAIN e \subseteq {"SEMATIC_API_ADDRESS", "AWS_S3_BUCKET"}
    BY <1>1 DEF J!UserSettings, J!Setting, J!Over
  <1>3. PICK b : b = J!Bucket(e) /\ DOMAIN b \subseteq {"AWS_S3_BUCKET"}
    BY <1>1 DEF J!Bucket, J!Setting
  <1>4. PICK o : o = J!OwnAddress
    OBVIOUS
  <1>5. /\ DOMAIN o \subseteq {"SEMATIC_API_ADDRESS"}
        /\ x4.address # J!None => /\ "SEMATIC_API_ADDRESS" \in DOMAIN o
                                  /\ o["SEMATIC_API_ADDRESS"] = x4.address
    <2>1. CASE x4.address = J!None
      BY <1>1, <1>4, <2>1 DEF J!OwnAddress
    <2>2. CASE x4.address # J!None
      BY <1>4, <2>2 DEF J!OwnAddress, J!Setting
    <2> QED
      BY <2>1, <2>2
  <1>6. PICK r : r = J!Over(o, e)
    OBVIOUS
  <1>7. DOMAIN r = DOMAIN o \cup DOMAIN e /\ \A n \in DOMAIN o : r[n] = o[n]
    BY <1>6 DEF J!Over
  <1>8. /\ s = J!Over(b, r) /\ DOMAIN s = DOMAIN b \cup DOMAIN r
        /\ \A n \in DOMAIN r \ DOMAIN b : s[n] = r[n]
    <2>1. s = J!Over(b, r)
      BY <1>3, <1>4, <1>6 DEF J!Settings
    <2> QED
      BY <2>1 DEF J!Over
  <1> QED
    BY <1>2, <1>3, <1>5, <1>7, <1>8

\* The last place of a name is where it is seen.
LEMMA SeenLast ==
  ASSUME NEW env, NEW name, NEW n \in Int, DOMAIN env \subseteq Int,
         {m \in DOMAIN env : env[m][1] = name} = {n}
  PROVE  J!Seen(env, name) = env[n][2]
  <1>1. (CHOOSE k \in {n} : \A m \in {n} : m <= k) = n
    OBVIOUS
  <1> QED
    BY <1>1 DEF J!Seen

\* What a container sees.
LEMMA EnvironmentSeen ==
  ASSUME NEW e, e \in J!UserSettings, NEW image, NEW ask, ask.envSecrets \subseteq {"SEMATIC_API_ADDRESS"}
  PROVE  /\ J!Seen(J!Environment(image, e, ask), "SEMATIC_CONTAINER_IMAGE") = image
         /\ "SEMATIC_API_ADDRESS" \notin ask.envSecrets /\ x4.address # J!None =>
              J!Seen(J!Environment(image, e, ask), "SEMATIC_API_ADDRESS") = x4.address
  <1>1. PICK s : s = J!Settings(e)
    OBVIOUS
  <1>2. /\ DOMAIN s \subseteq {"SEMATIC_API_ADDRESS", "AWS_S3_BUCKET"}
        /\ x4.address # J!None => /\ "SEMATIC_API_ADDRESS" \in DOMAIN s
                                  /\ s["SEMATIC_API_ADDRESS"] = x4.address
    BY <1>1, SettingsFacts
  <1> DEFINE P == {<<name, s[name]>> : name \in DOMAIN s}
             Q == {<<name, "secret">> : name \in ask.envSecrets}
  <1>3. IsFiniteSet(P)
    <2>1. P \subseteq {<<"SEMATIC_API_ADDRESS", s["SEMATIC_API_ADDRESS"]>>, <<"AWS_S3_BUCKET", s["AWS_S3_BUCKET"]>>}
      BY <1>2
    <2>2. \A a, b : IsFiniteSet({a, b})
      <3> SUFFICES ASSUME NEW a, NEW b PROVE IsFiniteSet({a, b})
        OBVIOUS
      <3>1. IsFiniteSet({a}) /\ IsFiniteSet({b})
        BY FS_Singleton
      <3>2. {a, b} = {a} \cup {b}
        OBVIOUS
      <3>3. IsFiniteSet({a} \cup {b})
        BY <3>1, FS_Union, Zenon
      <3> QED
        BY <3>2, <3>3
    <2> QED
      BY <2>1, <2>2, FS_Subset
  <1>4. IsFiniteSet(Q)
    <2>1. Q \subseteq {<<"SEMATIC_API_ADDRESS", "secret">>}
      OBVIOUS
    <2>2. IsFiniteSet({<<"SEMATIC_API_ADDRESS", "secret">>})
      BY FS_Singleton
    <2> QED
      BY <2>1, <2>2, FS_Subset
  <1>5. PICK p, q : p = J!SetToSeq(P) /\ q = J!SetToSeq(Q)
    OBVIOUS
  <1>6. PICK n \in Nat, m \in Nat :
          /\ p \in [1 .. n -> P] /\ \A a, b \in 1 .. n : p[a] = p[b] => a = b
          /\ \A x \in P : \E a \in 1 .. n : p[a] = x
          /\ q \in [1 .. m -> Q]
    <2> HIDE DEF P, Q
    <2>1. PICK n \in Nat :
                          /\ J!SetToSeq(P) \in [1 .. n -> P]
                          /\ \A a, b \in 1 .. n : J!SetToSeq(P)[a] = J!SetToSeq(P)[b] => a = b
                          /\ \A x \in P : \E a \in 1 .. n : J!SetToSeq(P)[a] = x
      BY <1>3, InOrder, Zenon
    <2>2. PICK m \in Nat : J!SetToSeq(Q) \in [1 .. m -> Q]
      BY <1>4, InOrder, Zenon
    <2> QED
      BY <1>5, <2>1, <2>2
  <1>7. PICK fixed : fixed = <<<<"SEMATIC_CONTAINER_IMAGE", image>>, <<"ON_WORKER", "1">>, <<"POD_NAME", "own">>>>
    OBVIOUS
  <1>8. PICK env : env = (fixed \o p) \o q
    OBVIOUS
  <1>9. J!Environment(image, e, ask) = env
    BY <1>1, <1>5, <1>6, <1>7, <1>8 DEF J!Environment, J!Pairs, J!Fixed, J!Var
  <1>10. /\ \A x \in P : x[1] \in {"SEMATIC_API_ADDRESS", "AWS_S3_BUCKET"}
         /\ \A x \in P : x[1] = "SEMATIC_API_ADDRESS" => x = <<"SEMATIC_API_ADDRESS", s["SEMATIC_API_ADDRESS"]>>
         /\ \A x \in Q : x[1] \in ask.envSecrets
    BY <1>2
  <1>11. "SEMATIC_API_ADDRESS" \in DOMAIN s => <<"SEMATIC_API_ADDRESS", s["SEMATIC_API_ADDRESS"]>> \in P
    OBVIOUS
  <1> HIDE DEF P, Q
  <1>12. /\ DOMAIN env = 1 .. (3 + n + m)
         /\ env[1] = <<"SEMATIC_CONTAINER_IMAGE", image>>
         /\ env[2] = <<"ON_WORKER", "1">> /\ env[3] = <<"POD_NAME", "own">>
         /\ \A a \in 1 .. n : env[3 + a] = p[a]
         /\ \A a \in 1 .. m : env[3 + n + a] = q[a]
    <2>1. PICK U : U = P \cup Q \cup {<<"SEMATIC_CONTAINER_IMAGE", image>>, <<"ON_WORKER", "1">>,
                                        <<"POD_NAME", "own">>}
      OBVIOUS
    <2>2. fixed \in Seq(U) /\ Len(fixed) = 3
      BY <1>7, <2>1
    <2>3. p \in Seq(U) /\ Len(p) = n /\ q \in Seq(U) /\ Len(q) = m
      BY <1>6, <2>1
    <2>4. /\ fixed \o p \in Seq(U) /\ Len(fixed \o p) = Len(fixed) + Len(p)
          /\ \A a \in 1 .. Len(fixed) + Len(p) :
               (fixed \o p)[a] = IF a <= Len(fixed) THEN fixed[a] ELSE p[a - Len(fixed)]
      BY <2>2, <2>3, ConcatProperties, Zenon
    <2> DEFINE front == fixed \o p
    <2> HIDE DEF front
    <2>5. /\ front \in Seq(U) /\ Len(front) = 3 + n /\ \A a \in 1 .. 3 : front[a] = fixed[a]
          /\ \A a \in 1 .. n : front[3 + a] = p[a]
      <3>1. /\ front \in Seq(U) /\ Len(front) = 3 + n
            /\ \A a \in 1 .. 3 + n : front[a] = IF a <= 3 THEN fixed[a] ELSE p[a - 3]
        BY <2>2, <2>3, <2>4 DEF front
      <3>2. ASSUME NEW a \in 1 .. n PROVE front[3 + a] = p[a]
        <4>1. PICK b : b = 3 + a /\ b \in 1 .. 3 + n /\ ~(b <= 3) /\ b - 3 = a
          OBVIOUS
        <4> QED
          BY <3>1, <4>1
      <3> QED
        BY <3>1, <3>2
    <2>6. env = front \o q
      BY <1>8 DEF front
    <2>7. /\ front \o q \in Seq(U) /\ Len(front \o q) = Len(front) + Len(q)
          /\ \A a \in 1 .. Len(front) + Len(q) :
               (front \o q)[a] = IF a <= Len(front) THEN front[a] ELSE q[a - Len(front)]
      <3>1. front \in Seq(U)
        BY <2>5
      <3>2. q \in Seq(U)
        BY <2>3
      <3> QED
        BY <3>1, <3>2, ConcatProperties, Zenon
    <2>8. /\ env \in Seq(U) /\ Len(env) = 3 + n + m
          /\ \A a \in 1 .. 3 + n + m : env[a] = IF a <= 3 + n THEN front[a] ELSE q[a - (3 + n)]
      BY <2>3, <2>5, <2>6, <2>7
    <2>9. DOMAIN env = 1 .. (3 + n + m)
      BY <2>8
    <2>10. ASSUME NEW a \in 1 .. 3 PROVE env[a] = fixed[a]
      <3>1. a \in 1 .. 3 + n + m /\ a <= 3 + n
        OBVIOUS
      <3> QED
        BY <2>5, <2>8, <3>1
    <2>11. ASSUME NEW a \in 1 .. n PROVE env[3 + a] = p[a]
      <3>1. PICK b : b = 3 + a /\ b \in 1 .. 3 + n + m /\ b <= 3 + n
        OBVIOUS
      <3> QED
        BY <2>5, <2>8, <3>1
    <2>12. ASSUME NEW a \in 1 .. m PROVE env[3 + n + a] = q[a]
      <3>1. PICK b : b = 3 + n + a /\ b \in 1 .. 3 + n + m /\ ~(b <= 3 + n) /\ b - (3 + n) = a
        OBVIOUS
      <3> QED
        BY <2>8, <3>1
    <2>13. env[1] = fixed[1] /\ env[2] = fixed[2] /\ env[3] = fixed[3]
      BY <2>10
    <2> QED
      BY <1>7, <2>9, <2>11, <2>12, <2>13
  <1>13. \A a \in 1 .. 3 + n + m : /\ a <= 3 \/ (a > 3 /\ a <= 3 + n) \/ a > 3 + n
                                   /\ a > 3 /\ a <= 3 + n => env[a] = p[a - 3] /\ env[a] \in P
                                   /\ a > 3 + n => env[a] = q[a - (3 + n)] /\ env[a] \in Q
    <2> SUFFICES ASSUME NEW a \in 1 .. 3 + n + m
                 PROVE  /\ a > 3 /\ a <= 3 + n => env[a] = p[a - 3] /\ env[a] \in P
                        /\ a > 3 + n => env[a] = q[a - (3 + n)] /\ env[a] \in Q
      OBVIOUS
    <2>1. ASSUME a > 3, a <= 3 + n PROVE env[a] = p[a - 3] /\ env[a] \in P
      <3>1. PICK b : b = a - 3 /\ b \in 1 .. n /\ 3 + b = a
        BY <2>1
      <3>2. env[3 + b] = p[b] /\ p[b] \in P
        BY <1>6, <1>12, <3>1
      <3> QED
        BY <3>1, <3>2
    <2>2. ASSUME a > 3 + n PROVE env[a] = q[a - (3 + n)] /\ env[a] \in Q
      <3>1. PICK b : b = a - (3 + n) /\ b \in 1 .. m /\ 3 + n + b = a
        BY <2>2
      <3>2. env[3 + n + b] = q[b] /\ q[b] \in Q
        BY <1>6, <1>12, <3>1
      <3> QED
        BY <3>1, <3>2
    <2> QED
      BY <2>1, <2>2
  <1>14. J!Seen(env, "SEMATIC_CONTAINER_IMAGE") = image
    <2>1. \A a \in 1 .. 3 + n + m : env[a][1] = "SEMATIC_CONTAINER_IMAGE" => a = 1
      <3> SUFFICES ASSUME NEW a \in 1 .. 3 + n + m, a # 1 PROVE env[a][1] # "SEMATIC_CONTAINER_IMAGE"
        OBVIOUS
      <3>1. CASE a = 2 \/ a = 3
        BY <1>12, <3>1
      <3>2. CASE a > 3
        BY <1>10, <1>13, <3>2
      <3> QED
        BY <3>1, <3>2
    <2>2. {a \in DOMAIN env : env[a][1] = "SEMATIC_CONTAINER_IMAGE"} = {1}
      BY <1>12, <2>1
    <2>3. J!Seen(env, "SEMATIC_CONTAINER_IMAGE") = env[1][2]
      BY <1>12, <2>2, SeenLast
    <2> QED
      BY <1>12, <2>3
  <1>15. ASSUME "SEMATIC_API_ADDRESS" \notin ask.envSecrets, x4.address # J!None
         PROVE  J!Seen(env, "SEMATIC_API_ADDRESS") = x4.address
    <2>1. PICK x \in P : x = <<"SEMATIC_API_ADDRESS", x4.address>>
      BY <1>2, <1>11, <1>15
    <2>2. PICK k \in 1 .. n : p[k] = x
      BY <1>6
    <2>3. \A a \in 1 .. 3 + n + m : env[a][1] = "SEMATIC_API_ADDRESS" => a = 3 + k
      <3> SUFFICES ASSUME NEW a \in 1 .. 3 + n + m, env[a][1] = "SEMATIC_API_ADDRESS" PROVE a = 3 + k
        OBVIOUS
      <3>1. CASE a <= 3
        <4>1. a = 1 \/ a = 2 \/ a = 3
          BY <3>1
        <4> QED
          BY <1>12, <4>1
      <3>2. CASE a > 3 /\ a <= 3 + n
        <4>1. env[a] = x
          BY <1>2, <1>10, <1>13, <1>15, <2>1, <3>2
        <4>2. p[a - 3] = p[k] /\ a - 3 \in 1 .. n
          BY <1>13, <2>2, <3>2, <4>1
        <4>3. a - 3 = k
          BY <1>6, <4>2
        <4> QED
          BY <4>3
      <3>3. CASE a > 3 + n
        BY <1>10, <1>13, <1>15, <3>3
      <3> QED
        BY <3>1, <3>2, <3>3
    <2>4. 3 + k \in DOMAIN env /\ env[3 + k] = x
      BY <1>12, <2>2
    <2>5. {a \in DOMAIN env : env[a][1] = "SEMATIC_API_ADDRESS"} = {3 + k}
      BY <1>12, <2>1, <2>3, <2>4
    <2>6. J!Seen(env, "SEMATIC_API_ADDRESS") = env[3 + k][2]
      <3>1. DOMAIN env \subseteq Int /\ 3 + k \in Int
        BY <1>12
      <3> QED
        BY <2>5, <3>1, SeenLast
    <2> QED
      BY <2>1, <2>4, <2>6
  <1> QED
    BY <1>9, <1>14, <1>15

\* What the functions ask for mounts each host path at a place of its own.
LEMMA AskFacts ==
  ASSUME NEW ask \in J!Requirements \cup {J!Asking}
  PROVE  /\ ask.envSecrets \subseteq {"SEMATIC_API_ADDRESS"}
         /\ \E h \in 0 .. 2 :
              /\ DOMAIN ask.hostPaths = 1 .. h
              /\ \A k \in 1 .. h : /\ ask.hostPaths[k].pod \notin {"/secrets", "/dev/shm"}
                                   /\ \A l \in 1 .. h : ask.hostPaths[k].pod = ask.hostPaths[l].pod => k = l
  <1>0. /\ J!Asking.envSecrets = {} /\ J!Asking.hostPaths = <<>>
        /\ DOMAIN J!Asking = {"files", "envSecrets", "sharedMemory", "context", "hostPaths", "annotations", "labels"}
    BY DEF J!Asking
  <1>1. ask.envSecrets \subseteq {"SEMATIC_API_ADDRESS"}
    BY <1>0 DEF J!Requirements
  <1>2. \/ ask.hostPaths = <<>>
        \/ \E pod \in {"/data", "/a/long/path", "/Data", "relative"} : \E name :
             ask.hostPaths = <<J!HostPath(pod, name)>>
        \/ \E pod \in {"/data", "/a_b"} :
             ask.hostPaths = <<J!HostPath("/a/b", J!None), J!HostPath(pod, J!None)>>
    BY <1>0 DEF J!Requirements
  <1>3. \A pod, name : J!HostPath(pod, name).pod = pod
    BY DEF J!HostPath
  <1>4. CASE ask.hostPaths = <<>>
    <2>1. DOMAIN ask.hostPaths = 1 .. 0
      BY <1>4
    <2> QED
      BY <1>1, <2>1
  <1>5. ASSUME NEW pod \in {"/data", "/a/long/path", "/Data", "relative"}, NEW name,
               ask.hostPaths = <<J!HostPath(pod, name)>>
        PROVE  \E h \in 0 .. 2 :
                 /\ DOMAIN ask.hostPaths = 1 .. h
                 /\ \A k \in 1 .. h :
                      /\ ask.hostPaths[k].pod \notin {"/secrets", "/dev/shm"}
                      /\ \A l \in 1 .. h : ask.hostPaths[k].pod = ask.hostPaths[l].pod => k = l
    <2>1. DOMAIN ask.hostPaths = 1 .. 1 /\ ask.hostPaths[1].pod = pod
      BY <1>3, <1>5
    <2> QED
      BY <2>1
  <1>6. ASSUME NEW pod \in {"/data", "/a_b"},
               ask.hostPaths = <<J!HostPath("/a/b", J!None), J!HostPath(pod, J!None)>>
        PROVE  \E h \in 0 .. 2 :
                 /\ DOMAIN ask.hostPaths = 1 .. h
                 /\ \A k \in 1 .. h :
                      /\ ask.hostPaths[k].pod \notin {"/secrets", "/dev/shm"}
                      /\ \A l \in 1 .. h : ask.hostPaths[k].pod = ask.hostPaths[l].pod => k = l
    <2>1. DOMAIN ask.hostPaths = 1 .. 2 /\ ask.hostPaths[1].pod = "/a/b" /\ ask.hostPaths[2].pod = pod
      BY <1>3, <1>6
    <2> QED
      BY <2>1
  <1> QED
    BY <1>1, <1>2, <1>4, <1>5, <1>6

\* The volumes in their order: the secrets, the shared memory, the host paths.
LEMMA VolumesListed ==
  ASSUME NEW ask, NEW h \in Nat, DOMAIN ask.hostPaths = 1 .. h
  PROVE  \E f \in 0 .. 1, g \in 0 .. 1 :
           /\ DOMAIN J!Volumes(ask) = 1 .. (f + g + h)
           /\ \A n \in 1 .. (f + g + h) :
                \/ n <= f /\ J!Volumes(ask)[n] = J!Volume(J!SecretsName, "/secrets")
                \/ n = f + 1 /\ n <= f + g /\ J!Volumes(ask)[n] = J!Volume(J!MemoryName, "/dev/shm")
                \/ \E k \in 1 .. h :
                     /\ n = f + g + k
                     /\ J!Volumes(ask)[n] = J!Volume(J!GivenName(ask.hostPaths[k]), ask.hostPaths[k].pod)
  <1>1. PICK secrets, memory, host :
          /\ secrets = IF ask.files # {} THEN <<J!Volume(J!SecretsName, "/secrets")>> ELSE <<>>
          /\ memory = IF ask.sharedMemory THEN <<J!Volume(J!MemoryName, "/dev/shm")>> ELSE <<>>
          /\ host = [n \in DOMAIN ask.hostPaths |-> J!Volume(J!GivenName(ask.hostPaths[n]), ask.hostPaths[n].pod)]
    OBVIOUS
  <1>2. J!Volumes(ask) = (secrets \o memory) \o host
    BY <1>1, Zenon DEF J!Volumes
  <1>3. PICK U : U = {J!Volume(J!SecretsName, "/secrets"), J!Volume(J!MemoryName, "/dev/shm")}
                       \cup {host[k] : k \in 1 .. h}
    OBVIOUS
  <1>4. PICK f \in 0 .. 1 : /\ secrets \in Seq(U) /\ Len(secrets) = f
                            /\ f = 1 => secrets[1] = J!Volume(J!SecretsName, "/secrets")
    <2>1. CASE ask.files # {}
      <3>1. PICK x \in U : x = J!Volume(J!SecretsName, "/secrets")
        BY <1>3
      <3>2. secrets = <<x>>
        BY <1>1, <2>1, <3>1, Zenon
      <3>3. secrets \in Seq(U) /\ Len(secrets) = 1 /\ secrets[1] = x
        BY <3>2
      <3> QED
        BY <3>1, <3>3
    <2>2. CASE ~(ask.files # {})
      <3>1. secrets = <<>>
        BY <1>1, <2>2, Zenon
      <3> QED
        BY <3>1
    <2> QED
      BY <2>1, <2>2
  <1>5. PICK g \in 0 .. 1 : /\ memory \in Seq(U) /\ Len(memory) = g
                            /\ g = 1 => memory[1] = J!Volume(J!MemoryName, "/dev/shm")
    <2>1. CASE ask.sharedMemory
      <3>1. PICK x \in U : x = J!Volume(J!MemoryName, "/dev/shm")
        BY <1>3
      <3>2. memory = <<x>>
        BY <1>1, <2>1, <3>1, Zenon
      <3>3. memory \in Seq(U) /\ Len(memory) = 1 /\ memory[1] = x
        BY <3>2
      <3> QED
        BY <3>1, <3>3
    <2>2. CASE ~(ask.sharedMemory)
      <3>1. memory = <<>>
        BY <1>1, <2>2, Zenon
      <3> QED
        BY <3>1
    <2> QED
      BY <2>1, <2>2
  <1>6. /\ host \in Seq(U) /\ Len(host) = h
        /\ \A k \in 1 .. h : host[k] = J!Volume(J!GivenName(ask.hostPaths[k]), ask.hostPaths[k].pod)
    <2>1. host \in [1 .. h -> U]
      BY <1>1, <1>3
    <2> QED
      BY <1>1, <2>1
  <1>7. /\ secrets \o memory \in Seq(U) /\ Len(secrets \o memory) = Len(secrets) + Len(memory)
        /\ \A a \in 1 .. Len(secrets) + Len(memory) :
             (secrets \o memory)[a] = IF a <= Len(secrets) THEN secrets[a] ELSE memory[a - Len(secrets)]
    <2>1. secrets \in Seq(U)
      BY <1>4
    <2>2. memory \in Seq(U)
      BY <1>5
    <2> QED
      BY <2>1, <2>2, ConcatProperties, Zenon
  <1> DEFINE own == secrets \o memory
  <1> HIDE DEF own
  <1>8. /\ own \in Seq(U) /\ Len(own) = f + g
        /\ \A a \in 1 .. f + g : own[a] = IF a <= f THEN secrets[a] ELSE memory[a - f]
    BY <1>4, <1>5, <1>7 DEF own
  <1>9. /\ own \o host \in Seq(U) /\ Len(own \o host) = Len(own) + Len(host)
        /\ \A a \in 1 .. Len(own) + Len(host) :
             (own \o host)[a] = IF a <= Len(own) THEN own[a] ELSE host[a - Len(own)]
    <2>1. own \in Seq(U)
      BY <1>8
    <2>2. host \in Seq(U)
      BY <1>6
    <2> QED
      BY <2>1, <2>2, ConcatProperties, Zenon
  <1>10. PICK all : all = own \o host
    OBVIOUS
  <1>11. J!Volumes(ask) = all
    BY <1>2, <1>10 DEF own
  <1>12. /\ all \in Seq(U) /\ Len(all) = f + g + h
         /\ \A a \in 1 .. f + g + h : all[a] = IF a <= f + g THEN own[a] ELSE host[a - (f + g)]
    BY <1>6, <1>8, <1>9, <1>10
  <1>13. ASSUME NEW n \in 1 .. (f + g + h)
         PROVE  \/ n <= f /\ all[n] = J!Volume(J!SecretsName, "/secrets")
                \/ n = f + 1 /\ n <= f + g /\ all[n] = J!Volume(J!MemoryName, "/dev/shm")
                \/ \E k \in 1 .. h :
                     /\ n = f + g + k
                     /\ all[n] = J!Volume(J!GivenName(ask.hostPaths[k]), ask.hostPaths[k].pod)
    <2>1. CASE n <= f
      <3>1. n = 1 /\ f = 1 /\ all[n] = own[n] /\ own[n] = secrets[1]
        BY <1>8, <1>12, <2>1
      <3> QED
        BY <1>4, <2>1, <3>1
    <2>2. CASE n > f /\ n <= f + g
      <3>1. n = f + 1 /\ g = 1 /\ n - f = 1
        BY <2>2
      <3>2. all[n] = own[n] /\ own[n] = memory[1]
        BY <1>8, <1>12, <2>2, <3>1
      <3> QED
        BY <1>5, <2>2, <3>1, <3>2
    <2>3. CASE n > f + g
      <3>1. PICK k : k = n - (f + g) /\ k \in 1 .. h /\ n = f + g + k
        BY <2>3
      <3>2. all[n] = host[k]
        BY <1>12, <2>3, <3>1
      <3> QED
        BY <1>6, <3>1, <3>2
    <2> QED
      BY <2>1, <2>2, <2>3
  <1>14. DOMAIN all = 1 .. (f + g + h)
    BY <1>12
  <1> QED
    BY <1>11, <1>13, <1>14, Zenon

\* The volumes that Kubernetes is asked to mount are what it takes, but for odd host paths.
LEMMA VolumesAccepted ==
  ASSUME NEW ask \in J!Requirements \cup {J!Asking}, ~J!OddHostPaths(ask), NEW V, V = J!Volumes(ask)
  PROVE  \A n \in DOMAIN V : /\ J!ShortLabel(V[n].name)
                             /\ \A m \in DOMAIN V : m # n => V[m].name # V[n].name /\ V[m].path # V[n].path
  <1>1. PICK h \in 0 .. 2 :
          /\ DOMAIN ask.hostPaths = 1 .. h
          /\ \A k \in 1 .. h : /\ ask.hostPaths[k].pod \notin {"/secrets", "/dev/shm"}
                               /\ \A l \in 1 .. h : ask.hostPaths[k].pod = ask.hostPaths[l].pod => k = l
    BY AskFacts
  <1>2. PICK f \in 0 .. 1, g \in 0 .. 1 :
           /\ DOMAIN V = 1 .. (f + g + h)
           /\ \A n \in 1 .. (f + g + h) :
                \/ n <= f /\ V[n] = J!Volume(J!SecretsName, "/secrets")
                \/ n = f + 1 /\ n <= f + g /\ V[n] = J!Volume(J!MemoryName, "/dev/shm")
                \/ \E k \in 1 .. h :
                     /\ n = f + g + k
                     /\ V[n] = J!Volume(J!GivenName(ask.hostPaths[k]), ask.hostPaths[k].pod)
    <2>1. h \in Nat
      OBVIOUS
    <2>2. DOMAIN ask.hostPaths = 1 .. h
      BY <1>1
    <2>3. \E f \in 0 .. 1, g \in 0 .. 1 :
           /\ DOMAIN J!Volumes(ask) = 1 .. (f + g + h)
           /\ \A n \in 1 .. (f + g + h) :
                \/ n <= f /\ J!Volumes(ask)[n] = J!Volume(J!SecretsName, "/secrets")
                \/ n = f + 1 /\ n <= f + g /\ J!Volumes(ask)[n] = J!Volume(J!MemoryName, "/dev/shm")
                \/ \E k \in 1 .. h :
                     /\ n = f + g + k
                     /\ J!Volumes(ask)[n] = J!Volume(J!GivenName(ask.hostPaths[k]), ask.hostPaths[k].pod)
      BY <2>1, <2>2, VolumesListed, Zenon
    <2> QED
      BY <2>3, Zenon
  <1>3. \A name, path : J!Volume(name, path).name = name /\ J!Volume(name, path).path = path
    BY DEF J!Volume
  <1>4. \A k \in 1 .. h : J!ShortLabel(J!GivenName(ask.hostPaths[k]))
    BY <1>1 DEF J!OddHostPaths
  <1>5. J!ShortLabel(J!SecretsName) /\ J!ShortLabel(J!MemoryName) /\ J!SecretsName # J!MemoryName
    BY DEF J!ShortLabel, J!Label, J!SecretsName, J!MemoryName
  <1>6. h > 0 => \A m, n \in DOMAIN V : m # n => V[m].name # V[n].name
    <2>1. h > 0 => 1 \in DOMAIN ask.hostPaths
      BY <1>1
    <2>2. (\E k \in DOMAIN ask.hostPaths : TRUE) => \A m, n \in DOMAIN V : m # n => V[m].name # V[n].name
      BY DEF J!OddHostPaths
    <2> QED
      BY <2>1, <2>2
  <1>7. \A n \in DOMAIN V :
          \/ n <= f /\ n = 1 /\ V[n].name = J!SecretsName /\ V[n].path = "/secrets"
          \/ n = f + 1 /\ n <= f + g /\ V[n].name = J!MemoryName /\ V[n].path = "/dev/shm"
          \/ \E k \in 1 .. h : n = f + g + k /\ V[n].name = J!GivenName(ask.hostPaths[k])
                                             /\ V[n].path = ask.hostPaths[k].pod
    BY <1>2, <1>3
  <1>8. ASSUME NEW n \in DOMAIN V PROVE J!ShortLabel(V[n].name)
    BY <1>4, <1>5, <1>7
  <1>9. ASSUME NEW n \in DOMAIN V, NEW m \in DOMAIN V, m # n PROVE V[m].path # V[n].path
    <2>1. DOMAIN V \subseteq Int
      BY <1>2
    <2> QED
      BY <1>1, <1>7, <1>9, <2>1
  <1>10. ASSUME h = 0, NEW n \in DOMAIN V, NEW m \in DOMAIN V, m # n PROVE V[m].name # V[n].name
    BY <1>5, <1>7, <1>10
  <1> QED
    BY <1>6, <1>8, <1>9, <1>10

\* Kubernetes takes a new job of a run, and the first of the pipeline run.
LEMMA JobAccepted ==
  ASSUME J!ManifestInv, NEW run \in J!Runs \cup {0}, NEW ask \in J!Requirements \cup {J!Asking},
         ~J!OddHostPaths(ask), run = 0 => \A n \in DOMAIN x5 : x5[n].run # 0
  PROVE  J!Accepts(J!Job(run, ask))
  <1>1. PICK job : job = J!Job(run, ask)
    OBVIOUS
  <1>2. PICK V : V = J!Volumes(ask)
    OBVIOUS
  <1> DEFINE Earlier == {n \in DOMAIN x5 : x5[n].run = run}
  <1>3. /\ job.volumes = V
        /\ job.name = <<run, IF run = 0 THEN 0 ELSE J!Cardinality(Earlier)>>
    BY <1>1, <1>2 DEF J!Job
  <1>4. \A n \in DOMAIN V : /\ J!ShortLabel(V[n].name)
                            /\ \A m \in DOMAIN V : m # n => V[m].name # V[n].name /\ V[m].path # V[n].path
    BY <1>2, VolumesAccepted
  <1>5. /\ J!AllDifferent([n \in DOMAIN V |-> V[n].name]) /\ J!AllDifferent([n \in DOMAIN V |-> V[n].path])
        /\ \A n \in DOMAIN V : J!ShortLabel(V[n].name)
    BY <1>4 DEF J!AllDifferent
  <1>6. ASSUME NEW n \in DOMAIN x5, x5[n].name = job.name PROVE FALSE
    <2>1. x5[n].run = run
      BY <1>3, <1>6 DEF J!ManifestInv, J!Numbered
    <2>2. run # 0
      BY <2>1
    <2>3. J!Cardinality(J!Before(n)) = J!Cardinality(Earlier)
      BY <1>3, <1>6, <2>1, <2>2 DEF J!ManifestInv, J!Numbered
    <2>4. x5 \in Seq({x5[k] : k \in DOMAIN x5}) /\ n \in 1 .. Len(x5) /\ DOMAIN x5 = 1 .. Len(x5)
      BY DEF J!ManifestInv
    <2>5. J!Before(n) \subseteq Earlier /\ n \in Earlier /\ n \notin J!Before(n)
      BY <2>1, <2>4 DEF J!Before
    <2>6. IsFiniteSet(Earlier)
      <3>1. IsFiniteSet(1 .. Len(x5)) /\ Earlier \subseteq 1 .. Len(x5)
        BY <2>4, FS_Interval
      <3> QED
        BY <3>1, FS_Subset
    <2>7. Cardinality(J!Before(n)) < Cardinality(Earlier)
      <3> HIDE DEF Earlier
      <3>1. Cardinality(J!Before(n)) <= Cardinality(Earlier)
            /\ (Cardinality(Earlier) = Cardinality(J!Before(n)) => Earlier = J!Before(n))
        BY <2>5, <2>6, FS_Subset
      <3>2. Cardinality(Earlier) \in Nat /\ Cardinality(J!Before(n)) \in Nat
        BY <2>5, <2>6, FS_Subset, FS_CardinalityType
      <3> QED
        BY <2>5, <3>1, <3>2
    <2>8. Cardinality(Earlier) \in Nat /\ Cardinality(J!Before(n)) = Cardinality(Earlier)
      BY <2>3, <2>6, FS_CardinalityType, SameCount
    <2> QED
      BY <2>7, <2>8
  <1> QED
    BY <1>1, <1>3, <1>5, <1>6 DEF J!Accepts

\* The invariant without what it says of the pipeline and the requirements.
JobsInv == /\ x5 \in Seq({x5[n] : n \in DOMAIN x5}) /\ \A n \in DOMAIN x5 : J!Numbered(n)
           /\ J!SubmittedIsAccepted /\ J!WorkersMeetTheServer

\* A job that is submitted leaves the jobs as they should be.
LEMMA SendKeeps ==
  ASSUME J!ManifestInv, NEW run \in J!Runs \cup {0}, NEW ask \in J!Requirements \cup {J!Asking},
         J!Send(J!Job(run, ask))
  PROVE  JobsInv'
  <1>1. PICK job : job = J!Job(run, ask)
    OBVIOUS
  <1>2. PICK new : new = [job EXCEPT !.accepted = J!Accepts(job)] /\ x5' = Append(x5, new)
    BY <1>1 DEF J!Send
  <1>3. PICK env : env = J!Environment(x1.image, x1.settings, ask)
    OBVIOUS
  <1>4. /\ DOMAIN job = {"name", "run", "image", "asked", "volumes", "annotations", "labels", "address",
                          "environment", "accepted"}
        /\ job.run = run /\ job.image = x1.image /\ job.asked = ask /\ job.address = x4.address
        /\ job.environment = env /\ job.name[1] = run
        /\ run # 0 => job.name[2] = J!Cardinality({n \in DOMAIN x5 : x5[n].run = run})
    BY <1>1, <1>3 DEF J!Job
  <1>5. /\ new.run = run /\ new.image = x1.image /\ new.asked = ask /\ new.address = x4.address
        /\ new.environment = env /\ new.name = job.name /\ new.accepted = J!Accepts(job)
    BY <1>2, <1>4
  <1>6. PICK N \in Nat : /\ N = Len(x5) /\ DOMAIN x5 = 1 .. N /\ DOMAIN x5' = 1 .. N + 1
                         /\ x5'[N + 1] = new /\ \A n \in 1 .. N : x5'[n] = x5[n]
                         /\ x5' \in Seq({x5'[n] : n \in DOMAIN x5'})
    <2>1. PICK U : U = {x5[n] : n \in DOMAIN x5} \cup {new}
      OBVIOUS
    <2>2. x5 \in Seq({x5[n] : n \in DOMAIN x5})
      BY DEF J!ManifestInv
    <2>3. x5 \in Seq(U) /\ new \in U
      BY <2>1, <2>2
    <2>4. /\ Append(x5, new) \in Seq(U) /\ Len(Append(x5, new)) = Len(x5) + 1
          /\ \A i \in 1 .. Len(x5) : Append(x5, new)[i] = x5[i]
          /\ Append(x5, new)[Len(x5) + 1] = new
      BY <2>3
    <2>5. PICK s : s = x5'
      OBVIOUS
    <2>6. /\ s \in Seq(U) /\ Len(s) = Len(x5) + 1 /\ DOMAIN s = 1 .. Len(x5) + 1
          /\ \A i \in 1 .. Len(x5) : s[i] = x5[i] /\ s[Len(x5) + 1] = new
      BY <1>2, <2>4, <2>5
    <2>7. s \in Seq({s[n] : n \in DOMAIN s})
      BY <2>6
    <2>8. Len(x5) \in Nat /\ DOMAIN x5 = 1 .. Len(x5) /\ s[Len(x5) + 1] = new
      BY <1>2, <2>3, <2>4, <2>5
    <2> QED
      BY <2>5, <2>6, <2>7, <2>8
  <1>7. \A n \in 1 .. N + 1 : n \in 1 .. N \/ n = N + 1
    OBVIOUS
  <1>8. ASSUME NEW n \in 1 .. N PROVE J!Before(n)' = J!Before(n)
    BY <1>6 DEF J!Before
  <1>9. J!Before(N + 1)' = {n \in DOMAIN x5 : x5[n].run = run}
    BY <1>5, <1>6 DEF J!Before
  <1>10. ASSUME NEW n \in 1 .. N + 1 PROVE J!Numbered(n)'
    <2>1. CASE n \in 1 .. N
      <3>1. J!Numbered(n)
        BY <1>6, <2>1 DEF J!ManifestInv
      <3> QED
        BY <1>6, <1>8, <2>1, <3>1 DEF J!Numbered
    <2>2. CASE n = N + 1
      BY <1>4, <1>5, <1>6, <1>9, <2>2 DEF J!Numbered
    <2> QED
      BY <1>7, <2>1, <2>2
  <1>11. ASSUME NEW n \in 1 .. N + 1, NEW o, o = x5'[n]
         PROVE  o.accepted \/ (o.run = 0 /\ \E m \in 1 .. n - 1 : x5'[m].run = 0) \/ J!OddHostPaths(o.asked)
    <2>1. CASE n \in 1 .. N
      <3>1. o = x5[n]
        BY <1>6, <1>11, <2>1
      <3>2. o.accepted \/ (o.run = 0 /\ \E m \in 1 .. n - 1 : x5[m].run = 0) \/ J!OddHostPaths(o.asked)
        BY <1>6, <2>1, <3>1 DEF J!ManifestInv, J!SubmittedIsAccepted
      <3>3. \A m \in 1 .. n - 1 : x5'[m] = x5[m]
        BY <1>6, <2>1
      <3> QED
        BY <3>2, <3>3
    <2>2. CASE n = N + 1
      <3>1. o = new
        BY <1>6, <1>11, <2>2
      <3>2. CASE run = 0 /\ \E m \in DOMAIN x5 : x5[m].run = 0
        <4>1. PICK m \in 1 .. N : x5'[m].run = 0
          BY <1>6, <3>2
        <4>2. m \in 1 .. n - 1
          BY <2>2
        <4> QED
          BY <1>5, <3>1, <3>2, <4>1, <4>2
      <3>3. CASE run = 0 => \A m \in DOMAIN x5 : x5[m].run # 0
        <4>1. J!OddHostPaths(ask) \/ J!Accepts(job)
          BY <1>1, <3>3, JobAccepted
        <4> QED
          BY <1>5, <3>1, <4>1
      <3> QED
        BY <3>2, <3>3
    <2> QED
      BY <1>7, <2>1, <2>2
  <1>12. ASSUME NEW n \in 1 .. N + 1, NEW o, o = x5'[n]
         PROVE  /\ J!Seen(o.environment, "SEMATIC_CONTAINER_IMAGE") = o.image
                /\ \/ "SEMATIC_API_ADDRESS" \in o.asked.envSecrets
                   \/ o.address \in {J!None, J!Seen(o.environment, "SEMATIC_API_ADDRESS")}
    <2>1. CASE n \in 1 .. N
      <3>1. o = x5[n] /\ n \in DOMAIN x5
        BY <1>6, <1>12, <2>1
      <3> QED
        BY <3>1 DEF J!ManifestInv, J!WorkersMeetTheServer
    <2>2. CASE n = N + 1
      <3>1. o = new
        BY <1>6, <1>12, <2>2
      <3>2. x1.settings \in J!UserSettings
        BY DEF J!ManifestInv
      <3>3. ask.envSecrets \subseteq {"SEMATIC_API_ADDRESS"}
        BY AskFacts
      <3>4. /\ J!Seen(env, "SEMATIC_CONTAINER_IMAGE") = x1.image
            /\ "SEMATIC_API_ADDRESS" \notin ask.envSecrets /\ x4.address # J!None =>
                 J!Seen(env, "SEMATIC_API_ADDRESS") = x4.address
        BY <1>3, <3>2, <3>3, EnvironmentSeen
      <3> QED
        BY <1>5, <3>1, <3>4
    <2> QED
      BY <1>7, <2>1, <2>2
  <1>13. J!SubmittedIsAccepted'
    <2>1. \A n \in 1 .. N + 1 : \/ x5'[n].accepted
                                \/ x5'[n].run = 0 /\ \E m \in 1 .. n - 1 : x5'[m].run = 0
                                \/ J!OddHostPaths(x5'[n].asked)
      BY <1>11
    <2> QED
      BY <1>6, <2>1 DEF J!SubmittedIsAccepted
  <1>14. J!WorkersMeetTheServer'
    <2>1. \A n \in 1 .. N + 1 :
            /\ J!Seen(x5'[n].environment, "SEMATIC_CONTAINER_IMAGE") = x5'[n].image
            /\ \/ "SEMATIC_API_ADDRESS" \in x5'[n].asked.envSecrets
               \/ x5'[n].address \in {J!None, J!Seen(x5'[n].environment, "SEMATIC_API_ADDRESS")}
      BY <1>12
    <2> QED
      BY <1>6, <2>1 DEF J!WorkersMeetTheServer
  <1> QED
    BY <1>6, <1>10, <1>13, <1>14 DEF JobsInv

LEMMA JobsStay ==
  ASSUME J!ManifestInv, UNCHANGED x5
  PROVE  JobsInv'
  <1>1. x5 \in Seq({x5[n] : n \in DOMAIN x5}) /\ x5' \in Seq({x5'[n] : n \in DOMAIN x5'})
    BY DEF J!ManifestInv
  <1>2. ASSUME NEW n \in DOMAIN x5 PROVE J!Numbered(n)'
    <2>1. J!Numbered(n) /\ J!Before(n)' = J!Before(n)
      BY DEF J!ManifestInv, J!Before
    <2> QED
      BY <2>1 DEF J!Numbered
  <1>3. J!SubmittedIsAccepted'
    BY DEF J!ManifestInv, J!SubmittedIsAccepted
  <1>4. J!WorkersMeetTheServer'
    BY DEF J!ManifestInv, J!WorkersMeetTheServer
  <1> QED
    BY <1>1, <1>2, <1>3, <1>4 DEF JobsInv

LEMMA ManifestInit == J!Init => J!ManifestInv
  <1> SUFFICES ASSUME J!Init PROVE J!ManifestInv
    OBVIOUS
  <1>1. x5 = <<>> /\ DOMAIN x5 = {}
    BY DEF J!Init
  <1>2. J!SubmittedIsAccepted /\ J!WorkersMeetTheServer /\ \A n \in DOMAIN x5 : J!Numbered(n)
    BY <1>1 DEF J!SubmittedIsAccepted, J!WorkersMeetTheServer
  <1>3. x5 \in Seq({x5[n] : n \in DOMAIN x5})
    BY <1>1
  <1>4. PICK image \in {"image", J!None}, version \in {1, 2}, settings \in J!UserSettings :
          x1 = [status |-> "CREATED", image |-> image, version |-> version, settings |-> settings]
    BY DEF J!Init
  <1>5. x1 \in [status : {"CREATED", "SCHEDULED", "RUNNING"}, image : {"image", J!None}, version : {1, 2},
                settings : J!UserSettings]
    BY <1>4
  <1>6. x2 \in J!Requirements
    BY DEF J!Init
  <1> QED
    BY <1>2, <1>3, <1>5, <1>6 DEF J!ManifestInv

\* A request is refused, or it sends a job.
LEMMA ManifestStep ==
  ASSUME J!ManifestInv, J!Next
  PROVE  J!ManifestInv'
  <1> DEFINE Pipelines == [status : {"CREATED", "SCHEDULED", "RUNNING"}, image : {"image", J!None},
                           version : {1, 2}, settings : J!UserSettings]
             Same == UNCHANGED x1 \/ \E status \in {"SCHEDULED", "RUNNING"} : x1' = [x1 EXCEPT !.status = status]
             Sends == \E run \in J!Runs \cup {0}, ask \in J!Requirements \cup {J!Asking} : J!Send(J!Job(run, ask))
  <1>1. x1 \in Pipelines /\ x2 \in J!Requirements
    BY DEF J!ManifestInv
  <1>2. Same /\ UNCHANGED x2 /\ (UNCHANGED x5 \/ Sends)
    <2>1. ASSUME J!ScheduleResolution PROVE Same /\ UNCHANGED x2 /\ (UNCHANGED x5 \/ Sends)
      <3>1. UNCHANGED x2 /\ Same
        BY <2>1, Zenon DEF J!ScheduleResolution, J!Refuse
      <3>2. UNCHANGED x5 \/ J!Send(J!Job(0, J!Asking))
        BY <2>1, Zenon DEF J!ScheduleResolution, J!Refuse
      <3>3. 0 \in J!Runs \cup {0} /\ J!Asking \in J!Requirements \cup {J!Asking}
        OBVIOUS
      <3> QED
        BY <3>1, <3>2, <3>3, Zenon
    <2>2. ASSUME J!RunnerStarts PROVE Same /\ UNCHANGED x2 /\ UNCHANGED x5
      BY <2>2 DEF J!RunnerStarts
    <2>3. ASSUME NEW r \in J!Runs, J!ScheduleRun(r) PROVE Same /\ UNCHANGED x2 /\ (UNCHANGED x5 \/ Sends)
      <3>1. UNCHANGED <<x1, x2>>
        BY <2>3, Zenon DEF J!ScheduleRun, J!Refuse
      <3>2. UNCHANGED x5 \/ J!Send(J!Job(r, x2))
        BY <2>3, Zenon DEF J!ScheduleRun, J!Refuse
      <3>3. r \in J!Runs \cup {0} /\ x2 \in J!Requirements \cup {J!Asking}
        BY <1>1
      <3> QED
        BY <3>1, <3>2, <3>3, Zenon
    <2>4. ASSUME NEW r \in J!Runs, J!Retry(r) PROVE Same /\ UNCHANGED x2 /\ UNCHANGED x5
      BY <2>4 DEF J!Retry
    <2>5. ASSUME J!Configure PROVE Same /\ UNCHANGED x2 /\ UNCHANGED x5
      BY <2>5 DEF J!Configure
    <2> HIDE DEF Same, Sends
    <2> QED
      BY <2>1, <2>2, <2>3, <2>4, <2>5 DEF J!Next
  <1>3. x1' \in Pipelines /\ x2' \in J!Requirements
    <2>1. x1' \in Pipelines
      BY <1>1, <1>2
    <2> QED
      BY <1>1, <1>2, <2>1
  <1>4. JobsInv'
    BY <1>2, SendKeeps, JobsStay
  <1> QED
    BY <1>3, <1>4 DEF J!ManifestInv, JobsInv

\* However the server is configured, whatever the functions ask for and whatever the
\* user sets, Kubernetes accepts each job but those named in JobManifest, and its
\* container meets the server at the address meant for workers
\* (scheduling/kubernetes.py: schedule_resolution_job, schedule_run_job).
THEOREM JobsAreAcceptedAlways == Spec => []JobsAreAccepted
  <1> DEFINE Inv == subject = "manifest" => J!ManifestInv
  <1>1. Init => Inv
    BY ManifestInit DEF Init
  <1>2. Inv /\ [Next]_allVars => Inv'
    <2> SUFFICES ASSUME Inv, [Next]_allVars, subject' = "manifest" PROVE J!ManifestInv'
      OBVIOUS
    <2>1. CASE Next
      BY <2>1, ManifestStep DEF Next
    <2>2. CASE UNCHANGED allVars
      <3>1. J!ManifestInv
        BY <2>2 DEF allVars
      <3>2. JobsInv'
        BY <2>2, <3>1, JobsStay DEF allVars
      <3> QED
        BY <2>2, <3>1, <3>2 DEF J!ManifestInv, JobsInv, allVars
    <2> QED
      BY <2>1, <2>2
  <1>3. Inv => JobsAreAccepted
    BY DEF J!ManifestInv, JobsAreAccepted
  <1> QED
    BY <1>1, <1>2, <1>3, PTL DEF Spec
=============================================================================
