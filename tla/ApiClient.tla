------------------------------- MODULE ApiClient -------------------------------
(***************************************************************************)
(* api_client.py, utils/retry.py, resolvers/worker.py's _set_run_output    *)
(* and the storage endpoints: workers that store the payload of an output  *)
(* and save it in the graph, and a client that blocks on the first run     *)
(* and reads its output, over a network that loses requests and answers    *)
(* and a server that may be killed in the middle of an upload.             *)
(***************************************************************************)
EXTENDS Integers, FiniteSets, Sequences

CONSTANTS
  Workers,     \* the runs that a worker executes, 1 among them
  Tries        \* bound on the attempts of a call, for API_CALLS_TRIES and _store_bytes

VARIABLES
  backend,     \* the storage plugin: "local" files or "s3" objects
  release,     \* [client, server, oldest]: oldest is min_client_supported; as first met
  artifactOf,  \* the artifact that a run's output makes: equal values make equal ids
  states,      \* the future states of the runs
  outputs,     \* the artifacts that the graph names as outputs
  payloads,    \* what the storage holds under an artifact's id
  storers,     \* the workers that ever opened an artifact's payload for writing
  workers,     \* [at, tries, stores]: where a worker is and the attempts it has left
  waiter       \* the client that blocks: [at, tries, cancels, limit, known, content]

clientVars == <<backend, release, artifactOf, states, outputs, payloads, storers, workers, waiter>>

None == "none"
Artifacts == {"a", "b"}
Terminal == {"RESOLVED", "FAILED", "CANCELED"}

\* A client newer than the server, or older than what it supports, makes no
\* request.  The answer is kept: later changes of the server are not noticed.
Compatible == release.client <= release.server /\ release.client >= release.oldest

Init ==
  /\ backend \in {"local", "s3"}
  /\ release \in {[client |-> 2, server |-> 2, oldest |-> 1], [client |-> 2, server |-> 3, oldest |-> 3],
                   [client |-> 2, server |-> 1, oldest |-> 1]}
  /\ artifactOf \in {f \in [Workers -> Artifacts] : f[1] = "a"}
  /\ states = [w \in Workers |-> "SCHEDULED"] /\ outputs = [w \in Workers |-> None]
  /\ payloads = [a \in Artifacts |-> None] /\ storers = [a \in Artifacts |-> {}]
  /\ workers = [w \in Workers |-> [at |-> "validate", tries |-> Tries, stores |-> Tries]]
  /\ \E cancels, limit \in BOOLEAN :
       waiter = [at |-> "validate", tries |-> Tries, cancels |-> cancels, limit |-> limit,
                 known |-> FALSE, content |-> None]

-----------------------------------------------------------------------------
(* Workers: _set_run_output.  An attempt that raises, whatever the error, is  *)
(* made again while tries are left; storing a payload is tried as a whole     *)
(* around the request for its location.                                       *)

AtWorker(w, place) == workers[w].at = place
WorkerGoes(w, place) == workers' = [workers EXCEPT ![w].at = place, ![w].tries = Tries]

\* Mutant: the run is saved before its payload is stored.
StepsSavedFirst == <<"validate", "save", "locate", "ended">>
Steps == <<"validate", "locate", "save", "ended">>
After(step) == LET n == CHOOSE m \in DOMAIN Steps : Steps[m] = step IN Steps[n + 1]

WorkerStarts(w) ==
  /\ AtWorker(w, "validate")
  /\ WorkerGoes(w, IF Compatible THEN After("validate") ELSE "raised")
  /\ UNCHANGED <<backend, release, artifactOf, states, outputs, payloads, storers, waiter>>

Raises(w) == WorkerGoes(w, IF AtWorker(w, "fail") THEN "raised" ELSE "fail")
StoreAgain(w) == IF workers[w].stores > 1
                 THEN workers' = [workers EXCEPT ![w] = [at |-> "locate", tries |-> Tries, stores |-> @.stores - 1]]
                 ELSE Raises(w)
Again(w) == IF workers[w].tries > 1 THEN workers' = [workers EXCEPT ![w].tries = @ - 1]
            ELSE IF AtWorker(w, "locate") THEN StoreAgain(w) ELSE Raises(w)

Locate(w) ==
  /\ AtWorker(w, "locate")
  /\ WorkerGoes(w, "put") \/ Again(w)
  /\ UNCHANGED <<backend, release, artifactOf, states, outputs, payloads, storers, waiter>>

\* The local endpoint opens the file, which empties it, and then writes.
PutStarts(w) ==
  /\ AtWorker(w, "put") /\ backend = "local"
  /\ LET a == artifactOf[w]
     IN  \/ StoreAgain(w) /\ UNCHANGED <<payloads, storers>>
         \/ /\ storers' = [storers EXCEPT ![a] = @ \cup {w}]
            /\ payloads' = [payloads EXCEPT ![a] = "partial"] /\ WorkerGoes(w, "write")
  /\ UNCHANGED <<backend, release, artifactOf, states, outputs, waiter>>
\* An object of S3 is replaced at once, with the presigned url.
PutObject(w) ==
  /\ AtWorker(w, "put") /\ backend = "s3"
  /\ LET a == artifactOf[w]
     IN  \/ StoreAgain(w) /\ UNCHANGED <<payloads, storers>>
         \/ /\ storers' = [storers EXCEPT ![a] = @ \cup {w}]
            /\ payloads' = [payloads EXCEPT ![a] = "full"]
            /\ WorkerGoes(w, After("locate")) \/ StoreAgain(w)
  /\ UNCHANGED <<backend, release, artifactOf, states, outputs, waiter>>
\* The file is whole when its last writer is done; the server may be killed.
PutEnds(w) ==
  /\ AtWorker(w, "write")
  /\ LET a == artifactOf[w]
         others == {v \in Workers \ {w} : AtWorker(v, "write") /\ artifactOf[v] = a}
     IN  \/ /\ payloads' = [payloads EXCEPT ![a] = IF others = {} THEN "full" ELSE "partial"]
            /\ WorkerGoes(w, After("locate")) \/ StoreAgain(w)
         \/ UNCHANGED payloads /\ StoreAgain(w)
  /\ UNCHANGED <<backend, release, artifactOf, states, outputs, storers, waiter>>

\* PUT /graph overwrites the row; its answer may be lost.
Save(w) ==
  /\ AtWorker(w, "save")
  /\ \/ /\ states' = [states EXCEPT ![w] = "RESOLVED"]
        /\ outputs' = [outputs EXCEPT ![w] = artifactOf[w]]
        /\ WorkerGoes(w, After("save")) \/ Again(w)
     \/ Again(w) /\ UNCHANGED <<states, outputs>>
  /\ UNCHANGED <<backend, release, artifactOf, payloads, storers, waiter>>

\* main's exception handler: _fail_run, then the exception goes on.
Fail(w) ==
  /\ AtWorker(w, "fail")
  /\ \/ /\ states' = [states EXCEPT ![w] = "FAILED"]
        /\ WorkerGoes(w, "raised") \/ Again(w)
     \/ Again(w) /\ UNCHANGED states
  /\ UNCHANGED <<backend, release, artifactOf, outputs, payloads, storers, waiter>>

\* The pod of a worker may be killed at any time; an upload stops with it.
Killed(w) == /\ workers[w].at \notin {"ended", "raised", "killed"}
             /\ WorkerGoes(w, "killed")
             /\ UNCHANGED <<backend, release, artifactOf, states, outputs, payloads, storers, waiter>>

-----------------------------------------------------------------------------
(* block_on_run, then get_run_output.                                         *)

At(place) == waiter.at = place
Goes(place) == waiter' = [waiter EXCEPT !.at = place, !.tries = Tries]
WaiterLeaves == UNCHANGED <<backend, release, artifactOf, states, outputs, payloads, storers, workers>>

\* The finally clause: nothing is cancelled unless a poll was answered.
Leave(result) == IF waiter.cancels /\ waiter.known THEN Goes("cancel") ELSE Goes(result)
Lost(result) == IF waiter.tries > 1 THEN waiter' = [waiter EXCEPT !.tries = @ - 1] ELSE Goes(result)

WaiterStarts == /\ At("validate")
                /\ IF Compatible THEN Goes("poll") ELSE Goes("Error")
                /\ WaiterLeaves
\* A run that is found over after the limit is still reported as a timeout, but
\* not cancelled.
Poll == /\ At("poll")
        /\ \/ IF waiter.tries > 1 THEN Lost("Error") ELSE Leave("Error")
           \/ /\ states[1] \in Terminal
              /\ \/ waiter.limit /\ Goes("TimeoutError")
                 \/ Goes(IF states[1] = "RESOLVED" THEN "graph" ELSE "RuntimeError")
           \/ /\ states[1] \notin Terminal
              /\ waiter' = [waiter EXCEPT !.at = "sleep", !.tries = Tries, !.known = TRUE]
        /\ WaiterLeaves
Sleep == /\ At("sleep")
         /\ Goes("poll") \/ (waiter.limit /\ Leave("TimeoutError")) \/ Leave("KeyboardInterrupt")
         /\ WaiterLeaves
\* The request to cancel is made once; the server leaves a run that is over.
Cancel == /\ At("cancel") /\ Goes("Cancelled")
          /\ \/ states' = [w \in Workers |-> IF states[w] \in Terminal THEN states[w] ELSE "CANCELED"]
             \/ UNCHANGED states
          /\ UNCHANGED <<backend, release, artifactOf, outputs, payloads, storers, workers>>

ReadGraph == /\ At("graph")
             /\ \/ Lost("Error")
                \/ Goes(IF states[1] = "RESOLVED" /\ outputs[1] # None THEN "data" ELSE "RuntimeError")
             /\ WaiterLeaves
\* A missing payload is a 404, tried again like any other error.
ReadData == /\ At("data")
            /\ \/ Lost("Error")
               \/ /\ payloads[outputs[1]] # None
                  /\ waiter' = [waiter EXCEPT !.at = "Value", !.content = payloads[outputs[1]]]
            /\ WaiterLeaves

Next == \/ \E w \in Workers : \/ WorkerStarts(w) \/ Locate(w) \/ PutStarts(w) \/ PutObject(w) \/ PutEnds(w)
                              \/ Save(w) \/ Fail(w) \/ Killed(w)
        \/ WaiterStarts \/ Poll \/ Sleep \/ Cancel \/ ReadGraph \/ ReadData

-----------------------------------------------------------------------------
\* A graph never names a payload that is missing or incomplete, whatever was
\* lost, repeated or killed, unless another worker opened the same file again.
Reopened(a) == backend = "local" /\ Cardinality(storers[a]) > 1
NamedMeansStored ==
  \A w \in Workers : outputs[w] # None => payloads[outputs[w]] = "full" \/ Reopened(outputs[w])

\* A client that got past block_on_run reads the whole output.
WholeOutput == At("Value") => waiter.content = "full" \/ Reopened(artifactOf[1])

\* The invariant behind both: who is past an upload has opened the file, and what
\* he left in it is whole, or somebody else opened it too.
WorkerPlaces == {"validate", "locate", "put", "write", "save", "fail", "ended", "raised", "killed"}
WaiterPlaces == {"validate", "poll", "sleep", "cancel", "graph", "data", "Value", "Cancelled",
                 "Error", "TimeoutError", "RuntimeError", "KeyboardInterrupt"}
ClientTyped ==
  /\ backend \in {"local", "s3"}
  /\ artifactOf \in [Workers -> Artifacts] /\ outputs \in [Workers -> Artifacts \cup {None}]
  /\ payloads \in [Artifacts -> {None, "partial", "full"}] /\ storers \in [Artifacts -> SUBSET Workers]
  /\ workers \in [Workers -> [at : WorkerPlaces, tries : Int, stores : Int]]
  /\ waiter \in [at : WaiterPlaces, tries : Int, cancels : BOOLEAN, limit : BOOLEAN,
                 known : BOOLEAN, content : {None, "partial", "full"}]
StoredBy(w) ==
  /\ AtWorker(w, "write") => backend = "local"
  /\ outputs[w] # None => /\ outputs[w] = artifactOf[w]
                          /\ workers[w].at \in {"save", "fail", "ended", "raised", "killed"}
  /\ AtWorker(w, "write") \/ AtWorker(w, "save") \/ outputs[w] # None => w \in storers[artifactOf[w]]
  /\ AtWorker(w, "save") \/ outputs[w] # None =>
       payloads[artifactOf[w]] = "full" \/ Reopened(artifactOf[w])
ClientInv ==
  /\ ClientTyped
  /\ \A w \in Workers : StoredBy(w)
  /\ At("data") => outputs[1] # None
  /\ WholeOutput
=============================================================================
