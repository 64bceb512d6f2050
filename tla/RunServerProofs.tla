--------------------------- MODULE RunServerProofs ---------------------------
(***************************************************************************)
(* Theorems about RunServer, for any number of standalone functions, of    *)
(* tries and of disturbances.                                              *)
(***************************************************************************)
EXTENDS RunServer, TLAPS

(***************************************************************************)
(* The inductive invariant.                                                *)
(***************************************************************************)
Requests ==
  [op : Ops, at : Steps, on : SUBSET Runs, left : SUBSET Runs, now : Runs, tries : Nat,
   state : [Runs -> States], row : [Runs -> RowStates], status : PipelineStatus]

Shape ==
  /\ run \in [Runs -> States] /\ status \in PipelineStatus /\ row \in [Runs -> RowStates]
  /\ live \subseteq Runs /\ doomed \subseteq Runs
  /\ req \in [Clients -> Requests]
  /\ rpc \in {"begin", "start", "expand", "schedule", "wait", "resolve", "succeed", "fail",
              "fail_status", "last_word", "gone"}
  /\ made \subseteq Clients

\* Who makes which requests.
Asks(c, op) ==
  \/ op = "none"
  \/ op = "launch" /\ c = "launcher"
  \/ op \in {"schedule", "update", "put"} /\ c = "runner"
  \/ op = "graph" /\ c \in Leaves \cup {"runner"}
  \/ op = "cancel" /\ c = "user"
  \/ op \in CleanerOps /\ c = "cleaner"

Saving(c) == At(c, "graph", "save_graph")

\* A request knows what it was made with: what these may save is not a value.
Holds(c) ==
  /\ Asks(c, req[c].op)
  /\ At(c, "update", "save_run") => req[c].state[req[c].now] = "FAILED"
  /\ req[c].op = "schedule" => req[c].on \subseteq Leaves
  /\ req[c].op \in {"schedule", "clean_run"} => req[c].at \in {"submit", "save_run", "save_job"}
  /\ req[c].op = "clean_run" => \A r \in req[c].on : req[c].state[r] # "RESOLVED"

\* A worker that still has to save its run has not done so before.
WorkerOnce(l) ==
  /\ l \notin made => req[l] = NoRequest
  /\ l \notin made \/ Saving(l) => run[l] # "RESOLVED"
  /\ Saving(l) => req[l].on = {l}

\* The runner has not been asked for, or was refused.
Prelaunch == "launcher" \notin made \/ req["launcher"].at \in {"submit", "refuse"}

\* The runner has not made the runs of the leaves yet.
Early   == rpc \in {"begin", "start", "expand"}
Expands == Saving("runner") /\ \E l \in Leaves \cap req["runner"].on : req["runner"].state[l] = "CREATED"

\* No leaf has been at work.
NoLeafYet == \A l \in Leaves : l \notin made /\ ~ Alive(l)

RunnerOnce ==
  /\ "launcher" \notin made => req["launcher"] = NoRequest
  /\ Prelaunch => rpc = "begin" /\ ~ Alive(Root) /\ req["runner"] = NoRequest
  /\ rpc = "gone" /\ Alive(Root) => req["runner"] = NoRequest
  /\ req["runner"].op = "schedule" => rpc \in {"schedule", "gone"}
  /\ Early => run[Root] # "RESOLVED"
  /\ Early \/ Expands => NoLeafYet

\* What the runner is about to save is right of the runs as they are now.
RunnerSaves ==
  Saving("runner") =>
    /\ Root \in req["runner"].on => /\ req["runner"].state[Root] = "RESOLVED" => ~ Early
                                    /\ run[Root] = "RESOLVED" => req["runner"].state[Root] = "RESOLVED"
    /\ \A l \in Leaves \cap req["runner"].on : req["runner"].state[l] \in {"CREATED", "CANCELED"}

Inv ==
  /\ Shape
  /\ \A c \in Clients : Holds(c)
  /\ \A l \in Leaves : WorkerOnce(l)
  /\ RunnerOnce /\ RunnerSaves

(***************************************************************************)
(* Requests.                                                               *)
(***************************************************************************)
LEMMA NoRequestFact ==
  /\ NoRequest \in Requests
  /\ NoRequest.op = "none" /\ NoRequest.at = "idle" /\ NoRequest.on = {}
  BY DEF NoRequest, Requests, Ops, Steps, Runs, States, RowStates, PipelineStatus

\* A change of where a request is keeps the rest.
LEMMA AtFact ==
  ASSUME NEW q \in Requests, NEW step \in Steps
  PROVE  /\ [q EXCEPT !.at = step] \in Requests
         /\ [q EXCEPT !.at = step].op = q.op /\ [q EXCEPT !.at = step].at = step
         /\ [q EXCEPT !.at = step].on = q.on /\ [q EXCEPT !.at = step].state = q.state
         /\ [q EXCEPT !.at = step].now = q.now
  BY DEF Requests

\* The clients are who they are.
LEMMA ClientsFact ==
  /\ Root \notin Leaves /\ Root \in Runs /\ Leaves \subseteq Runs /\ Leaves \subseteq Clients
  /\ {"launcher", "runner", "user", "cleaner"} \subseteq Clients
  /\ Leaves \cap {"launcher", "runner", "user", "cleaner"} = {}
  BY ConstantsAssumption DEF ConstantsAssumption, Runs, Clients

\* An answer ends the request, and takes the runner on, never back.
LEMMA AnswerFacts ==
  ASSUME Shape, NEW c \in Clients, NEW how \in {"ok", "error"}, Answer(c, how),
         c = "runner" /\ Alive(Root) => rpc # "gone"
  PROVE  /\ req' = [req EXCEPT ![c] = NoRequest]
         /\ Early' => Early
         /\ rpc' \in {"begin", "start", "expand", "schedule", "wait", "resolve", "succeed", "fail",
                      "fail_status", "last_word", "gone"}
         /\ c # "runner" => rpc' = rpc
  <1>1. req' = [req EXCEPT ![c] = NoRequest]
    BY DEF Answer
  <1>2. CASE c = "runner" /\ Alive(Root)
    <2> DEFINE F == AnsweredFutures(req[c])
    <2>1. NextStep(F) \in {"fail", "schedule", "wait", "resolve"}
      BY DEF NextStep
    <2>2. RunnerGoesOn(req[c], how)
      BY <1>2 DEF Answer
    <2>3. rpc' = CASE rpc = "last_word" -> "gone"
                   [] rpc = "fail_status" -> "last_word"
                   [] rpc = "fail" -> IF how = "ok" THEN "fail_status" ELSE "last_word"
                   [] rpc \notin {"last_word", "fail", "fail_status"} /\ how = "error" -> "fail"
                   [] rpc = "begin" /\ how = "ok" -> "start"
                   [] rpc = "start" /\ how = "ok" -> "expand"
                   [] rpc \in {"expand", "schedule", "wait"} /\ how = "ok" -> NextStep(F)
                   [] rpc = "resolve" /\ how = "ok" -> "succeed"
                   [] rpc = "succeed" /\ how = "ok" -> "gone"
      BY <2>2 DEF RunnerGoesOn
    <2> HIDE DEF F
    <2>4. rpc # "gone"
      BY <1>2
    <2>5. \/ rpc' \in {"fail", "schedule", "wait", "resolve", "gone", "last_word", "fail_status",
                       "succeed"}
          \/ rpc = "begin" /\ rpc' = "start"
          \/ rpc = "start" /\ rpc' = "expand"
      BY <2>1, <2>3, <2>4 DEF Shape
    <2> QED
      BY <1>1, <1>2, <2>5 DEF Early
  <1>3. CASE ~ (c = "runner" /\ Alive(Root))
    <2>1. rpc' = rpc
      BY <1>3 DEF Answer
    <2> QED
      BY <1>1, <2>1 DEF Early, Shape
  <1> QED
    BY <1>2, <1>3

\* A request goes on as the one that it is: it does not come to a step at which requests
\* begin.
Continues(c, q) ==
  /\ q \in Requests /\ q.op = req[c].op /\ q.op # "clean_run"
  /\ q.op = "schedule" => q.on = req[c].on /\ q.at \in {"save_run", "save_job"}
  /\ q.at \notin {"save_graph", "submit", "refuse"}
  /\ q.op = "update" /\ q.at = "save_run" => q.state[q.now] = "FAILED"

Proceeds(c) ==
  \/ \E how \in {"ok", "error"} : Answer(c, how)
  \/ \E q : GoOn(c, q) /\ Continues(c, q)

\* Nothing but what a request is about to save becomes a value.
ValuesSaved(c) ==
  \A r \in Runs : run'[r] = "RESOLVED" =>
    run[r] = "RESOLVED" \/ (Saving(c) /\ r \in req[c].on /\ req[c].state[r] = "RESOLVED")

\* Who may come to life by a request of c.
JobsMade(c) ==
  \A j \in Runs : (j \in live' \cup doomed') =>
    \/ Alive(j)
    \/ j = Root /\ c = "launcher" /\ req[c].at = "submit"
    \/ j \in Leaves /\ req[c].op = "schedule"

TablesShaped ==
  /\ run' \in [Runs -> States] /\ status' \in PipelineStatus /\ row' \in [Runs -> RowStates]
  /\ live' \subseteq Runs /\ doomed' \subseteq Runs

\* A step of a request, which may be its last, leaves the invariant as it is.
LEMMA ServedKeeps ==
  ASSUME Inv, NEW c \in Clients, req[c] # NoRequest, made' = made, Proceeds(c),
         TablesShaped, ValuesSaved(c), JobsMade(c)
  PROVE  Inv'
  <1>1. /\ Shape /\ RunnerOnce /\ RunnerSaves /\ \A d \in Clients : Holds(d)
        /\ \A l \in Leaves : WorkerOnce(l)
    BY DEF Inv
  <1>2. c = "runner" /\ Alive(Root) => rpc # "gone"
    BY <1>1 DEF RunnerOnce
  <1>3. PICK q : /\ req' = [req EXCEPT ![c] = q] /\ q \in Requests
                 /\ q = NoRequest \/ Continues(c, q)
    <2>1. CASE \E how \in {"ok", "error"} : Answer(c, how)
      BY <2>1, NoRequestFact DEF Answer
    <2>2. CASE \E q : GoOn(c, q) /\ Continues(c, q)
      BY <2>2 DEF GoOn, Continues
    <2> QED
      BY <2>1, <2>2 DEF Proceeds
  <1>4. /\ Early' => Early
        /\ rpc' \in {"begin", "start", "expand", "schedule", "wait", "resolve", "succeed", "fail",
                     "fail_status", "last_word", "gone"}
        /\ c # "runner" \/ q # NoRequest => rpc' = rpc
    <2>1. CASE \E how \in {"ok", "error"} : Answer(c, how)
      <3>1. q = NoRequest
        BY <1>1, <1>3, <2>1 DEF Answer, Shape
      <3> QED
        BY <1>1, <1>2, <2>1, <3>1, AnswerFacts
    <2>2. CASE \E p : GoOn(c, p)
      BY <1>1, <2>2 DEF GoOn, Early, Shape
    <2> QED
      BY <2>1, <2>2 DEF Proceeds
  <1>5. req'[c] = q /\ (\A d \in Clients \ {c} : req'[d] = req[d]) /\ req' \in [Clients -> Requests]
    BY <1>1, <1>3 DEF Shape
  <1>6. Shape'
    BY <1>1, <1>4, <1>5 DEF Shape, TablesShaped
  <1>7. ~ Saving(c)' /\ q.at \notin {"save_graph", "submit", "refuse"}
    BY <1>3, <1>5, NoRequestFact DEF Saving, At, Continues
  <1>8. ASSUME NEW d \in Clients
        PROVE  Holds(d)'
    <2>1. CASE d = c
      <3>1. CASE q = NoRequest
        BY <1>5, <2>1, <3>1, NoRequestFact DEF Holds, Asks, At
      <3>2. CASE Continues(c, q)
        BY <1>1, <1>5, <2>1, <3>2 DEF Holds, Continues, Asks, At
      <3> QED
        BY <1>3, <3>1, <3>2
    <2>2. CASE d # c
      BY <1>1, <1>5, <2>2 DEF Holds, Asks, At
    <2> QED
      BY <2>1, <2>2
  <1>9. ASSUME NEW l \in Leaves
        PROVE  WorkerOnce(l)'
    <2>1. WorkerOnce(l) /\ l \in Clients /\ l \in Runs
      BY <1>1, ClientsFact
    <2>2. c = l => l \in made
      BY <2>1 DEF WorkerOnce
    <2>3. l \notin made \/ Saving(l)' => c # l /\ (l \notin made \/ Saving(l)) /\ req'[l] = req[l]
      BY <1>5, <1>7, <2>1, <2>2 DEF Saving, At
    <2>4. ASSUME l \notin made \/ Saving(l)'
          PROVE  run'[l] # "RESOLVED"
      <3>1. run[l] # "RESOLVED"
        BY <2>1, <2>3, <2>4 DEF WorkerOnce
      <3>2. SUFFICES ASSUME Saving(c), l \in req[c].on, req[c].state[l] = "RESOLVED" PROVE FALSE
        BY <2>1, <3>1 DEF ValuesSaved
      <3>3. c \in Leaves \cup {"runner"}
        BY <1>1, <3>2 DEF Holds, Asks, Saving, At, CleanerOps
      <3>4. CASE c \in Leaves
        BY <1>1, <2>3, <2>4, <3>2, <3>4 DEF WorkerOnce
      <3>5. CASE c = "runner"
        BY <1>1, <3>2, <3>5 DEF RunnerSaves
      <3> QED
        BY <3>3, <3>4, <3>5
    <2>5. l \notin made => req'[l] = NoRequest
      BY <2>1, <2>3 DEF WorkerOnce
    <2>6. Saving(l)' => req'[l].on = {l}
      BY <1>5, <1>7, <2>1 DEF WorkerOnce, Saving, At
    <2>7. made' = made
      OBVIOUS
    <2> QED
      BY <2>4, <2>5, <2>6, <2>7 DEF WorkerOnce
  <1>10. Prelaunch' => Prelaunch /\ c # "launcher"
    <2>1. SUFFICES ASSUME Prelaunch' PROVE Prelaunch /\ c # "launcher"
      OBVIOUS
    <2>2. c # "launcher"
      BY <1>1, <1>5, <1>7, <2>1 DEF Prelaunch, RunnerOnce
    <2> QED
      BY <1>5, <2>1, <2>2, ClientsFact DEF Prelaunch
  <1>11. Alive(Root)' => Alive(Root) \/ (c = "launcher" /\ Prelaunch)
    BY ClientsFact DEF JobsMade, Alive, Prelaunch
  <1>12. c # "runner" => req'["runner"] = req["runner"] /\ (Saving("runner")' <=> Saving("runner"))
                         /\ (Expands' <=> Expands)
    BY <1>5, ClientsFact DEF Saving, At, Expands
  <1>13. c = "runner" => ~ Saving("runner")' /\ ~ Expands'
    BY <1>7 DEF Expands
  <1>14. run'[Root] = "RESOLVED" =>
           run[Root] = "RESOLVED" \/ /\ c = "runner" /\ Saving("runner") /\ Root \in req["runner"].on
                                     /\ req["runner"].state[Root] = "RESOLVED"
    <2>1. Saving(c) => c \in Leaves \cup {"runner"}
      BY <1>1 DEF Holds, Asks, Saving, At, CleanerOps
    <2>2. c \in Leaves /\ Saving(c) => Root \notin req[c].on
      BY <1>1, ClientsFact DEF WorkerOnce
    <2> QED
      BY <2>1, <2>2, ClientsFact DEF ValuesSaved
  <1>15. RunnerOnce'
    <2>1. "launcher" \notin made' => req'["launcher"] = NoRequest
      BY <1>1, <1>5, ClientsFact DEF RunnerOnce
    <2>2. ASSUME Prelaunch'
          PROVE  rpc' = "begin" /\ ~ Alive(Root)' /\ req'["runner"] = NoRequest
      <3>1. rpc = "begin" /\ ~ Alive(Root) /\ req["runner"] = NoRequest /\ c # "launcher"
        BY <1>1, <1>10, <2>2 DEF RunnerOnce
      <3> QED
        BY <1>4, <1>11, <1>12, <3>1
    <2>3. ASSUME rpc' = "gone", Alive(Root)'
          PROVE  req'["runner"] = NoRequest
      <3>1. CASE c = "runner"
        <4>1. Alive(Root)
          BY <1>11, <2>3, <3>1
        <4> QED
          BY <1>2, <1>4, <1>5, <2>3, <3>1, <4>1
      <3>2. CASE c # "runner"
        <4>1. Alive(Root)
          BY <1>1, <1>4, <1>11, <2>3, <3>2 DEF RunnerOnce
        <4> QED
          BY <1>1, <1>4, <1>12, <2>3, <3>2, <4>1 DEF RunnerOnce
      <3> QED
        BY <3>1, <3>2
    <2>4. ASSUME req'["runner"].op = "schedule"
          PROVE  rpc' \in {"schedule", "gone"}
      <3>1. CASE c = "runner"
        <4>1. q # NoRequest /\ Continues(c, q)
          BY <1>3, <1>5, <2>4, <3>1, NoRequestFact
        <4> QED
          BY <1>1, <1>4, <1>5, <2>4, <3>1, <4>1 DEF RunnerOnce, Continues
      <3>2. CASE c # "runner"
        BY <1>1, <1>4, <1>12, <2>4, <3>2 DEF RunnerOnce
      <3> QED
        BY <3>1, <3>2
    <2>5. Early' => run'[Root] # "RESOLVED"
      BY <1>1, <1>4, <1>14 DEF RunnerOnce, RunnerSaves
    <2>6. ASSUME Early' \/ Expands'
          PROVE  NoLeafYet'
      <3>1. Early \/ (Expands /\ c # "runner")
        BY <1>4, <1>12, <1>13, <2>6
      <3>2. req[c].op # "schedule"
        <4>1. req[c].op = "schedule" => c = "runner"
          BY <1>1 DEF Holds, Asks, CleanerOps
        <4> QED
          BY <1>1, <3>1, <4>1 DEF RunnerOnce, Early
      <3>3. NoLeafYet
        BY <1>1, <3>1 DEF RunnerOnce
      <3> QED
        BY <3>2, <3>3, ClientsFact DEF NoLeafYet, JobsMade, Alive
    <2> QED
      BY <2>1, <2>2, <2>3, <2>4, <2>5, <2>6 DEF RunnerOnce
  <1>16. RunnerSaves'
    <2>1. SUFFICES ASSUME Saving("runner")' PROVE RunnerSaves'
      BY DEF RunnerSaves
    <2>2. c # "runner" /\ Saving("runner") /\ req'["runner"] = req["runner"]
      BY <1>12, <1>13, <2>1
    <2>3. (run'[Root] = "RESOLVED" => run[Root] = "RESOLVED") /\ (Early' => Early)
      BY <1>4, <1>14, <2>2
    <2> QED
      BY <1>1, <2>2, <2>3 DEF RunnerSaves
  <1> QED
    BY <1>6, <1>8, <1>9, <1>15, <1>16 DEF Inv

(***************************************************************************)
(* What the requests do, one after the other.                              *)
(***************************************************************************)
LEMMA AnswerProceeds ==
  ASSUME NEW c, NEW how \in {"ok", "error"}, Answer(c, how)
  PROVE  Proceeds(c)
  BY DEF Proceeds

LEMMA GotoProceeds ==
  ASSUME Shape, NEW c \in Clients, NEW step \in Steps \ {"save_graph", "submit", "refuse"},
         req[c].op # "clean_run", step = "save_run" => req[c].op # "update",
         req[c].op = "schedule" => step \in {"save_run", "save_job"}, Goto(c, step)
  PROVE  Proceeds(c)
  <1> DEFINE q == [req[c] EXCEPT !.at = step]
  <1>1. req[c] \in Requests
    BY DEF Shape
  <1>2. q \in Requests /\ q.op = req[c].op /\ q.at = step /\ q.on = req[c].on
    BY <1>1, AtFact
  <1>3. GoOn(c, q)
    BY DEF Goto
  <1> HIDE DEF q
  <1>4. Continues(c, q)
    BY <1>2 DEF Continues
  <1> QED
    BY <1>3, <1>4 DEF Proceeds

\* A request that is made of one that it is.
LEMMA GoOnProceeds ==
  ASSUME NEW c, NEW q, GoOn(c, q), Continues(c, q)
  PROVE  Proceeds(c)
  BY DEF Proceeds

LEMMA CancelJobsProceed ==
  ASSUME Shape, NEW c \in Clients, NEW request \in Requests, request.op = req[c].op,
         req[c].op \notin {"clean_run", "schedule"}, NEW runs \in SUBSET Runs, CancelJobsOf(c, request, runs)
  PROVE  Proceeds(c)
  <1>1. CASE AfterJobs(c)
    <2>1. CASE Goto(c, "save_status")
      BY <2>1, GotoProceeds DEF Steps
    <2>2. CASE Answer(c, "ok")
      BY <2>2, AnswerProceeds
    <2> QED
      BY <1>1, <2>1, <2>2 DEF AfterJobs
  <1>2. CASE GoOn(c, [request EXCEPT !.at = "cancel_jobs", !.left = runs])
    <2> DEFINE q == [request EXCEPT !.at = "cancel_jobs", !.left = runs]
    <2>1. q \in Requests /\ q.op = req[c].op /\ q.at = "cancel_jobs"
      BY DEF Requests, Steps
    <2>2. GoOn(c, q)
      BY <1>2
    <2> HIDE DEF q
    <2>3. Continues(c, q)
      BY <2>1 DEF Continues
    <2> QED
      BY <2>2, <2>3, GoOnProceeds
  <1> QED
    BY <1>1, <1>2 DEF CancelJobsOf

LEMMA CancelJobFacts ==
  ASSUME Shape, NEW j \in Runs, CancelJob(j)
  PROVE  /\ row' \in [Runs -> RowStates] /\ live' \subseteq Runs /\ doomed' \subseteq Runs
         /\ \A k \in Runs : (k \in live' \cup doomed') => Alive(k)
  <1>1. CASE row[j] # "active"
    BY <1>1 DEF CancelJob, cluster, Shape, Alive
  <1>2. CASE row[j] = "active"
    BY <1>2 DEF CancelJob, Shape, Alive, RowStates
  <1> QED
    BY <1>1, <1>2

\* A request that is at work is one, and nobody else's.
LEMMA AtWork ==
  ASSUME Inv, NEW c \in Clients, NEW op, NEW step, At(c, op, step), op # "none" \/ step # "idle"
  PROVE  req[c] # NoRequest /\ req[c].op = op /\ req[c].at = step /\ Asks(c, op) /\ Shape
  BY NoRequestFact DEF At, Inv, Holds

\* Those who leave the tables as they are.
LEMMA SameTables ==
  ASSUME Inv, NEW c
  PROVE  /\ run' = run => ValuesSaved(c)
         /\ live' = live /\ doomed' = doomed => JobsMade(c)
         /\ UNCHANGED <<database, cluster>> => TablesShaped
  BY DEF Inv, Shape, ValuesSaved, JobsMade, TablesShaped, database, cluster, Alive

LEMMA LaunchKeeps ==
  ASSUME Inv, NEW c \in Clients, Launch(c), made' = made
  PROVE  Inv'
  <1>1. CASE At(c, "launch", "submit") /\ live' = live \cup {Root} /\ Goto(c, "save_status")
             /\ UNCHANGED <<database, doomed>>
    <2>1. req[c] # NoRequest /\ req[c].op = "launch" /\ req[c].at = "submit" /\ c = "launcher" /\ Shape
      BY <1>1, AtWork DEF Asks, CleanerOps
    <2>2. Proceeds(c)
      BY <1>1, <2>1, GotoProceeds DEF Steps
    <2>3. TablesShaped /\ ValuesSaved(c) /\ JobsMade(c)
      BY <1>1, <2>1, ClientsFact DEF TablesShaped, ValuesSaved, JobsMade, database, Shape, Alive
    <2> QED
      BY <2>1, <2>2, <2>3, ServedKeeps
  <1>2. CASE At(c, "launch", "save_status") /\ status' = "SCHEDULED" /\ Goto(c, "save_job")
             /\ UNCHANGED <<run, row, cluster>>
    <2>1. req[c] # NoRequest /\ req[c].op = "launch" /\ Shape
      BY <1>2, AtWork
    <2>2. Proceeds(c)
      BY <1>2, <2>1, GotoProceeds DEF Steps
    <2>3. TablesShaped /\ ValuesSaved(c) /\ JobsMade(c)
      BY <1>2, <2>1, SameTables DEF TablesShaped, cluster, Shape, PipelineStatus
    <2> QED
      BY <1>2, <2>1, <2>2, <2>3, ServedKeeps
  <1>3. CASE At(c, "launch", "save_job") /\ row' = [row EXCEPT ![Root] = "active"] /\ Answer(c, "ok")
             /\ UNCHANGED <<run, status, cluster>>
    <2>1. req[c] # NoRequest /\ req[c].op = "launch" /\ Shape
      BY <1>3, AtWork
    <2>2. Proceeds(c)
      BY <1>3, AnswerProceeds
    <2>3. TablesShaped /\ ValuesSaved(c) /\ JobsMade(c)
      BY <1>3, <2>1, SameTables DEF TablesShaped, cluster, Shape, RowStates
    <2> QED
      BY <1>3, <2>1, <2>2, <2>3, ServedKeeps
  <1>4. CASE At(c, "launch", "refuse") /\ run' = [run EXCEPT ![Root] = "FAILED"]
             /\ Goto(c, "refuse_status") /\ UNCHANGED <<status, row, cluster>>
    <2>1. req[c] # NoRequest /\ req[c].op = "launch" /\ Shape
      BY <1>4, AtWork
    <2>2. Proceeds(c)
      BY <1>4, <2>1, GotoProceeds DEF Steps
    <2>3. TablesShaped /\ ValuesSaved(c) /\ JobsMade(c)
      BY <1>4, <2>1, SameTables DEF TablesShaped, ValuesSaved, cluster, Shape, States, FutureState
    <2> QED
      BY <1>4, <2>1, <2>2, <2>3, ServedKeeps
  <1>5. CASE At(c, "launch", "refuse_status") /\ status' = "FAILED" /\ Answer(c, "error")
             /\ UNCHANGED <<run, row, cluster>>
    <2>1. req[c] # NoRequest /\ req[c].op = "launch" /\ Shape
      BY <1>5, AtWork
    <2>2. Proceeds(c)
      BY <1>5, AnswerProceeds
    <2>3. TablesShaped /\ ValuesSaved(c) /\ JobsMade(c)
      BY <1>5, <2>1, SameTables DEF TablesShaped, cluster, Shape, PipelineStatus
    <2> QED
      BY <1>5, <2>1, <2>2, <2>3, ServedKeeps
  <1> QED
    BY <1>1, <1>2, <1>3, <1>4, <1>5 DEF Launch

LEMMA ScheduleKeeps ==
  ASSUME Inv, NEW c \in Clients, Schedule(c), made' = made
  PROVE  Inv'
  <1>1. req[c] # NoRequest /\ req[c].op = "schedule" /\ Shape
    BY AtWork DEF Schedule
  <1>2. PICK l \in req[c].on :
    \/ /\ At(c, "schedule", "submit")
       /\ IF Scheduleable(c, l)
          THEN live' = live \cup {l} /\ Goto(c, "save_run")
          ELSE UNCHANGED live /\ Answer(c, "error")
       /\ UNCHANGED <<database, doomed>>
    \/ /\ At(c, "schedule", "save_run")
       /\ IF IllegalSave(l, "SCHEDULED") THEN UNCHANGED run /\ Answer(c, "error")
          ELSE run' = [run EXCEPT ![l] = "SCHEDULED"] /\ Goto(c, "save_job")
       /\ UNCHANGED <<status, row, cluster>>
    \/ /\ At(c, "schedule", "save_job")
       /\ row' = [row EXCEPT ![l] = "active"]
       /\ Answer(c, "ok")
       /\ UNCHANGED <<run, status, cluster>>
    BY DEF Schedule
  <1>3. l \in Runs
    BY <1>1 DEF Shape, Requests
  <1>4. Proceeds(c)
    BY <1>1, <1>2, GotoProceeds, AnswerProceeds DEF Steps
  <1>5. CASE live' = live \cup {l} /\ UNCHANGED <<database, doomed>>
    <2>1. l \in Leaves
      BY <1>1 DEF Inv, Holds
    <2>2. TablesShaped /\ ValuesSaved(c) /\ JobsMade(c)
      BY <1>1, <1>3, <1>5, <2>1 DEF TablesShaped, ValuesSaved, JobsMade, database, Shape, Alive
    <2> QED
      BY <1>1, <1>4, <2>2, ServedKeeps
  <1>6. CASE UNCHANGED <<live, doomed, status, row>>
             /\ (run' = run \/ run' = [run EXCEPT ![l] = "SCHEDULED"])
    <2>1. TablesShaped /\ ValuesSaved(c) /\ JobsMade(c)
      BY <1>1, <1>3, <1>6, SameTables DEF TablesShaped, ValuesSaved, Shape, States, FutureState
    <2> QED
      BY <1>1, <1>4, <2>1, ServedKeeps
  <1>7. CASE UNCHANGED <<live, doomed, status, run>> /\ row' = [row EXCEPT ![l] = "active"]
    <2>1. TablesShaped /\ ValuesSaved(c) /\ JobsMade(c)
      BY <1>1, <1>3, <1>7, SameTables DEF TablesShaped, ValuesSaved, Shape, RowStates
    <2> QED
      BY <1>1, <1>4, <2>1, ServedKeeps
  <1> QED
    BY <1>2, <1>5, <1>6, <1>7 DEF database, cluster

\* update_run_status: what becomes of a run that changes, and of its job.
LEMMA StatusFacts ==
  /\ \A s, job : UpdateRunStatus(s, job) # s => UpdateRunStatus(s, job) = "FAILED"
  /\ \A R \in [Runs -> RowStates], j \in Runs : Refreshed(R, j) \in RowStates
  BY DEF UpdateRunStatus, Refreshed, RowStates

LEMMA NextRunProceeds ==
  ASSUME Shape, NEW c \in Clients, req[c].op = "update", NEW l, NextRun(c, l)
  PROVE  Proceeds(c)
  <1>1. CASE Answer(c, "ok")
    BY <1>1, AnswerProceeds
  <1>2. CASE GoOn(c, [req[c] EXCEPT !.at = "check", !.left = @ \ {l}])
    <2> DEFINE q == [req[c] EXCEPT !.at = "check", !.left = @ \ {l}]
    <2>1. req[c] \in Requests
      BY DEF Shape
    <2>2. q \in Requests /\ q.op = req[c].op /\ q.at = "check"
      BY <2>1 DEF Requests, Steps
    <2>3. GoOn(c, q)
      BY <1>2
    <2> HIDE DEF q
    <2>4. Continues(c, q)
      BY <2>2 DEF Continues
    <2> QED
      BY <2>3, <2>4, GoOnProceeds
  <1> QED
    BY <1>1, <1>2 DEF NextRun

\* What a request that is made anew knows.
LEMMA RequestFact ==
  ASSUME Shape, NEW op \in Ops, NEW on \in SUBSET Runs, NEW step \in Steps
  PROVE  /\ Request(op, on, step) \in Requests
         /\ Request(op, on, step).op = op /\ Request(op, on, step).at = step
         /\ Request(op, on, step).on = on
         /\ \A r \in on : Request(op, on, step).state[r] = run[r]
  <1>1. Only(on, run, "NONE") \in [Runs -> States] /\ Only(on, row, "none") \in [Runs -> RowStates]
    BY DEF Only, Shape, States, RowStates
  <1>2. \A r \in on : Only(on, run, "NONE")[r] = run[r]
    BY DEF Only
  <1> QED
    BY <1>1, <1>2, NoRequestFact DEF Request, Requests, Shape

LEMMA RaceProceeds ==
  ASSUME Shape, NEW c \in Clients, req[c].op = "update", RaceDetected(c)
  PROVE  Proceeds(c)
  <1>1. CASE Answer(c, "error")
    BY <1>1, AnswerProceeds
  <1>2. CASE GoOn(c, [Request("update", req[c].on, "check") EXCEPT !.tries = req[c].tries + 1])
    <2> DEFINE p == Request("update", req[c].on, "check")
               q == [p EXCEPT !.tries = req[c].tries + 1]
    <2>1. req[c] \in Requests
      BY DEF Shape
    <2>2. req[c].on \in SUBSET Runs /\ req[c].tries \in Nat
      BY <2>1 DEF Requests
    <2>3. "update" \in Ops /\ "check" \in Steps
      BY DEF Ops, Steps
    <2>4. p \in Requests /\ p.op = "update" /\ p.at = "check"
      BY <2>2, <2>3, RequestFact
    <2>5. GoOn(c, q)
      BY <1>2
    <2> HIDE DEF p
    <2>6. q \in Requests /\ q.op = "update" /\ q.at = "check"
      BY <2>2, <2>4 DEF Requests
    <2> HIDE DEF q
    <2>7. Continues(c, q)
      BY <2>6 DEF Continues
    <2> QED
      BY <2>5, <2>7, GoOnProceeds
  <1> QED
    BY <1>1, <1>2 DEF RaceDetected

LEMMA CheckProceeds ==
  ASSUME Shape, NEW c \in Clients, req[c].op = "update", NEW l \in req[c].left, CheckRun(c, l)
  PROVE  Proceeds(c)
  <1> DEFINE old == req[c].state[l]
             job == IF old \in {"RAN", "CREATED"} THEN req[c].row[l] ELSE Refreshed(req[c].row, l)
             new == UpdateRunStatus(old, job)
             q(step) == [req[c] EXCEPT !.at = step, !.now = l, !.state[l] = new, !.row[l] = job]
  <1>1. req[c] \in Requests
    BY DEF Shape
  <1>2. /\ l \in Runs /\ req[c].row \in [Runs -> RowStates] /\ req[c].state \in [Runs -> States]
    BY <1>1 DEF Requests
  <1>3. job \in RowStates /\ old \in States
    BY <1>2, StatusFacts
  <1>4. new \in States /\ (new # old => new = "FAILED")
    BY <1>3, StatusFacts DEF States, FutureState
  <1>5. \/ Answer(c, "error") \/ RaceDetected(c) \/ NextRun(c, l)
        \/ new # old /\ GoOn(c, q("save_run"))
        \/ GoOn(c, q("save_job"))
    BY DEF CheckRun
  <1> HIDE DEF old, job, new
  <1>6. ASSUME NEW step \in {"save_run", "save_job"}, GoOn(c, q(step)), step = "save_run" => new # old
        PROVE  Proceeds(c)
    <2>1. PICK p : p = q(step)
      OBVIOUS
    <2>2. p \in Requests
      BY <1>1, <1>2, <1>3, <1>4, <2>1 DEF Requests, Steps
    <2>3. p.op = "update" /\ p.at = step /\ p.state[p.now] = new
      BY <1>1, <1>2, <2>1 DEF Requests
    <2>4. GoOn(c, p)
      BY <1>6, <2>1
    <2>5. Continues(c, p)
      BY <1>4, <1>6, <2>2, <2>3 DEF Continues
    <2> QED
      BY <2>4, <2>5, GoOnProceeds
  <1> QED
    BY <1>5, <1>6, AnswerProceeds, RaceProceeds, NextRunProceeds

LEMMA UpdateKeeps ==
  ASSUME Inv, NEW c \in Clients, Update(c), made' = made
  PROVE  Inv'
  <1>1. req[c] # NoRequest /\ req[c].op = "update" /\ Shape
    BY AtWork DEF Update
  <1>2. req[c] \in Requests
    BY <1>1 DEF Shape
  <1>3. CASE At(c, "update", "check") /\ (\E l \in req[c].left : CheckRun(c, l))
             /\ UNCHANGED <<database, cluster>>
    <2>1. Proceeds(c)
      BY <1>1, <1>3, CheckProceeds
    <2> QED
      BY <1>1, <1>3, <2>1, SameTables, ServedKeeps DEF database, cluster
  <1>4. CASE /\ At(c, "update", "save_run")
             /\ LET l == req[c].now IN
                IF IllegalSave(l, req[c].state[l]) THEN UNCHANGED run /\ RaceDetected(c)
                ELSE run' = [run EXCEPT ![l] = req[c].state[l]] /\ Goto(c, "save_job")
             /\ UNCHANGED <<status, row, cluster>>
    <2>1. Proceeds(c)
      BY <1>1, <1>4, RaceProceeds, GotoProceeds DEF Steps
    <2>2. req[c].now \in Runs /\ req[c].state[req[c].now] = "FAILED"
      BY <1>2, <1>4 DEF Inv, Holds, Requests
    <2>3. run' = run \/ run' = [run EXCEPT ![req[c].now] = "FAILED"]
      BY <1>4, <2>2
    <2>4. TablesShaped /\ ValuesSaved(c) /\ JobsMade(c)
      BY <1>1, <1>4, <2>2, <2>3, SameTables
         DEF TablesShaped, ValuesSaved, cluster, Shape, States, FutureState
    <2> QED
      BY <1>1, <2>1, <2>4, ServedKeeps
  <1>5. CASE /\ At(c, "update", "save_job")
             /\ row' = [row EXCEPT ![req[c].now] = req[c].row[req[c].now]]
             /\ NextRun(c, req[c].now)
             /\ UNCHANGED <<run, status, cluster>>
    <2>1. Proceeds(c)
      BY <1>1, <1>5, NextRunProceeds
    <2>2. req[c].now \in Runs /\ req[c].row[req[c].now] \in RowStates
      BY <1>2 DEF Requests
    <2>3. TablesShaped /\ ValuesSaved(c) /\ JobsMade(c)
      BY <1>1, <1>5, <2>2, SameTables DEF TablesShaped, cluster, Shape
    <2> QED
      BY <1>1, <2>1, <2>3, ServedKeeps
  <1> QED
    BY <1>3, <1>4, <1>5 DEF Update

LEMMA SaveGraphKeeps ==
  ASSUME Inv, NEW c \in Clients, SaveGraph(c), UNCHANGED cluster, made' = made
  PROVE  Inv'
  <1> DEFINE request == [NoRequest EXCEPT !.op = "graph"]
             runs    == {r \in req[c].on \ {Root} : IsTerminal(req[c].state[r])}
  <1>1. req[c] # NoRequest /\ req[c].op = "graph" /\ Shape /\ Saving(c)
    BY AtWork DEF SaveGraph, Saving
  <1>2. req[c].on \in SUBSET Runs /\ req[c].state \in [Runs -> States]
    BY <1>1 DEF Shape, Requests
  <1>3. request \in Requests /\ request.op = "graph"
    BY NoRequestFact DEF Requests, Ops
  <1>4. CancelJobsOf(c, request, runs)
    BY DEF SaveGraph
  <1> HIDE DEF request
  <1>5. runs \in SUBSET Runs
    BY <1>2
  <1> HIDE DEF runs
  <1>6. Proceeds(c)
    BY <1>1, <1>3, <1>4, <1>5, CancelJobsProceed
  <1>7. run' = [r \in Runs |-> IF r \in req[c].on THEN req[c].state[r] ELSE run[r]]
    BY DEF SaveGraph
  <1>8. run' \in [Runs -> States] /\ ValuesSaved(c)
    BY <1>1, <1>2, <1>7 DEF ValuesSaved, Shape
  <1>9. TablesShaped /\ JobsMade(c)
    BY <1>1, <1>8, SameTables DEF SaveGraph, TablesShaped, cluster, Shape
  <1> QED
    BY <1>1, <1>6, <1>8, <1>9, ServedKeeps

\* The requests on the pipeline run.
LEMMA StatusRequestKeeps ==
  ASSUME Inv, NEW c \in Clients, made' = made,
         CancelRunner(c) \/ SaveStatus(c) \/ RefreshRunner(c) \/ ListRuns(c) \/ CancelRuns(c)
  PROVE  Inv'
  <1>1. Shape /\ req[c] \in Requests /\ Root \in Runs
    BY ClientsFact DEF Inv, Shape
  <1>2. CASE CancelRunner(c)
    <2>1. req[c] # NoRequest /\ req[c].op = "cancel" /\ CancelJob(Root) /\ Goto(c, "save_status")
          /\ UNCHANGED <<run, status>>
      BY <1>2, AtWork DEF CancelRunner
    <2>2. Proceeds(c)
      BY <1>1, <2>1, GotoProceeds DEF Steps
    <2>3. TablesShaped /\ ValuesSaved(c) /\ JobsMade(c)
      BY <1>1, <2>1, CancelJobFacts, SameTables DEF TablesShaped, JobsMade, Shape
    <2> QED
      BY <2>1, <2>2, <2>3, ServedKeeps
  <1>3. CASE SaveStatus(c)
    <2>1. req[c] # NoRequest /\ req[c].op \in {"put", "cancel"} /\ status' = req[c].status
          /\ Goto(c, AfterSave(c)) /\ UNCHANGED <<run, row, cluster>>
      BY <1>3, NoRequestFact DEF SaveStatus
    <2>2. AfterSave(c) \in {"list_runs", "refresh"}
      BY DEF AfterSave
    <2>3. Proceeds(c)
      BY <1>1, <2>1, <2>2, GotoProceeds DEF Steps
    <2>4. status' \in PipelineStatus
      BY <1>1, <2>1 DEF Requests
    <2>5. TablesShaped /\ ValuesSaved(c) /\ JobsMade(c)
      BY <1>1, <2>1, <2>4, SameTables DEF TablesShaped, cluster, Shape
    <2> QED
      BY <2>1, <2>3, <2>5, ServedKeeps
  <1>4. CASE RefreshRunner(c)
    <2>1. req[c] # NoRequest /\ req[c].op = "put" /\ Answer(c, "ok")
          /\ row' = [row EXCEPT ![Root] = Refreshed(row, Root)] /\ UNCHANGED <<run, status, cluster>>
      BY <1>4, AtWork DEF RefreshRunner
    <2>2. Proceeds(c)
      BY <2>1, AnswerProceeds
    <2>3. Refreshed(row, Root) \in RowStates
      BY <1>1, StatusFacts DEF Shape
    <2>4. TablesShaped /\ ValuesSaved(c) /\ JobsMade(c)
      BY <1>1, <2>1, <2>3, SameTables DEF TablesShaped, cluster, Shape
    <2> QED
      BY <2>1, <2>2, <2>4, ServedKeeps
  <1>5. req[c].at \in {"list_runs", "cancel_runs", "cancel_jobs"} => req[c] # NoRequest
    BY NoRequestFact
  <1>6. CASE ListRuns(c)
    <2> DEFINE q == [req[c] EXCEPT !.at = "cancel_runs", !.left = {r \in Runs : IsOpen(run[r])}]
    <2>1. q \in Requests /\ q.op = req[c].op /\ q.at = "cancel_runs" /\ q.on = req[c].on
      BY <1>1 DEF Requests, Steps
    <2>2. GoOn(c, q) /\ req[c].at = "list_runs" /\ UNCHANGED <<database, cluster>>
      BY <1>6 DEF ListRuns
    <2> HIDE DEF q
    <2>3. req[c].op \notin {"clean_run", "schedule"}
      BY <2>2 DEF Inv, Holds
    <2>4. Continues(c, q)
      BY <2>1, <2>3 DEF Continues
    <2>5. Proceeds(c)
      BY <2>2, <2>4, GoOnProceeds
    <2> QED
      BY <1>5, <2>2, <2>5, SameTables, ServedKeeps DEF database, cluster
  <1>7. CASE CancelRuns(c)
    <2>1. req[c].at = "cancel_runs" /\ req[c].left \in SUBSET Runs
          /\ run' = [r \in Runs |-> IF r \in req[c].left THEN "CANCELED" ELSE run[r]]
          /\ CancelJobsOf(c, req[c], req[c].left \ {Root}) /\ UNCHANGED <<status, row, cluster>>
      BY <1>1, <1>7 DEF CancelRuns, Requests
    <2>2. req[c].op \notin {"clean_run", "schedule"}
      BY <2>1 DEF Inv, Holds
    <2>3. Proceeds(c)
      BY <1>1, <2>1, <2>2, CancelJobsProceed
    <2>4. "CANCELED" \in States
      BY DEF States, FutureState
    <2>5. TablesShaped /\ ValuesSaved(c) /\ JobsMade(c)
      BY <1>1, <2>1, <2>4, SameTables DEF TablesShaped, ValuesSaved, cluster, Shape
    <2> QED
      BY <1>5, <2>1, <2>3, <2>5, ServedKeeps
  <1> QED
    BY <1>2, <1>3, <1>4, <1>6, <1>7

LEMMA CancelJobsKeeps ==
  ASSUME Inv, NEW c \in Clients, CancelJobs(c), made' = made
  PROVE  Inv'
  <1>1. Shape /\ req[c] \in Requests /\ req[c] # NoRequest /\ req[c].op \notin {"clean_run", "schedule"}
    BY NoRequestFact DEF Inv, Shape, Holds, CancelJobs
  <1>2. req[c].left \in SUBSET Runs /\ run' = run /\ status' = status
    BY <1>1 DEF CancelJobs, Requests
  <1>3. ASSUME NEW r \in Runs, CancelJobsOf(c, req[c], req[c].left \ {r})
        PROVE  Proceeds(c)
    BY <1>1, <1>2, <1>3, CancelJobsProceed
  <1>4. CASE \E r \in req[c].left : CancelJob(r) /\ CancelJobsOf(c, req[c], req[c].left \ {r})
    <2>1. PICK r \in req[c].left : CancelJob(r) /\ CancelJobsOf(c, req[c], req[c].left \ {r})
      BY <1>4
    <2>2. Proceeds(c)
      BY <1>2, <1>3, <2>1
    <2>3. TablesShaped /\ ValuesSaved(c) /\ JobsMade(c)
      BY <1>1, <1>2, <2>1, CancelJobFacts, SameTables DEF TablesShaped, JobsMade, Shape
    <2> QED
      BY <1>1, <2>2, <2>3, ServedKeeps
  <1>5. CASE /\ \E r \in req[c].left :
                  CASE req[c].op = "clean_jobs" -> CancelJobsOf(c, req[c], req[c].left \ {r})
                    [] req[c].op = "put" -> AfterJobs(c)
                    [] OTHER -> Answer(c, "error")
             /\ UNCHANGED <<row, cluster>>
    <2>1. AfterJobs(c) /\ req[c].op = "put" => Proceeds(c)
      <3>1. SUFFICES ASSUME Goto(c, "save_status"), req[c].op = "put" PROVE Proceeds(c)
        BY DEF AfterJobs
      <3> QED
        BY <1>1, <3>1, GotoProceeds DEF Steps
    <2>2. Proceeds(c)
      BY <1>2, <1>3, <1>5, <2>1, AnswerProceeds
    <2> QED
      BY <1>1, <1>2, <1>5, <2>2, SameTables, ServedKeeps DEF database, cluster
  <1> QED
    BY <1>4, <1>5 DEF CancelJobs

\* What is cleaned does not become a value.
LEMMA CleanedFact ==
  ASSUME NEW s \in States, s # "RESOLVED"
  PROVE  CleanedState(s) \in States \ {"RESOLVED"}
  BY DEF CleanedState, States, FutureState

LEMMA CleanRunKeeps ==
  ASSUME Inv, NEW c \in Clients, CleanRun(c), made' = made
  PROVE  Inv'
  <1>1. req[c] # NoRequest /\ req[c].op = "clean_run" /\ Shape
    BY AtWork DEF CleanRun
  <1>2. PICK r \in req[c].on :
          LET new == CleanedState(req[c].state[r]) IN
          run' = IF IllegalSave(r, new) THEN run ELSE [run EXCEPT ![r] = new]
    BY DEF CleanRun
  <1>3. r \in Runs /\ req[c].state[r] \in States /\ req[c].state[r] # "RESOLVED"
    BY <1>1 DEF Shape, Requests, Inv, Holds
  <1>4. PICK new \in States \ {"RESOLVED"} : run' = run \/ run' = [run EXCEPT ![r] = new]
    BY <1>2, <1>3, CleanedFact
  <1>5. TablesShaped /\ ValuesSaved(c) /\ JobsMade(c)
    BY <1>1, <1>3, <1>4, SameTables DEF CleanRun, TablesShaped, ValuesSaved, cluster, Shape
  <1>6. Proceeds(c)
    BY AnswerProceeds DEF CleanRun
  <1> QED
    BY <1>1, <1>5, <1>6, ServedKeeps

LEMMA CleanPipelineKeeps ==
  ASSUME Inv, NEW c \in Clients, CleanPipeline(c), made' = made
  PROVE  Inv'
  <1>1. req[c] # NoRequest /\ req[c].op = "clean_pipeline" /\ Shape
    BY AtWork DEF CleanPipeline
  <1>2. CASE status' = "FAILED" /\ Goto(c, "save_job") /\ UNCHANGED <<run, row, cluster>>
    <2>1. Proceeds(c)
      BY <1>1, <1>2, GotoProceeds DEF Steps
    <2>2. TablesShaped /\ ValuesSaved(c) /\ JobsMade(c)
      BY <1>1, <1>2, SameTables DEF TablesShaped, cluster, Shape, PipelineStatus
    <2> QED
      BY <1>1, <2>1, <2>2, ServedKeeps
  <1>3. CASE /\ row' = [row EXCEPT ![Root] = IF req[c].row[Root] = "ended" THEN "ended" ELSE @]
             /\ Answer(c, "ok") /\ UNCHANGED <<run, status, cluster>>
    <2>1. Proceeds(c)
      BY <1>3, AnswerProceeds
    <2>2. TablesShaped /\ ValuesSaved(c) /\ JobsMade(c)
      BY <1>1, <1>3, SameTables DEF TablesShaped, cluster, Shape, RowStates
    <2> QED
      BY <1>1, <2>1, <2>2, ServedKeeps
  <1> QED
    BY <1>2, <1>3 DEF CleanPipeline

LEMMA ServeKeeps ==
  ASSUME Inv, NEW c \in Clients, Serve(c)
  PROVE  Inv'
  BY LaunchKeeps, ScheduleKeeps, UpdateKeeps, StatusRequestKeeps, SaveGraphKeeps, CancelJobsKeeps,
     CleanRunKeeps, CleanPipelineKeeps DEF Serve

(***************************************************************************)
(* Requests begin.                                                         *)
(***************************************************************************)
\* What a request may begin as.
Begins(c, q) ==
  /\ q \in Requests /\ Asks(c, q.op)
  /\ q.op # "update" \/ q.at # "save_run"
  /\ q.op \in {"schedule", "clean_run"} => q.at \in {"submit", "save_run", "save_job"}
  /\ q.op = "schedule" => q.on \subseteq Leaves /\ rpc = "schedule"
  /\ q.op = "clean_run" => \A r \in q.on : q.state[r] # "RESOLVED"

\* What the runner may begin to save.
SavesWell(q) ==
  q.op = "graph" /\ q.at = "save_graph" =>
    /\ Root \in q.on => /\ q.state[Root] = "RESOLVED" => ~ Early
                        /\ run[Root] = "RESOLVED" => q.state[Root] = "RESOLVED"
    /\ \A l \in Leaves \cap q.on : q.state[l] \in {"CREATED", "CANCELED"}
    /\ (\E l \in Leaves \cap q.on : q.state[l] = "CREATED") => Early

\* A request that begins leaves the invariant as it is: of the runner, one that it may make,
\* of a worker, its only one.
LEMMA AskKeeps ==
  ASSUME Inv, NEW c \in Clients, NEW q, Ask(c, q), Begins(c, q),
         UNCHANGED <<database, cluster>>,
         made' = made \/ (made' = made \cup {c} /\ c \notin made),
         c \notin {"runner", "cleaner"} => c \in made',
         c = "runner" => Alive(Root) /\ rpc # "gone" /\ SavesWell(q) /\ made' = made,
         c \in Leaves => ~ (Early \/ Expands) /\ q.on = {c} /\ made' = made \cup {c} /\ c \notin made,
         c = "launcher" => made' = made \cup {c} /\ c \notin made
  PROVE  Inv'
  <1>1. /\ Shape /\ RunnerOnce /\ RunnerSaves /\ \A d \in Clients : Holds(d)
        /\ \A l \in Leaves : WorkerOnce(l)
    BY DEF Inv
  <1>2. /\ req[c] = NoRequest /\ rpc' = rpc
        /\ req'[c] = q /\ (\A d \in Clients \ {c} : req'[d] = req[d]) /\ req' \in [Clients -> Requests]
    BY <1>1 DEF Ask, GoOn, Shape, Begins
  <1>3. UNCHANGED <<run, status, row, live, doomed>>
    BY DEF database, cluster
  <1>4. Shape'
    BY <1>1, <1>2, <1>3 DEF Shape
  <1>5. ASSUME NEW d \in Clients
        PROVE  Holds(d)'
    <2>1. CASE d = c
      BY <1>2, <2>1 DEF Holds, Begins, Asks, At
    <2>2. CASE d # c
      BY <1>1, <1>2, <2>2 DEF Holds, Asks, At
    <2> QED
      BY <2>1, <2>2
  <1>6. ASSUME NEW l \in Leaves
        PROVE  WorkerOnce(l)'
    <2>1. WorkerOnce(l) /\ l \in Clients
      BY <1>1, ClientsFact
    <2>2. CASE l = c
      <3>1. l \in made' /\ run'[l] # "RESOLVED" /\ req'[l].on = {l}
        BY <1>2, <1>3, <2>1, <2>2 DEF WorkerOnce
      <3> QED
        BY <3>1 DEF WorkerOnce
    <2>3. CASE l # c
      <3>1. (l \in made' <=> l \in made) /\ req'[l] = req[l] /\ run' = run
        BY <1>2, <1>3, <2>1, <2>3
      <3> QED
        BY <2>1, <3>1 DEF WorkerOnce, Saving, At
    <2> QED
      BY <2>2, <2>3
  <1>7. Alive(Root)' = Alive(Root) /\ (Early' <=> Early)
    BY <1>2, <1>3 DEF Alive, Early
  <1>8. c # "runner" => /\ req'["runner"] = req["runner"]
                        /\ (Saving("runner")' <=> Saving("runner")) /\ (Expands' <=> Expands)
    BY <1>2, ClientsFact DEF Saving, At, Expands
  <1>9. Prelaunch' => Prelaunch
    BY <1>2, ClientsFact DEF Prelaunch
  <1>10. RunnerOnce'
    <2>1. "launcher" \notin made' => req'["launcher"] = NoRequest
      BY <1>1, <1>2, ClientsFact DEF RunnerOnce
    <2>2. Prelaunch' => rpc' = "begin" /\ ~ Alive(Root)' /\ req'["runner"] = NoRequest
      BY <1>1, <1>2, <1>7, <1>8, <1>9 DEF RunnerOnce
    <2>3. rpc' = "gone" /\ Alive(Root)' => req'["runner"] = NoRequest
      BY <1>1, <1>2, <1>7, <1>8 DEF RunnerOnce
    <2>4. req'["runner"].op = "schedule" => rpc' \in {"schedule", "gone"}
      BY <1>1, <1>2, <1>8 DEF RunnerOnce, Begins
    <2>5. Early' => run'[Root] # "RESOLVED"
      BY <1>1, <1>3, <1>7 DEF RunnerOnce
    <2>6. ASSUME Early' \/ Expands'
          PROVE  NoLeafYet'
      <3>1. Early \/ (c # "runner" /\ Expands)
        BY <1>2, <1>7, <1>8, <2>6 DEF Expands, Saving, At, SavesWell
      <3>2. NoLeafYet /\ c \notin Leaves
        BY <1>1, <3>1 DEF RunnerOnce
      <3> QED
        BY <1>3, <3>2 DEF NoLeafYet, Alive
    <2> QED
      BY <2>1, <2>2, <2>3, <2>4, <2>5, <2>6 DEF RunnerOnce
  <1>11. RunnerSaves'
    BY <1>1, <1>2, <1>3, <1>7, <1>8 DEF RunnerSaves, SavesWell, Saving, At
  <1> QED
    BY <1>4, <1>5, <1>6, <1>10, <1>11 DEF Inv

\* What happens around the requests: pods end, and the runner goes on or is gone.
LEMMA WorldKeeps ==
  ASSUME Inv, UNCHANGED <<database, req>>,
         made' = made \/ made' = made \cup {"user"},
         live' \subseteq Runs, doomed' \subseteq Runs, live' \cup doomed' \subseteq live \cup doomed,
         Early' => Early,
         rpc' \in {"begin", "start", "expand", "schedule", "wait", "resolve", "succeed", "fail",
                   "fail_status", "last_word", "gone"},
         \/ rpc' = rpc
         \/ Alive(Root) /\ req["runner"] = NoRequest
         \/ Alive(Root) /\ rpc' = "gone" /\ ~ (Root \in live' \cup doomed')
  PROVE  Inv'
  <1>1. /\ Shape /\ RunnerOnce /\ RunnerSaves /\ \A d \in Clients : Holds(d)
        /\ \A l \in Leaves : WorkerOnce(l)
    BY DEF Inv
  <1>2. UNCHANGED <<run, status, row>> /\ req' = req
    BY DEF database
  <1>3. "user" \in Clients /\ "user" \notin Leaves
    BY ClientsFact
  <1>4. Shape'
    BY <1>1, <1>2, <1>3 DEF Shape
  <1>5. ASSUME NEW d \in Clients
        PROVE  Holds(d)'
    BY <1>1, <1>2 DEF Holds, Asks, At
  <1>6. ASSUME NEW l \in Leaves
        PROVE  WorkerOnce(l)'
    <2>1. WorkerOnce(l) /\ (l \in made' <=> l \in made)
      BY <1>1, <1>3
    <2> QED
      BY <1>2, <2>1 DEF WorkerOnce, Saving, At
  <1>7. (Alive(Root)' => Alive(Root)) /\ (NoLeafYet => NoLeafYet')
    BY <1>3 DEF Alive, NoLeafYet
  <1>8. (Expands' <=> Expands) /\ (Saving("runner")' <=> Saving("runner")) /\ (Prelaunch' <=> Prelaunch)
        /\ ("launcher" \in made' <=> "launcher" \in made)
    BY <1>2 DEF Expands, Saving, At, Prelaunch
  <1>9. RunnerOnce'
    <2>1. "launcher" \notin made' => req'["launcher"] = NoRequest
      BY <1>1, <1>2, <1>8 DEF RunnerOnce
    <2>2. Prelaunch' => rpc' = "begin" /\ ~ Alive(Root)' /\ req'["runner"] = NoRequest
      BY <1>1, <1>2, <1>7, <1>8 DEF RunnerOnce
    <2>3. rpc' = "gone" /\ Alive(Root)' => req'["runner"] = NoRequest
      BY <1>1, <1>2, <1>7 DEF RunnerOnce, Alive
    <2>4. req'["runner"].op = "schedule" => rpc' \in {"schedule", "gone"}
      BY <1>1, <1>2, NoRequestFact DEF RunnerOnce
    <2>5. Early' => run'[Root] # "RESOLVED"
      BY <1>1, <1>2 DEF RunnerOnce
    <2>6. Early' \/ Expands' => NoLeafYet'
      BY <1>1, <1>7, <1>8 DEF RunnerOnce
    <2> QED
      BY <2>1, <2>2, <2>3, <2>4, <2>5, <2>6 DEF RunnerOnce
  <1>10. RunnerSaves'
    BY <1>1, <1>2, <1>8 DEF RunnerSaves
  <1> QED
    BY <1>4, <1>5, <1>6, <1>9, <1>10 DEF Inv

\* The pod of the runner is gone, or that of another job.
LEMMA PodsKeep ==
  ASSUME Inv, UNCHANGED <<database, req, made>>, RunnerMayBeGone,
         live' \subseteq Runs, doomed' \subseteq Runs, live' \cup doomed' \subseteq live \cup doomed
  PROVE  Inv'
  <1>1. Shape
    BY DEF Inv
  <1>2. CASE Root \in live' \cup doomed' \/ ~ Alive(Root)
    <2>1. rpc' = rpc
      BY <1>2 DEF RunnerMayBeGone
    <2> QED
      BY <1>1, <2>1, WorldKeeps DEF Early, Shape
  <1>3. CASE ~ (Root \in live' \cup doomed') /\ Alive(Root)
    <2>1. rpc' = "gone"
      BY <1>3 DEF RunnerMayBeGone
    <2> QED
      BY <1>3, <2>1, WorldKeeps DEF Early
  <1> QED
    BY <1>2, <1>3

\* The runner or a user asks for a status.
LEMMA AskStatusKeeps ==
  ASSUME Inv, NEW c \in {"runner", "user"}, NEW op, NEW s \in PipelineStatus, AskStatus(c, op, s),
         UNCHANGED <<database, cluster>>,
         c = "runner" => op = "put" /\ Alive(Root) /\ rpc # "gone" /\ made' = made,
         c = "user" => op = "cancel" /\ c \notin made /\ made' = made \cup {c}
  PROVE  Inv'
  <1>1. c \in Clients /\ c \notin Leaves /\ req[c] = NoRequest /\ Shape
    BY ClientsFact DEF AskStatus, Inv
  <1>2. CASE Answer(c, "error")
    <2>1. /\ req' = [req EXCEPT ![c] = NoRequest] /\ (Early' => Early)
          /\ rpc' \in {"begin", "start", "expand", "schedule", "wait", "resolve", "succeed", "fail",
                       "fail_status", "last_word", "gone"}
          /\ c # "runner" => rpc' = rpc
      BY <1>1, <1>2, AnswerFacts
    <2>2. req' = req
      BY <1>1, <2>1 DEF Shape
    <2>3. live' = live /\ doomed' = doomed
      BY DEF cluster
    <2> QED
      BY <1>1, <2>1, <2>2, <2>3, WorldKeeps DEF Shape
  <1>3. CASE GoOn(c, [NoRequest EXCEPT !.op = op, !.status = s, !.at = FirstStep(op, s)])
    <2> DEFINE q == [NoRequest EXCEPT !.op = op, !.status = s, !.at = FirstStep(op, s)]
    <2>1. FirstStep(op, s) \in {"runner_job", "list_runs", "save_status"}
      BY DEF FirstStep
    <2>2. q \in Requests /\ q.op = op /\ q.at # "save_graph"
      BY <2>1, NoRequestFact DEF Requests, Ops, Steps
    <2>3. Ask(c, q)
      BY <1>1, <1>3 DEF Ask
    <2> HIDE DEF q
    <2>4. Begins(c, q) /\ SavesWell(q)
      BY <2>2 DEF Begins, Asks, SavesWell
    <2> QED
      BY <1>1, <2>3, <2>4, AskKeeps
  <1> QED
    BY <1>2, <1>3 DEF AskStatus

\* What a request to save a graph knows.
LEMMA SaveRequestFact ==
  ASSUME NEW on \in SUBSET Runs, NEW R \in [Runs -> States]
  PROVE  /\ SaveRequest(on, R) \in Requests
         /\ SaveRequest(on, R).op = "graph" /\ SaveRequest(on, R).on = on
         /\ \A r \in on : SaveRequest(on, R).state[r] = R[r]
  <1>1. Only(on, R, "NONE") \in [Runs -> States] /\ \A r \in on : Only(on, R, "NONE")[r] = R[r]
    BY DEF Only, States
  <1> QED
    BY <1>1, NoRequestFact DEF SaveRequest, Requests, Ops, Steps

\* A worker saves its run once.
LEMMA WorkerAnswersKeeps ==
  ASSUME Inv, NEW l \in Leaves, WorkerAnswers(l)
  PROVE  Inv'
  <1>1. PICK s \in {"RESOLVED", "FAILED"} : Ask(l, SaveRequest({l}, [run EXCEPT ![l] = s]))
    BY DEF WorkerAnswers
  <1>2. Shape /\ l \in Runs /\ l \in Clients /\ l \notin {"runner", "launcher", "user", "cleaner"}
    BY ClientsFact DEF Inv
  <1> DEFINE R == [run EXCEPT ![l] = s]
             q == SaveRequest({l}, R)
  <1>3. R \in [Runs -> States]
    BY <1>1, <1>2 DEF Shape, States, FutureState
  <1> HIDE DEF R
  <1>4. q \in Requests /\ q.op = "graph" /\ q.on = {l}
    BY <1>2, <1>3, SaveRequestFact
  <1>5. Ask(l, q)
    BY <1>1 DEF R
  <1> HIDE DEF q
  <1>6. Begins(l, q)
    BY <1>4 DEF Begins, Asks
  <1>7. ~ (Early \/ Expands)
    BY DEF WorkerAnswers, Inv, RunnerOnce, NoLeafYet
  <1> QED
    BY <1>2, <1>4, <1>5, <1>6, <1>7, AskKeeps DEF WorkerAnswers, Once

\* The runner saves runs.
LEMMA SaveKeeps ==
  ASSUME Inv, NEW on \in SUBSET Runs, NEW R \in [Runs -> States], Save(on, R),
         Alive(Root), rpc # "gone", UNCHANGED <<database, cluster, made>>,
         Root \in on => /\ R[Root] = "RESOLVED" => ~ Early
                        /\ run[Root] = "RESOLVED" => R[Root] = "RESOLVED",
         \A l \in Leaves \cap on : R[l] = "CANCELED" \/ (R[l] = "CREATED" /\ Early)
  PROVE  Inv'
  <1> DEFINE q == SaveRequest(on, R)
  <1>1. q \in Requests /\ q.op = "graph" /\ q.on = on /\ \A r \in on : q.state[r] = R[r]
    BY SaveRequestFact
  <1>2. Ask("runner", q)
    BY DEF Save
  <1> HIDE DEF q
  <1>3. Begins("runner", q)
    BY <1>1 DEF Begins, Asks
  <1>4. SavesWell(q)
    BY <1>1, ClientsFact DEF SavesWell
  <1> QED
    BY <1>2, <1>3, <1>4, AskKeeps, ClientsFact DEF database, cluster

\* The runner sends a request about runs.
LEMMA SendKeeps ==
  ASSUME Inv, NEW on \in SUBSET Leaves, NEW op, NEW step, Send(op, on, step),
         Alive(Root), UNCHANGED <<database, cluster, made>>,
         \/ op = "schedule" /\ step = "submit" /\ rpc = "schedule"
         \/ op = "update" /\ step = "check" /\ rpc # "gone"
  PROVE  Inv'
  <1> DEFINE q == Request(op, on, step)
  <1>1. Shape /\ op \in Ops /\ step \in Steps /\ on \in SUBSET Runs
    BY ClientsFact DEF Inv, Ops, Steps
  <1>2. q \in Requests /\ q.op = op /\ q.on = on /\ q.at = step
    BY <1>1, RequestFact
  <1>3. Ask("runner", q)
    BY DEF Send
  <1> HIDE DEF q
  <1>4. Begins("runner", q) /\ SavesWell(q)
    BY <1>2 DEF Begins, Asks, SavesWell
  <1> QED
    BY <1>3, <1>4, AskKeeps, ClientsFact DEF database, cluster

LEMMA RunnerAsksKeeps ==
  ASSUME Inv, RunnerAsks
  PROVE  Inv'
  <1>1. Shape /\ RunnerOnce /\ Root \in Runs /\ Root \notin Leaves
    BY ClientsFact DEF Inv
  <1>2. Alive(Root) /\ UNCHANGED <<database, cluster, made>>
    BY DEF RunnerAsks
  <1>3. {"RUNNING", "COMPLETE", "FAILED"} \subseteq PipelineStatus
        /\ {"SCHEDULED", "RAN", "CREATED", "RESOLVED", "FAILED", "CANCELED"} \subseteq States
    BY DEF PipelineStatus, States, FutureState
  <1>4. CASE \/ rpc = "begin"       /\ AskStatus("runner", "put", "RUNNING")
             \/ rpc = "succeed"     /\ AskStatus("runner", "put", "COMPLETE")
             \/ rpc = "fail_status" /\ AskStatus("runner", "put", "FAILED")
    <2>1. PICK s \in PipelineStatus : AskStatus("runner", "put", s)
      BY <1>3, <1>4
    <2> QED
      BY <1>2, <1>4, <2>1, AskStatusKeeps
  <1>5. CASE rpc = "start" /\ Save({Root}, [run EXCEPT ![Root] = "SCHEDULED"])
    <2> DEFINE R == [run EXCEPT ![Root] = "SCHEDULED"]
    <2>1. R \in [Runs -> States] /\ R[Root] = "SCHEDULED"
      BY <1>1, <1>3 DEF Shape
    <2>2. Save({Root}, R) /\ run[Root] # "RESOLVED"
      BY <1>1, <1>5 DEF RunnerOnce, Early
    <2> HIDE DEF R
    <2> QED
      BY <1>1, <1>2, <1>5, <2>1, <2>2, SaveKeeps
  <1>6. CASE rpc = "expand" /\ Save(Runs, [r \in Runs |-> IF r = Root THEN "RAN" ELSE "CREATED"])
    <2> DEFINE R == [r \in Runs |-> IF r = Root THEN "RAN" ELSE "CREATED"]
    <2>1. R \in [Runs -> States] /\ R[Root] = "RAN" /\ \A l \in Leaves : R[l] = "CREATED"
      BY <1>1, <1>3, ClientsFact
    <2>2. Save(Runs, R) /\ run[Root] # "RESOLVED" /\ Early
      BY <1>1, <1>6 DEF RunnerOnce, Early
    <2> HIDE DEF R
    <2> QED
      BY <1>2, <1>6, <2>1, <2>2, SaveKeeps
  <1>7. CASE rpc = "resolve" /\ Save({Root}, [run EXCEPT ![Root] = "RESOLVED"])
    <2> DEFINE R == [run EXCEPT ![Root] = "RESOLVED"]
    <2>1. R \in [Runs -> States] /\ R[Root] = "RESOLVED"
      BY <1>1, <1>3 DEF Shape
    <2>2. Save({Root}, R) /\ ~ Early
      BY <1>7 DEF Early
    <2> HIDE DEF R
    <2> QED
      BY <1>1, <1>2, <1>7, <2>1, <2>2, SaveKeeps
  <1>8. CASE \/ rpc = "fail" /\ Save(OpenRuns, MovedRuns)
             \/ rpc = "last_word" /\ IsOpen(run[Root]) /\ Save({Root}, MovedRuns)
    <2>1. /\ MovedRuns \in [Runs -> States] /\ MovedRuns[Root] = "FAILED"
          /\ \A l \in Leaves : MovedRuns[l] = "CANCELED"
      BY <1>1, <1>3, ClientsFact DEF MovedRuns
    <2>2. PICK on \in SUBSET Runs : Save(on, MovedRuns) /\ (Root \in on => IsOpen(run[Root]))
      BY <1>1, <1>8 DEF OpenRuns
    <2>3. Root \in on => run[Root] # "RESOLVED"
      BY <2>2 DEF IsOpen, IsTerminal, TerminalStates
    <2>4. rpc # "gone"
      BY <1>8
    <2> QED
      BY <1>2, <2>1, <2>2, <2>3, <2>4, SaveKeeps
  <1>9. CASE rpc = "schedule" /\ \E l \in Leaves : Send("schedule", {l}, "submit")
    BY <1>2, <1>9, SendKeeps
  <1>10. CASE rpc = "wait" /\ Send("update", {l \in Leaves : future[l] = "SCHEDULED"}, "check")
    <2>1. PICK on \in SUBSET Leaves : Send("update", on, "check")
      BY <1>10
    <2> QED
      BY <1>2, <1>10, <2>1, SendKeeps
  <1> QED
    BY <1>4, <1>5, <1>6, <1>7, <1>8, <1>9, <1>10 DEF RunnerAsks

LEMMA CleanKeeps ==
  ASSUME Inv, NEW op \in CleanerOps, NEW r \in Runs, Clean(op, r)
  PROVE  Inv'
  <1>1. Shape /\ "cleaner" \in Clients /\ "cleaner" \notin Leaves
    BY ClientsFact DEF Inv
  <1>2. UNCHANGED <<database, cluster, made>>
    BY DEF Clean
  <1>3. SUFFICES ASSUME NEW q, Ask("cleaner", q), Begins("cleaner", q)
                 PROVE  Inv'
    <2>1. CASE op = "clean_run" /\ OrphanedRun(r) /\ Ask("cleaner", Request(op, {r}, "save_run"))
      <3> DEFINE q == Request(op, {r}, "save_run")
      <3>1. op \in Ops /\ "save_run" \in Steps
        BY <2>1 DEF Ops, Steps
      <3>2. /\ q \in Requests /\ q.op = "clean_run" /\ q.at = "save_run" /\ q.on = {r}
            /\ q.state[r] = run[r]
        BY <1>1, <2>1, <3>1, RequestFact
      <3>3. run[r] # "RESOLVED"
        BY <2>1 DEF OrphanedRun, IsOpen, IsTerminal, TerminalStates
      <3>4. Ask("cleaner", q)
        BY <2>1
      <3> HIDE DEF q
      <3>5. Begins("cleaner", q)
        BY <3>2, <3>3 DEF Begins, Asks, CleanerOps
      <3> QED
        BY <1>3, <3>4, <3>5
    <2>2. CASE op = "clean_jobs"
               /\ Ask("cleaner", [NoRequest EXCEPT !.op = op, !.left = {r}, !.at = "cancel_jobs"])
      <3> DEFINE q == [NoRequest EXCEPT !.op = op, !.left = {r}, !.at = "cancel_jobs"]
      <3>1. q \in Requests /\ q.op = "clean_jobs"
        BY <2>2, NoRequestFact DEF Requests, Ops, Steps
      <3>2. Ask("cleaner", q)
        BY <2>2
      <3> HIDE DEF q
      <3>3. Begins("cleaner", q)
        BY <3>1 DEF Begins, Asks, CleanerOps
      <3> QED
        BY <1>3, <3>2, <3>3
    <2>3. CASE op = "clean_pipeline"
               /\ Ask("cleaner", [NoRequest EXCEPT !.op = op, !.at = "save_status",
                                                   !.row[Root] = Refreshed(row, Root)])
      <3> DEFINE q == [NoRequest EXCEPT !.op = op, !.at = "save_status",
                                        !.row[Root] = Refreshed(row, Root)]
      <3>1. Refreshed(row, Root) \in RowStates
        BY <1>1, StatusFacts, ClientsFact DEF Shape
      <3>2. q \in Requests /\ q.op = "clean_pipeline"
        BY <2>3, <3>1, NoRequestFact DEF Requests, Ops, Steps
      <3>3. Ask("cleaner", q)
        BY <2>3
      <3> HIDE DEF q
      <3>4. Begins("cleaner", q)
        BY <3>2 DEF Begins, Asks, CleanerOps
      <3> QED
        BY <1>3, <3>3, <3>4
    <2> QED
      BY <2>1, <2>2, <2>3 DEF Clean
  <1> QED
    BY <1>1, <1>2, <1>3, AskKeeps DEF database, cluster

LEMMA LaunchPipelineKeeps ==
  ASSUME Inv, LaunchPipeline
  PROVE  Inv'
  <1> DEFINE q == [NoRequest EXCEPT !.op = "launch",
                                    !.at = IF status = "CREATED" THEN "submit" ELSE "refuse"]
  <1>1. q \in Requests /\ q.op = "launch"
    BY NoRequestFact DEF Requests, Ops, Steps
  <1>2. Ask("launcher", q)
    BY DEF LaunchPipeline
  <1> HIDE DEF q
  <1>3. Begins("launcher", q)
    BY <1>1 DEF Begins, Asks
  <1> QED
    BY <1>2, <1>3, AskKeeps, ClientsFact DEF LaunchPipeline, Once, database, cluster

LEMMA CancelPipelineKeeps ==
  ASSUME Inv, CancelPipeline
  PROVE  Inv'
  <1>1. "CANCELED" \in PipelineStatus
    BY DEF PipelineStatus
  <1> QED
    BY <1>1, AskStatusKeeps DEF CancelPipeline, Once

\* The pods and the runner, whatever the requests are doing.
LEMMA AroundKeeps ==
  ASSUME Inv,
         \/ \E l \in Leaves : WorkerLeaves(l)
         \/ TakesState \/ RunnerLeaves
         \/ \E j \in Runs : PodStops(j) \/ PodDies(j)
  PROVE  Inv'
  <1>1. Shape
    BY DEF Inv
  <1>2. CASE \E l \in Leaves : WorkerLeaves(l)
    <2>1. UNCHANGED <<database, req, rpc, made>> /\ live' \subseteq live /\ doomed' \subseteq doomed
      BY <1>2 DEF WorkerLeaves, clients
    <2> QED
      BY <1>1, <2>1, WorldKeeps DEF Shape, Early
  <1>3. CASE TakesState
    <2>1. PICK F : rpc' = NextStep(F)
      BY <1>3 DEF TakesState
    <2>2. rpc' \in {"fail", "schedule", "wait", "resolve"}
      BY <2>1 DEF NextStep
    <2>3. /\ UNCHANGED <<database, req, made>> /\ live' = live /\ doomed' = doomed
          /\ Alive(Root) /\ req["runner"] = NoRequest
      BY <1>3 DEF TakesState, cluster
    <2> QED
      BY <1>1, <2>2, <2>3, WorldKeeps DEF Shape, Early
  <1>4. CASE RunnerLeaves
    BY <1>1, <1>4, PodsKeep DEF RunnerLeaves, Shape
  <1>5. CASE \E j \in Runs : PodStops(j) \/ PodDies(j)
    <2>1. /\ UNCHANGED <<database, req, made>> /\ RunnerMayBeGone
          /\ live' \subseteq live /\ doomed' \subseteq doomed
      BY <1>5 DEF PodStops, PodDies
    <2> QED
      BY <1>1, <2>1, PodsKeep DEF Shape
  <1> QED
    BY <1>2, <1>3, <1>4, <1>5

\* The server stops in the middle of a request.
LEMMA ServerDiesKeeps ==
  ASSUME Inv, NEW c \in Clients, ServerDies(c)
  PROVE  Inv'
  <1>1. req[c] # NoRequest /\ Proceeds(c) /\ Shape
    BY NoRequestFact DEF ServerDies, Proceeds, Inv
  <1>2. UNCHANGED <<run, status, row, live, doomed, made>>
    BY DEF ServerDies, database, cluster
  <1>3. TablesShaped /\ ValuesSaved(c) /\ JobsMade(c)
    BY <1>1, <1>2, SameTables DEF Shape, TablesShaped, cluster
  <1> QED
    BY <1>1, <1>2, <1>3, ServedKeeps

LEMMA InitInv ==
  ASSUME Init
  PROVE  Inv
  <1>1. \A c \in Clients : req[c] = NoRequest
    BY DEF Init
  <1>2. NoRequest \in Requests /\ NoRequest.op = "none" /\ NoRequest.at = "idle" /\ NoRequest.on = {}
    BY NoRequestFact
  <1>3. Shape
    <2>1. run \in [Runs -> States] /\ row \in [Runs -> RowStates] /\ status \in PipelineStatus
      BY DEF Init, States, FutureState, RowStates, PipelineStatus
    <2>2. req \in [Clients -> Requests]
      BY <1>2 DEF Init
    <2> QED
      BY <2>1, <2>2 DEF Init, Shape
  <1>4. \A r \in Runs : run[r] # "RESOLVED"
    BY DEF Init
  <1>5. ASSUME NEW c \in Clients
        PROVE  Holds(c)
    BY <1>1, <1>2 DEF Holds, Asks, At
  <1>6. ASSUME NEW l \in Leaves
        PROVE  WorkerOnce(l)
    <2>1. l \in Clients /\ l \in Runs
      BY ClientsFact
    <2> QED
      BY <1>1, <1>2, <1>4, <2>1 DEF WorkerOnce, Saving, At
  <1>7. RunnerOnce /\ RunnerSaves
    <2>1. req["runner"] = NoRequest /\ req["launcher"] = NoRequest /\ run[Root] # "RESOLVED"
      BY <1>1, <1>4, ClientsFact
    <2>2. rpc = "begin" /\ made = {} /\ \A j : ~ Alive(j)
      BY DEF Init, Alive
    <2> QED
      BY <1>2, <2>1, <2>2 DEF RunnerOnce, RunnerSaves, NoLeafYet, Saving, At, Prelaunch, Early
  <1> QED
    BY <1>3, <1>5, <1>6, <1>7 DEF Inv

LEMMA NextInv ==
  ASSUME Inv, [Next]_vars
  PROVE  Inv'
  <1>1. CASE Next
    <2>1. CASE \E c \in Clients : Serve(c) \/ ServerDies(c)
      BY <2>1, ServeKeeps, ServerDiesKeeps
    <2>2. CASE LaunchPipeline \/ CancelPipeline
      BY <2>2, LaunchPipelineKeeps, CancelPipelineKeeps
    <2>3. CASE RunnerAsks
      BY <2>3, RunnerAsksKeeps
    <2>4. CASE \E l \in Leaves : WorkerAnswers(l)
      BY <2>4, WorkerAnswersKeeps
    <2>5. CASE \E op \in CleanerOps, r \in Runs : Clean(op, r)
      BY <2>5, CleanKeeps
    <2>6. CASE \/ \E l \in Leaves : WorkerLeaves(l)
               \/ TakesState \/ RunnerLeaves
               \/ \E j \in Runs : PodStops(j) \/ PodDies(j)
      BY <2>6, AroundKeeps
    <2> QED
      BY <1>1, <2>1, <2>2, <2>3, <2>4, <2>5, <2>6 DEF Next, Runner, Worker
  <1>2. CASE UNCHANGED vars
    <2>1. UNCHANGED <<database, req, rpc, made>> /\ live' = live /\ doomed' = doomed
      BY <1>2 DEF vars, cluster, clients
    <2> QED
      BY <2>1, WorldKeeps DEF Early, Inv, Shape
  <1> QED
    BY <1>1, <1>2

LEMMA Invariant == Spec => []Inv
  <1>1. Init => Inv
    BY InitInv
  <1>2. Inv /\ [Next]_vars => Inv'
    BY NextInv
  <1> QED
    BY <1>1, <1>2, PTL DEF Spec

(***************************************************************************)
(* Values survive.                                                         *)
(***************************************************************************)
\* What is saved of a run that has a value.
Survives == \A r \in Runs : run[r] = "RESOLVED" => run'[r] \in {"RESOLVED", "CANCELED"}

\* save_run refuses what would overwrite a value.
LEMMA SaveRefuses ==
  ASSUME Shape, NEW r \in Runs, NEW s, run' = run \/ (~ IllegalSave(r, s) /\ run' = [run EXCEPT ![r] = s])
  PROVE  Survives
  <1>1. AllowedTransitions["RESOLVED"] = {}
    BY DEF AllowedTransitions, FutureState
  <1>2. SUFFICES ASSUME run[r] = "RESOLVED", ~ IllegalSave(r, s), run' = [run EXCEPT ![r] = s]
                 PROVE  s = "RESOLVED"
    BY DEF Survives, Shape
  <1> QED
    BY <1>1, <1>2 DEF IllegalSave, IsAllowedTransition

\* Neither a worker nor the runner overwrites a value with what it is about to save.
LEMMA GraphSurvives ==
  ASSUME Inv, NEW c \in Clients, SaveGraph(c)
  PROVE  Survives
  <1>1. Saving(c) /\ run' = [r \in Runs |-> IF r \in req[c].on THEN req[c].state[r] ELSE run[r]]
    BY DEF SaveGraph, Saving
  <1>2. c \in Leaves \/ c = "runner"
    BY <1>1 DEF Inv, Holds, Asks, Saving, At, CleanerOps
  <1>3. ASSUME NEW r \in Runs, run[r] = "RESOLVED", r \in req[c].on
        PROVE  req[c].state[r] \in {"RESOLVED", "CANCELED"}
    <2>1. c = "runner"
      BY <1>1, <1>2, <1>3 DEF Inv, WorkerOnce
    <2>2. CASE r = Root
      BY <1>1, <1>3, <2>1, <2>2 DEF Inv, RunnerSaves
    <2>3. CASE r \in Leaves
      <3>1. req[c].state[r] = "CREATED" => Expands
        BY <1>1, <1>3, <2>1, <2>3 DEF Expands
      <3>2. Expands => r \notin made
        BY <2>3 DEF Inv, RunnerOnce, NoLeafYet
      <3>3. r \notin made => run[r] # "RESOLVED"
        BY <2>3 DEF Inv, WorkerOnce
      <3> QED
        BY <1>1, <1>3, <2>1, <2>3, <3>1, <3>2, <3>3 DEF Inv, RunnerSaves
    <2> QED
      BY <1>3, <2>2, <2>3 DEF Runs
  <1> QED
    BY <1>1, <1>3 DEF Survives

\* The run of a pipeline that is refused has no value: the runner was never there.
LEMMA LaunchSurvives ==
  ASSUME Inv, NEW c \in Clients, Launch(c)
  PROVE  Survives
  <1>1. CASE At(c, "launch", "refuse") /\ run' = [run EXCEPT ![Root] = "FAILED"]
    <2>1. c = "launcher"
      BY <1>1 DEF At, Inv, Holds, Asks, CleanerOps
    <2>2. Prelaunch
      BY <1>1, <2>1 DEF At, Prelaunch
    <2>3. run[Root] # "RESOLVED"
      BY <2>2 DEF Inv, RunnerOnce, Early
    <2> QED
      BY <1>1, <2>3 DEF Survives, Inv, Shape
  <1>2. CASE run' = run
    BY <1>2 DEF Survives
  <1> QED
    BY <1>1, <1>2 DEF Launch, database

LEMMA ServeSurvives ==
  ASSUME Inv, NEW c \in Clients, Serve(c)
  PROVE  Survives
  <1>1. Shape /\ req[c] \in Requests /\ Holds(c)
    BY DEF Inv, Shape
  <1>2. CASE Schedule(c)
    <2>1. PICK l \in req[c].on :
            run' = run \/ (~ IllegalSave(l, "SCHEDULED") /\ run' = [run EXCEPT ![l] = "SCHEDULED"])
      BY <1>2 DEF Schedule, database
    <2>2. l \in Runs
      BY <1>1 DEF Requests
    <2> QED
      BY <1>1, <2>1, <2>2, SaveRefuses
  <1>3. CASE Update(c)
    <2> DEFINE l == req[c].now
               s == req[c].state[l]
    <2>1. run' = run \/ (~ IllegalSave(l, s) /\ run' = [run EXCEPT ![l] = s])
      BY <1>3 DEF Update, database
    <2>2. l \in Runs
      BY <1>1 DEF Requests
    <2> HIDE DEF s, l
    <2> QED
      BY <1>1, <2>1, <2>2, SaveRefuses
  <1>4. CASE CleanRun(c)
    <2>1. PICK r \in req[c].on :
            run' = IF IllegalSave(r, CleanedState(req[c].state[r])) THEN run
                   ELSE [run EXCEPT ![r] = CleanedState(req[c].state[r])]
      BY <1>4 DEF CleanRun
    <2> DEFINE s == CleanedState(req[c].state[r])
    <2>2. run' = run \/ (~ IllegalSave(r, s) /\ run' = [run EXCEPT ![r] = s])
      BY <2>1
    <2>3. r \in Runs
      BY <1>1 DEF Requests
    <2> HIDE DEF s
    <2> QED
      BY <1>1, <2>2, <2>3, SaveRefuses
  <1>5. CASE CancelRuns(c)
    BY <1>5 DEF CancelRuns, Survives
  <1>6. CASE Launch(c) \/ SaveGraph(c)
    BY <1>6, LaunchSurvives, GraphSurvives
  <1>7. CASE \/ CancelRunner(c) \/ SaveStatus(c) \/ RefreshRunner(c) \/ ListRuns(c) \/ CleanPipeline(c)
             \/ CancelJobs(c)
    <2>1. run' = run
      BY <1>7 DEF CancelRunner, SaveStatus, RefreshRunner, ListRuns, CleanPipeline, CancelJobs, database
    <2> QED
      BY <2>1 DEF Survives
  <1> QED
    BY <1>2, <1>3, <1>4, <1>5, <1>6, <1>7 DEF Serve

\* Only the server saves runs.
LEMMA StepSurvives ==
  ASSUME Inv, [Next]_vars
  PROVE  Survives
  <1>1. CASE \E c \in Clients : Serve(c)
    BY <1>1, ServeSurvives
  <1>2. CASE run' = run
    BY <1>2 DEF Survives
  <1>3. (\E c \in Clients : Serve(c)) \/ UNCHANGED database \/ UNCHANGED vars
    BY DEF Next, ServerDies, LaunchPipeline, CancelPipeline, Runner, RunnerAsks, TakesState,
           RunnerLeaves, Worker, WorkerAnswers, WorkerLeaves, Clean, PodStops, PodDies
  <1> QED
    BY <1>1, <1>2, <1>3 DEF vars, database

\* A value that a worker has saved is never turned into a failure by the API server, whatever
\* requests, faults and cancellations come between (save_run checks the transition against the
\* row; save_graph and the cleaner do not save what they have not read).
THEOREM AnswersSurviveAlways == Spec => AnswersSurvive
  <1>1. Inv /\ [Next]_vars
          => [\A r \in Runs : run[r] = "RESOLVED" => run'[r] \in {"RESOLVED", "CANCELED"}]_vars
    BY StepSurvives DEF Survives
  <1> QED
    BY <1>1, Invariant, PTL DEF Spec, AnswersSurvive
=============================================================================
