-------------------------------- MODULE Metrics --------------------------------
(***************************************************************************)
(* abstract_system_metric.py, api/endpoints/metrics.py and the SQL metrics *)
(* storage: requests that save a graph, update the states of runs or log a *)
(* value store points, each in several transactions, while an operator     *)
(* fills a metric again from the runs.                                     *)
(***************************************************************************)
EXTENDS Naturals, FiniteSets, Functions

CONSTANTS
  MaxRequests,  \* bound on the requests sent, those sent again included
  MaxAtOnce     \* bound on the requests under way together

VARIABLES
  runTable,    \* the runs saved: run -> [state, cloned]
  jobsLeft,    \* runs that have ended and whose jobs have not been canceled
  labelRows,   \* metric_labels: [name, type, path, run]; the id is a hash of all of it
  valueRows,   \* metric_values: [by: number of the request, label, time, value]
  serving,     \* the request each client has under way
  sent,        \* how many requests were sent
  overlapped,  \* two requests that touch system metrics were under way together
  uncounted    \* runs whose count went with a request that failed

metricVars == <<runTable, jobsLeft, labelRows, valueRows, serving, sent, overlapped, uncounted>>

Runs == {1, 2}                                 \* numbered in the order of created_at
Runners == {"runner", "other runner"}
Clients == Runners \cup {"function", "operator"}
Ended == {"RESOLVED", "FAILED"}
Path(r) == IF r = 1 THEN "pipeline" ELSE "step"

-----------------------------------------------------------------------------
(* What a metric measures of a run: at most one point.  System metrics are    *)
(* not labelled with the run, which is 0 then.                                *)

Point(name, type, r, run, time, value) ==
  [label |-> [name |-> name, type |-> type, path |-> Path(r), run |-> run],
   time |-> time, value |-> value]
EndOf(r) == 2 + r
RunCount(r, row) == {Point("run_count", "COUNT", r, 0, r, 1)}
SuccessRate(r, row) ==
  IF row.state \in Ended /\ ~row.cloned
  THEN {Point("success_rate", "GAUGE", r, 0, EndOf(r), IF row.state = "RESOLVED" THEN 1 ELSE 0)}
  ELSE {}
Runtime(r, row) == IF row.state = "RESOLVED" /\ ~row.cloned
                   THEN {Point("runtime", "GAUGE", r, 0, EndOf(r), EndOf(r) - r)}
                   ELSE {}

EventPoints(event, rows) ==
  UNION {IF event = "run_created" THEN RunCount(r, rows[r])
         ELSE SuccessRate(r, rows[r]) \cup Runtime(r, rows[r]) : r \in DOMAIN rows}
BackfillPoints(name) ==
  UNION {CASE name = "run_count"    -> RunCount(r, runTable[r])
           [] name = "success_rate" -> SuccessRate(r, runTable[r])
           [] name = "runtime"      -> Runtime(r, runTable[r]) : r \in DOMAIN runTable}

-----------------------------------------------------------------------------
(* Requests, step by step.  A request is [kind, stage, rows, fresh, points,   *)
(* new, n]: what it says of runs, which of them are new, the points to store  *)
(* and the labels found missing.                                              *)

None == [kind |-> "none"]
Request(kind, rows, points) ==
  [kind |-> kind, stage |-> "check", rows |-> rows, fresh |-> {}, points |-> points,
   new |-> {}, n |-> sent]
At(c, stage) == serving[c] # None /\ serving[c].stage = stage
Goes(c, req) == serving' = [serving EXCEPT ![c] = req]

Init == /\ runTable = <<>> /\ jobsLeft = {} /\ labelRows = {} /\ valueRows = {}
        /\ serving = [c \in Clients |-> None] /\ sent = 0 /\ overlapped = FALSE
        /\ uncounted = {}

\* The runner that sends the first request is "runner".
Send(c, kind, rows, points) ==
  /\ serving[c] = None /\ Cardinality({d \in Clients : serving[d] # None}) < MaxAtOnce
  /\ sent < MaxRequests /\ (sent = 0 => c # "other runner")
  /\ Goes(c, Request(kind, rows, points))
  /\ sent' = sent + 1
  /\ overlapped' = (overlapped \/ (kind # "log" /\ \E d \in Clients : serving[d].kind \notin {"none", "log"}))
  /\ UNCHANGED <<runTable, jobsLeft, labelRows, valueRows, uncounted>>

\* A runner saves its runs, as they are by then; runs do not leave a final state.
\* A run that stands for an earlier one (a cache hit, a clone) is new and resolved.
SendGraph == \E c \in Runners, rs \in (SUBSET Runs) \ {{}}, state \in {"SCHEDULED", "RESOLVED"}, cloned \in BOOLEAN :
  /\ cloned => state = "RESOLVED" /\ rs \cap DOMAIN runTable = {}
  /\ \A r \in rs \cap DOMAIN runTable : runTable[r].state \notin Ended
  /\ Send(c, "graph", [r \in rs |-> [state |-> state, cloned |-> cloned]], {})
\* A runner asks after its runs: the jobs of some are found to have failed.
SendStatus == \E c \in Runners, rs \in SUBSET {r \in DOMAIN runTable : runTable[r].state = "SCHEDULED"} :
  Send(c, "status", [r \in rs |-> [runTable[r] EXCEPT !.state = "FAILED"]], {})
\* A function logs a value, of either type.
LogMetric == \E r \in DOMAIN runTable, type \in {"COUNT", "GAUGE"} :
  Send("function", "log", <<>>, {Point("accuracy", type, r, r, EndOf(r), 1)})
Backfill == \E name \in {"run_count", "success_rate", "runtime"} :
  Send("operator", name, <<>>, {})

\* get_existing_run_ids, before the graph is saved; the points of a backfill are computed from the table.
Checks(c) ==
  /\ At(c, "check")
  /\ LET req == serving[c]
     IN  Goes(c, CASE req.kind \in {"graph", "status"} ->
                        [req EXCEPT !.stage = "save", !.fresh = DOMAIN req.rows \ DOMAIN runTable]
                   [] req.kind = "log" -> [req EXCEPT !.stage = "label"]
                   [] OTHER -> [req EXCEPT !.stage = "clear", !.points = BackfillPoints(req.kind)])
  /\ UNCHANGED <<runTable, jobsLeft, labelRows, valueRows, sent, overlapped, uncounted>>

\* Mutant: a run counts as new by what the table holds after the save.
CreatedAfterSave(req) == IF req.kind = "graph"
                         THEN EventPoints("run_created", Restrict(req.rows, DOMAIN req.rows \ DOMAIN runTable'))
                         ELSE EventPoints("run_state_changed", req.rows)
\* New runs count as created when a graph is saved; states count as changed
\* only when it is the server that found the change.
RunPoints(req) == IF req.kind = "graph" THEN EventPoints("run_created", Restrict(req.rows, req.fresh))
                  ELSE EventPoints("run_state_changed", req.rows)
\* save_run refuses a state that cannot follow the one the run has by now.
Stale(req) == req.kind = "status" /\ \E r \in DOMAIN req.rows : runTable[r].state \in Ended
DetectsRace(c) == /\ At(c, "save") /\ Stale(serving[c])
                  /\ Goes(c, None)
                  /\ UNCHANGED <<runTable, jobsLeft, labelRows, valueRows, sent, overlapped, uncounted>>
Saves(c) ==
  /\ At(c, "save") /\ ~Stale(serving[c])
  /\ LET req == serving[c]
     IN  /\ runTable' = [r \in DOMAIN runTable \cup DOMAIN req.rows |->
                           IF r \in DOMAIN req.rows THEN req.rows[r] ELSE runTable[r]]
         /\ jobsLeft' = IF req.kind = "graph"
                        THEN jobsLeft \cup {r \in DOMAIN req.rows : req.rows[r].state \in Ended}
                        ELSE jobsLeft
         /\ Goes(c, [req EXCEPT !.points = RunPoints(req),
                                !.stage = IF RunPoints(req) = {} THEN "jobs" ELSE "label"])
  /\ UNCHANGED <<labelRows, valueRows, sent, overlapped, uncounted>>

\* A backfill removes the values of its metric, of any time, but no label.
Clear(name) == valueRows' = {v \in valueRows : v.label.name # name} /\ UNCHANGED labelRows
Clears(c) == /\ At(c, "clear")
             /\ Clear(serving[c].kind)
             /\ Goes(c, [serving[c] EXCEPT !.stage = "label"])
             /\ UNCHANGED <<runTable, jobsLeft, sent, overlapped, uncounted>>

\* The runs whose counts a request has still to store.
CountOf(r) == Point("run_count", "COUNT", r, 0, r, 1)
IsCount(p) == p.label.name = "run_count"
Owed(req) == IF req # None /\ req.stage \in {"label", "insert"}
             THEN {p.time : p \in {q \in req.points : IsCount(q)}} ELSE {}

\* store_metrics: one session looks up which labels exist ...
LooksUpLabels(c) ==
  /\ At(c, "label")
  /\ Goes(c, [serving[c] EXCEPT !.stage = "insert",
                                !.new = {p.label : p \in serving[c].points} \ labelRows])
  /\ UNCHANGED <<runTable, jobsLeft, labelRows, valueRows, sent, overlapped, uncounted>>
\* ... another inserts the missing ones and all the values, or nothing: a label
\* is refused when another of the same name, path and run is there, inserted in
\* the meantime or of the other type.
Refused(labels) == \E l \in labels, m \in labelRows :
                     l.name = m.name /\ l.path = m.path /\ l.run = m.run
Inserts(c) ==
  /\ At(c, "insert") /\ ~Refused(serving[c].new)
  /\ labelRows' = labelRows \cup serving[c].new
  /\ valueRows' = valueRows \cup {[by |-> serving[c].n, label |-> p.label, time |-> p.time,
                                   value |-> p.value] : p \in serving[c].points}
  /\ uncounted' = uncounted \ Owed(serving[c])
  /\ Goes(c, [serving[c] EXCEPT !.stage = "jobs"])
  /\ UNCHANGED <<runTable, jobsLeft, sent, overlapped>>
\* The request fails; a client of the API sends it again, to be checked anew.
\* A failed update of states finds nothing to change then.
SendsAgain(c) ==
  LET req == serving[c]
  IN  IF sent < MaxRequests /\ req.kind \in {"graph", "log"}
      THEN /\ sent' = sent + 1
           /\ Goes(c, [req EXCEPT !.stage = "check", !.n = sent, !.fresh = {}, !.new = {},
                                  !.points = IF req.kind = "log" THEN @ ELSE {}])
      ELSE Goes(c, None) /\ UNCHANGED sent
\* It fails between any two of its transactions: the server dies or is cut off from
\* its database, or a label is refused.  What was saved or removed stays so.
Fails(c) == /\ serving[c] # None
            /\ SendsAgain(c)
            /\ uncounted' = uncounted \cup Owed(serving[c])
            /\ UNCHANGED <<runTable, jobsLeft, labelRows, valueRows, overlapped>>

\* Saving a graph ends with canceling the jobs of the runs that ended.
Answers(c) == /\ At(c, "jobs")
              /\ jobsLeft' = jobsLeft \ DOMAIN serving[c].rows
              /\ Goes(c, None)
              /\ UNCHANGED <<runTable, labelRows, valueRows, sent, overlapped, uncounted>>
\* The answer is lost on its way; the client sends its request again.
AnswerIsLost(c) ==
  /\ At(c, "jobs") /\ serving[c].kind = "graph"
  /\ jobsLeft' = jobsLeft \ DOMAIN serving[c].rows
  /\ SendsAgain(c)
  /\ UNCHANGED <<runTable, labelRows, valueRows, overlapped, uncounted>>

Next == \/ SendGraph \/ SendStatus \/ LogMetric \/ Backfill
        \/ \E c \in Clients : \/ Checks(c) \/ DetectsRace(c) \/ Saves(c) \/ Clears(c) \/ LooksUpLabels(c)
                              \/ Inserts(c) \/ Fails(c) \/ Answers(c) \/ AnswerIsLost(c)

-----------------------------------------------------------------------------
(* get_aggregated_metrics: values joined with their labels, per bucket of     *)
(* time and per label asked for; counts add up, gauges are averaged, given    *)
(* here as the sum and the number of values.                                  *)

\* The sum of natural numbers, counted one by one.
SumOf(f) == Cardinality(UNION {{x} \X (1 .. f[x]) : x \in DOMAIN f})

Bucket(time, rollup) == IF rollup = 0 THEN 0 ELSE (time \div rollup) * rollup
Group(v, byPath) == IF byPath THEN v.label.path ELSE ""
Key(v, byPath, rollup) == <<Bucket(v.time, rollup), Group(v, byPath)>>
Selected(name, from, to) == {v \in valueRows : /\ v.label \in labelRows /\ v.label.name = name
                                               /\ from <= v.time /\ v.time < to}
Aggregate(key, here) ==
  [at |-> key, sum |-> SumOf([v \in here |-> v.value]), count |-> Cardinality(here)]
Aggregated(name, from, to, byPath, rollup) ==
  LET selected == Selected(name, from, to)
  IN  {Aggregate(key, {v \in selected : Key(v, byPath, rollup) = key})
       : key \in {Key(v, byPath, rollup) : v \in selected}}

\* Requests sent again, values logged by functions meanwhile, requests that fail
\* half-way, backfills: whenever no request is under way, no run is counted twice,
\* and the only runs that are not counted are those whose count went with a request
\* that failed and that no backfill has counted since, however the counts are split
\* by time and path, unless two requests that touch system metrics overlapped.
Quiet == ~overlapped /\ \A c \in Clients : serving[c] = None
Total(name, byPath, rollup) == SumOf([g \in Aggregated(name, 0, 9, byPath, rollup) |-> g.sum])
RunsCountedOnce ==
  Quiet => \A byPath \in BOOLEAN, rollup \in 0 .. 2 :
             Total("run_count", byPath, rollup) = Cardinality(DOMAIN runTable \ uncounted)

\* A value is never stored without the label it is found by.
ValuesAreLabelled == \A v \in valueRows : v.label \in labelRows

-----------------------------------------------------------------------------
(* The inductive invariant of the two.                                        *)

SystemMetrics == {"run_count", "success_rate", "runtime"}
Label == [name : SystemMetrics \cup {"accuracy"}, type : {"COUNT", "GAUGE"},
          path : {"pipeline", "step"}, run : 0 .. 2]
MetricPoint == [label : Label, time : 1 .. 4, value : 0 .. 2]
Tables == UNION {[S -> [state : Ended \cup {"SCHEDULED"}, cloned : BOOLEAN]] : S \in SUBSET Runs}
RequestUnderWay ==
  [kind : SystemMetrics \cup {"graph", "status", "log"},
   stage : {"check", "save", "clear", "label", "insert", "jobs"},
   rows : Tables, fresh : SUBSET Runs, points : SUBSET MetricPoint, new : SUBSET Label, n : Nat]
MetricsTyped ==
  /\ runTable \in Tables /\ jobsLeft \subseteq Runs /\ labelRows \subseteq Label
  /\ valueRows \subseteq [by : Nat, label : Label, time : 1 .. 4, value : 0 .. 2]
  /\ serving \in [Clients -> RequestUnderWay \cup {None}]
  /\ sent \in Nat /\ overlapped \in BOOLEAN /\ uncounted \subseteq Runs

\* Functions log under names of their own; the label of a system metric follows
\* from its name and path.
SystemLabel(l) == /\ l.name \in SystemMetrics /\ l.run = 0
                  /\ l.type = IF l.name = "run_count" THEN "COUNT" ELSE "GAUGE"
PointsFit(req) ==
  \A p \in req.points : IF req.kind = "log" THEN p.label.name = "accuracy"
                        ELSE SystemLabel(p.label) /\ (IsCount(p) => p = CountOf(p.time) /\ p.time \in Runs)
RequestFits(req) ==
  /\ PointsFit(req) /\ req.fresh \subseteq DOMAIN req.rows
  /\ req.kind = "status" => DOMAIN req.rows \subseteq DOMAIN runTable
  /\ req.stage = "save" => req.kind \in {"graph", "status"}
  /\ req.stage = "clear" => \A p \in req.points : p.label.name = req.kind
  /\ req.stage = "insert" => LET labels == {p.label : p \in req.points}
                             IN  req.new \subseteq labels /\ labels \subseteq labelRows \cup req.new

\* What a request that touches system metrics has found is so until it saves or
\* clears, while no other one is under way.
TouchesSystem(req) == req.kind \notin {"none", "log"}
StillSo(req) ==
  /\ req.kind = "graph" /\ req.stage = "save" => req.fresh = DOMAIN req.rows \ DOMAIN runTable
  /\ req.kind = "run_count" /\ req.stage = "clear" => {p.time : p \in req.points} = DOMAIN runTable

\* Every run saved has its one count stored, or it is on its way, or went with a
\* request that failed.
Counts == {v \in valueRows : IsCount(v)}
Due == UNION {Owed(serving[c]) : c \in Clients}
CountedOnce ==
  /\ \A v \in Counts : v.label = CountOf(v.time).label /\ v.value = 1
  /\ \A v, w \in Counts : v.time = w.time => v = w
  /\ {v.time : v \in Counts} = DOMAIN runTable \ (Due \cup uncounted)
  /\ Due \subseteq DOMAIN runTable

MetricsInv ==
  /\ MetricsTyped /\ ValuesAreLabelled
  /\ \A l \in labelRows : l.name = "accuracy" \/ SystemLabel(l)
  /\ \A c \in Clients : serving[c] # None => RequestFits(serving[c])
  /\ ~overlapped =>
       /\ \A c, d \in Clients : TouchesSystem(serving[c]) /\ TouchesSystem(serving[d]) => c = d
       /\ \A c \in Clients : TouchesSystem(serving[c]) => StillSo(serving[c])
       /\ CountedOnce
=============================================================================
