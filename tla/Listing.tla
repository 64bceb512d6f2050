-------------------------------- MODULE Listing --------------------------------
(***************************************************************************)
(* api/endpoints/request_parameters.py, runs.py and the dashboard's        *)
(* runHooks.ts: the list of runs that the server pages with a cursor and   *)
(* the dashboard keeps page by page, while runs are created and move on.   *)
(***************************************************************************)
EXTENDS Integers, FiniteSets, Sequences, SequencesExt

CONSTANTS
  MaxRows,      \* bound on the runs there are
  PageSize      \* PAGE_SIZE

VARIABLES
  rows,      \* the runs in the order of created_at: [path, parent, state, job]
  asked,     \* what the list shows: [filters, grouped]
  loads,     \* requests of the list under way: [page, cursor, content]
  cache,     \* pagesCache: the pages that arrived, [content, next, count]
  page,      \* the page number shown, from 0
  broken,    \* a request failed and the list shows the error
  patient,   \* nobody asked for a page while another was loading
  began,     \* the runs that the first page was chosen from
  reply      \* the answer to the latest request of another client, [request, content]

listVars == <<rows, asked, loads, cache, page, broken, patient, began, reply>>

-----------------------------------------------------------------------------
(* Filters: conditions [column, operator, value] joined by AND or OR; none at *)
(* all, or a bare condition, is an AND.                                       *)

Columns == {"function_path", "parent_id", "future_state"}
Relationships == {"root_run.function_path"}
GarbageFilters == {"orphaned_jobs"}
Column(i, c) == CASE c = "function_path" -> rows[i].path
                  [] c = "parent_id"     -> rows[i].parent
                  [] c = "future_state"  -> rows[i].state
Root(i) == IF rows[i].parent = 0 THEN i ELSE rows[i].parent
OrphanedJob(i) == rows[i].state = "RESOLVED" /\ rows[i].job

\* What is wrong with a condition, as an HTTP status: a ValueError is reported
\* as a bad request, any other exception is an internal error.
ConditionStatus(c) ==
  CASE c.column \in Relationships -> IF c.operator = "eq" THEN 200 ELSE 400
    [] c.column \notin Columns \cup Relationships -> 500
    [] c.column \in Columns -> CASE c.operator \in {"eq", "in"} -> 200
                                 [] c.operator = "contains"     -> 400
                                 [] OTHER                       -> 500
Holds(c, i) == CASE c.column \in Relationships -> rows[Root(i)].path = c.value
                 [] c.column \in GarbageFilters -> OrphanedJob(i)
                 [] c.operator = "in"          -> Column(i, c.column) \in c.value
                 [] OTHER                      -> Column(i, c.column) = c.value
Satisfies(filters, i) ==
  LET held == {n \in DOMAIN filters.of : Holds(filters.of[n], i)}
  IN  IF filters.how = "AND" THEN held = DOMAIN filters.of ELSE held # {}

FirstError(statuses) == IF \E n \in DOMAIN statuses : statuses[n] # 200
                        THEN SelectSeq(statuses, LAMBDA s : s # 200)[1] ELSE 200

Garbage(filters) == {n \in DOMAIN filters.of : filters.of[n].column \in GarbageFilters}
WellAsked(c) == c.operator = "eq" /\ c.value = "True"

-----------------------------------------------------------------------------
(* Requests: [filters, limit, order, cursor, group_by, fields].  A cursor     *)
(* names a run; 0 stands for none, -1 for one that does not decode.           *)

PlainRequest == [filters |-> [how |-> "AND", of |-> <<>>], limit |-> PageSize, order |-> "desc",
                 cursor |-> 0, group_by |-> "", fields |-> "all"]

ParametersStatus(req) ==
  FirstError(<<IF req.limit = -1 \/ req.limit > 0 THEN 200 ELSE 400,
               IF req.group_by \in Columns \cup {""} THEN 200 ELSE 400>>
             \o [n \in DOMAIN req.filters.of |-> ConditionStatus(req.filters.of[n])]
             \o <<IF req.order \in {"asc", "desc"} THEN 200 ELSE 400>>)

ListStatus(req) == FirstError(<<ParametersStatus(req),
                                IF req.fields \in {"all", "id"} THEN 200 ELSE 400,
                                IF req.cursor # -1 THEN 200 ELSE 400>>)

\* The filters are taken off before the parameters of a garbage request are read.
GarbageStatus(req) ==
  FirstError(<<IF req.limit = 0 THEN 200 ELSE 400,
               ParametersStatus([req EXCEPT !.filters.of = <<>>, !.limit = PageSize]),
               IF req.cursor = 0 /\ req.group_by = "" /\ req.fields = "id" THEN 200 ELSE 400>>)

Status(req) ==
  LET garbage == Garbage(req.filters)
  IN  IF \E n \in garbage : ~WellAsked(req.filters.of[n]) THEN 500
      ELSE IF garbage = {} THEN ListStatus([req EXCEPT !.limit = IF @ = 0 THEN MaxRows ELSE @])
      ELSE IF garbage # DOMAIN req.filters.of \/ Cardinality(garbage) > 1 THEN 400
      ELSE GarbageStatus(req)

\* The newest run of each group.
NewestOfGroup(column, i) == \A j \in DOMAIN rows : Column(j, column) = Column(i, column) => j <= i

\* Mutant: a page begins with the run the cursor names.
ChosenFromCursor(req) == {i \in DOMAIN rows : /\ req.group_by # "" => NewestOfGroup(req.group_by, i)
                                              /\ Satisfies(req.filters, i)
                                              /\ req.cursor # 0 => i <= req.cursor}

\* group_by keeps the newest run of each value among all the runs; the cursor
\* keeps the runs that are older than it.
Chosen(req) == {i \in DOMAIN rows : /\ req.group_by # "" => NewestOfGroup(req.group_by, i)
                                    /\ Satisfies(req.filters, i)
                                    /\ req.cursor # 0 => i < req.cursor}
Sorted(ids, order) ==
  CHOOSE s \in [1 .. Cardinality(ids) -> ids] :
    \A m, n \in DOMAIN s : m < n => IF order = "desc" THEN s[m] > s[n] ELSE s[m] < s[n]
Limited(s, limit) == IF limit < 1 \/ limit > Len(s) THEN s ELSE SubSeq(s, 1, limit)
Read(req) == Limited(Sorted(Chosen(req), req.order), req.limit)

\* The payload: the rows were read before they were counted.
Payload(req, content, count) ==
  [content |-> content, count |-> count,
   next |-> IF content # <<>> /\ count > req.limit THEN Last(content) ELSE 0]

-----------------------------------------------------------------------------
(* The list of the dashboard.                                                 *)

Condition(column, operator, value) == [column |-> column, operator |-> operator, value |-> value]
All(conditions) == [how |-> "AND", of |-> conditions]
RootsOnly == Condition("parent_id", "eq", 0)
InStates(states) == Condition("future_state", "in", states)

\* useFiltersConverter joins what was ticked; the list of a pipeline's runs adds
\* its own conditions in front, the list of pipelines groups.
Lists == {[filters |-> All(<<>>), grouped |-> FALSE],
          [filters |-> All(<<InStates({"RESOLVED"})>>), grouped |-> FALSE],
          [filters |-> All(<<Condition("function_path", "eq", "f"), RootsOnly>>), grouped |-> FALSE],
          [filters |-> All(<<RootsOnly>>), grouped |-> TRUE]}
Settled(filters) == \A n \in DOMAIN filters.of : filters.of[n].column # "future_state"

RequestOf(load) == [PlainRequest EXCEPT !.filters = asked.filters, !.cursor = load.cursor,
                                        !.group_by = IF asked.grouped THEN "function_path" ELSE ""]
NotRead == <<0>>
Load(p, cursor) == [page |-> p, cursor |-> cursor, content |-> NotRead]
\* totalRuns comes from the first page that arrived, and is not computed again.
TotalPages == IF cache = <<>> \/ cache[1].count = 0 THEN 1
              ELSE (cache[1].count + PageSize - 1) \div PageSize

Init == /\ rows = <<>> /\ asked \in Lists /\ cache = <<>> /\ page = 0
        /\ loads = <<>> /\ broken = FALSE /\ patient = TRUE /\ began = {} /\ reply = <<>>

NoReply == reply' = <<>>

Open == /\ cache = <<>> /\ loads = <<>> /\ ~broken
        /\ loads' = <<Load(0, 0)>>
        /\ NoReply /\ UNCHANGED <<rows, asked, cache, page, broken, patient, began>>

\* The button is only disabled on the first and the last page.  A page in the
\* cache is shown at once.  A missing cursor is sent as the word "null".
NextPage ==
  /\ ~broken /\ cache # <<>> /\ page + 1 # TotalPages /\ Len(loads) < 2
  /\ IF page + 1 < Len(cache)
     THEN page' = page + 1 /\ UNCHANGED <<loads, patient>>
     ELSE /\ loads' = Append(loads, Load(page + 1, IF Last(cache).next = 0 THEN -1 ELSE Last(cache).next))
          /\ patient' = (patient /\ loads = <<>>)
          /\ page' = page
  /\ NoReply /\ UNCHANGED <<rows, asked, cache, broken, began>>

PreviousPage == /\ ~broken /\ page > 0
                /\ page' = page - 1
                /\ NoReply /\ UNCHANGED <<rows, asked, loads, cache, broken, patient, began>>

\* The list of pipelines loads its first page again at every change of a
\* pipeline; it is shown in place of the current page, under its number.
Refresh == /\ ~broken /\ asked.grouped /\ cache # <<>> /\ loads = <<>> /\ Len(cache) < MaxRows
           /\ loads' = <<Load(page, 0)>>
           /\ patient' = FALSE
           /\ NoReply /\ UNCHANGED <<rows, asked, cache, page, broken, began>>

\* The server selects the rows of a page ...
ServerReads(n) ==
  /\ loads[n].content = NotRead /\ Status(RequestOf(loads[n])) = 200
  /\ loads' = [loads EXCEPT ![n].content = Read(RequestOf(loads[n]))]
  /\ began' = IF cache = <<>> THEN Chosen(RequestOf(loads[n])) ELSE began
  /\ NoReply /\ UNCHANGED <<rows, asked, cache, page, broken, patient>>
ServerRefuses(n) ==
  /\ loads[n].content = NotRead /\ Status(RequestOf(loads[n])) # 200
  /\ broken' = TRUE /\ loads' = RemoveAt(loads, n)
  /\ NoReply /\ UNCHANGED <<rows, asked, cache, page, patient, began>>
\* ... and counts what is left in a second query; the page arrives.
PageArrives(n) ==
  /\ loads[n].content # NotRead
  /\ LET req == RequestOf(loads[n])
     IN  cache' = Append(cache, Payload(req, loads[n].content, Cardinality(Chosen(req))))
  /\ page' = loads[n].page /\ loads' = RemoveAt(loads, n)
  /\ NoReply /\ UNCHANGED <<rows, asked, broken, patient, began>>

-----------------------------------------------------------------------------
(* The runs, and other clients of the list.                                   *)

CreateRun == /\ Len(rows) < MaxRows
             /\ \E path \in {"f", "g"}, parent \in 0 .. 1 :
                  /\ parent \in {0} \cup DOMAIN rows
                  /\ rows' = Append(rows, [path |-> path, parent |-> parent,
                                           state |-> "SCHEDULED", job |-> TRUE])
             /\ NoReply /\ UNCHANGED <<asked, loads, cache, page, broken, patient, began>>
RunEnds(i) == /\ rows[i].state = "SCHEDULED"
              /\ \E job \in BOOLEAN :
                   rows' = [rows EXCEPT ![i].state = "RESOLVED", ![i].job = job]
              /\ NoReply /\ UNCHANGED <<asked, loads, cache, page, broken, patient, began>>

OrphanedJobs(value) == Condition("orphaned_jobs", "eq", value)
RunsOf(path) == Condition("root_run.function_path", "eq", path)
Id(filters) == [PlainRequest EXCEPT !.filters = filters, !.limit = 0, !.fields = "id"]
Either(conditions) == [how |-> "OR", of |-> conditions]
OtherRequests ==
  LET id == Id(All(<<OrphanedJobs("True")>>))
      plain == [PlainRequest EXCEPT !.filters = All(<<RunsOf("f")>>)]
  IN  {id, Id(All(<<OrphanedJobs("True"), RunsOf("f")>>)), Id(Either(<<OrphanedJobs("True")>>)),
       Id(All(<<OrphanedJobs("False")>>)), [id EXCEPT !.fields = "all"], [id EXCEPT !.cursor = 2],
       [id EXCEPT !.limit = 1], [id EXCEPT !.order = "up"], plain,
       [plain EXCEPT !.filters = Either(<<RunsOf("f"), InStates({"RESOLVED"})>>), !.limit = -1],
       [plain EXCEPT !.order = "asc", !.cursor = 2], [plain EXCEPT !.limit = -2],
       [plain EXCEPT !.filters = All(<<Condition("mood", "eq", "good")>>)],
       [plain EXCEPT !.group_by = "mood"], [plain EXCEPT !.fields = "name"]}
\* A garbage request runs its own query, the standard list the filtered one.
GarbageIds(req) == Sorted({i \in DOMAIN rows : OrphanedJob(i)}, "asc")
Answer(req) == IF Garbage(req.filters) = {} THEN Read(req) ELSE GarbageIds(req)
Ask == /\ rows # <<>> /\ loads = <<>> /\ cache = <<>> /\ reply = <<>>
       /\ \E req \in OtherRequests :
            /\ Status(req) = 200
            /\ reply' = <<[request |-> req, content |-> Answer(req)]>>
       /\ UNCHANGED <<rows, asked, loads, cache, page, broken, patient, began>>

Next == \/ Open \/ NextPage \/ PreviousPage \/ Refresh \/ CreateRun \/ Ask
        \/ \E n \in DOMAIN loads : ServerReads(n) \/ ServerRefuses(n) \/ PageArrives(n)
        \/ \E i \in DOMAIN rows : RunEnds(i)

-----------------------------------------------------------------------------
Shown == UNION {ToSet(cache[n].content) : n \in DOMAIN cache}
Descending(s) == \A m, n \in DOMAIN s : m < n => s[m] > s[n]
PagesInOrder ==
  /\ \A n \in DOMAIN cache : Descending(cache[n].content)
  /\ \A m, n \in DOMAIN cache :
       m < n => \A i \in ToSet(cache[m].content), j \in ToSet(cache[n].content) : i > j

\* A reader who waits for each page never meets a run twice or out of order and,
\* unless the list depends on the states of runs, has seen every run that was
\* there at the start when the pages run out.
NoMorePages == cache # <<>> /\ (Len(cache) = TotalPages \/ Last(cache).next = 0)
Lasting == Settled(asked.filters) /\ ~asked.grouped
ReaderSeesEveryRun ==
  patient => PagesInOrder /\ (Lasting /\ NoMorePages => began \subseteq Shown)

\* No condition of a request is ignored: what it answers satisfies all of them.
NoConditionIgnored ==
  \A n \in DOMAIN reply : \A i \in ToSet(reply[n].content) : Satisfies(reply[n].request.filters, i)
-----------------------------------------------------------------------------
(* The inductive invariant of the two.                                        *)

Row == [path : {"f", "g"}, parent : 0 .. 1, state : {"SCHEDULED", "RESOLVED"}, job : BOOLEAN]
ListTyped ==
  /\ rows \in Seq(Row) /\ asked \in Lists /\ began \subseteq DOMAIN rows /\ page \in Nat
  /\ loads \in Seq([page : Nat, cursor : Int, content : Seq(Nat)])
  /\ cache \in Seq([content : Seq(Nat), next : Nat, count : Nat])

\* A patient reader loads one page, the one after the last that arrived, and is
\* given the newest of the runs below its cursor.
WasRead(load) == load.content # NotRead
FollowsCache(load) ==
  IF cache = <<>> THEN load.cursor = 0
  ELSE load.cursor = IF Last(cache).next = 0 THEN -1 ELSE Last(cache).next
BelowCursor(load) ==
  /\ Descending(load.content)
  /\ \A i \in ToSet(load.content) : i \in DOMAIN rows /\ (load.cursor # 0 => i < load.cursor)
OneAtATime ==
  /\ Len(loads) <= 1
  /\ \A n \in DOMAIN loads : FollowsCache(loads[n]) /\ (WasRead(loads[n]) => BelowCursor(loads[n]))
EndsPage(p) == p.next # 0 => p.content # <<>> /\ p.next = Last(p.content)

\* The runs of the list never leave it, and what has not been shown of those it
\* began with is older than all that was.
Fits == {i \in DOMAIN rows : Satisfies(asked.filters, i)}
Unseen == began \ Shown
Reaches(load) ==
  /\ ToSet(load.content) \subseteq began \cap Chosen(RequestOf(load))
  /\ \A i \in Unseen : /\ i \in Chosen(RequestOf(load))
                        /\ \/ i \in ToSet(load.content)
                           \/ Len(load.content) = PageSize /\ i < Last(load.content)
NothingSkipped ==
  /\ began \subseteq Fits /\ Shown \subseteq began
  /\ \A i \in Fits, k \in began : i <= k => i \in began
  /\ cache # <<>> => cache[1].count >= Cardinality(began)
  /\ Unseen # {} => Cardinality(Shown) = Len(cache) * PageSize
  /\ cache # <<>> => \A i \in Unseen : Last(cache).next # 0 /\ i < Last(cache).next
  /\ \A n \in DOMAIN loads : WasRead(loads[n]) => Reaches(loads[n])

ListInv ==
  /\ ListTyped /\ NoConditionIgnored
  /\ \A n \in DOMAIN cache : EndsPage(cache[n])
  /\ patient => OneAtATime /\ PagesInOrder /\ (Lasting => NothingSkipped)
=============================================================================
