----------------------------- MODULE FunctionCalls -----------------------------
(***************************************************************************)
(* sematic/function.py and future_operators: the body of one Sematic       *)
(* function.  It calls other functions, which only makes futures, puts     *)
(* futures in lists and tuples, takes items of them, and returns; the      *)
(* runner then runs what the output depends on.  Types are checked when a  *)
(* call is made, from the annotations alone, and again when a value        *)
(* arrives.                                                                *)
(***************************************************************************)
EXTENDS SematicTypes, TLC

CONSTANTS
  Programs,   \* a function and those its body may call: [gives, calls: set of [takes, gives]]
  Inputs,     \* the concrete values at hand
  Returned,   \* what the functions called may return
  MaxCalls    \* bound on the calls and item accesses of the body

NoType == Type("nothing")     \* the takes of a function without parameters

VARIABLES
  program,   \* the function
  futures,   \* created_futures: [fn, kwargs: sequence of arguments, input_types, output_type]
  calls,     \* how many calls the body has made
  state,     \* "body", "raised", "returned"
  output,    \* what the body returned, cast_output applied
  values     \* the value of each future that has run; Error: its cast failed

vars == <<program, futures, calls, state, output, values>>

Future(i)   == Scalar("future", i)
IsFuture(v) == v.is = "future"
Ids == DOMAIN futures

-----------------------------------------------------------------------------
(* Making futures.  An outcome is a value and the futures made so far; the   *)
(* value Error stands for a TypeError raised in the body.                    *)

Made(v, fs) == [value |-> v, futures |-> fs]
Raised(fs)  == Made(Error, fs)

\* cast_value: a future is judged by its function's output type and passed as
\* it is, anything else is cast.
CastValue(v, t, fs) ==
  IF ~IsFuture(v) THEN Cast(v, t)
  ELSE IF CanCast(fs[v.of].output_type, t) = "yes" THEN v ELSE Error

CastInputs(vs, ts, fs) == [i \in DOMAIN vs |-> CastValue(vs[i], ts[i], fs)]

FutureOf(fn, kwargs, ts, out, fs) ==
  IF Failed(kwargs) THEN Raised(fs)
  ELSE Made(Future(Len(fs) + 1), Append(fs, [fn |-> fn, kwargs |-> kwargs, input_types |-> ts,
                                             output_type |-> out]))
NewFuture(fn, vs, ts, out, fs) == FutureOf(fn, CastInputs(vs, ts, fs), ts, out, fs)

TypeOf(v, fs) == IF IsFuture(v) THEN fs[v.of].output_type ELSE Type(v.is)
Members(t) == IF t.name = "Union" THEN t.args ELSE <<t>>
\* Union[t, u], which flattens and keeps each type once.
Unite(t, u) ==
  LET members == FoldLeft(LAMBDA ms, m : IF m \in ToSet(ms) THEN ms ELSE Append(ms, m),
                          Members(t), Members(u))
  IN  IF Len(members) = 1 THEN members[1] ELSE Generic("Union", members)
MakeListType(vs, fs) ==
  LET types == [i \in DOMAIN vs |-> TypeOf(vs[i], fs)]
  IN  Generic("list", <<FoldLeft(Unite, types[1], Tail(types))>>)

MakeList(t, vs, fs) == NewFuture("make_list", vs, [i \in DOMAIN vs |-> t.args[1]], t, fs)

\* Only the elements that are there are compared with the expected type.
MakeTuple(t, vs, fs) ==
  IF t.name # "tuple" \/ Len(vs) > Len(t.args) THEN Raised(fs)
  ELSE NewFuture("make_tuple", vs, [i \in DOMAIN vs |-> t.args[i]], t, fs)

RECURSIVE ConvertLists(_, _), ConvertTuples(_, _, _)

Appended(made, item) ==
  IF item.value = Error THEN item
  ELSE Made([made.value EXCEPT !.items = Append(@, item.value)], item.futures)
HasFuture(v) == v # Error /\ \E i \in DOMAIN v.items : IsFuture(v.items[i])

ListOrFuture(made) ==
  LET items == made.value.items
  IN  IF ~HasFuture(made.value) THEN made
      ELSE MakeList(MakeListType(items, made.futures), items, made.futures)
ConvertLists(v, fs) ==
  LET Step(made, item) ==
        IF made.value = Error THEN made
        ELSE Appended(made, IF item.is = "list" THEN ConvertLists(item, made.futures)
                            ELSE Made(item, made.futures))
  IN  ListOrFuture(FoldLeft(Step, Made(Container("list", <<>>), fs), v.items))

ConvertElement(item, t, i, fs) ==
  CASE item.is = "tuple" -> IF i \in DOMAIN t.args THEN ConvertTuples(item, t.args[i], fs) ELSE Raised(fs)
    [] item.is = "list"  -> ConvertLists(item, fs)
    [] OTHER             -> Made(item, fs)
TupleOrFuture(t, made) ==
  IF HasFuture(made.value) THEN MakeTuple(t, made.value.items, made.futures) ELSE made
ConvertTuples(v, t, fs) ==
  LET Step(made, item) ==
        IF made.value = Error THEN made
        ELSE Appended(made, ConvertElement(item, t, Len(made.value.items) + 1, made.futures))
  IN  TupleOrFuture(t, FoldLeft(Step, Made(Container("tuple", <<>>), fs), v.items))

Convert(v, t, fs) == CASE v.is = "list"  -> ConvertLists(v, fs)
                       [] v.is = "tuple" -> ConvertTuples(v, t, fs)
                       [] OTHER          -> Made(v, fs)

-----------------------------------------------------------------------------
(* The body.                                                                 *)

Raise == state' = "raised" /\ UNCHANGED <<program, futures, output, values>>
Goes(made) == IF made.value = Error THEN Raise
              ELSE futures' = made.futures /\ UNCHANGED <<program, state, output, values>>

\* What the body can pass on: values, futures, and lists and tuples of them.
Plain == Inputs \cup {Future(i) : i \in Ids}
Passable == Plain \cup {Container("list", <<v, w>>) : v, w \in Plain}
                  \cup {Container("list", <<Container("list", <<v>>), w>>) : v, w \in Plain}
                  \cup {Container("tuple", <<v>>) : v \in Plain}
                  \cup {Container("tuple", <<v, w>>) : v, w \in Plain}

\* Function.__call__
CallOn(f, argument) ==
  IF argument.value = Error THEN Raise
  ELSE Goes(NewFuture("call", <<argument.value>>, <<f.takes>>, f.gives, argument.futures))
Call(f) ==
  /\ state = "body" /\ calls < MaxCalls /\ calls' = calls + 1
  /\ IF f.takes = NoType THEN Goes(NewFuture("call", <<>>, <<>>, f.gives, futures))
     ELSE \E v \in Passable : CallOn(f, Convert(v, f.takes, futures))

\* Future.__getitem__ of a list, a tuple or a dict.
ItemType(t, key) == CASE t.name = "tuple" -> t.args[key]
                      [] t.name = "list"  -> t.args[1]
                      [] t.name = "dict"  -> t.args[2]
KeyType(t) == IF t.name = "dict" THEN t.args[1] ELSE Type("int")
GetItem(i, key) ==
  LET t == futures[i].output_type
      k == Scalar("int", key * 2)
  IN  /\ state = "body" /\ calls < MaxCalls /\ calls' = calls + 1
      /\ IF t.name \notin {"list", "tuple", "dict"} \/ (t.name = "tuple" /\ key > Len(t.args))
         THEN Raise
         ELSE Goes(NewFuture("getitem", <<Future(i), k>>, <<t, KeyType(t)>>, ItemType(t, key), futures))

\* Future.__iter__: unpacking a future makes a getitem for every element.
Unpack(i) ==
  LET t == futures[i].output_type
      item(fs, key) == Append(fs, [fn |-> "getitem", kwargs |-> <<Future(i), Scalar("int", key * 2)>>,
                                   input_types |-> <<t, Type("int")>>, output_type |-> t.args[key]])
  IN  /\ state = "body" /\ calls < MaxCalls /\ calls' = calls + 1
      /\ IF t.name # "tuple" THEN Raise
         ELSE Goes(Made(Future(i), FoldLeft(item, futures, [key \in DOMAIN t.args |-> key])))

\* _get_dependency_ids
Dependencies(fs, i) == {k.of : k \in {v \in ToSet(fs[i].kwargs) : IsFuture(v)}}
RECURSIVE Reachable(_, _)
Reachable(fs, S) == LET more == S \cup UNION {Dependencies(fs, i) : i \in S}
                    IN  IF more = S THEN S ELSE Reachable(fs, more)
DependencyIds(v, fs) == IF IsFuture(v) THEN Reachable(fs, {v.of}) ELSE {}

\* Mutant: what any future takes is used.
UnusedByNone(v, fs) ==
  {i \in DOMAIN fs \ DependencyIds(v, fs) :
     fs[i].fn # "getitem" /\ \A j \in DOMAIN fs : i \notin Dependencies(fs, j)}

\* _check_for_unused_futures: an unused getitem is all right.
UnusedFutures(v, fs) == {i \in DOMAIN fs \ DependencyIds(v, fs) : fs[i].fn # "getitem"}

\* Function.execute, then cast_output in the runner.
ReturnsCast(made, cast) ==
  IF made.value = Error \/ UnusedFutures(made.value, made.futures) # {} \/ cast = Error
  THEN state' = "raised" /\ UNCHANGED <<futures, output>>
  ELSE state' = "returned" /\ futures' = made.futures /\ output' = cast
Returns(made) == ReturnsCast(made, CastValue(made.value, program.gives, made.futures))
Return(v) ==
  /\ state = "body" /\ UNCHANGED <<program, calls, values>>
  /\ Returns(Convert(v, program.gives, futures))

-----------------------------------------------------------------------------
(* The runner runs what the output depends on.                               *)

Ran == DOMAIN values
Enqueued == IF state = "returned" THEN DependencyIds(output, futures) ELSE {}
\* resolved_kwargs: the value of a future, passed as it is.
Resolved(v) == IF IsFuture(v) THEN values[v.of] ELSE v
Arguments(i) == [j \in DOMAIN futures[i].kwargs |-> Resolved(futures[i].kwargs[j])]

\* container[key], none if it raises.
Item(container, key) ==
  IF container.is = "dict"
  THEN {kv.items[2] : kv \in {w \in ToSet(container.items) : SameKey(w.items[1], key)}}
  ELSE {container.items[k] : k \in {key.of \div 2} \cap DOMAIN container.items}

\* What a future may return; a function that returns what does not cast fails
\* as it would alone, and is left out.
Results(i) ==
  LET fn   == futures[i].fn
      args == Arguments(i)
  IN  CASE fn = "make_list"  -> {Container("list", args)}
        [] fn = "make_tuple" -> {Container("tuple", args)}
        [] fn = "getitem"    -> Item(args[1], args[2])
        [] OTHER             -> {v \in Returned : Cast(v, futures[i].output_type) # Error}

Run(i) ==
  /\ i \in Enqueued \ Ran
  /\ \A j \in Enqueued \ Ran : i <= j    \* a future only takes older ones
  /\ \A j \in Ran : values[j] # Error
  /\ \E v \in Results(i) :
       values' = values @@ (i :> Cast(v, futures[i].output_type))
  /\ UNCHANGED <<program, futures, calls, state, output>>

-----------------------------------------------------------------------------

Init ==
  /\ program \in Programs
  /\ futures = <<>> /\ calls = 0 /\ state = "body" /\ output = NoneV /\ values = <<>>

Next ==
  \/ \E f \in program.calls : Call(f)
  \/ \E i \in Ids, key \in 1..2 : GetItem(i, key)
  \/ \E i \in Ids : Unpack(i)
  \/ \E v \in Passable : Return(v)
  \/ \E i \in Ids : Run(i)

Spec == Init /\ [][Next]_vars

-----------------------------------------------------------------------------

\* A tuple shorter than the type it is given for (see README).
ShortTuple(i) == futures[i].fn = "make_tuple"
                 /\ Len(futures[i].kwargs) < Len(futures[i].output_type.args)

\* What was accepted when the pipeline was built is not refused when the
\* values arrive: the lists, tuples and items that Sematic itself makes of
\* futures never fail to cast to the type they were given.
NoLateTypeError ==
  \A i \in Ran : values[i] = Error => futures[i].fn = "call" \/ ShortTuple(i)

\* What another process reads from storage is the value that was written, of
\* the same class, whatever the type says: this is how the arguments reach a
\* standalone function, and how a cached or cloned output comes back.  Left out:
\* a value that its own type would cast once more (a Union whose first type
\* takes what another one has made).
StorageKeepsValues ==
  \A i \in Ran : (values[i] # Error /\ Cast(values[i], futures[i].output_type) = values[i]) =>
    LET artifact == MakeArtifact(values[i], futures[i].output_type)
    IN  artifact.value # Error /\ ArtifactValue(artifact) = values[i]

\* No call is dropped in silence: once all that the runner is given has run,
\* every future of the body has, but for items that were not used.
NothingForgotten ==
  (state = "returned" /\ Enqueued \subseteq Ran) =>
    \A i \in Ids : futures[i].fn # "getitem" => i \in Ran
=============================================================================
