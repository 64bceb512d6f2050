----------------------------- MODULE SematicTypes -----------------------------
(***************************************************************************)
(* sematic/types: which types cast to which, what a cast makes of a value, *)
(* and how values and types are written to and read from storage.          *)
(*                                                                         *)
(* A type is a name and its arguments; a value is the name of its class, a *)
(* scalar and its items.  Numbers are counted in halves (3 is 1.5), so     *)
(* that a float need not be an integer; the scalar of a str is what int()  *)
(* or float() reads in it, or NotANumber.  Sets and dicts keep the order   *)
(* of iteration.  Infinities and NaN are left out.                         *)
(***************************************************************************)
EXTENDS Naturals, Integers, Sequences, SequencesExt, FiniteSets

Type(name)        == [name |-> name, args |-> <<>>]
Generic(name, ts) == [name |-> name, args |-> ts]
Scalar(class, n)  == [is |-> class, of |-> n, items |-> <<>>]
Container(class, vs) == [is |-> class, of |-> 0, items |-> vs]

NotANumber == -1                     \* the str "a"; all strs here have one character
Error  == Scalar("error", 0)         \* the error of safe_cast, or an exception
NoneV  == Scalar("NoneType", 0)
Failed(vs) == \E i \in DOMAIN vs : vs[i] = Error
Collected(class, vs) == IF Failed(vs) THEN Error ELSE Container(class, vs)

Parametrized == {"list", "tuple", "set", "dict", "Union"}
\* validate_type_annotation refuses them without their parameters.
IsBare(t) == t.name \in Parametrized /\ t.args = <<>>
Real         == {"int", "float", "bool"}
\* The dataclasses: Sub extends Base, Other has the fields of Base under
\* castable types, Frozen is frozen.
Fields == [Base   |-> <<[name |-> "x", type |-> Type("float")]>>,
           Sub    |-> <<[name |-> "x", type |-> Type("float")], [name |-> "y", type |-> Type("str")]>>,
           Other  |-> <<[name |-> "x", type |-> Type("int")]>>,
           Holder |-> <<[name |-> "base", type |-> Type("Base")]>>,
           Frozen |-> <<[name |-> "xs", type |-> Generic("list", <<Type("int")>>)]>>]
Dataclasses == DOMAIN Fields
Superclasses(c) == CASE c = "bool" -> {"bool", "int"}
                     [] c = "Sub"  -> {"Sub", "Base"}
                     [] OTHER      -> {c}
IsInstance(v, t) == t.name \in Superclasses(v.is)
FieldAt(c, name) == SelectInSeq(Fields[c], LAMBDA f : f.name = name)   \* 0: no such field

-----------------------------------------------------------------------------
(* can_cast_type: may a future of type from be passed where to is expected?  *)

RECURSIVE CanCast(_, _)

\* The loops over types end at the first answer that decides.
UpToFirst(casts, goingOn) ==
  LET stop == SelectInSeq(casts, LAMBDA c : c # goingOn)
  IN  IF stop = 0 THEN goingOn ELSE casts[stop]

\* issubclass of a Union's origin, which is no class, raises.
CanCastToTuple(from, to) ==
  IF from.args = <<>> \/ Len(from.args) # Len(to.args) THEN "no"
  ELSE IF from.name = "Union" THEN "raises"
  ELSE IF from.name # "tuple" THEN "no"
  ELSE UpToFirst([i \in DOMAIN to.args |-> CanCast(from.args[i], to.args[i])], "yes")

AllCanCast(types, to) == UpToFirst([i \in DOMAIN types |-> CanCast(types[i], to)], "yes")
\* Any parametrized iterable becomes a list or a set.
CanCastToList(from, to) ==
  IF from.args = <<>> \/ from.name = "Union" THEN "no"
  ELSE AllCanCast(from.args, to.args[1])
CanCastToSet(from, to) ==
  IF from.args = <<>> \/ from.name = "Union" THEN "no"
  ELSE AllCanCast(from.args, to.args[1])

CanCastToDataclass(from, to) ==
  IF from.name \notin Dataclasses THEN "no"
  ELSE LET fields == Fields[to.name]
           at(i)  == FieldAt(from.name, fields[i].name)
       IN  IF \E i \in DOMAIN fields : at(i) = 0 THEN "no"
           ELSE UpToFirst([i \in DOMAIN fields |->
                             CanCast(Fields[from.name][at(i)].type, fields[i].type)], "yes")

\* An exception for one of the unioned types ends the search.
CanCastToUnion(from, to) ==
  UpToFirst([i \in DOMAIN to.args |-> CanCast(from, to.args[i])], "no")

\* Mutant: a str may hold a number.
CanCastToRealOrParse(from) == IF from.name \in Real \cup {"str"} THEN "yes" ELSE "no"

CanCastToReal(from) == IF from.name \in Real THEN "yes" ELSE "no"

\* issubclass, which refuses the aliases of typing with a TypeError.
CanCastByDefault(from, to) ==
  IF from.name \in Parametrized \/ to.name = "dict" THEN "raises"
  ELSE IF to.name \in Superclasses(from.name) THEN "yes" ELSE "no"

CanCast(from, to) ==
  IF from = to THEN "yes"
  ELSE IF IsBare(to) THEN "raises"
  ELSE CASE to.name \in {"int", "float"}   -> CanCastToReal(from)
         [] to.name \in {"str", "Color"}   -> "no"
         [] to.name = "list"               -> CanCastToList(from, to)
         [] to.name = "set"                -> CanCastToSet(from, to)
         [] to.name = "tuple"              -> CanCastToTuple(from, to)
         [] to.name = "Union"              -> CanCastToUnion(from, to)
         [] to.name \in Dataclasses        -> CanCastToDataclass(from, to)
         [] OTHER                          -> CanCastByDefault(from, to)

-----------------------------------------------------------------------------
(* safe_cast: what a value becomes under a type.                             *)

RECURSIVE Cast(_, _)

IsIterable(v) == v.is \in {"list", "tuple", "set", "dict", "str"}
\* Iterating a dict gives its keys, a str its characters.
Iterated(v) == CASE v.is = "dict" -> [i \in DOMAIN v.items |-> v.items[i].items[1]]
                 [] v.is = "str"  -> <<v>>
                 [] OTHER         -> v.items
Truthy(v) == CASE v.is \in Real \cup {"NoneType"} -> v.of # 0
               [] v.is \in Parametrized           -> v.items # <<>>
               [] OTHER                           -> TRUE
\* 1, 1.0 and True are one element of a set, one key of a dict.
SameKey(v, w) == v = w \/ (v.is \in Real /\ w.is \in Real /\ v.of = w.of)

CastToReal(v, t) ==
  IF IsInstance(v, t) THEN v
  ELSE IF v.is \in Real \/ (v.is = "str" /\ v.of # NotANumber)
       THEN Scalar(t.name, IF t.name = "int" THEN (v.of \div 2) * 2 ELSE v.of)
  ELSE Error

\* Color(value) looks the member up by its value, 1 or 2.
CastToEnum(v, t) ==
  IF IsInstance(v, t) THEN v
  ELSE IF v.is \in Real /\ v.of \in {2, 4} THEN Scalar(t.name, v.of) ELSE Error

AllCast(class, vs, ts) == Collected(class, [i \in DOMAIN vs |-> Cast(vs[i], ts[i])])

CastToList(v, t) ==
  IF ~IsIterable(v) THEN Error
  ELSE AllCast("list", Iterated(v), [i \in DOMAIN Iterated(v) |-> t.args[1]])

CastToTuple(v, t) ==
  IF ~IsIterable(v) THEN Error
  ELSE IF Len(Iterated(v)) # Len(t.args) THEN Error
  ELSE AllCast("tuple", Iterated(v), t.args)

AddElement(vs, v) == IF \E i \in DOMAIN vs : SameKey(vs[i], v) THEN vs ELSE Append(vs, v)
SetOf(list) == IF list = Error THEN Error
               ELSE Container("set", FoldLeft(AddElement, <<>>, list.items))
CastToSet(v, t) == SetOf(CastToList(v, t))

SetItem(vs, kv) ==
  LET at == SelectInSeq(vs, LAMBDA w : SameKey(w.items[1], kv.items[1]))
  IN  IF at = 0 THEN Append(vs, kv) ELSE [vs EXCEPT ![at].items[2] = kv.items[2]]
DictOf(items) == IF Failed(items) THEN Error ELSE Container("dict", FoldLeft(SetItem, <<>>, items))
CastToDict(v, t) ==
  IF v.is # "dict" THEN Error
  ELSE DictOf([i \in DOMAIN v.items |-> AllCast("item", v.items[i].items, t.args)])

\* The loop for the identical type compares the Union with its own
\* arguments, and finds nothing: the first type that casts is taken.
FirstThatCasts(v, t) == SelectInSeq(t.args, LAMBDA u : Cast(v, u) # Error)
CastToNth(v, t, at) == IF at = 0 THEN Error ELSE Cast(v, t.args[at])
CastToUnion(v, t) == CastToNth(v, t, FirstThatCasts(v, t))

\* The fields come from the value's attributes or, if it is a dict, from its
\* items (no key of the model is a field's name).  An instance keeps its class
\* and its other fields, and if it is frozen all of them.
InstanceOf(v, t, fields) ==
  IF Failed(fields) THEN Error
  ELSE IF ~IsInstance(v, t) THEN Container(t.name, fields)
  ELSE IF v.is = "Frozen" THEN v
  ELSE [v EXCEPT !.items = [j \in DOMAIN @ |-> IF j \in DOMAIN fields THEN fields[j] ELSE @[j]]]
CastToDataclass(v, t) ==
  LET at(f) == IF v.is \in Dataclasses THEN FieldAt(v.is, f.name) ELSE 0
      cast(f, j) == IF j = 0 THEN Error ELSE Cast(v.items[j], f.type)
  IN  InstanceOf(v, t, [i \in DOMAIN Fields[t.name] |-> cast(Fields[t.name][i], at(Fields[t.name][i]))])

\* bool() of anything but a future.
CastToBool(v, t) == IF IsInstance(v, t) THEN v
                    ELSE IF v.is = "future" THEN Error
                    ELSE Scalar("bool", IF Truthy(v) THEN 2 ELSE 0)

Cast(v, t) ==
  CASE IsBare(t)                    -> Error
    [] t.name \in {"int", "float"}  -> CastToReal(v, t)
    [] t.name = "bool"              -> CastToBool(v, t)
    [] t.name = "Color"             -> CastToEnum(v, t)
    [] t.name = "list"              -> CastToList(v, t)
    [] t.name = "tuple"             -> CastToTuple(v, t)
    [] t.name = "set"               -> CastToSet(v, t)
    [] t.name = "dict"              -> CastToDict(v, t)
    [] t.name = "Union"             -> CastToUnion(v, t)
    [] t.name \in Dataclasses       -> CastToDataclass(v, t)
    [] OTHER                        -> IF IsInstance(v, t) THEN v ELSE Error

-----------------------------------------------------------------------------
(* Serialization.  A JSON term has the shape of a value.                     *)

RECURSIVE TypeToJson(_), TypeFromJson(_), Encode(_, _), Decode(_, _)

Category(t) == CASE t.name \in Real \cup {"str", "NoneType"} -> "builtin"
                 [] t.name \in Dataclasses                   -> "dataclass"
                 [] t.name \in Parametrized                  -> "typing"
                 [] OTHER                                    -> "class"
TypeToJson(t) == [category |-> Category(t), key |-> t.name,
                  args |-> [i \in DOMAIN t.args |-> TypeToJson(t.args[i])]]
\* Builtins by their name, aliases by their origin and arguments, classes by
\* importing them again.
TypeFromJson(j) ==
  CASE j.category = "typing" -> Generic(j.key, [i \in DOMAIN j.args |-> TypeFromJson(j.args[i])])
    [] OTHER                 -> Type(j.key)

EncodeAll(class, vs, ts) == Collected(class, [i \in DOMAIN vs |-> Encode(vs[i], ts[i])])
Repeated(t, vs) == [i \in DOMAIN vs |-> t]

\* get_value_type: the first type the value casts to, else its class.
ValueType(v, t) == LET at == FirstThatCasts(v, t) IN IF at = 0 THEN Type(v.is) ELSE t.args[at]

Unioned(at, j) == IF j = Error THEN Error ELSE [is |-> "unioned", of |-> at, items |-> <<j>>]
EncodeAs(v, t, u) == Unioned(SelectInSeq(t.args, LAMBDA a : a = u), Encode(v, u))
EncodeUnion(v, t) == EncodeAs(v, t, ValueType(v, t))

\* The type of a field is written when the class of its value is another one
\* and the declared type is no alias.
FieldType(v, i) == LET declared == Fields[v.is][i].type
                   IN IF declared.name \in Parametrized THEN declared ELSE Type(v.items[i].is)
Object(root, types, js) ==
  IF js = Error THEN Error
  ELSE [is |-> "object", of |-> 0,
        items |-> <<TypeToJson(Type(root)), [i \in DOMAIN types |-> TypeToJson(types[i])], js>>]
EncodeFields(v, root) ==
  LET types == [i \in DOMAIN Fields[root] |-> FieldType(v, i)]
  IN  Object(root, types, EncodeAll("values", SubSeq(v.items, 1, Len(types)), types))

\* Mutant: the declared type, where the value may be of a subclass.
EncodeDeclaredDataclass(v, t) == EncodeFields(v, t.name)
\* The class of the value, to conserve subclasses.
EncodeDataclass(v, t) == IF v.is \in Dataclasses THEN EncodeFields(v, v.is) ELSE Error

\* The items as pairs, each of which is encoded like a tuple.
EncodeDict(v, t) ==
  Collected("array", [i \in DOMAIN v.items |-> EncodeAll("array", v.items[i].items, t.args)])

\* json.dumps if it can, else pickle: either gives the value back.
EncodeByDefault(v) == [is |-> "json", of |-> 0, items |-> <<v>>]

Encode(v, t) ==
  CASE t.name \in {"list", "set"}  -> EncodeAll("array", v.items, Repeated(t.args[1], v.items))
    [] t.name = "tuple"            -> EncodeAll("array", v.items, t.args)
    [] t.name = "dict"             -> EncodeDict(v, t)
    [] t.name = "Union"            -> EncodeUnion(v, t)
    [] t.name = "Color"            -> IF IsInstance(v, t) THEN Scalar("name", v.of) ELSE Error
    [] t.name \in Dataclasses      -> EncodeDataclass(v, t)
    [] OTHER                       -> EncodeByDefault(v)

DecodeAll(class, js, ts) == Container(class, [i \in DOMAIN js |-> Decode(js[i], ts[i])])

DecodeDict(j, t) ==
  Container("dict", [i \in DOMAIN j.items |-> DecodeAll("item", j.items[i].items, t.args)])

\* get_args(type_)[-1] is the last of them.
DecodeUnion(j, t) == Decode(j.items[1], t.args[IF j.of = 0 THEN Len(t.args) ELSE j.of])

DecodeObject(j, t, root) ==
  IF t.name \notin Superclasses(root.name) THEN Error
  ELSE DecodeAll(root.name, j.items[3].items, [i \in DOMAIN j.items[2] |-> TypeFromJson(j.items[2][i])])
DecodeDataclass(j, t) == DecodeObject(j, t, TypeFromJson(j.items[1]))

Decode(j, t) ==
  CASE t.name = "list"             -> DecodeAll("list", j.items, Repeated(t.args[1], j.items))
    [] t.name = "set"              -> DecodeAll("set", j.items, Repeated(t.args[1], j.items))
    [] t.name = "tuple"            -> DecodeAll("tuple", j.items, t.args)
    [] t.name = "dict"             -> DecodeDict(j, t)
    [] t.name = "Union"            -> DecodeUnion(j, t)
    [] t.name = "Color"            -> Scalar("Color", j.of)
    [] t.name \in Dataclasses      -> DecodeDataclass(j, t)
    [] OTHER                       -> j.items[1]

\* make_artifact and deserialize_artifact_value: a Union is stored as the type
\* of the value it holds.
Artifact(v, t) == [type |-> TypeToJson(t), value |-> Encode(v, t)]
MakeArtifact(v, t) == Artifact(v, IF t.name = "Union" THEN ValueType(v, t) ELSE t)
ArtifactValue(a) == Decode(a.value, TypeFromJson(a.type))
=============================================================================
