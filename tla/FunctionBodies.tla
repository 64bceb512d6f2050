---------------------------- MODULE FunctionBodies ----------------------------
(***************************************************************************)
(* What small function bodies call, take and get back, for TLC: one set of  *)
(* functions on numbers, lists and tuples, one on classes, one on sets and *)
(* dicts.                                                                  *)
(***************************************************************************)
EXTENDS SematicTypes

IntT   == Type("int")
FloatT == Type("float")
StrT   == Type("str")
ListOf(t)    == Generic("list", <<t>>)
Pair(t, u)   == Generic("tuple", <<t, u>>)
Either(t, u) == Generic("Union", <<t, u>>)
Gives(t)     == [takes |-> Type("nothing"), gives |-> t]
Takes(t, u)  == [takes |-> t, gives |-> u]

Numbers == {Gives(IntT), Gives(Pair(IntT, FloatT)), Gives(ListOf(IntT)), Gives(Either(IntT, StrT)),
            Takes(ListOf(FloatT), IntT), Takes(Pair(IntT, FloatT), FloatT),
            Takes(ListOf(ListOf(FloatT)), StrT)}
Classes == {Gives(Type("Base")), Gives(Type("Sub")), Gives(Type("Holder")), Gives(Type("Color")),
            Gives(Type("Frozen")), Gives(Either(Type("NoneType"), Type("Base"))),
            Takes(Type("Other"), Type("Other")), Takes(ListOf(Type("Base")), Type("Holder"))}
Collections == {Gives(Generic("set", <<FloatT>>)), Gives(Generic("dict", <<IntT, FloatT>>)),
                Gives(Generic("dict", <<StrT, ListOf(IntT)>>)),
                Gives(ListOf(Either(Type("Color"), FloatT))),
                Takes(Generic("set", <<IntT>>), IntT), Takes(ListOf(IntT), FloatT)}

Bodies ==
  {[gives |-> t, calls |-> Numbers] : t \in {ListOf(FloatT), Pair(IntT, FloatT)}}
  \cup {[gives |-> t, calls |-> Classes] : t \in {ListOf(Type("Base")), Pair(Type("Color"), Type("Holder"))}}
  \cup {[gives |-> t, calls |-> Collections] : t \in {FloatT, ListOf(FloatT)}}

AtHand  == {Scalar("int", 2), Scalar("str", 2)}
One  == Scalar("int", 2)
Half == Scalar("float", 3)
Sub  == Container("Sub", <<One, Scalar("str", NotANumber)>>)
Results ==
  {One, Half, Scalar("bool", 2), Scalar("str", NotANumber), NoneV, Scalar("Color", 4), Sub,
   Container("list", <<One, Half>>), Container("tuple", <<One, Half>>),
   Container("list", <<Scalar("str", 2)>>), Container("set", <<One, Half>>),
   Container("dict", <<Container("item", <<One, Half>>)>>),
   Container("dict", <<Container("item", <<Scalar("str", 2), Container("tuple", <<One, Half>>)>>)>>),
   Container("Other", <<One>>), Container("Holder", <<Sub>>),
   Container("Frozen", <<Container("list", <<One>>)>>)}
=============================================================================
