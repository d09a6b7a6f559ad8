-------------------------- MODULE MCGarterTypes --------------------------
(***************************************************************************)
(* Instances of GarterTypes for TLC: types up to two constructors deep.    *)
(***************************************************************************)
EXTENDS GarterTypes, FiniteSetsExt

Basics  == {TyInt, TyFloat, TyStr, Class("C"), Class("D")}
Numbers == {TyInt, TyFloat}

Functions ==
  {Func(r, <<a>>) : r, a \in Numbers} \cup {Func(TyInt, <<>>), Func(Class("C"), <<TyInt>>),
   Func(TyInt, <<List(TyInt)>>)}

Lists == {List(t) : t \in Basics \cup Functions}
Dicts == {Dict(TyStr, t) : t \in Numbers} \cup {Dict(TyInt, List(TyInt))}

CompleteTypes ==
  Basics \cup Functions \cup Lists \cup Dicts
    \cup {List(List(t)) : t \in Numbers \cup {Class("C")}}
    \cup {List(Dict(TyStr, TyInt)), Func(List(TyInt), <<TyFloat>>)}

\* [], {}, None and what contains them
IncompleteTypes ==
  {List(NoType), Dict(NoType, NoType), Unknown, List(Unknown), List(List(NoType)),
   List(Dict(NoType, NoType)), Dict(TyStr, Unknown), Dict(TyInt, List(NoType))}

\* [][0] has no type; {1: [][0]}, {[][0]: 1}, a list of such dicts, [].append,
\* [].pop and a list of such functions have a hole in an odd place.  A module
\* has a type as well.
OddTypes ==
  {NoType, Dict(TyInt, NoType), Dict(NoType, TyInt), List(Dict(TyInt, NoType)),
   Func(TyNone, <<NoType>>), Func(NoType, <<TyInt>>), List(Func(TyNone, <<NoType>>)),
   Module("C")}

AllTypes == CompleteTypes \cup IncompleteTypes \cup OddTypes

\* With what they are made of.
Made(T) == T \cup UNION {Parts(t) : t \in T}

AllParts == Made(Made(AllTypes)) \cup {NoType, TyNone, TyInt, TyStr, List(TyStr)}

Nesting[t \in AllParts] ==
  IF Parts(t) = {} THEN 0 ELSE 1 + Max({Nesting[p] : p \in Parts(t)})

AllFields == {"C", "D"}

\* What holes do is looked at apart, with fewer types.
Holes ==
  {TyInt, List(TyInt), List(NoType), List(List(NoType)), List(List(TyInt))}

Targets == {t \in CompleteTypes : t.kind \in {"list", "dict"}}
=============================================================================
