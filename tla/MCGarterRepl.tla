--------------------------- MODULE MCGarterRepl ---------------------------
(***************************************************************************)
(* Instances of GarterRepl for TLC: one variable, two functions, and sets  *)
(* of statements about them.                                               *)
(***************************************************************************)
EXTENDS GarterRepl

S(op, n, ty) == [op |-> op, name |-> n, ty |-> ty, body |-> <<>>]
Def(n, b)    == [op |-> "def", name |-> n, ty |-> "func", body |-> b]

X(ops) == {S(op, "x", ty) : op \in ops, ty \in Types}

\* Functions that use the variable, shadow it after a use, assign to it, and
\* call one another.
FBodies ==
  {<<S("use", "x", "int")>>,
   <<S("use", "x", "float"), S("declare", "x", "int")>>,
   <<S("global", "x", "func"), S("assign", "x", "int")>>,
   <<S("call", "g", "func")>>}
GBodies == {<<S("use", "x", "float")>>, <<S("call", "f", "func")>>}

Calls == {S("call", n, "func") : n \in {"f", "g"}}

AllStatements ==
  X({"declare"}) \cup {S("use", "x", "int"), S("block", "x", "float"), S("assign", "x", "int")}
    \cup Calls \cup {Def("f", b) : b \in FBodies} \cup {Def("g", b) : b \in GBodies}

\* For sessions of several units.
SessionStatements ==
  {S("declare", "x", "int"), S("declare", "x", "float"), S("block", "x", "float"),
   S("use", "x", "int"), S("assign", "x", "int")} \cup Calls
    \cup {Def("f", <<S("call", "g", "func")>>), Def("g", <<S("call", "f", "func")>>),
          Def("g", <<S("use", "x", "int")>>),
          Def("g", <<S("global", "x", "func"), S("assign", "x", "int")>>)}

\* What module GarterProofs assumes of the bodies of functions.
ASSUME StatementsTidy == \A s \in AllStatements \cup SessionStatements : Tidy(s.body)

\* A function that is not tidy: it declares the variable in an if statement, and
\* reads, for the validator, the one of the global scope.
ShadowStatements ==
  {S("declare", "x", "float"), S("call", "f", "func"),
   Def("f", <<S("block", "x", "float"), S("use", "x", "float")>>)}
=============================================================================
