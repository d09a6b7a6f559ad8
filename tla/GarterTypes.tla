---------------------------- MODULE GarterTypes ----------------------------
(***************************************************************************)
(* The types of Lib/garter.py and the relations between them, and how the  *)
(* type of a list is found from the types of its elements.                 *)
(*                                                                         *)
(* The methods is_complete, completes, subsumes and __eq__ of the type     *)
(* classes call one another; a type with a hole, that of [] or {}, has     *)
(* Python's None in place of a type, on which a call of a method raises    *)
(* AttributeError.  So the value of a relation is "yes", "no" or "raises". *)
(* An expression may have None for its type too: [][0] and [].pop(0) have  *)
(* the hole itself, and so has an index into what is no str, list or dict; *)
(* {1: [][0]} and [].append have types with a hole in place of a value and *)
(* of an argument.                                                         *)
(*                                                                         *)
(* A type is made of types that were there before it, so a method that     *)
(* calls a method of a part of its type comes to an end.  What the methods *)
(* answer is a recursive function, Related, over a set of types that       *)
(* contains what its types are made of; the operators Completes, Subsumes  *)
(* and Equal read their calls of one another in it, so they also speak of  *)
(* types that are made of those in the set.  Types are compared by what    *)
(* they are made of: that == on two lists of arguments takes an object to  *)
(* be equal to itself without asking it is left out.                       *)
(* A definition whose name ends in _M is a mutant of the definition it     *)
(* stands before.                                                          *)
(***************************************************************************)
EXTENDS Integers, Sequences

CONSTANTS
  ExprTypes,   \* what validate_expr returns for the elements of a list
  DeclTypes,   \* types an annotation can name
  TypeSet,     \* those, Python's None, and what they are made of
  Depth,       \* type -> how deep it is nested
  Fields,      \* what tells classes, or modules, from one another
  MaxElements  \* bound on the elements of a list

\* Types.  A class is known by its fields; those of the type of None are None.
NoType      == [kind |-> "None"]
Basic(kind) == [kind |-> kind]
List(t)     == [kind |-> "list", item |-> t]
Dict(k, v)  == [kind |-> "dict", key |-> k, value |-> v]
Class(c)    == [kind |-> "class", fields |-> c]
Module(m)   == [kind |-> "module", module |-> m]
Func(r, as) == [kind |-> "func", ret |-> r, args |-> as]

NoFields == "no fields"
Unknown  == Class(NoFields)

TyNone  == Basic("none")
TyInt   == Basic("int")
TyFloat == Basic("float")
TyStr   == Basic("str")

BasicKinds == {"none", "int", "float", "bool", "str"}

\* The types that are made of those of a set; any part may be a hole.
MadeOf(T) ==
  [kind : BasicKinds]
    \cup [kind : {"list"}, item : T]
    \cup [kind : {"dict"}, key : T, value : T]
    \cup [kind : {"class"}, fields : Fields \cup {NoFields}]
    \cup [kind : {"module"}, module : Fields]
    \cup [kind : {"func"}, ret : T, args : Seq(T)]

Parts(t) ==
  CASE t.kind = "list" -> {t.item}
    [] t.kind = "dict" -> {t.key, t.value}
    [] t.kind = "func" -> {t.ret} \cup {t.args[i] : i \in DOMAIN t.args}
    [] OTHER           -> {}

ASSUME TypesAssumption ==
  /\ MaxElements \in Nat \ {0}
  /\ ExprTypes \subseteq TypeSet
  /\ DeclTypes \subseteq TypeSet \ {NoType}
  /\ {NoType, TyNone, TyInt, TyStr, List(TyStr)} \subseteq TypeSet
  /\ TypeSet \subseteq MadeOf(TypeSet) \cup {NoType}
  /\ Depth \in [TypeSet -> Nat]
  /\ \A t \in TypeSet : \A p \in Parts(t) : Depth[p] < Depth[t]

Bool3(b) == IF b THEN "yes" ELSE "no"

\* The operator "and": the right side is evaluated only after a "yes".
And(x, y) == IF x = "yes" THEN y ELSE x

\* A loop over arguments ends with the first answer that is not "yes".
AndAll(s) ==
  IF \A i \in DOMAIN s : s[i] = "yes" THEN "yes"
  ELSE s[CHOOSE i \in DOMAIN s : /\ s[i] # "yes"
                                 /\ \A j \in DOMAIN s : j < i => s[j] = "yes"]

-----------------------------------------------------------------------------
(***************************************************************************)
(* In the methods, R[<<m, x, y>>] is what method m of x answers on y, for  *)
(* parts x, y of the types of the call.                                    *)
(***************************************************************************)
CompleteBy(R, t) ==
  CASE t.kind \in {"int", "float", "bool", "str", "func"} -> TRUE
    [] t.kind = "list"  -> R[t.item]
    [] t.kind = "dict"  -> R[t.key] /\ R[t.value]
    [] t.kind = "class" -> t.fields # NoFields
    [] OTHER            -> FALSE

\* Mutant of ItemCompletes: lists are covariant.
ItemCompletes_M(R, a, b) ==
  IF b = NoType THEN "yes" ELSE R[<<"subsumes", a, b>>]

\* The items of lists.
ItemCompletes(R, a, b) ==
  IF b = NoType THEN "yes" ELSE R[<<"completes", a, b>>]

\* completes, of the classes that override it
ContainerCompletes(R, a, b) ==
  CASE a.kind = "list" ->
         IF b.kind # "list" THEN "no" ELSE ItemCompletes(R, a.item, b.item)
    [] a.kind = "dict" ->
         IF b.kind # "dict" THEN "no"
         ELSE IF b.key = NoType /\ b.value = NoType THEN "yes"
         ELSE And(R[<<"completes", a.key, b.key>>], R[<<"completes", a.value, b.value>>])
    [] a.kind = "class" ->
         Bool3(b.kind = "class" /\ b.fields \in {NoFields, a.fields})

\* Arguments are contravariant.
ArgsSubsume(R, as, bs) ==
  AndAll([i \in DOMAIN as |-> R[<<"subsumes", bs[i], as[i]>>]])

SubsumesBy(R, a, b) ==
  CASE a.kind = "None"  -> "raises"
    [] a.kind = "float" -> Bool3(b.kind \in {"float", "int"})
    [] a.kind \in BasicKinds \ {"float"} -> Bool3(b.kind = a.kind)
    [] a.kind = "module" -> Bool3(b = a)
    [] a.kind = "func"  ->
         IF b.kind # "func" THEN "no"
         ELSE And(Bool3(Len(a.args) = Len(b.args)),
                  And(R[<<"subsumes", a.ret, b.ret>>], ArgsSubsume(R, a.args, b.args)))
    [] OTHER            -> ContainerCompletes(R, a, b)

\* __eq__; a comparison with None is a comparison of objects.
EqualBy(R, a, b) ==
  CASE "None" \in {a.kind, b.kind} -> Bool3(a.kind = b.kind)
    [] a.kind = "dict" ->
         IF b.kind # "dict" THEN "no"
         ELSE And(R[<<"equal", a.key, b.key>>], R[<<"equal", a.value, b.value>>])
    [] a.kind = "func" ->
         IF b.kind # "func" THEN "no"
         ELSE And(R[<<"equal", a.ret, b.ret>>],
                  And(Bool3(Len(a.args) = Len(b.args)),
                      AndAll([i \in DOMAIN a.args |-> R[<<"equal", a.args[i], b.args[i]>>]])))
    [] OTHER -> And(SubsumesBy(R, a, b), SubsumesBy(R, b, a))

CompletesBy(R, a, b) ==
  CASE a.kind = "None" -> "raises"
    [] a.kind \in {"list", "dict", "class"} -> ContainerCompletes(R, a, b)
    [] OTHER -> EqualBy(R, a, b)

MethodCalls == {"completes", "subsumes", "equal"} \X TypeSet \X TypeSet

Answer(R, call) ==
  CASE call[1] = "completes" -> CompletesBy(R, call[2], call[3])
    [] call[1] = "subsumes"  -> SubsumesBy(R, call[2], call[3])
    [] call[1] = "equal"     -> EqualBy(R, call[2], call[3])

Related[call \in MethodCalls] == Answer(Related, call)
Complete[t \in TypeSet] == CompleteBy(Complete, t)

IsComplete(t)   == CompleteBy(Complete, t)
Completes(a, b) == CompletesBy(Related, a, b)
Subsumes(a, b)  == SubsumesBy(Related, a, b)
Equal(a, b)     == EqualBy(Related, a, b)

\* The types of the methods that the built-in types have.
Methods(t) ==
  CASE t.kind = "str" ->
         [split |-> Func(List(t), <<t>>), join |-> Func(t, <<List(t)>>)]
    [] t.kind = "list" ->
         [append  |-> Func(TyNone, <<t.item>>),
          extend  |-> Func(TyNone, <<t>>),
          insert  |-> Func(TyNone, <<TyInt, t.item>>),
          remove  |-> Func(TyNone, <<t.item>>),
          pop     |-> Func(t.item, <<TyInt>>),
          index   |-> Func(TyInt, <<t.item>>),
          count   |-> Func(TyInt, <<t.item>>),
          reverse |-> Func(TyNone, <<>>),
          sort    |-> Func(TyNone, <<>>),
          clear   |-> Func(TyNone, <<>>)]
    [] t.kind = "dict" ->
         [pop        |-> Func(t.value, <<t.key, t.value>>),
          setdefault |-> Func(t.value, <<t.key, t.value>>),
          get        |-> Func(t.value, <<t.key, t.value>>),
          clear      |-> Func(TyNone, <<>>),
          copy       |-> Func(t, <<>>),
          update     |-> Func(TyNone, <<t>>)]
    [] OTHER -> <<>>

-----------------------------------------------------------------------------
VARIABLES
  elts,    \* the types of the elements seen so far
  elt,     \* what validate_list takes for the type of an element
  target,  \* the declared type of the variable the list is assigned to
  status   \* "typing", "declared", "error" (GarterError) or "raises"

typingVars == <<elts, elt, target, status>>

TypingInit ==
  /\ elts = <<>>
  /\ elt = NoType
  /\ target = NoType
  /\ status = "typing"

\* Mutant of Wider: the type of the first element is kept.
Wider_M(a, b) == a

\* The type of a and b where b subsumes a.
Wider(a, b) == b

\* validate_list meets an element of type ty.
Element(ty) ==
  /\ status = "typing"
  /\ Len(elts) < MaxElements
  /\ elts' = Append(elts, ty)
  /\ \/ /\ elt = NoType
        /\ elt' = ty
        /\ UNCHANGED status
     \/ /\ elt # NoType
        /\ Subsumes(elt, ty) = "yes"
        /\ UNCHANGED <<elt, status>>
     \/ /\ elt # NoType
        /\ Subsumes(elt, ty) = "no" /\ Subsumes(ty, elt) = "yes"
        /\ elt' = Wider(elt, ty)
        /\ UNCHANGED status
     \/ /\ elt # NoType
        /\ Subsumes(elt, ty) = "no" /\ Subsumes(ty, elt) = "no"
        /\ status' = "error"
        /\ UNCHANGED elt
     \/ /\ elt # NoType
        /\ "raises" \in {Subsumes(elt, ty),
                         And(Bool3(Subsumes(elt, ty) = "no"), Subsumes(ty, elt))}
        /\ status' = "raises"
        /\ UNCHANGED elt
  /\ UNCHANGED target

\* Mutant of Assignable: a list is a list.
Assignable_M(t, v) == Bool3(t.kind = v.kind)

Assignable(t, v) == Subsumes(t, v)

\* validate_assign: the list initializes a variable, whose type is declared,
\* or is that of the list (:=).
Declare ==
  /\ status = "typing"
  /\ UNCHANGED <<elts, elt>>
  /\ target' \in DeclTypes \cup {List(elt)}
  /\ status' = CASE ~IsComplete(target') -> "error"
                 [] OTHER -> CASE Assignable(target', List(elt)) = "yes" -> "declared"
                               [] Assignable(target', List(elt)) = "no"  -> "error"
                               [] OTHER -> "raises"

TypingNext == Declare \/ \E ty \in ExprTypes : Element(ty)

TypingSpec == TypingInit /\ [][TypingNext]_typingVars

-----------------------------------------------------------------------------
TypingOK ==
  /\ elts \in Seq(ExprTypes) /\ Len(elts) <= MaxElements
  /\ elt \in ExprTypes \cup {NoType}
  /\ elt = NoType <=> \A i \in DOMAIN elts : elts[i] = NoType
  /\ target \in DeclTypes \cup {NoType} \cup {List(t) : t \in ExprTypes \cup {NoType}}
  /\ status \in {"typing", "declared", "error", "raises"}

\* A variable of type t may hold a value of type v.  A type with a hole may
\* raise when it is asked about itself, so that it is the same is enough.
Admits(t, v) == t = v \/ Subsumes(t, v) = "yes"

(***************************************************************************)
(* The type found for a list is that of one of its elements and subsumes   *)
(* those of all the others, in whatever order they are written: the only   *)
(* neighbour compared is the widest so far.  An element that has no type   *)
(* is forgotten, as "elt == None" is then taken to say that there was no   *)
(* element, but only if no element with a type came before it.             *)
(***************************************************************************)
ElementsFit ==
  status = "typing" =>
    \A i \in DOMAIN elts :
       IF elts[i] = NoType THEN \A j \in 1 .. i : elts[j] = NoType
       ELSE Admits(elt, elts[i])

(***************************************************************************)
(* A variable that is initialized with a list can hold each of the         *)
(* elements that have a type, although its declared type was only compared *)
(* with the type of the list: where holes are filled, they are filled      *)
(* everywhere.                                                             *)
(***************************************************************************)
DeclaredElementsFit ==
  status = "declared" =>
    /\ target.kind = "list"
    /\ \A i \in DOMAIN elts : elts[i] # NoType => Admits(target.item, elts[i])

(***************************************************************************)
(* A value of a complete type b may be used where a is expected, if a      *)
(* subsumes b: b has each method of a, with a type that is the same or can *)
(* be called in the same way, and as a function takes whatever a takes.    *)
(* This is why lists and dicts, which can be modified, are invariant, and  *)
(* arguments contravariant.                                                *)
(***************************************************************************)
Substitutable(a, b) ==
  /\ \A m \in DOMAIN Methods(a) : Admits(Methods(a)[m], Methods(b)[m])
  /\ a.kind = "func" =>
       \A i \in DOMAIN a.args, t \in ExprTypes :
          Subsumes(a.args[i], t) = "yes" => Subsumes(b.args[i], t) = "yes"

SubsumptionIsSubstitution ==
  \A i, j \in DOMAIN elts :
     /\ IsComplete(elts[i]) /\ IsComplete(elts[j])
     /\ Subsumes(elts[i], elts[j]) = "yes"
     => Substitutable(elts[i], elts[j])

(***************************************************************************)
(* "Return the more general of the two types, or None if the types do not  *)
(* match": comparing two types of expressions ends with an answer.         *)
(***************************************************************************)
MergeAnswers == status # "raises"
=============================================================================
