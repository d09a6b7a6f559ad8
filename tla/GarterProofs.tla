---------------------------- MODULE GarterProofs ----------------------------
(***************************************************************************)
(* Proofs about Lib/garter.py: about sessions, module GarterRepl, and      *)
(* about types, module GarterTypes.                                        *)
(*                                                                         *)
(* Sessions: for any set of statements and sessions of any length, with    *)
(* exceptions and restarts.  What makes the first proofs go through is the *)
(* chain of backups: the scope is that of the last compiled unit whenever  *)
(* no unit is being validated, the backup is while one is, and validation  *)
(* changes no entry that is declared in the backup.  The soundness of the  *)
(* types of a session needs more: that each statement was right with what  *)
(* was declared before it, and that this is what the execution, which      *)
(* passes the same statements, has bound by then.                          *)
(*                                                                         *)
(* Types: for any types, nested as deep as may be.  The methods that       *)
(* compare types call one another on the parts of the types, so everything *)
(* rests on induction over how deep these are nested: first that each call *)
(* comes to an end, then that the relations are orders and an equivalence. *)
(***************************************************************************)
EXTENDS GarterRepl, GarterTypes, WellFoundedInduction, SequenceTheorems, TLAPS

-----------------------------------------------------------------------------
(* Stacks of frames *)

StackOK(s) ==
  /\ s \in Seq(Frames)
  /\ \A i \in DOMAIN s : s[i].at \in 1 .. Len(s[i].body) + 1

\* Pushing a frame keeps the frames below it.
LEMMA OnTop ==
  ASSUME NEW S, NEW x \in S, NEW s \in Seq(S)
  PROVE  /\ <<x>> \o s \in Seq(S)
         /\ DOMAIN (<<x>> \o s) = 1 .. Len(s) + 1
         /\ (<<x>> \o s)[1] = x
         /\ \A i \in 2 .. Len(s) + 1 : (<<x>> \o s)[i] = s[i - 1]
<1>1. <<x>> \in Seq(S) /\ Len(<<x>>) = 1 /\ <<x>>[1] = x
  OBVIOUS
<1>2. /\ <<x>> \o s \in Seq(S)
      /\ Len(<<x>> \o s) = 1 + Len(s)
      /\ \A i \in 1 .. 1 + Len(s) :
            (<<x>> \o s)[i] = IF i <= 1 THEN <<x>>[i] ELSE s[i - 1]
  BY <1>1, ConcatProperties
<1> QED BY <1>1, <1>2, LenProperties

\* Popping a frame leaves the frames below it.
LEMMA Below ==
  ASSUME NEW S, NEW s \in Seq(S), s # <<>>
  PROVE  /\ Head(s) = s[1] /\ 1 \in DOMAIN s /\ Head(s) \in S
         /\ Tail(s) \in Seq(S)
         /\ DOMAIN Tail(s) = 1 .. Len(s) - 1
         /\ \A i \in 1 .. Len(s) - 1 : Tail(s)[i] = s[i + 1]
<1>1. Len(s) \in Nat \ {0} /\ DOMAIN s = 1 .. Len(s)
  BY EmptySeq, LenProperties
<1>2. /\ Tail(s) \in Seq(S) /\ Len(Tail(s)) = Len(s) - 1
      /\ \A i \in 1 .. Len(Tail(s)) : Tail(s)[i] = s[i + 1]
  BY HeadTailProperties
<1>3. Head(s) = s[1] /\ Head(s) \in S
  BY <1>1, ElementOfSeq
<1> QED BY <1>1, <1>2, <1>3, LenProperties

LEMMA Pushed ==
  ASSUME NEW s, StackOK(s), NEW f \in Frames, f.at \in 1 .. Len(f.body) + 1
  PROVE  StackOK(<<f>> \o s)
<1> DEFINE t == <<f>> \o s
<1>1. /\ t \in Seq(Frames) /\ DOMAIN t = 1 .. Len(s) + 1
      /\ t[1] = f /\ \A i \in 2 .. Len(s) + 1 : t[i] = s[i - 1]
  BY OnTop DEF StackOK
<1>2. DOMAIN s = 1 .. Len(s) /\ Len(s) \in Nat
  BY LenProperties DEF StackOK
<1>3. ASSUME NEW i \in DOMAIN t PROVE t[i].at \in 1 .. Len(t[i].body) + 1
  <2>1. CASE i = 1
    BY <2>1, <1>1
  <2>2. CASE i # 1
    <3>1. i \in 2 .. Len(s) + 1 /\ i - 1 \in DOMAIN s
      BY <2>2, <1>1, <1>2
    <3> QED BY <3>1, <1>1 DEF StackOK
  <2> QED BY <2>1, <2>2
<1> QED BY <1>1, <1>3 DEF StackOK

LEMMA Popped ==
  ASSUME NEW s, StackOK(s), s # <<>>
  PROVE  /\ StackOK(Tail(s))
         /\ Head(s) \in Frames
         /\ Head(s).at \in 1 .. Len(Head(s).body) + 1
<1> DEFINE t == Tail(s)
<1>1. /\ Head(s) = s[1] /\ 1 \in DOMAIN s /\ Head(s) \in Frames
      /\ t \in Seq(Frames) /\ DOMAIN t = 1 .. Len(s) - 1
      /\ \A i \in 1 .. Len(s) - 1 : t[i] = s[i + 1]
  BY Below DEF StackOK
<1>2. DOMAIN s = 1 .. Len(s) /\ Len(s) \in Nat
  BY LenProperties DEF StackOK
<1>3. ASSUME NEW i \in DOMAIN t PROVE t[i].at \in 1 .. Len(t[i].body) + 1
  <2>1. t[i] = s[i + 1] /\ i + 1 \in DOMAIN s
    BY <1>1, <1>2
  <2> QED BY <2>1 DEF StackOK
<1> QED BY <1>1, <1>3 DEF StackOK

-----------------------------------------------------------------------------
(* Types of what the actions are built from *)

LEMMA EntryType ==
  ASSUME NEW ty \in Types \cup {"none", "invalid", "func"}
  PROVE  Entry(ty) \in Entries
BY DEF Entry, Entries, Bodies

LEMMA FunctionType ==
  ASSUME NEW b \in Bodies, NEW p \in BOOLEAN
  PROVE  Function(b, p) \in Entries
BY DEF Function, Entries

LEMMA NothingType == Nothing \in Scopes
BY EntryType DEF Nothing, Scopes

LEMMA FoundLocalsType ==
  ASSUME NEW vs \in Scopes, NEW stmts
  PROVE  FoundLocals(vs, stmts) \in Scopes
<1>1. Entry("invalid") \in Entries
  BY EntryType
<1> QED BY <1>1 DEF FoundLocals, Scopes

\* A body is a sequence of statements that define no functions.
LEMMA BodiesType == Bodies \subseteq Seq(BodyStatements)
<1>1. <<>> \in Seq(BodyStatements)
  BY EmptySeq
<1> QED BY <1>1, ReplAssumption DEF Bodies

Statement == [op : Ops, name : Names, ty : Types \cup {"func"}, body : Bodies]

LEMMA StatementsType == Statements \subseteq Statement
<1> SUFFICES ASSUME NEW s \in Statements PROVE s \in Statement
  OBVIOUS
<1>1. s \in [op : Ops, name : Names, ty : Types \cup {"func"}, body : Seq(BodyStatements)]
  BY ReplAssumption
<1>2. s.body \in Bodies
  BY DEF Bodies
<1> QED BY <1>1, <1>2 DEF Statement

\* The next statement, of the unit or of the body of a function.
LEMMA StmtType ==
  ASSUME TypeOK, HasNext
  PROVE  /\ Stmt \in Statement
         /\ AtRoot => at \in 1 .. Len(unit) /\ Stmt \in Statements
         /\ ~AtRoot => /\ Stmt.op # "def"
                       /\ Frame \in Frames
                       /\ Frame.at \in 1 .. Len(Frame.body)
                       /\ StackOK(Tail(stack))
<1>1. CASE AtRoot
  <2>1. at \in 1 .. Len(unit) /\ unit \in Seq(Statements)
    BY <1>1, LenProperties DEF TypeOK, HasNext
  <2>2. unit[at] \in Statements
    BY <2>1, ElementOfSeq
  <2> QED BY <1>1, <2>1, <2>2, StatementsType DEF Stmt
<1>2. CASE ~AtRoot
  <2>1. StackOK(stack) /\ stack # <<>>
    BY <1>2 DEF TypeOK, StackOK, AtRoot
  <2>2. /\ Frame \in Frames /\ Frame.at \in 1 .. Len(Frame.body) + 1
        /\ StackOK(Tail(stack))
    BY <2>1, Popped DEF Frame
  <2>3. Frame.body \in Seq(BodyStatements)
    BY <2>2, BodiesType DEF Frames
  <2>4. Frame.at \in 1 .. Len(Frame.body)
    BY <1>2, <2>2, <2>3, LenProperties DEF HasNext
  <2>5. Frame.body[Frame.at] \in BodyStatements
    BY <2>3, <2>4, ElementOfSeq
  <2>6. BodyStatements \subseteq Statement
    BY DEF BodyStatements, Statement, Bodies
  <2> QED BY <1>2, <2>2, <2>4, <2>5, <2>6 DEF Stmt, BodyStatements
<1> QED BY <1>1, <1>2

-----------------------------------------------------------------------------
(* Type correctness *)

\* The variables but for the stack.
FlatOK ==
  /\ {scope, backup, env, committed} \subseteq Scopes
  /\ phase \in {"idle", "parse", "validate", "run"}
  /\ tries \in 0 .. 3
  /\ unit \in Seq(Statements) /\ Len(unit) <= MaxLength
  /\ at \in 1 .. Len(unit) + 1
  /\ outcome \in {"done", "raised", "wrong"}
  /\ units \in 0 .. MaxUnits
  /\ faulted \in BOOLEAN

LEMMA TypeSplit == TypeOK <=> FlatOK /\ StackOK(stack)
BY DEF TypeOK, FlatOK, StackOK

LEMMA EmptyStack == StackOK(<<>>)
BY EmptySeq DEF StackOK

\* An attempt at compiling that ended, with a scope restored or not.
LEMMA EndedType ==
  ASSUME FlatOK, Ended, scope' \in Scopes, backup' \in Scopes
  PROVE  FlatOK' /\ StackOK(stack')
<1>1. stack' = <<>> /\ StackOK(stack')
  BY EmptyStack DEF Ended
<1>2. tries' \in 0 .. 3
  BY DEF Ended, FlatOK
<1>3. at' \in 1 .. Len(unit') + 1
  BY LenProperties DEF Ended, FlatOK
<1> QED BY <1>1, <1>2, <1>3 DEF Ended, FlatOK

LEMMA InitializeType ==
  ASSUME TypeOK, NEW f \in Names, Initialize(f)
  PROVE  scope' \in Scopes /\ StackOK(stack')
<1> DEFINE top == [fn |-> f, body |-> scope[f].body, at |-> 1,
                   vars |-> FoundLocals(Nothing, scope[f].body)]
<1>1. scope \in Scopes /\ StackOK(stack)
  BY TypeSplit DEF FlatOK
<1>2. scope' \in Scopes
  BY <1>1 DEF Initialize, Scopes, Entries
<1>3. scope[f].body \in Bodies
  BY <1>1 DEF Scopes, Entries
<1>4. Len(scope[f].body) \in Nat
  BY <1>3, BodiesType, LenProperties
<1>5. top \in Frames /\ top.at \in 1 .. Len(top.body) + 1
  BY <1>3, <1>4, FoundLocalsType, NothingType DEF Frames
<1>6. stack' = <<top>> \o stack
  BY DEF Initialize
<1> HIDE DEF top
<1>7. StackOK(<<top>> \o stack)
  BY <1>1, <1>5, Pushed
<1> QED BY <1>2, <1>6, <1>7

\* The frame on top of the stack goes on to its next statement.
LEMMA AdvanceType ==
  ASSUME NEW f \in Frames, f.at \in 1 .. Len(f.body)
  PROVE  /\ Advance(f) \in Frames
         /\ Advance(f).at \in 1 .. Len(Advance(f).body) + 1
         /\ Advance(f).body = f.body
<1>1. f.body \in Seq(BodyStatements) /\ Len(f.body) \in Nat
  BY BodiesType, LenProperties DEF Frames
<1> QED BY <1>1 DEF Advance, Frames

\* The same, with other variables.
LEMMA AdvanceVarsType ==
  ASSUME NEW f \in Frames, f.at \in 1 .. Len(f.body), NEW vs \in Scopes,
         NEW s, StackOK(s)
  PROVE  StackOK(<<[Advance(f) EXCEPT !.vars = vs]>> \o s)
<1> DEFINE top == [Advance(f) EXCEPT !.vars = vs]
<1>1. top \in Frames /\ top.at \in 1 .. Len(top.body) + 1
  BY AdvanceType DEF Frames
<1> QED BY <1>1, Pushed

LEMMA DeclarationType ==
  ASSUME TypeOK, NEW s \in Statement, NEW vs \in Scopes
  PROVE  Declaration(s, vs) \in Scopes
<1>1. scope \in Scopes
  BY DEF TypeOK
<1>2. Entry(s.ty) \in Entries /\ Function(s.body, TRUE) \in Entries
  BY EntryType, FunctionType DEF Statement
<1>3. Entry(scope[s.name].ty) \in Entries
  <2>1. scope[s.name].ty \in Types \cup {"none", "invalid", "func"}
    BY <1>1 DEF Statement, Scopes, Entries
  <2> QED BY <2>1, EntryType
<1>4. \A e \in Entries : [vs EXCEPT ![s.name] = e] \in Scopes
  BY DEF Scopes
<1> QED BY <1>2, <1>3, <1>4 DEF Declaration

LEMMA ValueType ==
  ASSUME TypeOK, HasNext, NEW n \in Names
  PROVE  Value(n) \in Entries
<1>1. CASE InGlobals(n)
  BY <1>1 DEF Value, TypeOK, Scopes
<1>2. CASE ~InGlobals(n)
  <2>1. Frame \in Frames
    BY <1>2, StmtType DEF InGlobals
  <2> QED BY <1>2, <2>1 DEF Value, Frames, Scopes
<1> QED BY <1>1, <1>2

\* A statement other than a call was executed.
LEMMA BindType ==
  ASSUME TypeOK, HasNext, NEW n \in Names, NEW v \in Entries, Bind(n, v),
         unit' = unit
  PROVE  env' \in Scopes /\ at' \in 1 .. Len(unit) + 1 /\ StackOK(stack')
<1>0. /\ env \in Scopes /\ StackOK(stack)
      /\ at \in 1 .. Len(unit) + 1 /\ unit \in Seq(Statements)
  BY TypeSplit DEF FlatOK
<1>1. CASE InGlobals(n)
  <2>1. env' \in Scopes
    BY <1>0, <1>1 DEF Bind, Scopes
  <2>2. CASE AtRoot
    BY <1>0, <1>1, <2>1, <2>2, StmtType, LenProperties DEF Bind
  <2>3. CASE ~AtRoot
    <3>1. /\ Frame \in Frames /\ Frame.at \in 1 .. Len(Frame.body)
          /\ StackOK(Tail(stack))
      BY <2>3, StmtType
    <3>2. StackOK(<<Advance(Frame)>> \o Tail(stack))
      BY <3>1, AdvanceType, Pushed
    <3> QED BY <1>0, <1>1, <2>1, <2>3, <3>2 DEF Bind
  <2> QED BY <2>2, <2>3
<1>2. CASE ~InGlobals(n)
  <2>1. ~AtRoot
    BY <1>2 DEF InGlobals
  <2>2. /\ Frame \in Frames /\ Frame.at \in 1 .. Len(Frame.body)
        /\ StackOK(Tail(stack))
    BY <2>1, StmtType
  <2>3. [Frame.vars EXCEPT ![n] = v] \in Scopes
    BY <2>2 DEF Frames, Scopes
  <2>4. StackOK(<<[Advance(Frame) EXCEPT !.vars = [Frame.vars EXCEPT ![n] = v]]>>
                  \o Tail(stack))
    BY <2>2, <2>3, AdvanceVarsType
  <2>5. [Advance(Frame) EXCEPT !.vars[n] = v]
           = [Advance(Frame) EXCEPT !.vars = [Frame.vars EXCEPT ![n] = v]]
    BY <2>2 DEF Advance, Frames
  <2> QED BY <1>0, <1>2, <2>4, <2>5 DEF Bind
<1> QED BY <1>1, <1>2

LEMMA SkipType ==
  ASSUME TypeOK, HasNext, Skip
  PROVE  at' \in 1 .. Len(unit) + 1 /\ StackOK(stack')
<1>0. /\ StackOK(stack)
      /\ at \in 1 .. Len(unit) + 1 /\ unit \in Seq(Statements)
  BY TypeSplit DEF FlatOK
<1>1. CASE AtRoot
  BY <1>0, <1>1, StmtType, LenProperties DEF Skip
<1>2. CASE ~AtRoot
  <2>1. /\ Frame \in Frames /\ Frame.at \in 1 .. Len(Frame.body)
        /\ StackOK(Tail(stack))
    BY <1>2, StmtType
  <2>2. StackOK(<<Advance(Frame)>> \o Tail(stack))
    BY <2>1, AdvanceType, Pushed
  <2> QED BY <1>0, <1>2, <2>2 DEF Skip
<1> QED BY <1>1, <1>2

\* A return to the shell.
LEMMA EndType ==
  ASSUME FlatOK, NEW how \in {"done", "raised", "wrong"}, End(how), env' = env
  PROVE  FlatOK' /\ StackOK(stack')
<1>1. stack' = <<>> /\ StackOK(stack')
  BY EmptyStack DEF End
<1>2. at' \in 1 .. Len(unit') + 1
  BY LenProperties DEF End, FlatOK
<1> QED BY <1>1, <1>2 DEF End, FlatOK

\* The shell begins each unit with its first statement.
AtStart == phase = "idle" => at = 1

\* Every step keeps every variable in its type.
LEMMA TypeStep == TypeOK /\ AtStart /\ [Next]_vars => TypeOK'
<1> SUFFICES ASSUME TypeOK, AtStart, [Next]_vars PROVE FlatOK' /\ StackOK(stack')
  BY TypeSplit DEF TypeOK, FlatOK, StackOK
<1>0. FlatOK /\ StackOK(stack)
  BY TypeSplit
<1>1. CASE Submit
  <2>1. unit' \in Seq(Statements) /\ Len(unit') <= MaxLength
    BY <1>1, ReplAssumption DEF Submit, Units
  <2>2. at' \in 1 .. Len(unit') + 1
    BY <1>1, <2>1, LenProperties DEF Submit, AtStart
  <2> QED BY <1>0, <1>1, <2>1, <2>2, ReplAssumption DEF Submit, FlatOK
<1>2. CASE ParseFails
  BY <1>0, <1>2, EndedType DEF ParseFails, FlatOK
<1>3. CASE Parse
  <2>1. scope' \in Scopes
    BY <1>0, <1>3, FoundLocalsType DEF Parse, FlatOK
  <2>2. at' \in 1 .. Len(unit') + 1
    BY <1>0, <1>3, LenProperties DEF Parse, FlatOK
  <2> QED BY <1>0, <1>3, <2>1, <2>2 DEF Parse, FlatOK
<1>4. CASE ValidateStmt
  <2>1. Stmt \in Statement
    BY <1>4, StmtType DEF ValidateStmt
  <2>2. CASE References(Stmt) /\ Initialize(Stmt.name) /\ UNCHANGED at
    <3>1. scope' \in Scopes /\ StackOK(stack')
      BY <2>1, <2>2, InitializeType DEF Statement
    <3> QED BY <1>0, <1>4, <2>2, <3>1 DEF ValidateStmt, FlatOK
  <2>3. CASE AtRoot /\ scope' = Declaration(Stmt, scope) /\ at' = at + 1
             /\ UNCHANGED stack
    <3>1. scope' \in Scopes
      BY <1>0, <2>1, <2>3, DeclarationType DEF FlatOK
    <3>2. at' \in 1 .. Len(unit) + 1
      BY <1>4, <2>3, StmtType, LenProperties DEF ValidateStmt, TypeOK
    <3> QED BY <1>0, <1>4, <2>3, <3>1, <3>2 DEF ValidateStmt, FlatOK
  <2>4. CASE /\ ~AtRoot
             /\ stack' = <<[Advance(Frame) EXCEPT
                              !.vars = Declaration(Stmt, @)]>> \o Tail(stack)
             /\ UNCHANGED <<scope, at>>
    <3>1. /\ Frame \in Frames /\ Frame.at \in 1 .. Len(Frame.body)
          /\ StackOK(Tail(stack))
      BY <1>4, <2>4, StmtType DEF ValidateStmt
    <3>2. Declaration(Stmt, Frame.vars) \in Scopes
      BY <2>1, <3>1, DeclarationType DEF Frames
    <3>3. Advance(Frame).vars = Frame.vars
      BY <3>1 DEF Advance, Frames
    <3>4. StackOK(stack')
      BY <2>4, <3>1, <3>2, <3>3, AdvanceVarsType
    <3> QED BY <1>0, <1>4, <2>4, <3>4 DEF ValidateStmt, FlatOK
  <2> QED BY <1>4, <2>2, <2>3, <2>4 DEF ValidateStmt
<1>5. CASE BodyEnds
  BY <1>0, <1>5, Popped DEF BodyEnds, AtRoot, FlatOK
<1>6. CASE Reject
  BY <1>0, <1>6, EndedType DEF Reject, FlatOK
<1>7. CASE Flush
  <2>1. PICK f \in Names : Initialize(f)
    BY <1>7 DEF Flush
  <2>2. scope' \in Scopes /\ StackOK(stack')
    BY <2>1, InitializeType
  <2> QED BY <1>0, <1>7, <2>2 DEF Flush, FlatOK
<1>8. CASE Compiled
  BY <1>0, <1>8, LenProperties DEF Compiled, FlatOK
<1>9. CASE NotUsed
  BY <1>0, <1>9, EndedType DEF NotUsed, FlatOK
<1>10. CASE Store
  <2>1. HasNext /\ Stmt \in Statement /\ Bind(Stmt.name, Entry(Stmt.ty))
    BY <1>10, StmtType DEF Store, Executing, Running
  <2>2. Stmt.name \in Names /\ Entry(Stmt.ty) \in Entries
    BY <2>1, EntryType DEF Statement
  <2>3. env' \in Scopes /\ at' \in 1 .. Len(unit) + 1 /\ StackOK(stack')
    BY <1>10, <2>1, <2>2, BindType DEF Store, Executing
  <2> QED BY <1>0, <1>10, <2>3 DEF Store, Executing, FlatOK
<1>11. CASE MakeFunction
  <2>1. HasNext /\ Stmt \in Statement /\ Bind(Stmt.name, Function(Stmt.body, FALSE))
    BY <1>11, StmtType DEF MakeFunction, Executing, Running
  <2>2. Stmt.name \in Names /\ Function(Stmt.body, FALSE) \in Entries
    BY <2>1, FunctionType DEF Statement
  <2>3. env' \in Scopes /\ at' \in 1 .. Len(unit) + 1 /\ StackOK(stack')
    BY <1>11, <2>1, <2>2, BindType DEF MakeFunction, Executing
  <2> QED BY <1>0, <1>11, <2>3 DEF MakeFunction, Executing, FlatOK
<1>12. CASE PassOver
  <2>1. at' \in 1 .. Len(unit) + 1 /\ StackOK(stack') /\ env' = env
    BY <1>12, SkipType DEF PassOver, Executing, Running, Skip
  <2> QED BY <1>0, <1>12, <2>1 DEF PassOver, Executing, FlatOK
<1>13. CASE CallFunction
  <2> DEFINE below == IF AtRoot THEN <<>> ELSE <<Advance(Frame)>> \o Tail(stack)
             top == [fn |-> Stmt.name, body |-> Value(Stmt.name).body, at |-> 1,
                     vars |-> Nothing]
  <2>1. HasNext /\ Stmt \in Statement
    BY <1>13, StmtType DEF CallFunction, Executing, Running
  <2>2. Value(Stmt.name).body \in Bodies
    BY <2>1, ValueType DEF Statement, Entries
  <2>3. Len(Value(Stmt.name).body) \in Nat
    BY <2>2, BodiesType, LenProperties
  <2>4. top \in Frames /\ top.at \in 1 .. Len(top.body) + 1
    BY <2>1, <2>2, <2>3, NothingType DEF Frames, Statement
  <2>5. StackOK(below)
    <3>1. CASE AtRoot
      BY <3>1, EmptyStack
    <3>2. CASE ~AtRoot
      BY <2>1, <3>2, StmtType, AdvanceType, Pushed
    <3> QED BY <3>1, <3>2
  <2>6. stack' = <<top>> \o below
    BY <1>13 DEF CallFunction
  <2>7. at' \in 1 .. Len(unit) + 1
    BY <1>0, <1>13, <2>1, StmtType, LenProperties DEF CallFunction, FlatOK
  <2> HIDE DEF top, below
  <2>8. StackOK(stack')
    BY <2>4, <2>5, <2>6, Pushed
  <2> QED BY <1>0, <1>13, <2>7, <2>8 DEF CallFunction, Executing, FlatOK
<1>14. CASE Raise
  BY <1>0, <1>14, EndType DEF Raise
<1>15. CASE GoWrong
  BY <1>0, <1>15, EndType DEF GoWrong
<1>16. CASE Return
  BY <1>0, <1>16, Popped DEF Return, AtRoot, FlatOK
<1>17. CASE UnitEnds
  BY <1>0, <1>17, EndType DEF UnitEnds
<1>18. CASE RestartShell
  BY <1>0, <1>18, NothingType DEF RestartShell, FlatOK
<1>19. CASE UNCHANGED vars
  BY <1>0, <1>19 DEF vars, FlatOK
<1> QED
  BY <1>1, <1>2, <1>3, <1>4, <1>5, <1>6, <1>7, <1>8, <1>9, <1>10, <1>11, <1>12,
     <1>13, <1>14, <1>15, <1>16, <1>17, <1>18, <1>19 DEF Next

\* Every variable of the session has its type in every reachable state.
THEOREM TypeCorrect == Spec => []TypeOK
<1>1. Init => TypeOK
  <2> SUFFICES ASSUME Init PROVE FlatOK /\ StackOK(stack)
    BY TypeSplit
  <2>1. StackOK(stack)
    BY EmptyStack DEF Init
  <2>2. unit \in Seq(Statements) /\ Len(unit) = 0
    BY EmptySeq DEF Init
  <2>3. Len(unit) <= MaxLength /\ at \in 1 .. Len(unit) + 1 /\ units \in 0 .. MaxUnits
    BY <2>2, ReplAssumption DEF Init
  <2>4. {scope, backup, env, committed} \subseteq Scopes
    BY NothingType DEF Init
  <2>5. /\ phase \in {"idle", "parse", "validate", "run"} /\ tries \in 0 .. 3
        /\ outcome \in {"done", "raised", "wrong"}
    BY SMT DEF Init
  <2>6. faulted \in BOOLEAN
    BY Zenon DEF Init
  <2> QED BY <2>1, <2>2, <2>3, <2>4, <2>5, <2>6 DEF FlatOK
<1>2. Init => AtStart
  BY DEF Init, AtStart
<1>3. AtStart /\ [Next]_vars => AtStart'
  <2> SUFFICES ASSUME AtStart, [Next]_vars PROVE AtStart'
    OBVIOUS
  <2> USE DEF AtStart
  <2>1. CASE Ended
    BY <2>1 DEF Ended
  <2>2. CASE \E how \in {"done", "raised", "wrong"} : End(how)
    BY <2>2 DEF End
  <2>3. CASE ~Ended /\ ~\E how \in {"done", "raised", "wrong"} : End(how)
    BY <2>3 DEF Next, vars, Submit, ParseFails, Parse, ValidateStmt, BodyEnds, Reject,
       Flush, Compiled, NotUsed, Validated, Store, MakeFunction, PassOver, CallFunction,
       Executing, Running, Raise, GoWrong, Return, UnitEnds, RestartShell
  <2> QED BY <2>1, <2>2, <2>3
<1> QED BY <1>1, <1>2, <1>3, TypeStep, PTL DEF Spec

-----------------------------------------------------------------------------
(* What is left in the scope *)

\* The scope, or while a unit is validated its backup, is that of the last
\* compiled unit.
BackupChain ==
  /\ phase \in {"idle", "parse", "run"} => scope = committed
  /\ phase = "validate" => backup = committed

\* No compiled unit leaves a function that is not validated.
AllInitialized == \A n \in Names : ~committed[n].pending

\* Validation changes nothing that was declared before.
NothingRedeclared ==
  phase = "validate" =>
    \A n \in Names : Declared(committed[n]) => scope[n] = committed[n]

ScopeInv == BackupChain /\ AllInitialized /\ NothingRedeclared

\* Initializing a function changes an entry only if the function is pending.
LEMMA InitializeKeeps ==
  ASSUME TypeOK, NEW f, Initialize(f), NEW n \in Names, ~scope[n].pending
  PROVE  scope'[n] = scope[n]
BY DEF Initialize, TypeOK, Scopes, Entries

\* The statement of a unit that is accepted declares a new name.
LEMMA DeclarationKeeps ==
  ASSUME TypeOK, AtRoot, HasNext, Accepts(Stmt), NEW n \in Names,
         Declared(scope[n])
  PROVE  Declaration(Stmt, scope)[n] = scope[n]
<1>1. Stmt \in Statement /\ scope \in Scopes
  BY StmtType DEF TypeOK
<1>2. CASE Stmt.op \in {"declare", "block", "def"}
  <2>1. ~Declared(scope[Stmt.name])
    BY <1>2 DEF Accepts, MayDeclare, Local
  <2> QED BY <1>1, <1>2, <2>1 DEF Declaration, Scopes
<1>3. CASE Stmt.op \in {"use", "assign", "call"}
  BY <1>3 DEF Declaration
<1>4. CASE Stmt.op = "global"
  BY <1>4 DEF Accepts, AcceptsGlobal
<1> QED BY <1>1, <1>2, <1>3, <1>4 DEF Statement, Ops

\* An attempt ended and the scope was restored.
LEMMA RestoreStep ==
  ASSUME ScopeInv, phase \in {"parse", "validate"}, Ended,
         scope' = IF phase = "parse" THEN scope ELSE backup
  PROVE  ScopeInv'
BY DEF ScopeInv, BackupChain, AllInitialized, NothingRedeclared, Ended

LEMMA ScopeStep == TypeOK /\ ScopeInv /\ [Next]_vars => ScopeInv'
<1> SUFFICES ASSUME TypeOK, ScopeInv, [Next]_vars PROVE ScopeInv'
  OBVIOUS
<1> USE DEF ScopeInv, BackupChain, AllInitialized, NothingRedeclared
<1>1. CASE Submit
  BY <1>1 DEF Submit
<1>2. CASE ParseFails
  BY <1>2, RestoreStep DEF ParseFails
<1>3. CASE Parse
  <2>1. ASSUME NEW n \in Names, Declared(committed[n]) PROVE scope'[n] = committed[n]
    BY <1>3, <2>1 DEF Parse, FoundLocals, Declared
  <2> QED BY <1>3, <2>1 DEF Parse
<1>4. CASE ValidateStmt
  <2>1. ASSUME NEW n \in Names, Declared(committed[n]) PROVE scope'[n] = committed[n]
    <3>1. scope[n] = committed[n] /\ ~scope[n].pending /\ Declared(scope[n])
      BY <1>4, <2>1 DEF ValidateStmt
    <3>2. CASE Initialize(Stmt.name)
      BY <3>1, <3>2, InitializeKeeps
    <3>3. CASE AtRoot /\ HasNext /\ Accepts(Stmt) /\ scope' = Declaration(Stmt, scope)
      BY <3>1, <3>3, DeclarationKeeps
    <3> QED BY <1>4, <3>1, <3>2, <3>3 DEF ValidateStmt
  <2> QED BY <1>4, <2>1 DEF ValidateStmt
<1>5. CASE BodyEnds
  BY <1>5 DEF BodyEnds
<1>6. CASE Reject
  BY <1>6, RestoreStep DEF Reject
<1>7. CASE Flush
  <2>1. PICK f \in Names : Initialize(f)
    BY <1>7 DEF Flush
  <2>2. ASSUME NEW n \in Names, Declared(committed[n]) PROVE scope'[n] = committed[n]
    BY <1>7, <2>1, <2>2, InitializeKeeps DEF Flush
  <2> QED BY <1>7, <2>2 DEF Flush
<1>8. CASE Compiled
  BY <1>8 DEF Compiled, Validated
<1>9. CASE NotUsed
  BY <1>9, RestoreStep DEF NotUsed, Validated
<1>10. CASE Store \/ MakeFunction \/ PassOver \/ CallFunction
  BY <1>10 DEF Store, MakeFunction, PassOver, CallFunction, Executing, Running
<1>11. CASE Raise \/ GoWrong \/ UnitEnds
  BY <1>11 DEF Raise, GoWrong, UnitEnds, End, Running
<1>12. CASE Return \/ RestartShell
  BY <1>12 DEF Return, RestartShell
<1>13. CASE UNCHANGED vars
  BY <1>13 DEF vars
<1> QED
  BY <1>1, <1>2, <1>3, <1>4, <1>5, <1>6, <1>7, <1>8, <1>9, <1>10, <1>11, <1>12,
     <1>13 DEF Next

LEMMA ScopeInit == Init => ScopeInv
BY DEF Init, ScopeInv, BackupChain, AllInitialized, NothingRedeclared, Nothing, Entry

LEMMA ScopeInvariant == Spec => []ScopeInv
BY ScopeInit, ScopeStep, TypeCorrect, PTL DEF Spec

\* A unit that is rejected, or whose attempts at compiling fail, leaves no
\* trace in the scope of the session.
THEOREM CompiledUnitsDeclare == Spec => []OnlyCompiledUnitsDeclare
<1>1. ScopeInv => OnlyCompiledUnitsDeclare
  BY DEF ScopeInv, BackupChain, OnlyCompiledUnitsDeclare
<1> QED BY <1>1, ScopeInvariant, PTL

\* Nothing runs while a function of it has not been validated.
THEOREM ValidatedBeforeRun == Spec => []RunsOnlyValidated
<1>1. ScopeInv => RunsOnlyValidated
  BY DEF ScopeInv, BackupChain, AllInitialized, RunsOnlyValidated
<1> QED BY <1>1, ScopeInvariant, PTL

\* What a unit declared stays declared, with the same type and body, for the
\* rest of the session.
THEOREM DeclarationsPersist == Spec => DeclarationsAreKept
<1> DEFINE Kept == \A n \in Names : Declared(committed[n]) => committed'[n] = committed[n]
<1>1. ScopeInv /\ [Next]_vars => [Kept]_vars
  <2> SUFFICES ASSUME ScopeInv, Next PROVE Kept
    BY DEF vars
  <2>1. CASE Compiled
    BY <2>1 DEF Compiled, Validated, ScopeInv, NothingRedeclared
  <2>2. CASE ~Compiled
    BY <2>2 DEF Next, Submit, ParseFails, Parse, ValidateStmt, BodyEnds, Reject, Flush,
       NotUsed, Ended, Store, MakeFunction, PassOver, CallFunction, Executing, Raise,
       GoWrong, Return, UnitEnds, End, RestartShell
  <2> QED BY <2>1, <2>2
<1> QED BY <1>1, ScopeInvariant, PTL DEF Spec, DeclarationsAreKept

-----------------------------------------------------------------------------
(* Validation does not nest *)

\* The stack is empty between validation and execution.
EmptyBetween == phase \in {"idle", "parse"} => stack = <<>>

\* No name in the locals of a body is a function to be validated, and no
\* function that is being validated is still pending.
StackInitialized ==
  phase = "validate" =>
    \A i \in DOMAIN stack :
       /\ ~scope[stack[i].fn].pending
       /\ \A n \in Names : ~stack[i].vars[n].pending

NestingInv == EmptyBetween /\ StackInitialized /\ NoNestedValidation

\* A pending function that is referenced is one of the global scope.
LEMMA ReferencedIsPending ==
  ASSUME TypeOK, StackInitialized, phase = "validate", HasNext, References(Stmt)
  PROVE  Stmt.name \in Names /\ scope[Stmt.name].pending
<1>1. Stmt.name \in Names
  BY StmtType DEF Statement
<1>2. CASE AtRoot
  BY <1>1, <1>2 DEF References, LookedUp, Local
<1>3. CASE ~AtRoot
  <2>1. stack \in Seq(Frames) /\ stack # <<>>
    BY <1>3 DEF TypeOK, AtRoot
  <2>2. Frame = stack[1] /\ 1 \in DOMAIN stack
    BY <2>1, Below DEF Frame
  <2>3. ~Frame.vars[Stmt.name].pending
    BY <1>1, <2>2 DEF StackInitialized
  <2> QED BY <1>1, <1>3, <2>3 DEF References, LookedUp, Local
<1> QED BY <1>2, <1>3

LEMMA InitializeNests ==
  ASSUME TypeOK, NestingInv, phase = "validate", phase' = "validate",
         NEW f \in Names, scope[f].pending, Initialize(f)
  PROVE  NestingInv'
<1> DEFINE top == [fn |-> f, body |-> scope[f].body, at |-> 1,
                   vars |-> FoundLocals(Nothing, scope[f].body)]
<1>1. /\ scope \in Scopes /\ stack \in Seq(Frames)
      /\ top \in Frames
  <2>1. scope \in Scopes /\ scope[f].body \in Bodies /\ stack \in Seq(Frames)
    BY DEF TypeOK, Scopes, Entries
  <2> QED BY <2>1, FoundLocalsType, NothingType DEF Frames
<1>2. \A n \in Names : ~top.vars[n].pending
  BY DEF FoundLocals, Nothing, Entry
<1>3. /\ ~scope'[f].pending
      /\ \A n \in Names : scope'[n].pending => scope[n].pending
  BY <1>1 DEF Initialize, Scopes, Entries
<1>4. stack' = <<top>> \o stack /\ top.fn = f
  BY DEF Initialize
<1> HIDE DEF top
<1>5. /\ DOMAIN stack = 1 .. Len(stack) /\ Len(stack) \in Nat
      /\ DOMAIN stack' = 1 .. Len(stack) + 1 /\ stack'[1] = top
      /\ \A i \in 2 .. Len(stack) + 1 : stack'[i] = stack[i - 1]
  BY <1>1, <1>4, OnTop, LenProperties
<1>6. \A i \in DOMAIN stack : stack[i].fn \in Names /\ stack[i].fn # f
  <2> SUFFICES ASSUME NEW i \in DOMAIN stack PROVE stack[i].fn \in Names /\ stack[i].fn # f
    OBVIOUS
  <2>1. stack[i] \in Frames
    BY <1>1, <1>5, ElementOfSeq
  <2>2. ~scope[stack[i].fn].pending
    BY DEF NestingInv, StackInitialized
  <2> QED BY <2>1, <2>2 DEF Frames
<1>7. ASSUME NEW i \in DOMAIN stack'
      PROVE  ~scope'[stack'[i].fn].pending /\ \A n \in Names : ~stack'[i].vars[n].pending
  <2>1. CASE i = 1
    BY <1>2, <1>3, <1>4, <1>5, <2>1
  <2>2. CASE i # 1
    <3>1. stack'[i] = stack[i - 1] /\ i - 1 \in DOMAIN stack
      BY <1>5, <2>2
    <3> QED BY <1>3, <1>6, <3>1 DEF NestingInv, StackInitialized
  <2> QED BY <2>1, <2>2
<1>8. ASSUME NEW i \in DOMAIN stack', NEW j \in DOMAIN stack', stack'[i].fn = stack'[j].fn
      PROVE  i = j
  <2>1. CASE i = 1 \/ j = 1
    BY <1>4, <1>5, <1>6, <1>8, <2>1
  <2>2. CASE i # 1 /\ j # 1
    <3>1. /\ stack'[i] = stack[i - 1] /\ i - 1 \in DOMAIN stack
          /\ stack'[j] = stack[j - 1] /\ j - 1 \in DOMAIN stack
      BY <1>5, <2>2
    <3>2. i - 1 = j - 1
      BY <1>8, <3>1 DEF NestingInv, NoNestedValidation
    <3> QED BY <3>2, <1>5
  <2> QED BY <2>1, <2>2
<1> QED BY <1>7, <1>8 DEF NestingInv, EmptyBetween, StackInitialized, NoNestedValidation

\* The stack is emptied.
LEMMA EmptyNests == ASSUME stack' = <<>> PROVE NestingInv'
<1>1. DOMAIN stack' = {}
  BY EmptySeq, LenProperties
<1> QED BY <1>1 DEF NestingInv, EmptyBetween, StackInitialized, NoNestedValidation

LEMMA NestingStep == TypeOK /\ NestingInv /\ [Next]_vars => NestingInv'
<1> SUFFICES ASSUME TypeOK, NestingInv, [Next]_vars PROVE NestingInv'
  OBVIOUS
<1>1. CASE Submit \/ Parse
  BY <1>1, EmptyNests DEF Submit, Parse, NestingInv, EmptyBetween
<1>2. CASE ParseFails \/ Reject \/ NotUsed
  BY <1>2, EmptyNests DEF ParseFails, Reject, NotUsed, Ended
<1>3. CASE ValidateStmt
  <2>1. CASE References(Stmt) /\ Initialize(Stmt.name)
    BY <1>3, <2>1, ReferencedIsPending, InitializeNests DEF ValidateStmt, NestingInv
  <2>2. CASE AtRoot /\ UNCHANGED stack
    BY <1>3, <2>2, EmptyNests DEF AtRoot
  <2>3. CASE /\ ~AtRoot
             /\ stack' = <<[Advance(Frame) EXCEPT
                              !.vars = Declaration(Stmt, @)]>> \o Tail(stack)
             /\ UNCHANGED <<scope, at>>
    <3> DEFINE top == [Advance(Frame) EXCEPT !.vars = Declaration(Stmt, @)]
    <3>1. Stmt \in Statement /\ Stmt.op # "def" /\ Frame \in Frames
      BY <1>3, <2>3, StmtType DEF ValidateStmt
    <3>2. stack \in Seq(Frames) /\ stack # <<>>
      BY <2>3 DEF TypeOK, AtRoot
    <3>3. /\ Frame = stack[1] /\ 1 \in DOMAIN stack
          /\ Tail(stack) \in Seq(Frames)
          /\ Len(Tail(stack)) = Len(stack) - 1
          /\ \A i \in 1 .. Len(stack) - 1 : Tail(stack)[i] = stack[i + 1]
          /\ DOMAIN stack = 1 .. Len(stack) /\ Len(stack) \in Nat
      BY <3>2, Below, LenProperties, HeadTailProperties DEF Frame
    <3>4. /\ top \in Frames /\ top.fn = Frame.fn
          /\ top.vars = Declaration(Stmt, Frame.vars)
      <4>1. Declaration(Stmt, Frame.vars) \in Scopes
        BY <3>1, DeclarationType DEF Frames
      <4>2. Frame.at + 1 \in Nat
        BY <3>1 DEF Frames
      <4> QED BY <3>1, <4>1, <4>2 DEF Advance, Frames
    <3>5. \A n \in Names : ~Frame.vars[n].pending
      BY <1>3, <3>3 DEF ValidateStmt, NestingInv, StackInitialized
    <3>6. \A n \in Names : ~top.vars[n].pending
      <4> SUFFICES ASSUME NEW n \in Names PROVE ~top.vars[n].pending
        OBVIOUS
      <4>1. Frame.vars \in [Names -> Entries]
        BY <3>1 DEF Frames, Scopes
      <4>2. \/ top.vars = [Frame.vars EXCEPT ![Stmt.name] = Entry(Stmt.ty)]
            \/ top.vars = [Frame.vars EXCEPT ![Stmt.name] = Entry(scope[Stmt.name].ty)]
            \/ top.vars = Frame.vars
        BY <3>1, <3>4 DEF Declaration
      <4>3. ~Entry(Stmt.ty).pending /\ ~Entry(scope[Stmt.name].ty).pending
        BY DEF Entry
      <4> QED BY <3>5, <4>1, <4>2, <4>3
    <3> HIDE DEF top
    <3>7. /\ DOMAIN stack' = 1 .. Len(stack) /\ stack'[1] = top
          /\ \A i \in 2 .. Len(stack) : stack'[i] = stack[i]
      <4>1. /\ DOMAIN stack' = 1 .. (Len(stack) - 1) + 1 /\ stack'[1] = top
            /\ \A i \in 2 .. (Len(stack) - 1) + 1 : stack'[i] = Tail(stack)[i - 1]
        BY <2>3, <3>3, <3>4, OnTop DEF top
      <4> QED BY <3>3, <4>1
    <3>8. \A i \in DOMAIN stack' :
             /\ i \in DOMAIN stack /\ stack'[i].fn = stack[i].fn
             /\ \A n \in Names : ~stack'[i].vars[n].pending
      BY <1>3, <3>3, <3>4, <3>6, <3>7 DEF ValidateStmt, NestingInv, StackInitialized
    <3>9. phase = "validate" /\ phase' = "validate" /\ scope' = scope
      BY <1>3, <2>3 DEF ValidateStmt
    <3>10. EmptyBetween'
      BY <3>9 DEF EmptyBetween
    <3>11. StackInitialized'
      BY <3>8, <3>9 DEF NestingInv, StackInitialized
    <3>12. NoNestedValidation'
      BY <3>8, <3>9 DEF NestingInv, NoNestedValidation
    <3> QED BY <3>10, <3>11, <3>12 DEF NestingInv
  <2> QED BY <1>3, <2>1, <2>2, <2>3 DEF ValidateStmt
<1>4. CASE BodyEnds
  <2>1. stack \in Seq(Frames) /\ stack # <<>>
    BY <1>4 DEF BodyEnds, TypeOK, AtRoot
  <2>2. /\ DOMAIN stack' = 1 .. Len(stack) - 1
        /\ \A i \in DOMAIN stack' : stack'[i] = stack[i + 1] /\ i + 1 \in DOMAIN stack
    BY <1>4, <2>1, Below, LenProperties DEF BodyEnds
  <2>3. \A i, j \in DOMAIN stack' : stack'[i].fn = stack'[j].fn => i = j
    BY <1>4, <2>2 DEF BodyEnds, NestingInv, NoNestedValidation
  <2> QED BY <1>4, <2>2, <2>3
          DEF BodyEnds, NestingInv, EmptyBetween, StackInitialized, NoNestedValidation
<1>5. CASE Flush
  BY <1>5, InitializeNests DEF Flush
<1>6. CASE Compiled
  BY <1>6, EmptyNests DEF Compiled, Validated, AtRoot
<1>7. CASE Store \/ MakeFunction \/ PassOver \/ CallFunction
  BY <1>7 DEF Store, MakeFunction, PassOver, CallFunction, Executing, Running,
     NestingInv, EmptyBetween, StackInitialized, NoNestedValidation
<1>8. CASE Raise \/ GoWrong \/ UnitEnds
  BY <1>8, EmptyNests DEF Raise, GoWrong, UnitEnds, End
<1>9. CASE Return
  BY <1>9 DEF Return, NestingInv, EmptyBetween, StackInitialized, NoNestedValidation
<1>10. CASE RestartShell \/ UNCHANGED vars
  BY <1>10 DEF RestartShell, vars, NestingInv, EmptyBetween, StackInitialized,
     NoNestedValidation
<1> QED
  BY <1>1, <1>2, <1>3, <1>4, <1>5, <1>6, <1>7, <1>8, <1>9, <1>10 DEF Next

LEMMA NestingInvariant == Spec => []NestingInv
<1>1. Init => NestingInv
  <2>1. Init => DOMAIN stack = {}
    BY EmptySeq, LenProperties DEF Init
  <2> QED BY <2>1
          DEF Init, NestingInv, EmptyBetween, StackInitialized, NoNestedValidation
<1> QED BY <1>1, NestingStep, TypeCorrect, PTL DEF Spec

\* Functions that refer to one another are each validated once: validation
\* does not come back to a body it is in the middle of.
THEOREM ValidationDoesNotNest == Spec => []NoNestedValidation
<1>1. NestingInv => NoNestedValidation
  BY DEF NestingInv
<1> QED BY <1>1, NestingInvariant, PTL

-----------------------------------------------------------------------------
(* What the validator has established *)

\* Where body b has a statement of this kind about name n; the ones before statement j.
Sites(b, op, n)     == {i \in DOMAIN b : b[i].op = op /\ b[i].name = n}
Before(b, op, n, j) == {i \in Sites(b, op, n) : i < j}

\* What is declared in scope S; by statement s; in scope S and before statement k of
\* unit u.
Facts(S) ==
  {[name |-> n, ty |-> S[n].ty, body |-> S[n].body] : n \in {m \in Names : Declared(S[m])}}
Fact(s) ==
  IF s.op = "def" THEN [name |-> s.name, ty |-> "func", body |-> s.body]
                  ELSE [name |-> s.name, ty |-> s.ty, body |-> <<>>]
Known(S, u, k) ==
  Facts(S) \cup {Fact(u[i]) : i \in {j \in 1 .. k - 1 : u[j].op \in {"declare", "def"}}}

\* The functions whose validation has begun.
Ready(S) == {S[f].body : f \in {n \in Names : S[n].ty = "func" /\ ~S[n].pending}}

Reads(G, n, ty)   == \E g \in G : g.name = n /\ KindSubsumes(ty, g.ty)
Calls(G, n, B)    == \E g \in G : g.name = n /\ g.ty = "func" /\ g.body \in B
Assigns(G, n, ty) == \E g \in G : g.name = n /\ g.ty \in Types /\ KindSubsumes(g.ty, ty)

\* Statement j of body b is right, if the bodies B are and the facts G are known.
StmtOK(b, j, B, G) ==
  LET n == b[j].name IN
  /\ b[j].op = "declare" => Before(b, "declare", n, j) = {}
  /\ b[j].op = "block"   => Before(b, "declare", n, j) = {} /\ Before(b, "global", n, j) = {}
  /\ b[j].op = "use" =>
        \/ \E i \in Before(b, "declare", n, j) : KindSubsumes(b[j].ty, b[i].ty)
        \/ Sites(b, "declare", n) = {} /\ Reads(G, n, b[j].ty)
  /\ b[j].op = "call" =>
        \/ \E i \in Before(b, "declare", n, j) : b[i].ty = "func"
        \/ Sites(b, "declare", n) = {} /\ Calls(G, n, B)
  /\ b[j].op = "assign" =>
        \/ \E i \in Before(b, "declare", n, j) :
              b[i].ty \in Types /\ KindSubsumes(b[i].ty, b[j].ty)
        \/ Before(b, "global", n, j) # {} /\ Assigns(G, n, b[j].ty)
  /\ b[j].op = "global" =>
        Sites(b, "declare", n) = {} /\ \A i \in 1 .. j - 1 : b[i].op = "global"

BodyOK(b, B, G) == \A j \in DOMAIN b : StmtOK(b, j, B, G)
Closed(B, G)    == \A b \in B : BodyOK(b, B, G)

\* The same of statement s of a unit.
RootOK(s, B, G) ==
  /\ s.op # "global"
  /\ s.op \in {"declare", "def", "block"} => \A g \in G : g.name # s.name
  /\ s.op = "use"    => Reads(G, s.name, s.ty)
  /\ s.op = "call"   => Calls(G, s.name, B)
  /\ s.op = "assign" => Assigns(G, s.name, s.ty)

\* The statements of unit u before k are right where they stand.
UnitOK(S, u, k) ==
  \A i \in 1 .. k - 1 :
     \E B \in SUBSET Bodies : Closed(B, Known(S, u, i)) /\ RootOK(u[i], B, Known(S, u, i))

\* The scope of a frame of func_init is what the statements before the next one say.
LocalOK(f, n, G) ==
  /\ \A i \in Before(f.body, "declare", n, f.at) : f.vars[n] = Entry(f.body[i].ty)
  /\ Before(f.body, "global", n, f.at) # {} =>
        f.vars[n].ty \in Types /\ \E g \in G : g.name = n /\ g.ty = f.vars[n].ty
  /\ Declared(f.vars[n]) =>
        Before(f.body, "declare", n, f.at) # {} \/ Before(f.body, "global", n, f.at) # {}
  /\ f.vars[n].ty = "none" => Sites(f.body, "declare", n) = {}

FrameOK(f, B, G) ==
  /\ \A j \in 1 .. f.at - 1 : StmtOK(f.body, j, B, G)
  /\ \A n \in Names : LocalOK(f, n, G)

\* What is no function has no body.
Plain(S) == \A n \in Names : S[n].ty # "func" => S[n].body = <<>>

ScopeOK(S) == Plain(S) /\ Closed(Ready(S), Facts(S))

Validating ==
  /\ ScopeOK(backup) /\ Plain(scope)
  /\ Facts(scope) = Known(backup, unit, at)
  /\ UnitOK(backup, unit, at)
  /\ \A b \in Ready(scope) :
        BodyOK(b, Ready(scope), Facts(scope)) \/ \E i \in DOMAIN stack : stack[i].body = b
  /\ \A i \in DOMAIN stack : FrameOK(stack[i], Ready(scope), Facts(scope))

Accepted ==
  /\ Facts(scope) = Known(backup, unit, Len(unit) + 1)
  /\ UnitOK(backup, unit, Len(unit) + 1)

StaticInv ==
  /\ phase = "validate" => Validating
  /\ phase # "validate" => ScopeOK(scope)
  /\ phase = "run" => Accepted

-----------------------------------------------------------------------------
(* What the namespaces of the execution hold *)

Describes(G, e) == \A g \in G : KindSubsumes(g.ty, e[g.name].ty) /\ e[g.name].body = g.body

\* The locals of a call have what the statements before the next one declare.
CallOK(f) ==
  \A n \in Names :
     /\ f.vars[n].body = <<>>
     /\ \A i \in Before(f.body, "declare", n, f.at) : KindSubsumes(f.body[i].ty, f.vars[n].ty)

\* The frames of a stack are of the bodies B.
Runs(B, s) == \A i \in DOMAIN s : s[i].body \in B /\ CallOK(s[i])

RunOK(G) ==
  /\ Describes(G, env)
  /\ \E B \in SUBSET Bodies : Closed(B, G) /\ Runs(B, stack)

DynamicInv ==
  /\ outcome = "wrong" => faulted
  /\ ~faulted =>
       /\ phase \in {"idle", "parse"} => Describes(Facts(scope), env)
       /\ phase = "validate" => Describes(Facts(backup), env)
       /\ phase = "run" => RunOK(Known(backup, unit, at))
-----------------------------------------------------------------------------
(* Facts, sites and known statements *)

LEMMA FactsAre ==
  ASSUME NEW S
  PROVE  /\ \A g \in Facts(S) : /\ g.name \in Names /\ Declared(S[g.name])
                                /\ g.ty = S[g.name].ty /\ g.body = S[g.name].body
         /\ \A n \in Names : Declared(S[n]) =>
               \E g \in Facts(S) : g.name = n /\ g.ty = S[n].ty /\ g.body = S[n].body
         /\ \A g, h \in Facts(S) : g.name = h.name => g = h
<1>1. ASSUME NEW n \in Names, Declared(S[n])
      PROVE  \E g \in Facts(S) : g.name = n /\ g.ty = S[n].ty /\ g.body = S[n].body
  <2> DEFINE g == [name |-> n, ty |-> S[n].ty, body |-> S[n].body]
  <2>1. g \in Facts(S) /\ g.name = n /\ g.ty = S[n].ty /\ g.body = S[n].body
    BY <1>1 DEF Facts
  <2> QED BY <2>1
<1> QED BY <1>1 DEF Facts

LEMMA KnownGrows ==
  ASSUME NEW S, NEW u, NEW k \in Nat, NEW i \in 1 .. k
  PROVE  Known(S, u, i) \subseteq Known(S, u, k)
BY DEF Known

LEMMA KnownStarts == \A S, u : Known(S, u, 1) = Facts(S)
BY DEF Known

LEMMA KnownNext ==
  ASSUME NEW S, NEW u, NEW k \in Nat \ {0}
  PROVE  Known(S, u, k + 1) =
           Known(S, u, k) \cup (IF u[k].op \in {"declare", "def"} THEN {Fact(u[k])} ELSE {})
<1>1. {j \in 1 .. (k + 1) - 1 : u[j].op \in {"declare", "def"}} =
        {j \in 1 .. k - 1 : u[j].op \in {"declare", "def"}}
          \cup (IF u[k].op \in {"declare", "def"} THEN {k} ELSE {})
  OBVIOUS
<1> QED BY <1>1 DEF Known

LEMMA BeforeNext ==
  ASSUME NEW b \in Bodies, NEW j \in DOMAIN b, NEW op, NEW n
  PROVE  /\ b[j].op = op /\ b[j].name = n =>
              Before(b, op, n, j + 1) = Before(b, op, n, j) \cup {j}
         /\ ~(b[j].op = op /\ b[j].name = n) =>
              Before(b, op, n, j + 1) = Before(b, op, n, j)
<1>1. DOMAIN b = 1 .. Len(b) /\ Len(b) \in Nat
  BY BodiesType, LenProperties
<1> QED BY <1>1 DEF Before, Sites

LEMMA NothingBefore ==
  ASSUME NEW b \in Bodies, NEW op, NEW n
  PROVE  Before(b, op, n, 1) = {}
<1>1. DOMAIN b = 1 .. Len(b) /\ Len(b) \in Nat
  BY BodiesType, LenProperties
<1> QED BY <1>1 DEF Before, Sites

\* What is right stays right when more is known.
LEMMA StillOK ==
  ASSUME NEW b, NEW j, NEW B, NEW G, NEW C, NEW H, B \subseteq C, G \subseteq H,
         StmtOK(b, j, B, G)
  PROVE  StmtOK(b, j, C, H)
<1>1. \A n, ty : Reads(G, n, ty) => Reads(H, n, ty)
  BY DEF Reads
<1>2. \A n : Calls(G, n, B) => Calls(H, n, C)
  BY DEF Calls
<1>3. \A n, ty : Assigns(G, n, ty) => Assigns(H, n, ty)
  BY DEF Assigns
<1> QED BY <1>1, <1>2, <1>3 DEF StmtOK

LEMMA BodyStillOK ==
  ASSUME NEW b, NEW B, NEW G, NEW C, NEW H, B \subseteq C, G \subseteq H, BodyOK(b, B, G)
  PROVE  BodyOK(b, C, H)
BY StillOK DEF BodyOK

LEMMA EmptyBodyOK == \A B, G : BodyOK(<<>>, B, G)
<1>1. DOMAIN <<>> = {}
  BY EmptySeq, LenProperties
<1> QED BY <1>1 DEF BodyOK

LEMMA StillClosed ==
  ASSUME NEW B, NEW G, NEW H, G \subseteq H, Closed(B, G)
  PROVE  Closed(B, H) /\ Closed(B \cup {<<>>}, H)
<1>1. \A b \in B : BodyOK(b, B, H) /\ BodyOK(b, B \cup {<<>>}, H)
  BY BodyStillOK DEF Closed
<1> QED BY <1>1, EmptyBodyOK DEF Closed

LEMMA ReadyType ==
  ASSUME NEW S \in Scopes
  PROVE  Ready(S) \in SUBSET Bodies
BY DEF Ready, Scopes, Entries

-----------------------------------------------------------------------------
(* Scopes while a unit is validated *)

LEMMA FoundKeeps ==
  ASSUME NEW S \in Scopes, NEW stmts
  PROVE  /\ Facts(FoundLocals(S, stmts)) = Facts(S)
         /\ Ready(FoundLocals(S, stmts)) = Ready(S)
         /\ Plain(S) => Plain(FoundLocals(S, stmts))
<1> DEFINE T == FoundLocals(S, stmts)
<1>1. ASSUME NEW n \in Names
      PROVE  T[n] = S[n] \/ (S[n].ty = "none" /\ T[n] = Entry("invalid"))
  BY DEF FoundLocals
<1>2. Entry("invalid").ty = "invalid" /\ Entry("invalid").body = <<>>
  BY DEF Entry
<1> HIDE DEF T
<1>3. \A n \in Names : Declared(T[n]) = Declared(S[n]) /\ (Declared(S[n]) => T[n] = S[n])
  BY <1>1, <1>2 DEF Declared
<1>4. Facts(T) = Facts(S)
  BY <1>3 DEF Facts
<1>5. Ready(T) = Ready(S)
  BY <1>1, <1>2 DEF Ready
<1>6. Plain(S) => Plain(T)
  BY <1>1, <1>2 DEF Plain
<1> QED BY <1>4, <1>5, <1>6 DEF T

\* A name is declared in scope S.
LEMMA NewFact ==
  ASSUME NEW S \in Scopes, NEW n \in Names, ~Declared(S[n]), NEW e \in Entries, Declared(e),
         NEW T, T = [S EXCEPT ![n] = e]
  PROVE  /\ Facts(T) = Facts(S) \cup {[name |-> n, ty |-> e.ty, body |-> e.body]}
         /\ Ready(S) \subseteq Ready(T)
         /\ \A b \in Ready(T) : b \in Ready(S) \/ (e.ty = "func" /\ ~e.pending /\ b = e.body)
         /\ Plain(S) /\ (e.ty # "func" => e.body = <<>>) => Plain(T)
<1>1. T[n] = e /\ \A m \in Names \ {n} : T[m] = S[m]
  BY DEF Scopes
<1>2. S[n].ty # "func"
  BY DEF Declared
<1>3. \A g \in Facts(T) : g \in Facts(S) \cup {[name |-> n, ty |-> e.ty, body |-> e.body]}
  BY <1>1 DEF Facts
<1>4. [name |-> n, ty |-> e.ty, body |-> e.body] \in Facts(T)
  BY <1>1 DEF Facts
<1>5. \A g \in Facts(S) : g \in Facts(T)
  BY <1>1 DEF Facts
<1>6. Ready(S) \subseteq Ready(T)
  BY <1>1, <1>2 DEF Ready
<1>7. \A b \in Ready(T) : b \in Ready(S) \/ (e.ty = "func" /\ ~e.pending /\ b = e.body)
  BY <1>1 DEF Ready
<1>8. Plain(S) /\ (e.ty # "func" => e.body = <<>>) => Plain(T)
  BY <1>1 DEF Plain
<1> QED BY <1>3, <1>4, <1>5, <1>6, <1>7, <1>8

\* A function is about to be validated.
LEMMA ReadyNext ==
  ASSUME TypeOK, NEW f \in Names, scope[f].pending, Initialize(f)
  PROVE  /\ Facts(scope') = Facts(scope)
         /\ Ready(scope) \subseteq Ready(scope')
         /\ Ready(scope') \subseteq Ready(scope) \cup {scope[f].body}
         /\ Plain(scope) => Plain(scope')
<1>1. scope \in [Names -> Entries] /\ scope' = [scope EXCEPT ![f].pending = FALSE]
  BY DEF TypeOK, Scopes, Initialize
<1>2. /\ scope'[f].ty = scope[f].ty /\ scope'[f].body = scope[f].body
      /\ \A m \in Names \ {f} : scope'[m] = scope[m]
  BY <1>1 DEF Entries
<1>3. \A m \in Names : scope'[m].ty = scope[m].ty /\ scope'[m].body = scope[m].body
  BY <1>2
<1>4. Facts(scope') = Facts(scope)
  BY <1>3 DEF Facts, Declared
<1>5. Ready(scope) \subseteq Ready(scope')
  BY <1>2, <1>3 DEF Ready
<1>6. Ready(scope') \subseteq Ready(scope) \cup {scope[f].body}
  BY <1>2, <1>3 DEF Ready
<1>7. Plain(scope) => Plain(scope')
  BY <1>3 DEF Plain
<1> QED BY <1>4, <1>5, <1>6, <1>7

\* Between the statements of a unit all functions that were referenced are validated.
LEMMA AtRootAllReady ==
  ASSUME Validating, AtRoot
  PROVE  ScopeOK(scope)
<1>1. DOMAIN stack = {}
  BY EmptySeq, LenProperties DEF AtRoot
<1> QED BY <1>1 DEF Validating, ScopeOK, Closed

LEMMA RootAccepted ==
  ASSUME TypeOK, AtRoot, HasNext, ~References(Stmt), Accepts(Stmt)
  PROVE  RootOK(Stmt, Ready(scope), Facts(scope))
<1> DEFINE n == Stmt.name
<1>1. Stmt \in Statement /\ scope \in Scopes
  BY StmtType DEF TypeOK
<1>2. n \in Names /\ Stmt.ty \in Types \cup {"func"} /\ Stmt.op \in Ops
  BY <1>1 DEF Statement
<1>3. LookedUp(n) = scope[n] /\ Local = scope
  BY DEF LookedUp, Local
<1>4. Stmt.op # "global"
  BY DEF Accepts, AcceptsGlobal
<1>5. CASE Stmt.op \in {"declare", "def", "block"}
  <2>1. ~Declared(scope[n])
    BY <1>3, <1>5 DEF Accepts, MayDeclare
  <2>2. \A g \in Facts(scope) : g.name # n
    BY <2>1, FactsAre
  <2> QED BY <1>5, <2>2 DEF RootOK
<1>6. CASE Stmt.op = "use"
  <2>1. KindSubsumes(Stmt.ty, scope[n].ty)
    BY <1>3, <1>6 DEF Accepts, AcceptsUse
  <2>2. Declared(scope[n])
    BY <1>2, <2>1 DEF KindSubsumes, Declared, Types
  <2>3. Reads(Facts(scope), n, Stmt.ty)
    BY <1>2, <2>1, <2>2, FactsAre DEF Reads
  <2> QED BY <1>6, <2>3 DEF RootOK
<1>7. CASE Stmt.op = "call"
  <2>1. scope[n].ty = "func" /\ ~scope[n].pending
    BY <1>3, <1>7 DEF Accepts, AcceptsCall, References
  <2>2. scope[n].body \in Ready(scope) /\ Declared(scope[n])
    BY <1>2, <2>1 DEF Ready, Declared
  <2>3. Calls(Facts(scope), n, Ready(scope))
    BY <1>2, <2>1, <2>2, FactsAre DEF Calls
  <2> QED BY <1>7, <2>3 DEF RootOK
<1>8. CASE Stmt.op = "assign"
  <2>1. scope[n].ty \in Types /\ KindSubsumes(scope[n].ty, Stmt.ty)
    BY <1>3, <1>8 DEF Accepts, AcceptsAssign
  <2>2. Declared(scope[n])
    BY <2>1 DEF Declared, Types
  <2>3. Assigns(Facts(scope), n, Stmt.ty)
    BY <1>2, <2>1, <2>2, FactsAre DEF Assigns
  <2> QED BY <1>8, <2>3 DEF RootOK
<1> QED BY <1>2, <1>4, <1>5, <1>6, <1>7, <1>8 DEF Ops

LEMMA BodyAccepted ==
  ASSUME TypeOK, ~AtRoot, HasNext, ~References(Stmt), Accepts(Stmt),
         FrameOK(Frame, Ready(scope), Facts(scope))
  PROVE  StmtOK(Frame.body, Frame.at, Ready(scope), Facts(scope))
<1> DEFINE b == Frame.body
           j == Frame.at
           n == Stmt.name
           v == Frame.vars[n]
           G == Facts(scope)
<1>1. /\ Stmt \in Statement /\ scope \in Scopes
      /\ Frame \in Frames /\ j \in 1 .. Len(b) /\ Stmt = b[j] /\ Stmt.op # "def"
  BY StmtType DEF TypeOK, Stmt
<1>2. /\ n \in Names /\ Stmt.ty \in Types \cup {"func"} /\ Stmt.op \in Ops
      /\ b \in Bodies /\ DOMAIN b = 1 .. Len(b) /\ Len(b) \in Nat
  <2>1. b \in Bodies
    BY <1>1 DEF Frames
  <2>2. b \in Seq(BodyStatements)
    BY <2>1, BodiesType
  <2> QED BY <1>1, <2>1, <2>2, LenProperties DEF Statement
<1>3. Local = Frame.vars /\ LookedUp(n) = (IF v.ty # "none" THEN v ELSE scope[n])
  BY DEF Local, LookedUp
<1>4. /\ \A i \in Before(b, "declare", n, j) : v = Entry(b[i].ty)
      /\ Before(b, "global", n, j) # {} =>
            v.ty \in Types /\ \E g \in G : g.name = n /\ g.ty = v.ty
      /\ Declared(v) => Before(b, "declare", n, j) # {} \/ Before(b, "global", n, j) # {}
      /\ v.ty = "none" => Sites(b, "declare", n) = {}
  BY <1>2 DEF FrameOK, LocalOK
<1>5. \A i \in DOMAIN b : b[i].ty \in Types \cup {"func"}
  <2>1. \A i \in DOMAIN b : b[i] \in BodyStatements
    BY <1>2, BodiesType, ElementOfSeq
  <2> QED BY <2>1 DEF BodyStatements
<1>6. \A i \in Before(b, "declare", n, j) : v.ty = b[i].ty /\ Declared(v)
  <2>1. \A ty : Entry(ty).ty = ty
    BY DEF Entry
  <2>2. \A i \in Before(b, "declare", n, j) : i \in DOMAIN b /\ v.ty = b[i].ty
    BY <1>4, <2>1 DEF Before, Sites
  <2> QED BY <1>5, <2>2 DEF Declared, Types
<1>7. Before(b, "global", n, j) # {} => Sites(b, "declare", n) = {} /\ Declared(v)
  <2>1. \A i \in Before(b, "global", n, j) : i \in 1 .. j - 1 /\ b[i].op = "global" /\ b[i].name = n
    BY <1>1, <1>2 DEF Before, Sites
  <2>2. \A i \in Before(b, "global", n, j) : StmtOK(b, i, Ready(scope), G)
    BY <2>1 DEF FrameOK
  <2>3. \A i \in Before(b, "global", n, j) : Sites(b, "declare", n) = {}
    BY <2>1, <2>2 DEF StmtOK
  <2> QED BY <1>4, <2>3 DEF Declared, Types
<1>8. scope[n].ty \in Types \cup {"func"} => \E g \in G : g.name = n /\ g.ty = scope[n].ty
                                                         /\ g.body = scope[n].body
  BY <1>2, FactsAre DEF Declared, Types
<1> HIDE DEF b, j, n, v, G
<1>9. CASE Stmt.op \in {"declare", "block"}
  <2>1. ~Declared(v)
    BY <1>3, <1>9 DEF Accepts, MayDeclare, n, v
  <2> QED BY <1>1, <1>6, <1>7, <1>9, <2>1 DEF StmtOK, n, b, j
<1>10. CASE Stmt.op = "use"
  <2>1. KindSubsumes(Stmt.ty, LookedUp(n).ty)
    BY <1>10 DEF Accepts, AcceptsUse, n
  <2>2. \/ \E i \in Before(b, "declare", n, j) : KindSubsumes(Stmt.ty, b[i].ty)
        \/ Sites(b, "declare", n) = {} /\ Reads(G, n, Stmt.ty)
    <3>1. LookedUp(n).ty \in Types \cup {"func"}
      BY <1>2, <2>1 DEF KindSubsumes, Types
    <3>2. CASE v.ty = "none"
      BY <1>3, <1>4, <1>8, <2>1, <3>1, <3>2 DEF Reads
    <3>3. CASE v.ty # "none"
      <4>1. LookedUp(n) = v /\ Declared(v)
        BY <1>3, <3>1, <3>3 DEF Declared, Types
      <4> QED BY <1>4, <1>6, <1>7, <2>1, <4>1 DEF Reads
    <3> QED BY <3>2, <3>3
  <2> QED BY <1>1, <1>10, <2>2 DEF StmtOK, n, b, j, G
<1>11. CASE Stmt.op = "call"
  <2>1. LookedUp(n).ty = "func" /\ ~LookedUp(n).pending
    BY <1>11 DEF Accepts, AcceptsCall, References, n
  <2>2. \/ \E i \in Before(b, "declare", n, j) : b[i].ty = "func"
        \/ Sites(b, "declare", n) = {} /\ Calls(G, n, Ready(scope))
    <3>1. CASE v.ty = "none"
      <4>1. scope[n].body \in Ready(scope)
        BY <1>2, <1>3, <2>1, <3>1 DEF Ready
      <4> QED BY <1>3, <1>4, <1>8, <2>1, <3>1, <4>1 DEF Calls
    <3>2. CASE v.ty # "none"
      <4>1. v.ty = "func" /\ Declared(v) /\ v.ty \notin Types
        BY <1>3, <2>1, <3>2 DEF Declared, Types
      <4> QED BY <1>4, <1>6, <4>1
    <3> QED BY <3>1, <3>2
  <2> QED BY <1>1, <1>11, <2>2 DEF StmtOK, n, b, j, G
<1>12. CASE Stmt.op = "assign"
  <2>1. v.ty # "none" /\ v.ty \in Types /\ KindSubsumes(v.ty, Stmt.ty)
    BY <1>3, <1>12 DEF Accepts, AcceptsAssign, IsLocal, n, v
  <2>2. Declared(v)
    BY <2>1 DEF Declared, Types
  <2>3. \/ \E i \in Before(b, "declare", n, j) : b[i].ty \in Types /\ KindSubsumes(b[i].ty, Stmt.ty)
        \/ Before(b, "global", n, j) # {} /\ Assigns(G, n, Stmt.ty)
    BY <1>4, <1>6, <2>1, <2>2 DEF Assigns
  <2> QED BY <1>1, <1>12, <2>3 DEF StmtOK, n, b, j, G
<1>13. CASE Stmt.op = "global"
  <2>1. v.ty = "none" /\ \A i \in 1 .. j : b[i].op = "global"
    BY <1>3, <1>13 DEF Accepts, AcceptsGlobal, IsLocal, n, v, b, j
  <2>2. Sites(b, "declare", n) = {} /\ \A i \in 1 .. j - 1 : b[i].op = "global"
    BY <1>1, <1>4, <2>1
  <2> QED BY <1>1, <1>13, <2>2 DEF StmtOK, n, b, j
<1> QED BY <1>1, <1>2, <1>9, <1>10, <1>11, <1>12, <1>13 DEF Ops

\* The statement of a body that was accepted leaves a scope that fits what comes next.
LEMMA FrameNext ==
  ASSUME TypeOK, ~AtRoot, HasNext, ~References(Stmt), Accepts(Stmt),
         FrameOK(Frame, Ready(scope), Facts(scope)),
         NEW f, f = [Advance(Frame) EXCEPT !.vars = Declaration(Stmt, @)]
  PROVE  /\ f \in Frames /\ f.body = Frame.body
         /\ FrameOK(f, Ready(scope), Facts(scope))
<1> DEFINE b == Frame.body
           j == Frame.at
           G == Facts(scope)
<1>1. /\ Stmt \in Statement /\ scope \in Scopes
      /\ Frame \in Frames /\ j \in 1 .. Len(b) /\ Stmt = b[j] /\ Stmt.op # "def"
  BY StmtType DEF TypeOK, Stmt
<1>2. /\ Stmt.name \in Names /\ Stmt.ty \in Types \cup {"func"} /\ Stmt.op \in Ops
      /\ b \in Bodies /\ DOMAIN b = 1 .. Len(b) /\ Len(b) \in Nat
  <2>1. b \in Bodies
    BY <1>1 DEF Frames
  <2>2. b \in Seq(BodyStatements)
    BY <2>1, BodiesType
  <2> QED BY <1>1, <2>1, <2>2, LenProperties DEF Statement
<1>3. /\ f \in Frames /\ f.body = b /\ f.at = j + 1 /\ f.vars = Declaration(Stmt, Frame.vars)
  <2>1. Declaration(Stmt, Frame.vars) \in Scopes
    BY <1>1, DeclarationType DEF Frames
  <2>2. Frame.at + 1 \in Nat
    BY <1>1 DEF Frames
  <2> QED BY <1>1, <2>1, <2>2 DEF Advance, Frames
<1>4. StmtOK(b, j, Ready(scope), G)
  BY BodyAccepted
<1>5. Frame.vars \in [Names -> Entries]
  BY <1>1 DEF Frames, Scopes
<1> HIDE DEF b, j, G
<1>6. ASSUME NEW n \in Names PROVE LocalOK(f, n, G)
  <2>1. LocalOK(Frame, n, G)
    BY <1>6 DEF FrameOK, G
  <2>2. j \in DOMAIN b
    BY <1>1, <1>2
  <2>3. CASE Stmt.name # n \/ Stmt.op \notin {"declare", "global"}
    <3>1. f.vars[n] = Frame.vars[n]
      <4>1. \/ f.vars = [Frame.vars EXCEPT ![Stmt.name] = Entry(Stmt.ty)]
               /\ Stmt.op = "declare"
            \/ f.vars = [Frame.vars EXCEPT ![Stmt.name] = Entry(scope[Stmt.name].ty)]
               /\ Stmt.op = "global"
            \/ f.vars = Frame.vars
        BY <1>1, <1>3 DEF Declaration
      <4> QED BY <1>2, <1>5, <2>3, <4>1
    <3>2. /\ Before(b, "declare", n, j + 1) = Before(b, "declare", n, j)
          /\ Before(b, "global", n, j + 1) = Before(b, "global", n, j)
      BY <1>1, <1>2, <2>2, <2>3, BeforeNext
    <3> QED BY <1>3, <2>1, <3>1, <3>2 DEF LocalOK, b, j
  <2>4. CASE Stmt.name = n /\ Stmt.op = "declare"
    <3>1. f.vars[n] = Entry(Stmt.ty)
      BY <1>2, <1>3, <1>5, <2>4 DEF Declaration
    <3>2. Before(b, "declare", n, j + 1) = {j}
      <4>1. Before(b, "declare", n, j) = {}
        BY <1>1, <1>4, <2>4 DEF StmtOK
      <4>2. Before(b, "declare", n, j + 1) = Before(b, "declare", n, j) \cup {j}
        BY <1>1, <1>2, <2>2, <2>4, BeforeNext
      <4> QED BY <4>1, <4>2
    <3>3. Before(b, "global", n, j + 1) = {}
      <4>1. Before(b, "global", n, j + 1) = Before(b, "global", n, j)
        BY <1>1, <1>2, <2>2, <2>4, BeforeNext
      <4>2. ASSUME NEW i \in Before(b, "global", n, j) PROVE FALSE
        <5>1. i \in 1 .. j - 1 /\ b[i].op = "global" /\ b[i].name = n
          BY <1>1, <1>2, <4>2 DEF Before, Sites
        <5>2. StmtOK(b, i, Ready(scope), G)
          BY <5>1 DEF FrameOK, b, j, G
        <5>3. Sites(b, "declare", n) = {}
          BY <5>1, <5>2 DEF StmtOK
        <5>4. j \in Sites(b, "declare", n)
          BY <1>1, <2>2, <2>4 DEF Sites
        <5> QED BY <5>3, <5>4
      <4> QED BY <4>1, <4>2
    <3>4. f.vars[n].ty = Stmt.ty /\ f.vars[n].ty # "none"
      BY <1>2, <3>1 DEF Entry, Types
    <3> QED BY <1>1, <1>3, <3>1, <3>2, <3>3, <3>4 DEF LocalOK
  <2>5. CASE Stmt.name = n /\ Stmt.op = "global"
    <3>1. f.vars[n] = Entry(scope[n].ty)
      BY <1>2, <1>3, <1>5, <2>5 DEF Declaration
    <3>2. scope[n].ty \in Types
      BY <2>5 DEF Accepts, AcceptsGlobal, IsLocal, LookedUp
    <3>3. f.vars[n].ty = scope[n].ty
      BY <3>1 DEF Entry
    <3>4. \E g \in G : g.name = n /\ g.ty = f.vars[n].ty
      BY <3>2, <3>3, FactsAre DEF G, Declared, Types
    <3>5. Sites(b, "declare", n) = {}
      BY <1>1, <1>4, <2>5 DEF StmtOK
    <3>6. Before(b, "declare", n, j + 1) = {}
      BY <3>5 DEF Before
    <3>7. Before(b, "global", n, j + 1) # {}
      <4>1. Before(b, "global", n, j + 1) = Before(b, "global", n, j) \cup {j}
        BY <1>1, <1>2, <2>2, <2>5, BeforeNext
      <4> QED BY <4>1
    <3> QED BY <1>3, <3>2, <3>3, <3>4, <3>5, <3>6, <3>7 DEF LocalOK
  <2> QED BY <2>3, <2>4, <2>5
<1>7. ASSUME NEW i \in 1 .. f.at - 1 PROVE StmtOK(f.body, i, Ready(scope), G)
  <2>1. CASE i = j
    BY <1>3, <1>4, <2>1
  <2>2. CASE i # j
    <3>1. i \in 1 .. j - 1
      BY <1>1, <1>2, <1>3, <2>2
    <3> QED BY <1>3, <3>1 DEF FrameOK, b, j, G
  <2> QED BY <2>1, <2>2
<1> QED BY <1>3, <1>6, <1>7 DEF FrameOK, b, G

\* The frame in which the validation of a function begins.
LEMMA FirstFrame ==
  ASSUME NEW fn \in Names, NEW body \in Bodies, NEW B, NEW G, NEW f,
         f = [fn |-> fn, body |-> body, at |-> 1, vars |-> FoundLocals(Nothing, body)]
  PROVE  FrameOK(f, B, G)
<1>1. f.body = body /\ f.at = 1 /\ f.vars = FoundLocals(Nothing, body)
  OBVIOUS
<1>2. \A op, n : Before(body, op, n, 1) = {}
  BY NothingBefore
<1>3. ASSUME NEW n \in Names PROVE LocalOK(f, n, G)
  <2>1. /\ f.vars[n].ty \in {"none", "invalid"}
        /\ f.vars[n].ty = "none" =>
              ~\E i \in DOMAIN body : body[i].op \in {"declare", "def"} /\ body[i].name = n
    BY <1>1 DEF FoundLocals, Nothing, Entry
  <2>2. f.vars[n].ty = "none" => Sites(body, "declare", n) = {}
    BY <2>1 DEF Sites
  <2> QED BY <1>1, <1>2, <2>1, <2>2 DEF LocalOK, Declared
<1>4. 1 .. f.at - 1 = {}
  BY <1>1
<1> QED BY <1>3, <1>4 DEF FrameOK

LEMMA FrameStillOK ==
  ASSUME NEW f, NEW B, NEW G, NEW C, B \subseteq C, FrameOK(f, B, G)
  PROVE  FrameOK(f, C, G)
<1>1. \A j \in 1 .. f.at - 1 : StmtOK(f.body, j, C, G)
  BY StillOK DEF FrameOK
<1> QED BY <1>1 DEF FrameOK

\* The frame on top is another one.
LEMMA TopReplaced ==
  ASSUME NEW S, NEW s \in Seq(S), s # <<>>, NEW x \in S
  PROVE  /\ DOMAIN (<<x>> \o Tail(s)) = DOMAIN s
         /\ (<<x>> \o Tail(s))[1] = x
         /\ \A i \in DOMAIN s : i # 1 => (<<x>> \o Tail(s))[i] = s[i]
<1> DEFINE t == Tail(s)
<1>1. /\ t \in Seq(S) /\ Len(t) = Len(s) - 1
      /\ \A i \in 1 .. Len(s) - 1 : t[i] = s[i + 1]
      /\ DOMAIN s = 1 .. Len(s) /\ Len(s) \in Nat \ {0}
  BY EmptySeq, LenProperties, HeadTailProperties
<1> HIDE DEF t
<1>2. /\ DOMAIN (<<x>> \o t) = 1 .. Len(t) + 1
      /\ (<<x>> \o t)[1] = x
      /\ \A i \in 2 .. Len(t) + 1 : (<<x>> \o t)[i] = t[i - 1]
  BY <1>1, OnTop
<1> QED BY <1>1, <1>2 DEF t

-----------------------------------------------------------------------------
(* The validator keeps what it has established *)

LEMMA InitializeKeepsValidating ==
  ASSUME TypeOK, Validating, NEW f \in Names, scope[f].pending, Initialize(f),
         UNCHANGED <<backup, unit, at>>
  PROVE  Validating'
<1> DEFINE top == [fn |-> f, body |-> scope[f].body, at |-> 1,
                   vars |-> FoundLocals(Nothing, scope[f].body)]
           B == Ready(scope)
           C == Ready(scope')
           G == Facts(scope)
<1>1. scope[f].body \in Bodies /\ stack \in Seq(Frames)
  BY DEF TypeOK, Scopes, Entries
<1>2. top \in Frames
  BY <1>1, FoundLocalsType, NothingType DEF Frames
<1>3. stack' = <<top>> \o stack /\ top.body = scope[f].body
  BY DEF Initialize
<1>4. FrameOK(top, C, G)
  BY <1>1, FirstFrame
<1>5. /\ Facts(scope') = G /\ B \subseteq C /\ C \subseteq B \cup {scope[f].body}
      /\ Plain(scope')
  BY ReadyNext DEF Validating
<1> HIDE DEF top, B, C, G
<1>6. /\ DOMAIN stack = 1 .. Len(stack) /\ Len(stack) \in Nat
      /\ DOMAIN stack' = 1 .. Len(stack) + 1 /\ stack'[1] = top
      /\ \A i \in 2 .. Len(stack) + 1 : stack'[i] = stack[i - 1]
  BY <1>1, <1>2, <1>3, OnTop, LenProperties
<1>7. ASSUME NEW b \in C PROVE BodyOK(b, C, G) \/ \E i \in DOMAIN stack' : stack'[i].body = b
  <2>1. CASE b = scope[f].body
    BY <1>3, <1>6, <2>1
  <2>2. CASE b \in B /\ BodyOK(b, B, G)
    BY <1>5, <2>2, BodyStillOK
  <2>3. CASE \E i \in DOMAIN stack : stack[i].body = b
    <3>1. PICK i \in DOMAIN stack : stack[i].body = b
      BY <2>3
    <3>2. i + 1 \in DOMAIN stack' /\ stack'[i + 1] = stack[i]
      BY <1>6
    <3> QED BY <3>1, <3>2
  <2> QED BY <1>5, <2>1, <2>2, <2>3 DEF Validating, B, G
<1>8. ASSUME NEW i \in DOMAIN stack' PROVE FrameOK(stack'[i], C, G)
  <2>1. CASE i = 1
    BY <1>4, <1>6, <2>1
  <2>2. CASE i # 1
    <3>1. stack'[i] = stack[i - 1] /\ i - 1 \in DOMAIN stack
      BY <1>6, <2>2
    <3>2. FrameOK(stack[i - 1], B, G)
      BY <3>1 DEF Validating, B, G
    <3> QED BY <1>5, <3>1, <3>2, FrameStillOK
  <2> QED BY <2>1, <2>2
<1> QED BY <1>5, <1>7, <1>8 DEF Validating, C, G

LEMMA RootKeepsValidating ==
  ASSUME TypeOK, Validating, AtRoot, HasNext, ~References(Stmt), Accepts(Stmt),
         scope' = Declaration(Stmt, scope), at' = at + 1, UNCHANGED <<backup, unit, stack>>
  PROVE  Validating'
<1> DEFINE s == Stmt
           B == Ready(scope)
           C == Ready(scope')
           G == Facts(scope)
           K(k) == Known(backup, unit, k)
<1>1. /\ s \in Statement /\ scope \in Scopes /\ at \in 1 .. Len(unit) /\ s = unit[at]
      /\ Len(unit) \in Nat /\ DOMAIN stack = {} /\ s.name \in Names /\ s.op \in Ops
      /\ s.ty \in Types \cup {"func"} /\ s.body \in Bodies
  <2>1. DOMAIN stack = {}
    BY EmptySeq, LenProperties DEF AtRoot
  <2>2. Len(unit) \in Nat
    BY LenProperties DEF TypeOK
  <2> QED BY <2>1, <2>2, StmtType DEF TypeOK, Stmt, Statement
<1>2. Closed(B, G) /\ RootOK(s, B, G)
  BY AtRootAllReady, RootAccepted DEF ScopeOK
<1>3. B \in SUBSET Bodies
  BY <1>1, ReadyType
<1>4. K(at) = G /\ UnitOK(backup, unit, at)
  BY DEF Validating
<1>5. K(at + 1) = K(at) \cup (IF s.op \in {"declare", "def"} THEN {Fact(s)} ELSE {})
  <2>1. at \in Nat \ {0}
    BY <1>1
  <2>2. K(at + 1) =
          K(at) \cup (IF unit[at].op \in {"declare", "def"} THEN {Fact(unit[at])} ELSE {})
    BY <2>1, KnownNext
  <2> QED BY <1>1, <2>2
<1>6. UnitOK(backup, unit, at + 1)
  <2>1. ASSUME NEW i \in 1 .. at
        PROVE  \E D \in SUBSET Bodies : Closed(D, K(i)) /\ RootOK(unit[i], D, K(i))
    <3>1. CASE i = at
      BY <1>1, <1>2, <1>3, <1>4, <3>1
    <3>2. CASE i # at
      <4>1. i \in 1 .. at - 1
        BY <1>1, <3>2
      <4> QED BY <1>4, <4>1 DEF UnitOK
    <3> QED BY <3>1, <3>2
  <2>2. 1 .. (at + 1) - 1 = 1 .. at
    BY <1>1
  <2> QED BY <2>1, <2>2 DEF UnitOK
<1>7. /\ Facts(scope') = K(at + 1) /\ B \subseteq C /\ C \subseteq B \cup {<<>>}
      /\ Plain(scope')
  <2>1. CASE s.op = "declare"
    <3>1. scope' = [scope EXCEPT ![s.name] = Entry(s.ty)]
      BY <2>1 DEF Declaration
    <3>2. ~Declared(scope[s.name])
      BY <2>1 DEF Accepts, MayDeclare, Local
    <3>3. /\ Entry(s.ty) \in Entries /\ Entry(s.ty).ty = s.ty /\ Entry(s.ty).body = <<>>
          /\ Declared(Entry(s.ty))
      BY <1>1, EntryType DEF Entry, Declared, Types
    <3>4. Fact(s) = [name |-> s.name, ty |-> s.ty, body |-> <<>>]
      BY <2>1 DEF Fact
    <3>5. /\ Facts(scope') = G \cup {Fact(s)} /\ B \subseteq C
          /\ \A b \in C : b \in B \/ b = <<>>
          /\ Plain(scope')
      BY <1>1, <3>1, <3>2, <3>3, <3>4, NewFact DEF Validating
    <3> QED BY <1>4, <1>5, <2>1, <3>5
  <2>2. CASE s.op = "def"
    <3>1. scope' = [scope EXCEPT ![s.name] = Function(s.body, TRUE)]
      BY <2>2 DEF Declaration
    <3>2. ~Declared(scope[s.name])
      BY <2>2 DEF Accepts, MayDeclare, Local
    <3>3. /\ Function(s.body, TRUE) \in Entries /\ Function(s.body, TRUE).ty = "func"
          /\ Function(s.body, TRUE).body = s.body /\ Function(s.body, TRUE).pending
          /\ Declared(Function(s.body, TRUE))
      BY <1>1, FunctionType DEF Function, Declared
    <3>4. Fact(s) = [name |-> s.name, ty |-> "func", body |-> s.body]
      BY <2>2 DEF Fact
    <3> DEFINE e == Function(s.body, TRUE)
    <3> HIDE DEF e
    <3>5. /\ Facts(scope') = G \cup {[name |-> s.name, ty |-> e.ty, body |-> e.body]}
          /\ B \subseteq C
          /\ \A b \in C : b \in B \/ (e.ty = "func" /\ ~e.pending /\ b = e.body)
          /\ Plain(scope')
      <4>1. scope' = [scope EXCEPT ![s.name] = e] /\ e \in Entries /\ Declared(e)
            /\ e.ty = "func" /\ Plain(scope)
        BY <3>1, <3>3 DEF e, Validating
      <4> QED BY <1>1, <3>2, <4>1, NewFact
    <3>6. Facts(scope') = G \cup {Fact(s)} /\ \A b \in C : b \in B
      BY <3>3, <3>4, <3>5 DEF e
    <3> QED BY <1>4, <1>5, <2>2, <3>5, <3>6
  <2>3. CASE s.op \notin {"declare", "def"}
    <3>1. s.op # "global"
      BY <1>2 DEF RootOK
    <3>2. scope' = scope
      BY <2>3, <3>1 DEF Declaration
    <3> QED BY <1>4, <1>5, <2>3, <3>2 DEF Validating
  <2> QED BY <2>1, <2>2, <2>3
<1>8. G \subseteq Facts(scope')
  BY <1>4, <1>5, <1>7
<1>9. ASSUME NEW b \in C PROVE BodyOK(b, C, Facts(scope'))
  <2>1. CASE b \in B
    BY <1>2, <1>7, <1>8, <2>1, BodyStillOK DEF Closed
  <2>2. CASE b = <<>>
    BY <2>2, EmptyBodyOK
  <2> QED BY <1>7, <2>1, <2>2
<1> QED BY <1>1, <1>6, <1>7, <1>9 DEF Validating

LEMMA BodyKeepsValidating ==
  ASSUME TypeOK, Validating, ~AtRoot, HasNext, ~References(Stmt), Accepts(Stmt),
         stack' = <<[Advance(Frame) EXCEPT !.vars = Declaration(Stmt, @)]>> \o Tail(stack),
         UNCHANGED <<scope, backup, unit, at>>
  PROVE  Validating'
<1>1. stack \in Seq(Frames) /\ stack # <<>>
  BY DEF TypeOK, AtRoot
<1>2. Frame = stack[1] /\ 1 \in DOMAIN stack
  BY <1>1, Below DEF Frame
<1>3. FrameOK(Frame, Ready(scope), Facts(scope))
  BY <1>2 DEF Validating
<1>4. PICK f : f = [Advance(Frame) EXCEPT !.vars = Declaration(Stmt, @)]
  OBVIOUS
<1>5. f \in Frames /\ f.body = Frame.body /\ FrameOK(f, Ready(scope), Facts(scope))
  BY <1>3, <1>4, FrameNext
<1>6. /\ DOMAIN stack' = DOMAIN stack /\ stack'[1] = f
      /\ \A i \in DOMAIN stack : i # 1 => stack'[i] = stack[i]
  BY <1>1, <1>4, <1>5, TopReplaced
<1>7. \A i \in DOMAIN stack : stack'[i].body = stack[i].body
  BY <1>2, <1>5, <1>6
<1>8. \A i \in DOMAIN stack' : FrameOK(stack'[i], Ready(scope), Facts(scope))
  BY <1>5, <1>6 DEF Validating
<1>9. ASSUME NEW b \in Ready(scope), ~BodyOK(b, Ready(scope), Facts(scope))
      PROVE  \E i \in DOMAIN stack' : stack'[i].body = b
  BY <1>6, <1>7, <1>9 DEF Validating
<1> QED BY <1>8, <1>9 DEF Validating

LEMMA BodyEndKeepsValidating ==
  ASSUME TypeOK, Validating, ~AtRoot, ~HasNext, stack' = Tail(stack),
         UNCHANGED <<scope, backup, unit, at>>
  PROVE  Validating'
<1>1. stack \in Seq(Frames) /\ stack # <<>>
  BY DEF TypeOK, AtRoot
<1>2. /\ Frame = stack[1] /\ 1 \in DOMAIN stack /\ Frame \in Frames
      /\ DOMAIN stack = 1 .. Len(stack) /\ Len(stack) \in Nat
      /\ DOMAIN stack' = 1 .. Len(stack) - 1
      /\ \A i \in 1 .. Len(stack) - 1 : stack'[i] = stack[i + 1]
  BY <1>1, Below, LenProperties DEF Frame
<1>3. FrameOK(Frame, Ready(scope), Facts(scope))
  BY <1>2 DEF Validating
<1>4. DOMAIN Frame.body = 1 .. Frame.at - 1
  <2>1. Frame.body \in Seq(BodyStatements)
    BY <1>2, BodiesType DEF Frames
  <2>2. Frame.at \in 1 .. Len(Frame.body) + 1
    BY <1>2 DEF TypeOK
  <2>3. Frame.at > Len(Frame.body)
    BY <2>1, <2>2, LenProperties DEF HasNext
  <2> QED BY <2>1, <2>2, <2>3, LenProperties
<1>5. BodyOK(Frame.body, Ready(scope), Facts(scope))
  BY <1>3, <1>4 DEF BodyOK, FrameOK
<1>6. ASSUME NEW b \in Ready(scope), ~BodyOK(b, Ready(scope), Facts(scope))
      PROVE  \E i \in DOMAIN stack' : stack'[i].body = b
  <2>1. PICK i \in DOMAIN stack : stack[i].body = b
    BY <1>6 DEF Validating
  <2>2. i # 1
    BY <1>2, <1>5, <1>6, <2>1
  <2>3. i - 1 \in DOMAIN stack' /\ stack'[i - 1] = stack[i]
    BY <1>2, <2>2
  <2> QED BY <2>1, <2>3
<1>7. ASSUME NEW i \in DOMAIN stack' PROVE FrameOK(stack'[i], Ready(scope), Facts(scope))
  <2>1. stack'[i] = stack[i + 1] /\ i + 1 \in DOMAIN stack
    BY <1>2
  <2> QED BY <2>1 DEF Validating
<1> QED BY <1>6, <1>7 DEF Validating

LEMMA StaticStep == TypeOK /\ NestingInv /\ StaticInv /\ [Next]_vars => StaticInv'
<1> SUFFICES ASSUME TypeOK, NestingInv, StaticInv, [Next]_vars PROVE StaticInv'
  OBVIOUS
<1>1. CASE Submit \/ ParseFails
  BY <1>1 DEF Submit, ParseFails, Ended, StaticInv
<1>2. CASE Parse
  <2>1. scope \in Scopes /\ stack' = <<>>
    BY <1>2 DEF Parse, TypeOK, NestingInv, EmptyBetween
  <2>2. /\ Facts(scope') = Facts(scope) /\ Ready(scope') = Ready(scope) /\ Plain(scope')
        /\ ScopeOK(backup')
    BY <1>2, <2>1, FoundKeeps DEF Parse, StaticInv, ScopeOK
  <2>3. Known(backup', unit', at') = Facts(scope') /\ 1 .. at' - 1 = {}
    BY <1>2, <2>2, KnownStarts DEF Parse
  <2>4. \A b \in Ready(scope') : BodyOK(b, Ready(scope'), Facts(scope'))
    BY <1>2, <2>2 DEF Parse, ScopeOK, Closed
  <2>5. DOMAIN stack' = {}
    BY <2>1, EmptySeq, LenProperties
  <2> QED BY <1>2, <2>2, <2>3, <2>4, <2>5 DEF Parse, StaticInv, Validating, UnitOK
<1>3. CASE ValidateStmt
  <2>1. Validating /\ phase' = "validate"
    BY <1>3 DEF ValidateStmt, StaticInv
  <2>2. CASE References(Stmt) /\ Initialize(Stmt.name) /\ UNCHANGED at
    <3>1. Stmt.name \in Names /\ scope[Stmt.name].pending
      BY <1>3, <2>2, ReferencedIsPending DEF ValidateStmt, NestingInv
    <3>2. Validating'
      BY <1>3, <2>1, <2>2, <3>1, InitializeKeepsValidating DEF ValidateStmt
    <3> QED BY <2>1, <3>2 DEF StaticInv
  <2>3. CASE /\ ~References(Stmt) /\ Accepts(Stmt) /\ AtRoot
             /\ scope' = Declaration(Stmt, scope) /\ at' = at + 1 /\ UNCHANGED stack
    <3>1. Validating'
      BY <1>3, <2>1, <2>3, RootKeepsValidating DEF ValidateStmt
    <3> QED BY <2>1, <3>1 DEF StaticInv
  <2>4. CASE /\ ~References(Stmt) /\ Accepts(Stmt) /\ ~AtRoot
             /\ stack' = <<[Advance(Frame) EXCEPT
                              !.vars = Declaration(Stmt, @)]>> \o Tail(stack)
             /\ UNCHANGED <<scope, at>>
    <3>1. Validating'
      BY <1>3, <2>1, <2>4, BodyKeepsValidating DEF ValidateStmt
    <3> QED BY <2>1, <3>1 DEF StaticInv
  <2> QED BY <1>3, <2>2, <2>3, <2>4 DEF ValidateStmt
<1>4. CASE BodyEnds
  <2>1. Validating' /\ phase' = "validate"
    BY <1>4, BodyEndKeepsValidating DEF BodyEnds, StaticInv
  <2> QED BY <2>1 DEF StaticInv
<1>5. CASE Reject \/ NotUsed
  <2>1. ScopeOK(backup) /\ scope' = backup /\ phase' \in {"idle", "parse"}
    BY <1>5 DEF Reject, NotUsed, Validated, Ended, StaticInv, Validating
  <2> QED BY <2>1 DEF StaticInv, ScopeOK
<1>6. CASE Flush
  <2>1. PICK f \in Names : scope[f].pending /\ Initialize(f)
    BY <1>6 DEF Flush
  <2>2. Validating' /\ phase' = "validate"
    BY <1>6, <2>1, InitializeKeepsValidating DEF Flush, StaticInv
  <2> QED BY <2>2 DEF StaticInv
<1>7. CASE Compiled
  <2>1. Validating /\ AtRoot /\ ~HasNext
    BY <1>7 DEF Compiled, Validated, StaticInv
  <2>2. at = Len(unit) + 1
    BY <2>1, LenProperties DEF HasNext, TypeOK
  <2>3. ScopeOK(scope) /\ Accepted
    BY <2>1, <2>2, AtRootAllReady DEF Validating, Accepted
  <2> QED BY <1>7, <2>3 DEF Compiled, StaticInv, ScopeOK, Accepted
<1>8. CASE \/ Store \/ MakeFunction \/ PassOver \/ CallFunction
           \/ Raise \/ GoWrong \/ Return \/ UnitEnds
  <2>1. UNCHANGED <<scope, backup, unit>> /\ phase = "run" /\ phase' \in {"run", "idle"}
    BY <1>8 DEF Store, MakeFunction, PassOver, CallFunction, Executing, Running, Raise,
       GoWrong, Return, UnitEnds, End
  <2> QED BY <2>1 DEF StaticInv, ScopeOK, Accepted
<1>9. CASE RestartShell
  BY <1>9 DEF RestartShell, StaticInv, ScopeOK
<1>10. CASE UNCHANGED vars
  BY <1>10 DEF vars, StaticInv, ScopeOK, Accepted, Validating
<1> QED BY <1>1, <1>2, <1>3, <1>4, <1>5, <1>6, <1>7, <1>8, <1>9, <1>10 DEF Next

-----------------------------------------------------------------------------
(* What is bound where, in a body that is right *)

LEMMA DeclaredIsBound ==
  ASSUME NEW b, NEW B, NEW G, BodyOK(b, B, G), NEW n, Sites(b, "declare", n) # {}
  PROVE  Bound(b, n)
<1>1. PICK i \in DOMAIN b : b[i].op = "declare" /\ b[i].name = n
  BY DEF Sites
<1>2. ASSUME NEW k \in DOMAIN b, b[k].op = "global", b[k].name = n PROVE FALSE
  <2>1. StmtOK(b, k, B, G)
    BY DEF BodyOK
  <2> QED BY <1>2, <2>1 DEF StmtOK
<1> QED BY <1>1, <1>2 DEF Bound

LEMMA BlockIsBound ==
  ASSUME NEW b \in Bodies, NEW B, NEW G, BodyOK(b, B, G), NEW j \in DOMAIN b,
         b[j].op = "block"
  PROVE  Bound(b, b[j].name)
<1>1. DOMAIN b = 1 .. Len(b) /\ Len(b) \in Nat
  BY BodiesType, LenProperties
<1>2. ASSUME NEW k \in DOMAIN b, b[k].op = "global", b[k].name = b[j].name PROVE FALSE
  <2>1. StmtOK(b, k, B, G) /\ StmtOK(b, j, B, G)
    BY DEF BodyOK
  <2>2. CASE k < j
    <3>1. k \in Before(b, "global", b[j].name, j)
      BY <1>2, <2>2 DEF Before, Sites
    <3> QED BY <2>1, <3>1 DEF StmtOK
  <2>3. CASE j < k
    <3>1. j \in 1 .. k - 1
      BY <1>1, <2>3
    <3> QED BY <1>2, <2>1, <3>1 DEF StmtOK
  <2>4. CASE k = j
    BY <1>2, <2>4
  <2> QED BY <1>1, <2>2, <2>3, <2>4
<1> QED BY <1>2 DEF Bound

\* A name that is declared nowhere in a body but read in it is global in Python.
LEMMA ReadIsGlobal ==
  ASSUME NEW b \in Bodies, NEW B, NEW G, BodyOK(b, B, G), Tidy(b),
         NEW j \in DOMAIN b, b[j].op \in {"use", "call"},
         Sites(b, "declare", b[j].name) = {}
  PROVE  ~Bound(b, b[j].name)
<1> DEFINE n == b[j].name
<1>1. SUFFICES ASSUME NEW i \in DOMAIN b, b[i].op \in {"declare", "block", "assign"},
                      b[i].name = n
               PROVE  \E k \in DOMAIN b : b[k].op = "global" /\ b[k].name = n
  BY DEF Bound
<1>2. b[i].op # "declare"
  BY <1>1 DEF Sites
<1>3. b[i].op # "block"
  BY <1>1 DEF Tidy, Sites
<1>4. StmtOK(b, i, B, G) /\ b[i].op = "assign"
  BY <1>1, <1>2, <1>3 DEF BodyOK
<1>5. Before(b, "declare", n, i) = {}
  BY DEF Before
<1>6. Before(b, "global", n, i) # {}
  BY <1>1, <1>4, <1>5 DEF StmtOK
<1> QED BY <1>6 DEF Before, Sites

LEMMA AssignsWhere ==
  ASSUME NEW b, NEW B, NEW G, BodyOK(b, B, G), NEW j \in DOMAIN b, b[j].op = "assign"
  PROVE  LET n == b[j].name IN
         \/ Bound(b, n) /\ \E i \in Before(b, "declare", n, j) : KindSubsumes(b[i].ty, b[j].ty)
         \/ ~Bound(b, n) /\ Assigns(G, n, b[j].ty)
<1>1. StmtOK(b, j, B, G)
  BY DEF BodyOK
<1>2. CASE \E i \in Before(b, "declare", b[j].name, j) : KindSubsumes(b[i].ty, b[j].ty)
  <2>1. Sites(b, "declare", b[j].name) # {}
    BY <1>2 DEF Before
  <2> QED BY <1>2, <2>1, DeclaredIsBound
<1>3. CASE Before(b, "global", b[j].name, j) # {} /\ Assigns(G, b[j].name, b[j].ty)
  BY <1>3 DEF Before, Sites, Bound
<1> QED BY <1>1, <1>2, <1>3 DEF StmtOK

\* A name is declared once in a body.
LEMMA OneDeclaration ==
  ASSUME NEW b \in Bodies, NEW B, NEW G, BodyOK(b, B, G), NEW n,
         NEW i \in Sites(b, "declare", n), NEW k \in Sites(b, "declare", n)
  PROVE  i = k
<1>1. DOMAIN b = 1 .. Len(b) /\ Len(b) \in Nat
  BY BodiesType, LenProperties
<1>2. /\ i \in DOMAIN b /\ b[i].op = "declare" /\ b[i].name = n
      /\ k \in DOMAIN b /\ b[k].op = "declare" /\ b[k].name = n
  BY DEF Sites
<1>3. Before(b, "declare", n, i) = {} /\ Before(b, "declare", n, k) = {}
  BY <1>2 DEF BodyOK, StmtOK
<1> QED BY <1>1, <1>2, <1>3 DEF Before

-----------------------------------------------------------------------------
(* Frames of calls *)

LEMMA RunsEmpty == \A B : Runs(B, <<>>)
<1>1. DOMAIN <<>> = {}
  BY EmptySeq, LenProperties
<1> QED BY <1>1 DEF Runs

LEMMA RunsPushed ==
  ASSUME NEW B, NEW s \in Seq(Frames), Runs(B, s), NEW f \in Frames, f.body \in B, CallOK(f)
  PROVE  Runs(B, <<f>> \o s) /\ <<f>> \o s \in Seq(Frames)
<1>1. PICK t : t = <<f>> \o s
  OBVIOUS
<1>2. /\ t \in Seq(Frames) /\ DOMAIN t = 1 .. Len(s) + 1 /\ t[1] = f
      /\ \A i \in 2 .. Len(s) + 1 : t[i] = s[i - 1]
      /\ DOMAIN s = 1 .. Len(s) /\ Len(s) \in Nat
  BY <1>1, OnTop, LenProperties
<1>3. ASSUME NEW i \in DOMAIN t PROVE t[i].body \in B /\ CallOK(t[i])
  <2>1. CASE i = 1
    BY <1>2, <2>1
  <2>2. CASE i # 1
    <3>1. t[i] = s[i - 1] /\ i - 1 \in DOMAIN s
      BY <1>2, <2>2
    <3> QED BY <3>1 DEF Runs
  <2> QED BY <2>1, <2>2
<1> QED BY <1>1, <1>2, <1>3 DEF Runs

LEMMA RunsPopped ==
  ASSUME NEW B, NEW s \in Seq(Frames), s # <<>>, Runs(B, s)
  PROVE  /\ Runs(B, Tail(s)) /\ Tail(s) \in Seq(Frames)
         /\ Head(s) \in Frames /\ Head(s).body \in B /\ CallOK(Head(s))
<1>1. PICK t : t = Tail(s)
  OBVIOUS
<1>2. /\ Head(s) = s[1] /\ 1 \in DOMAIN s /\ Head(s) \in Frames
      /\ t \in Seq(Frames) /\ DOMAIN t = 1 .. Len(s) - 1
      /\ \A i \in 1 .. Len(s) - 1 : t[i] = s[i + 1]
      /\ DOMAIN s = 1 .. Len(s) /\ Len(s) \in Nat
  BY <1>1, Below, LenProperties
<1>3. ASSUME NEW i \in DOMAIN t PROVE t[i].body \in B /\ CallOK(t[i])
  <2>1. t[i] = s[i + 1] /\ i + 1 \in DOMAIN s
    BY <1>2
  <2> QED BY <2>1 DEF Runs
<1> QED BY <1>1, <1>2, <1>3 DEF Runs

LEMMA RunsMore ==
  ASSUME NEW B, NEW C, B \subseteq C, NEW s, Runs(B, s)
  PROVE  Runs(C, s)
BY DEF Runs

\* A frame goes on, past anything but a declaration.
LEMMA CallGoesOn ==
  ASSUME NEW f \in Frames, f.at \in 1 .. Len(f.body), CallOK(f),
         f.body[f.at].op # "declare"
  PROVE  CallOK(Advance(f))
<1>1. f.body \in Bodies /\ f.at \in DOMAIN f.body
  <2>1. f.body \in Bodies /\ f.body \in Seq(BodyStatements)
    BY BodiesType DEF Frames
  <2> QED BY <2>1, LenProperties
<1>2. /\ Advance(f).body = f.body /\ Advance(f).at = f.at + 1
      /\ Advance(f).vars = f.vars
  BY DEF Advance, Frames
<1>3. \A n : Before(f.body, "declare", n, f.at + 1) = Before(f.body, "declare", n, f.at)
  BY <1>1, BeforeNext
<1> QED BY <1>2, <1>3 DEF CallOK

\* A frame binds a local variable.
LEMMA CallBinds ==
  ASSUME NEW f \in Frames, f.at \in 1 .. Len(f.body), CallOK(f), NEW B, NEW G,
         BodyOK(f.body, B, G), NEW s, s = f.body[f.at], s.name \in Names,
         s.ty \in Types \cup {"func"},
         \/ s.op \in {"declare", "block"}
         \/ /\ s.op = "assign"
            /\ \E i \in Before(f.body, "declare", s.name, f.at) :
                  KindSubsumes(f.body[i].ty, s.ty),
         NEW g, g = [Advance(f) EXCEPT !.vars[s.name] = Entry(s.ty)]
  PROVE  g \in Frames /\ g.body = f.body /\ CallOK(g)
<1> DEFINE b == f.body
           j == f.at
<1>1. b \in Bodies /\ j \in DOMAIN b /\ j \in Nat /\ f.vars \in [Names -> Entries]
  <2>1. b \in Bodies /\ b \in Seq(BodyStatements)
    BY BodiesType DEF Frames
  <2> QED BY <2>1, LenProperties DEF Frames, Scopes
<1>2. Entry(s.ty) \in Entries /\ Entry(s.ty).ty = s.ty /\ Entry(s.ty).body = <<>>
  BY EntryType DEF Entry
<1>3. /\ g = [Advance(f) EXCEPT !.vars = [f.vars EXCEPT ![s.name] = Entry(s.ty)]]
      /\ [f.vars EXCEPT ![s.name] = Entry(s.ty)] \in Scopes
  BY <1>1, <1>2 DEF Advance, Frames, Scopes
<1>4. /\ g \in Frames /\ g.body = b /\ g.at = j + 1
      /\ g.vars = [f.vars EXCEPT ![s.name] = Entry(s.ty)]
  <2>1. PICK vs \in Scopes : vs = [f.vars EXCEPT ![s.name] = Entry(s.ty)]
    BY <1>3
  <2>2. Advance(f) \in Frames /\ Advance(f).body = b /\ Advance(f).at = j + 1
    <3>1. Advance(f) \in Frames /\ Advance(f).body = b
      BY AdvanceType
    <3>2. Advance(f).at = j + 1
      BY DEF Advance, Frames
    <3> QED BY <3>1, <3>2
  <2>3. g = [Advance(f) EXCEPT !.vars = vs]
    BY <1>3, <2>1
  <2>4. g \in Frames /\ g.body = b /\ g.at = j + 1 /\ g.vars = vs
    <3> HIDE DEF b, j
    <3>1. PICK h \in Frames : h = Advance(f) /\ h.body = b /\ h.at = j + 1
      BY <2>2
    <3>2. g = [h EXCEPT !.vars = vs]
      BY <2>3, <3>1
    <3> QED BY <2>1, <3>1, <3>2 DEF Frames
  <2> QED BY <2>1, <2>4
<1>5. g.vars[s.name] = Entry(s.ty) /\ \A n \in Names \ {s.name} : g.vars[n] = f.vars[n]
  <2>1. PICK v, w : v = f.vars /\ w = g.vars /\ v \in [Names -> Entries]
    BY <1>1
  <2>2. w = [v EXCEPT ![s.name] = Entry(s.ty)]
    BY <1>4, <2>1
  <2>3. w[s.name] = Entry(s.ty) /\ \A n \in Names \ {s.name} : w[n] = v[n]
    BY <2>1, <2>2
  <2> QED BY <2>1, <2>3
<1> HIDE DEF b, j
<1>6. \A n \in Names : g.vars[n].body = <<>>
  BY <1>2, <1>5 DEF CallOK
<1>7. ASSUME NEW n \in Names, NEW i \in Before(b, "declare", n, j + 1)
      PROVE  KindSubsumes(b[i].ty, g.vars[n].ty)
  <2>1. CASE n # s.name
    <3>1. Before(b, "declare", n, j + 1) = Before(b, "declare", n, j)
      BY <1>1, <2>1, BeforeNext DEF b, j
    <3> QED BY <1>5, <1>7, <2>1, <3>1 DEF CallOK, b, j
  <2>2. CASE n = s.name /\ s.op = "declare"
    <3>1. i \in Sites(b, "declare", n) /\ j \in Sites(b, "declare", n)
      BY <1>1, <1>7, <2>2 DEF Before, Sites, b, j
    <3>2. i = j
      BY <1>1, <3>1, OneDeclaration DEF b
    <3> QED BY <1>2, <1>5, <2>2, <3>2 DEF KindSubsumes, b, j
  <2>3. CASE n = s.name /\ s.op # "declare"
    <3>1. i \in Before(b, "declare", n, j)
      BY <1>1, <1>7, <2>3, BeforeNext DEF b, j
    <3>2. CASE s.op = "block"
      <4>1. StmtOK(b, j, B, G)
        BY <1>1 DEF BodyOK, b
      <4> QED BY <2>3, <3>1, <3>2, <4>1 DEF StmtOK, b, j
    <3>3. CASE s.op = "assign"
      <4>1. PICK k \in Before(b, "declare", n, j) : KindSubsumes(b[k].ty, s.ty)
        BY <2>3, <3>3 DEF b, j
      <4>2. i \in Sites(b, "declare", n) /\ k \in Sites(b, "declare", n)
        BY <3>1, <4>1 DEF Before
      <4>3. i = k
        BY <1>1, <4>2, OneDeclaration DEF b
      <4> QED BY <1>2, <1>5, <2>3, <4>1, <4>3
    <3> QED BY <2>3, <3>2, <3>3
  <2> QED BY <2>1, <2>2, <2>3
<1> QED BY <1>4, <1>6, <1>7 DEF CallOK, b

-----------------------------------------------------------------------------
(* Execution *)

LEMMA UnitFacts ==
  ASSUME TypeOK, StaticInv, phase = "run", NEW k \in 1 .. Len(unit) + 1,
         NEW K, K = Known(backup, unit, k)
  PROVE  /\ \A g \in K : /\ g.name \in Names /\ g.ty \in Types \cup {"func"}
                         /\ g.ty \in Types => g.body = <<>>
         /\ \A g, h \in K : g.name = h.name => g = h
<1>1. Len(unit) + 1 \in Nat /\ scope \in [Names -> Entries]
  BY LenProperties DEF TypeOK, Scopes
<1>2. K \subseteq Facts(scope)
  BY <1>1, KnownGrows DEF StaticInv, Accepted
<1>3. /\ \A g \in Facts(scope) :
            /\ g.name \in Names /\ Declared(scope[g.name])
            /\ g.ty = scope[g.name].ty /\ g.body = scope[g.name].body
      /\ \A g, h \in Facts(scope) : g.name = h.name => g = h
  BY FactsAre
<1>4. ASSUME NEW g \in K
      PROVE  /\ g.name \in Names /\ g.ty \in Types \cup {"func"}
             /\ g.ty \in Types => g.body = <<>>
  <2>1. g.name \in Names /\ Declared(scope[g.name]) /\ g.ty = scope[g.name].ty
        /\ g.body = scope[g.name].body
    BY <1>2, <1>3
  <2>2. scope[g.name] \in Entries
    BY <1>1, <2>1
  <2>3. g.ty \in Types \cup {"func"}
    BY <2>1, <2>2 DEF Entries, Declared
  <2>4. g.ty \in Types => g.body = <<>>
    BY <2>1 DEF StaticInv, ScopeOK, Plain, Types
  <2> QED BY <2>1, <2>3, <2>4
<1> QED BY <1>2, <1>3, <1>4

LEMMA RootRight ==
  ASSUME TypeOK, StaticInv, phase = "run", AtRoot, HasNext
  PROVE  /\ at \in 1 .. Len(unit) /\ Len(unit) \in Nat /\ Stmt \in Statement
         /\ \E B \in SUBSET Bodies :
               /\ Closed(B, Known(backup, unit, at))
               /\ RootOK(Stmt, B, Known(backup, unit, at))
         /\ Known(backup, unit, at + 1) = Known(backup, unit, at) \cup
              (IF Stmt.op \in {"declare", "def"} THEN {Fact(Stmt)} ELSE {})
<1>1. /\ at \in 1 .. Len(unit) /\ Len(unit) \in Nat /\ Stmt \in Statement /\ Stmt = unit[at]
  BY StmtType, LenProperties DEF TypeOK, Stmt
<1>2. \E B \in SUBSET Bodies :
         Closed(B, Known(backup, unit, at)) /\ RootOK(unit[at], B, Known(backup, unit, at))
  BY <1>1 DEF StaticInv, Accepted, UnitOK
<1>3. Known(backup, unit, at + 1) = Known(backup, unit, at) \cup
        (IF unit[at].op \in {"declare", "def"} THEN {Fact(unit[at])} ELSE {})
  BY <1>1, KnownNext
<1> QED BY <1>1, <1>2, <1>3

LEMMA BodyRight ==
  ASSUME TypeOK, ~AtRoot, HasNext, NEW B \in SUBSET Bodies, NEW G, Closed(B, G),
         Runs(B, stack)
  PROVE  /\ Frame \in Frames /\ Frame.body \in B /\ Frame.body \in Bodies /\ CallOK(Frame)
         /\ Frame.at \in 1 .. Len(Frame.body) /\ Frame.at \in DOMAIN Frame.body
         /\ BodyOK(Frame.body, B, G) /\ StmtOK(Frame.body, Frame.at, B, G)
         /\ Runs(B, Tail(stack)) /\ Tail(stack) \in Seq(Frames)
         /\ Stmt \in Statement /\ Stmt = Frame.body[Frame.at] /\ Stmt.op # "def"
<1>1. stack \in Seq(Frames) /\ stack # <<>>
  BY DEF TypeOK, AtRoot
<1>2. /\ Runs(B, Tail(stack)) /\ Tail(stack) \in Seq(Frames)
      /\ Frame \in Frames /\ Frame.body \in B /\ CallOK(Frame)
  BY <1>1, RunsPopped DEF Frame
<1>3. /\ Stmt \in Statement /\ Frame.at \in 1 .. Len(Frame.body) /\ Stmt.op # "def"
      /\ Stmt = Frame.body[Frame.at]
  BY StmtType DEF Stmt
<1>4. Frame.body \in Bodies /\ Frame.at \in DOMAIN Frame.body
  <2>1. Frame.body \in Bodies /\ Frame.body \in Seq(BodyStatements)
    BY <1>2, BodiesType
  <2> QED BY <1>3, <2>1, LenProperties
<1>5. BodyOK(Frame.body, B, G)
  BY <1>2 DEF Closed
<1> QED BY <1>2, <1>3, <1>4, <1>5 DEF BodyOK

LEMMA Described ==
  ASSUME NEW G, NEW e, Describes(G, e), NEW n
  PROVE  /\ \A ty : Reads(G, n, ty) => KindSubsumes(ty, e[n].ty)
         /\ \A B : Calls(G, n, B) => e[n].ty = "func" /\ e[n].body \in B
BY DEF Describes, Reads, Calls, KindSubsumes

LEMMA DescribesBound ==
  ASSUME NEW G, NEW e, DOMAIN e = Names, Describes(G, e), NEW n \in Names, NEW v,
         \A g \in G : /\ g.name \in Names
                      /\ g.name = n => KindSubsumes(g.ty, v.ty) /\ v.body = g.body
  PROVE  Describes(G, [e EXCEPT ![n] = v])
BY DEF Describes

\* A value has the type that is expected where it is used.
LEMMA AlwaysFits ==
  ASSUME TypeOK, StaticInv, \A b \in Bodies : Tidy(b), phase = "run", HasNext,
         RunOK(Known(backup, unit, at))
  PROVE  /\ Fits(Stmt)
         /\ Stmt.op = "call" =>
              \E B \in SUBSET Bodies :
                 /\ Closed(B, Known(backup, unit, at)) /\ Runs(B, stack)
                 /\ Value(Stmt.name).body \in B
<1> DEFINE G == Known(backup, unit, at)
           n == Stmt.name
<1>1. Describes(G, env)
  BY DEF RunOK
<1>2. CASE AtRoot
  <2>1. PICK B \in SUBSET Bodies : Closed(B, G) /\ RootOK(Stmt, B, G)
    BY <1>2, RootRight
  <2>2. Value(n) = env[n] /\ Runs(B, stack)
    BY <1>2, RunsEmpty DEF Value, InGlobals, AtRoot
  <2>3. Stmt.op = "use" => KindSubsumes(Stmt.ty, Value(n).ty)
    BY <1>1, <2>1, <2>2, Described DEF RootOK
  <2>4. Stmt.op = "call" => Value(n).ty = "func" /\ Value(n).body \in B
    BY <1>1, <2>1, <2>2, Described DEF RootOK
  <2> HIDE DEF G
  <2> QED BY <2>1, <2>2, <2>3, <2>4 DEF Fits, G
<1>3. CASE ~AtRoot
  <2> DEFINE b == Frame.body
             j == Frame.at
  <2>1. PICK B \in SUBSET Bodies : Closed(B, G) /\ Runs(B, stack)
    BY DEF RunOK
  <2>2. /\ b \in Bodies /\ CallOK(Frame) /\ j \in DOMAIN b
        /\ BodyOK(b, B, G) /\ StmtOK(b, j, B, G) /\ Stmt = b[j] /\ n \in Names
        /\ Tidy(b)
    BY <1>3, <2>1, BodyRight DEF Statement
  <2>3. ASSUME NEW i \in Before(b, "declare", n, j)
        PROVE  /\ Value(n) = Frame.vars[n] /\ KindSubsumes(b[i].ty, Value(n).ty)
               /\ Value(n).body = <<>>
    <3>1. Sites(b, "declare", n) # {}
      BY <2>3 DEF Before
    <3>2. Bound(b, n)
      BY <2>2, <3>1, DeclaredIsBound
    <3>3. Value(n) = Frame.vars[n]
      BY <1>3, <3>2 DEF Value, InGlobals
    <3> QED BY <2>2, <2>3, <3>3 DEF CallOK
  <2>4. ASSUME Sites(b, "declare", n) = {}, Stmt.op \in {"use", "call"}
        PROVE  Value(n) = env[n]
    <3>1. ~Bound(b, n)
      BY <2>2, <2>4, ReadIsGlobal
    <3> QED BY <3>1 DEF Value, InGlobals
  <2> HIDE DEF G, b, j, n
  <2>5. Stmt.op = "use" => KindSubsumes(Stmt.ty, Value(n).ty)
    <3> SUFFICES ASSUME Stmt.op = "use" PROVE KindSubsumes(Stmt.ty, Value(n).ty)
      OBVIOUS
    <3>1. CASE \E i \in Before(b, "declare", n, j) : KindSubsumes(Stmt.ty, b[i].ty)
      BY <2>3, <3>1 DEF KindSubsumes
    <3>2. CASE Sites(b, "declare", n) = {} /\ Reads(G, n, Stmt.ty)
      BY <1>1, <2>4, <3>2, Described
    <3> QED BY <2>2, <3>1, <3>2 DEF StmtOK, n
  <2>6. Stmt.op = "call" =>
          Value(n).ty = "func" /\ Value(n).body \in B \cup {<<>>}
    <3> SUFFICES ASSUME Stmt.op = "call"
                 PROVE  Value(n).ty = "func" /\ Value(n).body \in B \cup {<<>>}
      OBVIOUS
    <3>1. CASE \E i \in Before(b, "declare", n, j) : b[i].ty = "func"
      BY <2>3, <3>1 DEF KindSubsumes
    <3>2. CASE Sites(b, "declare", n) = {} /\ Calls(G, n, B)
      BY <1>1, <2>4, <3>2, Described
    <3> QED BY <2>2, <3>1, <3>2 DEF StmtOK, n
  <2>7. /\ B \cup {<<>>} \in SUBSET Bodies
        /\ Closed(B \cup {<<>>}, G) /\ Runs(B \cup {<<>>}, stack)
    BY <2>1, StillClosed, RunsMore DEF Bodies
  <2> QED BY <2>5, <2>6, <2>7 DEF Fits, G, n
<1> QED BY <1>2, <1>3

\* A statement of a unit binds a name.
LEMMA RootBinds ==
  ASSUME TypeOK, StaticInv, phase = "run", AtRoot, HasNext,
         RunOK(Known(backup, unit, at)), UNCHANGED <<backup, unit>>,
         NEW v, v.body = Fact(Stmt).body, KindSubsumes(Fact(Stmt).ty, v.ty),
         Stmt.op \in {"declare", "block", "assign", "def"}, Bind(Stmt.name, v)
  PROVE  RunOK(Known(backup, unit, at))'
<1> DEFINE G == Known(backup, unit, at)
           n == Stmt.name
<1>1. /\ at \in 1 .. Len(unit) /\ Len(unit) \in Nat /\ n \in Names
      /\ Known(backup, unit, at + 1) =
           G \cup (IF Stmt.op \in {"declare", "def"} THEN {Fact(Stmt)} ELSE {})
      /\ \E B \in SUBSET Bodies : RootOK(Stmt, B, G)
  BY RootRight DEF Statement
<1>2. env' = [env EXCEPT ![n] = v] /\ at' = at + 1 /\ stack' = <<>>
  BY DEF Bind, InGlobals, AtRoot
<1>3. /\ \A g \in G : g.name \in Names /\ (g.ty \in Types => g.body = <<>>)
      /\ \A g, h \in G : g.name = h.name => g = h
  BY <1>1, UnitFacts
<1>4. Describes(G, env) /\ DOMAIN env = Names
  BY DEF RunOK, TypeOK, Scopes
<1>5. Known(backup, unit, at)' = G \cup (IF Stmt.op \in {"declare", "def"} THEN {Fact(Stmt)} ELSE {})
  BY <1>1, <1>2
<1>6. Fact(Stmt).name = n
  BY DEF Fact
<1> HIDE DEF G, n
<1>7. ASSUME NEW g \in G, g.name = n PROVE KindSubsumes(g.ty, v.ty) /\ v.body = g.body
  <2>1. Stmt.op = "assign" /\ Assigns(G, n, Stmt.ty)
    BY <1>1, <1>7 DEF RootOK, n
  <2>2. PICK h \in G : h.name = n /\ h.ty \in Types /\ KindSubsumes(h.ty, Stmt.ty)
    BY <2>1 DEF Assigns
  <2>3. g = h
    BY <1>3, <1>7, <2>2
  <2>4. Fact(Stmt).ty = Stmt.ty /\ Fact(Stmt).body = <<>>
    BY <2>1 DEF Fact
  <2> QED BY <1>3, <2>2, <2>3, <2>4 DEF KindSubsumes
<1>8. Describes(G, env')
  BY <1>1, <1>2, <1>3, <1>4, <1>7, DescribesBound
<1>9. Describes({Fact(Stmt)}, env')
  BY <1>1, <1>2, <1>4, <1>6 DEF Describes
<1>10. Describes(Known(backup, unit, at)', env')
  BY <1>5, <1>8, <1>9 DEF Describes
<1>11. Closed({}, Known(backup, unit, at)') /\ Runs({}, stack')
  BY <1>2, RunsEmpty DEF Closed
<1> QED BY <1>10, <1>11 DEF RunOK

\* A statement of a body binds a name, of the function or of the global scope.
LEMMA BodyBinds ==
  ASSUME TypeOK, StaticInv, phase = "run", ~AtRoot, HasNext,
         RunOK(Known(backup, unit, at)), UNCHANGED <<backup, unit>>,
         Stmt.op \in {"declare", "block", "assign"}, Bind(Stmt.name, Entry(Stmt.ty))
  PROVE  RunOK(Known(backup, unit, at))'
<1> DEFINE G == Known(backup, unit, at)
           n == Stmt.name
           b == Frame.body
           j == Frame.at
<1>1. PICK B \in SUBSET Bodies : Closed(B, G) /\ Runs(B, stack)
  BY DEF RunOK
<1>2. /\ Frame \in Frames /\ b \in B /\ b \in Bodies /\ CallOK(Frame)
      /\ j \in 1 .. Len(b) /\ j \in DOMAIN b /\ BodyOK(b, B, G)
      /\ Runs(B, Tail(stack)) /\ Tail(stack) \in Seq(Frames)
      /\ Stmt = b[j] /\ n \in Names /\ Stmt.ty \in Types \cup {"func"}
  BY <1>1, BodyRight DEF Statement
<1>3. at' = at /\ Known(backup, unit, at)' = G
  BY DEF Bind, InGlobals
<1>4. Describes(G, env) /\ DOMAIN env = Names
  BY DEF RunOK, TypeOK, Scopes
<1>5. Entry(Stmt.ty).ty = Stmt.ty /\ Entry(Stmt.ty).body = <<>>
  BY DEF Entry
<1> HIDE DEF G
<1>6. CASE ~Bound(b, n)
  <2>1. /\ env' = [env EXCEPT ![n] = Entry(Stmt.ty)]
        /\ stack' = <<Advance(Frame)>> \o Tail(stack)
    BY <1>6 DEF Bind, InGlobals
  <2>2. Stmt.op = "assign"
    <3>1. Stmt.op # "block"
      BY <1>2, <1>6, BlockIsBound
    <3>2. Stmt.op # "declare"
      BY <1>2, <1>6, DeclaredIsBound DEF Sites
    <3> QED BY <3>1, <3>2
  <2>3. Assigns(G, n, Stmt.ty)
    BY <1>2, <1>6, <2>2, AssignsWhere
  <2>4. PICK h \in G : h.name = n /\ h.ty \in Types /\ KindSubsumes(h.ty, Stmt.ty)
    BY <2>3 DEF Assigns
  <2>5. /\ \A g \in G : g.name \in Names /\ (g.ty \in Types => g.body = <<>>)
        /\ \A g, f \in G : g.name = f.name => g = f
    <3>1. at \in 1 .. Len(unit) + 1
      BY DEF TypeOK
    <3> QED BY <3>1, UnitFacts DEF G
  <2>6. \A g \in G : g.name = n => KindSubsumes(g.ty, Stmt.ty) /\ g.body = <<>>
    BY <2>4, <2>5
  <2>7. Describes(G, env')
    BY <1>2, <1>4, <1>5, <2>1, <2>5, <2>6, DescribesBound
  <2>8. Advance(Frame) \in Frames /\ Advance(Frame).body = b
    BY <1>2, AdvanceType
  <2>9. CallOK(Advance(Frame))
    BY <1>2, <2>2, CallGoesOn
  <2>10. Runs(B, stack')
    BY <1>2, <2>1, <2>8, <2>9, RunsPushed
  <2> QED BY <1>1, <1>3, <2>7, <2>10 DEF RunOK
<1>7. CASE Bound(b, n)
  <2>1. PICK g : g = [Advance(Frame) EXCEPT !.vars[Stmt.name] = Entry(Stmt.ty)]
    OBVIOUS
  <2>2. env' = env /\ stack' = <<g>> \o Tail(stack)
    BY <1>7, <2>1 DEF Bind, InGlobals
  <2>3. \/ Stmt.op \in {"declare", "block"}
        \/ /\ Stmt.op = "assign"
           /\ \E i \in Before(b, "declare", n, j) : KindSubsumes(b[i].ty, Stmt.ty)
    BY <1>2, <1>7, AssignsWhere
  <2>4. g \in Frames /\ g.body = b /\ CallOK(g)
    BY <1>2, <2>1, <2>3, CallBinds
  <2>5. Runs(B, stack')
    BY <1>2, <2>2, <2>4, RunsPushed
  <2> QED BY <1>1, <1>3, <1>4, <2>2, <2>5 DEF RunOK
<1> QED BY <1>6, <1>7

\* A statement that binds nothing.
LEMMA SkipRuns ==
  ASSUME TypeOK, StaticInv, phase = "run", HasNext,
         RunOK(Known(backup, unit, at)), UNCHANGED <<backup, unit>>,
         Stmt.op \in {"use", "block", "global"}, Skip
  PROVE  RunOK(Known(backup, unit, at))'
<1> DEFINE G == Known(backup, unit, at)
<1>1. PICK B \in SUBSET Bodies : Closed(B, G) /\ Runs(B, stack)
  BY DEF RunOK
<1>2. CASE AtRoot
  <2>1. at' = at + 1 /\ stack' = stack /\ env' = env
    BY <1>2 DEF Skip
  <2>2. Known(backup, unit, at)' = G
    BY <1>2, <2>1, RootRight
  <2> QED BY <1>1, <2>1, <2>2 DEF RunOK
<1>3. CASE ~AtRoot
  <2>1. at' = at /\ env' = env /\ stack' = <<Advance(Frame)>> \o Tail(stack)
    BY <1>3 DEF Skip
  <2>2. /\ Frame \in Frames /\ Frame.body \in B /\ CallOK(Frame)
        /\ Frame.at \in 1 .. Len(Frame.body) /\ Stmt = Frame.body[Frame.at]
        /\ Runs(B, Tail(stack)) /\ Tail(stack) \in Seq(Frames)
    BY <1>1, <1>3, BodyRight
  <2>3. Advance(Frame) \in Frames /\ Advance(Frame).body \in B
    BY <2>2, AdvanceType
  <2>4. CallOK(Advance(Frame))
    BY <2>2, CallGoesOn
  <2>5. Runs(B, stack')
    BY <2>1, <2>2, <2>3, <2>4, RunsPushed
  <2> QED BY <1>1, <2>1, <2>5 DEF RunOK
<1> QED BY <1>2, <1>3

LEMMA CallRuns ==
  ASSUME TypeOK, StaticInv, \A b \in Bodies : Tidy(b), phase = "run",
         RunOK(Known(backup, unit, at)), CallFunction
  PROVE  RunOK(Known(backup, unit, at))'
<1> DEFINE G == Known(backup, unit, at)
           below == IF AtRoot THEN <<>> ELSE <<Advance(Frame)>> \o Tail(stack)
<1>1. HasNext /\ Stmt.op = "call" /\ env' = env /\ UNCHANGED <<backup, unit>>
  BY DEF CallFunction, Executing, Running
<1>2. PICK B \in SUBSET Bodies : Closed(B, G) /\ Runs(B, stack) /\ Value(Stmt.name).body \in B
  BY <1>1, AlwaysFits
<1>3. PICK f : f = [fn |-> Stmt.name, body |-> Value(Stmt.name).body, at |-> 1,
                    vars |-> Nothing]
  OBVIOUS
<1>4. f \in Frames /\ f.body \in B /\ CallOK(f)
  <2>1. Stmt.name \in Names /\ f.body \in B /\ f.at = 1 /\ f.vars = Nothing /\ f.body \in Bodies
    BY <1>1, <1>2, <1>3, StmtType DEF Statement
  <2>2. f \in Frames
    BY <1>3, <2>1, NothingType DEF Frames
  <2>3. CallOK(f)
    <3>1. \A n \in Names : f.vars[n].body = <<>>
      <4>1. \A n \in Names : Nothing[n] = Entry("none")
        BY DEF Nothing
      <4>2. Entry("none").body = <<>>
        BY DEF Entry
      <4> QED BY <2>1, <4>1, <4>2
    <3>2. \A n \in Names : Before(f.body, "declare", n, f.at) = {}
      BY <2>1, NothingBefore
    <3> QED BY <3>1, <3>2 DEF CallOK
  <2> QED BY <2>1, <2>2, <2>3
<1>5. Runs(B, below) /\ below \in Seq(Frames) /\ Known(backup, unit, at)' = G
  <2>1. CASE AtRoot
    <3>1. at' = at + 1 /\ below = <<>>
      BY <2>1 DEF CallFunction
    <3>2. Known(backup, unit, at)' = G
      BY <1>1, <2>1, <3>1, RootRight
    <3> QED BY <3>1, <3>2, RunsEmpty, EmptySeq
  <2>2. CASE ~AtRoot
    <3>1. at' = at /\ below = <<Advance(Frame)>> \o Tail(stack)
      BY <2>2 DEF CallFunction
    <3>2. /\ Frame \in Frames /\ Frame.body \in B /\ CallOK(Frame)
          /\ Frame.at \in 1 .. Len(Frame.body) /\ Stmt = Frame.body[Frame.at]
          /\ Runs(B, Tail(stack)) /\ Tail(stack) \in Seq(Frames)
      BY <1>1, <1>2, <2>2, BodyRight
    <3>3. Advance(Frame) \in Frames /\ Advance(Frame).body \in B
      BY <3>2, AdvanceType
    <3>4. CallOK(Advance(Frame))
      BY <1>1, <3>2, CallGoesOn
    <3> QED BY <1>1, <3>1, <3>2, <3>3, <3>4, RunsPushed
  <2> QED BY <2>1, <2>2
<1>6. stack' = <<f>> \o below
  BY <1>3 DEF CallFunction
<1> HIDE DEF below
<1>7. Runs(B, stack')
  BY <1>4, <1>5, <1>6, RunsPushed
<1> QED BY <1>1, <1>2, <1>5, <1>7 DEF RunOK

LEMMA DynamicStep ==
  ASSUME \A b \in Bodies : Tidy(b)
  PROVE  TypeOK /\ NestingInv /\ StaticInv /\ DynamicInv /\ [Next]_vars => DynamicInv'
<1> SUFFICES ASSUME TypeOK, NestingInv, StaticInv, DynamicInv, [Next]_vars PROVE DynamicInv'
  OBVIOUS
<1>1. CASE Submit \/ ParseFails
  BY <1>1 DEF Submit, ParseFails, Ended, DynamicInv
<1>2. CASE Parse
  BY <1>2 DEF Parse, DynamicInv
<1>3. CASE ValidateStmt \/ BodyEnds \/ Flush
  BY <1>3 DEF ValidateStmt, BodyEnds, Flush, DynamicInv
<1>4. CASE Reject \/ NotUsed
  BY <1>4 DEF Reject, NotUsed, Validated, Ended, DynamicInv
<1>5. CASE Compiled
  <2>1. stack' = <<>> /\ Known(backup, unit, at)' = Facts(backup)
    BY <1>5, KnownStarts DEF Compiled, Validated, AtRoot
  <2>2. Closed({}, Facts(backup)) /\ Runs({}, stack')
    BY <2>1, RunsEmpty DEF Closed
  <2>3. ~faulted => Describes(Facts(backup), env')
    BY <1>5 DEF Compiled, Validated, DynamicInv
  <2>4. ~faulted => RunOK(Known(backup, unit, at))'
    BY <2>1, <2>2, <2>3 DEF RunOK
  <2> QED BY <1>5, <2>4 DEF Compiled, DynamicInv
<1>6. CASE Store \/ MakeFunction \/ PassOver \/ CallFunction \/ Return
  <2>1. /\ phase = "run" /\ phase' = "run" /\ outcome' = outcome /\ faulted' = faulted
        /\ UNCHANGED <<backup, unit>>
    BY <1>6 DEF Store, MakeFunction, PassOver, CallFunction, Executing, Running, Return
  <2>2. ASSUME RunOK(Known(backup, unit, at)) PROVE RunOK(Known(backup, unit, at))'
    <3>1. CASE Store
      <4>1. /\ HasNext /\ Stmt.op \in {"declare", "block", "assign"}
            /\ Bind(Stmt.name, Entry(Stmt.ty))
        BY <3>1 DEF Store, Executing, Running
      <4>2. /\ Entry(Stmt.ty).body = Fact(Stmt).body
            /\ KindSubsumes(Fact(Stmt).ty, Entry(Stmt.ty).ty)
        BY <4>1 DEF Entry, Fact, KindSubsumes
      <4> QED BY <2>1, <2>2, <4>1, <4>2, RootBinds, BodyBinds
    <3>2. CASE MakeFunction
      <4>1. HasNext /\ Stmt.op = "def" /\ Bind(Stmt.name, Function(Stmt.body, FALSE))
        BY <3>2 DEF MakeFunction, Executing, Running
      <4>2. /\ Function(Stmt.body, FALSE).body = Fact(Stmt).body
            /\ KindSubsumes(Fact(Stmt).ty, Function(Stmt.body, FALSE).ty)
        BY <4>1 DEF Function, Fact, KindSubsumes
      <4>3. AtRoot
        BY <4>1, StmtType
      <4> QED BY <2>1, <2>2, <4>1, <4>2, <4>3, RootBinds
    <3>3. CASE PassOver
      BY <2>1, <2>2, <3>3, SkipRuns DEF PassOver, Executing, Running
    <3>4. CASE CallFunction
      BY <2>1, <2>2, <3>4, CallRuns
    <3>5. CASE Return
      <4>1. PICK B \in SUBSET Bodies : Closed(B, Known(backup, unit, at)) /\ Runs(B, stack)
        BY <2>2 DEF RunOK
      <4>2. stack \in Seq(Frames) /\ stack # <<>>
        BY <3>5 DEF Return, AtRoot, TypeOK
      <4>3. Runs(B, stack')
        BY <3>5, <4>1, <4>2, RunsPopped DEF Return
      <4> QED BY <2>2, <3>5, <4>1, <4>3 DEF Return, RunOK
    <3> QED BY <1>6, <3>1, <3>2, <3>3, <3>4, <3>5
  <2> QED BY <2>1, <2>2 DEF DynamicInv
<1>7. CASE Raise
  BY <1>7 DEF Raise, End, DynamicInv
<1>8. CASE GoWrong
  <2>1. phase = "run" /\ HasNext /\ ~Fits(Stmt)
    BY <1>8 DEF GoWrong, Running
  <2>2. faulted
    BY <2>1, AlwaysFits DEF DynamicInv
  <2> QED BY <1>8, <2>2 DEF GoWrong, End, DynamicInv
<1>9. CASE UnitEnds
  <2>1. at = Len(unit) + 1
    BY <1>9, LenProperties DEF UnitEnds, HasNext, AtRoot, TypeOK
  <2>2. Known(backup, unit, at) = Facts(scope)
    BY <1>9, <2>1 DEF UnitEnds, StaticInv, Accepted
  <2>3. ~faulted => Describes(Facts(scope), env)
    BY <1>9, <2>2 DEF UnitEnds, DynamicInv, RunOK
  <2> QED BY <1>9, <2>3 DEF UnitEnds, End, DynamicInv
<1>10. CASE RestartShell
  BY <1>10 DEF RestartShell, DynamicInv
<1>11. CASE UNCHANGED vars
  BY <1>11 DEF vars, DynamicInv, RunOK
<1> QED
  BY <1>1, <1>2, <1>3, <1>4, <1>5, <1>6, <1>7, <1>8, <1>9, <1>10, <1>11 DEF Next

LEMMA DynamicInvariant ==
  ASSUME \A b \in Bodies : Tidy(b)
  PROVE  Spec => []DynamicInv
<1>1. Init => StaticInv /\ DynamicInv
  <2> SUFFICES ASSUME Init PROVE StaticInv /\ DynamicInv
    OBVIOUS
  <2>1. Facts(scope) = {} /\ Ready(scope) = {} /\ Plain(scope)
    BY DEF Init, Facts, Ready, Plain, Nothing, Entry, Declared
  <2>2. ScopeOK(scope) /\ Describes(Facts(scope), env)
    BY <2>1 DEF ScopeOK, Closed, Describes
  <2> QED BY <2>2 DEF Init, StaticInv, DynamicInv
<1> QED BY <1>1, StaticStep, DynamicStep, NestingInvariant, TypeCorrect, PTL DEF Spec

(***************************************************************************)
(* Garter's promise to its users, for any statements whose function bodies *)
(* are tidy, and sessions of any length: until an execution raises, or the *)
(* shell is restarted, no unit that was accepted meets a name that is not  *)
(* bound or a value of another type than was declared.                     *)
(***************************************************************************)
THEOREM TypesAreSound ==
  ASSUME \A b \in Bodies : Tidy(b)
  PROVE  Spec => []SoundUntilFault
<1>1. DynamicInv => SoundUntilFault
  BY DEF DynamicInv, SoundUntilFault
<1> QED BY <1>1, DynamicInvariant, PTL

\* Until then __main__ holds, between units, what the scope of the validator says.
THEOREM ScopeIsRight ==
  ASSUME \A b \in Bodies : Tidy(b)
  PROVE  Spec => []ScopeDescribesMain
<1>1. DynamicInv => ScopeDescribesMain
  <2>1. ASSUME DynamicInv, phase = "idle", ~faulted, NEW n \in Names, Declared(scope[n])
        PROVE  KindSubsumes(scope[n].ty, env[n].ty) /\ scope[n].body = env[n].body
    <3>1. Describes(Facts(scope), env)
      BY <2>1 DEF DynamicInv
    <3>2. \E g \in Facts(scope) : g.name = n /\ g.ty = scope[n].ty /\ g.body = scope[n].body
      BY <2>1, FactsAre
    <3> QED BY <3>1, <3>2 DEF Describes
  <2> QED BY <2>1 DEF ScopeDescribesMain
<1> QED BY <1>1, DynamicInvariant, PTL

-----------------------------------------------------------------------------
(* Types: recursion over how deep a type is nested *)

\* What a method can answer; a relation tells it of every call.
Answers == {"yes", "no", "raises"}
Relations == [MethodCalls -> Answers]

\* What the methods of this module are called on.
Shapes == MadeOf(TypeSet) \cup {NoType}

\* The classes of types.
Kinds == BasicKinds \cup {"list", "dict", "class", "module", "func", "None"}

\* The order that numbers are looked for in.
Less == {p \in Nat \X Nat : p[1] < p[2]}
LEMMA NumbersWellFounded == IsWellFoundedOn(Less, Nat)
BY NatLessThanWellFounded DEF OpToRel, Less

\* Every set of natural numbers that is not empty has a least element.
LEMMA LeastNumber ==
  ASSUME NEW S, S \subseteq Nat, S # {}
  PROVE  \E n \in S : \A m \in S : n <= m
<1>1. PICK n \in S : \A m \in S : ~(<<m, n>> \in Less)
  BY NumbersWellFounded, WFMin
<1>2. \A m \in S : ~(m < n)
  BY <1>1 DEF Less
<1>3. \A m \in S : n <= m
  BY <1>2
<1>4. QED
  BY <1>3

\* Induction over the natural numbers, for a set of them.
LEMMA AllNumbers ==
  ASSUME NEW S, 0 \in S, \A n \in Nat : n \in S => n + 1 \in S
  PROVE  Nat \subseteq S
<1>1. SUFFICES ASSUME Nat \ S # {} PROVE FALSE
  OBVIOUS
<1>2. PICK n \in Nat \ S : \A m \in Nat \ S : n <= m
  BY <1>1, LeastNumber
<1>3. n - 1 \in Nat
  BY <1>2
<1>4. n - 1 \in S
  BY <1>2, <1>3
<1>5. (n - 1) + 1 \in S
  BY <1>3, <1>4
<1>6. QED
  BY <1>2, <1>5

\* G[x][f] depends only on what f is on the arguments of a lower rank than x.
Descends(S, V, rank, G) ==
  /\ V # {}
  /\ rank \in [S -> Nat]
  /\ G \in [S -> [[S -> V] -> V]]
  /\ \A x \in S : \A f, g \in [S -> V] :
        (\A y \in S : rank[y] < rank[x] => f[y] = g[y]) => G[x][f] = G[x][g]

(***************************************************************************)
(* A function can be defined by recursion on the rank of its arguments.    *)
(***************************************************************************)
LEMMA Recursion ==
  ASSUME NEW S, NEW V, NEW rank, NEW G, Descends(S, V, rank, G)
  PROVE  \E f \in [S -> V] : \A x \in S : f[x] = G[x][f]
<1> USE DEF Descends
<1> DEFINE Right(f, n) == \A x \in S : rank[x] < n => f[x] = G[x][f]
           Reached == {n \in Nat : \E f \in [S -> V] : Right(f, n)}
<1>1. 0 \in Reached
  <2>1. PICK v \in V : TRUE
    OBVIOUS
  <2>2. [x \in S |-> v] \in [S -> V]
    OBVIOUS
  <2>3. Right([x \in S |-> v], 0)
    OBVIOUS
  <2> QED BY <2>2, <2>3
<1>2. ASSUME NEW n \in Nat, n \in Reached
      PROVE  n + 1 \in Reached
  <2>1. PICK f \in [S -> V] : Right(f, n)
    BY <1>2
  <2>2. DEFINE g == [x \in S |-> G[x][f]]
  <2>3. g \in [S -> V]
    OBVIOUS
  <2>4. \A y \in S : rank[y] < n => g[y] = f[y]
    BY <2>1
  <2>5. ASSUME NEW x \in S, rank[x] < n + 1
        PROVE  g[x] = G[x][g]
    <3>1. \A y \in S : rank[y] < rank[x] => f[y] = g[y]
      <4>1. \A y \in S : rank[y] < rank[x] => rank[y] < n
        BY <2>5
      <4> QED BY <2>4, <4>1
    <3> HIDE DEF g
    <3>2. G[x][f] = G[x][g]
      BY <2>3, <3>1
    <3> QED BY <3>2 DEF g
  <2>6. Right(g, n + 1)
    BY <2>5
  <2> HIDE DEF g
  <2> QED BY <2>3, <2>6
<1>3. \A n \in Nat : \E f \in [S -> V] : Right(f, n)
  <2> HIDE DEF Reached
  <2>1. Nat \subseteq Reached
    BY <1>1, <1>2, AllNumbers
  <2> QED BY <2>1 DEF Reached
<1>4. \A f, g \in [S -> V], m, n \in Nat : Right(f, m) /\ Right(g, n) =>
         \A x \in S : rank[x] < m /\ rank[x] < n => f[x] = g[x]
  <2>0. SUFFICES ASSUME NEW f \in [S -> V], NEW g \in [S -> V],
                        NEW m \in Nat, NEW n \in Nat, Right(f, m), Right(g, n)
                 PROVE  \A x \in S : rank[x] < m /\ rank[x] < n => f[x] = g[x]
    <3> HIDE DEF Right
    <3> QED OBVIOUS
  <2> DEFINE Wrong == {rank[x] : x \in {y \in S : rank[y] < m /\ rank[y] < n /\ f[y] # g[y]}}
  <2>1. SUFFICES ASSUME Wrong # {} PROVE FALSE
    OBVIOUS
  <2>2. PICK r \in Wrong : \A k \in Wrong : r <= k
    <3>1. Wrong \subseteq Nat
      OBVIOUS
    <3> HIDE DEF Wrong
    <3> QED BY <2>1, <3>1, LeastNumber
  <2>3. PICK x \in S : /\ rank[x] < m /\ rank[x] < n /\ f[x] # g[x]
                       /\ r = rank[x]
    BY <2>2
  <2>4. \A y \in S : rank[y] < rank[x] => f[y] = g[y]
    <3>1. ASSUME NEW y \in S, rank[y] < rank[x], f[y] # g[y]
          PROVE  FALSE
      <4>1. rank[y] < m /\ rank[y] < n
        BY <2>3, <3>1
      <4>2. rank[y] \in Wrong
        BY <3>1, <4>1
      <4>3. r <= rank[y]
        <5> HIDE DEF Wrong
        <5> QED BY <2>2, <4>2
      <4> HIDE DEF Wrong, Right
      <4>4. rank[x] \in Nat /\ rank[y] \in Nat
        OBVIOUS
      <4> QED BY <2>3, <3>1, <4>3, <4>4
    <3> QED BY <3>1
  <2>5. G[x][f] = G[x][g]
    BY <2>4
  <2> QED BY <2>0, <2>3, <2>5
<1>5. DEFINE At(x) == CHOOSE f \in [S -> V] : Right(f, rank[x] + 1)
             F     == [x \in S |-> At(x)[x]]
<1>6. \A x \in S : At(x) \in [S -> V] /\ Right(At(x), rank[x] + 1)
  <2> HIDE DEF Right
  <2>1. \A x \in S : \E f \in [S -> V] : Right(f, rank[x] + 1)
    BY <1>3
  <2> QED BY <2>1
<1>7. F \in [S -> V]
  <2> HIDE DEF At
  <2> QED BY <1>6
<1>8. ASSUME NEW x \in S PROVE F[x] = G[x][F]
  <2> HIDE DEF At
  <2>1. \A y \in S : rank[y] < rank[x] => At(x)[y] = F[y]
    <3>1. ASSUME NEW y \in S, rank[y] < rank[x]
          PROVE  At(x)[y] = At(y)[y]
      <4>1. rank[x] + 1 \in Nat /\ rank[y] + 1 \in Nat
        OBVIOUS
      <4>2. rank[y] < rank[x] + 1 /\ rank[y] < rank[y] + 1
        BY <3>1
      <4> HIDE DEF Right
      <4>3. PICK f \in [S -> V] : f = At(x) /\ Right(f, rank[x] + 1)
        BY <1>6
      <4>4. PICK g \in [S -> V] : g = At(y) /\ Right(g, rank[y] + 1)
        BY <1>6
      <4>5. \A z \in S : rank[z] < rank[x] + 1 /\ rank[z] < rank[y] + 1 => f[z] = g[z]
        <5>1. PICK i \in Nat : i = rank[x] + 1
          BY <4>1
        <5>2. PICK j \in Nat : j = rank[y] + 1
          BY <4>1
        <5>3. Right(f, i) /\ Right(g, j)
          BY <4>3, <4>4, <5>1, <5>2
        <5>4. \A z \in S : rank[z] < i /\ rank[z] < j => f[z] = g[z]
          <6>1. \A m, n \in Nat : Right(f, m) /\ Right(g, n) =>
                  \A z \in S : rank[z] < m /\ rank[z] < n => f[z] = g[z]
            BY <1>4
          <6> QED BY <5>3, <6>1
        <5> QED BY <5>1, <5>2, <5>4
      <4>6. f[y] = g[y]
        BY <4>2, <4>5
      <4> QED BY <4>3, <4>4, <4>6
    <3> QED BY <3>1
  <2>2. At(x)[x] = G[x][At(x)]
    BY <1>6
  <2>3. F[x] = At(x)[x]
    OBVIOUS
  <2> HIDE DEF F
  <2>4. G[x][At(x)] = G[x][F]
    BY <1>6, <1>7, <2>1
  <2> QED BY <2>2, <2>3, <2>4
<1> HIDE DEF F
<1> QED BY <1>7, <1>8

(***************************************************************************)
(* What a type is made of.                                                 *)
(***************************************************************************)
LEMMA ShapeOf ==
  ASSUME NEW t \in Shapes
  PROVE  /\ t.kind \in Kinds
         /\ t.kind = "None" <=> t = NoType
         /\ t.kind \in BasicKinds => t = Basic(t.kind)
         /\ t.kind = "list" => t = List(t.item) /\ t.item \in TypeSet
         /\ t.kind = "dict" => /\ t = Dict(t.key, t.value)
                               /\ t.key \in TypeSet /\ t.value \in TypeSet
         /\ t.kind = "class" => t = Class(t.fields)
         /\ t.kind = "func" => /\ t = Func(t.ret, t.args)
                               /\ t.ret \in TypeSet /\ t.args \in Seq(TypeSet)
<1>1. CASE t = NoType
  BY <1>1 DEF NoType, Kinds, BasicKinds
<1>2. CASE t \in [kind : BasicKinds]
  BY <1>2 DEF NoType, Kinds, BasicKinds, Basic
<1>3. CASE t \in [kind : {"list"}, item : TypeSet]
  BY <1>3 DEF NoType, Kinds, BasicKinds, List
<1>4. CASE t \in [kind : {"dict"}, key : TypeSet, value : TypeSet]
  BY <1>4 DEF NoType, Kinds, BasicKinds, Dict
<1>5. CASE t \in [kind : {"module"}, module : Fields]
  BY <1>5 DEF NoType, Kinds, BasicKinds
<1>6. CASE t \in [kind : {"class"}, fields : Fields \cup {NoFields}]
  BY <1>6 DEF NoType, Kinds, BasicKinds, Class
<1>7. CASE t \in [kind : {"func"}, ret : TypeSet, args : Seq(TypeSet)]
  BY <1>7 DEF NoType, Kinds, BasicKinds, Func
<1> QED BY <1>1, <1>2, <1>3, <1>4, <1>5, <1>6, <1>7 DEF Shapes, MadeOf

\* What Parts returns.
LEMMA PartsOf ==
  ASSUME NEW t \in Shapes
  PROVE  /\ t.kind = "list" => Parts(t) = {t.item}
         /\ t.kind = "dict" => Parts(t) = {t.key, t.value}
         /\ t.kind = "func" => /\ Parts(t) = {t.ret} \cup {t.args[i] : i \in DOMAIN t.args}
                               /\ \A i \in DOMAIN t.args : t.args[i] \in TypeSet
         /\ Parts(t) \subseteq TypeSet
<1>1. t.kind = "func" => \A i \in DOMAIN t.args : t.args[i] \in TypeSet
  <2>1. SUFFICES ASSUME t.kind = "func", NEW i \in DOMAIN t.args
                 PROVE  t.args[i] \in TypeSet
    OBVIOUS
  <2>2. t.args \in Seq(TypeSet)
    BY <2>1, ShapeOf
  <2> QED BY <2>1, <2>2, ElementOfSeq
<1>2. t.kind = "list" => Parts(t) = {t.item}
  BY DEF Parts
<1>3. t.kind = "dict" => Parts(t) = {t.key, t.value}
  BY DEF Parts
<1>4. t.kind = "func" => Parts(t) = {t.ret} \cup {t.args[i] : i \in DOMAIN t.args}
  BY DEF Parts
<1>5. t.kind \notin {"list", "dict", "func"} => Parts(t) = {}
  BY DEF Parts
<1>6. Parts(t) \subseteq TypeSet
  BY ShapeOf, <1>1, <1>2, <1>3, <1>4, <1>5
<1> QED BY <1>1, <1>2, <1>3, <1>4, <1>6

\* The types of the set are made of types of the set.
LEMMA TypeSetShapes == TypeSet \subseteq Shapes
BY TypesAssumption DEF Shapes

(***************************************************************************)
(* A loop over arguments.                                                  *)
(***************************************************************************)
LEMMA AndAllType ==
  ASSUME NEW s \in Seq(Answers)
  PROVE  /\ AndAll(s) \in Answers
         /\ AndAll(s) = "yes" <=> \A i \in DOMAIN s : s[i] = "yes"
<1>1. CASE \A i \in DOMAIN s : s[i] = "yes"
  BY <1>1 DEF AndAll, Answers
<1>2. CASE ~\A i \in DOMAIN s : s[i] = "yes"
  <2> DEFINE First(i) == /\ s[i] # "yes"
                         /\ \A j \in DOMAIN s : j < i => s[j] = "yes"
  <2>1. \E i \in DOMAIN s : First(i)
    <3> DEFINE B == {i \in DOMAIN s : s[i] # "yes"}
    <3>1. B \subseteq Nat /\ B # {}
      BY <1>2
    <3> HIDE DEF B
    <3>2. PICK n \in B : \A m \in B : n <= m
      BY <3>1, LeastNumber
    <3>3. n \in DOMAIN s /\ s[n] # "yes"
      BY DEF B
    <3>4. ASSUME NEW j \in DOMAIN s, j < n PROVE s[j] = "yes"
      <4>1. j \in B => n <= j
        BY <3>2
      <4>2. n \in Int /\ j \in Int
        BY <3>3
      <4> QED BY <3>4, <4>1, <4>2 DEF B
    <3> QED BY <3>3, <3>4
  <2>2. PICK i \in DOMAIN s : i = (CHOOSE k \in DOMAIN s : First(k)) /\ First(i)
    BY <2>1
  <2>3. AndAll(s) = s[i]
    BY <1>2, <2>2 DEF AndAll
  <2>4. s[i] \in Answers
    BY ElementOfSeq
  <2>5. s[i] # "yes"
    BY <2>2
  <2> HIDE DEF First
  <2> QED BY <1>2, <2>3, <2>4, <2>5
<1> QED BY <1>1, <1>2

\* The operator "and".
LEMMA AndType ==
  ASSUME NEW x \in Answers, NEW y \in Answers
  PROVE  /\ And(x, y) \in Answers
         /\ And(x, y) = "yes" <=> x = "yes" /\ y = "yes"
BY DEF And, Answers

\* A method that returns a bool.
LEMMA Bool3Type ==
  ASSUME NEW b \in BOOLEAN
  PROVE  /\ Bool3(b) \in Answers
         /\ Bool3(b) = "yes" <=> b
BY DEF Bool3, Answers

-----------------------------------------------------------------------------
(* What a method answers depends on the parts of the types *)

\* The methods that compare two types.
MethodNames == {"completes", "subsumes", "equal"}

\* Two relations that are the same between what a and b are made of.
Agree(R, Q, a, b) ==
  \A x \in Parts(a), y \in Parts(b) :
     /\ R[<<"completes", x, y>>] = Q[<<"completes", x, y>>]
     /\ R[<<"completes", y, x>>] = Q[<<"completes", y, x>>]
     /\ R[<<"subsumes", x, y>>] = Q[<<"subsumes", x, y>>]
     /\ R[<<"subsumes", y, x>>] = Q[<<"subsumes", y, x>>]
     /\ R[<<"equal", x, y>>] = Q[<<"equal", x, y>>]
     /\ R[<<"equal", y, x>>] = Q[<<"equal", y, x>>]

\* A relation answers each call.
LEMMA CallType ==
  ASSUME NEW R \in Relations, NEW m \in MethodNames, NEW x \in TypeSet, NEW y \in TypeSet
  PROVE  R[<<m, x, y>>] \in Answers
<1>1. <<m, x, y>> \in MethodCalls
  BY DEF MethodCalls, MethodNames
<1> QED BY <1>1 DEF Relations

\* Agree, with the types the other way round.
LEMMA AgreeSymmetric ==
  ASSUME NEW R, NEW Q, NEW a, NEW b, Agree(R, Q, a, b)
  PROVE  Agree(R, Q, b, a)
BY Zenon DEF Agree

\* What the methods of a list answer for the item.
LEMMA ItemLocal ==
  ASSUME NEW R \in Relations, NEW Q, NEW x \in TypeSet, NEW y \in TypeSet,
         R[<<"completes", x, y>>] = Q[<<"completes", x, y>>]
  PROVE  /\ ItemCompletes(R, x, y) = ItemCompletes(Q, x, y)
         /\ ItemCompletes(R, x, y) \in Answers
<1>1. R[<<"completes", x, y>>] \in Answers
  BY CallType DEF MethodNames
<1> QED BY <1>1 DEF ItemCompletes, Answers

\* What the methods of lists, dicts and classes answer.
LEMMA ContainerLocal ==
  ASSUME NEW R \in Relations, NEW Q, NEW a \in Shapes, NEW b \in Shapes,
         Agree(R, Q, a, b), a.kind \in {"list", "dict", "class"}
  PROVE  /\ ContainerCompletes(R, a, b) = ContainerCompletes(Q, a, b)
         /\ ContainerCompletes(R, a, b) \in Answers
<1>1. CASE a.kind = "list" /\ b.kind = "list"
  <2>1. a.item \in Parts(a) /\ b.item \in Parts(b) /\ a.item \in TypeSet /\ b.item \in TypeSet
    BY <1>1, ShapeOf, PartsOf
  <2>2. R[<<"completes", a.item, b.item>>] = Q[<<"completes", a.item, b.item>>]
    BY <2>1, Zenon DEF Agree
  <2> QED BY <1>1, <2>1, <2>2, ItemLocal DEF ContainerCompletes
<1>2. CASE a.kind = "dict" /\ b.kind = "dict"
  <2>1. /\ a.key \in Parts(a) /\ b.key \in Parts(b) /\ a.key \in TypeSet /\ b.key \in TypeSet
        /\ a.value \in Parts(a) /\ b.value \in Parts(b)
        /\ a.value \in TypeSet /\ b.value \in TypeSet
    BY <1>2, ShapeOf, PartsOf
  <2>2. R[<<"completes", a.key, b.key>>] = Q[<<"completes", a.key, b.key>>]
    BY <2>1, Zenon DEF Agree
  <2>3. R[<<"completes", a.value, b.value>>] = Q[<<"completes", a.value, b.value>>]
    BY <2>1, Zenon DEF Agree
  <2>4. R[<<"completes", a.key, b.key>>] \in Answers /\ R[<<"completes", a.value, b.value>>] \in Answers
    BY <2>1, CallType DEF MethodNames
  <2>5. And(R[<<"completes", a.key, b.key>>], R[<<"completes", a.value, b.value>>]) \in Answers
    BY <2>4, AndType
  <2>6. ASSUME NEW S
        PROVE  ContainerCompletes(S, a, b)
                 = IF b.key = NoType /\ b.value = NoType THEN "yes"
                   ELSE And(S[<<"completes", a.key, b.key>>], S[<<"completes", a.value, b.value>>])
    BY <1>2 DEF ContainerCompletes
  <2>7. CASE b.key = NoType /\ b.value = NoType
    BY <2>6, <2>7 DEF Answers
  <2>8. CASE ~(b.key = NoType /\ b.value = NoType)
    BY <2>2, <2>3, <2>5, <2>6, <2>8
  <2> QED BY <2>7, <2>8
<1>3. CASE a.kind = "class"
  BY <1>3 DEF ContainerCompletes, Bool3, Answers
<1>4. CASE a.kind = "list" /\ b.kind # "list"
  BY <1>4 DEF ContainerCompletes, Answers
<1>5. CASE a.kind = "dict" /\ b.kind # "dict"
  BY <1>5 DEF ContainerCompletes, Answers
<1> QED BY <1>1, <1>2, <1>3, <1>4, <1>5

\* The arguments of two functions that take as many.
LEMMA ArgumentsOf ==
  ASSUME NEW a \in Shapes, NEW b \in Shapes, a.kind = "func", b.kind = "func",
         Len(a.args) = Len(b.args)
  PROVE  /\ DOMAIN a.args = 1 .. Len(a.args) /\ DOMAIN b.args = DOMAIN a.args
         /\ Len(a.args) \in Nat
         /\ a.ret \in TypeSet /\ b.ret \in TypeSet
         /\ a.ret \in Parts(a) /\ b.ret \in Parts(b)
         /\ \A i \in DOMAIN a.args :
               /\ a.args[i] \in TypeSet /\ b.args[i] \in TypeSet
               /\ a.args[i] \in Parts(a) /\ b.args[i] \in Parts(b)
<1>1. /\ a.args \in Seq(TypeSet) /\ b.args \in Seq(TypeSet)
      /\ a.ret \in TypeSet /\ b.ret \in TypeSet
  BY ShapeOf
<1>2. /\ DOMAIN a.args = 1 .. Len(a.args) /\ DOMAIN b.args = DOMAIN a.args
      /\ Len(a.args) \in Nat
  BY <1>1
<1>3. /\ Parts(a) = {a.ret} \cup {a.args[i] : i \in DOMAIN a.args}
      /\ Parts(b) = {b.ret} \cup {b.args[i] : i \in DOMAIN b.args}
      /\ \A i \in DOMAIN a.args : a.args[i] \in TypeSet
      /\ \A i \in DOMAIN b.args : b.args[i] \in TypeSet
  BY PartsOf
<1> QED BY <1>1, <1>2, <1>3

\* What subsumes answers.
LEMMA SubsumesLocal ==
  ASSUME NEW R \in Relations, NEW Q, NEW a \in Shapes, NEW b \in Shapes,
         Agree(R, Q, a, b)
  PROVE  /\ SubsumesBy(R, a, b) = SubsumesBy(Q, a, b)
         /\ SubsumesBy(R, a, b) \in Answers
<1>1. CASE a.kind \in {"list", "dict", "class"}
  <2>1. /\ SubsumesBy(R, a, b) = ContainerCompletes(R, a, b)
        /\ SubsumesBy(Q, a, b) = ContainerCompletes(Q, a, b)
    BY <1>1 DEF SubsumesBy, BasicKinds
  <2> QED BY <1>1, <2>1, ContainerLocal
<1>2. CASE a.kind \in BasicKinds \cup {"module", "None"}
  BY <1>2 DEF SubsumesBy, BasicKinds, Bool3, Answers
<1>3. CASE a.kind = "func" /\ (b.kind # "func" \/ Len(a.args) # Len(b.args))
  BY <1>3 DEF SubsumesBy, BasicKinds, Bool3, And, Answers
<1>4. CASE a.kind = "func" /\ b.kind = "func" /\ Len(a.args) = Len(b.args)
  <2> DEFINE args(S) == [i \in DOMAIN a.args |-> S[<<"subsumes", b.args[i], a.args[i]>>]]
  <2>1. args(R) = args(Q)
    <3>1. ASSUME NEW i \in DOMAIN a.args
          PROVE  R[<<"subsumes", b.args[i], a.args[i]>>] = Q[<<"subsumes", b.args[i], a.args[i]>>]
      <4>1. a.args[i] \in Parts(a) /\ b.args[i] \in Parts(b)
        BY <1>4, ArgumentsOf
      <4> QED BY <4>1, Zenon DEF Agree
    <3> QED BY <3>1
  <2>2. args(R) \in Seq(Answers)
    <3>1. \A i \in 1 .. Len(a.args) : R[<<"subsumes", b.args[i], a.args[i]>>] \in Answers
      BY <1>4, ArgumentsOf, CallType DEF MethodNames
    <3>2. DOMAIN a.args = 1 .. Len(a.args) /\ Len(a.args) \in Nat
      BY <1>4, ArgumentsOf
    <3>3. args(R) = [i \in 1 .. Len(a.args) |-> R[<<"subsumes", b.args[i], a.args[i]>>]]
      BY <3>2
    <3> QED BY <3>1, <3>2, <3>3
  <2>3. R[<<"subsumes", a.ret, b.ret>>] = Q[<<"subsumes", a.ret, b.ret>>]
    <3>1. a.ret \in Parts(a) /\ b.ret \in Parts(b)
      BY <1>4, ArgumentsOf
    <3> QED BY <3>1, Zenon DEF Agree
  <2>4. R[<<"subsumes", a.ret, b.ret>>] \in Answers
    BY <1>4, ArgumentsOf, CallType DEF MethodNames
  <2>5. And(Bool3(TRUE), And(R[<<"subsumes", a.ret, b.ret>>], AndAll(args(R)))) \in Answers
    <3> HIDE DEF args
    <3> QED BY <2>2, <2>4, AndAllType, AndType, Bool3Type
  <2>6. SubsumesBy(R, a, b)
          = And(Bool3(TRUE), And(R[<<"subsumes", a.ret, b.ret>>], AndAll(args(R))))
    BY <1>4 DEF SubsumesBy, ArgsSubsume, BasicKinds
  <2>7. SubsumesBy(Q, a, b)
          = And(Bool3(TRUE), And(Q[<<"subsumes", a.ret, b.ret>>], AndAll(args(Q))))
    BY <1>4 DEF SubsumesBy, ArgsSubsume, BasicKinds
  <2> HIDE DEF args
  <2> QED BY <2>1, <2>3, <2>5, <2>6, <2>7
<1> QED BY <1>1, <1>2, <1>3, <1>4, ShapeOf DEF Kinds

\* What __eq__ answers.
LEMMA EqualLocal ==
  ASSUME NEW R \in Relations, NEW Q, NEW a \in Shapes, NEW b \in Shapes,
         Agree(R, Q, a, b)
  PROVE  /\ EqualBy(R, a, b) = EqualBy(Q, a, b)
         /\ EqualBy(R, a, b) \in Answers
<1>1. CASE "None" \in {a.kind, b.kind}
  BY <1>1 DEF EqualBy, Bool3, Answers
<1>2. CASE "None" \notin {a.kind, b.kind} /\ a.kind = "dict" /\ b.kind = "dict"
  <2>1. /\ a.key \in Parts(a) /\ b.key \in Parts(b) /\ a.key \in TypeSet /\ b.key \in TypeSet
        /\ a.value \in Parts(a) /\ b.value \in Parts(b)
        /\ a.value \in TypeSet /\ b.value \in TypeSet
    BY <1>2, ShapeOf, PartsOf
  <2>2. /\ R[<<"equal", a.key, b.key>>] = Q[<<"equal", a.key, b.key>>]
        /\ R[<<"equal", a.value, b.value>>] = Q[<<"equal", a.value, b.value>>]
    BY <2>1, Zenon DEF Agree
  <2>3. R[<<"equal", a.key, b.key>>] \in Answers /\ R[<<"equal", a.value, b.value>>] \in Answers
    BY <2>1, CallType DEF MethodNames
  <2>4. And(R[<<"equal", a.key, b.key>>], R[<<"equal", a.value, b.value>>]) \in Answers
    BY <2>3, AndType
  <2>5. EqualBy(R, a, b) = And(R[<<"equal", a.key, b.key>>], R[<<"equal", a.value, b.value>>])
    BY <1>2 DEF EqualBy
  <2>6. EqualBy(Q, a, b) = And(Q[<<"equal", a.key, b.key>>], Q[<<"equal", a.value, b.value>>])
    BY <1>2 DEF EqualBy
  <2> QED BY <2>2, <2>4, <2>5, <2>6
<1>3. CASE "None" \notin {a.kind, b.kind} /\ a.kind \in {"dict", "func"} /\ b.kind # a.kind
  BY <1>3 DEF EqualBy, Answers
<1>4. CASE a.kind = "func" /\ b.kind = "func" /\ Len(a.args) # Len(b.args)
  <2>1. R[<<"equal", a.ret, b.ret>>] = Q[<<"equal", a.ret, b.ret>>]
    <3>1. a.ret \in Parts(a) /\ b.ret \in Parts(b)
      BY <1>4, PartsOf
    <3> QED BY <3>1, Zenon DEF Agree
  <2>2. R[<<"equal", a.ret, b.ret>>] \in Answers
    BY <1>4, ShapeOf, CallType DEF MethodNames
  <2> QED BY <1>4, <2>1, <2>2 DEF EqualBy, And, Bool3, Answers
<1>5. CASE a.kind = "func" /\ b.kind = "func" /\ Len(a.args) = Len(b.args)
  <2> DEFINE args(S) == [i \in DOMAIN a.args |-> S[<<"equal", a.args[i], b.args[i]>>]]
  <2>1. args(R) = args(Q)
    <3>1. ASSUME NEW i \in DOMAIN a.args
          PROVE  R[<<"equal", a.args[i], b.args[i]>>] = Q[<<"equal", a.args[i], b.args[i]>>]
      <4>1. a.args[i] \in Parts(a) /\ b.args[i] \in Parts(b)
        BY <1>5, ArgumentsOf
      <4> QED BY <4>1, Zenon DEF Agree
    <3> QED BY <3>1
  <2>2. args(R) \in Seq(Answers)
    <3>1. \A i \in 1 .. Len(a.args) : R[<<"equal", a.args[i], b.args[i]>>] \in Answers
      BY <1>5, ArgumentsOf, CallType DEF MethodNames
    <3>2. DOMAIN a.args = 1 .. Len(a.args) /\ Len(a.args) \in Nat
      BY <1>5, ArgumentsOf
    <3>3. args(R) = [i \in 1 .. Len(a.args) |-> R[<<"equal", a.args[i], b.args[i]>>]]
      BY <3>2
    <3> QED BY <3>1, <3>2, <3>3
  <2>3. R[<<"equal", a.ret, b.ret>>] = Q[<<"equal", a.ret, b.ret>>]
    <3>1. a.ret \in Parts(a) /\ b.ret \in Parts(b)
      BY <1>5, ArgumentsOf
    <3> QED BY <3>1, Zenon DEF Agree
  <2>4. R[<<"equal", a.ret, b.ret>>] \in Answers
    BY <1>5, ArgumentsOf, CallType DEF MethodNames
  <2>5. And(R[<<"equal", a.ret, b.ret>>], And(Bool3(TRUE), AndAll(args(R)))) \in Answers
    <3> HIDE DEF args
    <3> QED BY <2>2, <2>4, AndAllType, AndType, Bool3Type
  <2>6. EqualBy(R, a, b)
          = And(R[<<"equal", a.ret, b.ret>>], And(Bool3(TRUE), AndAll(args(R))))
    BY <1>5 DEF EqualBy
  <2>7. EqualBy(Q, a, b)
          = And(Q[<<"equal", a.ret, b.ret>>], And(Bool3(TRUE), AndAll(args(Q))))
    BY <1>5 DEF EqualBy
  <2> HIDE DEF args
  <2> QED BY <2>1, <2>3, <2>5, <2>6, <2>7
<1>6. CASE "None" \notin {a.kind, b.kind} /\ a.kind \notin {"dict", "func"}
  <2>1. /\ EqualBy(R, a, b) = And(SubsumesBy(R, a, b), SubsumesBy(R, b, a))
        /\ EqualBy(Q, a, b) = And(SubsumesBy(Q, a, b), SubsumesBy(Q, b, a))
    BY <1>6 DEF EqualBy
  <2>2. /\ SubsumesBy(R, a, b) = SubsumesBy(Q, a, b)
        /\ SubsumesBy(R, a, b) \in Answers
    BY SubsumesLocal
  <2>3. /\ SubsumesBy(R, b, a) = SubsumesBy(Q, b, a)
        /\ SubsumesBy(R, b, a) \in Answers
    BY SubsumesLocal, AgreeSymmetric
  <2> QED BY <2>1, <2>2, <2>3, AndType
<1> QED BY <1>1, <1>2, <1>3, <1>4, <1>5, <1>6

\* What completes answers.
LEMMA CompletesLocal ==
  ASSUME NEW R \in Relations, NEW Q, NEW a \in Shapes, NEW b \in Shapes,
         Agree(R, Q, a, b)
  PROVE  /\ CompletesBy(R, a, b) = CompletesBy(Q, a, b)
         /\ CompletesBy(R, a, b) \in Answers
<1>1. CASE a.kind = "None"
  BY <1>1 DEF CompletesBy, Answers
<1>2. CASE a.kind \in {"list", "dict", "class"}
  BY <1>2, ContainerLocal DEF CompletesBy
<1>3. CASE a.kind \notin {"list", "dict", "class", "None"}
  <2>1. CompletesBy(R, a, b) = EqualBy(R, a, b) /\ CompletesBy(Q, a, b) = EqualBy(Q, a, b)
    BY <1>3 DEF CompletesBy
  <2> QED BY <2>1, EqualLocal
<1> QED BY <1>1, <1>2, <1>3

-----------------------------------------------------------------------------
(* The methods come to an end *)

\* How deep the types of a call are nested.
CallDepth == [c \in MethodCalls |-> Depth[c[2]] + Depth[c[3]]]

\* The parts of a type are nested less deep.
LEMMA PartsAreLower ==
  ASSUME NEW t \in TypeSet, NEW p \in Parts(t)
  PROVE  /\ p \in TypeSet
         /\ Depth[p] \in Nat /\ Depth[t] \in Nat
         /\ Depth[p] < Depth[t]
<1>1. p \in TypeSet
  BY PartsOf, TypeSetShapes
<1>2. Depth[p] < Depth[t]
  BY TypesAssumption
<1>3. Depth \in [TypeSet -> Nat]
  BY TypesAssumption
<1> QED BY <1>1, <1>2, <1>3

\* A method answers something if those that it calls do.
LEMMA AnswerType ==
  ASSUME NEW R \in Relations, NEW c \in MethodCalls
  PROVE  Answer(R, c) \in Answers
<1>1. PICK m \in MethodNames, a \in TypeSet, b \in TypeSet : c = <<m, a, b>>
  BY DEF MethodCalls, MethodNames
<1>2. a \in Shapes /\ b \in Shapes /\ Agree(R, R, a, b)
  BY TypeSetShapes DEF Agree
<1>3. /\ CompletesBy(R, a, b) \in Answers
      /\ SubsumesBy(R, a, b) \in Answers
      /\ EqualBy(R, a, b) \in Answers
  BY <1>2, CompletesLocal, SubsumesLocal, EqualLocal
<1> QED BY <1>1, <1>3 DEF Answer, MethodNames

\* A method answers what those it calls tell it to.
LEMMA AnswerLocal ==
  ASSUME NEW R \in Relations, NEW Q, NEW c \in MethodCalls,
         \A d \in MethodCalls : CallDepth[d] < CallDepth[c] => R[d] = Q[d]
  PROVE  Answer(R, c) = Answer(Q, c)
<1>1. PICK m \in MethodNames, a \in TypeSet, b \in TypeSet : c = <<m, a, b>>
  BY DEF MethodCalls, MethodNames
<1>2. CallDepth[c] = Depth[a] + Depth[b]
  BY <1>1 DEF CallDepth
<1>3. Agree(R, Q, a, b)
  <2>1. ASSUME NEW n \in MethodNames, NEW x \in Parts(a), NEW y \in Parts(b)
        PROVE  R[<<n, x, y>>] = Q[<<n, x, y>>] /\ R[<<n, y, x>>] = Q[<<n, y, x>>]
    <3>1. /\ x \in TypeSet /\ Depth[x] \in Nat /\ Depth[a] \in Nat /\ Depth[x] < Depth[a]
          /\ y \in TypeSet /\ Depth[y] \in Nat /\ Depth[b] \in Nat /\ Depth[y] < Depth[b]
      BY PartsAreLower
    <3>2. <<n, x, y>> \in MethodCalls /\ <<n, y, x>> \in MethodCalls
      BY <3>1 DEF MethodCalls, MethodNames
    <3>3. /\ CallDepth[<<n, x, y>>] = Depth[x] + Depth[y]
          /\ CallDepth[<<n, y, x>>] = Depth[y] + Depth[x]
      BY <3>2 DEF CallDepth
    <3>4. /\ CallDepth[<<n, x, y>>] < CallDepth[c]
          /\ CallDepth[<<n, y, x>>] < CallDepth[c]
      BY <1>2, <3>1, <3>3
    <3> QED BY <3>2, <3>4
  <2>2. "completes" \in MethodNames /\ "subsumes" \in MethodNames /\ "equal" \in MethodNames
    BY DEF MethodNames
  <2> QED BY <2>1, <2>2, Zenon DEF Agree
<1>4. a \in Shapes /\ b \in Shapes
  BY TypeSetShapes
<1>5. /\ CompletesBy(R, a, b) = CompletesBy(Q, a, b)
      /\ SubsumesBy(R, a, b) = SubsumesBy(Q, a, b)
      /\ EqualBy(R, a, b) = EqualBy(Q, a, b)
  BY <1>3, <1>4, CompletesLocal, SubsumesLocal, EqualLocal
<1> QED BY <1>1, <1>5 DEF Answer, MethodNames

(***************************************************************************)
(* The methods come to an end with an answer: Related is a function that   *)
(* answers every call as the method that is called does.                   *)
(***************************************************************************)
THEOREM MethodsAnswer ==
  /\ Related \in Relations
  /\ \A c \in MethodCalls : Related[c] = Answer(Related, c)
<1> DEFINE G == [c \in MethodCalls |-> [R \in Relations |-> Answer(R, c)]]
<1>1. G \in [MethodCalls -> [[MethodCalls -> Answers] -> Answers]]
  BY AnswerType DEF Relations
<1>2. CallDepth \in [MethodCalls -> Nat]
  BY TypesAssumption DEF CallDepth, MethodCalls
<1>3. \A c \in MethodCalls, R \in Relations : G[c][R] = Answer(R, c)
  OBVIOUS
<1> HIDE DEF G
<1>4. \A c \in MethodCalls : \A R, Q \in [MethodCalls -> Answers] :
         (\A d \in MethodCalls : CallDepth[d] < CallDepth[c] => R[d] = Q[d])
           => G[c][R] = G[c][Q]
  BY <1>3, AnswerLocal DEF Relations
<1>5. Answers # {}
  BY DEF Answers
<1>6. \E R \in [MethodCalls -> Answers] : \A c \in MethodCalls : R[c] = G[c][R]
  <2>1. Descends(MethodCalls, Answers, CallDepth, G)
    BY <1>1, <1>2, <1>4, <1>5 DEF Descends
  <2> QED BY <2>1, Recursion
<1>7. PICK R \in Relations : \A c \in MethodCalls : R[c] = Answer(R, c)
  BY <1>3, <1>6 DEF Relations
<1>8. R = [c \in MethodCalls |-> Answer(R, c)]
  BY <1>7 DEF Relations
<1>9. Related = [c \in MethodCalls |-> Answer(Related, c)]
  BY <1>8 DEF Related
<1>10. \A c \in MethodCalls : Related[c] = Answer(Related, c)
  BY <1>9
<1>11. \A c \in MethodCalls : Related[c] \in Answers
  <2> DEFINE Wrong == {CallDepth[c] : c \in {d \in MethodCalls : Related[d] \notin Answers}}
             right == [d \in MethodCalls |-> IF Related[d] \in Answers THEN Related[d] ELSE "no"]
  <2>1. SUFFICES ASSUME Wrong # {} PROVE FALSE
    OBVIOUS
  <2>2. PICK r \in Wrong : \A k \in Wrong : r <= k
    <3>1. Wrong \subseteq Nat
      BY <1>2
    <3> HIDE DEF Wrong
    <3> QED BY <2>1, <3>1, LeastNumber
  <2>3. PICK c \in MethodCalls : Related[c] \notin Answers /\ r = CallDepth[c]
    BY <2>2
  <2>4. right \in Relations
    BY DEF Relations, Answers
  <2>5. ASSUME NEW d \in MethodCalls, CallDepth[d] < CallDepth[c]
        PROVE  right[d] = Related[d]
    <3>1. CallDepth[d] \in Nat /\ CallDepth[c] \in Nat
      BY <1>2
    <3>2. CallDepth[d] \notin Wrong
      <4> HIDE DEF Wrong
      <4> QED BY <2>2, <2>3, <2>5, <3>1
    <3>3. Related[d] \in Answers
      BY <3>2
    <3> QED BY <3>3
  <2> HIDE DEF Wrong, right
  <2>6. Answer(right, c) = Answer(Related, c)
    BY <2>4, <2>5, AnswerLocal
  <2>7. Answer(right, c) \in Answers
    BY <2>4, AnswerType
  <2> QED BY <1>10, <2>3, <2>6, <2>7
<1>12. Related \in Relations
  BY <1>9, <1>11 DEF Relations
<1> QED BY <1>10, <1>12

(***************************************************************************)
(* is_complete comes to an end too.                                        *)
(***************************************************************************)
LEMMA CompleteAnswers ==
  /\ Complete \in [TypeSet -> BOOLEAN]
  /\ \A t \in TypeSet : Complete[t] = CompleteBy(Complete, t)
<1>1. Depth \in [TypeSet -> Nat]
  BY TypesAssumption
<1>2. ASSUME NEW R \in [TypeSet -> BOOLEAN], NEW t \in TypeSet
      PROVE  CompleteBy(R, t) \in BOOLEAN
  <2>1. /\ t.kind = "list" => t.item \in TypeSet
        /\ t.kind = "dict" => t.key \in TypeSet /\ t.value \in TypeSet
    BY ShapeOf, TypeSetShapes
  <2> QED BY <2>1 DEF CompleteBy
<1>3. ASSUME NEW R \in [TypeSet -> BOOLEAN], NEW Q, NEW t \in TypeSet,
             \A u \in TypeSet : Depth[u] < Depth[t] => R[u] = Q[u]
      PROVE  CompleteBy(R, t) = CompleteBy(Q, t)
  <2>1. \A p \in Parts(t) : R[p] = Q[p]
    BY <1>3, PartsAreLower
  <2>2. /\ t.kind = "list" => t.item \in Parts(t)
        /\ t.kind = "dict" => t.key \in Parts(t) /\ t.value \in Parts(t)
    BY PartsOf, TypeSetShapes
  <2> QED BY <2>1, <2>2 DEF CompleteBy
<1> DEFINE G == [t \in TypeSet |-> [R \in [TypeSet -> BOOLEAN] |-> CompleteBy(R, t)]]
<1>4. \A t \in TypeSet, R \in [TypeSet -> BOOLEAN] : G[t][R] = CompleteBy(R, t)
  OBVIOUS
<1>5. G \in [TypeSet -> [[TypeSet -> BOOLEAN] -> BOOLEAN]]
  BY <1>2
<1> HIDE DEF G
<1>6. Descends(TypeSet, BOOLEAN, Depth, G)
  <2>1. ASSUME NEW t \in TypeSet, NEW R \in [TypeSet -> BOOLEAN],
               NEW Q \in [TypeSet -> BOOLEAN],
               \A u \in TypeSet : Depth[u] < Depth[t] => R[u] = Q[u]
        PROVE  G[t][R] = G[t][Q]
    <3>1. CompleteBy(R, t) = CompleteBy(Q, t)
      BY <1>3, <2>1
    <3> QED BY <1>4, <3>1, Zenon
  <2>2. BOOLEAN # {}
    OBVIOUS
  <2> QED BY <1>1, <1>5, <2>1, <2>2, Zenon DEF Descends
<1>7. PICK R \in [TypeSet -> BOOLEAN] : \A t \in TypeSet : R[t] = CompleteBy(R, t)
  BY <1>4, <1>6, Recursion
<1>8. R = [t \in TypeSet |-> CompleteBy(R, t)]
  BY <1>7
<1>9. Complete = [t \in TypeSet |-> CompleteBy(Complete, t)]
  BY <1>8 DEF Complete
<1>10. \A t \in TypeSet : Complete[t] = CompleteBy(Complete, t)
  BY <1>9
<1>11. \A t \in TypeSet : Complete[t] \in BOOLEAN
  <2> DEFINE Wrong == {Depth[t] : t \in {u \in TypeSet : Complete[u] \notin BOOLEAN}}
             right == [u \in TypeSet |-> IF Complete[u] \in BOOLEAN THEN Complete[u] ELSE FALSE]
  <2>1. SUFFICES ASSUME Wrong # {} PROVE FALSE
    OBVIOUS
  <2>2. PICK r \in Wrong : \A k \in Wrong : r <= k
    <3>1. Wrong \subseteq Nat
      BY <1>1
    <3> HIDE DEF Wrong
    <3> QED BY <2>1, <3>1, LeastNumber
  <2>3. PICK t \in TypeSet : Complete[t] \notin BOOLEAN /\ r = Depth[t]
    BY <2>2
  <2>4. right \in [TypeSet -> BOOLEAN]
    OBVIOUS
  <2>5. ASSUME NEW u \in TypeSet, Depth[u] < Depth[t]
        PROVE  right[u] = Complete[u]
    <3>1. Depth[u] \in Nat /\ Depth[t] \in Nat
      BY <1>1
    <3>2. Depth[u] \notin Wrong
      <4> HIDE DEF Wrong
      <4> QED BY <2>2, <2>3, <2>5, <3>1
    <3>3. Complete[u] \in BOOLEAN
      BY <3>2
    <3> QED BY <3>3
  <2> HIDE DEF Wrong, right
  <2>6. CompleteBy(right, t) = CompleteBy(Complete, t)
    BY <1>3, <2>4, <2>5
  <2>7. CompleteBy(right, t) \in BOOLEAN
    BY <1>2, <2>4
  <2> QED BY <1>10, <2>3, <2>6, <2>7
<1> QED BY <1>9, <1>10, <1>11

-----------------------------------------------------------------------------
(* When the methods answer "yes" *)

(***************************************************************************)
(* What the relations between parts answer is what the methods answer.     *)
(***************************************************************************)
LEMMA PartsAnswer ==
  ASSUME NEW a \in TypeSet, NEW b \in TypeSet
  PROVE  /\ Related[<<"completes", a, b>>] = Completes(a, b)
         /\ Related[<<"subsumes", a, b>>] = Subsumes(a, b)
         /\ Related[<<"equal", a, b>>] = Equal(a, b)
<1>1. /\ <<"completes", a, b>> \in MethodCalls
      /\ <<"subsumes", a, b>> \in MethodCalls
      /\ <<"equal", a, b>> \in MethodCalls
  BY DEF MethodCalls
<1>2. /\ Related[<<"completes", a, b>>] = Answer(Related, <<"completes", a, b>>)
      /\ Related[<<"subsumes", a, b>>] = Answer(Related, <<"subsumes", a, b>>)
      /\ Related[<<"equal", a, b>>] = Answer(Related, <<"equal", a, b>>)
  BY <1>1, MethodsAnswer
<1> QED BY <1>2 DEF Answer, Completes, Subsumes, Equal

\* The methods answer, for types that are made of those in the set as well.
LEMMA AnswersOf ==
  ASSUME NEW a \in Shapes, NEW b \in Shapes
  PROVE  /\ Completes(a, b) \in Answers
         /\ Subsumes(a, b) \in Answers
         /\ Equal(a, b) \in Answers
<1>1. Agree(Related, Related, a, b)
  BY DEF Agree
<1> QED BY <1>1, MethodsAnswer, CompletesLocal, SubsumesLocal, EqualLocal
        DEF Completes, Subsumes, Equal

(***************************************************************************)
(* When the methods answer "yes".                                          *)
(***************************************************************************)
ItemYes(x, y) == y = NoType \/ Completes(x, y) = "yes"

\* ItemYes is what ItemCompletes says.
LEMMA ItemsYes ==
  ASSUME NEW x \in TypeSet, NEW y \in TypeSet
  PROVE  /\ ItemCompletes(Related, x, y) = "yes" <=> ItemYes(x, y)
         /\ ItemCompletes(Related, x, y) \in Answers
<1>1. Completes(x, y) \in Answers
  BY AnswersOf, TypeSetShapes
<1> QED BY <1>1, PartsAnswer DEF ItemCompletes, ItemYes, Answers

\* The same for lists, dicts and classes.
ContainerYes(a, b) ==
  /\ a.kind = "list" => b.kind = "list" /\ ItemYes(a.item, b.item)
  /\ a.kind = "dict" =>
       /\ b.kind = "dict"
       /\ \/ b.key = NoType /\ b.value = NoType
          \/ Completes(a.key, b.key) = "yes" /\ Completes(a.value, b.value) = "yes"
  /\ a.kind = "class" => b.kind = "class" /\ b.fields \in {NoFields, a.fields}

\* ContainerYes is what ContainerCompletes says.
LEMMA ContainersYes ==
  ASSUME NEW a \in Shapes, NEW b \in Shapes, a.kind \in {"list", "dict", "class"}
  PROVE  ContainerCompletes(Related, a, b) = "yes" <=> ContainerYes(a, b)
<1>1. CASE a.kind = "list" /\ b.kind = "list"
  <2>1. a.item \in TypeSet /\ b.item \in TypeSet
    BY <1>1, ShapeOf
  <2>2. ContainerCompletes(Related, a, b) = ItemCompletes(Related, a.item, b.item)
    BY <1>1 DEF ContainerCompletes
  <2> QED BY <1>1, <2>1, <2>2, ItemsYes DEF ContainerYes
<1>2. CASE a.kind = "dict" /\ b.kind = "dict"
  <2>1. a.key \in TypeSet /\ b.key \in TypeSet /\ a.value \in TypeSet /\ b.value \in TypeSet
    BY <1>2, ShapeOf
  <2>2. /\ Related[<<"completes", a.key, b.key>>] = Completes(a.key, b.key)
        /\ Related[<<"completes", a.value, b.value>>] = Completes(a.value, b.value)
        /\ Completes(a.key, b.key) \in Answers /\ Completes(a.value, b.value) \in Answers
    BY <2>1, PartsAnswer, AnswersOf, TypeSetShapes
  <2>3. ContainerCompletes(Related, a, b)
          = IF b.key = NoType /\ b.value = NoType THEN "yes"
            ELSE And(Completes(a.key, b.key), Completes(a.value, b.value))
    BY <1>2, <2>2 DEF ContainerCompletes
  <2>4. And(Completes(a.key, b.key), Completes(a.value, b.value)) = "yes"
          <=> Completes(a.key, b.key) = "yes" /\ Completes(a.value, b.value) = "yes"
    BY <2>2, AndType
  <2> QED BY <1>2, <2>3, <2>4 DEF ContainerYes
<1>3. CASE a.kind = "class"
  BY <1>3 DEF ContainerCompletes, ContainerYes, Bool3
<1>4. CASE a.kind \in {"list", "dict"} /\ b.kind # a.kind
  BY <1>4 DEF ContainerCompletes, ContainerYes
<1> QED BY <1>1, <1>2, <1>3, <1>4

\* subsumes
LEMMA SubsumesYes ==
  ASSUME NEW a \in Shapes, NEW b \in Shapes
  PROVE  /\ a.kind = "None" => Subsumes(a, b) # "yes"
         /\ a.kind = "float" => (Subsumes(a, b) = "yes" <=> b.kind \in {"float", "int"})
         /\ a.kind \in BasicKinds \ {"float"} => (Subsumes(a, b) = "yes" <=> b.kind = a.kind)
         /\ a.kind = "module" => (Subsumes(a, b) = "yes" <=> b = a)
         /\ a.kind \in {"list", "dict", "class"} => (Subsumes(a, b) = "yes" <=> ContainerYes(a, b))
         /\ a.kind = "func" =>
              (Subsumes(a, b) = "yes" <=>
                 /\ b.kind = "func" /\ Len(a.args) = Len(b.args)
                 /\ Subsumes(a.ret, b.ret) = "yes"
                 /\ \A i \in DOMAIN a.args : Subsumes(b.args[i], a.args[i]) = "yes")
<1>1. a.kind = "None" => Subsumes(a, b) # "yes"
  BY DEF Subsumes, SubsumesBy, BasicKinds
<1>2. a.kind = "float" => (Subsumes(a, b) = "yes" <=> b.kind \in {"float", "int"})
  BY DEF Subsumes, SubsumesBy, Bool3
<1>3. a.kind \in BasicKinds \ {"float"} => (Subsumes(a, b) = "yes" <=> b.kind = a.kind)
  BY DEF Subsumes, SubsumesBy, Bool3, BasicKinds
<1>4. a.kind \in {"list", "dict", "class"} => (Subsumes(a, b) = "yes" <=> ContainerYes(a, b))
  <2>1. a.kind \in {"list", "dict", "class"}
          => Subsumes(a, b) = ContainerCompletes(Related, a, b)
    BY DEF Subsumes, SubsumesBy, BasicKinds
  <2> QED BY <2>1, ContainersYes
<1>5. a.kind = "module" => (Subsumes(a, b) = "yes" <=> b = a)
  BY DEF Subsumes, SubsumesBy, Bool3, BasicKinds
<1>6. CASE a.kind = "func" /\ b.kind = "func" /\ Len(a.args) = Len(b.args)
  <2> DEFINE args == [i \in DOMAIN a.args |-> Related[<<"subsumes", b.args[i], a.args[i]>>]]
  <2>1. Subsumes(a, b)
          = And(Bool3(TRUE), And(Related[<<"subsumes", a.ret, b.ret>>], AndAll(args)))
    BY <1>6 DEF Subsumes, SubsumesBy, ArgsSubsume, BasicKinds
  <2>2. \A i \in DOMAIN a.args :
           Related[<<"subsumes", b.args[i], a.args[i]>>] = Subsumes(b.args[i], a.args[i])
    BY <1>6, ArgumentsOf, PartsAnswer
  <2>3. args \in Seq(Answers)
    <3>1. \A i \in DOMAIN a.args : Related[<<"subsumes", b.args[i], a.args[i]>>] \in Answers
      <4>1. ASSUME NEW i \in DOMAIN a.args PROVE Subsumes(b.args[i], a.args[i]) \in Answers
        BY <1>6, ArgumentsOf, AnswersOf, TypeSetShapes
      <4> QED BY <2>2, <4>1
    <3>2. DOMAIN a.args = 1 .. Len(a.args) /\ Len(a.args) \in Nat
      BY <1>6, ArgumentsOf
    <3>3. args = [i \in 1 .. Len(a.args) |-> Related[<<"subsumes", b.args[i], a.args[i]>>]]
      BY <3>2
    <3> QED BY <3>1, <3>2, <3>3
  <2>4. AndAll(args) = "yes" <=> \A i \in DOMAIN a.args : Subsumes(b.args[i], a.args[i]) = "yes"
    <3>1. AndAll(args) = "yes" <=> \A i \in DOMAIN args : args[i] = "yes"
      <4> HIDE DEF args
      <4> QED BY <2>3, AndAllType
    <3> QED BY <2>2, <3>1
  <2>5. AndAll(args) \in Answers
    <3> HIDE DEF args
    <3> QED BY <2>3, AndAllType
  <2>6. /\ Related[<<"subsumes", a.ret, b.ret>>] = Subsumes(a.ret, b.ret)
        /\ Subsumes(a.ret, b.ret) \in Answers
    <3>1. a.ret \in TypeSet /\ b.ret \in TypeSet
      BY <1>6, ArgumentsOf
    <3> QED BY <3>1, PartsAnswer, AnswersOf, TypeSetShapes
  <2> HIDE DEF args
  <2>7. Subsumes(a, b) = "yes" <=> Subsumes(a.ret, b.ret) = "yes" /\ AndAll(args) = "yes"
    <3>1. /\ And(Subsumes(a.ret, b.ret), AndAll(args)) \in Answers
          /\ And(Subsumes(a.ret, b.ret), AndAll(args)) = "yes"
               <=> Subsumes(a.ret, b.ret) = "yes" /\ AndAll(args) = "yes"
      BY <2>5, <2>6, AndType
    <3> QED BY <2>1, <2>6, <3>1 DEF And, Bool3
  <2> QED BY <1>6, <2>4, <2>7, <1>1, <1>2, <1>3, <1>4, <1>5
<1>7. CASE a.kind = "func" /\ ~(b.kind = "func" /\ Len(a.args) = Len(b.args))
  <2>1. Subsumes(a, b) = "no"
    BY <1>7 DEF Subsumes, SubsumesBy, BasicKinds, Bool3, And
  <2> QED BY <1>7, <2>1, <1>1, <1>2, <1>3, <1>4, <1>5
<1>8. CASE a.kind # "func"
  BY <1>1, <1>2, <1>3, <1>4, <1>8, <1>5
<1> QED BY <1>6, <1>7, <1>8

\* __eq__
LEMMA EqualYes ==
  ASSUME NEW a \in Shapes, NEW b \in Shapes
  PROVE  /\ a.kind = "None" => (Equal(a, b) = "yes" <=> b.kind = "None")
         /\ a.kind = "dict" =>
              (Equal(a, b) = "yes" <=>
                 /\ b.kind = "dict"
                 /\ Equal(a.key, b.key) = "yes" /\ Equal(a.value, b.value) = "yes")
         /\ a.kind = "func" =>
              (Equal(a, b) = "yes" <=>
                 /\ b.kind = "func" /\ Len(a.args) = Len(b.args)
                 /\ Equal(a.ret, b.ret) = "yes"
                 /\ \A i \in DOMAIN a.args : Equal(a.args[i], b.args[i]) = "yes")
         /\ a.kind \notin {"None", "dict", "func"} =>
              (Equal(a, b) = "yes" <=>
                 b.kind # "None" /\ Subsumes(a, b) = "yes" /\ Subsumes(b, a) = "yes")
<1>1. CASE a.kind = "None"
  BY <1>1 DEF Equal, EqualBy, Bool3
<1>2. CASE a.kind = "dict" /\ b.kind = "dict"
  <2>1. a.key \in TypeSet /\ b.key \in TypeSet /\ a.value \in TypeSet /\ b.value \in TypeSet
    BY <1>2, ShapeOf
  <2>2. /\ Related[<<"equal", a.key, b.key>>] = Equal(a.key, b.key)
        /\ Related[<<"equal", a.value, b.value>>] = Equal(a.value, b.value)
    BY <2>1, PartsAnswer
  <2>3. Equal(a.key, b.key) \in Answers /\ Equal(a.value, b.value) \in Answers
    BY <2>1, AnswersOf, TypeSetShapes
  <2>4. Equal(a, b) = And(Related[<<"equal", a.key, b.key>>], Related[<<"equal", a.value, b.value>>])
    BY <1>2 DEF Equal, EqualBy
  <2>5. Equal(a, b) = "yes" <=> Equal(a.key, b.key) = "yes" /\ Equal(a.value, b.value) = "yes"
    BY <2>2, <2>3, <2>4, AndType
  <2> QED BY <1>2, <2>5
<1>3. CASE a.kind \in {"dict", "func"} /\ b.kind # a.kind
  <2>1. Equal(a, b) = "no"
    BY <1>3 DEF Equal, EqualBy, Bool3
  <2> QED BY <1>3, <2>1
<1>4. CASE a.kind = "func" /\ b.kind = "func" /\ Len(a.args) # Len(b.args)
  <2>1. a.ret \in TypeSet /\ b.ret \in TypeSet
    BY <1>4, ShapeOf
  <2>2. Related[<<"equal", a.ret, b.ret>>] \in Answers
    BY <2>1, PartsAnswer, AnswersOf, TypeSetShapes
  <2>3. Equal(a, b) # "yes"
    BY <1>4, <2>2 DEF Equal, EqualBy, And, Bool3
  <2> QED BY <1>4, <2>3
<1>5. CASE a.kind = "func" /\ b.kind = "func" /\ Len(a.args) = Len(b.args)
  <2> DEFINE args == [i \in DOMAIN a.args |-> Related[<<"equal", a.args[i], b.args[i]>>]]
  <2>1. Equal(a, b)
          = And(Related[<<"equal", a.ret, b.ret>>], And(Bool3(TRUE), AndAll(args)))
    BY <1>5 DEF Equal, EqualBy
  <2>2. \A i \in DOMAIN a.args :
           Related[<<"equal", a.args[i], b.args[i]>>] = Equal(a.args[i], b.args[i])
    BY <1>5, ArgumentsOf, PartsAnswer
  <2>3. args \in Seq(Answers)
    <3>1. \A i \in DOMAIN a.args : Related[<<"equal", a.args[i], b.args[i]>>] \in Answers
      <4>1. ASSUME NEW i \in DOMAIN a.args PROVE Equal(a.args[i], b.args[i]) \in Answers
        BY <1>5, ArgumentsOf, AnswersOf, TypeSetShapes
      <4> QED BY <2>2, <4>1
    <3>2. DOMAIN a.args = 1 .. Len(a.args) /\ Len(a.args) \in Nat
      BY <1>5, ArgumentsOf
    <3>3. args = [i \in 1 .. Len(a.args) |-> Related[<<"equal", a.args[i], b.args[i]>>]]
      BY <3>2
    <3> QED BY <3>1, <3>2, <3>3
  <2>4. AndAll(args) = "yes" <=> \A i \in DOMAIN a.args : Equal(a.args[i], b.args[i]) = "yes"
    <3>1. AndAll(args) = "yes" <=> \A i \in DOMAIN args : args[i] = "yes"
      <4> HIDE DEF args
      <4> QED BY <2>3, AndAllType
    <3> QED BY <2>2, <3>1
  <2>5. AndAll(args) \in Answers
    <3> HIDE DEF args
    <3> QED BY <2>3, AndAllType
  <2>6. /\ Related[<<"equal", a.ret, b.ret>>] = Equal(a.ret, b.ret)
        /\ Equal(a.ret, b.ret) \in Answers
    <3>1. a.ret \in TypeSet /\ b.ret \in TypeSet
      BY <1>5, ArgumentsOf
    <3> QED BY <3>1, PartsAnswer, AnswersOf, TypeSetShapes
  <2> HIDE DEF args
  <2>7. Equal(a, b) = "yes" <=> Equal(a.ret, b.ret) = "yes" /\ AndAll(args) = "yes"
    <3>1. And(Bool3(TRUE), AndAll(args)) = AndAll(args)
      BY DEF And, Bool3
    <3> QED BY <2>1, <2>5, <2>6, <3>1, AndType
  <2> QED BY <1>5, <2>4, <2>7
<1>6. CASE a.kind \notin {"None", "dict", "func"} /\ b.kind = "None"
  <2>1. Equal(a, b) = "no"
    BY <1>6 DEF Equal, EqualBy, Bool3
  <2> QED BY <1>6, <2>1
<1>7. CASE a.kind \notin {"None", "dict", "func"} /\ b.kind # "None"
  <2>1. Equal(a, b) = And(Subsumes(a, b), Subsumes(b, a))
    BY <1>7 DEF Equal, EqualBy, Subsumes
  <2>2. Subsumes(a, b) \in Answers /\ Subsumes(b, a) \in Answers
    BY AnswersOf
  <2>3. Equal(a, b) = "yes" <=> Subsumes(a, b) = "yes" /\ Subsumes(b, a) = "yes"
    BY <2>1, <2>2, AndType
  <2> QED BY <1>7, <2>3
<1> QED BY <1>1, <1>2, <1>3, <1>4, <1>5, <1>6, <1>7

\* completes
LEMMA CompletesYes ==
  ASSUME NEW a \in Shapes, NEW b \in Shapes
  PROVE  /\ a.kind = "None" => Completes(a, b) # "yes"
         /\ a.kind \in {"list", "dict", "class"} =>
              (Completes(a, b) = "yes" <=> ContainerYes(a, b))
         /\ a.kind \in BasicKinds \cup {"func", "module"} =>
              (Completes(a, b) = "yes" <=> Equal(a, b) = "yes")
<1>1. a.kind = "None" => Completes(a, b) # "yes"
  BY DEF Completes, CompletesBy
<1>2. a.kind \in {"list", "dict", "class"} =>
        (Completes(a, b) = "yes" <=> ContainerYes(a, b))
  <2>1. a.kind \in {"list", "dict", "class"}
          => Completes(a, b) = ContainerCompletes(Related, a, b)
    BY DEF Completes, CompletesBy
  <2> QED BY <2>1, ContainersYes
<1>3. a.kind \in BasicKinds \cup {"func", "module"} =>
        (Completes(a, b) = "yes" <=> Equal(a, b) = "yes")
  BY DEF Completes, CompletesBy, Equal, BasicKinds
<1> QED BY <1>1, <1>2, <1>3

\* is_complete
LEMMA IsCompleteWhen ==
  ASSUME NEW t \in Shapes
  PROVE  /\ IsComplete(t) \in BOOLEAN
         /\ t.kind \in {"None", "module"} => ~IsComplete(t)
         /\ t.kind = "list" => (IsComplete(t) <=> IsComplete(t.item))
         /\ t.kind = "dict" => (IsComplete(t) <=> IsComplete(t.key) /\ IsComplete(t.value))
         /\ t.kind = "class" => (IsComplete(t) <=> t.fields # NoFields)
<1>1. \A u \in TypeSet : Complete[u] \in BOOLEAN /\ (Complete[u] <=> IsComplete(u))
  BY CompleteAnswers DEF IsComplete
<1>2. t.kind = "list" => t.item \in TypeSet /\ (IsComplete(t) <=> Complete[t.item])
  BY ShapeOf DEF IsComplete, CompleteBy
<1>3. t.kind = "dict" => /\ t.key \in TypeSet /\ t.value \in TypeSet
                         /\ IsComplete(t) <=> Complete[t.key] /\ Complete[t.value]
  BY ShapeOf DEF IsComplete, CompleteBy
<1>4. t.kind = "class" => (IsComplete(t) <=> t.fields # NoFields)
  BY DEF IsComplete, CompleteBy
<1>5. t.kind \in {"None", "module"} => ~IsComplete(t)
  BY DEF IsComplete, CompleteBy
<1>6. IsComplete(t) \in BOOLEAN
  BY <1>1, ShapeOf DEF IsComplete, CompleteBy
<1> QED BY <1>1, <1>2, <1>3, <1>4, <1>5, <1>6

-----------------------------------------------------------------------------
(* The relations, by induction *)

(***************************************************************************)
(* What the relations are between the types of a set: types that are equal *)
(* or complete one another are the same, and so are complete types one of  *)
(* which completes the other; completes implies that a value is admitted; *)
(* subsumes and completes are transitive.                                  *)
(***************************************************************************)
Implied(a, b) ==
  /\ Equal(a, b) = "yes" => a = b
  /\ Completes(a, b) = "yes" /\ Completes(b, a) = "yes" => a = b
  /\ Completes(a, b) = "yes" => Admits(a, b)
  /\ IsComplete(a) /\ IsComplete(b) /\ Completes(a, b) = "yes" => a = b

Transitive(a, b, c) ==
  /\ Subsumes(a, b) = "yes" /\ Subsumes(b, c) = "yes" => Subsumes(a, c) = "yes"
  /\ Completes(a, b) = "yes" /\ Completes(b, c) = "yes" => Completes(a, c) = "yes"

WellBehaved(D) ==
  /\ \A x, y \in D : Implied(x, y)
  /\ \A x, y, z \in D : Transitive(x, y, z)

\* None is the only type of its kind.
LEMMA NoneIsOne ==
  ASSUME NEW t \in Shapes
  PROVE  /\ t = NoType => t.kind = "None"
         /\ t.kind = "None" => t = NoType
         /\ t.kind \in Kinds
BY ShapeOf

\* None completes nothing, and is subsumed by nothing.
LEMMA NoneIsNot ==
  ASSUME NEW t \in Shapes
  PROVE  /\ Completes(NoType, t) # "yes"
         /\ Subsumes(NoType, t) # "yes"
         /\ Subsumes(t, NoType) # "yes"
<1>1. NoType \in Shapes /\ NoType.kind = "None"
  BY DEF Shapes, NoType
<1>2. Completes(NoType, t) # "yes" /\ Subsumes(NoType, t) # "yes"
  BY <1>1, CompletesYes, SubsumesYes
<1>3. ASSUME Subsumes(t, NoType) = "yes" PROVE FALSE
  <2>1. CASE t.kind \in BasicKinds
    BY <1>1, <1>3, <2>1, SubsumesYes DEF BasicKinds
  <2>2. CASE t.kind \in {"list", "dict", "class"}
    <3>1. ContainerYes(t, NoType)
      BY <1>1, <1>3, <2>2, SubsumesYes
    <3> QED BY <1>1, <2>2, <3>1 DEF ContainerYes
  <2>3. CASE t.kind \in {"func", "module", "None"}
    BY <1>1, <1>3, <2>3, SubsumesYes
  <2> QED BY <2>1, <2>2, <2>3, NoneIsOne DEF Kinds
<1> QED BY <1>2, <1>3

\* Types that are equal are of the same class.
LEMMA EqualKinds ==
  ASSUME NEW a \in Shapes, NEW b \in Shapes, Equal(a, b) = "yes"
  PROVE  a.kind = b.kind
<1>1. CASE a.kind \in {"None", "dict", "func"}
  BY <1>1, EqualYes
<1>2. CASE a.kind \in {"list", "class"}
  <2>1. ContainerYes(a, b)
    BY <1>2, EqualYes, SubsumesYes
  <2> QED BY <1>2, <2>1 DEF ContainerYes
<1>3. CASE a.kind \in BasicKinds
  <2>1. Subsumes(a, b) = "yes" /\ Subsumes(b, a) = "yes"
    BY <1>3, EqualYes DEF BasicKinds
  <2>2. b.kind = a.kind \/ (a.kind = "float" /\ b.kind = "int")
    BY <1>3, <2>1, SubsumesYes DEF BasicKinds
  <2>3. b.kind = "int" => a.kind = "int"
    BY <2>1, SubsumesYes DEF BasicKinds
  <2> QED BY <2>2, <2>3
<1>4. CASE a.kind = "module"
  BY <1>4, EqualYes, SubsumesYes
<1> QED BY <1>1, <1>2, <1>3, <1>4, NoneIsOne DEF Kinds

\* Lists, dicts and classes that complete one another are the same,
LEMMA ContainersBothWays ==
  ASSUME NEW D, D \subseteq TypeSet, WellBehaved(D), NEW a \in Shapes, NEW b \in Shapes,
         Parts(a) \subseteq D, Parts(b) \subseteq D, a.kind \in {"list", "dict", "class"},
         ContainerYes(a, b), ContainerYes(b, a)
  PROVE  a = b
<1>1. \A x, y \in D : Implied(x, y)
  BY DEF WellBehaved
<1>2. \A x \in D : Completes(NoType, x) # "yes"
  BY NoneIsNot, TypeSetShapes
<1>3. CASE a.kind = "list"
  <2>1. b.kind = "list" /\ ItemYes(a.item, b.item) /\ ItemYes(b.item, a.item)
    BY <1>3 DEF ContainerYes
  <2>2. a.item \in D /\ b.item \in D
    BY <1>3, <2>1, PartsOf
  <2>3. a.item = b.item
    BY <1>1, <1>2, <2>1, <2>2 DEF ItemYes, Implied
  <2>4. a = List(a.item) /\ b = List(b.item)
    BY <1>3, <2>1, ShapeOf
  <2> QED BY <2>3, <2>4
<1>4. CASE a.kind = "dict"
  <2>1. /\ b.kind = "dict"
        /\ \/ b.key = NoType /\ b.value = NoType
           \/ Completes(a.key, b.key) = "yes" /\ Completes(a.value, b.value) = "yes"
        /\ \/ a.key = NoType /\ a.value = NoType
           \/ Completes(b.key, a.key) = "yes" /\ Completes(b.value, a.value) = "yes"
    BY <1>4 DEF ContainerYes
  <2>2. a.key \in D /\ b.key \in D /\ a.value \in D /\ b.value \in D
    BY <1>4, <2>1, PartsOf
  <2>3. a.key = b.key /\ a.value = b.value
    BY <1>1, <1>2, <2>1, <2>2 DEF Implied
  <2>4. a = Dict(a.key, a.value) /\ b = Dict(b.key, b.value)
    BY <1>4, <2>1, ShapeOf
  <2> QED BY <2>3, <2>4
<1>5. CASE a.kind = "class"
  <2>1. b.kind = "class" /\ b.fields \in {NoFields, a.fields} /\ a.fields \in {NoFields, b.fields}
    BY <1>5 DEF ContainerYes
  <2>2. a = Class(a.fields) /\ b = Class(b.fields)
    BY <1>5, <2>1, ShapeOf
  <2> QED BY <2>1, <2>2
<1> QED BY <1>3, <1>4, <1>5

\* ... and so are types that are equal.
LEMMA EqualStep ==
  ASSUME NEW D, D \subseteq TypeSet, WellBehaved(D), NEW a \in Shapes, NEW b \in Shapes,
         Parts(a) \subseteq D, Parts(b) \subseteq D, Equal(a, b) = "yes"
  PROVE  a = b
<1>1. \A x, y \in D : Equal(x, y) = "yes" => x = y
  BY DEF WellBehaved, Implied
<1>2. a.kind = b.kind
  BY EqualKinds
<1>3. CASE a.kind = "None"
  BY <1>2, <1>3, NoneIsOne
<1>4. CASE a.kind = "dict"
  <2>1. a.key \in D /\ a.value \in D /\ b.key \in D /\ b.value \in D
    BY <1>2, <1>4, PartsOf
  <2>2. Equal(a.key, b.key) = "yes" /\ Equal(a.value, b.value) = "yes"
    BY <1>4, EqualYes
  <2>3. a = Dict(a.key, a.value) /\ b = Dict(b.key, b.value)
    BY <1>2, <1>4, ShapeOf
  <2> QED BY <1>1, <2>1, <2>2, <2>3
<1>5. CASE a.kind = "func"
  <2>1. /\ Len(a.args) = Len(b.args)
        /\ Equal(a.ret, b.ret) = "yes"
        /\ \A i \in DOMAIN a.args : Equal(a.args[i], b.args[i]) = "yes"
    BY <1>5, EqualYes
  <2>2. /\ a.ret \in D /\ b.ret \in D /\ DOMAIN b.args = DOMAIN a.args
        /\ \A i \in DOMAIN a.args : a.args[i] \in D /\ b.args[i] \in D
    BY <1>2, <1>5, <2>1, ArgumentsOf
  <2>3. a.ret = b.ret /\ \A i \in DOMAIN a.args : a.args[i] = b.args[i]
    BY <1>1, <2>1, <2>2
  <2>4. /\ a = Func(a.ret, a.args) /\ a.args \in Seq(TypeSet)
        /\ b = Func(b.ret, b.args) /\ b.args \in Seq(TypeSet)
    BY <1>2, <1>5, ShapeOf
  <2>5. a.args = b.args
    BY <2>1, <2>3, <2>4
  <2> QED BY <2>3, <2>4, <2>5
<1>6. CASE a.kind \in {"list", "class"}
  <2>1. ContainerYes(a, b) /\ ContainerYes(b, a)
    BY <1>2, <1>6, EqualYes, SubsumesYes
  <2> QED BY <1>6, <2>1, ContainersBothWays
<1>7. CASE a.kind \in BasicKinds
  BY <1>2, <1>7, ShapeOf
<1>8. CASE a.kind = "module"
  BY <1>8, EqualYes, SubsumesYes
<1> QED BY <1>3, <1>4, <1>5, <1>6, <1>7, <1>8, NoneIsOne DEF Kinds

\* What the relations of a and b imply, from those of their parts.
LEMMA ImpliedStep ==
  ASSUME NEW D, D \subseteq TypeSet, WellBehaved(D), NEW a \in Shapes, NEW b \in Shapes,
         Parts(a) \subseteq D, Parts(b) \subseteq D
  PROVE  Implied(a, b)
<1>1. \A x, y \in D : Implied(x, y)
  BY DEF WellBehaved
<1>2. Equal(a, b) = "yes" => a = b
  BY EqualStep
<1>3. CASE a.kind \in {"list", "dict", "class"}
  <2>1. /\ Completes(a, b) = "yes" <=> ContainerYes(a, b)
        /\ Subsumes(a, b) = "yes" <=> ContainerYes(a, b)
    BY <1>3, CompletesYes, SubsumesYes
  <2>2. ContainerYes(a, b) => b.kind = a.kind
    BY <1>3 DEF ContainerYes
  <2>3. Completes(a, b) = "yes" /\ Completes(b, a) = "yes" => a = b
    <3>1. b.kind = a.kind => (Completes(b, a) = "yes" <=> ContainerYes(b, a))
      BY <1>3, CompletesYes
    <3> QED BY <1>3, <2>1, <2>2, <3>1, ContainersBothWays
  <2>4. ASSUME IsComplete(a), IsComplete(b), ContainerYes(a, b) PROVE a = b
    <3>0. \A x \in D : IsComplete(x) => x # NoType
      BY IsCompleteWhen, NoneIsOne, TypeSetShapes
    <3>1. CASE a.kind = "list"
      <4>1. b.kind = "list" /\ ItemYes(a.item, b.item)
        BY <2>4, <3>1 DEF ContainerYes
      <4>2. a.item \in D /\ b.item \in D
        BY <3>1, <4>1, PartsOf
      <4>3. IsComplete(a.item) /\ IsComplete(b.item)
        BY <2>4, <3>1, <4>1, IsCompleteWhen
      <4>4. a.item = b.item
        BY <1>1, <3>0, <4>1, <4>2, <4>3 DEF ItemYes, Implied
      <4>5. a = List(a.item) /\ b = List(b.item)
        BY <3>1, <4>1, ShapeOf
      <4> QED BY <4>4, <4>5
    <3>2. CASE a.kind = "dict"
      <4>1. /\ b.kind = "dict"
            /\ \/ b.key = NoType /\ b.value = NoType
               \/ Completes(a.key, b.key) = "yes" /\ Completes(a.value, b.value) = "yes"
        BY <2>4, <3>2 DEF ContainerYes
      <4>2. a.key \in D /\ b.key \in D /\ a.value \in D /\ b.value \in D
        BY <3>2, <4>1, PartsOf
      <4>3. /\ IsComplete(a.key) /\ IsComplete(b.key)
            /\ IsComplete(a.value) /\ IsComplete(b.value)
        BY <2>4, <3>2, <4>1, IsCompleteWhen
      <4>4. a.key = b.key /\ a.value = b.value
        BY <1>1, <3>0, <4>1, <4>2, <4>3 DEF Implied
      <4>5. a = Dict(a.key, a.value) /\ b = Dict(b.key, b.value)
        BY <3>2, <4>1, ShapeOf
      <4> QED BY <4>4, <4>5
    <3>3. CASE a.kind = "class"
      <4>1. b.kind = "class" /\ b.fields \in {NoFields, a.fields}
        BY <2>4, <3>3 DEF ContainerYes
      <4>2. b.fields = a.fields
        BY <2>4, <4>1, IsCompleteWhen
      <4>3. a = Class(a.fields) /\ b = Class(b.fields)
        BY <3>3, <4>1, ShapeOf
      <4> QED BY <4>2, <4>3
    <3> QED BY <1>3, <3>1, <3>2, <3>3
  <2> QED BY <1>2, <2>1, <2>3, <2>4 DEF Implied, Admits
<1>4. CASE a.kind \in BasicKinds \cup {"func", "module"}
  <2>1. Completes(a, b) = "yes" => a = b
    BY <1>2, <1>4, CompletesYes
  <2> QED BY <1>2, <2>1 DEF Implied, Admits
<1>5. CASE a.kind = "None"
  <2>1. Completes(a, b) # "yes"
    BY <1>5, CompletesYes
  <2> QED BY <1>2, <2>1 DEF Implied
<1> QED BY <1>3, <1>4, <1>5, NoneIsOne DEF Kinds

\* Transitivity, for lists, dicts and classes from that for their parts.
LEMMA ContainersTransitive ==
  ASSUME NEW D, D \subseteq TypeSet, WellBehaved(D),
         NEW a \in Shapes, NEW b \in Shapes, NEW c \in Shapes,
         Parts(a) \subseteq D, Parts(b) \subseteq D, Parts(c) \subseteq D,
         a.kind \in {"list", "dict", "class"}, ContainerYes(a, b), ContainerYes(b, c)
  PROVE  ContainerYes(a, c)
<1>0. \A x \in D : Completes(NoType, x) # "yes"
  BY NoneIsNot, TypeSetShapes
<1>1. \A x, y, z \in D :
         Completes(x, y) = "yes" /\ Completes(y, z) = "yes" => Completes(x, z) = "yes"
  BY DEF WellBehaved, Transitive
<1>2. CASE a.kind = "list"
  <2>1. b.kind = "list" /\ ItemYes(a.item, b.item)
    BY <1>2 DEF ContainerYes
  <2>2. c.kind = "list" /\ ItemYes(b.item, c.item)
    BY <2>1 DEF ContainerYes
  <2>3. a.item \in D /\ b.item \in D /\ c.item \in D
    BY <1>2, <2>1, <2>2, PartsOf
  <2>4. ItemYes(a.item, c.item)
    BY <1>0, <1>1, <2>1, <2>2, <2>3 DEF ItemYes
  <2> QED BY <1>2, <2>2, <2>4 DEF ContainerYes
<1>3. CASE a.kind = "dict"
  <2>1. /\ b.kind = "dict"
        /\ \/ b.key = NoType /\ b.value = NoType
           \/ Completes(a.key, b.key) = "yes" /\ Completes(a.value, b.value) = "yes"
    BY <1>3 DEF ContainerYes
  <2>2. /\ c.kind = "dict"
        /\ \/ c.key = NoType /\ c.value = NoType
           \/ Completes(b.key, c.key) = "yes" /\ Completes(b.value, c.value) = "yes"
    BY <2>1 DEF ContainerYes
  <2>3. /\ a.key \in D /\ b.key \in D /\ c.key \in D
        /\ a.value \in D /\ b.value \in D /\ c.value \in D
    BY <1>3, <2>1, <2>2, PartsOf
  <2>4. \/ c.key = NoType /\ c.value = NoType
        \/ Completes(a.key, c.key) = "yes" /\ Completes(a.value, c.value) = "yes"
    BY <1>0, <1>1, <2>1, <2>2, <2>3
  <2> QED BY <1>3, <2>2, <2>4 DEF ContainerYes
<1>4. CASE a.kind = "class"
  BY <1>4 DEF ContainerYes
<1> QED BY <1>2, <1>3, <1>4

\* ... and for subsumes,
LEMMA SubsumesTransitive ==
  ASSUME NEW D, D \subseteq TypeSet, WellBehaved(D),
         NEW a \in Shapes, NEW b \in Shapes, NEW c \in Shapes,
         Parts(a) \subseteq D, Parts(b) \subseteq D, Parts(c) \subseteq D,
         Subsumes(a, b) = "yes", Subsumes(b, c) = "yes"
  PROVE  Subsumes(a, c) = "yes"
<1>1. CASE a.kind = "float"
  <2>1. b.kind \in {"float", "int"}
    BY <1>1, SubsumesYes
  <2>2. c.kind \in {"float", "int"}
    BY <2>1, SubsumesYes DEF BasicKinds
  <2> QED BY <1>1, <2>2, SubsumesYes
<1>2. CASE a.kind \in BasicKinds \ {"float"}
  <2>1. b.kind = a.kind
    BY <1>2, SubsumesYes
  <2>2. c.kind = b.kind
    BY <1>2, <2>1, SubsumesYes
  <2> QED BY <1>2, <2>1, <2>2, SubsumesYes
<1>3. CASE a.kind \in {"list", "dict", "class"}
  <2>1. ContainerYes(a, b)
    BY <1>3, SubsumesYes
  <2>2. b.kind = a.kind
    BY <1>3, <2>1 DEF ContainerYes
  <2>3. ContainerYes(b, c)
    BY <1>3, <2>2, SubsumesYes
  <2>4. ContainerYes(a, c)
    BY <1>3, <2>1, <2>3, ContainersTransitive
  <2> QED BY <1>3, <2>4, SubsumesYes
<1>4. CASE a.kind = "func"
  <2>1. /\ b.kind = "func" /\ Len(a.args) = Len(b.args)
        /\ Subsumes(a.ret, b.ret) = "yes"
        /\ \A i \in DOMAIN a.args : Subsumes(b.args[i], a.args[i]) = "yes"
    BY <1>4, SubsumesYes
  <2>2. /\ c.kind = "func" /\ Len(b.args) = Len(c.args)
        /\ Subsumes(b.ret, c.ret) = "yes"
        /\ \A i \in DOMAIN b.args : Subsumes(c.args[i], b.args[i]) = "yes"
    BY <2>1, SubsumesYes
  <2>3. /\ a.ret \in D /\ b.ret \in D /\ DOMAIN b.args = DOMAIN a.args
        /\ \A i \in DOMAIN a.args : a.args[i] \in D /\ b.args[i] \in D
    BY <1>4, <2>1, ArgumentsOf
  <2>4. /\ c.ret \in D
        /\ \A i \in DOMAIN b.args : c.args[i] \in D
    BY <2>1, <2>2, ArgumentsOf
  <2>5. Subsumes(a.ret, c.ret) = "yes"
    <3>1. Transitive(a.ret, b.ret, c.ret)
      BY <2>3, <2>4 DEF WellBehaved
    <3> QED BY <2>1, <2>2, <3>1 DEF Transitive
  <2>6. ASSUME NEW i \in DOMAIN a.args PROVE Subsumes(c.args[i], a.args[i]) = "yes"
    <3>1. Transitive(c.args[i], b.args[i], a.args[i])
      BY <2>3, <2>4 DEF WellBehaved
    <3> QED BY <2>1, <2>2, <2>3, <3>1 DEF Transitive
  <2> QED BY <1>4, <2>1, <2>2, <2>5, <2>6, SubsumesYes
<1>5. CASE a.kind \in {"module", "None"}
  BY <1>5, SubsumesYes
<1> QED BY <1>1, <1>2, <1>3, <1>4, <1>5, NoneIsOne DEF Kinds

\* ... and for both relations.
LEMMA TransitiveStep ==
  ASSUME NEW D, D \subseteq TypeSet, WellBehaved(D),
         NEW a \in Shapes, NEW b \in Shapes, NEW c \in Shapes,
         Parts(a) \subseteq D, Parts(b) \subseteq D, Parts(c) \subseteq D
  PROVE  Transitive(a, b, c)
<1>1. ASSUME Completes(a, b) = "yes", Completes(b, c) = "yes"
      PROVE  Completes(a, c) = "yes"
  <2>1. CASE a.kind \in {"list", "dict", "class"}
    <3>1. ContainerYes(a, b)
      BY <1>1, <2>1, CompletesYes
    <3>2. b.kind = a.kind
      BY <2>1, <3>1 DEF ContainerYes
    <3>3. ContainerYes(b, c)
      BY <1>1, <2>1, <3>2, CompletesYes
    <3>4. ContainerYes(a, c)
      BY <2>1, <3>1, <3>3, ContainersTransitive
    <3> QED BY <2>1, <3>4, CompletesYes
  <2>2. CASE a.kind \in BasicKinds \cup {"func", "module"}
    <3>1. Equal(a, b) = "yes"
      BY <1>1, <2>2, CompletesYes
    <3>2. a = b
      BY <3>1, EqualStep
    <3> QED BY <1>1, <3>2
  <2>3. CASE a.kind = "None"
    BY <1>1, <2>3, CompletesYes
  <2> QED BY <2>1, <2>2, <2>3, NoneIsOne DEF Kinds
<1>2. Subsumes(a, b) = "yes" /\ Subsumes(b, c) = "yes" => Subsumes(a, c) = "yes"
  BY SubsumesTransitive
<1> QED BY <1>1, <1>2 DEF Transitive

\* The types that are nested less than n deep.
Shallower(n) == {t \in TypeSet : Depth[t] < n}

\* What those that are nested deeper are made of.
LEMMA ShallowerParts ==
  ASSUME NEW n \in Nat, NEW t \in Shallower(n + 1)
  PROVE  t \in Shapes /\ Parts(t) \subseteq Shallower(n)
<1>1. t \in TypeSet /\ Depth[t] < n + 1
  BY DEF Shallower
<1>2. ASSUME NEW p \in Parts(t) PROVE p \in Shallower(n)
  <2>1. p \in TypeSet /\ Depth[p] \in Nat /\ Depth[t] \in Nat /\ Depth[p] < Depth[t]
    BY <1>1, PartsAreLower
  <2>2. Depth[p] < n
    BY <1>1, <2>1
  <2> QED BY <2>1, <2>2 DEF Shallower
<1> QED BY <1>1, <1>2, TypeSetShapes

(***************************************************************************)
(* By induction on how deep the types are nested.                          *)
(***************************************************************************)
LEMMA TypesWellBehaved == WellBehaved(TypeSet)
<1> DEFINE Good == {n \in Nat : WellBehaved(Shallower(n))}
<1>0. Depth \in [TypeSet -> Nat]
  BY TypesAssumption
<1>1. 0 \in Good
  BY <1>0 DEF WellBehaved, Shallower
<1>2. ASSUME NEW n \in Nat, n \in Good PROVE n + 1 \in Good
  <2>1. WellBehaved(Shallower(n)) /\ Shallower(n) \subseteq TypeSet
    BY <1>2 DEF Shallower
  <2>2. \A t \in Shallower(n + 1) : t \in Shapes /\ Parts(t) \subseteq Shallower(n)
    BY ShallowerParts
  <2>3. \A x, y \in Shallower(n + 1) : Implied(x, y)
    BY <2>1, <2>2, ImpliedStep
  <2>4. \A x, y, z \in Shallower(n + 1) : Transitive(x, y, z)
    BY <2>1, <2>2, TransitiveStep
  <2>5. WellBehaved(Shallower(n + 1))
    BY <2>3, <2>4 DEF WellBehaved
  <2> QED BY <2>5
<1>3. Nat \subseteq Good
  <2> HIDE DEF Good
  <2> QED BY <1>1, <1>2, AllNumbers
<1>4. ASSUME NEW x \in TypeSet, NEW y \in TypeSet, NEW z \in TypeSet
      PROVE  Implied(x, y) /\ Transitive(x, y, z)
  <2>1. Depth[x] \in Nat /\ Depth[y] \in Nat /\ Depth[z] \in Nat
    BY <1>0
  <2> DEFINE n == Depth[x] + Depth[y] + Depth[z] + 1
  <2>2. n \in Nat /\ Depth[x] < n /\ Depth[y] < n /\ Depth[z] < n
    BY <2>1
  <2> HIDE DEF n
  <2>3. x \in Shallower(n) /\ y \in Shallower(n) /\ z \in Shallower(n)
    BY <2>2 DEF Shallower
  <2>4. WellBehaved(Shallower(n))
    BY <1>3, <2>2
  <2> QED BY <2>3, <2>4 DEF WellBehaved
<1> QED BY <1>4 DEF WellBehaved

\* And so between the types that are made of those in the set: for all types
\* of the program, == means the same type, complete types are invariant and
\* subsumes is transitive.
THEOREM RelationsWellBehaved ==
  /\ \A x, y \in Shapes : Implied(x, y)
  /\ \A x, y, z \in Shapes : Transitive(x, y, z)
<1>1. \A x \in Shapes : Parts(x) \subseteq TypeSet
  BY PartsOf
<1>2. TypeSet \subseteq TypeSet /\ WellBehaved(TypeSet)
  BY TypesWellBehaved
<1> QED BY <1>1, <1>2, ImpliedStep, TransitiveStep

\* What is admitted by what is admitted.
LEMMA AdmitsTransitive ==
  ASSUME NEW a \in Shapes, NEW b \in Shapes, NEW c \in Shapes, Admits(a, b), Admits(b, c)
  PROVE  Admits(a, c)
BY RelationsWellBehaved DEF Admits, Transitive

(***************************************************************************)
(* A type is related to itself unless it has a hole in an odd place: in a  *)
(* dict for the key or the value alone, or in a function.                  *)
(***************************************************************************)
Reflexive(a) ==
  /\ Equal(a, a) = "yes"
  /\ a # NoType => Completes(a, a) = "yes" /\ Subsumes(a, a) = "yes"

Regular(t) ==
  /\ t.kind = "dict" => (t.key = NoType <=> t.value = NoType)
  /\ t.kind = "func" => NoType \notin Parts(t)

\* A regular type is related to itself if its parts are.
LEMMA ReflexiveStep ==
  ASSUME NEW D, D \subseteq TypeSet, \A x \in D : Reflexive(x),
         NEW a \in Shapes, Parts(a) \subseteq D, Regular(a)
  PROVE  Reflexive(a)
<1>1. CASE a.kind = "None"
  BY <1>1, NoneIsOne, EqualYes DEF Reflexive
<1>2. CASE a.kind \in BasicKinds \cup {"module"}
  <2>1. Subsumes(a, a) = "yes"
    BY <1>2, SubsumesYes
  <2> QED BY <1>2, <2>1, EqualYes, CompletesYes DEF Reflexive, BasicKinds
<1>3. CASE a.kind \in {"list", "dict", "class"}
  <2>1. ContainerYes(a, a)
    <3>1. CASE a.kind = "list"
      <4>1. a.item \in D
        BY <3>1, PartsOf
      <4> QED BY <3>1, <4>1 DEF ContainerYes, ItemYes, Reflexive
    <3>2. CASE a.kind = "dict"
      <4>1. a.key \in D /\ a.value \in D
        BY <3>2, PartsOf
      <4> QED BY <3>2, <4>1 DEF ContainerYes, Reflexive, Regular
    <3>3. CASE a.kind = "class"
      BY <3>3 DEF ContainerYes
    <3> QED BY <1>3, <3>1, <3>2, <3>3
  <2>2. Subsumes(a, a) = "yes" /\ Completes(a, a) = "yes"
    BY <1>3, <2>1, SubsumesYes, CompletesYes
  <2>3. Equal(a, a) = "yes"
    <3>1. CASE a.kind = "dict"
      <4>1. a.key \in D /\ a.value \in D
        BY <3>1, PartsOf
      <4> QED BY <3>1, <4>1, EqualYes DEF Reflexive
    <3>2. CASE a.kind \in {"list", "class"}
      BY <2>2, <3>2, EqualYes
    <3> QED BY <1>3, <3>1, <3>2
  <2> QED BY <2>2, <2>3 DEF Reflexive
<1>4. CASE a.kind = "func"
  <2>1. /\ a.ret \in D /\ a.ret # NoType
        /\ \A i \in DOMAIN a.args : a.args[i] \in D /\ a.args[i] # NoType
    BY <1>4, ArgumentsOf DEF Regular
  <2>2. /\ Subsumes(a.ret, a.ret) = "yes" /\ Equal(a.ret, a.ret) = "yes"
        /\ \A i \in DOMAIN a.args : /\ Subsumes(a.args[i], a.args[i]) = "yes"
                                    /\ Equal(a.args[i], a.args[i]) = "yes"
    BY <2>1 DEF Reflexive
  <2>3. Subsumes(a, a) = "yes" /\ Equal(a, a) = "yes"
    BY <1>4, <2>2, SubsumesYes, EqualYes
  <2> QED BY <1>4, <2>3, CompletesYes DEF Reflexive
<1> QED BY <1>1, <1>2, <1>3, <1>4, NoneIsOne DEF Kinds

\* Subsumes, completes and __eq__ are reflexive on types that are made of
\* regular types.
THEOREM RegularTypesReflexive ==
  ASSUME NEW D, D \subseteq TypeSet, \A t \in D : Regular(t) /\ Parts(t) \subseteq D
  PROVE  \A t \in D : Reflexive(t)
<1> DEFINE Good == {n \in Nat : \A t \in D \cap Shallower(n) : Reflexive(t)}
<1>0. Depth \in [TypeSet -> Nat]
  BY TypesAssumption
<1>1. 0 \in Good
  BY <1>0 DEF Shallower
<1>2. ASSUME NEW n \in Nat, n \in Good PROVE n + 1 \in Good
  <2>1. ASSUME NEW t \in D \cap Shallower(n + 1) PROVE Reflexive(t)
    <3>1. t \in Shapes /\ Regular(t) /\ Parts(t) \subseteq D \cap Shallower(n)
      BY ShallowerParts
    <3>2. \A x \in D \cap Shallower(n) : Reflexive(x)
      BY <1>2
    <3>3. D \cap Shallower(n) \subseteq TypeSet
      OBVIOUS
    <3> QED BY <3>1, <3>2, <3>3, ReflexiveStep
  <2> QED BY <2>1
<1>3. Nat \subseteq Good
  <2> HIDE DEF Good
  <2> QED BY <1>1, <1>2, AllNumbers
<1>4. ASSUME NEW t \in D PROVE Reflexive(t)
  <2>1. Depth[t] + 1 \in Nat /\ Depth[t] < Depth[t] + 1
    BY <1>0
  <2>2. t \in D \cap Shallower(Depth[t] + 1)
    BY <2>1 DEF Shallower
  <2> QED BY <1>3, <2>1, <2>2
<1> QED BY <1>4

-----------------------------------------------------------------------------
(* The type of a list *)

\* The types an element can have are types of the set.
LEMMA ElementTypes ==
  /\ \A t \in ExprTypes \cup DeclTypes : t \in TypeSet /\ t \in Shapes
  /\ \A t \in DeclTypes : t # NoType
  /\ \A t \in TypeSet : List(t) \in Shapes /\ List(t) # NoType /\ List(t).kind = "list"
  /\ NoType \in TypeSet
BY TypesAssumption, TypeSetShapes DEF Shapes, MadeOf, List, NoType

\* The elements when one more is met.
LEMMA NextElement ==
  ASSUME NEW S, NEW s \in Seq(S), NEW ty \in S
  PROVE  /\ Append(s, ty) \in Seq(S) /\ Len(Append(s, ty)) = Len(s) + 1 /\ Len(s) \in Nat
         /\ DOMAIN s = 1 .. Len(s) /\ DOMAIN Append(s, ty) = 1 .. (Len(s) + 1)
         /\ \A i \in 1 .. Len(s) : Append(s, ty)[i] = s[i] /\ s[i] \in S
         /\ Append(s, ty)[Len(s) + 1] = ty
OBVIOUS

(***************************************************************************)
(* TypingOK is inductive.                                                  *)
(***************************************************************************)
LEMMA TypingInitOK == TypingInit => TypingOK
BY TypesAssumption DEF TypingInit, TypingOK

\* Every step keeps TypingOK.
LEMMA TypingStepOK == TypingOK /\ [TypingNext]_typingVars => TypingOK'
<1>1. SUFFICES ASSUME TypingOK, [TypingNext]_typingVars PROVE TypingOK'
  OBVIOUS
<1>2. ASSUME NEW ty \in ExprTypes, Element(ty) PROVE TypingOK'
  <2>1. /\ status = "typing" /\ Len(elts) < MaxElements
        /\ elts' = Append(elts, ty) /\ target' = target
        /\ elts \in Seq(ExprTypes) /\ elt \in ExprTypes \cup {NoType}
        /\ elt = NoType <=> \A i \in DOMAIN elts : elts[i] = NoType
    BY <1>1, <1>2 DEF Element, TypingOK
  <2>2. /\ elt' \in {elt, ty} /\ status' \in {status, "error", "raises"}
        /\ elt = NoType => elt' = ty
        /\ elt # NoType => elt' = elt \/ (elt' = ty /\ Subsumes(ty, elt) = "yes")
    BY <1>2 DEF Element, Wider
  <2>3. /\ elts' \in Seq(ExprTypes) /\ Len(elts') = Len(elts) + 1 /\ Len(elts) \in Nat
        /\ DOMAIN elts = 1 .. Len(elts) /\ DOMAIN elts' = 1 .. (Len(elts) + 1)
        /\ \A i \in 1 .. Len(elts) : elts'[i] = elts[i]
        /\ elts'[Len(elts) + 1] = ty
    BY <2>1, NextElement
  <2>4. Len(elts') <= MaxElements
    BY <2>1, <2>3, TypesAssumption
  <2>5. elt' \in ExprTypes \cup {NoType}
    BY <2>1, <2>2
  <2>6. elt' = NoType <=> \A i \in DOMAIN elts' : elts'[i] = NoType
    <3>1. CASE elt = NoType
      <4>1. \A i \in 1 .. Len(elts) : elts'[i] = NoType
        BY <2>1, <2>3, <3>1
      <4>2. \A i \in DOMAIN elts' : i \in 1 .. Len(elts) \/ i = Len(elts) + 1
        BY <2>3
      <4>3. Len(elts) + 1 \in DOMAIN elts'
        BY <2>3
      <4> QED BY <2>2, <2>3, <3>1, <4>1, <4>2, <4>3
    <3>2. CASE elt # NoType
      <4>1. PICK i \in 1 .. Len(elts) : elts[i] # NoType
        BY <2>1, <2>3, <3>2
      <4>2. i \in DOMAIN elts' /\ elts'[i] # NoType
        BY <2>3, <4>1
      <4>3. elt \in Shapes
        BY <2>1, <3>2, ElementTypes
      <4>4. elt' # NoType
        BY <2>2, <3>2, <4>3, NoneIsNot
      <4> QED BY <4>2, <4>4
    <3> QED BY <3>1, <3>2
  <2> QED BY <1>1, <2>1, <2>2, <2>3, <2>4, <2>5, <2>6 DEF TypingOK
<1>3. CASE Declare
  <2>1. /\ elts' = elts /\ elt' = elt /\ target' \in DeclTypes \cup {List(elt)}
        /\ status' \in {"declared", "error", "raises"}
    BY <1>3 DEF Declare
  <2>2. target' \in DeclTypes \cup {NoType} \cup {List(t) : t \in ExprTypes \cup {NoType}}
    BY <1>1, <2>1 DEF TypingOK
  <2> QED BY <1>1, <2>1, <2>2 DEF TypingOK
<1>4. CASE UNCHANGED typingVars
  BY <1>1, <1>4 DEF typingVars, TypingOK
<1> QED BY <1>1, <1>2, <1>3, <1>4 DEF TypingNext

(***************************************************************************)
(* The variables of validate_list and validate_assign have their types: a  *)
(* type is found with the first element that has one, and never lost.      *)
(***************************************************************************)
THEOREM TypingCorrect == TypingSpec => []TypingOK
<1>1. TypingInit => TypingOK
  BY TypingInitOK
<1>2. TypingOK /\ [TypingNext]_typingVars => TypingOK'
  BY TypingStepOK
<1> QED BY <1>1, <1>2, PTL DEF TypingSpec

(***************************************************************************)
(* The type found for a list fits the elements.                            *)
(***************************************************************************)
LEMMA ElementsFitStep ==
  TypingOK /\ ElementsFit /\ [TypingNext]_typingVars => ElementsFit'
<1>1. SUFFICES ASSUME TypingOK, ElementsFit, [TypingNext]_typingVars,
                      status' = "typing", NEW i \in DOMAIN elts'
               PROVE  IF elts'[i] = NoType THEN \A j \in 1 .. i : elts'[j] = NoType
                      ELSE Admits(elt', elts'[i])
  BY DEF ElementsFit, Admits, Subsumes
<1> DEFINE Goal == IF elts'[i] = NoType THEN \A j \in 1 .. i : elts'[j] = NoType
                   ELSE Admits(elt', elts'[i])
<1>2. ASSUME NEW ty \in ExprTypes, Element(ty) PROVE Goal
  <2>1. /\ elts \in Seq(ExprTypes) /\ status = "typing"
        /\ elts' = Append(elts, ty)
        /\ elt = NoType <=> \A k \in DOMAIN elts : elts[k] = NoType
        /\ elt \in ExprTypes \cup {NoType}
    BY <1>1, <1>2 DEF Element, TypingOK
  <2>2. /\ Len(elts) \in Nat /\ DOMAIN elts = 1 .. Len(elts)
        /\ i \in 1 .. (Len(elts) + 1)
        /\ \A k \in 1 .. Len(elts) : elts'[k] = elts[k] /\ elts[k] \in ExprTypes
        /\ elts'[Len(elts) + 1] = ty
    BY <1>1, <2>1, NextElement
  <2>3. elt \in Shapes /\ ty \in Shapes
    BY <2>1, ElementTypes, TypeSetShapes
  <2>4. i \in 1 .. Len(elts) \/ i = Len(elts) + 1
    BY <2>2
  <2>5. ASSUME i \in 1 .. Len(elts)
        PROVE  /\ elts'[i] = elts[i] /\ elts[i] \in Shapes
               /\ IF elts[i] = NoType THEN \A j \in 1 .. i : elts'[j] = NoType
                  ELSE Admits(elt, elts[i])
    <3>1. elts[i] \in Shapes /\ elts'[i] = elts[i]
      BY <2>2, <2>5, ElementTypes
    <3>2. IF elts[i] = NoType THEN \A j \in 1 .. i : elts[j] = NoType
          ELSE Admits(elt, elts[i])
      BY <1>1, <2>1, <2>2, <2>5 DEF ElementsFit
    <3>3. \A j \in 1 .. i : j \in 1 .. Len(elts)
      BY <2>2, <2>5
    <3> QED BY <2>2, <3>1, <3>2, <3>3
  <2>6. CASE elt = NoType /\ elt' = ty
    <3>1. \A k \in 1 .. Len(elts) : elts'[k] = NoType
      BY <2>1, <2>2, <2>6
    <3>2. CASE i \in 1 .. Len(elts)
      <4>1. \A j \in 1 .. i : j \in 1 .. Len(elts)
        BY <2>2, <3>2
      <4> QED BY <3>1, <3>2, <4>1
    <3>3. CASE i = Len(elts) + 1
      <4>1. \A j \in 1 .. i : j \in 1 .. Len(elts) \/ j = i
        BY <2>2, <3>3
      <4>2. elts'[i] = ty
        BY <2>2, <3>3
      <4> QED BY <2>6, <3>1, <4>1, <4>2 DEF Admits
    <3> QED BY <2>4, <3>2, <3>3
  <2>7. CASE elt # NoType /\ elt' = elt /\ Subsumes(elt, ty) = "yes"
    <3>1. CASE i \in 1 .. Len(elts)
      BY <2>5, <2>7, <3>1
    <3>2. CASE i = Len(elts) + 1
      <4>1. ty # NoType
        BY <2>3, <2>7, NoneIsNot
      <4>2. elts'[i] = ty
        BY <2>2, <3>2
      <4> QED BY <2>7, <4>1, <4>2 DEF Admits
    <3> QED BY <2>4, <3>1, <3>2
  <2>8. CASE elt # NoType /\ elt' = ty /\ Subsumes(ty, elt) = "yes"
    <3>1. Admits(ty, elt) /\ ty # NoType
      BY <2>3, <2>8, NoneIsNot DEF Admits
    <3>2. CASE i \in 1 .. Len(elts)
      <4>1. elts[i] # NoType => Admits(ty, elts[i])
        BY <2>3, <2>5, <3>1, <3>2, AdmitsTransitive
      <4> QED BY <2>5, <2>8, <3>2, <4>1
    <3>3. CASE i = Len(elts) + 1
      <4>1. elts'[i] = ty
        BY <2>2, <3>3
      <4> QED BY <2>8, <3>1, <4>1 DEF Admits
    <3> QED BY <2>4, <3>2, <3>3
  <2>9. \/ elt = NoType /\ elt' = ty
        \/ elt # NoType /\ elt' = elt /\ Subsumes(elt, ty) = "yes"
        \/ elt # NoType /\ elt' = ty /\ Subsumes(ty, elt) = "yes"
    BY <1>1, <1>2 DEF Element, Wider
  <2> QED BY <2>6, <2>7, <2>8, <2>9
<1>3. CASE Declare
  <2>1. status' \in {"declared", "error", "raises"}
    BY <1>3 DEF Declare
  <2> QED BY <1>1, <2>1
<1>4. CASE UNCHANGED typingVars
  BY <1>1, <1>4 DEF typingVars, ElementsFit
<1> QED BY <1>1, <1>2, <1>3, <1>4 DEF TypingNext

\* validate_list: the type found fits each element that has a type, in whatever
\* order they come; only elements without a type that come first are forgotten.
THEOREM FoundTypeFitsElements == TypingSpec => []ElementsFit
<1>1. TypingInit => ElementsFit
  BY DEF TypingInit, ElementsFit
<1>2. TypingOK /\ ElementsFit /\ [TypingNext]_typingVars => ElementsFit'
  BY ElementsFitStep
<1> QED BY <1>1, <1>2, TypingCorrect, PTL DEF TypingSpec

(***************************************************************************)
(* The declared type of a variable fits the elements of its list.          *)
(***************************************************************************)
LEMMA DeclaredElementsFitStep ==
  TypingOK /\ ElementsFit /\ DeclaredElementsFit /\ [TypingNext]_typingVars
    => DeclaredElementsFit'
<1>1. SUFFICES ASSUME TypingOK, ElementsFit, DeclaredElementsFit, [TypingNext]_typingVars
               PROVE  DeclaredElementsFit'
  OBVIOUS
<1>2. ASSUME NEW ty \in ExprTypes, Element(ty) PROVE DeclaredElementsFit'
  <2>1. status' \in {"typing", "error", "raises"}
    BY <1>2 DEF Element
  <2> QED BY <2>1 DEF DeclaredElementsFit
<1>3. CASE Declare
  <2>0. SUFFICES ASSUME status' = "declared"
                 PROVE  /\ target'.kind = "list"
                        /\ \A i \in DOMAIN elts :
                              elts[i] # NoType => Admits(target'.item, elts[i])
    <3>1. elts' = elts
      BY <1>3 DEF Declare
    <3> QED BY <3>1 DEF DeclaredElementsFit, Admits, Subsumes
  <2>1. /\ status = "typing" /\ target' \in DeclTypes \cup {List(elt)}
        /\ Subsumes(target', List(elt)) = "yes"
    BY <1>3, <2>0 DEF Declare, Assignable
  <2>2. /\ elt \in ExprTypes \cup {NoType}
        /\ elt = NoType <=> \A i \in DOMAIN elts : elts[i] = NoType
    BY <1>1 DEF TypingOK
  <2>3. elt \in TypeSet /\ List(elt) \in Shapes /\ List(elt).kind = "list" /\ List(elt).item = elt
    BY <2>2, ElementTypes DEF List
  <2>4. target' \in Shapes
    BY <2>1, <2>3, ElementTypes
  <2>5. target'.kind = "list"
    <3>1. CASE target' = List(elt)
      BY <2>3, <3>1
    <3>2. CASE target' # List(elt)
      <4>1. target'.kind \notin BasicKinds \cup {"None", "func", "module"}
        BY <2>1, <2>3, <2>4, <3>2, SubsumesYes DEF BasicKinds
      <4>2. target'.kind \notin {"dict", "class"}
        BY <2>1, <2>3, <2>4, SubsumesYes DEF ContainerYes
      <4> QED BY <2>4, <4>1, <4>2, NoneIsOne DEF Kinds
    <3> QED BY <3>1, <3>2
  <2>6. ItemYes(target'.item, elt)
    BY <2>1, <2>3, <2>4, <2>5, SubsumesYes DEF ContainerYes
  <2>7. target'.item \in TypeSet
    BY <2>4, <2>5, ShapeOf
  <2>8. ASSUME NEW i \in DOMAIN elts, elts[i] # NoType PROVE Admits(target'.item, elts[i])
    <3>1. elt # NoType
      BY <2>2, <2>8
    <3>2. elts[i] \in ExprTypes
      BY <1>1 DEF TypingOK
    <3>3. target'.item \in Shapes /\ elt \in Shapes /\ elts[i] \in Shapes
      BY <2>3, <2>7, <3>2, ElementTypes, TypeSetShapes
    <3>4. Completes(target'.item, elt) = "yes"
      BY <2>6, <3>1 DEF ItemYes
    <3>5. Admits(target'.item, elt)
      <4>1. Implied(target'.item, elt)
        BY <3>3, RelationsWellBehaved
      <4> QED BY <3>4, <4>1 DEF Implied
    <3>6. Admits(elt, elts[i])
      BY <1>1, <2>1, <2>8 DEF ElementsFit
    <3> QED BY <3>3, <3>5, <3>6, AdmitsTransitive
  <2> QED BY <2>5, <2>8
<1>4. CASE UNCHANGED typingVars
  BY <1>1, <1>4 DEF typingVars, DeclaredElementsFit
<1> QED BY <1>1, <1>2, <1>3, <1>4 DEF TypingNext

\* validate_assign: comparing the declared type with that of the list is
\* enough for each of the elements that have a type.
THEOREM DeclaredTypeFitsElements == TypingSpec => []DeclaredElementsFit
<1>1. TypingInit => DeclaredElementsFit
  BY DEF TypingInit, DeclaredElementsFit
<1>2. TypingOK /\ ElementsFit /\ DeclaredElementsFit /\ [TypingNext]_typingVars
        => DeclaredElementsFit'
  BY DeclaredElementsFitStep
<1> QED BY <1>1, <1>2, TypingCorrect, FoundTypeFitsElements, PTL DEF TypingSpec

-----------------------------------------------------------------------------
(* A type may be used for one that subsumes it *)

(***************************************************************************)
(* Strings are all of one type; of lists and dicts a complete one subsumes *)
(* no complete one but itself.  So the methods are the same.               *)
(***************************************************************************)
LEMMA MethodsInvariant ==
  ASSUME NEW a \in Shapes, NEW b \in Shapes, a.kind \in {"str", "list", "dict"},
         IsComplete(a), IsComplete(b), Subsumes(a, b) = "yes"
  PROVE  a = b
<1>1. CASE a.kind = "str"
  <2>1. b.kind = "str"
    BY <1>1, SubsumesYes DEF BasicKinds
  <2> QED BY <1>1, <2>1, ShapeOf DEF BasicKinds
<1>2. CASE a.kind \in {"list", "dict"}
  <2>1. Completes(a, b) = "yes"
    BY <1>2, SubsumesYes, CompletesYes
  <2>2. Implied(a, b)
    BY RelationsWellBehaved
  <2> QED BY <2>1, <2>2 DEF Implied
<1> QED BY <1>1, <1>2

(***************************************************************************)
(* A value of a complete type can be used where a type that subsumes it is *)
(* expected: it has every method, with a type that can be called in the    *)
(* same way, and a function takes every argument.                          *)
(***************************************************************************)
THEOREM SubsumedIsSubstitutable ==
  ASSUME NEW a \in ExprTypes, NEW b \in ExprTypes, IsComplete(a), IsComplete(b),
         Subsumes(a, b) = "yes"
  PROVE  Substitutable(a, b)
<1>1. a \in TypeSet /\ b \in TypeSet /\ a \in Shapes /\ b \in Shapes
  BY ElementTypes
<1>2. ASSUME NEW m \in DOMAIN Methods(a)
      PROVE  Admits(Methods(a)[m], Methods(b)[m])
  <2>1. CASE a.kind \in {"str", "list", "dict"}
    <3>1. a = b
      BY <1>1, <2>1, MethodsInvariant
    <3> QED BY <3>1 DEF Admits
  <2>2. CASE a.kind \notin {"str", "list", "dict"}
    <3>1. Methods(a) = <<>>
      BY <2>2 DEF Methods
    <3> QED BY <1>2, <3>1
  <2> QED BY <2>1, <2>2
<1>3. ASSUME a.kind = "func", NEW i \in DOMAIN a.args, NEW t \in ExprTypes,
             Subsumes(a.args[i], t) = "yes"
      PROVE  Subsumes(b.args[i], t) = "yes"
  <2>1. /\ b.kind = "func" /\ Len(a.args) = Len(b.args)
        /\ Subsumes(b.args[i], a.args[i]) = "yes"
    BY <1>1, <1>3, SubsumesYes
  <2>2. a.args[i] \in Shapes /\ b.args[i] \in Shapes /\ t \in Shapes
    BY <1>1, <1>3, <2>1, ArgumentsOf, TypeSetShapes, ElementTypes
  <2>3. Transitive(b.args[i], a.args[i], t)
    BY <2>2, RelationsWellBehaved
  <2> QED BY <1>3, <2>1, <2>3 DEF Transitive
<1> QED BY <1>2, <1>3 DEF Substitutable

\* And so whenever the elements of a list are of such types.
THEOREM SubsumptionAlwaysSubstitution == TypingSpec => []SubsumptionIsSubstitution
<1>1. TypingOK => SubsumptionIsSubstitution
  <2>1. SUFFICES ASSUME TypingOK, NEW i \in DOMAIN elts, NEW j \in DOMAIN elts,
                        IsComplete(elts[i]), IsComplete(elts[j]),
                        Subsumes(elts[i], elts[j]) = "yes"
                 PROVE  Substitutable(elts[i], elts[j])
    BY DEF SubsumptionIsSubstitution
  <2>2. elts[i] \in ExprTypes /\ elts[j] \in ExprTypes
    BY <2>1 DEF TypingOK
  <2> QED BY <2>1, <2>2, SubsumedIsSubstitutable
<1> QED BY <1>1, TypingCorrect, PTL

-----------------------------------------------------------------------------
(* Types without holes *)

(***************************************************************************)
(* Where there are no holes no method raises an exception.                 *)
(***************************************************************************)
\* What a method answers that does not raise.
YesOrNo == {"yes", "no"}

Answered(D) ==
  \A x, y \in D : {Completes(x, y), Subsumes(x, y), Equal(x, y)} \subseteq YesOrNo

\* "and", and a loop, over methods that do not raise
LEMMA AndAnswers ==
  ASSUME NEW x \in YesOrNo, NEW y \in YesOrNo
  PROVE  And(x, y) \in YesOrNo
BY DEF And, YesOrNo

LEMMA AndAllAnswers ==
  ASSUME NEW s \in Seq(YesOrNo)
  PROVE  AndAll(s) \in YesOrNo
<1>1. CASE \A i \in DOMAIN s : s[i] = "yes"
  BY <1>1 DEF AndAll, YesOrNo
<1>2. CASE ~\A i \in DOMAIN s : s[i] = "yes"
  <2> DEFINE First(i) == /\ s[i] # "yes"
                         /\ \A j \in DOMAIN s : j < i => s[j] = "yes"
             i == CHOOSE k \in DOMAIN s : First(k)
             B == {k \in DOMAIN s : s[k] # "yes"}
  <2>1. B \subseteq Nat /\ B # {}
    BY <1>2
  <2>2. PICK n \in B : \A m \in B : n <= m
    <3> HIDE DEF B
    <3> QED BY <2>1, LeastNumber
  <2>3. n \in DOMAIN s /\ s[n] # "yes"
    BY <2>2
  <2>4. ASSUME NEW j \in DOMAIN s, j < n PROVE s[j] = "yes"
    <3>1. j \in B => n <= j
      BY <2>2
    <3>2. n \in Int /\ j \in Int
      BY <2>3
    <3> QED BY <2>4, <3>1, <3>2
  <2>5. First(n)
    BY <2>3, <2>4
  <2>6. i \in DOMAIN s
    <3> HIDE DEF First
    <3> QED BY <2>3, <2>5
  <2>7. AndAll(s) = s[i]
    BY <1>2 DEF AndAll
  <2> HIDE DEF i
  <2> QED BY <2>6, <2>7, ElementOfSeq
<1> QED BY <1>1, <1>2

\* What Answered says of the parts of types.
LEMMA PartsAnswered ==
  ASSUME NEW D, D \subseteq TypeSet, Answered(D), NEW x \in D, NEW y \in D
  PROVE  /\ Related[<<"completes", x, y>>] \in YesOrNo
         /\ Related[<<"subsumes", x, y>>] \in YesOrNo
         /\ Related[<<"equal", x, y>>] \in YesOrNo
         /\ ItemCompletes(Related, x, y) \in YesOrNo
<1>1. /\ Related[<<"completes", x, y>>] \in YesOrNo
      /\ Related[<<"subsumes", x, y>>] \in YesOrNo
      /\ Related[<<"equal", x, y>>] \in YesOrNo
  BY PartsAnswer DEF Answered
<1> QED BY <1>1 DEF ItemCompletes, YesOrNo

\* A loop over the arguments of a function.
LEMMA ArgumentsAnswered ==
  ASSUME NEW a \in Shapes, NEW b \in Shapes, a.kind = "func", b.kind = "func",
         Len(a.args) = Len(b.args), NEW f \in [DOMAIN a.args -> YesOrNo]
  PROVE  AndAll(f) \in YesOrNo
<1>1. Len(a.args) \in Nat /\ DOMAIN a.args = 1 .. Len(a.args)
  BY ArgumentsOf
<1>2. f \in Seq(YesOrNo)
  BY <1>1
<1> QED BY <1>2, AndAllAnswers

\* The methods of lists, dicts and classes,
LEMMA ContainersAnswered ==
  ASSUME NEW D, D \subseteq TypeSet, NoType \notin D, Answered(D),
         NEW a \in Shapes, NEW b \in Shapes, a # NoType, b # NoType,
         Parts(a) \subseteq D, Parts(b) \subseteq D, a.kind \in {"list", "dict", "class"}
  PROVE  ContainerCompletes(Related, a, b) \in YesOrNo
<1>1. CASE a.kind = "list" /\ b.kind = "list"
  <2>1. a.item \in D /\ b.item \in D
    BY <1>1, PartsOf
  <2> QED BY PartsAnswered, <1>1, <2>1 DEF ContainerCompletes
<1>2. CASE a.kind = "dict" /\ b.kind = "dict"
  <2>1. a.key \in D /\ b.key \in D /\ a.value \in D /\ b.value \in D
    BY <1>2, PartsOf
  <2>2. And(Related[<<"completes", a.key, b.key>>], Related[<<"completes", a.value, b.value>>])
          \in YesOrNo
    BY PartsAnswered, <2>1, AndAnswers
  <2> QED BY <1>2, <2>1, <2>2 DEF ContainerCompletes
<1>3. CASE a.kind = "class"
  BY <1>3 DEF ContainerCompletes, Bool3, YesOrNo
<1>4. CASE a.kind \in {"list", "dict"} /\ b.kind # a.kind
  BY <1>4 DEF ContainerCompletes, YesOrNo
<1> QED BY <1>1, <1>2, <1>3, <1>4

\* ... subsumes,
LEMMA SubsumesAnswered ==
  ASSUME NEW D, D \subseteq TypeSet, NoType \notin D, Answered(D),
         NEW a \in Shapes, NEW b \in Shapes, a # NoType, b # NoType,
         Parts(a) \subseteq D, Parts(b) \subseteq D
  PROVE  Subsumes(a, b) \in YesOrNo
<1>0. Bool3(TRUE) \in YesOrNo
  BY DEF Bool3, YesOrNo
<1>1. CASE a.kind \in BasicKinds \cup {"module"}
  BY <1>1 DEF Subsumes, SubsumesBy, BasicKinds, Bool3, YesOrNo
<1>2. CASE a.kind \in {"list", "dict", "class"}
  <2>1. Subsumes(a, b) = ContainerCompletes(Related, a, b)
    BY <1>2 DEF Subsumes, SubsumesBy, BasicKinds
  <2> QED BY ContainersAnswered, <1>2, <2>1
<1>3. CASE a.kind = "func" /\ ~(b.kind = "func" /\ Len(a.args) = Len(b.args))
  BY <1>3 DEF Subsumes, SubsumesBy, BasicKinds, Bool3, And, YesOrNo
<1>4. CASE a.kind = "func" /\ b.kind = "func" /\ Len(a.args) = Len(b.args)
  <2> DEFINE args == [i \in DOMAIN a.args |-> Related[<<"subsumes", b.args[i], a.args[i]>>]]
  <2>1. /\ DOMAIN a.args = 1 .. Len(a.args)
        /\ a.ret \in D /\ b.ret \in D
        /\ \A i \in DOMAIN a.args : a.args[i] \in D /\ b.args[i] \in D
    BY <1>4, ArgumentsOf
  <2>2. args \in [DOMAIN a.args -> YesOrNo]
    BY PartsAnswered, <2>1
  <2>3. AndAll(args) \in YesOrNo
    <3> HIDE DEF args
    <3> QED BY ArgumentsAnswered, <1>4, <2>2
  <2>4. Subsumes(a, b)
          = And(Bool3(TRUE), And(Related[<<"subsumes", a.ret, b.ret>>], AndAll(args)))
    BY <1>4 DEF Subsumes, SubsumesBy, ArgsSubsume, BasicKinds
  <2> HIDE DEF args
  <2>5. Related[<<"subsumes", a.ret, b.ret>>] \in YesOrNo
    BY PartsAnswered, <2>1
  <2>6. And(Related[<<"subsumes", a.ret, b.ret>>], AndAll(args)) \in YesOrNo
    BY <2>3, <2>5, AndAnswers
  <2> QED BY <1>0, <2>4, <2>6, AndAnswers
<1> QED BY <1>1, <1>2, <1>3, <1>4, NoneIsOne DEF Kinds

\* ... __eq__
LEMMA EqualAnswered ==
  ASSUME NEW D, D \subseteq TypeSet, NoType \notin D, Answered(D),
         NEW a \in Shapes, NEW b \in Shapes, a # NoType, b # NoType,
         Parts(a) \subseteq D, Parts(b) \subseteq D
  PROVE  Equal(a, b) \in YesOrNo
<1>0. Bool3(TRUE) \in YesOrNo
  BY DEF Bool3, YesOrNo
<1>5. a.kind # "None" /\ b.kind # "None"
  BY NoneIsOne
<1>6. CASE a.kind \notin {"dict", "func"}
  <2>1. Equal(a, b) = And(Subsumes(a, b), Subsumes(b, a))
    BY <1>5, <1>6 DEF Equal, EqualBy, Subsumes
  <2>2. Subsumes(a, b) \in YesOrNo /\ Subsumes(b, a) \in YesOrNo
    BY SubsumesAnswered
  <2> QED BY <2>1, <2>2, AndAnswers
<1>1. CASE a.kind \in {"dict", "func"} /\ b.kind # a.kind
  BY <1>1, <1>5 DEF Equal, EqualBy, YesOrNo
<1>2. CASE a.kind = "dict" /\ b.kind = "dict"
  <2>1. a.key \in D /\ b.key \in D /\ a.value \in D /\ b.value \in D
    BY <1>2, PartsOf
  <2>2. Equal(a, b) = And(Related[<<"equal", a.key, b.key>>],
                          Related[<<"equal", a.value, b.value>>])
    BY <1>2 DEF Equal, EqualBy
  <2>3. /\ Related[<<"equal", a.key, b.key>>] \in YesOrNo
        /\ Related[<<"equal", a.value, b.value>>] \in YesOrNo
    BY PartsAnswered, <2>1
  <2> QED BY <2>2, <2>3, AndAnswers
<1>3. CASE a.kind = "func" /\ b.kind = "func" /\ Len(a.args) # Len(b.args)
  <2>1. a.ret \in D /\ b.ret \in D
    BY <1>3, PartsOf
  <2>2. Related[<<"equal", a.ret, b.ret>>] \in YesOrNo
    BY PartsAnswered, <2>1
  <2> QED BY <1>3, <2>2 DEF Equal, EqualBy, And, Bool3, YesOrNo
<1>4. CASE a.kind = "func" /\ b.kind = "func" /\ Len(a.args) = Len(b.args)
  <2> DEFINE args == [i \in DOMAIN a.args |-> Related[<<"equal", a.args[i], b.args[i]>>]]
  <2>1. /\ DOMAIN a.args = 1 .. Len(a.args)
        /\ a.ret \in D /\ b.ret \in D
        /\ \A i \in DOMAIN a.args : a.args[i] \in D /\ b.args[i] \in D
    BY <1>4, ArgumentsOf
  <2>2. args \in [DOMAIN a.args -> YesOrNo]
    BY PartsAnswered, <2>1
  <2>3. AndAll(args) \in YesOrNo
    <3> HIDE DEF args
    <3> QED BY ArgumentsAnswered, <1>4, <2>2
  <2>4. Equal(a, b)
          = And(Related[<<"equal", a.ret, b.ret>>], And(Bool3(TRUE), AndAll(args)))
    BY <1>4 DEF Equal, EqualBy
  <2> HIDE DEF args
  <2>5. Related[<<"equal", a.ret, b.ret>>] \in YesOrNo
    BY PartsAnswered, <2>1
  <2>6. And(Bool3(TRUE), AndAll(args)) \in YesOrNo
    BY <1>0, <2>3, AndAnswers
  <2> QED BY <2>4, <2>5, <2>6, AndAnswers
<1> QED BY <1>1, <1>2, <1>3, <1>4, <1>6

\* ... and completes do not raise if the methods of the parts do not.
LEMMA CompletesAnswered ==
  ASSUME NEW D, D \subseteq TypeSet, NoType \notin D, Answered(D),
         NEW a \in Shapes, NEW b \in Shapes, a # NoType, b # NoType,
         Parts(a) \subseteq D, Parts(b) \subseteq D
  PROVE  Completes(a, b) \in YesOrNo
<1>1. CASE a.kind \in {"list", "dict", "class"}
  <2>1. Completes(a, b) = ContainerCompletes(Related, a, b)
    BY <1>1 DEF Completes, CompletesBy
  <2> QED BY ContainersAnswered, <1>1, <2>1
<1>2. CASE a.kind \notin {"list", "dict", "class"}
  <2>1. a.kind # "None"
    BY NoneIsOne
  <2>2. Completes(a, b) = Equal(a, b)
    BY <1>2, <2>1 DEF Completes, CompletesBy, Equal
  <2> QED BY <2>2, EqualAnswered
<1> QED BY <1>1, <1>2

\* Types in which there are no holes.
NoHoles(D) ==
  /\ D \subseteq TypeSet \ {NoType}
  /\ \A t \in D : Parts(t) \subseteq D

\* By induction on how deep the types are nested.
LEMMA WithoutHolesAnswered ==
  ASSUME NEW D, NoHoles(D)
  PROVE  Answered(D)
<1> DEFINE Good == {n \in Nat : Answered(D \cap Shallower(n))}
<1>0. Depth \in [TypeSet -> Nat] /\ D \subseteq TypeSet /\ NoType \notin D
  BY TypesAssumption DEF NoHoles
<1>1. 0 \in Good
  BY <1>0 DEF Answered, Shallower
<1>2. ASSUME NEW n \in Nat, n \in Good PROVE n + 1 \in Good
  <2> DEFINE E == D \cap Shallower(n)
  <2>1. Answered(E) /\ E \subseteq TypeSet /\ NoType \notin E
    BY <1>0, <1>2
  <2>2. ASSUME NEW t \in D \cap Shallower(n + 1)
        PROVE  t \in Shapes /\ t # NoType /\ Parts(t) \subseteq E
    <3>1. t \in D /\ t \in TypeSet /\ Depth[t] < n + 1
      BY DEF Shallower
    <3>2. ASSUME NEW p \in Parts(t) PROVE p \in E
      <4>1. p \in TypeSet /\ Depth[p] \in Nat /\ Depth[t] \in Nat /\ Depth[p] < Depth[t]
        BY <3>1, PartsAreLower
      <4>2. Depth[p] < n
        BY <3>1, <4>1
      <4>3. p \in D
        BY <3>1 DEF NoHoles
      <4> QED BY <4>1, <4>2, <4>3 DEF Shallower
    <3> QED BY <1>0, <3>1, <3>2, TypeSetShapes
  <2> HIDE DEF E
  <2>3. ASSUME NEW x \in D \cap Shallower(n + 1), NEW y \in D \cap Shallower(n + 1)
        PROVE  {Completes(x, y), Subsumes(x, y), Equal(x, y)} \subseteq YesOrNo
    <3>1. /\ x \in Shapes /\ x # NoType /\ Parts(x) \subseteq E
          /\ y \in Shapes /\ y # NoType /\ Parts(y) \subseteq E
      BY <2>2
    <3>2. Completes(x, y) \in YesOrNo
      BY <2>1, <3>1, CompletesAnswered
    <3>3. Subsumes(x, y) \in YesOrNo
      BY <2>1, <3>1, SubsumesAnswered
    <3>4. Equal(x, y) \in YesOrNo
      BY <2>1, <3>1, EqualAnswered
    <3> QED BY <3>2, <3>3, <3>4
  <2>4. Answered(D \cap Shallower(n + 1))
    BY <2>3 DEF Answered
  <2> QED BY <2>4
<1>3. Nat \subseteq Good
  <2> HIDE DEF Good
  <2> QED BY <1>1, <1>2, AllNumbers
<1>4. ASSUME NEW x \in D, NEW y \in D
      PROVE  {Completes(x, y), Subsumes(x, y), Equal(x, y)} \subseteq YesOrNo
  <2>1. x \in TypeSet /\ y \in TypeSet /\ Depth[x] \in Nat /\ Depth[y] \in Nat
    BY <1>0
  <2> DEFINE n == Depth[x] + Depth[y] + 1
  <2>2. n \in Nat /\ Depth[x] < n /\ Depth[y] < n
    BY <2>1
  <2> HIDE DEF n
  <2>3. x \in D \cap Shallower(n) /\ y \in D \cap Shallower(n)
    BY <2>1, <2>2 DEF Shallower
  <2>4. Answered(D \cap Shallower(n))
    BY <1>3, <2>2
  <2> QED BY <2>3, <2>4 DEF Answered
<1> QED BY <1>4 DEF Answered

(***************************************************************************)
(* Comparing types ends with an answer when neither the types of the       *)
(* elements nor the declared ones have holes: the AttributeError that      *)
(* stops the interpreter comes only from [] and {}, and what has them as a *)
(* part.                                                                   *)
(***************************************************************************)
THEOREM MergeAnswersWithoutHoles ==
  ASSUME NEW D, NoHoles(D), ExprTypes \cup DeclTypes \subseteq D
  PROVE  TypingSpec => []MergeAnswers
<1>1. TypingInit => MergeAnswers
  BY DEF TypingInit, MergeAnswers
<1>2. TypingOK /\ MergeAnswers /\ [TypingNext]_typingVars => MergeAnswers'
  <2>0. SUFFICES ASSUME TypingOK, MergeAnswers, [TypingNext]_typingVars PROVE MergeAnswers'
    OBVIOUS
  <2>1. ASSUME NEW ty \in ExprTypes, Element(ty) PROVE MergeAnswers'
    <3>1. status' = "raises" =>
            /\ elt # NoType
            /\ "raises" \in {Subsumes(elt, ty), And(Bool3(Subsumes(elt, ty) = "no"), Subsumes(ty, elt))}
      BY <2>1 DEF Element
    <3>2. elt # NoType => elt \in D /\ ty \in D
      BY <2>0 DEF TypingOK
    <3>3. elt # NoType => Subsumes(elt, ty) \in YesOrNo /\ Subsumes(ty, elt) \in YesOrNo
      BY <3>2, WithoutHolesAnswered DEF Answered
    <3> QED BY <3>1, <3>3 DEF MergeAnswers, YesOrNo, And, Bool3
  <2>2. CASE Declare
    <3>1. /\ target' \in DeclTypes \cup {List(elt)}
          /\ status' = "raises" => /\ IsComplete(target')
                                  /\ Assignable(target', List(elt)) \notin YesOrNo
      BY <2>2 DEF Declare, YesOrNo
    <3>2. elt \in ExprTypes \cup {NoType}
      BY <2>0 DEF TypingOK
    <3>3. List(elt) \in Shapes /\ List(elt) # NoType /\ List(elt).kind = "list" /\ List(elt).item = elt
      BY <3>2, ElementTypes DEF List
    <3>4. Answered(D) /\ D \subseteq TypeSet /\ NoType \notin D
      BY WithoutHolesAnswered DEF NoHoles
    <3>5. CASE elt # NoType
      <4>1. Parts(List(elt)) \subseteq D
        BY <3>2, <3>3, <3>5, PartsOf
      <4>2. ASSUME NEW t \in DeclTypes PROVE t \in Shapes /\ t # NoType /\ Parts(t) \subseteq D
        BY ElementTypes DEF NoHoles
      <4>3. target' \in Shapes /\ target' # NoType /\ Parts(target') \subseteq D
        BY <3>1, <3>3, <4>1, <4>2
      <4>4. Subsumes(target', List(elt)) \in YesOrNo
        BY <3>3, <3>4, <4>1, <4>3, SubsumesAnswered
      <4> QED BY <3>1, <4>4 DEF MergeAnswers, Assignable
    <3>6. CASE elt = NoType
      <4>1. target' \in Shapes /\ target'.kind # "None"
        BY <3>1, <3>3, ElementTypes, NoneIsOne
      <4>2. Subsumes(target', List(elt)) \in YesOrNo
        BY <3>3, <3>6, <4>1, NoneIsOne
           DEF Kinds, Subsumes, SubsumesBy, ContainerCompletes, ItemCompletes, BasicKinds, Bool3, YesOrNo
      <4> QED BY <3>1, <4>2 DEF MergeAnswers, Assignable
    <3> QED BY <3>5, <3>6
  <2>3. CASE UNCHANGED typingVars
    BY <2>0, <2>3 DEF typingVars, MergeAnswers
  <2> QED BY <2>0, <2>1, <2>2, <2>3 DEF TypingNext
<1> QED BY <1>1, <1>2, TypingCorrect, PTL DEF TypingSpec

(***************************************************************************)
(* Sessions are modelled with int, float and functions of no arguments,    *)
(* known by their kind: these compare as the types do.                     *)
(***************************************************************************)
TypeOfKind(kind) == IF kind = "func" THEN Func(TyNone, <<>>) ELSE Basic(kind)

\* The relation of GarterRepl is subsumes, on the types of its sessions.
THEOREM SessionsCompareTypes ==
  ASSUME NEW a \in Types \cup {"func"}, NEW b \in Types \cup {"func"}
  PROVE  KindSubsumes(a, b) <=> Subsumes(TypeOfKind(a), TypeOfKind(b)) = "yes"
<1> DEFINE x == TypeOfKind(a)
           y == TypeOfKind(b)
<1>1. ASSUME NEW k \in Types \cup {"func"}
      PROVE  TypeOfKind(k) \in Shapes /\ TypeOfKind(k).kind = k
  <2>1. CASE k = "func"
    <3>1. TyNone \in TypeSet
      BY TypesAssumption
    <3> QED BY <2>1, <3>1 DEF TypeOfKind, Func, Shapes, MadeOf
  <2>2. CASE k \in Types
    BY <2>2 DEF TypeOfKind, Basic, Types, Shapes, MadeOf, BasicKinds
  <2> QED BY <2>1, <2>2
<1>2. x \in Shapes /\ x.kind = a /\ y \in Shapes /\ y.kind = b
  BY <1>1
<1>3. CASE a \in Types
  <2> HIDE DEF x, y
  <2>1. Subsumes(x, y) = "yes" <=> b = a \/ (a = "float" /\ b = "int")
    BY <1>2, <1>3, SubsumesYes DEF Types, BasicKinds
  <2> QED BY <2>1 DEF KindSubsumes, x, y
<1>4. CASE a = "func" /\ b = "func"
  <2>1. TyNone \in Shapes /\ TyNone.kind = "none"
    BY TypesAssumption, TypeSetShapes DEF TyNone, Basic
  <2>2. Subsumes(TyNone, TyNone) = "yes"
    BY <2>1, SubsumesYes DEF BasicKinds
  <2>3. x = y /\ x.ret = TyNone /\ x.args = <<>>
    BY <1>4 DEF TypeOfKind, Func
  <2>4. Subsumes(x, x) = "yes"
    <3> HIDE DEF x, y
    <3>1. DOMAIN x.args = {}
      BY <2>3
    <3> QED BY <1>2, <1>4, <2>2, <2>3, <3>1, SubsumesYes
  <2> QED BY <1>4, <2>3, <2>4 DEF KindSubsumes
<1>5. CASE a = "func" /\ b # "func"
  <2> HIDE DEF x, y
  <2>1. Subsumes(x, y) # "yes"
    BY <1>2, <1>5, SubsumesYes
  <2> QED BY <1>5, <2>1 DEF KindSubsumes, x, y
<1> QED BY <1>3, <1>4, <1>5

=============================================================================
