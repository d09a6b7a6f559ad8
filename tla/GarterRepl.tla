---------------------------- MODULE GarterRepl ----------------------------
(***************************************************************************)
(* A session with the Garter interpreter: Lib/garter.py validates every    *)
(* unit of input against a scope that lives as long as the session, and    *)
(* only then is the unit compiled and executed in __main__.                *)
(*                                                                         *)
(* A unit is a sequence of statements.  Types are int, float, which        *)
(* subsumes int, and that of a function; the expression on the right of a  *)
(* statement is known by its type only.  The body of a function is         *)
(* validated when the function is first referenced, at the latest at the   *)
(* end of the unit, in the scope as it is then; so functions may refer to  *)
(* names that are declared after them and to one another.  A name declared *)
(* in an if statement belongs to the block in Garter, but in Python to the *)
(* function around it.                                                     *)
(*                                                                         *)
(* Not modelled: arguments and results of functions, functions within      *)
(* functions, classes, loops.  A definition whose name ends in _M is a     *)
(* mutant of the definition it stands before.                              *)
(***************************************************************************)
EXTENDS Integers, Sequences

CONSTANTS
  Names,        \* of variables and functions
  Statements,   \* a set of records [op, name, ty, body]
  MaxLength,    \* bound on the statements of a unit
  MaxUnits,     \* bound on the units of a session
  MaxDepth,     \* sys.getrecursionlimit()
  MayRaise,     \* may an expression raise an exception?
  MayRestart    \* may the user restart the shell of IDLE?

Types == {"int", "float"}
Ops == {"declare", "block", "use", "assign", "call", "global", "def"}

\* Functions are not defined within functions.
BodyStatements ==
  [op : Ops \ {"def"}, name : Names, ty : Types \cup {"func"}, body : {<<>>}]

ASSUME ReplAssumption ==
  /\ Statements \subseteq
        [op : Ops, name : Names, ty : Types \cup {"func"}, body : Seq(BodyStatements)]
  /\ MaxLength \in Nat \ {0}
  /\ MaxUnits \in Nat
  /\ MaxDepth \in Nat \ {0}
  /\ {MayRaise, MayRestart} \subseteq BOOLEAN

Units == UNION {[1 .. n -> Statements] : n \in 1 .. MaxLength}

VARIABLES
  scope,    \* vars of the global Scope: name -> Variable
  backup,   \* its copy, taken by _maybe_compile
  phase,    \* "idle", "parse", "validate" or "run"
  tries,    \* which of the three attempts at compiling is on
  unit, at, \* the unit and the next of its statements
  stack,    \* func_init, or calls, of functions: innermost first
  env,      \* __main__.__dict__: name -> what it is bound to
  outcome,  \* how the last execution ended
  units,    \* units submitted so far
  committed,\* the scope after the last unit that was compiled
  faulted   \* did an execution raise, or the user restart the shell?

vars == <<scope, backup, phase, tries, unit, at, stack, env, outcome, units,
          committed, faulted>>

\* Entries of a scope (ty "none": no Variable; "invalid": INVALID_VARIABLE),
\* of __main__ and of the locals of a call (ty "none": not bound).
Entry(ty)         == [ty |-> ty, body |-> <<>>, pending |-> FALSE]
Function(b, init) == [ty |-> "func", body |-> b, pending |-> init]
Nothing == [n \in Names |-> Entry("none")]

Init ==
  /\ scope = Nothing
  /\ backup = Nothing
  /\ phase = "idle"
  /\ tries = 0
  /\ unit = <<>>
  /\ at = 1
  /\ stack = <<>>
  /\ env = Nothing
  /\ outcome = "done"
  /\ units = 0
  /\ committed = Nothing
  /\ faulted = FALSE

KindSubsumes(a, b) == a = b \/ (a = "float" /\ b = "int")

Declared(v) == v.ty \notin {"none", "invalid"}

-----------------------------------------------------------------------------
(* gartercodeop: up to three attempts at compiling a unit *)

Submit ==
  /\ phase = "idle"
  /\ units < MaxUnits
  /\ unit' \in Units
  /\ units' = units + 1
  /\ phase' = "parse"
  /\ tries' = 1
  /\ UNCHANGED <<scope, backup, at, stack, env, outcome, committed, faulted>>

\* The attempt is over without a code object that is used; after the third
\* the interpreter shows the error or asks for more input.
Ended ==
  /\ \/ tries < 3 /\ phase' = "parse" /\ tries' = tries + 1
     \/ tries = 3 /\ phase' = "idle"  /\ tries' = 0
  /\ at' = 1
  /\ stack' = <<>>
  /\ UNCHANGED <<unit, env, outcome, units, committed, faulted>>

\* ast.parse raises SyntaxError.
ParseFails ==
  /\ phase = "parse"
  /\ Ended
  /\ UNCHANGED <<scope, backup>>

\* Mutant of FoundLocals: names are not discovered.
FoundLocals_M(vs, stmts) == vs

\* discover_locals: the names that the statements, but not the blocks in
\* them, declare are INVALID_VARIABLE until their declaration.
FoundLocals(vs, stmts) ==
  [n \in Names |->
     IF /\ vs[n].ty = "none"
        /\ \E i \in DOMAIN stmts :
              stmts[i].op \in {"declare", "def"} /\ stmts[i].name = n
     THEN Entry("invalid") ELSE vs[n]]

\* scope.backup(), ast.parse and the start of validate_mod.
Parse ==
  /\ phase = "parse"
  /\ backup' = scope
  /\ scope' = FoundLocals(scope, unit)
  /\ phase' = "validate"
  /\ at' = 1
  /\ UNCHANGED <<tries, unit, stack, env, outcome, units, committed, faulted>>

-----------------------------------------------------------------------------
(* Validation *)

AtRoot  == stack = <<>>
Frame   == Head(stack)
HasNext == IF AtRoot THEN at <= Len(unit) ELSE Frame.at <= Len(Frame.body)
Stmt    == IF AtRoot THEN unit[at] ELSE Frame.body[Frame.at]
Local   == IF AtRoot THEN scope ELSE Frame.vars

\* Scope.lookup, from the global scope or from that of a function.
LookedUp(n) == IF Local[n].ty # "none" THEN Local[n] ELSE scope[n]
IsLocal(n)  == Local[n].ty # "none"

\* Mutant of MayDeclare: the scope is not asked.
MayDeclare_M(n) == TRUE

\* Scope.declare finds no variable with the name up to the root scope.
MayDeclare(n) == ~Declared(Local[n])

\* validate_name, where the name is read.
AcceptsUse(s) == KindSubsumes(s.ty, LookedUp(s.name).ty)

\* validate_name, where it is assigned to: the variable is mutable and local.
AcceptsAssign(s) ==
  /\ IsLocal(s.name)
  /\ LookedUp(s.name).ty \in Types
  /\ KindSubsumes(LookedUp(s.name).ty, s.ty)

AcceptsCall(s) == LookedUp(s.name).ty = "func"

\* A global statement; only at the beginning of a body.
AcceptsGlobal(s) ==
  /\ ~AtRoot
  /\ \A i \in 1 .. Frame.at : Frame.body[i].op = "global"
  /\ ~IsLocal(s.name)
  /\ LookedUp(s.name).ty \in Types

Accepts(s) ==
  CASE s.op \in {"declare", "block", "def"} -> MayDeclare(s.name)
    [] s.op = "use"    -> AcceptsUse(s)
    [] s.op = "assign" -> AcceptsAssign(s)
    [] s.op = "call"   -> AcceptsCall(s)
    [] s.op = "global" -> AcceptsGlobal(s)

\* The name looked up is a function that was not referenced before.
References(s) ==
  /\ s.op \in {"use", "assign", "call", "global"}
  /\ LookedUp(s.name).pending

\* What a declaration leaves in the scope; the scope of a block is dropped.
Declaration(s, vs) ==
  CASE s.op = "declare" -> [vs EXCEPT ![s.name] = Entry(s.ty)]
    [] s.op = "def"     -> [vs EXCEPT ![s.name] = Function(s.body, TRUE)]
    [] s.op = "global"  -> [vs EXCEPT ![s.name] = Entry(scope[s.name].ty)]
    [] OTHER            -> vs

Advance(f) == [f EXCEPT !.at = @ + 1]

\* Mutant of Initialize: _init is reset when the body has been validated.
Initialize_M(f) ==
  /\ stack' = <<[fn |-> f, body |-> scope[f].body, at |-> 1,
                 vars |-> FoundLocals(Nothing, scope[f].body)]>> \o stack
  /\ UNCHANGED scope

\* Variable.init: func_init starts to validate the body.
Initialize(f) ==
  /\ scope' = [scope EXCEPT ![f].pending = FALSE]
  /\ stack' = <<[fn |-> f, body |-> scope[f].body, at |-> 1,
                 vars |-> FoundLocals(Nothing, scope[f].body)]>> \o stack

\* validate_stmt, up to the reference of a function that is not initialized,
\* or to its end.
ValidateStmt ==
  /\ phase = "validate"
  /\ HasNext
  /\ \/ References(Stmt) /\ Initialize(Stmt.name) /\ UNCHANGED at
     \/ /\ ~References(Stmt) /\ Accepts(Stmt)
        /\ \/ /\ AtRoot
              /\ scope' = Declaration(Stmt, scope)
              /\ at' = at + 1
              /\ UNCHANGED stack
           \/ /\ ~AtRoot
              /\ stack' = <<[Advance(Frame) EXCEPT
                               !.vars = Declaration(Stmt, @)]>> \o Tail(stack)
              /\ UNCHANGED <<scope, at>>
  /\ UNCHANGED <<backup, phase, tries, unit, env, outcome, units, committed,
                 faulted>>

\* The body of a function has been validated.
BodyEnds ==
  /\ phase = "validate"
  /\ ~AtRoot /\ ~HasNext
  /\ stack' = Tail(stack)
  /\ UNCHANGED <<scope, backup, phase, tries, unit, at, env, outcome, units,
                 committed, faulted>>

\* Mutant of Reject: the scope is not restored.
Reject_M ==
  /\ phase = "validate"
  /\ HasNext /\ ~References(Stmt) /\ ~Accepts(Stmt)
  /\ UNCHANGED <<scope, backup>>
  /\ Ended

\* GarterError: validate and _maybe_compile restore the scope.
Reject ==
  /\ phase = "validate"
  /\ HasNext /\ ~References(Stmt) /\ ~Accepts(Stmt)
  /\ scope' = backup
  /\ UNCHANGED backup
  /\ Ended

\* scope.flush() initializes a function nobody has referenced.
Flush ==
  /\ phase = "validate"
  /\ AtRoot /\ ~HasNext
  /\ \E f \in Names : scope[f].pending /\ Initialize(f)
  /\ UNCHANGED <<backup, phase, tries, unit, at, env, outcome, units,
                 committed, faulted>>

\* Mutant of Validated: not all functions are initialized.
Validated_M == phase = "validate" /\ AtRoot /\ ~HasNext

Validated ==
  /\ phase = "validate"
  /\ AtRoot /\ ~HasNext
  /\ \A f \in Names : ~scope[f].pending

\* compile() succeeds at the first attempt: the unit is run.
Compiled ==
  /\ Validated
  /\ tries = 1
  /\ phase' = "run"
  /\ tries' = 0
  /\ at' = 1
  /\ committed' = scope
  /\ UNCHANGED <<scope, backup, unit, stack, env, outcome, units, faulted>>

\* Mutant of NotUsed: the scope is not restored.
NotUsed_M ==
  /\ Validated
  /\ UNCHANGED <<scope, backup>>
  /\ Ended

\* compile() raises SyntaxError, or the attempt was only made to find out
\* whether the input is incomplete: the scope is restored.
NotUsed ==
  /\ Validated
  /\ scope' = backup
  /\ UNCHANGED backup
  /\ Ended

-----------------------------------------------------------------------------
(* Execution, by Python *)

\* Python makes every name that is bound anywhere in a body local to it,
\* unless a global statement names it.
Bound(b, n) ==
  /\ \E i \in DOMAIN b : b[i].op \in {"declare", "block", "assign"} /\ b[i].name = n
  /\ ~\E i \in DOMAIN b : b[i].op = "global" /\ b[i].name = n

InGlobals(n) == AtRoot \/ ~Bound(Frame.body, n)
Value(n)     == IF InGlobals(n) THEN env[n] ELSE Frame.vars[n]

Bind(n, v) ==
  IF InGlobals(n)
    THEN /\ env' = [env EXCEPT ![n] = v]
         /\ \/ AtRoot /\ at' = at + 1 /\ UNCHANGED stack
            \/ ~AtRoot /\ stack' = <<Advance(Frame)>> \o Tail(stack) /\ UNCHANGED at
    ELSE /\ stack' = <<[Advance(Frame) EXCEPT !.vars[n] = v]>> \o Tail(stack)
         /\ UNCHANGED <<env, at>>

Skip ==
  /\ IF AtRoot THEN at' = at + 1 /\ UNCHANGED stack
               ELSE stack' = <<Advance(Frame)>> \o Tail(stack) /\ UNCHANGED at
  /\ UNCHANGED env

\* A value where its type is expected, or NameError, UnboundLocalError or
\* TypeError.
Fits(s) ==
  CASE s.op = "use"  -> KindSubsumes(s.ty, Value(s.name).ty)
    [] s.op = "call" -> Value(s.name).ty = "func"
    [] OTHER         -> TRUE

\* A return to the shell.
End(how) ==
  /\ phase' = "idle"
  /\ at' = 1
  /\ stack' = <<>>
  /\ outcome' = how
  /\ faulted' = (faulted \/ how = "raised")
  /\ UNCHANGED <<scope, backup, tries, unit, units, committed>>

Running == phase = "run" /\ HasNext

Executing(ops) ==
  /\ Running /\ Stmt.op \in ops /\ Fits(Stmt)
  /\ UNCHANGED <<scope, backup, phase, tries, unit, outcome, units, committed,
                 faulted>>

\* A variable is bound; in an if statement, when the branch is taken.
Store == Executing({"declare", "block", "assign"}) /\ Bind(Stmt.name, Entry(Stmt.ty))

\* A function object is made of the code of the body.
MakeFunction == Executing({"def"}) /\ Bind(Stmt.name, Function(Stmt.body, FALSE))

\* A variable is read, a branch is not taken, a directive has no code.
PassOver == Executing({"use", "block", "global"}) /\ Skip

\* A function is called, in a frame of its own.
CallFunction ==
  /\ Executing({"call"})
  /\ Len(stack) < MaxDepth
  /\ stack' = <<[fn |-> Stmt.name, body |-> Value(Stmt.name).body, at |-> 1,
                 vars |-> Nothing]>> \o
              (IF AtRoot THEN <<>> ELSE <<Advance(Frame)>> \o Tail(stack))
  /\ at' = IF AtRoot THEN at + 1 ELSE at
  /\ UNCHANGED env

\* An expression raises an exception, or calls nest too deeply.
Raise ==
  /\ Running
  /\ \/ MayRaise /\ Stmt.op \in {"declare", "block", "use", "assign"}
     \/ Stmt.op = "call" /\ Len(stack) = MaxDepth
  /\ End("raised")
  /\ UNCHANGED env

GoWrong ==
  /\ Running
  /\ ~Fits(Stmt)
  /\ End("wrong")
  /\ UNCHANGED env

Return ==
  /\ phase = "run" /\ ~AtRoot /\ ~HasNext
  /\ stack' = Tail(stack)
  /\ UNCHANGED <<scope, backup, phase, tries, unit, at, env, outcome, units,
                 committed, faulted>>

UnitEnds ==
  /\ phase = "run" /\ AtRoot /\ ~HasNext
  /\ End("done")
  /\ UNCHANGED env

\* restart_subprocess: __main__ is a new one; the new scope goes to an
\* attribute of the compiler nobody reads.
RestartShell ==
  /\ MayRestart
  /\ phase = "idle"
  /\ env # Nothing
  /\ env' = Nothing
  /\ faulted' = TRUE
  /\ UNCHANGED <<scope, backup, phase, tries, unit, at, stack, outcome, units,
                 committed>>

-----------------------------------------------------------------------------
Next ==
  \/ Submit
  \/ ParseFails \/ Parse
  \/ ValidateStmt \/ BodyEnds \/ Reject \/ Flush \/ Compiled \/ NotUsed
  \/ Store \/ MakeFunction \/ PassOver \/ CallFunction
  \/ Raise \/ GoWrong \/ Return \/ UnitEnds
  \/ RestartShell

Spec == Init /\ [][Next]_vars

-----------------------------------------------------------------------------
Bodies  == {s.body : s \in Statements} \cup {<<>>}
Entries == [ty : Types \cup {"none", "invalid", "func"}, body : Bodies,
            pending : BOOLEAN]
Scopes  == [Names -> Entries]
Frames  == [fn : Names, body : Bodies, at : Nat, vars : Scopes]

TypeOK ==
  /\ {scope, backup, env, committed} \subseteq Scopes
  /\ phase \in {"idle", "parse", "validate", "run"}
  /\ tries \in 0 .. 3
  /\ unit \in Seq(Statements) /\ Len(unit) <= MaxLength
  /\ at \in 1 .. Len(unit) + 1
  /\ stack \in Seq(Frames)
  /\ \A i \in DOMAIN stack : stack[i].at \in 1 .. Len(stack[i].body) + 1
  /\ outcome \in {"done", "raised", "wrong"}
  /\ units \in 0 .. MaxUnits
  /\ faulted \in BOOLEAN

(***************************************************************************)
(* A name that the body of a function declares in a block and reads is     *)
(* declared outside of the blocks too.  Else the block makes the name one  *)
(* of the function in Python, even where the branch is not taken, and what *)
(* the validator takes the read for is the name of the global scope.       *)
(***************************************************************************)
Tidy(b) ==
  \A i, j \in DOMAIN b :
     /\ b[i].op = "block" /\ b[j].op \in {"use", "call"}
     /\ b[i].name = b[j].name
     => \E k \in DOMAIN b : b[k].op = "declare" /\ b[k].name = b[i].name

(***************************************************************************)
(* "Garter is a strongly typed minimal subset of Python": no execution of  *)
(* a unit that was accepted fails because a name is not bound, or bound to *)
(* a value of another type than the validator took it for.                 *)
(***************************************************************************)
NothingGoesWrong == outcome # "wrong"

(***************************************************************************)
(* The same until an execution raises an exception or the shell is         *)
(* restarted; although the body of a function is validated only once, at   *)
(* some time before its first call, in a scope that other units extend.    *)
(***************************************************************************)
SoundUntilFault == outcome = "wrong" => faulted

(***************************************************************************)
(* Until then, the scope of the validator describes the namespace the next *)
(* unit will run in: what is declared is bound, to a value of the declared *)
(* type, and a function to the body that was validated.                    *)
(***************************************************************************)
ScopeDescribesMain ==
  phase = "idle" /\ ~faulted =>
    \A n \in Names : Declared(scope[n]) =>
       /\ KindSubsumes(scope[n].ty, env[n].ty)
       /\ scope[n].body = env[n].body

(***************************************************************************)
(* A unit that is not run leaves no trace in the scope, whichever of the   *)
(* attempts at compiling it failed, and where.                             *)
(***************************************************************************)
OnlyCompiledUnitsDeclare == phase \in {"idle", "parse"} => scope = committed

(***************************************************************************)
(* What one unit declared, later units can rely on: neither a later unit,  *)
(* accepted or rejected, nor a failing execution changes a declaration.    *)
(***************************************************************************)
DeclarationsAreKept ==
  [][\A n \in Names : Declared(committed[n]) => committed'[n] = committed[n]]_vars

(***************************************************************************)
(* Functions that call one another are not validated within the validation *)
(* of themselves: validation does not recurse for ever.                    *)
(***************************************************************************)
NoNestedValidation ==
  phase = "validate" =>
    \A i, j \in DOMAIN stack : stack[i].fn = stack[j].fn => i = j

(***************************************************************************)
(* A function whose body has not been validated is never part of a program *)
(* that runs, even if nothing refers to it.                                *)
(***************************************************************************)
RunsOnlyValidated ==
  phase = "run" => \A n \in Names : ~scope[n].pending
=============================================================================
