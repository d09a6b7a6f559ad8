---------------------------- MODULE ImportLock ----------------------------
(***************************************************************************)
(* Imports by several threads: Lib/importlib/_bootstrap.py with its        *)
(* _ModuleLock, and the part of Python/import.c that calls it.             *)
(*                                                                         *)
(* A step is what a thread does between two points where the GIL may be    *)
(* given up and another thread would notice.  What is done under the       *)
(* global import lock is one step, for nothing blocks under it; what is    *)
(* done under the mutex of a module lock is one step too, except for       *)
(* has_deadlock, which reads locks whose mutex it does not hold.           *)
(*                                                                         *)
(* Not modelled: packages (an import of a.b imports a first), reload, and  *)
(* the reference has_deadlock has to the lock it looks at.  A definition   *)
(* whose name ends in _M is a mutant of the one it stands before.          *)
(***************************************************************************)
EXTENDS Integers, Sequences, FiniteSets

CONSTANTS
  Threads,
  Modules,
  NoOne,      \* None
  Programs,   \* a set of programs: what the bodies of modules and threads import
  MayFail     \* the programs in which modules may be missing, or raise exceptions

ASSUME ImportAssumption ==
  /\ IsFiniteSet(Threads) /\ Threads # {}
  /\ NoOne \notin Threads
  /\ Modules \cap Threads = {}
  /\ Programs \subseteq [Modules \cup Threads -> Seq(Modules)]
  /\ MayFail \subseteq Programs

\* A bound on the locks of a module that exist at a time.
Locks == Modules \X (1 .. 2 * Cardinality(Threads))
NoLock == <<NoOne, 0>>

VARIABLES
  program,      \* a member of Programs
  modules,      \* sys.modules: "absent", "initializing" or "loaded"
  module_locks, \* _module_locks
  blocking_on,  \* _blocking_on
  lock,         \* the _ModuleLocks
  stack,        \* the imports a thread is in the middle of, innermost first
  pc,           \* where it is in the innermost one
  cursor        \* the locals tid and lock of has_deadlock

vars == <<program, modules, module_locks, blocking_on, lock, stack, pc, cursor>>

NewLock == [owner |-> NoOne, count |-> 0, waiters |-> 0, mutex |-> FALSE, wakeup |-> FALSE]
NoCursor == [tid |-> NoOne, lock |-> NoLock]

\* An import: mode "main" is that of the program of a thread, "load" that of
\* _find_and_load, "check" that of _lock_unlock_module.
Frame(n, mode, l) == [name |-> n, mode |-> mode, lock |-> l, at |-> 1, failed |-> FALSE]

Init ==
  /\ program \in Programs
  /\ modules = [m \in Modules |-> "absent"]
  /\ module_locks = [m \in Modules |-> NoLock]
  /\ blocking_on = [t \in Threads |-> NoLock]
  /\ lock = [l \in Locks |-> NewLock]
  /\ stack = [t \in Threads |-> <<Frame(t, "main", NoLock)>>]
  /\ pc = [t \in Threads |-> "run"]
  /\ cursor = [t \in Threads |-> NoCursor]

Import(t) == Head(stack[t])
Self(t)   == lock[Import(t).lock]
Body(t)   == program[Import(t).name]
HasNext(t) == Import(t).at <= Len(Body(t))
Goto(t, place) == pc' = [pc EXCEPT ![t] = place]
Done(t) == pc[t] = "run" /\ Import(t).mode = "main" /\ ~HasNext(t)

\* The locks that imports refer to; a weak reference to another one is dead.
Referenced ==
  {l \in Locks : \E t \in Threads : \E i \in DOMAIN stack[t] : stack[t][i].lock = l}

-----------------------------------------------------------------------------
(* import.c: what to do about a module *)

\* The locks of m that do not exist; has_deadlock and _blocking_on refer to those
\* of others.
Unborn(m) ==
  {x \in Locks : /\ x[1] = m /\ x \notin Referenced
                 /\ \A t \in Threads : cursor[t].lock # x /\ blocking_on[t] # x}

\* _get_module_lock: _module_locks has a weak reference to the lock.
GetModuleLock(m, l) ==
  IF module_locks[m] \in Referenced
    THEN l = module_locks[m] /\ UNCHANGED <<module_locks, lock>>
    ELSE /\ Unborn(m) # {}
         /\ l = CHOOSE x \in Unborn(m) : TRUE
         /\ module_locks' = [module_locks EXCEPT ![m] = l]
         /\ lock' = [lock EXCEPT ![l] = NewLock]

\* The import statement, up to the release of the global import lock.
Look(t) ==
  /\ pc[t] = "run" /\ HasNext(t)
  /\ LET m == Body(t)[Import(t).at]
         outer == <<[Import(t) EXCEPT !.at = @ + 1]>> \o Tail(stack[t])
         mode == IF modules[m] = "absent" THEN "load" ELSE "check"
     IN \/ /\ modules[m] = "loaded"
           /\ stack' = [stack EXCEPT ![t] = outer]
           /\ UNCHANGED <<pc, lock, module_locks>>
        \/ /\ modules[m] # "loaded"
           /\ \E l \in Locks :
                 /\ GetModuleLock(m, l)
                 /\ stack' = [stack EXCEPT ![t] = <<Frame(m, mode, l)>> \o outer]
           /\ Goto(t, "register")
  /\ UNCHANGED <<program, modules, blocking_on, cursor>>

-----------------------------------------------------------------------------
(* _ModuleLock.acquire *)

Register(t) ==
  /\ pc[t] = "register"
  /\ blocking_on' = [blocking_on EXCEPT ![t] = Import(t).lock]
  /\ Goto(t, "acquire")
  /\ UNCHANGED <<program, modules, module_locks, lock, stack, cursor>>

\* Mutant of Grants: an owner that has been woken up is not looked at.
Grants_M(l, t) == l.count = 0 \/ l.owner = t \/ ~l.wakeup

Grants(l, t) == l.count = 0 \/ l.owner = t

\* with self.lock: the lock is taken, or has_deadlock is called.
Acquire(t) ==
  /\ pc[t] = "acquire" /\ ~Self(t).mutex
  /\ \/ /\ Grants(Self(t), t)
        /\ lock' = [lock EXCEPT ![Import(t).lock].owner = t, ![Import(t).lock].count = @ + 1]
        /\ Goto(t, "acquired")
        /\ UNCHANGED cursor
     \/ /\ ~Grants(Self(t), t)
        /\ lock' = [lock EXCEPT ![Import(t).lock].mutex = TRUE]
        /\ cursor' = [cursor EXCEPT ![t].tid = Self(t).owner]
        /\ Goto(t, "chase")
  /\ UNCHANGED <<program, modules, module_locks, blocking_on, stack>>

\* _blocking_on.get(tid)
Chase(t) ==
  /\ pc[t] = "chase"
  /\ LET l == IF cursor[t].tid = NoOne THEN NoLock ELSE blocking_on[cursor[t].tid]
     IN \/ l = NoLock /\ Goto(t, "queue") /\ cursor' = [cursor EXCEPT ![t] = NoCursor]
        \/ l # NoLock /\ Goto(t, "hop") /\ cursor' = [cursor EXCEPT ![t].lock = l]
  /\ UNCHANGED <<program, modules, module_locks, blocking_on, lock, stack>>

\* Mutant of Meets: a thread that waits for somebody is in a deadlock.
Meets_M(t) == TRUE

Meets(t) == lock[cursor[t].lock].owner = t

\* tid = lock.owner, and the end of the with statement if that is the caller.
Hop(t) ==
  /\ pc[t] = "hop"
  /\ \/ /\ Meets(t)
        /\ lock' = [lock EXCEPT ![Import(t).lock].mutex = FALSE]
        /\ cursor' = [cursor EXCEPT ![t] = NoCursor]
        /\ Goto(t, "deadlock")
     \/ /\ ~Meets(t)
        /\ cursor' = [cursor EXCEPT ![t] = [tid |-> lock[@.lock].owner, lock |-> NoLock]]
        /\ Goto(t, "chase")
        /\ UNCHANGED lock
  /\ UNCHANGED <<program, modules, module_locks, blocking_on, stack>>

\* The first to wait takes wakeup on behalf of the owner.
Queue(t) ==
  /\ pc[t] = "queue"
  /\ lock' = [lock EXCEPT ![Import(t).lock] =
                [Self(t) EXCEPT !.mutex = FALSE, !.wakeup = TRUE,
                                !.waiters = IF Self(t).wakeup THEN @ ELSE @ + 1]]
  /\ Goto(t, "wait")
  /\ UNCHANGED <<program, modules, module_locks, blocking_on, stack, cursor>>

\* self.wakeup.acquire()
Wait(t) ==
  /\ pc[t] = "wait" /\ ~Self(t).wakeup
  /\ lock' = [lock EXCEPT ![Import(t).lock].wakeup = TRUE]
  /\ Goto(t, "woken")
  /\ UNCHANGED <<program, modules, module_locks, blocking_on, stack, cursor>>

\* self.wakeup.release()
PassOn(t) ==
  /\ pc[t] = "woken"
  /\ lock' = [lock EXCEPT ![Import(t).lock].wakeup = FALSE]
  /\ Goto(t, "acquire")
  /\ UNCHANGED <<program, modules, module_locks, blocking_on, stack, cursor>>

\* del _blocking_on[tid]; _lock_unlock_module accepts the _DeadlockError.
Unregister(t) ==
  /\ blocking_on' = [blocking_on EXCEPT ![t] = NoLock]
  /\ \/ /\ pc[t] = "acquired"
        /\ Goto(t, IF Import(t).mode = "load" THEN "load" ELSE "release")
        /\ UNCHANGED stack
     \/ /\ pc[t] = "deadlock"
        /\ Goto(t, "drop")
        /\ stack' = [stack EXCEPT ![t] =
                       <<[Import(t) EXCEPT !.failed = Import(t).mode = "load"]>> \o Tail(@)]
  /\ UNCHANGED <<program, modules, module_locks, lock, cursor>>

-----------------------------------------------------------------------------
(* _load_unlocked *)

\* _installed_safely.__enter__: the module object is put into sys.modules.
Load(t) ==
  /\ pc[t] = "load"
  /\ modules' = [modules EXCEPT ![Import(t).name] = "initializing"]
  /\ Goto(t, "run")
  /\ UNCHANGED <<program, module_locks, blocking_on, lock, stack, cursor>>

\* _installed_safely.__exit__ without an exception.
Loaded(t) ==
  /\ pc[t] = "run" /\ ~HasNext(t) /\ Import(t).mode = "load"
  /\ modules' = [modules EXCEPT ![Import(t).name] = "loaded"]
  /\ Goto(t, "release")
  /\ UNCHANGED <<program, module_locks, blocking_on, lock, stack, cursor>>

\* _find_spec finds nothing, or the body raises an exception: its own, or
\* that of an import.
Fails(t) ==
  /\ Import(t).mode = "load"
  /\ \/ pc[t] = "raise"
     \/ program \in MayFail /\ pc[t] \in {"load", "run"}
  /\ modules' = IF pc[t] = "load" THEN modules
                ELSE [modules EXCEPT ![Import(t).name] = "absent"]
  /\ stack' = [stack EXCEPT ![t] = <<[Import(t) EXCEPT !.failed = TRUE]>> \o Tail(@)]
  /\ Goto(t, "release")
  /\ UNCHANGED <<program, module_locks, blocking_on, lock, cursor>>

-----------------------------------------------------------------------------
(* _ModuleLock.release, and the end of an import *)

\* Mutant of Wakes: the waiter is not woken up.
Wakes_M(l) == FALSE

Wakes(l) == l.count = 1 /\ l.waiters > 0

Release(t) ==
  /\ pc[t] = "release" /\ ~Self(t).mutex
  /\ lock' = [lock EXCEPT ![Import(t).lock] =
                [Self(t) EXCEPT !.count = @ - 1,
                                !.owner = IF Self(t).count = 1 THEN NoOne ELSE @,
                                !.waiters = IF Wakes(Self(t)) THEN @ - 1 ELSE @,
                                !.wakeup = IF Wakes(Self(t)) THEN FALSE ELSE @]]
  /\ Goto(t, "drop")
  /\ UNCHANGED <<program, modules, module_locks, blocking_on, stack, cursor>>

\* The import statement is over; an exception goes to the body it stands in.
\* The program of the thread catches it.
Return(t, s) ==
  LET outer == Head(Tail(s))
  IN /\ stack' = [stack EXCEPT ![t] = Tail(s)]
     /\ Goto(t, IF Head(s).failed /\ outer.mode # "main" THEN "raise" ELSE "run")

\* The thread's reference to the lock is dropped; if it was the last one the
\* callback of the weak reference is next.
Drop(t) ==
  /\ pc[t] = "drop"
  /\ LET s == <<[Import(t) EXCEPT !.lock = NoLock]>> \o Tail(stack[t])
         last == /\ \A u \in Threads \ {t} :
                       \A i \in DOMAIN stack[u] : stack[u][i].lock # Import(t).lock
                 /\ \A i \in 2 .. Len(stack[t]) : stack[t][i].lock # Import(t).lock
     IN \/ last /\ stack' = [stack EXCEPT ![t] = s] /\ Goto(t, "callback")
        \/ ~last /\ Return(t, s)
  /\ UNCHANGED <<program, modules, module_locks, blocking_on, lock, cursor>>

\* del _module_locks[name], whatever is there by now.
Callback(t) ==
  /\ pc[t] = "callback"
  /\ module_locks' = [module_locks EXCEPT ![Import(t).name] = NoLock]
  /\ Return(t, stack[t])
  /\ UNCHANGED <<program, modules, blocking_on, lock, cursor>>

-----------------------------------------------------------------------------
Step(t) ==
  \/ Look(t)
  \/ Register(t) \/ Acquire(t) \/ Chase(t) \/ Hop(t) \/ Queue(t) \/ Wait(t) \/ PassOn(t)
  \/ Unregister(t)
  \/ Load(t) \/ Loaded(t) \/ Fails(t)
  \/ Release(t) \/ Drop(t) \/ Callback(t)

Next == \E t \in Threads : Step(t)

Spec == Init /\ [][Next]_vars
FairSpec == Spec /\ \A t \in Threads : WF_vars(Step(t))

-----------------------------------------------------------------------------
TypeOK ==
  /\ program \in Programs
  /\ modules \in [Modules -> {"absent", "initializing", "loaded"}]
  /\ module_locks \in [Modules -> Locks \cup {NoLock}]
  /\ blocking_on \in [Threads -> Locks \cup {NoLock}]
  /\ lock \in [Locks -> [owner : Threads \cup {NoOne}, count : Nat, waiters : 0 .. 1,
                         mutex : BOOLEAN, wakeup : BOOLEAN]]
  /\ cursor \in [Threads -> [tid : Threads \cup {NoOne}, lock : Locks \cup {NoLock}]]

\* t is executing the body of m.
Loads(t, m) ==
  \E i \in DOMAIN stack[t] :
     /\ stack[t][i].name = m /\ stack[t][i].mode = "load"
     /\ i > 1 \/ pc[t] \in {"run", "raise"}

\* What the body of a module needs, directly or not.
Needs(m) ==
  LET deeper[n \in Nat] ==
        IF n = 0 THEN {m}
        ELSE deeper[n - 1] \cup
             UNION {{program[x][i] : i \in DOMAIN program[x]} : x \in deeper[n - 1]}
  IN deeper[Cardinality(Modules)]

(***************************************************************************)
(* "Locking primitives to prevent parallel imports of the same module in   *)
(* different threads" (Python/import.c:140).                               *)
(***************************************************************************)
OneLoader ==
  \A t, u \in Threads : \A m \in Modules : Loads(t, m) /\ Loads(u, m) => t = u

(***************************************************************************)
(* "This is used to ensure a module is completely initialized"             *)
(* (_lock_unlock_module): a thread gets a module that is still being       *)
(* loaded only if it is itself in the middle of loading it, and            *)
(* _DeadlockError only if it is in the middle of loading some module.      *)
(***************************************************************************)
PartialOnlyToLoaders ==
  \A t \in Threads :
     /\ /\ pc[t] = "release" /\ Import(t).mode = "check"
        /\ modules[Import(t).name] = "initializing"
        => Loads(t, Import(t).name)
     /\ pc[t] = "deadlock" => \E m \in Modules : Loads(t, m)

(***************************************************************************)
(* "Concurrent circular import" (_lock_unlock_module): there is a          *)
(* _DeadlockError only if the module needs one that the thread itself is   *)
(* in the middle of loading.                                               *)
(***************************************************************************)
DeadlockIsCircular ==
  \A t \in Threads :
     pc[t] = "deadlock" => \E m \in Needs(Import(t).name) : Loads(t, m)

(***************************************************************************)
(* "They are executed only the first time the module name is encountered   *)
(* in an import statement" (Doc/tutorial/modules.rst:75): a module that is *)
(* loaded is not loaded again.                                             *)
(***************************************************************************)
LoadedOnce == [][\A m \in Modules : modules[m] = "loaded" => modules'[m] = "loaded"]_vars

(***************************************************************************)
(* "Otherwise, the lock is always acquired and True is returned"           *)
(* (_ModuleLock.acquire): threads that import one another's modules do not *)
(* wait for ever.                                                          *)
(***************************************************************************)
ImportsEnd == <>\A t \in Threads : Done(t)

(***************************************************************************)
(* The same, unless has_deadlock goes round in a circle its thread is not  *)
(* part of, with the mutex that a thread of the circle needs to break it:  *)
(* neither is a wake-up lost nor a deadlock overlooked.                    *)
(***************************************************************************)
Caught(t, u) ==
  /\ pc[t] \in {"chase", "hop"} /\ pc[u] = "acquire"
  /\ Import(t).lock = Import(u).lock

ImportsEndOrCaught == ImportsEnd \/ <>[]\E t, u \in Threads : Caught(t, u)
=============================================================================
