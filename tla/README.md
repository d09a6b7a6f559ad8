# TLA+ models of Garter

Garter is a fork of CPython 3.6.0a1.  It adds a statically checked teaching
language (`Lib/garter.py`, `Lib/gartercodeop.py`, `Lib/gcode.py`, `Lib/gfile.py`,
and the changes to IDLE that use them) on top of the complete CPython
interpreter and its standard library.  This directory holds formal models of
the parts of that system whose correctness depends on the order in which things
happen, the runs that model-check them with TLC, and proofs checked by TLAPS.

    tlc -workers 2 -config MCGil.cfg MCGil.tla        # a run
    tlapm GilProofs.tla                               # the proofs about the GIL
    tlapm GarterProofs.tla                            # about types and sessions
    tlapm QueueProofs.tla                             # about queues
    tlapm EvalBreakerProofs.tla                       # about pending calls and exceptions
    tlapm SignalsProofs.tla                           # about signals
    tlapm ThreadPoolProofs.tla                        # about futures
    tlapm CollectorProofs.tla                         # about the collector
    tlapm ImportLockProofs.tla                        # and about imports

1. [The system](#1-the-system)
2. [Plan](#2-plan)
3. [Modules and code](#3-modules-and-code)
4. [Runs and bounds](#4-runs-and-bounds)
5. [Fairness](#5-fairness)
6. [Proofs](#6-proofs)
7. [What is only model-checked](#7-what-is-only-model-checked)
8. [Where code and documentation disagree](#8-where-code-and-documentation-disagree)
9. [What is not modelled](#9-what-is-not-modelled)

## 1. The system

Two programs meet in this repository.  *Garter* is written in Python: a
validator that walks the abstract syntax tree of a unit of input and keeps a tree
of scopes, and the shells that call it before they compile and execute the unit.
*CPython* is the C program below it: an eval loop that any number of threads take
turns in, the requests other threads and signal handlers make of that loop,
and the library of locks, queues and executors on top.

### Components that are modelled

| Component | State it keeps | Operations | Interacts with | What makes it hard | What makes it correct |
|---|---|---|---|---|---|
| GIL (`Python/ceval_gil.h`; callers in `Python/ceval.c`, `Python/pystate.c`, `Python/pylifecycle.c`) | `gil_locked`, `gil_last_holder`, `gil_switch_number`, `gil_drop_request`, two mutexes, two condition variables, the current thread state, `_Py_Finalizing` | `take_gil`, `drop_gil`; `PyEval_SaveThread`, `RestoreThread`, `AcquireThread`, `PyThreadState_DeleteCurrent`, the eval loop's yield, `Py_Finalize` | every thread | unlocked reads and writes, timed and spurious wake-ups, a second handshake after the release, finalization | exclusion; no lost wake-up; a yield is followed by a switch; restored threads stop at the end |
| Eval breaker, pending calls, asynchronous exceptions (`Python/ceval.c`, `PyThreadState_SetAsyncExc`) | `eval_breaker`, three request flags, a ring of pending calls, `async_exc` of each thread | `Py_AddPendingCall`, `Py_MakePendingCalls`, `SetAsyncExc`, the periodic test of the eval loop, the flag resets in `take_gil` and `drop_gil` | the GIL sets and clears one of the flags, signals add calls | a disjunction of three flags is recomputed under three different locks; calls run Python code and nest | calls are made once, in order; no request is forgotten |
| Signals (`Modules/signalmodule.c`) | `is_tripped`, `Handlers[].tripped` | `trip_signal`, `PyErr_CheckSignals`, `checksignals_witharg` | the ring of pending calls | the C handler interrupts any instruction of the main thread; Python handlers raise, nest and are interrupted | each signal leads to a call of its Python handler |
| Garter types (`Lib/garter.py`, first half) | none; while a list is typed, the widest type so far | `is_complete`, `completes`, `subsumes`, `__eq__`, `validate_list`, the declaration of a variable | the validator | elements without a type, types with holes; variance; the answer depends on the order of elements | what a variable is declared as can hold what it is given |
| Garter scopes and sessions (`Lib/garter.py`, second half, `Lib/gartercodeop.py`, the restart in `Lib/idlelib/PyShell.py`) | the scope of the session and its backup, lazily initialized functions, `__main__` | `discover_locals`, `validate_stmt`, `validate_name`, `Variable.init`, `flush`, `validate`, `_maybe_compile`, the execution, `restart_subprocess` | the compiler; Python's own idea of scopes | functions are validated at their first reference; a unit is parsed three times; any step may fail; the scope outlives the namespace it describes | an accepted unit does not go wrong; the scope describes `__main__` |
| Module import locks (`Lib/importlib/_bootstrap.py`, `Python/import.c`) | `sys.modules`, `_module_locks` (weak references), `_blocking_on`; owner, count, waiters, mutex and `wakeup` of each `_ModuleLock` | `_get_module_lock`, `acquire` with `has_deadlock`, `release`, `_lock_unlock_module`, loading a module or failing to | every thread that imports | circular imports by several threads; `has_deadlock` reads locks whose mutex it does not hold; the callback of a weak reference deletes what is there by now | one thread loads a module; while it does, only it sees the module, except for circles; no deadlock |
| Conditions and queues (`Lib/threading.py`, `Lib/queue.py`) | `Condition._waiters`, the mutex, the items, `unfinished_tasks` | `wait`, `notify`, `notify_all`; `put`, `get`, `task_done`, `join` | the thread pool, any program | a waiter times out while it is notified; three conditions share one mutex; KeyboardInterrupt | no notification lost, `join` returns when all is done |
| Futures and thread pool (`Lib/concurrent/futures/_base.py`, `thread.py`) | the state, waiters and callbacks of each future; `_work_queue`, `_shutdown`, the workers | `cancel`, `result`, `add_done_callback`, `wait`, `as_completed`, `submit`, `shutdown`, the worker | queues, conditions | cancel races with run; waiters are put in place while futures end; several conditions are held at once; one `None` for all workers | one course for each future, one call for each callback, everything ends |
| Cyclic garbage collector, weak references (`Modules/gcmodule.c`, `Objects/typeobject.c`, `Objects/weakrefobject.c`) | the generations, `gc_refs`, the lists `unreachable`, `finalizers`, `wrcb_to_call`, `seen`; reference counts | `collect`, `handle_weakrefs`, `finalize_garbage`, `check_garbage`, `delete_garbage`, `handle_legacy_finalizers`; `subtype_dealloc` | all Python code that callbacks and finalizers run | the lists and the graph change under the collector; objects are resurrected; the collector calls code that sees half of the trash gone | only what is unreachable is cleared, and nobody sees it again |

### Components that are not modelled yet

| Component | State and operations | What is hard | What makes it correct |
|---|---|---|---|
| Thread states (`Python/pystate.c`) | list of thread states under `head_mutex`, the TSS key, `gilstate_counter`; `PyGILState_Ensure/Release` | nesting across `PyEval_SaveThread`; a state deleted while counted | balanced calls restore the caller's situation |
| Start and end of the interpreter (`Python/pylifecycle.c`) | initialized flags, order of teardown | threads alive during teardown; exit functions | each part is torn down after its users |
| Low-level and re-entrant locks (`Modules/_threadmodule.c`, `Python/thread_pthread.h`) | a mutex or semaphore, `rlock_owner`, `rlock_count` | a signal in a blocking acquire; timeouts | exclusion, balanced counts |
| the rest of `threading` (`Lib/threading.py`) | `Event`, `Semaphore`, `Barrier` states, `_active`, `_limbo`, tstate locks | barriers that break; threads that end during shutdown | a barrier lets all through or none |
| Object allocator (`Objects/obmalloc.c`) | arenas, pools, free lists | pools moving between lists | no block handed out twice |
| Dictionaries, lists, generators (`Objects/`) | hash tables with shared keys, list items during a sort, callback lists, frames | comparison functions that modify the container; re-entrance | the container's meaning is kept |
| Buffered I/O (`Modules/_io/bufferedio.c`) | buffer positions, a lock with an owner | partial reads and writes, signals, re-entrance | bytes come in order, once |
| process pool (`Lib/concurrent/futures/process.py`) | work items, the management thread, worker processes | a worker dies; shutdown | all pending futures fail when a pool breaks |
| `asyncio`, `multiprocessing` | loops, tasks, queues between processes | cancellation, processes that die | as for futures and queues |
| IDLE remote calls (`Lib/idlelib/rpc.py`, `run.py`) | `responses`, `cvars`, the sequence number, one socket | several threads poll one socket; the other process is killed and replaced | every caller gets the answer to its own call |

The parser, the compiler, the other built-in objects, the rest of the standard
library, vendored libraries, and the build system are listed in `PROJECT.json`
with the reason why they are left aside: they are sequential translations of data,
or not this program's own code.

### Hazards

`PROJECT.json` lists the points of the code where something can go wrong that a
test would hardly reach, each with the properties that catch it.  They fall
into nine groups: the two handshakes inside the GIL; the recomputation of
`eval_breaker`; the window between a signal and its Python handler; the moment
at which the validator looks at a function, relative to the moments at which
Python does; what remains in the validator's scope when a unit fails; circles of
imports; notifications that race with timeouts; futures that end while somebody
starts to wait for them; and Python code that runs in the middle of a collection.
Five have no property: `fork`, the nesting of `PyGILState_Ensure`, the methods of
Garter classes, the protocol of IDLE, which are not modelled, and
KeyboardInterrupt inside `Condition.wait`, which has a configuration of its own
(section 8).

## 2. Plan

The order goes from the mechanism everything else relies on to the Garter
layer, and from there to the libraries.

| | Modules | Builds on | Runs | Theorems | State |
|---|---|---|---|---|---|
| 1 | `GilSpec` (abstract lock), `Gil` | | 3 threads, counter of 2 values | type, exclusion, switch, finalization, refinement of `GilSpec` | done |
| 2 | `EvalBreaker` | the lock of `GilSpec`, in single steps | 2 threads, 3 calls, ring of 3 | type, `RingIsFifo`, `QueuedIsFlagged`, `OneCallAtATime`, `AsyncExcIsNoticed` | done |
| 3 | `Signals` | the ring, as a bounded queue, and `eval_breaker` | 2 signals, 2 deliveries, nested once | `OnlyExceptionsForget` | done |
| 4 | `GarterTypes` | | 3 elements, types two constructors deep | the relations, `ElementsFit`, `DeclaredElementsFit`, `SubsumptionIsSubstitution` | done |
| 5 | `GarterRepl` | `KindSubsumes`, which is `Subsumes` of `GarterTypes` for its types (`SessionsCompareTypes`) | 2 units of 3 statements, with faults | type, `OnlyCompiledUnitsDeclare`, `DeclarationsAreKept`, `RunsOnlyValidated`, `NoNestedValidation` | done, with `SoundUntilFault` and `ScopeDescribesMain` where function bodies are tidy (section 6) |
| 6 | `GarterProgram`: parameters and results, nested functions, loops, classes | `GarterRepl`, as its scopes | one unit | the scope discipline | open |
| 7 | `ImportLock` | | 3 threads, 2 modules, every pattern of imports | type, one holder of a lock, `OneLoader` and `PartialOnlyToLoaders` as long as no load fails | done |
| 8 | `Queue`: conditions and queues | | 3 threads, 2 calls each, limits 0 to 2 | `NoWaiterStranded`, `NoJoinerStranded`, `MutexHeld` | done |
| 9 | `ThreadPool`: futures and the pool of threads | the queue of `Queue` without a limit, as one step | 2 futures, 2 workers, 3 clients | `OneOutcome`, `CallbacksAreCalled`, `SleepersHaveReason` | done |
| 10 | `Collector` | | 3 objects, 2 weak references, 2 steps of Python code | type, `FoundIsUnreachable`; `ClearedIsInvisible` and `TrashIsFreed` under two conditions | done |
| 11 | `GilState`: `PyGILState_Ensure/Release` above the lock of `GilSpec` | `GilSpec` | 2 threads, nesting of 2 | counter and current state agree | open |
| 12 | `Rpc`: the IDLE protocol | | 2 callers, 2 handlers, a restart | every answer reaches its caller | open |

## 3. Modules and code

Every definition that models code is in the `map` of `PROJECT.json` with the
lines it stands for.  Definitions whose names end in `_M` or `_N` are mutants:
plausible faults that show that each property can fail.  No specification
uses them.  `MC...` modules hold the values TLC uses.

### Gil

One action is one stretch of code between two points where another thread can
interfere; `pc[t]` says where thread `t` is.

| `pc` | place in the code | next action |
|---|---|---|
| `unborn`, `dead` | before `t_bootstrap`, after `drop_gil` of a finished thread | `StartThread` |
| `outside` | between `PyEval_SaveThread` and `PyEval_RestoreThread` | `RestoreThread` |
| `take_mutex` | `MUTEX_LOCK(gil_mutex)` in `take_gil` | `TakeMutex` |
| `take_wait` | in `COND_TIMED_WAIT(gil_cond, ...)` | `TimeOut`, a signal, or `SpuriousWakeup` |
| `take_relock` | the wait is over, `gil_mutex` not yet taken back | `TakeRelock` |
| `take_switch` | `_ready:` `MUTEX_LOCK(switch_mutex)`, with `gil_mutex` | `TakeOwn` |
| `take_reset` | the rest of `take_gil` and the test of its caller | `TakeReset` |
| `run` | Python code | `EvalYield`, `SaveThread`, `DeleteCurrent`, ... |
| `drop_mutex` | `drop_gil`, before `gil_mutex` | `DropMutex` |
| `drop_check` | the read of `gil_drop_request` outside of any mutex | `DropCheck` |
| `drop_switch` | `MUTEX_LOCK(switch_mutex)` in `drop_gil` | `DropSwitch` |
| `drop_reset` | under `switch_mutex`, before the wait | `DropReset` |
| `switch_wait`, `switch_relock` | in `COND_WAIT(switch_cond, ...)`, and coming out of it | `SwitchRelock` |

`after[t]` is where `drop_gil` returns to; `entry[t]` distinguishes the callers of
`take_gil` that test `_Py_Finalizing` (`PyEval_RestoreThread` and the eval loop)
from `PyEval_AcquireThread`, which does not.  Condition variables are the
POSIX ones: a signal moves one waiter, chosen by nobody, on to competing for the
mutex.  `gil_switch_number` wraps at `SwitchMod`.  Exceptions to the rule of
one step per critical section: `DropReset` is a step of its own, because
`RESET_GIL_DROP_REQUEST` under `switch_mutex` interleaves with
`SET_GIL_DROP_REQUEST` under `gil_mutex`.  `eval_breaker` belongs to the next module;
here the eval loop reads `gil_drop_request` directly.

`GilSpec` is the lock the code above sees: `Take`, `Drop` and `Yield`, where a thread
that yielded owes a switch and cannot take the lock before another one did.
`Gil` implements it under the mapping of `Abstract` in `Gil.tla`: the holder is
the thread from the end of `TakeOwn` to `DropMutex`; a thread owes a switch
while it goes back to `take_gil` and is still `gil_last_holder`.

### EvalBreaker

The loop reads only `eval_breaker`.  `COMPUTE_EVAL_BREAKER` is two steps, the loads
(`Load`, together with the store to the flag just before it) and the store
(`StoreBreaker`), at each of its four places: `took_store` in `take_gil`,
`drop_store` in `drop_gil`, `make_store` in `Py_MakePendingCalls`, `exc_store` in
the eval loop.  Setting a request is one step under its lock, but for
`Py_AddPendingCall`, whose two stores are `AddLock` and `AddUnlock`.
The ring has its two indexes and the array; `accepted` and `served` record the
history it is compared with.  A pending call runs Python code: `MakeCall` sends
the main thread back to `run`, from where it may come to `Py_MakePendingCalls`
again and find `busy` set; `CallReturns` may do so with an error.
The GIL is taken and dropped in single steps, which module `Gil` refines, except
that the forced switch of `drop_gil` and the two resets of the drop request are kept,
for they recompute the breaker.

Every call of `Py_AddPendingCall` comes from a thread of its own which does not hold
the GIL, the weakest situation.  Releasing the exception that
`PyThreadState_SetAsyncExc` replaces, which may run code, is part of the step.

### Signals

A delivery is a run of the C handler: `Trip`, `Flag`, `AddCheck`.  The kernel chose
the main thread for it (`on_main`) or another one; in the first case the main
thread stands still until the handler returns.  The main thread is in Python
code, in `Py_MakePendingCalls` (`lock`, `locked`) or in `PyErr_CheckSignals`
(`test`, `clear`, `scan`, and `error` after a Python handler raised), whose activations are
stacked in `frames`.  Any handler may raise, in the middle of the scan too, as the one Python
installs for SIGINT does.  The C handler
fails to add its call if the queue is full or `pending_lock` is taken: always
when it interrupted the holder of that lock.

The queue and its lock come from module `EvalBreaker`, whose ring is a FIFO; that `pendingcalls_to_do` is
set when the queue is not empty is proved there (`QueuedIsFlagged`).  The loop looks at the queue only if `eval_breaker` is
set, so this variable is kept: `Request` sets it for any other reason; `LoadBreaker` and
`StoreBreaker` are the two halves of a `COMPUTE_EVAL_BREAKER` in a thread that saw no call, and may
store 0 after a call was queued.  What the other requests are is left open, and `Pop`, which recomputes under the lock,
may therefore leave either value when the queue is empty.  `set_wakeup_fd` and `siginterrupt` are left out.

### GarterTypes

`CompleteBy`, `CompletesBy`, `SubsumesBy` and `EqualBy` follow the methods of the type classes
case by case.  A method calls methods of the parts of its type, never of the type itself, so what
the calls answer is a recursive function, `Related`, over the calls on a set of types; the
operators `IsComplete`, `Completes`, `Subsumes` and `Equal` are the methods with their calls answered by it.
`TypesAssumption` says what the set `TypeSet` has to be: it contains the types of elements and declarations and what they
are made of, with a depth for each that is greater than those of its parts, because in
Python an object can only be constructed from objects that exist.  Declared types are types; apart from
that any set will do, with holes in any place.

Python's `None` is `NoType`.  It is the hole in the type of `[]` and `{}`, and a
method called on it raises `AttributeError`.  But `validate_expr` also returns it as the type of an expression: for `[][0]` and
`[].pop(0)`, whose type is the hole, and for an index into what is no string, list or dict, where
`validate_subscript_index` falls off its end (`Lib/garter.py:843`).  So elements may have no type, a dict a
hole for its key or its value alone (`{1: [][0]}`), and a method of `[]` a hole among its arguments.
`validate_list` takes an element without a type for no element (782), and `Element` does the same.
`ElementsFit` says how far this goes: such elements are forgotten only if they come before all others.
`DeclaredElementsFit` is about the elements that have a type (section 8 has an example of each).
Both are stated with `Admits`, the same type or one that is subsumed, because a type with an odd hole may raise when it is
asked about itself.
The relations have three
values, and `And` is Python's `and`, which does not evaluate its right side after a
`no`; `AndAll` is a loop that returns at the first `no`.  Classes are nominal (`fields` stands for the identity of the namespace), and so are modules.  Types are compared by what they are made
of; that `==` on two lists of arguments does not ask an object whether it equals itself is left out.
`Element` is one turn of the loop of `validate_list`, `Declare` the assignment
that declares a variable with an annotation or with `:=`.  `Methods` are the types of
the built-in methods; the property `SubsumptionIsSubstitution` is about them.
Sorting, slicing and the operators of expressions are not part of it.

### GarterRepl

A session: units of statements from a given set, each submitted to `gartercodeop`.

| Action | Code |
|---|---|
| `Submit` | `CommandCompiler.__call__`, `Compile.__call__` up to the first attempt |
| `ParseFails`, `Parse` | `_maybe_compile` and `validate`: `scope.backup()`, `ast.parse`, `discover_locals` |
| `ValidateStmt`, `BodyEnds` | `validate_stmt` and what it calls; a reference to a function that has not been initialized starts `func_init`, which validates the body before the statement goes on |
| `Flush` | `Scope.flush` |
| `Reject`, `NotUsed`, `Compiled` | the three ways an attempt ends: `GarterError`; a `SyntaxError` of `compile`, or one of the two attempts that only find out whether the input is incomplete; success of the first |
| `Store`, `MakeFunction`, `PassOver`, `CallFunction`, `Return`, `UnitEnds` | the execution of the unit in `__main__` by the eval loop |
| `Raise`, `GoWrong` | an exception of the program; `NameError`, `UnboundLocalError` or a value of another type than the validator expected |
| `RestartShell` | `restart_subprocess` |

Statements are records: declarations, declarations inside an `if`, uses, assignments,
calls, `global` statements and definitions of functions.  `FoundLocals` is
`discover_locals`, `Bound` is what Python's symbol table finds.  Function bodies are
sequences of the same statements; functions have neither parameters nor results.
An `AttributeError` that the validator itself raises is treated as a rejection.
`faulted` and `committed` are history variables: whether an execution raised or the
shell was restarted, and the scope after the last unit that was compiled.

### ImportLock

A program says what the body of each module, and of each thread, imports.  A step
is the code between two points where another thread would notice: everything
under the global import lock is one step, and so is everything under the mutex
of a module lock, except for `has_deadlock`, which keeps that mutex and reads
other locks one by one (`Chase`, `Hop`).

| `pc` | place in the code | next action |
|---|---|---|
| `run` | the body of a module, or the program of the thread | `Look`, `Loaded`, `Fails` |
| `register`, `acquire` | `_ModuleLock.acquire` | `Register`, `Acquire` |
| `chase`, `hop` | the loop of `has_deadlock`, with the mutex of the lock | `Chase`, `Hop` |
| `queue`, `wait`, `woken` | after `has_deadlock`; `wakeup.acquire()`, `wakeup.release()` | `Queue`, `Wait`, `PassOn` |
| `acquired`, `deadlock` | the `finally` clause of `acquire` | `Unregister` |
| `load`, `raise` | `_find_and_load_unlocked`; an exception arrives in the body | `Load`, `Fails` |
| `release`, `drop`, `callback` | `release`; the last reference to the lock goes; the callback of `_module_locks[name]` | `Release`, `Drop`, `Callback` |

`stack` holds the imports a thread is in the middle of, each with the lock it
refers to: a lock is alive as long as one of them does (`Referenced`), which is what the
weak references in `_module_locks` ask.  The callback of such a reference deletes the entry of
its name even if a new lock is there by then.  A lock that no import refers to any more may be
used again for a new one of the same module, unless `_blocking_on` or `has_deadlock` still refers to it
(`Unborn`).

### Queue

`Condition` and `Queue` together: `waiters` are the deques of the three conditions,
`mutex` the lock they share.  What a thread does while it holds the mutex is one step:
a test of the loop and what follows it (`Put`, `Get`, `TaskDone`, `Join`,
`GiveUp`, `Wait`).  A thread that sleeps is notified or times out;
in both cases it comes back through `Resume`, where it takes the mutex and, if it
timed out, removes itself from the deque.  In between it is still
in the deque, and `notify` may choose it.  `TimeOut` leaves nothing of the timeout, so
the call goes on as one that does not block: `remaining <= 0.0` is tested after the
condition of the loop.  `InterruptSpec` adds KeyboardInterrupt in the two places where the main thread
blocks inside `wait`.

### ThreadPool

| Action | Code |
|---|---|
| `Submit`, `Shutdown`, `JoinThreads` | `ThreadPoolExecutor`, under `_shutdown_lock`; a worker is started if there are fewer than `max_workers` |
| `GetItem`, `Start`, `Finish` | `_worker` and `_WorkItem.run` with `set_running_or_notify_cancel`, `set_result` and `set_exception` |
| `Cancel`, `AddDoneCallback`, `Result`, `ResultTimesOut`, `ResultReturns` | the methods of `Future` |
| `Invoke` | `_invoke_callbacks`, one callback at a time and outside of the lock |
| `AcquireFuture`, `Install`, `EventOrTimeOut`, `RemoveWaiter`, `WaitReturns` | `wait` and `as_completed`: the conditions are acquired one by one, then `Install` looks, puts the waiter in place and releases them |

`Tell` is the loop over `_waiters` with the three classes of waiters; `Sets` says when one
of these sets its event.  The work queue is that of module `Queue` without a limit, whose
`put` never blocks and whose `get` is woken up for each item.  A callback is named by the
call that adds it: the client, and how many calls that client has left.

### Collector

The heap is a graph: `refs` is what `tp_traverse` visits, `roots` are the objects that
something outside of the heap refers to, and a reference count is what the graph and
the running code add up to.  `frames` is the C stack as far as it matters: Python code
that runs on behalf of a finalizer or callback, deallocations in progress, and references
that C code holds.  The collector itself goes on only when the stack is empty.

| Action | Code |
|---|---|
| `Find` | `update_refs`, `subtract_refs`, `move_unreachable`, `move_legacy_finalizers` and `move_legacy_finalizer_reachable`: nothing else runs |
| `ClearWeakrefs`, `CallBack` | the two passes of `handle_weakrefs` |
| `Finalize`, `Check`, `Clear`, `Legacy` | `finalize_garbage`, one object at a time; `check_garbage` and `revive_garbage`; `delete_garbage`, one object at a time; `handle_legacy_finalizers` |
| `Dealloc`, `ContinueDealloc` | `Py_DECREF` at zero; `subtype_dealloc`, with a step between its calls of other code |
| `Store`, `Delete`, `Keep`, `Forget`, `Watch` | what Python code may do with objects it can reach, each at most `MaxSteps` times in all |

An object is plain, has `tp_finalize`, has `tp_del` or is a weak reference with a
callback.  Python code reaches what `Visible` says: what the roots lead to, and what the object
on whose behalf it runs leads to.  Two generations stand for three: the one collected
and those that are not.  `tp_del` is called at most once for each object.

`Reach(from, within)` is what the passes of `move_unreachable` and of `move_legacy_finalizer_reachable`
arrive at: the least set that has `from` and that no reference to a member of `within` leaves.
`HeapsAssumption` says what a heap is when the collector starts: references
lead to objects that are alive, and each object has at least one reference to it, or it would have been
freed before.

## 4. Runs and bounds

| Run | Instance | Distinct states | Shows |
|---|---|---|---|
| `gil` | 3 threads, `SwitchMod` 2 | 118,920 | `TypeOK`, `MutualExclusion`, `CurrentIsRunner`, `RestoredThreadsExit`, `SwitchWaiterHasContender`, `YieldSwitches`, refinement of `GilSpec`; `HolderGivesWay`, `FreeLockIsTaken`, `SwitchWaitEnds` under fairness |
| `breaker` | 2 threads, 3 calls, ring of 3, exceptions in both threads | 185,482 | `RingIsFifo`, `QueuedIsFlagged`, `OneCallAtATime`, `AsyncExcIsNoticed`; `DropRequestHonoured`, `AnnouncedCallIsMade` under fairness |
| `signals` | 2 signals, 2 deliveries on or beside the main thread, queue of 2, two other calls, 2 activations, handlers that may raise | 298,880 | `OnlyExceptionsForget`; `QueuedCheckHandles` under fairness |
| `types` | up to 3 elements of 48 types, up to two constructors deep, `NoType` among them | 20,419 | `ElementsFit`, `DeclaredElementsFit`, `SubsumptionIsSubstitution` |
| `repl` | 2 units of up to 3 of 13 statements, recursion up to depth 2, exceptions, restarts | 3,493,000 | `SoundUntilFault`, `ScopeDescribesMain`, `OnlyCompiledUnitsDeclare`, `DeclarationsAreKept`, `NoNestedValidation`, `RunsOnlyValidated` |
| `import` | 3 threads, 2 modules, all programs in which each module and each thread imports one module or none; loads fail in those of two threads | 300,601 | `OneLoader`, `PartialOnlyToLoaders`; `ImportsEndOrCaught` under fairness |
| `queue` | 3 threads, 2 calls each, no limit and limits of 1 and 2 | 739,528 | `NoWaiterStranded`, `NoJoinerStranded`; `WaitsAreJustified` under fairness |
| `pool` | 2 futures, 2 workers, 3 clients, 40 programs | 436,671 | `SleepersHaveReason`, `CallbacksAreCalled`, `OneOutcome`; `EverythingEnds` under fairness |
| `gc` | 3 objects of each kind, a weak reference and a second one that may be created, 2 steps of Python code | 557,708 | `FoundIsUnreachable`, `ClearedIsInvisible`, `TrashIsFreed` |
| `import_waits` | 2 threads, 2 modules, no failing loads | | refutes `ImportsEnd` (section 8) |
| `gc_watch` | those heaps of `gc` in which a finalizer that is trash can see its cycle; finalizers may create the weak reference | | refutes `ClearedIsInvisible` (section 8) |
| `repl_restart` | 2 units of one statement, restarts | | refutes `NothingGoesWrong` (section 8) |

Type invariants are checked by TLC in run `gil` only.  Those of `EvalBreaker`, `GarterTypes` (`TypingOK`), `GarterRepl`, `ImportLock`, `Queue` and `Collector` are
proved; those of the other modules were left out of the runs in favour of properties that
could fail for a reason, and every other invariant would raise an error in TLC if
a variable left its type in a way that matters to it.

Why these bounds:

* *Threads of the GIL*: a holder, a thread waiting for the forced switch and a
  contender are three roles that have to be played at once; a fourth thread only
  adds a second contender.  The proofs cover any number, and spurious wake-ups.  Two values
  of the counter suffice, and make every comparison of an old value with a wrapped
  one possible.
* *Calls and ring*: three calls on a ring of three slots (two usable) fill it, are
  refused, and wrap both indexes.  Calls are numbered in the order in which they
  are added, which loses nothing: they are alike.
* *Threads of the eval breaker*: each recomputation races with one other
  thread's request; calls are added by further threads anyway.
* *Signals*: the order of two signals matters to the scan (lower numbers
  first), and the handler of the first may raise before the scan comes to the second; two activations are a check inside
  a Python handler, the shortest nesting.  Two other calls fill the queue.
* *Types*: a counterexample of subsumption needs a constructor inside another one
  (a list in a dict, a list as an argument), and three elements are the least for
  which the element in the middle can be wider than both neighbours.
* *Sessions*: the least programs in which a function refers to a later one, shadows,
  assigns or recurses take three statements; with two units the second starts from
  every scope the first can leave.  Units are built of every sequence of the
  statements in `MCGarterRepl`, most of which are rejected somewhere in the middle,
  which is what the properties about the scope are for.

* *Imports*: two modules make the shortest circle, and three threads are the least
  with one outside of it.  A third module makes longer circles of the same kind, and a chain
  that is taken for one (section 8).
  Loads fail in the programs of two threads only: with three, `OneLoader` does not hold
  (section 8).  The proofs cover any numbers, and failing loads.
* *Queues*: the shortest story in which a notification goes astray has one
  that is late, one that sleeps and one that puts or gets.  Two calls of each thread
  allow an item to be taken by a newcomer.  A limit of two has a queue that is neither
  full nor empty.
* *Pool*: two conditions are the least that can be acquired in different orders, and
  two workers the least that have to share a `None`.  The three clients are one that
  submits and waits, one that interferes, and one that cancels while both wait.
* *Collector*: a circle of two objects with a third that leads into or out of it, in many
  arrangements, with weak references from inside, outside and the older generation.  Two steps
  of Python code are enough to resurrect an object and to drop what keeps another alive.

`CHECK_DEADLOCK FALSE` is set for the Garter runs, where a bounded session ends, and for
imports, queues, the pool and the collector, where programs, calls and the collection
do; their liveness properties say that they end well.  The runs about the eval loop
check for deadlock.

## 5. Fairness

* `Gil`: weak fairness of `Step(t)`, everything a thread does by itself inside
  `take_gil` and `drop_gil`, and of the eval loop's test of the drop request.  The
  operating system schedules runnable threads, `pthread_cond_timedwait` ends at its
  deadline, and the loop tests `eval_breaker` every few instructions.  Nothing is
  assumed of a thread in a blocking call, of new threads, or of finalization.
  A free mutex is not granted fairly: `SwitchWaitEnds` therefore speaks of the wait
  on `switch_cond`, not of the acquisition of the mutex.
* `EvalBreaker`: weak fairness of the steps of the loop and of the waiting thread's
  timeout, and strong fairness of the return of a pending call, since its code
  may be interrupted over and over by requests it does not serve.  Adding calls
  and setting exceptions is up to the program.
* `Signals`: weak fairness of the C handler and of the loop, which comes to the queue only while
  `eval_breaker` is set: a call whose `eval_breaker` was overwritten is never owed a step.  Strong fairness of the
  return of a Python handler, for the same reason as above.  Nobody is forced to call
  `PyErr_CheckSignals`, to raise another request or to finish a recomputation: programs that do not call it are those at risk.
* `ImportLock`: weak fairness of each thread.  A mutex or `wakeup` that is free is taken
  in the end if nobody else wants it; with three threads the mutex of a lock is never held for
  ever except by `has_deadlock`, which is the exception `ImportsEndOrCaught` makes.
* `Queue`: weak fairness of each thread inside a call, with the end of its timeout; new calls
  are up to the program.  Since calls are bounded, a free mutex is in the end taken by whoever
  still wants it.
* `ThreadPool`: weak fairness of each client and each worker; functions that are
  submitted return.
* The Garter modules and `Collector` state safety properties only.

## 6. Proofs

### The lock

`GilProofs` proves, for every set of threads, every `SwitchMod` above 1 and every
behaviour of `Spec`, or of `SpuriousSpec`, in which condition waits may also return
for no reason:

| Theorem | Statement |
|---|---|
| `TypeCorrect` | `Spec => []TypeOK` |
| `Exclusion` | `Spec => []MutualExclusion` |
| `CurrentThread` | `Spec => []CurrentIsRunner` |
| `ExclusionDespiteSpurious` | `SpuriousSpec => [](MutualExclusion /\ CurrentIsRunner)` |
| `FinalizeStopsRestored` | `Spec => []RestoredThreadsExit` |
| `SwitchWaiterNotStranded` | `Spec => []SwitchWaiterHasContender` |
| `YieldingSwitches` | `Spec => YieldSwitches` |
| `Refinement` | `Spec => AbstractSpec` |

The only assumption is `GilAssumption`: `Main` is a thread, `NoThread` is not, and `SwitchMod`
is at least 2.

*First invariant.*  `MutualExclusion` is not inductive: two threads in `take_switch`
would both go on to hold the lock.  `LockInv` therefore says who owns the mutexes:
a thread in `take_switch` or `take_reset` owns `gil_mutex` (`MutexOwners`), a
thread in `drop_reset` owns `switch_mutex`; while somebody is in `take_switch` the
GIL is free (`FreeAtSwitch`), for it was found free under `gil_mutex`, which was not
released since.  This chain, the first mutex held until the second is taken, is
what exclusion rests on.  `LastHolder`, `CurrentRuns` and the rest tie
`gil_last_holder` and the current thread state to the thread that holds the lock.
None of it depends on why a wait returned, so it is an invariant of `SpuriousSpec`.

*Second invariant.*  In `Spec` a thread in `switch_wait` left its
request behind when it was the last holder, and nobody took the GIL since, or the
signal of `TakeOwn` would have moved it on.  `SwitchInv` says where its
contender is: a drop request stands only while some thread is inside `take_gil`
(`RequestHasContender`); a thread on its way into the wait for the switch, or in it,
leaves another one there that will take the GIL (`SwitchHasContender`);
and a thread that owes a switch and has left the wait is not the last holder any more
(`OwedSwitch`).

*Refinement.*  Both invariants together give the step simulation: `TakeOwn` is
`Take` (its second conjunct, that the taker owes no switch, is `OwedSwitch`),
`DropMutex` and `DeleteCurrent` are `Drop` or `Yield` according to where `drop_gil`
returns to, and every other action leaves the abstract state alone.

The proofs are one step per action for each of the two invariants, after the lemma
`TypeStep`; the temporal steps are at the end of the module.

### Pending calls and asynchronous exceptions

`EvalBreakerProofs` proves, for any threads, any calls and any size of the ring:

| Theorem | Statement |
|---|---|
| `TypesAreCorrect` | `Spec => []TypeOK` |
| `PendingCallsAreFifo` | `Spec => []RingIsFifo` |
| `QueuedCallsAreFlagged` | `Spec => []QueuedIsFlagged` |
| `CallsDoNotNest` | `Spec => []OneCallAtATime` |
| `ExceptionsAreNoticed` | `Spec => []AsyncExcIsNoticed` |

The only assumption is `BreakerAssumption`; in particular the ring has at least two slots.

*The ring.*  `RingIsFifo` is inductive once the remainders are gone: `RingWraps` replaces
`RingLength` and the slots by cases (`Distance`, `Slot`) and says that no slot in use is the one
`pendinglast` points to.  A pop then shifts the slots by one, and an addition fills the free slot.
`served <= Len(accepted)` in `TypeOK` depends on it.

*No nesting* (`RunningInv`).  A call that runs is the one in `func`, `busy` is set, and the main
thread is not in the loop of `Py_MakePendingCalls`.  The loop itself is entered only
if `busy` is not set, which is why no call runs then.

*Exceptions* (`ExcInv`).  Three facts are needed at once: with the GIL and beyond
`take_gil`, a thread that has an exception has `pending_async_exc` set; that flag implies
`eval_breaker`; and whoever is about to store `eval_breaker` has loaded the flag if it is
set.  The last one holds because the flag changes under the GIL only, and
`HolderInv` says that nobody has the GIL but the thread that recomputes, or, in
`drop_gil`, nobody at all: a thread resets the request only while it is the last holder.

### Signals

`SignalsProofs` proves, for any number of signals, deliveries and activations, any size
of the queue, and C handlers on any thread:

| Theorem | Statement |
|---|---|
| `NoSignalForgotten` | `Spec => OnlyExceptionsForget` |
| `WithoutExceptionsAllSeen` | `Spec => []EachSeen`, if no handler raises exceptions |

There is no assumption about handlers.  `Seen(s)` says that something will make `PyErr_CheckSignals` look at a signal: `is_tripped`,
a delivery that is about to set it, or a scan that has still to come to it.  An activation that has
yet to test `is_tripped` does not count, since it returns at once when the flag is not set.
`SeenStep` follows this reason over each step: when `is_tripped` is cleared, the scan of this activation takes
its place, as it starts at the first signal (`InCheckSignals`); when a scan has
passed a signal, it has cleared the flag of it; and when an activation returns, it has passed all signals or a handler raised.
An exception can leave signals behind, and does (section 8); `WithoutExceptionsAllSeen` is the invariant that remains when
there are none.

### Futures

`ThreadPoolProofs` proves, for any futures, clients, workers and programs:

| Theorem | Statement |
|---|---|
| `EachFutureHasOneOutcome` | `Spec => OneOutcome` |
| `EachCallbackIsCalled` | `[]CallbacksAreCalled` |
| `NobodyOversleeps` | `[]SleepersHaveReason` |

The assumptions are `PoolAssumption` and `ProgramAssumption`: `submit` and the methods of a
future are about one future, and each `submit` makes one of its own.

*One outcome* (`IInv`).  The invariant follows a work item.  Before `submit` the future is absent
(`ToSubmit`); then it is in one place of the queue, waiting or cancelled (`InQueue`);
then one worker has it, and the state says whether it was started (`WithWorker`).  It is never in two
places, so that nobody else changes the state of a future between the steps of its
worker, except for `cancel` before it starts.  Most steps move no work item (`Aside`).

*Callbacks* (`CallbackInv`).  `Course` follows one future: as long as it is not done nobody calls callbacks and
none was called; afterwards each callback that was added has been called or is on one list, and the
lists of the threads that call, and what was called, have nothing in common.  That a callback
which is added now is on no list needs a bound on the names that are: `Made(k)` says that the call that
made `k` is over, or is the current one of its client, which then calls callbacks itself.  A step of a future is one of
six kinds, one lemma each: it stays, begins, grows, goes on, advances or ends.

*Waiters* (`SleepInv`).  `OnLists` says which `_waiters` a client is on: while it sleeps, those
of all futures it waits for; while it removes itself, at most those it has yet to come to; otherwise none.
`Informed` says that its waiter knows what the futures know: for `wait()`, while the event is not
set, `left` is the number of futures that have not been reported, and these do not satisfy it; for
`as_completed()`, what was reported and what the waiter holds is together what is done, and it
holds nothing while the event is not set.  A future that ends changes both sides in one step
(`ToldSleep`); `Install` puts them in agreement since it holds all conditions.

### Types

`GarterProofs` proves, for any set of types nested as deep as may be, and for lists of any length:

| Theorem | Statement |
|---|---|
| `MethodsAnswer` | every call of `completes`, `subsumes` or `__eq__` comes to an end, with the answer of the method that is called |
| `RelationsWellBehaved` | `subsumes` and `completes` are transitive; types that are equal or complete one another are the same, and so are two complete types of which one completes the other; a type that completes another one subsumes it or is the same |
| `RegularTypesReflexive` | a type in which no dict has one hole and no function any is equal to itself, and completes and subsumes itself |
| `TypingCorrect` | `[]TypingOK` |
| `FoundTypeFitsElements` | `[]ElementsFit` |
| `DeclaredTypeFitsElements` | `[]DeclaredElementsFit` |
| `SubsumedIsSubstitutable`, `SubsumptionAlwaysSubstitution` | `Substitutable(a, b)` for complete types where `a` subsumes `b`; so `[]SubsumptionIsSubstitution` |
| `MergeAnswersWithoutHoles` | `[]MergeAnswers`, if the types of elements and declarations belong to a set without holes (`NoHoles`) |
| `SessionsCompareTypes` | the relation of `GarterRepl` is `subsumes` on the types of a session |

The assumption is `TypesAssumption` (section 3).  It also asks for the types that
methods of built-in types mention.  It allows elements without a type, and holes anywhere.

*Recursion.*  A recursive definition in TLA+ says nothing until a function that satisfies it is known to exist.
The library's theorem on recursion takes the definition as an operator, which the provers cannot
instantiate.  `Recursion` is that theorem for a function `G` instead: `G[x][f]` is the value at `x` if the values
elsewhere are those of `f`, and depends on `f` only where the rank is lower than that of `x` (`Descends`).  Its
proof needs of the natural numbers that a set of them has a least element (`LeastNumber`), which is one of the library's
theorems on well-founded relations with a set in the place of the operator.  The rank of a call is
the sum of the depths of its two types.  That a method depends only on calls of a lower rank is
shown for each (`SubsumesLocal`, `EqualLocal`, `CompletesLocal`); `subsumes` of functions swaps the two sides for
arguments, therefore the sum.  After that `SubsumesYes`, `EqualYes` and `CompletesYes` say when a
method answers `yes`, and the recursion is not looked at any more.

*Relations.*  No property of a relation can be proved by itself: `__eq__` is `subsumes` both ways for some classes and
compares the parts for others, `subsumes` of a list is `completes` of the items, `completes` of an int or a function is `__eq__`,
and the arguments of functions go the other way.  `WellBehaved` is all of them together, for the types of a
set: `Implied` for pairs of them and `Transitive` for triples.  `ImpliedStep` and `TransitiveStep` lead from a set to types whose parts are in it, and
`TypesWellBehaved` is the induction over the depth.  With holes in odd places a type need not be
related to itself: `completes` of `{1: [][0]}` asks a hole, and raises.  So reflexivity
is not among these properties, and has a theorem of its own for the types that are `Regular`.

*Lists.*  `ElementsFit` is inductive, given that `Admits` is transitive: the type that replaces the one found so far admits it, and so what that
admitted.  While the type found is still `NoType`, all elements so far have no type (`TypingOK`), which is why only these can be forgotten.  A
declared type that subsumes a list type is that of a list whose item completes the
type found, or that type is the hole, and then no element has a type.

*Substitution.*  Of two complete lists or dicts one subsumes the other only if they are the same type
(`MethodsInvariant`), so their methods are the same.  For types with holes
this fails: the type of `[1]` subsumes that of `[]`, not the other way round.  The arguments of functions go
the other way, by transitivity.

*Holes.*  `Answered` says of a set of types that no method raises on them; again the induction is over the
depth, of all three methods together.

### Sessions

`GarterProofs` also proves, for any set of statements, units and sessions of any
length, any recursion limit, with exceptions and restarts:

| Theorem | Statement |
|---|---|
| `TypeCorrect` | `[]TypeOK` |
| `CompiledUnitsDeclare` | `[]OnlyCompiledUnitsDeclare` |
| `ValidatedBeforeRun` | `[]RunsOnlyValidated` |
| `DeclarationsPersist` | `DeclarationsAreKept` |
| `ValidationDoesNotNest` | `[]NoNestedValidation` |
| `TypesAreSound` | `[]SoundUntilFault`, if every function body is `Tidy` |
| `ScopeIsRight` | `[]ScopeDescribesMain`, if every function body is `Tidy` |

`ReplAssumption` says that statements are well-formed records, functions
are not defined within functions, and the bounds are natural numbers.  The last two
theorems need one assumption more.  A body is `Tidy` if what it declares in an `if`
statement and reads it also declares outside of one.  The code does not ask for
this, and without it Garter is not sound: `MCGarterReplShadow.cfg` shows a body
of two statements which is accepted, and whose call ends in
`UnboundLocalError` (section 8).  So the theorem says that blocks are the only
hole in this part of the language, until something raises.  The statements of the runs are tidy
(`StatementsTidy`, which TLC evaluates).

*The chain of backups* (`ScopeInv`).  That a failed attempt leaves no trace is not
inductive, since during validation the scope is neither the old nor the new one.
`BackupChain` says where the truth is in each phase: between units the scope is what
the last compiled unit left, during validation the backup is.  `AllInitialized` says that
between units, and while one runs, no function is pending, which a backup therefore
preserves.  `NothingRedeclared` says that validation has so far changed no entry
that the backup declares: a declaration asks `MayDeclare` first, and the
initialization of a function only touches one that is pending, of this very unit.
When the unit is compiled the last fact turns into `DeclarationsAreKept`.

*No nesting* (`NestingInv`).  The locals of a body never hold a pending function
(`discover_locals` leaves invalid entries, and functions are not defined there), so a
reference that starts a validation is to a pending function of the global scope; every
function on the stack had its pending mark removed when it was pushed.  So what is
pushed is not on the stack yet.

*Sound types* (`StaticInv`, `DynamicInv`).  A unit is passed over twice, by the validator
and by Python.  The invariant has to carry what the first pass found out to the place where
the second one needs it, although by then the scope has grown.  `Known(S, u, k)` are the
declarations of scope `S` and of the statements of unit `u` before `k`: during validation
it is `Facts(scope)`, and during execution it is what `env` has bound so far.

* `StaticInv`, which holds whatever raises.  `UnitOK`: each statement of the unit is right
  (`RootOK`) with what was known before it, and with a set of bodies that is `Closed`: each
  body in it is right if those it calls are in the set too.  This
  is how functions that call one another are dealt with: a body whose validation has begun may
  be called by others (`Ready`), and is right or still has its frame on the stack of the validator.  When
  the stack is empty, all are right, so the set of `Ready` bodies is closed.  For each
  frame, `FrameOK` says that the statements it has passed are right, and which
  of them its local scope comes from.  `StmtOK` and `Closed` are kept when more is
  declared (`StillOK`), so a function validated in one unit may be called in any later one.
* `DynamicInv`, as long as nothing has raised.  `Describes`: what is known is bound, to a
  value of a type that the declared one subsumes, and a function to its body.  The frames of the calls are of bodies
  of a closed set, and their locals have what the statements they have passed
  declare (`CallOK`).
* The two passes mean the same variable by a name: `Bound`, which is Python's
  rule, agrees with the scopes of the validator for every statement of a body that is right (`DeclaredIsBound`,
  `BlockIsBound`, `AssignsWhere`), and for reads if the body is tidy (`ReadIsGlobal`).

Before the proof TLC checked both invariants, for statements that include blocks in tidy bodies
and variables of a function type: 11,584,000 states.

### Queues

`QueueProofs` proves, for any finite set of threads, any limit and any number of calls:

| Theorem | Statement |
|---|---|
| `Invariant` | `Spec => []IInv` |
| `WaitersNotStranded` | `Spec => []NoWaiterStranded` |
| `JoinersNotStranded` | `Spec => []NoJoinerStranded` |
| `QueueIsLocked` | `Spec => []MutexHeld` |

The only assumption is `QueueAssumption`: threads are finitely many, `Main` is one, `Nobody` is not,
limits are natural numbers.  `QueueIsLocked` has no run: TLC checks `MutexHeld`
where it fails, with `InterruptSpec` (section 8).

*Who is where* (`Base`).  `MutexOwner` says that the thread in the middle of a test is the one
that holds the mutex, which makes two tests at a time impossible.  `Listed` and `Placed` tie the
deques to the threads: who sleeps is in the deque of its condition, and a
deque holds nobody but those that sleep in it or have given up and not yet removed themselves.
`AllDistinct` says that nobody is there twice, so that `notify(n)` removes exactly the first
`n`.  These are facts about sequences, which the first lemmas establish
(`FirstRemoved`, `OneRemoved`, `OneAppended`).

*Counting* (`NoWaiterStranded`).  While somebody sleeps in `get`, the threads on their way to
the test number at least `qsize`.  An item that is added wakes up the first thread
of the deque.  If that one sleeps, there is one more on its way.  If it had given up, it
had not been counted, precisely because it was still in the deque, and now it is
(`OneMoreKnows`).  A thread that takes an item is itself one of those counted, and so is one that
finds nothing: then there is no item left (`OneLessKnows`, `NothingDue`).  The same holds for
`put` and the free slots: `Enough` is stated for either method.  The property is inductive
together with `Base`; what made it so is the choice of who counts as on its way
(`Roused`).

*Joiners.*  `task_done` notifies all of the deque when `unfinished_tasks` becomes zero, and
`Listed` says that this is everybody who sleeps there.

### The collector

`CollectorProofs` proves, for any finite set of objects, any heaps and any number of steps of Python
code:

| Theorem | Statement |
|---|---|
| `TypeCorrect` | `Spec => []Base` |
| `CountingFindsTheUnreachable` | `Spec => []FoundIsUnreachable` |
| `Invariant` | `~MayWatch` implies `Spec /\ []TrashWatchesTrash => []IInv` |
| `ClearedStaysInvisible` | `~MayWatch` implies `Spec /\ []TrashWatchesTrash => []ClearedIsInvisible` |
| `ClearedIsFreed` | `~MayWatch` implies `Spec /\ []TrashWatchesTrash => []TrashIsFreed` |

The assumptions are `CollectorAssumption` and `HeapsAssumption` (section 3).  The last three theorems have
two more hypotheses, and neither can be spared, as TLC shows (section 8): no weak reference is created
while finalizers run (`~MayWatch`), and when the trash has been found, the weak references in it
watch nothing outside of it (`TrashWatchesTrash`).

*Counting* (`OutsideIsReferred`).  A reference count is a sum of four numbers.  When the collection starts
nothing runs and nothing is pending, so what `subtract_refs` leaves of the count of a young object is
positive exactly if a root or an object outside of the young generations refers to it; this
takes cardinalities of finite sets only.  From there on it is about sets: `Reach` is the least closed set,
and each of the two sides of `FoundIsUnreachable` is shown to contain the other because it is closed
(`ReachIsLeast`, `ReachIsClosed`).

*Out of reach* (`Kept`).  The trash is `unreachable` together with what has been cleared.  `Hidden` says that no root,
no running code and no object outside of the trash refers to it; what code may do, step by step,
cannot change this since code starts from what it sees (`CodeSeesNoTrash`).  While finalizers run `Hidden`
does not hold, since they run on behalf of trash: that is what `check_garbage` is for, and an empty
`Revived` gives `Hidden` back by counting once more.  Between those two points it is `Unwatched` that
is kept: no weak reference leads to trash, so that an object which is not resurrected
is not seen by anybody afterwards either.  `Untouched` says that until the finalizers run each object of the trash is referred to from the
trash, so that none of it dies; `Finalized`, that each object of it has had its finalizer called before the first
one is cleared, so that the clearing runs no code of theirs; `Emptied`, that what was cleared stays
empty, so that the cleared objects do not keep each other alive.

### Imports

`ImportLockProofs` proves, for any finite set of threads, any modules and any programs:

| Theorem | Statement |
|---|---|
| `Invariance` | `Spec => []IInv` |
| `LockHasOneHolder` | `Spec => [](OneHolder /\ DeadlockOnlyToLoaders)` |
| `OneLoaderUnlessDisturbed` | `Spec /\ []Undisturbed => [](OneLoader /\ PartialOnlyToLoaders)` |
| `OneLoaderWithoutFailures` | `Spec /\ [][\A t \in Threads : ~Fails(t)]_vars => [](OneLoader /\ PartialOnlyToLoaders)` |
| `TypeCorrect` | `Spec => []TypeOK` |
| `ReleaseNeverRaises` | `Spec => []ReleasesSucceed` |

The assumption, `ImportAssumption`, says that there are threads, finitely many, that none of them is `NoOne` or a module, and that
programs import modules.  All of `Spec` is meant, with loads that fail wherever `MayFail`
says so, unless the statement excludes them.

*The lock.*  `Typed` is the type invariant without the bound on `waiters`.  `Shape` says what the stack of a thread looks like: its
program at the bottom, above it modules it loads, each with a lock, and at the top the import that `pc` is about.  `Holders(l)` are the imports that are past `acquire`
and not yet past `release` for `l`, and `Owned` says that all of them are of the owner of `l`, and that `count`
is their number; that is what makes the lock recursive.  A new lock has no holders, because `_get_module_lock` creates one only if
no import refers to it (`Unreferenced`).  Who meets itself in `has_deadlock` owns a lock, and so has an import below the innermost one.

*One loader.*  A lock excludes other threads; a module is loaded by one thread if all its imports have the same lock
(`OneLock`).  A callback that deletes the entry of a newer lock destroys that, so `Undisturbed` says that no callback
finds an import of its module that has a lock.  This is an assumption about the behaviour, not about the code, and the
code does not always satisfy it; but it is the only one that is needed, whatever fails.  `Initializing`, that a
module in the middle of being loaded is on the stack of a thread, gives the second property.

*Without failures* `Undisturbed` follows.  `Settled` says why: an import that is about to drop its
lock is of a module that was loaded, or that somebody loads (`Begun`): whoever found the lock taken found a holder, whose import is of the same
module since locks are not shared between modules (`Named`).  If nobody else refers to the lock there is no such holder any more, so the module
is loaded when the callback comes, and no import of it begins.  A load also fails when a `_DeadlockError` leaves the
body; a thread for which this is next takes no further step in these behaviours.

*Wake-ups.*  `wakeup` is taken on behalf of one waiter that is still to be woken up, or by one thread that has been (`Wakeup`).  Hence
`waiters` is at most 1, and `wakeup` is only released while it is taken.  Together with `Owned` this is why `release` does not raise
`RuntimeError`.

## 7. What is only model-checked

* Liveness, with its fairness assumptions: out of the prover's reach.
* `OneLoader` and `PartialOnlyToLoaders` of `ImportLock` in full for programs of two threads whose
  loads may fail; what is proved excludes the failures, or what they may lead to (section 6).
* `TypeOK` of `ThreadPool` as a whole: the proofs need, and prove, the types of all variables but
  `holder` and `shutdown`, with `left` an integer.
* `SoundUntilFault` and `ScopeDescribesMain` of `GarterRepl` for bodies that are not tidy: they do not hold for all
  of these (section 8).
* That a comparison raises only because of holes is proved (section 6); for types with holes
  `MergeAnswers` does not hold (section 8).

## 8. Where code and documentation disagree

Three of these are runs that end in a counterexample (`findings` in `PROJECT.json`).

* `import_waits`.  "Otherwise, the lock is always acquired and True is returned"
  (`Lib/importlib/_bootstrap.py:98`).  `has_deadlock` follows owners until it meets its own
  thread or one that is not blocked.  Module `a` imports `b` and `b` imports `a`, each
  loaded by one of two threads: the second one to block is about to find the circle, for which it needs
  the mutex of the lock it wants.  If another import has that mutex and goes round
  the circle, of which its own thread is not a part, it never lets go.
  What does hold is `ImportsEndOrCaught`: there is no other way to wait for ever.
* `gc_watch`.  "When this returns, no object in `unreachable` is weakly referenced anymore"
  (`Modules/gcmodule.c:595`), "lest the callback resurrect an unreachable object via a
  still-active weakref" (613).  `finalize_garbage` comes after that, and a finalizer
  may create a weak reference to trash it is part of and store it elsewhere.
  `check_garbage` finds nothing resurrected, `delete_garbage` clears the object, and
  code that runs while other objects are freed calls the reference.
* `repl_restart`.  "Restart the shell to clean the environment"
  (`Doc/library/idle.rst:223`): the new scope is assigned to an attribute that nothing
  reads; names of the terminated process are still accepted, and end in `NameError`.

Seven configurations beside the runs show further ones:

* `MCCollectorTrashRef.cfg` refutes `ClearedIsInvisible` without any new weak reference.  The comment from
  `Modules/gcmodule.c:645` on says that a callback of a weak reference which is trash is not called: "It may be
  catastrophic to call it."  But only references *to* trash are cleared.  One that is trash and watches an object of
  an older generation keeps its callback.  If clearing another object drops the last reference to
  that one, the callback runs in the middle of `delete_garbage`, and what it refers to may have been cleared already.
  Without references of this kind, and of the kind of `gc_watch`, `ClearedIsInvisible` holds (section 6).

* `MCEvalBreakerLost.cfg` refutes `QueuedCallIsMade`.  `Doc/c-api/init.rst:993`: a queued call
  "will be *eventually* called".  `RESET_GIL_DROP_REQUEST` in `take_gil` loads
  `pendingcalls_to_do` before, and stores `eval_breaker` after, another thread queued a
  call and set both.  The call is flagged but the loop is not told, until something
  else breaks it.  What does hold is `AnnouncedCallIsMade`.
* `MCSignalsMiss.cfg` refutes `SignalIsHandled`.  `Doc/library/signal.rst:33` promises the
  Python handler "at a later point".  If the C handler interrupts the main thread inside
  the critical section of `pending_lock`, `Py_AddPendingCall` fails, `trip_signal` ignores
  that, `is_tripped` stays set, and so no later signal queues the call either.  Or the call is queued, and a
  recomputation that has read the flags before then stores 0 in `eval_breaker`.  What
  does hold is `QueuedCheckHandles`: if a call of `checksignals_witharg` is in the queue, and `eval_breaker` announces
  it with no recomputation under way, then the signals tripped by then are handled, or an
  exception of a handler ends the scan before it comes to them.
* `MCGarterTypesHoles.cfg` refutes `MergeAnswers`.  `subsume` returns "the more general of the two
  types, or None" (`Lib/garter.py:299`); for the type of `[]` on the left, `completes` calls a
  method of `None`.  `[[], [1]]` ends the validator with `AttributeError`, `[[1], []]` is
  accepted.
* `MCGarterReplShadow.cfg` refutes `SoundUntilFault`.  Garter is "a strongly typed minimal subset of Python" (`README:8`).  A name that an `if` statement in a
  function declares belongs to the block for the validator, to the whole function for Python.  With `x : float = 1.0` at top level,
  a function with `if c: x : float = 2.0` and then a use of `x` is accepted, and ends in
  `UnboundLocalError` when the branch is not taken.  If all bodies are tidy nothing of the kind happens (section 6).
* `MCImportLockChain.cfg` refutes `DeadlockIsCircular`.  "Concurrent circular import, we'll accept a
  partially initialized module object" (`Lib/importlib/_bootstrap.py:208`).  Module `a` imports `b`, `b` imports
  `c`, and nothing is circular.  One thread loads `a` and waits for a second one, which loads `b` and waits for a
  third one, which loads `c`.  While the first follows them in `has_deadlock`, `c` is done, and the third thread goes
  on to import `a`.  The first has read that the second waits for the third; now it reads that the third waits
  for itself, and raises `_DeadlockError`.  An import of a module that is being loaded then yields `b` as
  it is, half initialized.
* `MCQueueInterrupt.cfg` refutes `MutexHeld`.  "mutex must be held whenever the queue is
  mutating" (`Lib/queue.py:31`), and `Condition.wait` means to "restore state no matter what (e.g.,
  KeyboardInterrupt)" (`Lib/threading.py:291`).  If KeyboardInterrupt is raised in
  `_acquire_restore`, the with statement around `wait` releases a lock that its thread does
  not hold: if another thread does, a third may now take it too.  An interrupted
  waiter that was chosen by `notify` before also keeps the notification to itself.

Others were met while modelling, and have neither run nor configuration; the constants named
here produce a counterexample.

* `Python/ceval_gil.h:50` says a yielding thread waits "until the value of
  gil_last_holder is changed"; the wait is in an `if`, and returns early on a spurious
  wake-up.  (`YieldSwitches` under `SpuriousSpec`.)
* `Py_Finalize` expects remaining threads to exit after taking the GIL
  (`Python/pylifecycle.c:544`).  `PyEval_AcquireThread`, through which a new thread
  enters, has no such test: in `Gil`, `entry[t] = "acquire"` is excluded from
  `RestoredThreadsExit` for this reason.
* A Python handler that raises ends the scan after `is_tripped` was cleared; a signal
  with a higher number, tripped by then, waits for the next one.
  The handler that Python installs for SIGINT, number 2, raises KeyboardInterrupt.  (`SignalIsHandled` with `MayRaise = TRUE`.)
* `validate_list` asks "`elt == None`" (`Lib/garter.py:782`) to find out whether an element is the first, and an
  element may have no type.  `[[][0], 1]` is found to be a list of int, and nothing is said of its first
  element.  A list of such elements only has the type of `[]`, which every declared list type subsumes: `x : [int] = [1[0]]` is
  accepted.  (`ElementsFit` without the case of elements that have no type, `DeclaredElementsFit` without
  `elts[i] # NoType`.)
* A declaration whose initial value raises stays in the scope: later units that use
  the name are accepted and fail, and it cannot be declared again.
  (`NothingGoesWrong` with `MayRaise = TRUE`.)
* "They are executed only the *first* time the module name is encountered in an import
  statement" (`Doc/tutorial/modules.rst:74`).  A thread that finds the module absent from
  `sys.modules` asks for its lock without looking again; if another thread has loaded it by
  then, it is loaded once more.  (`LoadedOnce` with two threads.)
* The callback of a weak reference in `_module_locks` runs outside of the import lock and
  deletes the entry of its name, which may be that of a newer lock; a third thread then
  creates one more, and two threads load the module.  (`OneLoader` with three threads and
  loads that fail.)  There is no other way: without such a callback, `OneLoader` holds
  whatever fails (section 6).
* "These callables are called in the order that they were added"
  (`Lib/concurrent/futures/_base.py:369`).  A callback that is added when the future has ended is
  called at once, while the worker still calls those before it.  (`CallbacksInOrder` of `ThreadPool`.)
* In `Lib/concurrent/futures`, outside of what is modelled: `wait([f, f])` compares the
  number of futures that are done with the length of the list, and waits for ever for one that
  has ended already; after `_python_exit` an executor that was not shut down still accepts work, which
  nobody does.
* In `Lib/garter.py`, outside of what is modelled: `nonlocal` is always rejected (1333),
  the concatenation of lists raises `NameError` (625), and bitwise operators and `**`
  on integers, which `GarterTest/Pass/ints.py` uses, are rejected.

## 9. What is not modelled

* In the modelled parts: Windows primitives (`condvar.h` and `ceval_gil.h` for NT), `fork`
  (`PyEval_ReInitThreads`), `sys.setswitchinterval`, the initialization of the lock by
  `PyEval_InitThreads`, memory-order weaker than that of the atomic operations (the
  relaxed loads of the flags appear as loads that may come early, but each thread's
  stores become visible in order), several interpreters.
* In Garter: parameters, results, nested functions, classes, loops, imports and the
  operators of expressions (step 6 of the plan); line numbers and messages;
  exceptions other than `SyntaxError` that `compile` raises after the validation.  An
  `AttributeError` of the validator itself ends the command at once, while the model
  takes it for one more rejected attempt.
* In `ImportLock`: packages and their parents, `reload`, finders, `_imp.lock_held`; the
  reference `has_deadlock` has to the lock it looks at is taken to keep that lock alive
  but not its entry in `_module_locks`.
* In `Queue`: the order of items, subclasses, an exception in `_put` or `_get`; of
  `threading`, everything but `Condition` on a plain lock.
* In `ThreadPool`: `map`, executors that are collected (their weak reference has the
  effect of `shutdown(wait=False)`), the exit handler, threads that cannot be started, functions that submit
  work or wait for futures of their own pool, the pool of processes.
* In `Collector`: thresholds and `gc.disable`, a third generation, untracking of tuples
  and dicts, types without `tp_clear`, `gc.callbacks`, `DEBUG_SAVEALL`, other threads, whose steps are those
  of Python code wherever the collector calls some.
* `fork`: the child re-creates the GIL and `pending_lock`, and keeps everything else, `busy` among it:
  a child forked by a pending call never makes one again.
* The parts of this system that are large are sequential translations of data: the parser,
  the compiler, built-in types, extension modules, generated tables and vendored libraries are most of
  its lines, and no question about them is one of ordering or of shared state.
* The components of the second table of section 1, in the order of the plan.
