---------------------------- MODULE ThreadPool ----------------------------
(***************************************************************************)
(* Futures and the executor with a pool of threads:                        *)
(* Lib/concurrent/futures/_base.py and thread.py.                          *)
(*                                                                         *)
(* A step is what a thread does under one lock; the conditions of several  *)
(* futures, which wait() and as_completed() hold together, are acquired in *)
(* a step each.  The queue of work items is the one of module Queue        *)
(* without a limit.  The functions that are submitted, and the callbacks,  *)
(* do not use the executor.  A definition whose name ends in _M is a       *)
(* mutant of the one it stands before.                                     *)
(***************************************************************************)
EXTENDS Integers, Sequences, FiniteSets, Functions, TLC

CONSTANTS
  Futures,    \* 1 .. n, in the order of id()
  Clients,
  Workers,    \* the threads of the pool: max_workers of them
  Nobody,
  Programs    \* a set of functions: what the clients call

Threads == Clients \cup Workers

ASSUME PoolAssumption ==
  /\ Futures \subseteq Nat \ {0} /\ IsFiniteSet(Futures)
  /\ IsFiniteSet(Threads) /\ Clients \cap Workers = {} /\ Nobody \notin Threads
  /\ Workers # {}

\* A call: what it is about, when wait() returns, and whether there is a timeout
\* (for shutdown, whether it does not wait).
Call == [op : STRING, fs : Seq(Futures), when : STRING, timed : BOOLEAN]

\* Methods of a future, and submit(), are about one, and each submit() makes a
\* future of its own.
ASSUME ProgramAssumption ==
  /\ Programs \subseteq [Clients -> Seq(Call)]
  /\ \A p \in Programs : \A c, d \in Clients : \A i \in DOMAIN p[c], j \in DOMAIN p[d] :
        /\ p[c][i].op \in {"submit", "cancel", "callback", "result"} => Len(p[c][i].fs) = 1
        /\ p[c][i].op = "submit" /\ p[d][j].op = "submit" /\ p[d][j].fs = p[c][i].fs
             => c = d /\ i = j

VARIABLES
  todo,       \* the calls a client still makes, the current one first
  state,      \* _state; "absent" before submit(), "refused" if that raises
  failed,     \* is there an _exception?
  holder,     \* the thread that holds _condition between two steps
  callbacks,  \* _done_callbacks
  waiters,    \* _waiters: a waiter has the name of who waits
  waiter,     \* the _Waiter of a client
  pc,         \* where a thread is
  at,         \* the future it has come to, in a loop over several
  item,       \* the work item of a worker
  rest,       \* the callbacks that it still has to call
  reported,   \* the futures that wait() or as_completed() has reported
  queue,      \* _work_queue; 0 stands for None
  shutdown,   \* _shutdown
  called      \* history: the callbacks that were called

vars == <<todo, state, failed, holder, callbacks, waiters, waiter, pc, at, item, rest,
          reported, queue, shutdown, called>>

Done     == {"CANCELLED", "CANCELLED_AND_NOTIFIED", "FINISHED"}
Notified == {"CANCELLED_AND_NOTIFIED", "FINISHED"}
NoWaiter == [event |-> FALSE, finished |-> {}, left |-> 0]

Init ==
  /\ todo \in Programs
  /\ state = [f \in Futures |-> "absent"]
  /\ failed = [f \in Futures |-> FALSE]
  /\ holder = [f \in Futures |-> Nobody]
  /\ callbacks = [f \in Futures |-> <<>>]
  /\ waiters = [f \in Futures |-> {}]
  /\ waiter = [c \in Clients |-> NoWaiter]
  /\ pc = [t \in Threads |-> IF t \in Clients THEN "call" ELSE "unborn"]
  /\ at = [c \in Clients |-> 1]
  /\ item = [w \in Workers |-> 0]
  /\ rest = [t \in Threads |-> <<>>]
  /\ reported = [c \in Clients |-> {}]
  /\ queue = <<>>
  /\ shutdown = FALSE
  /\ called = [f \in Futures |-> <<>>]

Goto(t, place) == pc' = [pc EXCEPT ![t] = place]

\* The call a client is in, the futures it is about, and the first of these.
This(c) == Head(todo[c])
Fs(c)   == {This(c).fs[i] : i \in DOMAIN This(c).fs}
F(c)    == This(c).fs[1]
\* A callback is known by the call that adds it: whose, and which one.
Callback(c) == <<c, Len(todo[c])>>

Calls(c, op) ==
  /\ pc[c] = "call" /\ todo[c] # <<>> /\ This(c).op = op
  /\ \A f \in Fs(c) : state[f] \notin {"absent", "refused"}

\* The call is over.
Return(c) == todo' = [todo EXCEPT ![c] = Tail(@)] /\ Goto(c, "call")

-----------------------------------------------------------------------------
(* Future *)

\* _condition.notify_all(): those that sleep in result() wake up.
Woken(f) == {c \in Clients : pc[c] = "sleep" /\ F(c) = f}
WakeAndGoto(f, t, place) ==
  pc' = [u \in Threads |-> IF u = t THEN place ELSE IF u \in Woken(f) THEN "awake" ELSE pc[u]]

\* A call to a future that was never made.
Skip(c) ==
  /\ pc[c] = "call" /\ todo[c] # <<>>
  /\ \E f \in Fs(c) : state[f] = "refused"
  /\ Return(c)
  /\ UNCHANGED <<state, failed, holder, callbacks, waiters, waiter, at, item, rest,
                 reported, queue, shutdown, called>>

\* Mutant of MayCancel: only the state of a running future is looked at.
MayCancel_M(f) == state[f] \notin {"RUNNING", "FINISHED", "CANCELLED"}

MayCancel(f) == state[f] = "PENDING"

Cancel(c) ==
  /\ Calls(c, "cancel") /\ holder[F(c)] = Nobody
  /\ \/ /\ MayCancel(F(c))
        /\ state' = [state EXCEPT ![F(c)] = "CANCELLED"]
        /\ rest' = [rest EXCEPT ![c] = callbacks[F(c)]]
        /\ WakeAndGoto(F(c), c, "callbacks")
        /\ UNCHANGED todo
     \/ /\ ~MayCancel(F(c))
        /\ Return(c)
        /\ UNCHANGED <<state, rest>>
  /\ UNCHANGED <<failed, holder, callbacks, waiters, waiter, at, item, reported, queue,
                 shutdown, called>>

\* Mutant of IsDone: the states that wait() looks for.
IsDone_M(f) == state[f] \in Notified

IsDone(f) == state[f] \in Done

AddDoneCallback(c) ==
  /\ Calls(c, "callback") /\ holder[F(c)] = Nobody
  /\ \/ /\ ~IsDone(F(c))
        /\ callbacks' = [callbacks EXCEPT ![F(c)] = Append(@, Callback(c))]
        /\ Return(c)
        /\ UNCHANGED rest
     \/ /\ IsDone(F(c))
        /\ rest' = [rest EXCEPT ![c] = <<Callback(c)>>]
        /\ Goto(c, "callbacks")
        /\ UNCHANGED <<callbacks, todo>>
  /\ UNCHANGED <<state, failed, holder, waiters, waiter, at, item, reported, queue,
                 shutdown, called>>

\* _invoke_callbacks, outside of the lock: one callback, or the end.
Invoke(t, f) ==
  /\ pc[t] = "callbacks"
  /\ \/ /\ rest[t] # <<>>
        /\ called' = [called EXCEPT ![f] = Append(@, Head(rest[t]))]
        /\ rest' = [rest EXCEPT ![t] = Tail(@)]
        /\ UNCHANGED <<todo, pc>>
     \/ /\ rest[t] = <<>>
        /\ IF t \in Clients THEN Return(t) ELSE Goto(t, "get") /\ UNCHANGED todo
        /\ UNCHANGED <<called, rest>>
  /\ UNCHANGED <<state, failed, holder, callbacks, waiters, waiter, at, item, reported,
                 queue, shutdown>>

\* result() and exception().
Result(c) ==
  /\ Calls(c, "result") /\ holder[F(c)] = Nobody
  /\ \/ state[F(c)] \in Done /\ Return(c)
     \/ state[F(c)] \notin Done /\ Goto(c, "sleep") /\ UNCHANGED todo
  /\ UNCHANGED <<state, failed, holder, callbacks, waiters, waiter, at, item, rest,
                 reported, queue, shutdown, called>>

ResultTimesOut(c) ==
  /\ pc[c] = "sleep" /\ This(c).timed
  /\ Goto(c, "awake")
  /\ UNCHANGED <<todo, state, failed, holder, callbacks, waiters, waiter, at, item, rest,
                 reported, queue, shutdown, called>>

\* The condition is acquired again, and the result looked at once more.
ResultReturns(c) ==
  /\ pc[c] = "awake" /\ holder[F(c)] = Nobody
  /\ Return(c)
  /\ UNCHANGED <<state, failed, holder, callbacks, waiters, waiter, at, item, rest,
                 reported, queue, shutdown, called>>

-----------------------------------------------------------------------------
(* wait() and as_completed() *)

Waits(c) == todo[c] # <<>> /\ This(c).op \in {"wait", "as_completed"}

\* Mutant of Order: the conditions are acquired in the order they are given.
Order_M(c) == This(c).fs

\* sorted(futures, key=id)
Order(c) == SortSeq(This(c).fs, <)

\* _AcquireFutures.__enter__: one more condition.
AcquireFuture(c) ==
  /\ pc[c] = "call" /\ Waits(c) /\ \A f \in Fs(c) : state[f] \notin {"absent", "refused"}
  /\ at[c] <= Len(Order(c)) /\ holder[Order(c)[at[c]]] = Nobody
  /\ holder' = [holder EXCEPT ![Order(c)[at[c]]] = c]
  /\ at' = [at EXCEPT ![c] = @ + 1]
  /\ UNCHANGED <<todo, state, failed, callbacks, waiters, waiter, pc, item, rest,
                 reported, queue, shutdown, called>>

Reported(c) == {f \in Fs(c) : state[f] \in Notified}

\* wait() has nothing to wait for.
Satisfied(c, done) ==
  \/ done = Fs(c)
  \/ This(c).when = "FIRST_COMPLETED" /\ done # {}
  \/ This(c).when = "FIRST_EXCEPTION" /\ \E f \in done : failed[f]

\* With all conditions held: look, install the waiter, and release them.
Install(c) ==
  /\ pc[c] = "call" /\ Waits(c) /\ at[c] > Len(This(c).fs)
  /\ LET done == Reported(c)
     IN /\ reported' = [reported EXCEPT ![c] = done]
        /\ \/ /\ This(c).op = "wait" /\ Satisfied(c, done)
              /\ Return(c)
              /\ UNCHANGED <<waiter, waiters>>
           \/ /\ This(c).op = "as_completed" \/ ~Satisfied(c, done)
              /\ waiter' = [waiter EXCEPT ![c] =
                              [NoWaiter EXCEPT !.left = Cardinality(Fs(c) \ done)]]
              /\ waiters' = [f \in Futures |->
                               IF f \in Fs(c) THEN waiters[f] \cup {c} ELSE waiters[f]]
              /\ Goto(c, IF This(c).op = "as_completed" /\ done = Fs(c) THEN "remove"
                         ELSE "event")
              /\ UNCHANGED todo
  /\ holder' = [f \in Futures |-> IF holder[f] = c THEN Nobody ELSE holder[f]]
  /\ at' = [at EXCEPT ![c] = 1]
  /\ UNCHANGED <<state, failed, callbacks, item, rest, queue, shutdown, called>>

\* Mutant of Sets: an exception is counted like a result.
Sets_M(c, outcome, left) ==
  \/ This(c).op = "as_completed" \/ This(c).when = "FIRST_COMPLETED"
  \/ left = 0

\* Does add_result(), add_exception() or add_cancelled() set the event?
Sets(c, outcome, left) ==
  \/ This(c).op = "as_completed" \/ This(c).when = "FIRST_COMPLETED"
  \/ This(c).when = "FIRST_EXCEPTION" /\ outcome = "exception"
  \/ left = 0

\* for waiter in self._waiters: ...
Tell(f, outcome) ==
  waiter' = [c \in Clients |->
    IF c \notin waiters[f] THEN waiter[c]
    ELSE LET w == waiter[c]
             left == IF This(c).when = "FIRST_EXCEPTION" /\ outcome = "exception"
                       THEN w.left ELSE w.left - 1
         IN [event |-> w.event \/ Sets(c, outcome, left),
             finished |-> w.finished \cup {f}, left |-> left]]

\* event.wait() is over.  wait() is then done; as_completed() takes what there
\* is, under waiter.lock, and goes on unless it timed out.
EventOrTimeOut(c) ==
  /\ pc[c] = "event" /\ (waiter[c].event \/ This(c).timed)
  /\ \/ /\ This(c).op = "wait"
        /\ Goto(c, "remove")
        /\ UNCHANGED <<waiter, reported>>
     \/ /\ This(c).op = "as_completed"
        /\ reported' = [reported EXCEPT ![c] = @ \cup waiter[c].finished]
        /\ waiter' = [waiter EXCEPT ![c].finished = {}, ![c].event = FALSE]
        /\ \/ reported'[c] # Fs(c) /\ waiter[c].event /\ UNCHANGED pc
           \/ (reported'[c] = Fs(c) \/ This(c).timed) /\ Goto(c, "remove")
  /\ UNCHANGED <<todo, state, failed, holder, callbacks, waiters, at, item, rest, queue,
                 shutdown, called>>

\* with f._condition: f._waiters.remove(waiter)
RemoveWaiter(c) ==
  /\ pc[c] = "remove" /\ at[c] <= Len(This(c).fs) /\ holder[This(c).fs[at[c]]] = Nobody
  /\ waiters' = [waiters EXCEPT ![This(c).fs[at[c]]] = @ \ {c}]
  /\ at' = [at EXCEPT ![c] = @ + 1]
  /\ UNCHANGED <<todo, state, failed, holder, callbacks, waiter, pc, item, rest, reported,
                 queue, shutdown, called>>

\* done.update(waiter.finished_futures), and the return of the result.
WaitReturns(c) ==
  /\ pc[c] = "remove" /\ at[c] > Len(This(c).fs)
  /\ at' = [at EXCEPT ![c] = 1]
  /\ reported' = [reported EXCEPT ![c] =
                    IF This(c).op = "wait" THEN @ \cup waiter[c].finished ELSE @]
  /\ waiter' = [waiter EXCEPT ![c] = NoWaiter]
  /\ Return(c)
  /\ UNCHANGED <<state, failed, holder, callbacks, waiters, item, rest, queue, shutdown,
                 called>>

-----------------------------------------------------------------------------
(* ThreadPoolExecutor *)

\* submit() with _adjust_thread_count(), under _shutdown_lock.
Submit(c) ==
  /\ pc[c] = "call" /\ todo[c] # <<>> /\ This(c).op = "submit"
  /\ \/ /\ shutdown
        /\ state' = [state EXCEPT ![F(c)] = "refused"]
        /\ Return(c)
        /\ UNCHANGED queue
     \/ /\ ~shutdown
        /\ state' = [state EXCEPT ![F(c)] = "PENDING"]
        /\ queue' = Append(queue, F(c))
        /\ todo' = [todo EXCEPT ![c] = Tail(@)]
        /\ \/ /\ \A w \in Workers : pc[w] # "unborn"
              /\ UNCHANGED pc
           \/ /\ \E w \in Workers : pc[w] = "unborn"
              /\ Goto(CHOOSE w \in Workers : pc[w] = "unborn", "get")
  /\ UNCHANGED <<failed, holder, callbacks, waiters, waiter, at, item, rest, reported,
                 shutdown, called>>

Shutdown(c) ==
  /\ Calls(c, "shutdown")
  /\ shutdown' = TRUE
  /\ queue' = Append(queue, 0)
  /\ IF This(c).timed THEN Return(c) ELSE Goto(c, "join") /\ UNCHANGED todo
  /\ UNCHANGED <<state, failed, holder, callbacks, waiters, waiter, at, item, rest,
                 reported, called>>

\* shutdown(wait=True)
JoinThreads(c) ==
  /\ pc[c] = "join" /\ \A w \in Workers : pc[w] \in {"unborn", "exit"}
  /\ Return(c)
  /\ UNCHANGED <<state, failed, holder, callbacks, waiters, waiter, at, item, rest,
                 reported, queue, shutdown, called>>

\* Mutant of Remaining: None is not put back for the other workers.
Remaining_M == Tail(queue)

\* The queue after get(), and put(None) if there was None: "Notice other
\* workers".  Only shutdown() puts None there.
Remaining == IF Head(queue) = 0 THEN Append(Tail(queue), 0) ELSE Tail(queue)

GetItem(w) ==
  /\ pc[w] = "get" /\ queue # <<>>
  /\ queue' = Remaining
  /\ \/ Head(queue) = 0 /\ Goto(w, "exit") /\ UNCHANGED item
     \/ /\ Head(queue) # 0
        /\ item' = [item EXCEPT ![w] = Head(queue)]
        /\ Goto(w, "start")
  /\ UNCHANGED <<todo, state, failed, holder, callbacks, waiters, waiter, at, rest,
                 reported, shutdown, called>>

\* set_running_or_notify_cancel()
Start(w) ==
  /\ pc[w] = "start" /\ holder[item[w]] = Nobody
  /\ \/ /\ state[item[w]] = "CANCELLED"
        /\ state' = [state EXCEPT ![item[w]] = "CANCELLED_AND_NOTIFIED"]
        /\ Tell(item[w], "cancelled")
        /\ Goto(w, "get")
     \/ /\ state[item[w]] = "PENDING"
        /\ state' = [state EXCEPT ![item[w]] = "RUNNING"]
        /\ Goto(w, "run")
        /\ UNCHANGED waiter
  /\ UNCHANGED <<todo, failed, holder, callbacks, waiters, at, item, rest, reported,
                 queue, shutdown, called>>

\* set_result() or set_exception(), up to the callbacks.
Finish(w) ==
  /\ pc[w] = "run" /\ holder[item[w]] = Nobody
  /\ state' = [state EXCEPT ![item[w]] = "FINISHED"]
  /\ \E outcome \in {"result", "exception"} :
        /\ failed' = [failed EXCEPT ![item[w]] = outcome = "exception"]
        /\ Tell(item[w], outcome)
  /\ rest' = [rest EXCEPT ![w] = callbacks[item[w]]]
  /\ WakeAndGoto(item[w], w, "callbacks")
  /\ UNCHANGED <<todo, holder, callbacks, waiters, at, item, reported, queue, shutdown,
                 called>>

-----------------------------------------------------------------------------
ClientStep(c) ==
  \/ Skip(c) \/ Submit(c) \/ Cancel(c) \/ AddDoneCallback(c) \/ Invoke(c, F(c))
  \/ Result(c) \/ ResultTimesOut(c) \/ ResultReturns(c)
  \/ AcquireFuture(c) \/ Install(c) \/ EventOrTimeOut(c) \/ RemoveWaiter(c) \/ WaitReturns(c)
  \/ Shutdown(c) \/ JoinThreads(c)

WorkerStep(w) == GetItem(w) \/ Start(w) \/ Finish(w) \/ Invoke(w, item[w])

Next == \/ \E c \in Clients : ClientStep(c)
        \/ \E w \in Workers : WorkerStep(w)

Spec == Init /\ [][Next]_vars

FairSpec ==
  /\ Spec
  /\ \A c \in Clients : WF_vars(ClientStep(c))
  /\ \A w \in Workers : WF_vars(WorkerStep(w))

-----------------------------------------------------------------------------
TypeOK ==
  /\ state \in [Futures -> Done \cup {"absent", "refused", "PENDING", "RUNNING"}]
  /\ failed \in [Futures -> BOOLEAN]
  /\ holder \in [Futures -> Clients \cup {Nobody}]
  /\ callbacks \in [Futures -> Seq(Clients \X Nat)]
  /\ waiters \in [Futures -> SUBSET Clients]
  /\ waiter \in [Clients -> [event : BOOLEAN, finished : SUBSET Futures, left : Nat]]
  /\ at \in [Clients -> Nat \ {0}]
  /\ item \in [Workers -> Futures \cup {0}]
  /\ rest \in [Threads -> Seq(Clients \X Nat)]
  /\ reported \in [Clients -> SUBSET Futures]
  /\ queue \in Seq(Futures \cup {0})
  /\ shutdown \in BOOLEAN
  /\ called \in [Futures -> Seq(Clients \X Nat)]

(***************************************************************************)
(* "If this method returns False then the work should not be executed"     *)
(* (set_running_or_notify_cancel), and "a future cannot be cancelled if it *)
(* is running or has already completed" (cancel): whatever the race        *)
(* between clients and workers, each future takes one of two ways.         *)
(***************************************************************************)
OneOutcome ==
  [][\A f \in Futures :
       <<state[f], state'[f]>> \in
         {<<s, s>> : s \in {state[f]}} \cup
         {<<"absent", "PENDING">>, <<"absent", "refused">>,
          <<"PENDING", "RUNNING">>, <<"RUNNING", "FINISHED">>,
          <<"PENDING", "CANCELLED">>, <<"CANCELLED", "CANCELLED_AND_NOTIFIED">>}]_vars

(***************************************************************************)
(* wait() and as_completed() never sleep without a reason: as long as the  *)
(* event is not set, what they wait for has not come, though futures may   *)
(* have ended while the waiter was put in place (_base.py:203-206).        *)
(***************************************************************************)
SleepersHaveReason ==
  \A c \in Clients :
     pc[c] = "event" /\ ~waiter[c].event =>
        IF This(c).op = "wait" THEN ~Satisfied(c, Reported(c))
        ELSE Reported(c) = reported[c] /\ reported[c] # Fs(c)

\* The threads that are calling the callbacks of f.
Callers(f) == {t \in Threads : /\ pc[t] = "callbacks"
                               /\ f = IF t \in Clients THEN F(t) ELSE item[t]}

(***************************************************************************)
(* "The callable will be called ... when the future completes or is        *)
(* cancelled" (add_done_callback): once a future is done, each callback    *)
(* was called or is on the list of one thread that calls it, also when it  *)
(* was added at that very moment, and none is called twice.                *)
(***************************************************************************)
CallbacksAreCalled ==
  \A f \in Futures :
     /\ IsInjective(called[f])
     /\ \A t \in Callers(f) :
          /\ IsInjective(rest[t]) /\ Range(rest[t]) \cap Range(called[f]) = {}
          /\ \A u \in Callers(f) \ {t} : Range(rest[t]) \cap Range(rest[u]) = {}
     /\ state[f] \in Done =>
          Range(callbacks[f]) \subseteq
            Range(called[f]) \cup UNION {Range(rest[t]) : t \in Callers(f)}

(***************************************************************************)
(* "These callables are called in the order that they were added."         *)
(***************************************************************************)
CallbacksInOrder ==
  \A f \in Futures : \A i \in DOMAIN called[f] :
     i <= Len(callbacks[f]) => called[f][i] = callbacks[f][i]

(***************************************************************************)
(* "If wait is True then shutdown will not return until all running        *)
(* futures have finished executing": clients, workers and futures all come *)
(* to an end, although wait() holds several locks and although one None    *)
(* has to do for all workers.                                              *)
(***************************************************************************)
EverythingEnds ==
  <>(/\ \A c \in Clients : todo[c] = <<>>
     /\ \A w \in Workers : pc[w] \in {"unborn", "exit"}
     /\ \A f \in Futures : state[f] \in Notified \cup {"refused"})
=============================================================================
