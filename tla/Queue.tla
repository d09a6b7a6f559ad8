------------------------------- MODULE Queue -------------------------------
(***************************************************************************)
(* Lib/queue.py, on the condition variables of Lib/threading.py: three     *)
(* conditions of one mutex, a limit, and timeouts.                         *)
(*                                                                         *)
(* Only the number of items matters here: Queue, LifoQueue and             *)
(* PriorityQueue differ in which one they give back.  A thread waits in    *)
(* one place at a time, so its name stands for the lock it waits on.  What *)
(* a thread does while it holds the mutex is one step.  KeyboardInterrupt  *)
(* is part of InterruptNext only.  A definition whose name ends in _M is a *)
(* mutant of the one it stands before.                                     *)
(***************************************************************************)
EXTENDS Integers, Sequences, FiniteSets

CONSTANTS
  Threads,
  Main,         \* the thread that gets KeyboardInterrupt
  Nobody,
  Limits,       \* values of maxsize; 0 stands for none
  MaxCalls      \* a bound on the calls a thread makes

ASSUME QueueAssumption ==
  /\ IsFiniteSet(Threads) /\ Main \in Threads /\ Nobody \notin Threads
  /\ Limits \subseteq Nat /\ MaxCalls \in Nat

VARIABLES
  maxsize,
  mutex,            \* its holder
  waiters,          \* _waiters of each condition
  qsize,            \* _qsize()
  unfinished_tasks,
  call,             \* the call a thread is in
  pc,               \* where it is in it
  calls             \* the number of calls it has made

vars == <<maxsize, mutex, waiters, qsize, unfinished_tasks, call, pc, calls>>

Conditions == {"not_empty", "not_full", "all_tasks_done"}

\* The calls there are: "nowait" is block=False.
Calls ==
  [method : {"put", "get"}, mode : {"nowait", "timeout", "forever"}]
    \cup {[method |-> "join", mode |-> "forever"], [method |-> "task_done", mode |-> "nowait"]}

NoCall == [method |-> "none", mode |-> "nowait"]

\* The condition a method waits for.
Awaited(method) ==
  CASE method = "get" -> "not_empty"
    [] method = "put" -> "not_full"
    [] OTHER -> "all_tasks_done"

Init ==
  /\ maxsize \in Limits
  /\ mutex = Nobody
  /\ waiters = [c \in Conditions |-> <<>>]
  /\ qsize = 0
  /\ unfinished_tasks = 0
  /\ call = [t \in Threads |-> NoCall]
  /\ pc = [t \in Threads |-> "idle"]
  /\ calls = [t \in Threads |-> 0]

\* The test of the while loop around wait().
Ready(c) ==
  CASE c.method = "get" -> qsize > 0
    [] c.method = "put" -> maxsize = 0 \/ qsize < maxsize
    [] c.method = "join" -> unfinished_tasks = 0
    [] OTHER -> TRUE

-----------------------------------------------------------------------------
(* threading.Condition *)

\* The threads in the deque, and the first n of them, whether or not they have
\* given up.
Waiters(c)  == {waiters[c][i] : i \in DOMAIN waiters[c]}
First(c, n) == {waiters[c][i] : i \in {j \in DOMAIN waiters[c] : j <= n}}

\* notify(n) by t, which then leaves its with statement.
NotifyAndLeave(t, c, n) ==
  /\ waiters' = [waiters EXCEPT ![c] = SubSeq(@, n + 1, Len(@))]
  /\ pc' = [u \in Threads |-> IF u = t THEN "idle"
                              ELSE IF u \in First(c, n) /\ pc[u] = "asleep" THEN "notified"
                              ELSE pc[u]]
  /\ call' = [call EXCEPT ![t] = NoCall]
  /\ mutex' = Nobody

\* Leaves without notifying anybody.
Leave(t) ==
  /\ pc' = [pc EXCEPT ![t] = "idle"]
  /\ call' = [call EXCEPT ![t] = NoCall]
  /\ mutex' = Nobody
  /\ UNCHANGED waiters

\* wait(), up to the acquisition of the waiter.
Wait(t) ==
  /\ pc[t] = "test" /\ ~Ready(call[t]) /\ call[t].mode # "nowait"
  /\ waiters' = [waiters EXCEPT ![Awaited(call[t].method)] = Append(@, t)]
  /\ mutex' = Nobody
  /\ pc' = [pc EXCEPT ![t] = "asleep"]
  /\ UNCHANGED <<maxsize, qsize, unfinished_tasks, call, calls>>

\* Mutant of TimeOut: the whole timeout again, each time round the loop.
TimeOut_M(t) ==
  /\ pc[t] = "asleep" /\ call[t].mode = "timeout"
  /\ pc' = [pc EXCEPT ![t] = "timed out"]
  /\ UNCHANGED <<maxsize, mutex, waiters, qsize, unfinished_tasks, call, calls>>

\* waiter.acquire(True, timeout) returns False.  From now on nothing remains
\* of the timeout, which is as if block were false.
TimeOut(t) ==
  /\ pc[t] = "asleep" /\ call[t].mode = "timeout"
  /\ pc' = [pc EXCEPT ![t] = "timed out"]
  /\ call' = [call EXCEPT ![t].mode = "nowait"]
  /\ UNCHANGED <<maxsize, mutex, waiters, qsize, unfinished_tasks, calls>>

\* Its removal from the deque, and the ValueError if it is not there.
Remove(c, t) ==
  \/ \E i \in DOMAIN waiters[c] :
        /\ waiters[c][i] = t
        /\ waiters' = [waiters EXCEPT ![c] = SubSeq(@, 1, i - 1) \o SubSeq(@, i + 1, Len(@))]
  \/ t \notin Waiters(c) /\ UNCHANGED waiters

\* The finally clause of wait().
Resume(t) ==
  /\ mutex = Nobody /\ mutex' = t
  /\ \/ pc[t] = "notified" /\ UNCHANGED waiters
     \/ pc[t] = "timed out" /\ Remove(Awaited(call[t].method), t)
  /\ pc' = [pc EXCEPT ![t] = "test"]
  /\ UNCHANGED <<maxsize, qsize, unfinished_tasks, call, calls>>

-----------------------------------------------------------------------------
(* queue.Queue *)

\* A call, up to its with statement.
Call(t) ==
  /\ pc[t] = "idle" /\ calls[t] < MaxCalls
  /\ calls' = [calls EXCEPT ![t] = @ + 1]
  /\ \E c \in Calls : call' = [call EXCEPT ![t] = c]
  /\ pc' = [pc EXCEPT ![t] = "enter"]
  /\ UNCHANGED <<maxsize, mutex, waiters, qsize, unfinished_tasks>>

Enter(t) ==
  /\ pc[t] = "enter" /\ mutex = Nobody
  /\ mutex' = t
  /\ pc' = [pc EXCEPT ![t] = "test"]
  /\ UNCHANGED <<maxsize, waiters, qsize, unfinished_tasks, call, calls>>

\* The while loop, or the test that stands for it, is over.
Proceeds(t, method) == pc[t] = "test" /\ call[t].method = method /\ Ready(call[t])

\* Mutant of Put: only the first item is announced.
Put_M(t) ==
  /\ Proceeds(t, "put")
  /\ qsize' = qsize + 1
  /\ unfinished_tasks' = unfinished_tasks + 1
  /\ IF qsize = 0 THEN NotifyAndLeave(t, "not_empty", 1) ELSE Leave(t)
  /\ UNCHANGED <<maxsize, calls>>

Put(t) ==
  /\ Proceeds(t, "put")
  /\ qsize' = qsize + 1
  /\ unfinished_tasks' = unfinished_tasks + 1
  /\ NotifyAndLeave(t, "not_empty", 1)
  /\ UNCHANGED <<maxsize, calls>>

Get(t) ==
  /\ Proceeds(t, "get")
  /\ qsize' = qsize - 1
  /\ NotifyAndLeave(t, "not_full", 1)
  /\ UNCHANGED <<maxsize, unfinished_tasks, calls>>

\* Full or Empty is raised: after the test of the loop, so a thread that is
\* late but finds what it waited for still gets it.
GiveUp(t) ==
  /\ pc[t] = "test" /\ ~Ready(call[t]) /\ call[t].mode # "forever"
  /\ Leave(t)
  /\ UNCHANGED <<maxsize, qsize, unfinished_tasks, calls>>

\* Mutant of TaskDone: notify() in place of notify_all().
TaskDone_M(t) ==
  /\ Proceeds(t, "task_done")
  /\ unfinished_tasks' = IF unfinished_tasks = 0 THEN 0 ELSE unfinished_tasks - 1
  /\ IF unfinished_tasks = 1 THEN NotifyAndLeave(t, "all_tasks_done", 1) ELSE Leave(t)
  /\ UNCHANGED <<maxsize, qsize, calls>>

\* The ValueError of a call too many leaves everything as it was.
TaskDone(t) ==
  /\ Proceeds(t, "task_done")
  /\ unfinished_tasks' = IF unfinished_tasks = 0 THEN 0 ELSE unfinished_tasks - 1
  /\ IF unfinished_tasks = 1
       THEN NotifyAndLeave(t, "all_tasks_done", Len(waiters["all_tasks_done"]))
       ELSE Leave(t)
  /\ UNCHANGED <<maxsize, qsize, calls>>

Join(t) ==
  /\ Proceeds(t, "join")
  /\ Leave(t)
  /\ UNCHANGED <<maxsize, qsize, unfinished_tasks, calls>>

-----------------------------------------------------------------------------
Step(t) ==
  \/ Enter(t) \/ Put(t) \/ Get(t) \/ GiveUp(t) \/ TaskDone(t) \/ Join(t)
  \/ Wait(t) \/ TimeOut(t) \/ Resume(t)

Next == \E t \in Threads : Call(t) \/ Step(t)

Spec == Init /\ [][Next]_vars
FairSpec == Spec /\ \A t \in Threads : WF_vars(Step(t))

-----------------------------------------------------------------------------
(* KeyboardInterrupt, where the main thread blocks *)

\* waiter.acquire() raises it.
InterruptWait ==
  /\ pc[Main] = "asleep"
  /\ pc' = [pc EXCEPT ![Main] = "interrupted"]
  /\ UNCHANGED <<maxsize, mutex, waiters, qsize, unfinished_tasks, call, calls>>

\* "restore state no matter what", and on with the exception.
Unwind ==
  /\ pc[Main] = "interrupted" /\ mutex = Nobody
  /\ Remove(Awaited(call[Main].method), Main)
  /\ pc' = [pc EXCEPT ![Main] = "idle"]
  /\ call' = [call EXCEPT ![Main] = NoCall]
  /\ UNCHANGED <<maxsize, mutex, qsize, unfinished_tasks, calls>>

\* _acquire_restore() raises it; the with statement releases the mutex.
InterruptRestore ==
  /\ pc[Main] \in {"notified", "timed out", "interrupted"}
  /\ Leave(Main)
  /\ UNCHANGED <<maxsize, qsize, unfinished_tasks, calls>>

InterruptNext == Next \/ InterruptWait \/ Unwind \/ InterruptRestore
InterruptSpec == Init /\ [][InterruptNext]_vars

-----------------------------------------------------------------------------
Places == {"idle", "enter", "test", "asleep", "notified", "timed out", "interrupted"}

TypeOK ==
  /\ maxsize \in Limits
  /\ mutex \in Threads \cup {Nobody}
  /\ waiters \in [Conditions -> Seq(Threads)]
  /\ qsize \in Nat
  /\ unfinished_tasks \in Nat
  /\ call \in [Threads -> Calls \cup {NoCall}]
  /\ pc \in [Threads -> Places]
  /\ calls \in [Threads -> 0 .. MaxCalls]

Calling(method) == {t \in Threads : call[t].method = method}
Asleep(method)  == {t \in Calling(method) : pc[t] = "asleep"}

\* Threads that are about to test again; one whose time is over but which is
\* still in the deque does not count, for it takes the next notification too.
Roused(method) ==
  {t \in Calling(method) :
     \/ pc[t] \in {"test", "notified"}
     \/ pc[t] = "timed out" /\ t \notin Waiters(Awaited(method))}

(***************************************************************************)
(* No notification is lost: while a thread sleeps in get(), each item has  *)
(* a thread that was woken up and will come for it, although notify() may  *)
(* choose one whose time is over, and others may take the item first.  The *)
(* same of put() and the free slots of a queue with a limit.               *)
(***************************************************************************)
NoWaiterStranded ==
  /\ Asleep("get") # {} => Cardinality(Roused("get")) >= qsize
  /\ Asleep("put") # {} => Cardinality(Roused("put")) >= maxsize - qsize

(***************************************************************************)
(* "If a join() is currently blocking, it will resume when all items have  *)
(* been processed" (task_done), also if more are added before it does.     *)
(***************************************************************************)
NoJoinerStranded == Asleep("join") # {} => unfinished_tasks > 0

(***************************************************************************)
(* "mutex must be held whenever the queue is mutating" (queue.py:31).      *)
(***************************************************************************)
MutexHeld == \A t \in Threads : pc[t] = "test" => mutex = t

(***************************************************************************)
(* Once nobody calls a method any more, the threads that still wait do so  *)
(* for a reason, the timeouts of others notwithstanding.                   *)
(***************************************************************************)
WaitsAreJustified ==
  <>[]\A t \in Threads : \/ pc[t] = "idle"
                         \/ pc[t] = "asleep" /\ ~Ready(call[t])
=============================================================================
