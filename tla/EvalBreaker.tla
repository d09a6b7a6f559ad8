--------------------------- MODULE EvalBreaker ---------------------------
(***************************************************************************)
(* How the eval loop of Python/ceval.c learns that somebody wants          *)
(* something of it.  Three requests have a flag of their own: dropping the *)
(* GIL (gil_drop_request), making pending calls (pendingcalls_to_do) and   *)
(* raising an asynchronous exception (pending_async_exc).  The loop reads  *)
(* only eval_breaker, which is to be their disjunction; raising a request  *)
(* sets it, withdrawing one recomputes it with COMPUTE_EVAL_BREAKER, whose *)
(* loads and store are separate steps.  The flags are guarded by different *)
(* locks: gil_mutex, pending_lock and the GIL.                             *)
(*                                                                         *)
(* Pending calls are kept in a ring under pending_lock; any thread may add *)
(* one without the GIL, the main thread makes them.  A pending call may    *)
(* run Python code, and so the eval loop, again.                           *)
(*                                                                         *)
(* The GIL is taken and dropped here in single steps; module Gil has the   *)
(* steps in between.  A definition whose name ends in _M is a mutant of    *)
(* the definition it stands before; no specification uses it.              *)
(***************************************************************************)
EXTENDS Integers, Sequences

CONSTANTS
  Threads,         \* the threads that run Python code
  Main,            \* the one that initialized the interpreter
  NoThread,        \* NULL
  Targets,         \* threads the program sets asynchronous exceptions in
  Calls,           \* calls to Py_AddPendingCall, each by a thread of its own,
                   \* numbered in the order in which the code gets to them
  NoCall,          \* NULL, for a function pointer
  NPENDINGCALLS    \* size of the ring: 32 in the code

ASSUME BreakerAssumption ==
  /\ Main \in Threads
  /\ NoThread \notin Threads
  /\ Targets \subseteq Threads
  /\ Calls \subseteq Nat /\ NoCall \notin Calls
  /\ NPENDINGCALLS \in Nat \ {0, 1}

VARIABLES
  eval_breaker, gil_drop_request, pendingcalls_to_do, pending_async_exc,
  async_exc,                        \* has the thread an exception to raise?
  pendingcalls, pendingfirst, pendinglast,  \* the ring
  pending_lock,                     \* "free", or held to "make" or to "add" a call
  busy, made, func,                 \* Py_MakePendingCalls: busy, i, func
  holder, gil_last_holder,          \* the GIL
  pc,                               \* where each thread is
  ret,                              \* where a thread goes on with the GIL
  loaded,                           \* what COMPUTE_EVAL_BREAKER will store
  status,                           \* of each call
  accepted,                         \* the calls queued so far, in order
  served                            \* how many of them were popped

flags   == <<gil_drop_request, pendingcalls_to_do, pending_async_exc>>
ring    == <<pendingcalls, pendingfirst, pendinglast, accepted, served>>
making  == <<busy, made, func>>
gil     == <<holder, gil_last_holder>>
vars == <<eval_breaker, flags, async_exc, ring, pending_lock, making, gil, pc,
          ret, loaded, status>>

\* gil_mutex is held from the taking of the GIL to the end of take_gil.
InTakeGil == {"took", "took_store", "took_exc"}
Outside   == {"outside", "wait"}
Dropped   == {"drop", "drop_store", "switch"}
Holding   == InTakeGil \cup {"run", "pending", "lock", "make_store", "call",
                             "request", "exc", "exc_store"}

Init ==
  /\ eval_breaker = FALSE
  /\ gil_drop_request = FALSE
  /\ pendingcalls_to_do = FALSE
  /\ pending_async_exc = FALSE
  /\ async_exc = [t \in Threads |-> FALSE]
  /\ pendingcalls = [i \in 0 .. NPENDINGCALLS - 1 |-> NoCall]
  /\ pendingfirst = 0
  /\ pendinglast = 0
  /\ pending_lock = "free"
  /\ busy = FALSE
  /\ made = 0
  /\ func = NoCall
  /\ holder = Main
  /\ gil_last_holder = Main
  /\ pc = [t \in Threads |-> IF t = Main THEN "run" ELSE "outside"]
  /\ ret = [t \in Threads |-> "run"]
  /\ loaded = [t \in Threads |-> FALSE]
  /\ status = [c \in Calls |-> "new"]
  /\ accepted = <<>>
  /\ served = 0

Goto(t, l) == pc' = [pc EXCEPT ![t] = l]

-----------------------------------------------------------------------------
(* COMPUTE_EVAL_BREAKER *)

\* Mutant of Load: one flag is left out.
Load_M(t) == loaded' = [loaded EXCEPT ![t] = gil_drop_request' \/ pending_async_exc']

\* The loads, after a store to one of the flags; what a thread loads of its
\* own store is the value it stored.
Load(t) ==
  loaded' = [loaded EXCEPT ![t] =
               gil_drop_request' \/ pendingcalls_to_do' \/ pending_async_exc']

\* The store, and the step that follows it in each of the four places.
StoreBreaker(t) ==
  /\ eval_breaker' = loaded[t]
  /\ loaded' = [loaded EXCEPT ![t] = FALSE]
  /\ \/ pc[t] = "took_store" /\ Goto(t, "took_exc") /\ UNCHANGED pending_lock
     \/ pc[t] = "drop_store" /\ Goto(t, "switch")   /\ UNCHANGED pending_lock
     \/ pc[t] = "exc_store"  /\ Goto(t, "run")      /\ UNCHANGED pending_lock
     \/ pc[t] = "make_store" /\ Goto(t, "call")     /\ pending_lock' = "free"
  /\ UNCHANGED <<flags, async_exc, ring, making, gil, ret, status>>

-----------------------------------------------------------------------------
(* The GIL *)

\* switch_mutex is held by a thread in "drop_store".
TakeGil(t) ==
  /\ pc[t] = "wait"
  /\ holder = NoThread
  /\ \A u \in Threads : pc[u] # "drop_store"
  /\ holder' = t
  /\ gil_last_holder' = t
  /\ Goto(t, "took")
  /\ UNCHANGED <<eval_breaker, flags, async_exc, ring, pending_lock, making,
                 ret, loaded, status>>

\* if (gil_drop_request) RESET_GIL_DROP_REQUEST()
TookReset(t) ==
  /\ pc[t] = "took"
  /\ gil_drop_request' = FALSE
  /\ UNCHANGED <<pendingcalls_to_do, pending_async_exc>>
  /\ \/ gil_drop_request  /\ Goto(t, "took_store") /\ Load(t)
     \/ ~gil_drop_request /\ Goto(t, "took_exc")   /\ UNCHANGED loaded
  /\ UNCHANGED <<eval_breaker, async_exc, ring, pending_lock, making, gil, ret,
                 status>>

\* Mutant of TookSignal: the exception of the new thread is not signalled.
TookSignal_M(t) ==
  /\ pc[t] = "took_exc"
  /\ Goto(t, ret[t])
  /\ UNCHANGED <<eval_breaker, flags, async_exc, ring, pending_lock, making,
                 gil, ret, loaded, status>>

\* take_gil ends: if (tstate->async_exc) SIGNAL_ASYNC_EXC(), for another
\* thread may have consumed the signal.
TookSignal(t) ==
  /\ pc[t] = "took_exc"
  /\ pending_async_exc' = (pending_async_exc \/ async_exc[t])
  /\ eval_breaker' = (eval_breaker \/ async_exc[t])
  /\ Goto(t, ret[t])
  /\ UNCHANGED <<gil_drop_request, pendingcalls_to_do, async_exc, ring,
                 pending_lock, making, gil, ret, loaded, status>>

\* Mutant of SetDropRequest: eval_breaker is left alone.
SetDropRequest_M(t) ==
  /\ pc[t] = "wait"
  /\ holder # NoThread
  /\ pc[holder] \notin InTakeGil
  /\ gil_drop_request' = TRUE
  /\ UNCHANGED <<eval_breaker, pendingcalls_to_do, pending_async_exc,
                 async_exc, ring, pending_lock, making, gil, pc, ret, loaded,
                 status>>

\* A thread whose interval elapsed, under gil_mutex: SET_GIL_DROP_REQUEST.
SetDropRequest(t) ==
  /\ pc[t] = "wait"
  /\ holder # NoThread
  /\ pc[holder] \notin InTakeGil
  /\ gil_drop_request' = TRUE
  /\ eval_breaker' = TRUE
  /\ UNCHANGED <<pendingcalls_to_do, pending_async_exc, async_exc, ring,
                 pending_lock, making, gil, pc, ret, loaded, status>>

\* A thread that takes the GIL at once when it is through with drop_gil
\* yielded; one that goes to "run" later blocks.
AfterDrop(t) == IF ret[t] = "exc" THEN "wait" ELSE "outside"

\* drop_gil, with the GIL given up: no request, or the switch has happened.
DropReturns(t) ==
  /\ \/ pc[t] = "drop" /\ (~gil_drop_request \/ gil_last_holder # t)
     \/ pc[t] = "switch" /\ gil_last_holder # t
  /\ Goto(t, AfterDrop(t))
  /\ UNCHANGED <<eval_breaker, flags, async_exc, ring, pending_lock, making,
                 gil, ret, loaded, status>>

\* drop_gil: RESET_GIL_DROP_REQUEST under switch_mutex, then wait.
DropReset(t) ==
  /\ pc[t] = "drop"
  /\ gil_drop_request
  /\ gil_last_holder = t
  /\ gil_drop_request' = FALSE
  /\ UNCHANGED <<pendingcalls_to_do, pending_async_exc>>
  /\ Load(t)
  /\ Goto(t, "drop_store")
  /\ UNCHANGED <<eval_breaker, async_exc, ring, pending_lock, making, gil, ret,
                 status>>

DropGil(t, r) ==
  /\ holder' = NoThread
  /\ ret' = [ret EXCEPT ![t] = r]
  /\ Goto(t, "drop")
  /\ UNCHANGED <<eval_breaker, flags, async_exc, ring, pending_lock, making,
                 gil_last_holder, loaded, status>>

\* PyEval_SaveThread and PyEval_RestoreThread.
Block(t)   == pc[t] = "run" /\ DropGil(t, "run")
Restore(t) ==
  /\ pc[t] = "outside"
  /\ Goto(t, "wait")
  /\ UNCHANGED <<eval_breaker, flags, async_exc, ring, pending_lock, making,
                 gil, ret, loaded, status>>

-----------------------------------------------------------------------------
(* The periodic test of the eval loop *)

\* The loop finds eval_breaker set.
Break(t) ==
  /\ pc[t] = "run"
  /\ eval_breaker
  /\ Goto(t, "pending")
  /\ UNCHANGED <<eval_breaker, flags, async_exc, ring, pending_lock, making,
                 gil, ret, loaded, status>>

\* Mutant of MayMakeCalls: recursive pending calls.
MayMakeCalls_M(t) == pendingcalls_to_do /\ t = Main

\* The tests before the loop of Py_MakePendingCalls.
MayMakeCalls(t) == pendingcalls_to_do /\ t = Main /\ ~busy

Pending(t) ==
  /\ pc[t] = "pending"
  /\ \/ /\ MayMakeCalls(t)
        /\ busy' = TRUE
        /\ made' = 0
        /\ Goto(t, "lock")
     \/ /\ ~MayMakeCalls(t)
        /\ Goto(t, "request")
        /\ UNCHANGED <<busy, made>>
  /\ UNCHANGED <<eval_breaker, flags, async_exc, ring, pending_lock, func, gil,
                 ret, loaded, status>>

Advance(i) == (i + 1) % NPENDINGCALLS

\* pop one item off the queue while holding the lock
Pop ==
  IF pendingfirst = pendinglast
    THEN /\ func' = NoCall
         /\ UNCHANGED <<pendingfirst, pendingcalls, served>>
    ELSE /\ func' = pendingcalls[pendingfirst]
         /\ pendingfirst' = Advance(pendingfirst)
         /\ pendingcalls' = [pendingcalls EXCEPT ![pendingfirst] = NoCall]
         /\ served' = served + 1

\* Mutant of MoreToDo: the test before the pop.
MoreToDo_M == pendingfirst = pendinglast

\* Are calls left after the pop?
MoreToDo == pendingfirst' # pendinglast

\* One turn of the loop up to the release of pending_lock, or up to the store
\* of UNSIGNAL_PENDING_CALLS, which happens under it.
MakeLock ==
  /\ pc[Main] = "lock"
  /\ pending_lock = "free"
  /\ Pop
  /\ pendingcalls_to_do' = MoreToDo
  /\ UNCHANGED <<gil_drop_request, pending_async_exc>>
  /\ \/ /\ MoreToDo
        /\ eval_breaker' = TRUE
        /\ Goto(Main, "call")
        /\ UNCHANGED <<pending_lock, loaded>>
     \/ /\ ~MoreToDo
        /\ Load(Main)
        /\ pending_lock' = "make"
        /\ Goto(Main, "make_store")
        /\ UNCHANGED eval_breaker
  /\ UNCHANGED <<async_exc, pendinglast, accepted, busy, made, gil, ret, status>>

\* Having released the lock, perform the callback: it runs Python code, that
\* is, the eval loop, until it returns.
MakeCall ==
  /\ pc[Main] = "call"
  /\ \/ /\ func = NoCall
        /\ busy' = FALSE
        /\ Goto(Main, "request")
        /\ UNCHANGED status
     \/ /\ func # NoCall
        /\ status' = [status EXCEPT ![func] = "running"]
        /\ Goto(Main, "run")
        /\ UNCHANGED busy
  /\ UNCHANGED <<eval_breaker, flags, async_exc, ring, pending_lock, made,
                 func, gil, ret, loaded>>

\* The callback returns 0, or -1: then the loop ends, the rest of the calls
\* waits for the next break, and the eval loop goes to its error handling.
CallReturns(ok) ==
  /\ pc[Main] = "run"
  /\ func # NoCall
  /\ status' = [status EXCEPT ![func] = "done"]
  /\ func' = NoCall
  /\ made' = IF ok THEN made + 1 ELSE 0
  /\ busy' = (ok /\ made' < NPENDINGCALLS)
  /\ Goto(Main, IF ~ok THEN "run" ELSE IF busy' THEN "lock" ELSE "request")
  /\ UNCHANGED <<eval_breaker, flags, async_exc, ring, pending_lock, gil, ret,
                 loaded>>

\* Give another thread a chance
Request(t) ==
  /\ pc[t] = "request"
  /\ \/ gil_drop_request /\ DropGil(t, "exc")
     \/ /\ ~gil_drop_request
        /\ Goto(t, "exc")
        /\ UNCHANGED <<eval_breaker, flags, async_exc, ring, pending_lock,
                       making, gil, ret, loaded, status>>

\* Check for asynchronous exceptions: UNSIGNAL_ASYNC_EXC and raise it.
AsyncExc(t) ==
  /\ pc[t] = "exc"
  /\ \/ /\ async_exc[t]
        /\ async_exc' = [async_exc EXCEPT ![t] = FALSE]
        /\ pending_async_exc' = FALSE
        /\ UNCHANGED <<gil_drop_request, pendingcalls_to_do>>
        /\ Load(t)
        /\ Goto(t, "exc_store")
     \/ /\ ~async_exc[t]
        /\ Goto(t, "run")
        /\ UNCHANGED <<async_exc, flags, loaded>>
  /\ UNCHANGED <<eval_breaker, ring, pending_lock, making, gil, ret, status>>

\* PyThreadState_SetAsyncExc, called with the GIL; exc may be NULL.
SetAsyncExc(h, t, exc) ==
  /\ pc[h] = "run"
  /\ async_exc' = [async_exc EXCEPT ![t] = exc]
  /\ pending_async_exc' = TRUE
  /\ eval_breaker' = TRUE
  /\ UNCHANGED <<gil_drop_request, pendingcalls_to_do, ring, pending_lock,
                 making, gil, pc, ret, loaded, status>>

-----------------------------------------------------------------------------
(* Py_AddPendingCall *)

\* Mutant of RingIsFull: the test of an indexed queue without a free slot.
RingIsFull_M == FALSE

RingIsFull == Advance(pendinglast) = pendingfirst

IsNext(c) == \A d \in Calls : status[d] = "new" <=> d >= c

\* The lock is free at one of the 100 tries.  Also a call that does not fit
\* is signalled.
AddLock(c) ==
  /\ IsNext(c)
  /\ pending_lock = "free"
  /\ pending_lock' = "add"
  /\ pendingcalls_to_do' = TRUE
  /\ \/ /\ RingIsFull
        /\ status' = [status EXCEPT ![c] = "refused"]
        /\ UNCHANGED <<pendingcalls, pendinglast, accepted>>
     \/ /\ ~RingIsFull
        /\ status' = [status EXCEPT ![c] = "queued"]
        /\ pendingcalls' = [pendingcalls EXCEPT ![pendinglast] = c]
        /\ pendinglast' = Advance(pendinglast)
        /\ accepted' = Append(accepted, c)
  /\ UNCHANGED <<eval_breaker, gil_drop_request, pending_async_exc, async_exc,
                 pendingfirst, served, making, gil, pc, ret, loaded>>

\* The second store of SIGNAL_PENDING_CALLS, and the release.
AddUnlock ==
  /\ pending_lock = "add"
  /\ eval_breaker' = TRUE
  /\ pending_lock' = "free"
  /\ UNCHANGED <<flags, async_exc, ring, making, gil, pc, ret, loaded, status>>

\* All 100 tries find the lock taken.
AddGivesUp(c) ==
  /\ IsNext(c)
  /\ pending_lock # "free"
  /\ status' = [status EXCEPT ![c] = "refused"]
  /\ UNCHANGED <<eval_breaker, flags, async_exc, ring, pending_lock, making,
                 gil, pc, ret, loaded>>

-----------------------------------------------------------------------------
(***************************************************************************)
(* What a thread does by itself is fair: the operating system schedules    *)
(* it, timed waits end, the eval loop reaches its test; and a callback     *)
(* returns, even if its code is interrupted again and again (SF).          *)
(* Blocking, coming back, setting exceptions and adding calls is           *)
(* up to the program.                                                      *)
(***************************************************************************)
Step(t) ==
  \/ StoreBreaker(t) \/ TakeGil(t) \/ TookReset(t) \/ TookSignal(t)
  \/ DropReturns(t) \/ DropReset(t)
  \/ Break(t) \/ Pending(t) \/ Request(t) \/ AsyncExc(t)
  \/ t = Main /\ (MakeLock \/ MakeCall)

Program(t) ==
  \/ Block(t) \/ Restore(t)
  \/ \E u \in Targets, exc \in BOOLEAN : SetAsyncExc(t, u, exc)

Add(c) == AddLock(c) \/ AddGivesUp(c)

Next ==
  \/ \E t \in Threads : Step(t) \/ SetDropRequest(t) \/ Program(t)
  \/ \E ok \in BOOLEAN : CallReturns(ok)
  \/ \E c \in Calls : Add(c)
  \/ AddUnlock

Spec == Init /\ [][Next]_vars

Fairness ==
  /\ \A t \in Threads : WF_vars(Step(t)) /\ WF_vars(SetDropRequest(t))
  /\ SF_vars(\E ok \in BOOLEAN : CallReturns(ok))
  /\ WF_vars(AddUnlock)

FairSpec == Spec /\ Fairness

-----------------------------------------------------------------------------
Statuses == {"new", "queued", "refused", "running", "done"}

TypeOK ==
  /\ {eval_breaker, gil_drop_request, pendingcalls_to_do, pending_async_exc,
      busy} \subseteq BOOLEAN
  /\ async_exc \in [Threads -> BOOLEAN]
  /\ pendingcalls \in [0 .. NPENDINGCALLS - 1 -> Calls \cup {NoCall}]
  /\ pendingfirst \in 0 .. NPENDINGCALLS - 1
  /\ pendinglast \in 0 .. NPENDINGCALLS - 1
  /\ pending_lock \in {"free", "make", "add"}
  /\ made \in 0 .. NPENDINGCALLS
  /\ func \in Calls \cup {NoCall}
  /\ holder \in Threads \cup {NoThread}
  /\ gil_last_holder \in Threads
  /\ pc \in [Threads -> Outside \cup Dropped \cup Holding]
  /\ ret \in [Threads -> {"run", "exc"}]
  /\ loaded \in [Threads -> BOOLEAN]
  /\ status \in [Calls -> Statuses]
  /\ accepted \in Seq(Calls)
  /\ served \in 0 .. Len(accepted)

(***************************************************************************)
(* The ring holds exactly the calls that were accepted and not yet popped, *)
(* in the order in which they were accepted: none is lost, made twice or   *)
(* overtaken, also when the ring is full or its indexes wrap.              *)
(***************************************************************************)
RingLength == (pendinglast - pendingfirst + NPENDINGCALLS) % NPENDINGCALLS

RingIsFifo ==
  /\ RingLength = Len(accepted) - served
  /\ \A i \in 1 .. RingLength :
        pendingcalls[(pendingfirst + i - 1) % NPENDINGCALLS]
          = accepted[served + i]

(***************************************************************************)
(* Whenever nobody is in the middle of an update, a call in the ring is    *)
(* announced by pendingcalls_to_do, however adding and making calls        *)
(* interleave.                                                             *)
(***************************************************************************)
QueuedIsFlagged ==
  pending_lock = "free" /\ pendingfirst # pendinglast => pendingcalls_to_do

(***************************************************************************)
(* Py_MakePendingCalls does not recurse: a call made from a nested eval    *)
(* loop waits for the one that is running.                                 *)
(***************************************************************************)
OneCallAtATime ==
  \A c, d \in Calls :
     status[c] = "running" /\ status[d] = "running" => c = d

(***************************************************************************)
(* A thread with an asynchronous exception does not run on past its next   *)
(* bytecode without noticing: also when another thread consumed            *)
(* pending_async_exc in the meantime, and when eval_breaker is recomputed  *)
(* on behalf of other requests.                                            *)
(***************************************************************************)
AsyncExcIsNoticed ==
  \A t \in Threads :
     pc[t] = "run" /\ async_exc[t] => pending_async_exc /\ eval_breaker

(***************************************************************************)
(* What the comment above COMPUTE_EVAL_BREAKER relies on: although         *)
(* eval_breaker may be set to 0 after a drop request was raised, the loop  *)
(* releases the GIL eventually, since the waiting thread asks again.       *)
(***************************************************************************)
DropRequestHonoured ==
  \A t \in Threads :
     (holder = t /\ \E u \in Threads : pc[u] = "wait") ~> (holder # t)

(***************************************************************************)
(* "When successfully queued, func will be eventually called": a queued    *)
(* call does not stay queued while the main thread runs on for ever.       *)
(***************************************************************************)
QueuedCallIsMade ==
  \A c \in Calls :
     (status[c] = "queued") ~> (status[c] # "queued" \/ holder # Main)

(***************************************************************************)
(* What does hold: once a queued call is announced by eval_breaker, with   *)
(* no recomputation under way that may have read pendingcalls_to_do before *)
(* the call was added, later ones keep it announced, and it is made,       *)
(* however calls nest, fail and are added.                                 *)
(***************************************************************************)
Recomputing == \E t \in Threads : pc[t] \in {"took_store", "drop_store", "exc_store"}

AnnouncedCallIsMade ==
  \A c \in Calls :
     (status[c] = "queued" /\ eval_breaker /\ ~Recomputing)
       ~> (status[c] # "queued" \/ holder # Main)
=============================================================================
