----------------------------- MODULE Signals -----------------------------
(***************************************************************************)
(* From the delivery of a signal to the call of its Python handler         *)
(* (Modules/signalmodule.c).  The C handler, which runs on whatever thread *)
(* the kernel chose, interrupting the main thread at any instruction or    *)
(* running next to it, sets Handlers[s].tripped and then, unless is_tripped *)
(* is already set, sets is_tripped and queues checksignals_witharg with    *)
(* Py_AddPendingCall.  The main thread runs PyErr_CheckSignals from the    *)
(* queue, or directly from C code that was interrupted; a Python handler   *)
(* is Python code and may come to both again.                              *)
(*                                                                         *)
(* Of Py_AddPendingCall and Py_MakePendingCalls this module keeps the ring *)
(* as a bounded queue, the lock, and eval_breaker, without which the eval  *)
(* loop does not look at the queue.  pendingcalls_to_do is not a variable  *)
(* of its own: under the lock it is set if the queue is not empty (module  *)
(* EvalBreaker, QueuedIsFlagged).  A definition whose name ends in _M is a *)
(* mutant of the definition it stands before.                              *)
(***************************************************************************)
EXTENDS Integers, Sequences

CONSTANTS
  NSIG,         \* signals are 1 .. NSIG - 1
  Deliveries,   \* each delivers one signal once
  QueueSize,    \* NPENDINGCALLS - 1
  Others,       \* how many other pending calls the program adds
  MayRaise,     \* may Python handlers raise exceptions?
  OnMain,       \* may the kernel choose the main thread, another one?
  MayMiss,      \* may 100 tries for the lock fail on another thread?
  MaxDepth      \* bound on nested calls of PyErr_CheckSignals

Signals == 1 .. NSIG - 1

ASSUME SignalsAssumption ==
  /\ NSIG \in Nat \ {0, 1}
  /\ QueueSize \in Nat \ {0}
  /\ Others \in Nat
  /\ MayRaise \in BOOLEAN
  /\ OnMain \subseteq BOOLEAN
  /\ MayMiss \in BOOLEAN
  /\ MaxDepth \in Nat \ {0}

VARIABLES
  tripped,      \* Handlers[s].tripped
  is_tripped,
  queue,        \* pending calls: "check" or "other"
  added,        \* other calls added so far
  eval_breaker,
  recomputing,  \* is COMPUTE_EVAL_BREAKER under way in a thread that saw no
                \*   call in the queue, so that it may store 0?
  pc,           \* the main thread
  func,         \* the call the main thread popped
  frames,       \* activations of PyErr_CheckSignals, innermost first:
                \*   the caller and the signal the loop has come to
  delivery,     \* where each delivery is
  on_main,      \* did the kernel choose the main thread for it?
  signal        \* its signal

breakerVars == <<eval_breaker, recomputing>>
mainVars == <<pc, func, frames>>
deliveryVars == <<delivery, on_main, signal>>
vars == <<tripped, is_tripped, queue, added, breakerVars, mainVars, deliveryVars>>

Init ==
  /\ tripped = [s \in Signals |-> FALSE]
  /\ is_tripped = FALSE
  /\ queue = <<>>
  /\ added = 0
  /\ eval_breaker = FALSE
  /\ recomputing = FALSE
  /\ pc = "python"
  /\ func = "none"
  /\ frames = <<>>
  /\ delivery = [d \in Deliveries |-> "new"]
  /\ on_main \in [Deliveries -> OnMain]
  /\ signal \in [Deliveries -> Signals]

-----------------------------------------------------------------------------
(* The C handler: trip_signal *)

\* The main thread stands still while a handler interrupts it.
Interrupted == \E d \in Deliveries : on_main[d] /\ delivery[d] \in {"flag", "add"}

\* Handlers[sig_num].tripped = 1
Trip(d) ==
  /\ delivery[d] = "new"
  /\ on_main[d] => ~Interrupted
  /\ tripped' = [tripped EXCEPT ![signal[d]] = TRUE]
  /\ delivery' = [delivery EXCEPT ![d] = "flag"]
  /\ UNCHANGED <<is_tripped, queue, added, breakerVars, mainVars, on_main, signal>>

\* Mutant of Flag: is_tripped is not set.
Flag_M(d) ==
  /\ delivery[d] = "flag"
  /\ delivery' = [delivery EXCEPT ![d] = IF is_tripped THEN "done" ELSE "add"]
  /\ UNCHANGED <<tripped, is_tripped, queue, added, breakerVars, mainVars,
                 on_main, signal>>

\* if (!is_tripped) is_tripped = 1
Flag(d) ==
  /\ delivery[d] = "flag"
  /\ is_tripped' = TRUE
  /\ delivery' = [delivery EXCEPT ![d] = IF is_tripped THEN "done" ELSE "add"]
  /\ UNCHANGED <<tripped, queue, added, breakerVars, mainVars, on_main, signal>>

LockTaken == pc = "locked"

\* Py_AddPendingCall: the lock is free, a call that fits is queued, and the
\* main loop is signalled even if it does not fit.
AddPendingCall(call) ==
  /\ ~LockTaken
  /\ queue' = IF Len(queue) < QueueSize THEN Append(queue, call) ELSE queue
  /\ eval_breaker' = TRUE
  /\ UNCHANGED recomputing

\* Py_AddPendingCall(checksignals_witharg), the result of which trip_signal
\* ignores.  A handler that interrupts the holder of the lock finds it taken
\* at every try.
AddCheck(d) ==
  /\ delivery[d] = "add"
  /\ \/ AddPendingCall("check")
     \/ LockTaken /\ (on_main[d] \/ MayMiss) /\ UNCHANGED <<queue, breakerVars>>
  /\ delivery' = [delivery EXCEPT ![d] = "done"]
  /\ UNCHANGED <<tripped, is_tripped, added, mainVars, on_main, signal>>

\* Some thread adds another pending call.
AddOther ==
  /\ added < Others
  /\ AddPendingCall("other")
  /\ added' = added + 1
  /\ UNCHANGED <<tripped, is_tripped, mainVars, deliveryVars>>

-----------------------------------------------------------------------------
(* Requests of other kinds (dropping the GIL, asynchronous exceptions) *)

Elsewhere == UNCHANGED <<tripped, is_tripped, queue, added, mainVars, deliveryVars>>

\* One is raised, or COMPUTE_EVAL_BREAKER finds one or a call in the queue.
Request == Elsewhere /\ eval_breaker' = TRUE /\ UNCHANGED recomputing

\* COMPUTE_EVAL_BREAKER loads the flags, with no call in the queue, ...
LoadBreaker ==
  /\ Elsewhere
  /\ queue = <<>>
  /\ recomputing' = TRUE
  /\ UNCHANGED eval_breaker

\* ... and stores 0 later, when there may be one.  Several threads may be at it.
StoreBreaker ==
  /\ Elsewhere
  /\ recomputing
  /\ eval_breaker' = FALSE
  /\ recomputing' \in BOOLEAN

-----------------------------------------------------------------------------
(* The main thread *)

\* Python code runs at the bottom of the stack or in a Python handler.
Python == pc = "python"
Main   == ~Interrupted /\ UNCHANGED <<added, recomputing, deliveryVars>>

Frame(caller) == [caller |-> caller, at |-> 1]

InMakePendingCalls == \E i \in DOMAIN frames : frames[i].caller = "pending"

\* The eval loop finds eval_breaker set, and pendingcalls_to_do too: it calls
\* Py_MakePendingCalls, which does nothing when it is busy.
MakePendingCalls ==
  /\ Main /\ Python
  /\ eval_breaker
  /\ queue # <<>>
  /\ ~InMakePendingCalls
  /\ Len(frames) < MaxDepth
  /\ pc' = "lock"
  /\ UNCHANGED <<tripped, is_tripped, queue, eval_breaker, func, frames>>

\* pop one item off the queue while holding the lock, and signal what is left;
\* if nothing is, eval_breaker is left to the requests of other kinds.
Pop ==
  /\ Main /\ pc = "lock"
  /\ func' = IF queue = <<>> THEN "none" ELSE Head(queue)
  /\ queue' = IF queue = <<>> THEN <<>> ELSE Tail(queue)
  /\ eval_breaker' \in IF queue' = <<>> THEN BOOLEAN ELSE {TRUE}
  /\ pc' = "locked"
  /\ UNCHANGED <<tripped, is_tripped, frames>>

\* Having released the lock, perform the callback, or leave the loop.  After
\* an error in another callback the loop is left too.
Callback ==
  /\ Main /\ LockTaken
  /\ \/ func = "check" /\ pc' = "test" /\ frames' = <<Frame("pending")>> \o frames
     \/ func = "other" /\ pc' \in {"lock", "python"} /\ UNCHANGED frames
     \/ func = "none"  /\ pc' = "python" /\ UNCHANGED frames
  /\ func' = "none"
  /\ UNCHANGED <<tripped, is_tripped, queue, eval_breaker>>

\* C code that was interrupted calls PyErr_CheckSignals.
CheckDirectly ==
  /\ Main /\ Python
  /\ Len(frames) < MaxDepth
  /\ pc' = "test"
  /\ frames' = <<Frame("direct")>> \o frames
  /\ UNCHANGED <<tripped, is_tripped, queue, eval_breaker, func>>

\* PyErr_CheckSignals returns r: the loop of Py_MakePendingCalls goes on
\* after a 0, any other caller returns to Python code.
Return(r) ==
  /\ frames' = Tail(frames)
  /\ pc' = IF Head(frames).caller = "pending" /\ r = 0 THEN "lock" ELSE "python"

Test ==
  /\ Main /\ pc = "test"
  /\ \/ ~is_tripped /\ Return(0)
     \/ is_tripped /\ pc' = "clear" /\ UNCHANGED frames
  /\ UNCHANGED <<tripped, is_tripped, queue, eval_breaker, func>>

Clear ==
  /\ Main /\ pc = "clear"
  /\ is_tripped' = FALSE
  /\ pc' = "scan"
  /\ UNCHANGED <<tripped, queue, eval_breaker, func, frames>>

At == Head(frames).at

\* One turn of the loop over the signals; a tripped one has its flag cleared
\* and its Python handler called.
Scan ==
  /\ Main /\ pc = "scan"
  /\ \/ At = NSIG /\ Return(0) /\ UNCHANGED tripped
     \/ /\ At < NSIG
        /\ frames' = [frames EXCEPT ![1].at = At + 1]
        /\ pc' = IF tripped[At] THEN "python" ELSE "scan"
        /\ tripped' = [tripped EXCEPT ![At] = FALSE]
  /\ UNCHANGED <<is_tripped, queue, eval_breaker, func>>

\* Mutant of HandlerReturns: one signal is handled at a time.
HandlerReturns_M ==
  /\ Main /\ Python
  /\ frames # <<>>
  /\ Return(0)
  /\ UNCHANGED <<tripped, is_tripped, queue, eval_breaker, func>>

\* The Python handler returns, or raises an exception: its own, or one that
\* came to it from the handler of a signal that interrupted it.
HandlerReturns ==
  /\ Main /\ Python
  /\ frames # <<>>
  /\ pc' \in {"scan"} \cup IF MayRaise THEN {"error"} ELSE {}
  /\ UNCHANGED <<tripped, is_tripped, queue, eval_breaker, func, frames>>

\* if (!result) return -1
Leave ==
  /\ Main /\ pc = "error"
  /\ Return(-1)
  /\ UNCHANGED <<tripped, is_tripped, queue, eval_breaker, func>>

-----------------------------------------------------------------------------
Deliver(d) == Flag(d) \/ AddCheck(d)

MainStep == MakePendingCalls \/ Pop \/ Callback \/ Test \/ Clear \/ Scan \/ Leave

Next ==
  \/ \E d \in Deliveries : Trip(d) \/ Deliver(d)
  \/ MainStep \/ HandlerReturns \/ CheckDirectly \/ AddOther
  \/ Request \/ LoadBreaker \/ StoreBreaker

Spec == Init /\ [][Next]_vars

\* The C handler completes, the eval loop reaches its periodic test and acts
\* on eval_breaker if it finds it set, and Python handlers return however often
\* they are interrupted.
Fairness ==
  /\ \A d \in Deliveries : WF_vars(Deliver(d))
  /\ WF_vars(MainStep)
  /\ SF_vars(HandlerReturns)

FairSpec == Spec /\ Fairness

-----------------------------------------------------------------------------
TypeOK ==
  /\ tripped \in [Signals -> BOOLEAN]
  /\ is_tripped \in BOOLEAN
  /\ queue \in Seq({"check", "other"}) /\ Len(queue) <= QueueSize
  /\ added \in 0 .. Others
  /\ {eval_breaker, recomputing} \subseteq BOOLEAN
  /\ pc \in {"python", "lock", "locked", "test", "clear", "scan", "error"}
  /\ func \in {"none", "check", "other"}
  /\ frames \in Seq([caller : {"pending", "direct"}, at : 1 .. NSIG])
  /\ Len(frames) <= MaxDepth
  /\ delivery \in [Deliveries -> {"new", "flag", "add", "done"}]
  /\ on_main \in [Deliveries -> BOOLEAN]
  /\ signal \in [Deliveries -> Signals]

\* An activation that will come to a signal.  One that has still to test
\* is_tripped will return without doing so if the flag is not set.
Reaches(i, s) ==
  /\ i \in DOMAIN frames
  /\ frames[i].at <= s
  /\ pc = "test" => i # 1

\* There is something to make PyErr_CheckSignals look at a signal: is_tripped,
\* a delivery that has still to set it, or a loop that has still to come to it.
Seen(s) ==
  \/ is_tripped
  \/ \E d \in Deliveries : signal[d] = s /\ delivery[d] = "flag"
  \/ \E i \in DOMAIN frames : Reaches(i, s)

\* An exception ends a loop that has not come to a signal.
LeftBehind(s) == pc = "error" /\ At <= s

(***************************************************************************)
(* A tripped signal that something makes PyErr_CheckSignals look at is     *)
(* looked at, unless the handler of another one raises an exception in the *)
(* loop that had to come to it: no step forgets a signal otherwise,        *)
(* wherever handlers interrupt the main thread or one another.  This is    *)
(* why trip_signal sets is_tripped last and PyErr_CheckSignals clears it   *)
(* first.                                                                  *)
(***************************************************************************)
OnlyExceptionsForget ==
  [][\A s \in Signals :
       tripped'[s] /\ ~Seen(s)' => tripped[s] /\ (Seen(s) => LeftBehind(s))]_vars

(***************************************************************************)
(* The virtual machine is told to execute the Python handler at a later    *)
(* point: a tripped signal is handled eventually, also by a main thread    *)
(* that runs only Python code and never calls PyErr_CheckSignals itself.   *)
(***************************************************************************)
SignalIsHandled == \A s \in Signals : tripped[s] ~> ~tripped[s]

(***************************************************************************)
(* What does hold: if a call of checksignals_witharg is in the queue, and  *)
(* eval_breaker announces it with no recomputation under way that may take *)
(* that back, then the signals tripped by then are handled, also those     *)
(* whose own call was refused; or an exception of another handler ends the *)
(* loop before it comes to them.                                           *)
(***************************************************************************)
QueuedCheckHandles ==
  \A s \in Signals :
     (/\ is_tripped /\ tripped[s]
      /\ \E i \in DOMAIN queue : queue[i] = "check"
      /\ eval_breaker /\ ~recomputing)
       ~> (~tripped[s] \/ LeftBehind(s))
=============================================================================
