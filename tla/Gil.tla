------------------------------- MODULE Gil -------------------------------
(***************************************************************************)
(* The global interpreter lock as Python/ceval_gil.h implements it on      *)
(* POSIX threads: the boolean gil_locked, protected by gil_mutex and       *)
(* signalled on gil_cond, the drop request a waiting thread raises after   *)
(* its interval has timed out, and the forced switch on switch_cond.  The  *)
(* callers modelled are the ones of Python/ceval.c and Python/pystate.c:   *)
(* the eval loop giving way to a drop request, PyEval_SaveThread and       *)
(* PyEval_RestoreThread around a blocking call, PyEval_AcquireThread in    *)
(* the bootstrap of a new thread, PyThreadState_DeleteCurrent at its end,  *)
(* and Py_Finalize.                                                        *)
(*                                                                         *)
(* One action is one stretch of code between two points where another      *)
(* thread can interfere: a critical section is a single action unless the  *)
(* thread blocks in it or an unprotected variable is read outside of it.   *)
(* Waiting on a condition variable is the pc value of the waiting thread,  *)
(* so that signalling moves one waiter on.                                 *)
(*                                                                         *)
(* A definition whose name ends in _M is a mutant of the definition it     *)
(* stands before: a fault the properties detect.  No specification uses it. *)
(***************************************************************************)
EXTENDS Integers

CONSTANTS
  Threads,      \* thread states; each stands for the OS thread that owns it
  Main,         \* the thread that initialized the interpreter
  NoThread,     \* NULL, for a PyThreadState* or the owner of a mutex
  SwitchMod     \* gil_switch_number is unsigned: it wraps at this value

ASSUME GilAssumption ==
  /\ Main \in Threads
  /\ NoThread \notin Threads
  /\ SwitchMod \in Nat \ {0, 1}

VARIABLES
  gil_locked,         \* Is the GIL taken?
  gil_last_holder,    \* the last thread that took or dropped it
  gil_switch_number,  \* how often it went to another thread
  gil_drop_request,   \* Does a waiting thread ask the holder to drop it?
  gil_mutex,          \* owner of the mutex
  switch_mutex,       \* owner of the mutex
  current,            \* _PyThreadState_Current
  finalizing,         \* _Py_Finalizing
  pc,                 \* where each thread is
  after,              \* what a thread does once its drop_gil returns
  entry,              \* the caller of take_gil: "acquire" or "restore"
  saved_switchnum,    \* local of take_gil
  timed_out           \* local of take_gil

lockVars  == <<gil_locked, gil_last_holder, gil_switch_number>>
localVars == <<after, entry, saved_switchnum, timed_out>>
vars == <<lockVars, gil_drop_request, gil_mutex, switch_mutex, current,
          finalizing, pc, localVars>>

(***************************************************************************)
(* Inside take_gil before the GIL is taken; while the GIL is held; inside  *)
(* drop_gil after gil_locked was cleared.                                  *)
(***************************************************************************)
Taking   == {"take_mutex", "take_wait", "take_relock", "take_switch"}
Holding  == {"take_reset", "run", "drop_mutex"}
Dropping == {"drop_check", "drop_switch", "drop_reset", "switch_wait",
             "switch_relock"}
Resting  == {"unborn", "outside", "dead"}
PCs == Taking \cup Holding \cup Dropping \cup Resting

\* Where drop_gil returns to: the eval loop takes the GIL again, the
\* blocking call runs, the thread ends.
Goals == {"take_mutex", "outside", "dead"}

Init ==
  /\ gil_locked = TRUE
  /\ gil_last_holder = Main
  /\ gil_switch_number = 1
  /\ gil_drop_request = FALSE
  /\ gil_mutex = NoThread
  /\ switch_mutex = NoThread
  /\ current = Main
  /\ finalizing = NoThread
  /\ pc = [t \in Threads |-> IF t = Main THEN "run" ELSE "unborn"]
  /\ after = [t \in Threads |-> "outside"]
  /\ entry = [t \in Threads |-> IF t = Main THEN "restore" ELSE "acquire"]
  /\ saved_switchnum = [t \in Threads |-> 0]
  /\ timed_out = [t \in Threads |-> FALSE]

Goto(t, l) == pc' = [pc EXCEPT ![t] = l]

-----------------------------------------------------------------------------
(* take_gil *)

\* COND_TIMED_WAIT releases gil_mutex and waits on gil_cond atomically.
WaitForGil(t) ==
  /\ saved_switchnum' = [saved_switchnum EXCEPT ![t] = gil_switch_number]
  /\ timed_out' = [timed_out EXCEPT ![t] = FALSE]
  /\ gil_mutex' = NoThread
  /\ Goto(t, "take_wait")

\* Mutant of GilIsFree: gil_mutex released before switch_mutex is taken.
GilIsFree_M(t) ==
  /\ saved_switchnum' = [saved_switchnum EXCEPT ![t] = 0]
  /\ timed_out' = [timed_out EXCEPT ![t] = FALSE]
  /\ gil_mutex' = NoThread
  /\ Goto(t, "take_switch")

\* Under gil_mutex with the GIL free: take_gil goes on to switch_mutex
\* without releasing gil_mutex.  The locals of the loop go out of scope.
GilIsFree(t) ==
  /\ saved_switchnum' = [saved_switchnum EXCEPT ![t] = 0]
  /\ timed_out' = [timed_out EXCEPT ![t] = FALSE]
  /\ gil_mutex' = t
  /\ Goto(t, "take_switch")

TakeMutex(t) ==
  /\ pc[t] = "take_mutex"
  /\ gil_mutex = NoThread
  /\ \/ gil_locked  /\ WaitForGil(t)
     \/ ~gil_locked /\ GilIsFree(t)
  /\ UNCHANGED <<lockVars, gil_drop_request, switch_mutex, current,
                 finalizing, after, entry>>

\* The interval elapses; the wait returns ETIMEDOUT and competes for the mutex.
TimeOut(t) ==
  /\ pc[t] = "take_wait"
  /\ timed_out' = [timed_out EXCEPT ![t] = TRUE]
  /\ Goto(t, "take_relock")
  /\ UNCHANGED <<lockVars, gil_drop_request, gil_mutex, switch_mutex, current,
                 finalizing, after, entry, saved_switchnum>>

\* Mutant of AsksForDrop: asks only after a switch.
AsksForDrop_M(t) ==
  timed_out[t] /\ gil_locked /\ gil_switch_number # saved_switchnum[t]

\* The wait ended without a switch: SET_GIL_DROP_REQUEST.
AsksForDrop(t) ==
  timed_out[t] /\ gil_locked /\ gil_switch_number = saved_switchnum[t]

\* The wait returns holding gil_mutex; the loop tests gil_locked again.
TakeRelock(t) ==
  /\ pc[t] = "take_relock"
  /\ gil_mutex = NoThread
  /\ gil_drop_request' = (gil_drop_request \/ AsksForDrop(t))
  /\ \/ gil_locked  /\ WaitForGil(t)
     \/ ~gil_locked /\ GilIsFree(t)
  /\ UNCHANGED <<lockVars, switch_mutex, current, finalizing, after, entry>>

\* Mutant of SignalSwitch: the signal is forgotten.
SignalSwitch_M(newpc) == pc' = newpc

\* COND_SIGNAL(switch_cond): one waiter, if there is one, competes for
\* switch_mutex.
SignalSwitch(newpc) ==
  LET waiters == {u \in Threads : newpc[u] = "switch_wait"}
  IN  IF waiters = {}
        THEN pc' = newpc
        ELSE \E u \in waiters : pc' = [newpc EXCEPT ![u] = "switch_relock"]

\* Mutant of Increment: no wrap-around.
Increment_M(n) == n + 1

\* ++ on an unsigned counter
Increment(n) == IF n + 1 = SwitchMod THEN 0 ELSE n + 1

\* Mutant of TakeOwn: the last holder is not recorded.
TakeOwn_M(t) ==
  /\ pc[t] = "take_switch"
  /\ switch_mutex = NoThread
  /\ gil_locked' = TRUE
  /\ SignalSwitch([pc EXCEPT ![t] = "take_reset"])
  /\ UNCHANGED <<gil_last_holder, gil_switch_number, gil_drop_request,
                 gil_mutex, switch_mutex, current, finalizing, localVars>>

\* The section under switch_mutex: the thread now holds the GIL.
TakeOwn(t) ==
  /\ pc[t] = "take_switch"
  /\ switch_mutex = NoThread
  /\ gil_locked' = TRUE
  /\ gil_last_holder' = t
  /\ gil_switch_number' = IF gil_last_holder # t
                            THEN Increment(gil_switch_number)
                            ELSE gil_switch_number
  /\ SignalSwitch([pc EXCEPT ![t] = "take_reset"])
  /\ UNCHANGED <<gil_drop_request, gil_mutex, switch_mutex, current,
                 finalizing, localVars>>

\* Mutant of MustExit: the test of _Py_Finalizing is left out.
MustExit_M(t) == FALSE

\* _Py_Finalizing is tested after take_gil by the eval loop and by
\* PyEval_RestoreThread, not by PyEval_AcquireThread.
MustExit(t) ==
  entry[t] = "restore" /\ finalizing \notin {NoThread, t}

\* RESET_GIL_DROP_REQUEST, MUTEX_UNLOCK(gil_mutex), and what the caller does
\* next: run, or drop the GIL and end the thread.
TakeReset(t) ==
  /\ pc[t] = "take_reset"
  /\ gil_drop_request' = FALSE
  /\ gil_mutex' = NoThread
  /\ \/ /\ MustExit(t)
        /\ after' = [after EXCEPT ![t] = "dead"]
        /\ Goto(t, "drop_mutex")
        /\ UNCHANGED current
     \/ /\ ~MustExit(t)
        /\ after' = [after EXCEPT ![t] = "outside"]
        /\ Goto(t, "run")
        /\ current' = t
  /\ UNCHANGED <<lockVars, switch_mutex, finalizing, entry, saved_switchnum,
                 timed_out>>

-----------------------------------------------------------------------------
(* drop_gil *)

\* Mutant of BeginDrop: the thread state stays current.
BeginDrop_M(t, goal) ==
  /\ current' = current
  /\ after' = [after EXCEPT ![t] = goal]
  /\ entry' = [entry EXCEPT ![t] = "restore"]

\* The callers swap the current thread state out before they drop.
BeginDrop(t, goal) ==
  /\ current' = NoThread
  /\ after' = [after EXCEPT ![t] = goal]
  /\ entry' = [entry EXCEPT ![t] = "restore"]

\* COND_SIGNAL(gil_cond)
SignalGil(newpc) ==
  LET waiters == {u \in Threads : newpc[u] = "take_wait"}
  IN  IF waiters = {}
        THEN pc' = newpc
        ELSE \E u \in waiters : pc' = [newpc EXCEPT ![u] = "take_relock"]

\* The section under gil_mutex, with the store to gil_last_holder before it.
DropMutex(t) ==
  /\ pc[t] = "drop_mutex"
  /\ gil_mutex = NoThread
  /\ gil_last_holder' = t
  /\ gil_locked' = FALSE
  /\ SignalGil([pc EXCEPT ![t] = "drop_check"])
  /\ UNCHANGED <<gil_switch_number, gil_drop_request, gil_mutex, switch_mutex,
                 current, finalizing, localVars>>

\* Mutant of DropCheck: FORCE_SWITCHING undefined.
DropCheck_M(t) ==
  /\ pc[t] = "drop_check"
  /\ Goto(t, after[t])
  /\ UNCHANGED <<lockVars, gil_drop_request, gil_mutex, switch_mutex, current,
                 finalizing, localVars>>

\* The read of gil_drop_request, under no mutex.
DropCheck(t) ==
  /\ pc[t] = "drop_check"
  /\ Goto(t, IF gil_drop_request THEN "drop_switch" ELSE after[t])
  /\ UNCHANGED <<lockVars, gil_drop_request, gil_mutex, switch_mutex, current,
                 finalizing, localVars>>

\* Mutant of DropSwitch: waits whether or not the switch has happened.
DropSwitch_M(t) ==
  /\ pc[t] = "drop_switch"
  /\ switch_mutex = NoThread
  /\ switch_mutex' = t
  /\ Goto(t, "drop_reset")
  /\ UNCHANGED <<lockVars, gil_drop_request, gil_mutex, current, finalizing,
                 localVars>>

\* Under switch_mutex: nobody took the GIL yet, or the switch has happened.
DropSwitch(t) ==
  /\ pc[t] = "drop_switch"
  /\ switch_mutex = NoThread
  /\ \/ /\ gil_last_holder = t
        /\ switch_mutex' = t
        /\ Goto(t, "drop_reset")
     \/ /\ gil_last_holder # t
        /\ Goto(t, after[t])
        /\ UNCHANGED switch_mutex
  /\ UNCHANGED <<lockVars, gil_drop_request, gil_mutex, current, finalizing,
                 localVars>>

\* Mutant of DropReset: sleeps without releasing switch_mutex.
DropReset_M(t) ==
  /\ pc[t] = "drop_reset"
  /\ gil_drop_request' = FALSE
  /\ Goto(t, "switch_wait")
  /\ UNCHANGED <<lockVars, gil_mutex, switch_mutex, current, finalizing,
                 localVars>>

\* RESET_GIL_DROP_REQUEST, then COND_WAIT releases switch_mutex and waits.
DropReset(t) ==
  /\ pc[t] = "drop_reset"
  /\ gil_drop_request' = FALSE
  /\ switch_mutex' = NoThread
  /\ Goto(t, "switch_wait")
  /\ UNCHANGED <<lockVars, gil_mutex, current, finalizing, localVars>>

\* COND_WAIT returns with switch_mutex, which drop_gil releases.  The wait is
\* in an if, not in a loop.
SwitchRelock(t) ==
  /\ pc[t] = "switch_relock"
  /\ switch_mutex = NoThread
  /\ Goto(t, after[t])
  /\ UNCHANGED <<lockVars, gil_drop_request, gil_mutex, switch_mutex, current,
                 finalizing, localVars>>

-----------------------------------------------------------------------------
(* The callers *)

\* The eval loop finds gil_drop_request set.
EvalYield(t) ==
  /\ pc[t] = "run"
  /\ gil_drop_request
  /\ BeginDrop(t, "take_mutex")
  /\ Goto(t, "drop_mutex")
  /\ UNCHANGED <<lockVars, gil_drop_request, gil_mutex, switch_mutex,
                 finalizing, saved_switchnum, timed_out>>

\* PyEval_SaveThread before a blocking call.
SaveThread(t) ==
  /\ pc[t] = "run"
  /\ BeginDrop(t, "outside")
  /\ Goto(t, "drop_mutex")
  /\ UNCHANGED <<lockVars, gil_drop_request, gil_mutex, switch_mutex,
                 finalizing, saved_switchnum, timed_out>>

\* PyEval_RestoreThread after it.
RestoreThread(t) ==
  /\ pc[t] = "outside"
  /\ Goto(t, "take_mutex")
  /\ UNCHANGED <<lockVars, gil_drop_request, gil_mutex, switch_mutex, current,
                 finalizing, localVars>>

\* A running thread starts another one; t_bootstrap calls
\* PyEval_AcquireThread.
StartThread(h, t) ==
  /\ pc[h] = "run"
  /\ pc[t] = "unborn"
  /\ Goto(t, "take_mutex")
  /\ UNCHANGED <<lockVars, gil_drop_request, gil_mutex, switch_mutex, current,
                 finalizing, localVars>>

\* PyThreadState_DeleteCurrent at the end of t_bootstrap: the current thread
\* state is NULL when PyEval_ReleaseLock reads it, so drop_gil neither
\* records the holder nor waits for a switch.
DeleteCurrent(t) ==
  /\ pc[t] = "run"
  /\ t # Main
  /\ gil_mutex = NoThread
  /\ current' = NoThread
  /\ gil_locked' = FALSE
  /\ SignalGil([pc EXCEPT ![t] = "dead"])
  /\ UNCHANGED <<gil_last_holder, gil_switch_number, gil_drop_request,
                 gil_mutex, switch_mutex, finalizing, localVars>>

\* Py_Finalize: remaining threads are to exit after taking the GIL.
Finalize ==
  /\ pc[Main] = "run"
  /\ finalizing = NoThread
  /\ finalizing' = Main
  /\ UNCHANGED <<lockVars, gil_drop_request, gil_mutex, switch_mutex, current,
                 pc, localVars>>

-----------------------------------------------------------------------------
(***************************************************************************)
(* Step(t) is what the thread does of its own accord once it entered       *)
(* take_gil or drop_gil; the operating system schedules it and returns     *)
(* from timed waits, so all of it is fair, and so is the eval loop's test  *)
(* of the drop request.  Whether a thread starts, blocks, ends or          *)
(* finalizes is up to the program.                                         *)
(***************************************************************************)
Step(t) ==
  \/ TakeMutex(t) \/ TimeOut(t) \/ TakeRelock(t) \/ TakeOwn(t) \/ TakeReset(t)
  \/ DropMutex(t) \/ DropCheck(t) \/ DropSwitch(t) \/ DropReset(t)
  \/ SwitchRelock(t) \/ EvalYield(t)

Program(t) ==
  \/ SaveThread(t) \/ RestoreThread(t) \/ DeleteCurrent(t)
  \/ \E u \in Threads : StartThread(t, u)

Next ==
  \/ \E t \in Threads : Step(t) \/ Program(t)
  \/ Finalize

Spec == Init /\ [][Next]_vars

Fairness == \A t \in Threads : WF_vars(Step(t))
FairSpec == Spec /\ Fairness

\* POSIX lets any wait return without a signal or a timeout.
SpuriousWakeup(t) ==
  /\ \/ pc[t] = "take_wait"   /\ Goto(t, "take_relock")
     \/ pc[t] = "switch_wait" /\ Goto(t, "switch_relock")
  /\ UNCHANGED <<lockVars, gil_drop_request, gil_mutex, switch_mutex, current,
                 finalizing, localVars>>

SpuriousNext == Next \/ \E t \in Threads : SpuriousWakeup(t)
SpuriousSpec == Init /\ [][SpuriousNext]_vars

-----------------------------------------------------------------------------
TypeOK ==
  /\ gil_locked \in BOOLEAN
  /\ gil_last_holder \in Threads
  /\ gil_switch_number \in 0 .. SwitchMod - 1
  /\ gil_drop_request \in BOOLEAN
  /\ gil_mutex \in Threads \cup {NoThread}
  /\ switch_mutex \in Threads \cup {NoThread}
  /\ current \in Threads \cup {NoThread}
  /\ finalizing \in {Main, NoThread}
  /\ pc \in [Threads -> PCs]
  /\ after \in [Threads -> Goals]
  /\ entry \in [Threads -> {"acquire", "restore"}]
  /\ saved_switchnum \in [Threads -> 0 .. SwitchMod - 1]
  /\ timed_out \in [Threads -> BOOLEAN]

Holds(t) == pc[t] \in Holding

(***************************************************************************)
(* At most one thread runs Python code or is about to, and gil_locked says *)
(* whether there is one: two threads that both found the lock free under   *)
(* gil_mutex, one of them still blocked on switch_mutex, must not both     *)
(* pass.                                                                   *)
(***************************************************************************)
MutualExclusion ==
  /\ \A t, u \in Threads : Holds(t) /\ Holds(u) => t = u
  /\ gil_locked <=> \E t \in Threads : Holds(t)

(***************************************************************************)
(* The checks that end in Py_FatalError in the eval loop, PyEval_SaveThread *)
(* and PyEval_AcquireThread ("tstate mix-up", "orphan tstate", "non-NULL   *)
(* old thread state") never fire: a running thread is the current one, and *)
(* a thread that is about to become current finds no other.                *)
(***************************************************************************)
CurrentIsRunner ==
  \A t \in Threads : /\ pc[t] = "run" => current = t
                     /\ pc[t] \in {"take_reset", "drop_mutex"} =>
                          current = NoThread

(***************************************************************************)
(* A thread that yielded on request does not get the GIL back before some  *)
(* other thread had it: what FORCE_SWITCHING promises in the notes at the  *)
(* top of ceval_gil.h.                                                     *)
(***************************************************************************)
OwesSwitch(t) == after[t] = "take_mutex" /\ gil_last_holder = t

YieldSwitches ==
  [][\A t \in Threads :
        pc[t] = "take_switch" /\ pc'[t] = "take_reset" => ~OwesSwitch(t)]_vars

(***************************************************************************)
(* The lock its users see (module GilSpec): the thread between the end of  *)
(* take_gil and drop_gil holds it, and a thread that dropped it for a      *)
(* switch owes the switch for as long as it is the last holder.  Every     *)
(* step of the mutexes, condition variables and flags above is a Take, a   *)
(* Drop or a stutter of that lock.                                         *)
(***************************************************************************)
Abstract == INSTANCE GilSpec
              WITH holders <- {t \in Threads : Holds(t)},
                   owing   <- {t \in Threads : OwesSwitch(t) /\ ~Holds(t)}

AbstractSpec == Abstract!Spec

(***************************************************************************)
(* A thread waiting for the forced switch is never stranded: there is      *)
(* another thread inside take_gil that will take the GIL and signal        *)
(* switch_cond, and no signal it needed was sent before it waited.         *)
(***************************************************************************)
SwitchWaiterHasContender ==
  \A t \in Threads : pc[t] = "switch_wait" =>
     /\ gil_last_holder = t
     /\ \E u \in Threads \ {t} : pc[u] \in Taking

(***************************************************************************)
(* Once _Py_Finalizing is set, no other thread that comes back from a      *)
(* blocking call or a yield runs Python code again; only a thread that     *)
(* enters for the first time through PyEval_AcquireThread may.             *)
(***************************************************************************)
RestoredThreadsExit ==
  \A t \in Threads :
     pc[t] = "run" /\ finalizing \notin {NoThread, t} => entry[t] = "acquire"

(***************************************************************************)
(* No thread runs for ever while another one waits for the GIL.            *)
(***************************************************************************)
HolderGivesWay ==
  \A t \in Threads :
     (pc[t] = "run" /\ \E u \in Threads : pc[u] \in Taking) ~> (pc[t] # "run")

(***************************************************************************)
(* A free GIL with a thread inside take_gil is taken: no release is missed *)
(* by a thread that is about to wait on gil_cond, and a signal eaten by a  *)
(* waiter that timed out at the same moment is not lost.                   *)
(***************************************************************************)
FreeLockIsTaken ==
  (~gil_locked /\ \E t \in Threads : pc[t] \in Taking) ~> gil_locked

(***************************************************************************)
(* The wait for the forced switch ends.  (The acquisition of switch_mutex  *)
(* around it may starve under a scheduler that is only weakly fair.)       *)
(***************************************************************************)
SwitchWaitEnds ==
  \A t \in Threads : (pc[t] = "switch_wait") ~> (pc[t] # "switch_wait")
=============================================================================
