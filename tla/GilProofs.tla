---------------------------- MODULE GilProofs ----------------------------
(***************************************************************************)
(* Proofs about module Gil, for any set of threads and any width of the    *)
(* switch counter.  LockInv is inductive by itself, also when condition    *)
(* waits return spuriously; SwitchInv, which says how a forced switch      *)
(* proceeds, is inductive relative to LockInv when they do not.            *)
(***************************************************************************)
EXTENDS Gil, TLAPS

\* Who owns the two mutexes follows from where the threads are.
MutexOwners ==
  \A t \in Threads : /\ gil_mutex = t <=> pc[t] \in {"take_switch", "take_reset"}
                     /\ switch_mutex = t <=> pc[t] = "drop_reset"

\* The thread that passed the test of gil_locked still finds it free when it
\* gets switch_mutex.
FreeAtSwitch ==
  \A t \in Threads : pc[t] = "take_switch" => ~gil_locked

\* The holder, and a thread about to wait for a switch, is the last holder.
LastHolder ==
  \A t \in Threads : pc[t] \in Holding \cup {"drop_reset"} => gil_last_holder = t

\* _PyThreadState_Current is NULL unless its thread runs.
CurrentRuns == current # NoThread => pc[current] = "run"

LockInv ==
  /\ TypeOK
  /\ MutexOwners
  /\ MutualExclusion
  /\ FreeAtSwitch
  /\ LastHolder
  /\ CurrentIsRunner
  /\ CurrentRuns
  /\ RestoredThreadsExit

\* Threads that come out of the wait for gil_cond will go through
\* TakeOwn, which changes gil_last_holder and signals switch_cond.
Contending == {"take_wait", "take_relock", "take_switch"}

\* A drop request stands only while some thread is inside take_gil.
RequestHasContender ==
  gil_drop_request =>
    \E u \in Threads : pc[u] \in Contending \cup {"take_reset"}

\* A thread on its way into the wait leaves a contender behind.
SwitchHasContender ==
  \A t \in Threads :
     pc[t] \in {"drop_switch", "drop_reset", "switch_wait"} /\ gil_last_holder = t
       => \E u \in Threads \ {t} : pc[u] \in Contending

\* Where a thread that yielded on request can be while it owes a switch.
OwedSwitch ==
  \A t \in Threads :
     /\ pc[t] \in {"unborn", "outside", "run"} => after[t] = "outside"
     /\ pc[t] = "drop_mutex" /\ after[t] = "take_mutex" => gil_drop_request
     /\ pc[t] = "drop_check" /\ OwesSwitch(t) => gil_drop_request
     /\ pc[t] = "switch_wait" => gil_last_holder = t
     /\ pc[t] \in Taking \cup {"switch_relock"} => ~OwesSwitch(t)

SwitchInv ==
  /\ RequestHasContender
  /\ SwitchHasContender
  /\ OwedSwitch

IInv == LockInv /\ SwitchInv

-----------------------------------------------------------------------------
(* Type correctness *)

\* The increment of an unsigned counter stays in its range.
LEMMA IncrementInRange ==
  ASSUME NEW n \in 0 .. SwitchMod - 1
  PROVE  Increment(n) \in 0 .. SwitchMod - 1
BY GilAssumption DEF Increment

\* Every step keeps every variable in its type.
LEMMA TypeStep == TypeOK /\ [SpuriousNext]_vars => TypeOK'
<1> SUFFICES ASSUME TypeOK, [SpuriousNext]_vars PROVE TypeOK'
  OBVIOUS
<1> USE GilAssumption DEF TypeOK, Goals, lockVars, localVars, PCs, Taking,
     Holding, Dropping, Resting
<1>0. 0 \in 0 .. SwitchMod - 1
  OBVIOUS
<1>1. ASSUME NEW t \in Threads, TakeMutex(t) PROVE TypeOK'
  <2>1. CASE gil_locked /\ WaitForGil(t)
    BY <1>1, <2>1 DEF TakeMutex, WaitForGil, Goto
  <2>2. CASE ~gil_locked /\ GilIsFree(t)
    BY <1>0, <1>1, <2>2 DEF TakeMutex, GilIsFree, Goto
  <2> QED BY <1>1, <2>1, <2>2 DEF TakeMutex
<1>2. ASSUME NEW t \in Threads, TimeOut(t) PROVE TypeOK'
  BY <1>2 DEF TimeOut, Goto
<1>3. ASSUME NEW t \in Threads, TakeRelock(t) PROVE TypeOK'
  <2>1. CASE gil_locked /\ WaitForGil(t)
    BY <1>3, <2>1 DEF TakeRelock, AsksForDrop, WaitForGil, Goto
  <2>2. CASE ~gil_locked /\ GilIsFree(t)
    BY <1>0, <1>3, <2>2 DEF TakeRelock, AsksForDrop, GilIsFree, Goto
  <2> QED BY <1>3, <2>1, <2>2 DEF TakeRelock
<1>4. ASSUME NEW t \in Threads, TakeOwn(t) PROVE TypeOK'
  BY <1>4, IncrementInRange DEF TakeOwn, SignalSwitch
<1>5. ASSUME NEW t \in Threads, TakeReset(t) PROVE TypeOK'
  BY <1>5 DEF TakeReset, MustExit, Goto
<1>6. ASSUME NEW t \in Threads, DropMutex(t) PROVE TypeOK'
  BY <1>6 DEF DropMutex, SignalGil
<1>7. ASSUME NEW t \in Threads, DropCheck(t) PROVE TypeOK'
  BY <1>7 DEF DropCheck, Goto
<1>8. ASSUME NEW t \in Threads, DropSwitch(t) PROVE TypeOK'
  BY <1>8 DEF DropSwitch, Goto
<1>9. ASSUME NEW t \in Threads, DropReset(t) PROVE TypeOK'
  BY <1>9 DEF DropReset, Goto
<1>10. ASSUME NEW t \in Threads, SwitchRelock(t) PROVE TypeOK'
  BY <1>10 DEF SwitchRelock, Goto
<1>11. ASSUME NEW t \in Threads, EvalYield(t) PROVE TypeOK'
  BY <1>11 DEF EvalYield, BeginDrop, Goto
<1>12. ASSUME NEW t \in Threads, SaveThread(t) PROVE TypeOK'
  BY <1>12 DEF SaveThread, BeginDrop, Goto
<1>13. ASSUME NEW t \in Threads, RestoreThread(t) PROVE TypeOK'
  BY <1>13 DEF RestoreThread, Goto
<1>14. ASSUME NEW t \in Threads, DeleteCurrent(t) PROVE TypeOK'
  BY <1>14 DEF DeleteCurrent, SignalGil
<1>15. ASSUME NEW t \in Threads, SpuriousWakeup(t) PROVE TypeOK'
  BY <1>15 DEF SpuriousWakeup, Goto
<1>16. ASSUME NEW h \in Threads, NEW t \in Threads, StartThread(h, t)
       PROVE  TypeOK'
  BY <1>16 DEF StartThread, Goto
<1>17. CASE Finalize
  BY <1>17 DEF Finalize
<1>18. CASE UNCHANGED vars
  BY <1>18 DEF vars
<1> QED BY <1>1, <1>2, <1>3, <1>4, <1>5, <1>6, <1>7, <1>8, <1>9, <1>10, <1>11,
     <1>12, <1>13, <1>14, <1>15, <1>16, <1>17, <1>18 DEF SpuriousNext, Next, Step,
     Program

-----------------------------------------------------------------------------
(* The lock *)

\* Initially the main thread holds the lock and runs.
LEMMA LockInit == Init => TypeOK /\ LockInv
<1> SUFFICES ASSUME Init PROVE TypeOK /\ LockInv
  OBVIOUS
<1> USE GilAssumption DEF Init
<1>1. TypeOK
  <2>1. 0 \in 0 .. SwitchMod - 1 /\ 1 \in 0 .. SwitchMod - 1
    OBVIOUS
  <2>2. pc \in [Threads -> PCs]
    BY DEF PCs, Holding, Resting
  <2> QED BY <2>1, <2>2 DEF TypeOK, Goals
<1>2. MutexOwners /\ FreeAtSwitch /\ LastHolder
  BY DEF MutexOwners, FreeAtSwitch, LastHolder, Holding
<1>3. MutualExclusion
  BY DEF MutualExclusion, Holds, Holding
<1>4. CurrentIsRunner /\ CurrentRuns /\ RestoredThreadsExit
  BY DEF CurrentIsRunner, CurrentRuns, RestoredThreadsExit
<1> QED BY <1>1, <1>2, <1>3, <1>4 DEF LockInv

\* LockInv is inductive.  The step to look at is TakeOwn: MutexOwners and
\* FreeAtSwitch say that no other thread passed the test of gil_locked
\* meanwhile.
LEMMA LockStep == LockInv /\ TypeOK' /\ [SpuriousNext]_vars => LockInv'
<1> SUFFICES ASSUME LockInv, TypeOK', [SpuriousNext]_vars PROVE LockInv'
  OBVIOUS
<1> USE GilAssumption DEF TypeOK, LockInv, Holds, MutexOwners,
     MutualExclusion, FreeAtSwitch, LastHolder, CurrentIsRunner, CurrentRuns,
     RestoredThreadsExit, Goals, lockVars, localVars, PCs, Taking, Holding,
     Dropping, Resting
<1>1. ASSUME NEW t \in Threads, TakeMutex(t) PROVE LockInv'
  BY <1>1 DEF TakeMutex, WaitForGil, GilIsFree, Goto
<1>2. ASSUME NEW t \in Threads, TimeOut(t) PROVE LockInv'
  BY <1>2 DEF TimeOut, Goto
<1>3. ASSUME NEW t \in Threads, TakeRelock(t) PROVE LockInv'
  BY <1>3 DEF TakeRelock, WaitForGil, GilIsFree, AsksForDrop, Goto
<1>4. ASSUME NEW t \in Threads, TakeOwn(t) PROVE LockInv'
  BY <1>4 DEF TakeOwn, SignalSwitch
<1>5. ASSUME NEW t \in Threads, TakeReset(t) PROVE LockInv'
  BY <1>5 DEF TakeReset, MustExit, Goto
<1>6. ASSUME NEW t \in Threads, DropMutex(t) PROVE LockInv'
  BY <1>6 DEF DropMutex, SignalGil
<1>7. ASSUME NEW t \in Threads, DropCheck(t) PROVE LockInv'
  BY <1>7 DEF DropCheck, Goto
<1>8. ASSUME NEW t \in Threads, DropSwitch(t) PROVE LockInv'
  BY <1>8 DEF DropSwitch, Goto
<1>9. ASSUME NEW t \in Threads, DropReset(t) PROVE LockInv'
  BY <1>9 DEF DropReset, Goto
<1>10. ASSUME NEW t \in Threads, SwitchRelock(t) PROVE LockInv'
  BY <1>10 DEF SwitchRelock, Goto
<1>11. ASSUME NEW t \in Threads, EvalYield(t) PROVE LockInv'
  BY <1>11 DEF EvalYield, BeginDrop, Goto
<1>12. ASSUME NEW t \in Threads, SaveThread(t) PROVE LockInv'
  BY <1>12 DEF SaveThread, BeginDrop, Goto
<1>13. ASSUME NEW t \in Threads, RestoreThread(t) PROVE LockInv'
  BY <1>13 DEF RestoreThread, Goto
<1>14. ASSUME NEW t \in Threads, DeleteCurrent(t) PROVE LockInv'
  BY <1>14 DEF DeleteCurrent, SignalGil
<1>15. ASSUME NEW t \in Threads, SpuriousWakeup(t) PROVE LockInv'
  BY <1>15 DEF SpuriousWakeup, Goto
<1>16. ASSUME NEW h \in Threads, NEW t \in Threads, StartThread(h, t)
       PROVE  LockInv'
  BY <1>16 DEF StartThread, Goto
<1>17. CASE Finalize
  BY <1>17 DEF Finalize
<1>18. CASE UNCHANGED vars
  BY <1>18 DEF vars
<1> QED BY <1>1, <1>2, <1>3, <1>4, <1>5, <1>6, <1>7, <1>8, <1>9, <1>10, <1>11,
     <1>12, <1>13, <1>14, <1>15, <1>16, <1>17, <1>18 DEF SpuriousNext, Next, Step,
     Program

\* The type invariant and LockInv, in every reachable state, also when waits
\* return spuriously.
LEMMA SpuriousLockInvariant == SpuriousSpec => [](TypeOK /\ LockInv)
<1>1. Init => TypeOK /\ LockInv
  BY LockInit
<1> QED BY <1>1, TypeStep, LockStep, PTL DEF SpuriousSpec

\* Spurious wakeups only add behaviours.
LEMMA WithoutSpurious == Spec => SpuriousSpec
<1>1. [Next]_vars => [SpuriousNext]_vars
  BY DEF SpuriousNext
<1> QED BY <1>1, PTL DEF Spec, SpuriousSpec

\* The type invariant, in every reachable state.
THEOREM TypeCorrect == Spec => []TypeOK
BY SpuriousLockInvariant, WithoutSpurious, PTL

\* LockInv holds in every reachable state.
LEMMA LockInvariant == Spec => []LockInv
BY SpuriousLockInvariant, WithoutSpurious, PTL

\* Nothing of the lock itself depends on why a wait on gil_cond or
\* switch_cond returns: at most one thread holds the GIL and it is the current
\* one, however many threads there are and however often waits end early.
THEOREM ExclusionDespiteSpurious ==
  SpuriousSpec => [](MutualExclusion /\ CurrentIsRunner)
<1>1. LockInv => MutualExclusion /\ CurrentIsRunner
  BY DEF LockInv
<1> QED BY <1>1, SpuriousLockInvariant, PTL

\* At most one thread holds the GIL and gil_locked tells whether one does:
\* take_gil and drop_gil exclude each other for any number of threads.
THEOREM Exclusion == Spec => []MutualExclusion
<1>1. LockInv => MutualExclusion
  BY DEF LockInv
<1> QED BY <1>1, LockInvariant, PTL

\* The thread-state checks that end in Py_FatalError never fire.
THEOREM CurrentThread == Spec => []CurrentIsRunner
<1>1. LockInv => CurrentIsRunner
  BY DEF LockInv
<1> QED BY <1>1, LockInvariant, PTL

\* A thread that comes back through PyEval_RestoreThread or the eval loop
\* after Py_Finalize began never runs again.
THEOREM FinalizeStopsRestored == Spec => []RestoredThreadsExit
<1>1. LockInv => RestoredThreadsExit
  BY DEF LockInv
<1> QED BY <1>1, LockInvariant, PTL

-----------------------------------------------------------------------------
(* The forced switch, when condition waits return only for a signal *)

\* Nobody owes a switch at first.
LEMMA SwitchInit == Init => SwitchInv
BY GilAssumption DEF Init, SwitchInv, RequestHasContender, SwitchHasContender,
     OwedSwitch, OwesSwitch, Taking

\* SwitchInv is inductive relative to LockInv.  A drop request is withdrawn
\* by the thread that takes the GIL, which thereby becomes the last holder,
\* or by a thread that goes to wait for the switch; both discharge whoever
\* relied on it.
LEMMA SwitchStep ==
  LockInv /\ SwitchInv /\ TypeOK' /\ [Next]_vars => SwitchInv'
<1> SUFFICES ASSUME LockInv, SwitchInv, TypeOK', [Next]_vars PROVE SwitchInv'
  OBVIOUS
<1> USE GilAssumption DEF TypeOK, LockInv, Holds, MutexOwners,
     MutualExclusion, FreeAtSwitch, LastHolder, CurrentIsRunner, CurrentRuns,
     RestoredThreadsExit, SwitchInv, RequestHasContender, SwitchHasContender,
     OwedSwitch, OwesSwitch, Contending, Goals, lockVars, localVars, PCs,
     Taking, Holding, Dropping, Resting
<1>1. ASSUME NEW t \in Threads, TakeMutex(t) PROVE SwitchInv'
  BY <1>1 DEF TakeMutex, WaitForGil, GilIsFree, Goto
<1>2. ASSUME NEW t \in Threads, TimeOut(t) PROVE SwitchInv'
  BY <1>2 DEF TimeOut, Goto
<1>3. ASSUME NEW t \in Threads, TakeRelock(t) PROVE SwitchInv'
  BY <1>3 DEF TakeRelock, WaitForGil, GilIsFree, AsksForDrop, Goto
<1>4. ASSUME NEW t \in Threads, TakeOwn(t) PROVE SwitchInv'
  BY <1>4 DEF TakeOwn, SignalSwitch, Increment
<1>5. ASSUME NEW t \in Threads, TakeReset(t) PROVE SwitchInv'
  BY <1>5 DEF TakeReset, MustExit, Goto
<1>6. ASSUME NEW t \in Threads, DropMutex(t) PROVE SwitchInv'
  BY <1>6 DEF DropMutex, SignalGil
<1>7. ASSUME NEW t \in Threads, DropCheck(t) PROVE SwitchInv'
  BY <1>7 DEF DropCheck, Goto
<1>8. ASSUME NEW t \in Threads, DropSwitch(t) PROVE SwitchInv'
  BY <1>8 DEF DropSwitch, Goto
<1>9. ASSUME NEW t \in Threads, DropReset(t) PROVE SwitchInv'
  BY <1>9 DEF DropReset, Goto
<1>10. ASSUME NEW t \in Threads, SwitchRelock(t) PROVE SwitchInv'
  BY <1>10 DEF SwitchRelock, Goto
<1>11. ASSUME NEW t \in Threads, EvalYield(t) PROVE SwitchInv'
  BY <1>11 DEF EvalYield, BeginDrop, Goto
<1>12. ASSUME NEW t \in Threads, SaveThread(t) PROVE SwitchInv'
  BY <1>12 DEF SaveThread, BeginDrop, Goto
<1>13. ASSUME NEW t \in Threads, RestoreThread(t) PROVE SwitchInv'
  BY <1>13 DEF RestoreThread, Goto
<1>14. ASSUME NEW t \in Threads, DeleteCurrent(t) PROVE SwitchInv'
  BY <1>14 DEF DeleteCurrent, SignalGil
<1>16. ASSUME NEW h \in Threads, NEW t \in Threads, StartThread(h, t)
       PROVE  SwitchInv'
  BY <1>16 DEF StartThread, Goto
<1>17. CASE Finalize
  BY <1>17 DEF Finalize
<1>18. CASE UNCHANGED vars
  BY <1>18 DEF vars
<1> QED BY <1>1, <1>2, <1>3, <1>4, <1>5, <1>6, <1>7, <1>8, <1>9, <1>10, <1>11,
     <1>12, <1>13, <1>14, <1>16, <1>17, <1>18 DEF Next, Step, Program

\* Both invariants hold in every reachable state.
LEMMA Invariant ==
  Spec => [](LockInv /\ SwitchInv)
<1>1. Init => SwitchInv
  BY SwitchInit
<1> QED BY <1>1, TypeCorrect, LockInvariant, SwitchStep, PTL DEF Spec

\* A thread that waits for the forced switch always leaves another thread
\* inside take_gil, which will end the wait.
THEOREM SwitchWaiterNotStranded ==
  Spec => []SwitchWaiterHasContender
<1>1. LockInv /\ SwitchInv => SwitchWaiterHasContender
  BY DEF SwitchInv, SwitchHasContender, OwedSwitch, SwitchWaiterHasContender,
       Contending, Taking
<1> QED BY <1>1, Invariant, PTL

\* A thread that yielded on request does not take the GIL before another
\* thread took it.
THEOREM YieldingSwitches ==
  Spec => YieldSwitches
<1>1. SwitchInv =>
        [\A t \in Threads : pc[t] = "take_switch" /\ pc'[t] = "take_reset"
                          => ~OwesSwitch(t)]_vars
  BY DEF SwitchInv, OwedSwitch, Taking
<1> QED BY <1>1, Invariant, PTL DEF YieldSwitches

-----------------------------------------------------------------------------
(* Refinement *)

\* The GIL implements the lock of module GilSpec: taking it is the section
\* under switch_mutex, giving it up the section under gil_mutex of drop_gil,
\* and every other step is invisible.
THEOREM Refinement ==
  Spec => AbstractSpec
<1> DEFINE held == {t \in Threads : Holds(t)}
           owes == {t \in Threads : OwesSwitch(t) /\ ~Holds(t)}
           Inv  == LockInv /\ SwitchInv
<1>1. Init => Abstract!Init
  <2> SUFFICES ASSUME Init PROVE Abstract!Init
    OBVIOUS
  <2> USE GilAssumption DEF Init, Holds, OwesSwitch, Holding
  <2>1. held = {Main}
    OBVIOUS
  <2>2. owes = {}
    OBVIOUS
  <2> QED BY <2>1, <2>2 DEF Abstract!Init
<1>2. ASSUME Inv, Inv', [Next]_vars
      PROVE  [Abstract!Next]_(Abstract!vars)
  <2> SUFFICES ASSUME held' # held \/ owes' # owes
               PROVE  Abstract!Next
    BY DEF Abstract!vars
  <2> USE <1>2, GilAssumption DEF TypeOK, LockInv, MutexOwners,
       MutualExclusion, FreeAtSwitch, LastHolder, SwitchInv, OwedSwitch,
       Holds, OwesSwitch, PCs, Taking, Holding, Dropping, Resting, Goals,
       lockVars, localVars
  <2>1. ASSUME NEW t \in Threads, TakeMutex(t) PROVE FALSE
    BY <2>1 DEF TakeMutex, WaitForGil, GilIsFree, Goto
  <2>2. ASSUME NEW t \in Threads, TimeOut(t) PROVE FALSE
    BY <2>2 DEF TimeOut, Goto
  <2>3. ASSUME NEW t \in Threads, TakeRelock(t) PROVE FALSE
    BY <2>3 DEF TakeRelock, WaitForGil, GilIsFree, Goto
  <2>4. ASSUME NEW t \in Threads, TakeOwn(t) PROVE Abstract!Next
    <3>1. held = {} /\ held' = {t}
      BY <2>4 DEF TakeOwn, SignalSwitch
    <3>2. t \notin owes /\ owes' = {}
      BY <2>4 DEF TakeOwn, SignalSwitch
    <3> QED BY <3>1, <3>2 DEF Abstract!Next, Abstract!Take
  <2>5. ASSUME NEW t \in Threads, TakeReset(t) PROVE FALSE
    BY <2>5 DEF TakeReset, Goto
  <2>6. ASSUME NEW t \in Threads, DropMutex(t) PROVE Abstract!Next
    <3>1. held = {t} /\ held' = {}
      BY <2>6 DEF DropMutex, SignalGil
    <3>2. owes' = IF after[t] = "take_mutex" THEN {t} ELSE {}
      BY <2>6 DEF DropMutex, SignalGil
    <3> QED BY <3>1, <3>2 DEF Abstract!Next, Abstract!Drop, Abstract!Yield
  <2>7. ASSUME NEW t \in Threads, DropCheck(t) PROVE FALSE
    BY <2>7 DEF DropCheck, Goto
  <2>8. ASSUME NEW t \in Threads, DropSwitch(t) PROVE FALSE
    BY <2>8 DEF DropSwitch, Goto
  <2>9. ASSUME NEW t \in Threads, DropReset(t) PROVE FALSE
    BY <2>9 DEF DropReset, Goto
  <2>10. ASSUME NEW t \in Threads, SwitchRelock(t) PROVE FALSE
    BY <2>10 DEF SwitchRelock, Goto
  <2>11. ASSUME NEW t \in Threads, EvalYield(t) PROVE FALSE
    BY <2>11 DEF EvalYield, BeginDrop, Goto
  <2>12. ASSUME NEW t \in Threads, SaveThread(t) PROVE FALSE
    BY <2>12 DEF SaveThread, BeginDrop, Goto
  <2>13. ASSUME NEW t \in Threads, RestoreThread(t) PROVE FALSE
    BY <2>13 DEF RestoreThread, Goto
  <2>14. ASSUME NEW t \in Threads, DeleteCurrent(t) PROVE Abstract!Next
    <3>1. held = {t} /\ held' = {}
      BY <2>14 DEF DeleteCurrent, SignalGil
    <3>2. owes' = {}
      BY <2>14 DEF DeleteCurrent, SignalGil
    <3> QED BY <3>1, <3>2 DEF Abstract!Next, Abstract!Drop
  <2>16. ASSUME NEW h \in Threads, NEW t \in Threads, StartThread(h, t)
        PROVE  FALSE
    BY <2>16 DEF StartThread, Goto
  <2>17. CASE Finalize
    BY <2>17 DEF Finalize
  <2>18. CASE UNCHANGED vars
    BY <2>18 DEF vars
  <2> QED BY <2>1, <2>2, <2>3, <2>4, <2>5, <2>6, <2>7, <2>8, <2>9, <2>10,
       <2>11, <2>12, <2>13, <2>14, <2>16, <2>17, <2>18 DEF Next, Step,
       Program
<1> QED BY <1>1, <1>2, Invariant, PTL DEF Spec, AbstractSpec, Abstract!Spec
=============================================================================
