------------------------ MODULE EvalBreakerProofs ------------------------
(***************************************************************************)
(* Proofs about module EvalBreaker, for any threads, any calls and any     *)
(* size of the ring.                                                       *)
(***************************************************************************)
EXTENDS EvalBreaker, TLAPS

\* The GIL is where the threads are, and only one thread at a time is the
\* last holder: the one that holds it, or that resets the drop request.
HolderInv ==
  \A t \in Threads : /\ pc[t] \in Holding <=> holder = t
                     /\ pc[t] \in Holding \cup {"drop_store"} => gil_last_holder = t

\* Only the main thread makes pending calls.
Making == {"lock", "make_store", "call"}
MakerIsMain == \A t \in Threads : pc[t] \in Making => t = Main

\* The loop of Py_MakePendingCalls has turns left while it runs, and keeps
\* others out.
TurnsLeft ==
  /\ pc[Main] \in Making \/ func # NoCall => made < NPENDINGCALLS
  /\ pc[Main] \in Making => busy

\* A call in the ring is announced also while the lock is held.
RingIsFlagged == pendingfirst # pendinglast => pendingcalls_to_do

\* The call that runs is the one that was popped last, and busy is set; none
\* runs while the loop goes on.
RunningInv ==
  \A c \in Calls : status[c] = "running" => /\ func = c
                                            /\ busy
                                            /\ pc[Main] \notin Making

\* With the GIL, but for the beginning of it, the exception of a thread is
\* signalled; the signal reaches eval_breaker, and no recomputation that is
\* under way has missed it.
Signalled == Holding \ InTakeGil
Storing == {"took_store", "drop_store", "exc_store", "make_store"}

ExcInv ==
  /\ pending_async_exc => eval_breaker
  /\ \A t \in Threads :
        /\ pc[t] \in Signalled /\ async_exc[t] => pending_async_exc
        /\ pc[t] \in Storing /\ pending_async_exc => loaded[t]

IInv ==
  /\ TypeOK
  /\ HolderInv
  /\ MakerIsMain
  /\ TurnsLeft
  /\ RingIsFifo
  /\ RingIsFlagged
  /\ RunningInv
  /\ ExcInv

-----------------------------------------------------------------------------
(* The ring's arithmetic *)

\* Advance goes around.
LEMMA AdvanceWraps ==
  ASSUME NEW x \in 0 .. NPENDINGCALLS - 1
  PROVE  /\ Advance(x) = IF x = NPENDINGCALLS - 1 THEN 0 ELSE x + 1
         /\ Advance(x) \in 0 .. NPENDINGCALLS - 1
<1>1. x + 1 \in Int /\ 0 <= x + 1 /\ x + 1 < 2 * NPENDINGCALLS /\ NPENDINGCALLS \in Nat \ {0}
  BY BreakerAssumption
<1>2. (x + 1) % NPENDINGCALLS = IF x + 1 < NPENDINGCALLS THEN x + 1 ELSE x + 1 - NPENDINGCALLS
  BY <1>1
<1> QED BY <1>2, BreakerAssumption DEF Advance

\* What RingLength and the slots of RingIsFifo are, by cases instead of
\* remainders.
Distance(f, l) == IF f <= l THEN l - f ELSE l - f + NPENDINGCALLS
Slot(f, i) == IF f + i - 1 < NPENDINGCALLS THEN f + i - 1 ELSE f + i - 1 - NPENDINGCALLS

LEMMA RingWraps ==
  ASSUME NEW f \in 0 .. NPENDINGCALLS - 1, NEW l \in 0 .. NPENDINGCALLS - 1
  PROVE  /\ (l - f + NPENDINGCALLS) % NPENDINGCALLS = Distance(f, l)
         /\ Distance(f, l) \in 0 .. NPENDINGCALLS - 1
         /\ \A i \in 1 .. Distance(f, l) :
               /\ (f + i - 1) % NPENDINGCALLS = Slot(f, i)
               /\ Slot(f, i) \in 0 .. NPENDINGCALLS - 1
               /\ Slot(f, i) # l
<1>1. /\ l - f + NPENDINGCALLS \in Int /\ 0 <= l - f + NPENDINGCALLS
      /\ l - f + NPENDINGCALLS < 2 * NPENDINGCALLS /\ NPENDINGCALLS \in Nat \ {0}
  BY BreakerAssumption
<1>2. (l - f + NPENDINGCALLS) % NPENDINGCALLS
        = IF l - f + NPENDINGCALLS < NPENDINGCALLS THEN l - f + NPENDINGCALLS
          ELSE l - f + NPENDINGCALLS - NPENDINGCALLS
  BY <1>1
<1>3. (l - f + NPENDINGCALLS) % NPENDINGCALLS = Distance(f, l)
  BY <1>2, BreakerAssumption DEF Distance
<1>4. Distance(f, l) \in 0 .. NPENDINGCALLS - 1
  BY BreakerAssumption DEF Distance
<1>5. ASSUME NEW i \in 1 .. Distance(f, l)
      PROVE  /\ (f + i - 1) % NPENDINGCALLS = Slot(f, i)
             /\ Slot(f, i) \in 0 .. NPENDINGCALLS - 1
             /\ Slot(f, i) # l
  <2>1. /\ f + i - 1 \in Int /\ 0 <= f + i - 1
        /\ f + i - 1 < 2 * NPENDINGCALLS /\ NPENDINGCALLS \in Nat \ {0}
    BY <1>4, BreakerAssumption
  <2>2. (f + i - 1) % NPENDINGCALLS = Slot(f, i)
    BY <2>1 DEF Slot
  <2>3. Slot(f, i) \in 0 .. NPENDINGCALLS - 1 /\ Slot(f, i) # l
    BY <1>4, BreakerAssumption DEF Slot, Distance
  <2> QED BY <2>2, <2>3
<1> QED BY <1>3, <1>4, <1>5

-----------------------------------------------------------------------------
(* What few actions change *)

\* Only adding a call and popping one change the ring.
LEMMA RingChanges ==
  [Next]_vars => MakeLock \/ (\E c \in Calls : AddLock(c)) \/ UNCHANGED ring
BY DEF Next, Step, Program, Add, StoreBreaker, TakeGil, TookReset, TookSignal,
   DropReturns, DropReset, DropGil, Block, Restore, Break, Pending, MakeCall,
   CallReturns, Request, AsyncExc, SetAsyncExc, SetDropRequest, AddGivesUp,
   AddUnlock, ring, vars

-----------------------------------------------------------------------------
(* Type correctness *)

\* Every step keeps every variable in its type.
LEMMA TypeStep == IInv /\ [Next]_vars => TypeOK'
<1> SUFFICES ASSUME IInv, [Next]_vars PROVE TypeOK'
  OBVIOUS
<1> USE BreakerAssumption DEF IInv, TypeOK, Goto, Outside, Dropped, Holding, InTakeGil
<1>1. ASSUME NEW t \in Threads, StoreBreaker(t) PROVE TypeOK'
  BY <1>1 DEF StoreBreaker, flags, ring, making, gil
<1>2. ASSUME NEW t \in Threads, TakeGil(t) PROVE TypeOK'
  BY <1>2 DEF TakeGil, flags, ring, making, gil
<1>3. ASSUME NEW t \in Threads, TookReset(t) PROVE TypeOK'
  BY <1>3 DEF TookReset, Load, flags, ring, making, gil
<1>4. ASSUME NEW t \in Threads, TookSignal(t) PROVE TypeOK'
  BY <1>4 DEF TookSignal, flags, ring, making, gil
<1>5. ASSUME NEW t \in Threads, SetDropRequest(t) PROVE TypeOK'
  BY <1>5 DEF SetDropRequest, flags, ring, making, gil
<1>6. ASSUME NEW t \in Threads, DropReturns(t) PROVE TypeOK'
  BY <1>6 DEF DropReturns, AfterDrop, flags, ring, making, gil
<1>7. ASSUME NEW t \in Threads, DropReset(t) PROVE TypeOK'
  BY <1>7 DEF DropReset, Load, flags, ring, making, gil
<1>8. ASSUME NEW t \in Threads, Block(t) \/ Restore(t) PROVE TypeOK'
  BY <1>8 DEF Block, Restore, DropGil, flags, ring, making, gil
<1>9. ASSUME NEW t \in Threads, Break(t) PROVE TypeOK'
  BY <1>9 DEF Break, flags, ring, making, gil
<1>10. ASSUME NEW t \in Threads, Pending(t) PROVE TypeOK'
  <2>1. made' = made \/ made' = 0
    BY <1>10 DEF Pending
  <2>2. made' \in 0 .. NPENDINGCALLS
    BY <2>1
  <2>3. busy' = busy \/ busy' = TRUE
    BY <1>10 DEF Pending
  <2>4. pc' \in [Threads -> Outside \cup Dropped \cup Holding]
    BY <1>10 DEF Pending
  <2> QED BY <1>10, <2>2, <2>3, <2>4 DEF Pending, flags, ring, gil
<1>11. CASE MakeLock
  <2>1. pendinglast' \in 0 .. NPENDINGCALLS - 1 /\ accepted' \in Seq(Calls)
    BY <1>11 DEF MakeLock
  <2>2. /\ pendingfirst' \in 0 .. NPENDINGCALLS - 1
        /\ pendingcalls' \in [0 .. NPENDINGCALLS - 1 -> Calls \cup {NoCall}]
        /\ func' \in Calls \cup {NoCall}
    BY <1>11, AdvanceWraps DEF MakeLock, Pop
  <2>3. served' \in 0 .. Len(accepted')
    <3>1. CASE pendingfirst = pendinglast
      BY <1>11, <3>1 DEF MakeLock, Pop
    <3>2. CASE pendingfirst # pendinglast
      <4>1. Distance(pendingfirst, pendinglast) > 0
        BY <3>2 DEF Distance
      <4>2. Len(accepted) - served > 0
        BY <4>1, RingWraps DEF RingIsFifo, RingLength
      <4>3. served' = served + 1 /\ accepted' = accepted
        BY <1>11, <3>2 DEF MakeLock, Pop
      <4> QED BY <4>2, <4>3
    <3> QED BY <3>1, <3>2
  <2>4. MoreToDo \in BOOLEAN
    BY DEF MoreToDo
  <2> QED BY <1>11, <2>1, <2>2, <2>3, <2>4 DEF MakeLock, Load, gil
<1>12. CASE MakeCall
  BY <1>12, Zenon DEF MakeCall, flags, ring, gil, Statuses
<1>13. ASSUME NEW ok \in BOOLEAN, CallReturns(ok) PROVE TypeOK'
  <2>1. func \in Calls /\ made < NPENDINGCALLS
    BY <1>13 DEF CallReturns, TurnsLeft
  <2>2. made' \in 0 .. NPENDINGCALLS /\ status' \in [Calls -> Statuses]
    BY <1>13, <2>1 DEF CallReturns, Statuses
  <2>3. busy' \in BOOLEAN
    BY <1>13 DEF CallReturns
  <2> QED BY <1>13, <2>2, <2>3 DEF CallReturns, flags, ring, gil
<1>14. ASSUME NEW t \in Threads, Request(t) PROVE TypeOK'
  BY <1>14 DEF Request, DropGil, flags, ring, making, gil
<1>15. ASSUME NEW t \in Threads, AsyncExc(t) PROVE TypeOK'
  BY <1>15 DEF AsyncExc, Load, flags, ring, making, gil
<1>16. ASSUME NEW h \in Threads, NEW t \in Targets, NEW exc \in BOOLEAN, SetAsyncExc(h, t, exc)
       PROVE  TypeOK'
  BY <1>16 DEF SetAsyncExc, ring, making, gil
<1>17. ASSUME NEW c \in Calls, AddLock(c) PROVE TypeOK'
  <2>1. CASE RingIsFull
    BY <1>17, <2>1 DEF AddLock, Statuses, making, gil
  <2>2. CASE ~RingIsFull
    <3>1. status' \in [Calls -> Statuses]
      BY <1>17, <2>2 DEF AddLock, Statuses
    <3>2. /\ pendingcalls' \in [0 .. NPENDINGCALLS - 1 -> Calls \cup {NoCall}]
          /\ pendinglast' \in 0 .. NPENDINGCALLS - 1
      BY <1>17, <2>2, AdvanceWraps DEF AddLock
    <3>3. accepted' = Append(accepted, c) /\ served' = served
      BY <1>17, <2>2 DEF AddLock
    <3>4. accepted' \in Seq(Calls) /\ Len(accepted') = Len(accepted) + 1
      BY <3>3
    <3>5. served' \in 0 .. Len(accepted')
      BY <3>3, <3>4
    <3> QED BY <1>17, <3>1, <3>2, <3>4, <3>5 DEF AddLock, making, gil
  <2> QED BY <2>1, <2>2
<1>18. ASSUME NEW c \in Calls, AddGivesUp(c) PROVE TypeOK'
  BY <1>18 DEF AddGivesUp, Statuses, flags, ring, making, gil
<1>19. CASE AddUnlock
  BY <1>19 DEF AddUnlock, flags, ring, making, gil
<1>20. CASE UNCHANGED vars
  BY <1>20 DEF vars, flags, ring, making, gil
<1> QED BY <1>1, <1>2, <1>3, <1>4, <1>5, <1>6, <1>7, <1>8, <1>9, <1>10, <1>11, <1>12, <1>13,
     <1>14, <1>15, <1>16, <1>17, <1>18, <1>19, <1>20 DEF Next, Step, Program, Add

-----------------------------------------------------------------------------
(* The GIL *)

\* A thread takes the GIL when nobody has it and nobody resets the request; a
\* thread resets the request only as long as it is the last holder.
LEMMA HolderStep == IInv /\ [Next]_vars => HolderInv'
<1> SUFFICES ASSUME IInv, [Next]_vars PROVE HolderInv'
  OBVIOUS
<1>0. /\ TypeOK /\ HolderInv /\ MakerIsMain
      /\ Main \in Threads /\ NoThread \notin Threads
  BY BreakerAssumption DEF IInv
<1> USE <1>0 DEF TypeOK, HolderInv, Goto, Outside, Dropped, Holding, InTakeGil
<1>1. ASSUME NEW t \in Threads, StoreBreaker(t) PROVE HolderInv'
  BY <1>1 DEF StoreBreaker, gil
<1>2. ASSUME NEW t \in Threads, TakeGil(t) PROVE HolderInv'
  BY <1>2 DEF TakeGil
<1>3. ASSUME NEW t \in Threads, TookReset(t) PROVE HolderInv'
  BY <1>3 DEF TookReset, gil
<1>4. ASSUME NEW t \in Threads, TookSignal(t) PROVE HolderInv'
  BY <1>4 DEF TookSignal, gil
<1>5. ASSUME NEW t \in Threads, DropReturns(t) PROVE HolderInv'
  BY <1>5 DEF DropReturns, AfterDrop, gil
<1>6. ASSUME NEW t \in Threads, DropReset(t) PROVE HolderInv'
  BY <1>6 DEF DropReset, gil
<1>7. ASSUME NEW t \in Threads, Block(t) PROVE HolderInv'
  BY <1>7 DEF Block, DropGil
<1>8. ASSUME NEW t \in Threads, Restore(t) PROVE HolderInv'
  BY <1>8 DEF Restore, gil
<1>9. ASSUME NEW t \in Threads, Break(t) PROVE HolderInv'
  BY <1>9 DEF Break, gil
<1>10. ASSUME NEW t \in Threads, Pending(t) PROVE HolderInv'
  BY <1>10 DEF Pending, gil
<1>11. ASSUME NEW t \in Threads, Request(t) PROVE HolderInv'
  BY <1>11 DEF Request, DropGil, gil
<1>12. ASSUME NEW t \in Threads, AsyncExc(t) PROVE HolderInv'
  BY <1>12 DEF AsyncExc, gil
<1>13. CASE MakeLock
  BY <1>13 DEF MakeLock, gil
<1>14. CASE MakeCall
  BY <1>14 DEF MakeCall, gil
<1>15. ASSUME NEW ok \in BOOLEAN, CallReturns(ok) PROVE HolderInv'
  BY <1>15 DEF CallReturns, gil
<1>16. CASE UNCHANGED <<pc, gil>>
  BY <1>16 DEF gil
<1> QED BY <1>1, <1>2, <1>3, <1>4, <1>5, <1>6, <1>7, <1>8, <1>9, <1>10, <1>11, <1>12, <1>13, <1>14, <1>15, <1>16 DEF Next, Step, Program, Add,
     SetDropRequest, SetAsyncExc, AddLock, AddUnlock, AddGivesUp, vars

-----------------------------------------------------------------------------
(* Making pending calls *)

\* Only the main thread enters the loop of Py_MakePendingCalls, and it goes on
\* with it only if there are turns left.
LEMMA MakerStep == IInv /\ [Next]_vars => (MakerIsMain /\ TurnsLeft)'
<1> SUFFICES ASSUME IInv, [Next]_vars PROVE (MakerIsMain /\ TurnsLeft)'
  OBVIOUS
<1>0. /\ TypeOK /\ MakerIsMain /\ TurnsLeft
      /\ Main \in Threads /\ NPENDINGCALLS \in Nat \ {0, 1}
  BY BreakerAssumption DEF IInv
<1> USE <1>0 DEF TypeOK, MakerIsMain, TurnsLeft, Making, Goto, Outside, Dropped, Holding, InTakeGil
<1>1. ASSUME NEW t \in Threads, StoreBreaker(t) PROVE (MakerIsMain /\ TurnsLeft)'
  BY <1>1 DEF StoreBreaker, making
<1>2. ASSUME NEW t \in Threads, TakeGil(t) PROVE (MakerIsMain /\ TurnsLeft)'
  BY <1>2 DEF TakeGil, making
<1>3. ASSUME NEW t \in Threads, TookReset(t) PROVE (MakerIsMain /\ TurnsLeft)'
  BY <1>3 DEF TookReset, making
<1>4. ASSUME NEW t \in Threads, TookSignal(t) PROVE (MakerIsMain /\ TurnsLeft)'
  BY <1>4 DEF TookSignal, making
<1>5. ASSUME NEW t \in Threads, DropReturns(t) PROVE (MakerIsMain /\ TurnsLeft)'
  BY <1>5 DEF DropReturns, AfterDrop, making
<1>6. ASSUME NEW t \in Threads, DropReset(t) PROVE (MakerIsMain /\ TurnsLeft)'
  BY <1>6 DEF DropReset, making
<1>7. ASSUME NEW t \in Threads, Block(t) PROVE (MakerIsMain /\ TurnsLeft)'
  BY <1>7 DEF Block, DropGil, making
<1>8. ASSUME NEW t \in Threads, Restore(t) PROVE (MakerIsMain /\ TurnsLeft)'
  BY <1>8 DEF Restore, making
<1>9. ASSUME NEW t \in Threads, Break(t) PROVE (MakerIsMain /\ TurnsLeft)'
  BY <1>9 DEF Break, making
<1>10. ASSUME NEW t \in Threads, Pending(t) PROVE (MakerIsMain /\ TurnsLeft)'
  BY <1>10 DEF Pending, MayMakeCalls
<1>11. ASSUME NEW t \in Threads, Request(t) PROVE (MakerIsMain /\ TurnsLeft)'
  BY <1>11 DEF Request, DropGil, making
<1>12. ASSUME NEW t \in Threads, AsyncExc(t) PROVE (MakerIsMain /\ TurnsLeft)'
  BY <1>12 DEF AsyncExc, making
<1>13. CASE MakeLock
  BY <1>13 DEF MakeLock, gil
<1>14. CASE MakeCall
  BY <1>14 DEF MakeCall, gil
<1>15. ASSUME NEW ok \in BOOLEAN, CallReturns(ok) PROVE (MakerIsMain /\ TurnsLeft)'
  BY <1>15 DEF CallReturns, gil
<1>16. CASE UNCHANGED <<pc, making>>
  BY <1>16 DEF making
<1> QED BY <1>1, <1>2, <1>3, <1>4, <1>5, <1>6, <1>7, <1>8, <1>9, <1>10, <1>11, <1>12, <1>13, <1>14, <1>15, <1>16 DEF Next, Step, Program, Add,
     SetDropRequest, SetAsyncExc, AddLock, AddUnlock, AddGivesUp, vars

\* A call starts when none is running, and the flags of the loop stay as they
\* are until it returns.
LEMMA RunningStep == IInv /\ [Next]_vars => RunningInv'
<1> SUFFICES ASSUME IInv, [Next]_vars, NEW c \in Calls, status'[c] = "running"
             PROVE  func' = c /\ busy' /\ pc'[Main] \notin Making
  BY DEF RunningInv
<1>0. /\ TypeOK /\ MakerIsMain /\ Main \in Threads /\ NoCall \notin Calls
      /\ status[c] = "running" => func = c /\ busy /\ pc[Main] \notin Making
      /\ pc[Main] \in Making => busy
  BY BreakerAssumption DEF IInv, RunningInv, TurnsLeft
<1> DEFINE Goal == func' = c /\ busy' /\ pc'[Main] \notin Making
<1> USE <1>0 DEF TypeOK, MakerIsMain, Making, Goto, Outside, Dropped, Holding, InTakeGil
<1>1. ASSUME NEW t \in Threads, StoreBreaker(t) PROVE Goal
  BY <1>1 DEF StoreBreaker, making
<1>2. ASSUME NEW t \in Threads, TakeGil(t) PROVE Goal
  BY <1>2 DEF TakeGil, making
<1>3. ASSUME NEW t \in Threads, TookReset(t) PROVE Goal
  BY <1>3 DEF TookReset, making
<1>4. ASSUME NEW t \in Threads, TookSignal(t) PROVE Goal
  BY <1>4 DEF TookSignal, making
<1>5. ASSUME NEW t \in Threads, DropReturns(t) PROVE Goal
  BY <1>5 DEF DropReturns, AfterDrop, making
<1>6. ASSUME NEW t \in Threads, DropReset(t) PROVE Goal
  BY <1>6 DEF DropReset, making
<1>7. ASSUME NEW t \in Threads, Block(t) PROVE Goal
  BY <1>7 DEF Block, DropGil, making
<1>8. ASSUME NEW t \in Threads, Restore(t) PROVE Goal
  BY <1>8 DEF Restore, making
<1>9. ASSUME NEW t \in Threads, Break(t) PROVE Goal
  BY <1>9 DEF Break, making
<1>10. ASSUME NEW t \in Threads, Pending(t) PROVE Goal
  BY <1>10 DEF Pending, MayMakeCalls, making
<1>11. ASSUME NEW t \in Threads, Request(t) PROVE Goal
  BY <1>11 DEF Request, DropGil, making
<1>12. ASSUME NEW t \in Threads, AsyncExc(t) PROVE Goal
  BY <1>12 DEF AsyncExc, making
<1>13. CASE MakeLock
  BY <1>13 DEF MakeLock
<1>14. CASE MakeCall
  BY <1>14 DEF MakeCall
<1>15. ASSUME NEW ok \in BOOLEAN, CallReturns(ok) PROVE Goal
  BY <1>15 DEF CallReturns
<1>16. ASSUME NEW d \in Calls, AddLock(d) \/ AddGivesUp(d) PROVE Goal
  BY <1>16 DEF AddLock, AddGivesUp, making
<1>17. CASE UNCHANGED <<pc, making, status>>
  BY <1>17 DEF making
<1> QED BY <1>1, <1>2, <1>3, <1>4, <1>5, <1>6, <1>7, <1>8, <1>9, <1>10, <1>11, <1>12, <1>13, <1>14, <1>15, <1>16, <1>17 DEF Next, Step, Program, Add,
     SetDropRequest, SetAsyncExc, AddUnlock, vars

-----------------------------------------------------------------------------
(* The ring *)

\* The ring by cases instead of remainders.
RingByCases ==
  /\ Distance(pendingfirst, pendinglast) = Len(accepted) - served
  /\ \A i \in 1 .. Distance(pendingfirst, pendinglast) :
        pendingcalls[Slot(pendingfirst, i)] = accepted[served + i]

LEMMA FifoByCases == TypeOK => (RingIsFifo <=> RingByCases)
<1> SUFFICES ASSUME TypeOK PROVE RingIsFifo <=> RingByCases
  OBVIOUS
<1>1. /\ pendingfirst \in 0 .. NPENDINGCALLS - 1
      /\ pendinglast \in 0 .. NPENDINGCALLS - 1
  BY DEF TypeOK
<1>2. RingLength = Distance(pendingfirst, pendinglast)
  BY <1>1, RingWraps DEF RingLength
<1>3. \A i \in 1 .. Distance(pendingfirst, pendinglast) :
         (pendingfirst + i - 1) % NPENDINGCALLS = Slot(pendingfirst, i)
  BY <1>1, RingWraps
<1> QED BY <1>2, <1>3 DEF RingIsFifo, RingByCases

\* A call is added behind the last one and taken from before the first; both
\* leave the calls in between where they are.
LEMMA RingStep == IInv /\ [Next]_vars => RingIsFifo'
<1> SUFFICES ASSUME IInv, [Next]_vars PROVE RingIsFifo'
  OBVIOUS
<1> DEFINE N == NPENDINGCALLS
           d == Distance(pendingfirst, pendinglast)
<1>1. TypeOK /\ TypeOK' /\ RingByCases
  BY TypeStep, FifoByCases DEF IInv
<1>2. /\ d \in 0 .. N - 1 /\ N \in Nat \ {0, 1}
      /\ pendingfirst \in 0 .. N - 1 /\ pendinglast \in 0 .. N - 1
      /\ accepted \in Seq(Calls) /\ served \in 0 .. Len(accepted)
  BY <1>1, RingWraps, BreakerAssumption DEF TypeOK
<1>3. CASE MakeLock /\ pendingfirst # pendinglast
  <2>1. /\ pendinglast' = pendinglast /\ accepted' = accepted /\ served' = served + 1
        /\ pendingfirst' = IF pendingfirst = N - 1 THEN 0 ELSE pendingfirst + 1
        /\ pendingcalls' = [pendingcalls EXCEPT ![pendingfirst] = NoCall]
    BY <1>2, <1>3, AdvanceWraps DEF MakeLock, Pop
  <2>2. Distance(pendingfirst', pendinglast') = d - 1
    BY <1>2, <1>3, <2>1 DEF Distance
  <2>3. ASSUME NEW i \in 1 .. d - 1
        PROVE  pendingcalls'[Slot(pendingfirst', i)] = accepted'[served' + i]
    <3>1. i + 1 \in 1 .. d /\ Slot(pendingfirst', i) = Slot(pendingfirst, i + 1)
      BY <1>2, <2>1 DEF Slot, Distance
    <3>2. Slot(pendingfirst, i + 1) \in 0 .. N - 1 /\ Slot(pendingfirst, i + 1) # pendingfirst
      BY <1>2, <3>1 DEF Slot
    <3>3. pendingcalls[Slot(pendingfirst, i + 1)] = accepted[served + (i + 1)]
      BY <1>1, <3>1 DEF RingByCases
    <3>4. pendingcalls'[Slot(pendingfirst, i + 1)] = pendingcalls[Slot(pendingfirst, i + 1)]
      BY <1>1, <2>1, <3>2 DEF TypeOK
    <3>5. served' + i = served + (i + 1)
      BY <1>2, <2>1
    <3> QED BY <2>1, <3>1, <3>3, <3>4, <3>5
  <2>4. d - 1 = Len(accepted') - served'
    BY <1>1, <1>2, <2>1 DEF RingByCases
  <2>5. RingByCases'
    BY <2>2, <2>3, <2>4 DEF RingByCases
  <2> QED BY <1>1, <2>5, FifoByCases, PTL
<1>4. ASSUME NEW c \in Calls, AddLock(c), ~RingIsFull PROVE RingIsFifo'
  <2>1. /\ pendingfirst' = pendingfirst /\ served' = served
        /\ accepted' = Append(accepted, c)
        /\ pendinglast' = IF pendinglast = N - 1 THEN 0 ELSE pendinglast + 1
        /\ pendingcalls' = [pendingcalls EXCEPT ![pendinglast] = c]
        /\ pendinglast' # pendingfirst
    BY <1>2, <1>4, AdvanceWraps DEF AddLock, RingIsFull
  <2>2. Distance(pendingfirst', pendinglast') = d + 1
    BY <1>2, <2>1 DEF Distance
  <2>3. ASSUME NEW i \in 1 .. d
        PROVE  pendingcalls'[Slot(pendingfirst', i)] = accepted'[served' + i]
    <3>1. Slot(pendingfirst, i) \in 0 .. N - 1 /\ Slot(pendingfirst, i) # pendinglast
      BY <1>2, RingWraps
    <3>2. pendingcalls'[Slot(pendingfirst, i)] = pendingcalls[Slot(pendingfirst, i)]
      BY <1>1, <2>1, <3>1 DEF TypeOK
    <3>3. pendingcalls[Slot(pendingfirst, i)] = accepted[served + i]
      BY <1>1 DEF RingByCases
    <3>4. served + i \in 1 .. Len(accepted)
      BY <1>1, <1>2 DEF RingByCases
    <3>5. Append(accepted, c)[served + i] = accepted[served + i]
      BY <1>2, <3>4
    <3> QED BY <2>1, <3>2, <3>3, <3>5
  <2>4. pendingcalls'[Slot(pendingfirst', d + 1)] = accepted'[served' + (d + 1)]
    <3>1. Slot(pendingfirst, d + 1) = pendinglast
      BY <1>2 DEF Slot, Distance
    <3>2. served + (d + 1) = Len(accepted) + 1
      BY <1>1, <1>2 DEF RingByCases
    <3>3. Append(accepted, c)[Len(accepted) + 1] = c
      BY <1>2
    <3>4. pendingcalls'[pendinglast] = c
      BY <1>1, <1>2, <2>1 DEF TypeOK
    <3> QED BY <2>1, <3>1, <3>2, <3>3, <3>4
  <2>5. d + 1 = Len(accepted') - served'
    BY <1>1, <1>2, <2>1 DEF RingByCases
  <2>6. ASSUME NEW i \in 1 .. d + 1
        PROVE  pendingcalls'[Slot(pendingfirst', i)] = accepted'[served' + i]
    <3>1. i \in 1 .. d \/ i = d + 1
      BY <1>2
    <3> QED BY <2>3, <2>4, <3>1
  <2>7. RingByCases'
    BY <2>2, <2>5, <2>6 DEF RingByCases
  <2> QED BY <1>1, <2>7, FifoByCases, PTL
<1>5. CASE UNCHANGED ring
  BY <1>5 DEF IInv, RingIsFifo, RingLength, ring
<1>6. MakeLock /\ pendingfirst = pendinglast => UNCHANGED ring
  BY DEF MakeLock, Pop, ring
<1>7. ASSUME NEW c \in Calls, AddLock(c), RingIsFull PROVE UNCHANGED ring
  BY <1>7 DEF AddLock, ring
<1> QED BY <1>3, <1>4, <1>5, <1>6, <1>7, RingChanges

\* The flag is stored together with the indexes, under the lock.
LEMMA FlagStep == IInv /\ [Next]_vars => RingIsFlagged'
<1> SUFFICES ASSUME IInv, [Next]_vars PROVE RingIsFlagged'
  OBVIOUS
<1>1. CASE MakeLock
  BY <1>1 DEF MakeLock, MoreToDo, RingIsFlagged
<1>2. ASSUME NEW c \in Calls, AddLock(c) PROVE RingIsFlagged'
  BY <1>2 DEF AddLock, RingIsFlagged
<1>3. CASE UNCHANGED ring /\ pendingcalls_to_do' = pendingcalls_to_do
  BY <1>3 DEF IInv, RingIsFlagged, ring
<1>4. pendingcalls_to_do' = pendingcalls_to_do \/ MakeLock \/ \E c \in Calls : AddLock(c)
  BY DEF Next, Step, Program, Add, StoreBreaker, TakeGil, TookReset, TookSignal,
     DropReturns, DropReset, DropGil, Block, Restore, Break, Pending, MakeCall,
     CallReturns, Request, AsyncExc, SetAsyncExc, SetDropRequest, AddGivesUp,
     AddUnlock, flags, vars
<1> QED BY <1>1, <1>2, <1>3, <1>4, RingChanges

-----------------------------------------------------------------------------
(* Asynchronous exceptions *)

\* Of two threads, not both hold the GIL, and none holds it while another
\* recomputes eval_breaker, in drop_gil also without the GIL.
LEMMA OneAtWork ==
  ASSUME TypeOK, HolderInv, NEW t \in Threads, NEW u \in Threads, t # u,
         pc[t] \in Holding \cup {"drop_store"}
  PROVE  pc[u] \notin Holding \cup {"drop_store"}
BY DEF HolderInv, TypeOK

\* Every store that sets pending_async_exc sets eval_breaker, and every load
\* that a store of eval_breaker relies on sees the signals that matter.
LEMMA ExcStep == IInv /\ [Next]_vars => ExcInv'
<1> SUFFICES ASSUME IInv, [Next]_vars PROVE ExcInv'
  OBVIOUS
<1>0. /\ TypeOK /\ ExcInv /\ HolderInv
      /\ \A t, u \in Threads : t # u /\ pc[t] \in Holding \cup {"drop_store"}
                                 => pc[u] \notin Holding \cup {"drop_store"}
      /\ Main \in Threads
  BY OneAtWork, BreakerAssumption DEF IInv
<1> USE <1>0 DEF TypeOK, ExcInv, Signalled, Storing, Goto, Outside, Dropped, Holding, InTakeGil
<1>1. ASSUME NEW t \in Threads, StoreBreaker(t) PROVE ExcInv'
  BY <1>1 DEF StoreBreaker, flags
<1>2. ASSUME NEW t \in Threads, TakeGil(t) PROVE ExcInv'
  BY <1>2 DEF TakeGil, flags
<1>3. ASSUME NEW t \in Threads, TookReset(t) PROVE ExcInv'
  BY <1>3 DEF TookReset, Load
<1>4. ASSUME NEW t \in Threads, TookSignal(t) PROVE ExcInv'
  BY <1>4 DEF TookSignal, flags
<1>5. ASSUME NEW t \in Threads, DropReturns(t) PROVE ExcInv'
  BY <1>5 DEF DropReturns, AfterDrop, flags
<1>6. ASSUME NEW t \in Threads, DropReset(t) PROVE ExcInv'
  BY <1>6 DEF DropReset, Load
<1>7. ASSUME NEW t \in Threads, Block(t) PROVE ExcInv'
  BY <1>7 DEF Block, DropGil, flags
<1>8. ASSUME NEW t \in Threads, Restore(t) PROVE ExcInv'
  BY <1>8 DEF Restore, flags
<1>9. ASSUME NEW t \in Threads, Break(t) PROVE ExcInv'
  BY <1>9 DEF Break, flags
<1>10. ASSUME NEW t \in Threads, Pending(t) PROVE ExcInv'
  BY <1>10 DEF Pending, flags
<1>11. ASSUME NEW t \in Threads, Request(t) PROVE ExcInv'
  BY <1>11 DEF Request, DropGil, flags
<1>12. ASSUME NEW t \in Threads, AsyncExc(t) PROVE ExcInv'
  BY <1>12 DEF AsyncExc, Load, flags
<1>13. ASSUME NEW t \in Threads, SetDropRequest(t) PROVE ExcInv'
  BY <1>13 DEF SetDropRequest
<1>14. ASSUME NEW h \in Threads, NEW t \in Targets, NEW exc \in BOOLEAN, SetAsyncExc(h, t, exc)
       PROVE  ExcInv'
  BY <1>14 DEF SetAsyncExc
<1>15. CASE MakeLock
  BY <1>15 DEF MakeLock, Load
<1>16. CASE MakeCall
  BY <1>16 DEF MakeCall, flags
<1>17. ASSUME NEW ok \in BOOLEAN, CallReturns(ok) PROVE ExcInv'
  BY <1>17 DEF CallReturns, flags
<1>18. ASSUME NEW c \in Calls, AddLock(c) \/ AddGivesUp(c) PROVE ExcInv'
  BY <1>18 DEF AddLock, AddGivesUp, flags
<1>19. CASE AddUnlock
  BY <1>19 DEF AddUnlock, flags
<1>20. CASE UNCHANGED vars
  BY <1>20 DEF flags, vars
<1> QED BY <1>1, <1>2, <1>3, <1>4, <1>5, <1>6, <1>7, <1>8, <1>9, <1>10, <1>11, <1>12, <1>13, <1>14, <1>15, <1>16, <1>17, <1>18, <1>19, <1>20 DEF Next, Step, Program, Add

-----------------------------------------------------------------------------
(* The theorems *)

\* Initially the main thread runs alone, and nothing is requested.
LEMMA InitHolds == Init => IInv
<1> SUFFICES ASSUME Init PROVE IInv
  OBVIOUS
<1> USE BreakerAssumption DEF Init
<1>1. TypeOK
  <2>1. accepted \in Seq(Calls) /\ served \in 0 .. Len(accepted)
    OBVIOUS
  <2>2. /\ 0 \in 0 .. NPENDINGCALLS - 1 /\ 0 \in 0 .. NPENDINGCALLS
        /\ pendingcalls \in [0 .. NPENDINGCALLS - 1 -> Calls \cup {NoCall}]
    OBVIOUS
  <2>3. status \in [Calls -> Statuses] /\ func \in Calls \cup {NoCall}
    BY DEF Statuses
  <2>4. /\ pc \in [Threads -> Outside \cup Dropped \cup Holding]
        /\ ret \in [Threads -> {"run", "exc"}]
    BY DEF Outside, Dropped, Holding, InTakeGil
  <2>5. /\ async_exc \in [Threads -> BOOLEAN] /\ loaded \in [Threads -> BOOLEAN]
        /\ {eval_breaker, gil_drop_request, pendingcalls_to_do, pending_async_exc,
            busy} \subseteq BOOLEAN
        /\ holder \in Threads \cup {NoThread} /\ gil_last_holder \in Threads
        /\ pending_lock \in {"free", "make", "add"}
    OBVIOUS
  <2> QED BY <2>1, <2>2, <2>3, <2>4, <2>5 DEF TypeOK
<1>2. HolderInv /\ MakerIsMain /\ TurnsLeft
  BY DEF HolderInv, MakerIsMain, TurnsLeft, Making, Holding, InTakeGil
<1>3. RingIsFlagged /\ RunningInv
  BY DEF RingIsFlagged, RunningInv
<1>4. RingIsFifo
  <2>1. Distance(0, 0) = 0
    BY DEF Distance
  <2>2. RingByCases
    BY <2>1 DEF RingByCases
  <2> QED BY <1>1, <2>2, FifoByCases
<1>5. ExcInv
  BY DEF ExcInv, Signalled, Storing
<1> QED BY <1>1, <1>2, <1>3, <1>4, <1>5 DEF IInv

\* All of the invariant, in all behaviours.
LEMMA InductiveInvariant == Spec => []IInv
<1>1. IInv /\ [Next]_vars => IInv'
  BY TypeStep, HolderStep, MakerStep, RingStep, FlagStep, RunningStep, ExcStep DEF IInv
<1> QED BY InitHolds, <1>1, PTL DEF Spec

\* Every variable keeps to its type: the indexes stay in the ring, made never
\* exceeds its size, and no more calls are popped than were added.
THEOREM TypesAreCorrect == Spec => []TypeOK
<1>1. IInv => TypeOK
  BY DEF IInv
<1> QED BY InductiveInvariant, <1>1, PTL

\* Py_AddPendingCall and Py_MakePendingCalls keep the ring a queue, for any
\* number of calls and any size of the ring.
THEOREM PendingCallsAreFifo == Spec => []RingIsFifo
<1>1. IInv => RingIsFifo
  BY DEF IInv
<1> QED BY InductiveInvariant, <1>1, PTL

\* A call that waits in the ring is announced by pendingcalls_to_do whenever
\* pending_lock is free.
THEOREM QueuedCallsAreFlagged == Spec => []QueuedIsFlagged
<1>1. IInv => QueuedIsFlagged
  BY DEF IInv, RingIsFlagged, QueuedIsFlagged
<1> QED BY InductiveInvariant, <1>1, PTL

\* However deep eval loops nest, one pending call runs at a time.
THEOREM CallsDoNotNest == Spec => []OneCallAtATime
<1>1. IInv => OneCallAtATime
  BY DEF IInv, RunningInv, OneCallAtATime
<1> QED BY InductiveInvariant, <1>1, PTL

\* Whoever consumes pending_async_exc and whoever recomputes eval_breaker, a
\* thread that runs with an asynchronous exception finds eval_breaker set.
THEOREM ExceptionsAreNoticed == Spec => []AsyncExcIsNoticed
<1>1. IInv => AsyncExcIsNoticed
  BY DEF IInv, ExcInv, Signalled, Holding, InTakeGil, AsyncExcIsNoticed
<1> QED BY InductiveInvariant, <1>1, PTL
=============================================================================
