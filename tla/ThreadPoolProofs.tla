------------------------ MODULE ThreadPoolProofs ------------------------
(***************************************************************************)
(* Proofs about module ThreadPool, for any futures, clients, workers and   *)
(* programs.                                                               *)
(***************************************************************************)
EXTENDS ThreadPool, FiniteSetTheorems, TLAPS

\* A worker that has come from get() and is not through with its work item.
AtWork == {"start", "run"}

Places == {"call", "sleep", "awake", "callbacks", "event", "remove", "join",
           "unborn", "get", "start", "run", "exit"}

Typed ==
  /\ todo \in [Clients -> Seq(Call)]
  /\ state \in [Futures -> Done \cup {"absent", "refused", "PENDING", "RUNNING"}]
  /\ pc \in [Threads -> Places]
  /\ item \in [Workers -> Futures \cup {0}]
  /\ queue \in Seq(Futures \cup {0})

\* A client that is inside of a call has one.
InsideCall == \A c \in Clients : pc[c] # "call" => todo[c] # <<>>

\* What will still be submitted is submitted once, and not there yet.
Submits(c, i) == todo[c][i].op = "submit"
ToSubmit ==
  \A c \in Clients : \A i \in DOMAIN todo[c] :
     Submits(c, i) =>
        /\ Len(todo[c][i].fs) = 1
        /\ state[todo[c][i].fs[1]] = "absent"
        /\ \A d \in Clients : \A j \in DOMAIN todo[d] :
              Submits(d, j) /\ todo[d][j].fs = todo[c][i].fs => c = d /\ i = j

\* A work item waits in one place of the queue, or one worker has it; it has
\* been started if that worker says so.
Waiting == {"PENDING", "CANCELLED"}
InQueue ==
  \A i \in DOMAIN queue : queue[i] # 0 =>
     /\ state[queue[i]] \in Waiting
     /\ \A j \in DOMAIN queue : queue[j] = queue[i] => i = j
WithWorker ==
  \A w \in Workers : pc[w] \in AtWork =>
     /\ item[w] # 0
     /\ state[item[w]] \in IF pc[w] = "start" THEN Waiting ELSE {"RUNNING"}
     /\ \A i \in DOMAIN queue : queue[i] # item[w]
     /\ \A v \in Workers : pc[v] \in AtWork /\ item[v] = item[w] => v = w

IInv == Typed /\ InsideCall /\ ToSubmit /\ InQueue /\ WithWorker

-----------------------------------------------------------------------------
(* What most steps leave alone *)

\* The calls of a client that are left.
Fewer(c) == todo' = [todo EXCEPT ![c] = Tail(@)]

\* A step that moves no work item.
Aside ==
  /\ UNCHANGED <<state, item, queue>>
  /\ pc' \in [Threads -> Places]
  /\ \A w \in Workers : pc'[w] = pc[w] \/ pc'[w] \notin AtWork
  /\ \A c \in Clients : pc'[c] # "call" => pc[c] # "call" \/ todo[c] # <<>>
  /\ \/ UNCHANGED todo
     \/ \E c \in Clients : Fewer(c) /\ todo[c] # <<>> /\ pc'[c] = "call"

\* Most steps of clients.
LEMMA AsideSteps ==
  ASSUME IInv, NEW c \in Clients,
         \/ Skip(c) \/ AddDoneCallback(c) \/ Invoke(c, F(c)) \/ Result(c)
         \/ ResultTimesOut(c) \/ ResultReturns(c) \/ AcquireFuture(c) \/ Install(c)
         \/ EventOrTimeOut(c) \/ RemoveWaiter(c) \/ WaitReturns(c) \/ JoinThreads(c)
  PROVE  Aside
<1>0. /\ Clients \subseteq Threads /\ Workers \subseteq Threads /\ Clients \cap Workers = {}
      /\ pc \in [Threads -> Places] /\ todo \in [Clients -> Seq(Call)]
      /\ pc[c] # "call" => todo[c] # <<>>
  BY PoolAssumption DEF IInv, Typed, InsideCall, Threads
<1> USE DEF Places
<1>1. ASSUME NEW place \in Places, Goto(c, place), UNCHANGED <<state, item, queue, todo>>,
             todo[c] # <<>>
      PROVE  Aside
  BY <1>0, <1>1 DEF Aside, Goto
<1>2. ASSUME Return(c), UNCHANGED <<state, item, queue>>, todo[c] # <<>>
      PROVE  Aside
  <2>1. Goto(c, "call") /\ Fewer(c)
    BY <1>2 DEF Return, Fewer
  <2>2. pc'[c] = "call" /\ \A t \in Threads \ {c} : pc'[t] = pc[t]
    BY <1>0, <2>1 DEF Goto
  <2>3. pc' \in [Threads -> Places]
    BY <1>0, <2>1 DEF Goto
  <2> QED BY <1>0, <1>2, <2>1, <2>2, <2>3 DEF Aside
<1>3. ASSUME UNCHANGED <<state, item, queue, todo, pc>>
      PROVE  Aside
  BY <1>0, <1>3 DEF Aside
<1>4. CASE Skip(c)
  BY <1>0, <1>1, <1>2, <1>3, <1>4 DEF Skip, Calls
<1>5. CASE AddDoneCallback(c)
  BY <1>0, <1>1, <1>2, <1>3, <1>5 DEF AddDoneCallback, Calls
<1>6. CASE Result(c)
  BY <1>0, <1>1, <1>2, <1>3, <1>6 DEF Result, Calls
<1>7. CASE ResultTimesOut(c)
  BY <1>0, <1>1, <1>2, <1>3, <1>7 DEF ResultTimesOut, Calls
<1>8. CASE ResultReturns(c)
  BY <1>0, <1>1, <1>2, <1>3, <1>8 DEF ResultReturns, Calls
<1>9. CASE AcquireFuture(c)
  BY <1>0, <1>1, <1>2, <1>3, <1>9 DEF AcquireFuture, Calls
<1>10. CASE Install(c)
  <2>1. UNCHANGED <<state, item, queue>> /\ todo[c] # <<>>
    BY <1>10 DEF Install, Waits
  <2>2. Return(c) \/ (UNCHANGED todo /\ (Goto(c, "remove") \/ Goto(c, "event")))
    BY <1>10, Zenon DEF Install
  <2> QED BY <1>1, <1>2, <2>1, <2>2
<1>11. CASE EventOrTimeOut(c)
  BY <1>0, <1>1, <1>2, <1>3, <1>11 DEF EventOrTimeOut, Calls
<1>12. CASE RemoveWaiter(c)
  BY <1>0, <1>1, <1>2, <1>3, <1>12 DEF RemoveWaiter, Calls
<1>13. CASE WaitReturns(c)
  BY <1>0, <1>1, <1>2, <1>3, <1>13 DEF WaitReturns, Calls
<1>14. CASE JoinThreads(c)
  BY <1>0, <1>1, <1>2, <1>3, <1>14 DEF JoinThreads, Calls
<1>15. CASE Invoke(c, F(c))
  BY <1>0, <1>1, <1>2, <1>3, <1>15 DEF Invoke
<1> QED BY <1>4, <1>5, <1>6, <1>7, <1>8, <1>9, <1>10, <1>11, <1>12, <1>13, <1>14, <1>15

\* A worker that calls callbacks.
LEMMA AsideOfWorkers ==
  ASSUME IInv, NEW w \in Workers, Invoke(w, item[w])
  PROVE  Aside
<1>1. /\ w \in Threads /\ w \notin Clients /\ Clients \subseteq Threads /\ Workers \subseteq Threads
      /\ pc \in [Threads -> Places]
  BY PoolAssumption DEF IInv, Typed, Threads
<1>2. UNCHANGED <<state, item, queue, todo>> /\ (UNCHANGED pc \/ Goto(w, "get"))
  BY <1>1 DEF Invoke
<1>3. "get" \in Places /\ "get" \notin AtWork
  BY DEF AtWork, Places
<1>4. pc' \in [Threads -> Places] /\ \A t \in Threads : pc'[t] = pc[t] \/ (t = w /\ pc'[t] = "get")
  BY <1>1, <1>2, <1>3 DEF Goto
<1> QED BY <1>1, <1>2, <1>3, <1>4 DEF Aside

-----------------------------------------------------------------------------
(* Calls that are over *)

\* Where a remaining call was before.
Before(c, d, i) == IF d = c THEN i + 1 ELSE i

\* The remaining calls of a client, each with its place before.
LEMMA FewerCalls ==
  ASSUME Typed, NEW c \in Clients, todo[c] # <<>>, Fewer(c)
  PROVE  /\ todo' \in [Clients -> Seq(Call)]
         /\ \A d \in Clients : \A i \in DOMAIN todo'[d] :
               /\ Before(c, d, i) \in DOMAIN todo[d]
               /\ todo'[d][i] = todo[d][Before(c, d, i)]
               /\ i \in Nat \ {0}
<1>1. todo \in [Clients -> Seq(Call)] /\ todo[c] \in Seq(Call)
  BY DEF Typed
<1>2. /\ Tail(todo[c]) \in Seq(Call)
      /\ Len(Tail(todo[c])) = Len(todo[c]) - 1
      /\ \A i \in 1 .. Len(todo[c]) - 1 : Tail(todo[c])[i] = todo[c][i + 1]
  BY <1>1
<1>3. todo'[c] = Tail(todo[c]) /\ \A d \in Clients \ {c} : todo'[d] = todo[d]
  BY <1>1 DEF Fewer
<1>4. todo' \in [Clients -> Seq(Call)]
  BY <1>1, <1>2 DEF Fewer
<1>5. ASSUME NEW d \in Clients, NEW i \in DOMAIN todo'[d]
      PROVE  /\ Before(c, d, i) \in DOMAIN todo[d]
             /\ todo'[d][i] = todo[d][Before(c, d, i)]
             /\ i \in Nat \ {0}
  <2>1. CASE d = c
    <3>1. DOMAIN todo'[c] = 1 .. Len(todo[c]) - 1 /\ DOMAIN todo[c] = 1 .. Len(todo[c])
      BY <1>1, <1>2, <1>3
    <3>2. i \in 1 .. Len(todo[c]) - 1 /\ i + 1 \in DOMAIN todo[c] /\ i \in Nat \ {0}
      BY <1>1, <1>5, <2>1, <3>1
    <3> QED BY <1>2, <1>3, <2>1, <3>2 DEF Before
  <2>2. CASE d # c
    <3>1. todo[d] \in Seq(Call) /\ todo'[d] = todo[d]
      BY <1>1, <1>3, <2>2
    <3> QED BY <1>5, <2>2, <3>1 DEF Before
  <2> QED BY <2>1, <2>2
<1> QED BY <1>4, <1>5

\* The invariant of the remaining submits needs only that they are not there
\* yet.
LEMMA FewerToSubmit ==
  ASSUME Typed, ToSubmit, NEW c \in Clients, todo[c] # <<>>, Fewer(c),
         \A d \in Clients : \A i \in DOMAIN todo'[d] :
            Submits(d, i)' => state'[todo'[d][i].fs[1]] = "absent"
  PROVE  ToSubmit'
<1>1. ASSUME NEW d \in Clients, NEW i \in DOMAIN todo'[d], Submits(d, i)',
             NEW e \in Clients, NEW j \in DOMAIN todo'[e], Submits(e, j)',
             todo'[e][j].fs = todo'[d][i].fs
      PROVE  d = e /\ i = j
  <2>1. /\ Before(c, d, i) \in DOMAIN todo[d] /\ todo'[d][i] = todo[d][Before(c, d, i)]
        /\ Before(c, e, j) \in DOMAIN todo[e] /\ todo'[e][j] = todo[e][Before(c, e, j)]
        /\ i \in Nat /\ j \in Nat
    BY FewerCalls
  <2>2. d = e /\ Before(c, d, i) = Before(c, e, j)
    BY <1>1, <2>1 DEF ToSubmit, Submits
  <2> QED BY <2>1, <2>2 DEF Before
<1>2. ASSUME NEW d \in Clients, NEW i \in DOMAIN todo'[d], Submits(d, i)'
      PROVE  Len(todo'[d][i].fs) = 1
  BY <1>2, FewerCalls DEF ToSubmit, Submits
<1> QED BY <1>1, <1>2 DEF ToSubmit, Submits

\* Futures that have no submit left may go on.
LEMMA SameToSubmit ==
  ASSUME ToSubmit, UNCHANGED todo,
         \A f \in Futures : state[f] = "absent" => state'[f] = "absent",
         Typed
  PROVE  ToSubmit'
<1>1. ASSUME NEW d \in Clients, NEW i \in DOMAIN todo[d], Submits(d, i)
      PROVE  todo[d][i].fs[1] \in Futures
  <2>1. todo[d][i] \in Call /\ Len(todo[d][i].fs) = 1
    BY <1>1 DEF Typed, ToSubmit
  <2>2. todo[d][i].fs \in Seq(Futures)
    BY <2>1 DEF Call
  <2> QED BY <2>1, <2>2
<1> QED BY <1>1 DEF ToSubmit, Submits

\* A step that moves no work item keeps the invariant.
LEMMA AsideKeeps == IInv /\ Aside => IInv'
<1> SUFFICES ASSUME IInv, Aside PROVE IInv'
  OBVIOUS
<1>0. Typed /\ InsideCall /\ ToSubmit /\ InQueue /\ WithWorker /\ Workers \subseteq Threads
  BY DEF IInv, Threads
<1>1. InQueue'
  BY <1>0 DEF Aside, InQueue
<1>2. WithWorker'
  <2>1. ASSUME NEW w \in Workers, pc'[w] \in AtWork PROVE pc'[w] = pc[w]
    BY <2>1 DEF Aside
  <2>2. UNCHANGED <<state, item, queue>>
    BY DEF Aside
  <2> QED BY <1>0, <2>1, <2>2 DEF WithWorker
<1>3. CASE UNCHANGED todo
  <2>1. Typed'
    BY <1>0, <1>3 DEF Aside, Typed
  <2>2. InsideCall'
    BY <1>0, <1>3 DEF Aside, InsideCall
  <2>3. ToSubmit'
    BY <1>0, <1>3, SameToSubmit DEF Aside
  <2> QED BY <1>1, <1>2, <2>1, <2>2, <2>3 DEF IInv
<1>4. ASSUME NEW c \in Clients, Fewer(c), todo[c] # <<>>, pc'[c] = "call" PROVE IInv'
  <2>1. Typed'
    BY <1>0, <1>4, FewerCalls DEF Aside, Typed
  <2>2. InsideCall'
    <3>1. \A d \in Clients \ {c} : todo'[d] = todo[d]
      BY <1>0, <1>4 DEF Fewer, Typed
    <3> QED BY <1>0, <1>4, <3>1 DEF Aside, InsideCall
  <2>3. \A d \in Clients : \A i \in DOMAIN todo'[d] :
           Submits(d, i)' => state'[todo'[d][i].fs[1]] = "absent"
    BY <1>0, <1>4, FewerCalls DEF Aside, ToSubmit, Submits
  <2>4. ToSubmit'
    BY <1>0, <1>4, <2>3, FewerToSubmit
  <2> QED BY <1>1, <1>2, <2>1, <2>2, <2>4 DEF IInv
<1> QED BY <1>3, <1>4 DEF Aside

-----------------------------------------------------------------------------
(* Steps that move work items *)

\* Steps of clients under the lock of one future leave workers alone.
LEMMA Wakes ==
  ASSUME Typed, NEW f, NEW t \in Threads, NEW place \in Places, WakeAndGoto(f, t, place)
  PROVE  /\ pc' \in [Threads -> Places]
         /\ pc'[t] = place
         /\ \A w \in Workers \ {t} : pc'[w] = pc[w]
         /\ \A c \in Clients : pc'[c] # "call" /\ c # t => pc[c] # "call"
BY PoolAssumption DEF Typed, WakeAndGoto, Woken, Places, Threads

\* The outcomes of one step of a future.
Moves(f) ==
  <<state[f], state'[f]>> \in
    {<<"absent", "PENDING">>, <<"absent", "refused">>,
     <<"PENDING", "RUNNING">>, <<"RUNNING", "FINISHED">>,
     <<"PENDING", "CANCELLED">>, <<"CANCELLED", "CANCELLED_AND_NOTIFIED">>}

\* cancel() changes a future that waits, or nothing.
LEMMA CancelKeeps ==
  ASSUME IInv, NEW c \in Clients, Cancel(c)
  PROVE  IInv' /\ \A f \in Futures : state'[f] = state[f] \/ Moves(f)
<1>0. /\ Typed /\ InsideCall /\ ToSubmit /\ InQueue /\ WithWorker
      /\ c \in Threads /\ c \notin Workers
  BY PoolAssumption DEF IInv, Threads
<1>1. CASE ~MayCancel(F(c))
  <2>1. Return(c) /\ UNCHANGED <<state, item, queue>> /\ todo[c] # <<>>
    BY <1>1 DEF Cancel, Calls
  <2>2. Aside
    <3>1. Fewer(c) /\ Goto(c, "call")
      BY <2>1 DEF Return, Fewer
    <3>2. pc' \in [Threads -> Places] /\ pc'[c] = "call" /\ \A t \in Threads \ {c} : pc'[t] = pc[t]
      BY <1>0, <3>1 DEF Goto, Typed, Places
    <3> QED BY <1>0, <2>1, <3>1, <3>2, PoolAssumption DEF Aside, Threads
  <2> QED BY <2>1, <2>2, AsideKeeps
<1>2. CASE MayCancel(F(c))
  <2>1. /\ state[F(c)] = "PENDING" /\ state' = [state EXCEPT ![F(c)] = "CANCELLED"]
        /\ WakeAndGoto(F(c), c, "callbacks") /\ UNCHANGED <<todo, item, queue>>
        /\ todo[c] # <<>>
    BY <1>2 DEF Cancel, MayCancel, Calls
  <2>2. "callbacks" \in Places
    BY DEF Places
  <2>3. /\ pc' \in [Threads -> Places] /\ \A w \in Workers : pc'[w] = pc[w]
        /\ \A d \in Clients : pc'[d] # "call" /\ d # c => pc[d] # "call"
    BY <1>0, <2>1, <2>2, Wakes
  <2>4. \A f \in Futures : \/ state'[f] = state[f]
                           \/ state[f] = "PENDING" /\ state'[f] = "CANCELLED"
    BY <1>0, <2>1 DEF Typed
  <2>5. Typed'
    BY <1>0, <2>1, <2>3 DEF Typed, Done
  <2>6. InsideCall'
    BY <1>0, <2>1, <2>3 DEF InsideCall
  <2>7. ToSubmit'
    BY <1>0, <2>1, <2>4, SameToSubmit
  <2>8. InQueue'
    <3>1. \A i \in DOMAIN queue : queue[i] # 0 => queue[i] \in Futures
      BY <1>0 DEF Typed
    <3> QED BY <1>0, <2>1, <2>4, <3>1 DEF InQueue, Waiting
  <2>9. WithWorker'
    <3>1. \A w \in Workers : item[w] # 0 => item[w] \in Futures
      BY <1>0 DEF Typed
    <3> QED BY <1>0, <2>1, <2>3, <2>4, <3>1 DEF WithWorker, Waiting
  <2> QED BY <2>4, <2>5, <2>6, <2>7, <2>8, <2>9 DEF IInv, Moves
<1> QED BY <1>1, <1>2

\* shutdown() adds None to the queue, which is no work item.
LEMMA ShutdownKeeps ==
  ASSUME IInv, NEW c \in Clients, Shutdown(c)
  PROVE  IInv' /\ UNCHANGED state
<1>0. /\ Typed /\ InsideCall /\ ToSubmit /\ InQueue /\ WithWorker
      /\ c \in Threads /\ c \notin Workers /\ Workers \subseteq Threads
  BY PoolAssumption DEF IInv, Threads
<1>1. /\ UNCHANGED <<state, item>> /\ queue' = Append(queue, 0) /\ todo[c] # <<>>
      /\ Return(c) \/ (Goto(c, "join") /\ UNCHANGED todo)
  BY DEF Shutdown, Calls
<1>2. /\ queue' \in Seq(Futures \cup {0})
      /\ \A i \in DOMAIN queue' : queue'[i] # 0 => i \in DOMAIN queue /\ queue'[i] = queue[i]
  BY <1>0, <1>1 DEF Typed
<1>3. InQueue'
  BY <1>0, <1>1, <1>2 DEF InQueue
<1>4. /\ pc' \in [Threads -> Places] /\ \A t \in Threads \ {c} : pc'[t] = pc[t]
      /\ (Fewer(c) /\ pc'[c] = "call") \/ UNCHANGED todo
  BY <1>0, <1>1 DEF Return, Goto, Typed, Places, Fewer
<1>5. WithWorker'
  <2>1. \A w \in Workers : pc'[w] = pc[w]
    BY <1>0, <1>4
  <2>2. \A w \in Workers : item[w] # 0 /\ (\A i \in DOMAIN queue : queue[i] # item[w])
                              => \A i \in DOMAIN queue' : queue'[i] # item[w]
    BY <1>2
  <2> QED BY <1>0, <1>1, <2>1, <2>2 DEF WithWorker
<1>6. CASE UNCHANGED todo
  BY <1>0, <1>1, <1>2, <1>3, <1>4, <1>5, <1>6, SameToSubmit DEF IInv, Typed, InsideCall, Threads
<1>7. CASE Fewer(c) /\ pc'[c] = "call"
  <2>1. Typed'
    BY <1>0, <1>1, <1>2, <1>4, <1>7, FewerCalls DEF Typed
  <2>2. InsideCall'
    <3>1. \A d \in Clients \ {c} : todo'[d] = todo[d]
      BY <1>0, <1>7 DEF Fewer, Typed
    <3> QED BY <1>0, <1>4, <1>7, <3>1 DEF InsideCall, Threads
  <2>3. \A d \in Clients : \A i \in DOMAIN todo'[d] :
           Submits(d, i)' => state'[todo'[d][i].fs[1]] = "absent"
    BY <1>0, <1>1, <1>7, FewerCalls DEF ToSubmit, Submits
  <2>4. ToSubmit'
    BY <1>0, <1>1, <1>7, <2>3, FewerToSubmit
  <2> QED BY <1>1, <1>3, <1>5, <2>1, <2>2, <2>4 DEF IInv
<1> QED BY <1>1, <1>4, <1>6, <1>7

\* submit() puts a future into the queue that was nowhere before.
LEMMA SubmitKeeps ==
  ASSUME IInv, NEW c \in Clients, Submit(c)
  PROVE  IInv' /\ \A f \in Futures : state'[f] = state[f] \/ Moves(f)
<1> DEFINE g == F(c)
<1>0. /\ Typed /\ InsideCall /\ ToSubmit /\ InQueue /\ WithWorker
      /\ c \in Threads /\ c \notin Workers /\ Workers \subseteq Threads
      /\ 0 \notin Futures
  BY PoolAssumption DEF IInv, Threads
<1>1. /\ pc[c] = "call" /\ todo[c] # <<>> /\ This(c).op = "submit"
      /\ item' = item
  BY DEF Submit
<1>2. 1 \in DOMAIN todo[c] /\ This(c) = todo[c][1] /\ Submits(c, 1) /\ This(c) \in Call
  <2>1. todo[c] \in Seq(Call)
    BY <1>0 DEF Typed
  <2> QED BY <1>1, <2>1 DEF This, Submits
<1>3. g \in Futures /\ state[g] = "absent"
  <2>1. Len(This(c).fs) = 1 /\ This(c).fs \in Seq(Futures) /\ state[g] = "absent"
    BY <1>0, <1>2 DEF ToSubmit, Call, F
  <2> QED BY <2>1 DEF F
\* Its submit was the only one.
<1>4. ASSUME Fewer(c), \A f \in Futures \ {g} : state'[f] = state[f] PROVE ToSubmit'
  <2>1. ASSUME NEW d \in Clients, NEW i \in DOMAIN todo'[d], Submits(d, i)'
        PROVE  state'[todo'[d][i].fs[1]] = "absent"
    <3> DEFINE b == Before(c, d, i)
    <3>1. b \in DOMAIN todo[d] /\ todo'[d][i] = todo[d][b] /\ i \in Nat \ {0} /\ Submits(d, b)
      BY <1>0, <1>1, <1>4, <2>1, FewerCalls DEF Submits
    <3>2. /\ Len(todo[d][b].fs) = 1 /\ state[todo[d][b].fs[1]] = "absent"
          /\ todo[d][b].fs = todo[c][1].fs => c = d /\ b = 1
      BY <1>0, <1>2, <3>1 DEF ToSubmit
    <3>3. ~(c = d /\ b = 1)
      BY <3>1 DEF Before
    <3>4. todo[d][b].fs \in Seq(Futures) /\ todo[c][1].fs \in Seq(Futures) /\ Len(todo[c][1].fs) = 1
      <4>1. todo[d][b] \in Call
        BY <1>0, <3>1 DEF Typed
      <4>2. Len(todo[c][1].fs) = 1 /\ todo[c][1] \in Call
        BY <1>0, <1>2 DEF ToSubmit
      <4> QED BY <4>1, <4>2 DEF Call
    <3>5. todo[d][b].fs[1] # todo[c][1].fs[1]
      BY <3>2, <3>3, <3>4
    <3>6. todo[d][b].fs[1] \in Futures \ {g}
      BY <1>2, <3>2, <3>4, <3>5 DEF F
    <3> QED BY <1>4, <3>1, <3>2, <3>6
  <2> QED BY <1>0, <1>1, <1>4, <2>1, FewerToSubmit
<1>5. CASE /\ state' = [state EXCEPT ![g] = "refused"] /\ Return(c) /\ UNCHANGED queue
  <2>1. Fewer(c) /\ \A f \in Futures \ {g} : state'[f] = state[f]
    BY <1>0, <1>5 DEF Return, Fewer, Typed
  <2>2. pc' \in [Threads -> Places] /\ pc'[c] = "call" /\ \A t \in Threads \ {c} : pc'[t] = pc[t]
    BY <1>0, <1>5 DEF Return, Goto, Typed, Places
  <2>3. Typed'
    BY <1>0, <1>1, <1>5, <2>1, <2>2, FewerCalls DEF Typed
  <2>4. InsideCall'
    <3>1. \A d \in Clients \ {c} : todo'[d] = todo[d]
      BY <1>0, <2>1 DEF Fewer, Typed
    <3> QED BY <1>0, <2>2, <3>1 DEF InsideCall, Threads
  <2>5. InQueue'
    <3>1. \A i \in DOMAIN queue : queue[i] # 0 => queue[i] \in Futures \ {g}
      BY <1>0, <1>3 DEF Typed, InQueue, Waiting
    <3> QED BY <1>0, <1>5, <2>1, <3>1 DEF InQueue
  <2>6. WithWorker'
    <3>1. \A w \in Workers : pc[w] \in AtWork => item[w] \in Futures \ {g}
      BY <1>0, <1>3 DEF Typed, WithWorker, Waiting
    <3>2. \A w \in Workers : pc'[w] = pc[w]
      BY <1>0, <2>2
    <3> QED BY <1>0, <1>1, <1>5, <2>1, <3>1, <3>2 DEF WithWorker
  <2>7. \A f \in Futures : state'[f] = state[f] \/ Moves(f)
    BY <1>0, <1>3, <1>5, <2>1 DEF Moves, Typed
  <2> QED BY <1>4, <2>1, <2>3, <2>4, <2>5, <2>6, <2>7 DEF IInv
<1>6. CASE /\ state' = [state EXCEPT ![g] = "PENDING"] /\ queue' = Append(queue, g)
           /\ Fewer(c)
           /\ \/ UNCHANGED pc
              \/ \E w \in Workers : pc[w] = "unborn" /\ Goto(w, "get")
  <2>1. /\ \A f \in Futures \ {g} : state'[f] = state[f]
        /\ state'[g] = "PENDING"
    BY <1>0, <1>3, <1>6 DEF Typed
  <2>2. /\ pc' \in [Threads -> Places] /\ \A d \in Clients : pc'[d] = pc[d]
        /\ \A w \in Workers : pc'[w] \in AtWork => pc'[w] = pc[w]
    BY <1>0, <1>6, PoolAssumption DEF Goto, Typed, Places, AtWork, Threads
  <2>3. /\ queue' \in Seq(Futures \cup {0}) /\ Len(queue) \in Nat
        /\ DOMAIN queue = 1 .. Len(queue) /\ DOMAIN queue' = 1 .. Len(queue) + 1
        /\ \A i \in DOMAIN queue : queue'[i] = queue[i]
        /\ queue'[Len(queue) + 1] = g
    BY <1>0, <1>3, <1>6 DEF Typed
  <2>4. Typed'
    BY <1>0, <1>1, <1>6, <2>2, <2>3, FewerCalls DEF Typed
  <2>5. InsideCall'
    <3>1. \A d \in Clients \ {c} : todo'[d] = todo[d]
      BY <1>0, <1>6 DEF Fewer, Typed
    <3> QED BY <1>0, <1>1, <2>2, <3>1 DEF InsideCall, Threads
  <2>6. InQueue'
    <3>1. \A i \in DOMAIN queue : queue[i] # 0 => queue[i] \in Futures \ {g}
      BY <1>0, <1>3 DEF Typed, InQueue, Waiting
    <3>2. \A i \in DOMAIN queue : queue[i] # 0 => state'[queue[i]] \in Waiting
      BY <1>0, <2>1, <3>1 DEF InQueue
    <3>3. \A i \in DOMAIN queue' : i \in DOMAIN queue \/ i = Len(queue) + 1
      BY <2>3
    <3>4. g # 0
      BY <1>0, <1>3
    <3> QED BY <1>0, <2>1, <2>3, <3>1, <3>2, <3>3, <3>4 DEF InQueue, Waiting
  <2>7. WithWorker'
    <3>1. \A w \in Workers : pc[w] \in AtWork => item[w] \in Futures \ {g}
      BY <1>0, <1>3 DEF Typed, WithWorker, Waiting
    <3>2. \A i \in DOMAIN queue' : i \in DOMAIN queue \/ i = Len(queue) + 1
      BY <2>3
    <3>3. ASSUME NEW w \in Workers, pc'[w] \in AtWork
          PROVE  \A i \in DOMAIN queue' : queue'[i] # item[w]
      BY <1>0, <2>2, <2>3, <3>1, <3>2, <3>3 DEF WithWorker
    <3> QED BY <1>0, <1>1, <2>1, <2>2, <3>1, <3>3 DEF WithWorker
  <2>8. \A f \in Futures : state'[f] = state[f] \/ Moves(f)
    BY <1>3, <2>1 DEF Moves
  <2> QED BY <1>4, <1>6, <2>1, <2>4, <2>5, <2>6, <2>7, <2>8 DEF IInv
<1> QED BY <1>5, <1>6 DEF Submit, Fewer

-----------------------------------------------------------------------------
(* The workers *)

\* Only one worker gets an item, for it was in the queue once.
LEMMA GetKeeps ==
  ASSUME IInv, NEW w \in Workers, GetItem(w)
  PROVE  IInv' /\ UNCHANGED state
<1>0. /\ Typed /\ InsideCall /\ ToSubmit /\ InQueue /\ WithWorker
      /\ w \in Threads /\ w \notin Clients /\ Workers \subseteq Threads /\ Clients \subseteq Threads
      /\ queue \in Seq(Futures \cup {0}) /\ 0 \notin Futures
  BY PoolAssumption DEF IInv, Typed, Threads
<1>1. /\ pc[w] = "get" /\ queue # <<>> /\ queue' = Remaining
      /\ UNCHANGED <<todo, state>>
      /\ \/ Head(queue) = 0 /\ Goto(w, "exit") /\ UNCHANGED item
         \/ Head(queue) # 0 /\ item' = [item EXCEPT ![w] = Head(queue)] /\ Goto(w, "start")
  BY DEF GetItem
<1>2. /\ Tail(queue) \in Seq(Futures \cup {0}) /\ Len(queue) \in Nat \ {0}
      /\ Head(queue) = queue[1] /\ Head(queue) \in Futures \cup {0}
      /\ DOMAIN queue = 1 .. Len(queue) /\ DOMAIN Tail(queue) = 1 .. Len(queue) - 1
      /\ \A i \in 1 .. Len(queue) - 1 : Tail(queue)[i] = queue[i + 1]
  BY <1>0, <1>1
<1>3. /\ queue' \in Seq(Futures \cup {0})
      /\ \A i \in DOMAIN queue' : queue'[i] # 0 =>
            i + 1 \in DOMAIN queue /\ queue'[i] = queue[i + 1] /\ i \in Nat \ {0}
  <2>1. CASE queue' = Tail(queue)
    BY <1>2, <2>1
  <2>2. CASE queue' = Append(Tail(queue), 0)
    <3>1. /\ queue' \in Seq(Futures \cup {0})
          /\ DOMAIN queue' = 1 .. Len(queue)
          /\ queue'[Len(queue)] = 0
          /\ \A i \in 1 .. Len(queue) - 1 : queue'[i] = Tail(queue)[i]
      BY <1>2, <2>2
    <3> QED BY <1>2, <3>1
  <2> QED BY <1>1, <2>1, <2>2 DEF Remaining
<1>4. /\ pc' \in [Threads -> Places] /\ \A t \in Threads \ {w} : pc'[t] = pc[t]
      /\ pc'[w] = IF Head(queue) = 0 THEN "exit" ELSE "start"
  BY <1>0, <1>1 DEF Typed, Goto, Places
<1>5. item' \in [Workers -> Futures \cup {0}] /\ \A v \in Workers \ {w} : item'[v] = item[v]
  BY <1>0, <1>1, <1>2 DEF Typed
<1>6. Typed' /\ InsideCall'
  BY <1>0, <1>1, <1>3, <1>4, <1>5 DEF Typed, InsideCall
<1>7. ToSubmit'
  BY <1>0, <1>1, SameToSubmit
<1>8. InQueue'
  <2>1. ASSUME NEW i \in DOMAIN queue', queue'[i] # 0,
               NEW j \in DOMAIN queue', queue'[j] = queue'[i]
        PROVE  i = j /\ state[queue'[i]] \in Waiting
    <3>1. /\ i + 1 \in DOMAIN queue /\ queue'[i] = queue[i + 1] /\ i \in Nat
          /\ j + 1 \in DOMAIN queue /\ queue'[j] = queue[j + 1] /\ j \in Nat
      BY <1>3, <2>1
    <3>2. i + 1 = j + 1 /\ state[queue[i + 1]] \in Waiting
      BY <1>0, <2>1, <3>1 DEF InQueue
    <3> QED BY <3>1, <3>2
  <2> QED BY <1>1, <2>1 DEF InQueue
<1>9. ASSUME NEW v \in Workers, NEW i \in DOMAIN queue', item[v] # 0,
             \A j \in DOMAIN queue : queue[j] # item[v]
      PROVE  queue'[i] # item[v]
  BY <1>3, <1>9
<1>10. ASSUME Head(queue) # 0 PROVE \A i \in DOMAIN queue' : queue'[i] # Head(queue)
  <2>1. 1 \in DOMAIN queue
    BY <1>2
  <2>2. ASSUME NEW i \in DOMAIN queue', queue'[i] = queue[1] PROVE FALSE
    <3>1. i + 1 \in DOMAIN queue /\ queue[i + 1] = queue[1] /\ i \in Nat \ {0}
      BY <1>2, <1>3, <1>10, <2>2
    <3>2. i + 1 = 1
      BY <1>0, <1>2, <1>10, <2>1, <3>1 DEF InQueue
    <3> QED BY <3>1, <3>2
  <2> QED BY <1>2, <2>2
<1>11. ASSUME NEW v \in Workers \ {w}, pc[v] \in AtWork, Head(queue) # 0 PROVE item[v] # Head(queue)
  <2>1. 1 \in DOMAIN queue /\ Head(queue) = queue[1]
    BY <1>2
  <2> QED BY <1>0, <1>11, <2>1 DEF WithWorker
<1>12. WithWorker'
  <2>1. CASE Head(queue) = 0
    BY <1>0, <1>1, <1>4, <1>9, <2>1 DEF WithWorker, AtWork
  <2>2. CASE Head(queue) # 0
    <3>1. item'[w] = Head(queue) /\ pc'[w] = "start"
      BY <1>0, <1>1, <1>4, <2>2 DEF Typed
    <3>2. state[Head(queue)] \in Waiting
      BY <1>0, <1>2, <2>2 DEF InQueue
    <3>3. ASSUME NEW v \in Workers \ {w}, pc'[v] \in AtWork
          PROVE  /\ item'[v] # 0 /\ item'[v] # item'[w]
                 /\ state[item'[v]] \in IF pc'[v] = "start" THEN Waiting ELSE {"RUNNING"}
                 /\ \A i \in DOMAIN queue' : queue'[i] # item'[v]
                 /\ \A u \in Workers \ {w} : pc'[u] \in AtWork /\ item'[u] = item'[v] => u = v
      BY <1>0, <1>4, <1>5, <1>9, <1>11, <2>2, <3>1, <3>3 DEF WithWorker
    <3>4. \A i \in DOMAIN queue' : queue'[i] # item'[w]
      BY <1>10, <2>2, <3>1
    <3> QED BY <1>1, <2>2, <3>1, <3>2, <3>3, <3>4 DEF WithWorker
  <2> QED BY <2>1, <2>2
<1> QED BY <1>1, <1>6, <1>7, <1>8, <1>12 DEF IInv

\* Of a worker that changes the state of its item, which nobody else has.
LEMMA WorkKeeps ==
  ASSUME IInv, NEW w \in Workers, pc[w] \in AtWork,
         NEW s \in Done \cup {"RUNNING"}, state' = [state EXCEPT ![item[w]] = s],
         UNCHANGED <<todo, item, queue>>,
         pc' \in [Threads -> Places],
         \A v \in Workers \ {w} : pc'[v] = pc[v],
         pc'[w] \in AtWork => pc'[w] = "run" /\ s = "RUNNING",
         \A c \in Clients : pc'[c] # "call" => pc[c] # "call"
  PROVE  IInv'
<1>0. Typed /\ InsideCall /\ ToSubmit /\ InQueue /\ WithWorker
  BY DEF IInv
<1>1. /\ item[w] # 0 /\ item[w] \in Futures
      /\ state[item[w]] \in Waiting \cup {"RUNNING"}
  BY <1>0 DEF Typed, WithWorker
<1>2. state'[item[w]] = s /\ \A f \in Futures \ {item[w]} : state'[f] = state[f]
  BY <1>0, <1>1 DEF Typed
<1>3. Typed' /\ InsideCall'
  BY <1>0 DEF Typed, InsideCall
<1>4. ToSubmit'
  BY <1>0, <1>1, <1>2, SameToSubmit DEF Waiting
<1>5. InQueue'
  <2>1. \A i \in DOMAIN queue : queue[i] # 0 => queue[i] \in Futures \ {item[w]}
    BY <1>0 DEF Typed, WithWorker
  <2> QED BY <1>0, <1>2, <2>1 DEF InQueue
<1>6. WithWorker'
  <2>1. \A v \in Workers \ {w} : pc[v] \in AtWork => item[v] \in Futures \ {item[w]}
    BY <1>0 DEF Typed, WithWorker
  <2> QED BY <1>0, <1>2, <2>1 DEF WithWorker, AtWork
<1> QED BY <1>3, <1>4, <1>5, <1>6 DEF IInv

\* A worker starts what it has, or lets it be.
LEMMA StartKeeps ==
  ASSUME IInv, NEW w \in Workers, Start(w)
  PROVE  IInv' /\ \A f \in Futures : state'[f] = state[f] \/ Moves(f)
<1>0. /\ Typed /\ w \in Threads /\ w \notin Clients /\ Clients \subseteq Threads
      /\ Workers \subseteq Threads /\ pc[w] = "start" /\ pc[w] \in AtWork
      /\ UNCHANGED <<todo, item, queue>>
  BY PoolAssumption DEF IInv, Threads, Start, AtWork
<1>1. \/ /\ state[item[w]] = "CANCELLED" /\ Goto(w, "get")
         /\ state' = [state EXCEPT ![item[w]] = "CANCELLED_AND_NOTIFIED"]
      \/ /\ state[item[w]] = "PENDING" /\ Goto(w, "run")
         /\ state' = [state EXCEPT ![item[w]] = "RUNNING"]
  BY DEF Start
<1>2. /\ pc' \in [Threads -> Places] /\ \A t \in Threads \ {w} : pc'[t] = pc[t]
      /\ pc'[w] = IF state[item[w]] = "CANCELLED" THEN "get" ELSE "run"
  BY <1>0, <1>1 DEF Typed, Goto, Places
<1>3. IInv'
  BY <1>0, <1>1, <1>2, WorkKeeps DEF Done, AtWork
<1>4. \A f \in Futures : state'[f] = state[f] \/ Moves(f)
  BY <1>0, <1>1 DEF Typed, Moves
<1> QED BY <1>3, <1>4

\* A worker is through with what it has.
LEMMA FinishKeeps ==
  ASSUME IInv, NEW w \in Workers, Finish(w)
  PROVE  IInv' /\ \A f \in Futures : state'[f] = state[f] \/ Moves(f)
<1>0. /\ Typed /\ w \in Threads /\ w \notin Clients /\ Clients \subseteq Threads
      /\ Workers \subseteq Threads /\ pc[w] = "run" /\ pc[w] \in AtWork
      /\ UNCHANGED <<todo, item, queue>>
      /\ state' = [state EXCEPT ![item[w]] = "FINISHED"]
      /\ WakeAndGoto(item[w], w, "callbacks")
      /\ "callbacks" \in Places
  BY PoolAssumption DEF IInv, Threads, Finish, AtWork, Places
<1>1. /\ pc' \in [Threads -> Places] /\ \A v \in Workers \ {w} : pc'[v] = pc[v]
      /\ pc'[w] = "callbacks"
      /\ \A c \in Clients : pc'[c] # "call" => pc[c] # "call"
  BY <1>0, Wakes
<1>2. IInv'
  BY <1>0, <1>1, WorkKeeps DEF Done, AtWork
<1>3. state[item[w]] = "RUNNING"
  BY <1>0 DEF IInv, WithWorker
<1>4. \A f \in Futures : state'[f] = state[f] \/ Moves(f)
  BY <1>0, <1>3 DEF Typed, Moves
<1> QED BY <1>2, <1>4

-----------------------------------------------------------------------------
(* One outcome *)

\* Initially nothing was submitted.
LEMMA InitHolds == Init => IInv
<1> SUFFICES ASSUME Init PROVE IInv
  OBVIOUS
<1>1. todo \in Programs /\ todo \in [Clients -> Seq(Call)]
  BY ProgramAssumption DEF Init
<1>2. Typed
  BY <1>1 DEF Init, Typed, Places, Threads
<1>3. InsideCall
  BY DEF Init, InsideCall, Threads
<1>4. ToSubmit
  <2>1. ASSUME NEW c \in Clients, NEW i \in DOMAIN todo[c], Submits(c, i)
        PROVE  /\ Len(todo[c][i].fs) = 1
               /\ \A d \in Clients : \A j \in DOMAIN todo[d] :
                     Submits(d, j) /\ todo[d][j].fs = todo[c][i].fs => c = d /\ i = j
    BY <1>1, <2>1, ProgramAssumption DEF Submits
  <2>2. ASSUME NEW c \in Clients, NEW i \in DOMAIN todo[c], Submits(c, i)
        PROVE  todo[c][i].fs[1] \in Futures
    <3>1. todo[c][i] \in Call /\ Len(todo[c][i].fs) = 1
      BY <1>1, <2>1, <2>2
    <3>2. todo[c][i].fs \in Seq(Futures)
      BY <3>1 DEF Call
    <3> QED BY <3>1, <3>2
  <2> QED BY <2>1, <2>2 DEF Init, ToSubmit
<1>5. InQueue /\ WithWorker
  BY PoolAssumption DEF Init, InQueue, WithWorker, AtWork, Threads
<1> QED BY <1>2, <1>3, <1>4, <1>5 DEF IInv

\* Every step keeps the invariant and moves futures one way.
LEMMA EachStep ==
  IInv /\ [Next]_vars => IInv' /\ \A f \in Futures : state'[f] = state[f] \/ Moves(f)
<1> SUFFICES ASSUME IInv, [Next]_vars
             PROVE  IInv' /\ \A f \in Futures : state'[f] = state[f] \/ Moves(f)
  OBVIOUS
<1>1. ASSUME NEW c \in Clients, ClientStep(c)
      PROVE  IInv' /\ \A f \in Futures : state'[f] = state[f] \/ Moves(f)
  <2>1. CASE Submit(c)
    BY <2>1, SubmitKeeps
  <2>2. CASE Cancel(c)
    BY <2>2, CancelKeeps
  <2>3. CASE Shutdown(c)
    BY <2>3, ShutdownKeeps
  <2>4. CASE ~(Submit(c) \/ Cancel(c) \/ Shutdown(c))
    <3>1. Aside
      BY <1>1, <2>4, AsideSteps DEF ClientStep
    <3> QED BY <3>1, AsideKeeps DEF Aside
  <2> QED BY <2>1, <2>2, <2>3, <2>4
<1>2. ASSUME NEW w \in Workers, WorkerStep(w)
      PROVE  IInv' /\ \A f \in Futures : state'[f] = state[f] \/ Moves(f)
  <2>1. CASE GetItem(w)
    BY <2>1, GetKeeps
  <2>2. CASE Start(w)
    BY <2>2, StartKeeps
  <2>3. CASE Finish(w)
    BY <2>3, FinishKeeps
  <2>4. CASE Invoke(w, item[w])
    BY <2>4, AsideOfWorkers, AsideKeeps DEF Aside
  <2> QED BY <1>2, <2>1, <2>2, <2>3, <2>4 DEF WorkerStep
<1>3. CASE UNCHANGED vars
  BY <1>3 DEF vars, IInv, Typed, InsideCall, ToSubmit, InQueue, WithWorker, Submits
<1> QED BY <1>1, <1>2, <1>3 DEF Next

\* Whatever clients and workers do, and however many they are, a future is
\* cancelled before it starts or runs once, and does not change its mind.
THEOREM EachFutureHasOneOutcome == Spec => OneOutcome
<1>1. IInv /\ [Next]_vars
        => [\A f \in Futures :
              <<state[f], state'[f]>> \in
                {<<s, s>> : s \in {state[f]}} \cup
                {<<"absent", "PENDING">>, <<"absent", "refused">>,
                 <<"PENDING", "RUNNING">>, <<"RUNNING", "FINISHED">>,
                 <<"PENDING", "CANCELLED">>, <<"CANCELLED", "CANCELLED_AND_NOTIFIED">>}]_vars
  BY EachStep DEF Moves
<1>2. IInv /\ [Next]_vars => IInv'
  BY EachStep
<1> QED BY InitHolds, <1>1, <1>2, PTL DEF Spec, OneOutcome

-----------------------------------------------------------------------------
(* Callbacks *)

Names == Clients \X Nat

ListsTyped ==
  /\ callbacks \in [Futures -> Seq(Names)]
  /\ rest \in [Threads -> Seq(Names)]
  /\ called \in [Futures -> Seq(Names)]

\* Methods of one future.
AboutOne ==
  \A c \in Clients : \A i \in DOMAIN todo[c] :
     todo[c][i].op \in {"cancel", "callback"} => Len(todo[c][i].fs) = 1

\* The call that adds a callback is over, or in the course of calling it.
Made(k) ==
  /\ Len(todo[k[1]]) <= k[2]
  /\ Len(todo[k[1]]) = k[2] => pc[k[1]] = "callbacks"

\* The callbacks that threads still have to call, and all there are.
Ahead(f) == UNION {Range(rest[t]) : t \in Callers(f)}
Known(f) == Range(callbacks[f]) \cup Range(called[f]) \cup Ahead(f)

\* The course of the callbacks of a future: they are collected until it is done,
\* and then each is with one of those that call them.
Course(f) ==
  /\ \A k \in Known(f) : Made(k)
  /\ IsInjective(callbacks[f])
  /\ state[f] \notin Done => Callers(f) = {} /\ called[f] = <<>>
  /\ IsInjective(called[f])
  /\ \A t \in Callers(f) :
        /\ IsInjective(rest[t]) /\ Range(rest[t]) \cap Range(called[f]) = {}
        /\ \A u \in Callers(f) \ {t} : Range(rest[t]) \cap Range(rest[u]) = {}
  /\ state[f] \in Done => Range(callbacks[f]) \subseteq Range(called[f]) \cup Ahead(f)

CallbackInv == ListsTyped /\ AboutOne /\ \A f \in Futures : Course(f)

-----------------------------------------------------------------------------
(* Lists without repetition *)

LEMMA EmptyList == IsInjective(<<>>) /\ Range(<<>>) = {}
  BY DEF IsInjective, Range

LEMMA OneElement ==
  ASSUME NEW k
  PROVE  IsInjective(<<k>>) /\ Range(<<k>>) = {k}
<1>1. DOMAIN <<k>> = {1} /\ <<k>>[1] = k
  OBVIOUS
<1> QED BY <1>1 DEF IsInjective, Range

LEMMA OneAdded ==
  ASSUME NEW S, NEW s \in Seq(S), NEW k \in S, IsInjective(s), k \notin Range(s)
  PROVE  IsInjective(Append(s, k)) /\ Range(Append(s, k)) = Range(s) \cup {k}
<1> DEFINE n == Len(s)
<1>1. /\ n \in Nat /\ DOMAIN s = 1 .. n /\ DOMAIN Append(s, k) = 1 .. n + 1
      /\ \A i \in 1 .. n : Append(s, k)[i] = s[i]
      /\ Append(s, k)[n + 1] = k
  OBVIOUS
<1>2. 1 .. n + 1 = (1 .. n) \cup {n + 1}
  BY <1>1
<1> QED BY <1>1, <1>2 DEF IsInjective, Range

LEMMA FirstTaken ==
  ASSUME NEW S, NEW s \in Seq(S), IsInjective(s), s # <<>>
  PROVE  /\ IsInjective(Tail(s)) /\ Range(Tail(s)) = Range(s) \ {Head(s)}
         /\ Head(s) \in Range(s) /\ Head(s) \in S /\ Tail(s) \in Seq(S)
<1> DEFINE n == Len(s)
<1>1. /\ n \in Nat \ {0} /\ DOMAIN s = 1 .. n /\ DOMAIN Tail(s) = 1 .. n - 1
      /\ \A i \in 1 .. n - 1 : Tail(s)[i] = s[i + 1]
      /\ Head(s) = s[1] /\ Tail(s) \in Seq(S) /\ Head(s) \in S
  OBVIOUS
<1>2. \A i \in 1 .. n : i # 1 => i - 1 \in 1 .. n - 1 /\ Tail(s)[i - 1] = s[i]
  BY <1>1
<1>3. \A i \in 1 .. n - 1 : i + 1 \in 1 .. n /\ i + 1 # 1
  BY <1>1
<1>4. IsInjective(Tail(s))
  BY <1>1, <1>3 DEF IsInjective
<1>5. Range(Tail(s)) \subseteq Range(s) \ {Head(s)}
  BY <1>1, <1>3 DEF IsInjective, Range
<1>6. ASSUME NEW x \in Range(s) \ {Head(s)} PROVE x \in Range(Tail(s))
  <2>1. PICK i \in 1 .. n : x = s[i]
    BY <1>1 DEF Range
  <2>2. i # 1
    BY <1>1, <2>1
  <2>3. i - 1 \in DOMAIN Tail(s) /\ x = Tail(s)[i - 1]
    BY <1>1, <1>2, <2>1, <2>2
  <2> QED BY <2>3 DEF Range
<1> QED BY <1>1, <1>4, <1>5, <1>6 DEF Range

-----------------------------------------------------------------------------
(* What a step does to the callbacks of one future *)

\* None of them.
LEMMA CourseStays ==
  ASSUME NEW f, Course(f), \A k \in Known(f) : Made(k)',
         callbacks'[f] = callbacks[f], called'[f] = called[f], Callers(f)' = Callers(f),
         \A t \in Callers(f) : rest'[t] = rest[t], state'[f] \in Done <=> state[f] \in Done
  PROVE  Course(f)'
<1>1. Ahead(f)' = Ahead(f) /\ Known(f)' = Known(f)
  BY DEF Ahead, Known
<1> QED BY <1>1 DEF Course

\* The future is done: one thread calls them all.
LEMMA CourseBegins ==
  ASSUME NEW f, Course(f), \A k \in Known(f) : Made(k)',
         callbacks'[f] = callbacks[f], called'[f] = called[f],
         NEW t, Callers(f)' = {t}, rest'[t] = callbacks[f],
         state[f] \notin Done, state'[f] \in Done
  PROVE  Course(f)'
<1>1. Ahead(f)' = Range(callbacks[f]) /\ Range(called[f]) = {}
  BY EmptyList DEF Ahead, Course
<1>2. Known(f)' = Known(f)
  BY <1>1, EmptyList DEF Known, Ahead, Course
<1>3. called[f] = <<>> /\ IsInjective(callbacks[f])
  BY DEF Course
<1>4. \A u \in Callers(f)' : u = t /\ rest'[u] = callbacks[f]
  OBVIOUS
<1>5. \A u \in Callers(f)' :
         /\ IsInjective(rest'[u]) /\ Range(rest'[u]) \cap Range(called'[f]) = {}
         /\ Callers(f)' \ {u} = {}
  BY <1>1, <1>3, <1>4
<1>6. IsInjective(called'[f]) /\ IsInjective(callbacks'[f])
  BY <1>3, EmptyList
<1> QED BY <1>1, <1>2, <1>5, <1>6 DEF Course

\* One more is collected.
LEMMA CourseGrows ==
  ASSUME NEW f, Course(f), \A k \in Known(f) : Made(k)',
         NEW k \in Names, ~Made(k), Made(k)', callbacks[f] \in Seq(Names),
         callbacks'[f] = Append(callbacks[f], k), called'[f] = called[f],
         Callers(f)' = Callers(f), state'[f] = state[f], state[f] \notin Done
  PROVE  Course(f)'
<1>1. Callers(f) = {} /\ called[f] = <<>> /\ IsInjective(callbacks[f]) /\ k \notin Range(callbacks[f])
  BY DEF Course, Known
<1>2. IsInjective(callbacks'[f]) /\ Range(callbacks'[f]) = Range(callbacks[f]) \cup {k}
  BY <1>1, OneAdded
<1>3. Known(f)' = Known(f) \cup {k}
  BY <1>1, <1>2 DEF Known, Ahead
<1> QED BY <1>1, <1>2, <1>3, EmptyList DEF Course

\* One is added late, and called by the thread that adds it.
LEMMA CourseGoesOn ==
  ASSUME NEW f, Course(f), \A k \in Known(f) : Made(k)',
         NEW k, ~Made(k), Made(k)', NEW t, t \notin Callers(f), Callers(f)' = Callers(f) \cup {t},
         callbacks'[f] = callbacks[f], called'[f] = called[f], rest'[t] = <<k>>,
         \A u \in Callers(f) : rest'[u] = rest[u], state'[f] = state[f], state[f] \in Done
  PROVE  Course(f)'
<1>1. IsInjective(rest'[t]) /\ Range(rest'[t]) = {k}
  BY OneElement
<1>2. Ahead(f)' = Ahead(f) \cup {k}
  BY <1>1 DEF Ahead
<1>3. Known(f)' = Known(f) \cup {k}
  BY <1>2 DEF Known
<1>4. k \notin Range(called[f]) /\ \A u \in Callers(f) : k \notin Range(rest[u])
  BY DEF Course, Known, Ahead
<1>5. ASSUME NEW u \in Callers(f)'
      PROVE  /\ IsInjective(rest'[u]) /\ Range(rest'[u]) \cap Range(called'[f]) = {}
             /\ \A v \in Callers(f)' \ {u} : Range(rest'[u]) \cap Range(rest'[v]) = {}
  <2>1. CASE u = t
    BY <1>1, <1>4, <2>1
  <2>2. CASE u # t
    <3>1. u \in Callers(f) /\ rest'[u] = rest[u]
      BY <1>5, <2>2
    <3> QED BY <1>1, <1>4, <3>1 DEF Course
  <2> QED BY <2>1, <2>2
<1>6. IsInjective(callbacks[f]) /\ IsInjective(called[f]) /\ \A j \in Known(f)' : Made(j)'
  BY <1>3 DEF Course
<1>7. Range(callbacks[f]) \subseteq Range(called[f]) \cup Ahead(f)'
  BY <1>2 DEF Course
<1> QED BY <1>5, <1>6, <1>7 DEF Course

\* One is called.
LEMMA CourseAdvances ==
  ASSUME NEW f, Course(f), \A k \in Known(f) : Made(k)',
         NEW t \in Callers(f), rest[t] # <<>>, rest[t] \in Seq(Names), called[f] \in Seq(Names),
         called'[f] = Append(called[f], Head(rest[t])), rest'[t] = Tail(rest[t]),
         callbacks'[f] = callbacks[f], Callers(f)' = Callers(f),
         \A u \in Callers(f) \ {t} : rest'[u] = rest[u], state'[f] = state[f]
  PROVE  Course(f)'
<1> DEFINE k == Head(rest[t])
<1>1. /\ IsInjective(rest[t]) /\ Range(rest[t]) \cap Range(called[f]) = {}
      /\ \A u \in Callers(f) \ {t} : Range(rest[t]) \cap Range(rest[u]) = {}
      /\ IsInjective(called[f]) /\ state[f] \in Done
  BY DEF Course
<1>2. /\ k \in Range(rest[t]) /\ k \in Names
      /\ IsInjective(rest'[t]) /\ Range(rest'[t]) = Range(rest[t]) \ {k}
  BY <1>1, FirstTaken
<1>3. IsInjective(called'[f]) /\ Range(called'[f]) = Range(called[f]) \cup {k}
  BY <1>1, <1>2, OneAdded
<1> HIDE DEF k
<1>4. Ahead(f)' \cup {k} = Ahead(f)
  <2>1. \A u \in Callers(f) \ {t} : Range(rest'[u]) = Range(rest[u])
    OBVIOUS
  <2>2. Range(rest'[t]) \cup {k} = Range(rest[t])
    BY <1>2
  <2>3. \A j : j \in Ahead(f) <=> \E u \in Callers(f) : j \in Range(rest[u])
    BY DEF Ahead
  <2>4. \A j : j \in Ahead(f)' <=> \E u \in Callers(f) : j \in Range(rest'[u])
    BY DEF Ahead
  <2>5. \A j : j \in Ahead(f)' \/ j = k <=> j \in Ahead(f)
    BY <2>1, <2>2, <2>3, <2>4
  <2> QED BY <2>5
<1>5. Known(f)' = Known(f)
  BY <1>3, <1>4 DEF Known
<1>6. ASSUME NEW u \in Callers(f)
      PROVE  /\ IsInjective(rest'[u]) /\ Range(rest'[u]) \cap Range(called'[f]) = {}
             /\ \A v \in Callers(f) \ {u} : Range(rest'[u]) \cap Range(rest'[v]) = {}
  <2>1. /\ IsInjective(rest[u]) /\ Range(rest[u]) \cap Range(called[f]) = {}
        /\ \A v \in Callers(f) \ {u} : Range(rest[u]) \cap Range(rest[v]) = {}
    BY DEF Course
  <2>2. \A v \in Callers(f) : Range(rest'[v]) \subseteq Range(rest[v])
    BY <1>2
  <2>3. IsInjective(rest'[u]) /\ k \notin Range(rest'[u])
    BY <1>1, <1>2, <2>1
  <2>4. Range(rest'[u]) \cap Range(called'[f]) = {}
    BY <1>3, <2>1, <2>2, <2>3
  <2>5. ASSUME NEW v \in Callers(f) \ {u} PROVE Range(rest'[u]) \cap Range(rest'[v]) = {}
    BY <2>1, <2>2, <2>5
  <2> QED BY <2>3, <2>4, <2>5
<1> QED BY <1>1, <1>3, <1>4, <1>5, <1>6 DEF Course

\* A thread has called all it had to call.
LEMMA CourseEnds ==
  ASSUME NEW f, Course(f), \A k \in Known(f) : Made(k)',
         NEW t \in Callers(f), rest[t] = <<>>, Callers(f)' = Callers(f) \ {t},
         callbacks'[f] = callbacks[f], called'[f] = called[f],
         \A u \in Callers(f) \ {t} : rest'[u] = rest[u], state'[f] = state[f]
  PROVE  Course(f)'
<1>1. Ahead(f)' = Ahead(f)
  BY EmptyList DEF Ahead
<1>2. Known(f)' = Known(f)
  BY <1>1 DEF Known
<1> QED BY <1>1, <1>2 DEF Course

-----------------------------------------------------------------------------
(* What a step of one thread does to the lists of the others *)

Others(u) ==
  \A t \in Threads \ {u} :
     /\ rest'[t] = rest[t]
     /\ pc'[t] = "callbacks" <=> pc[t] = "callbacks"
     /\ t \in Clients => todo'[t] = todo[t]
     /\ t \in Workers => item'[t] = item[t]

\* A client is in a call, or through with it.
GoesOn(c) ==
  \/ todo'[c] = todo[c] /\ (pc[c] = "callbacks" => pc'[c] = "callbacks")
  \/ todo'[c] = Tail(todo[c]) /\ todo[c] # <<>>

\* A step of a thread that is not calling callbacks and does not begin to.
Silent(u) ==
  /\ pc[u] # "callbacks" /\ pc'[u] # "callbacks"
  /\ UNCHANGED <<callbacks, called>>
  /\ \A f \in Futures : state'[f] \in Done <=> state[f] \in Done

\* One callback, or the end.
Invokes(t, f) ==
  \/ /\ rest[t] # <<>> /\ pc'[t] = "callbacks"
     /\ called' = [called EXCEPT ![f] = Append(@, Head(rest[t]))]
     /\ rest' = [rest EXCEPT ![t] = Tail(@)]
     /\ UNCHANGED <<state, callbacks, todo, item>>
  \/ /\ rest[t] = <<>> /\ pc'[t] # "callbacks"
     /\ UNCHANGED <<state, callbacks, called, rest>>

LEMMA MadeStays ==
  ASSUME Typed, NEW u \in Threads, Others(u), u \in Clients => GoesOn(u),
         NEW k \in Names, Made(k)
  PROVE  Made(k)'
<1> DEFINE c == k[1]
<1>1. c \in Clients /\ k[2] \in Nat /\ todo[c] \in Seq(Call) /\ c \in Threads
  BY DEF Names, Typed, Threads
<1>2. CASE todo'[c] = todo[c] /\ (pc[c] = "callbacks" => pc'[c] = "callbacks")
  BY <1>2 DEF Made
<1>3. CASE todo'[c] = Tail(todo[c]) /\ todo[c] # <<>>
  <2>1. Len(todo'[c]) = Len(todo[c]) - 1 /\ Len(todo[c]) \in Nat
    BY <1>1, <1>3
  <2> QED BY <1>1, <2>1 DEF Made
<1> QED BY <1>1, <1>2, <1>3 DEF Others, GoesOn

\* Those of the others that call callbacks of a future.
LEMMA OtherCallers ==
  ASSUME NEW u, Others(u), NEW f
  PROVE  \A t \in Threads \ {u} : t \in Callers(f)' <=> t \in Callers(f)
<1> SUFFICES ASSUME NEW t \in Threads \ {u} PROVE t \in Callers(f)' <=> t \in Callers(f)
  OBVIOUS
<1>1. CASE t \in Clients
  BY <1>1 DEF Others, Callers, F, This
<1>2. CASE t \notin Clients
  BY <1>2 DEF Others, Callers, Threads
<1> QED BY <1>1, <1>2

\* A client is alone with its pc, its calls and its list.
LEMMA ClientOthers ==
  ASSUME Typed, InsideCall, ListsTyped, NEW c \in Clients, ClientStep(c)
  PROVE  Others(c) /\ GoesOn(c)
<1>0. /\ pc \in [Threads -> Places] /\ todo \in [Clients -> Seq(Call)]
      /\ rest \in [Threads -> Seq(Names)]
      /\ c \in Threads /\ Clients \subseteq Threads /\ Workers \subseteq Threads
      /\ c \notin Workers
  BY PoolAssumption DEF Typed, ListsTyped, Threads
<1>1. UNCHANGED item
  BY DEF ClientStep, Skip, Submit, Cancel, AddDoneCallback, Invoke, Result, ResultTimesOut,
     ResultReturns, AcquireFuture, Install, EventOrTimeOut, RemoveWaiter, WaitReturns,
     Shutdown, JoinThreads
<1>2. ASSUME NEW place, Goto(c, place)
      PROVE  pc'[c] = place /\ \A t \in Threads \ {c} : pc'[t] = pc[t]
  BY <1>0, <1>2 DEF Goto
<1>3. ASSUME Fewer(c)
      PROVE  todo'[c] = Tail(todo[c]) /\ \A d \in Clients \ {c} : todo'[d] = todo[d]
  BY <1>0, <1>3 DEF Fewer
<1>4. ASSUME Return(c) PROVE Fewer(c) /\ Goto(c, "call")
  BY <1>4 DEF Return, Fewer
<1>5. ASSUME UNCHANGED rest \/ \E list : rest' = [rest EXCEPT ![c] = list]
      PROVE  \A t \in Threads \ {c} : rest'[t] = rest[t]
  BY <1>0, <1>5
<1>6. ASSUME \A t \in Threads \ {c} : rest'[t] = rest[t], Return(c), todo[c] # <<>>
      PROVE  Others(c) /\ GoesOn(c)
  BY <1>0, <1>1, <1>2, <1>3, <1>4, <1>6 DEF Others, GoesOn
<1>7. ASSUME \A t \in Threads \ {c} : rest'[t] = rest[t], UNCHANGED todo,
             pc[c] # "callbacks", (\E place : Goto(c, place)) \/ UNCHANGED pc
      PROVE  Others(c) /\ GoesOn(c)
  BY <1>0, <1>1, <1>2, <1>7 DEF Others, GoesOn
<1>8. CASE Skip(c)
  BY <1>5, <1>6, <1>8 DEF Skip
<1>9. CASE Submit(c)
  <2>1. /\ pc[c] = "call" /\ UNCHANGED rest /\ todo[c] # <<>>
        /\ \/ Return(c)
           \/ Fewer(c) /\ (UNCHANGED pc \/ \E w \in Workers : pc[w] = "unborn" /\ Goto(w, "get"))
    BY <1>9 DEF Submit, Fewer
  <2>2. ASSUME NEW w \in Workers, pc[w] = "unborn", Goto(w, "get"), Fewer(c)
        PROVE  Others(c) /\ GoesOn(c)
    <3>1. pc'[w] = "get" /\ \A t \in Threads \ {w} : pc'[t] = pc[t]
      BY <1>0, <2>2 DEF Goto
    <3> QED BY <1>0, <1>1, <1>3, <2>1, <2>2, <3>1 DEF Others, GoesOn
  <2>3. CASE Fewer(c) /\ UNCHANGED pc
    BY <1>0, <1>1, <1>3, <2>1, <2>3 DEF Others, GoesOn
  <2> QED BY <1>5, <1>6, <2>1, <2>2, <2>3
<1>10. CASE Cancel(c)
  <2>1. todo[c] # <<>> /\ pc[c] = "call"
    BY <1>10 DEF Cancel, Calls
  <2>2. CASE ~MayCancel(F(c))
    BY <1>5, <1>6, <1>10, <2>1, <2>2 DEF Cancel
  <2>3. CASE MayCancel(F(c))
    <3>1. /\ WakeAndGoto(F(c), c, "callbacks") /\ UNCHANGED todo
          /\ rest' = [rest EXCEPT ![c] = callbacks[F(c)]]
      BY <1>10, <2>3 DEF Cancel
    <3>2. pc'[c] = "callbacks" /\ \A t \in Threads \ {c} : pc'[t] = "callbacks" <=> pc[t] = "callbacks"
      BY <1>0, <3>1 DEF WakeAndGoto, Woken
    <3> QED BY <1>0, <1>1, <1>5, <3>1, <3>2 DEF Others, GoesOn
  <2> QED BY <2>2, <2>3
<1>11. CASE AddDoneCallback(c)
  BY <1>5, <1>6, <1>7, <1>11 DEF AddDoneCallback, Calls
<1>12. CASE Invoke(c, F(c))
  <2>1. /\ pc[c] = "callbacks" /\ todo[c] # <<>>
        /\ \/ UNCHANGED <<todo, pc>> /\ rest' = [rest EXCEPT ![c] = Tail(@)]
           \/ Return(c) /\ UNCHANGED rest
    BY <1>0, <1>12 DEF Invoke, InsideCall
  <2> QED BY <1>0, <1>1, <1>5, <1>6, <2>1 DEF Others, GoesOn
<1>13. CASE Result(c) \/ ResultTimesOut(c) \/ ResultReturns(c)
  BY <1>5, <1>6, <1>7, <1>13 DEF InsideCall, Result, ResultTimesOut, ResultReturns, Calls
<1>14. CASE AcquireFuture(c)
  BY <1>5, <1>7, <1>14 DEF AcquireFuture
<1>15. CASE Install(c)
  <2>1. todo[c] # <<>> /\ pc[c] = "call" /\ UNCHANGED rest
    BY <1>15 DEF Install, Waits
  <2>2. Return(c) \/ (UNCHANGED todo /\ \E place : Goto(c, place))
    BY <1>15, Zenon DEF Install
  <2> QED BY <1>5, <1>6, <1>7, <2>1, <2>2
<1>16. CASE EventOrTimeOut(c)
  BY <1>5, <1>7, <1>16 DEF EventOrTimeOut
<1>17. CASE RemoveWaiter(c) \/ WaitReturns(c)
  BY <1>5, <1>6, <1>7, <1>17 DEF InsideCall, RemoveWaiter, WaitReturns
<1>18. CASE Shutdown(c) \/ JoinThreads(c)
  BY <1>5, <1>6, <1>7, <1>18 DEF InsideCall, Shutdown, JoinThreads, Calls
<1> QED BY <1>8, <1>9, <1>10, <1>11, <1>12, <1>13, <1>14, <1>15, <1>16, <1>17, <1>18
        DEF ClientStep

\* They are names, and stay so for what has been made.
LEMMA KnownStay ==
  ASSUME Typed, CallbackInv, NEW u \in Threads, Others(u), u \in Clients => GoesOn(u),
         NEW f \in Futures
  PROVE  Course(f) /\ \A k \in Known(f) : Made(k)'
<1>1. Course(f) /\ ListsTyped
  BY DEF CallbackInv
<1>2. Range(callbacks[f]) \subseteq Names /\ Range(called[f]) \subseteq Names
  <2>1. callbacks[f] \in Seq(Names) /\ called[f] \in Seq(Names)
    BY <1>1 DEF ListsTyped
  <2> QED BY <2>1 DEF Range
<1>3. \A t \in Callers(f) : Range(rest[t]) \subseteq Names
  <2>1. \A t \in Callers(f) : rest[t] \in Seq(Names)
    BY <1>1 DEF ListsTyped, Callers
  <2> QED BY <2>1 DEF Range
<1>4. Known(f) \subseteq Names
  BY <1>2, <1>3 DEF Known, Ahead
<1> QED BY <1>1, <1>4, MadeStays DEF Course

LEMMA SilentKeeps ==
  ASSUME Typed, CallbackInv, NEW u \in Threads, Others(u), u \in Clients => GoesOn(u), Silent(u),
         NEW f \in Futures
  PROVE  Course(f)'
<1>1. Course(f) /\ \A k \in Known(f) : Made(k)'
  BY KnownStay
<1>2. \A t \in Threads : t \in Callers(f)' <=> t \in Callers(f)
  BY OtherCallers DEF Silent, Callers
<1>3. Callers(f)' = Callers(f) /\ \A t \in Callers(f) : rest'[t] = rest[t]
  BY <1>2 DEF Callers, Others, Silent
<1> QED BY <1>1, <1>3, CourseStays DEF Silent

\* The future whose callbacks a thread calls.
Whose(t) == IF t \in Clients THEN F(t) ELSE item[t]

LEMMA InvokesKeeps ==
  ASSUME Typed, CallbackInv, NEW t \in Threads, Others(t), t \in Clients => GoesOn(t),
         pc[t] = "callbacks", Invokes(t, Whose(t)), NEW f \in Futures
  PROVE  Course(f)'
<1>1. Course(f) /\ \A k \in Known(f) : Made(k)'
  BY KnownStay
<1>2. \A u \in Threads \ {t} : (u \in Callers(f)' <=> u \in Callers(f)) /\ rest'[u] = rest[u]
  BY OtherCallers DEF Others
<1>3. t \in Callers(f) <=> f = Whose(t)
  BY DEF Callers, Whose
<1>4. called \in [Futures -> Seq(Names)] /\ rest \in [Threads -> Seq(Names)]
  BY DEF CallbackInv, ListsTyped
<1>5. Callers(f) \subseteq Threads /\ Callers(f)' \subseteq Threads
  BY DEF Callers
<1>6. ASSUME t \in Callers(f)' <=> t \in Callers(f) PROVE Callers(f)' = Callers(f)
  BY <1>2, <1>5, <1>6
<1>7. CASE /\ rest[t] # <<>> /\ pc'[t] = "callbacks"
           /\ called' = [called EXCEPT ![Whose(t)] = Append(@, Head(rest[t]))]
           /\ rest' = [rest EXCEPT ![t] = Tail(@)]
           /\ UNCHANGED <<state, callbacks, todo, item>>
  <2>1. t \in Callers(f)' <=> t \in Callers(f)
    BY <1>7 DEF Callers, F, This
  <2>2. Callers(f)' = Callers(f)
    BY <1>6, <2>1
  <2>3. rest'[t] = Tail(rest[t])
    BY <1>4, <1>7
  <2>4. CASE f = Whose(t)
    <3>1. called'[f] = Append(called[f], Head(rest[t]))
      BY <1>4, <1>7, <2>4
    <3>2. t \in Callers(f) /\ rest[t] \in Seq(Names) /\ called[f] \in Seq(Names)
      BY <1>3, <1>4, <2>4
    <3>3. \A u \in Callers(f) \ {t} : rest'[u] = rest[u]
      BY <1>2, <1>5
    <3>4. state'[f] = state[f] /\ callbacks'[f] = callbacks[f] /\ rest[t] # <<>>
      BY <1>7
    <3> QED BY <1>1, <2>2, <2>3, <3>1, <3>2, <3>3, <3>4, CourseAdvances
  <2>5. CASE f # Whose(t)
    <3>1. called'[f] = called[f] /\ t \notin Callers(f)
      BY <1>3, <1>4, <1>7, <2>5
    <3>2. \A u \in Callers(f) : rest'[u] = rest[u]
      BY <1>2, <1>5, <3>1
    <3> QED BY <1>1, <1>7, <2>2, <3>1, <3>2, CourseStays
  <2> QED BY <2>4, <2>5
<1>8. CASE /\ rest[t] = <<>> /\ pc'[t] # "callbacks"
           /\ UNCHANGED <<state, callbacks, called, rest>>
  <2>1. t \notin Callers(f)'
    BY <1>8 DEF Callers
  <2>2. CASE f = Whose(t)
    <3>1. t \in Callers(f) /\ Callers(f)' = Callers(f) \ {t}
      BY <1>2, <1>3, <1>5, <2>1, <2>2
    <3> QED BY <1>1, <1>8, <3>1, CourseEnds
  <2>3. CASE f # Whose(t)
    <3>1. Callers(f)' = Callers(f)
      BY <1>3, <1>6, <2>1, <2>3
    <3> QED BY <1>1, <1>8, <3>1, CourseStays
  <2> QED BY <2>2, <2>3
<1> QED BY <1>7, <1>8 DEF Invokes

\* Of a thread that ends a future.
LEMMA EndingKeeps ==
  ASSUME Typed, CallbackInv, NEW t \in Threads, Others(t), t \in Clients => GoesOn(t),
         pc[t] # "callbacks", pc'[t] = "callbacks", UNCHANGED <<callbacks, called, todo, item>>,
         Whose(t) \in Futures, state[Whose(t)] \notin Done,
         NEW s \in Done, state' = [state EXCEPT ![Whose(t)] = s],
         rest' = [rest EXCEPT ![t] = callbacks[Whose(t)]], NEW f \in Futures
  PROVE  Course(f)'
<1>1. Course(f) /\ \A k \in Known(f) : Made(k)'
  BY KnownStay
<1>2. \A u \in Threads \ {t} : (u \in Callers(f)' <=> u \in Callers(f)) /\ rest'[u] = rest[u]
  BY OtherCallers DEF Others
<1>3. /\ Callers(f) \subseteq Threads /\ Callers(f)' \subseteq Threads
      /\ t \notin Callers(f) /\ (t \in Callers(f)' <=> f = Whose(t))
  BY DEF Callers, Whose, F, This
<1>4. state \in [Futures -> Done \cup {"absent", "refused", "PENDING", "RUNNING"}]
  BY DEF Typed
<1>5. CASE f = Whose(t)
  <2>1. state[f] \notin Done /\ state'[f] \in Done
    BY <1>4, <1>5
  <2>2. Callers(f) = {}
    BY <1>1, <2>1 DEF Course
  <2>3. Callers(f)' = {t}
    BY <1>2, <1>3, <1>5, <2>2
  <2>4. rest'[t] = callbacks[f]
    BY <1>5 DEF CallbackInv, ListsTyped
  <2> QED BY <1>1, <2>1, <2>3, <2>4, CourseBegins
<1>6. CASE f # Whose(t)
  <2>1. Callers(f)' = Callers(f)
    BY <1>2, <1>3, <1>6
  <2>2. state'[f] = state[f] /\ \A u \in Callers(f) : rest'[u] = rest[u]
    BY <1>2, <1>3, <1>4, <1>6
  <2> QED BY <1>1, <2>1, <2>2, CourseStays
<1> QED BY <1>5, <1>6

\* The future a call is about.
LEMMA AboutAFuture ==
  ASSUME Typed, AboutOne, NEW c \in Clients, todo[c] # <<>>, This(c).op \in {"cancel", "callback"}
  PROVE  F(c) \in Futures
<1>1. todo[c] \in Seq(Call) /\ 1 \in DOMAIN todo[c] /\ This(c) = todo[c][1] /\ todo[c][1] \in Call
  <2>1. todo[c] \in Seq(Call)
    BY DEF Typed
  <2> QED BY <2>1 DEF This
<1>2. Len(This(c).fs) = 1 /\ This(c).fs \in Seq(Futures)
  BY <1>1 DEF AboutOne, Call
<1> QED BY <1>2 DEF F

\* A callback that is added now was not there before.
LEMMA NewName ==
  ASSUME Typed, NEW c \in Clients, pc[c] = "call", todo[c] # <<>>, NEW k, k = Callback(c)
  PROVE  /\ k \in Names /\ ~Made(k)
         /\ todo'[c] = Tail(todo[c]) => Made(k)'
         /\ todo'[c] = todo[c] /\ pc'[c] = "callbacks" => Made(k)'
<1>1. Len(todo[c]) \in Nat \ {0} /\ Len(Tail(todo[c])) = Len(todo[c]) - 1
  BY DEF Typed
<1>2. k \in Names /\ k[1] = c /\ k[2] = Len(todo[c])
  BY <1>1 DEF Callback, Names
<1>3. ~Made(k)
  BY <1>2 DEF Made
<1>4. ASSUME todo'[c] = Tail(todo[c]) PROVE Made(k)'
  <2>1. Len(todo'[c]) < k[2]
    BY <1>1, <1>2, <1>4
  <2> QED BY <1>1, <1>2, <1>4, <2>1 DEF Made
<1>5. ASSUME todo'[c] = todo[c], pc'[c] = "callbacks" PROVE Made(k)'
  BY <1>1, <1>2, <1>5 DEF Made
<1> QED BY <1>2, <1>3, <1>4, <1>5

LEMMA AddKeeps ==
  ASSUME Typed, CallbackInv, NEW c \in Clients, Others(c), GoesOn(c), AddDoneCallback(c),
         NEW f \in Futures
  PROVE  Course(f)'
<1>0. Course(f) /\ \A k \in Known(f) : Made(k)'
  BY KnownStay DEF Threads
<1>1. /\ pc[c] = "call" /\ todo[c] # <<>> /\ F(c) \in Futures
      /\ UNCHANGED <<state, called, item>>
      /\ c \in Threads /\ c \notin Callers(f)
      /\ pc \in [Threads -> Places] /\ todo \in [Clients -> Seq(Call)]
      /\ ListsTyped
  BY AboutAFuture DEF AddDoneCallback, Calls, CallbackInv, Threads, Callers, Typed
<1>2. PICK k : k = Callback(c)
  OBVIOUS
<1>3. \A u \in Threads \ {c} : (u \in Callers(f)' <=> u \in Callers(f)) /\ rest'[u] = rest[u]
  BY OtherCallers DEF Others
<1>4. Callers(f) \subseteq Threads /\ Callers(f)' \subseteq Threads
  BY DEF Callers
<1>5. ASSUME c \in Callers(f)' <=> c \in Callers(f) PROVE Callers(f)' = Callers(f)
  BY <1>3, <1>4, <1>5
<1>6. \A u \in Callers(f) : rest'[u] = rest[u]
  BY <1>1, <1>3, <1>4
<1>7. CASE /\ ~IsDone(F(c)) /\ callbacks' = [callbacks EXCEPT ![F(c)] = Append(@, k)]
           /\ Return(c) /\ UNCHANGED rest
  <2>1. todo'[c] = Tail(todo[c]) /\ pc'[c] = "call"
    BY <1>1, <1>7 DEF Return, Goto
  <2>2. k \in Names /\ ~Made(k) /\ Made(k)'
    BY <1>1, <1>2, <2>1, NewName
  <2>3. Callers(f)' = Callers(f)
    <3>1. c \notin Callers(f)'
      BY <2>1 DEF Callers
    <3> QED BY <1>1, <1>5, <3>1
  <2>4. CASE f = F(c)
    <3>1. /\ callbacks[f] \in Seq(Names) /\ callbacks'[f] = Append(callbacks[f], k)
          /\ called'[f] = called[f] /\ state'[f] = state[f] /\ state[f] \notin Done
      BY <1>1, <1>7, <2>4 DEF ListsTyped, IsDone
    <3> QED BY <1>0, <2>2, <2>3, <3>1, CourseGrows
  <2>5. CASE f # F(c)
    <3>1. callbacks'[f] = callbacks[f] /\ called'[f] = called[f] /\ state'[f] = state[f]
      BY <1>1, <1>7, <2>5 DEF ListsTyped
    <3> QED BY <1>0, <1>6, <2>3, <3>1, CourseStays
  <2> QED BY <2>4, <2>5
<1>8. CASE /\ IsDone(F(c)) /\ rest' = [rest EXCEPT ![c] = <<k>>] /\ Goto(c, "callbacks")
           /\ UNCHANGED <<callbacks, todo>>
  <2>1. pc'[c] = "callbacks" /\ todo'[c] = todo[c]
    BY <1>1, <1>8 DEF Goto
  <2>2. k \in Names /\ ~Made(k) /\ Made(k)'
    BY <1>1, <1>2, <2>1, NewName
  <2>3. rest'[c] = <<k>>
    BY <1>1, <1>8 DEF ListsTyped
  <2>4. c \in Callers(f)' <=> f = F(c)
    BY <1>1, <1>8, <2>1 DEF Callers, F, This
  <2>5. CASE f = F(c)
    <3>1. Callers(f)' = Callers(f) \cup {c}
      BY <1>3, <1>4, <1>1, <2>4, <2>5
    <3>2. state[f] \in Done /\ state'[f] = state[f] /\ called'[f] = called[f] /\ callbacks'[f] = callbacks[f]
      BY <1>1, <1>8, <2>5 DEF IsDone
    <3> QED BY <1>0, <1>1, <1>6, <2>2, <2>3, <3>1, <3>2, CourseGoesOn
  <2>6. CASE f # F(c)
    <3>1. Callers(f)' = Callers(f)
      BY <1>1, <1>5, <2>4, <2>6
    <3> QED BY <1>0, <1>1, <1>6, <1>8, <3>1, CourseStays
  <2> QED BY <2>5, <2>6
<1> QED BY <1>2, <1>7, <1>8 DEF AddDoneCallback

\* What a client does.
LEMMA ClientCourses ==
  ASSUME IInv, CallbackInv, NEW c \in Clients, ClientStep(c), NEW f \in Futures
  PROVE  Course(f)'
<1>0. /\ Typed /\ InsideCall /\ ListsTyped /\ AboutOne /\ c \in Threads
      /\ pc \in [Threads -> Places] /\ todo \in [Clients -> Seq(Call)]
      /\ state \in [Futures -> Done \cup {"absent", "refused", "PENDING", "RUNNING"}]
  BY DEF IInv, CallbackInv, Typed, Threads
<1>1. Others(c) /\ GoesOn(c)
  BY <1>0, ClientOthers
<1>2. CASE AddDoneCallback(c)
  BY <1>0, <1>1, <1>2, AddKeeps
<1>3. CASE Invoke(c, F(c))
  <2>1. pc[c] = "callbacks" /\ Whose(c) = F(c)
    BY <1>3 DEF Invoke, Whose
  <2>2. Invokes(c, F(c))
    BY <1>0, <1>3, <2>1 DEF Invoke, Invokes, Return, Goto
  <2> QED BY <1>0, <1>1, <2>1, <2>2, InvokesKeeps
<1>4. CASE Cancel(c) /\ MayCancel(F(c))
  <2>1. /\ pc[c] = "call" /\ todo[c] # <<>> /\ This(c).op = "cancel"
        /\ state' = [state EXCEPT ![F(c)] = "CANCELLED"]
        /\ rest' = [rest EXCEPT ![c] = callbacks[F(c)]]
        /\ WakeAndGoto(F(c), c, "callbacks") /\ state[F(c)] = "PENDING"
        /\ UNCHANGED <<callbacks, called, todo, item>>
    BY <1>4 DEF Cancel, Calls, MayCancel
  <2>2. F(c) \in Futures /\ Whose(c) = F(c)
    BY <1>0, <2>1, AboutAFuture DEF Whose
  <2>3. pc'[c] = "callbacks" /\ "CANCELLED" \in Done /\ "PENDING" \notin Done
    BY <1>0, <2>1, Wakes DEF WakeAndGoto, Done
  <2> QED BY <1>0, <1>1, <2>1, <2>2, <2>3, EndingKeeps
<1>5. CASE Submit(c)
  <2>1. /\ pc[c] = "call" /\ UNCHANGED <<callbacks, called>>
        /\ state' = [state EXCEPT ![F(c)] = "refused"] \/ state' = [state EXCEPT ![F(c)] = "PENDING"]
    BY <1>5 DEF Submit
  <2>2. pc'[c] # "callbacks"
    <3>1. Goto(c, "call") \/ UNCHANGED pc \/ \E w \in Workers : Goto(w, "get")
      BY <1>5 DEF Submit, Return
    <3> QED BY <1>0, <2>1, <3>1, PoolAssumption DEF Goto, Threads
  <2>3. F(c) \in Futures => state[F(c)] = "absent"
    <3>1. todo[c] # <<>> /\ This(c).op = "submit"
      BY <1>5 DEF Submit
    <3>2. 1 \in DOMAIN todo[c] /\ This(c) = todo[c][1]
      BY <1>0, <3>1 DEF This
    <3> QED BY <3>1, <3>2 DEF IInv, ToSubmit, Submits, F
  <2>4. \A g \in Futures : state'[g] \in Done <=> state[g] \in Done
    BY <1>0, <2>1, <2>3 DEF Done
  <2> QED BY <1>0, <1>1, <2>1, <2>2, <2>4, SilentKeeps DEF Silent
<1>6. CASE ~(AddDoneCallback(c) \/ Invoke(c, F(c)) \/ (Cancel(c) /\ MayCancel(F(c))) \/ Submit(c))
  <2>1. UNCHANGED <<callbacks, called, state>> /\ pc[c] # "callbacks"
    BY <1>0, <1>6 DEF ClientStep, Skip, Cancel, Result, ResultTimesOut, ResultReturns,
       AcquireFuture, Install, EventOrTimeOut, RemoveWaiter, WaitReturns, Shutdown,
       JoinThreads, Calls
  <2>2. pc'[c] # "callbacks"
    <3>1. Return(c) \/ UNCHANGED pc
            \/ \E place \in {"sleep", "awake", "remove", "event", "join"} : Goto(c, place)
      <4>1. CASE Install(c)
        BY <4>1, Zenon DEF Install
      <4>2. CASE ~Install(c)
        BY <1>6, <4>2 DEF ClientStep, Skip, Cancel, Result, ResultTimesOut, ResultReturns,
           AcquireFuture, EventOrTimeOut, RemoveWaiter, WaitReturns, Shutdown,
           JoinThreads
      <4> QED BY <4>1, <4>2
    <3> QED BY <1>0, <2>1, <3>1 DEF Return, Goto
  <2> QED BY <1>0, <1>1, <2>1, <2>2, SilentKeeps DEF Silent
<1> QED BY <1>2, <1>3, <1>4, <1>5, <1>6

\* What a worker does.
LEMMA WorkerCourses ==
  ASSUME IInv, CallbackInv, NEW w \in Workers, WorkerStep(w), NEW f \in Futures
  PROVE  Course(f)'
<1>0. /\ Typed /\ ListsTyped /\ WithWorker /\ w \in Threads /\ w \notin Clients
      /\ Workers \subseteq Threads
      /\ pc \in [Threads -> Places] /\ rest \in [Threads -> Seq(Names)]
      /\ item \in [Workers -> Futures \cup {0}]
      /\ state \in [Futures -> Done \cup {"absent", "refused", "PENDING", "RUNNING"}]
  BY PoolAssumption DEF IInv, CallbackInv, ListsTyped, Typed, Threads
<1>1. Others(w)
  <2>1. CASE Finish(w)
    BY <1>0, <2>1 DEF Finish, WakeAndGoto, Woken, Others
  <2>2. CASE GetItem(w)
    <3>1. /\ UNCHANGED <<todo, rest>> /\ \A v \in Workers \ {w} : item'[v] = item[v]
          /\ \E place : Goto(w, place)
      BY <1>0, <2>2 DEF GetItem
    <3> QED BY <1>0, <3>1 DEF Others, Goto
  <2>3. CASE Start(w)
    <3>1. UNCHANGED <<todo, rest, item>> /\ \E place : Goto(w, place)
      BY <2>3 DEF Start
    <3> QED BY <1>0, <3>1 DEF Others, Goto
  <2>4. CASE Invoke(w, item[w])
    <3>1. /\ UNCHANGED <<todo, item>> /\ \A t \in Threads \ {w} : rest'[t] = rest[t]
          /\ UNCHANGED pc \/ \E place : Goto(w, place)
      BY <1>0, <2>4 DEF Invoke
    <3> QED BY <1>0, <3>1 DEF Others, Goto
  <2> QED BY <2>1, <2>2, <2>3, <2>4 DEF WorkerStep
<1>2. CASE Finish(w)
  <2>1. /\ pc[w] = "run" /\ UNCHANGED <<callbacks, called, todo, item>>
        /\ state' = [state EXCEPT ![item[w]] = "FINISHED"]
        /\ rest' = [rest EXCEPT ![w] = callbacks[item[w]]]
        /\ WakeAndGoto(item[w], w, "callbacks")
    BY <1>2 DEF Finish
  <2>2. Whose(w) = item[w] /\ item[w] \in Futures /\ state[item[w]] = "RUNNING"
    BY <1>0, <2>1 DEF Whose, WithWorker, AtWork
  <2>3. pc'[w] = "callbacks" /\ "FINISHED" \in Done /\ "RUNNING" \notin Done
    BY <1>0, <2>1 DEF WakeAndGoto, Done
  <2> QED BY <1>0, <1>1, <2>1, <2>2, <2>3, EndingKeeps
<1>3. CASE Invoke(w, item[w])
  <2>1. pc[w] = "callbacks" /\ Whose(w) = item[w]
    BY <1>0, <1>3 DEF Invoke, Whose
  <2>2. Invokes(w, item[w])
    BY <1>0, <1>3, <2>1 DEF Invoke, Invokes, Goto
  <2> QED BY <1>0, <1>1, <2>1, <2>2, InvokesKeeps
<1>4. CASE GetItem(w)
  <2>1. pc[w] = "get" /\ UNCHANGED <<callbacks, called, state>> /\ (Goto(w, "exit") \/ Goto(w, "start"))
    BY <1>4 DEF GetItem
  <2> QED BY <1>0, <1>1, <2>1, SilentKeeps DEF Silent, Goto
<1>5. CASE Start(w)
  <2>1. /\ pc[w] = "start" /\ UNCHANGED <<callbacks, called>> /\ (Goto(w, "get") \/ Goto(w, "run"))
        /\ \/ /\ state[item[w]] = "CANCELLED"
              /\ state' = [state EXCEPT ![item[w]] = "CANCELLED_AND_NOTIFIED"]
           \/ /\ state[item[w]] = "PENDING"
              /\ state' = [state EXCEPT ![item[w]] = "RUNNING"]
    BY <1>5 DEF Start
  <2>2. \A g \in Futures : state'[g] \in Done <=> state[g] \in Done
    BY <1>0, <2>1 DEF Done
  <2> QED BY <1>0, <1>1, <2>1, <2>2, SilentKeeps DEF Silent, Goto
<1> QED BY <1>2, <1>3, <1>4, <1>5 DEF WorkerStep

\* Lists hold names.
LEMMA ListsStep ==
  ASSUME IInv, CallbackInv, Next
  PROVE  ListsTyped'
<1>0. /\ Typed /\ ListsTyped /\ AboutOne /\ WithWorker /\ Clients \subseteq Threads
      /\ callbacks \in [Futures -> Seq(Names)] /\ rest \in [Threads -> Seq(Names)]
      /\ called \in [Futures -> Seq(Names)] /\ todo \in [Clients -> Seq(Call)]
  BY DEF IInv, CallbackInv, ListsTyped, Typed, Threads
<1>1. ASSUME NEW t \in Threads, NEW f, Invoke(t, f) PROVE ListsTyped'
  <2>1. UNCHANGED callbacks
    BY <1>1 DEF Invoke
  <2>2. CASE /\ rest[t] # <<>> /\ called' = [called EXCEPT ![f] = Append(@, Head(rest[t]))]
             /\ rest' = [rest EXCEPT ![t] = Tail(@)]
    <3>1. rest[t] \in Seq(Names) /\ Head(rest[t]) \in Names /\ Tail(rest[t]) \in Seq(Names)
      BY <1>0, <2>2
    <3>2. f \in Futures => Append(called[f], Head(rest[t])) \in Seq(Names)
      BY <1>0, <3>1
    <3>3. called' \in [Futures -> Seq(Names)]
      BY <1>0, <2>2, <3>2
    <3>4. rest' \in [Threads -> Seq(Names)]
      BY <1>0, <2>2, <3>1
    <3> QED BY <1>0, <2>1, <3>3, <3>4 DEF ListsTyped
  <2>3. CASE UNCHANGED <<called, rest>>
    BY <1>0, <2>1, <2>3 DEF ListsTyped
  <2> QED BY <1>1, <2>2, <2>3 DEF Invoke
<1>2. ASSUME NEW t \in Threads, Whose(t) \in Futures, UNCHANGED <<called, callbacks>>,
             rest' = [rest EXCEPT ![t] = callbacks[Whose(t)]]
      PROVE  ListsTyped'
  BY <1>0, <1>2 DEF ListsTyped
<1>3. ASSUME NEW c \in Clients, AddDoneCallback(c) PROVE ListsTyped'
  <2>1. pc[c] = "call" /\ todo[c] # <<>> /\ UNCHANGED called
    BY <1>3 DEF AddDoneCallback, Calls
  <2>2. Callback(c) \in Names
    BY <1>0, <2>1, NewName
  <2>3. CASE rest' = [rest EXCEPT ![c] = <<Callback(c)>>] /\ UNCHANGED callbacks
    <3>1. <<Callback(c)>> \in Seq(Names)
      BY <2>2
    <3> QED BY <1>0, <2>1, <2>3, <3>1 DEF ListsTyped
  <2>4. CASE /\ callbacks' = [callbacks EXCEPT ![F(c)] = Append(@, Callback(c))]
             /\ UNCHANGED rest
    <3>1. F(c) \in Futures => Append(callbacks[F(c)], Callback(c)) \in Seq(Names)
      BY <1>0, <2>2
    <3> QED BY <1>0, <2>1, <2>4, <3>1 DEF ListsTyped
  <2> QED BY <1>3, <2>3, <2>4 DEF AddDoneCallback
<1>4. ASSUME NEW c \in Clients, Cancel(c) PROVE ListsTyped'
  <2>1. CASE UNCHANGED <<callbacks, rest, called>>
    BY <1>0, <2>1 DEF ListsTyped
  <2>2. CASE ~UNCHANGED <<callbacks, rest, called>>
    <3>1. /\ todo[c] # <<>> /\ This(c).op = "cancel" /\ UNCHANGED <<callbacks, called>>
          /\ rest' = [rest EXCEPT ![c] = callbacks[F(c)]]
      BY <1>4, <2>2 DEF Cancel, Calls
    <3>2. F(c) \in Futures /\ Whose(c) = F(c) /\ c \in Threads
      BY <1>0, <3>1, AboutAFuture DEF Whose
    <3> QED BY <1>2, <3>1, <3>2
  <2> QED BY <2>1, <2>2
<1>5. ASSUME NEW w \in Workers, Finish(w) PROVE ListsTyped'
  <2>1. /\ pc[w] = "run" /\ UNCHANGED <<callbacks, called>>
        /\ rest' = [rest EXCEPT ![w] = callbacks[item[w]]]
    BY <1>5 DEF Finish
  <2>2. Whose(w) = item[w] /\ item[w] \in Futures /\ w \in Threads
    BY <1>0, <2>1, PoolAssumption DEF Whose, WithWorker, AtWork, Typed, Threads
  <2> QED BY <1>2, <2>1, <2>2
<1>6. ASSUME UNCHANGED <<callbacks, rest, called>> PROVE ListsTyped'
  BY <1>0, <1>6 DEF ListsTyped
<1>7. ASSUME NEW c \in Clients, ClientStep(c) PROVE ListsTyped'
  <2>1. c \in Threads
    BY <1>0
  <2>2. CASE Invoke(c, F(c)) \/ AddDoneCallback(c) \/ Cancel(c)
    BY <1>1, <1>3, <1>4, <2>1, <2>2
  <2>3. CASE ~(Invoke(c, F(c)) \/ AddDoneCallback(c) \/ Cancel(c))
    BY <1>6, <1>7, <2>3 DEF ClientStep, Skip, Submit, Result, ResultTimesOut, ResultReturns,
       AcquireFuture, Install, EventOrTimeOut, RemoveWaiter, WaitReturns, Shutdown, JoinThreads
  <2> QED BY <2>2, <2>3
<1>8. ASSUME NEW w \in Workers, WorkerStep(w) PROVE ListsTyped'
  <2>1. w \in Threads
    BY DEF Threads
  <2>2. CASE GetItem(w) \/ Start(w)
    BY <1>6, <2>2 DEF GetItem, Start
  <2> QED BY <1>1, <1>5, <1>8, <2>1, <2>2 DEF WorkerStep
<1> QED BY <1>7, <1>8 DEF Next

LEMMA CallbackInvAtInit == Init => CallbackInv
<1> SUFFICES ASSUME Init PROVE CallbackInv
  OBVIOUS
<1>1. ListsTyped
  BY DEF Init, ListsTyped
<1>2. AboutOne
  BY ProgramAssumption DEF Init, AboutOne
<1>3. ASSUME NEW f \in Futures PROVE Course(f)
  <2>1. \A t \in Threads : pc[t] # "callbacks"
    BY DEF Init
  <2>2. Callers(f) = {} /\ callbacks[f] = <<>> /\ called[f] = <<>> /\ state[f] \notin Done
    BY <2>1 DEF Init, Callers, Done
  <2>3. Known(f) = {}
    BY <2>2, EmptyList DEF Known, Ahead
  <2> QED BY <2>2, <2>3, EmptyList DEF Course
<1> QED BY <1>1, <1>2, <1>3 DEF CallbackInv

LEMMA CallbackStep == IInv /\ CallbackInv /\ [Next]_vars => CallbackInv'
<1> SUFFICES ASSUME IInv, CallbackInv, [Next]_vars PROVE CallbackInv'
  OBVIOUS
<1>1. CASE UNCHANGED vars
  <2>1. UNCHANGED <<callbacks, rest, called, todo, pc, item, state>>
    BY <1>1 DEF vars
  <2>2. \A f : Callers(f)' = Callers(f) /\ Known(f)' = Known(f) /\ Ahead(f)' = Ahead(f)
    BY <2>1 DEF Callers, Known, Ahead, F, This
  <2>3. \A k : Made(k)' <=> Made(k)
    BY <2>1 DEF Made
  <2> QED BY <2>1, <2>2, <2>3 DEF CallbackInv, ListsTyped, AboutOne, Course
<1>2. CASE Next
  <2>1. ListsTyped'
    BY <1>2, ListsStep
  <2>2. \A f \in Futures : Course(f)'
    BY <1>2, ClientCourses, WorkerCourses DEF Next
  <2>3. ASSUME NEW c \in Clients, Others(c), GoesOn(c) PROVE AboutOne'
    <3>1. ASSUME NEW d \in Clients PROVE todo'[d] = todo[d] \/ (todo'[d] = Tail(todo[d]) /\ todo[d] # <<>>)
      BY <2>3 DEF Others, GoesOn, Threads
    <3>2. ASSUME NEW d \in Clients, NEW i \in DOMAIN todo'[d]
          PROVE  \E j \in DOMAIN todo[d] : todo'[d][i] = todo[d][j]
      <4>1. todo[d] \in Seq(Call)
        BY DEF IInv, Typed
      <4>2. CASE todo'[d] = Tail(todo[d]) /\ todo[d] # <<>>
        <5>1. i + 1 \in DOMAIN todo[d] /\ todo'[d][i] = todo[d][i + 1]
          BY <3>2, <4>1, <4>2
        <5> QED BY <5>1
      <4> QED BY <3>1, <3>2, <4>2
    <3> QED BY <3>2 DEF AboutOne, CallbackInv
  <2>4. AboutOne'
    <3>1. CASE \E c \in Clients : ClientStep(c)
      BY <2>3, <3>1, ClientOthers DEF IInv, CallbackInv
    <3>2. CASE \E w \in Workers : WorkerStep(w)
      <4>1. UNCHANGED todo
        BY <3>2, PoolAssumption DEF WorkerStep, GetItem, Start, Finish, Invoke
      <4> QED BY <4>1 DEF AboutOne, CallbackInv
    <3> QED BY <1>2, <3>1, <3>2 DEF Next
  <2> QED BY <2>1, <2>2, <2>4 DEF CallbackInv
<1> QED BY <1>1, <1>2

(***************************************************************************)
(* add_done_callback() never loses a callback and none is called twice,    *)
(* however many clients add and cancel while workers finish.               *)
(***************************************************************************)
THEOREM EachCallbackIsCalled == Spec => []CallbacksAreCalled
<1>1. CallbackInv => CallbacksAreCalled
  BY DEF CallbackInv, Course, CallbacksAreCalled, Ahead
<1>2. IInv /\ [Next]_vars => IInv'
  BY EachStep
<1> QED BY InitHolds, CallbackInvAtInit, CallbackStep, <1>1, <1>2, PTL DEF Spec

-----------------------------------------------------------------------------
(* Those that sleep in wait() and as_completed() *)

WaitTyped ==
  /\ failed \in [Futures -> BOOLEAN]
  /\ waiters \in [Futures -> SUBSET Clients]
  /\ waiter \in [Clients -> [event : BOOLEAN, finished : SUBSET Futures, left : Int]]
  /\ at \in [Clients -> Nat \ {0}]
  /\ reported \in [Clients -> SUBSET Futures]

FailedIsFinished == \A f \in Futures : failed[f] => state[f] = "FINISHED"

\* Who sleeps is among the waiters of all that it waits for, and who is among
\* the waiters of a future sleeps, or has still to remove itself there.
OnLists(c) ==
  /\ pc[c] = "event" => at[c] = 1 /\ Waits(c) /\ \A f \in Fs(c) : c \in waiters[f]
  /\ \A f \in Futures : c \in waiters[f] =>
        \/ pc[c] = "event" /\ f \in Fs(c)
        \/ pc[c] = "remove" /\ \E i \in DOMAIN This(c).fs : i >= at[c] /\ This(c).fs[i] = f

\* The waiter of who sleeps has heard of all that came: the count is right
\* until the event is set.
Informed(c) ==
  pc[c] = "event" =>
    IF This(c).op = "wait"
    THEN ~waiter[c].event =>
           /\ waiter[c].left = Cardinality(Fs(c) \ Reported(c))
           /\ ~Satisfied(c, Reported(c))
    ELSE /\ reported[c] \cup waiter[c].finished = Reported(c) /\ reported[c] # Fs(c)
         /\ ~waiter[c].event => waiter[c].finished = {}

SleepInv == WaitTyped /\ FailedIsFinished /\ \A c \in Clients : OnLists(c) /\ Informed(c)

\* What another thread leaves to a client, when no future ends.
InWait == {"event", "remove"}
Away(c) == pc[c] \notin InWait /\ pc'[c] \notin InWait
Undisturbed(c) ==
  /\ \A f \in Futures : c \in waiters'[f] <=> c \in waiters[f]
  /\ \/ Away(c)
     \/ /\ todo'[c] = todo[c] /\ at'[c] = at[c] /\ pc'[c] = pc[c]
        /\ reported'[c] = reported[c] /\ waiter'[c] = waiter[c]
Quiet ==
  /\ UNCHANGED failed
  /\ \A f \in Futures : state'[f] \in Notified <=> state[f] \in Notified

\* A call is about futures.
LEMMA AboutFutures ==
  ASSUME Typed, NEW c \in Clients, todo[c] # <<>>
  PROVE  /\ This(c) \in Call /\ This(c).fs \in Seq(Futures)
         /\ Fs(c) \subseteq Futures /\ IsFiniteSet(Fs(c))
<1>1. todo[c] \in Seq(Call) /\ This(c) \in Call
  BY DEF Typed, This
<1>2. This(c).fs \in Seq(Futures)
  BY <1>1 DEF Call
<1>3. Fs(c) \subseteq Futures
  BY <1>2 DEF Fs
<1>4. IsFiniteSet(Fs(c))
  BY <1>3, PoolAssumption, FS_Subset
<1> QED BY <1>1, <1>2, <1>3, <1>4

LEMMA UndisturbedSleep ==
  ASSUME Typed, NEW c \in Clients, OnLists(c), Informed(c), Undisturbed(c), Quiet
  PROVE  OnLists(c)' /\ Informed(c)'
<1>1. CASE Away(c)
  BY <1>1 DEF Away, InWait, OnLists, Informed, Undisturbed
<1>2. CASE /\ todo'[c] = todo[c] /\ at'[c] = at[c] /\ pc'[c] = pc[c]
           /\ reported'[c] = reported[c] /\ waiter'[c] = waiter[c]
  <2>1. This(c)' = This(c)
    BY <1>2 DEF This
  <2>2. Fs(c)' = Fs(c)
    BY <2>1 DEF Fs
  <2>3. Waits(c)' <=> Waits(c)
    BY <1>2, <2>1 DEF Waits
  <2>4. CASE pc[c] = "event"
    <3>1. Fs(c) \subseteq Futures
      BY <2>4, AboutFutures DEF OnLists, Waits
    <3>2. OnLists(c)'
      BY <1>2, <2>1, <2>2, <2>3, <2>4, <3>1 DEF OnLists, Undisturbed
    <3>3. Reported(c)' = Reported(c)
      BY <2>2, <3>1 DEF Reported, Quiet
    <3>4. Satisfied(c, Reported(c))' <=> Satisfied(c, Reported(c))
      BY <2>1, <2>2, <3>3 DEF Satisfied, Quiet
    <3>5. Informed(c)'
      BY <1>2, <2>1, <2>2, <3>3, <3>4 DEF Informed
    <3> QED BY <3>2, <3>5
  <2>5. CASE pc[c] # "event"
    BY <1>2, <2>1, <2>5 DEF OnLists, Informed, Undisturbed
  <2> QED BY <2>4, <2>5
<1> QED BY <1>1, <1>2 DEF Undisturbed

\* A future ends: those that wait for it hear of it.
LEMMA ToldSleep ==
  ASSUME Typed, WaitTyped, FailedIsFinished, NEW c \in Clients, OnLists(c), Informed(c),
         NEW f \in Futures, state[f] \notin Notified,
         NEW s \in Notified, state' = [state EXCEPT ![f] = s],
         NEW outcome, Tell(f, outcome),
         failed'[f] = (outcome = "exception"),
         \A g \in Futures \ {f} : failed'[g] = failed[g],
         UNCHANGED <<todo, at, reported, waiters>>,
         pc'[c] = pc[c] \/ Away(c)
  PROVE  OnLists(c)' /\ Informed(c)'
<1>0. /\ state \in [Futures -> Done \cup {"absent", "refused", "PENDING", "RUNNING"}]
      /\ state'[f] = s /\ \A g \in Futures \ {f} : state'[g] = state[g]
  BY DEF Typed
<1>1. This(c)' = This(c)
  BY DEF This
<1>2. Fs(c)' = Fs(c)
  BY <1>1 DEF Fs
<1>3. Waits(c)' <=> Waits(c)
  BY <1>1 DEF Waits
<1>4. OnLists(c)'
  BY <1>1, <1>2, <1>3 DEF OnLists, Away, InWait
<1>5. ASSUME pc'[c] = "event" PROVE Informed(c)'
  <2>1. /\ pc[c] = "event" /\ Fs(c) \subseteq Futures /\ IsFiniteSet(Fs(c))
        /\ c \in waiters[f] <=> f \in Fs(c)
    BY <1>5, AboutFutures DEF Away, InWait, OnLists, Waits
  <2>2. CASE f \notin Fs(c)
    <3>1. waiter'[c] = waiter[c]
      BY <2>1, <2>2 DEF Tell
    <3>2. Reported(c)' = Reported(c)
      BY <1>0, <1>2, <2>1, <2>2 DEF Reported
    <3>3. Satisfied(c, Reported(c))' <=> Satisfied(c, Reported(c))
      <4>1. \A g \in Reported(c) : failed'[g] = failed[g]
        BY <2>1, <2>2 DEF Reported
      <4> QED BY <1>1, <1>2, <3>2, <4>1 DEF Satisfied
    <3> QED BY <1>1, <1>2, <2>1, <3>1, <3>2, <3>3 DEF Informed
  <2>3. CASE f \in Fs(c)
    <3>1. Reported(c)' = Reported(c) \cup {f} /\ f \notin Reported(c) /\ Reported(c) \subseteq Fs(c)
      BY <1>0, <1>2, <2>1, <2>3 DEF Reported
    <3> DEFINE left == IF This(c).when = "FIRST_EXCEPTION" /\ outcome = "exception"
                         THEN waiter[c].left ELSE waiter[c].left - 1
    <3>2. /\ waiter'[c].event = (waiter[c].event \/ Sets(c, outcome, left))
          /\ waiter'[c].finished = waiter[c].finished \cup {f}
          /\ waiter'[c].left = left
      BY <2>1, <2>3 DEF Tell
    <3>3. CASE This(c).op = "wait"
      <4>1. SUFFICES ASSUME ~waiter'[c].event
                     PROVE  /\ left = Cardinality(Fs(c) \ (Reported(c) \cup {f}))
                            /\ ~Satisfied(c, Reported(c))'
        BY <1>1, <1>2, <3>1, <3>2, <3>3 DEF Informed
      <4>2. /\ ~waiter[c].event /\ This(c).when # "FIRST_COMPLETED" /\ left # 0
            /\ This(c).when = "FIRST_EXCEPTION" => outcome # "exception"
        BY <3>2, <4>1 DEF Sets
      <4>3. /\ waiter[c].left = Cardinality(Fs(c) \ Reported(c))
            /\ ~Satisfied(c, Reported(c))
            /\ left = waiter[c].left - 1
        BY <2>1, <3>3, <4>2 DEF Informed
      <4>4. /\ IsFiniteSet(Fs(c) \ Reported(c))
            /\ Fs(c) \ (Reported(c) \cup {f}) = (Fs(c) \ Reported(c)) \ {f}
        BY <2>1, FS_Subset
      <4>5. /\ left = Cardinality(Fs(c) \ (Reported(c) \cup {f}))
        BY <2>3, <3>1, <4>3, <4>4, FS_RemoveElement
      <4>6. Fs(c) # Reported(c) \cup {f}
        BY <4>2, <4>5, FS_EmptySet
      <4>7. This(c).when = "FIRST_EXCEPTION" => \A g \in Reported(c) \cup {f} : ~failed'[g]
        <5>1. This(c).when = "FIRST_EXCEPTION" => \A g \in Reported(c) : ~failed[g]
          BY <4>3 DEF Satisfied
        <5> QED BY <2>1, <3>1, <4>2, <5>1
      <4>8. ~Satisfied(c, Reported(c))'
        BY <1>1, <1>2, <3>1, <4>2, <4>6, <4>7 DEF Satisfied
      <4> QED BY <4>5, <4>8
    <3>4. CASE This(c).op # "wait"
      <4>1. This(c).op = "as_completed"
        BY <2>1, <3>4 DEF OnLists, Waits
      <4>2. waiter'[c].event = TRUE
        BY <3>2, <4>1 DEF Sets
      <4> QED BY <1>1, <1>2, <2>1, <3>1, <3>2, <3>4, <4>2 DEF Informed
    <3> QED BY <3>3, <3>4
  <2> QED BY <2>2, <2>3
<1>6. Informed(c)'
  <2>1. pc'[c] # "event" => Informed(c)'
    BY DEF Informed
  <2> QED BY <1>5, <2>1
<1> QED BY <1>4, <1>6

\* Waiters: who comes, is told, and goes.
Waiters(c) == Install(c) \/ EventOrTimeOut(c) \/ RemoveWaiter(c) \/ WaitReturns(c)

LEMMA PlainSteps ==
  ASSUME Typed, InsideCall, ListsTyped, ToSubmit, NEW c \in Clients, ClientStep(c), ~Waiters(c)
  PROVE  /\ UNCHANGED <<waiters, waiter, reported>> /\ Quiet
         /\ \A d \in Clients : Undisturbed(d)
<1>0. /\ pc \in [Threads -> Places] /\ Clients \subseteq Threads /\ c \in Threads
      /\ Clients \cap Workers = {} /\ Workers \subseteq Threads
      /\ state \in [Futures -> Done \cup {"absent", "refused", "PENDING", "RUNNING"}]
  BY PoolAssumption DEF Typed, Threads
<1>1. \A d \in Clients \ {c} : todo'[d] = todo[d]
  BY <1>0, ClientOthers DEF Others
<1>2. UNCHANGED <<waiters, waiter, reported, failed>>
  BY DEF Waiters, ClientStep, Skip, Submit, Cancel, AddDoneCallback, Invoke, Result,
     ResultTimesOut, ResultReturns, AcquireFuture, Shutdown, JoinThreads
<1>3. pc[c] \notin InWait /\ pc'[c] \notin InWait
  <2>1. pc[c] \notin InWait
    BY DEF Waiters, ClientStep, Skip, Submit, Cancel, AddDoneCallback, Invoke, Result,
       ResultTimesOut, ResultReturns, AcquireFuture, Shutdown, JoinThreads, Calls, InWait
  <2>2. CASE Submit(c)
    <3>1. Goto(c, "call") \/ UNCHANGED pc \/ \E w \in Workers : Goto(w, "get")
      BY <2>2 DEF Submit, Return
    <3> QED BY <1>0, <2>1, <3>1 DEF Goto, InWait
  <2>3. CASE Cancel(c)
    <3>1. Goto(c, "call") \/ WakeAndGoto(F(c), c, "callbacks")
      BY <2>3 DEF Cancel, Return
    <3> QED BY <1>0, <2>1, <3>1 DEF Goto, WakeAndGoto, InWait
  <2>4. CASE ~(Submit(c) \/ Cancel(c))
    <3>1. \/ UNCHANGED pc
          \/ \E place \in {"call", "sleep", "awake", "callbacks", "join"} : Goto(c, place)
      BY <1>0, <2>4 DEF Waiters, ClientStep, Skip, AddDoneCallback, Invoke, Result,
         ResultTimesOut, ResultReturns, AcquireFuture, Shutdown, JoinThreads, Return
    <3> QED BY <1>0, <2>1, <3>1 DEF Goto, InWait
  <2> QED BY <2>1, <2>2, <2>3, <2>4
<1>4. ASSUME NEW d \in Clients \ {c} PROVE pc'[d] = pc[d] \/ Away(d)
  <2>1. CASE Submit(c)
    <3>1. Goto(c, "call") \/ UNCHANGED pc \/ \E w \in Workers : Goto(w, "get")
      BY <2>1 DEF Submit, Return
    <3> QED BY <1>0, <3>1 DEF Goto
  <2>2. CASE Cancel(c)
    BY <1>0, <2>2 DEF Cancel, Return, Goto, WakeAndGoto, Woken, Away, InWait
  <2>3. CASE ~(Submit(c) \/ Cancel(c))
    <3>1. UNCHANGED pc \/ \E place : Goto(c, place)
      BY <1>0, <2>3 DEF Waiters, ClientStep, Skip, AddDoneCallback, Invoke, Result,
         ResultTimesOut, ResultReturns, AcquireFuture, Shutdown, JoinThreads, Return
    <3> QED BY <1>0, <3>1 DEF Goto
  <2> QED BY <2>1, <2>2, <2>3
<1>5. \A d \in Clients \ {c} : at'[d] = at[d]
  <2>1. CASE AcquireFuture(c)
    BY <2>1 DEF AcquireFuture
  <2>2. CASE ~AcquireFuture(c)
    BY <2>2 DEF Waiters, ClientStep, Skip, Submit, Cancel, AddDoneCallback, Invoke, Result,
       ResultTimesOut, ResultReturns, Shutdown, JoinThreads
  <2> QED BY <2>1, <2>2
<1>6. \A f \in Futures : state'[f] \in Notified <=> state[f] \in Notified
  <2>1. CASE Submit(c)
    <3>1. state' = [state EXCEPT ![F(c)] = "refused"] \/ state' = [state EXCEPT ![F(c)] = "PENDING"]
      BY <2>1 DEF Submit
    <3>2. F(c) \in Futures => state[F(c)] = "absent"
      <4>1. todo[c] # <<>> /\ This(c).op = "submit" /\ todo[c] \in Seq(Call)
        BY <2>1 DEF Submit, Typed
      <4>2. 1 \in DOMAIN todo[c] /\ This(c) = todo[c][1]
        BY <4>1 DEF This
      <4> QED BY <4>1, <4>2 DEF ToSubmit, Submits, F
    <3> QED BY <1>0, <3>1, <3>2 DEF Notified
  <2>2. CASE Cancel(c)
    BY <1>0, <2>2 DEF Cancel, MayCancel, Notified
  <2>3. CASE ~(Submit(c) \/ Cancel(c))
    BY <2>3 DEF Waiters, ClientStep, Skip, AddDoneCallback, Invoke, Result,
       ResultTimesOut, ResultReturns, AcquireFuture, Shutdown, JoinThreads
  <2> QED BY <2>1, <2>2, <2>3
<1>7. Undisturbed(c)
  BY <1>2, <1>3 DEF Undisturbed, Away
<1>8. \A d \in Clients \ {c} : Undisturbed(d)
  BY <1>1, <1>2, <1>4, <1>5 DEF Undisturbed
<1> QED BY <1>2, <1>6, <1>7, <1>8 DEF Quiet

\* The others, when a client comes to wait, is told, or goes.
LEMMA WaitersLeaveOthers ==
  ASSUME Typed, InsideCall, WaitTyped, NEW c \in Clients, Waiters(c)
  PROVE  Quiet /\ UNCHANGED state /\ \A d \in Clients \ {c} : Undisturbed(d)
<1>0. /\ pc \in [Threads -> Places] /\ Clients \subseteq Threads
      /\ todo \in [Clients -> Seq(Call)] /\ waiters \in [Futures -> SUBSET Clients]
      /\ at \in [Clients -> Nat \ {0}] /\ reported \in [Clients -> SUBSET Futures]
      /\ waiter \in [Clients -> [event : BOOLEAN, finished : SUBSET Futures, left : Int]]
  BY DEF Typed, WaitTyped, Threads
<1>1. Quiet /\ UNCHANGED state
  BY DEF Waiters, Install, EventOrTimeOut, RemoveWaiter, WaitReturns, Quiet
<1>2. ASSUME NEW d \in Clients \ {c}
      PROVE  todo'[d] = todo[d] /\ at'[d] = at[d] /\ pc'[d] = pc[d]
  <2>1. Return(c) \/ (UNCHANGED todo /\ (UNCHANGED pc \/ Goto(c, "remove") \/ Goto(c, "event")))
    <3>1. CASE Install(c)
      BY <3>1, Zenon DEF Install
    <3>2. CASE EventOrTimeOut(c) \/ RemoveWaiter(c) \/ WaitReturns(c)
      BY <3>2 DEF EventOrTimeOut, RemoveWaiter, WaitReturns
    <3> QED BY <3>1, <3>2 DEF Waiters
  <2>2. \/ UNCHANGED at \/ at' = [at EXCEPT ![c] = 1] \/ at' = [at EXCEPT ![c] = @ + 1]
    BY DEF Waiters, Install, EventOrTimeOut, RemoveWaiter, WaitReturns
  <2>3. at'[d] = at[d]
    BY <1>0, <2>2
  <2> QED BY <1>0, <2>1, <2>3 DEF Return, Goto
<1>3. ASSUME NEW d \in Clients \ {c} PROVE reported'[d] = reported[d] /\ waiter'[d] = waiter[d]
  <2>1. CASE Install(c)
    <3>1. /\ \E done : reported' = [reported EXCEPT ![c] = done]
          /\ UNCHANGED waiter \/ \E w : waiter' = [waiter EXCEPT ![c] = w]
      BY <2>1, Zenon DEF Install
    <3> QED BY <1>0, <3>1
  <2>2. CASE EventOrTimeOut(c)
    BY <1>0, <2>2 DEF EventOrTimeOut
  <2>3. CASE RemoveWaiter(c)
    BY <1>0, <2>3 DEF RemoveWaiter
  <2>4. CASE WaitReturns(c)
    BY <1>0, <2>4 DEF WaitReturns
  <2> QED BY <2>1, <2>2, <2>3, <2>4 DEF Waiters
<1>4. ASSUME NEW d \in Clients \ {c}, NEW f \in Futures
      PROVE  d \in waiters'[f] <=> d \in waiters[f]
  <2>1. CASE Install(c)
    <3>1. \/ UNCHANGED waiters
          \/ waiters' = [g \in Futures |-> IF g \in Fs(c) THEN waiters[g] \cup {c} ELSE waiters[g]]
      BY <2>1, Zenon DEF Install
    <3> QED BY <1>4, <3>1
  <2>2. CASE EventOrTimeOut(c) \/ WaitReturns(c)
    BY <1>0, <2>2 DEF EventOrTimeOut, WaitReturns
  <2>3. CASE RemoveWaiter(c)
    BY <1>0, <2>3 DEF RemoveWaiter
  <2> QED BY <2>1, <2>2, <2>3 DEF Waiters
<1> QED BY <1>1, <1>2, <1>3, <1>4 DEF Undisturbed

\* wait() and as_completed() look, and put their waiter in place.
LEMMA InstallSleep ==
  ASSUME Typed, InsideCall, WaitTyped, NEW c \in Clients, OnLists(c), Install(c)
  PROVE  OnLists(c)' /\ Informed(c)'
<1> DEFINE done == Reported(c)
<1>0. /\ pc \in [Threads -> Places] /\ c \in Threads
      /\ waiters \in [Futures -> SUBSET Clients] /\ at \in [Clients -> Nat \ {0}]
      /\ reported \in [Clients -> SUBSET Futures]
      /\ waiter \in [Clients -> [event : BOOLEAN, finished : SUBSET Futures, left : Int]]
  BY DEF Typed, WaitTyped, Threads
<1>1. /\ pc[c] = "call" /\ Waits(c) /\ UNCHANGED <<state, failed>>
      /\ reported' = [reported EXCEPT ![c] = done] /\ at' = [at EXCEPT ![c] = 1]
  BY DEF Install
<1>2. \A f \in Futures : c \notin waiters[f]
  BY <1>1 DEF OnLists
<1>3. CASE Return(c) /\ UNCHANGED waiters
  <2>1. pc'[c] = "call"
    BY <1>0, <1>3 DEF Return, Goto
  <2> QED BY <1>2, <1>3, <2>1 DEF OnLists, Informed
<1>4. CASE ~(Return(c) /\ UNCHANGED waiters)
  <2>1. /\ This(c).op = "as_completed" \/ ~Satisfied(c, done)
        /\ waiter' = [waiter EXCEPT ![c] =
                        [NoWaiter EXCEPT !.left = Cardinality(Fs(c) \ done)]]
        /\ waiters' = [f \in Futures |->
                         IF f \in Fs(c) THEN waiters[f] \cup {c} ELSE waiters[f]]
        /\ Goto(c, IF This(c).op = "as_completed" /\ done = Fs(c) THEN "remove" ELSE "event")
        /\ UNCHANGED todo
    BY <1>4, Zenon DEF Install
  <2>2. /\ pc'[c] = IF This(c).op = "as_completed" /\ done = Fs(c) THEN "remove" ELSE "event"
        /\ at'[c] = 1 /\ reported'[c] = done
        /\ waiter'[c].event = FALSE /\ waiter'[c].finished = {}
        /\ waiter'[c].left = Cardinality(Fs(c) \ done)
        /\ \A f \in Futures : c \in waiters'[f] <=> f \in Fs(c)
    BY <1>0, <1>1, <1>2, <2>1 DEF Goto, NoWaiter
  <2>3. This(c)' = This(c)
    BY <2>1 DEF This
  <2>4. Fs(c)' = Fs(c)
    BY <2>3 DEF Fs
  <2>5. Reported(c)' = done /\ (Waits(c)' <=> Waits(c))
    BY <1>1, <2>1, <2>3, <2>4 DEF Reported, Waits
  <2>6. Satisfied(c, Reported(c))' <=> Satisfied(c, done)
    BY <1>1, <2>3, <2>4, <2>5 DEF Satisfied
  <2>7. Fs(c) \subseteq Futures /\ This(c).fs \in Seq(Futures)
    BY <1>1, AboutFutures DEF Waits
  <2>8. OnLists(c)'
    <3>1. \A f \in Fs(c) : \E i \in DOMAIN This(c).fs : i >= 1 /\ This(c).fs[i] = f
      BY <2>7 DEF Fs
    <3> QED BY <1>1, <2>2, <2>3, <2>4, <2>5, <2>7, <3>1 DEF OnLists
  <2>9. Informed(c)'
    <3> HIDE DEF done
    <3>1. CASE This(c).op = "wait"
      BY <2>1, <2>2, <2>3, <2>4, <2>5, <2>6, <3>1 DEF Informed
    <3>2. CASE This(c).op # "wait"
      BY <1>1, <2>2, <2>3, <2>4, <2>5, <3>2 DEF Informed, Waits
    <3> QED BY <3>1, <3>2
  <2> QED BY <2>8, <2>9
<1> QED BY <1>3, <1>4

\* They are told, or do not wait longer.
LEMMA EventSleep ==
  ASSUME Typed, InsideCall, WaitTyped, NEW c \in Clients, OnLists(c), Informed(c), EventOrTimeOut(c)
  PROVE  OnLists(c)' /\ Informed(c)'
<1>0. /\ pc \in [Threads -> Places] /\ c \in Threads /\ reported \in [Clients -> SUBSET Futures]
      /\ waiter \in [Clients -> [event : BOOLEAN, finished : SUBSET Futures, left : Int]]
  BY DEF Typed, WaitTyped, Threads
<1>1. pc[c] = "event" /\ UNCHANGED <<todo, state, failed, waiters, at>>
  BY DEF EventOrTimeOut
<1>2. This(c)' = This(c)
  BY <1>1 DEF This
<1>3. Fs(c)' = Fs(c)
  BY <1>2 DEF Fs
<1>4. Reported(c)' = Reported(c) /\ (Waits(c)' <=> Waits(c))
  BY <1>1, <1>2, <1>3 DEF Reported, Waits
<1>5. Fs(c) \subseteq Futures /\ This(c).fs \in Seq(Futures) /\ at[c] = 1
  BY <1>1, AboutFutures DEF OnLists, Waits
<1>6. ASSUME pc'[c] = "remove" PROVE OnLists(c)' /\ Informed(c)'
  <2>1. \A f \in Fs(c) : \E i \in DOMAIN This(c).fs : i >= 1 /\ This(c).fs[i] = f
    BY <1>5 DEF Fs
  <2> QED BY <1>1, <1>2, <1>3, <1>5, <1>6, <2>1 DEF OnLists, Informed
<1>7. ASSUME pc'[c] # "remove" PROVE OnLists(c)' /\ Informed(c)'
  <2>1. /\ This(c).op = "as_completed" /\ UNCHANGED pc
        /\ reported' = [reported EXCEPT ![c] = @ \cup waiter[c].finished]
        /\ waiter' = [waiter EXCEPT ![c].finished = {}, ![c].event = FALSE]
        /\ reported'[c] # Fs(c)
    BY <1>0, <1>7 DEF EventOrTimeOut, Goto
  <2>2. /\ reported'[c] = reported[c] \cup waiter[c].finished
        /\ waiter'[c].finished = {}
    BY <1>0, <2>1
  <2>3. reported[c] \cup waiter[c].finished = Reported(c)
    BY <1>1, <2>1 DEF Informed
  <2>4. OnLists(c)'
    BY <1>1, <1>2, <1>3, <1>4, <2>1 DEF OnLists
  <2>5. Informed(c)'
    <3>1. reported'[c] \cup waiter'[c].finished = Reported(c)' /\ reported'[c] # Fs(c)'
      BY <1>3, <1>4, <2>1, <2>2, <2>3
    <3> QED BY <1>2, <2>1, <2>2, <3>1 DEF Informed
  <2> QED BY <2>4, <2>5
<1> QED BY <1>6, <1>7

\* They remove their waiter from the futures, one by one, and return.
LEMMA RemoveSleep ==
  ASSUME Typed, InsideCall, WaitTyped, NEW c \in Clients, OnLists(c),
         RemoveWaiter(c) \/ WaitReturns(c)
  PROVE  OnLists(c)' /\ Informed(c)'
<1>0. /\ pc \in [Threads -> Places] /\ c \in Threads /\ pc[c] = "remove"
      /\ at \in [Clients -> Nat \ {0}] /\ waiters \in [Futures -> SUBSET Clients]
      /\ todo[c] # <<>>
  BY DEF Typed, WaitTyped, Threads, RemoveWaiter, WaitReturns, InsideCall
<1>1. This(c).fs \in Seq(Futures)
  BY <1>0, AboutFutures
<1>2. CASE RemoveWaiter(c)
  <2>1. /\ at[c] <= Len(This(c).fs) /\ UNCHANGED <<todo, pc>>
        /\ waiters' = [waiters EXCEPT ![This(c).fs[at[c]]] = @ \ {c}]
        /\ at'[c] = at[c] + 1
    BY <1>0, <1>2 DEF RemoveWaiter
  <2>2. This(c)' = This(c)
    BY <2>1 DEF This
  <2>3. at[c] \in DOMAIN This(c).fs /\ This(c).fs[at[c]] \in Futures
    BY <1>0, <1>1, <2>1
  <2>4. ASSUME NEW f \in Futures, c \in waiters'[f]
        PROVE  \E i \in DOMAIN This(c).fs : i >= at'[c] /\ This(c).fs[i] = f
    <3>1. f # This(c).fs[at[c]] /\ c \in waiters[f]
      BY <1>0, <2>1, <2>3, <2>4
    <3>2. PICK i \in DOMAIN This(c).fs : i >= at[c] /\ This(c).fs[i] = f
      BY <1>0, <3>1 DEF OnLists
    <3>3. i # at[c] /\ i \in Nat /\ at[c] \in Nat
      BY <1>0, <1>1, <3>1, <3>2
    <3>4. i >= at[c] + 1
      BY <3>2, <3>3
    <3> QED BY <2>1, <3>2, <3>4
  <2> QED BY <1>0, <2>1, <2>2, <2>4 DEF OnLists, Informed
<1>3. CASE WaitReturns(c)
  <2>1. at[c] > Len(This(c).fs) /\ UNCHANGED waiters /\ pc'[c] = "call"
    BY <1>0, <1>3 DEF WaitReturns, Return, Goto
  <2>2. \A f \in Futures : c \notin waiters[f]
    BY <1>0, <1>1, <2>1 DEF OnLists
  <2> QED BY <2>1, <2>2 DEF OnLists, Informed
<1> QED BY <1>2, <1>3

\* What a worker does.
LEMMA WorkersSleep ==
  ASSUME IInv, SleepInv, NEW w \in Workers, WorkerStep(w), NEW c \in Clients
  PROVE  OnLists(c)' /\ Informed(c)'
<1>0. /\ Typed /\ WaitTyped /\ FailedIsFinished /\ OnLists(c) /\ Informed(c) /\ WithWorker
      /\ pc \in [Threads -> Places] /\ Clients \subseteq Threads /\ Workers \subseteq Threads
      /\ w # c /\ state \in [Futures -> Done \cup {"absent", "refused", "PENDING", "RUNNING"}]
      /\ failed \in [Futures -> BOOLEAN] /\ item \in [Workers -> Futures \cup {0}]
  BY PoolAssumption DEF IInv, SleepInv, Typed, WaitTyped, Threads
<1>1. ASSUME NEW place, Goto(w, place) PROVE pc'[c] = pc[c]
  BY <1>0, <1>1 DEF Goto
<1>2. ASSUME UNCHANGED <<state, failed, waiters, waiter, reported, todo, at>>,
             UNCHANGED pc \/ \E place : Goto(w, place)
      PROVE  OnLists(c)' /\ Informed(c)'
  <2>1. Undisturbed(c) /\ Quiet
    BY <1>1, <1>2 DEF Undisturbed, Quiet
  <2> QED BY <1>0, <2>1, UndisturbedSleep
<1>3. CASE GetItem(w)
  BY <1>2, <1>3 DEF GetItem
<1>4. CASE Invoke(w, item[w])
  <2>1. w \notin Clients
    BY PoolAssumption
  <2> QED BY <1>2, <1>4, <2>1 DEF Invoke
<1>5. ASSUME pc[w] \in AtWork PROVE item[w] \in Futures
  BY <1>0, <1>5 DEF WithWorker
<1>6. CASE Start(w) /\ state[item[w]] = "PENDING"
  <2>1. /\ UNCHANGED <<failed, waiters, waiter, reported, todo, at>> /\ Goto(w, "run")
        /\ state' = [state EXCEPT ![item[w]] = "RUNNING"]
    BY <1>6 DEF Start
  <2>2. Undisturbed(c)
    BY <1>1, <2>1 DEF Undisturbed
  <2>3. Quiet
    BY <1>0, <1>6, <2>1 DEF Quiet, Notified
  <2> QED BY <1>0, <2>2, <2>3, UndisturbedSleep
<1>7. CASE Start(w) /\ state[item[w]] # "PENDING"
  <2>1. /\ UNCHANGED <<failed, waiters, reported, todo, at>> /\ Goto(w, "get")
        /\ state[item[w]] = "CANCELLED"
        /\ state' = [state EXCEPT ![item[w]] = "CANCELLED_AND_NOTIFIED"]
        /\ Tell(item[w], "cancelled") /\ pc[w] \in AtWork
    BY <1>7 DEF Start, AtWork
  <2>2. PICK f \in Futures : f = item[w]
    BY <1>5, <2>1
  <2>3. failed[f] = FALSE
    BY <1>0, <2>1, <2>2 DEF FailedIsFinished
  <2>4. pc'[c] = pc[c]
    BY <1>1, <2>1
  <2>5. /\ failed'[f] = ("cancelled" = "exception") /\ \A g \in Futures \ {f} : failed'[g] = failed[g]
        /\ state[f] \notin Notified /\ "CANCELLED_AND_NOTIFIED" \in Notified
        /\ state' = [state EXCEPT ![f] = "CANCELLED_AND_NOTIFIED"]
        /\ Tell(f, "cancelled")
    BY <2>1, <2>2, <2>3 DEF Notified
  <2> QED BY <1>0, <2>1, <2>4, <2>5, ToldSleep
<1>8. CASE Finish(w)
  <2>1. PICK outcome \in {"result", "exception"} :
           /\ failed' = [failed EXCEPT ![item[w]] = outcome = "exception"]
           /\ Tell(item[w], outcome)
    BY <1>8 DEF Finish
  <2>2. /\ UNCHANGED <<waiters, reported, todo, at>> /\ pc[w] = "run"
        /\ WakeAndGoto(item[w], w, "callbacks")
        /\ state' = [state EXCEPT ![item[w]] = "FINISHED"]
    BY <1>8 DEF Finish
  <2>3. PICK f \in Futures : f = item[w]
    BY <1>5, <2>2 DEF AtWork
  <2>4. state[f] = "RUNNING"
    BY <1>0, <2>2, <2>3 DEF WithWorker, AtWork
  <2>5. pc'[c] = pc[c] \/ Away(c)
    BY <1>0, <2>2 DEF WakeAndGoto, Woken, Away, InWait
  <2>6. failed'[f] = (outcome = "exception") /\ \A g \in Futures \ {f} : failed'[g] = failed[g]
    BY <1>0, <2>1, <2>3
  <2>7. /\ state[f] \notin Notified /\ "FINISHED" \in Notified
        /\ state' = [state EXCEPT ![f] = "FINISHED"] /\ Tell(f, outcome)
    BY <2>1, <2>2, <2>3, <2>4 DEF Notified
  <2> QED BY <1>0, <2>2, <2>5, <2>6, <2>7, ToldSleep
<1> QED BY <1>3, <1>4, <1>6, <1>7, <1>8 DEF WorkerStep

\* What a client does.
LEMMA ClientsSleep ==
  ASSUME IInv, ListsTyped, SleepInv, NEW c \in Clients, ClientStep(c), NEW d \in Clients
  PROVE  OnLists(d)' /\ Informed(d)'
<1>0. /\ Typed /\ InsideCall /\ ToSubmit /\ WaitTyped
      /\ \A e \in Clients : OnLists(e) /\ Informed(e)
  BY DEF IInv, SleepInv
<1>1. CASE ~Waiters(c)
  <2>1. Undisturbed(d) /\ Quiet
    BY <1>0, <1>1, PlainSteps
  <2> QED BY <1>0, <2>1, UndisturbedSleep
<1>2. CASE Waiters(c) /\ d # c
  <2>1. Undisturbed(d) /\ Quiet
    BY <1>0, <1>2, WaitersLeaveOthers
  <2> QED BY <1>0, <2>1, UndisturbedSleep
<1>3. CASE Waiters(c) /\ d = c
  BY <1>0, <1>3, InstallSleep, EventSleep, RemoveSleep DEF Waiters
<1> QED BY <1>1, <1>2, <1>3

\* Only Finish() sets an exception, and with it the state.
LEMMA FailedStep ==
  ASSUME IInv, ListsTyped, SleepInv, Next
  PROVE  FailedIsFinished'
<1>0. /\ Typed /\ FailedIsFinished /\ WithWorker /\ failed \in [Futures -> BOOLEAN]
      /\ state \in [Futures -> Done \cup {"absent", "refused", "PENDING", "RUNNING"}]
  BY DEF IInv, SleepInv, Typed, WaitTyped
<1>1. ASSUME UNCHANGED failed PROVE FailedIsFinished'
  <2>1. \A f \in Futures : state[f] = "FINISHED" => state'[f] = "FINISHED"
    BY EachStep DEF Moves
  <2> QED BY <1>0, <1>1, <2>1 DEF FailedIsFinished
<1>2. ASSUME NEW c \in Clients, ClientStep(c) PROVE UNCHANGED failed
  BY <1>2 DEF ClientStep, Skip, Submit, Cancel, AddDoneCallback, Invoke, Result, ResultTimesOut,
     ResultReturns, AcquireFuture, Install, EventOrTimeOut, RemoveWaiter, WaitReturns,
     Shutdown, JoinThreads
<1>3. ASSUME NEW w \in Workers, WorkerStep(w) PROVE FailedIsFinished'
  <2>1. CASE Finish(w)
    <3>1. /\ state' = [state EXCEPT ![item[w]] = "FINISHED"]
          /\ \E outcome : failed' = [failed EXCEPT ![item[w]] = outcome = "exception"]
      BY <2>1 DEF Finish
    <3> QED BY <1>0, <3>1 DEF FailedIsFinished
  <2>2. CASE ~Finish(w)
    BY <1>1, <1>3, <2>2 DEF WorkerStep, GetItem, Start, Invoke
  <2> QED BY <2>1, <2>2
<1> QED BY <1>1, <1>2, <1>3 DEF Next

LEMMA WaitTypedStep ==
  ASSUME IInv, ListsTyped, SleepInv, Next
  PROVE  WaitTyped'
<1> DEFINE Records == [event : BOOLEAN, finished : SUBSET Futures, left : Int]
<1>0. /\ Typed /\ InsideCall /\ ToSubmit /\ WithWorker /\ failed \in [Futures -> BOOLEAN]
      /\ waiters \in [Futures -> SUBSET Clients] /\ waiter \in [Clients -> Records]
      /\ at \in [Clients -> Nat \ {0}] /\ reported \in [Clients -> SUBSET Futures]
  BY DEF IInv, SleepInv, WaitTyped
<1>1. ASSUME NEW c \in Clients, ClientStep(c), ~Waiters(c) PROVE WaitTyped'
  <2>1. UNCHANGED <<waiters, waiter, reported, failed>>
    BY <1>0, <1>1, PlainSteps DEF Quiet
  <2>2. UNCHANGED at \/ at' = [at EXCEPT ![c] = @ + 1]
    BY <1>1 DEF Waiters, ClientStep, Skip, Submit, Cancel, AddDoneCallback, Invoke, Result,
       ResultTimesOut, ResultReturns, AcquireFuture, Shutdown, JoinThreads
  <2>3. at' \in [Clients -> Nat \ {0}]
    BY <1>0, <2>2
  <2> QED BY <1>0, <2>1, <2>3 DEF WaitTyped
<1>2. ASSUME NEW c \in Clients, Install(c) PROVE WaitTyped'
  <2>1. Fs(c) \subseteq Futures /\ IsFiniteSet(Fs(c))
    BY <1>0, <1>2, AboutFutures DEF Install, Waits
  <2>2. /\ reported' = [reported EXCEPT ![c] = Reported(c)] /\ Reported(c) \subseteq Futures
        /\ at' = [at EXCEPT ![c] = 1] /\ UNCHANGED failed
    BY <1>2, <2>1 DEF Install, Reported
  <2>3. \/ UNCHANGED <<waiter, waiters>>
        \/ /\ waiter' = [waiter EXCEPT ![c] =
                           [NoWaiter EXCEPT !.left = Cardinality(Fs(c) \ Reported(c))]]
           /\ waiters' = [f \in Futures |->
                            IF f \in Fs(c) THEN waiters[f] \cup {c} ELSE waiters[f]]
    BY <1>2, Zenon DEF Install
  <2>4. Cardinality(Fs(c) \ Reported(c)) \in Int
    <3>1. IsFiniteSet(Fs(c) \ Reported(c))
      BY <2>1, FS_Subset
    <3> QED BY <3>1, FS_CardinalityType
  <2>5. [NoWaiter EXCEPT !.left = Cardinality(Fs(c) \ Reported(c))] \in Records
    BY <2>4 DEF NoWaiter
  <2>6. waiter' \in [Clients -> Records]
    BY <1>0, <2>3, <2>5
  <2>7. waiters' \in [Futures -> SUBSET Clients]
    BY <1>0, <2>3
  <2>8. at' \in [Clients -> Nat \ {0}] /\ failed' \in [Futures -> BOOLEAN]
    BY <1>0, <2>2
  <2>9. reported' \in [Clients -> SUBSET Futures]
    <3> HIDE DEF Records
    <3> QED BY <1>0, <2>2
  <2> QED BY <2>6, <2>7, <2>8, <2>9 DEF WaitTyped
<1>3. ASSUME NEW c \in Clients, EventOrTimeOut(c) PROVE WaitTyped'
  <2>1. \/ UNCHANGED <<waiter, reported>>
        \/ /\ reported' = [reported EXCEPT ![c] = @ \cup waiter[c].finished]
           /\ waiter' = [waiter EXCEPT ![c].finished = {}, ![c].event = FALSE]
    BY <1>3 DEF EventOrTimeOut
  <2>2. UNCHANGED <<failed, waiters, at>>
    BY <1>3 DEF EventOrTimeOut
  <2>3. reported' \in [Clients -> SUBSET Futures]
    BY <1>0, <2>1
  <2>4. waiter' \in [Clients -> Records]
    <3>1. CASE UNCHANGED waiter
      BY <1>0, <3>1
    <3>2. CASE waiter' = [waiter EXCEPT ![c].finished = {}, ![c].event = FALSE]
      <4> DEFINE w == [waiter[c] EXCEPT !.finished = {}, !.event = FALSE]
      <4>1. w \in Records
        BY <1>0
      <4>2. waiter' = [waiter EXCEPT ![c] = w]
        BY <1>0, <3>2
      <4> HIDE DEF w
      <4> QED BY <1>0, <4>1, <4>2
    <3> QED BY <2>1, <3>1, <3>2
  <2> QED BY <1>0, <2>2, <2>3, <2>4 DEF WaitTyped
<1>4. ASSUME NEW c \in Clients, RemoveWaiter(c) PROVE WaitTyped'
  <2>1. /\ waiters' = [waiters EXCEPT ![This(c).fs[at[c]]] = @ \ {c}]
        /\ at' = [at EXCEPT ![c] = @ + 1] /\ UNCHANGED <<failed, waiter, reported>>
    BY <1>4 DEF RemoveWaiter
  <2>2. waiters' \in [Futures -> SUBSET Clients]
    BY <1>0, <2>1
  <2>3. at' \in [Clients -> Nat \ {0}]
    BY <1>0, <2>1
  <2> QED BY <1>0, <2>1, <2>2, <2>3 DEF WaitTyped
<1>5. ASSUME NEW c \in Clients, WaitReturns(c) PROVE WaitTyped'
  <2>1. /\ at' = [at EXCEPT ![c] = 1] /\ UNCHANGED <<failed, waiters>>
        /\ waiter' = [waiter EXCEPT ![c] = NoWaiter]
        /\ \/ UNCHANGED reported
           \/ reported' = [reported EXCEPT ![c] = @ \cup waiter[c].finished]
    BY <1>0, <1>5 DEF WaitReturns
  <2>2. NoWaiter \in Records
    BY DEF NoWaiter
  <2>3. reported' \in [Clients -> SUBSET Futures] /\ waiter' \in [Clients -> Records]
    BY <1>0, <2>1, <2>2
  <2> QED BY <1>0, <2>1, <2>3 DEF WaitTyped
<1>6. ASSUME NEW w \in Workers, WorkerStep(w) PROVE WaitTyped'
  <2>1. UNCHANGED <<waiters, at, reported>>
    BY <1>6, PoolAssumption DEF WorkerStep, GetItem, Start, Finish, Invoke
  <2>2. failed' \in [Futures -> BOOLEAN]
    <3>1. UNCHANGED failed \/ \E outcome : failed' = [failed EXCEPT ![item[w]] = outcome = "exception"]
      BY <1>6, PoolAssumption DEF WorkerStep, GetItem, Start, Finish, Invoke
    <3> QED BY <1>0, <3>1
  <2>3. ASSUME pc[w] \in AtWork, NEW outcome, Tell(item[w], outcome)
        PROVE  waiter' \in [Clients -> Records]
    <3>1. PICK f \in Futures : f = item[w]
      BY <1>0, <2>3 DEF WithWorker, Typed
    <3>2. Tell(f, outcome)
      BY <2>3, <3>1
    <3> QED BY <1>0, <3>2 DEF Tell
  <2>4. \/ UNCHANGED waiter
        \/ pc[w] \in AtWork /\ \E outcome : Tell(item[w], outcome)
    BY <1>6, PoolAssumption DEF WorkerStep, GetItem, Start, Finish, Invoke, AtWork
  <2> QED BY <1>0, <2>1, <2>2, <2>3, <2>4 DEF WaitTyped
<1> QED BY <1>1, <1>2, <1>3, <1>4, <1>5, <1>6 DEF Next, Waiters

LEMMA SleepInvAtInit == Init => SleepInv
<1> SUFFICES ASSUME Init PROVE SleepInv
  OBVIOUS
<1>1. WaitTyped
  BY DEF Init, WaitTyped, NoWaiter
<1>2. FailedIsFinished
  BY DEF Init, FailedIsFinished
<1>3. \A c \in Clients : pc[c] = "call" /\ \A f \in Futures : waiters[f] = {}
  BY DEF Init, Threads
<1> QED BY <1>1, <1>2, <1>3 DEF SleepInv, OnLists, Informed

LEMMA SleepStep == IInv /\ ListsTyped /\ SleepInv /\ [Next]_vars => SleepInv'
<1> SUFFICES ASSUME IInv, ListsTyped, SleepInv, [Next]_vars PROVE SleepInv'
  OBVIOUS
<1>1. CASE UNCHANGED vars
  <2>1. ASSUME NEW c \in Clients PROVE OnLists(c)' /\ Informed(c)'
    <3>1. Undisturbed(c) /\ Quiet
      BY <1>1 DEF vars, Undisturbed, Quiet
    <3> QED BY <3>1, UndisturbedSleep DEF IInv, SleepInv
  <2>2. WaitTyped' /\ FailedIsFinished'
    BY <1>1 DEF vars, SleepInv, WaitTyped, FailedIsFinished
  <2> QED BY <2>1, <2>2 DEF SleepInv
<1>2. CASE Next
  <2>1. \A c \in Clients : OnLists(c)' /\ Informed(c)'
    BY <1>2, WorkersSleep, ClientsSleep DEF Next
  <2>2. WaitTyped' /\ FailedIsFinished'
    BY <1>2, WaitTypedStep, FailedStep
  <2> QED BY <2>1, <2>2 DEF SleepInv
<1> QED BY <1>1, <1>2

(***************************************************************************)
(* However the futures end while wait() and as_completed() put their       *)
(* waiter in place, nobody sleeps who should have been told: the counter   *)
(* of the waiter and the set it is told of agree with the futures.         *)
(***************************************************************************)
THEOREM NobodyOversleeps == Spec => []SleepersHaveReason
<1>1. SleepInv => SleepersHaveReason
  BY DEF SleepInv, Informed, SleepersHaveReason
<1>2. IInv /\ [Next]_vars => IInv'
  BY EachStep
<1>3. CallbackInv => ListsTyped
  BY DEF CallbackInv
<1> QED BY InitHolds, CallbackInvAtInit, CallbackStep, SleepInvAtInit, SleepStep,
           <1>1, <1>2, <1>3, PTL DEF Spec
=============================================================================
