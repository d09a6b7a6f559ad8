---------------------------- MODULE QueueProofs ----------------------------
(***************************************************************************)
(* Proofs about module Queue, for any set of threads, any limit and any    *)
(* number of calls: no thread sleeps in get(), put() or join() without a   *)
(* reason, whatever times out meanwhile.                                   *)
(***************************************************************************)
EXTENDS Queue, TLAPS, FiniteSetTheorems, SequenceTheorems

Elements(s) == {s[i] : i \in DOMAIN s}
Distinct(s) == \A i, j \in DOMAIN s : s[i] = s[j] => i = j

\* The thread that tests or changes the queue holds the mutex.
MutexOwner == \A t \in Threads : pc[t] = "test" <=> mutex = t

\* The deques hold those that sleep and some of those that have given up, each
\* in the one of its condition.
Listed ==
  \A c \in Conditions : \A t \in Threads :
     pc[t] = "asleep" /\ Awaited(call[t].method) = c => t \in Waiters(c)
Placed ==
  \A c \in Conditions : \A t \in Waiters(c) :
     pc[t] \in {"asleep", "timed out"} /\ Awaited(call[t].method) = c

AllDistinct == \A c \in Conditions : Distinct(waiters[c])

Base == TypeOK /\ AllDistinct /\ MutexOwner /\ Listed /\ Placed

IInv == Base /\ NoWaiterStranded /\ NoJoinerStranded

-----------------------------------------------------------------------------
(* Sequences without repetition *)

\* What remains when notify(n) has removed the first n.
LEMMA FirstRemoved ==
  ASSUME NEW S, NEW s \in Seq(S), Distinct(s), NEW n \in Nat,
         NEW F, \A x : x \in F <=> \E i \in DOMAIN s : i <= n /\ s[i] = x
  PROVE  /\ SubSeq(s, n + 1, Len(s)) \in Seq(S)
         /\ Distinct(SubSeq(s, n + 1, Len(s)))
         /\ \A x : x \in Elements(SubSeq(s, n + 1, Len(s))) <=> x \in Elements(s) /\ x \notin F
<1> DEFINE r == SubSeq(s, n + 1, Len(s))
<1>1. \A i \in n + 1 .. Len(s) : s[i] \in S
  OBVIOUS
<1>2. /\ r \in Seq(S)
      /\ Len(r) = IF n + 1 <= Len(s) THEN Len(s) - n ELSE 0
      /\ \A i \in 1 .. Len(s) - n : r[i] = s[n + i]
  BY <1>1, SubSeqProperties
<1> HIDE DEF r
<1>3. Distinct(r)
  <2>1. ASSUME NEW i \in DOMAIN r
        PROVE  i \in Int /\ n + i \in DOMAIN s /\ r[i] = s[n + i]
    BY <1>2
  <2>2. ASSUME NEW i \in DOMAIN r, NEW j \in DOMAIN r, r[i] = r[j] PROVE i = j
    <3>1. n + i = n + j
      BY <2>1, <2>2 DEF Distinct
    <3> QED BY <2>1, <3>1
  <2> QED BY <2>2 DEF Distinct
<1>4. ASSUME NEW x PROVE x \in Elements(r) <=> \E i \in 1 .. Len(s) : i > n /\ s[i] = x
  <2>1. ASSUME NEW i \in 1 .. Len(s), i > n PROVE s[i] \in Elements(r)
    <3>1. i - n \in DOMAIN r /\ r[i - n] = s[i]
      BY <1>2, <2>1
    <3> QED BY <3>1 DEF Elements
  <2>2. ASSUME NEW j \in DOMAIN r PROVE \E i \in 1 .. Len(s) : i > n /\ s[i] = r[j]
    BY <1>2, n + j \in 1 .. Len(s), n + j > n
  <2> QED BY <2>1, <2>2 DEF Elements
<1>5. ASSUME NEW x
      PROVE  x \in Elements(s) /\ x \notin F
               <=> \E i \in 1 .. Len(s) : i > n /\ s[i] = x
  BY DEF Elements, Distinct
<1> QED BY <1>2, <1>3, <1>4, <1>5 DEF r

\* What remains when a waiter that has given up removes itself.
LEMMA OneRemoved ==
  ASSUME NEW S, NEW s \in Seq(S), Distinct(s), NEW k \in DOMAIN s
  PROVE  /\ SubSeq(s, 1, k - 1) \o SubSeq(s, k + 1, Len(s)) \in Seq(S)
         /\ Distinct(SubSeq(s, 1, k - 1) \o SubSeq(s, k + 1, Len(s)))
         /\ Elements(SubSeq(s, 1, k - 1) \o SubSeq(s, k + 1, Len(s)))
              = Elements(s) \ {s[k]}
<1> DEFINE a == SubSeq(s, 1, k - 1)
           b == SubSeq(s, k + 1, Len(s))
           r == a \o b
<1>1. /\ \A i \in 1 .. k - 1 : s[i] \in S
      /\ \A i \in k + 1 .. Len(s) : s[i] \in S
  OBVIOUS
<1>2. a \in Seq(S) /\ Len(a) = k - 1 /\ \A i \in 1 .. k - 1 : a[i] = s[i]
  BY <1>1, SubSeqProperties
<1>3. b \in Seq(S) /\ Len(b) = Len(s) - k /\ \A i \in 1 .. Len(s) - k : b[i] = s[k + i]
  BY <1>1, SubSeqProperties
<1> HIDE DEF a, b
<1>4. /\ r \in Seq(S) /\ Len(r) = Len(s) - 1
      /\ \A i \in 1 .. Len(s) - 1 : r[i] = IF i < k THEN s[i] ELSE s[i + 1]
  <2>1. /\ r \in Seq(S) /\ Len(r) = Len(a) + Len(b)
        /\ \A i \in 1 .. Len(a) + Len(b) : r[i] = IF i <= Len(a) THEN a[i] ELSE b[i - Len(a)]
    BY <1>2, <1>3, ConcatProperties
  <2>2. Len(a) + Len(b) = Len(s) - 1
    BY <1>2, <1>3
  <2>3. ASSUME NEW i \in 1 .. Len(s) - 1 PROVE r[i] = IF i < k THEN s[i] ELSE s[i + 1]
    <3>1. CASE i < k
      BY <1>2, <2>1, <2>2, <3>1
    <3>2. CASE ~(i < k)
      <4>1. r[i] = b[i - (k - 1)]
        BY <1>2, <2>1, <2>2, <3>2
      <4>2. i - (k - 1) \in 1 .. Len(s) - k /\ k + (i - (k - 1)) = i + 1
        BY <3>2
      <4> QED BY <1>3, <3>2, <4>1, <4>2
    <3> QED BY <3>1, <3>2
  <2> QED BY <2>1, <2>2, <2>3
<1> HIDE DEF r
<1>5. Distinct(r)
  <2> DEFINE from(i) == IF i < k THEN i ELSE i + 1
  <2>1. ASSUME NEW i \in DOMAIN r PROVE from(i) \in DOMAIN s /\ r[i] = s[from(i)]
    BY <1>4
  <2>2. ASSUME NEW i \in DOMAIN r, NEW j \in DOMAIN r, from(i) = from(j) PROVE i = j
    BY <1>4, <2>2
  <2> QED BY <2>1, <2>2 DEF Distinct
<1>6. ASSUME NEW i \in 1 .. Len(s), i # k PROVE s[i] \in Elements(r)
  <2>1. CASE i < k
    BY <1>4, <2>1, i \in DOMAIN r DEF Elements
  <2>2. CASE i > k
    BY <1>4, <2>2, i - 1 \in DOMAIN r, r[i - 1] = s[i] DEF Elements
  <2> QED BY <1>6, <2>1, <2>2
<1>7. ASSUME NEW j \in DOMAIN r PROVE \E i \in 1 .. Len(s) : i # k /\ s[i] = r[j]
  <2>1. CASE j < k
    BY <1>4, <2>1
  <2>2. CASE j >= k
    BY <1>4, <2>2, j + 1 \in 1 .. Len(s)
  <2> QED BY <1>4, <2>1, <2>2
<1>8. Elements(r) = Elements(s) \ {s[k]}
  BY <1>6, <1>7 DEF Elements, Distinct
<1> QED BY <1>4, <1>5, <1>8 DEF r, a, b

\* A new waiter.
LEMMA OneAppended ==
  ASSUME NEW S, NEW s \in Seq(S), Distinct(s), NEW x \in S, x \notin Elements(s)
  PROVE  /\ Append(s, x) \in Seq(S)
         /\ Distinct(Append(s, x))
         /\ Elements(Append(s, x)) = Elements(s) \cup {x}
<1>1. /\ Append(s, x) \in Seq(S)
      /\ Len(Append(s, x)) = Len(s) + 1
      /\ \A i \in 1 .. Len(s) : Append(s, x)[i] = s[i]
      /\ Append(s, x)[Len(s) + 1] = x
  OBVIOUS
<1>2. DOMAIN Append(s, x) = 1 .. Len(s) + 1
  BY <1>1
<1>3. Distinct(Append(s, x))
  BY <1>1, <1>2 DEF Distinct, Elements
<1>4. Elements(Append(s, x)) = Elements(s) \cup {x}
  <2>1. ASSUME NEW i \in DOMAIN s PROVE i \in DOMAIN Append(s, x)
    BY <1>2
  <2>2. Len(s) + 1 \in DOMAIN Append(s, x)
    BY <1>2
  <2> QED BY <1>1, <1>2, <2>1, <2>2 DEF Elements
<1> QED BY <1>1, <1>3, <1>4

-----------------------------------------------------------------------------
(* The deques *)

Deques == [Conditions -> Seq(Threads)]

LEMMA WaitersAreThreads ==
  ASSUME waiters \in Deques, NEW c \in Conditions
  PROVE  Waiters(c) \subseteq Threads
<1>1. waiters[c] \in Seq(Threads)
  BY DEF Deques
<1>2. \A i \in DOMAIN waiters[c] : waiters[c][i] \in Threads
  BY <1>1
<1> QED BY <1>2 DEF Waiters

\* notify() takes threads from one deque only.
LEMMA NotifyTakes ==
  ASSUME waiters \in Deques, AllDistinct,
         NEW c \in Conditions, NEW n \in Nat,
         waiters' = [waiters EXCEPT ![c] = SubSeq(@, n + 1, Len(@))]
  PROVE  /\ waiters' \in Deques /\ AllDistinct'
         /\ Waiters(c)' = Waiters(c) \ First(c, n)
         /\ \A d \in Conditions \ {c} : Waiters(d)' = Waiters(d)
<1>1. waiters[c] \in Seq(Threads) /\ Distinct(waiters[c])
  BY DEF Deques, AllDistinct
<1>2. waiters'[c] = SubSeq(waiters[c], n + 1, Len(waiters[c]))
  BY DEF Deques
<1>3. \A d \in Conditions \ {c} : waiters'[d] = waiters[d]
  BY DEF Deques
<1>4. /\ waiters'[c] \in Seq(Threads) /\ Distinct(waiters'[c])
      /\ Elements(waiters'[c]) = Elements(waiters[c]) \ First(c, n)
  <2> DEFINE s == waiters[c]
             F == First(c, n)
             r == SubSeq(s, n + 1, Len(s))
  <2>1. \A x : x \in F <=> \E i \in DOMAIN s : i <= n /\ s[i] = x
    BY DEF First
  <2>2. s \in Seq(Threads) /\ Distinct(s)
    BY <1>1
  <2> HIDE DEF s, F
  <2>3. /\ r \in Seq(Threads) /\ Distinct(r)
        /\ \A x : x \in Elements(r) <=> x \in Elements(s) /\ x \notin F
    BY <2>1, <2>2, FirstRemoved
  <2>4. Elements(r) = Elements(s) \ F
    BY <2>3
  <2> QED BY <1>2, <2>3, <2>4 DEF s, F
<1>5. waiters' \in Deques
  BY <1>4 DEF Deques
<1>6. AllDistinct'
  BY <1>3, <1>4 DEF AllDistinct
<1> QED BY <1>3, <1>4, <1>5, <1>6 DEF Waiters, Elements

\* A waiter that has given up leaves its deque, if it is still there.
LEMMA RemoveTakes ==
  ASSUME waiters \in Deques, AllDistinct,
         NEW c \in Conditions, NEW t \in Threads, Remove(c, t)
  PROVE  /\ waiters' \in Deques /\ AllDistinct'
         /\ Waiters(c)' = Waiters(c) \ {t}
         /\ \A d \in Conditions \ {c} : Waiters(d)' = Waiters(d)
<1>1. CASE t \notin Waiters(c) /\ UNCHANGED waiters
  BY <1>1 DEF AllDistinct, Waiters
<1>2. ASSUME NEW i \in DOMAIN waiters[c], waiters[c][i] = t,
             waiters' = [waiters EXCEPT ![c] = SubSeq(@, 1, i - 1) \o SubSeq(@, i + 1, Len(@))]
      PROVE  /\ waiters' \in Deques /\ AllDistinct'
             /\ Waiters(c)' = Waiters(c) \ {t}
             /\ \A d \in Conditions \ {c} : Waiters(d)' = Waiters(d)
  <2>1. waiters[c] \in Seq(Threads) /\ Distinct(waiters[c])
    BY DEF Deques, AllDistinct
  <2>2. waiters'[c] = SubSeq(waiters[c], 1, i - 1) \o SubSeq(waiters[c], i + 1, Len(waiters[c]))
    BY <1>2 DEF Deques
  <2>3. \A d \in Conditions \ {c} : waiters'[d] = waiters[d]
    BY <1>2 DEF Deques
  <2>4. /\ waiters'[c] \in Seq(Threads) /\ Distinct(waiters'[c])
        /\ Elements(waiters'[c]) = Elements(waiters[c]) \ {t}
    BY <1>2, <2>1, <2>2, OneRemoved
  <2>5. waiters' \in Deques
    BY <1>2, <2>2, <2>4 DEF Deques
  <2>6. AllDistinct'
    BY <2>3, <2>4 DEF AllDistinct
  <2> QED BY <2>3, <2>4, <2>5, <2>6 DEF Waiters, Elements
<1> QED BY <1>1, <1>2 DEF Remove

\* wait() puts its thread into one deque.
LEMMA WaitAppends ==
  ASSUME waiters \in Deques, AllDistinct,
         NEW c \in Conditions, NEW t \in Threads, t \notin Waiters(c),
         waiters' = [waiters EXCEPT ![c] = Append(@, t)]
  PROVE  /\ waiters' \in Deques /\ AllDistinct'
         /\ Waiters(c)' = Waiters(c) \cup {t}
         /\ \A d \in Conditions \ {c} : Waiters(d)' = Waiters(d)
<1>1. waiters[c] \in Seq(Threads) /\ Distinct(waiters[c])
  BY DEF Deques, AllDistinct
<1>2. waiters'[c] = Append(waiters[c], t)
  BY DEF Deques
<1>3. \A d \in Conditions \ {c} : waiters'[d] = waiters[d]
  BY DEF Deques
<1>4. /\ waiters'[c] \in Seq(Threads) /\ Distinct(waiters'[c])
      /\ Elements(waiters'[c]) = Elements(waiters[c]) \cup {t}
  BY <1>1, <1>2, OneAppended DEF Waiters, Elements
<1>5. waiters' \in Deques
  BY <1>4 DEF Deques
<1>6. AllDistinct'
  BY <1>3, <1>4 DEF AllDistinct
<1>7. Waiters(c) = Elements(waiters[c]) /\ Waiters(c)' = Elements(waiters'[c])
  BY DEF Waiters, Elements
<1>8. \A d \in Conditions \ {c} : Waiters(d)' = Waiters(d)
  BY <1>3 DEF Waiters
<1> QED BY <1>4, <1>5, <1>6, <1>7, <1>8

-----------------------------------------------------------------------------
(* Where the threads are *)

\* notify(n) at the end of a method.
LEMMA NotifyBase ==
  ASSUME Base, NEW t \in Threads, pc[t] = "test",
         NEW c \in Conditions, NEW n \in Nat, NotifyAndLeave(t, c, n)
  PROVE  /\ waiters' \in Deques /\ call' \in [Threads -> Calls \cup {NoCall}]
         /\ pc' \in [Threads -> Places] /\ mutex' \in Threads \cup {Nobody}
         /\ AllDistinct' /\ MutexOwner' /\ Listed' /\ Placed'
<1> USE QueueAssumption DEF Base, TypeOK
<1>1. /\ waiters' \in Deques /\ AllDistinct'
      /\ Waiters(c)' = Waiters(c) \ First(c, n)
      /\ \A d \in Conditions \ {c} : Waiters(d)' = Waiters(d)
  BY NotifyTakes DEF NotifyAndLeave, Deques
<1>2. First(c, n) \subseteq Waiters(c)
  BY DEF First, Waiters
<1>3. \A d \in Conditions : t \notin Waiters(d)
  BY DEF Placed
<1>10. \A d \in Conditions \ {c} : Waiters(d) \cap Waiters(c) = {}
  BY DEF Placed
<1>4. \A u \in Threads \ {t} : call'[u] = call[u]
  BY DEF NotifyAndLeave
<1>5. \A u \in Threads : Awaited(call[u].method) \in Conditions
  BY DEF Awaited, Conditions
<1>6. call' \in [Threads -> Calls \cup {NoCall}] /\ pc' \in [Threads -> Places]
  BY DEF NotifyAndLeave, Places
<1>7. MutexOwner'
  BY DEF NotifyAndLeave, MutexOwner
<1>8. Listed'
  <2> SUFFICES ASSUME NEW d \in Conditions, NEW u \in Threads,
                      pc'[u] = "asleep", Awaited(call'[u].method) = d
               PROVE  u \in Waiters(d)'
    BY DEF Listed, Awaited
  <2>1. u # t /\ pc[u] = "asleep" /\ u \notin First(c, n)
    BY DEF NotifyAndLeave
  <2>2. u \in Waiters(d)
    BY <1>4, <2>1 DEF Listed
  <2> QED BY <1>1, <2>1, <2>2
<1>9. Placed'
  <2> SUFFICES ASSUME NEW d \in Conditions, NEW u \in Waiters(d)'
               PROVE  pc'[u] \in {"asleep", "timed out"} /\ Awaited(call'[u].method) = d
    BY DEF Placed, Awaited
  <2>1. u \in Waiters(d) /\ u \notin First(c, n)
    BY <1>1, <1>2, <1>10
  <2>2. u \in Threads /\ u # t
    BY <1>3, <2>1 DEF Waiters
  <2>3. pc'[u] = pc[u] /\ call'[u] = call[u]
    BY <1>4, <2>1, <2>2 DEF NotifyAndLeave
  <2> QED BY <2>1, <2>3 DEF Placed
<1> QED BY <1>1, <1>6, <1>7, <1>8, <1>9 DEF NotifyAndLeave

\* A step of t that changes no other thread, and the place of no other thread in
\* a deque.
LEMMA OwnStep ==
  ASSUME Base, NEW t \in Threads,
         \A u \in Threads \ {t} : pc'[u] = pc[u] /\ call'[u] = call[u],
         waiters' \in Deques,
         \A d \in Conditions : Waiters(d)' \ {t} = Waiters(d) \ {t},
         \A d \in Conditions :
            t \in Waiters(d)' => pc'[t] \in {"asleep", "timed out"} /\ Awaited(call'[t].method) = d,
         \A d \in Conditions :
            pc'[t] = "asleep" /\ Awaited(call'[t].method) = d => t \in Waiters(d)'
  PROVE  Listed' /\ Placed'
<1>1. Listed'
  <2> SUFFICES ASSUME NEW d \in Conditions, NEW u \in Threads,
                      pc'[u] = "asleep", Awaited(call'[u].method) = d
               PROVE  u \in Waiters(d)'
    BY DEF Listed, Awaited
  <2>1. CASE u = t
    BY <2>1
  <2>2. CASE u # t
    <3>1. u \in Waiters(d)
      BY <2>2 DEF Base, Listed
    <3> QED BY <2>2, <3>1
  <2> QED BY <2>1, <2>2
<1>2. Placed'
  <2> SUFFICES ASSUME NEW d \in Conditions, NEW u \in Waiters(d)'
               PROVE  pc'[u] \in {"asleep", "timed out"} /\ Awaited(call'[u].method) = d
    BY DEF Placed, Awaited
  <2>1. CASE u = t
    BY <2>1
  <2>2. CASE u # t
    <3>1. u \in Waiters(d)
      BY <2>2
    <3>2. u \in Threads
      BY <3>1, WaitersAreThreads DEF Base, TypeOK, Deques
    <3> QED BY <2>2, <3>1, <3>2 DEF Base, Placed
  <2> QED BY <2>1, <2>2
<1> QED BY <1>1, <1>2

\* The same when t is in no deque.
LEMMA AwakeStep ==
  ASSUME Base, NEW t \in Threads, pc[t] \in {"idle", "enter", "test", "notified"},
         pc' = [pc EXCEPT ![t] = pc'[t]], pc'[t] \in {"idle", "enter", "test"},
         call' = [call EXCEPT ![t] = call'[t]],
         UNCHANGED waiters
  PROVE  AllDistinct' /\ Listed' /\ Placed'
<1> USE DEF Base, TypeOK
<1>1. \A d \in Conditions : Waiters(d)' = Waiters(d)
  BY DEF Waiters
<1>4. \A d \in Conditions : t \notin Waiters(d)
  BY DEF Placed
<1>2. \A u \in Threads \ {t} : pc'[u] = pc[u] /\ call'[u] = call[u]
  OBVIOUS
<1>3. AllDistinct' /\ waiters' \in Deques
  BY DEF AllDistinct, Deques
<1> HIDE DEF Base, TypeOK
<1> QED BY <1>1, <1>2, <1>3, <1>4, OwnStep

\* Initially nobody calls a method.
LEMMA BaseInit == Init => Base
<1> SUFFICES ASSUME Init PROVE Base
  OBVIOUS
<1> USE QueueAssumption DEF Init
<1>1. TypeOK
  <2>1. waiters \in [Conditions -> Seq(Threads)]
    OBVIOUS
  <2> QED BY <2>1 DEF TypeOK, Places
<1>2. \A c \in Conditions : Waiters(c) = {}
  BY DEF Waiters
<1>3. AllDistinct
  BY DEF AllDistinct, Distinct
<1> QED BY <1>1, <1>2, <1>3 DEF Base, MutexOwner, Listed, Placed

\* Each action keeps it.
LEMMA BaseStep == Base /\ [Next]_vars => Base'
<1> SUFFICES ASSUME Base, [Next]_vars PROVE Base'
  OBVIOUS
<1> USE QueueAssumption DEF Base, TypeOK
<1>0. /\ \A t \in Threads : Awaited(call[t].method) \in Conditions
      /\ waiters \in Deques
  BY DEF Awaited, Conditions, Deques
<1>1. ASSUME NEW t \in Threads, Call(t) PROVE Base'
  <2>1. PICK c \in Calls : call' = [call EXCEPT ![t] = c]
    BY <1>1 DEF Call
  <2>2. /\ pc[t] = "idle" /\ pc' = [pc EXCEPT ![t] = "enter"] /\ UNCHANGED waiters
        /\ calls' = [calls EXCEPT ![t] = @ + 1] /\ calls[t] < MaxCalls
        /\ UNCHANGED <<maxsize, mutex, waiters, qsize, unfinished_tasks>>
    BY <1>1 DEF Call
  <2>3. pc' = [pc EXCEPT ![t] = pc'[t]] /\ pc'[t] = "enter" /\ call' = [call EXCEPT ![t] = call'[t]]
    BY <2>1, <2>2
  <2>4. TypeOK'
    <3>1. calls' \in [Threads -> 0 .. MaxCalls]
      BY <2>2
    <3>2. pc' \in [Threads -> Places] /\ call' \in [Threads -> Calls \cup {NoCall}]
      BY <2>1, <2>2 DEF Places
    <3> QED BY <2>2, <3>1, <3>2
  <2>5. AllDistinct' /\ Listed' /\ Placed'
    BY <2>2, <2>3, AwakeStep
  <2> QED BY <2>2, <2>4, <2>5 DEF MutexOwner
<1>2. ASSUME NEW t \in Threads, Enter(t) PROVE Base'
  <2>1. pc' = [pc EXCEPT ![t] = pc'[t]] /\ pc'[t] = "test" /\ call' = [call EXCEPT ![t] = call'[t]]
    BY <1>2 DEF Enter
  <2>2. TypeOK'
    BY <1>2 DEF Enter, Places
  <2>3. AllDistinct' /\ Listed' /\ Placed'
    BY <1>2, <2>1, AwakeStep DEF Enter
  <2> QED BY <1>2, <2>2, <2>3 DEF Enter, MutexOwner
<1>3. ASSUME NEW t \in Threads, Put(t) PROVE Base'
  <2>1. pc[t] = "test" /\ NotifyAndLeave(t, "not_empty", 1) /\ "not_empty" \in Conditions
    BY <1>3 DEF Put, Proceeds, Conditions
  <2>2. /\ waiters' \in Deques /\ call' \in [Threads -> Calls \cup {NoCall}]
        /\ pc' \in [Threads -> Places] /\ mutex' \in Threads \cup {Nobody}
        /\ AllDistinct' /\ MutexOwner' /\ Listed' /\ Placed'
    BY <2>1, NotifyBase
  <2>3. /\ maxsize' = maxsize /\ calls' = calls
        /\ qsize' = qsize + 1 /\ unfinished_tasks' = unfinished_tasks + 1
    BY <1>3 DEF Put
  <2> QED BY <2>2, <2>3 DEF Deques
<1>4. ASSUME NEW t \in Threads, Get(t) PROVE Base'
  <2>1. /\ pc[t] = "test" /\ NotifyAndLeave(t, "not_full", 1) /\ "not_full" \in Conditions
        /\ qsize > 0
    BY <1>4 DEF Get, Proceeds, Conditions, Ready
  <2>2. /\ waiters' \in Deques /\ call' \in [Threads -> Calls \cup {NoCall}]
        /\ pc' \in [Threads -> Places] /\ mutex' \in Threads \cup {Nobody}
        /\ AllDistinct' /\ MutexOwner' /\ Listed' /\ Placed'
    BY <2>1, NotifyBase
  <2>3. /\ maxsize' = maxsize /\ calls' = calls
        /\ qsize' = qsize - 1 /\ unfinished_tasks' = unfinished_tasks
    BY <1>4 DEF Get
  <2> QED BY <2>1, <2>2, <2>3 DEF Deques
<1>5. ASSUME NEW t \in Threads, pc[t] = "test", Leave(t),
             UNCHANGED <<maxsize, qsize, calls>>, unfinished_tasks' \in Nat
      PROVE  Base'
  <2>1. pc' = [pc EXCEPT ![t] = pc'[t]] /\ pc'[t] = "idle" /\ call' = [call EXCEPT ![t] = call'[t]]
    BY <1>5 DEF Leave
  <2>2. TypeOK'
    BY <1>5 DEF Leave, Places
  <2>3. AllDistinct' /\ Listed' /\ Placed'
    BY <1>5, <2>1, AwakeStep DEF Leave
  <2> QED BY <1>5, <2>2, <2>3 DEF Leave, MutexOwner
<1>6. ASSUME NEW t \in Threads, GiveUp(t) PROVE Base'
  BY <1>5, <1>6 DEF GiveUp
<1>7. ASSUME NEW t \in Threads, TaskDone(t) PROVE Base'
  <2>1. pc[t] = "test" /\ unfinished_tasks' \in Nat
    BY <1>7 DEF TaskDone, Proceeds
  <2>2. CASE unfinished_tasks = 1
    <3>1. /\ NotifyAndLeave(t, "all_tasks_done", Len(waiters["all_tasks_done"]))
          /\ "all_tasks_done" \in Conditions /\ Len(waiters["all_tasks_done"]) \in Nat
      BY <1>7, <2>2 DEF TaskDone, Conditions
    <3>2. /\ waiters' \in Deques /\ call' \in [Threads -> Calls \cup {NoCall}]
          /\ pc' \in [Threads -> Places] /\ mutex' \in Threads \cup {Nobody}
          /\ AllDistinct' /\ MutexOwner' /\ Listed' /\ Placed'
      BY <2>1, <3>1, NotifyBase
    <3>3. maxsize' = maxsize /\ calls' = calls /\ qsize' = qsize
      BY <1>7 DEF TaskDone
    <3> QED BY <2>1, <3>2, <3>3 DEF Deques
  <2> QED BY <1>5, <1>7, <2>1, <2>2 DEF TaskDone
<1>8. ASSUME NEW t \in Threads, Join(t) PROVE Base'
  BY <1>5, <1>8 DEF Join, Proceeds
<1>9. ASSUME NEW t \in Threads, Wait(t) PROVE Base'
  <2>1. PICK c \in Conditions : Awaited(call[t].method) = c
    BY <1>0
  <2>2. t \notin Waiters(c)
    BY <1>9, <2>1 DEF Wait, Placed
  <2>3. waiters' = [waiters EXCEPT ![c] = Append(@, t)]
    BY <1>9, <2>1 DEF Wait
  <2>4. call' = call /\ pc' = [pc EXCEPT ![t] = "asleep"]
    BY <1>9 DEF Wait
  <2>5. \A u \in Threads : call'[u] = call[u]
    BY <2>4
  <2>7. /\ waiters' \in Deques /\ AllDistinct'
        /\ Waiters(c)' = Waiters(c) \cup {t}
        /\ \A d \in Conditions \ {c} : Waiters(d)' = Waiters(d)
    BY <1>0, <2>1, <2>2, <2>3, WaitAppends
  <2>8. TypeOK'
    BY <1>9, <2>7 DEF Wait, Places, Deques
  <2>9. Listed' /\ Placed'
    <3>1. \A u \in Threads \ {t} : pc'[u] = pc[u] /\ call'[u] = call[u]
      BY <2>4
    <3>2. pc'[t] = "asleep" /\ Awaited(call'[t].method) = c
      BY <2>1, <2>4
    <3>3. \A d \in Conditions : t \notin Waiters(d)
      BY <1>9 DEF Wait, Placed
    <3>4. \A d \in Conditions : Waiters(d)' \ {t} = Waiters(d) \ {t}
      BY <2>7
    <3>5. \A d \in Conditions : t \in Waiters(d)' <=> d = c
      BY <2>1, <2>7, <3>3
    <3> QED BY <2>7, <3>1, <3>2, <3>4, <3>5, OwnStep
  <2> QED BY <1>9, <2>7, <2>8, <2>9 DEF Wait, MutexOwner
<1>10. ASSUME NEW t \in Threads, TimeOut(t) PROVE Base'
  <2>1. pc[t] = "asleep" /\ pc' = [pc EXCEPT ![t] = "timed out"] /\ UNCHANGED waiters
    BY <1>10 DEF TimeOut
  <2> DEFINE r == call[t]
             q == [r EXCEPT !.mode = "nowait"]
  <2>2. r \in Calls /\ r.mode = "timeout" /\ call' = [call EXCEPT ![t] = q]
    <3>1. r \in Calls \cup {NoCall} /\ r.mode = "timeout"
      BY <1>10 DEF TimeOut
    <3>2. NoCall.mode # "timeout"
      BY DEF NoCall
    <3>3. call' = [call EXCEPT ![t] = q]
      BY <1>10 DEF TimeOut
    <3> QED BY <3>1, <3>2, <3>3
  <2>3. q \in Calls /\ q.method = r.method
    BY <2>2 DEF Calls
  <2>4. TypeOK'
    BY <1>10, <2>1, <2>2, <2>3 DEF TimeOut, Places
  <2>5. Awaited(q.method) = Awaited(call[t].method)
    BY <2>3 DEF Awaited
  <2> HIDE DEF q
  <2>6. call'[t] = q
    BY <2>2
  <2>7. AllDistinct' /\ waiters' \in Deques /\ \A d \in Conditions : Waiters(d)' = Waiters(d)
    BY <1>0, <2>1 DEF AllDistinct, Waiters
  <2>8. \A u \in Threads \ {t} : pc'[u] = pc[u] /\ call'[u] = call[u]
    BY <2>1, <2>2
  <2>9. \A d \in Conditions : t \in Waiters(d) => Awaited(call[t].method) = d
    BY DEF Placed
  <2>10. pc'[t] = "timed out"
    BY <2>1
  <2>11. Listed' /\ Placed'
    BY <2>5, <2>6, <2>7, <2>8, <2>9, <2>10, OwnStep
  <2> QED BY <1>10, <2>4, <2>7, <2>11 DEF TimeOut, MutexOwner
<1>11. ASSUME NEW t \in Threads, Resume(t) PROVE Base'
  <2>1. PICK c \in Conditions : Awaited(call[t].method) = c
    BY <1>0
  <2>2. /\ call' = call /\ pc' = [pc EXCEPT ![t] = "test"] /\ mutex = Nobody /\ mutex' = t
        /\ \/ pc[t] = "notified" /\ UNCHANGED waiters
           \/ pc[t] = "timed out" /\ Remove(c, t)
    BY <1>11, <2>1 DEF Resume
  <2>3. \A d \in Conditions \ {c} : t \notin Waiters(d)
    BY <2>1 DEF Placed
  <2>4. /\ waiters' \in Deques /\ AllDistinct'
        /\ \A d \in Conditions : Waiters(d)' = Waiters(d) \ {t}
    <3>1. CASE pc[t] = "notified" /\ UNCHANGED waiters
      <4>1. \A d \in Conditions : t \notin Waiters(d)
        BY <3>1 DEF Placed
      <4>2. \A d \in Conditions : Waiters(d)' = Waiters(d)
        BY <3>1 DEF Waiters
      <4> QED BY <1>0, <3>1, <4>1, <4>2 DEF AllDistinct
    <3>2. CASE pc[t] = "timed out" /\ Remove(c, t)
      <4>1. /\ waiters' \in Deques /\ AllDistinct'
            /\ Waiters(c)' = Waiters(c) \ {t}
            /\ \A d \in Conditions \ {c} : Waiters(d)' = Waiters(d)
        BY <1>0, <2>1, <3>2, RemoveTakes
      <4> QED BY <2>3, <4>1
    <3> QED BY <2>2, <3>1, <3>2
  <2>5. TypeOK'
    BY <1>11, <2>2, <2>4 DEF Resume, Places, Deques
  <2>6. \A u \in Threads \ {t} : pc'[u] = pc[u] /\ call'[u] = call[u]
    BY <2>2
  <2>7. pc'[t] = "test"
    BY <2>2
  <2>8. Listed' /\ Placed'
    BY <2>4, <2>6, <2>7, OwnStep
  <2> QED BY <2>2, <2>4, <2>5, <2>8 DEF MutexOwner
<1>12. CASE UNCHANGED vars
  <2>1. \A c \in Conditions : Waiters(c)' = Waiters(c)
    BY <1>12 DEF vars, Waiters
  <2>2. pc' = pc /\ call' = call
    BY <1>12 DEF vars
  <2>3. Listed'
    <3> SUFFICES ASSUME NEW c \in Conditions, NEW t \in Threads,
                        pc'[t] = "asleep", Awaited(call'[t].method) = c
                 PROVE  t \in Waiters(c)'
      BY DEF Listed, Awaited
    <3> QED BY <2>1, <2>2 DEF Listed
  <2>4. Placed'
    <3> SUFFICES ASSUME NEW c \in Conditions, NEW t \in Waiters(c)'
                 PROVE  pc'[t] \in {"asleep", "timed out"} /\ Awaited(call'[t].method) = c
      BY DEF Placed, Awaited
    <3> QED BY <2>1, <2>2 DEF Placed
  <2> QED BY <1>12, <2>3, <2>4 DEF vars, AllDistinct, MutexOwner
<1> QED BY <1>1, <1>2, <1>3, <1>4, <1>6, <1>7, <1>8, <1>9, <1>10, <1>11, <1>12
     DEF Next, Step
-----------------------------------------------------------------------------
(* No notification is lost *)

\* What there is for those that wait in a method, and that enough of them know.
Due(m) == IF m = "get" THEN qsize ELSE maxsize - qsize
Enough(m) == Asleep(m) # {} => Cardinality(Roused(m)) >= Due(m)

LEMMA EnoughForBoth == NoWaiterStranded <=> Enough("get") /\ Enough("put")
  BY DEF NoWaiterStranded, Enough, Due

\* Sets of threads have a number of elements.
LEMMA Counted ==
  ASSUME NEW A \in SUBSET Threads, NEW B \in SUBSET Threads
  PROVE  /\ Cardinality(A) \in Nat /\ Cardinality(B) \in Nat
         /\ A \subseteq B => Cardinality(A) <= Cardinality(B)
         /\ \A w \in B : A \subseteq B \ {w} => Cardinality(A) + 1 <= Cardinality(B)
<1>1. IsFiniteSet(A) /\ IsFiniteSet(B)
  BY QueueAssumption, FS_Subset
<1>2. Cardinality(A) \in Nat /\ Cardinality(B) \in Nat
  BY <1>1, FS_CardinalityType
<1>3. A \subseteq B => Cardinality(A) <= Cardinality(B)
  BY <1>1, FS_Subset
<1>4. ASSUME NEW w \in B, A \subseteq B \ {w} PROVE Cardinality(A) + 1 <= Cardinality(B)
  <2>1. IsFiniteSet(B \ {w}) /\ Cardinality(B \ {w}) = Cardinality(B) - 1
    BY <1>1, FS_RemoveElement
  <2>2. Cardinality(A) <= Cardinality(B \ {w})
    BY <1>4, <2>1, FS_Subset
  <2>3. Cardinality(A) \in Nat /\ Cardinality(B) \in Nat
    BY <1>2
  <2> QED BY <2>1, <2>2, <2>3
<1> QED BY <1>2, <1>3, <1>4

\* A thread that is as it was, and has not been put into the deque, counts as it
\* did.
LEMMA CountsAsBefore ==
  ASSUME NEW m \in {"get", "put"}, NEW u \in Threads, pc'[u] = pc[u],
         call'[u].method = call[u].method,
         u \in Waiters(Awaited(m))' => u \in Waiters(Awaited(m))
  PROVE  /\ u \in Roused(m) => u \in Roused(m)'
         /\ u \in Asleep(m)' => u \in Asleep(m)
  BY DEF Roused, Asleep, Calling

\* Enough threads still know when as many do and there is no more for them.
LEMMA EnoughKept ==
  ASSUME TypeOK, TypeOK', NEW m \in {"get", "put"}, Enough(m),
         \A u \in Threads : (u \in Roused(m) => u \in Roused(m)')
                             /\ (u \in Asleep(m)' => u \in Asleep(m)),
         Due(m)' <= Due(m)
  PROVE  Enough(m)'
<1>1. Roused(m) \in SUBSET Threads /\ Roused(m)' \in SUBSET Threads
  BY DEF Roused, Calling
<1>2. Roused(m) \subseteq Roused(m)' /\ Asleep(m)' \subseteq Asleep(m)
  BY <1>1 DEF Asleep, Calling
<1>3. Due(m) \in Int /\ Due(m)' \in Int
  BY QueueAssumption DEF TypeOK, Due
<1>4. /\ Cardinality(Roused(m)) \in Nat /\ Cardinality(Roused(m)') \in Nat
      /\ Cardinality(Roused(m)) <= Cardinality(Roused(m)')
  BY <1>1, <1>2, Counted
<1> QED BY <1>2, <1>3, <1>4 DEF Enough

\* Nothing to wait for: it does not matter who knows.
LEMMA NothingDue ==
  ASSUME TypeOK', NEW m \in {"get", "put"}, Due(m)' <= 0
  PROVE  Enough(m)'
<1>1. Roused(m)' \in SUBSET Threads
  BY DEF Roused, Calling
<1>2. Cardinality(Roused(m)') \in Nat
  BY <1>1, Counted
<1>3. Due(m)' \in Int
  BY QueueAssumption DEF TypeOK, Due
<1> QED BY <1>2, <1>3 DEF Enough

\* A method of the other kind adds one, and tells the first of those that wait.
LEMMA OneMoreKnows ==
  ASSUME Base, TypeOK', NEW t \in Threads, NEW m \in {"get", "put"},
         pc[t] = "test", call[t].method # m,
         NotifyAndLeave(t, Awaited(m), 1), Enough(m), Due(m)' = Due(m) + 1
  PROVE  Enough(m)'
<1> DEFINE c == Awaited(m)
<1>1. c \in Conditions
  BY DEF Awaited, Conditions
<1>2. Due(m) \in Int
  BY QueueAssumption DEF Base, TypeOK, Due
<1>3. waiters \in Deques /\ AllDistinct
  BY DEF Base, TypeOK, Deques
<1> HIDE DEF c
<1>4. /\ Waiters(c)' = Waiters(c) \ First(c, 1)
  BY <1>1, <1>3, NotifyTakes DEF NotifyAndLeave, c
<1>5. First(c, 1) \subseteq Waiters(c) /\ Waiters(c) \subseteq Threads
  BY <1>1, <1>3, WaitersAreThreads DEF First, Waiters
<1>6. \A u \in Waiters(c) : u # t /\ pc[u] \in {"asleep", "timed out"}
  BY <1>1 DEF Base, Placed
<1>7. \A u \in Threads : Awaited(call[u].method) = c <=> call[u].method = m
  <2>1. \A u \in Threads : call[u].method \in {"get", "put", "join", "task_done", "none"}
    BY DEF Base, TypeOK, Calls, NoCall
  <2> QED BY <2>1 DEF Awaited, c
<1>8. \A u \in Threads \ {t} : call'[u] = call[u]
  BY DEF NotifyAndLeave, Base, TypeOK
<1>9. \A u \in Threads \ {t} :
         pc'[u] = IF u \in First(c, 1) /\ pc[u] = "asleep" THEN "notified" ELSE pc[u]
  BY DEF NotifyAndLeave, c
<1>10. call'[t].method # m /\ call' \in [Threads -> Calls \cup {NoCall}]
  BY DEF NotifyAndLeave, Base, TypeOK, NoCall
<1>11. Roused(m) \in SUBSET Threads /\ Roused(m)' \in SUBSET Threads
  BY DEF Roused, Calling
<1>12. Roused(m) \subseteq Roused(m)'
  <2> SUFFICES ASSUME NEW u \in Roused(m) PROVE u \in Roused(m)'
    OBVIOUS
  <2>1. u \in Threads /\ u # t /\ pc[u] # "asleep"
    BY DEF Roused, Calling
  <2>2. pc'[u] = pc[u] /\ call'[u] = call[u] /\ (u \in Waiters(c)' => u \in Waiters(c))
    BY <1>4, <1>8, <1>9, <2>1
  <2> QED BY <2>1, <2>2, CountsAsBefore DEF c
<1>13. SUFFICES ASSUME Asleep(m)' # {} PROVE Cardinality(Roused(m)') >= Due(m)'
  BY DEF Enough
<1>14. PICK u \in Asleep(m)' : TRUE
  BY <1>13
<1>15. u \in Threads /\ u # t /\ pc[u] = "asleep" /\ call[u].method = m
  <2>1. u \in Threads /\ call'[u].method = m /\ pc'[u] = "asleep"
    BY DEF Asleep, Calling
  <2>2. u # t
    BY <1>10, <2>1
  <2> QED BY <1>8, <1>9, <2>1, <2>2
<1>16. Cardinality(Roused(m)) >= Due(m)
  BY <1>15 DEF Enough, Asleep, Calling
<1>17. PICK w \in First(c, 1) : TRUE
  <2>1. u \in Waiters(c)
    BY <1>1, <1>7, <1>15 DEF Base, Listed
  <2>2. waiters[c] \in Seq(Threads) /\ \E i \in DOMAIN waiters[c] : waiters[c][i] = u
    BY <1>1, <1>3, <2>1 DEF Waiters, Deques
  <2>3. 1 \in DOMAIN waiters[c]
    BY <2>2
  <2> QED BY <2>3 DEF First
<1>18. w \in Threads /\ w # t /\ w \in Waiters(c) /\ pc[w] \in {"asleep", "timed out"}
  BY <1>5, <1>6, <1>17
<1>19. call[w].method = m
  BY <1>1, <1>7, <1>18 DEF Base, Placed
<1>20. w \notin Roused(m)
  BY <1>18 DEF Roused, c
<1>21. w \in Roused(m)'
  <2>1. call'[w].method = m /\ w \notin Waiters(c)'
    BY <1>4, <1>8, <1>17, <1>18, <1>19
  <2>2. pc'[w] \in {"notified", "timed out"}
    BY <1>9, <1>17, <1>18
  <2> QED BY <1>18, <2>1, <2>2 DEF Roused, Calling, c
<1>22. Roused(m) \subseteq Roused(m)' \ {w}
  BY <1>12, <1>20
<1>23. /\ Cardinality(Roused(m)) \in Nat /\ Cardinality(Roused(m)') \in Nat
       /\ Cardinality(Roused(m)) + 1 <= Cardinality(Roused(m)')
  BY <1>11, <1>21, <1>22, Counted
<1> QED BY <1>2, <1>16, <1>23

\* One that knew has taken one, and tells those of the other kind.
LEMMA OneLessKnows ==
  ASSUME Base, TypeOK', NEW t \in Threads, NEW m \in {"get", "put"}, pc[t] = "test",
         NEW c \in Conditions, c # Awaited(m), NEW n \in Nat, NotifyAndLeave(t, c, n),
         Enough(m), \/ call[t].method # m /\ Due(m)' <= Due(m)
                    \/ Due(m)' = Due(m) - 1
  PROVE  Enough(m)'
<1>1. Awaited(m) \in Conditions
  BY DEF Awaited, Conditions
<1>2. Due(m) \in Int /\ Due(m)' \in Int
  BY QueueAssumption DEF Base, TypeOK, Due
<1>3. waiters \in Deques /\ AllDistinct
  BY DEF Base, TypeOK, Deques
<1>4. Waiters(Awaited(m))' = Waiters(Awaited(m))
  BY <1>1, <1>3, NotifyTakes DEF NotifyAndLeave
<1>5. ASSUME NEW u \in Threads \ {t}
      PROVE  /\ u \in Roused(m) => u \in Roused(m)'
             /\ u \in Asleep(m)' => u \in Asleep(m)
  <2>1. call'[u] = call[u]
    BY DEF NotifyAndLeave, Base, TypeOK
  <2>2. CASE call[u].method = m
    <3>1. u \notin Waiters(c)
      BY <2>2 DEF Base, Placed
    <3>2. u \notin First(c, n)
      BY <3>1 DEF First, Waiters
    <3>3. pc'[u] = pc[u]
      BY <3>2 DEF NotifyAndLeave
    <3> QED BY <1>4, <2>1, <3>3, CountsAsBefore
  <2>3. CASE call[u].method # m
    BY <2>1, <2>3 DEF Roused, Asleep, Calling
  <2> QED BY <2>2, <2>3
<1>6. t \notin Asleep(m)'
  BY DEF NotifyAndLeave, Asleep
<1>7. CASE call[t].method # m /\ Due(m)' <= Due(m)
  <2>1. t \notin Roused(m)
    BY <1>7 DEF Roused, Calling
  <2>2. \A u \in Threads : (u \in Roused(m) => u \in Roused(m)')
                            /\ (u \in Asleep(m)' => u \in Asleep(m))
    BY <1>5, <1>6, <2>1
  <2> QED BY <1>7, <2>2, EnoughKept DEF Base
<1>8. CASE Due(m)' = Due(m) - 1
  <2>1. Roused(m) \in SUBSET Threads /\ Roused(m)' \in SUBSET Threads
    BY DEF Roused, Calling
  <2>2. Roused(m) \ {t} \subseteq Roused(m)' /\ Asleep(m)' \subseteq Asleep(m)
    BY <1>5, <1>6, <2>1 DEF Asleep, Calling
  <2>3. IsFiniteSet(Roused(m))
    BY <2>1, QueueAssumption, FS_Subset
  <2>4. Cardinality(Roused(m)) \in Nat
    BY <2>1, Counted
  <2>5. Cardinality(Roused(m) \ {t}) >= Cardinality(Roused(m)) - 1
    <3>1. CASE t \in Roused(m)
      <4>1. Cardinality(Roused(m) \ {t}) = Cardinality(Roused(m)) - 1
        BY <2>3, <3>1, FS_RemoveElement
      <4> QED BY <2>4, <4>1
    <3>2. CASE t \notin Roused(m)
      <4>1. Roused(m) \ {t} = Roused(m)
        BY <3>2
      <4> QED BY <2>4, <4>1
    <3> QED BY <3>1, <3>2
  <2>6. /\ Cardinality(Roused(m) \ {t}) \in Nat /\ Cardinality(Roused(m)') \in Nat
        /\ Cardinality(Roused(m) \ {t}) <= Cardinality(Roused(m)')
    BY <2>1, <2>2, Counted
  <2> QED BY <1>2, <1>8, <2>2, <2>4, <2>5, <2>6 DEF Enough
<1> QED BY <1>7, <1>8

\* A step of t that changes nothing for the others.
LEMMA EnoughOwnStep ==
  ASSUME Base, TypeOK', NEW t \in Threads, NEW m \in {"get", "put"}, Enough(m),
         \A u \in Threads \ {t} : pc'[u] = pc[u] /\ call'[u].method = call[u].method,
         \A u \in Threads \ {t} : u \in Waiters(Awaited(m))' => u \in Waiters(Awaited(m)),
         t \in Roused(m) => t \in Roused(m)', t \in Asleep(m)' => t \in Asleep(m),
         Due(m)' <= Due(m)
  PROVE  Enough(m)'
<1>1. ASSUME NEW u \in Threads \ {t}
      PROVE  /\ u \in Roused(m) => u \in Roused(m)'
             /\ u \in Asleep(m)' => u \in Asleep(m)
  BY CountsAsBefore
<1>2. \A u \in Threads : (u \in Roused(m) => u \in Roused(m)')
                          /\ (u \in Asleep(m)' => u \in Asleep(m))
  BY <1>1
<1> QED BY <1>2, EnoughKept DEF Base

\* Each action leaves enough threads that know.
LEMMA StrandStep ==
  ASSUME Base, Base', [Next]_vars, NEW m \in {"get", "put"}, Enough(m)
  PROVE  Enough(m)'
<1>0. TypeOK /\ TypeOK' /\ Awaited(m) \in Conditions
  BY DEF Base, Awaited, Conditions
<1>1. ASSUME NEW t \in Threads, Call(t) PROVE Enough(m)'
  <2>1. /\ pc[t] = "idle" /\ pc' = [pc EXCEPT ![t] = "enter"]
        /\ \A u \in Threads \ {t} : call'[u] = call[u]
        /\ UNCHANGED <<maxsize, waiters, qsize>>
    BY <1>0, <1>1 DEF Call, TypeOK
  <2>2. pc'[t] = "enter" /\ \A u \in Threads \ {t} : pc'[u] = pc[u]
    BY <1>0, <2>1 DEF TypeOK
  <2>3. Waiters(Awaited(m))' = Waiters(Awaited(m)) /\ Due(m)' <= Due(m)
    BY <1>0, <2>1, QueueAssumption DEF Waiters, Due, TypeOK
  <2>4. t \notin Roused(m) /\ t \notin Asleep(m)'
    BY <2>1, <2>2 DEF Roused, Asleep
  <2> QED BY <1>0, <2>1, <2>2, <2>3, <2>4, EnoughOwnStep
<1>2. ASSUME NEW t \in Threads, Enter(t) PROVE Enough(m)'
  <2>1. /\ pc[t] = "enter" /\ pc' = [pc EXCEPT ![t] = "test"]
        /\ UNCHANGED <<maxsize, waiters, qsize, call>>
    BY <1>2 DEF Enter
  <2>2. pc'[t] = "test" /\ \A u \in Threads \ {t} : pc'[u] = pc[u]
    BY <1>0, <2>1 DEF TypeOK
  <2>3. Waiters(Awaited(m))' = Waiters(Awaited(m)) /\ Due(m)' <= Due(m)
    BY <1>0, <2>1, QueueAssumption DEF Waiters, Due, TypeOK
  <2>4. t \notin Roused(m) /\ t \notin Asleep(m)'
    BY <2>1, <2>2 DEF Roused, Asleep
  <2> QED BY <1>0, <2>1, <2>2, <2>3, <2>4, EnoughOwnStep
<1>3. ASSUME NEW t \in Threads, Put(t) PROVE Enough(m)'
  <2>1. /\ pc[t] = "test" /\ call[t].method = "put" /\ NotifyAndLeave(t, "not_empty", 1)
        /\ qsize' = qsize + 1 /\ maxsize' = maxsize
    BY <1>3 DEF Put, Proceeds
  <2>2. CASE m = "get"
    <3>1. Awaited(m) = "not_empty" /\ Due(m)' = Due(m) + 1 /\ call[t].method # m
      BY <2>1, <2>2 DEF Awaited, Due
    <3> QED BY <1>0, <2>1, <3>1, OneMoreKnows
  <2>3. CASE m = "put"
    <3>1. Awaited(m) # "not_empty" /\ "not_empty" \in Conditions /\ Due(m)' = Due(m) - 1
      BY <1>0, <2>1, <2>3, QueueAssumption DEF Awaited, Due, Conditions, TypeOK
    <3> QED BY <1>0, <2>1, <3>1, OneLessKnows
  <2> QED BY <2>2, <2>3
<1>4. ASSUME NEW t \in Threads, Get(t) PROVE Enough(m)'
  <2>1. /\ pc[t] = "test" /\ call[t].method = "get" /\ NotifyAndLeave(t, "not_full", 1)
        /\ qsize' = qsize - 1 /\ maxsize' = maxsize
    BY <1>4 DEF Get, Proceeds
  <2>2. CASE m = "put"
    <3>1. Awaited(m) = "not_full" /\ Due(m)' = Due(m) + 1 /\ call[t].method # m
      BY <1>0, <2>1, <2>2, QueueAssumption DEF Awaited, Due, TypeOK
    <3> QED BY <1>0, <2>1, <3>1, OneMoreKnows
  <2>3. CASE m = "get"
    <3>1. Awaited(m) # "not_full" /\ "not_full" \in Conditions /\ Due(m)' = Due(m) - 1
      BY <1>0, <2>1, <2>3 DEF Awaited, Due, Conditions, TypeOK
    <3> QED BY <1>0, <2>1, <3>1, OneLessKnows
  <2> QED BY <2>2, <2>3
<1>5. ASSUME NEW t \in Threads, pc[t] = "test", Leave(t), maxsize' = maxsize, qsize' = qsize,
             call[t].method = m => Due(m) <= 0
      PROVE  Enough(m)'
  <2>1. Due(m)' = Due(m) /\ Due(m) \in Int
    BY <1>0, <1>5, QueueAssumption DEF Due, TypeOK
  <2>2. CASE Due(m) <= 0
    BY <1>0, <2>1, <2>2, NothingDue
  <2>3. CASE call[t].method # m
    <3>1. /\ pc'[t] = "idle" /\ \A u \in Threads \ {t} : pc'[u] = pc[u] /\ call'[u] = call[u]
      BY <1>0, <1>5 DEF Leave, TypeOK
    <3>2. Waiters(Awaited(m))' = Waiters(Awaited(m))
      BY <1>5 DEF Leave, Waiters
    <3>3. t \notin Roused(m) /\ t \notin Asleep(m)'
      BY <2>3, <3>1 DEF Roused, Asleep, Calling
    <3> QED BY <1>0, <2>1, <3>1, <3>2, <3>3, EnoughOwnStep
  <2> QED BY <1>5, <2>2, <2>3
<1>6. ASSUME NEW t \in Threads, ~Ready(call[t]), call[t].method = m PROVE Due(m) <= 0
  BY <1>0, <1>6, QueueAssumption DEF Ready, Due, TypeOK
<1>7. ASSUME NEW t \in Threads, GiveUp(t) PROVE Enough(m)'
  BY <1>5, <1>6, <1>7 DEF GiveUp
<1>8. ASSUME NEW t \in Threads, TaskDone(t) PROVE Enough(m)'
  <2>1. pc[t] = "test" /\ call[t].method # m /\ maxsize' = maxsize /\ qsize' = qsize
    BY <1>8 DEF TaskDone, Proceeds
  <2>2. CASE unfinished_tasks = 1
    <3>1. /\ NotifyAndLeave(t, "all_tasks_done", Len(waiters["all_tasks_done"]))
          /\ "all_tasks_done" \in Conditions /\ Len(waiters["all_tasks_done"]) \in Nat
      BY <1>0, <1>8, <2>2 DEF TaskDone, Conditions, TypeOK
    <3>2. Awaited(m) # "all_tasks_done" /\ Due(m)' <= Due(m)
      BY <1>0, <2>1, QueueAssumption DEF Awaited, Due, TypeOK
    <3> QED BY <1>0, <2>1, <3>1, <3>2, OneLessKnows
  <2>3. CASE unfinished_tasks # 1
    BY <1>5, <1>8, <2>1, <2>3 DEF TaskDone
  <2> QED BY <2>2, <2>3
<1>9. ASSUME NEW t \in Threads, Join(t) PROVE Enough(m)'
  BY <1>5, <1>9 DEF Join, Proceeds
<1>10. ASSUME NEW t \in Threads, Wait(t) PROVE Enough(m)'
  <2>1. /\ pc[t] = "test" /\ ~Ready(call[t]) /\ pc' = [pc EXCEPT ![t] = "asleep"]
        /\ waiters' = [waiters EXCEPT ![Awaited(call[t].method)] = Append(@, t)]
        /\ UNCHANGED <<maxsize, qsize, call>>
    BY <1>10 DEF Wait
  <2>2. Due(m)' = Due(m) /\ Due(m) \in Int
    BY <1>0, <2>1, QueueAssumption DEF Due, TypeOK
  <2>3. CASE call[t].method = m
    BY <1>0, <1>6, <2>1, <2>2, <2>3, NothingDue
  <2>4. CASE call[t].method # m
    <3>1. pc'[t] = "asleep" /\ \A u \in Threads \ {t} : pc'[u] = pc[u]
      BY <1>0, <2>1 DEF TypeOK
    <3>2. Awaited(call[t].method) # Awaited(m)
      <4>1. call[t].method \in {"get", "put", "join", "task_done", "none"}
        BY <1>0 DEF TypeOK, Calls, NoCall
      <4> QED BY <2>4, <4>1 DEF Awaited
    <3>3. Waiters(Awaited(m))' = Waiters(Awaited(m))
      <4>1. waiters'[Awaited(m)] = waiters[Awaited(m)]
        BY <1>0, <2>1, <3>2 DEF TypeOK
      <4> QED BY <4>1 DEF Waiters
    <3>4. t \notin Roused(m) /\ t \notin Asleep(m)'
      BY <2>1, <2>4 DEF Roused, Asleep, Calling
    <3> QED BY <1>0, <2>1, <2>2, <3>1, <3>3, <3>4, EnoughOwnStep
  <2> QED BY <2>3, <2>4
<1>11. ASSUME NEW t \in Threads, TimeOut(t) PROVE Enough(m)'
  <2>1. /\ pc[t] = "asleep" /\ pc' = [pc EXCEPT ![t] = "timed out"]
        /\ call' = [call EXCEPT ![t].mode = "nowait"]
        /\ UNCHANGED <<maxsize, waiters, qsize>>
    BY <1>11 DEF TimeOut
  <2>2. /\ pc'[t] = "timed out" /\ \A u \in Threads \ {t} : pc'[u] = pc[u] /\ call'[u] = call[u]
    BY <1>0, <2>1 DEF TypeOK
  <2>3. Waiters(Awaited(m))' = Waiters(Awaited(m)) /\ Due(m)' <= Due(m)
    <3>1. UNCHANGED <<maxsize, waiters, qsize>>
      BY <2>1
    <3> QED BY <1>0, <3>1, QueueAssumption DEF Waiters, Due, TypeOK
  <2>4. t \notin Roused(m) /\ t \notin Asleep(m)'
    BY <2>1, <2>2 DEF Roused, Asleep
  <2> QED BY <1>0, <2>2, <2>3, <2>4, EnoughOwnStep
<1>12. ASSUME NEW t \in Threads, Resume(t) PROVE Enough(m)'
  <2>1. PICK c \in Conditions : Awaited(call[t].method) = c
    BY DEF Awaited, Conditions
  <2>2. /\ pc' = [pc EXCEPT ![t] = "test"] /\ UNCHANGED <<maxsize, qsize, call>>
        /\ UNCHANGED waiters \/ Remove(c, t)
    BY <1>12, <2>1 DEF Resume
  <2>3. pc'[t] = "test" /\ \A u \in Threads \ {t} : pc'[u] = pc[u]
    BY <1>0, <2>2 DEF TypeOK
  <2>4. \A u \in Threads : u \in Waiters(Awaited(m))' => u \in Waiters(Awaited(m))
    <3>1. CASE UNCHANGED waiters
      BY <3>1 DEF Waiters
    <3>2. CASE Remove(c, t)
      <4>1. waiters \in Deques /\ AllDistinct
        BY DEF Base, TypeOK, Deques
      <4>2. /\ Waiters(c)' = Waiters(c) \ {t}
            /\ \A d \in Conditions \ {c} : Waiters(d)' = Waiters(d)
        BY <3>2, <4>1, RemoveTakes
      <4>3. CASE Awaited(m) = c
        BY <4>2, <4>3
      <4> QED BY <1>0, <4>2, <4>3
    <3> QED BY <2>2, <3>1, <3>2
  <2>5. Due(m)' <= Due(m)
    BY <1>0, <2>2, QueueAssumption DEF Due, TypeOK
  <2>6. (t \in Roused(m) => t \in Roused(m)') /\ t \notin Asleep(m)'
    BY <2>2, <2>3 DEF Roused, Asleep, Calling
  <2> QED BY <1>0, <2>2, <2>3, <2>4, <2>5, <2>6, EnoughOwnStep
<1>13. CASE UNCHANGED vars
  <2>1. Waiters(Awaited(m))' = Waiters(Awaited(m)) /\ pc' = pc /\ call' = call
    BY <1>13 DEF vars, Waiters
  <2>2. Due(m)' <= Due(m)
    BY <1>0, <1>13, QueueAssumption DEF vars, Due, TypeOK
  <2> QED BY <1>0, <2>1, <2>2, CountsAsBefore, EnoughKept
<1> QED BY <1>1, <1>2, <1>3, <1>4, <1>7, <1>8, <1>9, <1>10, <1>11, <1>12, <1>13
     DEF Next, Step

\* Whoever waits in join() was told when the last task was done.
LEMMA JoinStep ==
  ASSUME Base, NoJoinerStranded, [Next]_vars
  PROVE  NoJoinerStranded'
<1> USE DEF Base, TypeOK
<1>1. ASSUME \A u \in Threads : u \in Asleep("join")' => u \in Asleep("join"),
             unfinished_tasks' \in Nat, unfinished_tasks > 0 => unfinished_tasks' > 0
      PROVE  NoJoinerStranded'
  BY <1>1 DEF NoJoinerStranded, Asleep, Calling
<1>2. ASSUME NEW t \in Threads, unfinished_tasks' = unfinished_tasks,
             pc'[t] # "asleep",
             \A u \in Threads \ {t} : pc'[u] = pc[u] /\ call'[u] = call[u]
      PROVE  NoJoinerStranded'
  BY <1>1, <1>2 DEF Asleep, Calling
<1>3. ASSUME NEW t \in Threads, Call(t) PROVE NoJoinerStranded'
  BY <1>2, <1>3 DEF Call
<1>4. ASSUME NEW t \in Threads, Enter(t) PROVE NoJoinerStranded'
  BY <1>2, <1>4 DEF Enter
<1>5. ASSUME NEW t \in Threads, NEW c, NEW n, NotifyAndLeave(t, c, n),
             unfinished_tasks' \in Nat, unfinished_tasks > 0 => unfinished_tasks' > 0
      PROVE  NoJoinerStranded'
  BY <1>1, <1>5 DEF NotifyAndLeave, Asleep, Calling
<1>6. ASSUME NEW t \in Threads, Put(t) PROVE NoJoinerStranded'
  BY <1>5, <1>6 DEF Put
<1>7. ASSUME NEW t \in Threads, Get(t) PROVE NoJoinerStranded'
  BY <1>5, <1>7 DEF Get
<1>8. ASSUME NEW t \in Threads, GiveUp(t) PROVE NoJoinerStranded'
  BY <1>2, <1>8 DEF GiveUp, Leave
<1>9. ASSUME NEW t \in Threads, TaskDone(t) PROVE NoJoinerStranded'
  <2>1. CASE unfinished_tasks = 1
    <3> DEFINE n == Len(waiters["all_tasks_done"])
    <3>1. NotifyAndLeave(t, "all_tasks_done", n)
      BY <1>9, <2>1 DEF TaskDone
    <3>2. ASSUME NEW u \in Asleep("join")' PROVE FALSE
      <4>1. u \in Threads /\ u # t /\ pc[u] = "asleep" /\ call[u].method = "join"
        BY <3>1 DEF NotifyAndLeave, Asleep, Calling, NoCall
      <4>2. u \in Waiters("all_tasks_done")
        BY <4>1 DEF Listed, Awaited, Conditions
      <4>3. waiters["all_tasks_done"] \in Seq(Threads)
        BY DEF Conditions
      <4>4. u \in First("all_tasks_done", n)
        BY <4>2, <4>3 DEF First, Waiters
      <4> QED BY <3>1, <4>1, <4>4 DEF NotifyAndLeave, Asleep
    <3> QED BY <3>2 DEF NoJoinerStranded
  <2>2. CASE unfinished_tasks # 1
    <3>1. /\ Leave(t) /\ unfinished_tasks' \in Nat
          /\ unfinished_tasks > 0 => unfinished_tasks' > 0
      BY <1>9, <2>2 DEF TaskDone
    <3> QED BY <1>1, <3>1 DEF Leave, Asleep, Calling
  <2> QED BY <2>1, <2>2
<1>10. ASSUME NEW t \in Threads, Join(t) PROVE NoJoinerStranded'
  BY <1>2, <1>10 DEF Join, Leave
<1>11. ASSUME NEW t \in Threads, Wait(t) PROVE NoJoinerStranded'
  <2>1. CASE call[t].method = "join"
    <3>1. unfinished_tasks' # 0 /\ unfinished_tasks' \in Nat
      BY <1>11, <2>1 DEF Wait, Ready
    <3> QED BY <3>1 DEF NoJoinerStranded
  <2>2. CASE call[t].method # "join"
    BY <1>1, <1>11, <2>2 DEF Wait, Asleep, Calling
  <2> QED BY <2>1, <2>2
<1>12. ASSUME NEW t \in Threads, TimeOut(t) PROVE NoJoinerStranded'
  BY <1>2, <1>12 DEF TimeOut
<1>13. ASSUME NEW t \in Threads, Resume(t) PROVE NoJoinerStranded'
  BY <1>2, <1>13 DEF Resume
<1>14. CASE UNCHANGED vars
  BY <1>14 DEF vars, NoJoinerStranded, Asleep, Calling
<1> QED BY <1>3, <1>4, <1>6, <1>7, <1>8, <1>9, <1>10, <1>11, <1>12, <1>13, <1>14
     DEF Next, Step

-----------------------------------------------------------------------------
(* The theorems *)

LEMMA InvariantInit == Init => IInv
<1> SUFFICES ASSUME Init PROVE IInv
  OBVIOUS
<1>1. Base
  BY BaseInit
<1>2. Asleep("get") = {} /\ Asleep("put") = {} /\ Asleep("join") = {}
  BY DEF Init, Asleep, Calling
<1> QED BY <1>1, <1>2 DEF IInv, NoWaiterStranded, NoJoinerStranded

LEMMA InvariantStep == IInv /\ [Next]_vars => IInv'
<1> SUFFICES ASSUME IInv, [Next]_vars PROVE IInv'
  OBVIOUS
<1>1. Base'
  BY BaseStep DEF IInv
<1>2. Enough("get") /\ Enough("put")
  BY EnoughForBoth DEF IInv
<1>3. Enough("get")'
  BY <1>1, <1>2, StrandStep DEF IInv
<1>4. Enough("put")'
  BY <1>1, <1>2, StrandStep DEF IInv
<1>5. NoWaiterStranded'
  BY <1>3, <1>4 DEF NoWaiterStranded, Enough, Due
<1>6. NoJoinerStranded'
  BY JoinStep DEF IInv
<1> QED BY <1>1, <1>5, <1>6 DEF IInv

\* The invariant of the queue: besides what follows from it below, whoever tests
\* or changes the queue holds the mutex, and each deque of Condition._waiters holds
\* every thread that sleeps on it, once, and no thread that does not.
THEOREM Invariant == Spec => []IInv
<1>1. Init => IInv
  BY InvariantInit
<1>2. IInv /\ [Next]_vars => IInv'
  BY InvariantStep
<1> QED BY <1>1, <1>2, PTL DEF Spec

\* No notification of put() or get() is lost, to a timeout or otherwise.
THEOREM WaitersNotStranded == Spec => []NoWaiterStranded
<1>1. IInv => NoWaiterStranded
  BY DEF IInv
<1> QED BY <1>1, Invariant, PTL

\* Nobody sleeps in join() once task_done() has been called for each item.
THEOREM JoinersNotStranded == Spec => []NoJoinerStranded
<1>1. IInv => NoJoinerStranded
  BY DEF IInv
<1> QED BY <1>1, Invariant, PTL

\* The mutex: no two threads are inside, and whoever is inside holds it.
THEOREM QueueIsLocked == Spec => []MutexHeld
<1>1. IInv => MutexHeld
  BY DEF IInv, Base, MutexOwner, MutexHeld
<1> QED BY <1>1, Invariant, PTL
=============================================================================
