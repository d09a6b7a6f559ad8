-------------------------- MODULE CollectorProofs --------------------------
(***************************************************************************)
(* Proofs about module Collector, for any heap, whatever the callbacks and *)
(* the finalizers do.                                                      *)
(***************************************************************************)
EXTENDS Collector, TLAPS, FiniteSetTheorems, SequenceTheorems

Ops == {"code", "dealloc", "hold"}

\* What the collector is about to free, and what remains of what it cleared.
Trash == unreachable \cup (cleared \cap live)

\* An object that is not allocated is empty.
DeadAreEmpty == \A o \in Objects \ live : refs[o] = {} /\ target[o] = None

\* An object is deallocated by one call only.
DeallocatedOnce ==
  \A i, j \in DOMAIN frames :
     frames[i].op = "dealloc" /\ frames[j].op = "dealloc" /\ frames[i].self = frames[j].self
       => i = j

\* Up to handle_weakrefs() nothing else runs, and everything is referred to.
AloneAtFirst ==
  phase \in {"start", "found"} =>
     /\ frames = <<>> /\ pending = {}
     /\ \A o \in live : o \in roots \/ \E x \in live : o \in refs[x]

Base == TypeOK /\ DeadAreEmpty /\ DeallocatedOnce /\ AloneAtFirst

-----------------------------------------------------------------------------
(* What keeps Python code away from the trash *)

\* Nothing that is not trash refers to it, and no code runs for it: before the
\* finalizers and again after check_garbage().
Hidden ==
  phase \in {"found", "callbacks", "delete", "legacy", "end"} =>
     /\ \A x \in live \ Trash : refs[x] \cap Trash = {}
     /\ (roots \cup pending \cup Self({"code"})) \cap Trash = {}

\* handle_weakrefs() leaves no weak reference to it and none in it.
Unwatched ==
  phase \notin {"start", "found"} =>
     \A w \in Objects : target[w] \notin Trash /\ (w \in Trash => target[w] = None)

\* Until the finalizers run it is as it was found.
Untouched ==
  phase \in {"found", "callbacks"} =>
     /\ \A o \in unreachable : \E x \in unreachable : o \in refs[x]
     /\ Self(Ops) \cap unreachable = {}

\* None of its finalizers is left to be called.
Finalized ==
  /\ \A o \in Trash : kind[o] # "legacy"
  /\ \A o \in seen : kind[o] = "finalizer" => o \in finalized
  /\ phase \in {"check", "delete", "legacy", "end"} =>
        \A o \in Trash : kind[o] = "finalizer" => o \in finalized

\* tp_clear is called by delete_garbage(), and what it empties stays empty.
Emptied ==
  /\ phase \notin {"delete", "legacy", "end"} => cleared = {}
  /\ phase \in {"finalize", "check", "delete", "legacy", "end"} => pending = {}
  /\ phase \in {"legacy", "end"} => unreachable = {}
  /\ \A o \in cleared \cap live : refs[o] = {}

\* Nothing runs between the finalizers and check_garbage().
AloneAtCheck == phase = "check" => frames = <<>> /\ Quiet

Kept ==
  /\ Hidden /\ Unwatched /\ Untouched /\ Finalized /\ Emptied /\ AloneAtCheck
  /\ TrashIsFreed

IInv == Base /\ Kept

-----------------------------------------------------------------------------
(* What can be reached *)

LEMMA ReachIsClosed ==
  ASSUME NEW within, NEW from \in SUBSET within
  PROVE  /\ from \subseteq Reach(from, within) /\ Reach(from, within) \subseteq within
         /\ \A x \in Reach(from, within) : refs[x] \cap within \subseteq Reach(from, within)
  BY DEF Reach

LEMMA ReachIsLeast ==
  ASSUME NEW within, NEW from \in SUBSET within,
         NEW S \in SUBSET within, from \subseteq S,
         \A x \in S : refs[x] \cap within \subseteq S
  PROVE  Reach(from, within) \subseteq S
<1>1. S \ from \in SUBSET (within \ from) /\ S = from \cup (S \ from)
  OBVIOUS
<1> QED BY <1>1 DEF Reach

-----------------------------------------------------------------------------
(* Reference counts *)

\* What refers to an object besides objects.
HeldOtherwise(o) == o \in roots \/ o \in pending \/ o \in Self({"code", "hold"})

\* The number of those references.
Uses(o) == {i \in DOMAIN frames : frames[i].op # "dealloc" /\ frames[i].self = o}
Others(o) ==
  (IF o \in roots THEN 1 ELSE 0) + Cardinality(Uses(o)) + (IF o \in pending THEN 1 ELSE 0)

LEMMA FrameTypes ==
  ASSUME TypeOK
  PROVE  /\ frames \in Seq([op : Ops, self : live])
         /\ \A i \in DOMAIN frames : frames[i].op \in Ops /\ frames[i].self \in live
<1>1. frames \in Seq([op : Ops, self : live])
  BY DEF TypeOK, Ops
<1>2. ASSUME NEW i \in DOMAIN frames PROVE frames[i] \in [op : Ops, self : live]
  <2> DEFINE F == [op : Ops, self : live]
  <2>1. frames \in Seq(F)
    BY <1>1
  <2> HIDE DEF F
  <2>2. frames[i] \in F
    BY <2>1, ElementOfSeq
  <2> QED BY <2>2 DEF F
<1> QED BY <1>1, <1>2

LEMMA CountOthers ==
  ASSUME TypeOK, NEW o
  PROVE  /\ Cardinality(Uses(o)) \in Nat /\ Others(o) \in Nat
         /\ Others(o) = 0 <=> ~HeldOtherwise(o)
<1> DEFINE uses == Uses(o)
<1>1. IsFiniteSet(DOMAIN frames)
  <2>1. DOMAIN frames = 1 .. Len(frames) /\ Len(frames) \in Nat
    BY DEF TypeOK
  <2> QED BY <2>1, FS_Interval
<1>2. IsFiniteSet(uses) /\ Cardinality(uses) \in Nat
  BY <1>1, uses \in SUBSET DOMAIN frames, FS_Subset, FS_CardinalityType DEF Uses
<1>3. Cardinality(uses) = 0 <=> uses = {}
  BY <1>2, FS_EmptySet
<1>4. uses = {} <=> o \notin Self({"code", "hold"})
  <2>1. \A i \in DOMAIN frames : frames[i].op \in {"code", "dealloc", "hold"}
    BY FrameTypes DEF Ops
  <2> QED BY <2>1 DEF Self, Uses
<1> HIDE DEF uses
<1>5. Others(o) = (IF o \in roots THEN 1 ELSE 0) + Cardinality(uses)
                    + (IF o \in pending THEN 1 ELSE 0)
  BY DEF Others, uses
<1> DEFINE k == Cardinality(uses)
<1>6. k \in Nat /\ (k = 0 <=> o \notin Self({"code", "hold"}))
  BY <1>2, <1>3, <1>4
<1>7. Others(o) = (IF o \in roots THEN 1 ELSE 0) + k + (IF o \in pending THEN 1 ELSE 0)
  BY <1>5
<1>8. Cardinality(Uses(o)) \in Nat
  BY <1>2 DEF uses
<1> HIDE DEF k
<1> QED BY <1>6, <1>7, <1>8 DEF HeldOtherwise

LEMMA CountReferrers ==
  ASSUME TypeOK, NEW o, NEW list \in SUBSET live
  PROVE  /\ IsFiniteSet({x \in list : o \in refs[x]})
         /\ Cardinality({x \in list : o \in refs[x]}) \in Nat
         /\ Cardinality({x \in list : o \in refs[x]}) = 0 <=> \A x \in list : o \notin refs[x]
<1> DEFINE R == {x \in list : o \in refs[x]}
<1>1. IsFiniteSet(R) /\ Cardinality(R) \in Nat
  BY R \in SUBSET Objects, CollectorAssumption, FS_Subset, FS_CardinalityType DEF TypeOK
<1> QED BY <1>1, FS_EmptySet

LEMMA ReferrersAndOthers ==
  ASSUME TypeOK, NEW o
  PROVE  RefCount(o) = Cardinality({x \in live : o \in refs[x]}) + Others(o)
<1> DEFINE n == Cardinality({x \in live : o \in refs[x]})
           k == Cardinality(Uses(o))
           r == IF o \in roots THEN 1 ELSE 0
           p == IF o \in pending THEN 1 ELSE 0
<1>1. n \in Nat /\ k \in Nat /\ r \in Nat /\ p \in Nat
  BY CountOthers, CountReferrers
<1>2. RefCount(o) = n + r + k + p /\ Others(o) = r + k + p
  BY DEF RefCount, Others, Uses
<1> HIDE DEF n, k, r, p
<1>3. RefCount(o) = n + Others(o)
  BY <1>1, <1>2
<1> QED BY <1>3 DEF n

\* An object dies when nothing refers to it.
LEMMA CountReferences ==
  ASSUME TypeOK, NEW o
  PROVE  /\ RefCount(o) \in Nat
         /\ RefCount(o) = 0 <=> (\A x \in live : o \notin refs[x]) /\ ~HeldOtherwise(o)
<1> DEFINE n == Cardinality({x \in live : o \in refs[x]})
           k == Others(o)
<1>1. n \in Nat /\ (n = 0 <=> \A x \in live : o \notin refs[x])
  BY CountReferrers
<1>2. k \in Nat /\ (k = 0 <=> ~HeldOtherwise(o))
  BY CountOthers
<1>3. RefCount(o) = n + k
  BY ReferrersAndOthers
<1> HIDE DEF n, k
<1> QED BY <1>1, <1>2, <1>3

\* What gc_refs says once the references within a list are subtracted.
LEMMA CountFromOutside ==
  ASSUME TypeOK, NEW o, NEW list \in SUBSET live
  PROVE  /\ GcRefs(o, list) \in Nat
         /\ GcRefs(o, list) = 0
              <=> (\A x \in live \ list : o \notin refs[x]) /\ ~HeldOtherwise(o)
<1> DEFINE all == {x \in live : o \in refs[x]}
           inner == {x \in list : o \in refs[x]}
           outer == {x \in live \ list : o \in refs[x]}
<1>1. outer = all \ inner /\ inner = all \cap inner
  OBVIOUS
<1>2. IsFiniteSet(all) /\ Cardinality(all) \in Nat /\ Cardinality(inner) \in Nat
  BY CountReferrers
<1>3. Cardinality(outer) = Cardinality(all) - Cardinality(inner)
  <2> HIDE DEF all, inner, outer
  <2>1. Cardinality(all \ inner) = Cardinality(all) - Cardinality(all \cap inner)
    BY <1>2, FS_Difference
  <2> QED BY <1>1, <2>1
<1>4. /\ Cardinality(outer) \in Nat
      /\ Cardinality(outer) = 0 <=> \A x \in live \ list : o \notin refs[x]
  BY CountReferrers, live \ list \in SUBSET live
<1>5. GcRefs(o, list) = (Cardinality(all) + Others(o)) - Cardinality(inner)
  <2>1. GcRefs(o, list) = RefCount(o) - Cardinality(inner)
    BY DEF GcRefs
  <2>2. RefCount(o) = Cardinality(all) + Others(o)
    BY ReferrersAndOthers
  <2> HIDE DEF all, inner, outer
  <2> QED BY <2>1, <2>2
<1> DEFINE n == Cardinality(all)
           i == Cardinality(inner)
           m == Cardinality(outer)
           k == Others(o)
<1>6. k \in Nat /\ (k = 0 <=> ~HeldOtherwise(o))
  BY CountOthers
<1>7. /\ n \in Nat /\ i \in Nat /\ m \in Nat /\ m = n - i /\ GcRefs(o, list) = (n + k) - i
      /\ m = 0 <=> \A x \in live \ list : o \notin refs[x]
  BY <1>2, <1>3, <1>4, <1>5
<1> HIDE DEF n, i, m, k
<1>8. GcRefs(o, list) = m + k
  BY <1>6, <1>7
<1> QED BY <1>6, <1>7, <1>8

-----------------------------------------------------------------------------
(* Frames *)

Frames(L) == [op : Ops, self : L]
SelfOf(s, ops) == {s[i].self : i \in {j \in DOMAIN s : s[j].op \in ops}}
Once(s) ==
  \A i, j \in DOMAIN s :
     s[i].op = "dealloc" /\ s[j].op = "dealloc" /\ s[i].self = s[j].self => i = j

\* Calls are made on top of those that run.
LEMMA Call ==
  ASSUME NEW L, NEW s \in Seq(Frames(L)), NEW t \in Seq(Frames(L))
  PROVE  /\ t \o s \in Seq(Frames(L))
         /\ \A ops : SelfOf(t \o s, ops) = SelfOf(t, ops) \cup SelfOf(s, ops)
<1> DEFINE F == Frames(L)
           r == t \o s
<1>1. s \in Seq(F) /\ t \in Seq(F)
  OBVIOUS
<1> HIDE DEF F
<1>2. /\ r \in Seq(F) /\ Len(r) = Len(t) + Len(s) /\ Len(s) \in Nat /\ Len(t) \in Nat
      /\ \A i \in 1 .. Len(t) + Len(s) : r[i] = IF i <= Len(t) THEN t[i] ELSE s[i - Len(t)]
  BY <1>1
<1>3. DOMAIN r = 1 .. Len(t) + Len(s) /\ DOMAIN s = 1 .. Len(s) /\ DOMAIN t = 1 .. Len(t)
  BY <1>1, <1>2
<1> HIDE DEF r
<1>4. ASSUME NEW ops PROVE SelfOf(r, ops) = SelfOf(t, ops) \cup SelfOf(s, ops)
  <2>1. ASSUME NEW i \in DOMAIN r, r[i].op \in ops
        PROVE  r[i].self \in SelfOf(t, ops) \cup SelfOf(s, ops)
    <3>1. CASE i <= Len(t)
      BY <1>2, <1>3, <2>1, <3>1, i \in DOMAIN t, r[i] = t[i] DEF SelfOf
    <3>2. CASE i > Len(t)
      BY <1>2, <1>3, <2>1, <3>2, i - Len(t) \in DOMAIN s, r[i] = s[i - Len(t)] DEF SelfOf
    <3> QED BY <1>2, <1>3, <3>1, <3>2
  <2>2. ASSUME NEW i \in DOMAIN t, t[i].op \in ops PROVE t[i].self \in SelfOf(r, ops)
    BY <1>2, <1>3, <2>2, i \in DOMAIN r, r[i] = t[i] DEF SelfOf
  <2>3. ASSUME NEW i \in DOMAIN s, s[i].op \in ops PROVE s[i].self \in SelfOf(r, ops)
    <3>1. Len(t) + i \in DOMAIN r /\ r[Len(t) + i] = s[i]
      BY <1>2, <1>3
    <3> QED BY <2>3, <3>1 DEF SelfOf
  <2> QED BY <2>1, <2>2, <2>3 DEF SelfOf
<1> QED BY <1>2, <1>4 DEF F, r

LEMMA CallOnce ==
  ASSUME NEW L, NEW s \in Seq(Frames(L)), NEW op \in Ops, NEW o \in L
  PROVE  /\ <<Frame(op, o)>> \o s \in Seq(Frames(L))
         /\ \A ops : SelfOf(<<Frame(op, o)>> \o s, ops)
                       = SelfOf(s, ops) \cup (IF op \in ops THEN {o} ELSE {})
         /\ Once(s) /\ (op = "dealloc" => o \notin SelfOf(s, {"dealloc"}))
              => Once(<<Frame(op, o)>> \o s)
<1> DEFINE t == <<Frame(op, o)>>
           r == t \o s
<1>1. Frame(op, o) \in Frames(L) /\ Frame(op, o).op = op /\ Frame(op, o).self = o
  BY DEF Frame, Frames
<1>2. t \in Seq(Frames(L)) /\ DOMAIN t = {1} /\ t[1] = Frame(op, o)
  BY <1>1
<1>3. \A ops : SelfOf(t, ops) = IF op \in ops THEN {o} ELSE {}
  BY <1>1, <1>2 DEF SelfOf
<1>4. ASSUME Once(s), op = "dealloc" => o \notin SelfOf(s, {"dealloc"}) PROVE Once(r)
  <2>1. Len(s) \in Nat /\ DOMAIN s = 1 .. Len(s) /\ DOMAIN r = 1 .. Len(s) + 1
    OBVIOUS
  <2>2. r[1] = Frame(op, o) /\ \A i \in 2 .. Len(s) + 1 : r[i] = s[i - 1]
    BY <1>1
  <2> HIDE DEF r
  <2>3. ASSUME NEW i \in DOMAIN r, NEW j \in DOMAIN r, r[i].op = "dealloc",
               r[j].op = "dealloc", r[i].self = r[j].self
        PROVE  i = j
    <3>1. CASE i > 1 /\ j > 1
      <4>1. i - 1 \in DOMAIN s /\ j - 1 \in DOMAIN s /\ r[i] = s[i - 1] /\ r[j] = s[j - 1]
        BY <2>1, <2>2, <3>1
      <4>2. i - 1 = j - 1
        BY <1>4, <2>3, <4>1 DEF Once
      <4> QED BY <2>1, <4>2
    <3>2. ASSUME NEW k \in DOMAIN s, op = "dealloc", s[k].op = "dealloc", s[k].self = o
          PROVE  FALSE
      BY <1>4, <3>2 DEF SelfOf
    <3>3. CASE i = 1 /\ j > 1
      BY <1>1, <2>1, <2>2, <2>3, <3>2, <3>3, j - 1 \in DOMAIN s
    <3>4. CASE j = 1 /\ i > 1
      BY <1>1, <2>1, <2>2, <2>3, <3>2, <3>4, i - 1 \in DOMAIN s
    <3> QED BY <2>1, <3>1, <3>3, <3>4
  <2> QED BY <2>3 DEF Once
<1>5. /\ r \in Seq(Frames(L))
      /\ \A ops : SelfOf(r, ops) = SelfOf(t, ops) \cup SelfOf(s, ops)
  BY <1>2, Call
<1>6. \A ops : SelfOf(r, ops) = SelfOf(s, ops) \cup (IF op \in ops THEN {o} ELSE {})
  <2> HIDE DEF r, t
  <2> QED BY <1>3, <1>5
<1> QED BY <1>4, <1>5, <1>6

LEMMA CallEach ==
  ASSUME NEW L, NEW s \in Seq(Frames(L)), NEW C \in SUBSET L, NEW n \in Nat,
         NEW t \in [1 .. n -> [op : {"code"}, self : C]]
  PROVE  /\ t \o s \in Seq(Frames(L))
         /\ SelfOf(t \o s, {"code"}) \subseteq SelfOf(s, {"code"}) \cup C
         /\ SelfOf(t \o s, Ops) \subseteq SelfOf(s, Ops) \cup C
         /\ Once(s) => Once(t \o s)
<1> DEFINE r == t \o s
<1>1. \A i \in 1 .. n : /\ t[i] \in Frames(L) /\ t[i].op = "code" /\ t[i].self \in C
  BY DEF Frames, Ops
<1>2. DOMAIN t = 1 .. n /\ t \in [1 .. n -> Frames(L)]
  BY <1>1
<1>3. t \in Seq(Frames(L)) /\ Len(t) = n
  <2> DEFINE F == Frames(L)
  <2>1. t \in [1 .. n -> F]
    BY <1>2
  <2> HIDE DEF F
  <2>2. t \in Seq(F) /\ Len(t) = n
    BY <2>1
  <2> QED BY <2>2 DEF F
<1>4. \A ops : SelfOf(t, ops) \subseteq C
  BY <1>1, <1>2 DEF SelfOf
<1>5. r \in Seq(Frames(L)) /\ \A ops : SelfOf(r, ops) = SelfOf(t, ops) \cup SelfOf(s, ops)
  BY <1>3, Call
<1>6. ASSUME Once(s) PROVE Once(r)
  <2>1. Len(s) \in Nat /\ DOMAIN s = 1 .. Len(s) /\ DOMAIN r = 1 .. n + Len(s)
    BY <1>3
  <2>2. \A i \in 1 .. n + Len(s) : r[i] = IF i <= n THEN t[i] ELSE s[i - n]
    BY <1>3
  <2> HIDE DEF r
  <2>3. ASSUME NEW i \in DOMAIN r, r[i].op = "dealloc"
        PROVE  i - n \in DOMAIN s /\ r[i] = s[i - n]
    <3>1. CASE i <= n
      BY <1>1, <2>1, <2>2, <2>3, <3>1
    <3>2. CASE i > n
      BY <2>1, <2>2, <2>3, <3>2
    <3> QED BY <2>1, <3>1, <3>2
  <2>4. ASSUME NEW i \in DOMAIN r, NEW j \in DOMAIN r, r[i].op = "dealloc",
               r[j].op = "dealloc", r[i].self = r[j].self
        PROVE  i = j
    <3>1. i - n = j - n
      BY <1>6, <2>3, <2>4 DEF Once
    <3> QED BY <2>1, <3>1
  <2> QED BY <2>4 DEF Once
<1>7. /\ SelfOf(r, {"code"}) \subseteq SelfOf(s, {"code"}) \cup C
      /\ SelfOf(r, Ops) \subseteq SelfOf(s, Ops) \cup C
  <2> HIDE DEF r
  <2> QED BY <1>4, <1>5
<1> QED BY <1>5, <1>6, <1>7

\* The innermost returns.
LEMMA Return ==
  ASSUME NEW L, NEW s \in Seq(Frames(L)), s # <<>>
  PROVE  /\ Tail(s) \in Seq(Frames(L))
         /\ \A ops : SelfOf(Tail(s), ops) \subseteq SelfOf(s, ops)
         /\ Once(s) => Once(Tail(s))
         /\ Once(s) /\ Head(s).op = "dealloc" => Head(s).self \notin SelfOf(Tail(s), {"dealloc"})
         /\ Head(s) \in Frames(L) /\ Head(s).self \in SelfOf(s, {Head(s).op})
<1> DEFINE F == Frames(L)
           r == Tail(s)
<1>1. s \in Seq(F)
  OBVIOUS
<1> HIDE DEF F
<1>2. /\ r \in Seq(F) /\ Len(s) \in Nat /\ Len(s) >= 1 /\ DOMAIN s = 1 .. Len(s)
      /\ DOMAIN r = 1 .. Len(s) - 1
      /\ \A i \in 1 .. Len(s) - 1 : r[i] = s[i + 1]
      /\ Head(s) = s[1] /\ Head(s) \in F
  BY <1>1
<1> HIDE DEF r
<1>3. \A i \in DOMAIN r : i \in Nat /\ i # 0 /\ i + 1 \in DOMAIN s /\ r[i] = s[i + 1]
  BY <1>2
<1>4. \A ops : SelfOf(r, ops) \subseteq SelfOf(s, ops)
  BY <1>3 DEF SelfOf
<1>5. ASSUME Once(s) PROVE Once(r)
  <2>1. ASSUME NEW i \in DOMAIN r, NEW j \in DOMAIN r, r[i].op = "dealloc",
               r[j].op = "dealloc", r[i].self = r[j].self
        PROVE  i = j
    <3>1. i + 1 = j + 1
      BY <1>3, <1>5, <2>1 DEF Once
    <3> QED BY <1>3, <3>1
  <2> QED BY <2>1 DEF Once
<1>6. ASSUME Once(s), Head(s).op = "dealloc", Head(s).self \in SelfOf(r, {"dealloc"})
      PROVE  FALSE
  <2>1. PICK i \in DOMAIN r : r[i].op = "dealloc" /\ r[i].self = Head(s).self
    BY <1>6 DEF SelfOf
  <2>2. i + 1 = 1
    BY <1>2, <1>3, <1>6, <2>1 DEF Once
  <2> QED BY <1>3, <2>2
<1>7. Head(s).self \in SelfOf(s, {Head(s).op})
  BY <1>2, 1 \in DOMAIN s DEF SelfOf
<1> QED BY <1>2, <1>4, <1>5, <1>6, <1>7 DEF F, r

\* Frames of objects that still live.
LEMMA StillLive ==
  ASSUME NEW L, NEW s \in Seq(Frames(L)), NEW M, SelfOf(s, Ops) \subseteq M
  PROVE  s \in Seq(Frames(M))
<1> DEFINE F == Frames(L)
           G == Frames(M)
<1>1. s \in Seq(F)
  OBVIOUS
<1>2. ASSUME NEW i \in 1 .. Len(s) PROVE s[i] \in G
  <2>1. s[i] \in F
    <3> HIDE DEF F
    <3> QED BY <1>1, ElementOfSeq
  <2>2. i \in DOMAIN s
    <3> HIDE DEF F
    <3> QED BY <1>1
  <2>3. s[i].op \in Ops /\ s[i].self \in M
    BY <2>1, <2>2 DEF SelfOf, Frames
  <2> QED BY <2>1, <2>3 DEF Frames
<1> HIDE DEF F, G
<1>3. s \in Seq(G)
  BY <1>1, <1>2
<1> QED BY <1>3 DEF G

-----------------------------------------------------------------------------
(* Types, and that nothing else runs at first *)

LEMMA BaseAtInit == Init => Base
<1> SUFFICES ASSUME Init PROVE Base
  OBVIOUS
<1>1. PICK h \in Heaps :
         /\ kind = h.kind /\ live = h.live /\ refs = h.refs /\ roots = h.roots
         /\ gen = h.gen /\ target = h.target
  BY DEF Init
<1>2. /\ kind \in [Objects -> {"plain", "finalizer", "legacy", "weakref"}]
      /\ live \subseteq Objects /\ roots \subseteq live
      /\ refs \in [Objects -> SUBSET live]
      /\ gen \in [Objects -> {0, 1}]
      /\ target \in [Objects -> live \cup {None}]
      /\ \A o \in Objects \ live : refs[o] = {} /\ target[o] = None
      /\ \A o \in live : o \in roots \/ \E x \in live : o \in refs[x]
  BY <1>1, HeapsAssumption
<1>3. frames = <<>> /\ frames \in Seq([op : {"code", "dealloc", "hold"}, self : live])
  BY DEF Init
<1>4. TypeOK
  BY <1>2, <1>3, CollectorAssumption DEF Init, TypeOK
<1> QED BY <1>2, <1>3, <1>4 DEF Base, Init, DeadAreEmpty, DeallocatedOnce, AloneAtFirst

\* Nobody runs and nothing dies before handle_weakrefs().
LEMMA NobodyRuns ==
  ASSUME Base, phase \in {"start", "found"}
  PROVE  frames = <<>> /\ Dying = {} /\ pending = {}
<1>1. \A o \in live : RefCount(o) # 0
  BY CountReferences DEF Base, AloneAtFirst, HeldOtherwise
<1> QED BY <1>1 DEF Base, AloneAtFirst, Dying

LEMMA CodeIsLive ==
  ASSUME TypeOK
  PROVE  /\ frames \in Seq(Frames(live))
         /\ \A ops : Self(ops) = SelfOf(frames, ops) /\ Self(ops) \subseteq live
         /\ Visible \subseteq live
<1>1. \A ops : Self(ops) = SelfOf(frames, ops) /\ Self(ops) \subseteq live
  BY FrameTypes DEF Self, SelfOf
<1>2. roots \cup Self({"code"}) \in SUBSET live
  BY <1>1 DEF TypeOK
<1>3. Visible \subseteq live
  BY <1>2, ReachIsClosed DEF Visible
<1> QED BY <1>1, <1>3, FrameTypes DEF Frames

\* What Dying says of an object.
LEMMA DyingIsUnused ==
  ASSUME TypeOK, NEW o, RefCount(o) = 0
  PROVE  /\ \A x \in live : o \notin refs[x]
         /\ o \notin roots /\ o \notin pending /\ o \notin Self({"code", "hold"})
  BY CountReferences DEF HeldOtherwise

LEMMA BaseDealloc ==
  ASSUME Base, NEW o \in Objects, Dealloc(o)
  PROVE  Base'
<1>1. phase \notin {"start", "found"} /\ o \in live /\ o \notin SelfOf(frames, {"dealloc"})
  BY NobodyRuns, CodeIsLive DEF Dealloc, Dying, Base
<1>2. frames' = <<Frame("dealloc", o)>> \o frames
  BY DEF Dealloc
<1>3. frames' \in Seq(Frames(live)) /\ Once(frames')
  BY <1>1, <1>2, CodeIsLive, CallOnce DEF Base, DeallocatedOnce, Once, Ops
<1>4. frames' \in Seq([op : {"code", "dealloc", "hold"}, self : live])
  BY <1>3 DEF Frames, Ops
<1>5. UNCHANGED <<kind, live, refs, roots, gen, target, finalized, generation, phase,
                  unreachable, finalizers, pending, seen, cleared, steps>>
  BY DEF Dealloc, heap, collector
<1>6. TypeOK'
  BY <1>4, <1>5 DEF Base, TypeOK
<1> QED BY <1>1, <1>3, <1>5, <1>6 DEF Base, DeadAreEmpty, DeallocatedOnce, Once, AloneAtFirst

LEMMA BaseRelease ==
  ASSUME Base, Release
  PROVE  Base'
<1>1. phase \notin {"start", "found"} /\ frames # <<>>
  BY NobodyRuns DEF Release
<1>2. frames' = Tail(frames)
  BY DEF Release
<1>3. frames' \in Seq(Frames(live)) /\ Once(frames')
  BY <1>1, <1>2, CodeIsLive, Return DEF Base, DeallocatedOnce, Once
<1>4. frames' \in Seq([op : {"code", "dealloc", "hold"}, self : live])
  BY <1>3 DEF Frames, Ops
<1>5. UNCHANGED <<kind, live, refs, roots, gen, target, finalized, generation, phase,
                  unreachable, finalizers, pending, seen, cleared, steps>>
  BY DEF Release, heap, collector
<1>6. TypeOK'
  BY <1>4, <1>5 DEF Base, TypeOK
<1> QED BY <1>1, <1>3, <1>5, <1>6 DEF Base, DeadAreEmpty, DeallocatedOnce, Once, AloneAtFirst

\* The four things subtype_dealloc() does: it calls tp_finalize, gives up because
\* the object is referred to again, calls callbacks, or frees the memory.
DeallocFinalizes(o) ==
  /\ RefCount(o) = 0 /\ Finalizable(o)
  /\ finalized' = finalized \cup {o}
  /\ frames' = <<Frame("code", o)>> \o frames
  /\ UNCHANGED <<heap, collector>>
DeallocGivesUp ==
  /\ frames' = Tail(frames)
  /\ UNCHANGED <<heap, finalized, collector>>
DeallocCalls(o) ==
  LET watchers == {w \in live : target[w] = o}
  IN /\ target' = [w \in Objects |-> IF w \in watchers THEN None ELSE target[w]]
     /\ \E n \in Nat : \E calls \in [1 .. n -> [op : {"code"}, self : watchers]] :
           frames' = calls \o frames
     /\ UNCHANGED <<live, refs, roots, gen, finalized, collector>>
DeallocFrees(o) ==
  /\ RefCount(o) = 0 /\ ~Finalizable(o) /\ {w \in live : target[w] = o} = {}
  /\ live' = live \ {o}
  /\ refs' = [refs EXCEPT ![o] = {}]
  /\ target' = [target EXCEPT ![o] = None]
  /\ unreachable' = unreachable \ {o}
  /\ finalizers' = finalizers \ {o}
  /\ seen' = seen \ {o}
  /\ frames' = Tail(frames)
  /\ UNCHANGED <<roots, gen, finalized, generation, phase, pending>>

LEMMA DeallocCases ==
  ASSUME Base, ContinueDealloc
  PROVE  /\ frames # <<>> /\ Head(frames).op = "dealloc" /\ Quiet
         /\ phase \notin {"start", "found"}
         /\ Head(frames).self \in Self({"dealloc"}) /\ Head(frames).self \in live
         /\ \/ DeallocFinalizes(Head(frames).self)
            \/ DeallocGivesUp
            \/ DeallocCalls(Head(frames).self)
            \/ DeallocFrees(Head(frames).self)
         /\ UNCHANGED <<kind, cleared, steps>>
<1> DEFINE o == Head(frames).self
           watchers == {w \in live : target[w] = o}
           called == IF kind[o] = "legacy" /\ o \in finalized THEN {}
                     ELSE watchers \ Self({"dealloc"})
<1>1. frames # <<>> /\ Head(frames).op = "dealloc" /\ Quiet /\ UNCHANGED <<kind, cleared, steps>>
  BY DEF ContinueDealloc
<1>2. phase \notin {"start", "found"}
  BY <1>1, NobodyRuns
<1>3. o \in Self({"dealloc"}) /\ o \in live
  <2>1. o \in SelfOf(frames, {Head(frames).op})
    BY <1>1, CodeIsLive, Return DEF Base
  <2>2. o \in Self({"dealloc"})
    BY <1>1, <2>1, CodeIsLive DEF Base
  <2> QED BY <2>2, CodeIsLive DEF Base
<1>4. called \in SUBSET watchers /\ IsFiniteSet(called) /\ Cardinality(called) \in Nat
  BY CollectorAssumption, FS_Subset, FS_CardinalityType, called \in SUBSET Objects
     DEF Base, TypeOK
<1>5. ASSUME NEW order \in SetToSeqs(called)
      PROVE  order \in [1 .. Cardinality(called) -> called]
  BY DEF SetToSeqs
<1>6. \/ DeallocFinalizes(o) \/ DeallocGivesUp \/ DeallocCalls(o) \/ DeallocFrees(o)
  <2>1. CASE /\ RefCount(o) = 0 /\ Finalizable(o)
             /\ kind[o] = "finalizer" \/ watchers = {}
             /\ finalized' = finalized \cup {o}
             /\ frames' = <<Frame("code", o)>> \o frames
             /\ UNCHANGED <<heap, collector>>
    BY <2>1 DEF DeallocFinalizes
  <2>2. CASE /\ RefCount(o) > 0
             /\ frames' = Tail(frames)
             /\ UNCHANGED <<heap, finalized, collector>>
    BY <2>2 DEF DeallocGivesUp
  <2>3. CASE /\ RefCount(o) = 0 /\ watchers # {}
             /\ kind[o] = "finalizer" => o \in finalized
             /\ target' = [w \in Objects |-> IF w \in watchers THEN None ELSE target[w]]
             /\ \E order \in SetToSeqs(called) :
                  frames' = [i \in DOMAIN order |-> Frame("code", order[i])] \o frames
             /\ UNCHANGED <<live, refs, roots, gen, finalized, collector>>
    <3>1. PICK order \in SetToSeqs(called) :
             frames' = [i \in DOMAIN order |-> Frame("code", order[i])] \o frames
      BY <2>3
    <3>2. order \in [1 .. Cardinality(called) -> called]
      BY <1>5
    <3> DEFINE calls == [i \in DOMAIN order |-> Frame("code", order[i])]
    <3>3. calls \in [1 .. Cardinality(called) -> [op : {"code"}, self : watchers]]
      BY <1>4, <3>2 DEF Frame
    <3> HIDE DEF called
    <3> QED BY <1>4, <2>3, <3>1, <3>3 DEF DeallocCalls
  <2>4. CASE /\ RefCount(o) = 0 /\ ~Finalizable(o)
             /\ watchers = {}
             /\ live' = live \ {o}
             /\ refs' = [refs EXCEPT ![o] = {}]
             /\ target' = [target EXCEPT ![o] = None]
             /\ unreachable' = unreachable \ {o}
             /\ finalizers' = finalizers \ {o}
             /\ seen' = seen \ {o}
             /\ frames' = Tail(frames)
             /\ UNCHANGED <<roots, gen, finalized, generation, phase, pending>>
    BY <2>4 DEF DeallocFrees
  <2> QED BY <2>1, <2>2, <2>3, <2>4 DEF ContinueDealloc
<1> QED BY <1>1, <1>2, <1>3, <1>6

LEMMA BaseContinueDealloc ==
  ASSUME Base, ContinueDealloc
  PROVE  Base'
<1> DEFINE o == Head(frames).self
<1>1. /\ frames # <<>> /\ Head(frames).op = "dealloc" /\ phase \notin {"start", "found"}
      /\ o \in live /\ UNCHANGED <<kind, cleared, steps>>
  BY DeallocCases
<1>2. frames \in Seq(Frames(live)) /\ Once(frames) /\ live \subseteq Objects
  BY CodeIsLive DEF Base, DeallocatedOnce, Once, TypeOK
<1>3. CASE DeallocFinalizes(o)
  <2>1. frames' \in Seq(Frames(live)) /\ Once(frames')
    BY <1>1, <1>2, <1>3, CallOnce DEF DeallocFinalizes, Ops
  <2>2. frames' \in Seq([op : {"code", "dealloc", "hold"}, self : live])
    BY <2>1 DEF Frames, Ops
  <2>3. /\ UNCHANGED <<live, refs, roots, gen, target, generation, phase, unreachable,
                       finalizers, pending, seen>>
        /\ finalized' = finalized \cup {o}
    BY <1>3 DEF DeallocFinalizes, heap, collector
  <2>4. TypeOK'
    BY <1>1, <1>2, <2>2, <2>3 DEF Base, TypeOK
  <2> QED BY <1>1, <2>1, <2>3, <2>4 DEF Base, DeadAreEmpty, DeallocatedOnce, Once, AloneAtFirst
<1>4. CASE DeallocGivesUp
  <2>1. frames' \in Seq(Frames(live)) /\ Once(frames')
    BY <1>1, <1>2, <1>4, Return DEF DeallocGivesUp
  <2>2. frames' \in Seq([op : {"code", "dealloc", "hold"}, self : live])
    BY <2>1 DEF Frames, Ops
  <2>3. UNCHANGED <<live, refs, roots, gen, target, finalized, generation, phase,
                    unreachable, finalizers, pending, seen>>
    BY <1>4 DEF DeallocGivesUp, heap, collector
  <2>4. TypeOK'
    BY <1>1, <2>2, <2>3 DEF Base, TypeOK
  <2> QED BY <1>1, <2>1, <2>3, <2>4 DEF Base, DeadAreEmpty, DeallocatedOnce, Once, AloneAtFirst
<1>5. CASE DeallocCalls(o)
  <2> DEFINE C == {w \in live : target[w] = o}
  <2>0. PICK n \in Nat : \E calls \in [1 .. n -> [op : {"code"}, self : C]] :
           frames' = calls \o frames
    BY <1>5 DEF DeallocCalls
  <2>1. PICK calls \in [1 .. n -> [op : {"code"}, self : C]] : frames' = calls \o frames
    BY <2>0
  <2>2. frames' \in Seq(Frames(live)) /\ Once(frames')
    <3>1. C \in SUBSET live
      OBVIOUS
    <3> HIDE DEF C
    <3>2. calls \o frames \in Seq(Frames(live)) /\ Once(calls \o frames)
      BY <1>2, <2>1, <3>1, CallEach
    <3> QED BY <2>1, <3>2
  <2>3. frames' \in Seq([op : {"code", "dealloc", "hold"}, self : live])
    BY <2>2 DEF Frames, Ops
  <2>4. /\ UNCHANGED <<live, refs, roots, gen, finalized, generation, phase, unreachable,
                       finalizers, pending, seen>>
        /\ target' = [w \in Objects |-> IF w \in {x \in live : target[x] = o} THEN None
                                        ELSE target[w]]
    BY <1>5 DEF DeallocCalls, collector
  <2>5. TypeOK'
    BY <1>1, <2>3, <2>4 DEF Base, TypeOK
  <2>6. DeadAreEmpty'
    BY <2>4 DEF Base, DeadAreEmpty
  <2> QED BY <1>1, <2>2, <2>4, <2>5, <2>6 DEF Base, DeallocatedOnce, Once, AloneAtFirst
<1>6. CASE DeallocFrees(o)
  <2>1. /\ \A x \in live : o \notin refs[x]
        /\ o \notin roots /\ o \notin pending /\ o \notin Self({"code", "hold"})
    BY <1>6, DyingIsUnused DEF DeallocFrees, Base
  <2>2. /\ frames' = Tail(frames) /\ live' = live \ {o}
        /\ UNCHANGED <<roots, gen, finalized, generation, phase, pending>>
        /\ unreachable' = unreachable \ {o} /\ finalizers' = finalizers \ {o}
        /\ seen' = seen \ {o}
        /\ refs' = [refs EXCEPT ![o] = {}] /\ target' = [target EXCEPT ![o] = None]
        /\ \A w \in live : target[w] # o
    BY <1>6 DEF DeallocFrees
  <2>3. /\ frames' \in Seq(Frames(live)) /\ Once(frames')
        /\ \A ops : SelfOf(frames', ops) \subseteq SelfOf(frames, ops)
        /\ o \notin SelfOf(frames', {"dealloc"})
    BY <1>1, <1>2, <2>2, Return
  <2>4. SelfOf(frames', Ops) \subseteq live \ {o}
    <3>1. SelfOf(frames', Ops) = SelfOf(frames', {"code", "hold"}) \cup SelfOf(frames', {"dealloc"})
      BY DEF SelfOf, Ops
    <3>2. o \notin SelfOf(frames, {"code", "hold"})
      BY <2>1, CodeIsLive DEF Base
    <3>3. SelfOf(frames, Ops) \subseteq live
      BY CodeIsLive DEF Base
    <3> QED BY <2>3, <3>1, <3>2, <3>3
  <2>5. frames' \in Seq(Frames(live'))
    BY <2>2, <2>3, <2>4, StillLive
  <2>6. frames' \in Seq([op : {"code", "dealloc", "hold"}, self : live'])
    BY <2>5 DEF Frames, Ops
  <2>7. refs' \in [Objects -> SUBSET live'] /\ target' \in [Objects -> live' \cup {None}]
    <3>1. \A x \in Objects : refs[x] \subseteq live \ {o}
      BY <1>1, <2>1 DEF Base, TypeOK, DeadAreEmpty
    <3>2. \A x \in Objects : target[x] \in (live \ {o}) \cup {None}
      BY <1>1, <2>2 DEF Base, TypeOK, DeadAreEmpty
    <3> QED BY <2>2, <3>1, <3>2 DEF Base, TypeOK
  <2>8. TypeOK'
    BY <1>1, <2>1, <2>2, <2>6, <2>7 DEF Base, TypeOK
  <2>9. DeadAreEmpty'
    BY <1>1, <1>2, <2>2 DEF Base, DeadAreEmpty, TypeOK
  <2> QED BY <1>1, <2>2, <2>3, <2>8, <2>9 DEF Base, DeallocatedOnce, Once, AloneAtFirst
<1> QED BY <1>3, <1>4, <1>5, <1>6, DeallocCases

\* What Python code may change.
LEMMA BaseCode ==
  ASSUME Base, PythonCode
  PROVE  Base'
<1>1. frames # <<>> /\ Visible \subseteq live
  BY CodeIsLive DEF Base, PythonCode, Store, Delete, Keep, Forget, Watch, Running
<1>2. phase \notin {"start", "found"}
  BY <1>1, NobodyRuns
<1>3. /\ UNCHANGED <<kind, finalized, generation, phase, unreachable, finalizers, pending, seen,
                     frames, cleared>>
      /\ steps' \in 0 .. MaxSteps
  BY CollectorAssumption DEF Base, TypeOK, PythonCode, Store, Delete, Keep, Forget, Watch, Acts,
     Running, collector
<1>4. frames \in Seq(Frames(live)) /\ SelfOf(frames, Ops) \subseteq live
  BY CodeIsLive DEF Base
<1>5. /\ live \subseteq live' /\ live' \subseteq Objects /\ roots' \subseteq live'
      /\ refs' \in [Objects -> SUBSET live']
      /\ gen' \in [Objects -> {0, 1}]
      /\ target' \in [Objects -> live' \cup {None}]
      /\ DeadAreEmpty'
  <2>1. CASE Store
    BY <1>1, <2>1 DEF Base, TypeOK, Store, DeadAreEmpty
  <2>2. CASE Delete
    BY <1>1, <2>2 DEF Base, TypeOK, Delete, DeadAreEmpty
  <2>3. CASE Keep
    BY <1>1, <2>3 DEF Base, TypeOK, Keep, DeadAreEmpty
  <2>4. CASE Forget
    BY <2>4 DEF Base, TypeOK, Forget, DeadAreEmpty
  <2>5. CASE Watch
    BY <1>1, <2>5 DEF Base, TypeOK, Watch, DeadAreEmpty
  <2> QED BY <2>1, <2>2, <2>3, <2>4, <2>5 DEF PythonCode
<1>6. frames' \in Seq(Frames(live'))
  BY <1>3, <1>4, <1>5, StillLive
<1>7. frames' \in Seq([op : {"code", "dealloc", "hold"}, self : live'])
  BY <1>6 DEF Frames, Ops
<1>8. TypeOK'
  BY <1>3, <1>5, <1>7 DEF Base, TypeOK
<1> QED BY <1>2, <1>3, <1>5, <1>8 DEF Base, DeallocatedOnce, AloneAtFirst

LEMMA YoungIsLive == Young \subseteq live
  BY DEF Young

LEMMA BaseFind ==
  ASSUME Base, Find
  PROVE  Base'
<1> DEFINE trash == Young \ Reach(Outside(Young), Young)
<1>1. /\ phase = "start" /\ phase' = "found"
      /\ finalizers' = Reach({o \in trash : kind[o] = "legacy"}, trash)
      /\ unreachable' = trash \ finalizers'
      /\ UNCHANGED <<kind, live, refs, roots, gen, target, finalized, generation, pending, seen,
                     frames, cleared, steps>>
  BY DEF Find, heap
<1>2. trash \subseteq live
  BY YoungIsLive
<1>3. finalizers' \subseteq live /\ unreachable' \subseteq live
  <2>1. {o \in trash : kind[o] = "legacy"} \in SUBSET trash
    OBVIOUS
  <2> HIDE DEF trash
  <2> QED BY <1>1, <1>2, <2>1, ReachIsClosed
<1>4. TypeOK'
  BY <1>1, <1>3 DEF Base, TypeOK
<1> QED BY <1>1, <1>4 DEF Base, DeadAreEmpty, DeallocatedOnce, AloneAtFirst

LEMMA BaseClearWeakrefs ==
  ASSUME Base, ClearWeakrefs
  PROVE  Base'
<1>1. /\ phase = "found" /\ phase' = "callbacks" /\ frames = <<>>
      /\ UNCHANGED <<kind, live, refs, roots, finalized, generation, unreachable, finalizers,
                     seen, frames, cleared, steps>>
      /\ pending' \subseteq live
      /\ gen' = [o \in Objects |-> IF o \in Young \ (unreachable \cup finalizers) THEN 1
                                   ELSE gen[o]]
      /\ target' = [w \in Objects |-> IF w \in {x \in live : target[x] \in unreachable} THEN None
                                      ELSE target[w]]
  BY DEF ClearWeakrefs, Base, AloneAtFirst
<1>2. TypeOK'
  BY <1>1 DEF Base, TypeOK
<1>3. DeadAreEmpty' /\ DeallocatedOnce' /\ AloneAtFirst'
  BY <1>1 DEF Base, DeadAreEmpty, DeallocatedOnce, AloneAtFirst
<1> QED BY <1>2, <1>3 DEF Base

\* The collector goes on from a place where nothing else runs, and it may start
\* code for an object that lives.
LEMMA BaseGoesOn ==
  ASSUME Base, frames = <<>>,
         frames' = <<>> \/ \E op \in Ops, o \in live : frames' = <<Frame(op, o)>>,
         phase' \in {"callbacks", "finalize", "check", "delete", "legacy", "end"},
         UNCHANGED <<kind, live, generation, steps>>,
         roots' \subseteq live, refs' \in [Objects -> SUBSET live],
         \A x \in Objects \ live : refs'[x] = {} /\ target'[x] = None,
         gen' \in [Objects -> {0, 1}], target' \in [Objects -> live \cup {None}],
         finalized' \subseteq Objects, cleared' \subseteq Objects,
         unreachable' \subseteq live, finalizers' \subseteq live, pending' \subseteq live,
         seen' \subseteq live
  PROVE  Base'
<1>1. frames' \in Seq([op : {"code", "dealloc", "hold"}, self : live])
      /\ \A i \in DOMAIN frames' : i = 1
  <2> DEFINE F == [op : {"code", "dealloc", "hold"}, self : live]
  <2>1. CASE frames' = <<>>
    BY <2>1
  <2>2. ASSUME NEW f \in F, frames' = <<f>>
        PROVE  frames' \in Seq(F) /\ \A i \in DOMAIN frames' : i = 1
    <3> HIDE DEF F
    <3> QED BY <2>2
  <2>3. \A op \in Ops, o \in live : Frame(op, o) \in F
    BY DEF Ops, Frame
  <2> QED BY <2>1, <2>2, <2>3
<1>2. TypeOK'
  BY <1>1 DEF Base, TypeOK
<1>3. DeallocatedOnce'
  BY <1>1 DEF DeallocatedOnce
<1> QED BY <1>2, <1>3 DEF Base, DeadAreEmpty, AloneAtFirst

LEMMA BaseCollects ==
  ASSUME Base, CallBack \/ Finalize \/ Check \/ Clear \/ Legacy
  PROVE  Base'
<1>1. CASE CallBack
  <2>1. frames = <<>> /\ phase = "callbacks" /\ pending \subseteq live
    BY <1>1 DEF CallBack, Idle, Base, TypeOK
  <2>2. frames' = <<>> \/ \E op \in Ops, o \in live : frames' = <<Frame(op, o)>>
    BY <1>1, <2>1 DEF CallBack, Ops
  <2>3. phase' \in {"callbacks", "finalize"} /\ pending' \subseteq live
        /\ UNCHANGED <<kind, live, refs, roots, gen, target, finalized, generation, unreachable,
                       finalizers, seen, cleared, steps>>
    BY <1>1, <2>1 DEF CallBack, heap
  <2> QED BY <2>1, <2>2, <2>3, BaseGoesOn DEF Base, TypeOK, DeadAreEmpty
<1>2. CASE Finalize
  <2>1. frames = <<>> /\ phase = "finalize" /\ unreachable \subseteq live
    BY <1>2 DEF Finalize, Idle, Base, TypeOK
  <2>2. frames' = <<>> \/ \E op \in Ops, o \in live : frames' = <<Frame(op, o)>>
    BY <1>2, <2>1 DEF Finalize, Ops
  <2>3. phase' \in {"finalize", "check"} /\ seen' \subseteq live /\ finalized' \subseteq Objects
        /\ UNCHANGED <<kind, live, refs, roots, gen, target, generation, unreachable,
                       finalizers, pending, cleared, steps>>
    BY <1>2, <2>1 DEF Finalize, heap, Base, TypeOK
  <2> QED BY <2>1, <2>2, <2>3, BaseGoesOn DEF Base, TypeOK, DeadAreEmpty
<1>3. CASE Check
  <2>1. frames = <<>> /\ frames' = <<>>
    BY <1>3 DEF Check, Idle
  <2>2. /\ phase' \in {"delete", "legacy"} /\ unreachable' \subseteq live
        /\ gen' \in [Objects -> {0, 1}]
        /\ UNCHANGED <<kind, live, refs, roots, target, finalized, generation, finalizers,
                       pending, seen, cleared, steps>>
    BY <1>3 DEF Check, Base, TypeOK
  <2> QED BY <2>1, <2>2, BaseGoesOn DEF Base, TypeOK, DeadAreEmpty
<1>4. CASE Clear
  <2>1. frames = <<>> /\ phase = "delete" /\ unreachable \subseteq live /\ live \subseteq Objects
    BY <1>4 DEF Clear, Idle, Base, TypeOK
  <2>2. frames' = <<>> \/ \E op \in Ops, o \in live : frames' = <<Frame(op, o)>>
    BY <1>4, <2>1 DEF Clear, Ops
  <2>3. /\ phase' \in {"delete", "legacy"} /\ unreachable' \subseteq live
        /\ gen' \in [Objects -> {0, 1}] /\ cleared' \subseteq Objects
        /\ refs' \in [Objects -> SUBSET live] /\ target' \in [Objects -> live \cup {None}]
        /\ \A x \in Objects \ live : refs'[x] = {} /\ target'[x] = None
        /\ UNCHANGED <<kind, live, roots, finalized, generation, finalizers, pending, seen, steps>>
    BY <1>4, <2>1 DEF Clear, Base, TypeOK, DeadAreEmpty
  <2> QED BY <2>1, <2>2, <2>3, BaseGoesOn DEF Base, TypeOK
<1>5. CASE Legacy
  <2>1. frames = <<>> /\ frames' = <<>>
    BY <1>5 DEF Legacy, Idle
  <2>2. /\ phase' = "end" /\ roots' \subseteq live /\ gen' \in [Objects -> {0, 1}]
        /\ finalizers' = {}
        /\ UNCHANGED <<kind, live, refs, target, finalized, generation, unreachable, pending,
                       seen, cleared, steps>>
    BY <1>5 DEF Legacy, Base, TypeOK
  <2> QED BY <2>1, <2>2, BaseGoesOn DEF Base, TypeOK, DeadAreEmpty
<1> QED BY <1>1, <1>2, <1>3, <1>4, <1>5

LEMMA BaseInNextState ==
  ASSUME Base, [Next]_vars
  PROVE  Base'
<1>1. CASE UNCHANGED vars
  BY <1>1 DEF vars, Base, TypeOK, DeadAreEmpty, DeallocatedOnce, AloneAtFirst
<1>2. CASE Next
  BY <1>2, BaseDealloc, BaseContinueDealloc, BaseRelease, BaseCode, BaseFind,
     BaseClearWeakrefs, BaseCollects DEF Next
<1> QED BY <1>1, <1>2

(***************************************************************************)
(* The variables have their types, an object that is freed is empty and    *)
(* unused, and no object is deallocated by two calls.                      *)
(***************************************************************************)
THEOREM TypeCorrect == Spec => []Base
<1>1. Base /\ [Next]_vars => Base'
  BY BaseInNextState
<1> QED BY BaseAtInit, <1>1, PTL DEF Spec

-----------------------------------------------------------------------------
(* What the counting finds *)

\* gc_refs stays positive for what is referred to from outside the list.
LEMMA OutsideIsReferred ==
  ASSUME Base, phase = "start", NEW o \in Young
  PROVE  o \in Outside(Young) <=> o \in roots \/ \E x \in live \ Young : o \in refs[x]
<1>1. pending = {} /\ Self({"code", "hold"}) = {}
  BY NobodyRuns DEF Self
<1>2. GcRefs(o, Young) \in Nat
      /\ (GcRefs(o, Young) = 0
            <=> (\A x \in live \ Young : o \notin refs[x]) /\ ~HeldOtherwise(o))
  BY YoungIsLive, CountFromOutside DEF Base
<1>3. o \in Outside(Young) <=> GcRefs(o, Young) # 0
  BY <1>2 DEF Outside
<1> QED BY <1>1, <1>2, <1>3 DEF HeldOtherwise

LEMMA CountingFindsTrash ==
  ASSUME Base, phase = "start"
  PROVE  Reach(Outside(Young), Young) = Young \cap Reach(roots \cup (live \ Young), live)
<1> DEFINE old == live \ Young
           inner == Reach(Outside(Young), Young)
           outer == Reach(roots \cup old, live)
<1>1. roots \subseteq live /\ Young \subseteq live /\ Outside(Young) \subseteq Young
  BY YoungIsLive DEF Base, TypeOK, Outside
<1>2. /\ roots \cup old \subseteq outer /\ outer \subseteq live
      /\ \A x \in outer : refs[x] \cap live \subseteq outer
  BY <1>1, roots \cup old \in SUBSET live, ReachIsClosed
<1>3. /\ Outside(Young) \subseteq inner /\ inner \subseteq Young
      /\ \A x \in inner : refs[x] \cap Young \subseteq inner
  BY <1>1, ReachIsClosed
<1>4. inner \subseteq Young \cap outer
  <2>1. Outside(Young) \subseteq outer
    <3> SUFFICES ASSUME NEW o \in Outside(Young) PROVE o \in outer
      OBVIOUS
    <3>1. o \in roots \/ \E x \in old : o \in refs[x]
      BY <1>1, OutsideIsReferred
    <3> HIDE DEF outer
    <3> QED BY <1>1, <1>2, <3>1
  <2>2. \A x \in Young \cap outer : refs[x] \cap Young \subseteq Young \cap outer
    <3> HIDE DEF outer
    <3> QED BY <1>1, <1>2
  <2> HIDE DEF outer
  <2> QED BY <1>1, <2>1, <2>2, ReachIsLeast
<1>5. outer \subseteq inner \cup old
  <2>1. roots \subseteq inner \cup old
    <3> SUFFICES ASSUME NEW o \in roots, o \in Young PROVE o \in inner
      BY <1>1
    <3>1. o \in Outside(Young)
      BY OutsideIsReferred
    <3> HIDE DEF inner
    <3> QED BY <1>3, <3>1
  <2>2. ASSUME NEW x \in inner \cup old, NEW y \in refs[x] \cap live PROVE y \in inner \cup old
    <3>1. CASE y \notin Young
      BY <3>1
    <3>2. CASE y \in Young /\ x \in inner
      <4> HIDE DEF inner
      <4> QED BY <1>3, <3>2
    <3>3. CASE y \in Young /\ x \in old
      <4>1. y \in Outside(Young)
        BY <3>3, OutsideIsReferred
      <4> HIDE DEF inner
      <4> QED BY <1>3, <4>1
    <3> QED BY <2>2, <3>1, <3>2, <3>3
  <2>3. inner \cup old \in SUBSET live
    <3> HIDE DEF inner
    <3> QED BY <1>1, <1>3
  <2> HIDE DEF inner
  <2> QED BY <1>1, <2>1, <2>2, <2>3, ReachIsLeast
<1> HIDE DEF inner, outer
<1>6. inner = Young \cap outer
  BY <1>3, <1>4, <1>5
<1> QED BY <1>6 DEF inner, outer

\* Find splits the trash it finds in two.
LEMMA FindSplits ==
  ASSUME Base, Find
  PROVE  /\ unreachable' \cup finalizers' = Young \ Reach(Outside(Young), Young)
         /\ unreachable' \cap finalizers' = {}
         /\ \A o \in unreachable' : kind[o] # "legacy"
         /\ \A x \in finalizers' : refs[x] \cap unreachable' = {}
<1> DEFINE trash == Young \ Reach(Outside(Young), Young)
           legacy == {o \in trash : kind[o] = "legacy"}
<1>1. finalizers' = Reach(legacy, trash) /\ unreachable' = trash \ finalizers'
  BY DEF Find
<1>2. legacy \in SUBSET trash
  OBVIOUS
<1>3. /\ legacy \subseteq finalizers' /\ finalizers' \subseteq trash
      /\ \A x \in finalizers' : refs[x] \cap trash \subseteq finalizers'
  <2> HIDE DEF trash, legacy
  <2> QED BY <1>1, <1>2, ReachIsClosed
<1> HIDE DEF trash
<1> QED BY <1>1, <1>3 DEF trash

LEMMA FoundInNextState ==
  ASSUME Base, FoundIsUnreachable, [Next]_vars
  PROVE  FoundIsUnreachable'
<1>1. CASE Find
  <2>1. phase = "start" /\ UNCHANGED <<live, gen, generation, roots, refs>>
    BY <1>1 DEF Find, heap
  <2>2. unreachable' \cup finalizers' = Young \ Reach(roots \cup (live \ Young), live)
    <3>1. Reach(Outside(Young), Young) = Young \cap Reach(roots \cup (live \ Young), live)
      BY <2>1, CountingFindsTrash
    <3>2. unreachable' \cup finalizers' = Young \ Reach(Outside(Young), Young)
      BY <1>1, FindSplits
    <3> QED BY <3>1, <3>2
  <2>3. Young' = Young
    BY <2>1 DEF Young
  <2>4. Reach(roots \cup (live \ Young), live)' = Reach(roots \cup (live \ Young), live)
    BY <2>1, <2>3 DEF Reach
  <2> QED BY <2>1, <2>2, <2>3, <2>4 DEF FoundIsUnreachable
<1>2. CASE UNCHANGED vars
  <2>1. UNCHANGED <<live, gen, generation, roots, refs, phase, unreachable, finalizers>>
    BY <1>2 DEF vars
  <2>2. Young' = Young
    BY <2>1 DEF Young
  <2>3. Reach(roots \cup (live \ Young), live)' = Reach(roots \cup (live \ Young), live)
    BY <2>1, <2>2 DEF Reach
  <2> QED BY <2>1, <2>2, <2>3 DEF FoundIsUnreachable
<1>3. ASSUME phase' = "found", Next, ~Find PROVE FALSE
  <2>1. phase' # phase => phase' # "found"
    BY <1>3 DEF Next, Dealloc, ContinueDealloc, Release, PythonCode, Store, Delete, Keep, Forget,
       Watch, Acts, ClearWeakrefs, CallBack, Finalize, Check, Clear, Legacy, collector, Idle
  <2>2. phase = "found"
    BY <1>3, <2>1
  <2>3. frames = <<>> /\ Dying = {}
    BY <2>2, NobodyRuns
  <2> QED BY <1>3, <2>2, <2>3 DEF Next, Dealloc, ContinueDealloc, Release, PythonCode, Store,
          Delete, Keep, Forget, Watch, Running, ClearWeakrefs, CallBack, Finalize, Check, Clear,
          Legacy, Idle
<1> QED BY <1>1, <1>2, <1>3 DEF FoundIsUnreachable

(***************************************************************************)
(* What the counting of references finds is what can be reached neither by *)
(* the program nor from an older generation, in any heap.                  *)
(***************************************************************************)
THEOREM CountingFindsTheUnreachable == Spec => []FoundIsUnreachable
<1>1. Init => FoundIsUnreachable
  BY DEF Init, FoundIsUnreachable
<1>2. Base /\ FoundIsUnreachable /\ [Next]_vars => FoundIsUnreachable'
  BY FoundInNextState
<1> QED BY <1>1, <1>2, TypeCorrect, PTL DEF Spec

-----------------------------------------------------------------------------
(* The trash stays out of reach *)

\* The weak references of the trash watch nothing else.
TrashWatchesTrash ==
  phase = "found" => \A w \in unreachable : target[w] \in unreachable \cup {None}

\* From outside the trash there is no way to it.
LEMMA TrashIsNotReached ==
  ASSUME TypeOK, Hidden, phase \in {"callbacks", "delete", "legacy", "end"},
         NEW from \in SUBSET live, from \cap Trash = {}
  PROVE  Reach(from, live) \cap Trash = {}
<1>1. \A x \in live \ Trash : refs[x] \cap live \subseteq live \ Trash
  BY DEF Hidden
<1>2. from \subseteq live \ Trash /\ live \ Trash \in SUBSET live
  OBVIOUS
<1>3. Reach(from, live) \subseteq live \ Trash
  BY <1>1, <1>2, ReachIsLeast
<1> QED BY <1>3

LEMMA CodeSeesNoTrash ==
  ASSUME TypeOK, Hidden, phase \in {"callbacks", "delete", "legacy", "end"}
  PROVE  Visible \cap Trash = {}
<1>1. roots \cup Self({"code"}) \in SUBSET live
  BY CodeIsLive DEF TypeOK
<1>2. (roots \cup Self({"code"})) \cap Trash = {}
  BY DEF Hidden
<1> QED BY <1>1, <1>2, TrashIsNotReached DEF Visible

\* While it is as it was found, none of it dies.
LEMMA TrashDoesNotDie ==
  ASSUME Base, Untouched, phase = "callbacks", NEW o \in unreachable
  PROVE  o \notin Dying
<1>1. \E x \in live : o \in refs[x]
  BY DEF Untouched, Base, TypeOK
<1> QED BY <1>1, CountReferences DEF Base, Dying

LEMMA KeptAtInit == Init => Kept
<1> SUFFICES ASSUME Init PROVE Kept
  OBVIOUS
<1>1. phase = "start" /\ unreachable = {} /\ seen = {} /\ cleared = {} /\ pending = {}
  BY DEF Init
<1> QED BY <1>1 DEF Kept, Hidden, Unwatched, Untouched, Finalized, Emptied, AloneAtCheck,
     TrashIsFreed, Trash

LEMMA KeptDealloc ==
  ASSUME IInv, NEW o \in Objects, Dealloc(o)
  PROVE  Kept'
<1>1. /\ frames' = <<Frame("dealloc", o)>> \o frames /\ o \in Dying /\ o \in live
      /\ UNCHANGED <<kind, live, refs, roots, gen, target, finalized, generation, phase,
                     unreachable, finalizers, pending, seen, cleared, steps>>
  BY DEF Dealloc, heap, collector, Dying
<1>2. phase \notin {"start", "found", "check"}
  BY <1>1, NobodyRuns DEF IInv, Kept, AloneAtCheck, Quiet
<1>3. Self({"code"})' = Self({"code"}) /\ Self(Ops)' = Self(Ops) \cup {o}
  <2>1. \A ops : SelfOf(frames', ops)
                   = SelfOf(frames, ops) \cup (IF "dealloc" \in ops THEN {o} ELSE {})
    BY <1>1, CodeIsLive, CallOnce DEF IInv, Base, Ops
  <2>2. \A ops : Self(ops)' = SelfOf(frames', ops) /\ Self(ops) = SelfOf(frames, ops)
    BY DEF Self, SelfOf
  <2> QED BY <2>1, <2>2 DEF Ops
<1>4. Trash' = Trash
  BY <1>1 DEF Trash
<1>5. Hidden'
  BY <1>1, <1>3, <1>4 DEF IInv, Kept, Hidden
<1>6. Untouched'
  BY <1>1, <1>2, <1>3, TrashDoesNotDie DEF IInv, Kept, Untouched
<1> QED BY <1>1, <1>2, <1>4, <1>5, <1>6 DEF IInv, Kept, Unwatched, Finalized, Emptied, AloneAtCheck,
        TrashIsFreed

LEMMA KeptRelease ==
  ASSUME IInv, Release
  PROVE  Kept'
<1>1. /\ frames' = Tail(frames) /\ frames # <<>>
      /\ UNCHANGED <<kind, live, refs, roots, gen, target, finalized, generation, phase,
                     unreachable, finalizers, pending, seen, cleared, steps>>
  BY DEF Release, heap, collector
<1>2. phase \notin {"start", "found", "check"}
  BY <1>1, NobodyRuns DEF IInv, Kept, AloneAtCheck
<1>3. Self({"code"})' \subseteq Self({"code"}) /\ Self(Ops)' \subseteq Self(Ops)
  <2>1. \A ops : SelfOf(frames', ops) \subseteq SelfOf(frames, ops)
    BY <1>1, CodeIsLive, Return DEF IInv, Base
  <2>2. \A ops : Self(ops)' = SelfOf(frames', ops) /\ Self(ops) = SelfOf(frames, ops)
    BY DEF Self, SelfOf
  <2> QED BY <2>1, <2>2
<1>4. Trash' = Trash
  BY <1>1 DEF Trash
<1>5. Hidden'
  BY <1>1, <1>3, <1>4 DEF IInv, Kept, Hidden
<1>6. Untouched'
  BY <1>1, <1>3 DEF IInv, Kept, Untouched
<1> QED BY <1>1, <1>2, <1>4, <1>5, <1>6 DEF IInv, Kept, Unwatched, Finalized, Emptied, AloneAtCheck,
        TrashIsFreed

LEMMA KeptContinueDealloc ==
  ASSUME IInv, ContinueDealloc
  PROVE  Kept'
<1> DEFINE o == Head(frames).self
<1>1. /\ frames # <<>> /\ phase \notin {"start", "found", "check"} /\ UNCHANGED <<kind, cleared>>
      /\ o \in Self({"dealloc"}) /\ o \in live /\ o \in Objects
      /\ frames \in Seq(Frames(live))
  BY DeallocCases, CodeIsLive DEF IInv, Kept, AloneAtCheck, Base, TypeOK
<1>2. \A ops : Self(ops)' = SelfOf(frames', ops) /\ Self(ops) = SelfOf(frames, ops)
  BY DEF Self, SelfOf
<1>3. phase = "callbacks" => o \notin unreachable
  BY <1>1 DEF IInv, Kept, Untouched, Self, Ops
<1>4. CASE DeallocFinalizes(o)
  <2>1. /\ UNCHANGED <<live, refs, roots, target, phase, unreachable, pending, seen>>
        /\ finalized' = finalized \cup {o} /\ Finalizable(o)
        /\ frames' = <<Frame("code", o)>> \o frames
    BY <1>4 DEF DeallocFinalizes, heap, collector
  <2>2. Trash' = Trash
    BY <1>1, <2>1 DEF Trash
  <2>3. Self({"code"})' = Self({"code"}) \cup {o} /\ Self(Ops)' = Self(Ops) \cup {o}
    <3>1. \A ops : SelfOf(frames', ops)
                     = SelfOf(frames, ops) \cup (IF "code" \in ops THEN {o} ELSE {})
      BY <1>1, <2>1, CallOnce DEF Ops
    <3> QED BY <1>2, <3>1 DEF Ops
  <2>4. phase \in {"callbacks", "delete", "legacy", "end"} => o \notin Trash
    <3>1. CASE phase = "callbacks"
      BY <1>3, <3>1 DEF IInv, Kept, Emptied, Trash
    <3>2. CASE phase \in {"delete", "legacy", "end"}
      BY <2>1, <3>2 DEF IInv, Kept, Finalized, Finalizable
    <3> QED BY <3>1, <3>2
  <2>5. Hidden'
    BY <1>1, <2>1, <2>2, <2>3, <2>4 DEF IInv, Kept, Hidden
  <2>6. Untouched'
    BY <1>1, <1>3, <2>1, <2>3 DEF IInv, Kept, Untouched
  <2>7. Finalized'
    BY <1>1, <2>1, <2>2 DEF IInv, Kept, Finalized
  <2> QED BY <1>1, <2>1, <2>2, <2>5, <2>6, <2>7
          DEF IInv, Kept, Unwatched, Emptied, AloneAtCheck, TrashIsFreed
<1>5. CASE DeallocGivesUp
  <2>1. /\ UNCHANGED <<live, refs, roots, target, phase, unreachable, pending, seen, finalized>>
        /\ frames' = Tail(frames)
    BY <1>5 DEF DeallocGivesUp, heap, collector
  <2>2. Trash' = Trash
    BY <1>1, <2>1 DEF Trash
  <2>3. Self({"code"})' \subseteq Self({"code"}) /\ Self(Ops)' \subseteq Self(Ops)
    <3>1. \A ops : SelfOf(frames', ops) \subseteq SelfOf(frames, ops)
      BY <1>1, <2>1, Return
    <3> QED BY <1>2, <3>1
  <2>4. Hidden'
    BY <1>1, <2>1, <2>2, <2>3 DEF IInv, Kept, Hidden
  <2>5. Untouched'
    BY <1>1, <2>1, <2>3 DEF IInv, Kept, Untouched
  <2>6. Finalized'
    BY <1>1, <2>1, <2>2 DEF IInv, Kept, Finalized
  <2> QED BY <1>1, <2>1, <2>2, <2>4, <2>5, <2>6
          DEF IInv, Kept, Unwatched, Emptied, AloneAtCheck, TrashIsFreed
<1>6. CASE DeallocCalls(o)
  <2> DEFINE C == {w \in live : target[w] = o}
  <2>1. /\ UNCHANGED <<live, refs, roots, phase, unreachable, pending, seen, finalized>>
        /\ target' = [w \in Objects |-> IF w \in C THEN None ELSE target[w]]
    BY <1>6 DEF DeallocCalls, collector
  <2>2. Trash' = Trash
    BY <1>1, <2>1 DEF Trash
  <2>3. C \in SUBSET live /\ C \cap Trash = {}
    BY <1>1, CollectorAssumption DEF IInv, Kept, Unwatched, Base, TypeOK
  <2>4. Self({"code"})' \subseteq Self({"code"}) \cup C /\ Self(Ops)' \subseteq Self(Ops) \cup C
    <3>1. PICK n \in Nat : \E calls \in [1 .. n -> [op : {"code"}, self : C]] :
             frames' = calls \o frames
      BY <1>6 DEF DeallocCalls
    <3>2. PICK calls \in [1 .. n -> [op : {"code"}, self : C]] : frames' = calls \o frames
      BY <3>1
    <3> HIDE DEF C
    <3>3. /\ SelfOf(calls \o frames, {"code"}) \subseteq SelfOf(frames, {"code"}) \cup C
          /\ SelfOf(calls \o frames, Ops) \subseteq SelfOf(frames, Ops) \cup C
      BY <1>1, <2>3, <3>2, CallEach
    <3> QED BY <1>2, <3>2, <3>3
  <2>5. Hidden'
    <3> HIDE DEF C
    <3> QED BY <1>1, <2>1, <2>2, <2>3, <2>4 DEF IInv, Kept, Hidden
  <2>6. Untouched'
    <3>1. unreachable \subseteq Trash
      BY DEF Trash
    <3> HIDE DEF C
    <3> QED BY <1>1, <2>1, <2>3, <2>4, <3>1 DEF IInv, Kept, Untouched
  <2>7. Unwatched'
    <3>1. None \notin Trash
      BY CollectorAssumption DEF IInv, Base, TypeOK, Trash
    <3> HIDE DEF C
    <3> QED BY <1>1, <2>1, <2>2, <3>1 DEF IInv, Kept, Unwatched
  <2>8. Finalized'
    BY <1>1, <2>1, <2>2 DEF IInv, Kept, Finalized
  <2> QED BY <1>1, <2>1, <2>5, <2>6, <2>7, <2>8
          DEF IInv, Kept, Emptied, AloneAtCheck, TrashIsFreed
<1>7. CASE DeallocFrees(o)
  <2>1. /\ live' = live \ {o} /\ refs' = [refs EXCEPT ![o] = {}]
        /\ target' = [target EXCEPT ![o] = None]
        /\ unreachable' = unreachable \ {o} /\ seen' = seen \ {o}
        /\ frames' = Tail(frames)
        /\ UNCHANGED <<roots, phase, pending, finalized>>
    BY <1>7 DEF DeallocFrees
  <2>2. Trash' = Trash \ {o}
    BY <1>1, <2>1 DEF Trash
  <2>3. Self({"code"})' \subseteq Self({"code"}) /\ Self(Ops)' \subseteq Self(Ops)
    <3>1. \A ops : SelfOf(frames', ops) \subseteq SelfOf(frames, ops)
      BY <1>1, <2>1, Return
    <3> QED BY <1>2, <3>1
  <2>4. /\ \A x \in Objects : x # o => refs'[x] = refs[x] /\ target'[x] = target[x]
        /\ refs'[o] = {} /\ target'[o] = None /\ None \notin Trash
    BY <1>1, <2>1, CollectorAssumption DEF IInv, Base, TypeOK, Trash
  <2>5. live \subseteq Objects /\ Trash \subseteq live /\ unreachable \subseteq live
    BY DEF IInv, Base, TypeOK, Trash
  <2>6. Hidden'
    BY <1>1, <2>1, <2>2, <2>3, <2>4, <2>5 DEF IInv, Kept, Hidden
  <2>7. Untouched'
    BY <1>1, <1>3, <2>1, <2>3, <2>4, <2>5 DEF IInv, Kept, Untouched
  <2>8. Unwatched'
    BY <1>1, <2>1, <2>2, <2>4 DEF IInv, Kept, Unwatched
  <2>9. Finalized'
    BY <1>1, <2>1, <2>2 DEF IInv, Kept, Finalized
  <2>10. Emptied'
    BY <1>1, <2>1, <2>4, <2>5 DEF IInv, Kept, Emptied
  <2> QED BY <1>1, <2>1, <2>6, <2>7, <2>8, <2>9, <2>10
          DEF IInv, Kept, AloneAtCheck, TrashIsFreed
<1> QED BY <1>4, <1>5, <1>6, <1>7, DeallocCases DEF IInv

\* Python code never gets hold of the trash, but by finalizers.
LEMMA KeptCode ==
  ASSUME IInv, ~MayWatch, PythonCode
  PROVE  Kept'
<1>1. /\ frames # <<>>
      /\ UNCHANGED <<kind, finalized, phase, unreachable, pending, seen, frames, cleared>>
  BY DEF PythonCode, Store, Delete, Keep, Forget, Watch, Running, Acts, collector
<1>2. phase \in {"callbacks", "finalize", "delete", "legacy", "end"}
  BY <1>1, NobodyRuns DEF IInv, Kept, AloneAtCheck, Base, TypeOK
<1> DEFINE safe == phase \in {"callbacks", "delete", "legacy", "end"}
<1>3. safe => Visible \cap Trash = {}
  BY CodeSeesNoTrash DEF IInv, Base, Kept
<1>4. Visible \subseteq live /\ live \subseteq Objects /\ cleared \cap live \subseteq Trash
      /\ unreachable \subseteq Trash /\ Trash \subseteq live
  BY CodeIsLive DEF IInv, Base, TypeOK, Trash
<1>5. Self({"code"})' = Self({"code"}) /\ Self(Ops)' = Self(Ops)
  BY <1>1 DEF Self
<1>6. Trash' = Trash /\ (cleared \cap live)' = cleared \cap live
  BY <1>1 DEF PythonCode, Store, Delete, Keep, Forget, Watch, Trash
<1>7. safe => /\ \A x \in live \ Trash : refs'[x] \cap Trash = {}
              /\ \A x \in Trash : refs'[x] = refs[x]
              /\ roots' \cap Trash = {}
  <2> SUFFICES ASSUME safe
               PROVE  /\ \A x \in live \ Trash : refs'[x] \cap Trash = {}
                      /\ \A x \in Trash : refs'[x] = refs[x]
                      /\ roots' \cap Trash = {}
    OBVIOUS
  <2>0. /\ \A x \in live \ Trash : refs[x] \cap Trash = {}
        /\ roots \cap Trash = {}
        /\ \A w \in Objects : target[w] \notin Trash
        /\ refs \in [Objects -> SUBSET live]
    BY DEF IInv, Base, TypeOK, Kept, Hidden, Unwatched
  <2>1. CASE Store
    BY <1>3, <1>4, <2>0, <2>1 DEF Store
  <2>2. CASE Delete
    BY <1>3, <1>4, <2>0, <2>2 DEF Delete
  <2>3. CASE Keep
    BY <1>3, <1>4, <2>0, <2>3 DEF Keep
  <2>4. CASE Forget
    BY <2>0, <2>4 DEF Forget
  <2>5. CASE Watch
    BY <1>4, <2>0, <2>5 DEF Watch
  <2> QED BY <2>1, <2>2, <2>3, <2>4, <2>5 DEF PythonCode
<1>8. \A x \in live' \ live : refs'[x] = {}
  BY DEF IInv, Base, DeadAreEmpty, PythonCode, Store, Delete, Keep, Forget, Watch, TypeOK
<1>9. Hidden'
  <2> SUFFICES ASSUME safe
               PROVE  /\ \A x \in live' \ Trash : refs'[x] \cap Trash = {}
                      /\ (roots' \cup pending' \cup Self({"code"})') \cap Trash = {}
    BY <1>1, <1>2, <1>6 DEF Hidden
  <2>1. (pending \cup Self({"code"})) \cap Trash = {}
    BY DEF IInv, Kept, Hidden
  <2> QED BY <1>1, <1>5, <1>7, <1>8, <2>1
<1>10. Unwatched'
  <2>0. \A w \in Objects : target[w] \notin Trash /\ (w \in Trash => target[w] = None)
    BY <1>2 DEF IInv, Kept, Unwatched
  <2>1. CASE Watch
    <3>1. PICK w \in Objects \ (live \cup cleared), y \in Visible :
             target' = [target EXCEPT ![w] = y]
      BY <2>1 DEF Watch
    <3>2. safe
      BY <1>2, <2>1 DEF Watch
    <3>3. y \notin Trash /\ w \notin Trash
      BY <1>3, <1>4, <3>1, <3>2
    <3>4. \A x \in Objects : target'[x] \in {target[x], y} /\ (x # w => target'[x] = target[x])
      BY <3>1 DEF IInv, Base, TypeOK
    <3> HIDE DEF safe
    <3> QED BY <1>6, <2>0, <3>3, <3>4 DEF Unwatched
  <2>2. CASE UNCHANGED target
    BY <1>6, <2>0, <2>2 DEF Unwatched
  <2> QED BY <2>1, <2>2 DEF PythonCode, Store, Delete, Keep, Forget
<1>11. Untouched'
  <2> SUFFICES ASSUME phase = "callbacks"
               PROVE  /\ \A o \in unreachable : \E x \in unreachable : o \in refs'[x]
                      /\ Self(Ops) \cap unreachable = {}
    BY <1>1, <1>2, <1>5 DEF Untouched
  <2>1. /\ \A o \in unreachable : \E x \in unreachable : o \in refs[x]
        /\ Self(Ops) \cap unreachable = {}
    BY DEF IInv, Kept, Untouched
  <2> QED BY <1>4, <1>7, <2>1
<1>12. Finalized'
  BY <1>1, <1>6 DEF IInv, Kept, Finalized
<1>13. Emptied'
  <2>1. ASSUME NEW o \in cleared \cap live PROVE refs'[o] = {}
    <3>1. safe
      BY <1>2, <2>1 DEF IInv, Kept, Emptied
    <3>2. refs[o] = {} /\ o \in Trash
      BY <1>4, <2>1 DEF IInv, Kept, Emptied
    <3> QED BY <1>7, <3>1, <3>2
  <2> QED BY <1>1, <1>6, <2>1 DEF IInv, Kept, Emptied
<1> QED BY <1>1, <1>2, <1>6, <1>9, <1>10, <1>11, <1>12, <1>13
        DEF IInv, Kept, AloneAtCheck, TrashIsFreed

LEMMA KeptFind ==
  ASSUME IInv, Find
  PROVE  Kept'
<1> DEFINE inner == Reach(Outside(Young), Young)
<1>1. /\ phase = "start" /\ phase' = "found" /\ cleared = {} /\ frames = <<>> /\ pending = {}
      /\ UNCHANGED <<kind, live, refs, roots, gen, target, finalized, generation, pending, seen,
                     frames, cleared, steps>>
  BY DEF Find, heap, IInv, Kept, Emptied, Base, AloneAtFirst
<1>2. /\ unreachable' \cup finalizers' = Young \ inner
      /\ unreachable' \cap finalizers' = {}
      /\ \A o \in unreachable' : kind[o] # "legacy"
      /\ \A x \in finalizers' : refs[x] \cap unreachable' = {}
  BY FindSplits DEF IInv
<1>3. /\ Outside(Young) \subseteq inner /\ inner \subseteq Young
      /\ \A x \in inner : refs[x] \cap Young \subseteq inner
  BY ReachIsClosed, Outside(Young) \in SUBSET Young DEF Outside
<1>4. \A o \in Young : o \in Outside(Young)
                         <=> o \in roots \/ \E x \in live \ Young : o \in refs[x]
  BY <1>1, OutsideIsReferred DEF IInv
<1> HIDE DEF inner
<1>5. unreachable' \subseteq Young /\ Young \subseteq live /\ unreachable' \cap inner = {}
  BY <1>2, YoungIsLive
<1>6. /\ \A x \in live \ unreachable' : refs[x] \cap unreachable' = {}
      /\ roots \cap unreachable' = {}
  <2>1. roots \cap unreachable' = {}
    BY <1>3, <1>4, <1>5
  <2>2. ASSUME NEW x \in live, x \notin unreachable', NEW o \in refs[x] \cap unreachable'
        PROVE  FALSE
    <3>1. CASE x \notin Young
      BY <1>3, <1>4, <1>5, <2>2, <3>1
    <3>2. CASE x \in inner
      BY <1>3, <1>5, <2>2, <3>2
    <3>3. CASE x \in finalizers'
      BY <1>2, <2>2, <3>3
    <3> QED BY <1>2, <2>2, <3>1, <3>2, <3>3
  <2> QED BY <2>1, <2>2
<1>7. Trash' = unreachable'
  BY <1>1 DEF Trash
<1>8. Self({"code"})' = {} /\ Self(Ops)' = {}
  BY <1>1 DEF Self
<1>9. Hidden'
  BY <1>1, <1>6, <1>7, <1>8 DEF Hidden
<1>10. Untouched'
  <2> SUFFICES ASSUME NEW o \in unreachable' PROVE \E x \in unreachable' : o \in refs[x]
    BY <1>1, <1>8 DEF Untouched
  <2>1. o \in roots \/ \E x \in live : o \in refs[x]
    BY <1>1, <1>5 DEF IInv, Base, AloneAtFirst
  <2> QED BY <1>6, <2>1
<1> QED BY <1>1, <1>2, <1>7, <1>9, <1>10
        DEF IInv, Kept, Unwatched, Finalized, Emptied, AloneAtCheck, TrashIsFreed

LEMMA KeptClearWeakrefs ==
  ASSUME IInv, TrashWatchesTrash, ClearWeakrefs
  PROVE  Kept'
<1> DEFINE hit == {w \in live : target[w] \in unreachable}
<1>1. /\ phase = "found" /\ phase' = "callbacks" /\ cleared = {}
      /\ target' = [w \in Objects |-> IF w \in hit THEN None ELSE target[w]]
      /\ pending' = {w \in hit : w \notin unreachable}
      /\ UNCHANGED <<kind, live, refs, roots, finalized, unreachable, seen, frames, cleared>>
  BY DEF ClearWeakrefs, Honoured, IInv, Kept, Emptied
<1>2. Trash = unreachable /\ Trash' = unreachable /\ unreachable \subseteq live
      /\ live \subseteq Objects /\ None \notin unreachable
  BY <1>1, CollectorAssumption DEF Trash, IInv, Base, TypeOK
<1>3. Self({"code"})' = Self({"code"}) /\ Self(Ops)' = Self(Ops)
  BY <1>1 DEF Self
<1>4. Hidden'
  BY <1>1, <1>2, <1>3 DEF IInv, Kept, Hidden
<1>5. Unwatched'
  <2> SUFFICES ASSUME NEW w \in Objects
               PROVE  target'[w] \notin unreachable /\ (w \in unreachable => target'[w] = None)
    BY <1>2 DEF Unwatched
  <2>1. CASE w \in hit
    BY <1>1, <1>2, <2>1
  <2>2. CASE w \in live \ hit
    BY <1>1, <1>2, <2>2 DEF TrashWatchesTrash
  <2>3. CASE w \notin live
    BY <1>1, <1>2, <2>3 DEF IInv, Base, DeadAreEmpty
  <2> QED BY <2>1, <2>2, <2>3
<1>6. Untouched'
  BY <1>1, <1>3 DEF IInv, Kept, Untouched
<1>7. Finalized'
  BY <1>1, <1>2 DEF IInv, Kept, Finalized
<1>8. Emptied'
  BY <1>1 DEF Emptied
<1> QED BY <1>1, <1>4, <1>5, <1>6, <1>7, <1>8 DEF Kept, AloneAtCheck, TrashIsFreed

LEMMA KeptCallBack ==
  ASSUME IInv, CallBack
  PROVE  Kept'
<1>1. /\ phase = "callbacks" /\ phase' \in {"callbacks", "finalize"} /\ frames = <<>>
      /\ UNCHANGED <<kind, live, refs, roots, gen, target, finalized, unreachable, seen, cleared>>
      /\ cleared = {} /\ pending' \subseteq pending
      /\ phase' = "finalize" => pending' = {} /\ frames' = <<>>
      /\ frames' = <<>> \/ \E w \in pending : frames' = <<Frame("code", w)>>
  BY DEF CallBack, Idle, heap, IInv, Kept, Emptied
<1>2. Trash = unreachable /\ Trash' = unreachable
  BY <1>1 DEF Trash
<1>3. /\ \A x \in live \ unreachable : refs[x] \cap unreachable = {}
      /\ (roots \cup pending) \cap unreachable = {}
  BY <1>1, <1>2 DEF IInv, Kept, Hidden
<1>4. Self({"code"})' \subseteq pending /\ Self(Ops)' \subseteq pending
  <2>1. CASE frames' = <<>>
    BY <2>1 DEF Self
  <2>2. ASSUME NEW w \in pending, frames' = <<Frame("code", w)>>
        PROVE  Self({"code"})' \subseteq {w} /\ Self(Ops)' \subseteq {w}
    BY <2>2 DEF Self, Frame
  <2> QED BY <1>1, <2>1, <2>2
<1>5. Hidden'
  BY <1>1, <1>2, <1>3, <1>4 DEF Hidden
<1>6. Unwatched'
  BY <1>1, <1>2 DEF IInv, Kept, Unwatched
<1>7. Untouched'
  BY <1>1, <1>3, <1>4 DEF IInv, Kept, Untouched
<1>8. Finalized'
  BY <1>1, <1>2 DEF IInv, Kept, Finalized
<1>9. Emptied'
  BY <1>1 DEF Emptied
<1> QED BY <1>1, <1>5, <1>6, <1>7, <1>8, <1>9 DEF Kept, AloneAtCheck, TrashIsFreed

LEMMA KeptFinalize ==
  ASSUME IInv, Finalize
  PROVE  Kept'
<1>1. /\ phase = "finalize" /\ phase' \in {"finalize", "check"} /\ frames = <<>> /\ Quiet
      /\ UNCHANGED <<kind, live, refs, roots, gen, target, unreachable, pending, cleared>>
      /\ cleared = {} /\ pending = {} /\ finalized \subseteq finalized'
      /\ \A o \in seen' : o \in seen \/ (kind[o] = "finalizer" => o \in finalized')
      /\ phase' = "check" => frames' = <<>> /\ unreachable \subseteq seen /\ UNCHANGED finalized
  BY DEF Finalize, Idle, heap, IInv, Kept, Emptied
<1>2. Trash = unreachable /\ Trash' = unreachable
  BY <1>1 DEF Trash
<1>3. Unwatched'
  BY <1>1, <1>2 DEF IInv, Kept, Unwatched
<1>4. Finalized'
  BY <1>1, <1>2 DEF IInv, Kept, Finalized
<1>5. Emptied'
  BY <1>1 DEF Emptied
<1>6. AloneAtCheck'
  <2> SUFFICES ASSUME phase' = "check" PROVE Quiet' /\ frames' = <<>>
    BY DEF AloneAtCheck
  <2>1. UNCHANGED <<frames, live, refs, roots, pending>>
    BY <1>1
  <2>2. Dying' = Dying
    BY <2>1 DEF Dying, RefCount, Self
  <2> QED BY <1>1, <2>2 DEF Quiet
<1> QED BY <1>1, <1>3, <1>4, <1>5, <1>6 DEF Kept, Hidden, Untouched, TrashIsFreed

LEMMA KeptCheck ==
  ASSUME IInv, Check
  PROVE  Kept'
<1>1. /\ phase = "check" /\ frames = <<>> /\ cleared = {} /\ pending = {}
      /\ UNCHANGED <<kind, live, refs, roots, target, finalized, pending, seen, frames, cleared>>
      /\ \/ phase' = "delete" /\ unreachable' = unreachable /\ Revived = {}
         \/ phase' = "legacy" /\ unreachable' = {}
  BY DEF Check, Idle, IInv, Kept, Emptied
<1>2. Trash = unreachable /\ Trash' = unreachable' /\ unreachable' \subseteq unreachable
  BY <1>1 DEF Trash
<1>3. Self({"code"})' = {}
  BY <1>1 DEF Self
<1>4. Hidden'
  <2>1. CASE unreachable' = {}
    BY <1>2, <2>1 DEF Hidden
  <2>2. CASE Revived = {} /\ unreachable' = unreachable
    <3>1. \A o \in unreachable : /\ \A x \in live \ unreachable : o \notin refs[x]
                                 /\ o \notin roots
      BY <2>2, CountFromOutside DEF Revived, HeldOtherwise, IInv, Base, TypeOK
    <3> QED BY <1>1, <1>2, <1>3, <2>2, <3>1 DEF Hidden
  <2> QED BY <1>1, <2>1, <2>2
<1>5. Unwatched'
  BY <1>1, <1>2 DEF IInv, Kept, Unwatched
<1>6. Finalized'
  BY <1>1, <1>2 DEF IInv, Kept, Finalized
<1>7. Emptied'
  BY <1>1 DEF Emptied
<1> QED BY <1>1, <1>4, <1>5, <1>6, <1>7 DEF Kept, Untouched, AloneAtCheck, TrashIsFreed

LEMMA KeptClear ==
  ASSUME IInv, Clear
  PROVE  Kept'
<1>1. /\ phase = "delete" /\ frames = <<>> /\ pending = {}
      /\ UNCHANGED <<kind, live, roots, finalized, pending, seen>>
  BY DEF Clear, Idle, IInv, Kept, Emptied
<1>2. CASE phase' = "legacy" /\ unreachable = {}
           /\ UNCHANGED <<refs, target, cleared, unreachable, gen, frames>>
  <2>1. Trash' = Trash /\ Self({"code"})' = Self({"code"})
    BY <1>1, <1>2 DEF Trash, Self
  <2> QED BY <1>1, <1>2, <2>1 DEF IInv, Kept, Hidden, Unwatched, Untouched, Finalized, Emptied,
          AloneAtCheck, TrashIsFreed
<1>3. ASSUME NEW o \in unreachable,
             refs' = [refs EXCEPT ![o] = {}], target' = [target EXCEPT ![o] = None],
             cleared' = cleared \cup {o}, unreachable' = unreachable \ {o},
             frames' = <<Frame("hold", o)>>, UNCHANGED phase
      PROVE  Kept'
  <2>1. /\ unreachable \subseteq live /\ live \subseteq Objects
        /\ \A x \in Objects : x # o => refs'[x] = refs[x] /\ target'[x] = target[x]
        /\ refs'[o] = {} /\ target'[o] = None
    BY <1>3 DEF IInv, Base, TypeOK
  <2>2. Trash' = Trash
    BY <1>1, <1>3, <2>1 DEF Trash
  <2>3. Self({"code"})' = {}
    BY <1>3 DEF Self, Frame
  <2>4. None \notin Trash
    BY <2>1, CollectorAssumption DEF Trash
  <2>5. Hidden'
    BY <1>1, <1>3, <2>1, <2>2, <2>3 DEF IInv, Kept, Hidden
  <2>6. Unwatched'
    BY <1>1, <1>3, <2>1, <2>2, <2>4 DEF IInv, Kept, Unwatched
  <2>7. Finalized'
    BY <1>1, <1>3, <2>2 DEF IInv, Kept, Finalized
  <2>8. Emptied'
    BY <1>1, <1>3, <2>1 DEF IInv, Kept, Emptied
  <2> QED BY <1>1, <1>3, <2>5, <2>6, <2>7, <2>8 DEF Kept, Untouched, AloneAtCheck, TrashIsFreed
<1> QED BY <1>2, <1>3 DEF Clear

\* What is left of the trash would have died.
LEMMA KeptLegacy ==
  ASSUME IInv, Legacy
  PROVE  Kept'
<1>1. /\ phase = "legacy" /\ phase' = "end" /\ frames = <<>> /\ Quiet /\ pending = {}
      /\ unreachable = {}
      /\ roots' = roots \cup {o \in finalizers : kind[o] = "legacy"}
      /\ UNCHANGED <<kind, live, refs, target, finalized, unreachable, pending, seen, frames,
                     cleared>>
  BY DEF Legacy, Idle, IInv, Kept, Emptied
<1>2. Trash = cleared \cap live /\ Trash' = Trash
  BY <1>1 DEF Trash
<1>3. ASSUME NEW o \in Trash PROVE FALSE
  <2>1. /\ \A x \in live \ Trash : refs[x] \cap Trash = {}
        /\ roots \cap Trash = {}
        /\ \A x \in Trash : refs[x] = {}
    BY <1>1, <1>2 DEF IInv, Kept, Hidden, Emptied
  <2>2. \A x \in live : o \notin refs[x]
    BY <1>3, <2>1
  <2>3. \A ops : o \notin Self(ops)
    BY <1>1 DEF Self
  <2>4. RefCount(o) = 0
    BY <1>1, <1>3, <2>1, <2>2, <2>3, CountReferences DEF HeldOtherwise, IInv, Base
  <2>5. o \in Dying
    BY <1>2, <1>3, <2>3, <2>4 DEF Dying
  <2> QED BY <1>1, <2>5 DEF Quiet
<1>4. Trash = {} /\ Trash' = {} /\ (cleared \cap live)' = {}
  BY <1>1, <1>2, <1>3
<1>5. Hidden' /\ Unwatched' /\ Emptied' /\ TrashIsFreed'
  BY <1>1, <1>4 DEF Hidden, Unwatched, Emptied, TrashIsFreed, IInv, Kept
<1>6. Finalized'
  BY <1>1, <1>4 DEF IInv, Kept, Finalized
<1> QED BY <1>1, <1>5, <1>6 DEF Kept, Untouched, AloneAtCheck

LEMMA KeptInNextState ==
  ASSUME IInv, ~MayWatch, TrashWatchesTrash, [Next]_vars
  PROVE  IInv'
<1>1. Base'
  BY BaseInNextState DEF IInv
<1>2. CASE UNCHANGED vars
  <2>1. UNCHANGED <<kind, live, refs, roots, target, finalized, phase, unreachable, pending, seen,
                    frames, cleared>>
    BY <1>2 DEF vars
  <2>2. Trash' = Trash /\ \A ops : Self(ops)' = Self(ops)
    BY <2>1 DEF Trash, Self
  <2>3. Quiet' = Quiet
    BY <2>1 DEF Quiet, Dying, RefCount, Self
  <2>4. Kept'
    BY <2>1, <2>2, <2>3 DEF IInv, Kept, Hidden, Unwatched, Untouched, Finalized, Emptied,
       AloneAtCheck, TrashIsFreed
  <2> QED BY <1>1, <2>4 DEF IInv
<1>3. CASE Next
  <2>1. Kept'
    BY <1>3, KeptDealloc, KeptContinueDealloc, KeptRelease, KeptCode, KeptFind,
       KeptClearWeakrefs, KeptCallBack, KeptFinalize, KeptCheck, KeptClear, KeptLegacy DEF Next
  <2> QED BY <1>1, <2>1 DEF IInv
<1> QED BY <1>2, <1>3

(***************************************************************************)
(* From any heap, however callbacks and finalizers change it: if no weak   *)
(* reference is created while finalizers run, and none of the trash        *)
(* watches what is not trash, the invariant is kept.                       *)
(***************************************************************************)
THEOREM Invariant ==
  ASSUME ~MayWatch
  PROVE  Spec /\ []TrashWatchesTrash => []IInv
<1>1. Init => IInv
  BY BaseAtInit, KeptAtInit DEF IInv
<1>2. IInv /\ TrashWatchesTrash /\ [Next]_vars => IInv'
  BY KeptInNextState
<1> QED BY <1>1, <1>2, PTL DEF Spec

(***************************************************************************)
(* Then no code gets hold of an object that tp_clear has emptied.          *)
(***************************************************************************)
THEOREM ClearedStaysInvisible ==
  ASSUME ~MayWatch
  PROVE  Spec /\ []TrashWatchesTrash => []ClearedIsInvisible
<1>1. IInv => ClearedIsInvisible
  <2> SUFFICES ASSUME IInv, cleared # {} PROVE ClearedIsInvisible
    BY DEF ClearedIsInvisible
  <2> DEFINE from == Visible \cup {o \in live : Finalizable(o)}
  <2>1. phase \in {"delete", "legacy", "end"}
    BY DEF IInv, Kept, Emptied
  <2>2. Visible \cap Trash = {} /\ Visible \subseteq live
    BY <2>1, CodeSeesNoTrash, CodeIsLive DEF IInv, Base, Kept
  <2>3. \A o \in Trash : ~Finalizable(o)
    BY <2>1 DEF IInv, Kept, Finalized, Finalizable
  <2>4. from \in SUBSET live /\ from \cap Trash = {}
    BY <2>2, <2>3
  <2> HIDE DEF from
  <2>5. Reach(from, live) \cap Trash = {} /\ Reach(from, live) \subseteq live
    BY <2>1, <2>4, TrashIsNotReached, ReachIsClosed DEF IInv, Base, Kept
  <2> QED BY <2>5 DEF ClearedIsInvisible, Trash, from
<1> QED BY <1>1, Invariant, PTL

(***************************************************************************)
(* And the collection frees everything that it has cleared.                *)
(***************************************************************************)
THEOREM ClearedIsFreed ==
  ASSUME ~MayWatch
  PROVE  Spec /\ []TrashWatchesTrash => []TrashIsFreed
<1>1. IInv => TrashIsFreed
  BY DEF IInv, Kept
<1> QED BY <1>1, Invariant, PTL
=============================================================================
