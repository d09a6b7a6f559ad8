------------------------ MODULE ImportLockProofs ------------------------
(***************************************************************************)
(* Proofs about module ImportLock, for any threads, modules and programs.  *)
(***************************************************************************)
EXTENDS ImportLock, FiniteSetTheorems, SequenceTheorems, TLAPS

Places == {"run", "register", "acquire", "chase", "hop", "queue", "wait", "woken",
           "acquired", "deadlock", "load", "raise", "release", "drop", "callback"}

Frames == [name : Modules \cup Threads, mode : {"main", "load", "check"},
           lock : Locks \cup {NoLock}, at : Nat \ {0}, failed : BOOLEAN]

Typed ==
  /\ program \in [Modules \cup Threads -> Seq(Modules)]
  /\ modules \in [Modules -> {"absent", "initializing", "loaded"}]
  /\ module_locks \in [Modules -> Locks \cup {NoLock}]
  /\ blocking_on \in [Threads -> Locks \cup {NoLock}]
  /\ cursor \in [Threads -> [tid : Threads \cup {NoOne}, lock : Locks \cup {NoLock}]]
  /\ lock \in [Locks -> [owner : Threads \cup {NoOne}, count : Nat, waiters : Nat,
                         mutex : BOOLEAN, wakeup : BOOLEAN]]
  /\ stack \in [Threads -> Seq(Frames)]
  /\ pc \in [Threads -> Places]

\* The imports of a thread, by depth: 1 is its program.
At(s, d) == s[Len(s) + 1 - d]
Push(x, s) == <<x>> \o s
Top(t)   == Len(stack[t])
Fr(t, d) == At(stack[t], d)

\* A thread is in the body of what it loads, except for the innermost import.
Shape(t) ==
  /\ Top(t) >= 1
  /\ Fr(t, 1).mode = "main" /\ Fr(t, 1).lock = NoLock
  /\ \A d \in 2 .. Top(t) :
        /\ Fr(t, d).mode # "main" /\ Fr(t, d).name \in Modules
        /\ IF d = Top(t) /\ pc[t] = "callback" THEN Fr(t, d).lock = NoLock
           ELSE Fr(t, d).lock \in Locks
        /\ d < Top(t) => Fr(t, d).mode = "load"
  /\ Top(t) = 1 => pc[t] = "run"
  /\ Top(t) > 1 /\ pc[t] \in {"load", "run", "raise"} => Fr(t, Top(t)).mode = "load"
  /\ pc[t] = "deadlock" => Top(t) > 2
  /\ pc[t] = "hop" => cursor[t].lock \in Locks

\* The imports that hold a lock.
Holding == {"acquired", "load", "run", "raise", "release"}
Holds(t, d, l) ==
  /\ d \in 2 .. Top(t) /\ Fr(t, d).lock = l
  /\ d < Top(t) \/ pc[t] \in Holding
Holders(l) == {h \in Threads \X Nat : Holds(h[1], h[2], l)}

\* All holders are imports of the owner, and count is their number.
Owned(l) ==
  /\ IsFiniteSet(Holders(l)) /\ lock[l].count = Cardinality(Holders(l))
  /\ \A h \in Holders(l) : h[1] = lock[l].owner
  /\ lock[l].owner # NoOne => lock[l].count # 0

IInv == Typed /\ (\A t \in Threads : Shape(t)) /\ (\A l \in Locks : Owned(l))

-----------------------------------------------------------------------------
(* Stacks *)

\* r is s and one more import, x; or s with x for its innermost one.
Extends(S, r, x, s) ==
  /\ r \in Seq(S) /\ Len(r) = Len(s) + 1
  /\ \A d \in 1 .. Len(s) + 1 : At(r, d) = IF d = Len(s) + 1 THEN x ELSE At(s, d)
Replaces(S, r, x, s) ==
  /\ r \in Seq(S) /\ Len(r) = Len(s)
  /\ \A d \in 1 .. Len(s) : At(r, d) = IF d = Len(s) THEN x ELSE At(s, d)

LEMMA Pushed ==
  ASSUME NEW S, NEW s \in Seq(S), NEW x \in S
  PROVE  Extends(S, Push(x, s), x, s)
<1>1. PICK n \in Nat : n = Len(s)
  OBVIOUS
<1>2. <<x>> \in Seq(S) /\ Len(<<x>>) = 1 /\ <<x>>[1] = x
  OBVIOUS
<1>3. PICK r : r = Push(x, s)
  OBVIOUS
<1>4. /\ r \in Seq(S) /\ Len(r) = n + 1 /\ r[1] = x
      /\ \A i \in 2 .. n + 1 : r[i] = s[i - 1]
  <2>1. /\ r \in Seq(S) /\ Len(r) = 1 + n
        /\ \A i \in 1 .. 1 + n : r[i] = IF i <= 1 THEN <<x>>[i] ELSE s[i - 1]
    BY <1>1, <1>2, <1>3, ConcatProperties DEF Push
  <2> QED BY <1>2, <2>1
<1>5. ASSUME NEW d \in 1 .. n + 1
      PROVE  At(r, d) = IF d = n + 1 THEN x ELSE At(s, d)
  <2>1. At(r, d) = r[(n + 2) - d] /\ At(s, d) = s[(n + 1) - d]
    <3>1. (n + 1) + 1 - d = (n + 2) - d
      OBVIOUS
    <3> QED BY <1>1, <1>4, <3>1 DEF At
  <2>2. CASE d = n + 1
    BY <1>4, <2>1, <2>2
  <2>3. CASE d # n + 1
    <3>1. PICK i \in 2 .. n + 1 : i = (n + 2) - d
      BY <2>3
    <3>2. i - 1 = (n + 1) - d
      BY <3>1
    <3> QED BY <1>4, <2>1, <2>3, <3>1, <3>2
  <2> QED BY <2>2, <2>3
<1> QED BY <1>1, <1>3, <1>4, <1>5 DEF Extends

\* The innermost import is over.
LEMMA Popped ==
  ASSUME NEW S, NEW s \in Seq(S), s # <<>>
  PROVE  /\ Tail(s) \in Seq(S) /\ Len(Tail(s)) = Len(s) - 1
         /\ \A d \in 1 .. Len(s) - 1 : At(Tail(s), d) = At(s, d)
<1>1. PICK n \in Nat \ {0} : n = Len(s)
  OBVIOUS
<1>2. /\ Tail(s) \in Seq(S) /\ Len(Tail(s)) = n - 1
      /\ \A i \in 1 .. n - 1 : Tail(s)[i] = s[i + 1]
  BY <1>1
<1>3. ASSUME NEW d \in 1 .. n - 1 PROVE At(Tail(s), d) = At(s, d)
  <2>1. PICK i \in 1 .. n - 1 : i = n - d
    OBVIOUS
  <2>2. (n + 1) - d = i + 1 /\ (n - 1) + 1 - d = i
    BY <2>1
  <2>3. Tail(s)[i] = s[i + 1]
    BY <1>2
  <2> QED BY <1>1, <1>2, <2>2, <2>3 DEF At
<1> QED BY <1>1, <1>2, <1>3

\* The innermost import is replaced.
LEMMA Replaced ==
  ASSUME NEW S, NEW s \in Seq(S), s # <<>>, NEW x \in S
  PROVE  Replaces(S, Push(x, Tail(s)), x, s)
<1>1. PICK n \in Nat : Len(s) = n + 1
  <2>1. Len(s) \in Nat \ {0}
    OBVIOUS
  <2> QED BY <2>1
<1>2. PICK r \in Seq(S) : r = Tail(s)
  BY Popped
<1>3. Len(r) = n /\ \A d \in 1 .. n : At(r, d) = At(s, d)
  BY <1>1, <1>2, Popped
<1>4. PICK u : u = Push(x, r)
  OBVIOUS
<1>5. /\ u \in Seq(S) /\ Len(u) = n + 1
      /\ \A d \in 1 .. n + 1 : At(u, d) = IF d = n + 1 THEN x ELSE At(r, d)
  <2>1. Extends(S, Push(x, r), x, r)
    BY <1>2, Pushed, Zenon
  <2> QED BY <1>3, <1>4, <2>1 DEF Extends
<1>6. ASSUME NEW d \in 1 .. n + 1
      PROVE  At(u, d) = IF d = n + 1 THEN x ELSE At(s, d)
  BY <1>3, <1>5
<1> QED BY <1>1, <1>2, <1>4, <1>5, <1>6 DEF Replaces

\* The innermost import, by depth.
LEMMA TopFrame ==
  ASSUME NEW t \in Threads, Typed, Shape(t)
  PROVE  /\ Top(t) \in Nat \ {0} /\ stack[t] \in Seq(Frames) /\ stack[t] # <<>>
         /\ Import(t) = Fr(t, Top(t)) /\ Import(t) \in Frames
<1>1. stack[t] \in Seq(Frames) /\ Len(stack[t]) >= 1 /\ Len(stack[t]) \in Nat
  BY DEF Typed, Shape, Top
<1>2. Head(stack[t]) = stack[t][1] /\ stack[t][1] \in Frames /\ stack[t] # <<>>
  BY <1>1
<1>3. (Len(stack[t]) + 1) - Len(stack[t]) = 1
  BY <1>1
<1> QED BY <1>1, <1>2, <1>3 DEF Top, Fr, At, Import

-----------------------------------------------------------------------------
(* What a step does to the imports *)

SameImport(f, g) == f.name = g.name /\ f.mode = g.mode /\ f.lock = g.lock

Others(t) ==
  \A u \in Threads \ {t} : stack'[u] = stack[u] /\ pc'[u] = pc[u] /\ cursor'[u] = cursor[u]

\* The outer imports of a thread.
Outer(t, n) == \A d \in 1 .. n : SameImport(Fr(t, d)', Fr(t, d))

\* The thread goes on with the same imports, begins one, drops the reference to
\* its lock, or returns.
Stays(t) == Top(t)' = Top(t) /\ Outer(t, Top(t))
Pushes(t, f) ==
  /\ Top(t)' = Top(t) + 1 /\ Outer(t, Top(t))
  /\ \A d : d = Top(t) + 1 => SameImport(Fr(t, d)', f)
Frees(t) ==
  /\ Top(t)' = Top(t) /\ Outer(t, Top(t) - 1)
  /\ \A d : d = Top(t) => SameImport(Fr(t, d)', [Fr(t, d) EXCEPT !.lock = NoLock])
Pops(t) == Top(t)' = Top(t) - 1 /\ Outer(t, Top(t) - 1)

\* From the stack to depths.
LEMMA TopReplaced ==
  ASSUME Typed, NEW t \in Threads, Shape(t), NEW x \in Frames,
         stack' = [stack EXCEPT ![t] = Push(x, Tail(stack[t]))]
  PROVE  /\ stack' \in [Threads -> Seq(Frames)] /\ Top(t)' = Top(t)
         /\ \A d \in 1 .. Top(t) : Fr(t, d)' = IF d = Top(t) THEN x ELSE Fr(t, d)
         /\ \A u \in Threads \ {t} : stack'[u] = stack[u]
<1>1. stack \in [Threads -> Seq(Frames)] /\ stack[t] \in Seq(Frames) /\ stack[t] # <<>>
  BY TopFrame DEF Typed
<1>2. stack'[t] = Push(x, Tail(stack[t])) /\ \A u \in Threads \ {t} : stack'[u] = stack[u]
  BY <1>1
<1>3. /\ stack'[t] \in Seq(Frames) /\ Len(stack'[t]) = Len(stack[t])
      /\ \A d \in 1 .. Len(stack[t]) :
            At(stack'[t], d) = IF d = Len(stack[t]) THEN x ELSE At(stack[t], d)
  <2>1. Replaces(Frames, Push(x, Tail(stack[t])), x, stack[t])
    BY <1>1, Replaced, Zenon
  <2> QED BY <1>2, <2>1 DEF Replaces
<1> QED BY <1>1, <1>2, <1>3 DEF Top, Fr

LEMMA TopPopped ==
  ASSUME Typed, NEW t \in Threads, Shape(t), stack' = [stack EXCEPT ![t] = Tail(stack[t])]
  PROVE  /\ stack' \in [Threads -> Seq(Frames)] /\ Pops(t)
         /\ \A u \in Threads \ {t} : stack'[u] = stack[u]
<1>1. stack \in [Threads -> Seq(Frames)] /\ stack[t] \in Seq(Frames) /\ stack[t] # <<>>
  BY TopFrame DEF Typed
<1>2. stack'[t] = Tail(stack[t]) /\ \A u \in Threads \ {t} : stack'[u] = stack[u]
  BY <1>1
<1>3. /\ stack'[t] \in Seq(Frames) /\ Len(stack'[t]) = Len(stack[t]) - 1
      /\ \A d \in 1 .. Len(stack[t]) - 1 : At(stack'[t], d) = At(stack[t], d)
  BY <1>1, <1>2, Popped
<1> QED BY <1>1, <1>2, <1>3 DEF Top, Fr, Pops, Outer, SameImport

LEMMA TopPushed ==
  ASSUME Typed, NEW t \in Threads, Shape(t), NEW x \in Frames, NEW y \in Frames,
         SameImport(y, Import(t)),
         stack' = [stack EXCEPT ![t] = Push(x, Push(y, Tail(stack[t])))]
  PROVE  /\ stack' \in [Threads -> Seq(Frames)] /\ Pushes(t, x)
         /\ \A u \in Threads \ {t} : stack'[u] = stack[u]
<1>1. stack \in [Threads -> Seq(Frames)] /\ stack[t] \in Seq(Frames) /\ stack[t] # <<>>
  BY TopFrame DEF Typed
<1>2. PICK n \in Nat \ {0} : n = Len(stack[t])
  BY TopFrame DEF Top
<1>3. /\ stack'[t] = Push(x, Push(y, Tail(stack[t])))
      /\ \A u \in Threads \ {t} : stack'[u] = stack[u]
  BY <1>1
<1>4. /\ stack'[t] \in Seq(Frames) /\ Len(stack'[t]) = n + 1
      /\ \A d \in 1 .. n + 1 :
            At(stack'[t], d) = IF d = n + 1 THEN x ELSE IF d = n THEN y ELSE At(stack[t], d)
  <2>1. Replaces(Frames, Push(y, Tail(stack[t])), y, stack[t])
    BY <1>1, Replaced, Zenon
  <2>2. PICK s : s = Push(y, Tail(stack[t]))
    OBVIOUS
  <2>3. /\ s \in Seq(Frames) /\ Len(s) = n
        /\ \A d \in 1 .. n : At(s, d) = IF d = n THEN y ELSE At(stack[t], d)
    BY <1>2, <2>1, <2>2 DEF Replaces
  <2>4. Extends(Frames, stack'[t], x, s)
    <3>1. Extends(Frames, Push(x, s), x, s)
      BY <2>3, Pushed, Zenon
    <3> QED BY <1>3, <2>2, <3>1
  <2>5. /\ stack'[t] \in Seq(Frames) /\ Len(stack'[t]) = n + 1
        /\ \A d \in 1 .. n + 1 : At(stack'[t], d) = IF d = n + 1 THEN x ELSE At(s, d)
    BY <2>3, <2>4 DEF Extends
  <2> QED BY <2>3, <2>5
<1>5. Top(t) = n /\ Top(t)' = n + 1
  BY <1>2, <1>4 DEF Top
<1>6. \A d \in 1 .. n + 1 :
         Fr(t, d)' = IF d = n + 1 THEN x ELSE IF d = n THEN y ELSE Fr(t, d)
  BY <1>4 DEF Fr
<1>7. ASSUME NEW d \in 1 .. n PROVE SameImport(Fr(t, d)', Fr(t, d))
  <2>1. Fr(t, d)' = IF d = n THEN y ELSE Fr(t, d)
    BY <1>6
  <2>2. Import(t) = Fr(t, n)
    BY <1>5, TopFrame
  <2> QED BY <2>1, <2>2 DEF SameImport
<1>8. \A d : d = n + 1 => Fr(t, d)' = x
  BY <1>6
<1> QED BY <1>1, <1>3, <1>4, <1>5, <1>7, <1>8 DEF Pushes, Outer, SameImport

LEMMA NoLockIsNone == NoLock \notin Locks
  BY DEF NoLock, Locks

\* The innermost import, when it is not the program of the thread.
LEMMA TopLock ==
  ASSUME Typed, NEW t \in Threads, Shape(t), pc[t] # "run" \/ Import(t).mode # "main"
  PROVE  /\ Top(t) > 1 /\ Import(t).mode # "main" /\ Import(t).name \in Modules
         /\ pc[t] # "callback" => Import(t).lock \in Locks
<1>1. Top(t) \in Nat \ {0} /\ Import(t) = Fr(t, Top(t))
  BY TopFrame
<1>2. Top(t) > 1
  BY <1>1 DEF Shape
<1>3. Top(t) \in 2 .. Top(t)
  BY <1>1, <1>2
<1> QED BY <1>1, <1>2, <1>3 DEF Shape

LEMMA OtherShapes ==
  ASSUME NEW t \in Threads, Others(t), NEW u \in Threads \ {t}, Shape(u)
  PROVE  Shape(u)'
<1>1. stack'[u] = stack[u] /\ pc'[u] = pc[u] /\ cursor'[u] = cursor[u]
  BY DEF Others
<1>2. Top(u)' = Top(u) /\ \A d : Fr(u, d)' = Fr(u, d)
  BY <1>1 DEF Top, Fr
<1> QED BY <1>1, <1>2 DEF Shape

LEMMA OtherHolds ==
  ASSUME NEW t \in Threads, Others(t), NEW u \in Threads \ {t}, NEW d, NEW l
  PROVE  Holds(u, d, l)' <=> Holds(u, d, l)
<1>1. stack'[u] = stack[u] /\ pc'[u] = pc[u]
  BY DEF Others
<1>2. Top(u)' = Top(u) /\ Fr(u, d)' = Fr(u, d)
  BY <1>1 DEF Top, Fr
<1> QED BY <1>1, <1>2 DEF Holds

\* A step after which the thread is in the same imports, elsewhere.
LEMMA StaysShape ==
  ASSUME Typed, NEW t \in Threads, \A u \in Threads : Shape(u), Others(t), Stays(t),
         pc[t] # "callback", pc'[t] # "callback",
         Top(t) = 1 => pc'[t] = "run",
         Top(t) > 1 /\ pc'[t] \in {"load", "run", "raise"} => Import(t).mode = "load",
         pc'[t] = "deadlock" => Top(t) > 2,
         pc'[t] = "hop" => cursor'[t].lock \in Locks
  PROVE  \A u \in Threads : Shape(u)'
<1>1. \A u \in Threads \ {t} : Shape(u)'
  BY OtherShapes
<1>2. /\ Top(t) \in Nat \ {0} /\ Import(t) = Fr(t, Top(t)) /\ Top(t)' = Top(t)
      /\ \A d \in 1 .. Top(t) : SameImport(Fr(t, d)', Fr(t, d))
  BY TopFrame DEF Stays, Outer
<1>3. Shape(t)'
  <2>1. Top(t)' >= 1 /\ (Top(t)' = 1 => pc'[t] = "run")
    BY <1>2
  <2>2. Fr(t, 1)'.mode = "main" /\ Fr(t, 1)'.lock = NoLock
    BY <1>2 DEF SameImport, Shape
  <2>3. ASSUME NEW d \in 2 .. Top(t)
        PROVE  /\ Fr(t, d)'.mode # "main" /\ Fr(t, d)'.name \in Modules
               /\ Fr(t, d)'.lock \in Locks
               /\ d < Top(t) => Fr(t, d)'.mode = "load"
    BY <1>2 DEF SameImport, Shape
  <2>4. Top(t)' > 1 /\ pc'[t] \in {"load", "run", "raise"} => Fr(t, Top(t))'.mode = "load"
    <3>1. \A d : d = Top(t) => SameImport(Fr(t, d)', Fr(t, d))
      BY <1>2
    <3>2. \A d : d = Top(t) /\ Top(t) > 1 /\ pc'[t] \in {"load", "run", "raise"} =>
             Fr(t, d)'.mode = "load"
      BY <1>2, <3>1 DEF SameImport
    <3> QED BY <1>2, <3>2
  <2> QED BY <1>2, <2>1, <2>2, <2>3, <2>4 DEF Shape
<1> QED BY <1>1, <1>3

\* It holds the same locks if it holds that of the innermost as before.
LEMMA StaysHolds ==
  ASSUME Typed, NEW t \in Threads, Shape(t), Others(t), Stays(t), NEW l,
         Top(t) > 1 /\ Import(t).lock = l => (pc'[t] \in Holding <=> pc[t] \in Holding)
  PROVE  Holders(l)' = Holders(l)
<1>1. /\ Top(t) \in Nat \ {0} /\ Import(t) = Fr(t, Top(t)) /\ Top(t)' = Top(t)
      /\ \A d \in 1 .. Top(t) : SameImport(Fr(t, d)', Fr(t, d))
  BY TopFrame DEF Stays, Outer
<1>2. ASSUME NEW d PROVE Holds(t, d, l)' <=> Holds(t, d, l)
  <2>1. CASE d \in 2 .. Top(t)
    <3>1. Fr(t, d)'.lock = Fr(t, d).lock
      BY <1>1, <2>1 DEF SameImport
    <3> QED BY <1>1, <2>1, <3>1 DEF Holds
  <2>2. CASE d \notin 2 .. Top(t)
    BY <1>1, <2>2 DEF Holds
  <2> QED BY <2>1, <2>2
<1>3. \A h \in Threads \X Nat : Holds(h[1], h[2], l)' <=> Holds(h[1], h[2], l)
  BY <1>2, OtherHolds
<1> QED BY <1>3 DEF Holders

LEMMA OwnedStays ==
  ASSUME NEW l, Owned(l), Holders(l)' = Holders(l),
         lock'[l].owner = lock[l].owner, lock'[l].count = lock[l].count
  PROVE  Owned(l)'
  BY DEF Owned

\* A step that neither takes a lock nor gives one up.
LEMMA QuietStep ==
  ASSUME IInv, Typed', NEW t \in Threads, Others(t), Stays(t),
         pc[t] # "callback", pc'[t] # "callback",
         Top(t) = 1 => pc'[t] = "run",
         Top(t) > 1 /\ pc'[t] \in {"load", "run", "raise"} => Import(t).mode = "load",
         pc'[t] = "deadlock" => Top(t) > 2,
         pc'[t] = "hop" => cursor'[t].lock \in Locks,
         pc'[t] \in Holding <=> pc[t] \in Holding,
         \A l \in Locks : lock'[l].owner = lock[l].owner /\ lock'[l].count = lock[l].count
  PROVE  IInv'
<1>1. \A u \in Threads : Shape(u)'
  BY StaysShape DEF IInv
<1>2. \A l \in Locks : Holders(l)' = Holders(l)
  BY StaysHolds DEF IInv
<1>3. \A l \in Locks : Owned(l)'
  BY <1>2, OwnedStays DEF IInv
<1> QED BY <1>1, <1>3 DEF IInv

LEMMA SameStack ==
  ASSUME NEW t \in Threads, stack' = stack
  PROVE  Stays(t)
  BY DEF Stays, Outer, SameImport, Top, Fr

-----------------------------------------------------------------------------
(* The steps that neither take a lock nor give one up *)

IsLock(x) == x \in [owner : Threads \cup {NoOne}, count : Nat, waiters : Nat,
                    mutex : BOOLEAN, wakeup : BOOLEAN]

\* A step that changes one lock, but neither its owner nor its count.
LEMMA LockChanged ==
  ASSUME Typed, NEW l \in Locks, NEW x, IsLock(x), lock' = [lock EXCEPT ![l] = x]
  PROVE  /\ \A k \in Locks : lock'[k] = IF k = l THEN x ELSE lock[k]
         /\ lock' \in [Locks -> [owner : Threads \cup {NoOne}, count : Nat, waiters : Nat,
                                 mutex : BOOLEAN, wakeup : BOOLEAN]]
  BY DEF Typed, IsLock

LEMMA PcChanged ==
  ASSUME Typed, NEW t \in Threads, NEW p \in Places, Goto(t, p)
  PROVE  /\ pc' \in [Threads -> Places] /\ pc'[t] = p
         /\ \A u \in Threads \ {t} : pc'[u] = pc[u]
  BY DEF Typed, Goto

LEMMA StepRegister ==
  ASSUME IInv, NEW t \in Threads, Register(t)
  PROVE  IInv'
<1>1. /\ pc[t] = "register" /\ Goto(t, "acquire") /\ stack' = stack /\ cursor' = cursor
      /\ lock' = lock /\ program' = program /\ modules' = modules
      /\ module_locks' = module_locks
      /\ blocking_on' = [blocking_on EXCEPT ![t] = Import(t).lock]
  BY DEF Register
<1>2. Top(t) > 1 /\ Import(t).lock \in Locks
  BY <1>1, TopLock DEF IInv
<1>3. pc' \in [Threads -> Places] /\ pc'[t] = "acquire" /\ \A u \in Threads \ {t} : pc'[u] = pc[u]
  BY <1>1, PcChanged DEF IInv, Places
<1>4. Typed'
  BY <1>1, <1>2, <1>3 DEF IInv, Typed
<1>5. Others(t) /\ Stays(t)
  BY <1>1, <1>3, SameStack DEF Others
<1> QED BY <1>1, <1>2, <1>3, <1>4, <1>5, QuietStep DEF Holding

LEMMA StepChase ==
  ASSUME IInv, NEW t \in Threads, Chase(t)
  PROVE  IInv'
<1>1. /\ pc[t] = "chase" /\ stack' = stack
      /\ lock' = lock /\ program' = program /\ modules' = modules
      /\ module_locks' = module_locks /\ blocking_on' = blocking_on
  BY DEF Chase
<1>2. Top(t) > 1
  BY <1>1, TopLock DEF IInv
<1>3. \E l \in Locks \cup {NoLock} :
         \/ Goto(t, "queue") /\ cursor' = [cursor EXCEPT ![t] = NoCursor]
         \/ l # NoLock /\ Goto(t, "hop") /\ cursor' = [cursor EXCEPT ![t].lock = l]
  <2>1. PICK l : /\ l = IF cursor[t].tid = NoOne THEN NoLock ELSE blocking_on[cursor[t].tid]
                 /\ \/ Goto(t, "queue") /\ cursor' = [cursor EXCEPT ![t] = NoCursor]
                    \/ l # NoLock /\ Goto(t, "hop") /\ cursor' = [cursor EXCEPT ![t].lock = l]
    BY DEF Chase
  <2>2. cursor[t].tid \in Threads \cup {NoOne} /\ \A u \in Threads : blocking_on[u] \in Locks \cup {NoLock}
    BY DEF IInv, Typed
  <2> QED BY <2>1, <2>2
<1>4. PICK l \in Locks \cup {NoLock} :
         \/ Goto(t, "queue") /\ cursor' = [cursor EXCEPT ![t] = NoCursor]
         \/ l # NoLock /\ Goto(t, "hop") /\ cursor' = [cursor EXCEPT ![t].lock = l]
  BY <1>3
<1>5. \E p \in {"queue", "hop"} : Goto(t, p)
  BY <1>4
<1>6. /\ pc' \in [Threads -> Places] /\ pc'[t] \in {"queue", "hop"}
      /\ \A u \in Threads \ {t} : pc'[u] = pc[u]
  BY <1>5, PcChanged DEF IInv, Places
<1>7. /\ cursor' \in [Threads -> [tid : Threads \cup {NoOne}, lock : Locks \cup {NoLock}]]
      /\ \A u \in Threads \ {t} : cursor'[u] = cursor[u]
      /\ pc'[t] = "hop" => cursor'[t].lock \in Locks
  <2>1. cursor \in [Threads -> [tid : Threads \cup {NoOne}, lock : Locks \cup {NoLock}]]
    BY DEF IInv, Typed
  <2>2. CASE Goto(t, "queue") /\ cursor' = [cursor EXCEPT ![t] = NoCursor]
    <3>1. pc'[t] = "queue"
      BY <2>2, PcChanged DEF IInv, Places
    <3> QED BY <2>1, <2>2, <3>1 DEF NoCursor
  <2>3. CASE l # NoLock /\ cursor' = [cursor EXCEPT ![t].lock = l]
    BY <1>4, <2>1, <2>3
  <2> QED BY <1>4, <2>2, <2>3
<1>8. Typed'
  BY <1>1, <1>6, <1>7 DEF IInv, Typed
<1>9. Others(t) /\ Stays(t)
  BY <1>1, <1>6, <1>7, SameStack DEF Others
<1> QED BY <1>1, <1>2, <1>6, <1>7, <1>8, <1>9, QuietStep DEF Holding

\* What is done with the mutex and the wakeup of the innermost lock.
LEMMA LockStep ==
  ASSUME IInv, NEW t \in Threads, pc[t] \notin Holding \cup {"callback"},
         NEW x, IsLock(x), x.owner = Self(t).owner, x.count = Self(t).count,
         lock' = [lock EXCEPT ![Import(t).lock] = x],
         NEW p \in {"chase", "wait", "woken", "acquire"}, Goto(t, p),
         program' = program, modules' = modules, module_locks' = module_locks,
         blocking_on' = blocking_on, stack' = stack,
         cursor' \in [Threads -> [tid : Threads \cup {NoOne}, lock : Locks \cup {NoLock}]],
         \A u \in Threads \ {t} : cursor'[u] = cursor[u]
  PROVE  IInv'
<1>1. Top(t) > 1 /\ Import(t).lock \in Locks
  <2>1. pc[t] # "run"
    BY DEF Holding
  <2> QED BY <2>1, TopLock DEF IInv
<1>2. /\ \A k \in Locks : lock'[k].owner = lock[k].owner /\ lock'[k].count = lock[k].count
      /\ lock' \in [Locks -> [owner : Threads \cup {NoOne}, count : Nat, waiters : Nat,
                              mutex : BOOLEAN, wakeup : BOOLEAN]]
  BY <1>1, LockChanged DEF IInv, Self
<1>3. pc' \in [Threads -> Places] /\ pc'[t] = p /\ \A u \in Threads \ {t} : pc'[u] = pc[u]
  BY PcChanged DEF IInv, Places
<1>4. Typed'
  BY <1>2, <1>3 DEF IInv, Typed
<1>5. Others(t) /\ Stays(t)
  BY <1>3, SameStack DEF Others
<1>6. Top(t) # 1
  BY <1>1
<1> QED BY <1>1, <1>2, <1>3, <1>4, <1>5, <1>6, QuietStep DEF Holding

\* A lock of a thread that waits for it.
LEMMA SelfIsLock ==
  ASSUME IInv, NEW t \in Threads, pc[t] \notin Holding \cup {"callback"}
  PROVE  IsLock(Self(t)) /\ Import(t).lock \in Locks
<1>1. Import(t).lock \in Locks
  BY TopLock DEF IInv, Holding
<1> QED BY <1>1 DEF IInv, Typed, Self, IsLock

LEMMA StepQueue ==
  ASSUME IInv, NEW t \in Threads, Queue(t)
  PROVE  IInv'
<1>1. pc[t] = "queue" /\ Goto(t, "wait")
  BY DEF Queue
<1>2. IsLock(Self(t)) /\ Import(t).lock \in Locks
  BY <1>1, SelfIsLock DEF Holding
<1>3. PICK w : w = IF Self(t).wakeup THEN Self(t).waiters ELSE Self(t).waiters + 1
  OBVIOUS
<1>4. w \in Nat
  BY <1>2, <1>3 DEF IsLock
<1>5. PICK x : x = [Self(t) EXCEPT !.mutex = FALSE, !.wakeup = TRUE, !.waiters = w]
  OBVIOUS
<1>6. IsLock(x) /\ x.owner = Self(t).owner /\ x.count = Self(t).count
  BY <1>2, <1>4, <1>5 DEF IsLock
<1>7. lock' = [lock EXCEPT ![Import(t).lock] = x]
  <2>1. [Self(t) EXCEPT !.mutex = FALSE, !.wakeup = TRUE,
                        !.waiters = IF Self(t).wakeup THEN @ ELSE @ + 1] = x
    BY <1>2, <1>3, <1>5 DEF IsLock
  <2> QED BY <2>1 DEF Queue
<1>8. cursor' \in [Threads -> [tid : Threads \cup {NoOne}, lock : Locks \cup {NoLock}]]
  BY DEF Queue, IInv, Typed
<1> QED BY <1>1, <1>6, <1>7, <1>8, LockStep DEF Queue, Holding

LEMMA StepWait ==
  ASSUME IInv, NEW t \in Threads, Wait(t)
  PROVE  IInv'
<1> DEFINE x == [Self(t) EXCEPT !.wakeup = TRUE]
<1>1. pc[t] = "wait" /\ Goto(t, "woken")
  BY DEF Wait
<1>2. IsLock(Self(t))
  BY <1>1, SelfIsLock DEF Holding
<1>3. IsLock(x) /\ x.owner = Self(t).owner /\ x.count = Self(t).count
  BY <1>2 DEF IsLock
<1>4. lock' = [lock EXCEPT ![Import(t).lock] = x]
  BY DEF Wait, Self
<1>5. cursor' \in [Threads -> [tid : Threads \cup {NoOne}, lock : Locks \cup {NoLock}]]
  BY DEF Wait, IInv, Typed
<1> HIDE DEF x
<1> QED BY <1>1, <1>3, <1>4, <1>5, LockStep DEF Wait, Holding

LEMMA StepPassOn ==
  ASSUME IInv, NEW t \in Threads, PassOn(t)
  PROVE  IInv'
<1> DEFINE x == [Self(t) EXCEPT !.wakeup = FALSE]
<1>1. pc[t] = "woken" /\ Goto(t, "acquire")
  BY DEF PassOn
<1>2. IsLock(Self(t))
  BY <1>1, SelfIsLock DEF Holding
<1>3. IsLock(x) /\ x.owner = Self(t).owner /\ x.count = Self(t).count
  BY <1>2 DEF IsLock
<1>4. lock' = [lock EXCEPT ![Import(t).lock] = x]
  BY DEF PassOn, Self
<1>5. cursor' \in [Threads -> [tid : Threads \cup {NoOne}, lock : Locks \cup {NoLock}]]
  BY DEF PassOn, IInv, Typed
<1> HIDE DEF x
<1> QED BY <1>1, <1>3, <1>4, <1>5, LockStep DEF PassOn, Holding

\* Hop: who owns the lock his thread is in a deadlock for loads a module.
LEMMA StepHop ==
  ASSUME IInv, NEW t \in Threads, Hop(t)
  PROVE  IInv'
<1>1. /\ pc[t] = "hop" /\ stack' = stack /\ program' = program /\ modules' = modules
      /\ module_locks' = module_locks /\ blocking_on' = blocking_on
  BY DEF Hop
<1>2. IsLock(Self(t)) /\ Import(t).lock \in Locks
  BY <1>1, SelfIsLock DEF Holding
<1>3. Top(t) > 1 /\ cursor[t].lock \in Locks /\ Top(t) \in Nat
  BY <1>1, TopLock, TopFrame DEF IInv, Shape
<1>4. CASE Meets(t) /\ Goto(t, "deadlock") /\ cursor' = [cursor EXCEPT ![t] = NoCursor]
           /\ lock' = [lock EXCEPT ![Import(t).lock].mutex = FALSE]
  <2>1. Top(t) > 2
    <3>1. PICK l \in Locks : l = cursor[t].lock
      BY <1>3
    <3>2. lock[l].owner = t /\ lock[l].count # 0 /\ Owned(l)
      BY <1>4, <3>1, ImportAssumption DEF Meets, IInv, Owned
    <3>3. Holders(l) # {}
      BY <3>2, FS_EmptySet DEF Owned
    <3>4. PICK h \in Threads \X Nat : Holds(h[1], h[2], l) /\ h[1] = t
      BY <3>2, <3>3 DEF Owned, Holders
    <3>5. h[2] \in 2 .. Top(t) /\ h[2] < Top(t)
      BY <1>1, <3>4 DEF Holds, Holding
    <3> QED BY <1>3, <3>5
  <2>2. PICK x : x = [Self(t) EXCEPT !.mutex = FALSE]
    OBVIOUS
  <2>3. IsLock(x) /\ x.owner = Self(t).owner /\ x.count = Self(t).count
    BY <1>2, <2>2 DEF IsLock
  <2>4. lock' = [lock EXCEPT ![Import(t).lock] = x]
    BY <1>4, <2>2 DEF Self
  <2>5. /\ \A k \in Locks : lock'[k].owner = lock[k].owner /\ lock'[k].count = lock[k].count
        /\ lock' \in [Locks -> [owner : Threads \cup {NoOne}, count : Nat, waiters : Nat,
                                mutex : BOOLEAN, wakeup : BOOLEAN]]
    BY <1>2, <2>3, <2>4, LockChanged DEF IInv, Self
  <2>6. /\ pc' \in [Threads -> Places] /\ pc'[t] = "deadlock"
        /\ \A u \in Threads \ {t} : pc'[u] = pc[u]
    BY <1>4, PcChanged DEF IInv, Places
  <2>7. /\ cursor' \in [Threads -> [tid : Threads \cup {NoOne}, lock : Locks \cup {NoLock}]]
        /\ \A u \in Threads \ {t} : cursor'[u] = cursor[u]
    BY <1>4 DEF IInv, Typed, NoCursor
  <2>8. Typed'
    BY <1>1, <2>5, <2>6, <2>7 DEF IInv, Typed
  <2>9. Others(t) /\ Stays(t)
    BY <1>1, <2>6, <2>7, SameStack DEF Others
  <2>10. Top(t) # 1
    BY <1>3
  <2> QED BY <1>1, <1>3, <2>1, <2>5, <2>6, <2>8, <2>9, <2>10, QuietStep DEF Holding
<1>5. CASE lock' = lock /\ Goto(t, "chase")
           /\ cursor' = [cursor EXCEPT ![t] = [tid |-> lock[@.lock].owner, lock |-> NoLock]]
  <2>1. /\ cursor' \in [Threads -> [tid : Threads \cup {NoOne}, lock : Locks \cup {NoLock}]]
        /\ \A u \in Threads \ {t} : cursor'[u] = cursor[u]
    BY <1>3, <1>5 DEF IInv, Typed
  <2>2. lock' = [lock EXCEPT ![Import(t).lock] = Self(t)]
    BY <1>2, <1>5 DEF Self, IInv, Typed
  <2> QED BY <1>1, <1>2, <1>5, <2>1, <2>2, LockStep DEF Holding
<1> QED BY <1>4, <1>5 DEF Hop

-----------------------------------------------------------------------------
(* The steps of an import that keeps its lock *)

LEMMA ReplacedStays ==
  ASSUME Typed, NEW t \in Threads, Shape(t), NEW x \in Frames, SameImport(x, Import(t)),
         stack' = [stack EXCEPT ![t] = Push(x, Tail(stack[t]))]
  PROVE  /\ stack' \in [Threads -> Seq(Frames)] /\ Stays(t)
         /\ \A u \in Threads \ {t} : stack'[u] = stack[u]
<1>1. /\ stack' \in [Threads -> Seq(Frames)] /\ Top(t)' = Top(t)
      /\ \A d \in 1 .. Top(t) : Fr(t, d)' = IF d = Top(t) THEN x ELSE Fr(t, d)
      /\ \A u \in Threads \ {t} : stack'[u] = stack[u]
  BY TopReplaced
<1>2. Import(t) = Fr(t, Top(t))
  BY TopFrame
<1>3. ASSUME NEW d \in 1 .. Top(t) PROVE SameImport(Fr(t, d)', Fr(t, d))
  BY <1>1, <1>2 DEF SameImport
<1> QED BY <1>1, <1>3 DEF Stays, Outer

LEMMA StepUnregister ==
  ASSUME IInv, NEW t \in Threads, Unregister(t)
  PROVE  IInv'
<1>1. /\ blocking_on' = [blocking_on EXCEPT ![t] = NoLock]
      /\ program' = program /\ modules' = modules
      /\ module_locks' = module_locks /\ lock' = lock /\ cursor' = cursor
  BY DEF Unregister
<1>2. blocking_on' \in [Threads -> Locks \cup {NoLock}]
  BY <1>1 DEF IInv, Typed
<1>3. CASE /\ pc[t] = "acquired" /\ stack' = stack
           /\ Goto(t, IF Import(t).mode = "load" THEN "load" ELSE "release")
  <2>1. PICK p \in {"load", "release"} :
           p = IF Import(t).mode = "load" THEN "load" ELSE "release"
    OBVIOUS
  <2>2. pc' \in [Threads -> Places] /\ pc'[t] = p /\ \A u \in Threads \ {t} : pc'[u] = pc[u]
    BY <1>3, <2>1, PcChanged DEF IInv, Places
  <2>3. Top(t) > 1
    BY <1>3, TopLock DEF IInv
  <2>4. Typed'
    BY <1>1, <1>2, <1>3, <2>2 DEF IInv, Typed
  <2>5. Others(t) /\ Stays(t)
    BY <1>1, <1>3, <2>2, SameStack DEF Others
  <2>6. pc'[t] \in {"load", "run", "raise"} => Import(t).mode = "load"
    BY <2>1, <2>2
  <2>7. Top(t) # 1
    BY <2>3
  <2> QED BY <1>1, <1>3, <2>2, <2>4, <2>5, <2>6, <2>7, QuietStep DEF Holding
<1>4. CASE /\ pc[t] = "deadlock" /\ Goto(t, "drop")
           /\ stack' = [stack EXCEPT ![t] =
                          <<[Import(t) EXCEPT !.failed = Import(t).mode = "load"]>> \o Tail(@)]
  <2>1. PICK x : x = [Import(t) EXCEPT !.failed = Import(t).mode = "load"]
    OBVIOUS
  <2>2. x \in Frames /\ SameImport(x, Import(t))
    <3>1. Import(t) \in Frames
      BY TopFrame DEF IInv
    <3> QED BY <2>1, <3>1 DEF Frames, SameImport
  <2>3. stack' = [stack EXCEPT ![t] = Push(x, Tail(stack[t]))]
    BY <1>4, <2>1 DEF Push
  <2>4. /\ stack' \in [Threads -> Seq(Frames)] /\ Stays(t)
        /\ \A u \in Threads \ {t} : stack'[u] = stack[u]
    BY <2>2, <2>3, ReplacedStays DEF IInv
  <2>5. pc' \in [Threads -> Places] /\ pc'[t] = "drop" /\ \A u \in Threads \ {t} : pc'[u] = pc[u]
    BY <1>4, PcChanged DEF IInv, Places
  <2>6. Top(t) # 1
    BY <1>4, TopLock DEF IInv
  <2>7. Typed'
    BY <1>1, <1>2, <2>4, <2>5 DEF IInv, Typed
  <2>8. Others(t)
    BY <1>1, <2>4, <2>5 DEF Others
  <2> QED BY <1>1, <1>4, <2>4, <2>5, <2>6, <2>7, <2>8, QuietStep DEF Holding
<1> QED BY <1>3, <1>4 DEF Unregister

LEMMA StepLoad ==
  ASSUME IInv, NEW t \in Threads, Load(t) \/ Loaded(t)
  PROVE  IInv'
<1>1. PICK p \in {"run", "release"}, v \in {"initializing", "loaded"} :
         /\ Goto(t, p) /\ modules' = [modules EXCEPT ![Import(t).name] = v]
  BY DEF Load, Loaded
<1>2. /\ pc[t] \in {"load", "run"} /\ (pc[t] = "run" => Import(t).mode # "main")
      /\ stack' = stack /\ program' = program /\ blocking_on' = blocking_on
      /\ module_locks' = module_locks /\ lock' = lock /\ cursor' = cursor
  BY DEF Load, Loaded
<1>3. Top(t) > 1 /\ Top(t) # 1 /\ Import(t).mode = "load"
  <2>1. Top(t) > 1
    BY <1>2, TopLock DEF IInv
  <2>2. Top(t) # 1 /\ Import(t) = Fr(t, Top(t))
    BY <2>1, TopFrame DEF IInv
  <2> QED BY <1>2, <2>1, <2>2 DEF IInv, Shape
<1>4. pc' \in [Threads -> Places] /\ pc'[t] = p /\ \A u \in Threads \ {t} : pc'[u] = pc[u]
  BY <1>1, PcChanged DEF IInv, Places
<1>5. modules' \in [Modules -> {"absent", "initializing", "loaded"}]
  BY <1>1 DEF IInv, Typed
<1>6. Typed'
  BY <1>2, <1>4, <1>5 DEF IInv, Typed
<1>7. Others(t) /\ Stays(t)
  BY <1>2, <1>4, SameStack DEF Others
<1> QED BY <1>2, <1>3, <1>4, <1>6, <1>7, QuietStep DEF Holding

LEMMA StepFails ==
  ASSUME IInv, NEW t \in Threads, Fails(t)
  PROVE  IInv'
<1>1. /\ pc[t] \in {"load", "run", "raise"} /\ Import(t).mode = "load" /\ Goto(t, "release")
      /\ program' = program /\ blocking_on' = blocking_on
      /\ module_locks' = module_locks /\ lock' = lock /\ cursor' = cursor
  BY DEF Fails
<1>2. modules' \in [Modules -> {"absent", "initializing", "loaded"}]
  BY DEF Fails, IInv, Typed
<1>3. PICK x : x = [Import(t) EXCEPT !.failed = TRUE]
  OBVIOUS
<1>4. x \in Frames /\ SameImport(x, Import(t))
  <2>1. Import(t) \in Frames
    BY TopFrame DEF IInv
  <2> QED BY <1>3, <2>1 DEF Frames, SameImport
<1>5. stack' = [stack EXCEPT ![t] = Push(x, Tail(stack[t]))]
  BY <1>3 DEF Push, Fails
<1>6. /\ stack' \in [Threads -> Seq(Frames)] /\ Stays(t)
      /\ \A u \in Threads \ {t} : stack'[u] = stack[u]
  BY <1>4, <1>5, ReplacedStays DEF IInv
<1>7. pc' \in [Threads -> Places] /\ pc'[t] = "release" /\ \A u \in Threads \ {t} : pc'[u] = pc[u]
  BY <1>1, PcChanged DEF IInv, Places
<1>8. Top(t) # 1
  BY <1>1, TopLock DEF IInv
<1>9. Typed'
  BY <1>1, <1>2, <1>6, <1>7 DEF IInv, Typed
<1>10. Others(t)
  BY <1>1, <1>6, <1>7 DEF Others
<1> QED BY <1>1, <1>6, <1>7, <1>8, <1>9, <1>10, QuietStep DEF Holding

-----------------------------------------------------------------------------
(* A lock is taken, or given up *)

LEMMA StepAcquire ==
  ASSUME IInv, NEW t \in Threads, Acquire(t)
  PROVE  IInv'
<1>1. /\ pc[t] = "acquire" /\ stack' = stack /\ program' = program /\ modules' = modules
      /\ module_locks' = module_locks /\ blocking_on' = blocking_on
  BY DEF Acquire
<1>2. IsLock(Self(t)) /\ Import(t).lock \in Locks
  BY <1>1, SelfIsLock DEF Holding
<1>3. /\ Top(t) > 1 /\ Top(t) \in Nat /\ Top(t) # 1 /\ Import(t) = Fr(t, Top(t))
      /\ Typed /\ Shape(t)
  BY <1>1, TopLock, TopFrame DEF IInv
<1>4. CASE /\ Grants(Self(t), t) /\ cursor' = cursor /\ Goto(t, "acquired")
           /\ lock' = [lock EXCEPT ![Import(t).lock].owner = t, ![Import(t).lock].count = @ + 1]
  <2>1. PICK l \in Locks : l = Import(t).lock
    BY <1>2
  <2>2. PICK x : x = [Self(t) EXCEPT !.owner = t, !.count = @ + 1]
    OBVIOUS
  <2>3. IsLock(x) /\ x.owner = t /\ x.count = Self(t).count + 1
    <3>1. PICK c \in Nat : c = Self(t).count + 1
      BY <1>2 DEF IsLock
    <3>2. x = [Self(t) EXCEPT !.owner = t, !.count = c]
      BY <1>2, <2>2, <3>1 DEF IsLock
    <3> QED BY <1>2, <3>1, <3>2 DEF IsLock
  <2>4. lock' = [lock EXCEPT ![l] = x]
    <3>1. lock \in [Locks -> [owner : Threads \cup {NoOne}, count : Nat, waiters : Nat,
                              mutex : BOOLEAN, wakeup : BOOLEAN]]
      BY DEF IInv, Typed
    <3> QED BY <1>4, <2>1, <2>2, <3>1 DEF Self
  <2>5. /\ \A k \in Locks : lock'[k] = IF k = l THEN x ELSE lock[k]
        /\ lock' \in [Locks -> [owner : Threads \cup {NoOne}, count : Nat, waiters : Nat,
                                mutex : BOOLEAN, wakeup : BOOLEAN]]
    BY <2>3, <2>4, LockChanged DEF IInv
  <2>6. /\ pc' \in [Threads -> Places] /\ pc'[t] = "acquired"
        /\ \A u \in Threads \ {t} : pc'[u] = pc[u]
    BY <1>4, PcChanged DEF IInv, Places
  <2>7. Typed'
    BY <1>1, <1>4, <2>5, <2>6 DEF IInv, Typed
  <2>8. Others(t) /\ Stays(t)
    BY <1>1, <1>4, <2>6, SameStack DEF Others
  <2>9. \A u \in Threads : Shape(u)'
    BY <1>1, <1>3, <2>6, <2>8, StaysShape DEF IInv
  <2>10. \A k \in Locks \ {l} : Owned(k)'
    <3>1. ASSUME NEW k \in Locks \ {l} PROVE Owned(k)'
      <4>1. Holders(k)' = Holders(k)
        BY <1>3, <2>1, <2>8, StaysHolds
      <4> QED BY <2>5, <4>1, OwnedStays DEF IInv
    <3> QED BY <3>1
  <2>11. Holders(l)' = Holders(l) \cup {<<t, Top(t)>>} /\ <<t, Top(t)>> \notin Holders(l)
    <3>1. PICK n \in Nat : n = Top(t)
      BY <1>3
    <3>2. /\ n > 1 /\ Top(t)' = n /\ Fr(t, n).lock = l
          /\ \A d \in 1 .. n : Fr(t, d)'.lock = Fr(t, d).lock
      BY <1>3, <2>1, <2>8, <3>1 DEF Stays, Outer, SameImport
    <3>3. ASSUME NEW d \in Nat PROVE Holds(t, d, l)' <=> Holds(t, d, l) \/ d = n
      BY <2>6, <3>1, <3>2 DEF Holds, Holding
    <3>4. ASSUME NEW h \in Threads \X Nat
          PROVE  Holds(h[1], h[2], l)' <=> Holds(h[1], h[2], l) \/ h = <<t, n>>
      <4>1. CASE h[1] = t
        BY <3>3, <4>1
      <4>2. CASE h[1] # t
        BY <2>8, <4>2, OtherHolds
      <4> QED BY <4>1, <4>2
    <3>5. ~Holds(t, n, l)
      BY <1>1, <3>1 DEF Holds, Holding
    <3>6. <<t, n>> \in Threads \X Nat
      OBVIOUS
    <3>7. Holders(l)' = Holders(l) \cup {<<t, n>>}
      BY <3>4, <3>6 DEF Holders
    <3>8. <<t, n>> \notin Holders(l)
      BY <3>5 DEF Holders
    <3> QED BY <3>1, <3>7, <3>8
  <2>12. Owned(l)'
    <3>1. Owned(l)
      BY DEF IInv
    <3>2. /\ IsFiniteSet(Holders(l)) /\ Self(t).count = Cardinality(Holders(l))
          /\ \A h \in Holders(l) : h[1] = Self(t).owner
      BY <2>1, <3>1 DEF Owned, Self
    <3>3. IsFiniteSet(Holders(l)') /\ Cardinality(Holders(l)') = Cardinality(Holders(l)) + 1
      BY <2>11, <3>2, FS_AddElement
    <3>4. \A h \in Holders(l) : h[1] = t
      <4>1. CASE Self(t).count = 0
        BY <3>2, <4>1, FS_EmptySet
      <4>2. CASE Self(t).owner = t
        BY <3>2, <4>2
      <4> QED BY <1>4, <4>1, <4>2 DEF Grants
    <3>5. \A h \in Holders(l)' : h[1] = t
      BY <2>11, <3>4
    <3>6. lock'[l].owner = t /\ lock'[l].count = Cardinality(Holders(l)')
      BY <2>3, <2>5, <3>2, <3>3
    <3>7. lock'[l].count # 0
      BY <1>2, <2>3, <2>5 DEF IsLock
    <3> QED BY <3>3, <3>5, <3>6, <3>7 DEF Owned
  <2> QED BY <2>7, <2>9, <2>10, <2>12 DEF IInv
<1>5. CASE /\ lock' = [lock EXCEPT ![Import(t).lock].mutex = TRUE]
           /\ cursor' = [cursor EXCEPT ![t].tid = Self(t).owner]
           /\ Goto(t, "chase")
  <2>1. PICK x : x = [Self(t) EXCEPT !.mutex = TRUE]
    OBVIOUS
  <2>2. IsLock(x) /\ x.owner = Self(t).owner /\ x.count = Self(t).count
    BY <1>2, <2>1 DEF IsLock
  <2>3. lock' = [lock EXCEPT ![Import(t).lock] = x]
    BY <1>5, <2>1 DEF Self
  <2>4. /\ cursor' \in [Threads -> [tid : Threads \cup {NoOne}, lock : Locks \cup {NoLock}]]
        /\ \A u \in Threads \ {t} : cursor'[u] = cursor[u]
    <3>1. cursor' = [cursor EXCEPT ![t].tid = Self(t).owner]
      BY <1>5
    <3>2. PICK o \in Threads \cup {NoOne} : o = Self(t).owner
      BY <1>2 DEF IsLock
    <3>3. cursor \in [Threads -> [tid : Threads \cup {NoOne}, lock : Locks \cup {NoLock}]]
      BY DEF IInv, Typed
    <3>4. cursor' = [cursor EXCEPT ![t].tid = o]
      BY <3>1, <3>2
    <3> QED BY <3>3, <3>4
  <2> QED BY <1>1, <1>5, <2>2, <2>3, <2>4, LockStep DEF Holding
<1> QED BY <1>4, <1>5 DEF Acquire

LEMMA StepRelease ==
  ASSUME IInv, NEW t \in Threads, Release(t)
  PROVE  IInv'
<1>1. /\ pc[t] = "release" /\ Goto(t, "drop") /\ stack' = stack /\ program' = program
      /\ modules' = modules /\ module_locks' = module_locks
      /\ blocking_on' = blocking_on /\ cursor' = cursor
  BY DEF Release
<1>2. /\ Top(t) > 1 /\ Top(t) \in Nat /\ Top(t) # 1 /\ Import(t) = Fr(t, Top(t))
      /\ Typed /\ Shape(t) /\ Import(t).lock \in Locks
  BY <1>1, TopLock, TopFrame DEF IInv
<1>3. PICK l \in Locks : l = Import(t).lock
  BY <1>2
<1>4. PICK n \in Nat : n = Top(t)
  BY <1>2
<1>5. n > 1 /\ Fr(t, n).lock = l /\ Self(t) = lock[l] /\ IsLock(lock[l])
  BY <1>2, <1>3, <1>4 DEF Self, IInv, Typed, IsLock
<1>6. /\ IsFiniteSet(Holders(l)) /\ lock[l].count = Cardinality(Holders(l))
      /\ \A h \in Holders(l) : h[1] = lock[l].owner
  BY DEF IInv, Owned
<1>7. <<t, n>> \in Holders(l)
  <2>1. Holds(t, n, l)
    BY <1>1, <1>4, <1>5 DEF Holds, Holding
  <2>2. <<t, n>> \in Threads \X Nat
    OBVIOUS
  <2> QED BY <2>1, <2>2 DEF Holders
<1>8. Holders(l) # {} /\ lock[l].count # 0
  BY <1>6, <1>7, FS_EmptySet
<1>9. PICK c \in Nat, w \in Nat :
         /\ c = lock[l].count - 1
         /\ w = IF Wakes(lock[l]) THEN lock[l].waiters - 1 ELSE lock[l].waiters
  <2>1. lock[l].count \in Nat \ {0} /\ lock[l].waiters \in Nat
    BY <1>5, <1>8 DEF IsLock
  <2>2. lock[l].count - 1 \in Nat
    BY <2>1
  <2>3. (IF Wakes(lock[l]) THEN lock[l].waiters - 1 ELSE lock[l].waiters) \in Nat
    BY <2>1 DEF Wakes
  <2> QED BY <2>2, <2>3
<1>10. PICK o \in Threads \cup {NoOne}, b \in BOOLEAN :
          /\ o = IF lock[l].count = 1 THEN NoOne ELSE lock[l].owner
          /\ b = IF Wakes(lock[l]) THEN FALSE ELSE lock[l].wakeup
  BY <1>5 DEF IsLock
<1>11. PICK x : x = [lock[l] EXCEPT !.count = c, !.owner = o, !.waiters = w, !.wakeup = b]
  OBVIOUS
<1>12. IsLock(x) /\ x.owner = o /\ x.count = c
  BY <1>5, <1>11 DEF IsLock
<1>13. lock' = [lock EXCEPT ![l] = x]
  <2>1. [Self(t) EXCEPT !.count = @ - 1,
                        !.owner = IF Self(t).count = 1 THEN NoOne ELSE @,
                        !.waiters = IF Wakes(Self(t)) THEN @ - 1 ELSE @,
                        !.wakeup = IF Wakes(Self(t)) THEN FALSE ELSE @] = x
    BY <1>5, <1>9, <1>10, <1>11 DEF IsLock
  <2> QED BY <1>3, <2>1 DEF Release
<1>14. /\ \A k \in Locks : lock'[k] = IF k = l THEN x ELSE lock[k]
       /\ lock' \in [Locks -> [owner : Threads \cup {NoOne}, count : Nat, waiters : Nat,
                               mutex : BOOLEAN, wakeup : BOOLEAN]]
  BY <1>2, <1>12, <1>13, LockChanged
<1>15. /\ pc' \in [Threads -> Places] /\ pc'[t] = "drop"
       /\ \A u \in Threads \ {t} : pc'[u] = pc[u]
  BY <1>1, PcChanged DEF IInv, Places
<1>16. Typed'
  BY <1>1, <1>14, <1>15 DEF IInv, Typed
<1>17. Others(t) /\ Stays(t)
  BY <1>1, <1>15, SameStack DEF Others
<1>18. \A u \in Threads : Shape(u)'
  BY <1>1, <1>2, <1>15, <1>17, StaysShape DEF IInv
<1>19. ASSUME NEW k \in Locks \ {l} PROVE Owned(k)'
  <2>1. Holders(k)' = Holders(k)
    BY <1>2, <1>3, <1>17, StaysHolds
  <2> QED BY <1>14, <2>1, OwnedStays DEF IInv
<1>20. Holders(l)' = Holders(l) \ {<<t, n>>}
  <2>1. Top(t)' = n /\ \A d \in 1 .. n : Fr(t, d)'.lock = Fr(t, d).lock
    BY <1>4, <1>17 DEF Stays, Outer, SameImport
  <2>2. ASSUME NEW d \in Nat PROVE Holds(t, d, l)' <=> Holds(t, d, l) /\ d # n
    BY <1>1, <1>4, <1>15, <2>1 DEF Holds, Holding
  <2>3. ASSUME NEW h \in Threads \X Nat
        PROVE  Holds(h[1], h[2], l)' <=> Holds(h[1], h[2], l) /\ h # <<t, n>>
    <3>1. CASE h[1] = t
      BY <2>2, <3>1
    <3>2. CASE h[1] # t
      BY <1>17, <3>2, OtherHolds
    <3> QED BY <3>1, <3>2
  <2> QED BY <2>3 DEF Holders
<1>21. Owned(l)'
  <2>1. IsFiniteSet(Holders(l)') /\ Cardinality(Holders(l)') = Cardinality(Holders(l)) - 1
    <3>1. PICK S, e : S = Holders(l) /\ e = <<t, n>>
      OBVIOUS
    <3>2. /\ IsFiniteSet(S \ {e})
          /\ Cardinality(S \ {e}) = IF e \in S THEN Cardinality(S) - 1 ELSE Cardinality(S)
      BY <1>6, <3>1, FS_RemoveElement, Zenon
    <3> QED BY <1>7, <1>20, <3>1, <3>2
  <2>2. lock'[l].owner = o /\ lock'[l].count = c /\ c = Cardinality(Holders(l)')
    BY <1>6, <1>9, <1>12, <1>14, <2>1
  <2>3. \A h \in Holders(l)' : h[1] = o
    <3>1. CASE lock[l].count = 1
      <4>1. Cardinality(Holders(l)') = 0
        BY <1>6, <2>1, <3>1
      <4> QED BY <2>1, <4>1, FS_EmptySet
    <3>2. CASE lock[l].count # 1
      BY <1>6, <1>10, <1>20, <3>2
    <3> QED BY <3>1, <3>2
  <2>4. o # NoOne => c # 0
    BY <1>5, <1>9, <1>10 DEF IsLock
  <2> QED BY <2>1, <2>2, <2>3, <2>4 DEF Owned
<1> QED BY <1>16, <1>18, <1>19, <1>21 DEF IInv

-----------------------------------------------------------------------------
(* The end of an import *)

\* After the innermost import, which holds no lock, the outer ones are as before.
LEMMA PopsInv ==
  ASSUME IInv, NEW t \in Threads, Typed', Others(t), Pops(t), Top(t) > 1,
         pc[t] \notin Holding, pc'[t] \in {"run", "raise"},
         pc'[t] = "raise" => Top(t) > 2, lock' = lock
  PROVE  IInv'
<1>1. PICK n \in Nat : n = Top(t)
  BY TopFrame DEF IInv
<1>2. /\ n > 1 /\ Top(t)' = n - 1
      /\ \A d \in 1 .. n - 1 : SameImport(Fr(t, d)', Fr(t, d))
  BY <1>1 DEF Pops, Outer
<1>3. \A u \in Threads \ {t} : Shape(u)'
  BY OtherShapes DEF IInv
<1>4. Shape(t)'
  <2>1. /\ Fr(t, 1).mode = "main" /\ Fr(t, 1).lock = NoLock
        /\ \A d \in 2 .. n - 1 :
              /\ Fr(t, d).name \in Modules /\ Fr(t, d).lock \in Locks
              /\ Fr(t, d).mode = "load"
    BY <1>1, <1>2 DEF IInv, Shape
  <2>2. /\ Fr(t, 1)'.mode = "main" /\ Fr(t, 1)'.lock = NoLock
        /\ \A d \in 2 .. n - 1 :
              /\ Fr(t, d)'.name \in Modules /\ Fr(t, d)'.lock \in Locks
              /\ Fr(t, d)'.mode = "load"
    BY <1>2, <2>1 DEF SameImport
  <2>3. Top(t)' = 1 => pc'[t] = "run"
    BY <1>1, <1>2
  <2>4. Top(t)' > 1 => Fr(t, Top(t))'.mode = "load"
    BY <1>2, <2>2
  <2> QED BY <1>2, <2>2, <2>3, <2>4 DEF Shape
<1>5. ASSUME NEW l \in Locks PROVE Owned(l)'
  <2>1. ASSUME NEW d \in Nat PROVE Holds(t, d, l)' <=> Holds(t, d, l)
    <3>1. pc'[t] \in Holding
      BY DEF Holding
    <3>2. \A e \in 2 .. n - 1 : Fr(t, e)'.lock = Fr(t, e).lock
      BY <1>2 DEF SameImport
    <3> QED BY <1>1, <1>2, <3>1, <3>2 DEF Holds
  <2>2. \A h \in Threads \X Nat : Holds(h[1], h[2], l)' <=> Holds(h[1], h[2], l)
    <3>1. ASSUME NEW h \in Threads \X Nat PROVE Holds(h[1], h[2], l)' <=> Holds(h[1], h[2], l)
      <4>1. CASE h[1] = t
        BY <2>1, <4>1
      <4>2. CASE h[1] # t
        BY <4>2, OtherHolds
      <4> QED BY <4>1, <4>2
    <3> QED BY <3>1
  <2>3. Holders(l)' = Holders(l)
    BY <2>2 DEF Holders
  <2> QED BY <2>3, OwnedStays DEF IInv
<1> QED BY <1>3, <1>4, <1>5 DEF IInv

\* What Return does.
LEMMA Returned ==
  ASSUME IInv, NEW t \in Threads, Top(t) > 1, NEW b,
         stack' = [stack EXCEPT ![t] = Tail(stack[t])],
         Goto(t, IF b /\ Head(Tail(stack[t])).mode # "main" THEN "raise" ELSE "run")
  PROVE  /\ stack' \in [Threads -> Seq(Frames)] /\ Pops(t)
         /\ \A u \in Threads \ {t} : stack'[u] = stack[u] /\ pc'[u] = pc[u]
         /\ pc' \in [Threads -> Places] /\ pc'[t] \in {"run", "raise"}
         /\ pc'[t] = "raise" => Top(t) > 2
<1>1. /\ stack' \in [Threads -> Seq(Frames)] /\ Pops(t)
      /\ \A u \in Threads \ {t} : stack'[u] = stack[u]
  BY TopPopped DEF IInv
<1>2. PICK p \in {"run", "raise"} :
         p = IF b /\ Head(Tail(stack[t])).mode # "main" THEN "raise" ELSE "run"
  OBVIOUS
<1>3. pc' \in [Threads -> Places] /\ pc'[t] = p /\ \A u \in Threads \ {t} : pc'[u] = pc[u]
  BY <1>2, PcChanged DEF IInv, Places
<1>4. Top(t) = 2 => Head(Tail(stack[t])).mode = "main"
  <2>1. SUFFICES ASSUME Top(t) = 2 PROVE Head(Tail(stack[t])).mode = "main"
    OBVIOUS
  <2>2. stack[t] \in Seq(Frames) /\ Len(stack[t]) = 2
    BY <2>1, TopFrame DEF IInv, Top
  <2>3. Head(Tail(stack[t])) = stack[t][2]
    BY <2>2
  <2>4. Fr(t, 1) = stack[t][2]
    BY <2>2 DEF Fr, At
  <2>5. Fr(t, 1).mode = "main"
    BY DEF IInv, Shape
  <2> QED BY <2>3, <2>4, <2>5
<1>5. p = "raise" => Top(t) > 2
  <2>1. Top(t) \in Nat
    BY TopFrame DEF IInv
  <2>2. p = "raise" => Head(Tail(stack[t])).mode # "main"
    BY <1>2
  <2>3. p = "raise" => Top(t) # 2
    BY <1>4, <2>2
  <2> QED BY <2>1, <2>3
<1> QED BY <1>1, <1>2, <1>3, <1>5

LEMMA StepCallback ==
  ASSUME IInv, NEW t \in Threads, Callback(t)
  PROVE  IInv'
<1>1. /\ pc[t] = "callback" /\ program' = program /\ modules' = modules
      /\ blocking_on' = blocking_on /\ lock' = lock /\ cursor' = cursor
      /\ module_locks' = [module_locks EXCEPT ![Import(t).name] = NoLock]
  BY DEF Callback
<1>2. Top(t) > 1
  BY <1>1, TopLock DEF IInv
<1>3. /\ stack' = [stack EXCEPT ![t] = Tail(stack[t])]
      /\ Goto(t, IF Import(t).failed /\ Head(Tail(stack[t])).mode # "main" THEN "raise" ELSE "run")
  BY DEF Callback, Return, Import
<1>4. /\ stack' \in [Threads -> Seq(Frames)] /\ Pops(t)
      /\ \A u \in Threads \ {t} : stack'[u] = stack[u] /\ pc'[u] = pc[u]
      /\ pc' \in [Threads -> Places] /\ pc'[t] \in {"run", "raise"}
      /\ pc'[t] = "raise" => Top(t) > 2
  BY <1>2, <1>3, Returned
<1>5. module_locks' \in [Modules -> Locks \cup {NoLock}]
  BY <1>1 DEF IInv, Typed
<1>6. Typed'
  BY <1>1, <1>4, <1>5 DEF IInv, Typed
<1>7. Others(t)
  BY <1>1, <1>4 DEF Others
<1> QED BY <1>1, <1>2, <1>4, <1>6, <1>7, PopsInv DEF Holding

\* The two ways to drop the reference.
LEMMA DropCases ==
  ASSUME IInv, NEW t \in Threads, Drop(t)
  PROVE  /\ pc[t] = "drop" /\ program' = program /\ modules' = modules
         /\ module_locks' = module_locks
         /\ blocking_on' = blocking_on /\ lock' = lock /\ cursor' = cursor
         /\ \/ /\ \A u \in Threads \ {t} :
                     \A i \in DOMAIN stack[u] : stack[u][i].lock # Import(t).lock
               /\ \A i \in 2 .. Len(stack[t]) : stack[t][i].lock # Import(t).lock
               /\ stack' = [stack EXCEPT ![t] =
                              Push([Import(t) EXCEPT !.lock = NoLock], Tail(stack[t]))]
               /\ Goto(t, "callback")
            \/ /\ stack' = [stack EXCEPT ![t] = Tail(stack[t])]
               /\ Goto(t, IF Import(t).failed /\ Head(Tail(stack[t])).mode # "main"
                          THEN "raise" ELSE "run")
<1>1. PICK x : x = [Import(t) EXCEPT !.lock = NoLock]
  OBVIOUS
<1>2. PICK s : s = <<x>> \o Tail(stack[t])
  OBVIOUS
<1>3. stack[t] \in Seq(Frames) /\ stack[t] # <<>> /\ Import(t) \in Frames
  BY TopFrame DEF IInv
<1>4. x \in Frames /\ x.failed = Import(t).failed
  BY <1>1, <1>3 DEF Frames
<1>5. Head(s) = x /\ Tail(s) = Tail(stack[t])
  <2>1. PICK r \in Seq(Frames) : r = Tail(stack[t])
    BY <1>3, Popped
  <2> QED BY <1>2, <1>4, <2>1
<1>6. s = Push([Import(t) EXCEPT !.lock = NoLock], Tail(stack[t]))
  BY <1>1, <1>2 DEF Push
<1>7. pc[t] = "drop" /\ program' = program /\ modules' = modules
         /\ module_locks' = module_locks
         /\ blocking_on' = blocking_on /\ lock' = lock /\ cursor' = cursor
  BY DEF Drop
<1>8. \/ /\ \A u \in Threads \ {t} :
               \A i \in DOMAIN stack[u] : stack[u][i].lock # Import(t).lock
         /\ \A i \in 2 .. Len(stack[t]) : stack[t][i].lock # Import(t).lock
         /\ stack' = [stack EXCEPT ![t] = s] /\ Goto(t, "callback")
      \/ Return(t, s)
  BY <1>1, <1>2, Zenon DEF Drop
<1> QED BY <1>4, <1>5, <1>6, <1>7, <1>8 DEF Return

LEMMA StepDrop ==
  ASSUME IInv, NEW t \in Threads, Drop(t)
  PROVE  IInv'
<1>1. /\ pc[t] = "drop" /\ program' = program /\ modules' = modules
      /\ module_locks' = module_locks
      /\ blocking_on' = blocking_on /\ lock' = lock /\ cursor' = cursor
  BY DropCases
<1>2. PICK n \in Nat : n = Top(t)
  BY TopFrame DEF IInv
<1>3. n > 1 /\ Import(t) = Fr(t, n) /\ Typed /\ Shape(t)
  BY <1>1, <1>2, TopLock, TopFrame DEF IInv
<1>4. PICK x : x = [Import(t) EXCEPT !.lock = NoLock]
  OBVIOUS
<1>5. x \in Frames /\ x.name = Import(t).name /\ x.mode = Import(t).mode /\ x.lock = NoLock
  BY <1>4, TopFrame DEF IInv, Frames
<1>6. CASE stack' = [stack EXCEPT ![t] = Push(x, Tail(stack[t]))] /\ Goto(t, "callback")
  <2>1. /\ stack' \in [Threads -> Seq(Frames)] /\ Top(t)' = n
        /\ \A d \in 1 .. n : Fr(t, d)' = IF d = n THEN x ELSE Fr(t, d)
        /\ \A u \in Threads \ {t} : stack'[u] = stack[u]
    BY <1>2, <1>3, <1>5, <1>6, TopReplaced
  <2>2. /\ pc' \in [Threads -> Places] /\ pc'[t] = "callback"
        /\ \A u \in Threads \ {t} : pc'[u] = pc[u]
    BY <1>6, PcChanged DEF IInv, Places
  <2>3. Typed'
    BY <1>1, <2>1, <2>2 DEF IInv, Typed
  <2>4. Others(t)
    BY <1>1, <2>1, <2>2 DEF Others
  <2>5. Shape(t)'
    BY <1>2, <1>3, <1>5, <2>1, <2>2 DEF Shape
  <2>6. \A u \in Threads \ {t} : Shape(u)'
    BY <2>4, OtherShapes DEF IInv
  <2>7. ASSUME NEW l \in Locks PROVE Owned(l)'
    <3>1. ASSUME NEW d \in Nat PROVE Holds(t, d, l)' <=> Holds(t, d, l)
      BY <1>1, <1>2, <2>1, <2>2 DEF Holds, Holding
    <3>2. ASSUME NEW h \in Threads \X Nat PROVE Holds(h[1], h[2], l)' <=> Holds(h[1], h[2], l)
      <4>1. CASE h[1] = t
        BY <3>1, <4>1
      <4>2. CASE h[1] # t
        BY <2>4, <4>2, OtherHolds
      <4> QED BY <4>1, <4>2
    <3>3. Holders(l)' = Holders(l)
      BY <3>2 DEF Holders
    <3> QED BY <1>1, <3>3, OwnedStays DEF IInv
  <2> QED BY <2>3, <2>5, <2>6, <2>7 DEF IInv
<1>7. CASE /\ stack' = [stack EXCEPT ![t] = Tail(stack[t])]
           /\ Goto(t, IF Import(t).failed /\ Head(Tail(stack[t])).mode # "main"
                      THEN "raise" ELSE "run")
  <2>1. Top(t) > 1
    BY <1>2, <1>3
  <2>2. /\ stack' \in [Threads -> Seq(Frames)] /\ Pops(t)
        /\ \A u \in Threads \ {t} : stack'[u] = stack[u] /\ pc'[u] = pc[u]
        /\ pc' \in [Threads -> Places] /\ pc'[t] \in {"run", "raise"}
        /\ pc'[t] = "raise" => Top(t) > 2
    BY <1>7, <2>1, Returned
  <2>3. Typed'
    BY <1>1, <2>2 DEF IInv, Typed
  <2>4. Others(t)
    BY <1>1, <2>2 DEF Others
  <2> QED BY <1>1, <2>1, <2>2, <2>3, <2>4, PopsInv DEF Holding
<1> QED BY <1>4, <1>6, <1>7, DropCases

-----------------------------------------------------------------------------
(* The beginning of an import *)

\* A lock that no import refers to, by depth.
LEMMA Unreferenced ==
  ASSUME Typed, NEW l \in Locks, l \notin Referenced, NEW t \in Threads, NEW d \in 1 .. Top(t)
  PROVE  Fr(t, d).lock # l
<1>1. PICK n \in Nat : n = Len(stack[t])
  BY DEF Typed
<1>2. PICK i \in 1 .. n : i = n + 1 - d
  <2>1. d \in 1 .. n
    BY <1>1 DEF Top
  <2> QED BY <2>1
<1>3. DOMAIN stack[t] = 1 .. n
  BY <1>1 DEF Typed
<1>4. Fr(t, d) = stack[t][i]
  BY <1>1, <1>2 DEF Fr, At
<1>5. i \in DOMAIN stack[t]
  BY <1>2, <1>3
<1> QED BY <1>4, <1>5 DEF Referenced

\* The import statement of a loaded module, and of another one.
LEMMA LookCases ==
  ASSUME IInv, NEW t \in Threads, Look(t)
  PROVE  /\ pc[t] = "run" /\ program' = program /\ modules' = modules
         /\ blocking_on' = blocking_on /\ cursor' = cursor
         /\ \E y \in Frames, m \in Modules :
              /\ SameImport(y, Import(t))
              /\ \/ /\ modules[m] = "loaded"
                    /\ stack' = [stack EXCEPT ![t] = Push(y, Tail(stack[t]))]
                    /\ pc' = pc /\ lock' = lock /\ module_locks' = module_locks
                 \/ /\ modules[m] # "loaded" /\ Goto(t, "register")
                    /\ \E l \in Locks, mode \in {"load", "check"} :
                         /\ GetModuleLock(m, l)
                         /\ mode = "check" => modules[m] # "absent"
                         /\ stack' = [stack EXCEPT ![t] =
                                        Push(Frame(m, mode, l), Push(y, Tail(stack[t])))]
<1>1. Import(t) \in Frames
  BY TopFrame DEF IInv
<1>2. PICK m : m = Body(t)[Import(t).at]
  OBVIOUS
<1>3. m \in Modules
  <2>1. Body(t) \in Seq(Modules) /\ Import(t).at \in Nat \ {0} /\ Import(t).at <= Len(Body(t))
    BY <1>1 DEF IInv, Typed, Frames, Body, Look, HasNext
  <2> QED BY <1>2, <2>1
<1>4. PICK y : y = [Import(t) EXCEPT !.at = @ + 1]
  OBVIOUS
<1>5. y \in Frames /\ SameImport(y, Import(t))
  BY <1>1, <1>4 DEF Frames, SameImport
<1>6. PICK mode \in {"load", "check"} : mode = IF modules[m] = "absent" THEN "load" ELSE "check"
  OBVIOUS
<1>7. /\ pc[t] = "run" /\ program' = program /\ modules' = modules
      /\ blocking_on' = blocking_on /\ cursor' = cursor
  BY DEF Look
<1>8. \/ /\ modules[m] = "loaded"
         /\ stack' = [stack EXCEPT ![t] = <<y>> \o Tail(stack[t])]
         /\ pc' = pc /\ lock' = lock /\ module_locks' = module_locks
      \/ /\ modules[m] # "loaded" /\ Goto(t, "register")
         /\ \E l \in Locks :
              /\ GetModuleLock(m, l)
              /\ stack' = [stack EXCEPT ![t] = <<Frame(m, mode, l)>> \o (<<y>> \o Tail(stack[t]))]
  BY <1>2, <1>4, <1>6, Zenon DEF Look
<1>9. mode = "check" => modules[m] # "absent"
  BY <1>6
<1> QED BY <1>3, <1>5, <1>7, <1>8, <1>9 DEF Push

\* The lock of a new import is an old one, or one that nobody holds.
LEMMA GotLock ==
  ASSUME IInv, NEW m \in Modules, NEW l \in Locks, GetModuleLock(m, l)
  PROVE  /\ module_locks' \in [Modules -> Locks \cup {NoLock}] /\ module_locks'[m] = l
         /\ \A n \in Modules \ {m} : module_locks'[n] = module_locks[n]
         /\ \/ /\ l = module_locks[m] /\ lock' = lock
            \/ /\ module_locks[m] \notin Referenced
               /\ l \notin Referenced /\ lock' = [lock EXCEPT ![l] = NewLock]
<1>1. CASE l = module_locks[m] /\ module_locks' = module_locks /\ lock' = lock
  BY <1>1 DEF IInv, Typed
<1>2. CASE /\ module_locks[m] \notin Referenced /\ Unborn(m) # {}
           /\ l = CHOOSE x \in Unborn(m) : TRUE
           /\ module_locks' = [module_locks EXCEPT ![m] = l]
           /\ lock' = [lock EXCEPT ![l] = NewLock]
  <2>1. l \in Unborn(m)
    BY <1>2
  <2>2. l \notin Referenced
    BY <2>1 DEF Unborn
  <2> QED BY <1>2, <2>2 DEF IInv, Typed
<1> QED BY <1>1, <1>2 DEF GetModuleLock

LEMMA StepLook ==
  ASSUME IInv, NEW t \in Threads, Look(t)
  PROVE  IInv'
<1>1. /\ pc[t] = "run" /\ program' = program /\ modules' = modules
      /\ blocking_on' = blocking_on /\ cursor' = cursor
  BY LookCases
<1>2. PICK n \in Nat : n = Top(t)
  BY TopFrame DEF IInv
<1>3. n >= 1 /\ Import(t) = Fr(t, n) /\ Typed /\ Shape(t) /\ Import(t) \in Frames
  BY <1>2, TopFrame DEF IInv
<1>4. PICK y \in Frames, m \in Modules :
        /\ SameImport(y, Import(t))
        /\ \/ /\ modules[m] = "loaded"
              /\ stack' = [stack EXCEPT ![t] = Push(y, Tail(stack[t]))]
              /\ pc' = pc /\ lock' = lock /\ module_locks' = module_locks
           \/ /\ modules[m] # "loaded" /\ Goto(t, "register")
              /\ \E l \in Locks, mode \in {"load", "check"} :
                   /\ GetModuleLock(m, l)
                   /\ mode = "check" => modules[m] # "absent"
                   /\ stack' = [stack EXCEPT ![t] =
                                  Push(Frame(m, mode, l), Push(y, Tail(stack[t])))]
  BY LookCases
<1>5. CASE /\ stack' = [stack EXCEPT ![t] = Push(y, Tail(stack[t]))]
           /\ pc' = pc /\ lock' = lock /\ module_locks' = module_locks
  <2>1. /\ stack' \in [Threads -> Seq(Frames)] /\ Stays(t)
        /\ \A u \in Threads \ {t} : stack'[u] = stack[u]
    BY <1>3, <1>4, <1>5, ReplacedStays
  <2>2. Typed'
    BY <1>1, <1>5, <2>1 DEF IInv, Typed
  <2>3. Others(t)
    BY <1>1, <1>5, <2>1 DEF Others
  <2>4. Top(t) > 1 => Import(t).mode = "load"
    BY <1>1, <1>2, <1>3 DEF Shape
  <2> QED BY <1>1, <1>5, <2>1, <2>2, <2>3, <2>4, QuietStep
<1>6. ASSUME NEW l \in Locks, NEW mode \in {"load", "check"}, GetModuleLock(m, l),
             Goto(t, "register"),
             stack' = [stack EXCEPT ![t] = Push(Frame(m, mode, l), Push(y, Tail(stack[t])))]
      PROVE  IInv'
  <2>1. PICK x : x = Frame(m, mode, l)
    OBVIOUS
  <2>2. /\ x \in Frames /\ x.name = m /\ x.mode = mode /\ x.lock = l
    BY <2>1 DEF Frame, Frames
  <2>3. /\ stack' \in [Threads -> Seq(Frames)] /\ Pushes(t, x)
        /\ \A u \in Threads \ {t} : stack'[u] = stack[u]
    BY <1>3, <1>4, <1>6, <2>1, <2>2, TopPushed
  <2>4. /\ pc' \in [Threads -> Places] /\ pc'[t] = "register"
        /\ \A u \in Threads \ {t} : pc'[u] = pc[u]
    BY <1>6, PcChanged DEF IInv, Places
  <2>5. /\ module_locks' \in [Modules -> Locks \cup {NoLock}]
        /\ \/ lock' = lock
           \/ l \notin Referenced /\ lock' = [lock EXCEPT ![l] = NewLock]
    BY <1>6, GotLock
  <2>6. IsLock(NewLock) /\ NewLock.owner = NoOne /\ NewLock.count = 0
    BY DEF NewLock, IsLock
  <2>7. lock' \in [Locks -> [owner : Threads \cup {NoOne}, count : Nat, waiters : Nat,
                             mutex : BOOLEAN, wakeup : BOOLEAN]]
    BY <1>3, <2>5, <2>6, LockChanged DEF Typed
  <2>8. Typed'
    BY <1>1, <2>3, <2>4, <2>5, <2>7 DEF IInv, Typed
  <2>9. Others(t)
    BY <1>1, <2>3, <2>4 DEF Others
  <2>10. \A u \in Threads \ {t} : Shape(u)'
    BY <2>9, OtherShapes DEF IInv
  <2>11. /\ Top(t)' = n + 1 /\ \A d \in 1 .. n : SameImport(Fr(t, d)', Fr(t, d))
         /\ SameImport(Fr(t, n + 1)', x)
    BY <1>2, <2>3 DEF Pushes, Outer
  <2>12. Shape(t)'
    <3>1. /\ Fr(t, 1).mode = "main" /\ Fr(t, 1).lock = NoLock
          /\ \A d \in 2 .. n :
                Fr(t, d).mode = "load" /\ Fr(t, d).name \in Modules /\ Fr(t, d).lock \in Locks
      BY <1>1, <1>2, <1>3 DEF Shape
    <3>2. /\ Fr(t, 1)'.mode = "main" /\ Fr(t, 1)'.lock = NoLock
          /\ \A d \in 2 .. n :
                Fr(t, d)'.mode = "load" /\ Fr(t, d)'.name \in Modules /\ Fr(t, d)'.lock \in Locks
      BY <1>3, <2>11, <3>1 DEF SameImport
    <3>3. Fr(t, n + 1)'.mode = mode /\ Fr(t, n + 1)'.name = m /\ Fr(t, n + 1)'.lock = l
      BY <2>2, <2>11 DEF SameImport
    <3>4. \A d \in 2 .. n + 1 :
             /\ Fr(t, d)'.mode # "main" /\ Fr(t, d)'.name \in Modules
             /\ Fr(t, d)'.lock \in Locks
             /\ d < n + 1 => Fr(t, d)'.mode = "load"
      <4>1. ASSUME NEW d \in 2 .. n + 1
            PROVE  /\ Fr(t, d)'.mode # "main" /\ Fr(t, d)'.name \in Modules
                   /\ Fr(t, d)'.lock \in Locks
                   /\ d < n + 1 => Fr(t, d)'.mode = "load"
        <5>1. CASE d = n + 1
          BY <3>3, <5>1
        <5>2. CASE d \in 2 .. n
          BY <3>2, <5>2
        <5> QED BY <5>1, <5>2
      <4> QED BY <4>1
    <3>5. pc'[t] = "register" /\ n + 1 > 1
      BY <1>3, <2>4
    <3> QED BY <2>11, <3>2, <3>4, <3>5 DEF Shape
  <2>13. ASSUME NEW k \in Locks PROVE Holders(k)' = Holders(k)
    <3>1. ASSUME NEW d \in Nat PROVE Holds(t, d, k)' <=> Holds(t, d, k)
      <4>1. pc[t] \in Holding /\ pc'[t] \notin Holding
        BY <1>1, <2>4 DEF Holding
      <4>2. \A e \in 1 .. n : Fr(t, e)'.lock = Fr(t, e).lock
        BY <2>11 DEF SameImport
      <4> QED BY <1>2, <2>11, <4>1, <4>2 DEF Holds
    <3>2. ASSUME NEW h \in Threads \X Nat PROVE Holds(h[1], h[2], k)' <=> Holds(h[1], h[2], k)
      <4>1. CASE h[1] = t
        BY <3>1, <4>1
      <4>2. CASE h[1] # t
        BY <2>9, <4>2, OtherHolds
      <4> QED BY <4>1, <4>2
    <3> QED BY <3>2 DEF Holders
  <2>14. ASSUME NEW k \in Locks PROVE Owned(k)'
    <3>1. CASE lock'[k] = lock[k]
      BY <2>13, <3>1, OwnedStays DEF IInv
    <3>2. CASE l \notin Referenced /\ k = l /\ lock'[k] = NewLock
      <4>1. ASSUME NEW h \in Holders(k) PROVE FALSE
        <5>1. h[1] \in Threads /\ h[2] \in 1 .. Top(h[1]) /\ Fr(h[1], h[2]).lock = k
          <6>1. h[2] \in 2 .. Top(h[1]) /\ Top(h[1]) \in Nat
            BY TopFrame DEF Holders, Holds, IInv
          <6> QED BY <6>1 DEF Holders, Holds
        <5> QED BY <1>3, <3>2, <5>1, Unreferenced
      <4>2. Holders(k) = {}
        BY <4>1
      <4> QED BY <2>6, <2>13, <3>2, <4>2, FS_EmptySet DEF Owned
    <3>3. lock'[k] = lock[k] \/ (l \notin Referenced /\ k = l /\ lock'[k] = NewLock)
      BY <1>3, <2>5, <2>6, LockChanged
    <3> QED BY <3>1, <3>2, <3>3
  <2> QED BY <2>8, <2>10, <2>12, <2>14 DEF IInv
<1> QED BY <1>4, <1>5, <1>6

-----------------------------------------------------------------------------
(* A lock has one owner, in every behaviour *)

LEMMA StepUnchanged ==
  ASSUME IInv, UNCHANGED vars
  PROVE  IInv'
<1>1. /\ program' = program /\ modules' = modules /\ module_locks' = module_locks
      /\ blocking_on' = blocking_on /\ lock' = lock /\ stack' = stack /\ pc' = pc
      /\ cursor' = cursor
  BY DEF vars
<1>2. /\ \A t \in Threads : Top(t)' = Top(t) /\ \A d : Fr(t, d)' = Fr(t, d)
  BY <1>1 DEF Top, Fr
<1>3. Typed'
  BY <1>1 DEF IInv, Typed
<1>4. ASSUME NEW t \in Threads PROVE Shape(t)'
  BY <1>1, <1>2 DEF IInv, Shape
<1>5. ASSUME NEW l \in Locks PROVE Owned(l)'
  <2>1. \A h \in Threads \X Nat : Holds(h[1], h[2], l)' <=> Holds(h[1], h[2], l)
    BY <1>1, <1>2 DEF Holds
  <2>2. Holders(l)' = Holders(l)
    BY <2>1 DEF Holders
  <2> QED BY <1>1, <2>2, OwnedStays DEF IInv
<1> QED BY <1>3, <1>4, <1>5 DEF IInv

LEMMA Initially ==
  ASSUME Init
  PROVE  IInv
<1>1. ASSUME NEW t \in Threads
      PROVE  /\ stack[t] \in Seq(Frames) /\ Top(t) = 1
             /\ Fr(t, 1).mode = "main" /\ Fr(t, 1).lock = NoLock /\ pc[t] = "run"
  <2>1. PICK x : x = Frame(t, "main", NoLock)
    OBVIOUS
  <2>2. x \in Frames /\ x.mode = "main" /\ x.lock = NoLock
    BY <2>1 DEF Frame, Frames
  <2>3. stack[t] = <<x>> /\ pc[t] = "run"
    BY <2>1 DEF Init
  <2>4. stack[t] \in Seq(Frames) /\ Len(stack[t]) = 1 /\ stack[t][1] = x
    BY <2>2, <2>3
  <2>5. Fr(t, 1) = x
    BY <2>4 DEF Fr, At
  <2> QED BY <2>2, <2>3, <2>4, <2>5 DEF Top
<1>2. Typed
  <2>1. program \in [Modules \cup Threads -> Seq(Modules)]
    BY ImportAssumption DEF Init
  <2>2. lock \in [Locks -> [owner : Threads \cup {NoOne}, count : Nat, waiters : Nat,
                            mutex : BOOLEAN, wakeup : BOOLEAN]]
    BY DEF Init, NewLock
  <2>3. cursor \in [Threads -> [tid : Threads \cup {NoOne}, lock : Locks \cup {NoLock}]]
    BY DEF Init, NoCursor
  <2>4. stack \in [Threads -> Seq(Frames)]
    BY <1>1 DEF Init
  <2>5. /\ modules \in [Modules -> {"absent", "initializing", "loaded"}]
        /\ module_locks \in [Modules -> Locks \cup {NoLock}]
        /\ blocking_on \in [Threads -> Locks \cup {NoLock}]
        /\ pc \in [Threads -> Places]
    BY DEF Init, Places
  <2> QED BY <2>1, <2>2, <2>3, <2>4, <2>5 DEF Typed
<1>3. \A t \in Threads : Shape(t)
  BY <1>1 DEF Shape
<1>4. ASSUME NEW l \in Locks PROVE Owned(l)
  <2>1. Holders(l) = {}
    BY <1>1 DEF Holders, Holds
  <2>2. lock[l].owner = NoOne /\ lock[l].count = 0
    BY DEF Init, NewLock
  <2> QED BY <2>1, <2>2, FS_EmptySet DEF Owned
<1> QED BY <1>2, <1>3, <1>4 DEF IInv

LEMMA Preserved ==
  ASSUME IInv, [Next]_vars
  PROVE  IInv'
<1>1. ASSUME NEW t \in Threads, Step(t) PROVE IInv'
  BY <1>1, StepLook, StepRegister, StepAcquire, StepChase, StepHop, StepQueue, StepWait,
     StepPassOn, StepUnregister, StepLoad, StepFails, StepRelease, StepDrop, StepCallback
     DEF Step
<1> QED BY <1>1, StepUnchanged DEF Next

THEOREM Invariance == Spec => []IInv
<1>1. Init => IInv
  BY Initially
<1>2. IInv /\ [Next]_vars => IInv'
  BY Preserved
<1> QED BY <1>1, <1>2, PTL DEF Spec

\* The imports past acquire and not yet past release for one _ModuleLock are of
\* one thread.
OneHolder ==
  \A l \in Locks : \A g, h \in Holders(l) : g[1] = h[1]

\* The second half of PartialOnlyToLoaders.
DeadlockOnlyToLoaders ==
  \A t \in Threads : pc[t] = "deadlock" => \E m \in Modules : Loads(t, m)

\* What is being loaded, by depth.
LEMMA LoadsByDepth ==
  ASSUME IInv, NEW t \in Threads, NEW m \in Modules
  PROVE  Loads(t, m) <=>
           \E d \in 2 .. Top(t) :
              /\ Fr(t, d).name = m /\ Fr(t, d).mode = "load"
              /\ d < Top(t) \/ pc[t] \in {"run", "raise"}
<1>1. PICK n \in Nat : n = Len(stack[t])
  BY DEF IInv, Typed
<1>2. n >= 1 /\ Top(t) = n /\ DOMAIN stack[t] = 1 .. n /\ Fr(t, 1).mode = "main"
  BY <1>1 DEF IInv, Typed, Shape, Top
<1>3. \A d : Fr(t, d) = stack[t][n + 1 - d]
  BY <1>1 DEF Fr, At
<1>4. ASSUME Loads(t, m)
      PROVE  \E d \in 2 .. n : /\ Fr(t, d).name = m /\ Fr(t, d).mode = "load"
                               /\ d < n \/ pc[t] \in {"run", "raise"}
  <2>1. PICK i \in 1 .. n : /\ stack[t][i].name = m /\ stack[t][i].mode = "load"
                            /\ i > 1 \/ pc[t] \in {"run", "raise"}
    BY <1>2, <1>4 DEF Loads
  <2>2. PICK d \in 1 .. n : d = n + 1 - i
    OBVIOUS
  <2>3. n + 1 - d = i /\ (i > 1 => d < n)
    BY <2>2
  <2>4. Fr(t, d) = stack[t][i]
    BY <1>3, <2>3
  <2>5. d # 1
    BY <1>2, <2>1, <2>4
  <2> QED BY <2>1, <2>3, <2>4, <2>5
<1>5. ASSUME NEW d \in 2 .. n, Fr(t, d).name = m, Fr(t, d).mode = "load",
             d < n \/ pc[t] \in {"run", "raise"}
      PROVE  Loads(t, m)
  <2>1. PICK i \in 1 .. n : i = n + 1 - d
    OBVIOUS
  <2>2. d < n => i > 1
    BY <2>1
  <2>3. Fr(t, d) = stack[t][i]
    BY <1>3, <2>1
  <2> QED BY <1>2, <1>5, <2>2, <2>3 DEF Loads
<1> QED BY <1>2, <1>4, <1>5

\* A deadlock is met below an import of the program, in the body of a module.
LEMMA DeadlockLoads ==
  ASSUME IInv
  PROVE  DeadlockOnlyToLoaders
<1>1. ASSUME NEW t \in Threads, pc[t] = "deadlock" PROVE \E m \in Modules : Loads(t, m)
  <2>1. Top(t) > 2 /\ Top(t) \in Nat
    BY <1>1, TopFrame DEF IInv, Shape
  <2>2. Fr(t, 2).mode = "load" /\ Fr(t, 2).name \in Modules /\ 2 \in 2 .. Top(t) /\ 2 < Top(t)
    BY <2>1 DEF IInv, Shape
  <2> QED BY <2>2, LoadsByDepth
<1> QED BY <1>1 DEF DeadlockOnlyToLoaders

(***************************************************************************)
(* The imports that are past acquire and not yet past release for the same *)
(* _ModuleLock are of one thread, and _DeadlockError is raised only in a   *)
(* thread that is in the middle of loading some module: whatever modules   *)
(* import, and whatever fails.                                             *)
(***************************************************************************)
THEOREM LockHasOneHolder == Spec => [](OneHolder /\ DeadlockOnlyToLoaders)
<1>1. ASSUME IInv PROVE OneHolder
  BY <1>1 DEF IInv, Owned, OneHolder
<1> QED BY <1>1, DeadlockLoads, Invariance, PTL

-----------------------------------------------------------------------------
(* What each step does to the imports, once more *)

\* pc is not changed by a thread that looks at a loaded module.
Moves ==
  {<<"register", "acquire">>, <<"acquire", "acquired">>, <<"acquire", "chase">>,
   <<"chase", "queue">>, <<"chase", "hop">>, <<"hop", "chase">>, <<"hop", "deadlock">>,
   <<"queue", "wait">>, <<"wait", "woken">>, <<"woken", "acquire">>,
   <<"acquired", "load">>, <<"acquired", "release">>, <<"deadlock", "drop">>,
   <<"release", "drop">>}

LEMMA LockImports ==
  ASSUME IInv, NEW t \in Threads,
         \/ Register(t) \/ Acquire(t) \/ Chase(t) \/ Hop(t) \/ Queue(t) \/ Wait(t)
         \/ PassOn(t) \/ Unregister(t) \/ Release(t)
  PROVE  /\ Others(t) /\ Stays(t) /\ module_locks' = module_locks /\ modules' = modules
         /\ <<pc[t], pc'[t]>> \in Moves
         /\ pc[t] = "acquire" /\ pc'[t] = "chase" => Self(t).count # 0
         /\ pc[t] = "acquired" /\ pc'[t] = "release" => Import(t).mode # "load"
<1>1. Typed /\ cursor \in [Threads -> [tid : Threads \cup {NoOne}, lock : Locks \cup {NoLock}]]
  BY DEF IInv, Typed
<1>2. ASSUME NEW p \in Places, Goto(t, p)
      PROVE  pc'[t] = p /\ \A u \in Threads \ {t} : pc'[u] = pc[u]
  BY <1>1, <1>2, PcChanged
<1>3. CASE Register(t)
  <2>1. /\ pc[t] = "register" /\ Goto(t, "acquire") /\ stack' = stack /\ cursor' = cursor
        /\ module_locks' = module_locks /\ modules' = modules
    BY <1>3 DEF Register
  <2>2. pc'[t] = "acquire" /\ \A u \in Threads \ {t} : pc'[u] = pc[u]
    BY <1>2, <2>1 DEF Places
  <2> QED BY <2>1, <2>2, SameStack DEF Others, Moves
<1>4. CASE Acquire(t)
  <2>1. /\ pc[t] = "acquire" /\ stack' = stack
        /\ module_locks' = module_locks /\ modules' = modules
        /\ \/ Goto(t, "acquired") /\ cursor' = cursor
           \/ /\ Goto(t, "chase") /\ Self(t).count # 0
              /\ cursor' = [cursor EXCEPT ![t].tid = Self(t).owner]
    BY <1>4 DEF Acquire, Grants
  <2>2. \A u \in Threads \ {t} : cursor'[u] = cursor[u]
    BY <1>1, <2>1
  <2>3. PICK p \in {"acquired", "chase"} : Goto(t, p) /\ (p = "chase" => Self(t).count # 0)
    BY <2>1
  <2>4. pc'[t] = p /\ \A u \in Threads \ {t} : pc'[u] = pc[u]
    BY <1>2, <2>3 DEF Places
  <2> QED BY <2>1, <2>2, <2>3, <2>4, SameStack DEF Others, Moves
<1>5. CASE Chase(t)
  <2>1. /\ pc[t] = "chase" /\ stack' = stack
        /\ module_locks' = module_locks /\ modules' = modules
        /\ \/ Goto(t, "queue") /\ cursor' = [cursor EXCEPT ![t] = NoCursor]
           \/ \E l : Goto(t, "hop") /\ cursor' = [cursor EXCEPT ![t].lock = l]
    BY <1>5 DEF Chase
  <2>2. \A u \in Threads \ {t} : cursor'[u] = cursor[u]
    BY <1>1, <2>1
  <2>3. PICK p \in {"queue", "hop"} : Goto(t, p)
    BY <2>1
  <2>4. pc'[t] = p /\ \A u \in Threads \ {t} : pc'[u] = pc[u]
    BY <1>2, <2>3 DEF Places
  <2> QED BY <2>1, <2>2, <2>4, SameStack DEF Others, Moves
<1>6. CASE Hop(t)
  <2>1. /\ pc[t] = "hop" /\ stack' = stack
        /\ module_locks' = module_locks /\ modules' = modules
        /\ \E c : cursor' = [cursor EXCEPT ![t] = c]
    BY <1>6 DEF Hop
  <2>2. \A u \in Threads \ {t} : cursor'[u] = cursor[u]
    BY <1>1, <2>1
  <2>3. PICK p \in {"deadlock", "chase"} : Goto(t, p)
    BY <1>6 DEF Hop
  <2>4. pc'[t] = p /\ \A u \in Threads \ {t} : pc'[u] = pc[u]
    BY <1>2, <2>3 DEF Places
  <2> QED BY <2>1, <2>2, <2>4, SameStack DEF Others, Moves
<1>7. CASE Queue(t) \/ Wait(t) \/ PassOn(t) \/ Release(t)
  <2>1. /\ stack' = stack /\ cursor' = cursor
        /\ module_locks' = module_locks /\ modules' = modules
        /\ \E p \in {"wait", "woken", "acquire", "drop"} :
              Goto(t, p) /\ <<pc[t], p>> \in Moves /\ p # "chase" /\ p # "release"
    BY <1>7 DEF Queue, Wait, PassOn, Release, Moves
  <2>2. PICK p \in {"wait", "woken", "acquire", "drop"} :
           Goto(t, p) /\ <<pc[t], p>> \in Moves /\ p # "chase" /\ p # "release"
    BY <2>1
  <2>3. pc'[t] = p /\ \A u \in Threads \ {t} : pc'[u] = pc[u]
    BY <1>2, <2>2 DEF Places
  <2> QED BY <2>1, <2>2, <2>3, SameStack DEF Others
<1>8. CASE Unregister(t)
  <2>1. module_locks' = module_locks /\ modules' = modules /\ cursor' = cursor
    BY <1>8 DEF Unregister
  <2>2. CASE /\ pc[t] = "acquired" /\ stack' = stack
             /\ Goto(t, IF Import(t).mode = "load" THEN "load" ELSE "release")
    <3>1. PICK p \in {"load", "release"} :
             Goto(t, p) /\ (p = "release" => Import(t).mode # "load")
      BY <2>2
    <3>2. pc'[t] = p /\ \A u \in Threads \ {t} : pc'[u] = pc[u]
      BY <1>2, <3>1 DEF Places
    <3> QED BY <2>1, <2>2, <3>1, <3>2, SameStack DEF Others, Moves
  <2>3. CASE /\ pc[t] = "deadlock" /\ Goto(t, "drop")
             /\ stack' = [stack EXCEPT ![t] =
                            <<[Import(t) EXCEPT !.failed = Import(t).mode = "load"]>> \o Tail(@)]
    <3>1. PICK x : x = [Import(t) EXCEPT !.failed = Import(t).mode = "load"]
      OBVIOUS
    <3>2. x \in Frames /\ SameImport(x, Import(t))
      <4>1. Import(t) \in Frames
        BY TopFrame DEF IInv
      <4> QED BY <3>1, <4>1 DEF Frames, SameImport
    <3>3. stack' = [stack EXCEPT ![t] = Push(x, Tail(stack[t]))]
      BY <2>3, <3>1 DEF Push
    <3>4. Stays(t) /\ \A u \in Threads \ {t} : stack'[u] = stack[u]
      BY <3>2, <3>3, ReplacedStays DEF IInv
    <3>5. pc'[t] = "drop" /\ \A u \in Threads \ {t} : pc'[u] = pc[u]
      BY <1>2, <2>3 DEF Places
    <3> QED BY <2>1, <2>3, <3>4, <3>5 DEF Others, Moves
  <2> QED BY <1>8, <2>2, <2>3 DEF Unregister
<1> QED BY <1>3, <1>4, <1>5, <1>6, <1>7, <1>8

LEMMA LoadImports ==
  ASSUME IInv, NEW t \in Threads, Load(t) \/ Loaded(t)
  PROVE  /\ Others(t) /\ Stays(t) /\ module_locks' = module_locks
         /\ Import(t).mode = "load"
         /\ \/ /\ pc[t] = "load" /\ pc'[t] = "run"
               /\ modules' = [modules EXCEPT ![Import(t).name] = "initializing"]
            \/ /\ pc[t] = "run" /\ pc'[t] = "release"
               /\ modules' = [modules EXCEPT ![Import(t).name] = "loaded"]
<1>1. PICK p \in {"run", "release"} :
         /\ Goto(t, p)
         /\ \/ /\ pc[t] = "load" /\ p = "run"
               /\ modules' = [modules EXCEPT ![Import(t).name] = "initializing"]
            \/ /\ pc[t] = "run" /\ p = "release" /\ Import(t).mode = "load"
               /\ modules' = [modules EXCEPT ![Import(t).name] = "loaded"]
  BY DEF Load, Loaded
<1>2. stack' = stack /\ cursor' = cursor /\ module_locks' = module_locks
  BY DEF Load, Loaded
<1>3. pc'[t] = p /\ \A u \in Threads \ {t} : pc'[u] = pc[u]
  BY <1>1, PcChanged DEF IInv, Places
<1>4. Import(t).mode = "load"
  <2>1. Import(t) = Fr(t, Top(t)) /\ (pc[t] = "load" => Top(t) > 1)
    BY TopFrame, TopLock DEF IInv
  <2> QED BY <1>1, <2>1 DEF IInv, Shape
<1> QED BY <1>1, <1>2, <1>3, <1>4, SameStack DEF Others

LEMMA FailsImports ==
  ASSUME IInv, NEW t \in Threads, Fails(t)
  PROVE  /\ Others(t) /\ Stays(t) /\ module_locks' = module_locks
         /\ pc[t] \in {"load", "run", "raise"} /\ pc'[t] = "release"
         /\ modules' = IF pc[t] = "load" THEN modules
                       ELSE [modules EXCEPT ![Import(t).name] = "absent"]
<1>1. /\ pc[t] \in {"load", "run", "raise"} /\ Goto(t, "release")
      /\ cursor' = cursor /\ module_locks' = module_locks
      /\ modules' = IF pc[t] = "load" THEN modules
                    ELSE [modules EXCEPT ![Import(t).name] = "absent"]
  BY DEF Fails
<1>2. PICK x : x = [Import(t) EXCEPT !.failed = TRUE]
  OBVIOUS
<1>3. x \in Frames /\ SameImport(x, Import(t))
  <2>1. Import(t) \in Frames
    BY TopFrame DEF IInv
  <2> QED BY <1>2, <2>1 DEF Frames, SameImport
<1>4. stack' = [stack EXCEPT ![t] = Push(x, Tail(stack[t]))]
  BY <1>2 DEF Push, Fails
<1>5. Stays(t) /\ \A u \in Threads \ {t} : stack'[u] = stack[u]
  BY <1>3, <1>4, ReplacedStays DEF IInv
<1>6. pc'[t] = "release" /\ \A u \in Threads \ {t} : pc'[u] = pc[u]
  BY <1>1, PcChanged DEF IInv, Places
<1> QED BY <1>1, <1>5, <1>6 DEF Others

LEMMA LookImports ==
  ASSUME IInv, NEW t \in Threads, Look(t)
  PROVE  /\ Others(t) /\ modules' = modules /\ pc[t] = "run"
         /\ \/ Stays(t) /\ pc'[t] = "run" /\ module_locks' = module_locks
            \/ \E x \in Frames :
                 /\ Pushes(t, x) /\ pc'[t] = "register"
                 /\ x.name \in Modules /\ x.lock \in Locks
                 /\ modules[x.name] # "loaded"
                 /\ x.mode = "check" => modules[x.name] # "absent"
                 /\ GetModuleLock(x.name, x.lock)
<1>1. pc[t] = "run" /\ modules' = modules /\ cursor' = cursor
  BY LookCases
<1>2. PICK y \in Frames, m \in Modules :
        /\ SameImport(y, Import(t))
        /\ \/ /\ modules[m] = "loaded"
              /\ stack' = [stack EXCEPT ![t] = Push(y, Tail(stack[t]))]
              /\ pc' = pc /\ lock' = lock /\ module_locks' = module_locks
           \/ /\ modules[m] # "loaded" /\ Goto(t, "register")
              /\ \E l \in Locks, mode \in {"load", "check"} :
                   /\ GetModuleLock(m, l)
                   /\ mode = "check" => modules[m] # "absent"
                   /\ stack' = [stack EXCEPT ![t] =
                                  Push(Frame(m, mode, l), Push(y, Tail(stack[t])))]
  BY LookCases
<1>3. CASE /\ stack' = [stack EXCEPT ![t] = Push(y, Tail(stack[t]))]
           /\ pc' = pc /\ module_locks' = module_locks
  <2>1. Stays(t) /\ \A u \in Threads \ {t} : stack'[u] = stack[u]
    BY <1>2, <1>3, ReplacedStays DEF IInv
  <2> QED BY <1>1, <1>3, <2>1 DEF Others
<1>4. ASSUME NEW l \in Locks, NEW mode \in {"load", "check"}, GetModuleLock(m, l),
             modules[m] # "loaded", mode = "check" => modules[m] # "absent",
             Goto(t, "register"),
             stack' = [stack EXCEPT ![t] = Push(Frame(m, mode, l), Push(y, Tail(stack[t])))]
      PROVE  /\ Others(t)
             /\ \E x \in Frames :
                 /\ Pushes(t, x) /\ pc'[t] = "register"
                 /\ x.name \in Modules /\ x.lock \in Locks
                 /\ modules[x.name] # "loaded"
                 /\ x.mode = "check" => modules[x.name] # "absent"
                 /\ GetModuleLock(x.name, x.lock)
  <2>1. PICK x : x = Frame(m, mode, l)
    OBVIOUS
  <2>2. x \in Frames /\ x.name = m /\ x.mode = mode /\ x.lock = l
    BY <2>1 DEF Frame, Frames
  <2>3. Pushes(t, x) /\ \A u \in Threads \ {t} : stack'[u] = stack[u]
    BY <1>2, <1>4, <2>1, <2>2, TopPushed DEF IInv
  <2>4. pc'[t] = "register" /\ \A u \in Threads \ {t} : pc'[u] = pc[u]
    BY <1>4, PcChanged DEF IInv, Places
  <2> QED BY <1>1, <1>4, <2>2, <2>3, <2>4 DEF Others
<1> QED BY <1>1, <1>2, <1>3, <1>4

LEMMA DropImports ==
  ASSUME IInv, NEW t \in Threads, Drop(t)
  PROVE  /\ Others(t) /\ modules' = modules /\ module_locks' = module_locks /\ pc[t] = "drop"
         /\ \/ /\ Frees(t) /\ pc'[t] = "callback"
               /\ \A u \in Threads : \A d \in 2 .. Top(u) :
                     u # t \/ d # Top(t) => Fr(u, d).lock # Import(t).lock
            \/ Pops(t) /\ pc'[t] \in {"run", "raise"}
<1>1. /\ pc[t] = "drop" /\ modules' = modules /\ module_locks' = module_locks /\ cursor' = cursor
  BY DropCases
<1>2. PICK n \in Nat : n = Top(t) /\ n > 1 /\ Import(t) = Fr(t, n)
  BY <1>1, TopFrame, TopLock DEF IInv
<1>3. PICK x : x = [Import(t) EXCEPT !.lock = NoLock]
  OBVIOUS
<1>4. x \in Frames
  BY <1>3, TopFrame DEF IInv, Frames
<1>5. CASE /\ \A u \in Threads \ {t} :
                \A i \in DOMAIN stack[u] : stack[u][i].lock # Import(t).lock
           /\ \A i \in 2 .. Len(stack[t]) : stack[t][i].lock # Import(t).lock
           /\ stack' = [stack EXCEPT ![t] = Push(x, Tail(stack[t]))]
           /\ Goto(t, "callback")
  <2>1. /\ Top(t)' = n
        /\ \A d \in 1 .. n : Fr(t, d)' = IF d = n THEN x ELSE Fr(t, d)
        /\ \A u \in Threads \ {t} : stack'[u] = stack[u]
    BY <1>2, <1>4, <1>5, TopReplaced DEF IInv
  <2>2. pc'[t] = "callback" /\ \A u \in Threads \ {t} : pc'[u] = pc[u]
    BY <1>5, PcChanged DEF IInv, Places
  <2>3. Frees(t)
    <3>1. \A d \in 1 .. n - 1 : Fr(t, d)' = Fr(t, d)
      BY <2>1
    <3>2. Outer(t, Top(t) - 1)
      BY <1>2, <3>1 DEF Outer, SameImport
    <3>3. \A d : d = n => Fr(t, d)' = [Fr(t, d) EXCEPT !.lock = NoLock]
      BY <1>2, <1>3, <2>1
    <3> QED BY <1>2, <2>1, <3>2, <3>3 DEF Frees, SameImport
  <2>4. ASSUME NEW u \in Threads, NEW d \in 2 .. Top(u), u # t \/ d # n
        PROVE  Fr(u, d).lock # Import(t).lock
    <3>1. PICK k \in Nat : k = Len(stack[u])
      BY DEF IInv, Typed
    <3>2. d \in 2 .. k /\ DOMAIN stack[u] = 1 .. k
      BY <3>1 DEF Top, IInv, Typed
    <3>3. PICK i \in 1 .. k : i = k + 1 - d
      BY <3>2
    <3>4. Fr(u, d) = stack[u][i]
      BY <3>1, <3>3 DEF Fr, At
    <3>5. u = t => i \in 2 .. k
      BY <1>2, <2>4, <3>1, <3>2, <3>3 DEF Top
    <3> QED BY <1>5, <3>1, <3>2, <3>4, <3>5
  <2> QED BY <1>1, <1>2, <2>1, <2>2, <2>3, <2>4 DEF Others
<1>6. CASE /\ stack' = [stack EXCEPT ![t] = Tail(stack[t])]
           /\ Goto(t, IF Import(t).failed /\ Head(Tail(stack[t])).mode # "main"
                      THEN "raise" ELSE "run")
  <2>1. /\ Pops(t) /\ pc'[t] \in {"run", "raise"}
        /\ \A u \in Threads \ {t} : stack'[u] = stack[u] /\ pc'[u] = pc[u]
    BY <1>2, <1>6, Returned
  <2> QED BY <1>1, <2>1 DEF Others
<1> QED BY <1>3, <1>5, <1>6, DropCases

LEMMA CallbackImports ==
  ASSUME IInv, NEW t \in Threads, Callback(t)
  PROVE  /\ Others(t) /\ modules' = modules /\ pc[t] = "callback"
         /\ module_locks' = [module_locks EXCEPT ![Import(t).name] = NoLock]
         /\ Pops(t) /\ pc'[t] \in {"run", "raise"}
<1>1. /\ pc[t] = "callback" /\ modules' = modules /\ cursor' = cursor
      /\ module_locks' = [module_locks EXCEPT ![Import(t).name] = NoLock]
  BY DEF Callback
<1>2. Top(t) > 1
  BY <1>1, TopLock DEF IInv
<1>3. /\ stack' = [stack EXCEPT ![t] = Tail(stack[t])]
      /\ Goto(t, IF Import(t).failed /\ Head(Tail(stack[t])).mode # "main" THEN "raise" ELSE "run")
  BY DEF Callback, Return, Import
<1>4. /\ Pops(t) /\ pc'[t] \in {"run", "raise"}
      /\ \A u \in Threads \ {t} : stack'[u] = stack[u] /\ pc'[u] = pc[u]
  BY <1>2, <1>3, Returned
<1> QED BY <1>1, <1>4 DEF Others

-----------------------------------------------------------------------------
(* A module has one loader, as long as no callback comes too late *)

\* t is in an import of m, in a mode of M, and has got beyond its lock or to a place of P.
In(t, m, P, M) ==
  \E d \in 2 .. Top(t) :
     /\ Fr(t, d).name = m /\ Fr(t, d).mode \in M
     /\ d < Top(t) \/ pc[t] \in P

LEMMA InKept ==
  ASSUME IInv, NEW t \in Threads, Others(t), NEW u \in Threads, NEW m \in Modules,
         NEW P, NEW M, "run" \in P, "raise" \in P, In(u, m, P, M),
         \/ Stays(t) /\ (pc[t] \in P /\ Import(t).name = m => pc'[t] \in P)
         \/ \E x : Pushes(t, x)
         \/ Frees(t) /\ pc[t] \notin P
         \/ Pops(t) /\ pc[t] \notin P /\ pc'[t] \in {"run", "raise"}
  PROVE  In(u, m, P, M)'
<1>1. CASE u # t
  <2>1. stack'[u] = stack[u] /\ pc'[u] = pc[u]
    BY <1>1 DEF Others
  <2>2. Top(u)' = Top(u) /\ \A d : Fr(u, d)' = Fr(u, d)
    BY <2>1 DEF Top, Fr
  <2> QED BY <2>1, <2>2 DEF In
<1>2. CASE u = t
  <2>1. PICK n \in Nat : n = Top(t) /\ Import(t) = Fr(t, n)
    BY TopFrame DEF IInv
  <2>2. PICK d \in 2 .. n : /\ Fr(t, d).name = m /\ Fr(t, d).mode \in M
                            /\ d < n \/ pc[t] \in P
    BY <1>2, <2>1 DEF In
  <2>3. CASE Stays(t) /\ (pc[t] \in P /\ Import(t).name = m => pc'[t] \in P)
    <3>1. Top(t)' = n /\ Fr(t, d)'.name = m /\ Fr(t, d)'.mode \in M
      BY <2>1, <2>2, <2>3 DEF Stays, Outer, SameImport
    <3>2. d < n \/ pc'[t] \in P
      BY <2>1, <2>2, <2>3
    <3> QED BY <1>2, <2>2, <3>1, <3>2 DEF In
  <2>4. CASE \E x : Pushes(t, x)
    <3>1. Top(t)' = n + 1 /\ Fr(t, d)'.name = m /\ Fr(t, d)'.mode \in M
      BY <2>1, <2>2, <2>4 DEF Pushes, Outer, SameImport
    <3>2. d \in 2 .. n + 1 /\ d < n + 1
      BY <2>2
    <3> QED BY <1>2, <3>1, <3>2 DEF In
  <2>5. CASE Frees(t) /\ pc[t] \notin P
    <3>1. d \in 1 .. n - 1
      BY <2>2, <2>5
    <3>2. Top(t)' = n /\ Fr(t, d)'.name = m /\ Fr(t, d)'.mode \in M
      BY <2>1, <2>2, <2>5, <3>1 DEF Frees, Outer, SameImport
    <3> QED BY <1>2, <2>2, <3>1, <3>2 DEF In
  <2>6. CASE Pops(t) /\ pc[t] \notin P /\ pc'[t] \in {"run", "raise"}
    <3>1. d \in 1 .. n - 1 /\ d \in 2 .. n - 1
      BY <2>2, <2>6
    <3>2. Top(t)' = n - 1 /\ Fr(t, d)'.name = m /\ Fr(t, d)'.mode \in M
      BY <2>1, <2>2, <2>6, <3>1 DEF Pops, Outer, SameImport
    <3>3. pc'[t] \in P
      BY <2>6
    <3> QED BY <1>2, <3>1, <3>2, <3>3 DEF In
  <2> QED BY <2>3, <2>4, <2>5, <2>6
<1> QED BY <1>1, <1>2

\* An import after a step that is not a new one was there before it.
LEMMA OldFrames ==
  ASSUME IInv, NEW t \in Threads, Others(t), NEW u \in Threads, NEW d \in Nat,
         d >= 2, d <= Top(u)',
         \/ Stays(t) \/ Frees(t) \/ Pops(t)
         \/ (\E x : Pushes(t, x)) /\ ~(u = t /\ d = Top(t) + 1)
  PROVE  /\ d \in 2 .. Top(u)
         /\ Fr(u, d)'.name = Fr(u, d).name /\ Fr(u, d)'.mode = Fr(u, d).mode
         /\ Fr(u, d)'.lock = Fr(u, d).lock \/ Fr(u, d)'.lock = NoLock
<1>1. PICK n \in Nat : n = Top(u)
  BY TopFrame DEF IInv
<1>2. CASE u # t
  <2>1. stack'[u] = stack[u]
    BY <1>2 DEF Others
  <2>2. Top(u)' = Top(u) /\ Fr(u, d)' = Fr(u, d)
    BY <2>1 DEF Top, Fr
  <2> QED BY <1>1, <2>2
<1>3. CASE u = t /\ Stays(t)
  <2>1. Top(t)' = n /\ \A e \in 1 .. n : SameImport(Fr(t, e)', Fr(t, e))
    BY <1>1, <1>3 DEF Stays, Outer
  <2>2. d \in 1 .. n /\ d \in 2 .. n
    BY <1>3, <2>1
  <2> QED BY <1>1, <1>3, <2>1, <2>2 DEF SameImport
<1>4. CASE u = t /\ Frees(t)
  <2>1. /\ Top(t)' = n /\ \A e \in 1 .. n - 1 : SameImport(Fr(t, e)', Fr(t, e))
        /\ \A e : e = n => SameImport(Fr(t, e)', [Fr(t, e) EXCEPT !.lock = NoLock])
    BY <1>1, <1>4 DEF Frees, Outer
  <2>2. d \in 2 .. n
    BY <1>4, <2>1
  <2>3. CASE d = n
    <3>1. Fr(t, n) \in Frames
      BY <1>1, <1>4, TopFrame DEF IInv
    <3>2. PICK x : x = [Fr(t, n) EXCEPT !.lock = NoLock]
      OBVIOUS
    <3>3. x.name = Fr(t, n).name /\ x.mode = Fr(t, n).mode /\ x.lock = NoLock
      BY <3>1, <3>2 DEF Frames
    <3>4. SameImport(Fr(t, d)', x)
      BY <2>1, <2>3, <3>2
    <3> QED BY <1>1, <1>4, <2>2, <2>3, <3>3, <3>4 DEF SameImport
  <2>4. CASE d \in 1 .. n - 1
    BY <1>1, <1>4, <2>1, <2>2, <2>4 DEF SameImport
  <2> QED BY <2>2, <2>3, <2>4
<1>5. CASE u = t /\ Pops(t)
  <2>1. Top(t)' = n - 1 /\ \A e \in 1 .. n - 1 : SameImport(Fr(t, e)', Fr(t, e))
    BY <1>1, <1>5 DEF Pops, Outer
  <2>2. d \in 1 .. n - 1 /\ d \in 2 .. n
    BY <1>5, <2>1
  <2> QED BY <1>1, <1>5, <2>1, <2>2 DEF SameImport
<1>6. CASE u = t /\ (\E x : Pushes(t, x)) /\ d # Top(t) + 1
  <2>1. Top(t)' = n + 1 /\ \A e \in 1 .. n : SameImport(Fr(t, e)', Fr(t, e))
    BY <1>1, <1>6 DEF Pushes, Outer
  <2>2. d \in 1 .. n /\ d \in 2 .. n
    BY <1>1, <1>6, <2>1
  <2> QED BY <1>1, <1>6, <2>1, <2>2 DEF SameImport
<1> QED BY <1>2, <1>3, <1>4, <1>5, <1>6

(***************************************************************************)
(* When a thread is about to delete _module_locks[name], there is no other *)
(* lock of that module yet.  The code does not guarantee this when a       *)
(* module could not be loaded: the callback of the weak reference runs     *)
(* outside of the import lock.                                             *)
(***************************************************************************)
Undisturbed ==
  \A t \in Threads : pc[t] = "callback" =>
     \A u \in Threads : \A d \in 2 .. Top(u) :
        Fr(u, d).name = Import(t).name => Fr(u, d).lock = NoLock

\* The imports of a module that have a lock have the same.
OneLock ==
  \A t \in Threads : \A d \in 2 .. Top(t) :
     Fr(t, d).lock # NoLock => Fr(t, d).lock = module_locks[Fr(t, d).name]

\* A module in the middle of being loaded is being loaded by somebody.
Initializing ==
  \A m \in Modules :
     modules[m] = "initializing" => \E t \in Threads : In(t, m, {"run", "raise"}, {"load"})

LEMMA OneLockKept ==
  ASSUME IInv, OneLock, Undisturbed, NEW t \in Threads, Step(t)
  PROVE  OneLock'
<1>1. /\ Others(t)
      /\ \/ (Stays(t) \/ Frees(t) \/ Pops(t)) /\ module_locks' = module_locks
         \/ \E x \in Frames : /\ Pushes(t, x) /\ x.name \in Modules /\ x.lock \in Locks
                              /\ GetModuleLock(x.name, x.lock)
         \/ /\ Pops(t) /\ pc[t] = "callback"
            /\ module_locks' = [module_locks EXCEPT ![Import(t).name] = NoLock]
  BY LockImports, LoadImports, FailsImports, LookImports, DropImports, CallbackImports DEF Step
<1>2. ASSUME NEW u \in Threads, NEW d \in 2 .. Top(u)
      PROVE  Fr(u, d).name \in Modules
  BY <1>2 DEF IInv, Shape
<1>3. ASSUME NEW u \in Threads PROVE Top(u) \in Nat /\ (Top(u)' \in Nat => 2 .. Top(u)' \subseteq Nat)
  BY TopFrame DEF IInv
<1>4. ASSUME NEW u \in Threads, NEW d \in 2 .. Top(u)', Fr(u, d)'.lock # NoLock
      PROVE  Fr(u, d)'.lock = module_locks'[Fr(u, d)'.name]
  <2>0. d \in Nat /\ d >= 2 /\ d <= Top(u)'
    BY <1>4
  <2>1. CASE (Stays(t) \/ Frees(t) \/ Pops(t)) /\ module_locks' = module_locks
    <3>1. /\ d \in 2 .. Top(u) /\ Fr(u, d)'.name = Fr(u, d).name
          /\ Fr(u, d)'.lock = Fr(u, d).lock \/ Fr(u, d)'.lock = NoLock
      BY <1>1, <2>0, <2>1, OldFrames
    <3> QED BY <1>4, <2>1, <3>1 DEF OneLock
  <2>2. CASE \E x \in Frames : /\ Pushes(t, x) /\ x.name \in Modules /\ x.lock \in Locks
                               /\ GetModuleLock(x.name, x.lock)
    <3>1. PICK x \in Frames : /\ Pushes(t, x) /\ x.name \in Modules /\ x.lock \in Locks
                              /\ GetModuleLock(x.name, x.lock)
      BY <2>2
    <3>2. PICK m \in Modules, l \in Locks : m = x.name /\ l = x.lock
      BY <3>1
    <3>3. /\ module_locks'[m] = l
          /\ \A k \in Modules \ {m} : module_locks'[k] = module_locks[k]
          /\ l = module_locks[m] \/ module_locks[m] \notin Referenced
      BY <3>1, <3>2, GotLock
    <3>4. CASE u = t /\ d = Top(t) + 1
      <4>1. SameImport(Fr(t, d)', x)
        BY <3>1, <3>4 DEF Pushes
      <4> QED BY <3>2, <3>3, <3>4, <4>1 DEF SameImport
    <3>5. CASE ~(u = t /\ d = Top(t) + 1)
      <4>1. /\ d \in 2 .. Top(u) /\ Fr(u, d)'.name = Fr(u, d).name
            /\ Fr(u, d)'.lock = Fr(u, d).lock \/ Fr(u, d)'.lock = NoLock
        BY <1>1, <2>0, <3>1, <3>5, OldFrames
      <4>2. Fr(u, d)'.lock = Fr(u, d).lock /\ Fr(u, d).lock = module_locks[Fr(u, d).name]
        BY <1>4, <4>1 DEF OneLock
      <4>3. CASE Fr(u, d).name = m
        <5>1. Fr(u, d).lock \in Locks /\ d \in 1 .. Top(u)
          BY <1>4, <4>1, <4>2 DEF IInv, Shape
        <5>2. module_locks[m] \in Referenced
          BY <4>2, <4>3, <5>1, Unreferenced DEF IInv
        <5> QED BY <3>3, <4>1, <4>2, <4>3, <5>2
      <4>4. CASE Fr(u, d).name # m
        <5>1. Fr(u, d).name \in Modules
          BY <1>2, <4>1
        <5> QED BY <3>3, <4>1, <4>2, <4>4, <5>1
      <4> QED BY <4>3, <4>4
    <3> QED BY <3>4, <3>5
  <2>3. CASE /\ Pops(t) /\ pc[t] = "callback"
             /\ module_locks' = [module_locks EXCEPT ![Import(t).name] = NoLock]
    <3>1. /\ d \in 2 .. Top(u) /\ Fr(u, d)'.name = Fr(u, d).name
          /\ Fr(u, d)'.lock = Fr(u, d).lock \/ Fr(u, d)'.lock = NoLock
      BY <1>1, <2>0, <2>3, OldFrames
    <3>2. Fr(u, d)'.lock = Fr(u, d).lock /\ Fr(u, d).lock = module_locks[Fr(u, d).name]
      BY <1>4, <3>1 DEF OneLock
    <3>3. Fr(u, d).name # Import(t).name
      BY <1>4, <2>3, <3>1, <3>2 DEF Undisturbed
    <3>4. module_locks'[Fr(u, d).name] = module_locks[Fr(u, d).name]
      BY <1>2, <2>3, <3>1, <3>3 DEF IInv, Typed
    <3> QED BY <3>1, <3>2, <3>4
  <2> QED BY <1>1, <2>1, <2>2, <2>3
<1> QED BY <1>4 DEF OneLock

LEMMA InitializingKept ==
  ASSUME IInv, Initializing, NEW t \in Threads, Step(t)
  PROVE  Initializing'
<1> DEFINE P == {"run", "raise"}
           M == {"load"}
<1>1. ASSUME NEW m \in Modules, modules[m] = "initializing", Others(t),
             \/ Stays(t) /\ (pc[t] \in P /\ Import(t).name = m => pc'[t] \in P)
             \/ \E x : Pushes(t, x)
             \/ Frees(t) /\ pc[t] \notin P
             \/ Pops(t) /\ pc[t] \notin P /\ pc'[t] \in P
      PROVE  \E u \in Threads : In(u, m, P, M)'
  <2>1. PICK u \in Threads : In(u, m, P, M)
    BY <1>1 DEF Initializing
  <2> QED BY <1>1, <2>1, InKept
<1>2. ASSUME NEW m \in Modules, modules'[m] = "initializing"
      PROVE  \E u \in Threads : In(u, m, P, M)'
  <2>1. CASE \/ Register(t) \/ Acquire(t) \/ Chase(t) \/ Hop(t) \/ Queue(t) \/ Wait(t)
             \/ PassOn(t) \/ Unregister(t) \/ Release(t)
    <3>1. Others(t) /\ Stays(t) /\ modules' = modules /\ <<pc[t], pc'[t]>> \in Moves
      BY <2>1, LockImports
    <3>2. pc[t] \notin P
      BY <3>1 DEF Moves
    <3> QED BY <1>1, <1>2, <3>1, <3>2
  <2>2. CASE Load(t) \/ Loaded(t)
    <3>1. /\ Others(t) /\ Stays(t) /\ Import(t).mode = "load"
          /\ \/ /\ pc[t] = "load" /\ pc'[t] = "run"
                /\ modules' = [modules EXCEPT ![Import(t).name] = "initializing"]
             \/ /\ pc[t] = "run" /\ pc'[t] = "release"
                /\ modules' = [modules EXCEPT ![Import(t).name] = "loaded"]
      BY <2>2, LoadImports
    <3>2. CASE m = Import(t).name
      <4>1. pc'[t] = "run"
        BY <1>2, <3>1, <3>2 DEF IInv, Typed
      <4>2. PICK n \in Nat : n = Top(t) /\ n > 1 /\ Import(t) = Fr(t, n)
        BY <3>1, TopFrame, TopLock DEF IInv
      <4>3. Top(t)' = n /\ Fr(t, n)'.name = m /\ Fr(t, n)'.mode = "load"
        BY <3>1, <3>2, <4>2 DEF Stays, Outer, SameImport
      <4>4. n \in 2 .. n
        BY <4>2
      <4>5. In(t, m, P, M)'
        BY <4>1, <4>3, <4>4 DEF In
      <4> QED BY <4>5
    <3>3. CASE m # Import(t).name
      <4>1. modules[m] = "initializing"
        BY <1>2, <3>1, <3>3 DEF IInv, Typed
      <4> QED BY <1>1, <3>1, <3>3, <4>1
    <3> QED BY <3>2, <3>3
  <2>3. CASE Fails(t)
    <3>1. /\ Others(t) /\ Stays(t) /\ pc[t] \in {"load", "run", "raise"}
          /\ modules' = IF pc[t] = "load" THEN modules
                        ELSE [modules EXCEPT ![Import(t).name] = "absent"]
      BY <2>3, FailsImports
    <3>2. modules[m] = "initializing" /\ (pc[t] \in P => Import(t).name # m)
      BY <1>2, <3>1 DEF IInv, Typed
    <3> QED BY <1>1, <3>1, <3>2
  <2>4. CASE Look(t)
    <3>1. /\ Others(t) /\ modules' = modules
          /\ (Stays(t) /\ pc'[t] = "run") \/ \E x : Pushes(t, x)
      BY <2>4, LookImports
    <3> QED BY <1>1, <1>2, <3>1
  <2>5. CASE Drop(t) \/ Callback(t)
    <3>1. /\ Others(t) /\ modules' = modules /\ pc[t] \in {"drop", "callback"}
          /\ Frees(t) \/ (Pops(t) /\ pc'[t] \in P)
      BY <2>5, DropImports, CallbackImports
    <3>2. pc[t] \notin P
      BY <3>1
    <3> QED BY <1>1, <1>2, <3>1, <3>2
  <2> QED BY <2>1, <2>2, <2>3, <2>4, <2>5 DEF Step
<1> QED BY <1>2 DEF Initializing

LEMMA InitialImports ==
  ASSUME Init
  PROVE  OneLock /\ Initializing /\ \A t \in Threads : Top(t) = 1 /\ pc[t] = "run"
<1>1. ASSUME NEW t \in Threads PROVE Top(t) = 1 /\ pc[t] = "run"
  BY DEF Init, Top
<1> QED BY <1>1 DEF OneLock, Initializing, Init

LEMMA SameImports ==
  ASSUME UNCHANGED vars
  PROVE  /\ OneLock => OneLock'
         /\ Initializing => Initializing'
<1>1. modules' = modules /\ module_locks' = module_locks /\ stack' = stack /\ pc' = pc
  BY DEF vars
<1>2. \A t : Top(t)' = Top(t) /\ \A d : Fr(t, d)' = Fr(t, d)
  BY <1>1 DEF Top, Fr
<1>3. OneLock => OneLock'
  BY <1>1, <1>2 DEF OneLock
<1>4. \A t, m : In(t, m, {"run", "raise"}, {"load"})' <=> In(t, m, {"run", "raise"}, {"load"})
  BY <1>1, <1>2 DEF In
<1>5. Initializing => Initializing'
  BY <1>1, <1>4 DEF Initializing
<1> QED BY <1>3, <1>5

\* Who is beyond his lock for m, holds it.
LEMMA InHolds ==
  ASSUME IInv, OneLock, NEW t \in Threads, NEW m \in Modules, NEW P, NEW M, P \subseteq Holding,
         In(t, m, P, M)
  PROVE  module_locks[m] \in Locks /\ \E d \in Nat : <<t, d>> \in Holders(module_locks[m])
<1>1. PICK d \in 2 .. Top(t) : Fr(t, d).name = m /\ (d < Top(t) \/ pc[t] \in P)
  BY DEF In
<1>2. d \in Nat /\ Top(t) \in Nat
  BY <1>1, TopFrame DEF IInv
<1>3. Fr(t, d).lock \in Locks
  BY <1>1, <1>2 DEF IInv, Shape, Holding
<1>4. Fr(t, d).lock = module_locks[m]
  BY <1>1, <1>3, NoLockIsNone DEF OneLock
<1>5. Holds(t, d, module_locks[m])
  BY <1>1, <1>4 DEF Holds
<1>6. <<t, d>> \in Threads \X Nat /\ <<t, d>>[1] = t /\ <<t, d>>[2] = d
  BY <1>2
<1>7. <<t, d>> \in Holders(module_locks[m])
  BY <1>5, <1>6 DEF Holders
<1> QED BY <1>2, <1>3, <1>4, <1>7

LEMMA LoadsIsIn ==
  ASSUME IInv, NEW t \in Threads, NEW m \in Modules
  PROVE  Loads(t, m) <=> In(t, m, {"run", "raise"}, {"load"})
  BY LoadsByDepth DEF In

LEMMA TwoIn ==
  ASSUME IInv, OneLock, NEW t \in Threads, NEW u \in Threads, NEW m \in Modules,
         NEW P, NEW M, NEW Q, NEW N, P \subseteq Holding, Q \subseteq Holding,
         In(t, m, P, M), In(u, m, Q, N)
  PROVE  t = u
<1>1. PICK l \in Locks : l = module_locks[m]
  BY InHolds
<1>2. PICK d \in Nat : <<t, d>> \in Holders(l)
  BY <1>1, InHolds
<1>3. PICK e \in Nat : <<u, e>> \in Holders(l)
  BY <1>1, InHolds
<1>4. <<t, d>>[1] = lock[l].owner /\ <<u, e>>[1] = lock[l].owner
  BY <1>2, <1>3 DEF IInv, Owned
<1> QED BY <1>4

(***************************************************************************)
(* A module has one loader at a time, and only its loader gets it while it *)
(* is being loaded, in every behaviour in which no callback of a weak      *)
(* reference comes too late: whatever fails.                               *)
(***************************************************************************)
THEOREM OneLoaderUnlessDisturbed ==
  Spec /\ []Undisturbed => [](OneLoader /\ PartialOnlyToLoaders)
<1>1. Init => OneLock /\ Initializing
  BY InitialImports
<1>2. IInv /\ OneLock /\ Initializing /\ Undisturbed /\ [Next]_vars => OneLock' /\ Initializing'
  BY OneLockKept, InitializingKept, SameImports DEF Next
<1>3. ASSUME IInv, OneLock PROVE OneLoader
  <2>1. {"run", "raise"} \subseteq Holding
    BY DEF Holding
  <2>2. ASSUME NEW t \in Threads, NEW u \in Threads, NEW m \in Modules, Loads(t, m), Loads(u, m)
        PROVE  t = u
    <3>1. In(t, m, {"run", "raise"}, {"load"}) /\ In(u, m, {"run", "raise"}, {"load"})
      BY <1>3, <2>2, LoadsIsIn
    <3> QED BY <1>3, <2>1, <3>1, TwoIn
  <2> QED BY <2>2 DEF OneLoader
<1>4. ASSUME IInv, OneLock, Initializing PROVE PartialOnlyToLoaders
  <2>1. ASSUME NEW t \in Threads, pc[t] = "release", Import(t).mode = "check",
               modules[Import(t).name] = "initializing"
        PROVE  Loads(t, Import(t).name)
    <3>1. PICK m \in Modules : m = Import(t).name
      BY <1>4, <2>1, TopLock DEF IInv
    <3>2. PICK u \in Threads : In(u, m, {"run", "raise"}, {"load"})
      BY <1>4, <2>1, <3>1 DEF Initializing
    <3>3. Top(t) > 1 /\ Top(t) \in Nat /\ Import(t) = Fr(t, Top(t))
      BY <1>4, <2>1, TopLock, TopFrame DEF IInv
    <3>4. In(t, m, Holding, {"check"})
      BY <2>1, <3>1, <3>3 DEF In, Holding
    <3>5. {"run", "raise"} \subseteq Holding
      BY DEF Holding
    <3>6. t = u
      BY <1>4, <3>2, <3>4, <3>5, TwoIn
    <3> QED BY <1>4, <3>1, <3>2, <3>6, LoadsIsIn
  <2>2. DeadlockOnlyToLoaders
    BY <1>4, DeadlockLoads
  <2> QED BY <2>1, <2>2 DEF PartialOnlyToLoaders, DeadlockOnlyToLoaders
<1> QED BY <1>1, <1>2, <1>3, <1>4, Invariance, PTL DEF Spec

-----------------------------------------------------------------------------
(* As long as no load fails, no callback comes too late *)

Named == \A m \in Modules : module_locks[m] \in Locks => module_locks[m][1] = m

Begun(m) == modules[m] # "absent" \/ \E u \in Threads : In(u, m, Holding, {"load", "check"})

\* An import of a module that somebody has begun to load.
Settled(t, d) ==
  /\ Fr(t, d).mode = "check" => modules[Fr(t, d).name] # "absent"
  /\ d = Top(t) /\ pc[t] = "release" => modules[Fr(t, d).name] # "absent"
  /\ d = Top(t) /\ pc[t] \in {"chase", "hop", "deadlock", "drop"} => Begun(Fr(t, d).name)
  /\ d = Top(t) /\ pc[t] = "callback" =>
        /\ modules[Fr(t, d).name] = "loaded"
        /\ \A u \in Threads : \A e \in 2 .. Top(u) :
              Fr(u, e).name = Fr(t, d).name => Fr(u, e).lock = NoLock

AllSettled == \A t \in Threads : \A d \in 2 .. Top(t) : Settled(t, d)

LEMMA FrTyped ==
  ASSUME IInv, NEW t \in Threads, NEW d \in 2 .. Top(t)
  PROVE  Fr(t, d) \in Frames /\ Fr(t, d).name \in Modules /\ Fr(t, d).mode \in {"load", "check"}
<1>1. PICK n \in Nat : n = Len(stack[t])
  BY DEF IInv, Typed
<1>2. d \in 2 .. n
  BY <1>1 DEF Top
<1>3. PICK i \in 1 .. n : i = n + 1 - d
  BY <1>2
<1>4. Fr(t, d) = stack[t][i]
  BY <1>1, <1>3 DEF Fr, At
<1>5. Fr(t, d) \in Frames
  BY <1>1, <1>3, <1>4 DEF IInv, Typed
<1> QED BY <1>5 DEF IInv, Shape, Frames

LEMMA NamedKept ==
  ASSUME IInv, Named, NEW t \in Threads, Step(t)
  PROVE  Named'
<1>1. \/ module_locks' = module_locks
      \/ \E m \in Modules, l \in Locks : GetModuleLock(m, l)
      \/ \E m : module_locks' = [module_locks EXCEPT ![m] = NoLock]
  BY LockImports, LoadImports, FailsImports, LookImports, DropImports, CallbackImports DEF Step
<1>2. module_locks \in [Modules -> Locks \cup {NoLock}]
  BY DEF IInv, Typed
<1>3. CASE module_locks' = module_locks
  BY <1>3 DEF Named
<1>4. ASSUME NEW m \in Modules, NEW l \in Locks, GetModuleLock(m, l) PROVE Named'
  <2>1. \/ module_locks' = module_locks
        \/ l[1] = m /\ module_locks' = [module_locks EXCEPT ![m] = l]
    <3>1. \/ module_locks' = module_locks
          \/ l \in Unborn(m) /\ module_locks' = [module_locks EXCEPT ![m] = l]
      BY <1>4 DEF GetModuleLock
    <3> QED BY <3>1 DEF Unborn
  <2> QED BY <1>2, <2>1 DEF Named
<1>5. CASE \E m : module_locks' = [module_locks EXCEPT ![m] = NoLock]
  BY <1>2, <1>5, NoLockIsNone DEF Named
<1> QED BY <1>1, <1>3, <1>4, <1>5

\* Who finds a lock taken, has found somebody who imports the module.
LEMMA TakenBusy ==
  ASSUME IInv, OneLock, Named, NEW t \in Threads, pc[t] = "acquire", Self(t).count # 0
  PROVE  \E u \in Threads : In(u, Import(t).name, Holding, {"load", "check"})
<1>1. Import(t).lock \in Locks /\ Import(t).name \in Modules /\ Top(t) > 1
  BY TopLock DEF IInv
<1>2. Top(t) \in Nat /\ Import(t) = Fr(t, Top(t))
  BY TopFrame DEF IInv
<1>3. PICK l \in Locks : l = Import(t).lock
  BY <1>1
<1>4. lock[l].count # 0 /\ Owned(l)
  BY <1>3 DEF Self, IInv
<1>5. Holders(l) # {}
  BY <1>4, FS_EmptySet DEF Owned
<1>6. PICK u \in Threads, d \in Nat : Holds(u, d, l)
  <2>1. PICK h \in Threads \X Nat : Holds(h[1], h[2], l)
    BY <1>5 DEF Holders
  <2> QED BY <2>1
<1>7. d \in 2 .. Top(u) /\ Fr(u, d).lock = l /\ (d < Top(u) \/ pc[u] \in Holding)
  BY <1>6 DEF Holds
<1>8. l = module_locks[Fr(u, d).name] /\ l = module_locks[Import(t).name]
  BY <1>1, <1>2, <1>3, <1>7, NoLockIsNone DEF OneLock
<1>9. Fr(u, d).name \in Modules /\ Fr(u, d).mode \in {"load", "check"}
  BY <1>7, FrTyped
<1>10. Fr(u, d).name = Import(t).name
  BY <1>1, <1>8, <1>9 DEF Named
<1> QED BY <1>7, <1>9, <1>10 DEF In

\* What a step does to the modules, when it is not a failure.
LEMMA NotAbsentKept ==
  ASSUME IInv, NEW t \in Threads, Step(t), ~Fails(t), NEW m \in Modules, modules[m] # "absent"
  PROVE  modules'[m] # "absent"
<1>1. \/ modules' = modules
      \/ \E v \in {"initializing", "loaded"} : modules' = [modules EXCEPT ![Import(t).name] = v]
  BY LockImports, LoadImports, LookImports, DropImports, CallbackImports DEF Step
<1> QED BY <1>1 DEF IInv, Typed

LEMMA BegunKept ==
  ASSUME IInv, AllSettled, NEW t \in Threads, Step(t), ~Fails(t), NEW m \in Modules, Begun(m)
  PROVE  Begun(m)'
<1> DEFINE M == {"load", "check"}
<1>1. CASE modules[m] # "absent"
  BY <1>1, NotAbsentKept DEF Begun
<1>2. ASSUME NEW u \in Threads, In(u, m, Holding, M), Others(t),
             \/ Stays(t) /\ (pc[t] \in Holding /\ Import(t).name = m => pc'[t] \in Holding)
             \/ \E x : Pushes(t, x)
             \/ Frees(t) /\ pc[t] \notin Holding
             \/ Pops(t) /\ pc[t] \notin Holding /\ pc'[t] \in {"run", "raise"}
      PROVE  Begun(m)'
  <2>1. "run" \in Holding /\ "raise" \in Holding
    BY DEF Holding
  <2>2. In(u, m, Holding, M)'
    BY <1>2, <2>1, InKept
  <2> QED BY <2>2 DEF Begun
<1>3. CASE \E u \in Threads : In(u, m, Holding, M)
  <2>1. PICK u \in Threads : In(u, m, Holding, M)
    BY <1>3
  <2>2. CASE \/ Register(t) \/ Acquire(t) \/ Chase(t) \/ Hop(t) \/ Queue(t) \/ Wait(t)
             \/ PassOn(t) \/ Unregister(t) \/ Release(t)
    <3>1. Others(t) /\ Stays(t) /\ <<pc[t], pc'[t]>> \in Moves
      BY <2>2, LockImports
    <3>2. CASE pc[t] = "release" /\ Import(t).name = m
      <4>1. Top(t) > 1 /\ Top(t) \in Nat /\ Import(t) = Fr(t, Top(t))
        BY <3>2, TopLock, TopFrame DEF IInv
      <4>2. modules[m] # "absent"
        BY <3>2, <4>1 DEF AllSettled, Settled
      <4> QED BY <1>1, <4>2
    <3>3. CASE ~(pc[t] = "release" /\ Import(t).name = m)
      <4>1. pc[t] \in Holding /\ Import(t).name = m => pc'[t] \in Holding
        BY <3>1, <3>3 DEF Moves, Holding
      <4> QED BY <1>2, <2>1, <3>1, <4>1
    <3> QED BY <3>2, <3>3
  <2>3. CASE Load(t) \/ Loaded(t)
    <3>1. Others(t) /\ Stays(t) /\ pc'[t] \in Holding
      BY <2>3, LoadImports DEF Holding
    <3> QED BY <1>2, <2>1, <3>1
  <2>4. CASE Look(t)
    <3>1. Others(t) /\ ((Stays(t) /\ pc'[t] = "run") \/ \E x : Pushes(t, x))
      BY <2>4, LookImports
    <3> QED BY <1>2, <2>1, <3>1 DEF Holding
  <2>5. CASE Drop(t) \/ Callback(t)
    <3>1. /\ Others(t) /\ pc[t] \in {"drop", "callback"}
          /\ Frees(t) \/ (Pops(t) /\ pc'[t] \in {"run", "raise"})
      BY <2>5, DropImports, CallbackImports
    <3>2. pc[t] \notin Holding
      BY <3>1 DEF Holding
    <3> QED BY <1>2, <2>1, <3>1, <3>2
  <2> QED BY <2>2, <2>3, <2>4, <2>5 DEF Step
<1> QED BY <1>1, <1>3 DEF Begun

\* What any step does to the imports.
LEMMA StepImports ==
  ASSUME IInv, NEW t \in Threads, Step(t)
  PROVE  /\ Others(t)
         /\ \/ Stays(t) \/ Frees(t) \/ Pops(t)
            \/ \E x \in Frames :
                  /\ Pushes(t, x) /\ pc'[t] = "register" /\ modules' = modules
                  /\ x.name \in Modules /\ modules[x.name] # "loaded"
                  /\ x.mode = "check" => modules[x.name] # "absent"
<1>1. CASE \/ Register(t) \/ Acquire(t) \/ Chase(t) \/ Hop(t) \/ Queue(t) \/ Wait(t)
           \/ PassOn(t) \/ Unregister(t) \/ Release(t)
  BY <1>1, LockImports
<1>2. CASE Load(t) \/ Loaded(t)
  BY <1>2, LoadImports
<1>3. CASE Fails(t)
  BY <1>3, FailsImports
<1>4. CASE Look(t)
  BY <1>4, LookImports
<1>5. CASE Drop(t)
  BY <1>5, DropImports
<1>6. CASE Callback(t)
  BY <1>6, CallbackImports
<1> QED BY <1>1, <1>2, <1>3, <1>4, <1>5, <1>6 DEF Step

LEMMA CheckedKept ==
  ASSUME IInv, AllSettled, NEW t \in Threads, Step(t), ~Fails(t),
         NEW u \in Threads, NEW d \in Nat, d >= 2, d <= Top(u)'
  PROVE  Fr(u, d)'.mode = "check" => modules'[Fr(u, d)'.name] # "absent"
<1>1. CASE \/ Stays(t) \/ Frees(t) \/ Pops(t)
           \/ (\E x : Pushes(t, x)) /\ ~(u = t /\ d = Top(t) + 1)
  <2>1. /\ d \in 2 .. Top(u)
        /\ Fr(u, d)'.name = Fr(u, d).name /\ Fr(u, d)'.mode = Fr(u, d).mode
    BY <1>1, StepImports, OldFrames
  <2>2. Fr(u, d).name \in Modules
    BY <2>1, FrTyped
  <2>3. Fr(u, d).mode = "check" => modules[Fr(u, d).name] # "absent"
    BY <2>1 DEF AllSettled, Settled
  <2> QED BY <2>1, <2>2, <2>3, NotAbsentKept
<1>2. ASSUME NEW x \in Frames, Pushes(t, x), modules' = modules, u = t, d = Top(t) + 1,
             x.mode = "check" => modules[x.name] # "absent"
      PROVE  Fr(u, d)'.mode = "check" => modules'[Fr(u, d)'.name] # "absent"
  <2>1. SameImport(Fr(t, d)', x)
    BY <1>2 DEF Pushes
  <2> QED BY <1>2, <2>1 DEF SameImport
<1> QED BY <1>1, <1>2, StepImports

\* While a thread is about to delete the entry of a module, nobody loads it.
LEMMA AloneKept ==
  ASSUME IInv, NEW t \in Threads, Step(t), ~Fails(t), NEW m \in Modules,
         modules[m] = "loaded",
         \A u \in Threads : \A e \in 2 .. Top(u) : Fr(u, e).name = m => Fr(u, e).lock = NoLock
  PROVE  /\ modules'[m] = "loaded"
         /\ \A u \in Threads : \A e \in 2 .. Top(u)' :
               Fr(u, e)'.name = m => Fr(u, e)'.lock = NoLock
<1>1. modules'[m] = "loaded"
  <2>1. CASE Load(t) \/ Loaded(t)
    <3>1. PICK n \in Nat : n = Top(t) /\ n > 1 /\ Import(t) = Fr(t, n)
      BY <2>1, LoadImports, TopLock, TopFrame DEF IInv
    <3>2. pc[t] # "callback"
      BY <2>1, LoadImports
    <3>3. Import(t).lock # NoLock /\ Import(t).name \in Modules
      BY <3>2, <2>1, LoadImports, TopLock, NoLockIsNone DEF IInv
    <3>4. Import(t).name # m
      BY <3>1, <3>3
    <3> QED BY <2>1, <3>3, <3>4, LoadImports DEF IInv, Typed
  <2>2. CASE ~(Load(t) \/ Loaded(t))
    <3>1. modules' = modules
      BY <2>2, LockImports, LookImports, DropImports, CallbackImports DEF Step
    <3> QED BY <3>1
  <2> QED BY <2>1, <2>2
<1>2. ASSUME NEW u \in Threads, NEW e \in 2 .. Top(u)', Fr(u, e)'.name = m
      PROVE  Fr(u, e)'.lock = NoLock
  <2>0. e \in Nat /\ e >= 2 /\ e <= Top(u)'
    BY <1>2
  <2>1. CASE \/ Stays(t) \/ Frees(t) \/ Pops(t)
             \/ (\E x : Pushes(t, x)) /\ ~(u = t /\ e = Top(t) + 1)
    <3>1. /\ e \in 2 .. Top(u) /\ Fr(u, e)'.name = Fr(u, e).name
          /\ Fr(u, e)'.lock = Fr(u, e).lock \/ Fr(u, e)'.lock = NoLock
      BY <2>0, <2>1, StepImports, OldFrames
    <3> QED BY <1>2, <3>1
  <2>2. ASSUME NEW x \in Frames, Pushes(t, x), modules[x.name] # "loaded",
               u = t, e = Top(t) + 1
        PROVE  FALSE
    <3>1. SameImport(Fr(t, e)', x)
      BY <2>2 DEF Pushes
    <3> QED BY <1>2, <2>2, <3>1 DEF SameImport
  <2> QED BY <2>1, <2>2, StepImports
<1> QED BY <1>1, <1>2

LEMMA OtherSettled ==
  ASSUME IInv, AllSettled, NEW t \in Threads, Step(t), ~Fails(t),
         NEW u \in Threads \ {t}, NEW d \in 2 .. Top(u)'
  PROVE  Settled(u, d)'
<1>1. stack'[u] = stack[u] /\ pc'[u] = pc[u]
  BY StepImports DEF Others
<1>2. Top(u)' = Top(u) /\ Fr(u, d)' = Fr(u, d)
  BY <1>1 DEF Top, Fr
<1>3. PICK m \in Modules : m = Fr(u, d).name
  BY <1>2, FrTyped
<1>4. Settled(u, d)
  BY <1>2 DEF AllSettled
<1>5. modules[m] # "absent" => modules'[m] # "absent"
  BY NotAbsentKept
<1>6. Begun(m) => Begun(m)'
  BY BegunKept
<1>7. /\ Fr(u, d)'.mode = "check" => modules'[m] # "absent"
      /\ d = Top(u)' /\ pc'[u] = "release" => modules'[m] # "absent"
      /\ d = Top(u)' /\ pc'[u] \in {"chase", "hop", "deadlock", "drop"} => Begun(m)'
  BY <1>1, <1>2, <1>3, <1>4, <1>5, <1>6 DEF Settled
<1>8. ASSUME d = Top(u)', pc'[u] = "callback"
      PROVE  /\ modules'[m] = "loaded"
             /\ \A v \in Threads : \A e \in 2 .. Top(v)' :
                   Fr(v, e)'.name = m => Fr(v, e)'.lock = NoLock
  <2>1. /\ modules[m] = "loaded"
        /\ \A v \in Threads : \A e \in 2 .. Top(v) : Fr(v, e).name = m => Fr(v, e).lock = NoLock
    BY <1>1, <1>2, <1>3, <1>4, <1>8 DEF Settled
  <2> QED BY <2>1, AloneKept
<1>9. m = Fr(u, d)'.name
  BY <1>2, <1>3
<1> QED BY <1>7, <1>8, <1>9 DEF Settled

\* The innermost import of the thread that takes a step among its locks.
LEMMA LockSettled ==
  ASSUME IInv, OneLock, Named, AllSettled, NEW t \in Threads, Step(t), ~Fails(t),
         \/ Register(t) \/ Acquire(t) \/ Chase(t) \/ Hop(t) \/ Queue(t) \/ Wait(t)
         \/ PassOn(t) \/ Unregister(t) \/ Release(t),
         NEW m \in Modules, Top(t) > 1, Import(t).name = m
  PROVE  /\ pc'[t] = "release" => Import(t).mode = "check" /\ modules[m] # "absent"
         /\ pc'[t] \in {"chase", "hop", "deadlock", "drop"} => Begun(m)
         /\ pc'[t] # "callback"
<1>1. PICK n \in Nat : n = Top(t) /\ n \in 2 .. n /\ Import(t) = Fr(t, n)
  BY TopFrame DEF IInv
<1>2. /\ Settled(t, n) /\ Fr(t, n).mode \in {"load", "check"}
  BY <1>1, FrTyped DEF AllSettled
<1>3. /\ <<pc[t], pc'[t]>> \in Moves
      /\ pc[t] = "acquire" /\ pc'[t] = "chase" => Self(t).count # 0
      /\ pc[t] = "acquired" /\ pc'[t] = "release" => Import(t).mode # "load"
  BY LockImports
<1>4. ASSUME pc'[t] = "release" PROVE Import(t).mode = "check" /\ modules[m] # "absent"
  <2>1. pc[t] = "acquired"
    BY <1>3, <1>4 DEF Moves
  <2> QED BY <1>1, <1>2, <1>3, <1>4, <2>1 DEF Settled
<1>5. ASSUME pc'[t] \in {"chase", "hop", "deadlock", "drop"} PROVE Begun(m)
  <2>1. \/ pc[t] = "acquire" /\ pc'[t] = "chase"
        \/ pc[t] \in {"chase", "hop", "deadlock"}
        \/ pc[t] = "release"
    BY <1>3, <1>5 DEF Moves
  <2>2. CASE pc[t] = "acquire" /\ pc'[t] = "chase"
    BY <1>3, <2>2, TakenBusy DEF Begun
  <2>3. CASE pc[t] \in {"chase", "hop", "deadlock"}
    BY <1>1, <1>2, <2>3 DEF Settled
  <2>4. CASE pc[t] = "release"
    BY <1>1, <1>2, <2>4 DEF Settled, Begun
  <2> QED BY <2>1, <2>2, <2>3, <2>4
<1>6. pc'[t] # "callback"
  BY <1>3 DEF Moves
<1> QED BY <1>4, <1>5, <1>6

\* The last reference to the lock of a module goes only when it is loaded.
LEMMA FreedSettled ==
  ASSUME IInv, OneLock, Initializing, AllSettled, NEW t \in Threads, Drop(t), pc'[t] = "callback"
  PROVE  /\ modules'[Import(t).name] = "loaded"
         /\ \A u \in Threads : \A e \in 2 .. Top(u)' :
               Fr(u, e)'.name = Import(t).name => Fr(u, e)'.lock = NoLock
<1>1. /\ Others(t) /\ modules' = modules /\ pc[t] = "drop" /\ Frees(t)
      /\ \A u \in Threads : \A d \in 2 .. Top(u) :
            u # t \/ d # Top(t) => Fr(u, d).lock # Import(t).lock
  BY DropImports
<1>2. PICK n \in Nat : n = Top(t) /\ n \in 2 .. n /\ Import(t) = Fr(t, n)
  BY <1>1, TopFrame, TopLock DEF IInv
<1>3. PICK m \in Modules : m = Import(t).name
  BY <1>1, TopLock DEF IInv
<1>4. Import(t).lock = module_locks[m]
  BY <1>1, <1>2, <1>3, TopLock, NoLockIsNone DEF OneLock, IInv
<1>5. ASSUME NEW u \in Threads, NEW e \in 2 .. Top(u), Fr(u, e).name = m, u # t \/ e # n
      PROVE  Fr(u, e).lock = NoLock
  BY <1>1, <1>2, <1>4, <1>5 DEF OneLock
<1>6. ASSUME NEW P, P \subseteq Holding, NEW u \in Threads, NEW M, In(u, m, P, M) PROVE FALSE
  <2>1. PICK e \in 2 .. Top(u) : Fr(u, e).name = m /\ (e < Top(u) \/ pc[u] \in Holding)
    BY <1>6 DEF In
  <2>2. Fr(u, e).lock # NoLock
    <3>1. ~(e = Top(u) /\ pc[u] = "callback")
      BY <2>1, TopFrame DEF Holding, IInv
    <3> QED BY <2>1, <3>1, NoLockIsNone DEF IInv, Shape
  <2>3. u = t /\ e = n
    BY <1>5, <2>1, <2>2
  <2> QED BY <1>1, <1>2, <2>1, <2>3 DEF Holding
<1>7. modules[m] = "loaded"
  <2>1. Begun(m)
    BY <1>1, <1>2, <1>3 DEF AllSettled, Settled
  <2>2. modules[m] # "absent"
    BY <1>6, <2>1 DEF Begun
  <2>3. {"run", "raise"} \subseteq Holding
    BY DEF Holding
  <2>4. modules[m] # "initializing"
    BY <1>6, <2>3 DEF Initializing
  <2> QED BY <2>2, <2>4 DEF IInv, Typed
<1>8. ASSUME NEW u \in Threads, NEW e \in 2 .. Top(u)', Fr(u, e)'.name = m
      PROVE  Fr(u, e)'.lock = NoLock
  <2>0. e \in Nat /\ e >= 2 /\ e <= Top(u)'
    BY <1>8
  <2>1. /\ e \in 2 .. Top(u) /\ Fr(u, e)'.name = Fr(u, e).name
        /\ Fr(u, e)'.lock = Fr(u, e).lock \/ Fr(u, e)'.lock = NoLock
    BY <1>1, <2>0, OldFrames
  <2>2. CASE u # t \/ e # n
    BY <1>5, <1>8, <2>1, <2>2
  <2>3. CASE u = t /\ e = n
    <3>1. PICK x : x = [Fr(t, n) EXCEPT !.lock = NoLock]
      OBVIOUS
    <3>2. x.lock = NoLock
      BY <1>2, <3>1, FrTyped DEF Frames
    <3>3. SameImport(Fr(t, n)', x)
      BY <1>1, <1>2, <3>1 DEF Frees
    <3> QED BY <2>3, <3>2, <3>3 DEF SameImport
  <2> QED BY <2>2, <2>3
<1> QED BY <1>1, <1>3, <1>7, <1>8

LEMMA OwnSettled ==
  ASSUME IInv, OneLock, Initializing, Named, AllSettled, NEW t \in Threads, Step(t), ~Fails(t),
         NEW d \in 2 .. Top(t)'
  PROVE  Settled(t, d)'
<1>1. d \in Nat /\ d >= 2 /\ d <= Top(t)'
  OBVIOUS
<1>2. Fr(t, d)'.mode = "check" => modules'[Fr(t, d)'.name] # "absent"
  BY <1>1, CheckedKept
<1>3. CASE d # Top(t)' \/ pc'[t] \in {"run", "raise", "register"}
  BY <1>2, <1>3 DEF Settled
<1>4. ASSUME Stays(t), d = Top(t)'
      PROVE  /\ Fr(t, d)'.name = Import(t).name /\ Fr(t, d)'.mode = Import(t).mode
             /\ Import(t).name \in Modules /\ Top(t) > 1
  <2>1. PICK n \in Nat : n = Top(t) /\ Import(t) = Fr(t, n)
    BY TopFrame DEF IInv
  <2>2. d = n /\ n \in 2 .. n
    BY <1>1, <1>4, <2>1 DEF Stays
  <2> QED BY <1>4, <2>1, <2>2, FrTyped DEF Stays, Outer, SameImport
<1>5. CASE /\ d = Top(t)'
           /\ \/ Register(t) \/ Acquire(t) \/ Chase(t) \/ Hop(t) \/ Queue(t) \/ Wait(t)
              \/ PassOn(t) \/ Unregister(t) \/ Release(t)
  <2>1. PICK m \in Modules : m = Import(t).name /\ m = Fr(t, d)'.name /\ Top(t) > 1
    BY <1>4, <1>5, LockImports
  <2>2. /\ pc'[t] = "release" => modules[m] # "absent"
        /\ pc'[t] \in {"chase", "hop", "deadlock", "drop"} => Begun(m)
        /\ pc'[t] # "callback"
    BY <1>5, <2>1, LockSettled
  <2>3. /\ pc'[t] = "release" => modules'[m] # "absent"
        /\ pc'[t] \in {"chase", "hop", "deadlock", "drop"} => Begun(m)'
        /\ pc'[t] # "callback"
    BY <2>2, NotAbsentKept, BegunKept
  <2> QED BY <1>2, <2>1, <2>3 DEF Settled
<1>6. CASE d = Top(t)' /\ (Load(t) \/ Loaded(t))
  <2>1. PICK m \in Modules : m = Import(t).name /\ m = Fr(t, d)'.name
    BY <1>4, <1>6, LoadImports
  <2>2. pc'[t] = "run" \/ (pc'[t] = "release" /\ modules'[m] = "loaded")
    BY <1>6, <2>1, LoadImports DEF IInv, Typed
  <2> QED BY <1>2, <2>1, <2>2 DEF Settled
<1>7. CASE d = Top(t)' /\ Look(t)
  <2>1. pc'[t] \in {"run", "register"}
    BY <1>7, LookImports
  <2> QED BY <1>2, <2>1 DEF Settled
<1>8. CASE d = Top(t)' /\ (Drop(t) \/ Callback(t))
  <2>1. CASE pc'[t] \in {"run", "raise"}
    BY <1>2, <2>1 DEF Settled
  <2>2. CASE Drop(t) /\ pc'[t] = "callback"
    <3>1. /\ modules'[Import(t).name] = "loaded"
          /\ \A u \in Threads : \A e \in 2 .. Top(u)' :
                Fr(u, e)'.name = Import(t).name => Fr(u, e)'.lock = NoLock
      BY <2>2, FreedSettled
    <3>2. Fr(t, d)'.name = Import(t).name
      <4>1. PICK n \in Nat : n = Top(t) /\ Import(t) = Fr(t, n)
        BY TopFrame DEF IInv
      <4>2. Frees(t) /\ d = n /\ n \in 2 .. n
        BY <1>1, <1>8, <2>2, <4>1, DropImports DEF Frees
      <4>3. Fr(t, d)'.name = Fr(t, d).name
        BY <1>1, <4>1, <4>2, <2>2, DropImports, OldFrames
      <4> QED BY <4>1, <4>2, <4>3
    <3> QED BY <1>2, <2>2, <3>1, <3>2 DEF Settled
  <2>3. pc'[t] \in {"run", "raise"} \/ (Drop(t) /\ pc'[t] = "callback")
    BY <1>8, DropImports, CallbackImports
  <2> QED BY <2>1, <2>2, <2>3
<1> QED BY <1>3, <1>5, <1>6, <1>7, <1>8 DEF Step

\* Everything the proof needs beyond IInv.
Orderly == OneLock /\ Initializing /\ Named /\ AllSettled

LEMMA OrderlyIsUndisturbed ==
  ASSUME IInv, AllSettled
  PROVE  Undisturbed
<1>1. ASSUME NEW t \in Threads, pc[t] = "callback"
      PROVE  \A u \in Threads : \A d \in 2 .. Top(u) :
                Fr(u, d).name = Import(t).name => Fr(u, d).lock = NoLock
  <2>1. PICK n \in Nat : n = Top(t) /\ n \in 2 .. n /\ Import(t) = Fr(t, n)
    BY <1>1, TopFrame, TopLock DEF IInv
  <2> QED BY <1>1, <2>1 DEF AllSettled, Settled
<1> QED BY <1>1 DEF Undisturbed

LEMMA OrderlyKept ==
  ASSUME IInv, Orderly,
         UNCHANGED vars \/ \E t \in Threads : Step(t) /\ ~Fails(t)
  PROVE  Orderly'
<1>1. CASE UNCHANGED vars
  <2>1. modules' = modules /\ module_locks' = module_locks /\ stack' = stack /\ pc' = pc
    BY <1>1 DEF vars
  <2>2. \A t : Top(t)' = Top(t) /\ \A d : Fr(t, d)' = Fr(t, d)
    BY <2>1 DEF Top, Fr
  <2>3. Named'
    BY <2>1 DEF Named, Orderly
  <2>4. \A m : Begun(m) => Begun(m)'
    BY <2>1, <2>2 DEF Begun, In
  <2>5. ASSUME NEW t \in Threads, NEW d \in 2 .. Top(t)' PROVE Settled(t, d)'
    <3>1. Settled(t, d) /\ Top(t)' = Top(t) /\ Fr(t, d)' = Fr(t, d)
      BY <2>2 DEF Orderly, AllSettled
    <3>2. PICK f : f = Fr(t, d) /\ f = Fr(t, d)'
      BY <3>1
    <3>3. \A u \in Threads : \A e \in 2 .. Top(u)' :
             Fr(u, e)'.name = f.name => (e \in 2 .. Top(u) /\ Fr(u, e)' = Fr(u, e))
      BY <2>2
    <3> QED BY <2>1, <2>4, <3>1, <3>2, <3>3 DEF Settled
  <2> QED BY <1>1, <2>3, <2>5, SameImports DEF Orderly, AllSettled
<1>2. ASSUME NEW t \in Threads, Step(t), ~Fails(t) PROVE Orderly'
  <2>1. OneLock' /\ Initializing' /\ Named'
    BY <1>2, OneLockKept, InitializingKept, NamedKept, OrderlyIsUndisturbed DEF Orderly
  <2>2. ASSUME NEW u \in Threads, NEW d \in 2 .. Top(u)' PROVE Settled(u, d)'
    BY <1>2, <2>2, OwnSettled, OtherSettled DEF Orderly
  <2> QED BY <2>1, <2>2 DEF Orderly, AllSettled
<1> QED BY <1>1, <1>2

(***************************************************************************)
(* As long as no load fails - the module is there, its body raises nothing *)
(* and no _DeadlockError comes out of it - the callbacks come in time: a   *)
(* module has one loader at a time, and only its loader gets it while it   *)
(* is being loaded.                                                        *)
(***************************************************************************)
THEOREM OneLoaderWithoutFailures ==
  Spec /\ [][\A t \in Threads : ~Fails(t)]_vars => [](OneLoader /\ PartialOnlyToLoaders)
<1>1. Init => Orderly
  <2>1. ASSUME Init PROVE Named /\ AllSettled
    <3>1. \A m \in Modules : module_locks[m] = NoLock
      BY <2>1 DEF Init
    <3>2. \A t \in Threads : Top(t) = 1
      BY <2>1, InitialImports
    <3> QED BY <3>1, <3>2, NoLockIsNone DEF Named, AllSettled
  <2> QED BY <2>1, InitialImports DEF Orderly
<1>2. IInv /\ Orderly /\ [Next]_vars /\ [\A t \in Threads : ~Fails(t)]_vars => Orderly'
  BY OrderlyKept DEF Next
<1>3. IInv /\ Orderly => Undisturbed
  BY OrderlyIsUndisturbed DEF Orderly
<1>4. Spec /\ [][\A t \in Threads : ~Fails(t)]_vars => []Undisturbed
  BY <1>1, <1>2, <1>3, Invariance, PTL DEF Spec
<1> QED BY <1>4, OneLoaderUnlessDisturbed, PTL

-----------------------------------------------------------------------------
(* The wakeup of a lock *)

\* wakeup stands for a waiter that nobody has woken, or for a thread that has been
\* woken and has not passed it on.
Wakeup(l) ==
  /\ lock[l].waiters \in 0 .. 1
  /\ lock[l].waiters = 1 => lock[l].wakeup
  /\ \A t \in Threads :
        pc[t] = "woken" /\ Import(t).lock = l =>
           /\ lock[l].wakeup /\ lock[l].waiters = 0
           /\ \A u \in Threads : pc[u] = "woken" /\ Import(u).lock = l => u = t

Wakeups == program \in Programs /\ \A l \in Locks : Wakeup(l)

\* A lock after a step.
SameLock(l) == lock'[l].waiters = lock[l].waiters /\ lock'[l].wakeup = lock[l].wakeup

LEMMA LockAfter ==
  ASSUME IInv, NEW t \in Threads, Step(t), NEW l \in Locks
  PROVE  \/ SameLock(l) /\ pc'[t] # "woken"
         \/ /\ l # Import(t).lock /\ SameLock(l)
            /\ pc[t] = "wait" /\ stack' = stack
         \/ /\ l = Import(t).lock /\ pc[t] = "queue" /\ pc'[t] # "woken"
            /\ lock'[l].waiters = IF lock[l].wakeup THEN lock[l].waiters ELSE lock[l].waiters + 1
            /\ lock'[l].wakeup
         \/ /\ l = Import(t).lock /\ pc[t] = "wait" /\ stack' = stack
            /\ ~lock[l].wakeup /\ lock'[l].wakeup /\ lock'[l].waiters = lock[l].waiters
         \/ /\ l = Import(t).lock /\ pc[t] = "woken" /\ pc'[t] # "woken"
            /\ ~lock'[l].wakeup /\ lock'[l].waiters = lock[l].waiters
         \/ /\ pc'[t] # "woken" /\ lock[l].waiters > 0
            /\ ~lock'[l].wakeup /\ lock'[l].waiters = lock[l].waiters - 1
         \/ /\ pc'[t] # "woken" /\ l \notin Referenced
            /\ ~lock'[l].wakeup /\ lock'[l].waiters = 0
<1>1. Typed /\ IsLock(lock[l])
  BY DEF IInv, Typed, IsLock
<1>2. ASSUME NEW x, IsLock(x), lock' = [lock EXCEPT ![Import(t).lock] = x],
             pc[t] \notin {"run", "callback"}
      PROVE  lock'[l] = IF l = Import(t).lock THEN x ELSE lock[l]
  <2>1. Import(t).lock \in Locks
    BY <1>2, TopLock DEF IInv
  <2> QED BY <1>1, <1>2, <2>1, LockChanged
<1>3. ASSUME pc[t] \notin {"run", "callback"}
      PROVE  IsLock(Self(t)) /\ (l = Import(t).lock => Self(t) = lock[l])
  <2>1. Import(t).lock \in Locks
    BY <1>3, TopLock DEF IInv
  <2> QED BY <2>1 DEF IInv, Typed, IsLock, Self
<1>4. ASSUME NEW p \in Places, Goto(t, p) PROVE pc'[t] = p
  BY <1>1, <1>4, PcChanged
<1>5. CASE lock' = lock /\ pc'[t] # "woken"
  BY <1>5 DEF SameLock
<1>6. CASE \/ Register(t) \/ Chase(t) \/ Unregister(t) \/ Load(t) \/ Loaded(t) \/ Fails(t)
           \/ Drop(t) \/ Callback(t)
  <2>1. lock' = lock
    BY <1>6 DEF Register, Chase, Unregister, Load, Loaded, Fails, Drop, Callback
  <2>2. CASE Register(t) \/ Chase(t) \/ Unregister(t)
    <3>1. <<pc[t], pc'[t]>> \in Moves /\ pc[t] # "wait"
      BY <2>2, LockImports DEF Register, Chase, Unregister
    <3> QED BY <1>5, <2>1, <3>1 DEF Moves
  <2>3. CASE \/ Load(t) \/ Loaded(t) \/ Fails(t) \/ Drop(t) \/ Callback(t)
    <3>1. pc'[t] # "woken"
      BY <2>3, LoadImports, FailsImports, DropImports, CallbackImports
    <3> QED BY <1>5, <2>1, <3>1
  <2> QED BY <1>6, <2>2, <2>3
<1>7. ASSUME NEW x, IsLock(x), lock' = [lock EXCEPT ![Import(t).lock] = x],
             x.waiters = Self(t).waiters, x.wakeup = Self(t).wakeup,
             pc[t] \notin {"run", "callback"}, pc'[t] # "woken"
      PROVE  SameLock(l) /\ pc'[t] # "woken"
  BY <1>2, <1>3, <1>7 DEF SameLock
<1>8. CASE Acquire(t)
  <2>1. pc[t] = "acquire" /\ <<pc[t], pc'[t]>> \in Moves
    BY <1>8, LockImports DEF Acquire
  <2>2. pc'[t] # "woken" /\ pc[t] \notin {"run", "callback"}
    BY <2>1 DEF Moves
  <2>3. PICK s : s = Self(t)
    OBVIOUS
  <2>4. IsLock(s)
    BY <1>3, <2>2, <2>3
  <2>5. \E x : /\ IsLock(x) /\ x.waiters = s.waiters /\ x.wakeup = s.wakeup
               /\ lock' = [lock EXCEPT ![Import(t).lock] = x]
    <3>1. CASE lock' = [lock EXCEPT ![Import(t).lock].owner = t, ![Import(t).lock].count = @ + 1]
      <4>1. PICK c \in Nat : c = s.count + 1
        BY <2>4 DEF IsLock
      <4>2. PICK x : x = [s EXCEPT !.owner = t, !.count = c]
        OBVIOUS
      <4>3. IsLock(x) /\ x.waiters = s.waiters /\ x.wakeup = s.wakeup
        BY <2>4, <4>2 DEF IsLock
      <4>4. PICK k \in Locks : k = Import(t).lock
        BY <2>2, TopLock DEF IInv
      <4>5. lock' = [lock EXCEPT ![k] = x]
        BY <1>1, <2>3, <3>1, <4>1, <4>2, <4>4 DEF Self, Typed
      <4> QED BY <4>3, <4>4, <4>5
    <3>2. CASE lock' = [lock EXCEPT ![Import(t).lock].mutex = TRUE]
      <4>1. PICK x : x = [s EXCEPT !.mutex = TRUE]
        OBVIOUS
      <4>2. IsLock(x) /\ x.waiters = s.waiters /\ x.wakeup = s.wakeup
        BY <2>4, <4>1 DEF IsLock
      <4>3. lock' = [lock EXCEPT ![Import(t).lock] = x]
        BY <2>3, <3>2, <4>1 DEF Self
      <4> QED BY <4>2, <4>3
    <3> QED BY <1>8, <3>1, <3>2 DEF Acquire
  <2> QED BY <1>7, <2>2, <2>3, <2>5
<1>9. CASE Hop(t)
  <2>1. pc[t] = "hop" /\ <<pc[t], pc'[t]>> \in Moves
    BY <1>9, LockImports DEF Hop
  <2>2. pc'[t] # "woken" /\ pc[t] \notin {"run", "callback"}
    BY <2>1 DEF Moves
  <2>3. CASE lock' = lock
    BY <1>5, <2>2, <2>3
  <2>4. CASE lock' = [lock EXCEPT ![Import(t).lock].mutex = FALSE]
    <3>1. PICK x : x = [Self(t) EXCEPT !.mutex = FALSE]
      OBVIOUS
    <3>2. IsLock(x) /\ x.waiters = Self(t).waiters /\ x.wakeup = Self(t).wakeup
      BY <1>3, <2>2, <3>1 DEF IsLock
    <3>3. lock' = [lock EXCEPT ![Import(t).lock] = x]
      BY <2>4, <3>1 DEF Self
    <3> QED BY <1>7, <2>2, <3>2, <3>3
  <2> QED BY <1>9, <2>3, <2>4 DEF Hop
<1>10. CASE Queue(t)
  <2>1. pc[t] = "queue" /\ pc'[t] = "wait"
    BY <1>4, <1>10 DEF Queue, Places
  <2>2. IsLock(Self(t)) /\ (l = Import(t).lock => Self(t) = lock[l])
    BY <1>3, <2>1
  <2>3. PICK w : w = IF Self(t).wakeup THEN Self(t).waiters ELSE Self(t).waiters + 1
    OBVIOUS
  <2>4. PICK x : x = [Self(t) EXCEPT !.mutex = FALSE, !.wakeup = TRUE, !.waiters = w]
    OBVIOUS
  <2>5. w \in Nat
    BY <2>2, <2>3 DEF IsLock
  <2>6. IsLock(x) /\ x.wakeup /\ x.waiters = w
    BY <2>2, <2>4, <2>5 DEF IsLock
  <2>7. lock' = [lock EXCEPT ![Import(t).lock] = x]
    <3>1. [Self(t) EXCEPT !.mutex = FALSE, !.wakeup = TRUE,
                          !.waiters = IF Self(t).wakeup THEN @ ELSE @ + 1] = x
      BY <2>2, <2>3, <2>4 DEF IsLock
    <3> QED BY <1>10, <3>1 DEF Queue
  <2>8. lock'[l] = IF l = Import(t).lock THEN x ELSE lock[l]
    BY <1>2, <2>1, <2>6, <2>7
  <2> QED BY <2>1, <2>2, <2>3, <2>6, <2>8 DEF SameLock
<1>11. CASE Wait(t)
  <2>1. pc[t] = "wait" /\ ~Self(t).wakeup /\ stack' = stack
    BY <1>11 DEF Wait
  <2>2. IsLock(Self(t)) /\ (l = Import(t).lock => Self(t) = lock[l])
    BY <1>3, <2>1
  <2>3. PICK x : x = [Self(t) EXCEPT !.wakeup = TRUE]
    OBVIOUS
  <2>4. IsLock(x) /\ x.wakeup /\ x.waiters = Self(t).waiters
    BY <2>2, <2>3 DEF IsLock
  <2>5. lock' = [lock EXCEPT ![Import(t).lock] = x]
    BY <1>11, <2>3 DEF Wait, Self
  <2>6. lock'[l] = IF l = Import(t).lock THEN x ELSE lock[l]
    BY <1>2, <2>1, <2>4, <2>5
  <2> QED BY <2>1, <2>2, <2>4, <2>6 DEF SameLock
<1>12. CASE PassOn(t)
  <2>1. pc[t] = "woken" /\ pc'[t] = "acquire"
    BY <1>4, <1>12 DEF PassOn, Places
  <2>2. IsLock(Self(t)) /\ (l = Import(t).lock => Self(t) = lock[l])
    BY <1>3, <2>1
  <2>3. PICK x : x = [Self(t) EXCEPT !.wakeup = FALSE]
    OBVIOUS
  <2>4. IsLock(x) /\ ~x.wakeup /\ x.waiters = Self(t).waiters
    BY <2>2, <2>3 DEF IsLock
  <2>5. lock' = [lock EXCEPT ![Import(t).lock] = x]
    BY <1>12, <2>3 DEF PassOn, Self
  <2>6. lock'[l] = IF l = Import(t).lock THEN x ELSE lock[l]
    BY <1>2, <2>1, <2>4, <2>5
  <2> QED BY <2>1, <2>2, <2>4, <2>6 DEF SameLock
<1>13. CASE Release(t)
  <2>1. pc[t] = "release" /\ pc'[t] = "drop"
    BY <1>4, <1>13 DEF Release, Places
  <2>2. PICK s : s = Self(t)
    OBVIOUS
  <2>3. IsLock(s) /\ (l = Import(t).lock => s = lock[l])
    BY <1>3, <2>1, <2>2
  <2>4. PICK x : x = [s EXCEPT !.count = @ - 1,
                               !.owner = IF s.count = 1 THEN NoOne ELSE @,
                               !.waiters = IF Wakes(s) THEN @ - 1 ELSE @,
                               !.wakeup = IF Wakes(s) THEN FALSE ELSE @]
    OBVIOUS
  <2>5. /\ x.waiters = IF Wakes(s) THEN s.waiters - 1 ELSE s.waiters
        /\ x.wakeup = IF Wakes(s) THEN FALSE ELSE s.wakeup
        /\ Wakes(s) => s.waiters > 0
    BY <2>3, <2>4 DEF IsLock, Wakes
  <2>6. lock' = [lock EXCEPT ![Import(t).lock] = x]
    BY <1>13, <2>2, <2>4 DEF Release
  <2>7. lock'[l] = IF l = Import(t).lock THEN x ELSE lock[l]
    BY <1>1, <2>6 DEF Typed
  <2> QED BY <2>1, <2>3, <2>5, <2>7 DEF SameLock
<1>14. CASE Look(t)
  <2>1. pc'[t] # "woken"
    BY <1>14, LookImports
  <2>2. CASE lock' = lock
    BY <1>5, <2>1, <2>2
  <2>3. ASSUME NEW k \in Locks, k \notin Referenced, lock' = [lock EXCEPT ![k] = NewLock]
        PROVE  \/ SameLock(l)
               \/ l \notin Referenced /\ ~lock'[l].wakeup /\ lock'[l].waiters = 0
    <3>1. NewLock.waiters = 0 /\ NewLock.wakeup = FALSE
      BY DEF NewLock
    <3>2. lock'[l] = IF l = k THEN NewLock ELSE lock[l]
      BY <1>1, <2>3 DEF Typed
    <3> QED BY <2>3, <3>1, <3>2 DEF SameLock
  <2>4. \/ lock' = lock
        \/ \E k \in Locks : k \notin Referenced /\ lock' = [lock EXCEPT ![k] = NewLock]
    <3>1. \/ lock' = lock
          \/ \E m \in Modules, k \in Locks : GetModuleLock(m, k)
      BY <1>14, LookCases
    <3> QED BY <3>1, GotLock
  <2> QED BY <2>1, <2>2, <2>3, <2>4
<1> QED BY <1>6, <1>8, <1>9, <1>10, <1>11, <1>12, <1>13, <1>14 DEF Step

LEMMA WakeupKept ==
  ASSUME IInv, Wakeups, NEW t \in Threads, Step(t), NEW l \in Locks
  PROVE  Wakeup(l)'
<1> DEFINE Woken(u) == pc[u] = "woken" /\ Import(u).lock = l
<1>1. ASSUME NEW u \in Threads \ {t} PROVE Woken(u)' <=> Woken(u)
  <2>1. stack'[u] = stack[u] /\ pc'[u] = pc[u]
    BY StepImports DEF Others
  <2> QED BY <2>1 DEF Import
<1>2. /\ lock[l].waiters \in 0 .. 1
      /\ lock[l].waiters = 1 => lock[l].wakeup
      /\ \A u \in Threads : Woken(u) =>
            /\ lock[l].wakeup /\ lock[l].waiters = 0
            /\ \A v \in Threads : Woken(v) => v = u
  BY DEF Wakeups, Wakeup
<1>3. lock[l].wakeup \in BOOLEAN
  BY DEF IInv, Typed
<1>4. stack' = stack => Import(t)' = Import(t)
  BY DEF Import
<1>5. pc'[t] # "woken" => ~Woken(t)'
  OBVIOUS
<1>6. /\ l = Import(t).lock /\ pc[t] = "woken" => Woken(t)
      /\ l # Import(t).lock /\ stack' = stack => ~Woken(t)'
      /\ l \notin Referenced => \A u \in Threads : ~Woken(u)
  <2>1. ASSUME NEW u \in Threads, l \notin Referenced PROVE Import(u).lock # l
    <3>1. PICK n \in Nat : n = Top(u) /\ n \in 1 .. n /\ Import(u) = Fr(u, n)
      BY TopFrame DEF IInv
    <3> QED BY <2>1, <3>1, Unreferenced DEF IInv
  <2> QED BY <1>4, <2>1
<1>7. /\ lock'[l].waiters \in 0 .. 1
      /\ lock'[l].waiters = 1 => lock'[l].wakeup
      /\ \A u \in Threads : Woken(u)' =>
            /\ lock'[l].wakeup /\ lock'[l].waiters = 0
            /\ \A v \in Threads : Woken(v)' => v = u
  <2> HIDE DEF Woken
  <2>1. CASE SameLock(l) /\ ~Woken(t)'
    BY <1>1, <1>2, <2>1 DEF SameLock
  <2>2. CASE /\ ~Woken(t)' /\ lock'[l].wakeup
             /\ lock'[l].waiters = IF lock[l].wakeup THEN lock[l].waiters ELSE lock[l].waiters + 1
    BY <1>1, <1>2, <2>2
  <2>3. CASE ~lock[l].wakeup /\ lock'[l].wakeup /\ lock'[l].waiters = lock[l].waiters
    BY <1>1, <1>2, <2>3
  <2>4. CASE /\ Woken(t) /\ ~Woken(t)'
             /\ ~lock'[l].wakeup /\ lock'[l].waiters = lock[l].waiters
    BY <1>1, <1>2, <2>4
  <2>5. CASE /\ ~Woken(t)' /\ lock[l].waiters > 0
             /\ ~lock'[l].wakeup /\ lock'[l].waiters = lock[l].waiters - 1
    BY <1>1, <1>2, <2>5
  <2>6. CASE /\ ~Woken(t)' /\ (\A u \in Threads : ~Woken(u))
             /\ ~lock'[l].wakeup /\ lock'[l].waiters = 0
    BY <1>1, <2>6
  <2> QED BY <1>5, <1>6, <2>1, <2>2, <2>3, <2>4, <2>5, <2>6, LockAfter
<1> QED BY <1>7 DEF Wakeup

LEMMA WakeupsKept ==
  ASSUME IInv, Wakeups, [Next]_vars
  PROVE  Wakeups'
<1>1. CASE UNCHANGED vars
  BY <1>1 DEF vars, Wakeups, Wakeup, Import
<1>2. ASSUME NEW t \in Threads, Step(t) PROVE Wakeups'
  <2>1. program' = program
    BY <1>2 DEF Step, Look, Register, Acquire, Chase, Hop, Queue, Wait, PassOn, Unregister,
                Load, Loaded, Fails, Release, Drop, Callback
  <2> QED BY <1>2, <2>1, WakeupKept DEF Wakeups
<1> QED BY <1>1, <1>2 DEF Next

LEMMA InitialWakeups ==
  ASSUME Init
  PROVE  Wakeups
<1>1. ASSUME NEW l \in Locks PROVE Wakeup(l)
  <2>1. lock[l].waiters = 0 /\ \A t \in Threads : pc[t] = "run"
    BY DEF Init, NewLock
  <2> QED BY <2>1 DEF Wakeup
<1> QED BY <1>1 DEF Init, Wakeups

(***************************************************************************)
(* Every variable has its type, and in particular a lock never has more    *)
(* than one waiter to be woken up.                                         *)
(***************************************************************************)
THEOREM TypeCorrect == Spec => []TypeOK
<1>1. Init => Wakeups
  BY InitialWakeups
<1>2. IInv /\ Wakeups /\ [Next]_vars => Wakeups'
  BY WakeupsKept
<1>3. ASSUME IInv, Wakeups PROVE TypeOK
  <2>1. ASSUME NEW l \in Locks
        PROVE  lock[l] \in [owner : Threads \cup {NoOne}, count : Nat, waiters : 0 .. 1,
                            mutex : BOOLEAN, wakeup : BOOLEAN]
    <3>1. /\ lock[l] \in [owner : Threads \cup {NoOne}, count : Nat, waiters : Nat,
                          mutex : BOOLEAN, wakeup : BOOLEAN]
          /\ lock[l].waiters \in 0 .. 1
      BY <1>3 DEF IInv, Typed, Wakeups, Wakeup
    <3> QED BY <3>1
  <2> QED BY <1>3, <2>1 DEF IInv, Typed, TypeOK, Wakeups
<1> QED BY <1>1, <1>2, <1>3, Invariance, PTL DEF Spec

\* What the code would raise RuntimeError for does not happen.
ReleasesSucceed ==
  \A t \in Threads :
     /\ pc[t] = "release" => Self(t).owner = t /\ Self(t).count > 0
     /\ pc[t] = "release" /\ Wakes(Self(t)) => Self(t).wakeup
     /\ pc[t] = "woken" => Self(t).wakeup

(***************************************************************************)
(* Who releases a _ModuleLock owns it ("cannot release un-acquired lock"), *)
(* and its wakeup is only released, by the owner or by a thread that was   *)
(* woken up, while it is taken: release() and acquire() never raise        *)
(* RuntimeError, except for _DeadlockError.                                *)
(***************************************************************************)
THEOREM ReleaseNeverRaises == Spec => []ReleasesSucceed
<1>1. Init => Wakeups
  BY InitialWakeups
<1>2. IInv /\ Wakeups /\ [Next]_vars => Wakeups'
  BY WakeupsKept
<1>3. ASSUME IInv, Wakeups PROVE ReleasesSucceed
  <2>1. ASSUME NEW t \in Threads, pc[t] = "release"
        PROVE  /\ Self(t).owner = t /\ Self(t).count > 0
               /\ Wakes(Self(t)) => Self(t).wakeup
    <3>1. PICK l \in Locks : l = Import(t).lock
      BY <1>3, <2>1, TopLock DEF IInv
    <3>2. PICK n \in Nat : n = Top(t) /\ n \in 2 .. n /\ Import(t) = Fr(t, n)
      BY <1>3, <2>1, TopLock, TopFrame DEF IInv
    <3>3. Owned(l) /\ lock[l].count \in Nat /\ lock[l].waiters \in 0 .. 1
      BY <1>3 DEF IInv, Typed, Wakeups, Wakeup
    <3>4. <<t, n>> \in Holders(l)
      <4>1. Holds(t, n, l)
        BY <2>1, <3>1, <3>2 DEF Holds, Holding
      <4>2. <<t, n>> \in Threads \X Nat /\ <<t, n>>[1] = t /\ <<t, n>>[2] = n
        OBVIOUS
      <4> QED BY <4>1, <4>2 DEF Holders
    <3>5. lock[l].owner = t
      BY <3>3, <3>4 DEF Owned
    <3>6. lock[l].count # 0
      BY <3>3, <3>5, ImportAssumption DEF Owned
    <3>7. lock[l].waiters > 0 => lock[l].wakeup
      BY <1>3, <3>3 DEF Wakeups, Wakeup
    <3> QED BY <3>1, <3>3, <3>5, <3>6, <3>7 DEF Self, Wakes
  <2>2. ASSUME NEW t \in Threads, pc[t] = "woken" PROVE Self(t).wakeup
    <3>1. Import(t).lock \in Locks
      BY <1>3, <2>2, TopLock DEF IInv
    <3> QED BY <1>3, <2>2, <3>1 DEF Wakeups, Wakeup, Self
  <2> QED BY <2>1, <2>2 DEF ReleasesSucceed
<1> QED BY <1>1, <1>2, <1>3, Invariance, PTL DEF Spec
=============================================================================
