--------------------------- MODULE MCCollector ---------------------------
(***************************************************************************)
(* Heaps for Collector: three objects, a weak reference, and a second one  *)
(* that Python code may create.                                            *)
(***************************************************************************)
EXTENDS Collector, TLC

CONSTANTS a, b, c, w, v

Upto(n, S) == {s \in SUBSET S : Cardinality(s) <= n}

Kinds == {a :> "finalizer" @@ b :> k[1] @@ c :> k[2] @@ w :> "weakref" @@ v :> "weakref" :
            k \in {<<"plain", "plain">>, <<"finalizer", "plain">>, <<"plain", "legacy">>}}

Graphs == {a :> ra @@ b :> rb @@ c :> rc @@ w :> rw @@ v :> {} :
             ra \in Upto(2, {b, c, w}), rb \in Upto(1, {a, c, w}), rc \in Upto(1, {a, b}),
             rw \in Upto(1, {b})}

MCHeaps ==
  {[kind |-> k, live |-> Objects \ {v}, refs |-> g, roots |-> r,
    gen |-> [o \in Objects |-> IF o \in old THEN 1 ELSE 0],
    target |-> [o \in Objects |-> IF o = w THEN a ELSE None]] :
     k \in Kinds, g \in Graphs, r \in SUBSET {c, w}, old \in {{}, {c}}}

\* Each object is referred to, and the finalizer will be called.
Referred(h, o) == o \in h.roots \/ \E x \in h.live : o \in h.refs[x]
SoundHeaps ==
  {h \in MCHeaps : /\ \A o \in h.live : Referred(h, o)
                   /\ \A x \in h.roots : a \notin h.refs[x]
                   /\ \A x, y \in h.live : x \in h.roots /\ y \in h.refs[x] => a \notin h.refs[y]}

\* Those in which a finalizer that is trash can see its own cycle.
WatchHeaps == {h \in SoundHeaps : h.gen[c] = 0 /\ h.roots = {w} /\ h.refs[w] \cap {b, c} = {}}

\* A weak reference that is trash watches an object of the older generation.
TrashWatchesOld ==
  {h \in [kind : Kinds, live : {{a, b, c, w}}, roots : {{}},
          refs : {a :> {} @@ b :> {a, c} @@ c :> {w} @@ w :> {b} @@ v :> {}},
          gen : {[o \in Objects |-> IF o = a THEN 1 ELSE 0]},
          target : {[o \in Objects |-> IF o = w THEN a ELSE None]}] : h.kind[c] = "plain"}
=============================================================================
