----------------------------- MODULE Collector -----------------------------
(***************************************************************************)
(* One run of the cyclic garbage collector, collect() in                   *)
(* Modules/gcmodule.c, with the Python code it calls: callbacks of weak    *)
(* references, tp_finalize, and what else runs when objects are freed on   *)
(* the way.                                                                *)
(*                                                                         *)
(* The heap is a graph.  Reference counts are what the graph says: edges,  *)
(* references from outside (roots), and those that C code holds.  A        *)
(* definition whose name ends in _M is a mutant of the one it stands       *)
(* before.                                                                 *)
(***************************************************************************)
EXTENDS Integers, Sequences, FiniteSets, SequencesExt

CONSTANTS
  Objects,
  None,
  Heaps,      \* the heaps a collection starts with
  MaxSteps,   \* a bound on what the Python code does during a collection
  MayWatch    \* are weak references created while finalizers run?

ASSUME CollectorAssumption ==
  /\ IsFiniteSet(Objects) /\ None \notin Objects
  /\ MaxSteps \in Nat /\ MayWatch \in BOOLEAN

\* An object without references was freed at once, and so was what only it knew.
ASSUME HeapsAssumption ==
  \A h \in Heaps :
    /\ h.kind \in [Objects -> {"plain", "finalizer", "legacy", "weakref"}]
    /\ h.live \subseteq Objects /\ h.roots \subseteq h.live
    /\ h.refs \in [Objects -> SUBSET h.live]
    /\ h.gen \in [Objects -> {0, 1}]
    /\ h.target \in [Objects -> h.live \cup {None}]
    /\ \A o \in Objects \ h.live : h.refs[o] = {} /\ h.target[o] = None
    /\ \A o \in h.live : o \in h.roots \/ \E x \in h.live : o \in h.refs[x]

VARIABLES
  kind,        \* of an object: "plain", "finalizer" (has tp_finalize),
               \* "legacy" (has tp_del), "weakref" (with a callback)
  live,        \* the objects that are allocated
  refs,        \* what tp_traverse of an object visits
  roots,       \* objects that something else than an object refers to
  gen,         \* 0 or 1: the generation an object belongs to
  target,      \* wr_object of a weak reference
  finalized,   \* _PyGC_REFS_MASK_FINALIZED
  generation,  \* the argument of collect()
  phase,       \* where that is
  unreachable, \* the list of that name
  finalizers,  \* and that
  pending,     \* wrcb_to_call
  seen,        \* the objects finalize_garbage() has moved to that list
  frames,      \* C and Python code that is running, innermost first
  cleared,     \* history: the objects whose tp_clear was called
  steps        \* history: what Python code has done so far

vars == <<kind, live, refs, roots, gen, target, finalized, generation, phase, unreachable, finalizers,
          pending, seen, frames, cleared, steps>>

collector == <<generation, phase, unreachable, finalizers, pending, seen>>
heap == <<live, refs, roots, gen, target>>

\* A frame runs Python code on behalf of an object ("code"), deallocates it
\* ("dealloc") or has a reference to it for the time being ("hold").
Frame(op, o) == [op |-> op, self |-> o]
Self(ops) == {frames[i].self : i \in {j \in DOMAIN frames : frames[j].op \in ops}}

\* What can be reached from some objects, along edges to objects of a set: the
\* least set that has them and that no such edge leaves.
Reach(from, within) ==
  LET supersets == {from \cup s : s \in SUBSET (within \ from)}
  IN {o \in within : \A s \in supersets :
                        (\A x \in s : refs[x] \cap within \subseteq s) => o \in s}

\* What running Python code, or code that runs later, can get hold of.
Visible == Reach(roots \cup Self({"code"}), live)

RefCount(o) ==
  Cardinality({x \in live : o \in refs[x]}) + (IF o \in roots THEN 1 ELSE 0)
    + Cardinality({i \in DOMAIN frames : frames[i].op # "dealloc" /\ frames[i].self = o})
    + (IF o \in pending THEN 1 ELSE 0)

Init ==
  \E h \in Heaps :
     /\ kind = h.kind /\ live = h.live /\ refs = h.refs /\ roots = h.roots
     /\ gen = h.gen /\ target = h.target
     /\ finalized = {}
     /\ generation \in {0, 1} /\ phase = "start"
     /\ unreachable = {} /\ finalizers = {} /\ pending = {} /\ seen = {}
     /\ frames = <<>>
     /\ cleared = {}
     /\ steps = 0

-----------------------------------------------------------------------------
(* Deallocation: Py_DECREF has found zero *)

\* Has it code to run that has not run yet?
Finalizable(o) == kind[o] \in {"finalizer", "legacy"} /\ o \notin finalized

Dying == {o \in live : RefCount(o) = 0} \ Self({"dealloc"})
Quiet == Dying = {}

Dealloc(o) ==
  /\ o \in Dying
  /\ frames' = <<Frame("dealloc", o)>> \o frames
  /\ UNCHANGED <<kind, heap, finalized, collector, cleared, steps>>

\* subtype_dealloc() calls tp_finalize, clears the weak references and calls the
\* callbacks of those that live, calls tp_del (once only, here) and clears those
\* that are new without a call.  The finalizers may resurrect the object; else
\* the memory is freed.
ContinueDealloc ==
  /\ frames # <<>> /\ Head(frames).op = "dealloc" /\ Quiet
  /\ LET o == Head(frames).self
         watchers == {w \in live : target[w] = o}
         called == IF kind[o] = "legacy" /\ o \in finalized THEN {}
                   ELSE watchers \ Self({"dealloc"})
     IN \/ /\ RefCount(o) = 0 /\ Finalizable(o)
           /\ kind[o] = "finalizer" \/ watchers = {}
           /\ finalized' = finalized \cup {o}
           /\ frames' = <<Frame("code", o)>> \o frames
           /\ UNCHANGED <<heap, collector>>
        \/ /\ RefCount(o) > 0
           /\ frames' = Tail(frames)
           /\ UNCHANGED <<heap, finalized, collector>>
        \/ /\ RefCount(o) = 0 /\ watchers # {}
           /\ kind[o] = "finalizer" => o \in finalized
           /\ target' = [w \in Objects |-> IF w \in watchers THEN None ELSE target[w]]
           /\ \E order \in SetToSeqs(called) :
                 frames' = [i \in DOMAIN order |-> Frame("code", order[i])] \o frames
           /\ UNCHANGED <<live, refs, roots, gen, finalized, collector>>
        \/ /\ RefCount(o) = 0 /\ ~Finalizable(o)
           /\ watchers = {}
           /\ live' = live \ {o}
           /\ refs' = [refs EXCEPT ![o] = {}]
           /\ target' = [target EXCEPT ![o] = None]
           /\ unreachable' = unreachable \ {o}
           /\ finalizers' = finalizers \ {o}
           /\ seen' = seen \ {o}
           /\ frames' = Tail(frames)
           /\ UNCHANGED <<roots, gen, finalized, generation, phase, pending>>
  /\ UNCHANGED <<kind, cleared, steps>>

\* Py_DECREF at the end of a use of an object.
Release ==
  /\ frames # <<>> /\ Head(frames).op \in {"hold", "code"} /\ Quiet
  /\ frames' = Tail(frames)
  /\ UNCHANGED <<kind, heap, finalized, collector, cleared, steps>>

-----------------------------------------------------------------------------
(* What Python code does with the objects it can reach *)

Running == frames # <<>> /\ Head(frames).op = "code" /\ Quiet /\ steps < MaxSteps
Acts == steps' = steps + 1 /\ UNCHANGED <<kind, finalized, collector, frames, cleared>>

Store == \E x, y \in Visible :
  /\ Running /\ kind[x] # "weakref" /\ y \notin refs[x]
  /\ refs' = [refs EXCEPT ![x] = @ \cup {y}]
  /\ Acts /\ UNCHANGED <<live, roots, gen, target>>

Delete == \E x \in Visible : \E y \in refs[x] :
  /\ Running /\ kind[x] # "weakref"
  /\ refs' = [refs EXCEPT ![x] = @ \ {y}]
  /\ Acts /\ UNCHANGED <<live, roots, gen, target>>

\* A global variable, or a call of a weak reference kept in one.
Keep == \E y \in Visible \cup {target[w] : w \in Visible} :
  /\ Running /\ y \in live \ roots /\ RefCount(y) > 0
  /\ roots' = roots \cup {y}
  /\ Acts /\ UNCHANGED <<live, refs, gen, target>>

Forget == \E y \in roots :
  /\ Running
  /\ roots' = roots \ {y}
  /\ Acts /\ UNCHANGED <<live, refs, gen, target>>

\* A new weak reference; cleared tells objects apart, so that it is none of those.
Watch == \E w \in Objects \ (live \cup cleared) : \E y \in Visible :
  /\ Running /\ kind[w] = "weakref" /\ kind[y] # "weakref"
  /\ phase = "finalize" => MayWatch
  /\ live' = live \cup {w}
  /\ target' = [target EXCEPT ![w] = y]
  /\ roots' = roots \cup {w}
  /\ gen' = [gen EXCEPT ![w] = 0]
  /\ Acts /\ UNCHANGED refs

PythonCode == Store \/ Delete \/ Keep \/ Forget \/ Watch

-----------------------------------------------------------------------------
(* collect() *)

\* gc_refs after update_refs() and subtract_refs().
GcRefs(o, list) == RefCount(o) - Cardinality({x \in list : o \in refs[x]})

\* Mutant of Outside: a reference from another generation does not count.
Outside_M(young) == {o \in young : o \in roots}

\* What is referred to from outside of a list.
Outside(list) == {o \in list : GcRefs(o, list) > 0}

\* The generations that are collected.
Young == {o \in live : gen[o] <= generation}

\* Up to move_legacy_finalizer_reachable(): no other code runs.
Find ==
  LET trash == Young \ Reach(Outside(Young), Young)
  IN /\ phase = "start"
     /\ finalizers' = Reach({o \in trash : kind[o] = "legacy"}, trash)
     /\ unreachable' = trash \ finalizers'
     /\ phase' = "found"
     /\ UNCHANGED <<kind, heap, finalized, generation, pending, seen, frames, cleared, steps>>

\* Is the callback of a weak reference to trash called?
Honoured(w) == w \notin unreachable

\* What is reachable becomes old; handle_weakrefs(), first pass: no other code
\* runs.
ClearWeakrefs ==
  LET hit == {w \in live : target[w] \in unreachable}
  IN /\ phase = "found"
     /\ target' = [w \in Objects |-> IF w \in hit THEN None ELSE target[w]]
     /\ pending' = {w \in hit : Honoured(w)}
     /\ gen' = [o \in Objects |-> IF o \in Young \ (unreachable \cup finalizers) THEN 1
                                  ELSE gen[o]]
     /\ phase' = "callbacks"
     /\ UNCHANGED <<kind, live, refs, roots, finalized, generation, unreachable, finalizers,
                    seen, frames, cleared, steps>>

\* The collector itself goes on.
Idle(place) == phase = place /\ frames = <<>> /\ Quiet

\* handle_weakrefs(), second pass: a callback, or the end.
CallBack ==
  /\ Idle("callbacks")
  /\ \/ \E w \in pending :
           /\ pending' = pending \ {w}
           /\ frames' = <<Frame("code", w)>>
           /\ UNCHANGED phase
     \/ pending = {} /\ phase' = "finalize" /\ UNCHANGED <<pending, frames>>
  /\ UNCHANGED <<kind, heap, finalized, generation, unreachable, finalizers, seen, cleared, steps>>

\* finalize_garbage(): an object, or the end.
Finalize ==
  /\ Idle("finalize")
  /\ \/ \E o \in unreachable \ seen :
           /\ seen' = seen \cup {o}
           /\ \/ /\ kind[o] = "finalizer" /\ o \notin finalized
                 /\ finalized' = finalized \cup {o}
                 /\ frames' = <<Frame("code", o)>>
              \/ /\ kind[o] # "finalizer" \/ o \in finalized
                 /\ UNCHANGED <<finalized, frames>>
           /\ UNCHANGED phase
     \/ unreachable \subseteq seen /\ phase' = "check" /\ UNCHANGED <<seen, finalized, frames>>
  /\ UNCHANGED <<kind, heap, generation, unreachable, finalizers, pending, cleared, steps>>

\* Mutant of Revived: a finalizer can only resurrect its own object.
Revived_M == {o \in unreachable : o \in roots}

\* Mutant of Revived: the list itself is counted as a reference.
Revived_N == {o \in unreachable : GcRefs(o, unreachable) > 1}

\* check_garbage(): is any of it referred to from outside again?
Revived == {o \in unreachable : GcRefs(o, unreachable) # 0}

\* One is enough, and all of it survives this collection.
Check ==
  /\ Idle("check")
  /\ \/ Revived = {} /\ phase' = "delete" /\ UNCHANGED <<unreachable, gen>>
     \/ /\ Revived # {}
        /\ gen' = [o \in Objects |-> IF o \in unreachable THEN 1 ELSE gen[o]]
        /\ unreachable' = {}
        /\ phase' = "legacy"
  /\ UNCHANGED <<kind, live, refs, roots, target, finalized, generation, finalizers, pending,
                 seen, frames, cleared, steps>>

\* delete_garbage(): tp_clear of an object, which is moved to old in case it
\* is still alive afterwards.
Clear ==
  /\ Idle("delete")
  /\ \/ \E o \in unreachable :
           /\ refs' = [refs EXCEPT ![o] = {}]
           /\ target' = [target EXCEPT ![o] = None]
           /\ cleared' = cleared \cup {o}
           /\ unreachable' = unreachable \ {o}
           /\ gen' = [gen EXCEPT ![o] = 1]
           /\ frames' = <<Frame("hold", o)>>
           /\ UNCHANGED phase
     \/ /\ unreachable = {} /\ phase' = "legacy"
        /\ UNCHANGED <<refs, target, cleared, unreachable, gen, frames>>
  /\ UNCHANGED <<kind, live, roots, finalized, generation, finalizers, pending, seen, steps>>

\* handle_legacy_finalizers(): gc.garbage.
Legacy ==
  /\ Idle("legacy")
  /\ roots' = roots \cup {o \in finalizers : kind[o] = "legacy"}
  /\ gen' = [o \in Objects |-> IF o \in finalizers THEN 1 ELSE gen[o]]
  /\ finalizers' = {}
  /\ phase' = "end"
  /\ UNCHANGED <<kind, live, refs, target, finalized, generation, unreachable, pending, seen,
                 frames, cleared, steps>>

-----------------------------------------------------------------------------
Next ==
  \/ \E o \in Objects : Dealloc(o)
  \/ ContinueDealloc \/ Release
  \/ PythonCode
  \/ Find \/ ClearWeakrefs \/ CallBack \/ Finalize \/ Check \/ Clear \/ Legacy

Spec == Init /\ [][Next]_vars

-----------------------------------------------------------------------------
TypeOK ==
  /\ kind \in [Objects -> {"plain", "finalizer", "legacy", "weakref"}]
  /\ live \subseteq Objects /\ roots \subseteq live
  /\ refs \in [Objects -> SUBSET live]
  /\ gen \in [Objects -> {0, 1}]
  /\ target \in [Objects -> live \cup {None}]
  /\ finalized \subseteq Objects
  /\ generation \in {0, 1}
  /\ phase \in {"start", "found", "callbacks", "finalize", "check", "delete", "legacy", "end"}
  /\ unreachable \subseteq live /\ finalizers \subseteq live /\ pending \subseteq live
  /\ seen \subseteq live /\ cleared \subseteq Objects
  /\ frames \in Seq([op : {"code", "dealloc", "hold"}, self : live])
  /\ steps \in 0 .. MaxSteps

(***************************************************************************)
(* "All objects in young after this are directly or indirectly reachable   *)
(* from outside the original young; and all objects in unreachable are     *)
(* not" (move_unreachable): what the counting finds is what can be reached *)
(* neither by the program nor from an older generation.                    *)
(***************************************************************************)
FoundIsUnreachable ==
  phase = "found" =>
    unreachable \cup finalizers = Young \ Reach(roots \cup (live \ Young), live)

(***************************************************************************)
(* "lest the callback resurrect an unreachable object" (handle_weakrefs):  *)
(* whatever callbacks and finalizers do, and those of objects that are     *)
(* freed along the way, no Python code, now or later, gets hold of an      *)
(* object whose tp_clear was called.                                       *)
(***************************************************************************)
ClearedIsInvisible ==
  cleared \cap Reach(Visible \cup {o \in live : Finalizable(o)}, live) = {}

(***************************************************************************)
(* "Call tp_clear on objects in the unreachable set.  This will cause the  *)
(* reference cycles to be broken": nothing that was cleared stays.         *)
(***************************************************************************)
TrashIsFreed == phase = "end" => cleared \cap live = {}
=============================================================================
