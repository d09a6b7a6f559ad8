----------------------------- MODULE GilSpec -----------------------------
(***************************************************************************)
(* What the global interpreter lock promises to the code above it: at most *)
(* one thread holds it, and a thread that gave it up because another one   *)
(* asked for it does not get it back before some other thread had it.      *)
(***************************************************************************)
CONSTANT Threads

VARIABLES
  holders,   \* {} or the thread that holds the lock
  owing      \* threads that yielded and whose switch has not happened yet

vars == <<holders, owing>>

\* Some thread holds the lock from the start: the one that created it.
Init == /\ \E t \in Threads : holders = {t}
        /\ owing = {}

Take(t) ==
  /\ holders = {}
  /\ t \notin owing
  /\ holders' = {t}
  /\ owing' = {}

Drop(t) ==
  /\ holders = {t}
  /\ holders' = {}
  /\ owing' = {}

Yield(t) ==
  /\ holders = {t}
  /\ holders' = {}
  /\ owing' = {t}

Next == \E t \in Threads : Take(t) \/ Drop(t) \/ Yield(t)

Spec == Init /\ [][Next]_vars
=============================================================================
