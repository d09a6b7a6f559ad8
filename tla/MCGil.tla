------------------------------- MODULE MCGil -------------------------------
(***************************************************************************)
(* Instances of Gil for TLC.                                               *)
(***************************************************************************)
EXTENDS Gil, TLC

\* Threads other than Main are interchangeable (safety runs only).
Symmetry == Permutations(Threads \ {Main})
=============================================================================
