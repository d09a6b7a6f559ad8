-------------------------- MODULE MCEvalBreaker --------------------------
(***************************************************************************)
(* Instances of EvalBreaker for TLC.                                       *)
(***************************************************************************)
EXTENDS EvalBreaker
=============================================================================
