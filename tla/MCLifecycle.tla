----------------------------- MODULE MCLifecycle -----------------------------
(* TLC instance of Lifecycle: every run with up to three tasks, in every   *)
(* shape of task hierarchy.                                                *)
EXTENDS Lifecycle, TLC

TaskSymmetry == Permutations(Tasks)
=============================================================================
