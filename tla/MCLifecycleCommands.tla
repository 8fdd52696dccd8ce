------------------------- MODULE MCLifecycleCommands -------------------------
(* TLC instance of LifecycleCommands: two callers that race on one run.    *)
EXTENDS LifecycleCommands, TLC

CallerSymmetry == Permutations(Clients) \cup Permutations(EventIds)
=============================================================================
