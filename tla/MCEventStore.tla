---------------------------- MODULE MCEventStore ----------------------------
(* TLC instance of EventStore: two writers, one paging reader, two streams.*)
EXTENDS EventStore

StoreSymmetry ==
  Permutations(Writers) \cup Permutations(Reused) \cup Permutations(EventIds \ Reused)
=============================================================================
