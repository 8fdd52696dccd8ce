SPECIFICATION ProjectionSpec
CONSTANTS
  Tasks = {t1}
  NoTask = NoTask
  Openers = {"p1", "p2"}
  NoOpener = NoOpener
  MaxEvents = 4
  ReducerOf <- MCReducerOf
  NoProjection = NoProjection
  MaxSnapshots = 2
  MaxDecayed = 1
INVARIANTS
  UpgradeIsAtomic
  AssistedEqualsFull
  ComparisonsAgree
PROPERTY
  OldWritersAreFenced
CHECK_DEADLOCK FALSE
