SPECIFICATION LifecycleSpec
CONSTANTS
  Tasks = {t1, t2, t3}
  NoTask = NoTask
SYMMETRY TaskSymmetry
CHECK_DEADLOCK FALSE
INVARIANTS
  LifecycleInv
  OnlyStuckAfterSuccess
PROPERTY
  TerminalIsFinal
