SPECIFICATION CommandsSpec
CONSTANTS
  Tasks = {t1}
  NoTask = NoTask
  Clients = {c1, c2}
  EventIds = {e1, e2, e3, e4}
  NoCommand = NoCommand
  MaxSequence = 4
SYMMETRY CallerSymmetry
CHECK_DEADLOCK FALSE
INVARIANTS
  HistoryAlwaysFolds
  RejectionIsFinal
  AckIsDurable
  AppliedOnce
PROPERTY
  ImplementsLifecycle
