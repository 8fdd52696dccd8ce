CONSTANTS
  Tasks = {t1}
  NoTask = NoTask
  Actors = {"owner", "ann"}
  Owner = "owner"
  GrantIds = {"g1"}
  NoGrant = NoGrant
  Operations = {"invoke"}
  Invoke = "invoke"
  MaxTime = 1
  Envelope = 1
  InitialGrants <- MCInitialGrants
  Candidates = {}
  Revocable = {}
  Ops = {o1, o2}
  Paired = {}
  Processes = {p1}
  Callbacks = {k1}
  HardLimit <- TwoAtATime
  OperationLimit = 1
  Deadlines = {1}
  CancelTargets = {"run", o1}
  Refunds = {1}
  Meters = {0, Violation}
  Violation = Violation
  NoMeter = NoMeter
  CallerStamps = {0}
  MaxSkew = 0
SPECIFICATION FairSpec
INVARIANTS
  PendingHoldsRun
  BudgetNeverOversold
  BooksBalance
  OperationCancellationIsDecisive
PROPERTIES
  DecisionIsFinal
  EveryReservationEnds
  UnreadableOnlyByCallbacks
CHECK_DEADLOCK FALSE
