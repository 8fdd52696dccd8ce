CONSTANTS
  Tasks = {t1}
  NoTask = NoTask
  Actors = {"owner"}
  Owner = "owner"
  GrantIds = {"g1"}
  NoGrant = NoGrant
  Operations = {"invoke"}
  Invoke = "invoke"
  MaxTime = 1
  Envelope = 1
  InitialGrants <- MCInitialGrants
  Candidates = {}
  Revocable = {"g1"}
  Ops = {"o1", "o2", "o3", "o4"}
  Paired = {"o1", "o2", "o3", "o4"}
  Processes = {p1}
  Callbacks = {k1}
  HardLimit <- Room
  OperationLimit = 1
  Deadlines = {}
  CancelTargets = {"run"}
  Refunds = {}
  Meters = {NoMeter}
  Violation = Violation
  NoMeter = NoMeter
  CallerStamps = {}
  MaxSkew = 1
  Points = {pt1}
  HookPoint <- OnePoint
  Registry <- AllKinds
  Calls = {c1}
  EpochOf <- OneEpoch
  Invocations <- MCInvocations
  PointTask <- MCPointTask
  PointDeadline <- MCPointDeadline
  NoPoint = NoPoint
SPECIFICATION HookSpec
INVARIANTS AllowIsEarned MatchesEvaluation NothingRunsAfterStop
CHECK_DEADLOCK FALSE
