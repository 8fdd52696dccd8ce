CONSTANTS
  Tasks = {t1}
  NoTask = NoTask
  Actors = {"owner"}
  Owner = "owner"
  GrantIds = {"g1"}
  NoGrant = NoGrant
  Operations = {"invoke"}
  Invoke = "invoke"
  MaxTime = 1
  Envelope = 1
  InitialGrants <- MCInitialGrants
  Candidates = {}
  Revocable = {}
  Ops = {"o1"}
  Paired = {"o1"}
  Processes = {p1}
  Callbacks = {k1}
  HardLimit <- Room
  OperationLimit = 1
  Deadlines = {}
  CancelTargets = {"run"}
  Refunds = {}
  Meters = {NoMeter}
  Violation = Violation
  NoMeter = NoMeter
  CallerStamps = {}
  MaxSkew = 0
  Points = {pt1}
  HookPoint <- OnePoint
  Registry <- GateOnly
  Calls = {c1, c2}
  EpochOf <- OneEpoch
  Invocations <- MCInvocations
  PointTask <- MCPointTask
  PointDeadline <- MCPointDeadline
  NoPoint = NoPoint
SPECIFICATION HookFairSpec
INVARIANT HookPairsAgree
PROPERTY EveryInvocationEnds
CHECK_DEADLOCK FALSE
