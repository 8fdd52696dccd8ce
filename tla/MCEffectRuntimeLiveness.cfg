CONSTANTS
  Tasks = {t1}
  NoTask = NoTask
  Actors = {"owner"}
  Owner = "owner"
  GrantIds = {"g1"}
  NoGrant = NoGrant
  Operations = {"invoke"}
  Invoke = "invoke"
  MaxTime = 1
  Envelope = 1
  InitialGrants <- MCInitialGrants
  Candidates = {}
  Revocable = {}
  Ops = {o1, o2}
  Paired = {o1}
  Processes = {p1}
  Callbacks = {k1}
  HardLimit <- TwoAtATime
  OperationLimit = 1
  Deadlines = {1}
  CancelTargets = {o1}
  Refunds = {}
  Meters = {NoMeter}
  Violation = Violation
  NoMeter = NoMeter
  CallerStamps = {0}
  MaxSkew = 0
  Effects = {e1}
  NoProcess = NoProcess
  MaxLate = 1
SPECIFICATION EffectFairSpec
PROPERTY EveryEffectIsDecided
CHECK_DEADLOCK FALSE
