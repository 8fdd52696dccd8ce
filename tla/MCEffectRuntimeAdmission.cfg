CONSTANTS
  Tasks = {t1}
  NoTask = NoTask
  Actors = {"owner"}
  Owner = "owner"
  GrantIds = {"g1"}
  NoGrant = NoGrant
  Operations = {"invoke"}
  Invoke = "invoke"
  MaxTime = 1
  Envelope = 1
  InitialGrants <- MCInitialGrants
  Candidates = {}
  Revocable = {}
  Ops = {o1}
  Paired = {o1}
  Processes = {p1, p2}
  Callbacks = {k1}
  HardLimit <- OneAtATime
  OperationLimit = 1
  Deadlines = {1}
  CancelTargets = {}
  Refunds = {}
  Meters = {NoMeter}
  Violation = Violation
  NoMeter = NoMeter
  CallerStamps = {}
  MaxSkew = 0
  Effects = {e1}
  NoProcess = NoProcess
  MaxLate = 0
SPECIFICATION EffectSpec
PROPERTY NoReservationAfterStop
CHECK_DEADLOCK FALSE
