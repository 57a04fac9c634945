SPECIFICATION Spec
CONSTANTS
  t1 = t1
  t2 = t2
  r1 = r1
  r2 = r2
  r3 = r3
  k1 = k1
  Task <- MCTask
  Run <- MCRun
  Event = {}
  Payload = {}
  AwaitStep = {}
  BodyStep = {}
  Key <- MCKey
  Options <- MCOptions
  ClaimTimeout = {0, 1}
  ClaimQty = {2}
  WakeAt = {2}
  RetryAt <- MCRetryAt
  AwaitTimeout = {}
  ExtendBy = {1}
  RetryMax <- MCRetryMax
  Ttl = {0}
  CleanupLimit = {1}
  MaxTime = 2
  Null = Null
  Never = Never
  Epoch = Epoch
SYMMETRY Symmetry
INVARIANTS
  TaskRunsAgree
  EarlierAttemptsFailed
  AttemptsDistinct
PROPERTIES
  ImplementsLifecycle
  OverdueTasksNeverStart
