SPECIFICATION Spec
CONSTANTS
  t1 = t1
  r1 = r1
  r2 = r2
  e1 = e1
  s1 = s1
  s2 = s2
  b1 = b1
  p1 = p1
  p2 = p2
  Task <- MCTask
  Run <- MCRun
  Event <- MCEvent
  Payload <- MCPayload
  AwaitStep <- MCAwaitStep
  BodyStep <- MCBodyStep
  Key = {}
  Options <- MCOptions
  ClaimTimeout = {1}
  ClaimQty = {1}
  WakeAt = {1}
  RetryAt <- MCRetryAt
  AwaitTimeout <- MCAwaitTimeout
  ExtendBy = {1}
  RetryMax = {}
  Ttl = {0}
  CleanupLimit = {1}
  MaxTime = 2
  Null = Null
  Never = Never
  Epoch = Epoch
SYMMETRY Symmetry
INVARIANTS
  WaitsMatchSleepers
  NoLostWakeup
  NoOrphans
PROPERTIES
  AwaitResultsAreStable
