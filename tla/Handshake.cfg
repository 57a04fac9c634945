SPECIFICATION FairSpec
CONSTANTS
  r1 = r1
  r2 = r2
  m1 = m1
  m2 = m2
  c1 = c1
  c2 = c2
  p1 = p1
  p2 = p2
  Run <- MCRuns
  Emitter <- MCEmitters
  EventCleaner <- MCCleaners
  Payload <- MCPayload
  MaxAborts = 1
  None = None
INVARIANTS
  NoLostWakeup
  WaitersAgree
PROPERTIES
  EmissionReachesEveryRun
