SPECIFICATION Spec
CONSTANTS
  Provisioner <- MCProvisioner
  Queue <- MCQueue
  Part <- MCPart
  Declared <- MCDeclared
  HasPolicy = {"mail"}
  MaxRuns = 3
  MaxMischief = 1
  MaxFlushes = 1
INVARIANTS
  NoCollision
  ProvisionedIsWhole
  NoBannerThenRefusal
CHECK_DEADLOCK FALSE
