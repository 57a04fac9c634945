SPECIFICATION Spec
CONSTANTS
  k1 = k1
  k2 = k2
  k3 = k3
  x1 = x1
  x2 = x2
  c1 = c1
  c2 = c2
  Client <- MCTwoClients
  Retrier <- MCRetriers
  Cleaner <- MCCleaners
  MaxAttempt = 2
  Null = Null
PROPERTIES
  PendingTasksKept
