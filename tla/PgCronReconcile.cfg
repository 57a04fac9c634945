SPECIFICATION Spec
CONSTANTS
  Process <- MCProcess
  Names <- MCNames
  Crons <- MCCrons
  Releases <- MCReleases
  Deployments <- MCDeployments
  n1 = n1
  c1 = c1
  c2 = c2
  Budgets <- MCBudgets
  None = None
INVARIANTS
  ReconcileConverges
  TeardownIsTerminal
PROPERTIES
  InertWritesNothing
CHECK_DEADLOCK FALSE
