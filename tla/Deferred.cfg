SPECIFICATION FairSpec
CONSTANTS
  keyed = keyed
  plain = plain
  direct = direct
  k = k
  Calls <- MCCalls
  RunAfter <- MCRunAfter
  PerCall <- MCPerCall
  Defaults <- MCDefaults
  Scenarios <- MCScenarios
  DefaultAttempts = 2
  MaxTasks = 3
  MaxNow = 2
  MaxFaults = 1
  Unset = Unset
  None = None
INVARIANTS
  LaunchedOnce
  WrapperNamesATask
PROPERTIES
  AnswersAreFinal
  DeferralsLand
CHECK_DEADLOCK FALSE
