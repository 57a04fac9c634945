SPECIFICATION FairSpec
CONSTANTS
  Beat <- MCBeat
  Colocated <- MCColocated
  Schedules <- MCSchedules
  CleanupDeclared = TRUE
  Slots <- MCSlots
  Horizon = 2
  MaxStarts = 2
  MaxFaults = 1
INVARIANTS
  NoSlotSkippedUnseen
  AtMostOncePerSlot
PROPERTIES
  SlotsAreFired
CHECK_DEADLOCK FALSE
