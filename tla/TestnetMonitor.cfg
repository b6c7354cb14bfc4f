SPECIFICATION Spec
CONSTANTS
  SecondsPerSlot = 3
  SlotsPerEpoch = 3
  OnceActions = 1
  SlotActions = 2
  EpochActions = 1
  PrometheusMayFail = TRUE
  MaxSleep = 5
  MaxLate = 10
  MaxDuration = 4
  MaxDelay = 2
  MaxTime = 60
CHECK_DEADLOCK FALSE
INVARIANTS IInv OncePerEpoch
PROPERTIES StartsInItsSlot GoalsAdvance KeepsTime
