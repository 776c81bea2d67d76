SPECIFICATION CallbackSpec
CONSTANTS
  Slots = 2
  PerSlot = 1
  Lookback = 1
  InitHeight = 0
  MaxHeight = 3
  MaxFaults = 1
INVARIANTS
  TypeOK
  CountedOnce
  NoBlockPassedOver
  ScanIsComplete
PROPERTIES
  IncludedGetConfirmed
CHECK_DEADLOCK FALSE
