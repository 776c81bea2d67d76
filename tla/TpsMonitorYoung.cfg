SPECIFICATION CallbackSpec
CONSTANTS
  Slots = 1
  PerSlot = 1
  Lookback = 3
  InitHeight = 1
  MaxHeight = 5
  MaxFaults = 0
PROPERTIES
  ConfirmedOnAnyChain
CHECK_DEADLOCK FALSE
