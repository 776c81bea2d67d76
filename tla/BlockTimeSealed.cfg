SPECIFICATION Spec
CONSTANTS
  SlotDuration = 4
  MaxClock = 15
  MaxSealed = 3
INVARIANTS
  SealedTimePasses
