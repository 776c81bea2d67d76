SPECIFICATION Spec
CONSTANTS
  Ethereum = {e1}
  Signers = {s1}
  Payloads = {p1}
  MaxNonce = 1
  MaxU32 = 1
  MaxPool = 2
  Capacity = 2
  MaxLate = 1
INVARIANTS
  TypeOK
  NoncesInOrder
  FilterShowsCurrentBlock
  PendingBlockCouldFollow
PROPERTIES
  SomethingIsExplained
  ReadyNonceIsUsed
