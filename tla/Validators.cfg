SPECIFICATION Spec
CONSTANTS
  Stashes = {1, 2, 3, 4, 5}
  Genesis = {1, 2, 3, 4}
  Movers = {1, 5}
  EpochDuration = 3
  SignedPhase = 1
  UnsignedPhase = 1
  SessionsPerEra = 2
  Gaps = {1, 2, 4}
  Indices = {1, 4}
INVARIANTS
  TypeOK
  EvmAuthorIsAuthor
  ValidatorsAreExposed
  InvulnerablesMayAuthor
PROPERTIES
  CreditedIsExposed
  ErasGoOn
