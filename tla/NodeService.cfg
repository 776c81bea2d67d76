SPECIFICATION Spec
CONSTANTS
  Commands = {c1, c2}
  MaxBlocks = 1
  MaxFailures = 2
INVARIANTS
  TypeOK
  RunningNodeIsComplete
  BuildProgress
  VoterHasProtocol
  NoImportMissed
  ManualCommandsNotLost
PROPERTIES
  CommandsSettle
  EssentialFailureStopsService
  ImportsGetMapped
  ImplementsLifecycle
CHECK_DEADLOCK FALSE
