SPECIFICATION SafeSpec
CONSTANTS
  Commands = {c1}
  MaxBlocks = 1
  MaxFailures = 1
INVARIANTS
  RpcSeesVotingRound
CHECK_DEADLOCK FALSE
