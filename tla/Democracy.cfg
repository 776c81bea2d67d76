SPECIFICATION Spec
CONSTANTS
  Proposals = {p1, p2}
  Cause = p1
  Committee = {m1, m2}
  LaunchPeriod = 2
  VotingPeriod = 1
  CooloffPeriod = 1
  MaxFastTrack = 2
PROPERTIES
  VetoHolds
  CauseGetsItsVote
