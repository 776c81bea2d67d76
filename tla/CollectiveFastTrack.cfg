SPECIFICATION Spec
CONSTANTS
  Accounts = {a1, a2, a3}
  Genesis = {a1, a2}
  MaxU32 = 15
  MaxChanges = 3
INVARIANTS
  FastTrackedByTheCommittee
CHECK_DEADLOCK FALSE
