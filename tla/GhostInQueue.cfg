CONSTANTS
  u1 = u1
  u2 = u2
  Users <- TwoUsers
  MaxSockets = 2
  MaxLobbies = 1
  MaxSubmits = 1
  ConnectChecks = 1
SPECIFICATION QuickMatchSpec
INVARIANTS
  QueuedAreConnected
CHECK_DEADLOCK FALSE
