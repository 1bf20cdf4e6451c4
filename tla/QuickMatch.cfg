\* Two players: each connects twice and may ask twice, so that a request is
\* still waiting for its deck when the player is matched, dropped or back.
CONSTANTS
  u1 = u1
  u2 = u2
  Users <- TwoUsers
  MaxSockets = 2
  MaxLobbies = 1
  MaxSubmits = 2
  ConnectChecks = 1
SPECIFICATION QuickMatchSpec
INVARIANTS
  SeatsMatchUserLobbyMap
  OnePlaceEach
PROPERTIES
  ReturnedKeepTheirPlace
  QuickLobbiesEnd
CHECK_DEADLOCK FALSE
