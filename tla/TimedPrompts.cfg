CONSTANTS
  p1 = p1
  p2 = p2
  Players <- MCPlayers
  TurnLimit = 2
  MainLimit = 3
  DrawThreshold = 2
  Punctual = TRUE
  UndoPastEnd = FALSE
  MaxRequests = 1
SPECIFICATION TimedSpec
INVARIANTS
  PromptedPlayersAreTimed
PROPERTIES
  OnlyPromptedPlayersLose
  MainTimeNeverReturns
  RefusedUndoGivesNoTime
  AbsentPlayersLose
