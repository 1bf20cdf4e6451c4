CONSTANTS
  p1 = p1
  NoPlayer = NoPlayer
  Players <- MCPlayers
  GameStates <- MCGameStates
  Timepoints <- MCTimepoints
  ActionHistoryLength = 2
  PhaseHistoryLength = 1
  MaxSnapshots = 2
SPECIFICATION ManagerSpec
CONSTRAINT FewExtras
INVARIANTS
  RetainedOnTheLine
  TimepointsNumberTheLine
PROPERTY ImplementsHistory
CHECK_DEADLOCK FALSE
