CONSTANTS
  p1 = p1
  p2 = p2
  NoPlayer = NoPlayer
  Players <- MCPlayers
  Formats <- Premier
  AskingSteps = {"startOfAction"}
  ExtraActions = FALSE
  MaxQuestions = 1
  MaxRounds = 1
  MaxActions = 1
  GameStates <- GameRecords
  Timepoints <- SnapshotTimepoint
  ActionHistoryLength = 3
  PhaseHistoryLength = 2
  MaxSnapshots = 60
  UndoMode = "request"
  FreeUndoLimit = 1
  GamesEnd = FALSE
  RevealingSteps = {}
  RestoreMayFail = FALSE
  MaxUndos = 1
SYMMETRY PlayersAreAlike
SPECIFICATION MCSpec
INVARIANTS
  FreeUndoSparesActions
