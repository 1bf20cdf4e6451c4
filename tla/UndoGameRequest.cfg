CONSTANTS
  p1 = p1
  p2 = p2
  NoPlayer = NoPlayer
  Players <- MCPlayers
  Formats <- Premier
  AskingSteps = {"action"}
  ExtraActions = FALSE
  MaxQuestions = 1
  MaxRounds = 1
  MaxActions = 2
  GameStates <- GameRecords
  Timepoints <- SnapshotTimepoint
  ActionHistoryLength = 3
  PhaseHistoryLength = 2
  MaxSnapshots = 60
  UndoMode = "request"
  FreeUndoLimit = 1
  GamesEnd = FALSE
  RevealingSteps = {}
  RestoreMayFail = TRUE
  MaxUndos = 1
SYMMETRY PlayersAreAlike
SPECIFICATION MCSpec
INVARIANTS
  ActionUndoSparesAbilities
PROPERTIES
  ConsentIsToWhatWasShown
