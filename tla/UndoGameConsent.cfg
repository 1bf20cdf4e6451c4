CONSTANTS
  p1 = p1
  p2 = p2
  NoPlayer = NoPlayer
  Players <- MCPlayers
  Formats <- Premier
  AskingSteps = {}
  ExtraActions = FALSE
  MaxQuestions = 1
  MaxRounds = 1
  MaxActions = 0
  GameStates <- GameRecords
  Timepoints <- SnapshotTimepoint
  ActionHistoryLength = 3
  PhaseHistoryLength = 2
  MaxSnapshots = 60
  UndoMode = "request"
  FreeUndoLimit = 1
  GamesEnd = TRUE
  RevealingSteps = {"actionWindow"}
  RestoreMayFail = TRUE
  MaxUndos = 1
SPECIFICATION MCSpec
INVARIANTS
  ActionUndoKeepsRevealed
PROPERTIES
  AllowedUndoCompletes
  UndoUsesStore
