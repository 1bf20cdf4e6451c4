CONSTANTS
  p1 = p1
  p2 = p2
  NoPlayer = NoPlayer
  Players <- MCPlayers
  Formats <- EveryFormat
  AskingSteps <- EveryStep
  ExtraActions = TRUE
  MaxQuestions = 2
  MaxRounds = 2
  MaxActions = 4
SPECIFICATION MCSpec
INVARIANTS
  OverExactlyWhenBothAreDone
  ClaimerIsOut
  PlayersAlternate
  OneCounterEach
PROPERTY EveryRoundIsPlayed
