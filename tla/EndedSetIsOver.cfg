CONSTANTS
  p1 = p1
  p2 = p2
  Users <- TwoUsers
  Nobody = Nobody
  Draw = Draw
  MatchmakingTypes <- AllMatchmakingTypes
  MaxDraws = 1
SPECIFICATION BestOfThreeSpec
PROPERTIES
  EndedSetIsOver
CHECK_DEADLOCK FALSE
