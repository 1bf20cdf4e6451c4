\* Every kind of lobby, a best of one or of three, and a drawn game in each set.
CONSTANTS
  p1 = p1
  p2 = p2
  Users <- TwoUsers
  Nobody = Nobody
  Draw = Draw
  MatchmakingTypes <- AllMatchmakingTypes
  MaxDraws = 1
SPECIFICATION BestOfThreeSpec
INVARIANTS
  GamesAreCounted
  ChooserIsNotAhead
  ConfirmationsAreCurrent
  NobodyPlaysAlone
PROPERTIES
  TransitionsFollowAnEnd
  EndedGamesMoveOn
  ReadyPlayersMoveOn
CHECK_DEADLOCK FALSE
