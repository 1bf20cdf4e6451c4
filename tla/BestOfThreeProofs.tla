------------------------- MODULE BestOfThreeProofs -------------------------
(***************************************************************************)
(* The score of a set counts its games, for any number of drawn games.     *)
(*                                                                         *)
(* LobbyInv holds of the lobby in every state.  ScoreInv does until the    *)
(* ready timer of an earlier set expires in a later one: that timer starts *)
(* a game whatever the lobby is doing.  Both are kept by the functions of  *)
(* the lobby, on the conditions under which the others call them, and an   *)
(* action is a composition of them.                                        *)
(*                                                                         *)
(* ChooserInv, at the end, is about the games won: it compares the players *)
(* by the score with which the game on the table began, which an undo of   *)
(* its end gives back.                                                     *)
(***************************************************************************)
EXTENDS BestOfThree, SequenceTheorems, FiniteSetTheorems, TLAPS

\* A transition that is pending while a game goes on was set before that game
\* began: the game has never been over, and the timer finds it so.
LobbyBase(s) ==
  /\ s \in LobbyStates
  /\ s.number >= 1 /\ s.ready \subseteq s.users
  /\ s.mode = "Bo1" => s.confirmed = {} /\ ~s.transition
  /\ s.rematchRequest.mode \in {"Regular", "Bo1ConvertToBo3"} => s.mode = "Bo1"
  /\ s.game = "playing" /\ s.transition => ~s.finishedAt

LobbyInv(s) ==
  /\ LobbyBase(s)
  /\ s.game = "playing" /\ s.undoMode = "Request" => s.users = Users

ScoreInv(s) ==
  /\ s.readyTimer = "running" => s.game = "none"
  /\ s.mode = "Bo3" /\ s.users # {} =>
       Len(s.winners) = IF s.game = "over" THEN s.number ELSE s.number - 1
  /\ s.confirmed # {} /\ s.users # {} => s.game = "over" /\ s.confirmed # Users

SetInv == LobbyInv(lobby) /\ (OwnTimersOnly => ScoreInv(lobby)) /\ orphans \in [running : BOOLEAN, expired : BOOLEAN]

LEMMA OtherPlayer ==
  ASSUME NEW u \in Users
  PROVE  OtherThan(u) \in Users /\ OtherThan(u) # u /\ Users = {u, OtherThan(u)}
BY BestOfThreeAssumption DEF OtherThan

LEMMA FirstPlayerType ==
  ASSUME NEW s, LobbyInv(s)
  PROVE  FirstPlayer(s) \in Users \cup {Nobody}
<1>1. s.users \subseteq Users
  BY DEF LobbyInv, LobbyBase, LobbyStates
<1>2. \A w : Loser(s, w) \in Users \cup {Nobody}
  BY <1>1 DEF Loser
<1> QED BY <1>2 DEF FirstPlayer

LEMMA SetEndInv ==
  ASSUME NEW s, LobbyInv(s), NEW e \in SetEndResults
  PROVE  /\ LobbyInv([s EXCEPT !.setEnd = e])
         /\ ScoreInv(s) => ScoreInv([s EXCEPT !.setEnd = e])
<1> DEFINE t == [s EXCEPT !.setEnd = e]
<1>1. t \in LobbyStates
  BY DEF LobbyInv, LobbyBase, LobbyStates
<1>2. QED
  BY <1>1 DEF LobbyInv, LobbyBase, ScoreInv, LobbyStates

LEMMA StopReadyTimerInv ==
  ASSUME NEW s, LobbyBase(s)
  PROVE  /\ LobbyBase(StopReadyTimer(s))
         /\ LobbyInv(s) => LobbyInv(StopReadyTimer(s))
         /\ ScoreInv(s) => ScoreInv(StopReadyTimer(s))
         /\ StopReadyTimer(s).readyTimer # "running"
         /\ StopReadyTimer(s) = [s EXCEPT !.readyTimer = StopReadyTimer(s).readyTimer]
<1> DEFINE t == StopReadyTimer(s)
<1>1. t \in LobbyStates /\ t.readyTimer # "running" /\ t = [s EXCEPT !.readyTimer = t.readyTimer]
  BY DEF LobbyInv, LobbyBase, LobbyStates, StopReadyTimer
<1> HIDE DEF t
<1>2. LobbyBase(t) /\ (LobbyInv(s) => LobbyInv(t)) /\ (ScoreInv(s) => ScoreInv(t))
  BY <1>1 DEF LobbyInv, LobbyBase, ScoreInv, LobbyStates
<1> QED BY <1>1, <1>2 DEF t

LEMMA CleanLobbyInv ==
  ASSUME NEW s, LobbyBase(s)
  PROVE  LobbyInv(CleanLobby(s)) /\ ScoreInv(CleanLobby(s)) /\ CleanLobby(s).number = s.number
<1> DEFINE u == StopReadyTimer(s)
           t == CleanLobby(s)
<1>1. LobbyBase(u) /\ u \in LobbyStates /\ u.number = s.number
  BY StopReadyTimerInv DEF LobbyBase, LobbyStates
<1>2. t = [u EXCEPT !.transition = FALSE, !.game = "none", !.users = {}, !.ready = {}, !.invalid = {}]
  BY DEF CleanLobby
<1> HIDE DEF u, t
<1>3. t \in LobbyStates
  BY <1>1, <1>2 DEF LobbyStates
<1>4. LobbyInv(t) /\ ScoreInv(t) /\ t.number = u.number
  BY <1>1, <1>2, <1>3 DEF LobbyInv, LobbyBase, ScoreInv, LobbyStates
<1> QED BY <1>1, <1>4 DEF t

\* s with a game of a set that is over, won by w.
Ended(s, w, e, b) ==
  [s EXCEPT !.game = "over", !.finishedAt = TRUE, !.winners = Append(@, w), !.setEnd = e, !.transition = b]

\* What the end of a game changes.
LEMMA EndOfAGame ==
  ASSUME NEW s, LobbyBase(s), s.game = "playing", NEW w \in Users \cup {Draw}
  PROVE  \/ /\ s.mode = "Bo1"
            /\ EndGame(s, w) = [s EXCEPT !.game = "over", !.finishedAt = TRUE, !.lastWinner = w]
         \/ /\ s.mode = "Bo3"
            /\ \E e \in SetEndResults, b \in BOOLEAN : EndGame(s, w) = Ended(s, w, e, b)
<1> DEFINE over == [s EXCEPT !.game = "over", !.finishedAt = TRUE]
           recorded == [over EXCEPT !.winners = Append(@, w)]
           marked == MarkIfWon(recorded)
<1>1. EndGame(s, w) = HandleGameEnd(over, w)
  BY DEF EndGame
<1>2. s \in LobbyStates /\ over \in LobbyStates /\ s.mode \in {"Bo1", "Bo3"}
  BY DEF LobbyInv, LobbyBase, LobbyStates
<1>3. CASE s.mode = "Bo1"
  BY <1>1, <1>2, <1>3 DEF HandleGameEnd, LobbyStates
<1>4. CASE s.mode = "Bo3"
  <2>1. recorded \in LobbyStates
    <3>1. over.winners \in Seq(Users \cup {Draw})
      BY <1>2 DEF LobbyStates
    <3>2. Append(over.winners, w) \in Seq(Users \cup {Draw})
      BY <3>1
    <3> HIDE DEF over
    <3> QED BY <1>2, <3>2 DEF LobbyStates
  <2>2. PICK e \in SetEndResults : marked = [recorded EXCEPT !.setEnd = e]
    <3>1. CASE HasWinner(recorded) /\ recorded.setEnd = NoResult
      <4>1. [reason |-> "WonTwoGames", player |-> Nobody] \in SetEndResults
        BY DEF SetEndResults, EndReasons
      <4> QED BY <3>1, <4>1 DEF MarkIfWon
    <3>2. CASE ~(HasWinner(recorded) /\ recorded.setEnd = NoResult)
      <4>1. marked = recorded /\ recorded.setEnd \in SetEndResults
        BY <3>2, <2>1 DEF MarkIfWon, LobbyStates
      <4>2. recorded = [recorded EXCEPT !.setEnd = recorded.setEnd]
        BY <2>1 DEF LobbyStates
      <4> QED BY <4>1, <4>2
    <3> QED BY <3>1, <3>2
  <2> HIDE DEF marked
  <2>3. over.mode = "Bo3"
    BY <1>2, <1>4 DEF LobbyStates
  <2>4. CASE UseActionTimers(over)
    <3> DEFINE b == marked.transition \/ ~HasWinner(recorded)
    <3>1. HandleGameEnd(over, w) = [marked EXCEPT !.transition = b]
      BY <2>3, <2>4 DEF HandleGameEnd, marked
    <3> HIDE DEF b
    <3>2. b \in BOOLEAN
      BY DEF b
    <3>3. [marked EXCEPT !.transition = b] = Ended(s, w, e, b)
      BY <1>2, <2>1, <2>2 DEF LobbyStates, Ended
    <3>4. EndGame(s, w) = Ended(s, w, e, b)
      BY <1>1, <3>1, <3>3
    <3> QED BY <1>4, <3>2, <3>4
  <2>5. CASE ~UseActionTimers(over)
    <3>1. HandleGameEnd(over, w) = recorded
      BY <2>3, <2>5 DEF HandleGameEnd
    <3>2. recorded = Ended(s, w, s.setEnd, s.transition)
      BY <1>2, <2>1 DEF LobbyStates, Ended
    <3>3. s.setEnd \in SetEndResults /\ s.transition \in BOOLEAN
      BY <1>2 DEF LobbyStates
    <3>4. EndGame(s, w) = Ended(s, w, s.setEnd, s.transition)
      BY <1>1, <3>1, <3>2
    <3> QED BY <1>4, <3>3, <3>4
  <2> QED BY <2>4, <2>5
<1> QED BY <1>2, <1>3, <1>4

LEMMA EndGameInv ==
  ASSUME NEW s, LobbyBase(s), s.game = "playing", NEW w \in Users \cup {Draw}
  PROVE  /\ LobbyInv(EndGame(s, w))
         /\ ScoreInv(s) => ScoreInv(EndGame(s, w))
         /\ EndGame(s, w).game = "over" /\ EndGame(s, w).users = s.users
         /\ EndGame(s, w).number = s.number
<1> DEFINE t == EndGame(s, w)
<1>1. ASSUME s.mode = "Bo1", t = [s EXCEPT !.game = "over", !.finishedAt = TRUE, !.lastWinner = w]
      PROVE  /\ LobbyInv(t) /\ (ScoreInv(s) => ScoreInv(t))
             /\ t.game = "over" /\ t.users = s.users /\ t.number = s.number
  <2> HIDE DEF t
  <2>1. t \in LobbyStates
    BY <1>1 DEF LobbyInv, LobbyBase, LobbyStates
  <2> QED
    BY <1>1, <2>1 DEF LobbyInv, LobbyBase, ScoreInv, LobbyStates
<1>2. ASSUME s.mode = "Bo3", NEW e \in SetEndResults, NEW b \in BOOLEAN,
             t = Ended(s, w, e, b)
      PROVE  /\ LobbyInv(t) /\ (ScoreInv(s) => ScoreInv(t))
             /\ t.game = "over" /\ t.users = s.users /\ t.number = s.number
  <2> HIDE DEF t
  <2>1. t \in LobbyStates
    <3>1. s.winners \in Seq(Users \cup {Draw})
      BY DEF LobbyInv, LobbyBase, LobbyStates
    <3>2. Append(s.winners, w) \in Seq(Users \cup {Draw})
      BY <3>1
    <3> QED BY <1>2, <3>2 DEF LobbyInv, LobbyBase, LobbyStates, Ended
  <2>2. /\ t.game = "over" /\ t.users = s.users /\ t.number = s.number /\ t.ready = s.ready
        /\ t.mode = "Bo3" /\ t.rematchRequest = s.rematchRequest /\ t.confirmed = s.confirmed /\ t.readyTimer = s.readyTimer
        /\ t.winners = Append(s.winners, w)
    BY <1>2 DEF LobbyInv, LobbyBase, LobbyStates, Ended
  <2>3. Len(t.winners) = Len(s.winners) + 1 /\ s.number \in Nat /\ Len(s.winners) \in Nat
    BY <2>2 DEF LobbyInv, LobbyBase, LobbyStates
  <2>4. LobbyInv(t)
    BY <1>2, <2>1, <2>2 DEF LobbyInv, LobbyBase
  <2>5. ScoreInv(s) => ScoreInv(t)
    BY <1>2, <2>2, <2>3 DEF ScoreInv
  <2> QED BY <2>2, <2>4, <2>5
<1>3. \/ s.mode = "Bo1" /\ t = [s EXCEPT !.game = "over", !.finishedAt = TRUE, !.lastWinner = w]
      \/ s.mode = "Bo3" /\ \E e \in SetEndResults, b \in BOOLEAN : t = Ended(s, w, e, b)
  BY EndOfAGame
<1> HIDE DEF t
<1>4. LobbyInv(t) /\ (ScoreInv(s) => ScoreInv(t)) /\ t.game = "over" /\ t.users = s.users
      /\ t.number = s.number
  BY <1>1, <1>2, <1>3
<1> QED BY <1>4 DEF t

LEMMA ConcedeInv ==
  ASSUME NEW s, LobbyInv(s), NEW u \in Users
  PROVE  /\ LobbyInv(ConcedeBo3ByUserId(s, u))
         /\ ScoreInv(s) => ScoreInv(ConcedeBo3ByUserId(s, u))
         /\ ConcedeBo3ByUserId(s, u).users = s.users
         /\ ConcedeBo3ByUserId(s, u).number = s.number
         /\ s.game # "playing" => ConcedeBo3ByUserId(s, u).game = s.game
         /\ s.game = "playing" => ConcedeBo3ByUserId(s, u).game \in {"playing", "over"}
<1> DEFINE ended == IF s.game = "playing" /\ ~s.finishedAt THEN EndGame(s, OtherThan(u)) ELSE s
           e == [reason |-> "Concede", player |-> u]
<1>1. OtherThan(u) \in Users \cup {Draw}
  BY OtherPlayer
<1>2. /\ LobbyInv(ended) /\ (ScoreInv(s) => ScoreInv(ended))
      /\ ended.users = s.users /\ ended.number = s.number
      /\ s.game # "playing" => ended.game = s.game
      /\ s.game = "playing" => ended.game \in {"playing", "over"}
  <2>1. LobbyBase(s)
    BY DEF LobbyInv
  <2>2. CASE s.game = "playing" /\ ~s.finishedAt
    <3>1. ended = EndGame(s, OtherThan(u))
      BY <2>2
    <3> HIDE DEF ended
    <3> QED BY <1>1, <2>1, <2>2, <3>1, EndGameInv
  <2>3. CASE ~(s.game = "playing" /\ ~s.finishedAt)
    BY <2>3
  <2> QED BY <2>2, <2>3
<1>3. ConcedeBo3ByUserId(s, u) = IF ended.setEnd = NoResult THEN [ended EXCEPT !.setEnd = e] ELSE ended
  BY DEF ConcedeBo3ByUserId
<1>4. e \in SetEndResults
  BY DEF SetEndResults, EndReasons
<1> HIDE DEF ended, e
<1>5. LobbyInv([ended EXCEPT !.setEnd = e]) /\ (ScoreInv(ended) => ScoreInv([ended EXCEPT !.setEnd = e]))
  BY <1>2, <1>4, SetEndInv
<1>6. /\ [ended EXCEPT !.setEnd = e].users = ended.users /\ [ended EXCEPT !.setEnd = e].number = ended.number
      /\ [ended EXCEPT !.setEnd = e].game = ended.game
  BY <1>2 DEF LobbyInv, LobbyBase, LobbyStates
<1> QED BY <1>2, <1>3, <1>5, <1>6

\* The game that starts, or the deck that stops it.
LEMMA StartGameInv ==
  ASSUME NEW s, LobbyInv(s), s.users = Users
  PROVE  /\ LobbyInv(StartGameAsync(s))
         /\ ScoreInv(s) /\ s.game = "none" => ScoreInv(StartGameAsync(s))
         /\ StartGameAsync(s).number = s.number
<1> DEFINE stopped == StopReadyTimer(s)
           t == StartGameAsync(s)
           chooser == FirstPlayer(s)
           changed == stopped.deckChanged /\ (s.mode = "Bo3" \/ s.lastWinner = Nobody)
<1>0. LobbyBase(s)
  BY DEF LobbyInv
<1>1. /\ LobbyInv(stopped) /\ (ScoreInv(s) => ScoreInv(stopped)) /\ stopped.readyTimer # "running"
      /\ stopped.number = s.number /\ stopped.game = s.game /\ stopped.users = Users
  BY <1>0, StopReadyTimerInv DEF LobbyInv, LobbyBase, LobbyStates
<1>2. chooser \in Users \cup {Nobody}
  BY FirstPlayerType
<1>3. CASE s.invalid # {} /\ s.matchmakingType = "Quick"
  <2>1. t = CleanLobby(stopped)
    BY <1>3 DEF StartGameAsync
  <2> HIDE DEF t, stopped
  <2>2. LobbyBase(stopped)
    BY <1>1 DEF LobbyInv
  <2> QED BY <1>1, <2>1, <2>2, CleanLobbyInv DEF t
<1>4. CASE s.invalid # {} /\ s.matchmakingType # "Quick"
  <2>1. t = [stopped EXCEPT !.ready = {}]
    BY <1>4 DEF StartGameAsync
  <2> HIDE DEF t, stopped
  <2>2. t \in LobbyStates
    BY <1>1, <2>1 DEF LobbyInv, LobbyBase, LobbyStates
  <2>3. /\ t.ready = {} /\ t.number = stopped.number /\ t.users = stopped.users
        /\ t.game = stopped.game /\ t.mode = stopped.mode /\ t.winners = stopped.winners
        /\ t.confirmed = stopped.confirmed /\ t.transition = stopped.transition
        /\ t.finishedAt = stopped.finishedAt /\ t.readyTimer = stopped.readyTimer
        /\ t.undoMode = stopped.undoMode /\ t.rematchRequest = stopped.rematchRequest
    BY <1>1, <2>1 DEF LobbyInv, LobbyBase, LobbyStates
  <2>4. LobbyInv(t) /\ (ScoreInv(stopped) => ScoreInv(t))
    BY <1>1, <2>2, <2>3 DEF LobbyInv, LobbyBase, ScoreInv
  <2> QED BY <1>1, <2>3, <2>4 DEF t
<1>5. CASE s.invalid = {}
  <2>1. t = [stopped EXCEPT !.rematchRequest = NoRequest, !.game = "playing", !.finishedAt = FALSE,
                            !.chooser = chooser, !.deckChanged = changed]
    BY <1>5 DEF StartGameAsync
  <2>2. changed \in BOOLEAN /\ NoRequest \in Requests
    BY DEF Requests
  <2> HIDE DEF t, stopped, chooser, changed
  <2>3. t \in LobbyStates
    BY <1>1, <1>2, <2>1, <2>2 DEF LobbyInv, LobbyBase, LobbyStates
  <2>4. /\ t.game = "playing" /\ ~t.finishedAt /\ t.users = Users /\ t.number = stopped.number
        /\ t.mode = stopped.mode /\ t.winners = stopped.winners /\ t.confirmed = stopped.confirmed
        /\ t.transition = stopped.transition /\ t.ready = stopped.ready /\ t.rematchRequest = NoRequest
        /\ t.readyTimer = stopped.readyTimer
    BY <1>1, <2>1 DEF LobbyInv, LobbyBase, LobbyStates
  <2>5. LobbyInv(t)
    BY <1>1, <2>3, <2>4 DEF LobbyInv, LobbyBase, NoRequest
  <2>6. ScoreInv(stopped) /\ stopped.game = "none" => ScoreInv(t)
    BY <1>1, <2>4 DEF ScoreInv
  <2> QED BY <1>1, <2>4, <2>5, <2>6 DEF t
<1> QED BY <1>3, <1>4, <1>5

LEMMA TransitionInv ==
  ASSUME NEW s, LobbyInv(s), s.mode = "Bo3", s.game = "over"
  PROVE  /\ LobbyInv(TransitionToNextBo3Game(s))
         /\ ScoreInv(s) => ScoreInv(TransitionToNextBo3Game(s))
<1> DEFINE t == TransitionToNextBo3Game(s)
<1>1. s \in LobbyStates /\ s.number \in Nat /\ s.number >= 1
  BY DEF LobbyInv, LobbyBase, LobbyStates
<1>2. /\ t.transition = FALSE /\ t.number = s.number + 1 /\ t.game = "none" /\ t.confirmed = {}
      /\ t.rematchRequest = s.rematchRequest
      /\ t.ready = {} /\ t.mode = s.mode /\ t.winners = s.winners /\ t.users = s.users
  BY <1>1 DEF TransitionToNextBo3Game, LobbyStates
<1>3. t \in LobbyStates
  <2>1. s.number + 1 \in Nat
    BY <1>1
  <2> QED BY <1>1, <2>1 DEF TransitionToNextBo3Game, LobbyStates
<1> HIDE DEF t
<1>4. LobbyInv(t) /\ (ScoreInv(s) => ScoreInv(t))
  BY <1>1, <1>2, <1>3 DEF LobbyInv, LobbyBase, ScoreInv
<1> QED BY <1>4 DEF t

\* A user is gone: out of the lobby, of the game, and of the set.
LEMMA RemoveUserInv ==
  ASSUME NEW s, LobbyInv(s), NEW u \in Users, u \in s.users
  PROVE  LET left == RemoveUser(s, u)
             t == IF left.users = {} THEN CleanLobby(left) ELSE left
         IN LobbyInv(t) /\ (ScoreInv(s) => ScoreInv(t)) /\ t.number = s.number
<1> DEFINE quiet == [StopReadyTimer(s) EXCEPT !.transition = FALSE]
           begun == s.mode = "Bo3" /\ s.setEnd = NoResult /\ (s.number > 1 \/ s.game # "none")
           conceded == IF begun THEN ConcedeBo3ByUserId(quiet, u) ELSE s
           left == [conceded EXCEPT !.users = @ \ {u}, !.ready = @ \ {u}, !.invalid = @ \ {u}]
           removed == RemoveUser(s, u)
           t == IF removed.users = {} THEN CleanLobby(removed) ELSE removed
<1>1. LobbyInv(quiet) /\ (ScoreInv(s) => ScoreInv(quiet)) /\ quiet.users = s.users /\ quiet.number = s.number
  <2> DEFINE stopped == StopReadyTimer(s)
  <2>0. LobbyBase(s)
    BY DEF LobbyInv
  <2>1. /\ LobbyInv(stopped) /\ (ScoreInv(s) => ScoreInv(stopped))
        /\ stopped.users = s.users /\ stopped.number = s.number
    BY <2>0, StopReadyTimerInv DEF LobbyInv, LobbyBase, LobbyStates
  <2>2. quiet = [stopped EXCEPT !.transition = FALSE]
    OBVIOUS
  <2> HIDE DEF stopped, quiet
  <2>3. quiet \in LobbyStates
    BY <2>1, <2>2 DEF LobbyInv, LobbyBase, LobbyStates
  <2>4. /\ quiet.ready = stopped.ready /\ quiet.number = stopped.number /\ quiet.users = stopped.users
        /\ quiet.game = stopped.game /\ quiet.mode = stopped.mode /\ quiet.winners = stopped.winners
        /\ quiet.confirmed = stopped.confirmed /\ quiet.transition = FALSE
        /\ quiet.rematchRequest = stopped.rematchRequest
        /\ quiet.readyTimer = stopped.readyTimer /\ quiet.undoMode = stopped.undoMode
    BY <2>1, <2>2 DEF LobbyInv, LobbyBase, LobbyStates
  <2> QED
    BY <2>1, <2>3, <2>4 DEF LobbyInv, LobbyBase, ScoreInv
<1>2. /\ LobbyInv(conceded) /\ (ScoreInv(s) => ScoreInv(conceded))
      /\ conceded.users = s.users /\ conceded.number = s.number
  <2> HIDE DEF quiet, begun
  <2> QED BY <1>1, ConcedeInv
<1>3. removed = IF left.game = "playing" /\ OtherThan(u) \in left.users
                THEN EndGame(left, OtherThan(u)) ELSE left
  BY DEF RemoveUser
<1> HIDE DEF conceded
<1>4. /\ left \in LobbyStates
      /\ left.users = conceded.users \ {u} /\ left.ready = conceded.ready \ {u}
      /\ left.number = conceded.number /\ left.mode = conceded.mode /\ left.game = conceded.game
      /\ left.winners = conceded.winners /\ left.confirmed = conceded.confirmed
      /\ left.transition = conceded.transition /\ left.finishedAt = conceded.finishedAt
      /\ left.readyTimer = conceded.readyTimer /\ left.rematchRequest = conceded.rematchRequest
  BY <1>2 DEF LobbyInv, LobbyBase, LobbyStates
<1> HIDE DEF left
<1>5. LobbyBase(left) /\ (ScoreInv(s) => ScoreInv(left)) /\ left.number = s.number
  BY <1>2, <1>4 DEF LobbyInv, LobbyBase, ScoreInv
<1>6. OtherThan(u) \in Users \cup {Draw} /\ Users = {u, OtherThan(u)}
  BY OtherPlayer
<1>7. /\ LobbyBase(removed) /\ (ScoreInv(s) => ScoreInv(removed)) /\ removed.number = s.number
      /\ removed.game = "playing" => removed.users = {}
  <2>1. CASE left.game = "playing" /\ OtherThan(u) \in left.users
    <3>1. removed = EndGame(left, OtherThan(u))
      BY <1>3, <2>1
    <3>2. LobbyInv(EndGame(left, OtherThan(u)))
      BY <1>5, <1>6, <2>1, EndGameInv
    <3>3. /\ ScoreInv(left) => ScoreInv(EndGame(left, OtherThan(u)))
          /\ EndGame(left, OtherThan(u)).game = "over" /\ EndGame(left, OtherThan(u)).number = left.number
      BY <1>5, <1>6, <2>1, EndGameInv
    <3> HIDE DEF removed
    <3> QED BY <1>5, <3>1, <3>2, <3>3 DEF LobbyInv
  <2>2. CASE ~(left.game = "playing" /\ OtherThan(u) \in left.users)
    <3>1. removed = left
      BY <1>3, <2>2
    <3>2. left.users \subseteq Users \ {u}
      BY <1>2, <1>4 DEF LobbyInv, LobbyBase, LobbyStates
    <3>3. left.game = "playing" => left.users = {}
      BY <1>6, <2>2, <3>2
    <3> HIDE DEF removed
    <3> QED BY <1>5, <3>1, <3>3
  <2> QED BY <2>1, <2>2
<1> HIDE DEF removed
<1>8. LobbyInv(t) /\ (ScoreInv(s) => ScoreInv(t)) /\ t.number = s.number
  <2>1. CASE removed.users = {}
    <3>1. LobbyInv(CleanLobby(removed)) /\ ScoreInv(CleanLobby(removed)) /\ CleanLobby(removed).number = removed.number
      BY <1>7, CleanLobbyInv
    <3> QED BY <1>7, <2>1, <3>1
  <2>2. CASE removed.users # {}
    <3>1. LobbyInv(removed)
      BY <1>7, <2>2 DEF LobbyInv
    <3> QED BY <1>7, <2>2, <3>1
  <2> QED BY <2>1, <2>2
<1> QED BY <1>8 DEF removed

\* The timer that starts a game must find the lobby without one.
LEMMA LobbyReadyTimeoutInv ==
  ASSUME NEW s, LobbyInv(s)
  PROVE  /\ LobbyInv(LobbyReadyTimeout(s)) /\ LobbyReadyTimeout(s).number = s.number
         /\ ScoreInv(s) /\ s.game = "none" => ScoreInv(LobbyReadyTimeout(s))
<1>1. s \in LobbyStates /\ s.ready \subseteq s.users /\ s.users \subseteq Users
  BY DEF LobbyInv, LobbyBase, LobbyStates
<1>2. CASE s.ready = Users
  <2>1. LobbyReadyTimeout(s) = StartGameAsync(s) /\ s.users = Users
    BY <1>1, <1>2 DEF LobbyReadyTimeout
  <2> QED BY <2>1, StartGameInv
<1>3. CASE s.ready # Users
  <2>1. \E e \in SetEndResults : LobbyReadyTimeout(s) = [s EXCEPT !.setEnd = e]
    <3>1. CASE Cardinality(s.ready) = 1 /\ s.users = Users
      <4> DEFINE e == [reason |-> "OnePlayerLobbyTimeout", player |-> CHOOSE u \in Users : u \notin s.ready]
      <4>1. \E u \in Users : u \notin s.ready
        BY <1>1, <1>3
      <4>2. e \in SetEndResults
        BY <4>1 DEF SetEndResults, EndReasons
      <4>3. LobbyReadyTimeout(s) = [s EXCEPT !.setEnd = e]
        BY <1>3, <3>1 DEF LobbyReadyTimeout
      <4> HIDE DEF e
      <4> QED BY <4>2, <4>3
    <3>2. CASE ~(Cardinality(s.ready) = 1 /\ s.users = Users)
      <4> DEFINE e == [reason |-> "BothPlayersLobbyTimeout", player |-> Nobody]
      <4>1. e \in SetEndResults
        BY DEF SetEndResults, EndReasons
      <4>2. LobbyReadyTimeout(s) = [s EXCEPT !.setEnd = e]
        BY <1>3, <3>2 DEF LobbyReadyTimeout
      <4> HIDE DEF e
      <4> QED BY <4>1, <4>2
    <3> QED BY <3>1, <3>2
  <2>2. PICK e \in SetEndResults : LobbyReadyTimeout(s) = [s EXCEPT !.setEnd = e]
    BY <2>1
  <2>3. [s EXCEPT !.setEnd = e].number = s.number
    BY <1>1 DEF LobbyStates
  <2> QED BY <2>2, <2>3, SetEndInv
<1> QED BY <1>2, <1>3

\* A score that begins anew, or with the game just won.
LEMMA InitializeInv ==
  ASSUME NEW s, LobbyInv(s), s.game = "none", s.rematchRequest = NoRequest,
         NEW w \in Users \cup {Nobody, Draw}
  PROVE  /\ LobbyInv(InitializeBo3History(s, w)) /\ ScoreInv(InitializeBo3History(s, w))
         /\ w = Nobody => InitializeBo3History(s, w).number = 1
<1> DEFINE t == InitializeBo3History(s, w)
           ws == IF w = Nobody THEN <<>> ELSE <<w>>
<1>1. ws \in Seq(Users \cup {Draw}) /\ Len(ws) = IF w = Nobody THEN 0 ELSE 1
  <2>1. CASE w = Nobody
    BY <2>1
  <2>2. CASE w # Nobody
    <3>1. w \in Users \cup {Draw}
      BY <2>2
    <3>2. <<w>> \in Seq(Users \cup {Draw}) /\ Len(<<w>>) = 1
      BY <3>1
    <3> QED BY <2>2, <3>2
  <2> QED BY <2>1, <2>2
<1>2. /\ t.winners = ws /\ t.number = (IF w = Nobody THEN 1 ELSE 2) /\ t.mode = "Bo3"
      /\ t.confirmed = {} /\ t.game = "none" /\ t.users = s.users /\ t.ready = s.ready
      /\ t.rematchRequest = NoRequest
  BY DEF InitializeBo3History, LobbyInv, LobbyBase, LobbyStates
<1>3. t \in LobbyStates
  <2>1. NoResult \in SetEndResults
    BY DEF SetEndResults
  <2> DEFINE n == IF w = Nobody THEN 1 ELSE 2
             timer == IF UseActionTimers(s) THEN "off" ELSE s.readyTimer
  <2>2. n \in Nat /\ timer \in {"none", "off", "running"}
    BY DEF LobbyInv, LobbyBase, LobbyStates
  <2>3. t = [s EXCEPT !.mode = "Bo3", !.number = n, !.winners = ws, !.setEnd = NoResult,
                      !.lastWinner = Nobody, !.deckChanged = FALSE, !.confirmed = {},
                      !.readyTimer = timer]
    BY DEF InitializeBo3History
  <2> HIDE DEF ws, t, n, timer
  <2> QED BY <1>1, <2>1, <2>2, <2>3 DEF LobbyInv, LobbyBase, LobbyStates
<1> HIDE DEF t, ws
<1>4. t.ready \subseteq t.users /\ t.number >= 1 /\ Len(t.winners) = t.number - 1
  <2>1. t.ready \subseteq t.users
    BY <1>2 DEF LobbyInv, LobbyBase
  <2>2. CASE w = Nobody
    BY <1>1, <1>2, <2>1, <2>2
  <2>3. CASE w # Nobody
    <3>1. t.number = 2
      BY <1>2, <2>3
    <3>2. Len(t.winners) = 1
      BY <1>1, <1>2, <2>3
    <3> QED BY <2>1, <3>1, <3>2
  <2> QED BY <2>2, <2>3
<1>5. LobbyInv(t) /\ ScoreInv(t)
  BY <1>2, <1>3, <1>4 DEF LobbyInv, LobbyBase, ScoreInv, NoRequest
<1> QED BY <1>2, <1>5 DEF t

-----------------------------------------------------------------------------
(* Actions *)

NumberStep == lobby.mode = "Bo3" /\ lobby'.number > lobby.number => lobby.game = "over"

\* What every step keeps, and why a game number grows.
StepOK == SetInv' /\ NumberStep

\* A step of the lobby alone.
LEMMA LobbyStep ==
  ASSUME SetInv, UNCHANGED orphans, LobbyInv(lobby'), ScoreInv(lobby) => ScoreInv(lobby'),
         lobby'.number = lobby.number
  PROVE  StepOK
<1>1. lobby.number \in Nat
  BY DEF SetInv, LobbyInv, LobbyBase, LobbyStates
<1> QED BY <1>1 DEF SetInv, OwnTimersOnly, StepOK, NumberStep

LEMMA SetReadyStatusStep ==
  ASSUME SetInv, NEW u \in Users, SetReadyStatus(u)
  PROVE  StepOK
<1> USE DEF LobbyInv, LobbyBase
<1>1. PICK ready \in {lobby.ready \cup {u}, lobby.ready \ {u}} :
        LET set == ManageBo3LobbyReadyTimer([lobby EXCEPT !.ready = ready])
        IN lobby' = IF set.mode = "Bo3" /\ set.number > 1 /\ ready = Users
                    THEN StartGameAsync(set) ELSE set
  BY DEF SetReadyStatus
<1> DEFINE r == [lobby EXCEPT !.ready = ready]
           set == ManageBo3LobbyReadyTimer(r)
<1>2. lobby \in LobbyStates /\ lobby.game = "none" /\ u \in lobby.users /\ ready \subseteq lobby.users
  BY DEF SetInv, SetReadyStatus, LobbyIsShown
<1>3. r \in LobbyStates /\ r.readyTimer \in {"none", "off", "running"}
  BY <1>2 DEF LobbyStates
<1>4. PICK timer \in {"none", "off", "running"} : set = [r EXCEPT !.readyTimer = timer]
  <2>1. r = [r EXCEPT !.readyTimer = r.readyTimer]
    BY <1>3 DEF LobbyStates
  <2> HIDE DEF r
  <2>2. \/ set = r
        \/ set = [r EXCEPT !.readyTimer = "running"]
        \/ set = [r EXCEPT !.readyTimer = IF @ = "running" THEN "off" ELSE @]
    BY DEF ManageBo3LobbyReadyTimer, StopReadyTimer
  <2>3. (IF r.readyTimer = "running" THEN "off" ELSE r.readyTimer) \in {"none", "off", "running"}
    BY <1>3
  <2> QED BY <1>3, <2>1, <2>2, <2>3
<1>5. /\ set \in LobbyStates /\ set.ready = ready /\ set.game = "none" /\ set.users = lobby.users
      /\ set.number = lobby.number /\ set.mode = lobby.mode /\ set.winners = lobby.winners
      /\ set.confirmed = lobby.confirmed /\ set.transition = lobby.transition
      /\ set.rematchRequest = lobby.rematchRequest
  <2> HIDE DEF set
  <2> QED BY <1>2, <1>4 DEF LobbyStates
<1> HIDE DEF r, set
<1>6. LobbyInv(set) /\ (ScoreInv(lobby) => ScoreInv(set))
  BY <1>2, <1>5 DEF SetInv, ScoreInv
<1>7. CASE set.mode = "Bo3" /\ set.number > 1 /\ ready = Users
  <2>1. lobby' = StartGameAsync(set)
    BY <1>1, <1>7 DEF set, r
  <2>2. set.users = Users
    BY <1>2, <1>5, <1>7 DEF LobbyStates
  <2>3. /\ LobbyInv(lobby') /\ (ScoreInv(set) => ScoreInv(lobby')) /\ lobby'.number = set.number
    BY <1>5, <1>6, <2>1, <2>2, StartGameInv
  <2> QED BY <1>5, <1>6, <2>3, LobbyStep DEF SetReadyStatus
<1>8. CASE ~(set.mode = "Bo3" /\ set.number > 1 /\ ready = Users)
  <2>1. lobby' = set
    BY <1>1, <1>8 DEF set, r
  <2> QED BY <1>5, <1>6, <2>1, LobbyStep DEF SetReadyStatus
<1> QED BY <1>7, <1>8

LEMMA StartGameStep ==
  ASSUME SetInv, StartGame
  PROVE  StepOK
<1>1. LobbyInv(lobby) /\ lobby.users = Users /\ lobby.game = "none" /\ lobby' = StartGameAsync(lobby)
  BY DEF SetInv, StartGame, LobbyIsShown
<1> QED BY <1>1, StartGameInv, LobbyStep DEF StartGame

\* Decks and settings are no part of the score.
LEMMA DeckAndSettingSteps ==
  ASSUME SetInv, NEW u \in Users, UpdateDeck(u) \/ ChangeDeck(u) \/ UpdateSetting \/ RequestRematch(u)
  PROVE  StepOK
<1>1. lobby \in LobbyStates
  BY DEF SetInv, LobbyInv, LobbyBase
<1>2. ASSUME lobby' \in LobbyStates,
             lobby'.ready = lobby.ready, lobby'.users = lobby.users, lobby'.game = lobby.game,
             lobby'.mode = lobby.mode, lobby'.number = lobby.number, lobby'.winners = lobby.winners,
             lobby'.confirmed = lobby.confirmed, lobby'.transition = lobby.transition,
             lobby'.finishedAt = lobby.finishedAt, lobby'.readyTimer = lobby.readyTimer,
             lobby'.undoMode = lobby.undoMode \/ lobby.game = "none", UNCHANGED orphans,
             lobby'.rematchRequest.mode \in {"Regular", "Bo1ConvertToBo3"} => lobby.mode = "Bo1"
      PROVE  StepOK
  <2>1. LobbyInv(lobby') /\ (ScoreInv(lobby) => ScoreInv(lobby'))
    BY <1>2 DEF SetInv, LobbyInv, LobbyBase, ScoreInv
  <2> QED BY <1>2, <2>1, LobbyStep
<1>0. lobby.rematchRequest.mode \in {"Regular", "Bo1ConvertToBo3"} => lobby.mode = "Bo1"
  BY DEF SetInv, LobbyInv, LobbyBase
<1>3. CASE UpdateDeck(u)
  <2>1. PICK invalid \in {lobby.invalid \cup {u}, lobby.invalid \ {u}} :
          lobby' = [lobby EXCEPT !.invalid = invalid]
    BY <1>3 DEF UpdateDeck
  <2>2. lobby' \in LobbyStates
    BY <1>1, <2>1 DEF LobbyStates
  <2> QED BY <1>0, <1>1, <1>2, <1>3, <2>1, <2>2 DEF LobbyStates, UpdateDeck
<1>4. CASE ChangeDeck(u)
  <2>1. PICK invalid \in {lobby.invalid \cup {u}, lobby.invalid \ {u}} :
          lobby' = [lobby EXCEPT !.invalid = invalid, !.deckChanged = lobby.mode = "Bo1"]
    BY <1>4 DEF ChangeDeck
  <2>2. lobby' \in LobbyStates
    BY <1>1, <2>1 DEF LobbyStates
  <2> QED BY <1>0, <1>1, <1>2, <1>4, <2>1, <2>2 DEF LobbyStates, ChangeDeck
<1>5. CASE UpdateSetting
  <2>1. PICK m \in {"Free", "Request"} : lobby' = [lobby EXCEPT !.undoMode = m]
    BY <1>5 DEF UpdateSetting
  <2>2. lobby' \in LobbyStates
    BY <1>1, <2>1 DEF LobbyStates
  <2> QED BY <1>0, <1>1, <1>2, <1>5, <2>1, <2>2 DEF LobbyStates, UpdateSetting, LobbyIsShown
<1>6. CASE RequestRematch(u)
  <2>1. PICK m \in (IF lobby.mode = "Bo1" THEN {"Regular", "Bo1ConvertToBo3"} ELSE {"NewBo3"}) :
          lobby' = [lobby EXCEPT !.rematchRequest = [initiator |-> u, mode |-> m]]
    BY <1>6 DEF RequestRematch
  <2>2. [initiator |-> u, mode |-> m] \in Requests
    BY DEF Requests, RematchModes
  <2>3. lobby' \in LobbyStates
    BY <1>1, <2>1, <2>2 DEF LobbyStates
  <2> QED BY <1>1, <1>2, <1>6, <2>1, <2>3 DEF LobbyStates, RequestRematch
<1> QED BY <1>3, <1>4, <1>5, <1>6

LEMMA RematchStep ==
  ASSUME SetInv, NEW u \in Users, Rematch(u)
  PROVE  StepOK
<1> DEFINE m == lobby.rematchRequest.mode
           type == IF lobby.matchmakingType = "Quick" THEN "PublicLobby" ELSE lobby.matchmakingType
           dropped == [lobby EXCEPT !.rematchRequest = NoRequest, !.game = "none", !.ready = {},
                                    !.matchmakingType = type]
<1>1. lobby \in LobbyStates /\ lobby.number \in Nat /\ lobby.number >= 1
  BY DEF SetInv, LobbyInv, LobbyBase, LobbyStates
<1>2. /\ lobby.game # "playing" /\ lobby.rematchRequest \in Requests /\ lobby.rematchRequest # NoRequest
      /\ IF lobby.mode = "Bo1" THEN lobby.game = "over" ELSE SetIsOver(lobby)
  BY <1>1 DEF Rematch, RematchIsOffered, LobbyStates
<1>3. m \in RematchModes
  BY <1>2 DEF Requests
<1>4. orphans' \in [running : BOOLEAN, expired : BOOLEAN] /\ orphans'.expired = orphans.expired
  <2> DEFINE b == orphans.running \/ (m = "NewBo3" /\ lobby.readyTimer = "running")
  <2>1. orphans' = [orphans EXCEPT !.running = b]
    BY DEF Rematch
  <2>2. b \in BOOLEAN /\ orphans \in [running : BOOLEAN, expired : BOOLEAN]
    BY DEF SetInv
  <2> HIDE DEF b
  <2> QED BY <2>1, <2>2
<1>5. dropped \in LobbyStates
  <2>1. type \in AllMatchmakingTypes /\ NoRequest \in Requests
    BY <1>1 DEF LobbyStates, AllMatchmakingTypes, Requests
  <2> HIDE DEF type
  <2> QED BY <1>1, <2>1 DEF LobbyStates
<1>6. /\ dropped.game = "none" /\ dropped.ready = {} /\ dropped.users = lobby.users
      /\ dropped.mode = lobby.mode /\ dropped.number = lobby.number /\ dropped.winners = lobby.winners
      /\ dropped.confirmed = lobby.confirmed /\ dropped.transition = lobby.transition
      /\ dropped.readyTimer = lobby.readyTimer /\ dropped.rematchRequest = NoRequest
  BY <1>1 DEF LobbyStates
<1>7. LobbyInv(dropped)
  <2> HIDE DEF dropped
  <2> QED BY <1>1, <1>5, <1>6 DEF SetInv, LobbyInv, LobbyBase, NoRequest
<1>8. ASSUME LobbyInv(lobby'), OwnTimersOnly => ScoreInv(lobby'),
             lobby.mode = "Bo3" => lobby'.number <= lobby.number
      PROVE  StepOK
  <2>1. lobby'.number \in Nat
    BY <1>8 DEF LobbyInv, LobbyBase, LobbyStates
  <2> QED BY <1>1, <1>4, <1>8, <2>1 DEF StepOK, SetInv, NumberStep, OwnTimersOnly
<1>9. m \in {"Regular", "Bo1ConvertToBo3"} => lobby.mode = "Bo1"
  BY DEF SetInv, LobbyInv, LobbyBase
<1>10. CASE m = "Regular"
  <2>1. lobby' = [dropped EXCEPT !.confirmed = {}] /\ lobby.mode = "Bo1"
    BY <1>9, <1>10 DEF Rematch
  <2> HIDE DEF dropped
  <2>2. /\ lobby' \in LobbyStates
        /\ lobby'.game = "none" /\ lobby'.ready = {} /\ lobby'.mode = "Bo1" /\ lobby'.confirmed = {}
        /\ lobby'.number = lobby.number /\ ~lobby'.transition /\ lobby'.rematchRequest = NoRequest
    BY <1>1, <1>5, <1>6, <2>1 DEF LobbyStates, SetInv, LobbyInv, LobbyBase
  <2>3. LobbyInv(lobby') /\ ScoreInv(lobby')
    BY <1>1, <2>2 DEF LobbyInv, LobbyBase, ScoreInv, NoRequest
  <2> QED BY <1>8, <2>1, <2>3
<1>11. CASE m = "Bo1ConvertToBo3"
  <2>1. lobby' = InitializeBo3History(dropped, lobby.lastWinner) /\ lobby.mode = "Bo1"
    BY <1>9, <1>11 DEF Rematch
  <2>2. lobby.lastWinner \in Users \cup {Nobody, Draw}
    BY <1>1 DEF LobbyStates
  <2> HIDE DEF dropped
  <2> QED BY <1>6, <1>7, <1>8, <2>1, <2>2, InitializeInv
<1>12. CASE m = "NewBo3"
  <2> DEFINE fresh == InitializeBo3History(dropped, Nobody)
  <2>1. PICK invalid \in SUBSET lobby.users : lobby' = [fresh EXCEPT !.invalid = invalid]
    BY <1>12 DEF Rematch
  <2> HIDE DEF dropped
  <2>2. LobbyInv(fresh) /\ ScoreInv(fresh) /\ fresh.number = 1
    BY <1>6, <1>7, InitializeInv
  <2> HIDE DEF fresh
  <2>3. lobby.users \subseteq Users
    BY <1>1 DEF LobbyStates
  <2>4. lobby' \in LobbyStates
    BY <2>1, <2>2, <2>3 DEF LobbyInv, LobbyBase, LobbyStates
  <2>5. fresh \in LobbyStates
    BY <2>2 DEF LobbyInv, LobbyBase
  <2>6. /\ lobby'.game = fresh.game /\ lobby'.ready = fresh.ready /\ lobby'.users = fresh.users
        /\ lobby'.mode = fresh.mode /\ lobby'.number = fresh.number /\ lobby'.winners = fresh.winners
        /\ lobby'.confirmed = fresh.confirmed /\ lobby'.transition = fresh.transition
        /\ lobby'.readyTimer = fresh.readyTimer /\ lobby'.undoMode = fresh.undoMode
        /\ lobby'.rematchRequest = fresh.rematchRequest /\ lobby'.finishedAt = fresh.finishedAt
    BY <2>1, <2>5 DEF LobbyStates
  <2>7. LobbyInv(lobby')
    BY <2>2, <2>4, <2>6 DEF LobbyInv, LobbyBase
  <2>8. ScoreInv(lobby') /\ lobby'.number = 1
    BY <2>2, <2>6 DEF ScoreInv
  <2> QED BY <1>1, <1>8, <2>7, <2>8
<1> QED BY <1>3, <1>10, <1>11, <1>12 DEF RematchModes

LEMMA ProceedStep ==
  ASSUME SetInv, NEW u \in Users, ProceedToNextBo3Game(u)
  PROVE  StepOK
<1> DEFINE confirmed == [lobby EXCEPT !.confirmed = @ \cup {u}]
<1>1. /\ lobby \in LobbyStates /\ lobby.game = "over" /\ lobby.mode = "Bo3" /\ UNCHANGED orphans
      /\ lobby' = IF confirmed.confirmed = Users THEN TransitionToNextBo3Game(confirmed) ELSE confirmed
  BY DEF SetInv, LobbyInv, LobbyBase, ProceedToNextBo3Game, NextGameIsOffered
<1>2. /\ confirmed \in LobbyStates /\ confirmed.game = "over" /\ confirmed.mode = "Bo3"
      /\ confirmed.number = lobby.number /\ confirmed.users = lobby.users
      /\ confirmed.ready = lobby.ready /\ confirmed.winners = lobby.winners
      /\ confirmed.readyTimer = lobby.readyTimer /\ confirmed.rematchRequest = lobby.rematchRequest
  BY <1>1 DEF LobbyStates
<1> HIDE DEF confirmed
<1>3. LobbyInv(confirmed)
  BY <1>1, <1>2 DEF SetInv, LobbyInv, LobbyBase
<1>4. CASE confirmed.confirmed = Users
  <2>1. lobby' = TransitionToNextBo3Game(confirmed)
    BY <1>1, <1>4
  <2>2. LobbyInv(lobby')
    BY <1>2, <1>3, <2>1, TransitionInv
  <2>3. ScoreInv(lobby) => ScoreInv(lobby')
    <3> SUFFICES ASSUME ScoreInv(lobby) PROVE ScoreInv(lobby')
      OBVIOUS
    <3>1. /\ lobby'.game = "none" /\ lobby'.number = lobby.number + 1 /\ lobby'.confirmed = {}
          /\ lobby'.winners = lobby.winners /\ lobby'.users = lobby.users
      BY <1>2, <2>1 DEF TransitionToNextBo3Game, LobbyStates
    <3> QED BY <1>1, <3>1 DEF ScoreInv, LobbyStates
  <2> QED BY <1>1, <2>2, <2>3 DEF StepOK, SetInv, OwnTimersOnly, NumberStep
<1>5. CASE confirmed.confirmed # Users
  <2>1. lobby' = confirmed
    BY <1>1, <1>5
  <2>2. ScoreInv(lobby) => ScoreInv(lobby')
    BY <1>1, <1>2, <1>5, <2>1 DEF ScoreInv
  <2> QED BY <1>1, <1>2, <1>3, <2>1, <2>2, LobbyStep
<1> QED BY <1>4, <1>5

LEMMA ConcedeStep ==
  ASSUME SetInv, NEW u \in Users, ConcedeBo3(u)
  PROVE  StepOK
<1>1. LobbyInv(lobby) /\ lobby' = ConcedeBo3ByUserId(lobby, u) /\ UNCHANGED orphans
  BY DEF SetInv, ConcedeBo3
<1> QED BY <1>1, ConcedeInv, LobbyStep

LEMMA LeaveStep ==
  ASSUME SetInv, NEW u \in Users, Leave(u)
  PROVE  StepOK
<1> DEFINE left == RemoveUser(lobby, u)
           t == IF left.users = {} THEN CleanLobby(left) ELSE left
<1>1. LobbyInv(lobby) /\ u \in lobby.users /\ lobby' = t /\ UNCHANGED orphans
  BY DEF SetInv, Leave
<1>2. LobbyInv(t) /\ (ScoreInv(lobby) => ScoreInv(t)) /\ t.number = lobby.number
  BY <1>1, RemoveUserInv
<1> HIDE DEF t
<1> QED BY <1>1, <1>2, LobbyStep

LEMMA GameEndsStep ==
  ASSUME SetInv, GameEnds
  PROVE  StepOK
<1>1. PICK winner \in Users \cup {Draw} : lobby' = EndGame(lobby, winner)
  BY DEF GameEnds
<1>2. LobbyInv(lobby) /\ LobbyBase(lobby) /\ lobby.game = "playing" /\ UNCHANGED orphans
  BY DEF SetInv, LobbyInv, GameEnds
<1> QED BY <1>1, <1>2, EndGameInv, LobbyStep

LEMMA GameTimerStep ==
  ASSUME SetInv, NEW u \in Users, GameTimerExpired(u)
  PROVE  StepOK
<1> DEFINE forfeited == IF lobby.mode = "Bo3" THEN ConcedeBo3ByUserId(lobby, u) ELSE lobby
<1>1. /\ LobbyInv(lobby) /\ lobby.game = "playing" /\ UNCHANGED orphans
      /\ lobby' = EndGame(forfeited, OtherThan(u))
  BY DEF SetInv, GameTimerExpired
<1>2. /\ LobbyInv(forfeited) /\ (ScoreInv(lobby) => ScoreInv(forfeited))
      /\ forfeited.number = lobby.number /\ forfeited.game \in {"playing", "over"}
  BY <1>1, ConcedeInv
<1>3. OtherThan(u) \in Users \cup {Draw} /\ LobbyBase(forfeited)
  BY <1>2, OtherPlayer DEF LobbyInv
<1> HIDE DEF forfeited
<1>4. CASE forfeited.game = "playing"
  <2>1. /\ LobbyInv(lobby') /\ (ScoreInv(forfeited) => ScoreInv(lobby'))
        /\ lobby'.number = forfeited.number
    BY <1>1, <1>3, <1>4, EndGameInv
  <2> QED BY <1>1, <1>2, <2>1, LobbyStep
<1>5. CASE forfeited.game = "over"
  <2>1. lobby' = forfeited
    BY <1>1, <1>5 DEF EndGame
  <2> QED BY <1>1, <1>2, <2>1, LobbyStep
<1> QED BY <1>2, <1>4, <1>5

LEMMA UndoGameEndStep ==
  ASSUME SetInv, UndoGameEnd
  PROVE  StepOK
<1> DEFINE resumed == [lobby EXCEPT !.game = "playing"]
<1>1. /\ LobbyInv(lobby) /\ lobby \in LobbyStates /\ lobby.game = "over" /\ UNCHANGED orphans
      /\ lobby.undoMode = "Request" => lobby.users = Users
      /\ lobby' = HandleUndoGameEnd(resumed)
  BY DEF SetInv, LobbyInv, LobbyBase, UndoGameEnd
<1>2. /\ resumed \in LobbyStates /\ resumed.game = "playing" /\ resumed.mode = lobby.mode
      /\ resumed.users = lobby.users /\ resumed.ready = lobby.ready
      /\ resumed.number = lobby.number /\ resumed.winners = lobby.winners
      /\ resumed.confirmed = lobby.confirmed /\ resumed.transition = lobby.transition
      /\ resumed.readyTimer = lobby.readyTimer /\ resumed.undoMode = lobby.undoMode
      /\ resumed.rematchRequest = lobby.rematchRequest
  BY <1>1 DEF LobbyStates
<1> HIDE DEF resumed
<1>3. CASE lobby.mode = "Bo1"
  <2>1. lobby' = [resumed EXCEPT !.lastWinner = Nobody]
    BY <1>1, <1>2, <1>3 DEF HandleUndoGameEnd
  <2>2. /\ lobby' \in LobbyStates /\ lobby'.game = "playing" /\ lobby'.mode = resumed.mode
        /\ lobby'.users = resumed.users /\ lobby'.ready = resumed.ready
        /\ lobby'.number = resumed.number /\ lobby'.confirmed = resumed.confirmed
        /\ lobby'.transition = resumed.transition /\ lobby'.undoMode = resumed.undoMode
        /\ lobby'.readyTimer = resumed.readyTimer /\ lobby'.rematchRequest = resumed.rematchRequest
    BY <1>2, <2>1 DEF LobbyStates
  <2>3. LobbyInv(lobby') /\ (ScoreInv(lobby) => ScoreInv(lobby'))
    BY <1>1, <1>2, <1>3, <2>2 DEF LobbyInv, LobbyBase, ScoreInv
  <2> QED BY <1>1, <1>2, <2>2, <2>3, LobbyStep
<1>4. CASE lobby.mode = "Bo3"
  <2> DEFINE fewer == IF resumed.winners = <<>> THEN resumed.winners
                      ELSE SubSeq(resumed.winners, 1, Len(resumed.winners) - 1)
  <2>1. lobby' = [resumed EXCEPT !.winners = fewer, !.setEnd = NoResult, !.transition = FALSE,
                                 !.confirmed = {}]
    BY <1>1, <1>2, <1>4 DEF HandleUndoGameEnd
  <2>2. /\ fewer \in Seq(Users \cup {Draw})
        /\ resumed.winners # <<>> => Len(fewer) = Len(resumed.winners) - 1
    <3>1. resumed.winners \in Seq(Users \cup {Draw})
      BY <1>2 DEF LobbyStates
    <3>2. CASE resumed.winners = <<>>
      BY <3>1, <3>2
    <3>3. CASE resumed.winners # <<>>
      <4>1. Len(resumed.winners) \in Nat /\ Len(resumed.winners) >= 1
        BY <3>1, <3>3
      <4> QED BY <3>1, <3>3, <4>1
    <3> QED BY <3>2, <3>3
  <2> HIDE DEF fewer
  <2>3. NoResult \in SetEndResults
    BY DEF SetEndResults
  <2>4. /\ lobby' \in LobbyStates /\ lobby'.game = "playing" /\ lobby'.mode = "Bo3"
        /\ lobby'.users = resumed.users /\ lobby'.ready = resumed.ready
        /\ lobby'.number = resumed.number /\ lobby'.confirmed = {} /\ lobby'.winners = fewer
        /\ ~lobby'.transition /\ lobby'.undoMode = resumed.undoMode
        /\ lobby'.readyTimer = resumed.readyTimer /\ lobby'.rematchRequest = resumed.rematchRequest
    BY <1>2, <1>4, <2>1, <2>2, <2>3 DEF LobbyStates
  <2>5. LobbyInv(lobby')
    BY <1>1, <1>2, <1>4, <2>4 DEF LobbyInv, LobbyBase
  <2>6. ScoreInv(lobby) => ScoreInv(lobby')
    <3> SUFFICES ASSUME ScoreInv(lobby), lobby.users # {} PROVE Len(fewer) = lobby.number - 1
      BY <1>1, <1>2, <2>4 DEF ScoreInv
    <3>1. Len(lobby.winners) = lobby.number /\ lobby.number >= 1
      BY <1>1, <1>4 DEF ScoreInv, LobbyInv, LobbyBase
    <3>2. lobby.winners # <<>>
      BY <3>1
    <3> QED BY <1>2, <2>2, <3>1, <3>2
  <2> QED BY <1>1, <1>2, <2>4, <2>5, <2>6, LobbyStep
<1> QED BY <1>1, <1>3, <1>4 DEF LobbyStates

\* The timer of a game that is over finds it over, or another one that never was.
LEMMA TransitionTimerStep ==
  ASSUME SetInv, TransitionTimerExpired
  PROVE  StepOK
<1> DEFINE expired == [lobby EXCEPT !.transition = FALSE]
<1>1. /\ LobbyInv(lobby) /\ lobby \in LobbyStates /\ lobby.transition /\ UNCHANGED orphans
      /\ lobby' = IF lobby.game = "none" \/ ~lobby.finishedAt \/ HasWinner(lobby)
                  THEN expired ELSE TransitionToNextBo3Game(expired)
  BY DEF SetInv, LobbyInv, LobbyBase, TransitionTimerExpired
<1>2. /\ expired \in LobbyStates /\ expired.game = lobby.game /\ expired.mode = lobby.mode
      /\ expired.users = lobby.users /\ expired.ready = lobby.ready
      /\ expired.number = lobby.number /\ expired.winners = lobby.winners
      /\ expired.confirmed = lobby.confirmed /\ ~expired.transition
      /\ expired.readyTimer = lobby.readyTimer /\ expired.undoMode = lobby.undoMode
      /\ expired.rematchRequest = lobby.rematchRequest
  BY <1>1 DEF LobbyStates
<1> HIDE DEF expired
<1>3. LobbyInv(expired) /\ (ScoreInv(lobby) => ScoreInv(expired))
  BY <1>1, <1>2 DEF LobbyInv, LobbyBase, ScoreInv
<1>4. CASE lobby.game = "none" \/ ~lobby.finishedAt \/ HasWinner(lobby)
  <2>1. lobby' = expired
    BY <1>1, <1>4
  <2> QED BY <1>1, <1>2, <1>3, <2>1, LobbyStep
<1>5. CASE ~(lobby.game = "none" \/ ~lobby.finishedAt \/ HasWinner(lobby))
  <2>1. lobby.game = "over" /\ lobby.mode = "Bo3"
    BY <1>1, <1>5 DEF LobbyInv, LobbyBase, LobbyStates
  <2>2. lobby' = TransitionToNextBo3Game(expired)
    BY <1>1, <1>5
  <2>3. LobbyInv(lobby') /\ (ScoreInv(expired) => ScoreInv(lobby'))
    BY <1>2, <1>3, <2>1, <2>2, TransitionInv
  <2> QED BY <1>1, <1>3, <2>1, <2>3 DEF StepOK, SetInv, OwnTimersOnly, NumberStep
<1> QED BY <1>4, <1>5

LEMMA ReadyTimerStep ==
  ASSUME SetInv, ReadyTimerExpired
  PROVE  StepOK
<1> DEFINE off == [lobby EXCEPT !.readyTimer = "off"]
<1>1. /\ LobbyInv(lobby) /\ lobby \in LobbyStates /\ UNCHANGED orphans
      /\ lobby.readyTimer = "running" /\ lobby' = LobbyReadyTimeout(off)
  BY DEF SetInv, LobbyInv, LobbyBase, ReadyTimerExpired
<1>2. /\ off \in LobbyStates /\ off.game = lobby.game /\ off.mode = lobby.mode
      /\ off.users = lobby.users /\ off.ready = lobby.ready
      /\ off.number = lobby.number /\ off.winners = lobby.winners
      /\ off.confirmed = lobby.confirmed /\ off.transition = lobby.transition
      /\ off.finishedAt = lobby.finishedAt
      /\ off.readyTimer = "off" /\ off.undoMode = lobby.undoMode
      /\ off.rematchRequest = lobby.rematchRequest
  BY <1>1 DEF LobbyStates
<1> HIDE DEF off
<1>3. LobbyInv(off) /\ (ScoreInv(lobby) => ScoreInv(off) /\ off.game = "none")
  BY <1>1, <1>2 DEF LobbyInv, LobbyBase, ScoreInv
<1>4. /\ LobbyInv(lobby') /\ lobby'.number = lobby.number
      /\ ScoreInv(lobby) => ScoreInv(lobby')
  BY <1>1, <1>2, <1>3, LobbyReadyTimeoutInv
<1> QED BY <1>1, <1>4, LobbyStep

LEMMA OrphanedTimerStep ==
  ASSUME SetInv, OrphanedTimerExpired
  PROVE  StepOK
<1>1. /\ LobbyInv(lobby) /\ lobby' = LobbyReadyTimeout(lobby)
      /\ orphans' = [running |-> FALSE, expired |-> TRUE]
  BY DEF SetInv, OrphanedTimerExpired
<1>2. LobbyInv(lobby') /\ lobby'.number = lobby.number
  BY <1>1, LobbyReadyTimeoutInv
<1>3. lobby.number \in Nat
  BY <1>1 DEF LobbyInv, LobbyBase, LobbyStates
<1> QED BY <1>1, <1>2, <1>3 DEF StepOK, SetInv, OwnTimersOnly, NumberStep

LEMMA InitInv == BestOfThreeInit => SetInv
<1> SUFFICES ASSUME BestOfThreeInit PROVE SetInv
  OBVIOUS
<1>1. NoRequest \in Requests /\ NoResult \in SetEndResults /\ <<>> \in Seq(Users \cup {Draw})
  BY DEF Requests, SetEndResults
<1>2. MatchmakingTypes \subseteq AllMatchmakingTypes
  BY BestOfThreeAssumption
<1>3. lobby \in LobbyStates
  BY <1>1, <1>2 DEF BestOfThreeInit, LobbyStates
<1>4. LobbyInv(lobby) /\ ScoreInv(lobby)
  BY <1>3 DEF BestOfThreeInit, LobbyInv, LobbyBase, ScoreInv, NoRequest
<1> QED BY <1>4 DEF SetInv, BestOfThreeInit

LEMMA NextOK ==
  ASSUME SetInv, [BestOfThreeNext]_bestOfThreeVars
  PROVE  StepOK
<1>1. CASE UNCHANGED bestOfThreeVars
  <2>1. lobby' = lobby /\ orphans' = orphans
    BY <1>1 DEF bestOfThreeVars
  <2>2. lobby.number \in Nat
    BY DEF SetInv, LobbyInv, LobbyBase, LobbyStates
  <2> QED BY <2>1, <2>2 DEF StepOK, SetInv, NumberStep, OwnTimersOnly
<1>2. CASE \E u \in Users : SetReadyStatus(u) \/ UpdateDeck(u) \/ ChangeDeck(u)
  BY <1>2, SetReadyStatusStep, DeckAndSettingSteps
<1>3. CASE StartGame
  BY <1>3, StartGameStep
<1>4. CASE UpdateSetting
  BY <1>4, DeckAndSettingSteps, BestOfThreeAssumption
<1>5. CASE \E u \in Users : RequestRematch(u) \/ Rematch(u)
  BY <1>5, DeckAndSettingSteps, RematchStep
<1>6. CASE \E u \in Users : ProceedToNextBo3Game(u) \/ ConcedeBo3(u) \/ Leave(u)
  BY <1>6, ProceedStep, ConcedeStep, LeaveStep
<1>7. CASE GameEnds \/ UndoGameEnd \/ \E u \in Users : GameTimerExpired(u)
  BY <1>7, GameEndsStep, UndoGameEndStep, GameTimerStep
<1>8. CASE TransitionTimerExpired \/ ReadyTimerExpired \/ OrphanedTimerExpired
  BY <1>8, TransitionTimerStep, ReadyTimerStep, OrphanedTimerStep
<1> QED BY <1>1, <1>2, <1>3, <1>4, <1>5, <1>6, <1>7, <1>8 DEF BestOfThreeNext

LEMMA SetInvariant == BestOfThreeSpec => []SetInv
<1>1. SetInv /\ [BestOfThreeNext]_bestOfThreeVars => SetInv'
  BY NextOK DEF StepOK
<1> QED BY InitInv, <1>1, PTL DEF BestOfThreeSpec

-----------------------------------------------------------------------------
(* Theorems *)

\* The state of a lobby keeps its type, through every command, timer and undo.
THEOREM BestOfThreeTypes == BestOfThreeSpec => []BestOfThreeTypeOK
<1>1. SetInv => BestOfThreeTypeOK
  BY DEF SetInv, LobbyInv, LobbyBase, BestOfThreeTypeOK
<1> QED BY <1>1, SetInvariant, PTL

\* The score of a set has one result of every game that is over, as long as no ready
\* timer of an earlier set has expired in a later one (Lobby.ts recordGameResult,
\* handleUndoGameEnd, transitionToNextBo3Game).
THEOREM ScoreCountsGames == BestOfThreeSpec => []GamesAreCounted
<1>1. SetInv => GamesAreCounted
  BY DEF SetInv, ScoreInv, GamesAreCounted
<1> QED BY <1>1, SetInvariant, PTL

\* A confirmation is for the game that has just ended (Lobby.ts bo3NextGameConfirmedBy).
THEOREM NoStaleConfirmation == BestOfThreeSpec => []ConfirmationsAreCurrent
<1>1. SetInv => ConfirmationsAreCurrent
  BY DEF SetInv, ScoreInv, ConfirmationsAreCurrent
<1> QED BY <1>1, SetInvariant, PTL

\* Leaving ends the game of whoever stays, where undos need consent (Lobby.ts removeUser).
THEOREM LeavingEndsTheGame == BestOfThreeSpec => []NobodyPlaysAlone
<1>1. SetInv => NobodyPlaysAlone
  BY DEF SetInv, LobbyInv, NobodyPlaysAlone
<1> QED BY <1>1, SetInvariant, PTL

\* The next game of a set begins after the one before has ended, although the timer
\* for it looks at finishedAt, which an undo of the end leaves behind.
THEOREM NoGameIsSkipped == BestOfThreeSpec => TransitionsFollowAnEnd
<1>1. SetInv /\ [BestOfThreeNext]_bestOfThreeVars =>
        [lobby.mode = "Bo3" /\ lobby'.number > lobby.number => lobby.game = "over"]_bestOfThreeVars
  BY NextOK DEF StepOK, NumberStep
<1> QED BY <1>1, SetInvariant, PTL DEF BestOfThreeSpec, TransitionsFollowAnEnd

-----------------------------------------------------------------------------
(* Scores *)

Results == Users \cup {Draw}

Score(ws, u) == Cardinality({i \in DOMAIN ws : ws[i] = u})

\* Nobody has won the set.
Open(ws) == \A u \in Users : Score(ws, u) <= 1

\* Whoever won the last game that was decided has won as many as the other.
LoserIsBehind(ws) ==
  \A i \in DOMAIN ws :
    ws[i] \in Users /\ (\A j \in DOMAIN ws : j > i => ws[j] = Draw) =>
      \A u \in Users : Score(ws, u) <= Score(ws, ws[i])

LEMMA ScoreIsNat ==
  ASSUME NEW ws \in Seq(Results), NEW u
  PROVE  /\ Score(ws, u) \in Nat /\ IsFiniteSet({i \in DOMAIN ws : ws[i] = u})
         /\ \A i \in DOMAIN ws : ws[i] = u => Score(ws, u) >= 1
<1> DEFINE won == {i \in DOMAIN ws : ws[i] = u}
<1>1. DOMAIN ws = 1..Len(ws) /\ Len(ws) \in Nat
  OBVIOUS
<1>2. IsFiniteSet(1..Len(ws))
  BY <1>1, FS_Interval
<1>3. IsFiniteSet(won)
  <2>1. won \in SUBSET (1..Len(ws))
    BY <1>1
  <2> HIDE DEF won
  <2> QED BY <1>2, <2>1, FS_Subset
<1> HIDE DEF won
<1>4. Cardinality(won) \in Nat
  BY <1>3, FS_CardinalityType
<1>5. won # {} => Cardinality(won) >= 1
  BY <1>3, <1>4, FS_EmptySet
<1> QED BY <1>3, <1>4, <1>5 DEF won, Score

LEMMA ScoreAfterGame ==
  ASSUME NEW ws \in Seq(Results), NEW w \in Results, NEW u
  PROVE  Score(Append(ws, w), u) = IF w = u THEN Score(ws, u) + 1 ELSE Score(ws, u)
<1> DEFINE won == {i \in DOMAIN ws : ws[i] = u}
           more == {i \in DOMAIN Append(ws, w) : Append(ws, w)[i] = u}
           last == Len(ws) + 1
<1>1. /\ Len(ws) \in Nat /\ DOMAIN ws = 1..Len(ws) /\ DOMAIN Append(ws, w) = 1..last
      /\ \A i \in 1..Len(ws) : Append(ws, w)[i] = ws[i]
      /\ Append(ws, w)[last] = w
  OBVIOUS
<1>2. 1..last = (1..Len(ws)) \cup {last} /\ last \notin 1..Len(ws)
  BY <1>1
<1>3. more = IF w = u THEN won \cup {last} ELSE won
  BY <1>1, <1>2
<1>4. IsFiniteSet(won) /\ last \notin won
  BY <1>1, <1>2, ScoreIsNat
<1> HIDE DEF won, more, last
<1>5. Cardinality(won \cup {last}) = Cardinality(won) + 1
  BY <1>4, FS_AddElement
<1> QED BY <1>3, <1>5 DEF Score, won, more

LEMMA OpenIsBehind ==
  ASSUME NEW ws \in Seq(Results), Open(ws)
  PROVE  LoserIsBehind(ws)
<1> SUFFICES ASSUME NEW i \in DOMAIN ws, ws[i] \in Users, NEW u \in Users
             PROVE  Score(ws, u) <= Score(ws, ws[i])
  BY DEF LoserIsBehind
<1>1. Score(ws, ws[i]) >= 1 /\ Score(ws, ws[i]) \in Nat
  BY ScoreIsNat
<1>2. Score(ws, u) <= 1 /\ Score(ws, u) \in Nat
  BY ScoreIsNat DEF Open
<1> QED BY <1>1, <1>2

\* One game more leaves the loser behind, whatever its result.
LEMMA OneMoreGame ==
  ASSUME NEW ws \in Seq(Results), Open(ws), NEW w \in Results
  PROVE  LoserIsBehind(Append(ws, w))
<1> DEFINE longer == Append(ws, w)
<1>1. /\ Len(ws) \in Nat /\ DOMAIN ws = 1..Len(ws) /\ DOMAIN longer = 1..(Len(ws) + 1)
      /\ \A i \in 1..Len(ws) : longer[i] = ws[i]
      /\ longer[Len(ws) + 1] = w
  OBVIOUS
<1>2. \A u : Score(longer, u) = IF w = u THEN Score(ws, u) + 1 ELSE Score(ws, u)
  BY ScoreAfterGame
<1> HIDE DEF longer
<1>3. SUFFICES ASSUME NEW i \in DOMAIN longer, longer[i] \in Users,
                      \A j \in DOMAIN longer : j > i => longer[j] = Draw,
                      NEW u \in Users
               PROVE  Score(longer, u) <= Score(longer, longer[i])
  BY DEF LoserIsBehind, longer
<1>4. /\ Score(ws, u) \in Nat /\ Score(ws, longer[i]) \in Nat
      /\ Score(ws, u) <= 1 /\ Score(ws, longer[i]) <= 1
  BY <1>3, ScoreIsNat DEF Open
<1>5. CASE i = Len(ws) + 1
  <2>1. longer[i] = w
    BY <1>1, <1>5
  <2> QED BY <1>2, <1>4, <2>1
<1>6. CASE i # Len(ws) + 1
  <2>1. i \in 1..Len(ws) /\ Len(ws) + 1 > i
    BY <1>1, <1>6
  <2>2. w = Draw
    BY <1>1, <1>3, <2>1
  <2>3. ws[i] = longer[i] /\ Score(ws, ws[i]) >= 1
    BY <1>1, <2>1, ScoreIsNat
  <2>4. Draw \notin Users
    BY BestOfThreeAssumption
  <2> QED BY <1>2, <1>3, <1>4, <2>2, <2>3, <2>4
<1> QED BY <1>5, <1>6

\* A set of numbers has a smallest element.
LEMMA SmallerIsWellFounded ==
  \E smaller : /\ IsWellFoundedOn(smaller, Nat)
               /\ \A m, n \in Nat : <<m, n>> \in smaller <=> m < n
<1>1. \A m, n \in Nat : <<m, n>> \in OpToRel(<, Nat) <=> m < n
  BY DEF OpToRel
<1> QED BY <1>1, NatLessThanWellFounded, Zenon

LEMMA SmallestOfNats ==
  ASSUME NEW S \in SUBSET Nat, S # {}
  PROVE  \E n \in S : \A m \in S : n <= m
<1>1. PICK smaller : /\ IsWellFoundedOn(smaller, Nat)
                     /\ \A m, n \in Nat : <<m, n>> \in smaller <=> m < n
  BY SmallerIsWellFounded
<1>2. IsWellFoundedOn(smaller, Nat)
  BY <1>1
<1>3. PICK n \in S : \A m \in S : ~(<<m, n>> \in smaller)
  BY <1>2, WFMin
<1>4. \A m \in S : m \in Nat /\ n \in Nat /\ ~(m < n)
  BY <1>1, <1>3
<1> QED BY <1>4

\* The last of some games.
LEMMA LastOfSome ==
  ASSUME NEW last \in Nat, NEW S \in SUBSET (1..last), S # {}
  PROVE  \E i \in S : \A j \in S : j <= i
<1> DEFINE bounds == {n \in Nat : \A j \in S : j <= n}
<1>1. last \in bounds
  OBVIOUS
<1>2. PICK n \in bounds : \A m \in bounds : n <= m
  BY <1>1, SmallestOfNats
<1>3. n \in Nat /\ \A j \in S : j <= n
  BY <1>2
<1>4. n \in S
  <2> SUFFICES ASSUME n \notin S PROVE FALSE
    OBVIOUS
  <2>1. \A j \in S : j \in Nat /\ j >= 1 /\ j <= n - 1
    BY <1>3
  <2>2. n - 1 \in Nat
    <3>1. PICK j \in S : TRUE
      OBVIOUS
    <3>2. j \in Nat /\ j >= 1 /\ j <= n - 1
      BY <2>1, <3>1
    <3> QED BY <1>3, <3>2
  <2>3. n - 1 \in bounds
    BY <2>1, <2>2
  <2> HIDE DEF bounds
  <2> QED BY <1>2, <1>3, <2>3
<1> QED BY <1>3, <1>4

\* determineFirstPlayer gives a player who is behind, or nobody.
LEMMA FirstPlayerIsBehind ==
  ASSUME NEW s, s \in LobbyStates, s.mode = "Bo3", LoserIsBehind(s.winners), FirstPlayer(s) # Nobody
  PROVE  Score(s.winners, FirstPlayer(s)) <= Score(s.winners, OtherThan(FirstPlayer(s)))
<1> DEFINE ws == s.winners
           first == FirstPlayer(s)
<1>1. ws \in Seq(Results) /\ s.users \subseteq Users
  BY DEF LobbyStates, Results
<1>2. first = Loser(s, LastDecided(s)) /\ DecidedGames(s) # {}
  BY DEF FirstPlayer
<1>3. PICK i \in DecidedGames(s) :
        LastDecided(s) = ws[i] /\ \A j \in DecidedGames(s) : j <= i
  <2>1. DecidedGames(s) \in SUBSET (1..Len(ws)) /\ Len(ws) \in Nat
    BY <1>1 DEF DecidedGames
  <2>2. \E i \in DecidedGames(s) : \A j \in DecidedGames(s) : j <= i
    BY <1>2, <2>1, LastOfSome
  <2> QED BY <2>2 DEF LastDecided
<1>4. i \in DOMAIN ws /\ ws[i] \in Users
  BY <1>1 DEF DecidedGames, Results
<1>5. \A j \in DOMAIN ws : j > i => ws[j] = Draw
  <2> SUFFICES ASSUME NEW j \in DOMAIN ws, j > i, ws[j] # Draw PROVE FALSE
    OBVIOUS
  <2>1. j \in DecidedGames(s)
    BY DEF DecidedGames
  <2>2. j <= i /\ j \in Nat /\ i \in Nat
    BY <1>1, <1>3, <1>4, <2>1
  <2> QED BY <2>2
<1>6. first \in Users /\ first # ws[i]
  <2>1. Loser(s, ws[i]) # Nobody
    BY <1>2, <1>3
  <2>2. Loser(s, ws[i]) \in s.users \ {ws[i]}
    BY <2>1 DEF Loser
  <2> QED BY <1>1, <1>2, <1>3, <2>2
<1> HIDE DEF first
<1>7. OtherThan(first) = ws[i]
  <2>1. Users = {first, OtherThan(first)}
    BY <1>6, OtherPlayer
  <2> QED BY <1>4, <1>6, <2>1
<1>8. Score(ws, first) <= Score(ws, ws[i])
  BY <1>4, <1>5, <1>6 DEF LoserIsBehind
<1> QED BY <1>7, <1>8 DEF first

-----------------------------------------------------------------------------
(* The player who chooses *)

\* The score when the game on the table began.
Before(s) == IF s.game = "over" THEN SubSeq(s.winners, 1, Len(s.winners) - 1) ELSE s.winners

\* A set that somebody has won has a game on the table; a timer of an earlier set that
\* could start another still runs only while the set was open when that one began.
ChooserInv(s, running) ==
  /\ s.readyTimer = "running" => s.game = "none"
  /\ s.mode = "Bo3" /\ s.users # {} =>
       /\ s.game = "over" => s.winners # <<>>
       /\ Open(Before(s)) \/ (LoserIsBehind(Before(s)) /\ ~running)
       /\ s.game = "none" => Open(s.winners)
       /\ s.game # "none" /\ s.chooser # Nobody =>
            Score(Before(s), s.chooser) <= Score(Before(s), OtherThan(s.chooser))

LEMMA NobodyHasWon ==
  ASSUME NEW s, s \in LobbyStates
  PROVE  HasWinner(s) <=> ~Open(s.winners)
<1>1. s.winners \in Seq(Results)
  BY DEF LobbyStates, Results
<1>2. \A u : Wins(s, u) = Score(s.winners, u) /\ Wins(s, u) \in Nat
  BY <1>1, ScoreIsNat DEF Wins, Score
<1> QED BY <1>2 DEF HasWinner, Open

\* What else changes is no matter.
LEMMA SameGame ==
  ASSUME NEW s, NEW t, NEW running,
         t.game = s.game, t.winners = s.winners, t.chooser = s.chooser, t.mode = s.mode,
         t.users # {} => s.users # {},
         t.readyTimer = "running" => s.readyTimer = "running" \/ s.game = "none"
  PROVE  ChooserInv(s, running) => ChooserInv(t, running)
BY DEF ChooserInv, Before

LEMMA EndKeepsChooser ==
  ASSUME NEW s, LobbyBase(s), s.game = "playing", NEW w \in Users \cup {Draw}, NEW running,
         ChooserInv(s, running)
  PROVE  ChooserInv(EndGame(s, w), running)
<1> DEFINE t == EndGame(s, w)
           ws == s.winners
<1>1. ws \in Seq(Results) /\ w \in Results
  BY DEF LobbyBase, LobbyStates, Results
<1>2. CASE s.mode = "Bo1"
  <2>1. t = [s EXCEPT !.game = "over", !.finishedAt = TRUE, !.lastWinner = w]
    BY <1>2, EndOfAGame
  <2> HIDE DEF t
  <2>2. t.mode = "Bo1" /\ t.readyTimer = s.readyTimer
    BY <1>2, <2>1 DEF LobbyBase, LobbyStates
  <2>3. ChooserInv(t, running)
    BY <2>2 DEF ChooserInv
  <2> QED BY <2>3 DEF t
<1>3. CASE s.mode = "Bo3"
  <2>1. PICK e \in SetEndResults, b \in BOOLEAN : t = Ended(s, w, e, b)
    BY <1>3, EndOfAGame
  <2> HIDE DEF t
  <2>2. /\ t.mode = "Bo3" /\ t.game = "over" /\ t.winners = Append(ws, w) /\ t.users = s.users
        /\ t.chooser = s.chooser /\ t.readyTimer = s.readyTimer
    BY <1>3, <2>1 DEF LobbyBase, LobbyStates, Ended
  <2>3. Append(ws, w) # <<>> /\ SubSeq(Append(ws, w), 1, Len(Append(ws, w)) - 1) = ws
    BY <1>1
  <2>4. Before(t) = ws /\ Before(s) = ws
    BY <2>2, <2>3 DEF Before
  <2>5. ChooserInv(t, running)
    <3>1. t.readyTimer # "running"
      BY <2>2 DEF ChooserInv
    <3>2. t.winners # <<>>
      BY <2>2, <2>3
    <3> HIDE DEF ws
    <3> QED BY <1>3, <2>2, <2>4, <3>1, <3>2 DEF ChooserInv
  <2> QED BY <2>5 DEF t
<1> QED BY <1>2, <1>3 DEF LobbyBase, LobbyStates

LEMMA ConcedeKeepsChooser ==
  ASSUME NEW s, LobbyInv(s), NEW u \in Users, NEW running, ChooserInv(s, running)
  PROVE  ChooserInv(ConcedeBo3ByUserId(s, u), running)
<1> DEFINE ended == IF s.game = "playing" /\ ~s.finishedAt THEN EndGame(s, OtherThan(u)) ELSE s
           e == [reason |-> "Concede", player |-> u]
           t == [ended EXCEPT !.setEnd = e]
<1>1. ConcedeBo3ByUserId(s, u) = t \/ ConcedeBo3ByUserId(s, u) = ended
  BY DEF ConcedeBo3ByUserId
<1>2. LobbyBase(s) /\ OtherThan(u) \in Users \cup {Draw}
  BY OtherPlayer DEF LobbyInv
<1>3. LobbyBase(ended) /\ ChooserInv(ended, running)
  <2>1. CASE s.game = "playing" /\ ~s.finishedAt
    <3>1. ended = EndGame(s, OtherThan(u))
      BY <2>1
    <3> HIDE DEF ended
    <3> QED BY <1>2, <2>1, <3>1, EndKeepsChooser, EndGameInv DEF LobbyInv
  <2>2. CASE ~(s.game = "playing" /\ ~s.finishedAt)
    BY <1>2, <2>2
  <2> QED BY <2>1, <2>2
<1> HIDE DEF ended
<1>4. /\ t.game = ended.game /\ t.winners = ended.winners /\ t.chooser = ended.chooser
      /\ t.mode = ended.mode /\ t.users = ended.users /\ t.readyTimer = ended.readyTimer
  BY <1>3 DEF LobbyBase, LobbyStates
<1> HIDE DEF t
<1>5. ChooserInv(t, running)
  BY <1>3, <1>4, SameGame
<1> QED BY <1>1, <1>3, <1>5

\* A lobby that is removed leaves nothing to choose in.
LEMMA CleanHasNoGame ==
  ASSUME NEW s, LobbyBase(s), NEW running
  PROVE  ChooserInv(CleanLobby(s), running) /\ CleanLobby(s).users = {} /\ CleanLobby(s).game = "none"
<1>1. StopReadyTimer(s) \in LobbyStates
  BY StopReadyTimerInv DEF LobbyBase
<1>2. CleanLobby(s).users = {} /\ CleanLobby(s).game = "none"
  BY <1>1 DEF CleanLobby, LobbyStates
<1> QED BY <1>2 DEF ChooserInv

\* A game starts where there is none, or by the timer of an earlier set over a game
\* that began with the set open.
LEMMA StartKeepsChooser ==
  ASSUME NEW s, LobbyInv(s), s.users = Users, NEW running, NEW after, ChooserInv(s, running),
         (s.game = "none" /\ after = running) \/ (running /\ ~after)
  PROVE  /\ ChooserInv(StartGameAsync(s), after)
         /\ StartGameAsync(s).users = {} => StartGameAsync(s).game = "none"
<1> DEFINE stopped == StopReadyTimer(s)
           t == StartGameAsync(s)
           first == FirstPlayer(s)
           changed == stopped.deckChanged /\ (s.mode = "Bo3" \/ s.lastWinner = Nobody)
           ws == s.winners
<1>1. /\ s \in LobbyStates /\ LobbyBase(s) /\ ws \in Seq(Results) /\ Users # {}
      /\ s.game \in {"none", "playing", "over"}
  BY BestOfThreeAssumption DEF LobbyInv, LobbyBase, LobbyStates, Results
<1>2. /\ LobbyBase(stopped) /\ stopped \in LobbyStates /\ stopped.readyTimer # "running"
      /\ stopped.game = s.game /\ stopped.users = Users /\ stopped.winners = ws
      /\ stopped.chooser = s.chooser /\ stopped.mode = s.mode
  BY <1>1, StopReadyTimerInv DEF LobbyBase, LobbyStates
<1>3. ChooserInv(stopped, after)
  <2>1. ChooserInv(stopped, running)
    BY <1>1, <1>2, SameGame
  <2> HIDE DEF stopped
  <2> QED BY <2>1 DEF ChooserInv
<1>4. CASE s.invalid # {} /\ s.matchmakingType = "Quick"
  <2>1. t = CleanLobby(stopped)
    BY <1>4 DEF StartGameAsync
  <2> HIDE DEF t, stopped
  <2> QED BY <1>2, <2>1, CleanHasNoGame DEF t
<1>5. CASE s.invalid # {} /\ s.matchmakingType # "Quick"
  <2>1. t = [stopped EXCEPT !.ready = {}]
    BY <1>5 DEF StartGameAsync
  <2> HIDE DEF t, stopped
  <2>2. /\ t.game = stopped.game /\ t.winners = stopped.winners /\ t.chooser = stopped.chooser
        /\ t.mode = stopped.mode /\ t.users = stopped.users /\ t.readyTimer = stopped.readyTimer
    BY <1>2, <2>1 DEF LobbyStates
  <2>3. ChooserInv(t, after)
    BY <1>3, <2>2, SameGame
  <2> QED BY <1>1, <1>2, <2>2, <2>3 DEF t
<1>6. CASE s.invalid = {}
  <2>1. t = [stopped EXCEPT !.rematchRequest = NoRequest, !.game = "playing", !.finishedAt = FALSE,
                            !.chooser = first, !.deckChanged = changed]
    BY <1>6 DEF StartGameAsync
  <2> HIDE DEF t, stopped, first, changed
  <2>2. /\ t.game = "playing" /\ t.winners = ws /\ t.chooser = first
        /\ t.mode = s.mode /\ t.users = Users /\ t.readyTimer # "running"
    BY <1>2, <2>1 DEF LobbyStates
  <2>3. Before(t) = ws
    BY <2>2 DEF Before
  <2>4. s.mode = "Bo3" => LoserIsBehind(ws) /\ (Open(ws) \/ ~after)
    <3> SUFFICES ASSUME s.mode = "Bo3" PROVE LoserIsBehind(ws) /\ (Open(ws) \/ ~after)
      OBVIOUS
    <3>1. CASE s.game = "none"
      BY <1>1, <3>1, OpenIsBehind DEF ChooserInv
    <3>2. CASE s.game = "playing"
      <4>1. Open(ws) \/ LoserIsBehind(ws)
        BY <1>1, <3>2 DEF ChooserInv, Before
      <4> QED BY <1>1, <3>2, <4>1, OpenIsBehind
    <3>3. CASE s.game = "over"
      <4> DEFINE earlier == SubSeq(ws, 1, Len(ws) - 1)
      <4>1. ws # <<>> /\ Open(earlier)
        BY <1>1, <3>3 DEF ChooserInv, Before
      <4>2. /\ earlier \in Seq(Results) /\ ws[Len(ws)] \in Results
            /\ ws = Append(earlier, ws[Len(ws)])
        BY <1>1, <4>1
      <4> HIDE DEF earlier
      <4>3. LoserIsBehind(Append(earlier, ws[Len(ws)]))
        BY <4>1, <4>2, OneMoreGame
      <4> QED BY <3>3, <4>2, <4>3
    <3> QED BY <1>1, <3>1, <3>2, <3>3
  <2>5. s.mode = "Bo3" /\ first # Nobody => Score(ws, first) <= Score(ws, OtherThan(first))
    BY <1>1, <2>4, FirstPlayerIsBehind DEF first
  <2>6. ChooserInv(t, after)
    <3> HIDE DEF ws
    <3> QED BY <2>2, <2>3, <2>4, <2>5 DEF ChooserInv
  <2> QED BY <1>1, <2>2, <2>6 DEF t
<1> QED BY <1>4, <1>5, <1>6

LEMMA TransitionKeepsChooser ==
  ASSUME NEW s, s \in LobbyStates, ~HasWinner(s), NEW running
  PROVE  ChooserInv(TransitionToNextBo3Game(s), running)
<1> DEFINE t == TransitionToNextBo3Game(s)
<1>1. t.game = "none" /\ t.winners = s.winners
  BY DEF TransitionToNextBo3Game, LobbyStates
<1>2. Open(s.winners)
  BY NobodyHasWon
<1>3. ChooserInv(t, running)
  BY <1>1, <1>2 DEF ChooserInv, Before
<1> QED BY <1>3

LEMMA NewSetIsOpen ==
  ASSUME NEW s, s \in LobbyStates, s.game = "none", NEW w \in Users \cup {Nobody, Draw}, NEW running
  PROVE  ChooserInv(InitializeBo3History(s, w), running)
<1> DEFINE t == InitializeBo3History(s, w)
           ws == IF w = Nobody THEN <<>> ELSE <<w>>
<1>1. t.game = "none" /\ t.winners = ws
  BY DEF InitializeBo3History, LobbyStates
<1>2. ws \in Seq(Results) /\ Len(ws) <= 1
  <2>1. CASE w = Nobody
    BY <2>1
  <2>2. CASE w # Nobody
    <3>1. w \in Results
      BY <2>2 DEF Results
    <3>2. <<w>> \in Seq(Results) /\ Len(<<w>>) = 1
      BY <3>1
    <3> QED BY <2>2, <3>2
  <2> QED BY <2>1, <2>2
<1> HIDE DEF ws, t
<1>3. Open(ws)
  <2> SUFFICES ASSUME NEW u \in Users PROVE Score(ws, u) <= 1
    BY DEF Open
  <2> DEFINE won == {i \in DOMAIN ws : ws[i] = u}
  <2>1. won \in SUBSET {1}
    BY <1>2
  <2>2. IsFiniteSet({1}) /\ Cardinality({1}) = 1
    BY FS_Singleton
  <2> HIDE DEF won
  <2>3. Cardinality(won) <= Cardinality({1})
    BY <2>1, <2>2, FS_Subset
  <2> QED BY <2>2, <2>3 DEF won, Score
<1>4. ChooserInv(t, running)
  BY <1>1, <1>3 DEF ChooserInv, Before
<1> QED BY <1>4 DEF t

LEMMA TimeoutKeepsChooser ==
  ASSUME NEW s, LobbyInv(s), NEW running, NEW after, ChooserInv(s, running),
         (s.game = "none" /\ after = running) \/ (running /\ ~after),
         s.users = {} => s.game = "none"
  PROVE  /\ ChooserInv(LobbyReadyTimeout(s), after)
         /\ LobbyReadyTimeout(s).users = {} => LobbyReadyTimeout(s).game = "none"
<1> DEFINE t == LobbyReadyTimeout(s)
<1>1. s \in LobbyStates /\ s.ready \subseteq s.users /\ s.users \subseteq Users
  BY DEF LobbyInv, LobbyBase, LobbyStates
<1>2. CASE s.ready = Users
  <2>1. t = StartGameAsync(s) /\ s.users = Users
    BY <1>1, <1>2 DEF LobbyReadyTimeout
  <2> HIDE DEF t
  <2> QED BY <2>1, StartKeepsChooser DEF t
<1>3. CASE s.ready # Users
  <2>1. \E e : t = [s EXCEPT !.setEnd = e]
    BY <1>3 DEF LobbyReadyTimeout
  <2> HIDE DEF t
  <2>2. /\ t.game = s.game /\ t.winners = s.winners /\ t.chooser = s.chooser
        /\ t.mode = s.mode /\ t.users = s.users /\ t.readyTimer = s.readyTimer
    BY <1>1, <2>1 DEF LobbyStates
  <2>3. ChooserInv(t, running)
    BY <2>2, SameGame
  <2>4. ChooserInv(t, after)
    BY <2>3 DEF ChooserInv
  <2> QED BY <2>2, <2>4 DEF t
<1> QED BY <1>2, <1>3

LEMMA LeavingKeepsChooser ==
  ASSUME NEW s, LobbyInv(s), NEW u \in Users, u \in s.users, NEW running, ChooserInv(s, running)
  PROVE  LET left == RemoveUser(s, u)
             t == IF left.users = {} THEN CleanLobby(left) ELSE left
         IN ChooserInv(t, running) /\ (t.users = {} => t.game = "none")
<1> DEFINE quiet == [StopReadyTimer(s) EXCEPT !.transition = FALSE]
           begun == s.mode = "Bo3" /\ s.setEnd = NoResult /\ (s.number > 1 \/ s.game # "none")
           conceded == IF begun THEN ConcedeBo3ByUserId(quiet, u) ELSE s
           left == [conceded EXCEPT !.users = @ \ {u}, !.ready = @ \ {u}, !.invalid = @ \ {u}]
           removed == RemoveUser(s, u)
           t == IF removed.users = {} THEN CleanLobby(removed) ELSE removed
<1>1. LobbyInv(quiet) /\ ChooserInv(quiet, running)
  <2> DEFINE stopped == StopReadyTimer(s)
  <2>1. /\ LobbyInv(stopped) /\ stopped \in LobbyStates /\ stopped.readyTimer # "running"
        /\ stopped.game = s.game /\ stopped.winners = s.winners /\ stopped.chooser = s.chooser
        /\ stopped.mode = s.mode /\ stopped.users = s.users
    BY StopReadyTimerInv DEF LobbyInv, LobbyBase, LobbyStates
  <2>2. quiet = [stopped EXCEPT !.transition = FALSE]
    OBVIOUS
  <2> HIDE DEF stopped, quiet
  <2>3. /\ quiet \in LobbyStates /\ quiet.readyTimer # "running"
        /\ quiet.game = s.game /\ quiet.winners = s.winners /\ quiet.chooser = s.chooser
        /\ quiet.mode = s.mode /\ quiet.users = s.users
        /\ quiet.ready = stopped.ready /\ quiet.number = stopped.number
        /\ quiet.confirmed = stopped.confirmed /\ quiet.transition = FALSE
        /\ quiet.rematchRequest = stopped.rematchRequest /\ quiet.undoMode = stopped.undoMode
    BY <2>1, <2>2 DEF LobbyStates
  <2>4. LobbyInv(quiet)
    BY <2>1, <2>3 DEF LobbyInv, LobbyBase
  <2> QED BY <2>3, <2>4, SameGame
<1>2. LobbyInv(conceded) /\ ChooserInv(conceded, running)
  <2> HIDE DEF quiet, begun
  <2> QED BY <1>1, ConcedeInv, ConcedeKeepsChooser
<1>3. removed = IF left.game = "playing" /\ OtherThan(u) \in left.users
                THEN EndGame(left, OtherThan(u)) ELSE left
  BY DEF RemoveUser
<1> HIDE DEF conceded
<1>4. /\ left \in LobbyStates
      /\ left.users = conceded.users \ {u} /\ left.ready = conceded.ready \ {u}
      /\ left.number = conceded.number /\ left.mode = conceded.mode /\ left.game = conceded.game
      /\ left.winners = conceded.winners /\ left.confirmed = conceded.confirmed
      /\ left.transition = conceded.transition /\ left.finishedAt = conceded.finishedAt
      /\ left.readyTimer = conceded.readyTimer /\ left.rematchRequest = conceded.rematchRequest
      /\ left.chooser = conceded.chooser
  BY <1>2 DEF LobbyInv, LobbyBase, LobbyStates
<1> HIDE DEF left
<1>5. LobbyBase(left)
  BY <1>2, <1>4 DEF LobbyInv, LobbyBase
<1>6. ChooserInv(left, running)
  BY <1>2, <1>4, SameGame
<1>7. LobbyBase(removed) /\ ChooserInv(removed, running)
  <2>1. CASE left.game = "playing" /\ OtherThan(u) \in left.users
    <3>1. removed = EndGame(left, OtherThan(u)) /\ OtherThan(u) \in Users \cup {Draw}
      BY <1>3, <2>1, OtherPlayer
    <3> HIDE DEF removed
    <3> QED BY <1>5, <1>6, <2>1, <3>1, EndGameInv, EndKeepsChooser DEF LobbyInv
  <2>2. CASE ~(left.game = "playing" /\ OtherThan(u) \in left.users)
    <3>1. removed = left
      BY <1>3, <2>2
    <3> HIDE DEF removed
    <3> QED BY <1>5, <1>6, <3>1
  <2> QED BY <2>1, <2>2
<1> HIDE DEF removed
<1>8. ChooserInv(t, running) /\ (t.users = {} => t.game = "none")
  BY <1>7, CleanHasNoGame
<1> QED BY <1>8 DEF removed

-----------------------------------------------------------------------------
(* Actions and the player who chooses *)

ChooserSetInv ==
  /\ ChooserInv(lobby, orphans.running)
  /\ lobby.users = {} => lobby.game = "none"

LEMMA GameStartSteps ==
  ASSUME SetInv, ChooserSetInv, NEW u \in Users, SetReadyStatus(u) \/ StartGame
  PROVE  ChooserSetInv'
<1>1. CASE StartGame
  <2>1. /\ LobbyInv(lobby) /\ lobby.users = Users /\ lobby.game = "none"
        /\ lobby' = StartGameAsync(lobby) /\ orphans' = orphans
    BY <1>1 DEF SetInv, StartGame, LobbyIsShown
  <2> QED BY <2>1, StartKeepsChooser DEF ChooserSetInv
<1>2. CASE SetReadyStatus(u)
  <2>1. PICK ready \in {lobby.ready \cup {u}, lobby.ready \ {u}} :
          LET set == ManageBo3LobbyReadyTimer([lobby EXCEPT !.ready = ready])
          IN lobby' = IF set.mode = "Bo3" /\ set.number > 1 /\ ready = Users
                      THEN StartGameAsync(set) ELSE set
    BY <1>2 DEF SetReadyStatus
  <2> DEFINE r == [lobby EXCEPT !.ready = ready]
             set == ManageBo3LobbyReadyTimer(r)
  <2>2. /\ LobbyInv(lobby) /\ lobby \in LobbyStates /\ lobby.game = "none" /\ lobby.users # {}
        /\ u \in lobby.users /\ ready \subseteq lobby.users /\ orphans' = orphans
    BY <1>2 DEF SetInv, LobbyInv, LobbyBase, SetReadyStatus, LobbyIsShown
  <2>3. r \in LobbyStates /\ r.readyTimer \in {"none", "off", "running"}
    BY <2>2 DEF LobbyStates
  <2>4. PICK timer \in {"none", "off", "running"} : set = [r EXCEPT !.readyTimer = timer]
    <3>1. r = [r EXCEPT !.readyTimer = r.readyTimer]
      BY <2>3 DEF LobbyStates
    <3> HIDE DEF r
    <3>2. \/ set = r
          \/ set = [r EXCEPT !.readyTimer = "running"]
          \/ set = [r EXCEPT !.readyTimer = IF @ = "running" THEN "off" ELSE @]
      BY DEF ManageBo3LobbyReadyTimer, StopReadyTimer
    <3>3. (IF r.readyTimer = "running" THEN "off" ELSE r.readyTimer) \in {"none", "off", "running"}
      BY <2>3
    <3> QED BY <2>3, <3>1, <3>2, <3>3
  <2>5. /\ set \in LobbyStates /\ set.ready = ready /\ set.game = "none" /\ set.users = lobby.users
        /\ set.number = lobby.number /\ set.mode = lobby.mode /\ set.winners = lobby.winners
        /\ set.confirmed = lobby.confirmed /\ set.transition = lobby.transition
        /\ set.rematchRequest = lobby.rematchRequest /\ set.chooser = lobby.chooser
    <3> HIDE DEF set
    <3> QED BY <2>2, <2>4 DEF LobbyStates
  <2>6. lobby' = IF set.mode = "Bo3" /\ set.number > 1 /\ ready = Users THEN StartGameAsync(set) ELSE set
    BY <2>1
  <2> HIDE DEF r, set
  <2>7. LobbyInv(set)
    BY <2>2, <2>5 DEF LobbyInv, LobbyBase
  <2>8. ChooserInv(set, orphans.running)
    BY <2>2, <2>5, SameGame DEF ChooserSetInv
  <2>9. CASE lobby' = set
    BY <2>2, <2>5, <2>8, <2>9 DEF ChooserSetInv
  <2>10. CASE lobby' = StartGameAsync(set) /\ ready = Users
    <3>1. set.users = Users
      BY <2>2, <2>5, <2>10 DEF LobbyStates
    <3> QED BY <2>2, <2>5, <2>7, <2>8, <2>10, <3>1, StartKeepsChooser DEF ChooserSetInv
  <2> QED BY <2>6, <2>9, <2>10
<1> QED BY <1>1, <1>2

\* Decks, settings and requests are no part of the game.
LEMMA QuietSteps ==
  ASSUME SetInv, ChooserSetInv, NEW u \in Users,
         UpdateDeck(u) \/ ChangeDeck(u) \/ UpdateSetting \/ RequestRematch(u)
  PROVE  ChooserSetInv'
<1>1. lobby \in LobbyStates
  BY DEF SetInv, LobbyInv, LobbyBase
<1>2. \/ \E i : lobby' = [lobby EXCEPT !.invalid = i]
      \/ \E i, b : lobby' = [lobby EXCEPT !.invalid = i, !.deckChanged = b]
      \/ \E m : lobby' = [lobby EXCEPT !.undoMode = m]
      \/ \E m : lobby' = [lobby EXCEPT !.rematchRequest = m]
  BY DEF UpdateDeck, ChangeDeck, UpdateSetting, RequestRematch
<1>3. orphans' = orphans
  BY DEF UpdateDeck, ChangeDeck, UpdateSetting, RequestRematch
<1>4. /\ lobby'.game = lobby.game /\ lobby'.winners = lobby.winners /\ lobby'.chooser = lobby.chooser
      /\ lobby'.mode = lobby.mode /\ lobby'.users = lobby.users /\ lobby'.readyTimer = lobby.readyTimer
  BY <1>1, <1>2 DEF LobbyStates
<1>5. ChooserInv(lobby', orphans.running)
  BY <1>4, SameGame DEF ChooserSetInv
<1> QED BY <1>3, <1>4, <1>5 DEF ChooserSetInv

LEMMA RematchKeepsChooser ==
  ASSUME SetInv, ChooserSetInv, NEW u \in Users, Rematch(u)
  PROVE  ChooserSetInv'
<1> DEFINE m == lobby.rematchRequest.mode
           type == IF lobby.matchmakingType = "Quick" THEN "PublicLobby" ELSE lobby.matchmakingType
           dropped == [lobby EXCEPT !.rematchRequest = NoRequest, !.game = "none", !.ready = {},
                                    !.matchmakingType = type]
           running == orphans'.running
<1>1. lobby \in LobbyStates /\ (m = "Regular" => lobby.mode = "Bo1")
  BY DEF SetInv, LobbyInv, LobbyBase
<1>2. m \in RematchModes
  BY <1>1 DEF Rematch, LobbyStates, Requests
<1>3. dropped \in LobbyStates /\ dropped.game = "none" /\ dropped.mode = lobby.mode
  <2>1. type \in AllMatchmakingTypes /\ NoRequest \in Requests
    BY <1>1 DEF LobbyStates, AllMatchmakingTypes, Requests
  <2> HIDE DEF type
  <2> QED BY <1>1, <2>1 DEF LobbyStates
<1>4. lobby'.game = "none" /\ ChooserInv(lobby', running)
  <2>1. CASE m = "Regular"
    <3>1. lobby' = [dropped EXCEPT !.confirmed = {}]
      BY <2>1 DEF Rematch
    <3> HIDE DEF dropped
    <3>2. lobby'.game = "none" /\ lobby'.mode = "Bo1"
      BY <1>1, <1>3, <2>1, <3>1 DEF LobbyStates
    <3> QED BY <3>2 DEF ChooserInv
  <2>2. CASE m = "Bo1ConvertToBo3"
    <3>1. lobby' = InitializeBo3History(dropped, lobby.lastWinner)
      BY <2>2 DEF Rematch
    <3>2. lobby.lastWinner \in Users \cup {Nobody, Draw}
      BY <1>1 DEF LobbyStates
    <3> HIDE DEF dropped
    <3>3. lobby'.game = "none"
      BY <1>3, <3>1 DEF InitializeBo3History, LobbyStates
    <3> QED BY <1>3, <3>1, <3>2, <3>3, NewSetIsOpen
  <2>3. CASE m = "NewBo3"
    <3> DEFINE fresh == InitializeBo3History(dropped, Nobody)
    <3>1. PICK invalid \in SUBSET lobby.users : lobby' = [fresh EXCEPT !.invalid = invalid]
      BY <2>3 DEF Rematch
    <3> HIDE DEF dropped
    <3>2. ChooserInv(fresh, running)
      BY <1>3, NewSetIsOpen
    <3>3. /\ lobby'.game = "none" /\ fresh.game = "none" /\ lobby'.winners = fresh.winners
          /\ lobby'.chooser = fresh.chooser /\ lobby'.mode = fresh.mode /\ lobby'.users = fresh.users
      BY <1>3, <3>1 DEF InitializeBo3History, LobbyStates
    <3> HIDE DEF fresh, running
    <3> QED BY <3>2, <3>3, SameGame
  <2> QED BY <1>2, <2>1, <2>2, <2>3 DEF RematchModes
<1> QED BY <1>4 DEF ChooserSetInv

LEMMA NextGameSteps ==
  ASSUME SetInv, ChooserSetInv, NEW u \in Users, ProceedToNextBo3Game(u) \/ TransitionTimerExpired
  PROVE  ChooserSetInv'
<1>1. lobby \in LobbyStates /\ orphans' = orphans
  BY DEF SetInv, LobbyInv, LobbyBase, ProceedToNextBo3Game, TransitionTimerExpired
<1>2. ASSUME NEW s, s \in LobbyStates, s.game = lobby.game, s.winners = lobby.winners,
             s.chooser = lobby.chooser, s.mode = lobby.mode, s.users = lobby.users,
             s.readyTimer = lobby.readyTimer,
             \/ lobby' = s
             \/ lobby' = TransitionToNextBo3Game(s) /\ ~HasWinner(lobby)
      PROVE  ChooserSetInv'
  <2>1. CASE lobby' = s
    <3>1. ChooserInv(s, orphans.running)
      BY <1>2, SameGame DEF ChooserSetInv
    <3> QED BY <1>1, <1>2, <2>1, <3>1 DEF ChooserSetInv
  <2>2. CASE lobby' = TransitionToNextBo3Game(s) /\ ~HasWinner(lobby)
    <3>1. ~HasWinner(s)
      BY <1>1, <1>2, <2>2, NobodyHasWon
    <3>2. lobby'.game = "none"
      BY <1>2, <2>2 DEF TransitionToNextBo3Game, LobbyStates
    <3>3. ChooserInv(lobby', orphans.running)
      BY <1>2, <2>2, <3>1, TransitionKeepsChooser
    <3> QED BY <1>1, <3>2, <3>3 DEF ChooserSetInv
  <2> QED BY <1>2, <2>1, <2>2
<1>3. CASE ProceedToNextBo3Game(u)
  <2> DEFINE confirmed == [lobby EXCEPT !.confirmed = @ \cup {u}]
  <2>1. confirmed \in LobbyStates
    BY <1>1 DEF LobbyStates
  <2>2. ~HasWinner(lobby)
    BY <1>3 DEF ProceedToNextBo3Game, NextGameIsOffered, SetIsOver
  <2>3. lobby' = confirmed \/ lobby' = TransitionToNextBo3Game(confirmed)
    BY <1>3 DEF ProceedToNextBo3Game
  <2>4. /\ confirmed.game = lobby.game /\ confirmed.winners = lobby.winners
        /\ confirmed.chooser = lobby.chooser /\ confirmed.mode = lobby.mode
        /\ confirmed.users = lobby.users /\ confirmed.readyTimer = lobby.readyTimer
    BY <1>1 DEF LobbyStates
  <2> HIDE DEF confirmed
  <2> QED BY <1>2, <2>1, <2>2, <2>3, <2>4
<1>4. CASE TransitionTimerExpired
  <2> DEFINE expired == [lobby EXCEPT !.transition = FALSE]
  <2>1. /\ expired \in LobbyStates
        /\ expired.game = lobby.game /\ expired.winners = lobby.winners
        /\ expired.chooser = lobby.chooser /\ expired.mode = lobby.mode
        /\ expired.users = lobby.users /\ expired.readyTimer = lobby.readyTimer
    BY <1>1 DEF LobbyStates
  <2>2. lobby' = expired \/ (lobby' = TransitionToNextBo3Game(expired) /\ ~HasWinner(lobby))
    BY <1>4 DEF TransitionTimerExpired
  <2> HIDE DEF expired
  <2> QED BY <1>2, <2>1, <2>2
<1> QED BY <1>3, <1>4

LEMMA EndingSteps ==
  ASSUME SetInv, ChooserSetInv, NEW u \in Users,
         ConcedeBo3(u) \/ Leave(u) \/ GameEnds \/ GameTimerExpired(u)
  PROVE  ChooserSetInv'
<1>1. /\ LobbyInv(lobby) /\ LobbyBase(lobby) /\ orphans' = orphans
      /\ ChooserInv(lobby, orphans.running) /\ (lobby.users = {} => lobby.game = "none")
  BY DEF SetInv, LobbyInv, ChooserSetInv, ConcedeBo3, Leave, GameEnds, GameTimerExpired
<1>2. CASE ConcedeBo3(u)
  <2>1. lobby' = ConcedeBo3ByUserId(lobby, u) /\ u \in lobby.users
    BY <1>2 DEF ConcedeBo3
  <2>2. lobby'.users = lobby.users /\ ChooserInv(lobby', orphans.running)
    BY <1>1, <2>1, ConcedeInv, ConcedeKeepsChooser
  <2> QED BY <1>1, <2>1, <2>2 DEF ChooserSetInv
<1>3. CASE Leave(u)
  <2> DEFINE left == RemoveUser(lobby, u)
             t == IF left.users = {} THEN CleanLobby(left) ELSE left
  <2>1. u \in lobby.users /\ lobby' = t
    BY <1>3 DEF Leave
  <2>2. ChooserInv(t, orphans.running) /\ (t.users = {} => t.game = "none")
    BY <1>1, <2>1, LeavingKeepsChooser
  <2> HIDE DEF t
  <2> QED BY <1>1, <2>1, <2>2 DEF ChooserSetInv
<1>4. CASE GameEnds
  <2>1. PICK winner \in Users \cup {Draw} : lobby' = EndGame(lobby, winner)
    BY <1>4 DEF GameEnds
  <2>2. lobby.game = "playing" /\ lobby.users # {}
    BY <1>1, <1>4 DEF GameEnds
  <2>3. lobby'.users = lobby.users /\ ChooserInv(lobby', orphans.running)
    BY <1>1, <2>1, <2>2, EndGameInv, EndKeepsChooser
  <2> QED BY <1>1, <2>2, <2>3 DEF ChooserSetInv
<1>5. CASE GameTimerExpired(u)
  <2> DEFINE forfeited == IF lobby.mode = "Bo3" THEN ConcedeBo3ByUserId(lobby, u) ELSE lobby
  <2>1. lobby.game = "playing" /\ lobby.users # {} /\ lobby' = EndGame(forfeited, OtherThan(u))
    BY <1>1, <1>5 DEF GameTimerExpired
  <2>2. /\ LobbyInv(forfeited) /\ forfeited.users = lobby.users
        /\ forfeited.game \in {"playing", "over"} /\ ChooserInv(forfeited, orphans.running)
    BY <1>1, <2>1, ConcedeInv, ConcedeKeepsChooser
  <2>3. OtherThan(u) \in Users \cup {Draw} /\ LobbyBase(forfeited)
    BY <2>2, OtherPlayer DEF LobbyInv
  <2> HIDE DEF forfeited
  <2>4. lobby'.users = lobby.users /\ ChooserInv(lobby', orphans.running)
    <3>1. CASE forfeited.game = "playing"
      BY <2>1, <2>2, <2>3, <3>1, EndGameInv, EndKeepsChooser
    <3>2. CASE forfeited.game = "over"
      BY <2>1, <2>2, <3>2 DEF EndGame
    <3> QED BY <2>2, <3>1, <3>2
  <2> QED BY <1>1, <2>1, <2>4 DEF ChooserSetInv
<1> QED BY <1>2, <1>3, <1>4, <1>5

\* An undo of the end gives the score back with which the game began.
LEMMA UndoKeepsChooser ==
  ASSUME SetInv, ChooserSetInv, UndoGameEnd
  PROVE  ChooserSetInv'
<1> DEFINE resumed == [lobby EXCEPT !.game = "playing"]
           ws == lobby.winners
<1>1. /\ lobby \in LobbyStates /\ lobby.game = "over" /\ lobby.users # {} /\ orphans' = orphans
      /\ lobby' = HandleUndoGameEnd(resumed)
  BY DEF SetInv, LobbyInv, LobbyBase, UndoGameEnd
<1>2. /\ resumed \in LobbyStates /\ resumed.game = "playing" /\ resumed.mode = lobby.mode
      /\ resumed.users = lobby.users /\ resumed.winners = ws
      /\ resumed.chooser = lobby.chooser /\ resumed.readyTimer = lobby.readyTimer
  BY <1>1 DEF LobbyStates
<1>3. lobby.readyTimer # "running"
  BY <1>1 DEF ChooserSetInv, ChooserInv
<1> HIDE DEF resumed
<1>4. CASE lobby.mode = "Bo1"
  <2>1. lobby' = [resumed EXCEPT !.lastWinner = Nobody]
    BY <1>1, <1>2, <1>4 DEF HandleUndoGameEnd
  <2>2. lobby'.mode = "Bo1" /\ lobby'.users = lobby.users /\ lobby'.readyTimer = lobby.readyTimer
    BY <1>2, <1>4, <2>1 DEF LobbyStates
  <2> QED BY <1>1, <1>3, <2>2 DEF ChooserSetInv, ChooserInv
<1>5. CASE lobby.mode = "Bo3"
  <2> DEFINE fewer == SubSeq(ws, 1, Len(ws) - 1)
  <2>1. ws # <<>> /\ Before(lobby) = fewer
    BY <1>1, <1>5 DEF ChooserSetInv, ChooserInv, Before
  <2>2. lobby' = [resumed EXCEPT !.winners = fewer, !.setEnd = NoResult, !.transition = FALSE,
                                 !.confirmed = {}]
    BY <1>1, <1>2, <1>5, <2>1 DEF HandleUndoGameEnd
  <2> HIDE DEF fewer
  <2>3. /\ lobby'.game = "playing" /\ lobby'.winners = fewer /\ lobby'.mode = "Bo3"
        /\ lobby'.users = lobby.users /\ lobby'.chooser = lobby.chooser
        /\ lobby'.readyTimer = lobby.readyTimer
    BY <1>2, <1>5, <2>2 DEF LobbyStates
  <2>4. Before(lobby') = Before(lobby)
    BY <2>1, <2>3 DEF Before
  <2>5. ChooserInv(lobby', orphans.running)
    BY <1>1, <1>3, <1>5, <2>3, <2>4 DEF ChooserSetInv, ChooserInv
  <2> QED BY <1>1, <2>3, <2>5 DEF ChooserSetInv
<1> QED BY <1>1, <1>4, <1>5 DEF LobbyStates

LEMMA ReadyTimerSteps ==
  ASSUME SetInv, ChooserSetInv, ReadyTimerExpired \/ OrphanedTimerExpired
  PROVE  ChooserSetInv'
<1>1. /\ LobbyInv(lobby) /\ lobby \in LobbyStates /\ ChooserInv(lobby, orphans.running)
      /\ lobby.users = {} => lobby.game = "none"
  BY DEF SetInv, LobbyInv, LobbyBase, ChooserSetInv
<1>2. CASE ReadyTimerExpired
  <2> DEFINE off == [lobby EXCEPT !.readyTimer = "off"]
  <2>1. /\ lobby.readyTimer = "running" /\ lobby' = LobbyReadyTimeout(off) /\ orphans' = orphans
    BY <1>2 DEF ReadyTimerExpired
  <2>2. /\ off \in LobbyStates /\ off.game = lobby.game /\ off.mode = lobby.mode
        /\ off.users = lobby.users /\ off.ready = lobby.ready
        /\ off.number = lobby.number /\ off.winners = lobby.winners
        /\ off.confirmed = lobby.confirmed /\ off.transition = lobby.transition
        /\ off.finishedAt = lobby.finishedAt /\ off.chooser = lobby.chooser
        /\ off.readyTimer = "off" /\ off.undoMode = lobby.undoMode
        /\ off.rematchRequest = lobby.rematchRequest
    BY <1>1 DEF LobbyStates
  <2> HIDE DEF off
  <2>3. LobbyInv(off) /\ off.game = "none"
    BY <1>1, <2>1, <2>2 DEF LobbyInv, LobbyBase, ChooserInv
  <2>4. ChooserInv(off, orphans.running)
    BY <1>1, <2>2, SameGame
  <2>5. /\ ChooserInv(lobby', orphans.running)
        /\ lobby'.users = {} => lobby'.game = "none"
    BY <2>1, <2>3, <2>4, TimeoutKeepsChooser
  <2> QED BY <2>1, <2>5 DEF ChooserSetInv
<1>3. CASE OrphanedTimerExpired
  <2>1. /\ orphans.running /\ lobby' = LobbyReadyTimeout(lobby)
        /\ orphans' = [running |-> FALSE, expired |-> TRUE]
    BY <1>3 DEF OrphanedTimerExpired
  <2>2. /\ ChooserInv(lobby', FALSE)
        /\ lobby'.users = {} => lobby'.game = "none"
    BY <1>1, <2>1, TimeoutKeepsChooser
  <2> QED BY <2>1, <2>2 DEF ChooserSetInv
<1> QED BY <1>2, <1>3

LEMMA ChooserInit == BestOfThreeInit => ChooserSetInv
<1> SUFFICES ASSUME BestOfThreeInit PROVE ChooserSetInv
  OBVIOUS
<1>1. /\ lobby.winners = <<>> /\ lobby.game = "none" /\ lobby.readyTimer # "running"
  BY DEF BestOfThreeInit
<1>2. Open(<<>>)
  <2>1. \A u : {i \in DOMAIN <<>> : <<>>[i] = u} = {}
    OBVIOUS
  <2> QED BY <2>1, FS_EmptySet DEF Open, Score
<1> QED BY <1>1, <1>2 DEF ChooserSetInv, ChooserInv, Before

LEMMA ChooserNext ==
  ASSUME SetInv, ChooserSetInv, [BestOfThreeNext]_bestOfThreeVars
  PROVE  ChooserSetInv'
<1>1. CASE UNCHANGED bestOfThreeVars
  BY <1>1 DEF bestOfThreeVars, ChooserSetInv
<1>2. CASE \E u \in Users : SetReadyStatus(u) \/ UpdateDeck(u) \/ ChangeDeck(u)
  BY <1>2, GameStartSteps, QuietSteps
<1>3. CASE StartGame \/ UpdateSetting
  BY <1>3, GameStartSteps, QuietSteps, BestOfThreeAssumption
<1>4. CASE \E u \in Users : RequestRematch(u) \/ Rematch(u)
  BY <1>4, QuietSteps, RematchKeepsChooser
<1>5. CASE \E u \in Users : ProceedToNextBo3Game(u) \/ ConcedeBo3(u) \/ Leave(u)
  BY <1>5, NextGameSteps, EndingSteps
<1>6. CASE GameEnds \/ UndoGameEnd \/ \E u \in Users : GameTimerExpired(u)
  BY <1>6, EndingSteps, UndoKeepsChooser, BestOfThreeAssumption
<1>7. CASE TransitionTimerExpired \/ ReadyTimerExpired \/ OrphanedTimerExpired
  BY <1>7, NextGameSteps, ReadyTimerSteps, BestOfThreeAssumption
<1> QED BY <1>1, <1>2, <1>3, <1>4, <1>5, <1>6, <1>7 DEF BestOfThreeNext

\* Who chooses the first player has not won more games than the opponent, whatever
\* games were drawn, undone or started by a timer of an earlier set (Lobby.ts
\* determineFirstPlayer).
THEOREM TheLeaderNeverChooses == BestOfThreeSpec => []ChooserIsNotAhead
<1>1. ChooserSetInv => ChooserIsNotAhead
  BY DEF ChooserSetInv, ChooserInv, Before, ChooserIsNotAhead, Wins, Score
<1>2. SetInv /\ ChooserSetInv /\ [BestOfThreeNext]_bestOfThreeVars => ChooserSetInv'
  BY ChooserNext
<1> QED BY <1>1, <1>2, ChooserInit, SetInvariant, PTL DEF BestOfThreeSpec
=============================================================================
