---------------------------- MODULE BestOfThree ----------------------------
(***************************************************************************)
(* The sets a Lobby plays: the games of a best of one or three, their      *)
(* results, the two timers that drive a set from game to game, rematches   *)
(* and conversions, conceding and leaving, and the end of a game that an   *)
(* undo takes back.                                                        *)
(*                                                                         *)
(* The functions of Lobby that call each other are operators from a state  *)
(* of the lobby to the next, named as in the code; an action is one        *)
(* command, callback of the game, or timer.  The game itself only goes on, *)
(* ends, and is taken back behind its end.                                 *)
(*                                                                         *)
(* Commands carry few checks of their own: what the clients offer is part  *)
(* of the model (section "What the clients offer").                        *)
(***************************************************************************)
EXTENDS Naturals, Sequences, FiniteSets

CONSTANTS
  Users,                \* the two players
  Nobody, Draw,
  MatchmakingTypes,     \* the lobbies to begin with, see AllMatchmakingTypes
  MaxDraws              \* bound of the model: drawn games of one set

AllMatchmakingTypes == {"Quick", "PublicLobby", "PrivateLobby"}

ASSUME BestOfThreeAssumption ==
  /\ \E u, v \in Users : u # v /\ Users = {u, v}
  /\ Nobody \notin Users /\ Draw \notin Users
  /\ MatchmakingTypes \subseteq AllMatchmakingTypes
  /\ MaxDraws \in Nat

OtherThan(u) == CHOOSE v \in Users : v # u

RematchModes == {"Regular", "Bo1ConvertToBo3", "NewBo3"}    \* Reset does what Regular does
NoRequest == [initiator |-> Nobody, mode |-> "none"]
Requests == [initiator : Users, mode : RematchModes] \cup {NoRequest}

EndReasons == {"Concede", "OnePlayerLobbyTimeout", "BothPlayersLobbyTimeout", "WonTwoGames"}
NoResult == [reason |-> "none", player |-> Nobody]
SetEndResults == [reason : EndReasons, player : Users \cup {Nobody}] \cup {NoResult}

VARIABLES
  lobby,        \* the state of the Lobby
  orphans       \* ready timers of an earlier set: one still runs; one has expired

bestOfThreeVars == <<lobby, orphans>>

LobbyStates ==
  [users : SUBSET Users,                    \* who is in the lobby; empty: it is removed
   ready : SUBSET Users,
   invalid : SUBSET Users,                  \* decks no game may start with
   matchmakingType : AllMatchmakingTypes,
   undoMode : {"Free", "Request"},
   game : {"none", "playing", "over"},      \* Lobby.game, and whether it isEnded
   finishedAt : BOOLEAN,                    \* Game.finishedAt is set
   chooser : Users \cup {Nobody},           \* preselectedFirstPlayerId
   rematchRequest : Requests,
   mode : {"Bo1", "Bo3"},                   \* winHistory, with the fields of both kinds
   lastWinner : Users \cup {Nobody, Draw},
   deckChanged : BOOLEAN,
   number : Nat,                            \* currentGameNumber
   winners : Seq(Users \cup {Draw}),        \* winnerIdsInOrder
   setEnd : SetEndResults,
   confirmed : SUBSET Users,                \* bo3NextGameConfirmedBy
   transition : BOOLEAN,                    \* bo3TransitionTask is pending
   readyTimer : {"none", "off", "running"}]

-----------------------------------------------------------------------------
(* The result of a set *)

Wins(s, u) == Cardinality({i \in DOMAIN s.winners : s.winners[i] = u})
Draws(s) == Cardinality({i \in DOMAIN s.winners : s.winners[i] = Draw})
HasWinner(s) == \E u \in Users : Wins(s, u) >= 2

\* getWinHistoryForClient: without timers the second win is never stored.
SetIsOver(s) == HasWinner(s) \/ s.setEnd # NoResult

UseActionTimers(s) == s.matchmakingType \in {"Quick", "PublicLobby"}

\* isBo3SetComplete, the result it stores.
MarkIfWon(s) ==
  IF HasWinner(s) /\ s.setEnd = NoResult
  THEN [s EXCEPT !.setEnd = [reason |-> "WonTwoGames", player |-> Nobody]]
  ELSE s

\* The first user of the list that is not the winner.
Loser(s, winner) == IF s.users \ {winner} = {} THEN Nobody ELSE CHOOSE u \in s.users \ {winner} : TRUE

DecidedGames(s) == {i \in DOMAIN s.winners : s.winners[i] # Draw}

LastDecided(s) == s.winners[CHOOSE i \in DecidedGames(s) : \A j \in DecidedGames(s) : j <= i]

\* determineFirstPlayer with a bug: the winner chooses.
WinnerChooses(s) ==
  IF s.mode = "Bo3" /\ DecidedGames(s) # {} THEN LastDecided(s) ELSE Nobody

\* determineFirstPlayer: the loser of the last game that was not drawn.
FirstPlayer(s) ==
  CASE s.mode = "Bo3" /\ s.number > 1 /\ DecidedGames(s) # {} -> Loser(s, LastDecided(s))
    [] s.mode = "Bo1" /\ s.lastWinner # Nobody /\ ~s.deckChanged -> Loser(s, s.lastWinner)
    [] OTHER -> Nobody

-----------------------------------------------------------------------------
(* Timers and the end of a game *)

StopReadyTimer(s) == [s EXCEPT !.readyTimer = IF @ = "running" THEN "off" ELSE @]

\* manageBo3LobbyReadyTimer with a bug: it is only started for the second game.
ManageSecondGameTimer(s) ==
  IF s.mode # "Bo3" \/ s.number # 2 \/ s.readyTimer = "none" THEN s
  ELSE CASE s.ready = {} -> StopReadyTimer(s)
         [] Cardinality(s.ready) = 1 -> [s EXCEPT !.readyTimer = "running"]
         [] OTHER -> s

ManageBo3LobbyReadyTimer(s) ==
  IF s.mode # "Bo3" \/ s.number <= 1 \/ s.readyTimer = "none" THEN s
  ELSE CASE s.ready = {} -> StopReadyTimer(s)
         [] Cardinality(s.ready) = 1 -> [s EXCEPT !.readyTimer = "running"]
         [] OTHER -> s

\* initializeBo3History: the timer of an earlier set is replaced, not stopped.
InitializeBo3History(s, winner) ==
  [s EXCEPT !.mode = "Bo3",
            !.number = IF winner = Nobody THEN 1 ELSE 2,
            !.winners = IF winner = Nobody THEN <<>> ELSE <<winner>>,
            !.setEnd = NoResult, !.lastWinner = Nobody, !.deckChanged = FALSE,
            !.confirmed = {},
            !.readyTimer = IF UseActionTimers(s) THEN "off" ELSE @]

CleanLobby(s) ==
  [StopReadyTimer(s) EXCEPT !.transition = FALSE, !.game = "none",
                            !.users = {}, !.ready = {}, !.invalid = {}]

\* handleGameEnd with a bug: only a decided game starts the timer.
HandleDecidedGameEnd(s, winner) ==
  IF s.mode = "Bo1" THEN [s EXCEPT !.lastWinner = winner]
  ELSE LET recorded == [s EXCEPT !.winners = Append(@, winner)]
       IN IF UseActionTimers(s)
          THEN [MarkIfWon(recorded) EXCEPT !.transition = @ \/ (winner # Draw /\ ~HasWinner(recorded))]
          ELSE recorded

\* handleGameEnd: the result is recorded, and unless the set is won the next game
\* follows in 30 seconds.
HandleGameEnd(s, winner) ==
  IF s.mode = "Bo1" THEN [s EXCEPT !.lastWinner = winner]
  ELSE LET recorded == [s EXCEPT !.winners = Append(@, winner)]
       IN IF UseActionTimers(s)
          THEN [MarkIfWon(recorded) EXCEPT !.transition = @ \/ ~HasWinner(recorded)]
          ELSE recorded

\* endGame of the Game: once, while the game isEnded.
EndGame(s, winner) ==
  IF s.game = "over" THEN s
  ELSE HandleGameEnd([s EXCEPT !.game = "over", !.finishedAt = TRUE], winner)

\* handleUndoGameEnd with bugs: the timer goes on; the confirmations stay.
UndoKeepsTimer(s) ==
  IF s.mode = "Bo1" THEN [s EXCEPT !.lastWinner = Nobody]
  ELSE [s EXCEPT !.winners = SubSeq(@, 1, Len(@) - 1), !.setEnd = NoResult, !.confirmed = {}]

UndoKeepsConfirmed(s) ==
  IF s.mode = "Bo1" THEN [s EXCEPT !.lastWinner = Nobody]
  ELSE [s EXCEPT !.winners = SubSeq(@, 1, Len(@) - 1), !.setEnd = NoResult, !.transition = FALSE]

\* handleUndoGameEnd with a bug: the result stays recorded.
UndoKeepsResult(s) ==
  IF s.mode = "Bo1" THEN s
  ELSE [s EXCEPT !.setEnd = NoResult, !.transition = FALSE, !.confirmed = {}]

\* handleUndoGameEnd; that a set was conceded is forgotten, too.
HandleUndoGameEnd(s) ==
  IF s.mode = "Bo1" THEN [s EXCEPT !.lastWinner = Nobody]
  ELSE [s EXCEPT !.winners = IF @ = <<>> THEN @ ELSE SubSeq(@, 1, Len(@) - 1),
                 !.setEnd = NoResult, !.transition = FALSE, !.confirmed = {}]

\* concedeBo3ByUserId: a game that goes on is conceded first.  finishedAt is not
\* cleared by an undo, and keeps a game whose end was taken back from being so.
ConcedeBo3ByUserId(s, u) ==
  LET ended == IF s.game = "playing" /\ ~s.finishedAt THEN EndGame(s, OtherThan(u)) ELSE s
  IN IF ended.setEnd = NoResult
     THEN [ended EXCEPT !.setEnd = [reason |-> "Concede", player |-> u]]
     ELSE ended

\* startGameAsync: every deck is checked again; a quick lobby is removed when one
\* may not be played, another asks its players to be ready again.
StartGameAsync(s) ==
  LET stopped == StopReadyTimer(s)
  IN IF s.invalid # {}
     THEN IF s.matchmakingType = "Quick" THEN CleanLobby(stopped) ELSE [stopped EXCEPT !.ready = {}]
     ELSE [stopped EXCEPT !.rematchRequest = NoRequest, !.game = "playing", !.finishedAt = FALSE,
                          !.chooser = FirstPlayer(s),
                          !.deckChanged = @ /\ (s.mode = "Bo3" \/ s.lastWinner = Nobody)]

TransitionToNextBo3Game(s) ==
  [s EXCEPT !.transition = FALSE, !.number = @ + 1, !.game = "none",
            !.confirmed = {}, !.ready = {}]

\* removeUser with a bug: the game of whoever stays goes on.
RemoveFromLobbyOnly(s, u) == [s EXCEPT !.users = @ \ {u}, !.ready = @ \ {u}, !.invalid = @ \ {u}]

\* removeUser: leaving a set that has begun concedes it, leaving a game loses it.
RemoveUser(s, u) ==
  LET begun == s.mode = "Bo3" /\ s.setEnd = NoResult /\ (s.number > 1 \/ s.game # "none")
      conceded == IF begun
                  THEN ConcedeBo3ByUserId([StopReadyTimer(s) EXCEPT !.transition = FALSE], u)
                  ELSE s
      left == [conceded EXCEPT !.users = @ \ {u}, !.ready = @ \ {u}, !.invalid = @ \ {u}]
  IN IF left.game = "playing" /\ OtherThan(u) \in left.users
     THEN EndGame(left, OtherThan(u))
     ELSE left

-----------------------------------------------------------------------------
(* What the clients offer                                                  *)
(*                                                                         *)
(* getLobbyState tells them whether there is a game (gameOngoing), how the *)
(* set stands (getWinHistoryForClient) and that a rematch is requested.    *)

\* Ready, start and sideboarding are on the page of a lobby without a game.
LobbyIsShown == lobby.game = "none" /\ lobby.users # {}

\* The next game is on the page of a game that is over, of a set that is not.
NextGameIsOffered == lobby.game = "over" /\ lobby.mode = "Bo3" /\ ~SetIsOver(lobby)

\* A set is conceded once it has begun and while it is not over.
ConcedingIsOffered ==
  lobby.mode = "Bo3" /\ (lobby.game # "none" \/ lobby.number > 1) /\ ~SetIsOver(lobby)

\* A rematch is offered after a game of a best of one, and when a set is over.
RematchIsOffered ==
  /\ lobby.game # "playing"
  /\ IF lobby.mode = "Bo1" THEN lobby.game = "over" ELSE SetIsOver(lobby)

-----------------------------------------------------------------------------
(* Commands *)

\* setReadyStatus: from the second game of a set on, both being ready starts it.
SetReadyStatus(u) ==
  /\ LobbyIsShown /\ u \in lobby.users
  /\ \E ready \in {lobby.ready \cup {u}, lobby.ready \ {u}} :
       LET set == ManageBo3LobbyReadyTimer([lobby EXCEPT !.ready = ready])
       IN lobby' = IF set.mode = "Bo3" /\ set.number > 1 /\ ready = Users
                   THEN StartGameAsync(set)
                   ELSE set
  /\ UNCHANGED orphans

\* The owner's button, or the countdown of a quick lobby.
StartGame ==
  /\ LobbyIsShown /\ lobby.users = Users
  /\ lobby' = StartGameAsync(lobby)
  /\ UNCHANGED orphans

\* updateDeck and changeDeckForUser: cards are moved (not in the first game of a
\* set), or the deck is replaced (only before the second; a quick lobby takes no
\* deck that may not be played).
UpdateDeck(u) ==
  /\ LobbyIsShown /\ u \in lobby.users
  /\ lobby.mode = "Bo3" => lobby.number > 1
  /\ \E invalid \in {lobby.invalid \cup {u}, lobby.invalid \ {u}} :
       lobby' = [lobby EXCEPT !.invalid = invalid]
  /\ UNCHANGED orphans

ChangeDeck(u) ==
  /\ u \in lobby.users
  /\ lobby.mode = "Bo3" => lobby.number < 2
  /\ \E invalid \in {lobby.invalid \cup {u}, lobby.invalid \ {u}} :
       /\ lobby.matchmakingType = "Quick" => u \notin invalid
       /\ lobby' = [lobby EXCEPT !.invalid = invalid, !.deckChanged = lobby.mode = "Bo1"]
  /\ UNCHANGED orphans

\* updateSetting: whether an undo needs consent, in the games to come.
UpdateSetting ==
  /\ LobbyIsShown
  /\ \E m \in {"Free", "Request"} : lobby' = [lobby EXCEPT !.undoMode = m]
  /\ UNCHANGED orphans

\* requestRematch: one request at a time.
RequestRematch(u) ==
  /\ RematchIsOffered /\ u \in lobby.users
  /\ lobby.rematchRequest = NoRequest
  /\ \E m \in IF lobby.mode = "Bo1" THEN {"Regular", "Bo1ConvertToBo3"} ELSE {"NewBo3"} :
       lobby' = [lobby EXCEPT !.rematchRequest = [initiator |-> u, mode |-> m]]
  /\ UNCHANGED orphans

\* rematch: the game is dropped and the score kept or begun anew; a new set also
\* puts the decks back (resetSideboards), whatever they were imported as.
Rematch(u) ==
  /\ RematchIsOffered /\ u \in lobby.users
  /\ lobby.rematchRequest # NoRequest /\ lobby.rematchRequest.initiator # u
  /\ LET m == lobby.rematchRequest.mode
         dropped == [lobby EXCEPT !.rematchRequest = NoRequest, !.game = "none", !.ready = {},
                                  !.matchmakingType = IF @ = "Quick" THEN "PublicLobby" ELSE @]
     IN /\ CASE m = "Regular" -> lobby' = [dropped EXCEPT !.confirmed = {}]
             [] m = "Bo1ConvertToBo3" -> lobby' = InitializeBo3History(dropped, lobby.lastWinner)
             [] m = "NewBo3" ->
                  \E invalid \in SUBSET lobby.users :
                    lobby' = [InitializeBo3History(dropped, Nobody) EXCEPT !.invalid = invalid]
        /\ orphans' = [orphans EXCEPT !.running = @ \/ (m = "NewBo3" /\ lobby.readyTimer = "running")]

\* proceedToNextBo3Game: the second player to confirm moves both on.
ProceedToNextBo3Game(u) ==
  /\ NextGameIsOffered /\ u \in lobby.users
  /\ lobby.finishedAt
  /\ LET confirmed == [lobby EXCEPT !.confirmed = @ \cup {u}]
     IN lobby' = IF confirmed.confirmed = Users THEN TransitionToNextBo3Game(confirmed) ELSE confirmed
  /\ UNCHANGED orphans

ConcedeBo3(u) ==
  /\ ConcedingIsOffered /\ u \in lobby.users
  /\ lobby' = ConcedeBo3ByUserId(lobby, u)
  /\ UNCHANGED orphans

\* removeUserMaybeCleanupLobby of the GameServer.
Leave(u) ==
  /\ u \in lobby.users
  /\ LET left == RemoveUser(lobby, u)
     IN lobby' = IF left.users = {} THEN CleanLobby(left) ELSE left
  /\ UNCHANGED orphans

-----------------------------------------------------------------------------
(* The game *)

\* A base is destroyed, a player concedes the game, or both bases are.
GameEnds ==
  /\ lobby.game = "playing"
  /\ \E winner \in Users \cup {Draw} :
       /\ winner = Draw /\ lobby.mode = "Bo3" => Draws(lobby) < MaxDraws
       /\ lobby' = EndGame(lobby, winner)
  /\ UNCHANGED orphans

\* onGameTimerExpired: the clock of u runs out, which also loses the set.
GameTimerExpired(u) ==
  /\ UseActionTimers(lobby) /\ lobby.game = "playing"
  /\ LET forfeited == IF lobby.mode = "Bo3" THEN ConcedeBo3ByUserId(lobby, u) ELSE lobby
     IN lobby' = EndGame(forfeited, OtherThan(u))
  /\ UNCHANGED orphans

\* rollbackToSnapshot behind the end of the game: free in a private lobby, by
\* consent of the other player elsewhere.
UndoGameEnd ==
  /\ lobby.game = "over"
  /\ lobby.users = IF lobby.undoMode = "Request" THEN Users ELSE lobby.users
  /\ lobby.users # {}
  /\ lobby' = HandleUndoGameEnd([lobby EXCEPT !.game = "playing"])
  /\ UNCHANGED orphans

-----------------------------------------------------------------------------
(* Timers *)

\* onBo3TransitionTimerExpired; it looks for two wins, not at setEndResult.
TransitionTimerExpired ==
  /\ lobby.transition
  /\ LET expired == [lobby EXCEPT !.transition = FALSE]
     IN lobby' = IF lobby.game = "none" \/ ~lobby.finishedAt \/ HasWinner(lobby)
                 THEN expired
                 ELSE TransitionToNextBo3Game(expired)
  /\ UNCHANGED orphans

\* onBo3LobbyReadyTimerExpired: whatever ended the set before is overwritten.
LobbyReadyTimeout(s) ==
  CASE s.ready = Users -> StartGameAsync(s)
    [] Cardinality(s.ready) = 1 /\ s.users = Users ->
         [s EXCEPT !.setEnd = [reason |-> "OnePlayerLobbyTimeout",
                               player |-> CHOOSE u \in Users : u \notin s.ready]]
    [] OTHER -> [s EXCEPT !.setEnd = [reason |-> "BothPlayersLobbyTimeout", player |-> Nobody]]

ReadyTimerExpired ==
  /\ lobby.readyTimer = "running"
  /\ lobby' = LobbyReadyTimeout([lobby EXCEPT !.readyTimer = "off"])
  /\ UNCHANGED orphans

\* The timer of an earlier set, in the set that followed.
OrphanedTimerExpired ==
  /\ orphans.running
  /\ lobby' = LobbyReadyTimeout(lobby)
  /\ orphans' = [running |-> FALSE, expired |-> TRUE]

-----------------------------------------------------------------------------

BestOfThreeInit ==
  /\ \E type \in MatchmakingTypes, mode \in {"Bo1", "Bo3"} :
       lobby =
         [users |-> Users, ready |-> {}, invalid |-> {},
          matchmakingType |-> type,
          undoMode |-> IF type = "PrivateLobby" THEN "Free" ELSE "Request",
          game |-> "none", finishedAt |-> FALSE, chooser |-> Nobody, rematchRequest |-> NoRequest,
          mode |-> mode, lastWinner |-> Nobody, deckChanged |-> FALSE,
          number |-> 1, winners |-> <<>>, setEnd |-> NoResult, confirmed |-> {},
          transition |-> FALSE,
          readyTimer |-> IF mode = "Bo3" /\ type # "PrivateLobby" THEN "off" ELSE "none"]
  /\ orphans = [running |-> FALSE, expired |-> FALSE]

BestOfThreeNext ==
  \/ \E u \in Users : SetReadyStatus(u) \/ UpdateDeck(u) \/ ChangeDeck(u)
  \/ StartGame \/ UpdateSetting
  \/ \E u \in Users : RequestRematch(u) \/ Rematch(u)
  \/ \E u \in Users : ProceedToNextBo3Game(u) \/ ConcedeBo3(u) \/ Leave(u)
  \/ GameEnds
  \/ \E u \in Users : GameTimerExpired(u)
  \/ UndoGameEnd
  \/ TransitionTimerExpired \/ ReadyTimerExpired \/ OrphanedTimerExpired

\* Timers expire, unless they are stopped.
BestOfThreeFairness == WF_bestOfThreeVars(TransitionTimerExpired) /\ WF_bestOfThreeVars(ReadyTimerExpired)

BestOfThreeSpec ==
  BestOfThreeInit /\ [][BestOfThreeNext]_bestOfThreeVars /\ BestOfThreeFairness

-----------------------------------------------------------------------------
(* Properties                                                              *)
(*                                                                         *)
(* A ready timer that outlives its set may start the next game over one    *)
(* that is not over, or over one that is: what it breaks is said where it  *)
(* has not expired.                                                        *)

OwnTimersOnly == ~orphans.expired

BestOfThreeTypeOK ==
  /\ lobby \in LobbyStates
  /\ orphans \in [running : BOOLEAN, expired : BOOLEAN]

\* The score has one result of every game that is over and none of another, through
\* undone ends, concessions, departures, conversions and transitions by either way.
GamesAreCounted ==
  OwnTimersOnly /\ lobby.mode = "Bo3" /\ lobby.users # {} =>
    Len(lobby.winners) = IF lobby.game = "over" THEN lobby.number ELSE lobby.number - 1

\* The player who chooses who begins has not won more games of the set.
ChooserIsNotAhead ==
  lobby.mode = "Bo3" /\ lobby.game = "playing" /\ lobby.chooser # Nobody =>
    Wins(lobby, lobby.chooser) <= Wins(lobby, OtherThan(lobby.chooser))

\* Who confirms does so for the game that has just ended: a confirmation never
\* waits in a game that goes on, or between two games.
ConfirmationsAreCurrent ==
  OwnTimersOnly /\ lobby.confirmed # {} /\ lobby.users # {} =>
    lobby.game = "over" /\ lobby.confirmed # Users

\* Where an undo needs consent, nobody goes on playing against a player who left.
NobodyPlaysAlone ==
  lobby.game = "playing" /\ lobby.undoMode = "Request" => lobby.users = Users

\* The game of a set ends before the next begins: no timer that was set at its end
\* drops a game whose end an undo took back.
TransitionsFollowAnEnd ==
  [][lobby.mode = "Bo3" /\ lobby'.number > lobby.number => lobby.game = "over"]_bestOfThreeVars

\* With timers, the players of an open set are not kept at the end of a game by one
\* who does not confirm.
EndedGamesMoveOn ==
  LET AtEnd == /\ UseActionTimers(lobby) /\ lobby.mode = "Bo3"
               /\ lobby.game = "over" /\ lobby.setEnd = NoResult
  IN AtEnd ~> ~AtEnd

\* With timers, a player who is ready for the next game of a set is not kept waiting:
\* it starts, the set ends, or nobody is ready any more.
ReadyPlayersMoveOn ==
  LET IsWaiting == /\ UseActionTimers(lobby) /\ lobby.mode = "Bo3" /\ lobby.number > 1
                   /\ lobby.game = "none" /\ lobby.setEnd = NoResult
                   /\ Cardinality(lobby.ready) = 1
  IN IsWaiting ~> ~IsWaiting

\* A set that has ended stays as it ended (Lobby.ts:965, only mark as conceded if the
\* set isn't already decided), until an undo takes that back or a new set begins.
EndedSetIsOver ==
  [][lobby.mode = "Bo3" /\ lobby.setEnd # NoResult =>
       \/ lobby'.setEnd = lobby.setEnd /\ lobby'.number = lobby.number
       \/ lobby.game = "over" /\ lobby'.game = "playing"
       \/ \E u \in Users : Rematch(u)]_bestOfThreeVars
=============================================================================
