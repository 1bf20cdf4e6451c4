----------------------------- MODULE QuickMatch -----------------------------
(***************************************************************************)
(* From the queue to a game: GameServer, QueueHandler and the quick lobby  *)
(* of two matched players, with sockets that drop and come back at any     *)
(* moment and the timers that wait for them.                               *)
(*                                                                         *)
(* The functions of GameServer, Lobby and QueueHandler that call each      *)
(* other are operators from a state of the server to the next, named as    *)
(* in the code; an action is one event handler, request or timer, and      *)
(* composes them as the code does.  The awaits between taking a match and  *)
(* seating both players only give way to microtasks, so a handler is one   *)
(* step; the await of a deck (resolveDeckInputAsync) is not, and a request *)
(* to enter the queue is two.  Which pairs may match, and when, is the     *)
(* subject of QueueHandler: here any two queued players may, at any time.  *)
(* A timer may fire at any time after it was set.                          *)
(***************************************************************************)
EXTENDS Naturals, FiniteSets

CONSTANTS
  Users,
  MaxSockets,     \* bounds of the model: connections of each user,
  MaxLobbies,     \* lobbies ever created,
  MaxSubmits,     \* requests to enter the queue of each user,
  ConnectChecks   \* ticks a quick lobby waits for its players after "Starts in 0", 3 in the code

ASSUME QuickMatchAssumption ==
  /\ MaxSockets \in Nat /\ MaxLobbies \in Nat /\ MaxSubmits \in Nat
  /\ ConnectChecks \in Nat \ {0}

Lobbies == 1 .. MaxLobbies
NoLobby == 0
SocketIds == 1 .. MaxSockets
NoSocket == 0

\* What a socket may listen for: "queue" and "default" are the two disconnect
\* handlers (a socket may carry both), "requeue" the event of the client.
DisconnectListeners == {"queue", "default"}
Listeners == DisconnectListeners \cup {"requeue"}

\* The timeouts of onSocketDisconnected: 3 s ("queue") or 20 s ("default").
GraceTimers ==
  [user : Users, socket : SocketIds, lobby : Lobbies \cup {NoLobby}, kind : DisconnectListeners]

\* Countdown of a quick lobby: not started, running, waiting for its players (one
\* value per check), or over with the task still set.
Off == 0
Counting == 1
LastCheck == Counting + ConnectChecks
Over == LastCheck + 1

VARIABLES
  server,      \* the state of the GameServer, its QueueHandler and its lobbies
  lastSocket,  \* the last connection of each user
  submitted    \* requests to enter the queue: checked and waiting for the deck, and all made

quickMatchVars == <<server, lastSocket, submitted>>

ServerStates ==
  [userLobbyMap : [Users -> Lobbies \cup {NoLobby}],
   lobbies : SUBSET Lobbies,                       \* GameServer.lobbies
   created : 0 .. MaxLobbies,                      \* bound of the model: lobbies made so far
   users : [Lobbies -> SUBSET Users],              \* Lobby.users
   socketOf : [Lobbies -> [Users -> SocketIds \cup {NoSocket}]],
   away : [Lobbies -> SUBSET Users],               \* users in state 'disconnected'
   game : [Lobbies -> {"none", "playing", "over"}],
   countdown : [Lobbies -> Off .. Over],
   queue : SUBSET [user : Users, socket : SocketIds],
   waiting : SUBSET [user : Users, lost : SocketIds \cup {NoSocket}],
                                                   \* playersWaitingToConnect
   open : SUBSET (Users \X SocketIds),             \* sockets that are connected
   listeners : [Users \X SocketIds -> SUBSET Listeners],
   graces : SUBSET GraceTimers,                    \* pending disconnect timeouts
   requeues : SUBSET Lobbies,                      \* lobbies about to requeue who is left
   penalised : SUBSET Users]                       \* playerMatchmakingDisconnectedTime, 20 s

QuickMatchInit ==
  /\ server =
       [userLobbyMap |-> [u \in Users |-> NoLobby],
        lobbies |-> {}, created |-> 0,
        users |-> [l \in Lobbies |-> {}],
        socketOf |-> [l \in Lobbies |-> [u \in Users |-> NoSocket]],
        away |-> [l \in Lobbies |-> {}],
        game |-> [l \in Lobbies |-> "none"],
        countdown |-> [l \in Lobbies |-> Off],
        queue |-> {}, waiting |-> {},
        open |-> {}, listeners |-> [s \in Users \X SocketIds |-> {}],
        graces |-> {}, requeues |-> {}, penalised |-> {}]
  /\ lastSocket = [u \in Users |-> NoSocket]
  /\ submitted = [u \in Users |-> [pending |-> 0, all |-> 0]]

-----------------------------------------------------------------------------
(* QueueHandler *)

InQueue(s, u) == \E e \in s.queue : e.user = u
InWaiting(s, u) == \E e \in s.waiting : e.user = u

RemovePlayer(s, u) ==
  IF InQueue(s, u) THEN [s EXCEPT !.queue = {e \in @ : e.user # u}]
  ELSE [s EXCEPT !.waiting = {e \in @ : e.user # u}]

ConnectPlayer(s, u, socket) ==
  LET removed == RemovePlayer(s, u)
  IN [removed EXCEPT !.queue = @ \cup {[user |-> u, socket |-> socket]}]

\* addPlayer as a bug would have it: an earlier entry is not looked for.
AddPlayerAgain(s, u, socket) ==
  LET added == [s EXCEPT !.waiting = @ \cup {[user |-> u, lost |-> NoSocket]}]
  IN IF socket = NoSocket THEN added ELSE ConnectPlayer(added, u, socket)

\* addPlayer: an entry of the user, in the queue or waiting, is replaced; with a
\* socket the new one is connected at once.
AddPlayer(s, u, socket) ==
  LET unqueued == IF InQueue(s, u) THEN RemovePlayer(s, u) ELSE s
      removed == IF InWaiting(unqueued, u) THEN RemovePlayer(unqueued, u) ELSE unqueued
      added == [removed EXCEPT !.waiting = @ \cup {[user |-> u, lost |-> NoSocket]}]
  IN IF socket = NoSocket THEN added ELSE ConnectPlayer(added, u, socket)

\* disconnectPlayer: the entry waits for the player to come back, unless it is
\* connected to another socket by now.
DisconnectPlayer(s, u, socket) ==
  IF [user |-> u, socket |-> socket] \in s.queue
  THEN LET removed == RemovePlayer(s, u)
       IN [removed EXCEPT !.waiting = @ \cup {[user |-> u, lost |-> socket]}]
  ELSE s

IsWaitingForReconnection(s, u, socket) == [user |-> u, lost |-> socket] \in s.waiting

-----------------------------------------------------------------------------
(* Lobby *)

\* removeUser: whoever stays wins the game that is going on.
RemoveUser(s, l, u) ==
  IF u \notin s.users[l] THEN s
  ELSE [s EXCEPT !.users[l] = @ \ {u}, !.away[l] = @ \ {u}, !.socketOf[l][u] = NoSocket,
                 !.game[l] = IF @ = "playing" /\ s.users[l] # {u} THEN "over" ELSE @]

CleanLobby(s, l) ==
  [s EXCEPT !.users[l] = {}, !.away[l] = {}, !.socketOf[l] = [u \in Users |-> NoSocket],
            !.game[l] = "none", !.countdown[l] = Off]

\* A socket that is replaced is closed by the server, its disconnect handlers
\* removed first (checkUpdateSocket).
ReplaceSocket(s, u, old) ==
  IF old = NoSocket THEN s
  ELSE [s EXCEPT !.open = @ \ {<<u, old>>}, !.listeners[<<u, old>>] = @ \ DisconnectListeners]

\* addLobbyUserAsync in a quick lobby.
AddLobbyUser(s, l, u, socket) ==
  LET old == s.socketOf[l][u]
      replaced == IF old = socket THEN s ELSE ReplaceSocket(s, u, old)
      added == [replaced EXCEPT !.users[l] = @ \cup {u}, !.away[l] = @ \ {u},
                                !.socketOf[l][u] = socket]
  IN IF s.game[l] # "none" THEN added
     ELSE [added EXCEPT !.listeners[<<u, socket>>] = @ \cup {"requeue"},
                        !.countdown[l] = IF @ = Off THEN Counting ELSE @]

SetUserDisconnected(s, l, u, socket) ==
  IF u \in s.users[l] /\ s.socketOf[l][u] = socket
  THEN [s EXCEPT !.away[l] = @ \cup {u}]
  ELSE s

\* isDisconnected without the comparison of the sockets.
IsDisconnectedOnAny(s, l, u, socket) == u \in s.users[l] /\ u \in s.away[l]

IsDisconnected(s, l, u, socket) ==
  u \in s.users[l] /\ s.socketOf[l][u] = socket /\ u \in s.away[l]

\* handleMatchmakingDisconnect that forgets about whoever is left.
CancelCountdown(s, l) ==
  IF s.game[l] # "none" THEN s
  ELSE [s EXCEPT !.countdown[l] = IF @ = Off THEN Off ELSE Over]

\* handleMatchmakingDisconnect: the countdown is cancelled, in two seconds whoever
\* is left is put back into the queue.
HandleMatchmakingDisconnect(s, l) ==
  IF s.game[l] # "none" THEN s
  ELSE [s EXCEPT !.countdown[l] = IF @ = Off THEN Off ELSE Over,
                 !.requeues = @ \cup {l}]

-----------------------------------------------------------------------------
(* GameServer *)

RegisterDisconnect(s, u, socket) ==
  [s EXCEPT !.listeners[<<u, socket>>] = (@ \ DisconnectListeners) \cup {"default"}]

Unmap(s, u) == [s EXCEPT !.userLobbyMap[u] = NoLobby]

\* The lobby a user is registered in, if it still exists.
LobbyOf(s, u) == IF s.userLobbyMap[u] \in s.lobbies THEN s.userLobbyMap[u] ELSE NoLobby

RemoveUserMaybeCleanupLobby(s, l, u) ==
  IF l = NoLobby THEN s
  ELSE LET removed == RemoveUser(s, l, u)
       IN IF removed.users[l] # {} THEN removed
          ELSE [CleanLobby(removed, l) EXCEPT !.lobbies = @ \ {l}]

\* removeLobby with a swapped order: the lobby is cleaned before its users are
\* taken out of the map.
RemoveLobbyCleansFirst(s, l) == [CleanLobby(s, l) EXCEPT !.lobbies = @ \ {l}]

RemoveLobby(s, l) ==
  LET unmapped == [s EXCEPT !.lobbies = @ \ {l},
                            !.userLobbyMap = [u \in Users |-> IF u \in s.users[l] THEN NoLobby
                                                              ELSE s.userLobbyMap[u]]]
  IN CleanLobby(unmapped, l)

RequeueUser(s, u, socket) ==
  AddPlayer(RemoveUserMaybeCleanupLobby(Unmap(s, u), LobbyOf(s, u), u), u, socket)

HandleIntentionalDisconnect(s, u, l) ==
  RemoveUserMaybeCleanupLobby(Unmap(RemovePlayer(s, u), u), l, u)

\* onSocketDisconnected, the default handler and the one of matchmaking.
OnSocketDisconnected(s, u, socket, kind, manual) ==
  LET l == LobbyOf(s, u)
      seated == IF l = NoLobby THEN s ELSE SetUserDisconnected(s, l, u, socket)
      timer == [user |-> u, socket |-> socket, lobby |-> l, kind |-> kind]
  IN IF s.userLobbyMap[u] = NoLobby /\ kind = "default" THEN s
     ELSE IF manual THEN HandleIntentionalDisconnect(s, u, l)
     ELSE [DisconnectPlayer(seated, u, socket) EXCEPT !.graces = @ \cup {timer}]

\* The callback of that handler's timeout.
GraceOver(s, t) ==
  LET forgotten == IF t.kind = "queue" /\ IsWaitingForReconnection(s, t.user, t.socket)
                   THEN RemovePlayer(s, t.user) ELSE s
  IN IF t.lobby = NoLobby THEN forgotten
     ELSE IF ~IsDisconnected(forgotten, t.lobby, t.user, t.socket) THEN forgotten
     ELSE IF t.kind = "default"
     THEN RemoveUserMaybeCleanupLobby(Unmap(forgotten, t.user), t.lobby, t.user)
     ELSE LET removed == RemoveUser(Unmap(forgotten, t.user), t.lobby, t.user)
          IN HandleMatchmakingDisconnect([removed EXCEPT !.penalised = @ \cup {t.user}], t.lobby)

-----------------------------------------------------------------------------
(* Requests and events *)

\* POST enter-queue up to the deck (canUserJoinNewLobby): a seat in a lobby is only
\* given up if it has seen no activity for 60 s, longer than a lobby lives before
\* its game starts; an entry in the queue is.
SubmitQueue(u) ==
  LET l == LobbyOf(server, u)
      left == RemoveUserMaybeCleanupLobby(Unmap(server, u), l, u)
  IN /\ submitted[u].all < MaxSubmits
     /\ u \notin server.penalised
     /\ l # NoLobby => server.game[l] # "none"
     /\ server' = IF InQueue(left, u) \/ InWaiting(left, u) THEN RemovePlayer(left, u) ELSE left
     /\ submitted' = [submitted EXCEPT ![u].pending = @ + 1, ![u].all = @ + 1]
     /\ UNCHANGED lastSocket

\* The deck is there: into the queue (enterQueue), if it is valid.
EnterQueue(u) ==
  /\ submitted[u].pending > 0
  /\ submitted' = [submitted EXCEPT ![u].pending = @ - 1]
  /\ server' \in {server, AddPlayer(server, u, NoSocket)}
  /\ UNCHANGED lastSocket

\* Whoever connects to a quick lobby, also during its game or after it, may ask for
\* another match from there.
ListenForRequeue(s, u, socket) == [s EXCEPT !.listeners[<<u, socket>>] = @ \cup {"requeue"}]

\* onConnectionAsync of a user who has a seat, or else an entry in the queue.
ConnectToLobby(u, socket) ==
  LET l == server.userLobbyMap[u]
      opened == [server EXCEPT !.open = @ \cup {<<u, socket>>}]
  IN /\ l # NoLobby
     /\ server' =
          IF l \notin server.lobbies THEN Unmap(server, u)
          ELSE IF u \notin server.users[l] /\ Cardinality(server.users[l]) >= 2
          THEN Unmap(opened, u)
          ELSE RegisterDisconnect(ListenForRequeue(AddLobbyUser(opened, l, u, socket), u, socket),
                                  u, socket)

ConnectToQueue(u, socket) ==
  /\ server.userLobbyMap[u] = NoLobby
  /\ InQueue(server, u) \/ InWaiting(server, u)
  /\ LET old == IF InQueue(server, u)
                THEN (CHOOSE e \in server.queue : e.user = u).socket ELSE NoSocket
         replaced == ReplaceSocket(server, u, old)
     IN server' = ConnectPlayer([replaced EXCEPT !.open = @ \cup {<<u, socket>>},
                                                 !.listeners[<<u, socket>>] = @ \cup {"queue"}],
                                u, socket)

Connect(u) ==
  LET socket == lastSocket[u] + 1
  IN /\ lastSocket[u] < MaxSockets
     /\ ConnectToLobby(u, socket) \/ ConnectToQueue(u, socket)
     /\ lastSocket' = [lastSocket EXCEPT ![u] = socket]
     /\ UNCHANGED submitted

\* A socket closes, because the player leaves (manualDisconnect) or the connection
\* is lost; each of its handlers runs.
Disconnect(u, socket, manual) ==
  /\ <<u, socket>> \in server.open
  /\ LET closed == [server EXCEPT !.open = @ \ {<<u, socket>>}]
         heard == server.listeners[<<u, socket>>]
         first == IF "queue" \in heard THEN OnSocketDisconnected(closed, u, socket, "queue", manual)
                  ELSE closed
     IN server' = IF "default" \in heard
                  THEN OnSocketDisconnected(first, u, socket, "default", manual)
                  ELSE first
  /\ UNCHANGED <<lastSocket, submitted>>

\* The client asks for another match.
Requeue(u, socket) ==
  /\ <<u, socket>> \in server.open
  /\ "requeue" \in server.listeners[<<u, socket>>]
  /\ server' = RequeueUser(server, u, socket)
  /\ UNCHANGED <<lastSocket, submitted>>

\* matchmakeQueuePlayersAsync: a lobby for two queued players.
SetupQueueSocket(s, l, e) ==
  [AddLobbyUser(s, l, e.user, e.socket) EXCEPT !.listeners[<<e.user, e.socket>>] = @ \cup {"queue"}]

MatchmakeQueuePlayers(e1, e2) ==
  LET l == server.created + 1
      taken == [server EXCEPT !.queue = @ \ {e1, e2}, !.created = l, !.lobbies = @ \cup {l},
                              !.users[l] = {e1.user, e2.user},
                              !.userLobbyMap[e1.user] = l, !.userLobbyMap[e2.user] = l]
  IN /\ server.created < MaxLobbies
     /\ e1.user # e2.user
     /\ server' = SetupQueueSocket(SetupQueueSocket(taken, l, e1), l, e2)
     /\ UNCHANGED <<lastSocket, submitted>>

-----------------------------------------------------------------------------
(* Timers and the game *)

EveryoneConnected(s, l) == Cardinality(s.users[l]) = 2 /\ s.away[l] = {}

\* The game starts: both players get the disconnect handler of a game.
StartGame(s, l) ==
  [s EXCEPT !.game[l] = "playing", !.countdown[l] = Over,
            !.listeners = [c \in Users \X SocketIds |->
               IF c[1] \in s.users[l] /\ s.socketOf[l][c[1]] = c[2]
               THEN (s.listeners[c] \ DisconnectListeners) \cup {"default"}
               ELSE s.listeners[c]]]

\* quickLobbyCountdownAsync: "Starts in 5" to "Starts in 0", then a check a second
\* whether both players are there; the start may fail (matchmakingFailed).
QuickLobbyCountdown(l) ==
  /\ server.countdown[l] \in Counting .. LastCheck
  /\ server' \in
       IF server.countdown[l] = Counting THEN {[server EXCEPT !.countdown[l] = @ + 1]}
       ELSE IF EveryoneConnected(server, l) THEN {StartGame(server, l), RemoveLobby(server, l)}
       ELSE IF server.countdown[l] < LastCheck THEN {[server EXCEPT !.countdown[l] = @ + 1]}
       ELSE {RemoveLobby(server, l)}
  /\ UNCHANGED <<lastSocket, submitted>>

\* The two seconds of handleMatchmakingDisconnect are over.  One player at most is
\* left by then.
RequeueWhoIsLeft(l) ==
  /\ l \in server.requeues
  /\ LET s == [server EXCEPT !.requeues = @ \ {l}]
     IN IF s.users[l] = {} THEN server' = RemoveLobby(s, l)
        ELSE \E u \in s.users[l] :
               server' = RemoveLobby(RequeueUser(s, u, s.socketOf[l][u]), l)
  /\ UNCHANGED <<lastSocket, submitted>>

GraceEnds(t) ==
  /\ t \in server.graces
  /\ server' = GraceOver([server EXCEPT !.graces = @ \ {t}], t)
  /\ UNCHANGED <<lastSocket, submitted>>

PenaltyEnds(u) ==
  /\ u \in server.penalised
  /\ server' = [server EXCEPT !.penalised = @ \ {u}]
  /\ UNCHANGED <<lastSocket, submitted>>

GameEnds(l) ==
  /\ server.game[l] = "playing"
  /\ server' = [server EXCEPT !.game[l] = "over"]
  /\ UNCHANGED <<lastSocket, submitted>>

\* A player whose action timer has run out is thrown out (userTimeoutDisconnect);
\* the disconnect handlers see forceDisconnect and do nothing.
UserTimeoutDisconnect(l, u) ==
  /\ server.game[l] # "none" /\ u \in server.users[l]
  /\ server' = HandleIntentionalDisconnect(
                 [server EXCEPT !.open = @ \ {<<u, server.socketOf[l][u]>>}], u, l)
  /\ UNCHANGED <<lastSocket, submitted>>

Timer ==
  \/ \E l \in Lobbies : QuickLobbyCountdown(l) \/ RequeueWhoIsLeft(l)
  \/ \E t \in server.graces : GraceEnds(t)
  \/ \E u \in Users : PenaltyEnds(u)

QuickMatchNext ==
  \/ \E u \in Users :
       \/ SubmitQueue(u) \/ EnterQueue(u) \/ Connect(u)
       \/ \E socket \in SocketIds :
            \/ \E manual \in BOOLEAN : Disconnect(u, socket, manual)
            \/ Requeue(u, socket)
  \/ \E e1, e2 \in server.queue : MatchmakeQueuePlayers(e1, e2)
  \/ \E l \in Lobbies : GameEnds(l) \/ \E u \in Users : UserTimeoutDisconnect(l, u)
  \/ Timer

\* A timer that is set fires.  A socket sets one per handler, and closes once.
GraceOfSocketEnds(u, socket) ==
  \E t \in server.graces : t.user = u /\ t.socket = socket /\ GraceEnds(t)

QuickMatchFairness ==
  /\ \A l \in Lobbies : WF_quickMatchVars(QuickLobbyCountdown(l)) /\ WF_quickMatchVars(RequeueWhoIsLeft(l))
  /\ \A u \in Users, socket \in SocketIds : WF_quickMatchVars(GraceOfSocketEnds(u, socket))

QuickMatchSpec == QuickMatchInit /\ [][QuickMatchNext]_quickMatchVars /\ QuickMatchFairness

-----------------------------------------------------------------------------
(* What must hold of matchmaking *)

\* The variables have their types; a lobby about to requeue has lost a player.
QuickMatchTypeOK ==
  /\ server \in ServerStates
  /\ lastSocket \in [Users -> 0 .. MaxSockets]
  /\ submitted \in [Users -> [pending : 0 .. MaxSubmits, all : 0 .. MaxSubmits]]
  /\ \A l \in server.requeues : \A u, v \in server.users[l] : u = v

\* The user map and the lobbies agree, whatever order players leave, drop, come back
\* and are matched again in: a user is registered in the one lobby they have a seat
\* in, and nobody is left registered in a lobby that is gone.
SeatsMatchUserLobbyMap ==
  \A u \in Users, l \in Lobbies :
    server.userLobbyMap[u] = l <=> u \in server.users[l] /\ l \in server.lobbies

\* Nobody is both in a lobby and among those who may be matched: every way into the
\* queue has given up the seat, although the check of a request to enter it is made
\* before its deck is fetched.
QueuedHaveNoSeat ==
  \A u \in Users : InQueue(server, u) => server.userLobbyMap[u] = NoLobby

\* A player is in the queue or waiting to connect to it, not both, and once: whatever
\* calls of addPlayer, connectPlayer and disconnectPlayer follow each other.
OneEntryEach ==
  /\ \A u \in Users : ~(InQueue(server, u) /\ InWaiting(server, u))
  /\ \A e, f \in server.queue : e.user = f.user => e = f
  /\ \A e, f \in server.waiting : e.user = f.user => e = f

\* A player who can be matched has no seat in a lobby, and has one entry; only an entry
\* that waits for its player may be left beside a seat.
OnePlaceEach == QueuedHaveNoSeat /\ OneEntryEach

\* The player is back on another socket than the one the timer waits for.
IsBack(t) ==
  \/ \E e \in server.queue : e.user = t.user /\ e.socket # t.socket
  \/ \E l \in Lobbies : t.user \in server.users[l] /\ server.socketOf[l][t.user] # t.socket

KeepsPlace(u) ==
  /\ server'.userLobbyMap[u] = server.userLobbyMap[u]
  /\ InQueue(server', u) <=> InQueue(server, u)

\* A player who comes back in time keeps seat and place in the queue: the timer set
\* for the lost socket finds it replaced, even if the next one was lost as well.
ReturnedKeepTheirPlace ==
  [][\A t \in server.graces \ server'.graces :
       IsBack(t) /\ GraceEnds(t) => KeepsPlace(t.user)]_quickMatchVars

\* Whoever can be matched is there: the entry of a player whose socket is closed
\* waits for them (QueueHandler.spec.ts:154, keeps a disconnected player out of
\* matching without losing the original search context).
QueuedAreConnected == \A e \in server.queue : <<e.user, e.socket>> \in server.open

\* Every quick lobby comes to a game or to an end; no player waits in one for ever.
QuickLobbiesEnd ==
  \A l \in Lobbies : l \in server.lobbies ~> l \notin server.lobbies \/ server.game[l] # "none"
=============================================================================
