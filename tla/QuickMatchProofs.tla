-------------------------- MODULE QuickMatchProofs --------------------------
(***************************************************************************)
(* Seats, registrations and queue entries agree, for any number of users,  *)
(* connections, lobbies and requests.                                      *)
(*                                                                         *)
(* Whatever the server's functions do is said of a state s of the server:  *)
(* ServerInv(s) is kept by each of them, on the conditions under which the *)
(* others call it, and an action is a composition of them.  Giving up a    *)
(* seat takes two of them (the map entry first, then the lobby's), between *)
(* which ServerInv does not hold; they are taken together.                 *)
(***************************************************************************)
EXTENDS QuickMatch, TLAPS

SeatInv(s) ==
  \A u \in Users, l \in Lobbies : s.userLobbyMap[u] = l <=> u \in s.users[l]

LobbyInv(s) ==
  /\ \A l \in Lobbies : s.users[l] # {} => l \in s.lobbies
  /\ \A l \in s.lobbies \cup s.requeues : l <= s.created
  /\ \A l \in Lobbies : \A u, v, w \in s.users[l] : u = v \/ v = w \/ u = w
  /\ \A l \in s.requeues : \A u, v \in s.users[l] : u = v

EntryInv(s) ==
  /\ \A u \in Users : ~(InQueue(s, u) /\ InWaiting(s, u))
  /\ \A e, f \in s.queue : e.user = f.user => e = f
  /\ \A e, f \in s.waiting : e.user = f.user => e = f
  /\ \A u \in Users : InQueue(s, u) => s.userLobbyMap[u] = NoLobby

ServerInv(s) == s \in ServerStates /\ SeatInv(s) /\ LobbyInv(s) /\ EntryInv(s)

\* s and t differ in nothing that SeatInv and LobbyInv speak of.
SameSeats(s, t) ==
  /\ t.userLobbyMap = s.userLobbyMap /\ t.lobbies = s.lobbies /\ t.created = s.created
  /\ t.users = s.users /\ t.requeues = s.requeues

SameEntries(s, t) == t.queue = s.queue /\ t.waiting = s.waiting

LEMMA LobbyNumbers == Lobbies \subseteq Nat \ {0} /\ NoLobby \notin Lobbies /\ NoSocket \notin SocketIds
BY QuickMatchAssumption DEF Lobbies, NoLobby, NoSocket, SocketIds

LEMMA CountdownNumbers == Off = 0 /\ Over \in Nat /\ LastCheck \in Nat /\ Off \in Off .. Over
                          /\ Counting \in Nat /\ Counting < LastCheck /\ LastCheck < Over
BY QuickMatchAssumption DEF Off, Over, LastCheck, Counting

LEMMA SameInv ==
  ASSUME NEW s, NEW t, ServerInv(s), t \in ServerStates, SameSeats(s, t), SameEntries(s, t)
  PROVE  ServerInv(t)
<1>1. SeatInv(t) /\ LobbyInv(t)
  BY DEF ServerInv, SeatInv, LobbyInv, SameSeats
<1>2. EntryInv(t)
  BY DEF ServerInv, EntryInv, SameSeats, SameEntries, InQueue, InWaiting
<1> QED BY <1>1, <1>2 DEF ServerInv

-----------------------------------------------------------------------------
(* QueueHandler *)

LEMMA RemovePlayerInv ==
  ASSUME NEW s, ServerInv(s), NEW u \in Users
  PROVE  /\ ServerInv(RemovePlayer(s, u))
         /\ ~InQueue(RemovePlayer(s, u), u) /\ ~InWaiting(RemovePlayer(s, u), u)
         /\ SameSeats(s, RemovePlayer(s, u))
         /\ RemovePlayer(s, u).queue \subseteq s.queue
<1> DEFINE t == RemovePlayer(s, u)
<1>1. t \in ServerStates /\ SameSeats(s, t)
  BY ZenonT(60) DEF ServerInv, ServerStates, RemovePlayer, SameSeats
<1>2. /\ t.queue \subseteq s.queue /\ t.waiting \subseteq s.waiting
  BY DEF ServerInv, ServerStates, RemovePlayer
<1>3. ~InQueue(t, u) /\ ~InWaiting(t, u)
  BY DEF ServerInv, ServerStates, RemovePlayer, InQueue, InWaiting, EntryInv
<1>4. SeatInv(t) /\ LobbyInv(t)
  BY <1>1 DEF ServerInv, SeatInv, LobbyInv, SameSeats
<1>5. EntryInv(t)
  BY <1>1, <1>2 DEF ServerInv, EntryInv, SameSeats, InQueue, InWaiting
<1> QED BY <1>1, <1>2, <1>3, <1>4, <1>5 DEF ServerInv

LEMMA NewQueued ==
  ASSUME NEW s \in ServerStates, NEW e \in [user : Users, socket : SocketIds],
         NEW t, t = [s EXCEPT !.queue = @ \cup {e}]
  PROVE  /\ t \in ServerStates /\ SameSeats(s, t)
         /\ t.queue = s.queue \cup {e} /\ t.waiting = s.waiting
<1>1. s.queue \cup {e} \in SUBSET [user : Users, socket : SocketIds]
  BY DEF ServerStates
<1>2. t \in ServerStates
  BY <1>1 DEF ServerStates
<1>3. SameSeats(s, t) /\ t.queue = s.queue \cup {e} /\ t.waiting = s.waiting
  BY DEF ServerStates, SameSeats
<1> QED BY <1>2, <1>3

LEMMA NewWaiting ==
  ASSUME NEW s \in ServerStates, NEW e \in [user : Users, lost : SocketIds \cup {NoSocket}],
         NEW t, t = [s EXCEPT !.waiting = @ \cup {e}]
  PROVE  /\ t \in ServerStates /\ SameSeats(s, t)
         /\ t.queue = s.queue /\ t.waiting = s.waiting \cup {e}
<1>1. s.waiting \cup {e} \in SUBSET [user : Users, lost : SocketIds \cup {NoSocket}]
  BY DEF ServerStates
<1>2. t \in ServerStates
  BY <1>1 DEF ServerStates
<1>3. SameSeats(s, t) /\ t.queue = s.queue /\ t.waiting = s.waiting \cup {e}
  BY DEF ServerStates, SameSeats
<1> QED BY <1>2, <1>3

LEMMA ConnectPlayerInv ==
  ASSUME NEW s, ServerInv(s), NEW u \in Users, NEW socket \in SocketIds,
         s.userLobbyMap[u] = NoLobby
  PROVE  ServerInv(ConnectPlayer(s, u, socket)) /\ SameSeats(s, ConnectPlayer(s, u, socket))
<1> DEFINE r == RemovePlayer(s, u)
           e == [user |-> u, socket |-> socket]
           t == ConnectPlayer(s, u, socket)
<1>1. ServerInv(r) /\ ~InQueue(r, u) /\ ~InWaiting(r, u) /\ SameSeats(s, r)
  BY RemovePlayerInv
<1> HIDE DEF r
<1>2. t = [r EXCEPT !.queue = @ \cup {e}] /\ e \in [user : Users, socket : SocketIds]
  BY DEF ConnectPlayer, r
<1>e. e.user = u
  OBVIOUS
<1> HIDE DEF t, e
<1>3. t \in ServerStates /\ SameSeats(r, t) /\ t.queue = r.queue \cup {e} /\ t.waiting = r.waiting
  BY <1>1, <1>2, NewQueued DEF ServerInv
<1>4. SeatInv(t) /\ LobbyInv(t)
  BY <1>1, <1>3 DEF ServerInv, SeatInv, LobbyInv, SameSeats
<1>5. EntryInv(t)
  BY <1>1, <1>3, <1>e DEF ServerInv, EntryInv, SameSeats, InQueue, InWaiting
<1> QED BY <1>1, <1>3, <1>4, <1>5 DEF ServerInv, SameSeats, t

LEMMA AddPlayerInv ==
  ASSUME NEW s, ServerInv(s), NEW u \in Users, NEW socket \in SocketIds \cup {NoSocket},
         socket = NoSocket \/ s.userLobbyMap[u] = NoLobby
  PROVE  ServerInv(AddPlayer(s, u, socket)) /\ SameSeats(s, AddPlayer(s, u, socket))
<1> DEFINE q == IF InQueue(s, u) THEN RemovePlayer(s, u) ELSE s
           r == IF InWaiting(q, u) THEN RemovePlayer(q, u) ELSE q
           e == [user |-> u, lost |-> NoSocket]
           a == [r EXCEPT !.waiting = @ \cup {e}]
<1>1. ServerInv(q) /\ ~InQueue(q, u) /\ SameSeats(s, q)
  BY RemovePlayerInv DEF SameSeats
<1>2. ServerInv(r) /\ ~InQueue(r, u) /\ ~InWaiting(r, u) /\ SameSeats(q, r)
  <2> HIDE DEF q
  <2> QED BY <1>1, RemovePlayerInv DEF SameSeats
<1> HIDE DEF r
<1>3. a \in ServerStates /\ SameSeats(r, a) /\ a.queue = r.queue /\ a.waiting = r.waiting \cup {e}
  BY <1>2, NewWaiting, e \in [user : Users, lost : SocketIds \cup {NoSocket}] DEF ServerInv
<1> HIDE DEF a
<1>4. SeatInv(a) /\ LobbyInv(a)
  BY <1>2, <1>3 DEF ServerInv, SeatInv, LobbyInv, SameSeats
<1>5. EntryInv(a)
  BY <1>2, <1>3 DEF ServerInv, EntryInv, SameSeats, InQueue, InWaiting
<1>6. ServerInv(a) /\ SameSeats(s, a)
  BY <1>1, <1>2, <1>3, <1>4, <1>5 DEF ServerInv, SameSeats
<1>7. AddPlayer(s, u, socket) = IF socket = NoSocket THEN a ELSE ConnectPlayer(a, u, socket)
  BY DEF AddPlayer, a, r
<1>8. CASE socket = NoSocket
  BY <1>6, <1>7, <1>8
<1>9. CASE socket # NoSocket
  BY <1>6, <1>7, <1>9, ConnectPlayerInv DEF SameSeats
<1> QED BY <1>8, <1>9

LEMMA DisconnectPlayerInv ==
  ASSUME NEW s, ServerInv(s), NEW u \in Users, NEW socket \in SocketIds
  PROVE  ServerInv(DisconnectPlayer(s, u, socket))
<1> DEFINE r == RemovePlayer(s, u)
           e == [user |-> u, lost |-> socket]
           t == [r EXCEPT !.waiting = @ \cup {e}]
<1>1. ServerInv(r) /\ ~InQueue(r, u) /\ ~InWaiting(r, u) /\ SameSeats(s, r)
  BY RemovePlayerInv
<1> HIDE DEF r
<1>2. t \in ServerStates /\ SameSeats(r, t) /\ t.queue = r.queue /\ t.waiting = r.waiting \cup {e}
  BY <1>1, NewWaiting, e \in [user : Users, lost : SocketIds \cup {NoSocket}] DEF ServerInv
<1>3. SeatInv(t) /\ LobbyInv(t)
  BY <1>1, <1>2 DEF ServerInv, SeatInv, LobbyInv, SameSeats
<1>4. EntryInv(t)
  BY <1>1, <1>2 DEF ServerInv, EntryInv, SameSeats, InQueue, InWaiting
<1> QED BY <1>1, <1>2, <1>3, <1>4 DEF ServerInv, DisconnectPlayer, r

-----------------------------------------------------------------------------
(* Seats *)

LEMMA LobbyOfIsRegistered ==
  ASSUME NEW s, ServerInv(s), NEW u \in Users
  PROVE  /\ LobbyOf(s, u) = s.userLobbyMap[u]
         /\ s.userLobbyMap[u] \in Lobbies \cup {NoLobby}
<1>1. s.userLobbyMap[u] \in Lobbies \cup {NoLobby}
  BY DEF ServerInv, ServerStates
<1>2. s.userLobbyMap[u] \in Lobbies => s.userLobbyMap[u] \in s.lobbies
  BY DEF ServerInv, SeatInv, LobbyInv
<1> QED BY <1>1, <1>2 DEF LobbyOf

\* What giving up the seat in l changes.
Left(s, t, u, l) ==
  /\ t.userLobbyMap = [s.userLobbyMap EXCEPT ![u] = NoLobby]
  /\ t.users = [s.users EXCEPT ![l] = @ \ {u}]
  /\ t.lobbies = s.lobbies \/ (t.lobbies = s.lobbies \ {l} /\ t.users[l] = {})
  /\ t.created = s.created /\ t.requeues = s.requeues

LEMMA UnmapTyped ==
  ASSUME NEW s \in ServerStates, NEW u \in Users
  PROVE  /\ Unmap(s, u) \in ServerStates
         /\ Unmap(s, u).userLobbyMap = [s.userLobbyMap EXCEPT ![u] = NoLobby]
         /\ Unmap(s, u).users = s.users /\ Unmap(s, u).lobbies = s.lobbies
         /\ Unmap(s, u).created = s.created /\ Unmap(s, u).requeues = s.requeues
         /\ SameEntries(s, Unmap(s, u))
BY DEF ServerStates, Unmap, SameEntries

LEMMA RemoveUserTyped ==
  ASSUME NEW s \in ServerStates, NEW u \in Users, NEW l \in Lobbies
  PROVE  /\ RemoveUser(s, l, u) \in ServerStates
         /\ RemoveUser(s, l, u).userLobbyMap = s.userLobbyMap
         /\ RemoveUser(s, l, u).users = [s.users EXCEPT ![l] = @ \ {u}]
         /\ RemoveUser(s, l, u).lobbies = s.lobbies /\ RemoveUser(s, l, u).created = s.created
         /\ RemoveUser(s, l, u).requeues = s.requeues
         /\ SameEntries(s, RemoveUser(s, l, u))
<1>1. CASE u \notin s.users[l]
  BY <1>1 DEF ServerStates, RemoveUser, SameEntries
<1>2. CASE u \in s.users[l]
  BY ZenonT(60), <1>2 DEF ServerStates, RemoveUser, SameEntries
<1> QED BY <1>1, <1>2

LEMMA CleanLobbyTyped ==
  ASSUME NEW s \in ServerStates, NEW l \in Lobbies
  PROVE  /\ CleanLobby(s, l) \in ServerStates
         /\ CleanLobby(s, l).userLobbyMap = s.userLobbyMap
         /\ CleanLobby(s, l).users = [s.users EXCEPT ![l] = {}]
         /\ CleanLobby(s, l).lobbies = s.lobbies /\ CleanLobby(s, l).created = s.created
         /\ CleanLobby(s, l).requeues = s.requeues
         /\ SameEntries(s, CleanLobby(s, l))
<1> DEFINE t == CleanLobby(s, l)
<1>1. Off \in Off .. Over
  BY CountdownNumbers
<1>2. /\ [s.users EXCEPT ![l] = {}] \in [Lobbies -> SUBSET Users]
      /\ [s.away EXCEPT ![l] = {}] \in [Lobbies -> SUBSET Users]
      /\ [s.socketOf EXCEPT ![l] = [u \in Users |-> NoSocket]] \in [Lobbies -> [Users -> SocketIds \cup {NoSocket}]]
      /\ [s.game EXCEPT ![l] = "none"] \in [Lobbies -> {"none", "playing", "over"}]
      /\ [s.countdown EXCEPT ![l] = Off] \in [Lobbies -> Off .. Over]
  BY <1>1 DEF ServerStates
<1>3. t \in ServerStates
  BY <1>2 DEF ServerStates, CleanLobby
<1>4. /\ t.userLobbyMap = s.userLobbyMap /\ t.users = [s.users EXCEPT ![l] = {}]
      /\ t.lobbies = s.lobbies /\ t.created = s.created /\ t.requeues = s.requeues
      /\ SameEntries(s, t)
  BY DEF ServerStates, CleanLobby, SameEntries
<1> QED BY <1>3, <1>4

LEMMA LeaveLobbyInv ==
  ASSUME NEW s, ServerInv(s), NEW u \in Users, NEW l, l = s.userLobbyMap[u]
  PROVE  LET t == RemoveUserMaybeCleanupLobby(Unmap(s, u), l, u)
         IN /\ ServerInv(t) /\ SameEntries(s, t)
            /\ t.userLobbyMap = [s.userLobbyMap EXCEPT ![u] = NoLobby]
            /\ \A m \in Lobbies : t.users[m] = s.users[m] \ {u}
<1> DEFINE n == Unmap(s, u)
           r == RemoveUser(n, l, u)
           c == CleanLobby(r, l)
           d == [c EXCEPT !.lobbies = @ \ {l}]
           t == RemoveUserMaybeCleanupLobby(n, l, u)
<1>1. l \in Lobbies \cup {NoLobby} /\ s \in ServerStates
  BY LobbyOfIsRegistered DEF ServerInv
<1>2. CASE l = NoLobby
  <2>1. t = n
    BY <1>2 DEF RemoveUserMaybeCleanupLobby
  <2>2. n = s
    BY <1>1, <1>2 DEF Unmap, ServerStates
  <2>3. \A m \in Lobbies : u \notin s.users[m]
    BY <1>2, LobbyNumbers DEF ServerInv, SeatInv
  <2>4. s.userLobbyMap = [s.userLobbyMap EXCEPT ![u] = NoLobby] /\ \A m \in Lobbies : s.users[m] = s.users[m] \ {u}
    BY <1>1, <1>2, <2>3 DEF ServerStates
  <2> QED BY <2>1, <2>2, <2>4 DEF SameEntries
<1>3. CASE l \in Lobbies
  <2>1. /\ n \in ServerStates /\ SameEntries(s, n)
        /\ n.userLobbyMap = [s.userLobbyMap EXCEPT ![u] = NoLobby]
        /\ n.users = s.users /\ n.lobbies = s.lobbies
        /\ n.created = s.created /\ n.requeues = s.requeues
    BY <1>1, UnmapTyped
  <2> HIDE DEF n
  <2>2. /\ r \in ServerStates /\ SameEntries(n, r) /\ r.userLobbyMap = n.userLobbyMap
        /\ r.users = [n.users EXCEPT ![l] = @ \ {u}]
        /\ r.lobbies = n.lobbies /\ r.created = n.created /\ r.requeues = n.requeues
    BY SMTT(60), <1>3, <2>1, RemoveUserTyped
  <2> HIDE DEF r
  <2>3. /\ c \in ServerStates /\ SameEntries(r, c) /\ c.userLobbyMap = r.userLobbyMap
        /\ c.users = [r.users EXCEPT ![l] = {}]
        /\ c.lobbies = r.lobbies /\ c.created = r.created /\ c.requeues = r.requeues
    BY <1>3, <2>2, CleanLobbyTyped
  <2> HIDE DEF c
  <2>4. /\ d \in ServerStates /\ SameEntries(c, d) /\ d.userLobbyMap = c.userLobbyMap
        /\ d.users = c.users /\ d.lobbies = c.lobbies \ {l}
        /\ d.created = c.created /\ d.requeues = c.requeues
    BY ZenonT(60), <1>3, <2>3 DEF ServerStates, SameEntries
  <2> HIDE DEF d
  <2>5. t = IF r.users[l] # {} THEN r ELSE d
    BY <1>3, LobbyNumbers DEF RemoveUserMaybeCleanupLobby, r, c, d
  <2>6. t \in ServerStates /\ SameEntries(s, t) /\ Left(s, t, u, l)
    <3>1. CASE r.users[l] # {}
      BY <2>1, <2>2, <2>5, <3>1 DEF SameEntries, Left
    <3>2. CASE r.users[l] = {}
      <4>1. [r.users EXCEPT ![l] = {}] = r.users /\ r.users[l] = {}
        BY <1>3, <2>2, <3>2 DEF ServerStates
      <4>2. t = d
        BY <2>5, <3>2
      <4> HIDE DEF t
      <4>3. d.users = [s.users EXCEPT ![l] = @ \ {u}] /\ d.users[l] = {}
        BY <2>1, <2>2, <2>3, <2>4, <4>1
      <4>4. d.lobbies = s.lobbies \ {l}
        BY <2>1, <2>2, <2>3, <2>4
      <4>5. Left(s, t, u, l)
        BY <2>1, <2>2, <2>3, <2>4, <4>2, <4>3, <4>4 DEF Left
      <4> QED BY <2>1, <2>2, <2>3, <2>4, <4>2, <4>5 DEF SameEntries
    <3> QED BY <3>1, <3>2
  <2> HIDE DEF t
  <2>7. s.users \in [Lobbies -> SUBSET Users] /\ s.userLobbyMap \in [Users -> Lobbies \cup {NoLobby}]
    BY <1>1 DEF ServerStates
  <2>8. \A m \in Lobbies : t.users[m] = s.users[m] \ {u}
    BY <1>3, <2>6, <2>7 DEF Left, ServerInv, SeatInv
  <2>9. \A v \in Users : t.userLobbyMap[v] = IF v = u THEN NoLobby ELSE s.userLobbyMap[v]
    BY <2>6, <2>7 DEF Left
  <2>10. SeatInv(t)
    BY <2>8, <2>9, LobbyNumbers DEF ServerInv, SeatInv
  <2>11. LobbyInv(t)
    <3>1. \A m \in Lobbies : t.users[m] # {} => m \in t.lobbies
      BY <2>6, <2>8 DEF ServerInv, LobbyInv, Left
    <3>2. \A m \in t.lobbies \cup t.requeues : m <= t.created
      BY <2>6 DEF ServerInv, LobbyInv, Left
    <3>3. \A m \in t.requeues : m \in Lobbies
      BY <2>6 DEF ServerStates
    <3> QED BY <3>1, <3>2, <3>3, <2>6, <2>8 DEF ServerInv, LobbyInv, Left
  <2>12. EntryInv(t)
    BY <2>6, <2>9 DEF ServerInv, EntryInv, SameEntries, InQueue, InWaiting
  <2> QED BY <2>6, <2>8, <2>10, <2>11, <2>12 DEF ServerInv, Left, t, n
<1> QED BY <1>1, <1>2, <1>3

LEMMA RemoveLobbyInv ==
  ASSUME NEW s, ServerInv(s), NEW l \in Lobbies
  PROVE  ServerInv(RemoveLobby(s, l))
<1> DEFINE map == [u \in Users |-> IF u \in s.users[l] THEN NoLobby ELSE s.userLobbyMap[u]]
           n == [s EXCEPT !.lobbies = @ \ {l}, !.userLobbyMap = map]
           t == CleanLobby(n, l)
<1>1. s \in ServerStates /\ s.users \in [Lobbies -> SUBSET Users] /\ s.requeues \subseteq Lobbies
  BY DEF ServerInv, ServerStates
<1>2. map \in [Users -> Lobbies \cup {NoLobby}]
  BY <1>1 DEF ServerStates
<1> HIDE DEF map
<1>3. /\ n \in ServerStates /\ SameEntries(s, n) /\ n.userLobbyMap = map
      /\ n.lobbies = s.lobbies \ {l} /\ n.users = s.users
      /\ n.created = s.created /\ n.requeues = s.requeues
  BY <1>1, <1>2 DEF ServerStates, SameEntries
<1>4. RemoveLobby(s, l) = t
  BY DEF RemoveLobby, map
<1> HIDE DEF n
<1>5. /\ t \in ServerStates /\ SameEntries(n, t) /\ t.userLobbyMap = map
      /\ t.users = [s.users EXCEPT ![l] = {}]
      /\ t.lobbies = s.lobbies \ {l} /\ t.created = s.created /\ t.requeues = s.requeues
  BY <1>3, CleanLobbyTyped
<1> HIDE DEF t
<1>6. \A m \in Lobbies : t.users[m] = IF m = l THEN {} ELSE s.users[m]
  BY <1>1, <1>5
<1>7. \A u \in Users : t.userLobbyMap[u] = IF s.userLobbyMap[u] = l THEN NoLobby ELSE s.userLobbyMap[u]
  BY <1>5 DEF map, ServerInv, SeatInv
<1>8. SeatInv(t)
  BY <1>6, <1>7, LobbyNumbers DEF ServerInv, SeatInv
<1>9. LobbyInv(t)
  BY <1>1, <1>5, <1>6 DEF ServerInv, LobbyInv
<1>10. EntryInv(t)
  BY <1>3, <1>5, <1>7 DEF ServerInv, EntryInv, SameEntries, InQueue, InWaiting
<1> QED BY <1>4, <1>5, <1>8, <1>9, <1>10 DEF ServerInv

-----------------------------------------------------------------------------
(* Sockets, countdowns and timers: none of them moves a seat or an entry *)

Unmoved(s, t) == t \in ServerStates /\ SameSeats(s, t) /\ SameEntries(s, t)

LEMMA UnmovedInv ==
  ASSUME NEW s, NEW t, ServerInv(s), Unmoved(s, t)
  PROVE  ServerInv(t)
BY SameInv DEF Unmoved

LEMMA UnmovedTwice ==
  ASSUME NEW r, NEW s, NEW t, Unmoved(r, s), Unmoved(s, t)
  PROVE  Unmoved(r, t)
BY DEF Unmoved, SameSeats, SameEntries

LEMMA OpenTyped ==
  ASSUME NEW s \in ServerStates, NEW open \in SUBSET (Users \X SocketIds),
         NEW listeners \in [Users \X SocketIds -> SUBSET Listeners]
  PROVE  Unmoved(s, [s EXCEPT !.open = open, !.listeners = listeners])
BY DEF ServerStates, Unmoved, SameSeats, SameEntries

LEMMA ListenersTyped ==
  ASSUME NEW s \in ServerStates, NEW listeners \in [Users \X SocketIds -> SUBSET Listeners]
  PROVE  Unmoved(s, [s EXCEPT !.listeners = listeners])
BY DEF ServerStates, Unmoved, SameSeats, SameEntries

LEMMA SocketsClose ==
  ASSUME NEW s \in ServerStates, NEW open \in SUBSET (Users \X SocketIds)
  PROVE  Unmoved(s, [s EXCEPT !.open = open])
BY DEF ServerStates, Unmoved, SameSeats, SameEntries

LEMMA ReplaceSocketMoves ==
  ASSUME NEW s \in ServerStates, NEW u \in Users, NEW old \in SocketIds \cup {NoSocket}
  PROVE  Unmoved(s, ReplaceSocket(s, u, old))
<1> DEFINE open == s.open \ {<<u, old>>}
           listeners == [s.listeners EXCEPT ![<<u, old>>] = @ \ DisconnectListeners]
<1>1. CASE old = NoSocket
  BY <1>1 DEF ReplaceSocket, Unmoved, SameSeats, SameEntries
<1>2. CASE old # NoSocket
  <2>1. /\ open \in SUBSET (Users \X SocketIds)
        /\ listeners \in [Users \X SocketIds -> SUBSET Listeners]
    BY DEF ServerStates
  <2>2. ReplaceSocket(s, u, old) = [s EXCEPT !.open = open, !.listeners = listeners]
    BY <1>2 DEF ReplaceSocket
  <2> HIDE DEF open, listeners
  <2>3. Unmoved(s, [s EXCEPT !.open = open, !.listeners = listeners])
    BY <2>1, OpenTyped
  <2> QED BY <2>2, <2>3
<1> QED BY <1>1, <1>2

LEMMA RegisterDisconnectMoves ==
  ASSUME NEW s \in ServerStates, NEW u \in Users, NEW socket \in SocketIds
  PROVE  Unmoved(s, RegisterDisconnect(s, u, socket))
<1>1. [s.listeners EXCEPT ![<<u, socket>>] = (@ \ DisconnectListeners) \cup {"default"}]
        \in [Users \X SocketIds -> SUBSET Listeners]
  BY DEF ServerStates, Listeners, DisconnectListeners
<1>2. RegisterDisconnect(s, u, socket)
        = [s EXCEPT !.listeners = [s.listeners EXCEPT ![<<u, socket>>] = (@ \ DisconnectListeners) \cup {"default"}]]
  BY DEF RegisterDisconnect
<1> QED BY ZenonT(60), <1>1, <1>2, ListenersTyped

LEMMA ListenForRequeueMoves ==
  ASSUME NEW s \in ServerStates, NEW u \in Users, NEW socket \in SocketIds
  PROVE  Unmoved(s, ListenForRequeue(s, u, socket))
<1>1. [s.listeners EXCEPT ![<<u, socket>>] = @ \cup {"requeue"}] \in [Users \X SocketIds -> SUBSET Listeners]
  BY DEF ServerStates, Listeners
<1>2. ListenForRequeue(s, u, socket)
        = [s EXCEPT !.listeners = [s.listeners EXCEPT ![<<u, socket>>] = @ \cup {"requeue"}]]
  BY DEF ListenForRequeue
<1> QED BY ZenonT(60), <1>1, <1>2, ListenersTyped

LEMMA SetUserDisconnectedMoves ==
  ASSUME NEW s \in ServerStates, NEW u \in Users, NEW l \in Lobbies, NEW socket \in SocketIds
  PROVE  Unmoved(s, SetUserDisconnected(s, l, u, socket))
<1>1. CASE u \in s.users[l] /\ s.socketOf[l][u] = socket
  <2>1. [s.away EXCEPT ![l] = @ \cup {u}] \in [Lobbies -> SUBSET Users]
    BY DEF ServerStates
  <2>2. SetUserDisconnected(s, l, u, socket) = [s EXCEPT !.away = [s.away EXCEPT ![l] = @ \cup {u}]]
    BY <1>1 DEF SetUserDisconnected
  <2> QED BY ZenonT(60), <2>1, <2>2 DEF ServerStates, Unmoved, SameSeats, SameEntries
<1>2. CASE ~(u \in s.users[l] /\ s.socketOf[l][u] = socket)
  BY <1>2 DEF SetUserDisconnected, Unmoved, SameSeats, SameEntries
<1> QED BY <1>1, <1>2

\* addLobbyUserAsync for somebody who has the seat.
LEMMA AddLobbyUserMoves ==
  ASSUME NEW s \in ServerStates, NEW l \in Lobbies, NEW u \in s.users[l], u \in Users,
         NEW socket \in SocketIds
  PROVE  Unmoved(s, AddLobbyUser(s, l, u, socket))
<1> DEFINE old == s.socketOf[l][u]
           r == IF old = socket THEN s ELSE ReplaceSocket(s, u, old)
           a == [r EXCEPT !.users[l] = @ \cup {u}, !.away[l] = @ \ {u}, !.socketOf[l][u] = socket]
           t == [a EXCEPT !.listeners[<<u, socket>>] = @ \cup {"requeue"},
                          !.countdown[l] = IF @ = Off THEN Counting ELSE @]
<1>1. old \in SocketIds \cup {NoSocket}
  BY DEF ServerStates
<1>2. Unmoved(s, r)
  BY <1>1, ReplaceSocketMoves DEF Unmoved, SameSeats, SameEntries
<1> HIDE DEF r
<1>3. /\ [r.users EXCEPT ![l] = @ \cup {u}] = r.users
      /\ [r.away EXCEPT ![l] = @ \ {u}] \in [Lobbies -> SUBSET Users]
      /\ [r.socketOf EXCEPT ![l] = [r.socketOf[l] EXCEPT ![u] = socket]]
           \in [Lobbies -> [Users -> SocketIds \cup {NoSocket}]]
  BY <1>2 DEF Unmoved, SameSeats, ServerStates
<1>4. Unmoved(r, a)
  BY ZenonT(60), <1>2, <1>3 DEF Unmoved, SameSeats, SameEntries, ServerStates
<1> HIDE DEF a
<1>5. /\ [a.listeners EXCEPT ![<<u, socket>>] = @ \cup {"requeue"}] \in [Users \X SocketIds -> SUBSET Listeners]
      /\ [a.countdown EXCEPT ![l] = IF @ = Off THEN Counting ELSE @] \in [Lobbies -> Off .. Over]
  BY <1>4, CountdownNumbers DEF Unmoved, ServerStates, Listeners
<1>6. Unmoved(a, t)
  BY <1>4, <1>5 DEF Unmoved, SameSeats, SameEntries, ServerStates
<1>7. AddLobbyUser(s, l, u, socket) \in {a, t}
  BY DEF AddLobbyUser, a, r
<1> QED BY <1>2, <1>4, <1>6, <1>7, UnmovedTwice

\* handleMatchmakingDisconnect, once the lobby has lost a player.
LEMMA HandleMatchmakingDisconnectInv ==
  ASSUME NEW s, ServerInv(s), NEW l \in Lobbies, l \in s.lobbies,
         \A u, v \in s.users[l] : u = v
  PROVE  ServerInv(HandleMatchmakingDisconnect(s, l))
<1> DEFINE countdown == [s.countdown EXCEPT ![l] = IF @ = Off THEN Off ELSE Over]
           t == [s EXCEPT !.countdown = countdown, !.requeues = @ \cup {l}]
<1>1. s \in ServerStates
  BY DEF ServerInv
<1>2. countdown \in [Lobbies -> Off .. Over]
  BY <1>1, CountdownNumbers DEF ServerStates
<1> HIDE DEF countdown
<1>3. /\ t \in ServerStates /\ SameEntries(s, t) /\ t.userLobbyMap = s.userLobbyMap
      /\ t.users = s.users /\ t.lobbies = s.lobbies /\ t.created = s.created
      /\ t.requeues = s.requeues \cup {l}
  BY ZenonT(60), <1>1, <1>2 DEF ServerStates, SameEntries
<1>4. HandleMatchmakingDisconnect(s, l) \in {s, t}
  BY DEF HandleMatchmakingDisconnect, countdown
<1> HIDE DEF t
<1>5. SeatInv(t) /\ LobbyInv(t)
  BY <1>3 DEF ServerInv, SeatInv, LobbyInv
<1>6. EntryInv(t)
  BY <1>3 DEF ServerInv, EntryInv, SameEntries, InQueue, InWaiting
<1> QED BY <1>3, <1>4, <1>5, <1>6 DEF ServerInv

LEMMA StartGameMoves ==
  ASSUME NEW s \in ServerStates, NEW l \in Lobbies
  PROVE  Unmoved(s, StartGame(s, l))
<1> DEFINE listeners ==
             [c \in Users \X SocketIds |->
                IF c[1] \in s.users[l] /\ s.socketOf[l][c[1]] = c[2]
                THEN (s.listeners[c] \ DisconnectListeners) \cup {"default"}
                ELSE s.listeners[c]]
<1>1. \A c \in Users \X SocketIds : s.listeners[c] \in SUBSET Listeners
  BY DEF ServerStates
<1>2. listeners \in [Users \X SocketIds -> SUBSET Listeners]
  BY <1>1 DEF Listeners, DisconnectListeners
<1>3. /\ [s.game EXCEPT ![l] = "playing"] \in [Lobbies -> {"none", "playing", "over"}]
      /\ [s.countdown EXCEPT ![l] = Over] \in [Lobbies -> Off .. Over]
  BY CountdownNumbers DEF ServerStates
<1>4. StartGame(s, l) = [s EXCEPT !.game = [s.game EXCEPT ![l] = "playing"],
                                  !.countdown = [s.countdown EXCEPT ![l] = Over],
                                  !.listeners = listeners]
  BY DEF StartGame
<1> HIDE DEF listeners
<1> QED BY ZenonT(60), <1>2, <1>3, <1>4 DEF Unmoved, ServerStates, SameSeats, SameEntries

-----------------------------------------------------------------------------
(* GameServer *)

LEMMA HandleIntentionalDisconnectInv ==
  ASSUME NEW s, ServerInv(s), NEW u \in Users, NEW l, l = s.userLobbyMap[u]
  PROVE  ServerInv(HandleIntentionalDisconnect(s, u, l))
<1>1. ServerInv(RemovePlayer(s, u)) /\ RemovePlayer(s, u).userLobbyMap = s.userLobbyMap
  BY RemovePlayerInv DEF SameSeats
<1> QED BY <1>1, LeaveLobbyInv DEF HandleIntentionalDisconnect

LEMMA RequeueUserInv ==
  ASSUME NEW s, ServerInv(s), NEW u \in Users, NEW socket \in SocketIds \cup {NoSocket}
  PROVE  ServerInv(RequeueUser(s, u, socket))
<1> DEFINE t == RemoveUserMaybeCleanupLobby(Unmap(s, u), LobbyOf(s, u), u)
<1>1. ServerInv(t) /\ t.userLobbyMap = [s.userLobbyMap EXCEPT ![u] = NoLobby]
  BY LobbyOfIsRegistered, LeaveLobbyInv
<1>2. t.userLobbyMap[u] = NoLobby
  BY <1>1 DEF ServerInv, ServerStates
<1> QED BY <1>1, <1>2, AddPlayerInv DEF RequeueUser

LEMMA OnSocketDisconnectedInv ==
  ASSUME NEW s, ServerInv(s), NEW u \in Users, NEW socket \in SocketIds,
         NEW kind \in DisconnectListeners, NEW manual \in BOOLEAN
  PROVE  ServerInv(OnSocketDisconnected(s, u, socket, kind, manual))
<1> DEFINE l == LobbyOf(s, u)
           seated == IF l = NoLobby THEN s ELSE SetUserDisconnected(s, l, u, socket)
           d == DisconnectPlayer(seated, u, socket)
           timer == [user |-> u, socket |-> socket, lobby |-> l, kind |-> kind]
           t == [d EXCEPT !.graces = @ \cup {timer}]
<1>1. l = s.userLobbyMap[u] /\ l \in Lobbies \cup {NoLobby}
  BY LobbyOfIsRegistered
<1>2. ServerInv(seated)
  BY <1>1, SetUserDisconnectedMoves, UnmovedInv DEF ServerInv
<1>3. timer \in GraceTimers
  BY <1>1 DEF GraceTimers
<1> HIDE DEF seated, timer
<1>4. ServerInv(d)
  BY <1>2, DisconnectPlayerInv
<1> HIDE DEF d
<1>5. Unmoved(d, t)
  BY ZenonT(60), <1>3, <1>4 DEF Unmoved, ServerInv, ServerStates, SameSeats, SameEntries
<1>6. ServerInv(t)
  BY <1>4, <1>5, UnmovedInv
<1>7. ServerInv(HandleIntentionalDisconnect(s, u, l))
  BY <1>1, HandleIntentionalDisconnectInv
<1>8. OnSocketDisconnected(s, u, socket, kind, manual) \in {s, HandleIntentionalDisconnect(s, u, l), t}
  BY DEF OnSocketDisconnected, t, d, seated, timer
<1> QED BY <1>6, <1>7, <1>8

\* The seat is given up, the lobby kept.
LEMMA SeatLost ==
  ASSUME NEW f, ServerInv(f), NEW u \in Users, NEW l \in Lobbies, u \in f.users[l],
         NEW r, r = RemoveUser(Unmap(f, u), l, u)
  PROVE  ServerInv(r) /\ l \in r.lobbies /\ \A v, w \in r.users[l] : v = w
<1>1. /\ Unmap(f, u) \in ServerStates /\ SameEntries(f, Unmap(f, u))
      /\ Unmap(f, u).userLobbyMap = [f.userLobbyMap EXCEPT ![u] = NoLobby]
      /\ Unmap(f, u).users = f.users /\ Unmap(f, u).lobbies = f.lobbies
      /\ Unmap(f, u).created = f.created /\ Unmap(f, u).requeues = f.requeues
  BY UnmapTyped DEF ServerInv
<1>2. /\ r \in ServerStates /\ SameEntries(f, r)
      /\ r.userLobbyMap = [f.userLobbyMap EXCEPT ![u] = NoLobby]
      /\ r.users = [f.users EXCEPT ![l] = @ \ {u}] /\ r.lobbies = f.lobbies
      /\ r.created = f.created /\ r.requeues = f.requeues
  BY <1>1, RemoveUserTyped DEF SameEntries
<1>3. /\ f.users \in [Lobbies -> SUBSET Users] /\ f.userLobbyMap \in [Users -> Lobbies \cup {NoLobby}]
      /\ f.userLobbyMap[u] = l /\ l \in f.lobbies
  BY DEF ServerInv, ServerStates, SeatInv, LobbyInv
<1>4. \A m \in Lobbies : r.users[m] = IF m = l THEN f.users[m] \ {u} ELSE f.users[m]
  BY <1>2, <1>3
<1>5. \A v \in Users : r.userLobbyMap[v] = IF v = u THEN NoLobby ELSE f.userLobbyMap[v]
  BY <1>2, <1>3
<1>6. SeatInv(r)
  <2> SUFFICES ASSUME NEW v \in Users, NEW m \in Lobbies
               PROVE  r.userLobbyMap[v] = m <=> v \in r.users[m]
    BY DEF SeatInv
  <2>1. f.userLobbyMap[v] = m <=> v \in f.users[m]
    BY DEF ServerInv, SeatInv
  <2>2. CASE v = u
    BY <1>3, <1>4, <1>5, <2>1, <2>2, LobbyNumbers
  <2>3. CASE v # u
    BY <1>4, <1>5, <2>1, <2>3
  <2> QED BY <2>2, <2>3
<1>7. LobbyInv(r)
  BY <1>2, <1>4 DEF ServerInv, LobbyInv, ServerStates
<1>8. EntryInv(r)
  BY <1>2, <1>5 DEF ServerInv, EntryInv, SameEntries, InQueue, InWaiting
<1>9. \A v, w \in r.users[l] : v = w
  <2>1. r.users[l] = f.users[l] \ {u}
    BY <1>4
  <2>2. \A x, y, z \in f.users[l] : x = y \/ y = z \/ x = z
    BY DEF ServerInv, LobbyInv
  <2> QED BY <2>1, <2>2
<1> QED BY <1>2, <1>3, <1>6, <1>7, <1>8, <1>9 DEF ServerInv

LEMMA GraceOverInv ==
  ASSUME NEW s, ServerInv(s), NEW g \in GraceTimers
  PROVE  ServerInv(GraceOver(s, g))
<1> DEFINE u == g.user
           l == g.lobby
           f == IF g.kind = "queue" /\ IsWaitingForReconnection(s, u, g.socket)
                THEN RemovePlayer(s, u) ELSE s
           r == RemoveUser(Unmap(f, u), l, u)
           p == [r EXCEPT !.penalised = @ \cup {u}]
<1>1. u \in Users /\ l \in Lobbies \cup {NoLobby} /\ g.kind \in DisconnectListeners
  BY DEF GraceTimers
<1>2. ServerInv(f)
  BY <1>1, RemovePlayerInv
<1> HIDE DEF f
<1>3. CASE l = NoLobby \/ ~IsDisconnected(f, l, u, g.socket)
  BY <1>2, <1>3 DEF GraceOver, f
<1>4. CASE l # NoLobby /\ IsDisconnected(f, l, u, g.socket)
  <2>1. l \in Lobbies /\ u \in f.users[l] /\ f.userLobbyMap[u] = l /\ l \in f.lobbies
    BY <1>1, <1>2, <1>4 DEF IsDisconnected, ServerInv, SeatInv, LobbyInv
  <2>2. ServerInv(RemoveUserMaybeCleanupLobby(Unmap(f, u), l, u))
    BY <1>1, <1>2, <2>1, LeaveLobbyInv
  <2>3. ServerInv(p) /\ l \in p.lobbies /\ \A v, w \in p.users[l] : v = w
    <3>1. ServerInv(r) /\ l \in r.lobbies /\ \A v, w \in r.users[l] : v = w
      BY <1>1, <1>2, <2>1, SeatLost
    <3> HIDE DEF r
    <3>2. Unmoved(r, p)
      BY ZenonT(60), <1>1, <3>1 DEF Unmoved, ServerInv, ServerStates, SameSeats, SameEntries
    <3> QED BY <3>1, <3>2, UnmovedInv DEF Unmoved, SameSeats
  <2>4. ServerInv(HandleMatchmakingDisconnect(p, l))
    <3> HIDE DEF p
    <3> QED BY <2>1, <2>3, HandleMatchmakingDisconnectInv
  <2> QED BY <1>4, <2>2, <2>4 DEF GraceOver, f
<1> QED BY <1>3, <1>4

-----------------------------------------------------------------------------
(* The invariant *)

QuickMatchInv ==
  /\ ServerInv(server)
  /\ lastSocket \in [Users -> 0 .. MaxSockets]
  /\ submitted \in [Users -> [pending : 0 .. MaxSubmits, all : 0 .. MaxSubmits]]
  /\ \A u \in Users : submitted[u].pending <= submitted[u].all

LEMMA QuickMatchInitInv == QuickMatchInit => QuickMatchInv
<1> SUFFICES ASSUME QuickMatchInit PROVE QuickMatchInv
  OBVIOUS
<1>1. /\ [u \in Users |-> NoLobby] \in [Users -> Lobbies \cup {NoLobby}]
      /\ [l \in Lobbies |-> [u \in Users |-> NoSocket]] \in [Lobbies -> [Users -> SocketIds \cup {NoSocket}]]
      /\ [l \in Lobbies |-> {}] \in [Lobbies -> SUBSET Users]
      /\ [l \in Lobbies |-> "none"] \in [Lobbies -> {"none", "playing", "over"}]
      /\ [l \in Lobbies |-> Off] \in [Lobbies -> Off .. Over]
      /\ [c \in Users \X SocketIds |-> {}] \in [Users \X SocketIds -> SUBSET Listeners]
      /\ 0 \in 0 .. MaxLobbies
  BY CountdownNumbers, QuickMatchAssumption
<1>2. server \in ServerStates
  BY <1>1 DEF QuickMatchInit, ServerStates
<1>3. SeatInv(server) /\ LobbyInv(server)
  BY LobbyNumbers DEF QuickMatchInit, SeatInv, LobbyInv
<1>4. EntryInv(server)
  BY DEF QuickMatchInit, EntryInv, InQueue, InWaiting
<1>5. /\ lastSocket \in [Users -> 0 .. MaxSockets]
      /\ submitted \in [Users -> [pending : 0 .. MaxSubmits, all : 0 .. MaxSubmits]]
      /\ \A u \in Users : submitted[u].pending <= submitted[u].all
  BY QuickMatchAssumption DEF QuickMatchInit, NoSocket
<1> QED BY <1>2, <1>3, <1>4, <1>5 DEF QuickMatchInv, ServerInv

LEMMA SubmitQueueInv ==
  ASSUME QuickMatchInv, NEW u \in Users, SubmitQueue(u)
  PROVE  QuickMatchInv'
<1> DEFINE left == RemoveUserMaybeCleanupLobby(Unmap(server, u), LobbyOf(server, u), u)
<1>1. ServerInv(left)
  <2>1. ServerInv(server) /\ LobbyOf(server, u) = server.userLobbyMap[u]
    BY LobbyOfIsRegistered DEF QuickMatchInv
  <2> QED BY <2>1, LeaveLobbyInv
<1>2. ServerInv(RemovePlayer(left, u))
  <2> HIDE DEF left
  <2> QED BY <1>1, RemovePlayerInv
<1>3. server' \in {left, RemovePlayer(left, u)}
  BY DEF SubmitQueue
<1>4. ServerInv(server')
  BY <1>1, <1>2, <1>3
<1>5. /\ submitted' \in [Users -> [pending : 0 .. MaxSubmits, all : 0 .. MaxSubmits]]
      /\ \A v \in Users : submitted'[v].pending <= submitted'[v].all
  <2>1. submitted[u].pending \in 0 .. MaxSubmits /\ submitted[u].all \in 0 .. MaxSubmits
    BY DEF QuickMatchInv
  <2>2. submitted[u].pending + 1 \in 0 .. MaxSubmits /\ submitted[u].all + 1 \in 0 .. MaxSubmits
    BY <2>1, QuickMatchAssumption DEF QuickMatchInv, SubmitQueue
  <2> QED BY <2>1, <2>2 DEF QuickMatchInv, SubmitQueue
<1> QED BY <1>4, <1>5 DEF QuickMatchInv, SubmitQueue

LEMMA EnterQueueInv ==
  ASSUME QuickMatchInv, NEW u \in Users, EnterQueue(u)
  PROVE  QuickMatchInv'
<1>1. ServerInv(AddPlayer(server, u, NoSocket))
  BY AddPlayerInv DEF QuickMatchInv
<1>2. ServerInv(server')
  BY <1>1 DEF EnterQueue, QuickMatchInv
<1>3. /\ submitted' \in [Users -> [pending : 0 .. MaxSubmits, all : 0 .. MaxSubmits]]
      /\ \A v \in Users : submitted'[v].pending <= submitted'[v].all
  BY QuickMatchAssumption DEF QuickMatchInv, EnterQueue
<1> QED BY <1>2, <1>3 DEF QuickMatchInv, EnterQueue

LEMMA ConnectToLobbyInv ==
  ASSUME QuickMatchInv, NEW u \in Users, NEW socket \in SocketIds, ConnectToLobby(u, socket)
  PROVE  ServerInv(server')
<1> DEFINE l == server.userLobbyMap[u]
           opened == [server EXCEPT !.open = @ \cup {<<u, socket>>}]
           added == AddLobbyUser(opened, l, u, socket)
           listening == ListenForRequeue(added, u, socket)
<1>1. ServerInv(server) /\ l \in Lobbies /\ l \in server.lobbies /\ u \in server.users[l]
  BY LobbyOfIsRegistered DEF QuickMatchInv, ConnectToLobby, ServerInv, SeatInv, LobbyInv
<1>2. server.open \cup {<<u, socket>>} \in SUBSET (Users \X SocketIds)
  BY <1>1 DEF ServerInv, ServerStates
<1>3. Unmoved(server, opened)
  BY <1>1, <1>2, SocketsClose DEF ServerInv
<1>4. server' = RegisterDisconnect(listening, u, socket)
  BY <1>1 DEF ConnectToLobby
<1> HIDE DEF opened
<1>5. Unmoved(opened, added)
  BY <1>1, <1>3, AddLobbyUserMoves DEF Unmoved, SameSeats
<1> HIDE DEF added
<1>6. Unmoved(added, listening)
  BY <1>5, ListenForRequeueMoves DEF Unmoved
<1> HIDE DEF listening
<1>7. Unmoved(listening, server')
  BY <1>4, <1>6, RegisterDisconnectMoves DEF Unmoved
<1>8. Unmoved(server, server')
  BY <1>3, <1>5, <1>6, <1>7, UnmovedTwice
<1> QED BY <1>1, <1>8, UnmovedInv

LEMMA ConnectToQueueInv ==
  ASSUME QuickMatchInv, NEW u \in Users, NEW socket \in SocketIds, ConnectToQueue(u, socket)
  PROVE  ServerInv(server')
<1> DEFINE old == IF InQueue(server, u) THEN (CHOOSE e \in server.queue : e.user = u).socket ELSE NoSocket
           replaced == ReplaceSocket(server, u, old)
           open == replaced.open \cup {<<u, socket>>}
           listeners == [replaced.listeners EXCEPT ![<<u, socket>>] = @ \cup {"queue"}]
           opened == [replaced EXCEPT !.open = open, !.listeners = listeners]
<1>1. ServerInv(server) /\ server.userLobbyMap[u] = NoLobby
  BY DEF QuickMatchInv, ConnectToQueue
<1>2. old \in SocketIds \cup {NoSocket}
  BY <1>1 DEF InQueue, ServerInv, ServerStates
<1>3. server' = ConnectPlayer(opened, u, socket)
  BY DEF ConnectToQueue
<1> HIDE DEF old
<1>4. Unmoved(server, replaced)
  BY <1>1, <1>2, ReplaceSocketMoves DEF ServerInv
<1> HIDE DEF replaced
<1>5. open \in SUBSET (Users \X SocketIds) /\ listeners \in [Users \X SocketIds -> SUBSET Listeners]
  BY <1>4 DEF Unmoved, ServerStates, Listeners, DisconnectListeners
<1> HIDE DEF open, listeners
<1>6. Unmoved(replaced, opened)
  BY <1>4, <1>5, OpenTyped DEF Unmoved
<1> HIDE DEF opened
<1>7. ServerInv(opened) /\ opened.userLobbyMap[u] = NoLobby
  BY <1>1, <1>4, <1>6, UnmovedInv DEF Unmoved, SameSeats
<1> QED BY <1>3, <1>7, ConnectPlayerInv

LEMMA ConnectInv ==
  ASSUME QuickMatchInv, NEW u \in Users, Connect(u)
  PROVE  QuickMatchInv'
<1> DEFINE socket == lastSocket[u] + 1
<1>1. socket \in SocketIds /\ lastSocket' \in [Users -> 0 .. MaxSockets]
  BY QuickMatchAssumption DEF QuickMatchInv, Connect, SocketIds
<1>2. ConnectToLobby(u, socket) \/ ConnectToQueue(u, socket)
  BY DEF Connect
<1> HIDE DEF socket
<1>3. ServerInv(server')
  BY <1>1, <1>2, ConnectToLobbyInv, ConnectToQueueInv
<1> QED BY <1>1, <1>3 DEF QuickMatchInv, Connect

LEMMA DisconnectInv ==
  ASSUME QuickMatchInv, NEW u \in Users, NEW socket \in SocketIds, NEW manual \in BOOLEAN,
         Disconnect(u, socket, manual)
  PROVE  QuickMatchInv'
<1> DEFINE closed == [server EXCEPT !.open = @ \ {<<u, socket>>}]
           heard == server.listeners[<<u, socket>>]
           first == IF "queue" \in heard THEN OnSocketDisconnected(closed, u, socket, "queue", manual)
                    ELSE closed
           second == OnSocketDisconnected(first, u, socket, "default", manual)
<1>1. server.open \ {<<u, socket>>} \in SUBSET (Users \X SocketIds) /\ ServerInv(server)
  BY DEF QuickMatchInv, ServerInv, ServerStates
<1>2. Unmoved(server, closed)
  BY <1>1, SocketsClose DEF ServerInv
<1>3. server' \in {first, second}
  BY DEF Disconnect
<1> HIDE DEF closed
<1>4. ServerInv(closed)
  BY <1>1, <1>2, UnmovedInv
<1>5. ServerInv(first)
  BY <1>4, OnSocketDisconnectedInv DEF DisconnectListeners
<1> HIDE DEF first
<1>6. ServerInv(second)
  BY <1>5, OnSocketDisconnectedInv DEF DisconnectListeners
<1> QED BY <1>3, <1>5, <1>6 DEF QuickMatchInv, Disconnect

LEMMA RequeueInv ==
  ASSUME QuickMatchInv, NEW u \in Users, NEW socket \in SocketIds, Requeue(u, socket)
  PROVE  QuickMatchInv'
BY RequeueUserInv DEF QuickMatchInv, Requeue

LEMMA SetupMoves ==
  ASSUME NEW s \in ServerStates, NEW l \in Lobbies, NEW e, e.user \in Users, e.socket \in SocketIds,
         e.user \in s.users[l]
  PROVE  Unmoved(s, SetupQueueSocket(s, l, e))
<1> DEFINE a == AddLobbyUser(s, l, e.user, e.socket)
           listeners == [a.listeners EXCEPT ![<<e.user, e.socket>>] = @ \cup {"queue"}]
           t == [a EXCEPT !.listeners = listeners]
<1>1. Unmoved(s, a)
  BY AddLobbyUserMoves
<1>2. SetupQueueSocket(s, l, e) = t
  BY DEF SetupQueueSocket
<1> HIDE DEF a
<1>3. listeners \in [Users \X SocketIds -> SUBSET Listeners]
  BY <1>1 DEF Unmoved, ServerStates, Listeners, DisconnectListeners
<1> HIDE DEF listeners
<1>4. Unmoved(a, t)
  BY <1>1, <1>3, ListenersTyped DEF Unmoved
<1> QED BY <1>1, <1>2, <1>4, UnmovedTwice

LEMMA MatchInv ==
  ASSUME QuickMatchInv, NEW e1 \in server.queue, NEW e2 \in server.queue, MatchmakeQueuePlayers(e1, e2)
  PROVE  QuickMatchInv'
<1> DEFINE s == server
           u1 == e1.user
           u2 == e2.user
           l == s.created + 1
           map == [[s.userLobbyMap EXCEPT ![u1] = l] EXCEPT ![u2] = l]
           taken == [s EXCEPT !.queue = @ \ {e1, e2}, !.created = l, !.lobbies = @ \cup {l},
                              !.users[l] = {u1, u2},
                              !.userLobbyMap[u1] = l, !.userLobbyMap[u2] = l]
           first == SetupQueueSocket(taken, l, e1)
           second == SetupQueueSocket(first, l, e2)
<1>1. ServerInv(s) /\ s \in ServerStates /\ s.created \in 0 .. MaxLobbies
  BY DEF QuickMatchInv, ServerInv, ServerStates
<1>2. l \in Lobbies /\ l \in 0 .. MaxLobbies
  BY <1>1, QuickMatchAssumption DEF MatchmakeQueuePlayers, Lobbies
<1>3. /\ u1 \in Users /\ u2 \in Users /\ e1.socket \in SocketIds /\ e2.socket \in SocketIds
      /\ u1 # u2
      /\ s.userLobbyMap[u1] = NoLobby /\ s.userLobbyMap[u2] = NoLobby
  BY <1>1 DEF ServerStates, ServerInv, EntryInv, InQueue, MatchmakeQueuePlayers
<1>4. l \notin s.lobbies /\ l \notin s.requeues /\ s.users[l] = {}
  <2>1. l \notin s.lobbies /\ l \notin s.requeues
    BY <1>1 DEF ServerInv, LobbyInv
  <2> QED BY <1>1, <1>2, <2>1 DEF ServerInv, LobbyInv
<1>5. server' = second
  BY DEF MatchmakeQueuePlayers
<1>6. /\ map \in [Users -> Lobbies \cup {NoLobby}]
      /\ [s.users EXCEPT ![l] = {u1, u2}] \in [Lobbies -> SUBSET Users]
  BY <1>1, <1>2, <1>3 DEF ServerStates
<1>7. /\ taken \in ServerStates
      /\ taken.userLobbyMap = map /\ taken.users = [s.users EXCEPT ![l] = {u1, u2}]
      /\ taken.lobbies = s.lobbies \cup {l} /\ taken.created = l /\ taken.requeues = s.requeues
      /\ taken.queue = s.queue \ {e1, e2} /\ taken.waiting = s.waiting
  <2> DEFINE users == [s.users EXCEPT ![l] = {u1, u2}]
  <2>1. taken = [s EXCEPT !.queue = s.queue \ {e1, e2}, !.created = l, !.lobbies = s.lobbies \cup {l},
                          !.users = users, !.userLobbyMap = map]
    BY <1>1 DEF ServerStates
  <2>2. s.queue \ {e1, e2} \in SUBSET [user : Users, socket : SocketIds] /\ s.lobbies \cup {l} \in SUBSET Lobbies
    BY <1>1, <1>2 DEF ServerStates
  <2>3. map \in [Users -> Lobbies \cup {NoLobby}] /\ users \in [Lobbies -> SUBSET Users]
    BY <1>6
  <2> HIDE DEF taken, map, users
  <2>4. taken \in ServerStates
    BY <1>1, <1>2, <2>1, <2>2, <2>3 DEF ServerStates
  <2>5. /\ taken.userLobbyMap = map /\ taken.users = users
        /\ taken.lobbies = s.lobbies \cup {l} /\ taken.created = l /\ taken.requeues = s.requeues
        /\ taken.queue = s.queue \ {e1, e2} /\ taken.waiting = s.waiting
    BY <1>1, <2>1 DEF ServerStates
  <2> QED BY <2>4, <2>5 DEF users
<1> HIDE DEF taken
<1>8. \A m \in Lobbies : taken.users[m] = IF m = l THEN {u1, u2} ELSE s.users[m]
  BY <1>1, <1>2, <1>7 DEF ServerStates
<1>9. \A v \in Users : taken.userLobbyMap[v] = IF v \in {u1, u2} THEN l ELSE s.userLobbyMap[v]
  BY <1>1, <1>3, <1>7 DEF ServerStates
<1>10. SeatInv(taken)
  <2> SUFFICES ASSUME NEW v \in Users, NEW m \in Lobbies
               PROVE  taken.userLobbyMap[v] = m <=> v \in taken.users[m]
    BY DEF SeatInv
  <2>1. s.userLobbyMap[v] = m <=> v \in s.users[m]
    BY <1>1 DEF ServerInv, SeatInv
  <2>2. CASE v \in {u1, u2}
    BY <1>3, <1>8, <1>9, <2>1, <2>2, LobbyNumbers
  <2>3. CASE v \notin {u1, u2}
    BY <1>4, <1>8, <1>9, <2>1, <2>3
  <2> QED BY <2>2, <2>3
<1>11. LobbyInv(taken)
  <2>1. \A m \in Lobbies : taken.users[m] # {} => m \in taken.lobbies
    BY <1>1, <1>7, <1>8 DEF ServerInv, LobbyInv
  <2>2. \A m \in taken.lobbies \cup taken.requeues : m <= taken.created
    <3>1. \A m \in s.lobbies \cup s.requeues : m \in Nat /\ m <= s.created
      BY <1>1, LobbyNumbers DEF ServerInv, LobbyInv, ServerStates
    <3> QED BY <1>1, <1>7, <3>1, QuickMatchAssumption
  <2>3. \A m \in Lobbies : \A x, y, z \in taken.users[m] : x = y \/ y = z \/ x = z
    BY <1>1, <1>8 DEF ServerInv, LobbyInv
  <2>4. \A m \in taken.requeues : m \in Lobbies /\ \A x, y \in taken.users[m] : x = y
    BY <1>1, <1>4, <1>7, <1>8 DEF ServerInv, LobbyInv, ServerStates
  <2> QED BY <2>1, <2>2, <2>3, <2>4 DEF LobbyInv
<1>12. EntryInv(taken)
  <2>1. \A v \in {u1, u2} : ~InQueue(taken, v)
    BY <1>1, <1>7 DEF ServerInv, EntryInv, InQueue
  <2>2. \A v \in Users : InQueue(taken, v) => taken.userLobbyMap[v] = NoLobby
    BY <1>1, <1>7, <1>9, <2>1 DEF ServerInv, EntryInv, InQueue
  <2> QED BY <1>1, <1>7, <2>2 DEF ServerInv, EntryInv, InQueue, InWaiting
<1>13. ServerInv(taken) /\ u1 \in taken.users[l] /\ u2 \in taken.users[l]
  BY <1>2, <1>7, <1>8, <1>10, <1>11, <1>12 DEF ServerInv
<1>14. Unmoved(taken, first)
  BY <1>2, <1>3, <1>13, SetupMoves DEF ServerInv
<1> HIDE DEF first
<1>15. Unmoved(first, second)
  BY <1>2, <1>3, <1>13, <1>14, SetupMoves DEF Unmoved, SameSeats
<1>16. ServerInv(server')
  BY <1>5, <1>13, <1>14, <1>15, UnmovedInv
<1> QED BY <1>16 DEF QuickMatchInv, MatchmakeQueuePlayers

LEMMA QuickLobbyCountdownInv ==
  ASSUME QuickMatchInv, NEW l \in Lobbies, QuickLobbyCountdown(l)
  PROVE  QuickMatchInv'
<1> DEFINE t == [server EXCEPT !.countdown[l] = @ + 1]
<1>1. ServerInv(server) /\ server \in ServerStates
  BY DEF QuickMatchInv, ServerInv
<1>2. server' = t => server.countdown[l] + 1 \in Off .. Over
  BY CountdownNumbers DEF QuickLobbyCountdown
<1>3. [server.countdown EXCEPT ![l] = @ + 1] \in [Lobbies -> Off .. Over] => Unmoved(server, t)
  BY <1>1 DEF ServerStates, Unmoved, SameSeats, SameEntries
<1>4. server' = t => Unmoved(server, t)
  BY <1>1, <1>2, <1>3 DEF ServerStates
<1>5. server' \in {t, StartGame(server, l), RemoveLobby(server, l)}
  BY DEF QuickLobbyCountdown
<1>6. ServerInv(server')
  BY <1>1, <1>4, <1>5, StartGameMoves, RemoveLobbyInv, UnmovedInv
<1> QED BY <1>6 DEF QuickMatchInv, QuickLobbyCountdown

LEMMA RequeueWhoIsLeftInv ==
  ASSUME QuickMatchInv, NEW l \in Lobbies, RequeueWhoIsLeft(l)
  PROVE  QuickMatchInv'
<1> DEFINE s == [server EXCEPT !.requeues = @ \ {l}]
<1>1. ServerInv(server) /\ server \in ServerStates
  BY DEF QuickMatchInv, ServerInv
<1>2. /\ s \in ServerStates /\ SameEntries(server, s) /\ s.userLobbyMap = server.userLobbyMap
      /\ s.users = server.users /\ s.lobbies = server.lobbies /\ s.created = server.created
      /\ s.requeues = server.requeues \ {l}
  BY <1>1 DEF ServerStates, SameEntries
<1>3. \/ server' = RemoveLobby(s, l)
      \/ \E u \in s.users[l] : server' = RemoveLobby(RequeueUser(s, u, s.socketOf[l][u]), l)
  BY DEF RequeueWhoIsLeft
<1> HIDE DEF s
<1>4. ServerInv(s)
  <2>1. SeatInv(s) /\ LobbyInv(s)
    BY <1>1, <1>2 DEF ServerInv, SeatInv, LobbyInv
  <2>2. EntryInv(s)
    BY <1>1, <1>2 DEF ServerInv, EntryInv, SameEntries, InQueue, InWaiting
  <2> QED BY <1>2, <2>1, <2>2 DEF ServerInv
<1>5. \A u \in s.users[l] : u \in Users /\ s.socketOf[l][u] \in SocketIds \cup {NoSocket}
  BY <1>2 DEF ServerStates
<1>6. ServerInv(server')
  BY <1>3, <1>4, <1>5, RequeueUserInv, RemoveLobbyInv
<1> QED BY <1>6 DEF QuickMatchInv, RequeueWhoIsLeft

LEMMA GraceEndsInv ==
  ASSUME QuickMatchInv, NEW t \in server.graces, GraceEnds(t)
  PROVE  QuickMatchInv'
<1> DEFINE s == [server EXCEPT !.graces = @ \ {t}]
<1>1. ServerInv(server) /\ t \in GraceTimers /\ Unmoved(server, s)
  BY DEF QuickMatchInv, ServerInv, ServerStates, Unmoved, SameSeats, SameEntries
<1>2. server' = GraceOver(s, t)
  BY DEF GraceEnds
<1> HIDE DEF s
<1>3. ServerInv(server')
  BY <1>1, <1>2, UnmovedInv, GraceOverInv
<1> QED BY <1>3 DEF QuickMatchInv, GraceEnds

LEMMA PenaltyEndsInv ==
  ASSUME QuickMatchInv, NEW u \in Users, PenaltyEnds(u)
  PROVE  QuickMatchInv'
<1>1. ServerInv(server) /\ Unmoved(server, server')
  BY DEF QuickMatchInv, PenaltyEnds, ServerInv, ServerStates, Unmoved, SameSeats, SameEntries
<1> QED BY <1>1, UnmovedInv DEF QuickMatchInv, PenaltyEnds

LEMMA GameEndsInv ==
  ASSUME QuickMatchInv, NEW l \in Lobbies, GameEnds(l)
  PROVE  QuickMatchInv'
<1>1. ServerInv(server) /\ Unmoved(server, server')
  BY DEF QuickMatchInv, GameEnds, ServerInv, ServerStates, Unmoved, SameSeats, SameEntries
<1> QED BY <1>1, UnmovedInv DEF QuickMatchInv, GameEnds

LEMMA UserTimeoutDisconnectInv ==
  ASSUME QuickMatchInv, NEW l \in Lobbies, NEW u \in Users, UserTimeoutDisconnect(l, u)
  PROVE  QuickMatchInv'
<1> DEFINE open == server.open \ {<<u, server.socketOf[l][u]>>}
           s == [server EXCEPT !.open = open]
<1>1. ServerInv(server) /\ server.userLobbyMap[u] = l /\ open \in SUBSET (Users \X SocketIds)
  BY DEF QuickMatchInv, UserTimeoutDisconnect, ServerInv, SeatInv, ServerStates
<1>2. server' = HandleIntentionalDisconnect(s, u, l)
  BY DEF UserTimeoutDisconnect
<1> HIDE DEF open
<1>3. Unmoved(server, s)
  BY <1>1, SocketsClose DEF ServerInv
<1> HIDE DEF s
<1>4. ServerInv(server')
  BY <1>1, <1>2, <1>3, UnmovedInv, HandleIntentionalDisconnectInv DEF Unmoved, SameSeats
<1> QED BY <1>4 DEF QuickMatchInv, UserTimeoutDisconnect

LEMMA QuickMatchNextInv == QuickMatchInv /\ [QuickMatchNext]_quickMatchVars => QuickMatchInv'
<1> SUFFICES ASSUME QuickMatchInv, [QuickMatchNext]_quickMatchVars PROVE QuickMatchInv'
  OBVIOUS
<1>1. CASE UNCHANGED quickMatchVars
  BY <1>1 DEF quickMatchVars, QuickMatchInv
<1>2. ASSUME NEW u \in Users, SubmitQueue(u) \/ EnterQueue(u) \/ Connect(u)
      PROVE  QuickMatchInv'
  BY <1>2, SubmitQueueInv, EnterQueueInv, ConnectInv
<1>3. ASSUME NEW u \in Users, NEW socket \in SocketIds,
             (\E manual \in BOOLEAN : Disconnect(u, socket, manual)) \/ Requeue(u, socket)
      PROVE  QuickMatchInv'
  BY <1>3, DisconnectInv, RequeueInv
<1>4. ASSUME NEW e1 \in server.queue, NEW e2 \in server.queue, MatchmakeQueuePlayers(e1, e2)
      PROVE  QuickMatchInv'
  BY <1>4, MatchInv
<1>5. ASSUME NEW l \in Lobbies, GameEnds(l) \/ \E u \in Users : UserTimeoutDisconnect(l, u)
      PROVE  QuickMatchInv'
  BY <1>5, GameEndsInv, UserTimeoutDisconnectInv
<1>6. CASE Timer
  BY <1>6, QuickLobbyCountdownInv, RequeueWhoIsLeftInv, GraceEndsInv, PenaltyEndsInv DEF Timer
<1> QED BY <1>1, <1>2, <1>3, <1>4, <1>5, <1>6 DEF QuickMatchNext

LEMMA QuickMatchInvariant == QuickMatchSpec => []QuickMatchInv
BY QuickMatchInitInv, QuickMatchNextInv, PTL DEF QuickMatchSpec

-----------------------------------------------------------------------------
(* Theorems *)

\* The types of the server's state; at most one player is left in a lobby that
\* is about to put its players back into the queue.
THEOREM QuickMatchTypes == QuickMatchSpec => []QuickMatchTypeOK
<1>1. QuickMatchInv => QuickMatchTypeOK
  BY DEF QuickMatchInv, ServerInv, LobbyInv, QuickMatchTypeOK
<1> QED BY <1>1, QuickMatchInvariant, PTL

\* Whatever players, sockets and timers do, the user map names for everybody the
\* one lobby they have a seat in.
THEOREM SeatsAgree == QuickMatchSpec => []SeatsMatchUserLobbyMap
<1>1. QuickMatchInv => SeatsMatchUserLobbyMap
  BY DEF QuickMatchInv, ServerInv, SeatInv, LobbyInv, SeatsMatchUserLobbyMap
<1> QED BY <1>1, QuickMatchInvariant, PTL

\* Nobody who may be matched has a seat already, or is twice among the players who
\* search or may come back to it.
THEOREM PlacesAreUnique == QuickMatchSpec => []OnePlaceEach
<1>1. QuickMatchInv => OnePlaceEach
  BY DEF QuickMatchInv, ServerInv, EntryInv, QueuedHaveNoSeat, OneEntryEach, OnePlaceEach
<1> QED BY <1>1, QuickMatchInvariant, PTL

\* The timer of a lost socket takes nothing from a player who is back on another.
THEOREM ReturnedAreSafe == QuickMatchSpec => ReturnedKeepTheirPlace
<1>1. ASSUME QuickMatchInv, NEW t \in server.graces, IsBack(t), GraceEnds(t)
      PROVE  KeepsPlace(t.user)
  <2> DEFINE s == [server EXCEPT !.graces = @ \ {t}]
             f == IF t.kind = "queue" /\ IsWaitingForReconnection(s, t.user, t.socket)
                  THEN RemovePlayer(s, t.user) ELSE s
  <2>1. /\ ServerInv(server) /\ t \in GraceTimers /\ Unmoved(server, s)
        /\ s.socketOf = server.socketOf
    BY <1>1 DEF QuickMatchInv, ServerInv, ServerStates, Unmoved, SameSeats, SameEntries
  <2>2. server' = GraceOver(s, t)
    BY <1>1 DEF GraceEnds
  <2> HIDE DEF s
  <2>3. t.user \in Users /\ t.lobby \in Lobbies \cup {NoLobby} /\ ServerInv(s)
    BY <2>1, UnmovedInv DEF GraceTimers
  <2>4. /\ SameSeats(s, f) /\ f.socketOf = s.socketOf
        /\ InQueue(f, t.user) <=> InQueue(s, t.user)
    <3>1. CASE f = s
      BY <3>1 DEF SameSeats
    <3>2. CASE f # s
      <4>1. InWaiting(s, t.user) /\ f = RemovePlayer(s, t.user)
        BY <3>2, <2>3 DEF IsWaitingForReconnection, InWaiting
      <4>2. ~InQueue(s, t.user)
        BY <2>3, <4>1 DEF ServerInv, EntryInv
      <4>3. f.socketOf = s.socketOf
        BY <2>3, <4>1 DEF ServerInv, ServerStates, RemovePlayer
      <4> HIDE DEF f
      <4> QED BY <2>3, <4>1, <4>2, <4>3, RemovePlayerInv
    <3> QED BY <3>1, <3>2
  <2> HIDE DEF f
  <2>5. t.lobby # NoLobby => ~IsDisconnected(f, t.lobby, t.user, t.socket)
    <3> SUFFICES ASSUME t.lobby \in Lobbies, t.user \in server.users[t.lobby],
                        server.socketOf[t.lobby][t.user] = t.socket
                 PROVE  FALSE
      BY <2>1, <2>3, <2>4 DEF IsDisconnected, Unmoved, SameSeats
    <3>1. server.userLobbyMap[t.user] = t.lobby
      BY <2>1, <2>3 DEF ServerInv, SeatInv
    <3>2. ~InQueue(server, t.user)
      BY <2>1, <2>3, <3>1, LobbyNumbers DEF ServerInv, EntryInv
    <3>3. PICK m \in Lobbies : t.user \in server.users[m] /\ server.socketOf[m][t.user] # t.socket
      BY <1>1, <3>2 DEF IsBack, InQueue
    <3>4. m = t.lobby
      BY <2>1, <2>3, <3>1, <3>3 DEF ServerInv, SeatInv
    <3> QED BY <3>3, <3>4
  <2>6. server' = f
    BY <2>2, <2>5 DEF GraceOver, f
  <2>7. server'.userLobbyMap = server.userLobbyMap /\ (InQueue(server', t.user) <=> InQueue(server, t.user))
    BY <2>1, <2>4, <2>6 DEF Unmoved, SameSeats, SameEntries, InQueue
  <2> QED BY <2>7 DEF KeepsPlace
<1>2. QuickMatchInv => (\A t \in server.graces \ server'.graces :
                          IsBack(t) /\ GraceEnds(t) => KeepsPlace(t.user))
  BY <1>1
<1> QED BY <1>2, QuickMatchInvariant, PTL DEF ReturnedKeepTheirPlace
=============================================================================
