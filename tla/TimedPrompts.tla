---------------------------- MODULE TimedPrompts ----------------------------
(***************************************************************************)
(* The action timers of two players while the game puts prompts to them:   *)
(* who is timed is decided whenever a prompt continues (UiPrompt.setPrompt),*)
(* an undo request pauses the requester (UndoConfirmationPrompt), a        *)
(* rollback builds other prompts over timers that no snapshot holds, and   *)
(* the player whose main timer expires loses (Game.onGameTimerExpired).    *)
(* Which prompt comes next is left open: RoundFlow and UndoGame say that.  *)
(***************************************************************************)
EXTENDS ByoyomiTimer, Sequences

CONSTANTS
  Players,
  DrawThreshold,    \* onGameTimerExpired: less total time than this is a draw, 3 in the code
  Punctual,         \* BOOLEAN: no message is handled while the handler of a timer is due
  UndoPastEnd,      \* BOOLEAN: an undo may lead from an ended game to one that is not
  MaxRequests       \* bound of the model: undo requests open at once

ASSUME TimedAssumption ==
  /\ \E p, q \in Players : p # q /\ Players = {p, q}
  /\ DrawThreshold \in Nat /\ MaxRequests \in Nat
  /\ Punctual \in BOOLEAN /\ UndoPastEnd \in BOOLEAN

VARIABLES
  timers,          \* the actionTimer of each player
  prompt,          \* the prompt of the game at the top of the pipeline
  requests,        \* requesters of the UndoConfirmationPrompts over it, the open one last
  activeBefore,    \* players with activeForPreviousPrompt
  winners          \* winnerNames: empty while the game goes on, both players after a draw

timedVars == <<timers, prompt, requests, activeBefore, winners>>

Opponent(p) == CHOOSE q \in Players : q # p

\* One player is asked who has the initiative, an ActionWindow is put to the active
\* player, a menu or a choice of cards to one player, and a mulligan or resource
\* prompt to both; some stop the timers of those they were put to when they
\* complete (resetActionTimerOnComplete).
Initiative(p) == [kind |-> "initiative", asked |-> {p}, active |-> {p}, reset |-> TRUE]
Window(p) == [kind |-> "window", asked |-> {p}, active |-> {p}, reset |-> FALSE]
Menu(p) == [kind |-> "menu", asked |-> {p}, active |-> {p}, reset |-> FALSE]
AllPlayers(reset) == [kind |-> "all", asked |-> Players, active |-> Players, reset |-> reset]

\* The prompts that may follow another, or that a rollback leads to.
GamePrompts == {Window(p) : p \in Players} \cup {Menu(p) : p \in Players}
                 \cup {AllPlayers(reset) : reset \in BOOLEAN}

Ended == winners # {}

\* Whom the prompt at the top of the pipeline is put to (activeCondition).
PromptedUnder(open) == IF open = <<>> THEN prompt.active ELSE {Opponent(open[Len(open)])}

Prompted == PromptedUnder(requests)

-----------------------------------------------------------------------------
(* UiPrompt.continue *)

\* Variant: a timer that was stopped meanwhile stays stopped.
SetPromptOnce(ts, active, before, first, confirmation) ==
  [p \in Players |->
     IF p \in active THEN IF first /\ p \notin before THEN StartOrResume(ts[p]) ELSE ts[p]
     ELSE IF confirmation THEN Pause(ts[p]) ELSE Stop(ts[p])]

\* setPrompt: the players it is put to are timed, the others stopped, or paused
\* if the prompt asks to confirm an undo.
SetPrompt(ts, active, before, first, confirmation) ==
  [p \in Players |->
     IF p \in active
     THEN IF (first /\ p \notin before) \/ ~Running(ts[p]) THEN StartOrResume(ts[p]) ELSE ts[p]
     ELSE IF confirmation THEN Pause(ts[p]) ELSE Stop(ts[p])]

StoppedFor(ts, players) == [p \in Players |-> IF p \in players THEN Stop(ts[p]) ELSE ts[p]]

\* Making an ActionWindow stops the timer of its player.
Made(ts, next) == StoppedFor(ts, IF next.kind = "window" THEN next.active ELSE {})

\* A prompt continues for the first time.
Open(ts, active, confirmation) ==
  /\ timers' = SetPrompt(ts, active, activeBefore, TRUE, confirmation)
  /\ activeBefore' = active

\* A prompt continues again.
Again(ts, active, confirmation) ==
  /\ timers' = SetPrompt(ts, active, activeBefore, FALSE, confirmation)
  /\ activeBefore' = active

\* A rollback continues the rebuilt pipeline, and the message that caused it does
\* so again (Lobby.onGameMessage).  No snapshot holds the timers.
Rebuild(ts, next) ==
  /\ prompt' = next
  /\ requests' = <<>>
  /\ timers' = SetPrompt(SetPrompt(ts, next.active, activeBefore, TRUE, FALSE),
                         next.active, next.active, FALSE, FALSE)
  /\ activeBefore' = next.active
  /\ winners' \in IF UndoPastEnd THEN {winners, {}} ELSE {winners}

\* The player who chooses who has the initiative is prompted first (SetupPhase.ts).
TimedInit ==
  \E p \in Players :
    /\ prompt = Initiative(p)
    /\ timers = SetPrompt([q \in Players |-> NewTimer], {p}, {}, TRUE, FALSE)
    /\ activeBefore = {p}
    /\ requests = <<>>
    /\ winners = {}

-----------------------------------------------------------------------------
(* Time *)

SomeoneIsDue == \E p \in Players : Due(timers[p])

Tick ==
  /\ ~SomeoneIsDue
  /\ \E p \in Players : Running(timers[p])
  /\ timers' = [p \in Players |-> Elapsed(timers[p])]
  /\ UNCHANGED <<prompt, requests, activeBefore, winners>>

TurnExpires(p) ==
  /\ IsDue(timers[p].turn)
  /\ timers' = [timers EXCEPT ![p] = TurnExpired(@)]
  /\ UNCHANGED <<prompt, requests, activeBefore, winners>>

\* onGameTimerExpired, once the opponent's timer is stopped
WinnersByTimeout(p) ==
  IF TotalTimeRemaining(Stop(timers[Opponent(p)])) < DrawThreshold THEN Players ELSE {Opponent(p)}

\* onMainTimerExpired, onGameTimerExpired and endGame: no prompt continues.
MainExpires(p) ==
  /\ IsDue(timers[p].main)
  /\ LET fired == [timers EXCEPT ![p].main = Fired(@)]
     IN IF Ended THEN timers' = fired /\ UNCHANGED winners
        ELSE timers' = StoppedFor(fired, Players) /\ winners' = WinnersByTimeout(p)
  /\ UNCHANGED <<prompt, requests, activeBefore>>

-----------------------------------------------------------------------------
(* Messages of the players *)

Handled == Punctual => ~SomeoneIsDue

\* Any message that decides nothing: Lobby.onGameMessage continues the game.
Message ==
  /\ Handled
  /\ Again(timers, Prompted, requests # <<>>)
  /\ UNCHANGED <<prompt, requests, winners>>

\* One of two players is done with a prompt put to both.
AnswerInPart(p) ==
  /\ Handled
  /\ requests = <<>> /\ p \in prompt.active /\ prompt.active # {p}
  /\ prompt' = [prompt EXCEPT !.active = @ \ {p}]
  /\ Again(timers, prompt'.active, FALSE)
  /\ UNCHANGED <<requests, winners>>

\* UiPrompt.complete
Completed(ts) == IF prompt.reset THEN StoppedFor(ts, prompt.asked) ELSE ts

\* The prompt is answered, the game may end over it, and another prompt opens or
\* one that waited underneath (the window of a card action given up) continues.
AnswerLast(p, next, ends) ==
  /\ Handled
  /\ requests = <<>> /\ prompt.active = {p}
  /\ prompt' = next
  /\ LET ts == IF ends THEN StoppedFor(Completed(timers), Players) ELSE Completed(timers)
     IN \/ Open(Made(ts, next), next.active, FALSE)
        \/ next.kind = "window" /\ Again(ts, next.active, FALSE)
  /\ IF ends THEN ~Ended /\ winners' \in (SUBSET Players) \ {{}} ELSE UNCHANGED winners
  /\ UNCHANGED requests

Concede(p) ==
  /\ Handled
  /\ ~Ended
  /\ winners' = {Opponent(p)}
  /\ Again(StoppedFor(timers, Players), Prompted, requests # <<>>)
  /\ UNCHANGED <<prompt, requests>>

\* The first snapshot is taken after the choice of the first player.
HasSnapshot == prompt.kind # "initiative"

\* Either player may ask, whoever is prompted, and while another request is open.
RequestUndo(p) ==
  /\ Handled
  /\ HasSnapshot /\ Len(requests) < MaxRequests
  /\ requests' = Append(requests, p)
  /\ Open(timers, {Opponent(p)}, TRUE)
  /\ UNCHANGED <<prompt, winners>>

DenyUndo ==
  /\ Handled
  /\ requests # <<>>
  /\ requests' = SubSeq(requests, 1, Len(requests) - 1)
  /\ Again(timers, PromptedUnder(requests'), requests' # <<>>)
  /\ UNCHANGED <<prompt, winners>>

\* An undo that is allowed, or needs no consent.
Undo(next) == Handled /\ HasSnapshot /\ Rebuild(Made(timers, next), next)

\* rollbackForCostPaymentRecovery: p, who cannot pay a cost, goes back to the start
\* of the action of player, whose window does not stop the timer this time.
RecoverCost(p, player) ==
  /\ Handled
  /\ requests = <<>> /\ prompt = Menu(p)
  /\ Rebuild([timers EXCEPT ![p] = Pause(@)], Window(player))

-----------------------------------------------------------------------------
TimePasses == Tick \/ \E p \in Players : TurnExpires(p) \/ MainExpires(p)

TimedNext ==
  \/ TimePasses
  \/ Message \/ DenyUndo
  \/ \E p \in Players : AnswerInPart(p) \/ Concede(p) \/ RequestUndo(p)
  \/ \E p \in Players, next \in GamePrompts, ends \in BOOLEAN : AnswerLast(p, next, ends)
  \/ \E next \in GamePrompts : Undo(next)
  \/ \E p, player \in Players : RecoverCost(p, player)

\* The scheduler runs its tasks; nobody has to send a message.
TimedSpec == TimedInit /\ [][TimedNext]_timedVars /\ WF_timedVars(TimePasses)
-----------------------------------------------------------------------------
(* Properties *)

\* The timers have their types, a paused timer has time left to resume with, and
\* the main timer is never lost (every path through start, stop, pause and resume).
TimerTypeOK ==
  /\ timers \in [Players -> Timer]
  /\ \A p \in Players : TimerOK(timers[p])
  /\ prompt \in [kind : {"initiative", "window", "menu", "all"}, asked : SUBSET Players,
                 active : (SUBSET Players) \ {{}}, reset : BOOLEAN]
  /\ activeBefore \subseteq Players /\ winners \subseteq Players
  /\ requests \in Seq(Players)

MainFires(p) == timers[p].main.mode = "counting" /\ timers'[p].main.mode = "fired"

\* Nobody loses a game on time who has nothing to answer: the check of
\* GameActionTimer.shouldFireHandler, "prevents accidentally booting a player
\* because their turn timer didn't get cleared for some reason", is switched off,
\* so it is up to the prompts to stop every timer they do not need.
OnlyPromptedPlayersLose ==
  [][\A p \in Players : MainFires(p) /\ ~Ended => p \in Prompted]_timedVars

\* While the game goes on, whoever is prompted has a timer that counts: otherwise a
\* player could keep the other waiting for ever (UiPrompt.setPrompt decides it from
\* flags of the prompt, the player and the timer).
PromptedPlayersAreTimed ==
  ~Ended => \A p \in Prompted : Running(timers[p]) \/ Due(timers[p])

\* The buffer of a player only shrinks, whatever is prompted, asked, allowed, denied
\* or undone (ByoyomiTimer: "preserving its remaining time").
MainTimeNeverReturns ==
  [][\A p \in Players : timers'[p].main.left <= timers[p].main.left]_timedVars

\* A request that is made and denied gives no player of the prompt below any time
\* back (UndoConfirmationPrompt: "so that they can't cheat time back").
RefusedUndoGivesNoTime ==
  [][~Ended /\ ((\E p \in Players : RequestUndo(p)) \/ DenyUndo) =>
       \A p \in prompt.active : timers'[p].turn.left <= timers[p].turn.left]_timedVars

\* A game whose players stop sending messages comes to its end: the timers run out
\* (UiPrompt.setPrompt, ByoyomiTimer, Game.onGameTimerExpired).
AbsentPlayersLose == <>[][TimePasses]_timedVars => <>Ended
=============================================================================
