# Forceteki in TLA+

Forceteki is the game engine and game server of Karabast, an online client for
Star Wars: Unlimited. This directory holds TLA+ models of its core, the TLC
configurations that check them, and TLAPS proofs about them. Paths below are
relative to the repository; `core/` is `src/server/game/core/`.

## The system

| part | state it keeps | operations | what makes it hard | what makes it correct |
|---|---|---|---|---|
| Rounds, phases, turn order: `core/Game.ts`, `core/gameSteps/phases`, `core/gameSteps/ActionWindow.ts`, the prompts to all players | the pipeline of steps; in `Game.state`: phase, round, action number, active and initiative player, claims, previous pass; `passedActionPhase` of each player | each phase's steps; pass, claim, card action, mulligan, resource; rotate | the end of the action phase and whose turn it is are told from a few flags set by other steps; triggers prompt players between any two steps | turns alternate, the phase ends exactly when both are done, every round is played |
| Snapshot store: `core/snapshot` | the current snapshot and the id and number counters (SnapshotFactory); action, phase, manual containers; arrays of quick entries | reach a timepoint, keep it, flag it, roll back, clear newer ones | five containers share snapshots; ids skip what was undone while timepoint numbers do not; histories are bounded | an undone branch is gone, a kept timepoint is what was recorded, numbers count |
| Restoring the state: `GameStateManager.ts` | all game objects | serialise, restore, restore again after an error | an error half way | the game is in a recorded state |
| Undo requests and consent: `Game.rollbackToSnapshot`, `UndoConfirmationPrompt.js`, `UndoLimit.ts`, `UiPrompt.ts` | the open prompt, `undoConfirmationOpen`, free undo uses, rejections and blocks, who was prompted, who resolved an ability | undo, request, allow, deny, block | a request is carried out later than it is made, inside the handler of a prompt that belongs to the pipeline it replaces; half of this state is not rolled back | nothing the opponent revealed is undone without consent; the rebuilt pipeline repeats no step |
| Event and trigger windows: `core/event`, `core/gameSteps/abilityWindow` | events, triggers not yet resolved | resolve, replace, order, nest | simultaneous triggers of two players, nested windows | every trigger resolves once, in rule order |
| Pipeline: `core/GamePipeline.ts` | steps, and those queued by the running step | queue, continue, clear | a step that queues or clears while it runs | steps run in the order queued |
| Action timers: `core/actionTimer`, `UiPrompt.ts`, `Game.onGameTimerExpired` | per player a turn timer and a main timer, two flags, `activeForPreviousPrompt` | start, pause, resume, stop, expire, whenever a prompt continues | no snapshot holds timers; a timeout due while an answer arrives; pausing what does not run | whoever is prompted is timed, nobody else loses on time, time spent never returns |
| Lobby and best-of-three sets: `src/server/gamenode/Lobby.ts` | users and sockets, ready states, set history, timers | join, ready, start, rematch, disconnect, game end and its undo | callbacks with awaits between them, timers, reconnects | one game at a time, results counted once |
| Matchmaking: `QueueHandler.ts`, `GameServer.ts` | queues, user to lobby map, loop flags | enqueue, match, disconnect, retry | awaits inside the loop | nobody waits unnoticed, nobody in two lobbies |
| Cards: `src/server/game/cards`, abilities, costs, effects | cards, effects | resolve | volume | the rules of each card |
| Services: database, users, decks, statistics | external | requests | I/O | |

They interact as follows. The server hands a player's click to the lobby, the
lobby to the game, the game to the step on top of its pipeline. A step changes
`Game.state`, queues further steps, opens an event window whose triggers may
prompt either player, and tells the SnapshotManager of the timepoints it
reaches. Between two clicks the pipeline runs until a prompt needs an answer.
An undo goes the other way: `Game.rollbackToSnapshot` has the SnapshotManager
restore `Game.state`, throws the pipeline away and builds a new one that starts
at the step after the snapshot's timepoint. The game tells the lobby of its end,
and of an end that was undone; the lobby records results, runs the timers between
the games of a set and tells the server when it is done. The server owns sockets,
queue and the map from users to lobbies, and removes lobbies. Node runs one
callback at a time, so a handler is atomic up to its awaits; the engine itself has
none in the modelled part, and those of the server are treated under QuickMatch.

## The modules

**GameState** declares what the others share: the players and `game`, the record
`Game.state` that snapshots copy and rollbacks replace. The `starts` and `ended`
fields stand for state of game objects: how many times the start-of-phase
triggers have resolved in this phase, and whether `winnerNames` is filled. `counters` is the format's
set of counters to claim, chosen when the game is made and never changed.

**RoundFlow** is the game without undo. `pc` is the step of the pipeline, or the
prompt it waits at; `phaseObj` the phase object (name, `PhaseInitializeMode` and
the first of its own steps, which the constructors choose); `prompted` is
`playerHasBeenPrompted`, `done` the players an AllPlayerPrompt counts as done,
`asking` the players that the triggers of the open window prompt. One action per
step and per choice: `SetCurrentPhase`, `StartPhase`, `EndPhase` are those of
`Phase.ts`, `OpenActionWindow`, `RotateActivePlayer`, `TearDownActionPhase` those
of `ActionPhase.ts`, `Pass`, `ClaimCounter`, `TakeCardAction` the buttons and
cards of `ActionWindow.ts`. What a card does is reduced to the players it
prompts and whether it grants an AdditionalAction; an action counts from its
first irrevocable step, so a card clicked and cancelled is no step.

**SnapshotManager** is the store. `snapshots` is the heap of snapshot objects of
the present line of play by id, `currentId` is `currentActionSnapshot`, and the
containers hold ids; quick entries are records of an id and the container they
point into. `MoveToNextTimepoint`, `TakeActionSnapshots`, `TakePhaseSnapshot`,
`AddQuickStartOfActionSnapshots`, `TakeManualSnapshot`, `RequireConfirmation` and
`Restore` are the methods; `ReachTimepoint`, `ReachStartOfPhase` and
`KeepTimepoint` the combinations the phases call. `StoreGrows` and `RollbackTo`
drive it in any order any game might.

**TimelineHistory** is what the store promises, without containers: a line of
recorded states, some of them saved; going back to a saved one makes it the
present and erases what came later. `ImplementsHistory` maps the store onto it:
position k of the line is the snapshot with timepoint number k - 1, and saved is
what some container retains.

**UndoGame** composes the two (it EXTENDS both) and adds the undo requests. A step
of RoundFlow is joined with what it does to the store: `TimepointStep` reaches a
timepoint, `RepeatedStep` is the same step when a rollback led there,
`KeepingStep` keeps the timepoint for the players prompted since. `RollBack`
restores the state, sets `phaseObj` by `EntryPoint`
(`getEntryPointAfterRollback`) and leaves untouched what the code does not
restore. `requests` are the confirmation prompts on the pipeline, `unwinding` is
the prompt an allowed request comes back to when its handler ends, `stale` the
finished prompt that `currentlyResolving.openPrompt` still holds afterwards.
`decided`, `informed` and `firstAsked` are history: who decided something, and
who learned something, at each timepoint of the line, and whom the window after
a timepoint asks first (a window that is run again in the same state, with the
same random generator, asks the same player).

**ByoyomiTimer** holds the operations of one player's timer, as functions on
records. Time is relative: `left` stands for `endTime` minus now. A timer that
counts with nothing left is due: its handler is scheduled and has not run, and
`isRunning` is false of it, so that `Paused` and `Stop` do not touch it.

**TimedPrompts** is two such timers under a game that puts one prompt after
another. Which prompt comes next is left open (RoundFlow and UndoGame say that);
what it says is whom a prompt times. `SetPrompt` is `UiPrompt.setPrompt`; a
prompt that continues for the first time is `Open`, one that continues again
`Again`, a rollback, after which the pipeline continues twice, `Rebuild`.
`requests` are the requesters of the open UndoConfirmationPrompts, whose opponents
are prompted. The clock moves in `Tick`, when nothing is due; the handlers of
timers are the actions `TurnExpires` and `MainExpires`, those of messages wait for
them only if `Punctual`. Node gives no such guarantee, so the properties are
checked with and without it. `UndoPastEnd` says whether an undo may lead out of an
ended game. `RecoverCost` is `rollbackForCostPaymentRecovery`.

**QuickMatch** is the way from the queue to a game: `GameServer`, `QueueHandler` and
the quick lobby of two matched players. `server` is one record with the fields of
all three; each function of the code (`removePlayer`, `removeUserMaybeCleanupLobby`,
`onSocketDisconnected`, ...) is an operator from one such record to the next, and
handlers compose them in the order of the code, so that an intermediate state the
code relies on is the one the model relies on. An action is one request, socket
event or timer. `listeners` are the handlers registered on each socket, since the
code tells a matchmaking disconnect from another by them; "requeue" comes from
`addLobbyUserAsync` until a game has started, and from `onConnectionAsync`
(`ListenForRequeue`) for every socket that connects to the lobby, so that a player who
is back during the game or after it may ask for another match too. The awaits inside
matchmaking only give way to microtasks and are no interleaving points; the await of
a deck between `canUserJoinNewLobby` and `enterQueue` is one, and splits the request
into `SubmitQueue` and `EnterQueue`. Any two queued players may match at any time,
and a timer may fire at any time after it was set, so no property depends on the 3,
2 and 20 seconds of the code.

**BestOfThree** is the set a `Lobby` plays, in the same style: `lobby` is its state,
the functions of `Lobby.ts` are operators, commands, timers and callbacks of the game
are actions. The game is reduced to going on, over, or taken back behind its end.
Commands have few checks of their own, so the section "What the clients offer" is
part of the model: ready, start and sideboarding without a game; confirming the next
game after one, of a set not over; conceding a set once it has begun; a rematch
after a best of one or a set that is over, accepted by the player who did not ask. `orphans`
are ready timers that a new set has replaced without stopping.

**TriggerWindow** is the resolution of events and triggered abilities. `stack` is the
pipeline: frames for `EventWindow`, for the trigger window it runs near its end, and
for `AbilityResolver`; a step that queues another pushes a frame. Steps that do
nothing in a window are skipped. Events are numbers with a status and the abilities
that listen to them; of the triggers a window has collected, `unresolved` says how often
each waits, since players pick any of theirs. What a card does in a handler is a choice: nothing, change
whether an ability has an effect, blank or move a card, defeat one (a sub-window
event), or open a window of either mode. `due`, `missed`, `times` and `excused` are
history, kept for the properties. The event that initiates an ability has no
listeners here and is a flag of its window.

**MCSnapshotManager, MCRoundFlow, MCUndoGame, MCTimedPrompts, MCQuickMatch,
MCBestOfThree, MCTriggerWindow** give constants their values for TLC.
MCRoundFlow also records what each player did last in the action phase, which
the rules speak of and the engine does not keep. Operators marked `variant`, or
"with a bug", are changed forms of the definition below them, a dropped guard or
a forgotten reset; each property is known to fail with one of them in place.

**SnapshotManagerProofs**, **RoundFlowProofs**, **UndoGameProofs**,
**TimedPromptsProofs**, **QuickMatchProofs**, **BestOfThreeProofs**,
**TriggerWindowProofs** and **TriggerHistoryProofs** hold the theorems.

## The runs

Type invariants that are proved for all constants are not run as well, except where
they say more than types (TriggerWindow: which window is current, and what lies on what).

| run | shows |
|---|---|
| `SnapshotManager` | The store driven in any order, with one player, histories of 2 and 1 and three snapshots: `RetainedOnTheLine`, `TimepointsNumberTheLine`, and that it implements TimelineHistory. |
| `RoundFlow` | Two rounds in either kind of format, up to four card actions with extra actions, up to two questions in every window: the action phase ends exactly when both players are done (`OverExactlyWhenBothAreDone`), `ClaimerIsOut`, `PlayersAlternate`, with three counters everybody leaves it with one (`OneCounterEach`), and every round is played (`EveryRoundIsPlayed`). |
| `UndoGameFree` | Two rollbacks in free mode, to any quick, action or phase snapshot, with triggers at the end of the action phase and the ready step: `NoEmptyUndo`, `WindowIsSnapshotted`, `PhaseStartsOnce`, `NothingKeptTwice`. |
| `UndoGameRequest` | One rollback in request mode, with a card action whose triggers prompt, up to two open requests, restores that may fail: `ActionUndoSparesAbilities`, `ConsentIsToWhatWasShown`. |
| `UndoGameConsent` | Request mode when windows reveal hidden information, restores fail and games end: `ActionUndoKeepsRevealed`; every allowed undo comes to its end (`AllowedUndoCompletes`); every step uses the store as SnapshotManager allows (`UndoUsesStore`), so that its theorems hold of the game. |
| `TimedPrompts` | Prompts, answers, messages, undo requests, rollbacks and cost recoveries in any order, with handlers on time: `PromptedPlayersAreTimed`, `OnlyPromptedPlayersLose`, `MainTimeNeverReturns`, `RefusedUndoGivesNoTime`, and a game whose players are gone ends (`AbsentPlayersLose`). |
| `QuickMatch` | Two players with two sockets and two requests each: `SeatsMatchUserLobbyMap`, `OnePlaceEach`, a grace timer spares whoever is back (`ReturnedKeepTheirPlace`), and a quick lobby comes to a game or an end (`QuickLobbiesEnd`). |
| `BestOfThree` | Every kind of lobby, a best of one or three, one drawn game a set: `GamesAreCounted`, `ChooserIsNotAhead`, `ConfirmationsAreCurrent`, `NobodyPlaysAlone`, `TransitionsFollowAnEnd`, and with timers nobody holds up a set, at the end of a game (`EndedGamesMoveOn`) or before the next (`ReadyPlayersMoveOn`). |
| `TriggerWindow` | An ability of each player, one followed by a "then" and one by an "if you do not", up to three events of which two are simultaneous, one change to a card: the current window is the innermost (`TriggerWindowTypeOK`), `TriggeredOnceIfDue`, nested triggers first and none lost (`NestedTriggersFirst`), `OnePlayerFirst`, defeats before sub-steps and triggers (`SubwindowEventsFirst`), `StartedGetNoTriggers`, and every window closes (`WindowsClose`). |

Three runs are expected to fail: each checks what a comment or a test of the
repository says, and TLC finds the code doing otherwise.

| run | statement | what happens |
|---|---|---|
| `FreeUndo` | An opponent's action that was revealed is not undone without consent (`UndoConfirmation.spec.ts:931,989`). | A player prompted at the start of the action phase (Grand Admiral Thrawn) gets a quick entry there. From their first action window the entry is two timepoints back, and `nextSnapshotIsSamePlayer` is true, because the start-of-phase snapshot already carries the initiative player as active. The whole first action of the opponent is undone for free. |
| `GhostInQueue` | A disconnected player is kept out of matching (`QueueHandler.spec.ts:154`). | A player who reconnected to a quick lobby has the default disconnect handler on the new socket. Put back into the queue, by their own wish or because the opponent dropped, they keep it; it does nothing for a user without a lobby (`GameServer.ts:3213`), so that the entry stays matchable after the socket has closed. |
| `EndedSetIsOver` | A decided set is not marked anew (`Lobby.ts:965`); the timer to the next game is for a set that is not complete (`Lobby.ts:2192`). | A player concedes the set during a game. The game is ended first and starts the transition timer; 30 seconds later the set that has ended moves on to its next game, because the timer looks for two wins only (`Lobby.ts:2398`). |

Where the guarantees end. Some constants and conditions of the passing runs mark
behaviour of the code that breaks a property beyond them; each is seen by changing
the line named.

- `Punctual = TRUE` in `TimedPrompts.cfg`. With FALSE, `OnlyPromptedPlayersLose`
  fails: an answer handled while the main timer is due does not stop it
  (`ByoyomiTimer.ts:177`), and the check that the player is still prompted is switched
  off (`GameActionTimer.ts:97`): who has answered loses.
- `MaxRequests = 1` there. With 2, `PromptedPlayersAreTimed` fails: a player who
  requests an undo while not prompted is flagged as paused with nothing to resume
  (`ByoyomiTimer.ts:193`), and is then asked to confirm the opponent's crossing
  request without a timer, until the next message.
- `UndoPastEnd = FALSE` there. With TRUE, `PromptedPlayersAreTimed` fails: a main
  timer that has fired is never started again, so after a loss on time that is
  undone the player is not timed beyond the turn time.
- Two players whose main timers run out at the same instant do not draw, as
  `Game.ts:904` means them to: no time left reads as null and is taken for the full
  limit (`ByoyomiTimer.ts:58`), so that the first handler to run decides.
- `AskingSteps = {"action"}` in `UndoGameRequest.cfg`. With `AskingSteps =
  {"endOfAction", "startOfRegroup"}`, `RevealingSteps = {"actionWindow"}` and `MaxUndos
  = 2` `ActionUndoSparesAbilities` fails. A rollback resets
  `requiresConfirmationToRollback` of the snapshot it leads to (`SnapshotFactory.ts:190`)
  and not its `nextSnapshotIsSamePlayer`, which then tells of the undone line. Of two
  actions in a row after the opponent's claim a player goes back to the first, with
  consent, and passes; the opponent resolves a trigger at the end of the phase. At a
  prompt at the start of the regroup phase the action is two timepoints back, the flag
  still says that the same player went on, and the undo is free, where
  `UndoConfirmation.spec.ts:530` asks for confirmation once the opponent has chosen.
- The exception for `rollbackToEndOfPhase` in `PhaseStartsOnce`: the start step is
  skipped for `RollbackToWithinPhase` only (`Phase.ts:46,51`), so that a rollback to
  the end of the action phase opens its `OnPhaseStarted` a second time.
- A free undo while a request is open clears the pipeline its confirmation prompt is on,
  and with it the one place that clears `undoConfirmationOpen`
  (`UndoConfirmationPrompt.js:52`): until another request has been answered both
  players are shown as waiting for confirmation and are offered no quick undo
  (`Game.ts:1932`). The model has it: `Undo` leaves the flag, and `Offered` is then
  empty, so that `NoEmptyUndo` says nothing there. `AllowedUndoCompletes` is about an
  undo that was allowed, whose prompt does complete; no property claims otherwise.
- `UndoMode = "free"` in `UndoGameFree.cfg`. Allowing an undo request runs the rollback,
  and the new pipeline up to its first prompt, inside the handler of the confirmation
  prompt (`Game.ts:2226`), which completes afterwards and puts back what it had covered
  (`UiPrompt.ts:85`): a resource prompt of the undone line, which `getQuickRollbackPoint`
  then asks who is done. In request mode with `AskingSteps = {"startOfRegroup"}` and
  `RevealingSteps = {"draws"}` a player done resourcing is led further back than
  `SnapshotManager.ts:323` says; with `MaxUndos = 2` `NoEmptyUndo` fails, because a player
  done in the undone line, and not in this one, is led to the present. Hence the
  condition of `UndosAreNotEmpty`, which says that it fails for no other reason.
- `RevealingSteps` in `UndoGameConsent.cfg`. With `AskingSteps = {"endOfAction"}`,
  `RevealingSteps = {"tearDown", "phaseEnded"}`, `MaxQuestions = 2` and `MaxUndos = 2`
  `ActionUndoKeepsRevealed` fails. After a rollback to the end of the action phase its
  windows open again with that snapshot the player's latest: what is revealed there flags
  it (`setRequiresConfirmationToRollbackCurrentSnapshot`) and not the action before, to
  which the player may go back without asking while the opponent is still prompted. This
  is the exception in `RevealedIsKept`.
- A rollback whose restore throws (`RestoreFails`) restores the current snapshot and
  not the state before the rollback: what happened since the timepoint is lost
  while pipeline and prompts stay. No property claims more.
- `endGame` flags the latest action snapshots only: an undo to an older one, from a
  game conceded in the mulligan say, is free. No property claims otherwise.
- When both players of a quick lobby are away at the last check, the warning says
  the lobby is removed and its users requeued (`Lobby.ts:712`); it is only removed.
  `QuickLobbiesEnd` claims no more.
- `OwnTimersOnly` in `GamesAreCounted` and `ConfirmationsAreCurrent`: a NewBo3 rematch
  replaces the ready timer without stopping it (`Lobby.ts:2325`), so that a timer of
  the old set may start or end a game of the new one.
- `Game.finishedAt` is not cleared when the end of a game is undone, so that a player
  who then concedes the set leaves its game going on (`Lobby.ts:961`). The model has
  it; no property claims otherwise.
- A concession does not stop the ready timer, which overwrites the result of the set
  (`Lobby.ts:2360`): another way to violate `EndedSetIsOver`.
- Without timers the second win of a set is never stored as its end
  (`isBo3SetComplete` is not called); the client counts wins (`SetIsOver`).
- `NobodyPlaysAlone` is limited to `undoMode = "Request"`: with free undo the player who
  is left may undo the end that the departure caused.
- A quick lobby with a deck that may not be played at the start of a later game is
  removed with no result of its set (`Lobby.ts:1481`).

### Bounds, and why they are enough

- Players: two, as in the engine. The store's containers for different players
  never read one another, so the store alone runs with one.
- History lengths are 3 and 2 in the UndoGame runs, as in the code. The store
  runs with 2 and 1, so that three snapshots overflow both.
- `MaxRounds` 1 in the undo runs: a game passes every phase and every kind of
  timepoint once, and setup before it; undo looks at most two quick entries back.
  Two rounds in RoundFlow show what one leaves behind for the next.
- `MaxActions` bounds the actions at which a player has a card to play; passes
  and claims are always possible. The runs with `MaxActions` 0 have windows
  opened after passes and claims only.
- `MaxUndos` 1 or 2: state that survives a rollback can mislead the next one,
  and two suffice for that. Free mode runs two.
- `MaxQuestions` bounds the players a window asks; one question is enough for
  either player to be prompted, two for one after the other.
- `AskingSteps` names the windows that may ask in a run. Each run takes those its
  properties are about: asking everywhere at once is beyond TLC.
- Two open requests, at most: each closes the ones above it, and a rollback all.
- `TurnLimit` 2 and `MainLimit` 3 with `DrawThreshold` 2: the timers only compare
  what is left with zero, with the threshold and with what it was, so a few ticks
  reach every case: before, at and after each stage, above and below the threshold.
- QuickMatch: two users meet in every way one lobby allows; two sockets each give a
  lost and a new connection, of which the new one may be lost as well, and which is
  enough for a player to come back during a game and to leave it for the queue from the
  new socket before the timer of the lost one fires; two requests
  let one wait for its deck while the player is matched on the other. One lobby per
  behaviour: what comes after it is a queue again. `ConnectChecks` 1 for 3.
- BestOfThree: scores are bounded by two wins and `MaxDraws`; the sets of a lobby
  repeat, and rematches start the next without bound.
- TriggerWindow: three events give a window, one nested in it, and one in that, or two
  simultaneous ones with a sub-window; both abilities listen to every event.
  `MaxChanges` 1 lets a card come, go or be blanked once between any two steps.
- `MaxRequests` 1 in TimedPrompts, for the reason given above. The theorems about timers hold for
  any number.
- Players are symmetric in the runs without liveness. Deadlock is checked
  everywhere but in SnapshotManager, whose ids run out, and in QuickMatch and
  BestOfThree, where everybody may leave for good. When its rounds are over
  the game goes on and the model stutters.

### Fairness

`RoundFairness`: the pipeline runs by itself, and a player at a prompt answers in
the end, since otherwise a timer ends the game. Weak fairness per player is enough:
nothing takes a prompt away from the player who has it. `UndoFairness` assumes
less: only that the pipeline runs and that a handler that has begun ends.
`AllowedUndoCompletes` therefore does not depend on anybody's cooperation.

`TimedSpec` assumes that the scheduler runs its tasks, `WF(TimePasses)`, and of the
players nothing. `AbsentPlayersLose` says that a game ends if from some time on
nobody sends a message, which is what justifies the answers in `RoundFairness`. It
does not say that a player who keeps sending messages without deciding anything
loses, although `Message` restarts no timer that runs.

`QuickMatchFairness` says that timers that are set fire: the ticks of a countdown, the
requeue two seconds after a drop, the grace timers. `BestOfThreeFairness` says it of
the two timers of a set. Neither assumes anything of the players.
`TriggerWindowSpec` assumes that the pipeline runs and that players answer its
prompts, which the action timers see to; that every window closes rests on the bound
on events, as it does on the cards in the game.

## What is proved

`SnapshotManagerProofs`, for any set of players, any game states with a phase and
an active player, any history lengths, any number of snapshots, and any order of
calls:

- `StoreTypeCorrect`: `ManagerSpec => []SnapshotTypeOK`;
- `NothingUndoneIsReachable`: `ManagerSpec => []RetainedOnTheLine`;
- `NumbersFollowTheLine`: `ManagerSpec => [](TimepointsNumberTheLine /\ CurrentIsNewest)`;
- `StoreImplementsHistory`: `ManagerSpec => ImplementsHistory`.

None of the first four formulas is inductive. A rollback takes the state, the id and
the number of a snapshot that some container holds, so that types after it need
`RetainedOnTheLine`; that the numbers still cover 0 to the last one needs their
order; and that the next number is above all others needs `CurrentIsNewest`. The
conjunction `StoreInv` is inductive. The proof splits it into `LineInv`, about the
heap and the counters, and `ContainersInv`, about what the containers hold:
`MoveKeepsLineInv` and `TakingKeepsContainersInv` then carry each step that grows
the store, `RestoreKeepsStoreInv` a rollback to any snapshot of the line,
`FlaggingKeepsStoreInv` the flags, and `RollbackGoesToTheLine` shows that every
kind of request leads to the line.

The refinement maps the recorded states, in the order of their timepoint numbers, to
the line of `TimelineHistory` (`Line`), and the numbers of what the containers hold to
its saved positions (`SavedPositions`). By `LineRecords` every number from 0 to the
last is that of exactly one snapshot. A step that grows the store then plays on or
records (`GrowingPlaysOrRecords`), a rollback takes back to the position of its
snapshot (`RollbackTakesBack`), and one that fails restarts the timepoint. The last
section of the module is about the bounded histories, for the proofs about UndoGame:
a full history never drops its newest entry, whatever is held is at an offset within
the limit, and no two ids are at the same point.
The assumption used is
`SnapshotManagerAssumption`: the timepoints include the start of a phase and the
limits are positive.

`RoundFlowProofs`, for any two players, any formats, numbers of rounds, actions
and questions, and whichever windows ask players something (`RoundFlowAssumption`):

- `RoundTypeCorrect`: `MCSpec => [](RoundTypeOK /\ ActionsAreBounded)`;
- `PhaseEndsWhenBothAreDone`: `MCSpec => []OverExactlyWhenBothAreDone`;
- `ClaimersStayOut`: `MCSpec => []ClaimerIsOut`;
- `TurnsAlternate`: `MCSpec => []PlayersAlternate`;
- `EachClaimsOneCounter`: `MCSpec => []OneCounterEach`.

The properties speak of what the players last did, the code of three flags.
`TurnOf` says what the flags tell of the last choices when it is a player's turn:
the opponent is in `passed` exactly when they claimed, `prevPassed` is set only
when they are done and clear only when they have not just passed. `TurnInv` states
it at the windows, and between a choice and the rotation of the player that
`NextActive` gives. The action number is bounded by the cards to play and one more
a round because a window is at the bound only when the opponent is done. `FlowInv`
says that windows are reached through `setupActionPhase` only, with an active
player. `RoundInv`, the conjunction with the types, is inductive: one lemma per
step that touches the turns, one for the quiet steps and one for the boundaries of
phases. `OneCounterEach` needs in addition which counters are claimed: `CounterInv`
counts them by the players whose last choice was to claim, and says that with more
than one counter to claim nobody has passed for good.

`UndoGameProofs`, for any windows that ask or reveal, any limits, both undo modes,
and restores that may fail (`UndoGameAssumption` and those above; `GameStates =
GameRecords` and `Timepoints = SnapshotTimepoint`, which make the store's states the
game's and are what every configuration sets):

- `UndoTypesCorrect`: `UndoSpec => [](RoundTypeOK /\ SnapshotTypeOK)`;
- `UndoUsesTheStore`: `UndoSpec => UndoUsesStore`;
- `UndoImplementsHistory`: `UndoSpec => ImplementsHistory`;
- `WindowsAreSnapshotted`: `UndoSpec => []WindowIsSnapshotted`;
- `NothingIsKeptTwice`: `UndoSpec => []NothingKeptTwice`;
- `ConsentIsKept`: `UndoSpec => ConsentIsToWhatWasShown`;
- `PhasesStartOnce`: `UndoSpec => []PhaseStartsOnce`, with `~RestoreMayFail`;
- `UndosAreNotEmpty`: `UndoSpec => [](stale = NoPrompt => NoEmptyUndo)`, and
  `FreeUndosAreNotEmpty`: `[]NoEmptyUndo` in free mode;
- `RevealedIsKept`: `UndoSpec => [](phaseObj.mode # "rollbackToEndOfPhase" =>
  ActionUndoKeepsRevealed)`, and `RevealedIsAlwaysKept`: `[]ActionUndoKeepsRevealed` if
  `tearDown` and `phaseEnded` reveal nothing;
- `AbilitiesAreSpared`: `UndoSpec => [](pc # "drawTwo" => ActionUndoSparesAbilities)`,
  and `AbilitiesAreAlwaysSpared`: `[]ActionUndoSparesAbilities` if the start of the
  regroup phase asks nothing.

A rollback may land in any snapshot that a container holds, so the present can be
known afterwards only by what is known of every snapshot. The inductive invariant
`UndoInv` therefore has a part for the past and a part for the present. `HeapInv`
says of each recorded state what its timepoint tells (an action snapshot is of a
player whose turn it was, with no action granted), and in whose containers it may be.
`MomentPart` says which timepoint the pipeline is at (`TimepointInv`), that between
two timepoints the game is as the current snapshot recorded it but for what the steps
in between may change (`MomentInv`), and what is not yet kept for anyone
(`UnkeptInv`). Reaching a timepoint makes a piece of the present part of the past; a
rollback makes a piece of the past present (`EntryPoint` of each kind of snapshot).
`RoundPart` and `StoreInv` are the invariants of the two halves, `ConsentInv` that an
open request still leads to what was shown, because nothing is taken or kept while a
confirmation prompt waits. TLC checked each layer on the three undo runs before it
was proved. `StartsInv` counts the starts of a phase by the timepoint of the
snapshot; it fails if a failed restore repeats the start, so that theorem has
the condition under which the property is run.

The last three pairs relate the snapshots to what players did since they were taken, and need
to know which line of timepoints they stand on. `HistoryPart` says so: by the
step of the pipeline, which timepoint was passed last (`PlaceInv`); which may follow
which, and what `nextSnapshotIsSamePlayer` says of the two (`LineOrder`, for the
snapshots still on the line: the flag of the last one may be of an undone line); and
that quick undo knows the start of every regroup phase and of each player every action
(`EntriesInv`). A proof about the history has five cases only, in which all steps fall
(`UndoStepKinds`): a timepoint is reached, a rollback, quick entries are kept, steps that
leave everything, and steps at a timepoint (`Stays`).

`UndoHistoryInv` is for what needs consent. What a player resolved at a timepoint is
in `resolved` (`ResolvedInv`), and an action at which the opponent did is flagged
(`AbilityFlagged`). What is revealed flags the latest action of whom it is revealed to,
so that of each earlier action it is known that it is flagged or that quick undo has a
newer entry (`InformedFlagged`); and quick undo reaches back one entry only
(`ActionIsNear`). Two timepoints back with the same player going on is then one's own
action, at which a free undo takes back nothing of the opponent's. Both arguments fail
where a phase ends, in the way listed under "Where the guarantees end", which is what
the conditions of the theorems are for.

`DecisionsInv` is for the difference between "current" and "previous". `DecidedBehind`
says that between an entry of quick undo and any later timepoint something was decided;
a resource selection counts only for whom it is an entry itself, since it follows the
start of the phase with no prompt in between unless a card asks. A window asks on behalf
of the timepoint it follows, and that timepoint becomes an entry of whoever was
prompted: so of those entries it is known that a player was asked (`AskedInv`), hence
has answered or is being asked (`WindowInv`), and past a prompt, a choice or an action
that somebody decided (`SettledInv`). "Previous" leads behind another entry; "current"
is only told where the present timepoint has been settled, or where the last entry is of
an earlier one (`UndoTakesSomethingBack`).

`TimedPromptsProofs`, for any two players, any limits and draw threshold, and any
number of open requests (`ByoyomiAssumption`, `TimedAssumption`):

- `TimersAreTyped`: `TimedSpec => []TimerTypeOK`;
- `MainTimeIsSpentOnce`: `TimedSpec => MainTimeNeverReturns`;
- `PunctualTimersSpareTheIdle`: `Punctual => (TimedSpec => OnlyPromptedPlayersLose)`;
- `PunctualTimersReachThePrompted`: `Punctual /\ ~UndoPastEnd /\ MaxRequests <= 1 =>
  (TimedSpec => []PromptedPlayersAreTimed)`;
- `RefusalsGiveNoTime`: `Punctual /\ ~UndoPastEnd /\ MaxRequests <= 1 =>
  (TimedSpec => RefusedUndoGivesNoTime)`.

`TimerTypeOK` is inductive by itself: each operation of a timer keeps it sound
(`OperationsAreSound`), hence so do `SetPrompt` and everything built from it. The
same shape gives the second theorem, with `MainTimeOnlyShrinks`. The third needs
more: that of the two stages of a timer one counts at most (`AllExclusive`), and
that, while the game goes on, the timer of a player who is not prompted does not
count (`IdleOutside`). Their conjunction `IdleInv` is inductive only if no message
is handled while a timer is due, since stopping a timer that is due does nothing.
The fourth has the conditions under which the property is run ("Where the guarantees
end"). `UiPrompt.setPrompt` starts a timer or leaves it alone by what the player's timer
is flagged as, so `ServedInv` says of the flags what it needs: while the game goes on no
main timer has fired, a prompted player's timer counts or is due and is not flagged as
paused, and of the others only one who asked for an undo may be, with something left to
resume if the prompt below is theirs (`Parked`). A rollback may pause a timer that
does not count; it sets the prompt twice, and the first time ends that pause.
The fifth needs in addition that who is prompted while no request is open was active
before it (`LastPrompted`): the timer of such a player is paused by the request and
resumed by its refusal, which leaves what it had (`PausingKeepsTime`).

`QuickMatchProofs`, for any set of users, sockets, lobbies and requests
(`QuickMatchAssumption`):

- `QuickMatchTypes`: `QuickMatchSpec => []QuickMatchTypeOK`;
- `SeatsAgree`: `QuickMatchSpec => []SeatsMatchUserLobbyMap`;
- `PlacesAreUnique`: `QuickMatchSpec => []OnePlaceEach`;
- `ReturnedAreSafe`: `QuickMatchSpec => ReturnedKeepTheirPlace`.

`QuickMatchInv` is inductive: besides types and the properties it says that sockets
and lobbies that do not exist yet have left no trace, that lobbies which are gone
hold nobody, and that a lobby about to requeue has one player at most. Each
operator of the code gets a lemma on what it keeps of these, some of which it breaks
for its caller to restore (a user is taken out of the map first and out of the lobby
next); the actions then follow from the lemmas of the operators they compose.

`BestOfThreeProofs`, for any two users, any kinds of lobby and number of draws
(`BestOfThreeAssumption`):

- `BestOfThreeTypes`: `BestOfThreeSpec => []BestOfThreeTypeOK`;
- `ScoreCountsGames`: `BestOfThreeSpec => []GamesAreCounted`;
- `NoStaleConfirmation`: `BestOfThreeSpec => []ConfirmationsAreCurrent`;
- `LeavingEndsTheGame`: `BestOfThreeSpec => []NobodyPlaysAlone`;
- `NoGameIsSkipped`: `BestOfThreeSpec => TransitionsFollowAnEnd`;
- `TheLeaderNeverChooses`: `BestOfThreeSpec => []ChooserIsNotAhead`.

The invariant `SetInv` has two parts: `LobbyInv`, which holds whatever timers are left
over, and `ScoreInv`, which ties the score to the number of the game, and pending
transitions and confirmations to a game that is over, as long as no timer of an
earlier set has expired.
The last theorem holds whatever timers have expired, and rests on an invariant of its
own, `ChooserInv`: the score with which the game on the table began (`Before`) is open,
or the winner of the last decided game has won as many as the other (`LoserIsBehind`);
the second only once no earlier timer runs that could start a game over one that is
over. Appending a result to an open score keeps the loser behind (`OneMoreGame`), an undo
gives back the score before it, and what `determineFirstPlayer` returns is behind
(`FirstPlayerIsBehind`).

`TriggerWindowProofs`, for any players, abilities, listeners, and any number of events
and changes (the four assumptions of TriggerWindow; there is no bound on how deep windows
nest):

- `PipelineFits`: `TriggerWindowSpec => []PipelineInv`;
- `TurnsAreTakenInOrder`: `TriggerWindowSpec => []OnePlayerFirst`.

`PipelineInv` says of each place of the stack what may lie there (`Fits`). A window that
has begun knows the window that began before it; the window that owns its triggers
passes none on and lies above every trigger window below it, so that what an ability
causes is dealt with in the trigger window above the one that ability came from. A
trigger window lies on its own window at its last step, a resolver of a trigger on a
trigger window whose turn is that of the trigger's player, and the trigger still waits.
Most steps change the top frame and what the current window or its owner has collected:
`StillFits` says when that may be done, `PushedFits` and `PoppedFits` when a
frame may be put on top or taken away. In TriggerWindow the triggers of a window are
counted per ability and event and not listed, because every property of a
sequence that is filtered would need induction over it.

`TriggerHistoryProofs`, with the same assumptions:

- `HistoryHolds`: `TriggerWindowSpec => []HistoryInv`;
- `TriggersOnceIfDue`: `TriggerWindowSpec => []TriggeredOnceIfDue`;
- `PipelineTypes`: `TriggerWindowSpec => []TriggerWindowTypeOK`;
- `StartedWindowsAreClosed`: `TriggerWindowSpec => StartedGetNoTriggers`;
- `FutureHolds`: `TriggerWindowSpec => []FutureInv`;
- `NestedTriggersComeFirst`: `TriggerWindowSpec => []NestedTriggersFirst`;
- `SubwindowsComeFirst`: `TriggerWindowSpec => []SubwindowEventsFirst`.

That an ability triggers once does not follow from the check of `seen` alone: the same
event is emitted twice, by a window that may have passed its triggers to another, and
each window has a `seen` of its own. `HistoryInv` says therefore where each event is:
in one place (`InPlace`), of the window that resolves it, in its sub-window, or queued
by one of its handlers; nobody has heard of the events still ahead (`InUse`); of those
a window has emitted, its owner has seen every trigger that waits or was resolved, has
marked those that were missed, and no other window has seen any (`OwnersKnow`); and a
trigger that waits has not been resolved (`SeenOnce`). Windows hand events to each
other, a sub-window's to a window of its own or to the parent; `WindowGoesOn`,
`WindowOpens`, `WindowsRemain` and `EmissionHistory` are the four ways a step may do so.

The history says where events are, not that they get anywhere. `FutureInv` adds what has
yet to happen. An event that has not happened is one a window on the stack will come to
(`Placed`), and a due trigger waits until it has been resolved or excused (`Dealt`); this
rests on how each window stands (`Paced`): one past its events has left none undone
(`Orderly`), and of one under another frame the sub-window has happened or is that frame
(`Bears`). A trigger that a window marks as missed is missed by the event, too, as long
as that event has a future (`MissedMatch`): otherwise the second emission could pass over
a due one. A trigger window may drop triggers of events that did not happen because none
of those still will (`WaitingHaveHappened`), and the rest only when none can have an
effect (`DroppedAreExcused`). TLC checked `Future` on all states of the run
before it was proved; it gives `NestedTriggersFirst` in every state, not only when a
trigger window goes on.

Only model-checked: liveness, which the prover does not reach (`EveryRoundIsPlayed`,
`AllowedUndoCompletes`, `AbsentPlayersLose`, `QuickLobbiesEnd`, `EndedGamesMoveOn`,
`ReadyPlayersMoveOn`, `WindowsClose`). Every safety property of a passing run is a
theorem, some of them with the conditions named above.

## What is left out

- In RoundFlow: additional regroup phases, the OnBeginRound,
  OnPassActionPhasePriority and OnRoundEnded windows, `mustTakeCardAction`,
  prompted action windows that are switched off. The order in which simultaneous
  triggers resolve is left to TriggerWindow, which is not composed with it.
- In UndoGame: cost payment recovery (`Game.ts:2057`), switching the undo mode
  during a game, manual bookmarks (the server makes none; SnapshotManager has
  them), and in request mode rollbacks other than quick ones, which the client
  does not offer.
- In SnapshotManager: game objects that are created, removed or collected; the
  state is one record.
- In the timers: what warnings and status a client is sent, `restartIfRunning` and
  `restartAllActionTimers`, which nothing calls, requests made from inside the menu
  of a cost recovery. The timers of a lobby are in BestOfThree and QuickMatch. Successive prompts to the same player share
  one turn time, as in the code; the remark in `ByoyomiTimer.ts:10` that it resets
  on each new prompt is not checked.
- In QuickMatch: which players may match and when (`MatchmakingRules`, previous
  opponents, preferences), spectators, private and public lobbies, the rejoin of a
  lobby that has been inactive for a minute, moderation, shutdown. Deck validation is
  a choice. A request to requeue is always granted: `requeueUser` refuses it while
  games are disabled (`GameServer.ts:3103`) or without a deck (`GameServer.ts:3109`),
  leaving everything as it is; when a lobby does it for the player who is left, that
  player then is in no queue.
- In BestOfThree: spectators, chat, muting, statistics (those of a game that ended
  again after an undo are not sent anew), sockets, which QuickMatch has, and requests no client
  makes. The clocks of the game on the table are not modelled any further once an
  orphaned timer has put another game in its place.
- In TriggerWindow: collective triggers, grouping and batch prompts, limits, delayed
  effects, the resolution of the replacement window itself and contingent events, the
  unique rule's and shields' own events, last known information. The "then" that
  would follow a declined optional ability is left out as well: no shipped card has one. An error thrown in a step (`BaseStepWithPipeline.ts:11`) drops the
  rest of its window without `cleanup`; handlers do not throw here.
- Card implementations, costs and ongoing effects: about two thousand declarative
  files, most of the lines of the repository. Each is data for the windows above, and
  has its own tests; there is no state machine in them that the modules here do not
  have.
- Services (database, users, decks, statistics): I/O and validation.

## Plan

In this order; done are 1 to 11.

1. `GameState`, `SnapshotManager`, `TimelineHistory`: the store and its promise.
2. `RoundFlow`: rounds without undo.
3. `UndoGame`: both composed, with consent.
4. `SnapshotManagerProofs`: the invariants of the store, for all constants.
5. `RoundFlowProofs`: types and turn order for all constants.
6. `ByoyomiTimer`, `TimedPrompts`, `TimedPromptsProofs`: the timers of the players
   and what prompts do to them.
7. `QuickMatch`, `QuickMatchProofs`: the queue, matching, disconnects and requeues.
8. `BestOfThree`, `BestOfThreeProofs`: sets, their timers and undone ends.
9. `TriggerWindow`: simultaneous triggers and nested windows.
10. `TriggerWindowProofs`, `TriggerHistoryProofs`: the shape of the pipeline and where
    events and triggers are, and that none is lost, for all constants.
11. `UndoGameProofs`: the refinement of TimelineHistory step by step, and the
    invariants of UndoGame strengthened until they are inductive, up to what had been
    decided and shown since each snapshot.
12. `AdditionalPhases`: extra regroup phases and how a rollback rebuilds them; cost
    payment recovery in UndoGame.
13. `GamePipeline`: steps that queue or clear steps while they run, against a
    stack as its abstract specification; errors thrown in a step.
