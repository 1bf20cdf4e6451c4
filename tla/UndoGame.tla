------------------------------ MODULE UndoGame ------------------------------
(***************************************************************************)
(* The game with undo: RoundFlow drives the store of SnapshotManager, and  *)
(* the players ask for rollbacks (Game.rollbackToSnapshot), freely or with *)
(* the opponent's consent (UndoConfirmationPrompt).  A rollback restores   *)
(* Game.state from a snapshot and rebuilds the pipeline at the step that   *)
(* follows the snapshot's timepoint; what is not part of Game.state (who   *)
(* was prompted, who resolved an ability, the open requests) stays as it   *)
(* was, and that is where the two halves of the system can disagree.       *)
(***************************************************************************)
EXTENDS RoundFlow, SnapshotManager

CONSTANTS
  UndoMode,          \* "free" or "request" (UndoMode.Disabled takes no snapshot)
  FreeUndoLimit,     \* uses of PerGameUndoLimit, 1 in the code
  GamesEnd,          \* BOOLEAN: a player may win or concede while the players go on
  RevealingSteps,    \* steps (values of pc) in which hidden information may be revealed
  RestoreMayFail,    \* BOOLEAN: restoring the state of an object may throw
  MaxUndos           \* bound of the model: rollbacks carried out

ASSUME UndoGameAssumption ==
  /\ UndoMode \in {"free", "request"}
  /\ FreeUndoLimit \in Nat /\ MaxUndos \in Nat
  /\ GamesEnd \in BOOLEAN /\ RestoreMayFail \in BOOLEAN

VARIABLES
  resolved,               \* players with hasResolvedAbilityThisTimepoint
  freeUndos,              \* uses of the free undo limit per player
  requests,               \* the UndoConfirmationPrompts on the pipeline, the open one last:
                          \* by whom, the point captured, and (history) where it led then
  undoConfirmationOpen,
  rejected,               \* rejectedOpponentUndoRequests of each player, up to 2
  blocked,                \* players with undoRequestsBlocked
  unwinding,              \* the prompt an allowed request returns to, or NoPrompt
  stale,                  \* a finished prompt currentlyResolving.openPrompt still holds, or NoPrompt
  undos,                  \* rollbacks carried out (bound of the model)
  decided,                \* history: who decided something at each timepoint of the line,
                          \* and whether an ability of theirs had resolved by then
  informed,               \* history: to whom something was revealed at each timepoint
  firstAsked              \* history: whom the window that follows a timepoint asks first

consentVars == <<freeUndos, requests, undoConfirmationOpen, rejected, blocked>>
historyVars == <<decided, informed, firstAsked>>
undoVars == <<consentVars, resolved, unwinding, stale, undos, historyVars>>
undoGameVars == <<roundVars, snapshotVars, undoVars>>

NoPrompt == [active |-> {}, done |-> {}, some |-> FALSE]
Prompt(active, finished) == [active |-> active, done |-> finished, some |-> TRUE]

UndoInit ==
  /\ RoundInit
  /\ SnapshotInit
  /\ resolved = {}
  /\ freeUndos = [p \in Players |-> 0]
  /\ requests = <<>>
  /\ undoConfirmationOpen = FALSE
  /\ rejected = [p \in Players |-> 0]
  /\ blocked = {}
  /\ unwinding = NoPrompt
  /\ stale = NoPrompt
  /\ undos = 0
  /\ decided = [id \in {} |-> {}]
  /\ informed = [id \in {} |-> {}]
  /\ firstAsked = [id \in {} |-> NoPlayer]

-----------------------------------------------------------------------------
(* What players see *)

PromptedAll == {"mulligan", "setupResource", "regroupResource"}

\* The pipeline stops here for an answer.
Waiting == asking # <<>> \/ pc \in PromptedAll \cup {"actionWindow"}

\* Players may act: no confirmation prompt covers the prompts of the game, and no
\* rollback is under way.
Playing == requests = <<>> /\ unwinding = NoPrompt

\* getCurrentOpenPrompt: the prompt last put up, unless an allowed undo request
\* has left a prompt of the undone line in its place.
OpenGamePrompt ==
  IF stale.some THEN stale
  ELSE IF asking # <<>> THEN Prompt({Head(asking)}, {})
  ELSE IF pc = "actionWindow" THEN Prompt({game.active}, {})
  ELSE Prompt(Players \ done, done)

\* promptState.promptType of p, as far as getQuickRollbackPoint looks at it.
PromptType(p) ==
  IF requests # <<>> \/ asking # <<>> THEN "other"
  ELSE IF pc = "actionWindow" /\ p = game.active THEN "actionWindow"
  ELSE IF pc \in {"setupResource", "regroupResource"} THEN "resource"
  ELSE "other"

RollbackPoint(p) == QuickRollbackPoint(p, PromptType(p), p \in OpenGamePrompt.done)

SnapshotTellsOpponentActed(id) == OpponentActedSince(id)   \* variant: the flag is not looked at

\* getQuickRollbackInformation
SnapshotNeedsConfirmation(id) == OpponentActedSince(id) \/ snapshots[id].requiresConfirmation

\* Variant: abilities the opponent has resolved at this timepoint do not count.
NeedsConfirmationByTurns(p, id) ==
  UndoMode = "request" /\ (SnapshotNeedsConfirmation(id) \/ freeUndos[p] >= FreeUndoLimit)

\* confirmationRequiredForRollback, for a snapshot p would go back to
NeedsConfirmation(p, id) ==
  /\ UndoMode = "request"
  /\ \/ SnapshotNeedsConfirmation(id)
     \/ freeUndos[p] >= FreeUndoLimit
     \/ /\ ~(game.phase = "action" /\ game.active = p)
        /\ Opponent(p) \in resolved

-----------------------------------------------------------------------------
(* The game goes on *)

Decides(p, ability) ==
  decided' = IF currentId = NoSnapshot THEN decided
             ELSE [decided EXCEPT ![currentId] = @ \cup {[by |-> p, ability |-> ability]}]

\* Nothing has happened at a timepoint just reached.
WithTimepoint(history) ==
  [id \in DOMAIN history \cup {currentId'} |-> IF id = currentId' THEN {} ELSE history[id]]

\* Something is revealed to players, whose latest snapshots then need consent.
Reveal(players) ==
  /\ RequireConfirmation(players)
  /\ informed' = IF currentId = NoSnapshot THEN informed
                 ELSE [informed EXCEPT ![currentId] = @ \cup players]

\* A prompt left behind is replaced once the prompt that hides it is over.
StaleWhile(samePrompt) == stale' = IF samePrompt THEN stale ELSE NoPrompt

FirstOf(questions) == IF questions = <<>> THEN NoPlayer ELSE Head(questions)

\* A window that opens right after its timepoint asks the same player first when a
\* rollback leads there: the state it opens in is the same, the random generator
\* (SnapshotContainerBase.ts:77) included.
AsksAsBefore(id) ==
  /\ id \in DOMAIN firstAsked => FirstOf(asking') = firstAsked[id]
  /\ firstAsked' = [other \in DOMAIN firstAsked \cup {id} |->
                      IF other = id THEN FirstOf(asking') ELSE firstAsked[other]]

\* Steps of the pipeline that reach no timepoint and keep no snapshot.
PlainStep ==
  /\ \/ /\ StartPhase
        /\ IF phaseObj.mode = "rollbackToEndOfPhase" THEN UNCHANGED firstAsked
           ELSE AsksAsBefore(currentId)
     \/ (SetCurrentPhase \/ BeginRound) /\ UNCHANGED firstAsked
     \/ /\ \/ OpenMulliganPrompt \/ OpenSetupResourcePrompt \/ OpenResourcePrompt
           \/ RotateActivePlayer \/ TearDownActionPhase
        /\ UNCHANGED firstAsked
  /\ UNCHANGED <<snapshotVars, resolved, decided, informed>>

OpensAgainAtActions == CurrentTimepoint = "action"   \* variant: any action is taken for this one

\* Whether the window was opened at this action before is told by the number of
\* the current snapshot (checkUpdateSnapshot).
OpensAgain == /\ CurrentTimepoint = "action"
              /\ snapshots[currentId].state.actionNumber = game.actionNumber

\* Steps that reach a timepoint: the snapshot is taken before the step's own changes.
TimepointStep ==
  /\ \/ /\ \/ StartOfPhaseSnapshot /\ ReachStartOfPhase(phaseObj.name)
           \/ SnapshotBeforeMulligan /\ ReachTimepoint("mulligan", Players)
           \/ SnapshotBeforeResource /\ ReachTimepoint("setupResource", Players)
           \/ OpenActionWindow /\ ~OpensAgain /\ ReachTimepoint("action", {game.active})
           \/ /\ DrawTwo
              /\ ReachTimepoint("regroupResource",
                                IF phaseObj.mode = "rollbackToWithinPhase" THEN {} ELSE prompted)
        /\ UNCHANGED firstAsked
     \/ /\ \/ /\ EndPhase /\ phaseObj.mode # "rollbackToEndOfPhase"
              /\ ReachTimepoint("endOfPhase", {})
           \/ ReadyAllCards /\ TakesReadySnapshots /\ ReachTimepoint("regroupReadyCards", {})
        /\ AsksAsBefore(currentId')
  /\ resolved' = {}
  /\ decided' = WithTimepoint(decided)
  /\ informed' = WithTimepoint(informed)

\* The same steps when a rollback has led to their timepoint.
RepeatedStep ==
  /\ \/ OpenActionWindow /\ OpensAgain /\ UNCHANGED firstAsked
     \/ /\ \/ EndPhase /\ phaseObj.mode = "rollbackToEndOfPhase"
           \/ ReadyAllCards /\ ~TakesReadySnapshots
        /\ AsksAsBefore(currentId)
  /\ UNCHANGED <<snapshotVars, resolved, decided, informed>>

\* Steps that keep the present timepoint for the players prompted since it was
\* reached (takeActionSnapshotsForPromptedPlayers, setupActionPhase).
KeepingStep ==
  /\ \/ PhaseEnded /\ KeepTimepoint(IF TakesEndSnapshots THEN prompted ELSE {})
     \/ CardsReadied /\ KeepTimepoint(IF TakesReadySnapshots THEN prompted ELSE {})
     \/ /\ SetupActionPhase
        /\ AddQuickStartOfActionSnapshots(IF phaseObj.mode = "normal" THEN prompted ELSE {})
  /\ UNCHANGED <<resolved, historyVars>>

\* Cards are drawn: by both players at the start of regroup, by those who took a
\* mulligan once the prompt is over.  Who draws needs consent to undo it.
DrawingStep ==
  /\ Draws
  /\ \E players \in IF pc \in RevealingSteps THEN SUBSET Players ELSE {{}} : Reveal(players)
  /\ UNCHANGED <<resolved, decided, firstAsked>>

FirstPlayerStep ==
  /\ ChooseFirstPlayer
  /\ \E p \in Players : Decides(p, FALSE)
  /\ UNCHANGED <<snapshotVars, resolved, informed, firstAsked>>

PipelineStep ==
  /\ requests = <<>>
  /\ ~Waiting
  /\ \/ PlainStep \/ TimepointStep \/ RepeatedStep \/ KeepingStep \/ DrawingStep \/ FirstPlayerStep
  /\ StaleWhile(FALSE)
  /\ UNCHANGED <<consentVars, unwinding, undos>>

\* What p's cards reveal to p may need consent to be undone.
RevealedTo(p) == IF pc \in RevealingSteps THEN {{}, {p}} ELSE {{}}

PlayerChoice(p) ==
  /\ Playing
  /\ \/ /\ Mulligan(p)
        /\ IF done' = {} /\ pc \in RevealingSteps
           THEN \E players \in SUBSET Players : Reveal(players)
           ELSE UNCHANGED <<snapshotVars, informed>>
        /\ UNCHANGED resolved
     \/ /\ SetupResource(p) \/ RegroupResource(p) \/ Pass(p)
        /\ UNCHANGED <<snapshotVars, resolved, informed>>
     \/ /\ TakeCardAction(p)
        /\ \E players \in RevealedTo(p) : Reveal(players)
        /\ resolved' = resolved \cup {p}
     \/ /\ \E counter \in game.counters : ClaimCounter(p, counter)
        /\ \E players \in RevealedTo(p) : Reveal(players)
        /\ UNCHANGED resolved
  /\ Decides(p, p \in resolved')
  /\ StaleWhile(pc' = pc)
  /\ UNCHANGED <<consentVars, unwinding, undos, firstAsked>>

\* An answer to a trigger's question: it resolves an ability, perhaps the
\* player's own, and when the active player is the other one it is new
\* information (setRollbackConfirmation).  After a claim the opponent is asked only
\* by what an ability of the claimer did.
AnswerQuestion ==
  /\ Playing
  /\ Answer
  /\ LET p == Head(asking)
         acting == IF game.active = NoPlayer THEN {} ELSE {game.active} \ {p}
     IN /\ \E players \in RevealedTo(p) : Reveal(players \cup acting)
        /\ resolved' \in {resolved, resolved \cup {p}}
        /\ pc = "rotate" /\ p = game.active /\ p \in game.passed /\ Opponent(p) = FirstOf(asking')
             => p \in resolved'
        /\ Decides(p, p \in resolved')
  /\ StaleWhile(FALSE)
  /\ UNCHANGED <<consentVars, unwinding, undos, firstAsked>>

\* A player concedes or wins; the players may stay and play on.
EndGame ==
  /\ GamesEnd /\ Waiting /\ unwinding = NoPrompt
  /\ ~game.ended
  /\ game' = [game EXCEPT !.ended = TRUE]
  /\ RequireConfirmation(Players)
  /\ UNCHANGED <<flowVars, undoVars>>

-----------------------------------------------------------------------------
(* Rolling back *)

\* getEntryPointAfterRollback, and the phase the pipeline is rebuilt with.
EntryPoint(snapshot) ==
  CASE snapshot.timepoint = "mulligan" ->
         [name |-> "setup", mode |-> "rollbackToWithinPhase", first |-> "mulliganPrompt"]
    [] snapshot.timepoint = "setupResource" ->
         [name |-> "setup", mode |-> "rollbackToWithinPhase", first |-> "setupResourcePrompt"]
    [] snapshot.timepoint = "action" ->
         [name |-> "action", mode |-> "rollbackToWithinPhase", first |-> "queueNextAction"]
    [] snapshot.timepoint = "regroupResource" ->
         [name |-> "regroup", mode |-> "rollbackToWithinPhase", first |-> "drawTwo"]
    [] snapshot.timepoint = "regroupReadyCards" ->
         [name |-> "regroup", mode |-> "rollbackToWithinPhase", first |-> "readyAllCards"]
    [] snapshot.timepoint = "startOfPhase" ->
         [name |-> snapshot.state.phase, mode |-> "rollbackToStartOfPhase",
          first |-> FirstStep[snapshot.state.phase]]
    [] snapshot.timepoint = "endOfPhase" ->
         [name |-> snapshot.state.phase, mode |-> "rollbackToEndOfPhase", first |-> "tearDown"]

\* rollbackToSnapshotInternal and postRollbackOperations; every confirmation
\* prompt goes with the old pipeline.
RollBack(id) ==
  /\ Restore(id)
  /\ phaseObj' = EntryPoint(snapshots[id])
  /\ pc' = "setCurrentPhase"
  /\ done' = {}
  /\ asking' = <<>>
  /\ requests' = <<>>
  /\ decided' = [other \in UpTo(DOMAIN decided, id) |->
                   IF other = id THEN {} ELSE decided[other]]
  /\ informed' = [other \in UpTo(DOMAIN informed, id) |-> IF other = id THEN {} ELSE informed[other]]
  /\ firstAsked' = [other \in UpTo(DOMAIN firstAsked, id) |-> firstAsked[other]]
  /\ UNCHANGED <<prompted, resolved>>

\* Variant: the containers are cleared before the restore is known to have worked.
RollBackFailsCleared ==
  /\ RestoreMayFail
  /\ currentId # NoSnapshot
  /\ game' = snapshots[currentId].state
  /\ quickSnapshots' = [p \in Players |-> {}]
  /\ UNCHANGED <<factoryVars, actionSnapshots, phaseSnapshots, manualSnapshots,
                 flowVars, resolved, historyVars>>

\* The restore throws, the present timepoint is restored, and the rest stays.
RollBackFails ==
  /\ RestoreMayFail
  /\ RestoreFails
  /\ UNCHANGED <<flowVars, resolved, historyVars>>

\* The snapshots p can ask for: by quick undo, and in free mode also from the
\* histories of actions and phases.
UndoTargets(p) ==
  {e.id : e \in QuickTargets(p, RollbackPoint(p))}
    \cup IF UndoMode = "free"
         THEN actionSnapshots[p] \cup UNION {phaseSnapshots[ph] : ph \in Phases}
         ELSE {}

MayUndo == Waiting /\ unwinding = NoPrompt /\ undos < MaxUndos

\* rollbackToSnapshot without a confirmation.
Undo(p, id) ==
  /\ MayUndo
  /\ ~NeedsConfirmation(p, id)
  /\ undos' = undos + 1
  /\ \/ /\ RollBack(id)
        /\ stale' = NoPrompt
        /\ freeUndos' = IF UndoMode = "request" THEN [freeUndos EXCEPT ![p] = @ + 1] ELSE freeUndos
     \/ /\ RollBackFails
        /\ UNCHANGED <<requests, stale, freeUndos>>
  /\ UNCHANGED <<undoConfirmationOpen, rejected, blocked, unwinding>>

\* rollbackToSnapshot with one: where the undo leads is settled now.
RequestUndo(p) ==
  /\ MayUndo /\ Len(requests) < 2
  /\ p \notin blocked
  /\ \E e \in QuickTargets(p, RollbackPoint(p)) :
       /\ NeedsConfirmation(p, e.id)
       /\ requests' = Append(requests, [by |-> p, point |-> RollbackPoint(p), shown |-> e.id])
  /\ undoConfirmationOpen' = TRUE
  /\ prompted' = prompted \cup {Opponent(p)}
  /\ UNCHANGED <<game, pc, phaseObj, done, asking, snapshotVars, freeUndos, rejected, blocked,
                 resolved, unwinding, stale, undos, historyVars>>

Request == requests[Len(requests)]
Earlier == SubSeq(requests, 1, Len(requests) - 1)

\* The prompt that was open when the confirmation prompt was put up.
PreviousPrompt == IF Earlier = <<>> THEN OpenGamePrompt
                  ELSE Prompt({Opponent(Earlier[Len(Earlier)].by)}, {})

\* Variant: what is offered now, not what was offered when the request was made.
ConsentedTargetsNow == QuickTargets(Request.by, RollbackPoint(Request.by))
ConsentedTargets == QuickTargets(Request.by, Request.point)

\* Allow runs the rollback, and the new pipeline up to its first prompt, inside
\* the handler of the old prompt.
AllowUndo ==
  /\ requests # <<>> /\ undos < MaxUndos
  /\ undos' = undos + 1
  /\ \/ /\ \E e \in ConsentedTargets : RollBack(e.id)
        /\ unwinding' = PreviousPrompt
        /\ UNCHANGED <<undoConfirmationOpen, stale>>
     \/ /\ RollBackFails
        /\ requests' = Earlier
        /\ undoConfirmationOpen' = FALSE
        /\ UNCHANGED <<unwinding, stale>>
  /\ UNCHANGED <<freeUndos, rejected, blocked>>

\* Variant: HandlerMenuPrompt.complete is not overridden.
CompletePrompt ==
  /\ unwinding # NoPrompt /\ Waiting
  /\ prompted' = prompted \cup unwinding.active
  /\ stale' = unwinding
  /\ unwinding' = NoPrompt
  /\ UNCHANGED <<game, pc, phaseObj, done, asking, snapshotVars, consentVars, resolved, undos, historyVars>>

\* Then the old prompt completes, and puts the one before it back in place.
CompleteConfirmation ==
  /\ unwinding # NoPrompt /\ Waiting
  /\ undoConfirmationOpen' = FALSE
  /\ prompted' = prompted \cup unwinding.active
  /\ stale' = unwinding
  /\ unwinding' = NoPrompt
  /\ UNCHANGED <<game, pc, phaseObj, done, asking, snapshotVars, freeUndos, requests, rejected,
                 blocked, resolved, undos, historyVars>>

CloseRequest == /\ requests' = Earlier
                /\ undoConfirmationOpen' = FALSE
                /\ UNCHANGED <<roundVars, snapshotVars, freeUndos, resolved, unwinding, stale, undos, historyVars>>

DenyUndo ==
  /\ requests # <<>>
  /\ LET responder == Opponent(Request.by)
     IN rejected' = [rejected EXCEPT ![responder] = IF @ < 2 THEN @ + 1 ELSE @]
  /\ CloseRequest
  /\ UNCHANGED blocked

\* Offered after two rejections.
DenyAndBlock ==
  /\ requests # <<>>
  /\ rejected[Opponent(Request.by)] >= 2
  /\ blocked' = blocked \cup {Request.by}
  /\ CloseRequest
  /\ UNCHANGED rejected

-----------------------------------------------------------------------------
UndoNext ==
  \/ PipelineStep
  \/ \E p \in Players : PlayerChoice(p)
  \/ AnswerQuestion
  \/ EndGame
  \/ \E p \in Players : \E id \in UndoTargets(p) : Undo(p, id)
  \/ \E p \in Players : RequestUndo(p)
  \/ AllowUndo \/ CompleteConfirmation \/ DenyUndo \/ DenyAndBlock

\* The pipeline runs by itself up to a prompt, and a handler to its end.
UndoFairness == WF_undoGameVars(PipelineStep) /\ WF_undoGameVars(CompleteConfirmation)

UndoSpec == UndoInit /\ [][UndoNext]_undoGameVars /\ UndoFairness

-----------------------------------------------------------------------------
(* What must hold of the game with undo *)

\* What was decided after a snapshot was taken and before now.
DecidedSince(id) == UNION {decided[other] : other \in {o \in DOMAIN decided : o >= id}}

\* To whom something was revealed since then.
InformedSince(id) == UNION {informed[other] : other \in {o \in DOMAIN informed : o >= id}}

\* The opponent of p resolved an ability since then.
OpponentResolvedSince(p, id) == \E d \in DecidedSince(id) : d.by # p /\ d.ability

\* The quick undo offered to p (hasAvailableQuickSnapshot), no request being open.
Offered(p) == IF MayUndo /\ requests = <<>> /\ ~undoConfirmationOpen
              THEN {e.id : e \in QuickTargets(p, RollbackPoint(p))}
              ELSE {}

\* A quick undo always takes back something that somebody decided: "current" and
\* "previous" are never mixed up so that undo leads to where the game stands.
NoEmptyUndo == \A p \in Players : \A id \in Offered(p) : DecidedSince(id) # {}

\* Going back to an action without asking takes back no ability the opponent has
\* resolved: a quick undo to an action snapshot that needs no confirmation undoes
\* what the opponent has revealed nothing by.
ActionUndoSparesAbilities ==
  UndoMode = "request" =>
    \A p \in Players : \A id \in Offered(p) :
      snapshots[id].timepoint = "action" /\ ~NeedsConfirmation(p, id)
        => ~OpponentResolvedSince(p, id)

\* An action in which the opponent has resolved an ability is not taken back without
\* asking, wherever the undo leads (UndoConfirmation.spec.ts:931,989: if the player's
\* action has been revealed by playing a card, the opponent requires confirmation).
FreeUndoSparesActions ==
  UndoMode = "request" =>
    \A p \in Players : \A id \in Offered(p) :
      ~NeedsConfirmation(p, id) =>
        \A o \in DOMAIN decided :
          o >= id /\ snapshots[o].timepoint = "action" =>
            \A d \in decided[o] : d.ability => d.by = p

\* What was revealed to a player cannot be taken back without consent: a quick undo
\* to an action before it was revealed needs confirmation.
ActionUndoKeepsRevealed ==
  UndoMode = "request" =>
    \A p \in Players : \A id \in Offered(p) :
      snapshots[id].timepoint = "action" /\ p \in InformedSince(id) => NeedsConfirmation(p, id)

\* At every action window, whatever rollback led to it, the current snapshot is the
\* active player's own of this very moment: undoing the action restores it.
WindowIsSnapshotted ==
  pc = "actionWindow" /\ asking = <<>> =>
    /\ CurrentTimepoint = "action"
    /\ [snapshots[currentId].state EXCEPT !.ended = game.ended] = game
    /\ IsLatest(currentId, actionSnapshots[game.active])
    /\ game.active \notin game.passed

\* At every prompt the start-of-phase triggers of the phase have resolved exactly
\* once on the line of play that led there, whatever was undone on the way, except
\* after a rollback to the end of the action phase.
PhaseStartsOnce ==
  Waiting /\ phaseObj.mode # "rollbackToEndOfPhase" => game.starts = 1

\* A timepoint is kept for a player at most once, so that Previous is one timepoint
\* before Current (and so that an array can be modelled as a set of ids).
NothingKeptTwice ==
  \A p \in prompted :
    /\ (pc = "phaseEnded" /\ TakesEndSnapshots) \/ (pc = "cardsReadied" /\ TakesReadySnapshots) =>
         /\ currentId \notin actionSnapshots[p]
         /\ \A e \in quickSnapshots[p] : e.id # currentId
    /\ pc = "setupActionPhase" /\ phaseObj.mode = "normal" =>
         \A e \in quickSnapshots[p] : e.id # currentId

\* A confirmed undo goes back to the snapshot it led to when it was requested, the
\* one the opponent was asked about, whatever prompt is shown by then.
ConsentIsToWhatWasShown ==
  [][requests # <<>> /\ unwinding' # unwinding => currentId' = Request.shown]_undoGameVars

\* An allowed undo comes to its end: the rebuilt pipeline stops at a prompt (or at
\* the bound of the model) and the flag that disables further undos is cleared.
AllowedUndoCompletes ==
  unwinding.some ~> (~unwinding.some /\ ~undoConfirmationOpen) \/ pc = "beginRound"

\* Every step of the game with undo is a step of the store or leaves it alone: what
\* holds of SnapshotManager for any use holds of this use.
UndoUsesStore == ManagerSpec
=============================================================================
