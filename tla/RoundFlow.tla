----------------------------- MODULE RoundFlow -----------------------------
(***************************************************************************)
(* The pipeline of a game without undo: setup, then rounds of an action    *)
(* phase and a regroup phase (Game.ts, gameSteps/phases, ActionWindow).    *)
(* A phase is an object that walks through its steps; pc is the step the   *)
(* pipeline is at.  A step runs to its end, and the pipeline then stops    *)
(* only where a player is prompted: in the action window, in the mulligan  *)
(* and resource prompts, and wherever the triggers of an event window ask  *)
(* players something.  What cards do is abstracted to whom they ask, and   *)
(* to whether they give another action.                                    *)
(***************************************************************************)
EXTENDS Integers, FiniteSets, Sequences, GameState

CONSTANTS
  Formats,         \* the counters to claim in each format: {"initiative"}, and in the
                   \* FauxSuns format "plan" and "blast" too
  AskingSteps,     \* steps whose trigger windows may prompt players
  ExtraActions,    \* BOOLEAN: a card action may give an AdditionalAction
  MaxQuestions,    \* bounds of the model: questions of one window,
  MaxRounds,       \* rounds played,
  MaxActions       \* and the action number from which nobody has a card to play

Modes == {"normal", "rollbackToStartOfPhase", "rollbackToWithinPhase", "rollbackToEndOfPhase"}

ASSUME RoundFlowAssumption ==
  /\ \E p, q \in Players : p # q /\ Players = {p, q}
  /\ NoPlayer \notin Players
  /\ \A counters \in Formats : "initiative" \in counters
  /\ AskingSteps \subseteq {"startOfAction", "action", "endOfAction",
                        "startOfRegroup", "drawTwo", "readyAllCards", "endOfRegroup"}
  /\ ExtraActions \in BOOLEAN
  /\ MaxQuestions \in Nat /\ MaxRounds \in Nat /\ MaxActions \in Nat

VARIABLES
  pc,              \* the pipeline's next step, or the prompt it waits at
  phaseObj,        \* the Phase being run: its name, PhaseInitializeMode and first own step
  prompted,        \* playerHasBeenPrompted
  done,            \* players the open AllPlayerPrompt counts as done
  asking           \* players the triggers of the open window prompt, in order

flowVars == <<pc, phaseObj, prompted, done, asking>>
roundVars == <<game, flowVars>>

Opponent(p) == CHOOSE q \in Players : q # p

FirstStep == [setup |-> "chooseFirstPlayer", action |-> "setupActionPhase", regroup |-> "drawTwo"]
NewPhase(name) == [name |-> name, mode |-> "normal", first |-> FirstStep[name]]

StartOf == [setup |-> "startOfSetup", action |-> "startOfAction", regroup |-> "startOfRegroup"]
EndOf == [setup |-> "endOfSetup", action |-> "endOfAction", regroup |-> "endOfRegroup"]

\* Which players a window asks, in which order; nobody when its cards do not.
Questions(step) ==
  IF step \in AskingSteps
  THEN UNION {[1 .. n -> Players] : n \in 0 .. MaxQuestions}
  ELSE {<<>>}

\* Opening a window: its first question is put at once (setCurrentOpenPrompt).
Ask(questions, before) ==
  /\ asking' = questions
  /\ prompted' = before \cup (IF questions = <<>> THEN {} ELSE {Head(questions)})

AtStep(step) == pc = step /\ asking = <<>>

GameRecords ==
  [phase : Phases \cup {"none"}, round : 0 .. MaxRounds, actionNumber : Nat,
   active : Players \cup {NoPlayer}, initiative : Players \cup {NoPlayer},
   counters : Formats, claimed : SUBSET UNION Formats,
   prevPassed : BOOLEAN, passed : SUBSET Players, extra : SUBSET Players, starts : 0 .. 2, ended : BOOLEAN]

RoundInit ==
  /\ \E counters \in Formats :
       game = [phase |-> "none", round |-> 0, actionNumber |-> 0, active |-> NoPlayer,
               initiative |-> NoPlayer, counters |-> counters, claimed |-> {},
               prevPassed |-> FALSE, passed |-> {}, extra |-> {}, starts |-> 0, ended |-> FALSE]
  /\ pc = "setCurrentPhase"
  /\ phaseObj = NewPhase("setup")
  /\ prompted = {}
  /\ done = {}
  /\ asking = <<>>

-----------------------------------------------------------------------------
(* Steps every phase has *)

\* A player answers the question put to them, and the next one is put.
Answer ==
  /\ asking # <<>>
  /\ Ask(Tail(asking), prompted)
  /\ UNCHANGED <<game, pc, phaseObj, done>>

\* Variant: every rollback runs the start of the phase again.
SetCurrentPhaseAnew ==
  /\ AtStep("setCurrentPhase")
  /\ game' = [game EXCEPT !.phase = phaseObj.name]
  /\ pc' = IF phaseObj.mode = "normal" THEN "startOfPhase" ELSE "startPhase"
  /\ UNCHANGED <<phaseObj, prompted, done, asking>>

SetCurrentPhase ==
  /\ AtStep("setCurrentPhase")
  /\ game' = [game EXCEPT !.phase = phaseObj.name,
                          !.starts = IF phaseObj.mode = "normal" THEN 0 ELSE @]
  /\ pc' = CASE phaseObj.mode = "normal" -> "startOfPhase"
             [] phaseObj.mode = "rollbackToWithinPhase" -> phaseObj.first
             [] OTHER -> "startPhase"
  /\ UNCHANGED <<phaseObj, prompted, done, asking>>

\* takeStartOfPhaseSnapshot
StartOfPhaseSnapshot ==
  /\ AtStep("startOfPhase")
  /\ pc' = "startPhase"
  /\ UNCHANGED <<game, phaseObj, prompted, done, asking>>

\* startPhase: OnPhaseStarted, whose triggers change the game and may ask.
StartPhase ==
  /\ AtStep("startPhase")
  /\ game' = [game EXCEPT !.starts = IF @ < 2 THEN @ + 1 ELSE @]
  /\ \E questions \in Questions(StartOf[phaseObj.name]) : Ask(questions, {})
  /\ pc' = phaseObj.first
  /\ UNCHANGED <<phaseObj, done>>

\* endPhase takes the snapshots of the end of the action phase, once.
TakesEndSnapshotsAlways == phaseObj.name = "action"    \* variant: also when rolled back there
TakesEndSnapshots == phaseObj.name = "action" /\ phaseObj.mode # "rollbackToEndOfPhase"

EndPhase ==
  /\ AtStep("endPhase")
  /\ game' = [game EXCEPT !.phase = "none"]
  /\ \E questions \in Questions(EndOf[phaseObj.name]) :
       Ask(questions, IF TakesEndSnapshots THEN {} ELSE prompted)
  /\ pc' = "phaseEnded"
  /\ UNCHANGED <<phaseObj, done>>

\* The last step of a phase, then the step that follows the phase in the pipeline.
PhaseEnded ==
  /\ AtStep("phaseEnded")
  /\ IF phaseObj.name = "action"
     THEN phaseObj' = NewPhase("regroup") /\ pc' = "setCurrentPhase"
     ELSE phaseObj' = phaseObj /\ pc' = "beginRound"
  /\ UNCHANGED <<game, prompted, done, asking>>

BeginRound ==
  /\ AtStep("beginRound")
  /\ game.round < MaxRounds
  /\ game' = [game EXCEPT !.round = @ + 1, !.active = game.initiative]
  /\ phaseObj' = NewPhase("action")
  /\ pc' = "setCurrentPhase"
  /\ UNCHANGED <<prompted, done, asking>>

-----------------------------------------------------------------------------
(* Prompts put to all players at once *)

OpenPrompt(step, prompt) ==
  /\ AtStep(step)
  /\ pc' = prompt
  /\ done' = {}
  /\ prompted' = Players
  /\ UNCHANGED <<game, phaseObj, asking>>

\* Variant: each player's answer opens the prompt anew for both.
FinishForgetful(prompt, p, next) ==
  /\ AtStep(prompt) /\ p \notin done
  /\ done' = {}
  /\ pc' = IF done \cup {p} = Players THEN next ELSE prompt
  /\ UNCHANGED <<game, phaseObj, prompted, asking>>

\* A player finishes; the prompt completes with the last of them.
Finish(prompt, p, next) ==
  /\ AtStep(prompt) /\ p \notin done
  /\ done' = IF done \cup {p} = Players THEN {} ELSE done \cup {p}
  /\ pc' = IF done \cup {p} = Players THEN next ELSE prompt
  /\ UNCHANGED <<game, phaseObj, prompted, asking>>

-----------------------------------------------------------------------------
(* Setup *)

ChooseFirstPlayer ==
  /\ AtStep("chooseFirstPlayer")
  /\ \E p \in Players : game' = [game EXCEPT !.initiative = p]
  /\ \E chooser \in Players : prompted' = prompted \cup {chooser}
  /\ pc' = "beforeMulligan"
  /\ UNCHANGED <<phaseObj, done, asking>>

\* takeSnapshotBeforeMulligan and takeSnapshotBeforeResource
SnapshotBeforeMulligan ==
  /\ AtStep("beforeMulligan")
  /\ pc' = "mulliganPrompt"
  /\ UNCHANGED <<game, phaseObj, prompted, done, asking>>

SnapshotBeforeResource ==
  /\ AtStep("beforeResource")
  /\ pc' = "setupResourcePrompt"
  /\ UNCHANGED <<game, phaseObj, prompted, done, asking>>

OpenMulliganPrompt == OpenPrompt("mulliganPrompt", "mulligan")
OpenSetupResourcePrompt == OpenPrompt("setupResourcePrompt", "setupResource")

Mulligan(p) == Finish("mulligan", p, "beforeResource")

SetupResource(p) == Finish("setupResource", p, "endPhase")

-----------------------------------------------------------------------------
(* Action phase *)

SetupActionPhase ==
  /\ AtStep("setupActionPhase")
  /\ game' = [game EXCEPT !.passed = {}, !.prevPassed = FALSE]
  /\ pc' = "queueNextAction"
  /\ UNCHANGED <<phaseObj, prompted, done, asking>>

\* The action window opens and takes the snapshot of its action.
OpenActionWindow ==
  /\ AtStep("queueNextAction")
  /\ pc' = "actionWindow"
  /\ prompted' = prompted \cup {game.active}
  /\ UNCHANGED <<game, phaseObj, done, asking>>

\* Variant: one counter claimed is enough.
MustClaimFirstCounter == Cardinality(game.counters) > 1 /\ Cardinality(game.claimed) < 1

\* hasUnclaimedClaimableCounter: with two players, two of the three are claimed.
MustClaimCounter == Cardinality(game.counters) > 1 /\ Cardinality(game.claimed) < 2

\* Variant: it is forgotten that the opponent may be out already.
PassTwice(g, p) == IF g.prevPassed THEN [g EXCEPT !.passed = Players]
                   ELSE [g EXCEPT !.prevPassed = TRUE]

\* pass(), in a game record g: both pass in a row, or after the opponent is out.
AfterPass(g, p) ==
  IF g.prevPassed THEN [g EXCEPT !.passed = Players]
  ELSE IF Opponent(p) \in g.passed THEN [g EXCEPT !.passed = @ \cup {p}]
  ELSE [g EXCEPT !.prevPassed = TRUE]

\* The previous pass the window was opened with is the one in the game state:
\* nothing sets it while the window is open.
Pass(p) ==
  /\ AtStep("actionWindow") /\ p = game.active
  /\ ~MustClaimCounter
  /\ game' = AfterPass(game, p)
  /\ pc' = "rotate"
  /\ UNCHANGED <<phaseObj, prompted, done, asking>>

\* claimCounter passes before the event it queues makes the claim.  The cards that
\* look at claims look at those of their own player, who is asked first.
ClaimCounter(p, counter) ==
  /\ AtStep("actionWindow") /\ p = game.active
  /\ counter \in game.counters \ game.claimed
  /\ \E questions \in Questions("action") :
       /\ questions # <<>> => Head(questions) = p
       /\ Ask(questions, prompted)
  /\ LET passing == AfterPass(game, p)
     IN game' = [passing EXCEPT
                   !.claimed = @ \cup {counter},
                   !.passed = @ \cup {p},
                   !.initiative = IF counter = "initiative" THEN p ELSE @]
  /\ pc' = "rotate"
  /\ UNCHANGED <<phaseObj, done>>

\* A card is played or used: its effects ask some players, and perhaps give the
\* player another action.
TakeCardAction(p) ==
  /\ AtStep("actionWindow") /\ p = game.active
  /\ game.actionNumber < MaxActions
  /\ \E extra \in {FALSE, ExtraActions} :
       game' = [game EXCEPT !.prevPassed = FALSE,
                            !.extra = IF extra THEN @ \cup {p} ELSE @]
  /\ \E questions \in Questions("action") : Ask(questions, prompted)
  /\ pc' = "rotate"
  /\ UNCHANGED <<phaseObj, done>>

\* Variants: the turn goes round whoever has passed, or stays where it can.
NextActiveAnyway ==
  IF game.passed = Players THEN NoPlayer ELSE Opponent(game.active)
NextActiveStays ==
  IF game.active \notin game.passed THEN game.active
  ELSE IF Opponent(game.active) \notin game.passed THEN Opponent(game.active) ELSE NoPlayer

\* rotateActiveQueueNextAction and rotateActivePlayer: the opponent if still in,
\* else the same player if still in, else nobody.
NextActive ==
  LET opponent == Opponent(game.active)
  IN CASE game.active \in game.extra -> game.active
       [] game.active \notin game.extra /\ opponent \notin game.passed -> opponent
       [] OTHER -> IF game.active \in game.passed THEN NoPlayer ELSE game.active

RotateActivePlayer ==
  /\ AtStep("rotate")
  /\ game' = [game EXCEPT !.active = NextActive,
                          !.extra = @ \ {game.active},
                          !.actionNumber = IF NextActive = NoPlayer THEN @ ELSE @ + 1]
  /\ pc' = IF NextActive = NoPlayer THEN "tearDown" ELSE "queueNextAction"
  /\ UNCHANGED <<phaseObj, prompted, done, asking>>

TearDownActionPhase ==
  /\ AtStep("tearDown")
  /\ game' = [game EXCEPT !.passed = {}, !.claimed = {}, !.prevPassed = FALSE]
  /\ pc' = "endPhase"
  /\ UNCHANGED <<phaseObj, prompted, done, asking>>

-----------------------------------------------------------------------------
(* Regroup phase *)

DrawTwo ==
  /\ AtStep("drawTwo")
  /\ pc' = "draws"
  /\ UNCHANGED <<game, phaseObj, prompted, done, asking>>

\* The window both players' draws resolve in.
Draws ==
  /\ AtStep("draws")
  /\ \E questions \in Questions("drawTwo") : Ask(questions, prompted)
  /\ pc' = "resourcePrompt"
  /\ UNCHANGED <<game, phaseObj, done>>

OpenResourcePrompt == OpenPrompt("resourcePrompt", "regroupResource")

RegroupResource(p) == Finish("regroupResource", p, "readyAllCards")

\* readyAllCards takes its snapshot unless a rollback led to that snapshot.
TakesReadySnapshots == phaseObj.first # "readyAllCards"

ReadyAllCards ==
  /\ AtStep("readyAllCards")
  /\ \E questions \in Questions("readyAllCards") :
       Ask(questions, IF TakesReadySnapshots THEN {} ELSE prompted)
  /\ pc' = "cardsReadied"
  /\ UNCHANGED <<game, phaseObj, done>>

CardsReadied ==
  /\ AtStep("cardsReadied")
  /\ pc' = "endPhase"
  /\ UNCHANGED <<game, phaseObj, prompted, done, asking>>

-----------------------------------------------------------------------------
Choice(p) ==
  \/ Mulligan(p) \/ SetupResource(p) \/ RegroupResource(p)
  \/ Pass(p) \/ TakeCardAction(p)
  \/ \E counter \in game.counters : ClaimCounter(p, counter)

\* What the pipeline does by itself, whoever plays.
Pipeline ==
  \/ SetCurrentPhase \/ StartOfPhaseSnapshot \/ StartPhase \/ EndPhase \/ PhaseEnded \/ BeginRound
  \/ ChooseFirstPlayer \/ SnapshotBeforeMulligan \/ OpenMulliganPrompt
  \/ SnapshotBeforeResource \/ OpenSetupResourcePrompt
  \/ SetupActionPhase \/ OpenActionWindow \/ RotateActivePlayer \/ TearDownActionPhase
  \/ DrawTwo \/ Draws \/ OpenResourcePrompt \/ ReadyAllCards \/ CardsReadied

RoundNext == Pipeline \/ Answer \/ \E p \in Players : Choice(p)

\* The pipeline runs as far as it can.  A player at a prompt answers in the end,
\* since otherwise the timers end the game, and a player has finitely many cards.
RoundFairness == /\ WF_roundVars(Pipeline)
                 /\ WF_roundVars(Answer)
                 /\ \A p \in Players : WF_roundVars(Choice(p))

RoundSpec == RoundInit /\ [][RoundNext]_roundVars /\ RoundFairness

-----------------------------------------------------------------------------
Steps == {"setCurrentPhase", "startOfPhase", "startPhase", "chooseFirstPlayer",
          "beforeMulligan", "mulliganPrompt", "mulligan",
          "beforeResource", "setupResourcePrompt", "setupResource",
          "setupActionPhase", "queueNextAction", "actionWindow", "rotate", "tearDown",
          "drawTwo", "draws", "resourcePrompt", "regroupResource",
          "readyAllCards", "cardsReadied", "endPhase", "phaseEnded", "beginRound"}

PhaseObjects == [name : Phases, mode : Modes, first : Steps]

\* The variables have their types.
RoundTypeOK ==
  /\ game \in GameRecords
  /\ pc \in Steps
  /\ phaseObj \in PhaseObjects
  /\ prompted \in SUBSET Players
  /\ done \in SUBSET Players
  /\ asking \in Seq(Players) /\ Len(asking) <= MaxQuestions

\* A phase with no more cards to play ends within two actions: the actions of a game
\* are bounded by the cards to play and one more a round.
ActionsAreBounded == game.actionNumber <= MaxActions + game.round
=============================================================================
