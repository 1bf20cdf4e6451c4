--------------------------- MODULE RoundFlowProofs ---------------------------
(***************************************************************************)
(* The turn order of the action phase, for any number of rounds, actions,  *)
(* questions and counters, whichever windows ask players something.        *)
(*                                                                         *)
(* pass() and rotateActivePlayer see only prevPassed, passed and extra.    *)
(* What these flags tell of the players' last choices whenever a window is *)
(* open is TurnOf.  TurnInv carries it over the rotation, by saying it of  *)
(* the player who will be next; FlowInv says that the pipeline reaches the *)
(* windows only through the setup of the phase, with an active player.     *)
(***************************************************************************)
EXTENDS MCRoundFlow, FiniteSetTheorems, TLAPS

-----------------------------------------------------------------------------
(* Players, questions and passes, as in UndoGameProofs: the two modules share *)
(* no more than RoundFlow. *)

LEMMA OpponentIsTheOther ==
  ASSUME NEW p \in Players
  PROVE  /\ Opponent(p) \in Players
         /\ Opponent(p) # p
         /\ \A q \in Players : q = p \/ q = Opponent(p)
<1>1. \E q \in Players : q # p /\ \A r \in Players : r = p \/ r = q
  BY RoundFlowAssumption
<1>2. Opponent(p) \in Players /\ Opponent(p) # p
  BY <1>1 DEF Opponent
<1> QED BY <1>1, <1>2

LEMMA QuestionsAreToPlayers ==
  ASSUME NEW step, NEW questions \in Questions(step)
  PROVE  questions \in Seq(Players) /\ Len(questions) <= MaxQuestions
<1>1. CASE step \in AskingSteps
  <2>1. PICK n \in 0 .. MaxQuestions : questions \in [1 .. n -> Players]
    BY <1>1 DEF Questions
  <2>2. n \in Nat
    BY RoundFlowAssumption
  <2>3. questions \in Seq(Players)
    BY <2>1, <2>2
  <2> QED BY <2>1, <2>2, <2>3
<1>2. CASE step \notin AskingSteps
  BY <1>2, RoundFlowAssumption DEF Questions
<1> QED BY <1>1, <1>2

LEMMA AskPutsToPlayers ==
  ASSUME NEW questions \in Seq(Players), Len(questions) <= MaxQuestions,
         NEW before \in SUBSET Players, Ask(questions, before)
  PROVE  asking' \in Seq(Players) /\ Len(asking') <= MaxQuestions /\ prompted' \in SUBSET Players
<1>1. questions # <<>> => Head(questions) \in Players
  OBVIOUS
<1> QED BY <1>1 DEF Ask

\* The game record, field by field.
LEMMA GameFields ==
  ASSUME RoundTypeOK
  PROVE  /\ game.phase \in Phases \cup {"none"} /\ game.round \in 0 .. MaxRounds
         /\ game.actionNumber \in Nat
         /\ game.active \in Players \cup {NoPlayer} /\ game.initiative \in Players \cup {NoPlayer}
         /\ game.counters \in Formats /\ game.claimed \in SUBSET UNION Formats
         /\ game.prevPassed \in BOOLEAN
         /\ game.passed \in SUBSET Players /\ game.extra \in SUBSET Players
         /\ game.starts \in 0 .. 2 /\ game.ended \in BOOLEAN
BY DEF RoundTypeOK, GameRecords

\* A pass changes passed and prevPassed alone.
LEMMA AfterPassInGame ==
  ASSUME NEW p \in Players, game \in GameRecords
  PROVE  /\ AfterPass(game, p) \in GameRecords
         /\ AfterPass(game, p).active = game.active /\ AfterPass(game, p).extra = game.extra
         /\ AfterPass(game, p).round = game.round
         /\ AfterPass(game, p).actionNumber = game.actionNumber
         /\ AfterPass(game, p).initiative = game.initiative
<1>1. CASE game.prevPassed
  BY <1>1 DEF AfterPass, GameRecords
<1>2. CASE ~game.prevPassed /\ Opponent(p) \in game.passed
  BY <1>2 DEF AfterPass, GameRecords
<1>3. CASE ~game.prevPassed /\ Opponent(p) \notin game.passed
  BY <1>3 DEF AfterPass, GameRecords
<1> QED BY <1>1, <1>2, <1>3

-----------------------------------------------------------------------------
(* The turn order *)

Choices == {"none", "pass", "claim", "card", "bonus"}

IsDone(p) == lastChoice[p] \in {"pass", "claim"}

\* a is to act next, in the action numbered n.
TurnOf(a, n) ==
  /\ a \in Players
  /\ ~IsDone(a)
  /\ game.passed \subseteq {Opponent(a)}
  /\ Opponent(a) \in game.passed <=> lastChoice[Opponent(a)] = "claim"
  /\ game.prevPassed => IsDone(Opponent(a))
  /\ ~game.prevPassed => lastChoice[Opponent(a)] # "pass"
  /\ a = lastActor => lastChoice[a] = "bonus" \/ lastChoice[Opponent(a)] = "claim"
  /\ n <= MaxActions + game.round
  /\ ~IsDone(Opponent(a)) => n < MaxActions + game.round

Windows == {"queueNextAction", "actionWindow"}

TurnInv ==
  /\ pc \in Windows => game.extra = {} /\ TurnOf(game.active, game.actionNumber)
  /\ pc = "rotate" => /\ game.extra \subseteq {game.active}
                      /\ IF NextActive = NoPlayer THEN \A p \in Players : IsDone(p)
                         ELSE TurnOf(NextActive, game.actionNumber + 1)
  /\ pc \notin Windows \cup {"rotate"} => game.extra = {}
  /\ pc = "tearDown" => \A p \in Players : IsDone(p)

BeforeFirstPlayer == {"setCurrentPhase", "startOfPhase", "startPhase", "chooseFirstPlayer"}
BeforeActions == {"setCurrentPhase", "startOfPhase", "startPhase", "setupActionPhase"}
ActionSteps == {"setupActionPhase", "rotate", "tearDown"} \cup Windows

FlowInv ==
  /\ phaseObj \in {NewPhase(name) : name \in Phases}
  /\ phaseObj.name # "action" => pc \notin ActionSteps
  /\ phaseObj.name = "action" =>
       /\ game.round >= 1
       /\ pc \in BeforeActions => game.active \in Players
       /\ pc \in BeforeActions => game.actionNumber < MaxActions + game.round
       /\ pc \in ActionSteps \cup BeforeActions \cup {"endPhase", "phaseEnded"}
  /\ game.initiative = NoPlayer => phaseObj.name = "setup" /\ pc \in BeforeFirstPlayer
  /\ game.actionNumber <= MaxActions + game.round

ChoicesOK == lastChoice \in [Players -> Choices] /\ lastActor \in Players \cup {NoPlayer}

RoundInv == RoundTypeOK /\ ChoicesOK /\ FlowInv /\ TurnInv

-----------------------------------------------------------------------------
(* The steps of the pipeline *)

LEMMA RoundInvInit == MCInit => RoundInv
BY RoundFlowAssumption
   DEF MCInit, RoundInit, RoundInv, RoundTypeOK, ChoicesOK, Choices, FlowInv, TurnInv, GameRecords,
       Phases, PhaseObjects, Modes, Steps, NewPhase, FirstStep, Windows, ActionSteps,
       BeforeFirstPlayer, BeforeActions

\* Steps that leave the game as it is and stay outside the action windows.
QuietStep ==
  \/ StartOfPhaseSnapshot \/ PhaseEnded \/ SnapshotBeforeMulligan \/ SnapshotBeforeResource
  \/ OpenMulliganPrompt \/ OpenSetupResourcePrompt \/ OpenResourcePrompt
  \/ DrawTwo \/ Draws \/ ReadyAllCards \/ CardsReadied

LEMMA QuietStepKeepsInv ==
  ASSUME RoundInv, QuietStep, UNCHANGED <<lastChoice, lastActor>>
  PROVE  RoundInv'
<1>1. RoundTypeOK'
  <2>1. asking' \in Seq(Players) /\ Len(asking') <= MaxQuestions /\ prompted' \in SUBSET Players
    BY QuestionsAreToPlayers, AskPutsToPlayers
       DEF RoundInv, RoundTypeOK, QuietStep, StartOfPhaseSnapshot, PhaseEnded,
           SnapshotBeforeMulligan, SnapshotBeforeResource, OpenMulliganPrompt, OpenPrompt,
           OpenSetupResourcePrompt, OpenResourcePrompt, DrawTwo, Draws, ReadyAllCards, CardsReadied
  <2> QED
    BY <2>1
       DEF RoundInv, RoundTypeOK, FlowInv, QuietStep, StartOfPhaseSnapshot, PhaseEnded,
           SnapshotBeforeMulligan, SnapshotBeforeResource, OpenMulliganPrompt, OpenPrompt,
           OpenSetupResourcePrompt, OpenResourcePrompt, DrawTwo, Draws, ReadyAllCards, CardsReadied,
           Steps, PhaseObjects, Phases, Modes, NewPhase, FirstStep
<1>2. ChoicesOK'
  BY DEF RoundInv, ChoicesOK
<1>3. FlowInv'
  BY DEF RoundInv, RoundTypeOK, FlowInv, QuietStep, StartOfPhaseSnapshot, PhaseEnded,
         SnapshotBeforeMulligan, SnapshotBeforeResource, OpenMulliganPrompt, OpenPrompt,
         OpenSetupResourcePrompt, OpenResourcePrompt, DrawTwo, Draws, ReadyAllCards, CardsReadied,
         AtStep, Phases, NewPhase, FirstStep, ActionSteps, BeforeFirstPlayer, BeforeActions, Windows
<1>4. TurnInv'
  BY DEF RoundInv, TurnInv, QuietStep, StartOfPhaseSnapshot, PhaseEnded,
         SnapshotBeforeMulligan, SnapshotBeforeResource, OpenMulliganPrompt, OpenPrompt,
         OpenSetupResourcePrompt, OpenResourcePrompt, DrawTwo, Draws, ReadyAllCards, CardsReadied,
         AtStep, Windows
<1> QED BY <1>1, <1>2, <1>3, <1>4 DEF RoundInv

LEMMA AnswerKeepsInv ==
  ASSUME RoundInv, Answer, lastChoice' \in [Players -> Choices], lastActor' \in Players \cup {NoPlayer},
         pc # "setupActionPhase" => UNCHANGED <<lastChoice, lastActor>>
  PROVE  RoundInv'
<1>1. asking' \in Seq(Players) /\ Len(asking') <= MaxQuestions /\ prompted' \in SUBSET Players
  <2>1. asking \in Seq(Players) /\ asking # <<>> /\ Len(asking) <= MaxQuestions
    BY DEF RoundInv, RoundTypeOK, Answer
  <2>2. Tail(asking) \in Seq(Players) /\ Len(Tail(asking)) = Len(asking) - 1
    BY <2>1
  <2>3. Len(Tail(asking)) <= MaxQuestions
    BY <2>1, <2>2, RoundFlowAssumption
  <2> QED BY <2>2, <2>3, AskPutsToPlayers DEF RoundInv, RoundTypeOK, Answer
<1>2. RoundTypeOK' /\ ChoicesOK' /\ FlowInv'
  BY <1>1 DEF RoundInv, RoundTypeOK, ChoicesOK, FlowInv, Answer
<1>3. TurnInv'
  <2>1. CASE pc \in Windows \cup {"rotate", "tearDown"}
    <3>1. UNCHANGED <<game, pc, lastChoice, lastActor>>
      BY <2>1 DEF Answer, Windows
    <3> QED BY <3>1 DEF RoundInv, TurnInv, TurnOf, IsDone, NextActive
  <2>2. CASE pc \notin Windows \cup {"rotate", "tearDown"}
    BY <2>2 DEF RoundInv, TurnInv, Answer, Windows
  <2> QED BY <2>1, <2>2
<1> QED BY <1>2, <1>3 DEF RoundInv

\* Steps that change the game outside the turns of the action phase.
BoundaryStep ==
  SetCurrentPhase \/ StartPhase \/ EndPhase \/ BeginRound \/ ChooseFirstPlayer

LEMMA BoundaryStepKeepsType == RoundTypeOK /\ FlowInv /\ BoundaryStep => RoundTypeOK'
<1> SUFFICES ASSUME RoundTypeOK, FlowInv, BoundaryStep PROVE RoundTypeOK'
  OBVIOUS
<1>1. asking' \in Seq(Players) /\ Len(asking') <= MaxQuestions /\ prompted' \in SUBSET Players
  BY QuestionsAreToPlayers, AskPutsToPlayers
     DEF RoundTypeOK, BoundaryStep, SetCurrentPhase, StartPhase, EndPhase, BeginRound,
         ChooseFirstPlayer
<1>2. game' \in GameRecords
  <2>1. CASE SetCurrentPhase
    <3>1. phaseObj.name \in Phases
      BY DEF RoundTypeOK, PhaseObjects
    <3>2. (IF phaseObj.mode = "normal" THEN 0 ELSE game.starts) \in 0 .. 2
      BY GameFields
    <3> QED BY <2>1, <3>1, <3>2 DEF SetCurrentPhase, RoundTypeOK, GameRecords
  <2>2. CASE StartPhase
    BY <2>2 DEF RoundTypeOK, StartPhase, GameRecords
  <2>3. CASE EndPhase
    BY <2>3 DEF RoundTypeOK, EndPhase, GameRecords
  <2>4. CASE BeginRound
    <3>1. game.round + 1 \in 0 .. MaxRounds
      BY <2>4, GameFields, RoundFlowAssumption DEF BeginRound
    <3>2. game' = [game EXCEPT !.round = game.round + 1, !.active = game.initiative]
      BY <2>4 DEF BeginRound
    <3> QED BY <3>1, <3>2 DEF RoundTypeOK, GameRecords
  <2>5. CASE ChooseFirstPlayer
    BY <2>5 DEF RoundTypeOK, ChooseFirstPlayer, GameRecords
  <2> QED BY <2>1, <2>2, <2>3, <2>4, <2>5 DEF BoundaryStep
<1>3. pc' \in Steps /\ phaseObj' \in PhaseObjects /\ done' \in SUBSET Players
  BY DEF RoundTypeOK, FlowInv, BoundaryStep, SetCurrentPhase, StartPhase, EndPhase,
         BeginRound, ChooseFirstPlayer, Steps, PhaseObjects, Phases, Modes, NewPhase, FirstStep
<1> QED BY <1>1, <1>2, <1>3 DEF RoundTypeOK

LEMMA BoundaryStepKeepsFlow == RoundTypeOK /\ FlowInv /\ BoundaryStep => FlowInv'
<1> SUFFICES ASSUME RoundTypeOK, FlowInv, BoundaryStep PROVE FlowInv'
  OBVIOUS
<1> DEFINE SameNumbers == game'.round = game.round /\ game'.actionNumber = game.actionNumber
<1>1. CASE SetCurrentPhase
  <2>1. /\ SameNumbers /\ game'.active = game.active /\ game'.initiative = game.initiative
        /\ UNCHANGED phaseObj /\ pc = "setCurrentPhase"
    BY <1>1 DEF SetCurrentPhase, AtStep, RoundTypeOK, GameRecords
  <2>2. pc' = "startOfPhase"
    BY <1>1 DEF SetCurrentPhase, FlowInv, NewPhase
  <2> QED BY <2>1, <2>2 DEF FlowInv, ActionSteps, Windows, BeforeFirstPlayer, BeforeActions
<1>2. CASE StartPhase
  <2>1. /\ SameNumbers /\ game'.active = game.active /\ game'.initiative = game.initiative
        /\ UNCHANGED phaseObj /\ pc = "startPhase" /\ pc' = phaseObj.first
    BY <1>2 DEF StartPhase, AtStep, RoundTypeOK, GameRecords
  <2> QED
    BY <2>1 DEF FlowInv, ActionSteps, Windows, BeforeFirstPlayer, BeforeActions, NewPhase,
                FirstStep, Phases
<1>3. CASE EndPhase
  <2>1. /\ SameNumbers /\ game'.active = game.active /\ game'.initiative = game.initiative
        /\ UNCHANGED phaseObj /\ pc = "endPhase" /\ pc' = "phaseEnded"
    BY <1>3 DEF EndPhase, AtStep, RoundTypeOK, GameRecords
  <2> QED BY <2>1 DEF FlowInv, ActionSteps, Windows, BeforeFirstPlayer, BeforeActions
<1>4. CASE BeginRound
  <2>1. /\ game'.round = game.round + 1 /\ game'.actionNumber = game.actionNumber
        /\ game'.active = game.initiative /\ game'.initiative = game.initiative
        /\ phaseObj' = NewPhase("action") /\ pc = "beginRound" /\ pc' = "setCurrentPhase"
    BY <1>4 DEF BeginRound, AtStep, RoundTypeOK, GameRecords
  <2>2. game.initiative \in Players
    BY <2>1, GameFields DEF FlowInv, BeforeFirstPlayer
  <2>3. game.round \in Nat /\ game.actionNumber \in Nat /\ MaxActions \in Nat
    BY GameFields, RoundFlowAssumption
  <2> QED
    BY <2>1, <2>2, <2>3, RoundFlowAssumption
       DEF FlowInv, ActionSteps, Windows, BeforeActions, NewPhase, Phases
<1>5. CASE ChooseFirstPlayer
  <2>1. /\ SameNumbers /\ game'.active = game.active /\ game'.initiative \in Players
        /\ UNCHANGED phaseObj /\ pc = "chooseFirstPlayer" /\ pc' = "beforeMulligan"
    BY <1>5 DEF ChooseFirstPlayer, AtStep, RoundTypeOK, GameRecords
  <2> QED
    BY <2>1, RoundFlowAssumption
       DEF FlowInv, ActionSteps, Windows, BeforeFirstPlayer, BeforeActions
<1> QED BY <1>1, <1>2, <1>3, <1>4, <1>5 DEF BoundaryStep

LEMMA BoundaryStepKeepsTurns == RoundTypeOK /\ FlowInv /\ TurnInv /\ BoundaryStep => TurnInv'
<1> SUFFICES ASSUME RoundTypeOK, FlowInv, TurnInv, BoundaryStep PROVE TurnInv'
  OBVIOUS
<1>1. pc \notin Windows \cup {"rotate"} /\ pc' \notin Windows \cup {"rotate", "tearDown"}
  BY DEF BoundaryStep, SetCurrentPhase, StartPhase, EndPhase, BeginRound, ChooseFirstPlayer,
         AtStep, FlowInv, NewPhase, FirstStep, Phases, Windows
<1>2. game'.extra = game.extra
  BY DEF BoundaryStep, SetCurrentPhase, StartPhase, EndPhase, BeginRound, ChooseFirstPlayer,
         RoundTypeOK, GameRecords
<1> QED BY <1>1, <1>2 DEF TurnInv, Windows

LEMMA BoundaryStepKeepsInv ==
  ASSUME RoundInv, BoundaryStep, UNCHANGED <<lastChoice, lastActor>>
  PROVE  RoundInv'
BY BoundaryStepKeepsType, BoundaryStepKeepsFlow, BoundaryStepKeepsTurns DEF RoundInv, ChoicesOK

-----------------------------------------------------------------------------
(* The turns of the action phase *)

LEMMA SetupActionPhaseKeepsInv ==
  ASSUME RoundInv, SetupActionPhase, lastChoice' = [p \in Players |-> "none"], lastActor' = NoPlayer
  PROVE  RoundInv'
<1>1. /\ game' = [game EXCEPT !.passed = {}, !.prevPassed = FALSE]
      /\ pc = "setupActionPhase" /\ pc' = "queueNextAction"
      /\ UNCHANGED <<phaseObj, prompted, done, asking>>
  BY DEF SetupActionPhase, AtStep
<1>2. RoundTypeOK' /\ ChoicesOK'
  BY <1>1 DEF RoundInv, RoundTypeOK, ChoicesOK, Choices, GameRecords, Steps
<1>3. /\ game'.passed = {} /\ game'.prevPassed = FALSE /\ game'.extra = {}
      /\ game'.active = game.active /\ game'.round = game.round
      /\ game'.actionNumber = game.actionNumber /\ game'.initiative = game.initiative
  BY <1>1 DEF RoundInv, RoundTypeOK, TurnInv, GameRecords, Windows
<1>4. FlowInv'
  BY <1>1, <1>3 DEF RoundInv, FlowInv, ActionSteps, Windows, BeforeFirstPlayer, BeforeActions
<1>5. TurnInv'
  <2>1. game.active \in Players /\ game.actionNumber < MaxActions + game.round
    BY <1>1 DEF RoundInv, FlowInv, ActionSteps, BeforeActions
  <2>2. Opponent(game.active) \in Players
    BY <2>1, OpponentIsTheOther
  <2>3. game.actionNumber \in Nat /\ game.round \in Nat /\ MaxActions \in Nat
    BY GameFields, RoundFlowAssumption DEF RoundInv
  <2> QED
    BY <1>1, <1>3, <2>1, <2>2, <2>3, RoundFlowAssumption DEF TurnInv, TurnOf, IsDone, Windows
<1> QED BY <1>2, <1>4, <1>5 DEF RoundInv

LEMMA OpenActionWindowKeepsInv ==
  ASSUME RoundInv, OpenActionWindow, UNCHANGED <<lastChoice, lastActor>>
  PROVE  RoundInv'
<1>1. /\ UNCHANGED <<game, phaseObj, done, asking>> /\ pc = "queueNextAction" /\ pc' = "actionWindow"
      /\ prompted' = prompted \cup {game.active}
  BY DEF OpenActionWindow, AtStep
<1>2. TurnInv' /\ game.active \in Players
  BY <1>1 DEF RoundInv, TurnInv, TurnOf, IsDone, Windows
<1>3. RoundTypeOK' /\ ChoicesOK'
  BY <1>1, <1>2 DEF RoundInv, RoundTypeOK, ChoicesOK, Steps
<1>4. FlowInv'
  BY <1>1 DEF RoundInv, FlowInv, ActionSteps, Windows, BeforeFirstPlayer, BeforeActions
<1> QED BY <1>2, <1>3, <1>4 DEF RoundInv

LEMMA TearDownKeepsInv ==
  ASSUME RoundInv, TearDownActionPhase, UNCHANGED <<lastChoice, lastActor>>
  PROVE  RoundInv'
<1>1. /\ game' = [game EXCEPT !.passed = {}, !.claimed = {}, !.prevPassed = FALSE]
      /\ pc = "tearDown" /\ pc' = "endPhase" /\ UNCHANGED <<phaseObj, prompted, done, asking>>
  BY DEF TearDownActionPhase, AtStep
<1>2. RoundTypeOK' /\ ChoicesOK'
  BY <1>1 DEF RoundInv, RoundTypeOK, ChoicesOK, GameRecords, Steps
<1>3. /\ game'.extra = game.extra /\ game'.round = game.round /\ game'.active = game.active
      /\ game'.actionNumber = game.actionNumber /\ game'.initiative = game.initiative
  BY <1>1 DEF RoundInv, RoundTypeOK, GameRecords
<1>4. FlowInv'
  BY <1>1, <1>3 DEF RoundInv, FlowInv, ActionSteps, Windows, BeforeFirstPlayer, BeforeActions
<1>5. TurnInv'
  BY <1>1, <1>3 DEF RoundInv, TurnInv, Windows
<1> QED BY <1>2, <1>4, <1>5 DEF RoundInv

LEMMA RotateKeepsInv ==
  ASSUME RoundInv, RotateActivePlayer, UNCHANGED <<lastChoice, lastActor>>
  PROVE  RoundInv'
<1> DEFINE next == NextActive
           number == IF next = NoPlayer THEN game.actionNumber ELSE game.actionNumber + 1
<1>1. /\ game' = [game EXCEPT !.active = next, !.extra = @ \ {game.active}, !.actionNumber = number]
      /\ pc = "rotate" /\ pc' = IF next = NoPlayer THEN "tearDown" ELSE "queueNextAction"
      /\ UNCHANGED <<phaseObj, prompted, done, asking>>
  BY DEF RotateActivePlayer, AtStep
<1>2. /\ game.extra \subseteq {game.active}
      /\ next = NoPlayer => \A p \in Players : IsDone(p)
      /\ next # NoPlayer => TurnOf(next, game.actionNumber + 1)
  BY <1>1 DEF RoundInv, TurnInv, Windows
<1> HIDE DEF next
<1>3. next \in Players \cup {NoPlayer}
  BY <1>2 DEF TurnOf
<1>4. /\ number \in Nat
      /\ number <= MaxActions + game.round
  <2>1. /\ game.actionNumber \in Nat /\ game.round \in 0 .. MaxRounds
        /\ game.actionNumber <= MaxActions + game.round
    BY GameFields DEF RoundInv, FlowInv
  <2>2. next # NoPlayer => game.actionNumber + 1 <= MaxActions + game.round
    BY <1>2 DEF TurnOf
  <2> QED BY <2>1, <2>2, RoundFlowAssumption
<1> HIDE DEF number
<1>5. RoundTypeOK' /\ ChoicesOK'
  BY <1>1, <1>3, <1>4 DEF RoundInv, RoundTypeOK, ChoicesOK, GameRecords, Steps
<1>6. /\ game'.extra = {} /\ game'.round = game.round /\ game'.active = next
      /\ game'.actionNumber = number /\ game'.initiative = game.initiative
      /\ game'.passed = game.passed /\ game'.prevPassed = game.prevPassed
  BY <1>1, <1>2 DEF RoundInv, RoundTypeOK, GameRecords
<1>7. FlowInv'
  BY <1>1, <1>4, <1>6
     DEF RoundInv, FlowInv, ActionSteps, Windows, BeforeFirstPlayer, BeforeActions
<1>8. TurnInv'
  <2>1. CASE next = NoPlayer
    BY <1>1, <1>2, <1>6, <2>1 DEF TurnInv, IsDone, Windows
  <2>2. CASE next # NoPlayer
    <3>1. number = game.actionNumber + 1
      BY <2>2 DEF number
    <3>2. TurnOf(game.active, game.actionNumber)'
      BY <1>2, <1>6, <2>2, <3>1 DEF TurnOf, IsDone
    <3> QED BY <1>1, <1>6, <2>2, <3>2 DEF TurnInv, Windows
  <2> QED BY <2>1, <2>2
<1> QED BY <1>5, <1>7, <1>8 DEF RoundInv

\* What a choice does to the flags, with the player's own turn given.
LEMMA TurnWhileActive ==
  ASSUME RoundInv, pc = "actionWindow"
  PROVE  /\ game.active \in Players /\ game.extra = {} /\ game.active \notin game.passed
         /\ TurnOf(game.active, game.actionNumber)
         /\ phaseObj.name = "action" /\ game.round \in Nat /\ game.round >= 1
         /\ game.actionNumber \in Nat /\ MaxActions \in Nat
         /\ \A q \in Players : lastChoice[q] \in Choices
<1>1. game.extra = {} /\ TurnOf(game.active, game.actionNumber)
  BY DEF RoundInv, TurnInv, Windows
<1>2. game.active \in Players /\ game.active \notin game.passed
  BY <1>1, OpponentIsTheOther DEF TurnOf
<1>3. phaseObj.name = "action" /\ game.round >= 1
  BY DEF RoundInv, FlowInv, ActionSteps, Windows
<1> QED BY <1>1, <1>2, <1>3, GameFields, RoundFlowAssumption DEF RoundInv, ChoicesOK

\* The parts of the invariant that every choice at an action window keeps.
LEMMA ChoiceKeepsTypes ==
  ASSUME RoundInv, pc = "actionWindow", NEW p \in Players, NEW choice \in Choices, Made(p, choice),
         pc' = "rotate", UNCHANGED <<phaseObj, done>>,
         game' \in GameRecords, prompted' \in SUBSET Players,
         asking' \in Seq(Players), Len(asking') <= MaxQuestions,
         game'.round = game.round, game'.actionNumber = game.actionNumber,
         game'.initiative \in Players \cup {game.initiative}
  PROVE  RoundTypeOK' /\ ChoicesOK' /\ FlowInv'
<1>1. RoundTypeOK'
  BY DEF RoundInv, RoundTypeOK, Steps
<1>2. ChoicesOK'
  BY DEF RoundInv, ChoicesOK, Made, Choices
<1>3. FlowInv'
  BY RoundFlowAssumption
     DEF RoundInv, FlowInv, ActionSteps, Windows, BeforeFirstPlayer, BeforeActions
<1> QED BY <1>1, <1>2, <1>3

\* After a choice that leaves the phase to go on with the opponent or to end.
LEMMA TurnsAfterPass ==
  ASSUME RoundInv, pc = "actionWindow", NEW p \in Players, p = game.active,
         NEW choice \in {"pass", "claim"}, Made(p, choice), pc' = "rotate",
         game'.active = p, game'.extra = {}, game'.round = game.round,
         game'.actionNumber = game.actionNumber, game'.prevPassed = AfterPass(game, p).prevPassed,
         game'.passed = AfterPass(game, p).passed \cup (IF choice = "claim" THEN {p} ELSE {})
  PROVE  TurnInv'
<1> DEFINE o == Opponent(p)
<1>1. o \in Players /\ o # p /\ Players = {p, o}
  BY OpponentIsTheOther
<1>2. TurnOf(p, game.actionNumber) /\ p \notin game.passed
  BY TurnWhileActive
<1>3. lastChoice' = [q \in Players |-> IF q = p THEN choice ELSE lastChoice[q]] /\ lastActor' = p
  BY DEF Made
<1>4. lastChoice'[p] = choice /\ lastChoice'[o] = lastChoice[o]
  BY <1>1, <1>3
<1>5. Opponent(o) = p
  BY <1>1, OpponentIsTheOther
<1>6. game \in GameRecords
  BY DEF RoundInv, RoundTypeOK
<1> HIDE DEF o
<1>7. CASE game.prevPassed \/ o \in game.passed
  <2>1. game'.passed = Players
    BY <1>1, <1>2, <1>6, <1>7 DEF AfterPass, GameRecords, TurnOf, o
  <2>2. \A q \in Players : IsDone(q)'
    BY <1>1, <1>2, <1>4, <1>7 DEF TurnOf, IsDone, o
  <2>3. NextActive' = NoPlayer
    BY <1>1, <2>1 DEF NextActive, o
  <2> QED BY <2>2, <2>3 DEF TurnInv, Windows
<1>8. CASE ~(game.prevPassed \/ o \in game.passed)
  <2>1. game'.passed = (IF choice = "claim" THEN {p} ELSE {}) /\ game'.prevPassed = TRUE
    BY <1>1, <1>2, <1>6, <1>8 DEF AfterPass, GameRecords, TurnOf, o
  <2>2. NextActive' = o
    BY <1>1, <2>1 DEF NextActive, o
  <2>3. ~IsDone(o) /\ ~IsDone(o)'
    BY <1>2, <1>4, <1>8 DEF TurnOf, IsDone, o
  <2>4. game.actionNumber + 1 <= MaxActions + game.round
    BY <1>2, <2>3, TurnWhileActive DEF TurnOf, o
  <2>5. o # NoPlayer
    BY <1>1, RoundFlowAssumption
  <2>6. TurnOf(NextActive, game.actionNumber + 1)'
    BY <1>1, <1>3, <1>4, <1>5, <2>1, <2>2, <2>3, <2>4 DEF TurnOf, IsDone
  <2> QED BY <2>2, <2>5, <2>6 DEF TurnInv, Windows
<1> QED BY <1>7, <1>8

LEMMA PassKeepsInv ==
  ASSUME RoundInv, NEW p \in Players, Pass(p), Made(p, "pass")
  PROVE  RoundInv'
<1>1. /\ pc = "actionWindow" /\ p = game.active /\ pc' = "rotate" /\ game' = AfterPass(game, p)
      /\ UNCHANGED <<phaseObj, prompted, done, asking>>
  BY DEF Pass, AtStep
<1>2. game \in GameRecords
  BY DEF RoundInv, RoundTypeOK
<1>3. /\ game' \in GameRecords /\ game'.active = p /\ game'.extra = {}
      /\ game'.round = game.round /\ game'.actionNumber = game.actionNumber
      /\ game'.initiative = game.initiative
  BY <1>1, <1>2, TurnWhileActive, AfterPassInGame
<1>4. RoundTypeOK' /\ ChoicesOK' /\ FlowInv'
  BY <1>1, <1>3, ChoiceKeepsTypes DEF RoundInv, RoundTypeOK, Choices
<1>5. TurnInv'
  BY <1>1, <1>3, TurnsAfterPass
<1> QED BY <1>4, <1>5 DEF RoundInv

LEMMA ClaimKeepsInv ==
  ASSUME RoundInv, NEW p \in Players, NEW counter \in game.counters, ClaimCounter(p, counter),
         Made(p, "claim")
  PROVE  RoundInv'
<1> DEFINE g == AfterPass(game, p)
<1>1. /\ pc = "actionWindow" /\ p = game.active /\ pc' = "rotate"
      /\ UNCHANGED <<phaseObj, done>>
      /\ game' = [g EXCEPT !.claimed = @ \cup {counter}, !.passed = @ \cup {p},
                           !.initiative = IF counter = "initiative" THEN p ELSE @]
  BY DEF ClaimCounter, AtStep
<1>2. game \in GameRecords /\ prompted \in SUBSET Players
  BY DEF RoundInv, RoundTypeOK
<1>3. /\ g \in GameRecords /\ g.active = game.active /\ g.extra = game.extra
      /\ g.round = game.round /\ g.actionNumber = game.actionNumber /\ g.initiative = game.initiative
  BY <1>2, AfterPassInGame
<1>4. asking' \in Seq(Players) /\ Len(asking') <= MaxQuestions /\ prompted' \in SUBSET Players
  BY <1>2, QuestionsAreToPlayers, AskPutsToPlayers DEF ClaimCounter
<1>5. counter \in UNION Formats
  BY <1>2, GameFields DEF RoundInv
<1> HIDE DEF g
<1>6. /\ game' \in GameRecords /\ game'.active = g.active /\ game'.extra = g.extra
      /\ game'.round = g.round /\ game'.actionNumber = g.actionNumber
      /\ game'.initiative \in {p, g.initiative}
      /\ game'.prevPassed = g.prevPassed /\ game'.passed = g.passed \cup {p}
  BY <1>1, <1>3, <1>5 DEF GameRecords
<1>7. RoundTypeOK' /\ ChoicesOK' /\ FlowInv'
  BY <1>1, <1>3, <1>4, <1>6, ChoiceKeepsTypes DEF Choices
<1>8. TurnInv'
  BY <1>1, <1>3, <1>6, TurnWhileActive, TurnsAfterPass DEF g
<1> QED BY <1>7, <1>8 DEF RoundInv

LEMMA CardKeepsInv ==
  ASSUME RoundInv, NEW p \in Players, TakeCardAction(p),
         Made(p, IF p \in game'.extra THEN "bonus" ELSE "card")
  PROVE  RoundInv'
<1> DEFINE o == Opponent(p)
           choice == IF p \in game'.extra THEN "bonus" ELSE "card"
<1>1. /\ pc = "actionWindow" /\ p = game.active /\ pc' = "rotate"
      /\ game.actionNumber < MaxActions /\ UNCHANGED <<phaseObj, done>>
  BY DEF TakeCardAction, AtStep
<1>2. game \in GameRecords /\ prompted \in SUBSET Players
  BY DEF RoundInv, RoundTypeOK
<1>3. /\ game' \in GameRecords /\ game'.active = p /\ game'.extra \subseteq {p}
      /\ game'.round = game.round /\ game'.actionNumber = game.actionNumber
      /\ game'.initiative = game.initiative /\ game'.passed = game.passed
      /\ game'.prevPassed = FALSE
  <2>1. PICK extra \in {FALSE, ExtraActions} :
          game' = [game EXCEPT !.prevPassed = FALSE,
                               !.extra = IF extra THEN @ \cup {p} ELSE @]
    BY DEF TakeCardAction
  <2>2. game.extra = {} /\ (IF extra THEN game.extra \cup {p} ELSE game.extra) \in SUBSET {p}
    BY <1>1, TurnWhileActive
  <2> QED BY <1>1, <1>2, <2>1, <2>2 DEF GameRecords
<1>4. asking' \in Seq(Players) /\ Len(asking') <= MaxQuestions /\ prompted' \in SUBSET Players
  BY <1>2, QuestionsAreToPlayers, AskPutsToPlayers DEF TakeCardAction
<1>5. RoundTypeOK' /\ ChoicesOK' /\ FlowInv'
  BY <1>1, <1>3, <1>4, ChoiceKeepsTypes DEF Choices
<1>6. o \in Players /\ o # p /\ Players = {p, o} /\ Opponent(o) = p
  BY OpponentIsTheOther
<1>7. /\ lastChoice'[p] = choice
      /\ lastChoice'[o] = IF lastChoice[o] = "pass" THEN "none" ELSE lastChoice[o]
      /\ lastActor' = p
  BY <1>6 DEF Made
<1>8. /\ TurnOf(p, game.actionNumber) /\ game.round \in Nat /\ game.round >= 1
      /\ game.actionNumber \in Nat /\ MaxActions \in Nat
  BY <1>1, TurnWhileActive
<1>9. p # NoPlayer /\ o # NoPlayer
  BY <1>6, RoundFlowAssumption
<1>10. game.actionNumber + 1 < MaxActions + game.round
  BY <1>1, <1>8
<1> HIDE DEF o
<1>11. CASE p \in game'.extra
  <2>1. NextActive' = p
    BY <1>3, <1>11 DEF NextActive
  <2>2. TurnOf(NextActive, game.actionNumber + 1)'
    BY <1>3, <1>6, <1>7, <1>8, <1>10, <1>11, <2>1 DEF TurnOf, IsDone, o
  <2> QED BY <1>1, <1>3, <1>5, <1>9, <2>1, <2>2 DEF RoundInv, TurnInv, Windows
<1>12. CASE p \notin game'.extra /\ o \notin game.passed
  <2>1. NextActive' = o
    BY <1>3, <1>12 DEF NextActive, o
  <2>2. game.passed = {} /\ lastChoice[o] # "claim"
    BY <1>8, <1>12 DEF TurnOf, o
  <2>3. TurnOf(NextActive, game.actionNumber + 1)'
    BY <1>3, <1>6, <1>7, <1>8, <1>10, <1>12, <2>1, <2>2 DEF TurnOf, IsDone
  <2> QED BY <1>1, <1>3, <1>5, <1>9, <2>1, <2>3 DEF RoundInv, TurnInv, Windows
<1>13. CASE p \notin game'.extra /\ o \in game.passed
  <2>1. game.passed = {o} /\ lastChoice[o] = "claim"
    BY <1>8, <1>13 DEF TurnOf, o
  <2>2. NextActive' = p
    BY <1>3, <1>6, <1>13, <2>1 DEF NextActive, o
  <2>3. TurnOf(NextActive, game.actionNumber + 1)'
    BY <1>3, <1>6, <1>7, <1>8, <1>10, <1>13, <2>1, <2>2 DEF TurnOf, IsDone, o
  <2> QED BY <1>1, <1>3, <1>5, <1>9, <2>2, <2>3 DEF RoundInv, TurnInv, Windows
<1> QED BY <1>5, <1>11, <1>12, <1>13 DEF RoundInv

LEMMA PromptAnswerKeepsInv ==
  ASSUME RoundInv, NEW p \in Players, Mulligan(p) \/ SetupResource(p) \/ RegroupResource(p),
         UNCHANGED <<lastChoice, lastActor>>
  PROVE  RoundInv'
<1>1. /\ UNCHANGED <<game, phaseObj, prompted, asking>>
      /\ done' \in SUBSET Players
      /\ \/ pc = "mulligan" /\ pc' \in {"mulligan", "beforeResource"}
         \/ pc = "setupResource" /\ pc' \in {"setupResource", "endPhase"}
         \/ pc = "regroupResource" /\ pc' \in {"regroupResource", "readyAllCards"}
  BY DEF Mulligan, SetupResource, RegroupResource, Finish, AtStep, RoundInv, RoundTypeOK
<1>2. RoundTypeOK' /\ ChoicesOK'
  BY <1>1 DEF RoundInv, RoundTypeOK, ChoicesOK, Steps
<1>3. FlowInv'
  BY <1>1 DEF RoundInv, FlowInv, ActionSteps, Windows, BeforeFirstPlayer, BeforeActions
<1>4. TurnInv'
  BY <1>1 DEF RoundInv, TurnInv, Windows
<1> QED BY <1>2, <1>3, <1>4 DEF RoundInv

-----------------------------------------------------------------------------
(* The invariant and what follows from it *)

LEMMA RoundInvStep == RoundInv /\ [MCNext]_mcVars => RoundInv'
<1> SUFFICES ASSUME RoundInv, [MCNext]_mcVars PROVE RoundInv'
  OBVIOUS
<1> DEFINE Kept == UNCHANGED <<lastChoice, lastActor>>
           Reset == lastChoice' = [p \in Players |-> "none"] /\ lastActor' = NoPlayer
<1>1. CASE (Pipeline \/ Answer) /\ IF pc = "setupActionPhase" THEN Reset ELSE Kept
  <2>1. CASE Answer
    BY <1>1, <2>1, AnswerKeepsInv DEF RoundInv, ChoicesOK, Choices
  <2>2. CASE SetupActionPhase
    BY <1>1, <2>2, SetupActionPhaseKeepsInv DEF SetupActionPhase, AtStep
  <2>3. CASE Pipeline /\ ~SetupActionPhase
    <3>1. pc # "setupActionPhase"
      BY <2>3
         DEF Pipeline, SetCurrentPhase, StartOfPhaseSnapshot, StartPhase, EndPhase, PhaseEnded,
             BeginRound, ChooseFirstPlayer, SnapshotBeforeMulligan, OpenMulliganPrompt,
             SnapshotBeforeResource, OpenSetupResourcePrompt, OpenActionWindow, OpenPrompt,
             RotateActivePlayer, TearDownActionPhase, DrawTwo, Draws, OpenResourcePrompt,
             ReadyAllCards, CardsReadied, AtStep
    <3>2. Kept
      BY <1>1, <3>1
    <3>3. QuietStep \/ BoundaryStep \/ OpenActionWindow \/ RotateActivePlayer \/ TearDownActionPhase
      BY <2>3 DEF Pipeline, QuietStep, BoundaryStep
    <3> QED
      BY <3>2, <3>3, QuietStepKeepsInv, BoundaryStepKeepsInv, OpenActionWindowKeepsInv,
         RotateKeepsInv, TearDownKeepsInv
  <2> QED BY <1>1, <2>1, <2>2, <2>3
<1>2. ASSUME NEW p \in Players,
             Mulligan(p) \/ SetupResource(p) \/ RegroupResource(p), Kept
      PROVE  RoundInv'
  BY <1>2, PromptAnswerKeepsInv
<1>3. ASSUME NEW p \in Players, Pass(p), Made(p, "pass") PROVE RoundInv'
  BY <1>3, PassKeepsInv
<1>4. ASSUME NEW p \in Players, TakeCardAction(p),
             Made(p, IF p \in game'.extra THEN "bonus" ELSE "card")
      PROVE  RoundInv'
  BY <1>4, CardKeepsInv
<1>5. ASSUME NEW p \in Players, NEW counter \in game.counters, ClaimCounter(p, counter), Made(p, "claim")
      PROVE  RoundInv'
  BY <1>5, ClaimKeepsInv
<1>6. CASE UNCHANGED mcVars
  BY <1>6
     DEF mcVars, roundVars, flowVars, RoundInv, RoundTypeOK, ChoicesOK, FlowInv, TurnInv, TurnOf,
         IsDone, NextActive
<1>7. CASE LastRoundOver
  BY <1>6, <1>7 DEF LastRoundOver
<1> QED BY <1>1, <1>2, <1>3, <1>4, <1>5, <1>6, <1>7 DEF MCNext

LEMMA RoundInvAlways == MCSpec => []RoundInv
<1>1. MCInit => RoundInv
  BY RoundInvInit
<1>2. RoundInv /\ [MCNext]_mcVars => RoundInv'
  BY RoundInvStep
<1> QED BY <1>1, <1>2, PTL DEF MCSpec

\* Type correctness; with it, that the actions of a game are bounded by the cards
\* to play and one more a round.
THEOREM RoundTypeCorrect == MCSpec => [](RoundTypeOK /\ ActionsAreBounded)
<1>1. RoundInv => RoundTypeOK /\ ActionsAreBounded
  BY DEF RoundInv, FlowInv, ActionsAreBounded
<1> QED BY <1>1, RoundInvAlways, PTL

\* pass() and rotateActivePlayer end the action phase only when the last thing each
\* player did was to pass or claim, and leave no window open once that is so.
THEOREM PhaseEndsWhenBothAreDone == MCSpec => []OverExactlyWhenBothAreDone
<1>1. RoundInv => OverExactlyWhenBothAreDone
  <2>1. RoundInv => OnlyWhenBothAreDone
    BY DEF RoundInv, TurnInv, OnlyWhenBothAreDone, IsDone
  <2>2. RoundInv => OverOnceBothAreDone
    BY DEF RoundInv, TurnInv, TurnOf, IsDone, Windows, OverOnceBothAreDone, AtActionWindow
  <2> QED BY <2>1, <2>2 DEF OverExactlyWhenBothAreDone
<1> QED BY <1>1, RoundInvAlways, PTL

\* A player who has claimed a counter gets no other window in the phase.
THEOREM ClaimersStayOut == MCSpec => []ClaimerIsOut
<1>1. RoundInv => ClaimerIsOut
  BY DEF RoundInv, TurnInv, TurnOf, IsDone, Windows, ClaimerIsOut, AtActionWindow
<1> QED BY <1>1, RoundInvAlways, PTL

\* rotateActivePlayer gives nobody two actions in a row but those who were given
\* another one and those whose opponent is out.
THEOREM TurnsAlternate == MCSpec => []PlayersAlternate
<1>1. RoundInv => PlayersAlternate
  BY DEF RoundInv, TurnInv, TurnOf, Windows, PlayersAlternate, AtActionWindow
<1> QED BY <1>1, RoundInvAlways, PTL

-----------------------------------------------------------------------------
(* The counters.  Claims of the phase are the last choices of their players, *)
(* each of a counter of its own, so that nobody can pass before both are out *)
(* when there are more counters than one.                                    *)

Turns == Windows \cup {"rotate", "tearDown"}
Claims(p) == lastChoice[p] = "claim"

CounterInv ==
  /\ pc \notin Turns => game.claimed = {}
  /\ pc \in Turns =>
       /\ (\A p \in Players : ~Claims(p)) => game.claimed = {}
       /\ (\E p \in Players : Claims(p) /\ ~Claims(Opponent(p))) => \E c : game.claimed = {c}
       /\ (\A p \in Players : Claims(p)) => \E c, d : c # d /\ game.claimed = {c, d}
       /\ Cardinality(game.counters) > 1 => \A p \in Players : lastChoice[p] # "pass"

LEMMA CounterInvInit == MCInit => CounterInv
BY DEF MCInit, RoundInit, CounterInv, Turns, Windows

\* Steps that make no choice keep what was claimed, outside the end of the phase.
LEMMA CountersBetweenChoices ==
  ASSUME RoundInv, CounterInv, Pipeline \/ Answer,
         IF pc = "setupActionPhase"
         THEN lastChoice' = [p \in Players |-> "none"] /\ lastActor' = NoPlayer
         ELSE UNCHANGED <<lastChoice, lastActor>>
  PROVE  CounterInv'
<1>1. game \in GameRecords
  BY DEF RoundInv, RoundTypeOK
<1>2. CASE SetupActionPhase
  <2>1. /\ pc = "setupActionPhase" /\ pc' = "queueNextAction" /\ game'.claimed = game.claimed
        /\ lastChoice' = [p \in Players |-> "none"]
    BY <1>1, <1>2 DEF SetupActionPhase, AtStep, GameRecords
  <2>2. game'.claimed = {}
    BY <2>1 DEF CounterInv, Turns, Windows
  <2>3. \A p \in Players : lastChoice'[p] = "none"
    BY <2>1
  <2>4. \A p \in Players : ~Claims(p)'
    BY <2>3 DEF Claims
  <2>5. \E p \in Players : TRUE
    BY RoundFlowAssumption
  <2> QED BY <2>1, <2>2, <2>3, <2>4, <2>5 DEF CounterInv, Turns, Windows
<1>3. CASE TearDownActionPhase
  BY <1>1, <1>3 DEF TearDownActionPhase, AtStep, GameRecords, CounterInv, Turns, Windows
<1>4. CASE RotateActivePlayer
  <2>1. /\ pc = "rotate" /\ pc' \in {"tearDown", "queueNextAction"}
        /\ game'.claimed = game.claimed /\ game'.counters = game.counters
    BY <1>1, <1>4 DEF RotateActivePlayer, AtStep, GameRecords
  <2> QED BY <2>1 DEF CounterInv, Turns, Windows, Claims
<1>5. CASE OpenActionWindow
  BY <1>5 DEF OpenActionWindow, AtStep, CounterInv, Turns, Windows, Claims
<1>6. CASE Answer
  <2>1. UNCHANGED <<game, pc>>
    BY <1>6 DEF Answer
  <2>2. pc \in Turns => UNCHANGED lastChoice
    BY DEF Turns, Windows
  <2> QED BY <2>1, <2>2 DEF CounterInv, Claims
<1>7. CASE QuietStep \/ BoundaryStep
  <2>1. pc \notin Turns /\ pc' \notin Turns
    BY <1>7
       DEF QuietStep, StartOfPhaseSnapshot, PhaseEnded, SnapshotBeforeMulligan, SnapshotBeforeResource,
           OpenMulliganPrompt, OpenPrompt, OpenSetupResourcePrompt, OpenResourcePrompt, DrawTwo, Draws,
           ReadyAllCards, CardsReadied, BoundaryStep, SetCurrentPhase, StartPhase, EndPhase, BeginRound,
           ChooseFirstPlayer, AtStep, RoundInv, FlowInv, NewPhase, FirstStep, Phases, Turns, Windows
  <2>2. game'.claimed = game.claimed
    BY <1>1, <1>7
       DEF QuietStep, StartOfPhaseSnapshot, PhaseEnded, SnapshotBeforeMulligan, SnapshotBeforeResource,
           OpenMulliganPrompt, OpenPrompt, OpenSetupResourcePrompt, OpenResourcePrompt, DrawTwo, Draws,
           ReadyAllCards, CardsReadied, BoundaryStep, SetCurrentPhase, StartPhase, EndPhase, BeginRound,
           ChooseFirstPlayer, GameRecords
  <2> QED BY <2>1, <2>2 DEF CounterInv
<1> QED BY <1>2, <1>3, <1>4, <1>5, <1>6, <1>7 DEF Pipeline, QuietStep, BoundaryStep

\* Whoever may choose has not claimed yet, and at most one counter is gone.
LEMMA CountersAtWindow ==
  ASSUME RoundInv, CounterInv, pc = "actionWindow"
  PROVE  /\ game.active \in Players /\ ~Claims(game.active)
         /\ IF Claims(Opponent(game.active)) THEN \E c : game.claimed = {c} ELSE game.claimed = {}
         /\ Cardinality(game.claimed) < 2
         /\ Cardinality(game.counters) > 1 => \A q \in Players : lastChoice[q] # "pass"
<1>1. game.active \in Players /\ ~Claims(game.active)
  BY TurnWhileActive DEF TurnOf, IsDone, Claims
<1>2. /\ Opponent(game.active) \in Players /\ Opponent(Opponent(game.active)) = game.active
      /\ \A q \in Players : q = game.active \/ q = Opponent(game.active)
  BY <1>1, OpponentIsTheOther
<1>3. IF Claims(Opponent(game.active)) THEN \E c : game.claimed = {c} ELSE game.claimed = {}
  BY <1>1, <1>2 DEF CounterInv, Turns, Windows
<1>4. Cardinality(game.claimed) < 2
  BY <1>3, FS_Singleton, FS_EmptySet
<1> QED BY <1>1, <1>3, <1>4 DEF CounterInv, Turns, Windows

LEMMA CountersAfterChoice ==
  ASSUME RoundInv, CounterInv, NEW p \in Players,
         \/ Pass(p) /\ Made(p, "pass")
         \/ TakeCardAction(p) /\ Made(p, IF p \in game'.extra THEN "bonus" ELSE "card")
         \/ (\E counter \in game.counters : ClaimCounter(p, counter)) /\ Made(p, "claim")
  PROVE  CounterInv'
<1>1. game \in GameRecords /\ lastChoice \in [Players -> Choices]
  BY DEF RoundInv, RoundTypeOK, ChoicesOK
<1>2. pc = "actionWindow" /\ p = game.active /\ pc' = "rotate"
  BY DEF Pass, TakeCardAction, ClaimCounter, AtStep
<1> DEFINE o == Opponent(p)
<1>3. o \in Players /\ o # p /\ Players = {p, o} /\ Opponent(o) = p
  BY OpponentIsTheOther
<1>4. /\ ~Claims(p)
      /\ IF Claims(o) THEN \E c : game.claimed = {c} ELSE game.claimed = {}
      /\ Cardinality(game.claimed) < 2
      /\ Cardinality(game.counters) > 1 => \A q \in Players : lastChoice[q] # "pass"
  BY <1>2, CountersAtWindow
<1> HIDE DEF o
<1>5. CASE (\E counter \in game.counters : ClaimCounter(p, counter)) /\ Made(p, "claim")
  <2>1. PICK counter \in game.counters : ClaimCounter(p, counter)
    BY <1>5
  <2>2. counter \notin game.claimed
    BY <2>1 DEF ClaimCounter
  <2>3. game'.claimed = game.claimed \cup {counter} /\ game'.counters = game.counters
    <3>1. /\ AfterPass(game, p) \in GameRecords
          /\ AfterPass(game, p).claimed = game.claimed /\ AfterPass(game, p).counters = game.counters
      BY <1>1, AfterPassInGame DEF AfterPass, GameRecords
    <3> QED BY <2>1, <3>1 DEF ClaimCounter, GameRecords
  <2>4. Claims(p)' /\ (Claims(o)' <=> Claims(o)) /\ lastChoice'[o] = lastChoice[o]
    BY <1>1, <1>3, <1>5 DEF Made, Claims
  <2>5. lastChoice'[p] = "claim"
    BY <2>4 DEF Claims
  <2>6. CASE Claims(o)
    <3>1. \E c, d : c # d /\ game'.claimed = {c, d}
      BY <1>4, <2>2, <2>3, <2>6
    <3>2. \A q \in Players : Claims(q)'
      BY <1>3, <2>4, <2>6
    <3>3. \A q \in Players : lastChoice'[q] # "pass"
      BY <3>2 DEF Claims
    <3> QED BY <1>2, <1>3, <3>1, <3>2, <3>3, OpponentIsTheOther DEF CounterInv, Turns
  <2>7. CASE ~Claims(o)
    <3>1. \E c : game'.claimed = {c}
      BY <1>4, <2>3, <2>7
    <3> QED BY <1>2, <1>3, <1>4, <2>3, <2>4, <2>5, <2>7, <3>1 DEF CounterInv, Turns, Claims
  <2> QED BY <2>6, <2>7
<1>6. CASE Pass(p) /\ Made(p, "pass")
  <2>1. Cardinality(game.counters) > 1 => FALSE
    BY <1>4, <1>6 DEF Pass, MustClaimCounter
  <2>2. game'.claimed = game.claimed /\ game'.counters = game.counters
    BY <1>1, <1>6 DEF Pass, AfterPass, GameRecords
  <2>3. ~Claims(p)' /\ (Claims(o)' <=> Claims(o))
    BY <1>1, <1>3, <1>6 DEF Made, Claims
  <2> QED BY <1>2, <1>3, <1>4, <2>1, <2>2, <2>3 DEF CounterInv, Turns
<1>7. CASE TakeCardAction(p) /\ Made(p, IF p \in game'.extra THEN "bonus" ELSE "card")
  <2>1. game'.claimed = game.claimed /\ game'.counters = game.counters
    BY <1>1, <1>7 DEF TakeCardAction, GameRecords
  <2>2. /\ ~Claims(p)' /\ lastChoice'[p] # "pass"
        /\ Claims(o)' <=> Claims(o)
        /\ lastChoice'[o] # "pass"
    BY <1>1, <1>3, <1>7 DEF Made, Claims
  <2> QED BY <1>2, <1>3, <1>4, <2>1, <2>2 DEF CounterInv, Turns
<1> QED BY <1>5, <1>6, <1>7

LEMMA CounterInvStep == RoundInv /\ CounterInv /\ [MCNext]_mcVars => CounterInv'
<1> SUFFICES ASSUME RoundInv, CounterInv, [MCNext]_mcVars PROVE CounterInv'
  OBVIOUS
<1>1. ASSUME NEW p \in Players, Mulligan(p) \/ SetupResource(p) \/ RegroupResource(p),
             UNCHANGED <<lastChoice, lastActor>>
      PROVE  CounterInv'
  BY <1>1 DEF Mulligan, SetupResource, RegroupResource, Finish, AtStep, CounterInv, Turns, Windows
<1>2. CASE UNCHANGED mcVars
  BY <1>2 DEF mcVars, roundVars, flowVars, CounterInv, Claims
<1>3. CASE LastRoundOver
  BY <1>2, <1>3 DEF LastRoundOver
<1> QED BY <1>1, <1>2, <1>3, CountersBetweenChoices, CountersAfterChoice DEF MCNext

\* With three counters no player can leave the action phase by passing: each takes
\* exactly one (hasUnclaimedClaimableCounter in ActionWindow.ts).
THEOREM EachClaimsOneCounter == MCSpec => []OneCounterEach
<1>1. RoundInv /\ CounterInv => OneCounterEach
  <2> SUFFICES ASSUME RoundInv, CounterInv, pc = "tearDown", Cardinality(game.counters) = 3
               PROVE  /\ Cardinality(game.claimed) = 2
                      /\ \A p \in Players : lastChoice[p] = "claim"
    BY DEF OneCounterEach
  <2>1. \A p \in Players : Claims(p)
    BY DEF RoundInv, TurnInv, IsDone, CounterInv, Turns, Claims
  <2>2. PICK c, d : c # d /\ game.claimed = {c, d}
    BY <2>1 DEF CounterInv, Turns
  <2>3. IsFiniteSet({c}) /\ Cardinality({c}) = 1 /\ d \notin {c}
    BY <2>2, FS_Singleton
  <2>4. Cardinality({c} \cup {d}) = 2
    BY <2>3, FS_AddElement
  <2>5. {c} \cup {d} = {c, d}
    OBVIOUS
  <2> QED BY <2>1, <2>2, <2>4, <2>5 DEF Claims
<1>2. MCSpec => []CounterInv
  BY RoundInvAlways, CounterInvInit, CounterInvStep, PTL DEF MCSpec
<1> QED BY <1>1, <1>2, RoundInvAlways, PTL
=============================================================================
