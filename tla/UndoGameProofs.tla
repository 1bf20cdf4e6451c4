--------------------------- MODULE UndoGameProofs ---------------------------
(***************************************************************************)
(* The game with undo, for any windows that ask questions, any limits of   *)
(* the history and the rounds, and each of the undo modes: it uses the     *)
(* store as ManagerSpec says, so that its past is a TimelineHistory, every *)
(* action window stands at a snapshot of the moment, and an undo without   *)
(* consent spares what it should.                                          *)
(*                                                                         *)
(* A rollback may land the game in any snapshot a container holds, so      *)
(* nothing can be said of the game after it without an invariant of all    *)
(* the snapshots.  UndoInv has five layers:                                *)
(*   RoundPart    the round flow: types, the pipeline and its phase object *)
(*   StoreInv     the store (SnapshotManagerProofs)                        *)
(*   HeapInv      what each recorded state is, by its timepoint, and whose *)
(*                containers it may be in                                  *)
(*   MomentPart   the present: which timepoint the pipeline is at, what of *)
(*                the game is as the current snapshot recorded it, and     *)
(*                what is not yet kept for anyone                          *)
(*   ConsentInv   what open requests were shown                            *)
(* HistoryPart adds the line of play that the snapshots stand on:          *)
(*   PlaceInv     the timepoint passed last, by the step of the pipeline   *)
(*   LineOrder    which timepoint follows which                            *)
(*   EntriesInv   what quick undo knows of the line                        *)
(* UndoHistoryInv says of it what was revealed and resolved since each     *)
(* snapshot, DecisionsInv where something was decided.                     *)
(***************************************************************************)
EXTENDS UndoGame, SnapshotManagerProofs, FiniteSetTheorems, TLAPS

-----------------------------------------------------------------------------
(* Players and questions *)

LEMMA OpponentIsTheOther ==
  ASSUME NEW p \in Players
  PROVE  /\ Opponent(p) \in Players
         /\ Opponent(p) # p
         /\ \A q \in Players : q = p \/ q = Opponent(p)
<1>1. \E q \in Players : q # p /\ \A r \in Players : r = p \/ r = q
  BY RoundFlowAssumption
<1>2. Opponent(p) \in Players /\ Opponent(p) # p
  BY <1>1 DEF Opponent
<1> QED BY <1>1, <1>2

LEMMA QuestionsAreToPlayers ==
  ASSUME NEW step, NEW questions \in Questions(step)
  PROVE  questions \in Seq(Players) /\ Len(questions) <= MaxQuestions
<1>1. CASE step \in AskingSteps
  <2>1. PICK n \in 0 .. MaxQuestions : questions \in [1 .. n -> Players]
    BY <1>1 DEF Questions
  <2>2. n \in Nat
    BY RoundFlowAssumption
  <2>3. questions \in Seq(Players)
    BY <2>1, <2>2
  <2> QED BY <2>1, <2>2, <2>3
<1>2. CASE step \notin AskingSteps
  BY <1>2, RoundFlowAssumption DEF Questions
<1> QED BY <1>1, <1>2

LEMMA AskPutsToPlayers ==
  ASSUME NEW questions \in Seq(Players), Len(questions) <= MaxQuestions,
         NEW before \in SUBSET Players, Ask(questions, before)
  PROVE  asking' \in Seq(Players) /\ Len(asking') <= MaxQuestions /\ prompted' \in SUBSET Players
<1>1. questions # <<>> => Head(questions) \in Players
  OBVIOUS
<1> QED BY <1>1 DEF Ask

\* The game record, field by field.
LEMMA GameFields ==
  ASSUME RoundTypeOK
  PROVE  /\ game.phase \in Phases \cup {"none"} /\ game.round \in 0 .. MaxRounds
         /\ game.actionNumber \in Nat
         /\ game.active \in Players \cup {NoPlayer} /\ game.initiative \in Players \cup {NoPlayer}
         /\ game.counters \in Formats /\ game.claimed \in SUBSET UNION Formats
         /\ game.prevPassed \in BOOLEAN
         /\ game.passed \in SUBSET Players /\ game.extra \in SUBSET Players
         /\ game.starts \in 0 .. 2 /\ game.ended \in BOOLEAN
BY DEF RoundTypeOK, GameRecords

\* A pass changes passed and prevPassed alone.
LEMMA AfterPassInGame ==
  ASSUME NEW p \in Players, game \in GameRecords
  PROVE  /\ AfterPass(game, p) \in GameRecords
         /\ AfterPass(game, p).active = game.active /\ AfterPass(game, p).extra = game.extra
         /\ AfterPass(game, p).round = game.round
         /\ AfterPass(game, p).actionNumber = game.actionNumber
         /\ AfterPass(game, p).initiative = game.initiative
<1>1. CASE game.prevPassed
  BY <1>1 DEF AfterPass, GameRecords
<1>2. CASE ~game.prevPassed /\ Opponent(p) \in game.passed
  BY <1>2 DEF AfterPass, GameRecords
<1>3. CASE ~game.prevPassed /\ Opponent(p) \notin game.passed
  BY <1>3 DEF AfterPass, GameRecords
<1> QED BY <1>1, <1>2, <1>3

-----------------------------------------------------------------------------
(* Types *)

\* Whatever is asked, and whoever is prompted, are players.
LEMMA PromptsArePlayers ==
  ASSUME RoundTypeOK, Pipeline \/ Answer \/ (\E p \in Players : Choice(p)),
         pc = "queueNextAction" => game.active \in Players
  PROVE  asking' \in Seq(Players) /\ Len(asking') <= MaxQuestions /\ prompted' \in SUBSET Players
<1>1. asking \in Seq(Players) /\ Len(asking) <= MaxQuestions /\ prompted \in SUBSET Players
  BY DEF RoundTypeOK
<1>2. CASE Answer
  <2>1. Tail(asking) \in Seq(Players) /\ Len(Tail(asking)) = Len(asking) - 1
    BY <1>1, <1>2 DEF Answer
  <2>2. Len(Tail(asking)) <= MaxQuestions
    BY <1>1, <2>1, RoundFlowAssumption
  <2> QED BY <1>1, <1>2, <2>1, <2>2, AskPutsToPlayers DEF Answer
<1>3. CASE StartPhase \/ EndPhase \/ Draws \/ ReadyAllCards
  <2>1. ASSUME NEW step, NEW before \in SUBSET Players, NEW questions \in Questions(step),
               Ask(questions, before)
        PROVE  asking' \in Seq(Players) /\ Len(asking') <= MaxQuestions /\ prompted' \in SUBSET Players
    BY <2>1, QuestionsAreToPlayers, AskPutsToPlayers
  <2>2. CASE StartPhase
    <3>1. PICK questions \in Questions(StartOf[phaseObj.name]) : Ask(questions, {})
      BY <2>2 DEF StartPhase
    <3> QED BY <2>1, <3>1
  <2>3. CASE EndPhase
    <3>1. PICK questions \in Questions(EndOf[phaseObj.name]) :
            Ask(questions, IF TakesEndSnapshots THEN {} ELSE prompted)
      BY <2>3 DEF EndPhase
    <3> QED BY <1>1, <2>1, <3>1
  <2>4. CASE Draws
    <3>1. PICK questions \in Questions("drawTwo") : Ask(questions, prompted)
      BY <2>4 DEF Draws
    <3> QED BY <1>1, <2>1, <3>1
  <2>5. CASE ReadyAllCards
    <3>1. PICK questions \in Questions("readyAllCards") :
            Ask(questions, IF TakesReadySnapshots THEN {} ELSE prompted)
      BY <2>5 DEF ReadyAllCards
    <3> QED BY <1>1, <2>1, <3>1
  <2> QED BY <1>3, <2>2, <2>3, <2>4, <2>5
<1>4. ASSUME NEW p \in Players, Choice(p)
      PROVE  asking' \in Seq(Players) /\ Len(asking') <= MaxQuestions /\ prompted' \in SUBSET Players
  <2>1. CASE UNCHANGED <<asking, prompted>>
    BY <1>1, <2>1
  <2>2. CASE TakeCardAction(p) \/ \E counter \in game.counters : ClaimCounter(p, counter)
    <3>1. PICK questions \in Questions("action") : Ask(questions, prompted)
      BY <2>2 DEF TakeCardAction, ClaimCounter
    <3> QED BY <1>1, <3>1, QuestionsAreToPlayers, AskPutsToPlayers
  <2> QED BY <1>4, <2>1, <2>2 DEF Choice, Mulligan, SetupResource, RegroupResource, Finish, Pass
<1>5. CASE Pipeline /\ ~(StartPhase \/ EndPhase \/ Draws \/ ReadyAllCards)
  BY <1>1, <1>5
     DEF Pipeline, SetCurrentPhase, StartOfPhaseSnapshot, PhaseEnded, BeginRound, ChooseFirstPlayer,
         SnapshotBeforeMulligan, SnapshotBeforeResource, OpenMulliganPrompt, OpenSetupResourcePrompt,
         OpenResourcePrompt, OpenPrompt, SetupActionPhase, OpenActionWindow, RotateActivePlayer,
         TearDownActionPhase, DrawTwo, CardsReadied, AtStep
<1> QED BY <1>2, <1>3, <1>4, <1>5

LEMMA GameStaysARecord ==
  ASSUME RoundTypeOK, Pipeline \/ Answer \/ (\E p \in Players : Choice(p))
  PROVE  game' \in GameRecords
<1>1. game \in GameRecords /\ phaseObj.name \in Phases
  BY DEF RoundTypeOK, PhaseObjects
<1>2. CASE UNCHANGED game
  BY <1>1, <1>2
<1>3. CASE SetCurrentPhase
  <2>1. (IF phaseObj.mode = "normal" THEN 0 ELSE game.starts) \in 0 .. 2
    BY GameFields
  <2> QED BY <1>1, <1>3, <2>1 DEF SetCurrentPhase, GameRecords
<1>4. CASE StartPhase
  BY <1>1, <1>4 DEF StartPhase, GameRecords
<1>5. CASE EndPhase
  BY <1>1, <1>5 DEF EndPhase, GameRecords
<1>6. CASE BeginRound
  <2>1. game.round + 1 \in 0 .. MaxRounds
    BY <1>6, GameFields, RoundFlowAssumption DEF BeginRound
  <2>2. game' = [game EXCEPT !.round = game.round + 1, !.active = game.initiative]
    BY <1>6 DEF BeginRound
  <2> QED BY <1>1, <2>1, <2>2 DEF GameRecords
<1>7. CASE ChooseFirstPlayer
  BY <1>1, <1>7 DEF ChooseFirstPlayer, GameRecords
<1>8. CASE SetupActionPhase \/ TearDownActionPhase
  BY <1>1, <1>8 DEF SetupActionPhase, TearDownActionPhase, GameRecords
<1>9. CASE RotateActivePlayer
  <2>1. NextActive \in Players \cup {NoPlayer}
    <3>1. \E q \in Players : q # game.active
      BY RoundFlowAssumption
    <3>2. Opponent(game.active) \in Players
      BY <3>1 DEF Opponent
    <3> QED BY <3>2, GameFields DEF NextActive
  <2>2. /\ game.extra \ {game.active} \in SUBSET Players
        /\ (IF NextActive = NoPlayer THEN game.actionNumber ELSE game.actionNumber + 1) \in Nat
    BY GameFields
  <2> QED BY <1>1, <1>9, <2>1, <2>2 DEF RotateActivePlayer, GameRecords
<1>10. ASSUME NEW p \in Players, Pass(p) PROVE game' \in GameRecords
  BY <1>1, <1>10, AfterPassInGame DEF Pass
<1>11. ASSUME NEW p \in Players, TakeCardAction(p) PROVE game' \in GameRecords
  <2>1. PICK extra \in {FALSE, ExtraActions} :
          game' = [game EXCEPT !.prevPassed = FALSE, !.extra = IF extra THEN @ \cup {p} ELSE @]
    BY <1>11 DEF TakeCardAction
  <2>2. (IF extra THEN game.extra \cup {p} ELSE game.extra) \in SUBSET Players
    BY GameFields
  <2> QED BY <1>1, <2>1, <2>2 DEF GameRecords
<1>12. ASSUME NEW p \in Players, NEW counter \in game.counters, ClaimCounter(p, counter)
       PROVE  game' \in GameRecords
  <2> DEFINE g == AfterPass(game, p)
  <2>1. /\ g \in GameRecords
        /\ game' = [g EXCEPT !.claimed = @ \cup {counter}, !.passed = @ \cup {p},
                             !.initiative = IF counter = "initiative" THEN p ELSE @]
    BY <1>1, <1>12, AfterPassInGame DEF ClaimCounter
  <2>2. counter \in UNION Formats
    BY GameFields
  <2> HIDE DEF g
  <2> QED BY <2>1, <2>2 DEF GameRecords
<1> QED
  BY <1>2, <1>3, <1>4, <1>5, <1>6, <1>7, <1>8, <1>9, <1>10, <1>11, <1>12
     DEF Pipeline, Answer, Choice, Mulligan, SetupResource, RegroupResource, Finish,
         StartOfPhaseSnapshot, PhaseEnded, SnapshotBeforeMulligan, SnapshotBeforeResource,
         OpenMulliganPrompt, OpenSetupResourcePrompt, OpenResourcePrompt, OpenPrompt,
         OpenActionWindow, DrawTwo, Draws, ReadyAllCards, CardsReadied

LEMMA RoundStepKeepsTypes ==
  ASSUME RoundTypeOK, Pipeline \/ Answer \/ (\E p \in Players : Choice(p)),
         pc = "queueNextAction" => game.active \in Players
  PROVE  RoundTypeOK'
<1>1. game' \in GameRecords
  BY GameStaysARecord
<1>2. asking' \in Seq(Players) /\ Len(asking') <= MaxQuestions /\ prompted' \in SUBSET Players
  BY PromptsArePlayers
<1>3. pc' \in Steps /\ phaseObj' \in PhaseObjects /\ done' \in SUBSET Players
  <2>1. /\ pc \in Steps /\ done \in SUBSET Players /\ phaseObj \in PhaseObjects
        /\ phaseObj.first \in Steps
    BY DEF RoundTypeOK, PhaseObjects
  <2>2. \A name \in Phases : NewPhase(name) \in PhaseObjects
    BY DEF NewPhase, PhaseObjects, Phases, Modes, FirstStep, Steps
  <2>3. CASE Answer
    BY <2>1, <2>3 DEF Answer
  <2>4. ASSUME NEW p \in Players, Choice(p)
        PROVE  pc' \in Steps /\ phaseObj' \in PhaseObjects /\ done' \in SUBSET Players
    BY <2>1, <2>4
       DEF Choice, Mulligan, SetupResource, RegroupResource, Finish, Pass, TakeCardAction, ClaimCounter, Steps
  <2>5. CASE SetCurrentPhase \/ StartOfPhaseSnapshot \/ StartPhase \/ EndPhase \/ PhaseEnded \/ BeginRound
    BY <2>1, <2>2, <2>5
       DEF SetCurrentPhase, StartOfPhaseSnapshot, StartPhase, EndPhase, PhaseEnded, BeginRound, Steps, Phases
  <2>6. CASE Pipeline /\ ~(SetCurrentPhase \/ StartOfPhaseSnapshot \/ StartPhase \/ EndPhase
                             \/ PhaseEnded \/ BeginRound)
    BY <2>1, <2>6
       DEF Pipeline, ChooseFirstPlayer, SnapshotBeforeMulligan, SnapshotBeforeResource,
           OpenMulliganPrompt, OpenSetupResourcePrompt, OpenResourcePrompt, OpenPrompt,
           SetupActionPhase, OpenActionWindow, RotateActivePlayer, TearDownActionPhase,
           DrawTwo, Draws, ReadyAllCards, CardsReadied, Steps
  <2> QED BY <2>3, <2>4, <2>5, <2>6
<1> QED BY <1>1, <1>2, <1>3 DEF RoundTypeOK

-----------------------------------------------------------------------------
(* Snapshots and what holds them *)

\* What is known of the state a snapshot records, from its timepoint.
Recorded(s) ==
  /\ s.state.phase \in CASE s.timepoint \in {"mulligan", "setupResource"} -> {"setup"}
                         [] s.timepoint = "action" -> {"action"}
                         [] s.timepoint \in {"regroupResource", "regroupReadyCards"} -> {"regroup"}
                         [] OTHER -> Phases
  /\ s.state.extra = {}
  /\ s.timepoint = "action" => s.state.active \in Players \ s.state.passed
  /\ s.timepoint = "startOfPhase" /\ s.state.phase = "action" => s.state.active \in Players
  /\ s.state.initiative = NoPlayer => s.timepoint = "startOfPhase" /\ s.state.phase = "setup"

\* Of the timepoints kept for a player, the actions are the player's own, and the end
\* of a phase is kept for the action phase only.
Held ==
  /\ \A p \in Players : \A id \in actionSnapshots[p] :
       /\ snapshots[id].timepoint = "action" => snapshots[id].state.active = p
       /\ snapshots[id].timepoint = "endOfPhase" => snapshots[id].state.phase = "action"
  /\ \A ph \in Phases : \A id \in phaseSnapshots[ph] : snapshots[id].timepoint = "startOfPhase"
  /\ manualSnapshots = [p \in Players |-> {}]

\* The histories are as short as the limits say, and every container is finite.
Bounded ==
  /\ \A p \in Players : /\ IsFiniteSet(actionSnapshots[p])
                        /\ Cardinality(actionSnapshots[p]) <= ActionHistoryLength
                        /\ IsFiniteSet(quickSnapshots[p])
  /\ \A ph \in Phases : /\ IsFiniteSet(phaseSnapshots[ph])
                        /\ Cardinality(phaseSnapshots[ph]) <= PhaseHistoryLength

HeapInv == /\ \A id \in DOMAIN snapshots : Recorded(snapshots[id])
           /\ Held
           /\ Bounded

\* The snapshots a step leaves alone, but for their flags.
SameRecord(id) == /\ snapshots'[id].timepoint = snapshots[id].timepoint
                  /\ snapshots'[id].state = snapshots[id].state

StoreKept == /\ DOMAIN snapshots' = DOMAIN snapshots
             /\ \A id \in DOMAIN snapshots : SameRecord(id)
             /\ UNCHANGED <<currentId, containerVars>>

StoreMoved(timepoint) ==
  /\ currentId' \in Nat
  /\ \A id \in DOMAIN snapshots : id < currentId' /\ SameRecord(id)
  /\ DOMAIN snapshots' = DOMAIN snapshots \cup {currentId'}
  /\ snapshots'[currentId'].timepoint = timepoint
  /\ snapshots'[currentId'].state = game

StoreCut(id) ==
  /\ currentId' = id
  /\ DOMAIN snapshots' = {other \in DOMAIN snapshots : other <= id}
  /\ \A other \in DOMAIN snapshots' : SameRecord(other)

LEMMA FlaggingKeepsStore ==
  ASSUME StoreInv, UNCHANGED snapshotVars \/ \E players : RequireConfirmation(players)
  PROVE  StoreKept
<1>1. CASE UNCHANGED snapshotVars
  BY <1>1 DEF StoreKept, SameRecord, snapshotVars, factoryVars, containerVars
<1>2. ASSUME NEW players, RequireConfirmation(players) PROVE StoreKept
  BY <1>2 DEF RequireConfirmation, ConfirmationRequired, StoreKept, SameRecord, containerVars,
              StoreInv, SnapshotTypeOK, Snapshots
<1> QED BY <1>1, <1>2

LEMMA MovingMovesStore ==
  ASSUME StoreInv, NEW timepoint, MoveToNextTimepoint(timepoint)
  PROVE  StoreMoved(timepoint)
<1>1. /\ \A id \in DOMAIN snapshots : snapshots[id] \in Snapshots
      /\ DOMAIN snapshots \subseteq 0 .. lastAssignedSnapshotId
      /\ lastAssignedSnapshotId \in Nat \cup {-1}
  BY DEF StoreInv, SnapshotTypeOK
<1>2. \A id \in DOMAIN snapshots : /\ MarkSuccessor(timepoint)[id].timepoint = snapshots[id].timepoint
                                  /\ MarkSuccessor(timepoint)[id].state = snapshots[id].state
  BY <1>1 DEF MarkSuccessor, Snapshots
<1> QED BY <1>1, <1>2 DEF MoveToNextTimepoint, NewSnapshot, StoreMoved, SameRecord

LEMMA RestoringCutsStore ==
  ASSUME StoreInv, NEW id \in DOMAIN snapshots, Restore(id)
  PROVE  StoreCut(id)
BY DEF Restore, UpTo, StoreCut, SameRecord, StoreInv, SnapshotTypeOK, Snapshots

\* The ids the containers hold are those of snapshots.
LEMMA ContainersAreTyped ==
  ASSUME StoreInv
  PROVE  /\ actionSnapshots \in [Players -> SUBSET DOMAIN snapshots]
         /\ phaseSnapshots \in [Phases -> SUBSET DOMAIN snapshots]
         /\ \A p \in Players : actionSnapshots[p] \in SUBSET Nat
         /\ \A ph \in Phases : phaseSnapshots[ph] \in SUBSET Nat
         /\ \A p \in Players : \A e \in quickSnapshots[p] : e.id \in Nat /\ e.id \in DOMAIN snapshots
         /\ DOMAIN snapshots \subseteq Nat
BY StoreInvParts DEF ContainersInv, StoreInv, SnapshotTypeOK, RetainedOnTheLine

LEMMA KeptStoreKeepsHeap ==
  ASSUME StoreInv, HeapInv, StoreKept
  PROVE  HeapInv'
<1>1. \A id \in DOMAIN snapshots' : Recorded(snapshots'[id])
  BY DEF HeapInv, StoreKept, SameRecord, Recorded
<1>2. Held'
  BY ContainersAreTyped DEF HeapInv, Held, StoreKept, SameRecord, containerVars
<1>3. Bounded'
  BY DEF HeapInv, Bounded, StoreKept, containerVars
<1> QED BY <1>1, <1>2, <1>3 DEF HeapInv

\* The line may have grown; the present timepoint is kept for some players.
LEMMA TakingActionsKeepsHeld ==
  ASSUME StoreInv, Held, Bounded, \A id \in DOMAIN snapshots : SameRecord(id),
         NEW players \in SUBSET Players, TakeActionSnapshots(players),
         \A p \in players :
           /\ currentId' \in Nat
           /\ snapshots'[currentId'].timepoint = "action" => snapshots'[currentId'].state.active = p
           /\ snapshots'[currentId'].timepoint = "endOfPhase" =>
                snapshots'[currentId'].state.phase = "action"
  PROVE  Held' /\ Bounded'
<1>1. UNCHANGED <<phaseSnapshots, manualSnapshots>>
  BY DEF TakeActionSnapshots
<1>2. ASSUME NEW p \in Players
      PROVE  /\ actionSnapshots'[p] \subseteq
                  actionSnapshots[p] \cup (IF p \in players THEN {currentId'} ELSE {})
             /\ IsFiniteSet(actionSnapshots'[p])
             /\ Cardinality(actionSnapshots'[p]) <= ActionHistoryLength
             /\ IsFiniteSet(quickSnapshots'[p])
  <2>1. /\ IsFiniteSet(actionSnapshots[p]) /\ IsFiniteSet(quickSnapshots[p])
        /\ Cardinality(actionSnapshots[p]) <= ActionHistoryLength
        /\ actionSnapshots[p] \in SUBSET Nat
    BY ContainersAreTyped DEF Bounded
  <2>2. CASE p \in players
    <3>1. actionSnapshots'[p] = Pushed(actionSnapshots[p], ActionHistoryLength, currentId')
      BY <2>2 DEF TakeActionSnapshots
    <3>2. quickSnapshots'[p] = quickSnapshots[p] \cup {[id |-> currentId', source |-> "action"]}
      BY <2>2 DEF TakeActionSnapshots, WithQuickEntry
    <3>3. ActionHistoryLength \in Nat \ {0} /\ currentId' \in Nat
      BY <2>2, SnapshotManagerAssumption
    <3>4. IsFiniteSet(quickSnapshots'[p])
      <4> DEFINE entry == [id |-> currentId', source |-> "action"]
      <4>1. IsFiniteSet(quickSnapshots[p])
        BY <2>1
      <4> HIDE DEF entry
      <4>2. IsFiniteSet(quickSnapshots[p] \cup {entry})
        BY <4>1, FS_AddElement
      <4> QED BY <3>2, <4>2 DEF entry
    <3>5. /\ IsFiniteSet(actionSnapshots'[p])
          /\ Cardinality(actionSnapshots'[p]) <= ActionHistoryLength
      BY <2>1, <3>1, <3>3, PushedIsBounded
    <3>6. actionSnapshots'[p] \subseteq actionSnapshots[p] \cup {currentId'}
      BY <3>1, PushedKeepsIds
    <3> QED BY <2>2, <3>4, <3>5, <3>6
  <2>3. CASE p \notin players
    BY <2>1, <2>3 DEF TakeActionSnapshots, WithQuickEntry
  <2> QED BY <2>2, <2>3
<1>3. Held'
  <2>1. ASSUME NEW p \in Players, NEW id \in actionSnapshots'[p]
        PROVE  /\ snapshots'[id].timepoint = "action" => snapshots'[id].state.active = p
               /\ snapshots'[id].timepoint = "endOfPhase" => snapshots'[id].state.phase = "action"
    <3>1. CASE id \in actionSnapshots[p]
      BY <3>1, ContainersAreTyped DEF Held, SameRecord
    <3>2. CASE p \in players /\ id = currentId'
      BY <3>2
    <3> QED BY <1>2, <2>1, <3>1, <3>2
  <2>2. \A ph \in Phases : \A id \in phaseSnapshots'[ph] : snapshots'[id].timepoint = "startOfPhase"
    BY <1>1, ContainersAreTyped DEF Held, SameRecord
  <2> QED BY <1>1, <2>1, <2>2 DEF Held
<1>4. Bounded'
  BY <1>1, <1>2 DEF Bounded
<1> QED BY <1>3, <1>4

LEMMA TakingPhaseKeepsHeld ==
  ASSUME StoreInv, Held, Bounded, \A id \in DOMAIN snapshots : SameRecord(id),
         NEW ph \in Phases, TakePhaseSnapshot(ph),
         currentId' \in Nat, snapshots'[currentId'].timepoint = "startOfPhase"
  PROVE  Held' /\ Bounded'
<1>1. UNCHANGED <<actionSnapshots, manualSnapshots>>
  BY DEF TakePhaseSnapshot
<1>2. ASSUME NEW other \in Phases
      PROVE  /\ phaseSnapshots'[other] \subseteq phaseSnapshots[other] \cup {currentId'}
             /\ IsFiniteSet(phaseSnapshots'[other])
             /\ Cardinality(phaseSnapshots'[other]) <= PhaseHistoryLength
  <2>1. /\ IsFiniteSet(phaseSnapshots[other]) /\ phaseSnapshots[other] \in SUBSET Nat
        /\ Cardinality(phaseSnapshots[other]) <= PhaseHistoryLength
    BY ContainersAreTyped DEF Bounded
  <2>2. CASE other = ph
    <3>1. phaseSnapshots'[other] = Pushed(phaseSnapshots[other], PhaseHistoryLength, currentId')
      BY <2>2, ContainersAreTyped DEF TakePhaseSnapshot
    <3>2. PhaseHistoryLength \in Nat \ {0}
      BY SnapshotManagerAssumption
    <3>3. /\ IsFiniteSet(phaseSnapshots'[other])
          /\ Cardinality(phaseSnapshots'[other]) <= PhaseHistoryLength
      BY <2>1, <3>1, <3>2, PushedIsBounded
    <3>4. phaseSnapshots'[other] \subseteq phaseSnapshots[other] \cup {currentId'}
      BY <3>1, PushedKeepsIds
    <3> QED BY <3>3, <3>4
  <2>3. CASE other # ph
    BY <2>1, <2>3, ContainersAreTyped DEF TakePhaseSnapshot
  <2> QED BY <2>2, <2>3
<1>3. ASSUME NEW p \in Players PROVE IsFiniteSet(quickSnapshots'[p])
  <2>1. \/ quickSnapshots'[p] = quickSnapshots[p] \cup {[id |-> currentId', source |-> "phase"]}
        \/ quickSnapshots'[p] = quickSnapshots[p]
    BY DEF TakePhaseSnapshot, WithQuickEntry
  <2> QED BY <2>1, FS_AddElement, ZenonT(60) DEF Bounded
<1>4. Held'
  <2>1. ASSUME NEW other \in Phases, NEW id \in phaseSnapshots'[other]
        PROVE  snapshots'[id].timepoint = "startOfPhase"
    <3>1. CASE id \in phaseSnapshots[other]
      BY <3>1, ContainersAreTyped DEF Held, SameRecord
    <3> QED BY <1>2, <2>1, <3>1
  <2>2. \A p \in Players : \A id \in actionSnapshots'[p] :
          /\ snapshots'[id].timepoint = "action" => snapshots'[id].state.active = p
          /\ snapshots'[id].timepoint = "endOfPhase" => snapshots'[id].state.phase = "action"
    BY <1>1, ContainersAreTyped DEF Held, SameRecord
  <2> QED BY <1>1, <2>1, <2>2 DEF Held
<1>5. Bounded'
  BY <1>1, <1>2, <1>3 DEF Bounded
<1> QED BY <1>4, <1>5

\* Going back leaves of every container what was there then.
LEMMA RestoringKeepsHeap ==
  ASSUME StoreInv, HeapInv, NEW id \in DOMAIN snapshots, Restore(id)
  PROVE  HeapInv'
<1>1. StoreCut(id)
  BY RestoringCutsStore
<1>2. /\ \A p \in Players : /\ actionSnapshots'[p] \in SUBSET actionSnapshots[p]
                            /\ quickSnapshots'[p] \in SUBSET quickSnapshots[p]
                            /\ \A other \in actionSnapshots'[p] : other <= id
      /\ \A ph \in Phases : /\ phaseSnapshots'[ph] \in SUBSET phaseSnapshots[ph]
                            /\ \A other \in phaseSnapshots'[ph] : other <= id
      /\ manualSnapshots' = [p \in Players |-> UpTo(manualSnapshots[p], id)]
  BY DEF Restore, UpTo, EntriesUpTo
<1>3. \A other \in DOMAIN snapshots' : Recorded(snapshots'[other])
  BY <1>1 DEF HeapInv, StoreCut, SameRecord, Recorded
<1>4. Held'
  <2>1. /\ \A p \in Players : actionSnapshots'[p] \subseteq DOMAIN snapshots'
        /\ \A ph \in Phases : phaseSnapshots'[ph] \subseteq DOMAIN snapshots'
    BY <1>1, <1>2, ContainersAreTyped DEF StoreCut
  <2>2. manualSnapshots' = [p \in Players |-> {}]
    BY <1>2 DEF UpTo, HeapInv, Held
  <2>3. ASSUME NEW p \in Players, NEW other \in actionSnapshots'[p]
        PROVE  /\ snapshots'[other].timepoint = "action" => snapshots'[other].state.active = p
               /\ snapshots'[other].timepoint = "endOfPhase" => snapshots'[other].state.phase = "action"
    <3>1. other \in actionSnapshots[p] /\ SameRecord(other)
      BY <1>1, <1>2, <2>1 DEF StoreCut
    <3> QED BY <3>1 DEF SameRecord, HeapInv, Held
  <2>4. ASSUME NEW ph \in Phases, NEW other \in phaseSnapshots'[ph]
        PROVE  snapshots'[other].timepoint = "startOfPhase"
    <3>1. other \in phaseSnapshots[ph] /\ SameRecord(other)
      BY <1>1, <1>2, <2>1 DEF StoreCut
    <3> QED BY <3>1 DEF SameRecord, HeapInv, Held
  <2> QED BY <2>2, <2>3, <2>4 DEF Held
<1>5. Bounded'
  <2>1. ASSUME NEW p \in Players
        PROVE  /\ IsFiniteSet(actionSnapshots'[p])
               /\ Cardinality(actionSnapshots'[p]) <= ActionHistoryLength
               /\ IsFiniteSet(quickSnapshots'[p])
    <3>1. /\ IsFiniteSet(actionSnapshots[p]) /\ IsFiniteSet(quickSnapshots[p])
          /\ Cardinality(actionSnapshots[p]) \in Nat
          /\ Cardinality(actionSnapshots[p]) <= ActionHistoryLength
      BY FS_CardinalityType DEF HeapInv, Bounded
    <3>2. /\ IsFiniteSet(actionSnapshots'[p]) /\ IsFiniteSet(quickSnapshots'[p])
          /\ Cardinality(actionSnapshots'[p]) <= Cardinality(actionSnapshots[p])
      BY <1>2, <3>1, FS_Subset
    <3>3. Cardinality(actionSnapshots'[p]) \in Nat
      BY <3>2, FS_CardinalityType
    <3> QED BY <3>1, <3>2, <3>3, SnapshotManagerAssumption
  <2>2. ASSUME NEW ph \in Phases
        PROVE  /\ IsFiniteSet(phaseSnapshots'[ph])
               /\ Cardinality(phaseSnapshots'[ph]) <= PhaseHistoryLength
    <3>1. /\ IsFiniteSet(phaseSnapshots[ph]) /\ Cardinality(phaseSnapshots[ph]) \in Nat
          /\ Cardinality(phaseSnapshots[ph]) <= PhaseHistoryLength
      BY FS_CardinalityType DEF HeapInv, Bounded
    <3>2. /\ IsFiniteSet(phaseSnapshots'[ph])
          /\ Cardinality(phaseSnapshots'[ph]) <= Cardinality(phaseSnapshots[ph])
      BY <1>2, <3>1, FS_Subset
    <3>3. Cardinality(phaseSnapshots'[ph]) \in Nat
      BY <3>2, FS_CardinalityType
    <3> QED BY <3>1, <3>2, <3>3, SnapshotManagerAssumption
  <2> QED BY <2>1, <2>2 DEF Bounded
<1> QED BY <1>3, <1>4, <1>5 DEF HeapInv

-----------------------------------------------------------------------------
(* The pipeline and the present timepoint *)

\* The steps a rollback into the middle of a phase may resume it at.
ResumedSteps == [setup |-> {"mulliganPrompt", "setupResourcePrompt"},
                 action |-> {"queueNextAction"},
                 regroup |-> {"drawTwo", "readyAllCards"}]

RunnablePhases ==
  {ph \in PhaseObjects :
     /\ ph.mode \in {"normal", "rollbackToStartOfPhase"} => ph.first = FirstStep[ph.name]
     /\ ph.mode = "rollbackToWithinPhase" => ph.first \in ResumedSteps[ph.name]
     /\ ph.mode = "rollbackToEndOfPhase" => ph.name = "action" /\ ph.first = "tearDown"}

OwnSteps == [setup |-> {"chooseFirstPlayer", "beforeMulligan", "mulliganPrompt", "mulligan",
                        "beforeResource", "setupResourcePrompt", "setupResource"},
             action |-> {"setupActionPhase", "queueNextAction", "actionWindow", "rotate", "tearDown"},
             regroup |-> {"drawTwo", "draws", "resourcePrompt", "regroupResource",
                          "readyAllCards", "cardsReadied"}]
BetweenPhases == {"setCurrentPhase", "phaseEnded", "beginRound"}
BeforeFirstPlayer == {"setCurrentPhase", "startOfPhase", "startPhase", "chooseFirstPlayer"}
BeforeActions == {"setCurrentPhase", "startOfPhase", "startPhase", "setupActionPhase"}
AfterActions == {"setCurrentPhase", "startPhase", "tearDown", "endPhase", "phaseEnded"}
AfterWindows == {"setupActionPhase", "tearDown", "rotate", "drawTwo", "resourcePrompt",
                 "cardsReadied", "phaseEnded"}

\* The steps belong to the phase that runs, as it was begun.
FlowInv ==
  /\ phaseObj \in RunnablePhases
  /\ pc \in OwnSteps[phaseObj.name] \cup BetweenPhases \cup {"startOfPhase", "startPhase", "endPhase"}
  /\ pc = "startOfPhase" => phaseObj.mode = "normal"
  /\ pc = "startPhase" => phaseObj.mode # "rollbackToWithinPhase"
  /\ phaseObj.mode = "rollbackToEndOfPhase" => pc \in AfterActions
  /\ pc = "beginRound" => phaseObj.name # "action"
  /\ asking # <<>> => pc \in AfterWindows

\* The state of the game at each step.
GameInv ==
  /\ pc \notin BetweenPhases => game.phase = phaseObj.name
  /\ game.extra \subseteq IF pc = "rotate" THEN {game.active} \ game.passed ELSE {}
  /\ phaseObj.name = "action" /\ pc \in BeforeActions /\ phaseObj.mode # "rollbackToEndOfPhase"
       => game.active \in Players
  /\ pc = "setCurrentPhase" /\ phaseObj.first = "queueNextAction" =>
       game.active \in Players \ game.passed
  /\ pc \in {"queueNextAction", "actionWindow"} => game.active \in Players \ game.passed
  /\ pc = "rotate" => game.active \in Players
  /\ game.initiative = NoPlayer =>
       phaseObj.name = "setup" /\ phaseObj.mode # "rollbackToWithinPhase" /\ pc \in BeforeFirstPlayer

\* The timepoint at which the current snapshot was taken.
TimepointInv ==
  /\ pc = "startPhase" /\ phaseObj.mode # "rollbackToEndOfPhase" => CurrentTimepoint = "startOfPhase"
  /\ pc \in {"chooseFirstPlayer", "beforeMulligan", "setupActionPhase"} =>
       CurrentTimepoint = "startOfPhase"
  /\ pc \in {"mulliganPrompt", "mulligan", "beforeResource"} => CurrentTimepoint = "mulligan"
  /\ pc \in {"setupResourcePrompt", "setupResource"} => CurrentTimepoint = "setupResource"
  /\ pc \in {"actionWindow", "rotate"} => CurrentTimepoint = "action"
  /\ pc = "phaseEnded" /\ phaseObj.mode # "rollbackToEndOfPhase" => CurrentTimepoint = "endOfPhase"
  /\ pc = "cardsReadied" /\ TakesReadySnapshots => CurrentTimepoint = "regroupReadyCards"

\* The current snapshot is of the phase that runs, once the phase has taken one.
PhaseInv ==
  \/ pc \in {"startOfPhase", "beginRound"}
  \/ pc = "setCurrentPhase"
  \/ currentId # NoSnapshot /\ snapshots[currentId].state.phase = phaseObj.name

\* Where the game stands still at the state of the current snapshot, and whose
\* snapshot it is.
MomentInv ==
  /\ pc = "setCurrentPhase" /\ phaseObj.mode # "normal" =>
       /\ currentId # NoSnapshot
       /\ game = snapshots[currentId].state
       /\ phaseObj = EntryPoint(snapshots[currentId])
       /\ CurrentTimepoint = "action" => currentId \in actionSnapshots[game.active]
  /\ pc = "queueNextAction" /\ OpensAgain =>
       /\ game = snapshots[currentId].state
       /\ currentId \in actionSnapshots[game.active]
  /\ pc = "actionWindow" =>
       /\ [snapshots[currentId].state EXCEPT !.ended = game.ended] = game
       /\ currentId \in actionSnapshots[game.active]
  /\ pc = "rotate" => snapshots[currentId].state.actionNumber = game.actionNumber

\* A timepoint that is about to be kept is kept for nobody so far.
UnkeptInv ==
  /\ (pc = "phaseEnded" /\ phaseObj.mode # "rollbackToEndOfPhase")
     \/ (pc = "cardsReadied" /\ TakesReadySnapshots) =>
       \A p \in Players : /\ currentId \notin actionSnapshots[p]
                          /\ \A e \in quickSnapshots[p] : e.id # currentId
  /\ pc \in {"startPhase", "setupActionPhase"} /\ phaseObj.name = "action" /\ phaseObj.mode = "normal" =>
       \A p \in Players : \A e \in quickSnapshots[p] : e.id # currentId

-----------------------------------------------------------------------------
(* What the steps of a round keep, whatever the store does *)

RoundStep == Pipeline \/ Answer \/ (\E p \in Players : Choice(p))

\* The phase object is one the game runs, in each of its modes.
LEMMA PhasesThatRun ==
  /\ \A name \in Phases : NewPhase(name) \in RunnablePhases
  /\ \A ph \in RunnablePhases : ph \in PhaseObjects /\ ph.name \in Phases /\ ph.mode \in Modes
BY DEF RunnablePhases, PhaseObjects, NewPhase, Phases, Modes, FirstStep, Steps

LEMMA FirstStepsAreOwn ==
  ASSUME NEW ph \in RunnablePhases
  PROVE  /\ ph.first \in OwnSteps[ph.name]
         /\ ph.mode \in {"normal", "rollbackToStartOfPhase"} => ph.first = FirstStep[ph.name]
         /\ ph.mode = "rollbackToWithinPhase" => ph.first \in ResumedSteps[ph.name]
         /\ ph.mode = "rollbackToEndOfPhase" => ph.name = "action" /\ ph.first = "tearDown"
<1>1. ph.name \in Phases /\ ph.mode \in Modes
  BY PhasesThatRun
<1>2. /\ ph.mode \in {"normal", "rollbackToStartOfPhase"} => ph.first = FirstStep[ph.name]
      /\ ph.mode = "rollbackToWithinPhase" => ph.first \in ResumedSteps[ph.name]
      /\ ph.mode = "rollbackToEndOfPhase" => ph.name = "action" /\ ph.first = "tearDown"
  BY DEF RunnablePhases
<1>3. ph.first \in OwnSteps[ph.name]
  BY <1>1, <1>2 DEF Modes, Phases, FirstStep, ResumedSteps, OwnSteps
<1> QED BY <1>2, <1>3

\* The triggers of the setup phase ask nobody.
LEMMA SetupAsksNobody == Questions("startOfSetup") = {<<>>} /\ Questions("endOfSetup") = {<<>>}
BY RoundFlowAssumption DEF Questions

\* Where a choice leads: on in the prompt, to the step that follows it, or out of the
\* action window.
LEMMA ChoicesMove ==
  ASSUME NEW p \in Players, Choice(p)
  PROVE  /\ asking = <<>> /\ phaseObj' = phaseObj
         /\ \/ /\ \/ pc = "mulligan" /\ pc' \in {"mulligan", "beforeResource"}
                  \/ pc = "setupResource" /\ pc' \in {"setupResource", "endPhase"}
                  \/ pc = "regroupResource" /\ pc' \in {"regroupResource", "readyAllCards"}
               /\ game' = game /\ asking' = <<>>
            \/ /\ pc = "actionWindow" /\ pc' = "rotate" /\ p = game.active
               /\ \/ Pass(p) \/ TakeCardAction(p)
                  \/ \E counter \in game.counters : ClaimCounter(p, counter)
<1>1. CASE Mulligan(p) \/ SetupResource(p) \/ RegroupResource(p)
  BY <1>1 DEF Mulligan, SetupResource, RegroupResource, Finish, AtStep
<1>2. CASE Pass(p) \/ TakeCardAction(p) \/ \E counter \in game.counters : ClaimCounter(p, counter)
  BY <1>2 DEF Pass, TakeCardAction, ClaimCounter, AtStep
<1> QED BY <1>1, <1>2 DEF Choice

LEMMA StepsKeepFlow ==
  ASSUME RoundTypeOK, FlowInv, RoundStep
  PROVE  FlowInv'
<1>1. /\ phaseObj \in RunnablePhases /\ phaseObj.name \in Phases /\ phaseObj.mode \in Modes
      /\ pc \in Steps
  BY PhasesThatRun DEF FlowInv, RoundTypeOK
<1>2. asking # <<>> => pc \in AfterWindows
  BY DEF FlowInv
<1>3. CASE Answer
  BY <1>3 DEF Answer, Ask, FlowInv
<1>4. ASSUME NEW p \in Players, Choice(p) PROVE FlowInv'
  BY <1>1, <1>4, ChoicesMove DEF FlowInv, OwnSteps, BetweenPhases, AfterActions, AfterWindows, Phases
<1>5. CASE SetCurrentPhase
  BY <1>1, <1>5, FirstStepsAreOwn
     DEF SetCurrentPhase, AtStep, FlowInv, OwnSteps, BetweenPhases, AfterActions, Phases, Modes
<1>6. CASE StartPhase
  <2>1. /\ pc' = phaseObj.first /\ phaseObj' = phaseObj
        /\ phaseObj.mode # "rollbackToWithinPhase"
    BY <1>6 DEF StartPhase, AtStep, FlowInv
  <2>2. /\ pc' \in OwnSteps[phaseObj.name]
        /\ phaseObj.mode = "rollbackToEndOfPhase" => pc' = "tearDown"
        /\ pc' \in {"chooseFirstPlayer", "setupActionPhase", "drawTwo", "tearDown"}
        /\ pc' = "chooseFirstPlayer" => phaseObj.name = "setup"
    BY <1>1, <2>1, FirstStepsAreOwn DEF Modes, Phases, FirstStep
  <2>3. phaseObj.name = "setup" => asking' = <<>>
    BY <1>6, SetupAsksNobody DEF StartPhase, Ask, StartOf
  <2> QED BY <1>1, <2>1, <2>2, <2>3 DEF FlowInv, AfterActions, AfterWindows
<1>7. CASE PhaseEnded \/ BeginRound
  <2>1. /\ pc' \in {"setCurrentPhase", "beginRound"} /\ asking' = <<>>
        /\ phaseObj' \in {phaseObj, NewPhase("regroup"), NewPhase("action")}
        /\ pc' = "beginRound" => phaseObj' = phaseObj /\ phaseObj.name # "action"
        /\ pc' = "setCurrentPhase" => phaseObj' # phaseObj \/ phaseObj.mode = "normal"
    BY <1>7 DEF PhaseEnded, BeginRound, AtStep, NewPhase
  <2>2. /\ \A name \in {"regroup", "action"} : NewPhase(name).mode = "normal"
        /\ NewPhase("regroup") \in RunnablePhases /\ NewPhase("action") \in RunnablePhases
    BY PhasesThatRun DEF NewPhase, Phases
  <2>3. phaseObj'.mode # "rollbackToEndOfPhase"
    BY <1>1, <1>7, <2>2, FirstStepsAreOwn DEF PhaseEnded, BeginRound
  <2> QED BY <1>1, <2>1, <2>2, <2>3 DEF FlowInv, BetweenPhases
<1>8. CASE Pipeline /\ ~(SetCurrentPhase \/ StartPhase \/ PhaseEnded \/ BeginRound)
  BY <1>1, <1>8
     DEF Pipeline, StartOfPhaseSnapshot, EndPhase, ChooseFirstPlayer, SnapshotBeforeMulligan,
         SnapshotBeforeResource, OpenMulliganPrompt, OpenSetupResourcePrompt, OpenResourcePrompt,
         OpenPrompt, SetupActionPhase, OpenActionWindow, RotateActivePlayer, TearDownActionPhase,
         DrawTwo, Draws, ReadyAllCards, CardsReadied, Ask, AtStep, FlowInv, OwnSteps, BetweenPhases,
         AfterActions, AfterWindows, Phases
<1> QED BY <1>3, <1>4, <1>5, <1>6, <1>7, <1>8 DEF RoundStep

\* What the action window does to the game: who passed grows, another action is the
\* player's own, and nobody else gets the turn yet.
LEMMA ActionsChangeTheGame ==
  ASSUME RoundTypeOK, NEW p \in Players, game.extra = {}, game.initiative # NoPlayer,
         \/ Pass(p) \/ TakeCardAction(p)
         \/ \E counter \in game.counters : ClaimCounter(p, counter)
  PROVE  /\ game'.active = game.active /\ game'.phase = game.phase
         /\ game'.actionNumber = game.actionNumber /\ game'.initiative # NoPlayer
         /\ game'.starts = game.starts
         /\ game'.extra \subseteq {p} /\ (game'.extra # {} => game'.passed = game.passed)
<1>1. game \in GameRecords /\ p # NoPlayer
  BY RoundFlowAssumption DEF RoundTypeOK
<1>2. ASSUME NEW g, g = AfterPass(game, p)
      PROVE  /\ g.active = game.active /\ g.phase = game.phase /\ g.initiative = game.initiative
             /\ g.actionNumber = game.actionNumber /\ g.extra = game.extra /\ g.starts = game.starts
             /\ g \in GameRecords
  <2>1. CASE game.prevPassed
    BY <1>1, <1>2, <2>1 DEF AfterPass, GameRecords
  <2>2. CASE ~game.prevPassed /\ Opponent(p) \in game.passed
    BY <1>1, <1>2, <2>2 DEF AfterPass, GameRecords
  <2>3. CASE ~game.prevPassed /\ Opponent(p) \notin game.passed
    BY <1>1, <1>2, <2>3 DEF AfterPass, GameRecords
  <2> QED BY <2>1, <2>2, <2>3
<1>3. CASE Pass(p)
  BY <1>2, <1>3 DEF Pass
<1>4. CASE TakeCardAction(p)
  BY <1>1, <1>4 DEF TakeCardAction, GameRecords
<1>5. ASSUME NEW counter \in game.counters, ClaimCounter(p, counter)
      PROVE  /\ game'.active = game.active /\ game'.phase = game.phase
             /\ game'.actionNumber = game.actionNumber /\ game'.initiative # NoPlayer
             /\ game'.starts = game.starts
             /\ game'.extra = {}
  <2> DEFINE g == AfterPass(game, p)
  <2>1. game' = [g EXCEPT !.claimed = @ \cup {counter}, !.passed = @ \cup {p},
                          !.initiative = IF counter = "initiative" THEN p ELSE @]
    BY <1>5 DEF ClaimCounter
  <2>2. /\ g.active = game.active /\ g.phase = game.phase /\ g.initiative = game.initiative
        /\ g.actionNumber = game.actionNumber /\ g.extra = game.extra /\ g.starts = game.starts
        /\ g \in GameRecords
    BY <1>2
  <2> HIDE DEF g
  <2> QED BY <1>1, <2>1, <2>2 DEF GameRecords
<1> QED BY <1>3, <1>4, <1>5

LEMMA StepsKeepGameInv ==
  ASSUME RoundTypeOK, FlowInv, GameInv, RoundStep
  PROVE  GameInv'
<1>1. /\ phaseObj \in RunnablePhases /\ phaseObj.name \in Phases /\ phaseObj.mode \in Modes
      /\ game \in GameRecords /\ FlowInv'
  BY PhasesThatRun, StepsKeepFlow DEF FlowInv, RoundTypeOK
<1>2. CASE Answer
  BY <1>2 DEF Answer, GameInv
<1>3. ASSUME NEW p \in Players, Choice(p) PROVE GameInv'
  <2>1. CASE pc # "actionWindow"
    BY <1>3, <2>1, ChoicesMove DEF GameInv, BetweenPhases, BeforeFirstPlayer, BeforeActions
  <2>2. CASE pc = "actionWindow"
    <3>1. /\ phaseObj' = phaseObj /\ pc' = "rotate" /\ p = game.active
          /\ \/ Pass(p) \/ TakeCardAction(p)
             \/ \E counter \in game.counters : ClaimCounter(p, counter)
      BY <1>3, <2>2, ChoicesMove
    <3>2. /\ game.phase = phaseObj.name /\ game.extra = {} /\ p \notin game.passed
          /\ game.initiative # NoPlayer
      BY <2>2, <3>1 DEF GameInv, BetweenPhases, BeforeFirstPlayer
    <3> QED BY <3>1, <3>2, ActionsChangeTheGame
               DEF GameInv, BetweenPhases, BeforeFirstPlayer, BeforeActions
  <2> QED BY <2>1, <2>2
<1>4. CASE SetCurrentPhase
  <2>1. /\ game'.phase = phaseObj.name /\ game'.extra = game.extra /\ game'.active = game.active
        /\ game'.passed = game.passed /\ game'.initiative = game.initiative
        /\ phaseObj' = phaseObj /\ pc = "setCurrentPhase"
    BY <1>1, <1>4 DEF SetCurrentPhase, AtStep, GameRecords
  <2>2. /\ phaseObj.mode = "normal" => pc' = "startOfPhase"
        /\ phaseObj.mode \in {"rollbackToStartOfPhase", "rollbackToEndOfPhase"} => pc' = "startPhase"
        /\ phaseObj.mode = "rollbackToWithinPhase" =>
             /\ pc' = phaseObj.first
             /\ pc' \in {"mulliganPrompt", "setupResourcePrompt", "queueNextAction", "drawTwo",
                         "readyAllCards"}
    BY <1>1, <1>4, FirstStepsAreOwn DEF SetCurrentPhase, ResumedSteps, Phases
  <2> QED BY <1>1, <2>1, <2>2 DEF GameInv, BetweenPhases, BeforeFirstPlayer, BeforeActions, Modes
<1>5. CASE StartPhase
  <2>1. /\ game'.phase = game.phase /\ game'.extra = game.extra /\ game'.active = game.active
        /\ game'.passed = game.passed /\ game'.initiative = game.initiative
        /\ phaseObj' = phaseObj /\ pc = "startPhase" /\ pc' = phaseObj.first
    BY <1>1, <1>5 DEF StartPhase, AtStep, GameRecords
  <2>2. pc' \in {"chooseFirstPlayer", "setupActionPhase", "drawTwo", "tearDown"}
        /\ (phaseObj.name = "setup" => pc' = "chooseFirstPlayer")
    BY <1>1, <2>1, FirstStepsAreOwn DEF Modes, Phases, FirstStep, FlowInv
  <2> QED BY <1>1, <2>1, <2>2 DEF GameInv, BetweenPhases, BeforeFirstPlayer, BeforeActions
<1>6. CASE EndPhase
  BY <1>1, <1>6 DEF EndPhase, AtStep, GameRecords, GameInv, BetweenPhases, BeforeFirstPlayer, BeforeActions
<1>7. CASE PhaseEnded
  BY <1>1, <1>7 DEF PhaseEnded, AtStep, NewPhase, FirstStep, GameInv, BetweenPhases, BeforeFirstPlayer,
                    BeforeActions
<1>8. CASE BeginRound
  <2>1. /\ game'.extra = game.extra /\ game'.active = game.initiative
        /\ game'.passed = game.passed /\ game'.initiative = game.initiative
        /\ pc = "beginRound" /\ pc' = "setCurrentPhase" /\ phaseObj' = NewPhase("action")
    BY <1>1, <1>8 DEF BeginRound, AtStep, GameRecords
  <2>2. game.initiative \in Players
    BY <1>1, <2>1 DEF GameInv, BeforeFirstPlayer, GameRecords
  <2> QED BY <2>1, <2>2 DEF NewPhase, FirstStep, GameInv, BetweenPhases, BeforeFirstPlayer, BeforeActions
<1>9. CASE ChooseFirstPlayer
  BY <1>1, <1>9, RoundFlowAssumption
     DEF ChooseFirstPlayer, AtStep, GameRecords, GameInv, BetweenPhases, BeforeFirstPlayer, BeforeActions
<1>10. CASE SetupActionPhase
  <2>1. phaseObj.mode # "rollbackToEndOfPhase" /\ phaseObj.name = "action"
    BY <1>1, <1>10 DEF SetupActionPhase, AtStep, FlowInv, AfterActions, OwnSteps, Phases, BetweenPhases
  <2> QED BY <1>1, <1>10, <2>1
     DEF SetupActionPhase, AtStep, GameRecords, GameInv, BetweenPhases, BeforeFirstPlayer, BeforeActions
<1>11. CASE RotateActivePlayer
  <2>1. /\ game.active \in Players /\ game.extra \subseteq {game.active} \ game.passed
        /\ game.initiative # NoPlayer
        /\ game.phase = phaseObj.name
    BY <1>11 DEF RotateActivePlayer, AtStep, GameInv, BetweenPhases, BeforeFirstPlayer
  <2>2. NextActive # NoPlayer => NextActive \in Players \ game.passed
    BY <2>1, OpponentIsTheOther, RoundFlowAssumption DEF NextActive
  <2>3. /\ game'.phase = game.phase /\ game'.extra = {} /\ game'.active = NextActive
        /\ game'.passed = game.passed /\ game'.initiative = game.initiative
        /\ phaseObj' = phaseObj /\ pc' = IF NextActive = NoPlayer THEN "tearDown" ELSE "queueNextAction"
    BY <1>1, <1>11, <2>1 DEF RotateActivePlayer, GameRecords
  <2> QED BY <2>1, <2>2, <2>3 DEF GameInv, BetweenPhases, BeforeFirstPlayer, BeforeActions
<1>12. CASE TearDownActionPhase
  BY <1>1, <1>12
     DEF TearDownActionPhase, AtStep, GameRecords, GameInv, BetweenPhases, BeforeFirstPlayer, BeforeActions
<1>13. CASE OpenActionWindow
  BY <1>13 DEF OpenActionWindow, AtStep, GameInv, BetweenPhases, BeforeFirstPlayer, BeforeActions
<1>14. CASE \/ StartOfPhaseSnapshot \/ SnapshotBeforeMulligan \/ SnapshotBeforeResource
            \/ OpenMulliganPrompt \/ OpenSetupResourcePrompt \/ OpenResourcePrompt
            \/ DrawTwo \/ Draws \/ ReadyAllCards \/ CardsReadied
  BY <1>14
     DEF StartOfPhaseSnapshot, SnapshotBeforeMulligan, SnapshotBeforeResource, OpenMulliganPrompt,
         OpenSetupResourcePrompt, OpenResourcePrompt, OpenPrompt, DrawTwo, Draws, ReadyAllCards,
         CardsReadied, AtStep, GameInv, BetweenPhases, BeforeFirstPlayer, BeforeActions
<1> QED
  BY <1>2, <1>3, <1>4, <1>5, <1>6, <1>7, <1>8, <1>9, <1>10, <1>11, <1>12, <1>13, <1>14
     DEF RoundStep, Pipeline

-----------------------------------------------------------------------------
(* The present timepoint while the game goes on *)

\* Where a rollback resumes the game tells the timepoint it led to.
LEMMA EntryPoints ==
  ASSUME NEW s, s.timepoint \in SnapshotTimepoint, Recorded(s),
         s.timepoint = "endOfPhase" => s.state.phase = "action"
  PROVE  /\ EntryPoint(s) \in RunnablePhases
         /\ EntryPoint(s).name = s.state.phase
         /\ EntryPoint(s).mode # "normal"
         /\ EntryPoint(s).mode = "rollbackToStartOfPhase" => s.timepoint = "startOfPhase"
         /\ EntryPoint(s).mode = "rollbackToEndOfPhase" => s.timepoint = "endOfPhase"
         /\ EntryPoint(s).first = "mulliganPrompt" => s.timepoint = "mulligan"
         /\ EntryPoint(s).first = "setupResourcePrompt" => s.timepoint = "setupResource"
         /\ EntryPoint(s).first = "queueNextAction" => s.timepoint = "action"
         /\ EntryPoint(s).first = "readyAllCards" => s.timepoint = "regroupReadyCards"
<1>1. CASE s.timepoint \in {"mulligan", "setupResource", "action", "regroupResource", "regroupReadyCards"}
  BY <1>1 DEF Recorded, EntryPoint, RunnablePhases, PhaseObjects, ResumedSteps, Phases, Modes, Steps
<1>2. CASE s.timepoint = "startOfPhase"
  BY <1>2 DEF Recorded, EntryPoint, RunnablePhases, PhaseObjects, FirstStep, Phases, Modes, Steps
<1>3. CASE s.timepoint = "endOfPhase"
  BY <1>3 DEF Recorded, EntryPoint, RunnablePhases, PhaseObjects, Phases, Modes, Steps
<1> QED BY <1>1, <1>2, <1>3 DEF SnapshotTimepoint

\* The current snapshot is one of the line.
LEMMA CurrentIsRecorded ==
  ASSUME StoreInv, HeapInv
  PROVE  /\ CurrentTimepoint # "none" => currentId # NoSnapshot
         /\ currentId # NoSnapshot =>
              /\ currentId \in DOMAIN snapshots
              /\ CurrentTimepoint = snapshots[currentId].timepoint
              /\ CurrentTimepoint \in SnapshotTimepoint
              /\ snapshots[currentId].state \in GameStates
              /\ Recorded(snapshots[currentId])
BY SnapshotManagerAssumption
   DEF StoreInv, SnapshotTypeOK, CurrentIsNewest, CurrentTimepoint, HeapInv, Snapshots, SnapshotTimepoint

\* The current snapshot stays when the store is kept.
LEMMA KeptStoreKeepsMoment ==
  ASSUME StoreInv, HeapInv, StoreKept
  PROVE  /\ CurrentTimepoint' = CurrentTimepoint
         /\ currentId' = currentId
         /\ currentId # NoSnapshot => snapshots'[currentId'].state = snapshots[currentId].state
         /\ actionSnapshots' = actionSnapshots /\ quickSnapshots' = quickSnapshots
BY CurrentIsRecorded DEF StoreKept, SameRecord, containerVars, CurrentTimepoint

\* The steps of a round that stay at the present timepoint.
StaysAtTimepoint ==
  \/ SetCurrentPhase \/ StartPhase \/ BeginRound
  \/ OpenMulliganPrompt \/ OpenSetupResourcePrompt \/ OpenResourcePrompt
  \/ RotateActivePlayer \/ TearDownActionPhase
  \/ OpenActionWindow /\ OpensAgain
  \/ EndPhase /\ phaseObj.mode = "rollbackToEndOfPhase"
  \/ ReadyAllCards /\ ~TakesReadySnapshots
  \/ Draws \/ ChooseFirstPlayer \/ Answer \/ (\E p \in Players : Choice(p))

\* What MomentInv says of a phase that a rollback has set up.
LEMMA ResumedAtTheCurrent ==
  ASSUME StoreInv, HeapInv, MomentInv, pc = "setCurrentPhase", phaseObj.mode # "normal",
         phaseObj \in RunnablePhases
  PROVE  /\ currentId # NoSnapshot /\ currentId \in DOMAIN snapshots
         /\ game = snapshots[currentId].state /\ game.phase = phaseObj.name
         /\ phaseObj.mode = "rollbackToStartOfPhase" => CurrentTimepoint = "startOfPhase"
         /\ phaseObj.mode = "rollbackToEndOfPhase" => CurrentTimepoint = "endOfPhase"
         /\ phaseObj.first = "mulliganPrompt" => CurrentTimepoint = "mulligan"
         /\ phaseObj.first = "setupResourcePrompt" => CurrentTimepoint = "setupResource"
         /\ phaseObj.first = "queueNextAction" =>
              CurrentTimepoint = "action" /\ currentId \in actionSnapshots[game.active]
         /\ phaseObj.first = "readyAllCards" => CurrentTimepoint = "regroupReadyCards"
<1> DEFINE s == snapshots[currentId]
<1>1. /\ currentId # NoSnapshot /\ game = s.state /\ phaseObj = EntryPoint(s)
      /\ CurrentTimepoint = "action" => currentId \in actionSnapshots[game.active]
  BY DEF MomentInv
<1>2. /\ currentId \in DOMAIN snapshots /\ CurrentTimepoint = s.timepoint
      /\ s.timepoint \in SnapshotTimepoint /\ Recorded(s)
  BY <1>1, CurrentIsRecorded
<1>3. s.timepoint = "endOfPhase" => s.state.phase = "action"
  <2> SUFFICES ASSUME s.timepoint = "endOfPhase" PROVE s.state.phase = "action"
    OBVIOUS
  <2>1. phaseObj.name = s.state.phase /\ phaseObj.mode = "rollbackToEndOfPhase"
    BY <1>1 DEF EntryPoint
  <2> QED BY <2>1, FirstStepsAreOwn
<1> HIDE DEF s
<1>4. /\ EntryPoint(s).name = s.state.phase
      /\ EntryPoint(s).mode = "rollbackToStartOfPhase" => s.timepoint = "startOfPhase"
      /\ EntryPoint(s).mode = "rollbackToEndOfPhase" => s.timepoint = "endOfPhase"
      /\ EntryPoint(s).first = "mulliganPrompt" => s.timepoint = "mulligan"
      /\ EntryPoint(s).first = "setupResourcePrompt" => s.timepoint = "setupResource"
      /\ EntryPoint(s).first = "queueNextAction" => s.timepoint = "action"
      /\ EntryPoint(s).first = "readyAllCards" => s.timepoint = "regroupReadyCards"
  BY <1>2, <1>3, EntryPoints
<1> QED BY <1>1, <1>2, <1>4 DEF s

\* The parts of the invariant that tie the pipeline to the present timepoint.
MomentPart == TimepointInv /\ PhaseInv /\ MomentInv /\ UnkeptInv

LEMMA PhaseSetAtTheCurrent ==
  ASSUME RoundTypeOK, StoreInv, HeapInv, FlowInv, GameInv, MomentPart, GameStates = GameRecords,
         StoreKept, SetCurrentPhase
  PROVE  MomentPart'
<1>1. /\ phaseObj \in RunnablePhases /\ phaseObj.name \in Phases /\ phaseObj.mode \in Modes
      /\ pc = "setCurrentPhase" /\ phaseObj' = phaseObj
  BY PhasesThatRun DEF FlowInv, SetCurrentPhase, AtStep
<1>2. /\ CurrentTimepoint' = CurrentTimepoint /\ currentId' = currentId
      /\ currentId # NoSnapshot => snapshots'[currentId'].state = snapshots[currentId].state
      /\ actionSnapshots' = actionSnapshots /\ quickSnapshots' = quickSnapshots
  BY KeptStoreKeepsMoment
<1>3. CASE phaseObj.mode = "normal"
  <2>1. pc' = "startOfPhase"
    BY <1>3 DEF SetCurrentPhase
  <2> QED BY <1>1, <2>1 DEF MomentPart, TimepointInv, PhaseInv, MomentInv, UnkeptInv
<1>4. CASE phaseObj.mode # "normal"
  <2>1. /\ currentId # NoSnapshot /\ currentId \in DOMAIN snapshots
        /\ game = snapshots[currentId].state /\ game.phase = phaseObj.name
        /\ phaseObj.mode = "rollbackToStartOfPhase" => CurrentTimepoint = "startOfPhase"
        /\ phaseObj.mode = "rollbackToEndOfPhase" => CurrentTimepoint = "endOfPhase"
        /\ phaseObj.first = "mulliganPrompt" => CurrentTimepoint = "mulligan"
        /\ phaseObj.first = "setupResourcePrompt" => CurrentTimepoint = "setupResource"
        /\ phaseObj.first = "queueNextAction" =>
             CurrentTimepoint = "action" /\ currentId \in actionSnapshots[game.active]
        /\ phaseObj.first = "readyAllCards" => CurrentTimepoint = "regroupReadyCards"
    BY <1>1, <1>4, ResumedAtTheCurrent DEF MomentPart
  <2>2. game' = game
    <3>1. game' = [game EXCEPT !.phase = phaseObj.name, !.starts = game.starts] /\ game \in GameRecords
      BY <1>4 DEF SetCurrentPhase, RoundTypeOK
    <3> QED BY <2>1, <3>1 DEF GameRecords
  <2>3. CASE phaseObj.mode = "rollbackToWithinPhase"
    <3>1. /\ pc' = phaseObj.first
          /\ pc' \in {"mulliganPrompt", "setupResourcePrompt", "queueNextAction", "drawTwo",
                      "readyAllCards"}
      BY <1>1, <2>3, FirstStepsAreOwn DEF SetCurrentPhase, ResumedSteps, Phases
    <3> QED BY <1>1, <1>2, <2>1, <2>2, <3>1 DEF MomentPart, TimepointInv, PhaseInv, MomentInv, UnkeptInv
  <2>4. CASE phaseObj.mode # "rollbackToWithinPhase"
    <3>1. pc' = "startPhase"
      BY <1>1, <1>4, <2>4 DEF SetCurrentPhase
    <3> QED BY <1>1, <1>2, <1>4, <2>1, <2>4, <3>1
               DEF MomentPart, TimepointInv, PhaseInv, MomentInv, UnkeptInv, Modes
  <2> QED BY <2>3, <2>4
<1> QED BY <1>3, <1>4

LEMMA StayingKeepsMoment ==
  ASSUME RoundTypeOK, StoreInv, HeapInv, FlowInv, GameInv, MomentPart, GameStates = GameRecords,
         StoreKept, StaysAtTimepoint
  PROVE  MomentPart'
<1>1. /\ phaseObj \in RunnablePhases /\ phaseObj.name \in Phases /\ phaseObj.mode \in Modes
      /\ game \in GameRecords
  BY PhasesThatRun DEF FlowInv, RoundTypeOK
<1>2. /\ CurrentTimepoint' = CurrentTimepoint /\ currentId' = currentId
      /\ currentId # NoSnapshot => snapshots'[currentId'].state = snapshots[currentId].state
      /\ actionSnapshots' = actionSnapshots /\ quickSnapshots' = quickSnapshots
  BY KeptStoreKeepsMoment
<1>3. /\ CurrentTimepoint # "none" => currentId # NoSnapshot
      /\ currentId # NoSnapshot => snapshots[currentId].state \in GameRecords
  BY CurrentIsRecorded
<1>4. CASE SetCurrentPhase
  BY <1>4, PhaseSetAtTheCurrent
<1>5. CASE StartPhase
  <2>1. /\ phaseObj' = phaseObj /\ pc = "startPhase" /\ pc' = phaseObj.first
        /\ pc' \in {"chooseFirstPlayer", "setupActionPhase", "drawTwo", "tearDown"}
        /\ phaseObj.mode = "rollbackToEndOfPhase" => pc' = "tearDown"
    BY <1>1, <1>5, FirstStepsAreOwn DEF StartPhase, AtStep, Modes, Phases, FirstStep, FlowInv
  <2> QED BY <1>1, <1>2, <2>1 DEF MomentPart, TimepointInv, PhaseInv, MomentInv, UnkeptInv
<1>6. CASE BeginRound
  BY <1>6 DEF BeginRound, AtStep, NewPhase, MomentPart, TimepointInv, PhaseInv, MomentInv, UnkeptInv
<1>7. CASE OpenMulliganPrompt \/ OpenSetupResourcePrompt \/ OpenResourcePrompt
  BY <1>2, <1>7 DEF OpenMulliganPrompt, OpenSetupResourcePrompt, OpenResourcePrompt, OpenPrompt, AtStep,
                    MomentPart, TimepointInv, PhaseInv, MomentInv, UnkeptInv
<1>8. CASE RotateActivePlayer
  <2>1. /\ CurrentTimepoint = "action" /\ snapshots[currentId].state.actionNumber = game.actionNumber
        /\ pc = "rotate" /\ phaseObj' = phaseObj
    BY <1>8 DEF RotateActivePlayer, AtStep, MomentPart, TimepointInv, MomentInv
  <2>2. pc' = "queueNextAction" => game'.actionNumber # game.actionNumber
    BY <1>1, <1>8 DEF RotateActivePlayer, GameRecords
  <2>3. pc' = "queueNextAction" => ~OpensAgain'
    BY <1>2, <1>3, <2>1, <2>2 DEF OpensAgain
  <2>4. pc' \in {"queueNextAction", "tearDown"}
    BY <1>8 DEF RotateActivePlayer
  <2> QED BY <1>2, <2>1, <2>3, <2>4 DEF MomentPart, TimepointInv, PhaseInv, MomentInv, UnkeptInv
<1>9. CASE TearDownActionPhase
  BY <1>2, <1>9 DEF TearDownActionPhase, AtStep, MomentPart, TimepointInv, PhaseInv, MomentInv, UnkeptInv
<1>10. CASE OpenActionWindow /\ OpensAgain
  <2>1. /\ game = snapshots[currentId].state /\ currentId \in actionSnapshots[game.active]
        /\ CurrentTimepoint = "action" /\ currentId # NoSnapshot
    BY <1>3, <1>10 DEF OpenActionWindow, AtStep, MomentPart, MomentInv, OpensAgain
  <2>2. pc = "queueNextAction" /\ pc' = "actionWindow" /\ game' = game /\ phaseObj' = phaseObj
    BY <1>10 DEF OpenActionWindow, AtStep
  <2>3. [game EXCEPT !.ended = game.ended] = game
    BY <1>1 DEF GameRecords
  <2> QED BY <1>2, <2>1, <2>2, <2>3 DEF MomentPart, TimepointInv, PhaseInv, MomentInv, UnkeptInv
<1>11. CASE EndPhase /\ phaseObj.mode = "rollbackToEndOfPhase"
  BY <1>2, <1>11 DEF EndPhase, AtStep, MomentPart, TimepointInv, PhaseInv, MomentInv, UnkeptInv
<1>12. CASE ReadyAllCards /\ ~TakesReadySnapshots
  BY <1>2, <1>12 DEF ReadyAllCards, TakesReadySnapshots, AtStep, MomentPart, TimepointInv, PhaseInv,
                     MomentInv, UnkeptInv
<1>13. CASE Draws
  BY <1>2, <1>13 DEF Draws, AtStep, MomentPart, TimepointInv, PhaseInv, MomentInv, UnkeptInv
<1>14. CASE ChooseFirstPlayer
  BY <1>2, <1>14 DEF ChooseFirstPlayer, AtStep, MomentPart, TimepointInv, PhaseInv, MomentInv, UnkeptInv
<1>15. CASE Answer
  <2>1. pc' = pc /\ phaseObj' = phaseObj /\ game' = game /\ pc \in AfterWindows
    BY <1>15 DEF Answer, FlowInv
  <2> QED BY <1>2, <1>3, <2>1 DEF MomentPart, TimepointInv, PhaseInv, MomentInv, UnkeptInv,
                                 TakesReadySnapshots, AfterWindows
<1>16. ASSUME NEW p \in Players, Choice(p) PROVE MomentPart'
  <2>1. CASE pc # "actionWindow"
    BY <1>2, <1>16, <2>1, ChoicesMove DEF MomentPart, TimepointInv, PhaseInv, MomentInv, UnkeptInv
  <2>2. CASE pc = "actionWindow"
    <3>1. /\ phaseObj' = phaseObj /\ pc' = "rotate" /\ p = game.active
          /\ \/ Pass(p) \/ TakeCardAction(p)
             \/ \E counter \in game.counters : ClaimCounter(p, counter)
      BY <1>16, <2>2, ChoicesMove
    <3>2. game.extra = {} /\ game.initiative # NoPlayer
      BY <2>2 DEF GameInv, BetweenPhases, BeforeFirstPlayer
    <3>3. game'.actionNumber = game.actionNumber
      BY <3>1, <3>2, ActionsChangeTheGame
    <3>4. /\ CurrentTimepoint = "action" /\ currentId # NoSnapshot
          /\ snapshots[currentId].state.actionNumber = game.actionNumber
      <4> DEFINE state == snapshots[currentId].state
      <4>1. /\ CurrentTimepoint = "action" /\ state \in GameRecords
            /\ [state EXCEPT !.ended = game.ended] = game
        BY <1>3, <2>2 DEF MomentPart, TimepointInv, MomentInv
      <4> HIDE DEF state
      <4>2. state.actionNumber = game.actionNumber
        BY <4>1 DEF GameRecords
      <4> QED BY <1>3, <4>1, <4>2 DEF state
    <3> QED BY <1>2, <2>2, <3>1, <3>3, <3>4 DEF MomentPart, TimepointInv, PhaseInv, MomentInv, UnkeptInv
  <2> QED BY <2>1, <2>2
<1> QED
  BY <1>4, <1>5, <1>6, <1>7, <1>8, <1>9, <1>10, <1>11, <1>12, <1>13, <1>14, <1>15, <1>16
     DEF StaysAtTimepoint

-----------------------------------------------------------------------------
(* Reaching a timepoint *)

\* What a timepoint reached now would record.
RecordsNow(timepoint) == \A s : s.timepoint = timepoint /\ s.state = game => Recorded(s)

LEMMA ReachingKeepsHeap ==
  ASSUME StoreInv, HeapInv, NEW timepoint, MoveToNextTimepoint(timepoint), RecordsNow(timepoint),
         \/ \E players \in SUBSET Players :
              /\ TakeActionSnapshots(players)
              /\ timepoint = "action" => players \subseteq {game.active}
              /\ timepoint = "endOfPhase" => players = {}
         \/ \E ph \in Phases : TakePhaseSnapshot(ph) /\ timepoint = "startOfPhase"
  PROVE  HeapInv'
<1>1. StoreMoved(timepoint)
  BY MovingMovesStore
<1>2. /\ currentId' \in Nat /\ \A id \in DOMAIN snapshots : SameRecord(id)
      /\ snapshots'[currentId'].timepoint = timepoint /\ snapshots'[currentId'].state = game
  BY <1>1 DEF StoreMoved
<1>3. \A id \in DOMAIN snapshots' : Recorded(snapshots'[id])
  <2>1. Recorded(snapshots'[currentId'])
    BY <1>2 DEF RecordsNow
  <2>2. \A id \in DOMAIN snapshots : Recorded(snapshots'[id])
    BY <1>2 DEF HeapInv, SameRecord, Recorded
  <2> QED BY <1>1, <2>1, <2>2 DEF StoreMoved
<1>4. ASSUME NEW players \in SUBSET Players, TakeActionSnapshots(players),
             timepoint = "action" => players \subseteq {game.active},
             timepoint = "endOfPhase" => players = {}
      PROVE  Held' /\ Bounded'
  BY <1>2, <1>4, TakingActionsKeepsHeld DEF HeapInv
<1>5. ASSUME NEW ph \in Phases, TakePhaseSnapshot(ph), timepoint = "startOfPhase"
      PROVE  Held' /\ Bounded'
  BY <1>2, <1>5, TakingPhaseKeepsHeld DEF HeapInv
<1> QED BY <1>3, <1>4, <1>5 DEF HeapInv

\* A timepoint just reached is the current one, and kept for nobody but those it is
\* kept for now.
LEMMA ReachedIsCurrent ==
  ASSUME StoreInv, HeapInv, NEW timepoint \in SnapshotTimepoint, MoveToNextTimepoint(timepoint)
  PROVE  /\ CurrentTimepoint' = timepoint
         /\ currentId' # NoSnapshot /\ currentId' \in Nat
         /\ snapshots'[currentId'].state = game
         /\ \A p \in Players : /\ currentId' \notin actionSnapshots[p]
                               /\ \A e \in quickSnapshots[p] : e.id # currentId'
<1>1. StoreMoved(timepoint)
  BY MovingMovesStore
<1>2. currentId' \in Nat /\ currentId' # NoSnapshot
  BY <1>1 DEF StoreMoved, NoSnapshot
<1>3. \A id \in DOMAIN snapshots : id \in Nat /\ id # currentId'
  BY <1>1, <1>2, ContainersAreTyped DEF StoreMoved
<1>4. \A p \in Players : /\ currentId' \notin actionSnapshots[p]
                         /\ \A e \in quickSnapshots[p] : e.id # currentId'
  BY <1>3, ContainersAreTyped
<1> QED BY <1>1, <1>2, <1>4 DEF StoreMoved, CurrentTimepoint

\* The timepoint of an action window is kept for the active player.
LEMMA WindowIsKept ==
  ASSUME StoreInv, HeapInv, NEW p \in Players, MoveToNextTimepoint("action"), TakeActionSnapshots({p})
  PROVE  currentId' \in actionSnapshots'[p]
<1>1. StoreMoved("action")
  BY MovingMovesStore
<1>2. actionSnapshots'[p] = Pushed(actionSnapshots[p], ActionHistoryLength, currentId')
  BY DEF TakeActionSnapshots
<1>3. /\ currentId' \in Nat /\ actionSnapshots[p] \in SUBSET Nat
      /\ IsFiniteSet(actionSnapshots[p])
      /\ \A id \in actionSnapshots[p] : id < currentId'
  BY <1>1, ContainersAreTyped DEF StoreMoved, HeapInv, Bounded
<1> QED BY <1>2, <1>3, PushedKeepsNewest, SnapshotManagerAssumption

RoundPart == RoundTypeOK /\ FlowInv /\ GameInv

LEMMA RoundStepKeepsRoundPart ==
  ASSUME RoundPart, RoundStep
  PROVE  RoundPart'
<1>1. pc = "queueNextAction" => game.active \in Players
  BY DEF RoundPart, GameInv
<1> QED BY <1>1, RoundStepKeepsTypes, StepsKeepFlow, StepsKeepGameInv DEF RoundPart, RoundStep

\* What the store does when a step of the phases reaches a timepoint.
Reaches(timepoint) ==
  /\ MoveToNextTimepoint(timepoint)
  /\ \/ \E players \in SUBSET Players :
          /\ TakeActionSnapshots(players) /\ timepoint # "startOfPhase"
          /\ timepoint = "action" => players = {game.active}
          /\ timepoint \in {"endOfPhase", "regroupReadyCards"} => players = {}
     \/ timepoint = "startOfPhase" /\ game.phase \in Phases /\ TakePhaseSnapshot(game.phase)

TimepointReached ==
  \/ StartOfPhaseSnapshot /\ Reaches("startOfPhase")
  \/ SnapshotBeforeMulligan /\ Reaches("mulligan")
  \/ SnapshotBeforeResource /\ Reaches("setupResource")
  \/ OpenActionWindow /\ Reaches("action")
  \/ DrawTwo /\ Reaches("regroupResource")
  \/ EndPhase /\ phaseObj.mode # "rollbackToEndOfPhase" /\ Reaches("endOfPhase")
  \/ ReadyAllCards /\ TakesReadySnapshots /\ Reaches("regroupReadyCards")

LEMMA TimepointStepReaches ==
  ASSUME RoundPart, TimepointStep
  PROVE  TimepointReached
<1>1. prompted \in SUBSET Players
  BY DEF RoundPart, RoundTypeOK
<1>2. CASE StartOfPhaseSnapshot /\ ReachStartOfPhase(phaseObj.name)
  <2>1. game.phase = phaseObj.name /\ phaseObj.name \in Phases
    BY <1>2, PhasesThatRun DEF StartOfPhaseSnapshot, AtStep, RoundPart, GameInv, FlowInv, BetweenPhases
  <2> QED BY <1>2, <2>1 DEF ReachStartOfPhase, Reaches, TimepointReached
<1>3. CASE SnapshotBeforeMulligan /\ ReachTimepoint("mulligan", Players)
  BY <1>3 DEF ReachTimepoint, Reaches, TimepointReached
<1>4. CASE SnapshotBeforeResource /\ ReachTimepoint("setupResource", Players)
  BY <1>4 DEF ReachTimepoint, Reaches, TimepointReached
<1>5. CASE OpenActionWindow /\ ReachTimepoint("action", {game.active})
  <2>1. {game.active} \in SUBSET Players
    BY <1>5 DEF OpenActionWindow, AtStep, RoundPart, GameInv
  <2>2. Reaches("action")
    BY <1>5, <2>1 DEF ReachTimepoint, Reaches
  <2> QED BY <1>5, <2>2 DEF TimepointReached
<1>6. CASE /\ DrawTwo
           /\ ReachTimepoint("regroupResource",
                             IF phaseObj.mode = "rollbackToWithinPhase" THEN {} ELSE prompted)
  <2>1. Reaches("regroupResource")
    <3>1. (IF phaseObj.mode = "rollbackToWithinPhase" THEN {} ELSE prompted) \in SUBSET Players
      BY <1>1
    <3> QED BY <1>6, <3>1 DEF ReachTimepoint, Reaches
  <2> QED BY <1>6, <2>1 DEF TimepointReached
<1>7. CASE EndPhase /\ phaseObj.mode # "rollbackToEndOfPhase" /\ ReachTimepoint("endOfPhase", {})
  <2>1. Reaches("endOfPhase")
    BY <1>7 DEF ReachTimepoint, Reaches
  <2> QED BY <1>7, <2>1 DEF TimepointReached
<1>8. CASE ReadyAllCards /\ TakesReadySnapshots /\ ReachTimepoint("regroupReadyCards", {})
  <2>1. Reaches("regroupReadyCards")
    BY <1>8 DEF ReachTimepoint, Reaches
  <2> QED BY <1>8, <2>1 DEF TimepointReached
<1> QED BY <1>2, <1>3, <1>4, <1>5, <1>6, <1>7, <1>8 DEF TimepointStep

LEMMA ReachedIsRecorded ==
  ASSUME RoundPart, NEW timepoint,
         \/ StartOfPhaseSnapshot /\ timepoint = "startOfPhase"
         \/ SnapshotBeforeMulligan /\ timepoint = "mulligan"
         \/ SnapshotBeforeResource /\ timepoint = "setupResource"
         \/ OpenActionWindow /\ timepoint = "action"
         \/ DrawTwo /\ timepoint = "regroupResource"
         \/ EndPhase /\ timepoint = "endOfPhase"
         \/ ReadyAllCards /\ timepoint = "regroupReadyCards"
  PROVE  RecordsNow(timepoint) /\ timepoint \in SnapshotTimepoint
<1>1. /\ phaseObj.name \in Phases /\ phaseObj.mode \in Modes
      /\ pc \in {"startOfPhase", "beforeMulligan", "beforeResource", "queueNextAction", "drawTwo",
                 "endPhase", "readyAllCards"}
      /\ game.phase = phaseObj.name /\ game.extra = {}
  BY PhasesThatRun DEF RoundPart, FlowInv, GameInv, BetweenPhases, StartOfPhaseSnapshot,
     SnapshotBeforeMulligan, SnapshotBeforeResource, OpenActionWindow, DrawTwo, EndPhase, ReadyAllCards,
     AtStep
<1>2. /\ pc \in {"beforeMulligan", "beforeResource"} => phaseObj.name = "setup"
      /\ pc = "queueNextAction" => phaseObj.name = "action"
      /\ pc \in {"drawTwo", "readyAllCards"} => phaseObj.name = "regroup"
  BY <1>1 DEF RoundPart, FlowInv, OwnSteps, BetweenPhases, Phases
<1>3. /\ pc = "startOfPhase" <=> timepoint = "startOfPhase"
      /\ pc \in {"beforeMulligan", "beforeResource"} <=> timepoint \in {"mulligan", "setupResource"}
      /\ pc = "queueNextAction" <=> timepoint = "action"
      /\ pc \in {"drawTwo", "readyAllCards"} <=> timepoint \in {"regroupResource", "regroupReadyCards"}
      /\ timepoint \in SnapshotTimepoint
  BY DEF StartOfPhaseSnapshot, SnapshotBeforeMulligan, SnapshotBeforeResource, OpenActionWindow, DrawTwo,
         EndPhase, ReadyAllCards, AtStep, SnapshotTimepoint
<1>4. /\ pc = "queueNextAction" => game.active \in Players \ game.passed
      /\ pc = "startOfPhase" /\ phaseObj.name = "action" => game.active \in Players
      /\ game.initiative = NoPlayer => phaseObj.name = "setup" /\ pc = "startOfPhase"
  <2>1. pc = "startOfPhase" => phaseObj.mode # "rollbackToEndOfPhase"
    BY DEF RoundPart, FlowInv
  <2> QED BY <1>1, <2>1 DEF RoundPart, GameInv, BeforeActions, BeforeFirstPlayer
<1>5. ASSUME NEW s, s.timepoint = timepoint, s.state = game PROVE Recorded(s)
  BY <1>1, <1>2, <1>3, <1>4, <1>5 DEF Recorded
<1> QED BY <1>3, <1>5 DEF RecordsNow

LEMMA ReachingKeepsInv ==
  ASSUME RoundPart, StoreInv, HeapInv, MomentPart,
         GameStates = GameRecords, Timepoints = SnapshotTimepoint, TimepointReached
  PROVE  RoundPart' /\ HeapInv' /\ MomentPart' /\ StoreGrows
<1>1. RoundStep /\ RoundPart'
  <2>1. RoundStep
    BY DEF TimepointReached, RoundStep, Pipeline
  <2> QED BY <2>1, RoundStepKeepsRoundPart
<1>2. PICK timepoint \in SnapshotTimepoint :
        /\ Reaches(timepoint) /\ RecordsNow(timepoint)
        /\ \/ StartOfPhaseSnapshot /\ timepoint = "startOfPhase"
           \/ SnapshotBeforeMulligan /\ timepoint = "mulligan"
           \/ SnapshotBeforeResource /\ timepoint = "setupResource"
           \/ OpenActionWindow /\ timepoint = "action"
           \/ DrawTwo /\ timepoint = "regroupResource"
           \/ EndPhase /\ phaseObj.mode # "rollbackToEndOfPhase" /\ timepoint = "endOfPhase"
           \/ ReadyAllCards /\ TakesReadySnapshots /\ timepoint = "regroupReadyCards"
  BY ReachedIsRecorded DEF TimepointReached, SnapshotTimepoint
<1>3. HeapInv'
  BY <1>2, ReachingKeepsHeap DEF Reaches
<1>4. StoreGrows
  <2>1. game' \in GameStates
    BY <1>1 DEF RoundPart, RoundTypeOK
  <2> QED BY <1>2, <2>1 DEF Reaches, StoreGrows, ReachTimepoint, ReachStartOfPhase
<1>5. MomentPart'
  <2>1. /\ CurrentTimepoint' = timepoint
        /\ currentId' # NoSnapshot /\ currentId' \in Nat
        /\ snapshots'[currentId'].state = game
        /\ \A p \in Players : /\ currentId' \notin actionSnapshots[p]
                              /\ \A e \in quickSnapshots[p] : e.id # currentId'
    BY <1>2, ReachedIsCurrent DEF Reaches
  <2>2. phaseObj' = phaseObj /\ (timepoint # "endOfPhase" => game' = game)
    BY <1>2 DEF StartOfPhaseSnapshot, SnapshotBeforeMulligan, SnapshotBeforeResource,
                OpenActionWindow, DrawTwo, ReadyAllCards, EndPhase
  <2>3. game.phase = phaseObj.name
    BY <1>2 DEF StartOfPhaseSnapshot, SnapshotBeforeMulligan, SnapshotBeforeResource, OpenActionWindow,
                DrawTwo, ReadyAllCards, EndPhase, AtStep, RoundPart, GameInv, BetweenPhases
  <2>4. CASE StartOfPhaseSnapshot /\ timepoint = "startOfPhase"
    <3>1. game.phase = "action" => quickSnapshots' = [p \in Players |-> quickSnapshots[p]]
      BY <1>2, <2>4 DEF Reaches, TakePhaseSnapshot, WithQuickEntry
    <3>2. pc' = "startPhase"
      BY <2>4 DEF StartOfPhaseSnapshot
    <3> QED BY <2>1, <2>2, <2>3, <2>4, <3>1, <3>2 DEF MomentPart, TimepointInv, PhaseInv, MomentInv, UnkeptInv
  <2>5. CASE SnapshotBeforeMulligan \/ SnapshotBeforeResource \/ DrawTwo
    <3>1. \/ pc' = "mulliganPrompt" /\ timepoint = "mulligan"
          \/ pc' = "setupResourcePrompt" /\ timepoint = "setupResource"
          \/ pc' = "draws"
      BY <1>2, <2>5 DEF SnapshotBeforeMulligan, SnapshotBeforeResource, DrawTwo, AtStep,
         StartOfPhaseSnapshot, OpenActionWindow, EndPhase, ReadyAllCards
    <3> QED BY <2>1, <2>2, <2>3, <3>1 DEF MomentPart, TimepointInv, PhaseInv, MomentInv, UnkeptInv
  <2>6. CASE OpenActionWindow /\ timepoint = "action"
    <3>1. pc' = "actionWindow" /\ game.active \in Players
      BY <2>6 DEF OpenActionWindow, AtStep, RoundPart, GameInv
    <3>2. currentId' \in actionSnapshots'[game.active]
      BY <1>2, <2>6, <3>1, WindowIsKept DEF Reaches
    <3>3. [game EXCEPT !.ended = game.ended] = game
      BY DEF RoundPart, RoundTypeOK, GameRecords
    <3> QED BY <2>1, <2>2, <2>3, <2>6, <3>1, <3>2, <3>3
               DEF MomentPart, TimepointInv, PhaseInv, MomentInv, UnkeptInv
  <2>7. CASE timepoint \in {"endOfPhase", "regroupReadyCards"}
    <3>1. \A p \in Players : actionSnapshots'[p] = actionSnapshots[p] /\ quickSnapshots'[p] = quickSnapshots[p]
      BY <1>2, <2>7 DEF Reaches, TakeActionSnapshots, WithQuickEntry
    <3>2. pc' = IF timepoint = "endOfPhase" THEN "phaseEnded" ELSE "cardsReadied"
      BY <1>2, <2>7 DEF EndPhase, ReadyAllCards
    <3> QED BY <2>1, <2>2, <2>3, <2>7, <3>1, <3>2
               DEF MomentPart, TimepointInv, PhaseInv, MomentInv, UnkeptInv
  <2> QED BY <1>2, <2>4, <2>5, <2>6, <2>7
<1> QED BY <1>1, <1>3, <1>4, <1>5

-----------------------------------------------------------------------------
(* Keeping the present timepoint for players *)

LEMMA QuickStartKeepsHeap ==
  ASSUME StoreInv, HeapInv, NEW players \in SUBSET Players, AddQuickStartOfActionSnapshots(players)
  PROVE  HeapInv'
<1>1. UNCHANGED <<snapshots, currentId, actionSnapshots, phaseSnapshots, manualSnapshots>>
  BY DEF AddQuickStartOfActionSnapshots, factoryVars
<1>2. ASSUME NEW p \in Players PROVE IsFiniteSet(quickSnapshots'[p])
  <2> DEFINE entry == [id |-> currentId, source |-> "phase"]
  <2>1. quickSnapshots'[p] = quickSnapshots[p] \cup {entry} \/ quickSnapshots'[p] = quickSnapshots[p]
    BY DEF AddQuickStartOfActionSnapshots, WithQuickEntry
  <2>2. IsFiniteSet(quickSnapshots[p])
    BY DEF HeapInv, Bounded
  <2> HIDE DEF entry
  <2>3. IsFiniteSet(quickSnapshots[p] \cup {entry})
    BY <2>2, FS_AddElement
  <2> QED BY <2>1, <2>2, <2>3
<1>3. Bounded'
  BY <1>1, <1>2 DEF HeapInv, Bounded
<1> QED BY <1>1, <1>3 DEF HeapInv, Held, Recorded

LEMMA KeepingKeepsHeap ==
  ASSUME StoreInv, HeapInv, NEW players \in SUBSET Players, KeepTimepoint(players),
         players # {} =>
           /\ CurrentTimepoint # "action"
           /\ CurrentTimepoint = "endOfPhase" => snapshots[currentId].state.phase = "action"
  PROVE  HeapInv'
<1>1. UNCHANGED <<snapshots, currentId>> /\ TakeActionSnapshots(players)
  BY DEF KeepTimepoint, factoryVars
<1>2. players # {} => /\ currentId # NoSnapshot /\ currentId \in DOMAIN snapshots
                      /\ CurrentTimepoint = snapshots[currentId].timepoint
  BY CurrentIsRecorded DEF KeepTimepoint
<1>3. \A p \in players :
        /\ currentId' \in Nat
        /\ snapshots'[currentId'].timepoint = "action" => snapshots'[currentId'].state.active = p
        /\ snapshots'[currentId'].timepoint = "endOfPhase" => snapshots'[currentId'].state.phase = "action"
  BY <1>1, <1>2, ContainersAreTyped
<1>4. \A id \in DOMAIN snapshots : SameRecord(id)
  BY <1>1 DEF SameRecord
<1>5. Held' /\ Bounded'
  BY <1>1, <1>3, <1>4, TakingActionsKeepsHeld DEF HeapInv
<1> QED BY <1>1, <1>5 DEF HeapInv, Recorded

LEMMA KeepingKeepsInv ==
  ASSUME RoundPart, StoreInv, HeapInv, MomentPart, GameStates = GameRecords, KeepingStep
  PROVE  RoundPart' /\ HeapInv' /\ MomentPart' /\ StoreGrows
<1>1. RoundPart' /\ prompted \in SUBSET Players /\ phaseObj.mode \in Modes
  <2>1. RoundStep
    BY DEF KeepingStep, RoundStep, Pipeline
  <2> QED BY <2>1, RoundStepKeepsRoundPart, PhasesThatRun DEF RoundPart, RoundTypeOK, FlowInv
<1>2. PICK players \in SUBSET Players :
        \/ /\ PhaseEnded /\ KeepTimepoint(players)
           /\ players # {} => TakesEndSnapshots
        \/ /\ CardsReadied /\ KeepTimepoint(players)
           /\ players # {} => TakesReadySnapshots
        \/ SetupActionPhase /\ AddQuickStartOfActionSnapshots(players)
  <2>1. CASE PhaseEnded /\ KeepTimepoint(IF TakesEndSnapshots THEN prompted ELSE {})
    <3>1. (IF TakesEndSnapshots THEN prompted ELSE {}) \in SUBSET Players
      BY <1>1
    <3> QED BY <2>1, <3>1
  <2>2. CASE CardsReadied /\ KeepTimepoint(IF TakesReadySnapshots THEN prompted ELSE {})
    <3>1. (IF TakesReadySnapshots THEN prompted ELSE {}) \in SUBSET Players
      BY <1>1
    <3> QED BY <2>2, <3>1
  <2>3. CASE /\ SetupActionPhase
             /\ AddQuickStartOfActionSnapshots(IF phaseObj.mode = "normal" THEN prompted ELSE {})
    <3>1. (IF phaseObj.mode = "normal" THEN prompted ELSE {}) \in SUBSET Players
      BY <1>1
    <3> QED BY <2>3, <3>1
  <2> QED BY <2>1, <2>2, <2>3 DEF KeepingStep
<1>3. UNCHANGED <<snapshots, currentId>> /\ CurrentTimepoint' = CurrentTimepoint
  BY <1>2 DEF KeepTimepoint, AddQuickStartOfActionSnapshots, factoryVars, CurrentTimepoint
<1>4. HeapInv'
  <2>1. CASE PhaseEnded /\ KeepTimepoint(players) /\ (players # {} => TakesEndSnapshots)
    <3>1. players # {} => /\ CurrentTimepoint = "endOfPhase"
                          /\ snapshots[currentId].state.phase = "action"
      BY <2>1 DEF PhaseEnded, AtStep, TakesEndSnapshots, MomentPart, TimepointInv, PhaseInv
    <3> QED BY <2>1, <3>1, KeepingKeepsHeap
  <2>2. CASE CardsReadied /\ KeepTimepoint(players) /\ (players # {} => TakesReadySnapshots)
    <3>1. players # {} => CurrentTimepoint = "regroupReadyCards"
      BY <2>2 DEF CardsReadied, AtStep, MomentPart, TimepointInv
    <3> QED BY <2>2, <3>1, KeepingKeepsHeap
  <2> QED BY <1>2, <2>1, <2>2, QuickStartKeepsHeap
<1>5. MomentPart'
  <2>1. CASE PhaseEnded
    <3>1. \/ pc' = "setCurrentPhase" /\ phaseObj'.mode = "normal"
          \/ pc' = "beginRound"
      BY <2>1 DEF PhaseEnded, NewPhase
    <3> QED BY <3>1 DEF MomentPart, TimepointInv, PhaseInv, MomentInv, UnkeptInv
  <2>2. CASE CardsReadied
    BY <1>3, <2>2 DEF CardsReadied, AtStep, MomentPart, TimepointInv, PhaseInv, MomentInv, UnkeptInv
  <2>3. CASE SetupActionPhase
    <3>1. /\ CurrentTimepoint = "startOfPhase" /\ pc = "setupActionPhase"
          /\ pc' = "queueNextAction" /\ phaseObj' = phaseObj
      BY <2>3 DEF SetupActionPhase, AtStep, MomentPart, TimepointInv
    <3>2. ~OpensAgain'
      BY <1>3, <3>1 DEF OpensAgain
    <3> QED BY <1>3, <3>1, <3>2 DEF MomentPart, TimepointInv, PhaseInv, MomentInv, UnkeptInv
  <2> QED BY <1>2, <2>1, <2>2, <2>3
<1>6. StoreGrows
  <2>1. game' \in GameStates
    BY <1>1 DEF RoundPart, RoundTypeOK
  <2> QED BY <1>2, <2>1 DEF StoreGrows
<1> QED BY <1>1, <1>4, <1>5, <1>6

\* Steps that leave the line alone.
LEMMA StayingKeepsInv ==
  ASSUME RoundPart, StoreInv, HeapInv, MomentPart, GameStates = GameRecords, StaysAtTimepoint,
         UNCHANGED snapshotVars \/ \E players \in SUBSET Players : RequireConfirmation(players)
  PROVE  RoundPart' /\ HeapInv' /\ MomentPart' /\ StoreGrows
<1>1. RoundPart'
  <2>1. RoundStep
    BY DEF StaysAtTimepoint, RoundStep, Pipeline
  <2> QED BY <2>1, RoundStepKeepsRoundPart
<1>2. StoreKept
  BY FlaggingKeepsStore
<1>3. HeapInv' /\ MomentPart'
  BY <1>2, KeptStoreKeepsHeap, StayingKeepsMoment DEF RoundPart
<1>4. StoreGrows
  BY <1>1 DEF StoreGrows, RoundPart, RoundTypeOK
<1> QED BY <1>1, <1>3, <1>4

-----------------------------------------------------------------------------
(* Rolling back *)

Targets == AllActionSnapshots \cup AllPhaseSnapshots

LEMMA TargetsAreRecorded ==
  ASSUME StoreInv, HeapInv, NEW id \in Targets
  PROVE  /\ id \in DOMAIN snapshots /\ id \in Nat
         /\ snapshots[id].timepoint \in SnapshotTimepoint /\ snapshots[id].state \in GameStates
         /\ Recorded(snapshots[id])
         /\ snapshots[id].timepoint = "endOfPhase" => snapshots[id].state.phase = "action"
         /\ snapshots[id].timepoint = "action" => id \in actionSnapshots[snapshots[id].state.active]
<1>1. id \in DOMAIN snapshots /\ id \in Nat
  BY ContainersAreTyped DEF Targets, AllActionSnapshots, AllPhaseSnapshots
<1>2. snapshots[id].timepoint \in SnapshotTimepoint /\ snapshots[id].state \in GameStates
  BY <1>1, SnapshotManagerAssumption DEF StoreInv, SnapshotTypeOK, Snapshots
<1>3. /\ snapshots[id].timepoint = "endOfPhase" => snapshots[id].state.phase = "action"
      /\ snapshots[id].timepoint = "action" => id \in actionSnapshots[snapshots[id].state.active]
  <2>1. ASSUME NEW p \in Players, id \in actionSnapshots[p]
        PROVE  /\ snapshots[id].timepoint = "endOfPhase" => snapshots[id].state.phase = "action"
               /\ snapshots[id].timepoint = "action" => id \in actionSnapshots[snapshots[id].state.active]
    BY <2>1 DEF HeapInv, Held
  <2>2. ASSUME NEW ph \in Phases, id \in phaseSnapshots[ph]
        PROVE  snapshots[id].timepoint = "startOfPhase"
    BY <2>2 DEF HeapInv, Held
  <2> QED BY <2>1, <2>2 DEF Targets, AllActionSnapshots, AllPhaseSnapshots
<1> QED BY <1>1, <1>2, <1>3 DEF HeapInv

\* Quick undo, and in free mode the histories, lead to such snapshots.
LEMMA UndoLeadsToTargets ==
  ASSUME NEW p \in Players
  PROVE  /\ \A point : \A e \in QuickTargets(p, point) : e.id \in Targets
         /\ UndoTargets(p) \subseteq Targets
<1>1. \A point : \A e \in QuickTargets(p, point) : e.id \in Targets
  BY DEF QuickTargets, StillHeld, Targets
<1>2. actionSnapshots[p] \subseteq Targets /\ UNION {phaseSnapshots[ph] : ph \in Phases} \subseteq Targets
  BY DEF Targets, AllActionSnapshots, AllPhaseSnapshots
<1> QED BY <1>1, <1>2 DEF UndoTargets

\* Where a rollback resumes the game is determined by what the snapshot records.
LEMMA SameEntryPoint ==
  ASSUME NEW s, NEW t, s.timepoint = t.timepoint, s.state = t.state
  PROVE  EntryPoint(s) = EntryPoint(t)
BY DEF EntryPoint

LEMMA RollBackKeepsInv ==
  ASSUME RoundPart, StoreInv, HeapInv, GameStates = GameRecords, NEW id \in Targets, RollBack(id)
  PROVE  RoundPart' /\ HeapInv' /\ MomentPart'
<1> DEFINE s == snapshots[id]
<1>1. /\ id \in DOMAIN snapshots /\ s.timepoint \in SnapshotTimepoint /\ s.state \in GameRecords
      /\ Recorded(s) /\ (s.timepoint = "endOfPhase" => s.state.phase = "action")
      /\ s.timepoint = "action" => id \in actionSnapshots[s.state.active]
  BY TargetsAreRecorded
<1>2. /\ Restore(id) /\ game' = s.state /\ phaseObj' = EntryPoint(s)
      /\ pc' = "setCurrentPhase" /\ done' = {} /\ asking' = <<>> /\ prompted' = prompted
  BY DEF RollBack, Restore
<1>3. /\ currentId' = id /\ snapshots'[id].timepoint = s.timepoint /\ snapshots'[id].state = s.state
  <2>1. StoreCut(id)
    BY <1>1, <1>2, RestoringCutsStore
  <2>2. id <= id
    BY TargetsAreRecorded
  <2> QED BY <1>1, <2>1, <2>2 DEF StoreCut, SameRecord
<1>4. HeapInv'
  BY <1>1, <1>2, RestoringKeepsHeap
<1>5. /\ EntryPoint(s) \in RunnablePhases
      /\ EntryPoint(s).name = s.state.phase /\ EntryPoint(s).mode # "normal"
      /\ EntryPoint(s).first = "queueNextAction" => s.timepoint = "action"
  BY <1>1, EntryPoints
<1>6. /\ s.timepoint = "endOfPhase" => EntryPoint(s).mode = "rollbackToEndOfPhase"
      /\ s.timepoint = "startOfPhase" => EntryPoint(s).mode = "rollbackToStartOfPhase"
  BY DEF EntryPoint
<1>7. id # NoSnapshot
  BY TargetsAreRecorded DEF NoSnapshot
<1> HIDE DEF s
<1>8. RoundPart'
  <2>1. RoundTypeOK'
    BY <1>1, <1>2, <1>5, PhasesThatRun, RoundFlowAssumption DEF RoundPart, RoundTypeOK, Steps
  <2>2. FlowInv'
    BY <1>2, <1>5 DEF FlowInv, BetweenPhases, AfterActions
  <2>3. GameInv'
    <3>1. s.state.phase = "action" => s.timepoint \in {"action", "startOfPhase", "endOfPhase"}
      BY <1>1 DEF Recorded, SnapshotTimepoint
    <3> QED BY <1>1, <1>2, <1>5, <1>6, <3>1 DEF Recorded, GameInv, BetweenPhases, BeforeFirstPlayer
  <2> QED BY <2>1, <2>2, <2>3 DEF RoundPart
<1>9. MomentPart'
  <2>1. CurrentTimepoint' = s.timepoint
    BY <1>3, <1>7 DEF CurrentTimepoint
  <2>2. phaseObj' = EntryPoint(snapshots'[currentId'])
    BY <1>2, <1>3, SameEntryPoint
  <2>3. s.timepoint = "action" => id \in actionSnapshots'[game'.active]
    <3>1. s.timepoint = "action" => s.state.active \in Players
      BY <1>1 DEF Recorded
    <3>2. \A p \in Players : actionSnapshots'[p] = UpTo(actionSnapshots[p], id)
      BY <1>2 DEF Restore
    <3>3. id <= id
      BY TargetsAreRecorded
    <3> QED BY <1>1, <1>2, <3>1, <3>2, <3>3 DEF UpTo
  <2> QED BY <1>2, <1>3, <1>7, <2>1, <2>2, <2>3 DEF MomentPart, TimepointInv, PhaseInv, MomentInv, UnkeptInv
<1> QED BY <1>4, <1>8, <1>9

\* A rollback that works is one of those the store offers.
LEMMA UndoIsARollback ==
  ASSUME StoreInv, HeapInv, NEW p \in Players, NEW id \in UndoTargets(p), Restore(id)
  PROVE  RollbackTo
<1>1. CASE id \in {e.id : e \in QuickTargets(p, RollbackPoint(p))}
  <2>1. RollbackPoint(p) \in QuickRollbackPoints
    BY DEF RollbackPoint, QuickRollbackPoint, QuickRollbackPoints
  <2> QED BY <1>1, <2>1 DEF RollbackTo
<1>2. CASE id \in actionSnapshots[p]
  <2>1. \E offset \in 0 .. ActionHistoryLength - 1 : IsAtOffset(id, actionSnapshots[p], offset)
    BY <1>2, ContainersAreTyped, HeldIsAtAnOffset, SnapshotManagerAssumption DEF HeapInv, Bounded
  <2>2. id \in AllActionSnapshots
    BY <1>2 DEF AllActionSnapshots
  <2> QED BY <2>1, <2>2 DEF RollbackTo, ActionTarget
<1>3. ASSUME NEW ph \in Phases, id \in phaseSnapshots[ph] PROVE RollbackTo
  <2>1. \E offset \in 0 .. PhaseHistoryLength - 1 : IsAtOffset(id, phaseSnapshots[ph], offset)
    BY <1>3, ContainersAreTyped, HeldIsAtAnOffset, SnapshotManagerAssumption DEF HeapInv, Bounded
  <2>2. id \in AllPhaseSnapshots
    BY <1>3 DEF AllPhaseSnapshots
  <2> QED BY <2>1, <2>2 DEF RollbackTo, PhaseTarget
<1> QED BY <1>1, <1>2, <1>3 DEF UndoTargets

-----------------------------------------------------------------------------
(* Steps that leave the pipeline where it waits *)

\* Where the pipeline stops, the game has the phase of the current snapshot, and its
\* initiative counter was given out.
LEMMA WaitingIsRecorded ==
  ASSUME RoundPart, StoreInv, HeapInv, MomentPart, Waiting
  PROVE  /\ pc \in {"setupActionPhase", "tearDown", "rotate", "drawTwo", "resourcePrompt", "cardsReadied",
                    "phaseEnded", "mulligan", "setupResource", "regroupResource", "actionWindow"}
         /\ phaseObj.name \in Phases
         /\ currentId # NoSnapshot /\ snapshots[currentId].state.phase = phaseObj.name
         /\ Recorded(snapshots[currentId]) /\ CurrentTimepoint = snapshots[currentId].timepoint
         /\ snapshots[currentId].state \in GameStates
         /\ snapshots[currentId].state.initiative # NoPlayer
<1>1. /\ pc \in {"setupActionPhase", "tearDown", "rotate", "drawTwo", "resourcePrompt", "cardsReadied",
                 "phaseEnded", "mulligan", "setupResource", "regroupResource", "actionWindow"}
      /\ phaseObj.name \in Phases
  BY PhasesThatRun DEF Waiting, PromptedAll, RoundPart, FlowInv, AfterWindows
<1>2. currentId # NoSnapshot /\ snapshots[currentId].state.phase = phaseObj.name
  BY <1>1 DEF MomentPart, PhaseInv
<1>3. /\ Recorded(snapshots[currentId]) /\ CurrentTimepoint = snapshots[currentId].timepoint
      /\ snapshots[currentId].state \in GameStates
  BY <1>2, CurrentIsRecorded
<1>4. snapshots[currentId].state.initiative # NoPlayer
  <2> SUFFICES ASSUME snapshots[currentId].state.initiative = NoPlayer PROVE FALSE
    OBVIOUS
  <2>1. CurrentTimepoint = "startOfPhase" /\ phaseObj.name = "setup"
    BY <1>2, <1>3 DEF Recorded
  <2>2. pc \in {"phaseEnded", "mulligan", "setupResource"}
    BY <1>1, <2>1 DEF RoundPart, FlowInv, OwnSteps, BetweenPhases
  <2>3. pc = "phaseEnded" => phaseObj.mode # "rollbackToEndOfPhase"
    BY <2>1, FirstStepsAreOwn DEF RoundPart, FlowInv
  <2> QED BY <2>1, <2>2, <2>3 DEF MomentPart, TimepointInv
<1> QED BY <1>1, <1>2, <1>3, <1>4

\* A game that ends, and a restore that fails.
LEMMA StandingKeepsInv ==
  ASSUME RoundPart, StoreInv, HeapInv, MomentPart, GameStates = GameRecords, Waiting,
         UNCHANGED flowVars, StoreKept,
         game' = [game EXCEPT !.ended = TRUE] \/ game' = snapshots[currentId].state
  PROVE  RoundPart' /\ HeapInv' /\ MomentPart'
<1>1. /\ pc \in {"setupActionPhase", "tearDown", "rotate", "drawTwo", "resourcePrompt", "cardsReadied",
                 "phaseEnded", "mulligan", "setupResource", "regroupResource", "actionWindow"}
      /\ phaseObj.name \in Phases
      /\ currentId # NoSnapshot /\ snapshots[currentId].state.phase = phaseObj.name
      /\ Recorded(snapshots[currentId]) /\ CurrentTimepoint = snapshots[currentId].timepoint
      /\ snapshots[currentId].state \in GameRecords
      /\ snapshots[currentId].state.initiative # NoPlayer
  BY WaitingIsRecorded
<1>2. /\ pc' = pc /\ phaseObj' = phaseObj /\ prompted' = prompted /\ done' = done /\ asking' = asking
  BY DEF flowVars
<1>3. /\ CurrentTimepoint' = CurrentTimepoint /\ currentId' = currentId
      /\ snapshots'[currentId'].state = snapshots[currentId].state
      /\ actionSnapshots' = actionSnapshots /\ quickSnapshots' = quickSnapshots
  BY <1>1, KeptStoreKeepsMoment
<1>4. HeapInv'
  BY KeptStoreKeepsHeap
<1>5. CASE game' = [game EXCEPT !.ended = TRUE]
  <2>1. game \in GameRecords
    BY DEF RoundPart, RoundTypeOK
  <2>2. /\ game' \in GameRecords /\ game'.phase = game.phase /\ game'.extra = game.extra
        /\ game'.active = game.active /\ game'.passed = game.passed
        /\ game'.initiative = game.initiative /\ game'.actionNumber = game.actionNumber
        /\ game'.ended = TRUE
    BY <1>5, <2>1 DEF GameRecords
  <2>3. RoundPart'
    BY <1>2, <2>2 DEF RoundPart, RoundTypeOK, FlowInv, GameInv
  <2>4. pc = "actionWindow" => [snapshots[currentId].state EXCEPT !.ended = TRUE] = game'
    <3> DEFINE state == snapshots[currentId].state
    <3>1. pc = "actionWindow" => [state EXCEPT !.ended = game.ended] = game
      BY DEF MomentPart, MomentInv
    <3>2. state \in GameRecords
      BY <1>1
    <3> HIDE DEF state
    <3>3. pc = "actionWindow" => [state EXCEPT !.ended = TRUE] = [game EXCEPT !.ended = TRUE]
      BY <2>1, <3>1, <3>2 DEF GameRecords
    <3> QED BY <1>5, <3>3 DEF state
  <2>5. MomentPart'
    BY <1>1, <1>2, <1>3, <2>2, <2>4
       DEF MomentPart, TimepointInv, PhaseInv, MomentInv, UnkeptInv, TakesReadySnapshots
  <2> QED BY <1>4, <2>3, <2>5
<1>6. CASE game' = snapshots[currentId].state
  <2> DEFINE state == snapshots[currentId].state
  <2>1. /\ game' = state /\ state \in GameRecords /\ state.phase = phaseObj.name
        /\ state.extra = {} /\ state.initiative # NoPlayer
    BY <1>1, <1>6 DEF Recorded
  <2>2. /\ pc \in {"rotate", "actionWindow"} => state.active \in Players \ state.passed
        /\ pc = "setupActionPhase" => state.active \in Players
    <3>1. pc = "setupActionPhase" => phaseObj.name = "action"
      BY <1>1 DEF RoundPart, FlowInv, OwnSteps, BetweenPhases, Phases
    <3> QED BY <1>1, <3>1 DEF Recorded, MomentPart, TimepointInv
  <2> HIDE DEF state
  <2>3. RoundPart'
    <3>1. RoundTypeOK' /\ FlowInv'
      BY <1>2, <2>1 DEF RoundPart, RoundTypeOK, FlowInv
    <3>2. GameInv'
      BY <1>1, <1>2, <2>1, <2>2 DEF GameInv, BetweenPhases, BeforeActions
    <3> QED BY <3>1, <3>2 DEF RoundPart
  <2>4. pc = "actionWindow" => [state EXCEPT !.ended = game'.ended] = game'
    BY <2>1 DEF GameRecords
  <2>5. pc = "actionWindow" => state.active = game.active
    <3>1. pc = "actionWindow" => [state EXCEPT !.ended = game.ended] = game
      BY DEF state, MomentPart, MomentInv
    <3> QED BY <2>1, <3>1 DEF GameRecords
  <2>6. MomentPart'
    BY <1>1, <1>2, <1>3, <2>1, <2>4, <2>5
       DEF state, MomentPart, TimepointInv, PhaseInv, MomentInv, UnkeptInv, TakesReadySnapshots
  <2> QED BY <1>4, <2>3, <2>6
<1> QED BY <1>5, <1>6

-----------------------------------------------------------------------------
(* Requests *)

Prompts == [active : SUBSET Players, done : SUBSET Players, some : BOOLEAN]
UndoRequests == [by : Players, point : QuickRollbackPoints, shown : Nat]

\* A request leads where it led when it was made.
LeadsWhereShown(request) ==
  \A e \in QuickEntriesAt(request.by, request.point) : e.id = request.shown

ConsentInv ==
  /\ unwinding \in Prompts /\ stale \in Prompts
  /\ requests \in Seq(UndoRequests)
  /\ requests # <<>> => Waiting
  /\ unwinding # NoPrompt => requests = <<>>
  /\ \A i \in 1 .. Len(requests) : LeadsWhereShown(requests[i])

UndoInv == RoundPart /\ StoreInv /\ HeapInv /\ MomentPart /\ ConsentInv


LEMMA SameEntriesSameWay ==
  ASSUME UNCHANGED quickSnapshots, NEW i, requests'[i] = requests[i], LeadsWhereShown(requests[i])
  PROVE  LeadsWhereShown(requests[i])'
BY DEF LeadsWhereShown, QuickEntriesAt

\* Consent to a request stands for as long as the quick snapshots do.
LEMMA RequestsStand ==
  ASSUME ConsentInv, UNCHANGED <<quickSnapshots, unwinding>>, stale' \in Prompts, Waiting' = Waiting,
         \/ UNCHANGED requests
         \/ requests # <<>> /\ requests' = Earlier
  PROVE  ConsentInv'
<1>1. /\ requests \in Seq(UndoRequests) /\ (requests # <<>> => Waiting)
      /\ unwinding \in Prompts /\ (unwinding # NoPrompt => requests = <<>>)
  BY DEF ConsentInv
<1>3. /\ requests' \in Seq(UndoRequests)
      /\ requests' # <<>> => requests # <<>>
      /\ Len(requests') \in Nat /\ Len(requests') <= Len(requests)
      /\ \A i \in 1 .. Len(requests') : requests'[i] = requests[i]
  <2>1. CASE UNCHANGED requests
    BY <1>1, <2>1
  <2>2. CASE requests # <<>> /\ requests' = Earlier
    <3>1. Len(requests) \in Nat /\ Len(requests) >= 1
      BY <1>1, <2>2, EmptySeq
    <3>2. /\ Earlier \in Seq(UndoRequests) /\ Len(Earlier) = Len(requests) - 1
          /\ \A i \in 1 .. Len(Earlier) : Earlier[i] = requests[i]
      <4> DEFINE n == Len(requests) - 1
      <4>1. n \in Int /\ (\A i \in 1 .. n : requests[i] \in UndoRequests)
        BY <1>1, <3>1
      <4>2. n >= 0 /\ n = Len(requests) - 1
        BY <3>1
      <4> HIDE DEF n
      <4>3. /\ SubSeq(requests, 1, n) \in Seq(UndoRequests)
            /\ Len(SubSeq(requests, 1, n)) = IF 1 <= n THEN n - 1 + 1 ELSE 0
            /\ \A i \in 1 .. n - 1 + 1 : SubSeq(requests, 1, n)[i] = requests[1 + i - 1]
        BY <4>1, SubSeqProperties
      <4>4. /\ Len(SubSeq(requests, 1, n)) = n
            /\ \A i \in 1 .. n : SubSeq(requests, 1, n)[i] = requests[i]
        BY <4>1, <4>2, <4>3
      <4> QED BY <4>2, <4>3, <4>4 DEF Earlier, n
    <3> QED BY <2>2, <3>1, <3>2
  <2> QED BY <2>1, <2>2
<1>4. (\A i \in 1 .. Len(requests) : LeadsWhereShown(requests[i]))'
  <2> SUFFICES ASSUME NEW i \in 1 .. Len(requests') PROVE LeadsWhereShown(requests[i])'
    OBVIOUS
  <2>1. i \in 1 .. Len(requests) /\ requests'[i] = requests[i]
    BY <1>1, <1>3
  <2>2. LeadsWhereShown(requests[i])
    BY <2>1 DEF ConsentInv
  <2> QED BY <2>1, <2>2, SameEntriesSameWay
<1>5. (unwinding' \in Prompts /\ stale' \in Prompts) /\ (requests' # <<>> => Waiting')
      /\ (unwinding' # NoPrompt => requests' = <<>>)
  <2>1. requests = <<>> => requests' = <<>>
    BY <1>3
  <2> QED BY <1>1, <1>3, <2>1
<1> QED BY <1>3, <1>4, <1>5 DEF ConsentInv

\* Nothing is asked of anybody.
LEMMA NoRequestsNoConsent ==
  ASSUME requests' = <<>>, unwinding' \in Prompts, stale' \in Prompts
  PROVE  ConsentInv'
BY DEF ConsentInv

LEMMA PromptsAreTyped ==
  ASSUME RoundPart, ConsentInv
  PROVE  /\ NoPrompt \in Prompts /\ OpenGamePrompt \in Prompts
         /\ requests # <<>> => PreviousPrompt \in Prompts
         /\ unwinding.active \in SUBSET Players
<1>1. /\ done \in SUBSET Players /\ (asking # <<>> => Head(asking) \in Players)
      /\ pc = "actionWindow" => game.active \in Players
      /\ unwinding \in Prompts /\ stale \in Prompts
  BY DEF RoundPart, RoundTypeOK, GameInv, ConsentInv
<1>2. NoPrompt \in Prompts
  BY DEF NoPrompt, Prompts
<1>3. OpenGamePrompt \in Prompts
  <2>1. CASE stale.some
    BY <1>1, <2>1 DEF OpenGamePrompt
  <2>2. CASE ~stale.some
    <3>1. \A active, finished \in SUBSET Players : Prompt(active, finished) \in Prompts
      BY DEF Prompt, Prompts
    <3> QED BY <1>1, <2>2, <3>1 DEF OpenGamePrompt
  <2> QED BY <2>1, <2>2
<1>4. requests # <<>> => PreviousPrompt \in Prompts
  <2> SUFFICES ASSUME requests # <<>> PROVE PreviousPrompt \in Prompts
    OBVIOUS
  <2>1. CASE Earlier = <<>>
    BY <1>3, <2>1 DEF PreviousPrompt
  <2>2. CASE Earlier # <<>>
    <3>1. requests \in Seq(UndoRequests) /\ Len(requests) \in Nat /\ Len(requests) >= 1
      BY EmptySeq DEF ConsentInv
    <3>2. Earlier \in Seq(UndoRequests)
      BY <3>1 DEF Earlier
    <3>3. Earlier[Len(Earlier)] \in UndoRequests
      BY <2>2, <3>2, EmptySeq
    <3>4. Earlier[Len(Earlier)].by \in Players
      BY <3>3 DEF UndoRequests
    <3>5. Opponent(Earlier[Len(Earlier)].by) \in Players
      BY <3>4, OpponentIsTheOther
    <3> QED BY <2>2, <3>5 DEF PreviousPrompt, Prompt, Prompts
  <2> QED BY <2>1, <2>2
<1> QED BY <1>1, <1>2, <1>3, <1>4 DEF Prompts

\* A request names what it would lead to, and is the only one to do so at its point.
LEMMA RequestingKeepsConsent ==
  ASSUME RoundPart, StoreInv, HeapInv, ConsentInv, NEW p \in Players, RequestUndo(p)
  PROVE  ConsentInv'
<1>1. PICK e \in QuickTargets(p, RollbackPoint(p)) :
        requests' = Append(requests, [by |-> p, point |-> RollbackPoint(p), shown |-> e.id])
  BY DEF RequestUndo
<1> DEFINE request == [by |-> p, point |-> RollbackPoint(p), shown |-> e.id]
<1>2. request \in UndoRequests
  <2>1. e.id \in Nat
    BY ContainersAreTyped DEF QuickTargets, QuickEntriesAt
  <2>2. RollbackPoint(p) \in QuickRollbackPoints
    BY DEF RollbackPoint, QuickRollbackPoint, QuickRollbackPoints
  <2> QED BY <2>1, <2>2 DEF UndoRequests
<1>3. LeadsWhereShown(request)
  <2>1. /\ e \in QuickEntriesAt(p, RollbackPoint(p))
        /\ IsFiniteSet(quickSnapshots[p]) /\ \A f \in quickSnapshots[p] : f.id \in Nat
    BY ContainersAreTyped DEF QuickTargets, HeapInv, Bounded
  <2>2. \A f \in QuickEntriesAt(p, RollbackPoint(p)) : f.id = e.id
    BY <2>1, OneIdAtAPoint
  <2> QED BY <2>2 DEF LeadsWhereShown
<1>4. /\ requests \in Seq(UndoRequests) /\ requests' = Append(requests, request)
      /\ unwinding' = unwinding /\ stale' = stale /\ quickSnapshots' = quickSnapshots
      /\ Waiting' /\ unwinding = NoPrompt
  BY <1>1 DEF RequestUndo, MayUndo, Waiting, ConsentInv, snapshotVars, containerVars
<1> HIDE DEF request
<1>5. /\ requests' \in Seq(UndoRequests) /\ Len(requests') = Len(requests) + 1
      /\ Len(requests) \in Nat
      /\ \A i \in 1 .. Len(requests) : requests'[i] = requests[i]
      /\ requests'[Len(requests) + 1] = request
  BY <1>2, <1>4
<1>6. (\A i \in 1 .. Len(requests) : LeadsWhereShown(requests[i]))'
  <2> SUFFICES ASSUME NEW i \in 1 .. Len(requests') PROVE LeadsWhereShown(requests[i])'
    OBVIOUS
  <2>1. CASE i \in 1 .. Len(requests)
    <3>1. LeadsWhereShown(requests[i])
      BY <2>1 DEF ConsentInv
    <3> QED BY <1>4, <1>5, <2>1, <3>1, SameEntriesSameWay
  <2>2. CASE i = Len(requests) + 1
    <3>1. requests'[i] = request
      BY <1>5, <2>2
    <3> QED BY <1>3, <1>4, <3>1 DEF LeadsWhereShown, QuickEntriesAt
  <2> QED BY <1>5, <2>1, <2>2
<1>7. unwinding' \in Prompts /\ stale' \in Prompts
  BY <1>4 DEF ConsentInv
<1> QED BY <1>4, <1>5, <1>6, <1>7 DEF ConsentInv

-----------------------------------------------------------------------------
(* Every step of the game with undo *)

LEMMA PipelineKeepsInv ==
  ASSUME UndoInv, GameStates = GameRecords, Timepoints = SnapshotTimepoint, PipelineStep
  PROVE  RoundPart' /\ HeapInv' /\ MomentPart' /\ ConsentInv' /\ StoreGrows
<1>1. RoundPart /\ StoreInv /\ HeapInv /\ MomentPart /\ ConsentInv
  BY DEF UndoInv
<1>2. ConsentInv'
  <2>1. requests' = <<>> /\ unwinding' = unwinding /\ stale' = NoPrompt
    BY DEF PipelineStep, StaleWhile, consentVars
  <2>2. unwinding' \in Prompts /\ stale' \in Prompts
    BY <1>1, <2>1, PromptsAreTyped DEF ConsentInv
  <2> QED BY <2>1, <2>2, NoRequestsNoConsent
<1>3. CASE PlainStep \/ RepeatedStep \/ FirstPlayerStep
  <2>1. StaysAtTimepoint /\ UNCHANGED snapshotVars
    BY <1>3 DEF PlainStep, RepeatedStep, FirstPlayerStep, StaysAtTimepoint
  <2> QED BY <1>1, <1>2, <2>1, StayingKeepsInv
<1>4. CASE DrawingStep
  <2>1. StaysAtTimepoint
    BY <1>4 DEF DrawingStep, StaysAtTimepoint
  <2>2. \E players \in SUBSET Players : RequireConfirmation(players)
    <3>1. PICK players \in IF pc \in RevealingSteps THEN SUBSET Players ELSE {{}} : Reveal(players)
      BY <1>4 DEF DrawingStep
    <3>2. players \in SUBSET Players
      OBVIOUS
    <3> QED BY <3>1, <3>2 DEF Reveal
  <2> QED BY <1>1, <1>2, <2>1, <2>2, StayingKeepsInv
<1>5. CASE TimepointStep
  BY <1>1, <1>2, <1>5, TimepointStepReaches, ReachingKeepsInv
<1>6. CASE KeepingStep
  BY <1>1, <1>2, <1>6, KeepingKeepsInv
<1> QED BY <1>3, <1>4, <1>5, <1>6 DEF PipelineStep

LEMMA PlayingKeepsInv ==
  ASSUME UndoInv, GameStates = GameRecords, (\E p \in Players : PlayerChoice(p)) \/ AnswerQuestion
  PROVE  RoundPart' /\ HeapInv' /\ MomentPart' /\ ConsentInv' /\ StoreGrows
<1>1. RoundPart /\ StoreInv /\ HeapInv /\ MomentPart /\ ConsentInv
  BY DEF UndoInv
<1>2. ConsentInv'
  <2>1. requests' = <<>> /\ unwinding' = unwinding /\ stale' \in {stale, NoPrompt}
    BY DEF PlayerChoice, AnswerQuestion, Playing, StaleWhile, consentVars
  <2>2. unwinding' \in Prompts /\ stale' \in Prompts
    BY <1>1, <2>1, PromptsAreTyped DEF ConsentInv
  <2> QED BY <2>1, <2>2, NoRequestsNoConsent
<1>3. ASSUME NEW p \in Players, PlayerChoice(p)
      PROVE  /\ StaysAtTimepoint
             /\ UNCHANGED snapshotVars \/ \E players \in SUBSET Players : RequireConfirmation(players)
  <2>1. Choice(p)
    BY <1>3 DEF PlayerChoice, Choice
  <2>2. RevealedTo(p) \subseteq SUBSET Players
    BY DEF RevealedTo
  <2>3. UNCHANGED snapshotVars \/ \E players \in SUBSET Players : RequireConfirmation(players)
    BY <1>3, <2>2 DEF PlayerChoice, Reveal
  <2> QED BY <2>1, <2>3 DEF StaysAtTimepoint
<1>4. CASE AnswerQuestion
  <2>1. Answer
    BY <1>4 DEF AnswerQuestion
  <2>2. \E players \in SUBSET Players : RequireConfirmation(players)
    <3> DEFINE p == Head(asking)
               acting == IF game.active = NoPlayer THEN {} ELSE {game.active} \ {p}
    <3>1. p \in Players /\ game.active \in Players \cup {NoPlayer}
      BY <1>1, <2>1, GameFields DEF Answer, RoundPart, RoundTypeOK
    <3>2. RevealedTo(p) \subseteq SUBSET Players /\ acting \in SUBSET Players
      BY <3>1 DEF RevealedTo
    <3>3. PICK players \in RevealedTo(p) : Reveal(players \cup acting)
      BY <1>4 DEF AnswerQuestion
    <3>4. players \cup acting \in SUBSET Players
      BY <3>2
    <3> QED BY <3>3, <3>4 DEF Reveal
  <2> QED BY <1>1, <1>2, <2>1, <2>2, StayingKeepsInv DEF StaysAtTimepoint
<1>5. CASE \E p \in Players : PlayerChoice(p)
  BY <1>1, <1>2, <1>3, <1>5, StayingKeepsInv
<1> QED BY <1>4, <1>5

\* What no step of the game or of the store disturbs.
LEMMA WaitingKeepsInv ==
  ASSUME RoundPart, HeapInv, MomentPart, UNCHANGED <<game, pc, phaseObj, done, asking, snapshotVars>>,
         prompted' \in SUBSET Players
  PROVE  RoundPart' /\ HeapInv' /\ MomentPart' /\ UNCHANGED managerVars
<1>1. UNCHANGED <<snapshots, currentId, actionSnapshots, phaseSnapshots, manualSnapshots, quickSnapshots>>
  BY DEF snapshotVars, factoryVars, containerVars
<1>2. RoundPart'
  BY DEF RoundPart, RoundTypeOK, FlowInv, GameInv
<1>3. HeapInv'
  BY <1>1 DEF HeapInv, Held, Bounded
<1>4. MomentPart'
  BY <1>1 DEF MomentPart, TimepointInv, PhaseInv, MomentInv, UnkeptInv, CurrentTimepoint, OpensAgain,
              TakesReadySnapshots
<1> QED BY <1>2, <1>3, <1>4 DEF managerVars

LEMMA EndingKeepsInv ==
  ASSUME UndoInv, GameStates = GameRecords, EndGame
  PROVE  RoundPart' /\ HeapInv' /\ MomentPart' /\ ConsentInv' /\ StoreGrows
<1>1. RoundPart /\ StoreInv /\ HeapInv /\ MomentPart /\ ConsentInv
  BY DEF UndoInv
<1>2. /\ Waiting /\ UNCHANGED flowVars /\ UNCHANGED undoVars
      /\ game' = [game EXCEPT !.ended = TRUE] /\ RequireConfirmation(Players)
  BY DEF EndGame
<1>3. StoreKept
  BY <1>1, <1>2, FlaggingKeepsStore
<1>4. RoundPart' /\ HeapInv' /\ MomentPart'
  BY <1>1, <1>2, <1>3, StandingKeepsInv
<1>5. ConsentInv'
  <2>1. UNCHANGED <<requests, unwinding, stale>> /\ Waiting' = Waiting /\ UNCHANGED quickSnapshots
    BY <1>2, <1>3 DEF undoVars, consentVars, flowVars, Waiting, StoreKept, containerVars
  <2> QED BY <1>1, <2>1, RequestsStand DEF ConsentInv
<1>6. StoreGrows
  BY <1>2, <1>4 DEF StoreGrows, RoundPart, RoundTypeOK
<1> QED BY <1>4, <1>5, <1>6

\* A rollback that throws.
LEMMA FailingKeepsInv ==
  ASSUME UndoInv, GameStates = GameRecords, Waiting, RollBackFails, UNCHANGED <<unwinding, stale>>,
         \/ UNCHANGED requests
         \/ requests # <<>> /\ requests' = Earlier
  PROVE  RoundPart' /\ HeapInv' /\ MomentPart' /\ ConsentInv' /\ RestoreFails
<1>1. RoundPart /\ StoreInv /\ HeapInv /\ MomentPart /\ ConsentInv
  BY DEF UndoInv
<1>2. /\ UNCHANGED flowVars /\ UNCHANGED snapshotVars /\ game' = snapshots[currentId].state
      /\ RestoreFails
  BY DEF RollBackFails, RestoreFails
<1>3. RoundPart' /\ HeapInv' /\ MomentPart'
  BY <1>1, <1>2, FlaggingKeepsStore, StandingKeepsInv
<1>4. ConsentInv'
  <2>1. Waiting' = Waiting /\ UNCHANGED <<quickSnapshots, unwinding>> /\ stale' \in Prompts
    BY <1>1, <1>2 DEF flowVars, Waiting, snapshotVars, containerVars, ConsentInv
  <2> QED BY <1>1, <2>1, RequestsStand
<1> QED BY <1>2, <1>3, <1>4

\* Undo, free or allowed, and what becomes of a request.
LEMMA UndoingKeepsInv ==
  ASSUME UndoInv, GameStates = GameRecords,
         (\E p \in Players : \E id \in UndoTargets(p) : Undo(p, id)) \/ AllowUndo
  PROVE  RoundPart' /\ HeapInv' /\ MomentPart' /\ ConsentInv' /\ (RollbackTo \/ RestoreFails)
<1>1. RoundPart /\ StoreInv /\ HeapInv /\ MomentPart /\ ConsentInv
  BY DEF UndoInv
<1>2. ASSUME NEW id \in Targets, RollBack(id), unwinding' \in Prompts, stale' \in Prompts
      PROVE  RoundPart' /\ HeapInv' /\ MomentPart' /\ ConsentInv'
  <2>1. requests' = <<>>
    BY <1>2 DEF RollBack
  <2> QED BY <1>1, <1>2, <2>1, RollBackKeepsInv, NoRequestsNoConsent
<1>3. ASSUME NEW p \in Players, NEW id \in UndoTargets(p), Undo(p, id)
      PROVE  RoundPart' /\ HeapInv' /\ MomentPart' /\ ConsentInv' /\ (RollbackTo \/ RestoreFails)
  <2>1. CASE RollBack(id) /\ stale' = NoPrompt
    <3>1. unwinding' \in Prompts /\ stale' \in Prompts
      BY <1>1, <1>3, <2>1, PromptsAreTyped DEF Undo, ConsentInv
    <3>2. RollbackTo
      BY <1>1, <2>1, UndoIsARollback DEF RollBack
    <3> QED BY <1>2, <2>1, <3>1, <3>2, UndoLeadsToTargets
  <2>2. CASE RollBackFails /\ UNCHANGED <<requests, stale>>
    <3>1. Waiting /\ UNCHANGED unwinding
      BY <1>3 DEF Undo, MayUndo
    <3> QED BY <2>2, <3>1, FailingKeepsInv
  <2> QED BY <1>3, <2>1, <2>2 DEF Undo
<1>4. CASE AllowUndo
  <2>1. requests # <<>> /\ Waiting
    BY <1>1, <1>4 DEF AllowUndo, ConsentInv
  <2>2. CASE (\E e \in ConsentedTargets : RollBack(e.id)) /\ unwinding' = PreviousPrompt /\ UNCHANGED stale
    <3>1. PICK e \in QuickTargets(Request.by, Request.point) : RollBack(e.id)
      BY <2>2 DEF ConsentedTargets
    <3>2. Request \in UndoRequests
      BY <1>1, <2>1, EmptySeq DEF ConsentInv, Request
    <3>3. Request.by \in Players /\ Request.point \in QuickRollbackPoints
      BY <3>2 DEF UndoRequests
    <3>4. unwinding' \in Prompts /\ stale' \in Prompts
      BY <1>1, <2>1, <2>2, PromptsAreTyped DEF ConsentInv
    <3>5. e.id \in Targets
      BY <3>1, <3>3, UndoLeadsToTargets
    <3>6. RollbackTo
      BY <3>1, <3>3 DEF RollBack, RollbackTo
    <3> QED BY <1>2, <3>1, <3>4, <3>5, <3>6
  <2>3. CASE RollBackFails /\ requests' = Earlier /\ UNCHANGED <<unwinding, stale>>
    BY <2>1, <2>3, FailingKeepsInv
  <2> QED BY <1>4, <2>2, <2>3 DEF AllowUndo
<1> QED BY <1>3, <1>4

LEMMA ConsentingKeepsInv ==
  ASSUME UndoInv,
         (\E p \in Players : RequestUndo(p)) \/ CompleteConfirmation \/ DenyUndo \/ DenyAndBlock
  PROVE  RoundPart' /\ HeapInv' /\ MomentPart' /\ ConsentInv' /\ UNCHANGED managerVars
<1>1. /\ RoundPart /\ StoreInv /\ HeapInv /\ MomentPart /\ ConsentInv
      /\ prompted \in SUBSET Players /\ unwinding.active \in SUBSET Players /\ unwinding \in Prompts
  BY PromptsAreTyped DEF UndoInv, RoundPart, RoundTypeOK, ConsentInv
<1>2. /\ UNCHANGED <<game, pc, phaseObj, done, asking, snapshotVars>>
      /\ prompted' \in SUBSET Players
  <2>1. ASSUME NEW p \in Players, RequestUndo(p)
        PROVE  /\ UNCHANGED <<game, pc, phaseObj, done, asking, snapshotVars>>
               /\ prompted' \in SUBSET Players
    <3>1. Opponent(p) \in Players
      BY OpponentIsTheOther
    <3> QED BY <1>1, <2>1, <3>1 DEF RequestUndo
  <2>2. CASE CompleteConfirmation
    BY <1>1, <2>2 DEF CompleteConfirmation
  <2>3. CASE DenyUndo \/ DenyAndBlock
    BY <1>1, <2>3 DEF DenyUndo, DenyAndBlock, CloseRequest, roundVars, flowVars
  <2> QED BY <2>1, <2>2, <2>3
<1>3. RoundPart' /\ HeapInv' /\ MomentPart' /\ UNCHANGED managerVars
  BY <1>1, <1>2, WaitingKeepsInv
<1>4. ConsentInv'
  <2>1. ASSUME NEW p \in Players, RequestUndo(p) PROVE ConsentInv'
    BY <1>1, <2>1, RequestingKeepsConsent
  <2>2. CASE CompleteConfirmation
    <3>1. requests' = <<>> /\ unwinding' = NoPrompt /\ stale' = unwinding
      BY <1>1, <2>2 DEF CompleteConfirmation, ConsentInv
    <3> QED BY <1>1, <3>1, PromptsAreTyped, NoRequestsNoConsent
  <2>3. CASE DenyUndo \/ DenyAndBlock
    <3>1. /\ requests # <<>> /\ requests' = Earlier
          /\ UNCHANGED <<quickSnapshots, unwinding>> /\ stale' = stale
      BY <1>2, <2>3 DEF DenyUndo, DenyAndBlock, CloseRequest, snapshotVars, containerVars
    <3>2. Waiting' = Waiting /\ stale' \in Prompts
      BY <1>1, <1>2, <3>1 DEF Waiting, ConsentInv
    <3> QED BY <1>1, <3>1, <3>2, RequestsStand
  <2> QED BY <2>1, <2>2, <2>3
<1> QED BY <1>3, <1>4

LEMMA UndoInvNext ==
  ASSUME UndoInv, GameStates = GameRecords, Timepoints = SnapshotTimepoint, [UndoNext]_undoGameVars
  PROVE  UndoInv' /\ [ManagerNext]_managerVars
<1>1. RoundPart' /\ HeapInv' /\ MomentPart' /\ ConsentInv' /\ [ManagerNext]_managerVars
  <2>1. CASE PipelineStep
    BY <2>1, PipelineKeepsInv DEF ManagerNext
  <2>2. CASE (\E p \in Players : PlayerChoice(p)) \/ AnswerQuestion
    BY <2>2, PlayingKeepsInv DEF ManagerNext
  <2>3. CASE EndGame
    BY <2>3, EndingKeepsInv DEF ManagerNext
  <2>4. CASE (\E p \in Players : \E id \in UndoTargets(p) : Undo(p, id)) \/ AllowUndo
    BY <2>4, UndoingKeepsInv DEF ManagerNext
  <2>5. CASE (\E p \in Players : RequestUndo(p)) \/ CompleteConfirmation \/ DenyUndo \/ DenyAndBlock
    BY <2>5, ConsentingKeepsInv
  <2>6. CASE UNCHANGED undoGameVars
    <3>1. /\ UNCHANGED <<game, pc, phaseObj, done, asking, snapshotVars>>
          /\ prompted' = prompted
          /\ UNCHANGED <<requests, unwinding, stale, quickSnapshots>>
      BY <2>6 DEF undoGameVars, roundVars, flowVars, undoVars, consentVars, snapshotVars, containerVars
    <3>2. RoundPart' /\ HeapInv' /\ MomentPart' /\ UNCHANGED managerVars
      BY <3>1, WaitingKeepsInv DEF UndoInv, RoundPart, RoundTypeOK
    <3>3. ConsentInv'
      <4>1. Waiting' = Waiting
        BY <3>1 DEF Waiting
      <4> QED BY <3>1, <4>1, RequestsStand DEF UndoInv, ConsentInv
    <3> QED BY <3>2, <3>3
  <2> QED BY <2>1, <2>2, <2>3, <2>4, <2>5, <2>6 DEF UndoNext
<1>2. StoreInv'
  BY <1>1, StoreInvNext DEF UndoInv
<1> QED BY <1>1, <1>2 DEF UndoInv

LEMMA UndoInvInit ==
  ASSUME UndoInit, GameStates = GameRecords
  PROVE  UndoInv /\ ManagerInit
<1>1. RoundInit /\ SnapshotInit /\ requests = <<>> /\ unwinding = NoPrompt /\ stale = NoPrompt
  BY DEF UndoInit
<1>2. RoundPart
  <2>1. NewPhase("setup") \in RunnablePhases
    BY PhasesThatRun DEF Phases
  <2>2. phaseObj = NewPhase("setup") /\ pc = "setCurrentPhase" /\ asking = <<>>
    BY <1>1 DEF RoundInit
  <2>3. RoundTypeOK
    BY <1>1, <2>1, <2>2, PhasesThatRun, RoundFlowAssumption DEF RoundInit, RoundTypeOK, GameRecords, Steps
  <2>4. FlowInv
    BY <2>1, <2>2 DEF NewPhase, FlowInv, BetweenPhases, AfterActions
  <2>5. GameInv
    BY <1>1, <2>2 DEF RoundInit, NewPhase, FirstStep, GameInv, BetweenPhases, BeforeFirstPlayer
  <2> QED BY <2>3, <2>4, <2>5 DEF RoundPart
<1>3. ManagerInit
  BY <1>1, <1>2 DEF ManagerInit, RoundPart, RoundTypeOK
<1>4. HeapInv
  <2>1. IsFiniteSet({}) /\ Cardinality({}) = 0
    BY FS_EmptySet
  <2> QED BY <1>1, <2>1, SnapshotManagerAssumption DEF SnapshotInit, HeapInv, Held, Bounded
<1>5. MomentPart
  BY <1>1 DEF RoundInit, NewPhase, MomentPart, TimepointInv, PhaseInv, MomentInv, UnkeptInv
<1>6. ConsentInv
  BY <1>1 DEF ConsentInv, Prompts, NoPrompt
<1> QED BY <1>2, <1>3, <1>4, <1>5, <1>6, StoreInvInit DEF UndoInv

-----------------------------------------------------------------------------
(* How often a phase has started, where no restore fails *)

\* Every snapshot but that of the start of its phase was taken after the start.
LineStarts ==
  \A id \in DOMAIN snapshots :
    snapshots[id].state.starts = IF snapshots[id].timepoint = "startOfPhase" THEN 0 ELSE 1

StartsInv ==
  /\ pc = "setCurrentPhase" /\ phaseObj.mode = "rollbackToStartOfPhase" => game.starts = 0
  /\ pc = "setCurrentPhase" /\ phaseObj.mode = "rollbackToWithinPhase" => game.starts = 1
  /\ pc = "startOfPhase" => game.starts = 0
  /\ pc = "startPhase" /\ phaseObj.mode # "rollbackToEndOfPhase" => game.starts = 0
  /\ pc \notin {"setCurrentPhase", "startOfPhase", "startPhase", "beginRound"}
       /\ phaseObj.mode # "rollbackToEndOfPhase" => game.starts = 1

LEMMA RoundStepKeepsStarts ==
  ASSUME RoundPart, StartsInv, RoundStep
  PROVE  StartsInv'
<1>1. /\ phaseObj \in RunnablePhases /\ phaseObj.name \in Phases /\ phaseObj.mode \in Modes
      /\ game \in GameRecords /\ game.starts \in 0 .. 2
  BY PhasesThatRun, GameFields DEF RoundPart, FlowInv, RoundTypeOK
<1>2. CASE SetCurrentPhase
  <2>1. /\ game'.starts = (IF phaseObj.mode = "normal" THEN 0 ELSE game.starts)
        /\ phaseObj' = phaseObj /\ pc = "setCurrentPhase"
    BY <1>1, <1>2 DEF SetCurrentPhase, AtStep, GameRecords
  <2>2. /\ phaseObj.mode = "normal" => pc' = "startOfPhase"
        /\ phaseObj.mode \in {"rollbackToStartOfPhase", "rollbackToEndOfPhase"} => pc' = "startPhase"
        /\ phaseObj.mode = "rollbackToWithinPhase" =>
             pc' \in {"mulliganPrompt", "setupResourcePrompt", "queueNextAction", "drawTwo", "readyAllCards"}
    BY <1>1, <1>2, FirstStepsAreOwn DEF SetCurrentPhase, ResumedSteps, Phases
  <2> QED BY <1>1, <2>1, <2>2 DEF StartsInv, Modes
<1>3. CASE StartPhase
  <2>1. /\ game'.starts = (IF game.starts < 2 THEN game.starts + 1 ELSE game.starts)
        /\ phaseObj' = phaseObj /\ pc = "startPhase"
    BY <1>1, <1>3 DEF StartPhase, AtStep, GameRecords
  <2>2. pc' \in {"chooseFirstPlayer", "setupActionPhase", "drawTwo", "tearDown"}
    BY <1>1, <1>3, FirstStepsAreOwn DEF StartPhase, AtStep, Modes, Phases, FirstStep, RoundPart, FlowInv
  <2> QED BY <1>1, <2>1, <2>2 DEF StartsInv
<1>4. CASE PhaseEnded \/ BeginRound
  <2>1. pc' = "beginRound" \/ (pc' = "setCurrentPhase" /\ phaseObj'.mode = "normal")
    BY <1>4 DEF PhaseEnded, BeginRound, NewPhase
  <2> QED BY <2>1 DEF StartsInv
<1>5. ASSUME NEW p \in Players, Choice(p) PROVE StartsInv'
  <2>1. CASE pc # "actionWindow"
    BY <1>5, <2>1, ChoicesMove DEF StartsInv
  <2>2. CASE pc = "actionWindow"
    <3>1. game.extra = {} /\ game.initiative # NoPlayer
      BY <2>2 DEF RoundPart, GameInv, BetweenPhases, BeforeFirstPlayer
    <3>2. /\ phaseObj' = phaseObj /\ pc' = "rotate"
          /\ \/ Pass(p) \/ TakeCardAction(p)
             \/ \E counter \in game.counters : ClaimCounter(p, counter)
      BY <1>5, <2>2, ChoicesMove
    <3>3. game'.starts = game.starts
      BY <3>1, <3>2, ActionsChangeTheGame DEF RoundPart
    <3> QED BY <2>2, <3>2, <3>3 DEF StartsInv
  <2> QED BY <2>1, <2>2
<1>6. CASE Answer
  BY <1>6 DEF Answer, StartsInv
<1>7. CASE \/ EndPhase \/ ChooseFirstPlayer \/ SetupActionPhase \/ RotateActivePlayer \/ TearDownActionPhase
  <2>1. /\ game'.starts = game.starts /\ phaseObj' = phaseObj
        /\ pc \notin {"setCurrentPhase", "startOfPhase", "startPhase", "beginRound"}
        /\ pc' \notin {"setCurrentPhase", "startOfPhase", "startPhase", "beginRound"}
    BY <1>1, <1>7 DEF EndPhase, ChooseFirstPlayer, SetupActionPhase, RotateActivePlayer,
                      TearDownActionPhase, AtStep, GameRecords
  <2> QED BY <2>1 DEF StartsInv
<1>8. CASE StartOfPhaseSnapshot
  BY <1>8 DEF StartOfPhaseSnapshot, AtStep, StartsInv
<1>9. CASE \/ SnapshotBeforeMulligan \/ SnapshotBeforeResource
           \/ OpenMulliganPrompt \/ OpenSetupResourcePrompt \/ OpenResourcePrompt \/ OpenActionWindow
           \/ DrawTwo \/ Draws \/ ReadyAllCards \/ CardsReadied
  BY <1>9 DEF SnapshotBeforeMulligan, SnapshotBeforeResource, OpenMulliganPrompt,
     OpenSetupResourcePrompt, OpenResourcePrompt, OpenPrompt, OpenActionWindow, DrawTwo, Draws,
     ReadyAllCards, CardsReadied, AtStep, StartsInv
<1> QED BY <1>2, <1>3, <1>4, <1>5, <1>6, <1>7, <1>8, <1>9 DEF RoundStep, Pipeline

LEMMA ReachingKeepsLineStarts ==
  ASSUME RoundPart, StoreInv, LineStarts, StartsInv, TimepointReached
  PROVE  LineStarts'
<1>1. PICK timepoint :
        /\ MoveToNextTimepoint(timepoint)
        /\ game.starts = IF timepoint = "startOfPhase" THEN 0 ELSE 1
  <2>1. CASE StartOfPhaseSnapshot /\ Reaches("startOfPhase")
    BY <2>1 DEF StartOfPhaseSnapshot, AtStep, StartsInv, Reaches
  <2>2. CASE EndPhase /\ phaseObj.mode # "rollbackToEndOfPhase" /\ Reaches("endOfPhase")
    BY <2>2 DEF EndPhase, AtStep, StartsInv, Reaches
  <2>3. ASSUME NEW step \in {"beforeMulligan", "beforeResource", "queueNextAction", "drawTwo",
                             "readyAllCards"},
               pc = step
        PROVE  game.starts = 1
    BY <2>3 DEF RoundPart, FlowInv, AfterActions, StartsInv
  <2>4. CASE SnapshotBeforeMulligan /\ Reaches("mulligan")
    BY <2>3, <2>4 DEF SnapshotBeforeMulligan, AtStep, Reaches
  <2>5. CASE SnapshotBeforeResource /\ Reaches("setupResource")
    BY <2>3, <2>5 DEF SnapshotBeforeResource, AtStep, Reaches
  <2>6. CASE OpenActionWindow /\ Reaches("action")
    BY <2>3, <2>6 DEF OpenActionWindow, AtStep, Reaches
  <2>7. CASE DrawTwo /\ Reaches("regroupResource")
    BY <2>3, <2>7 DEF DrawTwo, AtStep, Reaches
  <2>8. CASE ReadyAllCards /\ TakesReadySnapshots /\ Reaches("regroupReadyCards")
    BY <2>3, <2>8 DEF ReadyAllCards, AtStep, Reaches
  <2> QED BY <2>1, <2>2, <2>4, <2>5, <2>6, <2>7, <2>8 DEF TimepointReached
<1>2. StoreMoved(timepoint)
  BY <1>1, MovingMovesStore
<1> QED BY <1>1, <1>2 DEF LineStarts, StoreMoved, SameRecord

LEMMA RollBackKeepsStarts ==
  ASSUME StoreInv, HeapInv, LineStarts, NEW id \in Targets, RollBack(id)
  PROVE  LineStarts' /\ StartsInv'
<1>1. id \in DOMAIN snapshots /\ snapshots[id].timepoint \in SnapshotTimepoint
  BY TargetsAreRecorded
<1>2. /\ Restore(id) /\ game' = snapshots[id].state /\ phaseObj' = EntryPoint(snapshots[id])
      /\ pc' = "setCurrentPhase"
  BY DEF RollBack, Restore
<1>3. LineStarts'
  BY <1>1, <1>2, RestoringCutsStore DEF LineStarts, StoreCut, SameRecord
<1>4. /\ EntryPoint(snapshots[id]).mode = "rollbackToStartOfPhase" =>
           snapshots[id].timepoint = "startOfPhase"
      /\ EntryPoint(snapshots[id]).mode = "rollbackToWithinPhase" =>
           snapshots[id].timepoint # "startOfPhase"
  BY <1>1 DEF EntryPoint, SnapshotTimepoint
<1> QED BY <1>1, <1>2, <1>3, <1>4 DEF LineStarts, StartsInv

LEMMA StartsNext ==
  ASSUME UndoInv, LineStarts, StartsInv, ~RestoreMayFail, [UndoNext]_undoGameVars
  PROVE  LineStarts' /\ StartsInv'
<1>1. RoundPart /\ StoreInv /\ HeapInv /\ MomentPart /\ ConsentInv
  BY DEF UndoInv
<1>2. StoreKept => LineStarts'
  BY DEF LineStarts, StoreKept, SameRecord
<1>3. CASE PipelineStep /\ ~TimepointStep
  <2>1. RoundStep
    BY <1>3 DEF PipelineStep, PlainStep, RepeatedStep, KeepingStep, DrawingStep, FirstPlayerStep,
                RoundStep, Pipeline
  <2>2. CASE KeepingStep
    <3>1. UNCHANGED snapshots
      BY <2>2 DEF KeepingStep, KeepTimepoint, AddQuickStartOfActionSnapshots, factoryVars
    <3> QED BY <1>1, <2>1, <3>1, RoundStepKeepsStarts DEF LineStarts
  <2>3. CASE DrawingStep
    <3>1. \E players : RequireConfirmation(players)
      BY <2>3 DEF DrawingStep, Reveal
    <3> QED BY <1>1, <1>2, <2>1, <3>1, FlaggingKeepsStore, RoundStepKeepsStarts
  <2>4. CASE PlainStep \/ RepeatedStep \/ FirstPlayerStep
    <3>1. UNCHANGED snapshotVars
      BY <2>4 DEF PlainStep, RepeatedStep, FirstPlayerStep
    <3> QED BY <1>1, <1>2, <2>1, <3>1, FlaggingKeepsStore, RoundStepKeepsStarts
  <2> QED BY <1>3, <2>2, <2>3, <2>4 DEF PipelineStep
<1>4. CASE TimepointStep
  <2>1. RoundStep
    BY <1>4 DEF TimepointStep, RoundStep, Pipeline
  <2> QED BY <1>1, <1>4, <2>1, RoundStepKeepsStarts, TimepointStepReaches, ReachingKeepsLineStarts
<1>5. CASE (\E p \in Players : PlayerChoice(p)) \/ AnswerQuestion
  <2>1. RoundStep
    BY <1>5 DEF PlayerChoice, AnswerQuestion, RoundStep, Choice
  <2>2. UNCHANGED snapshotVars \/ \E players : RequireConfirmation(players)
    BY <1>5 DEF PlayerChoice, AnswerQuestion, Reveal
  <2> QED BY <1>1, <1>2, <2>1, <2>2, FlaggingKeepsStore, RoundStepKeepsStarts
<1>6. CASE EndGame
  <2>1. game \in GameRecords
    BY <1>1 DEF RoundPart, RoundTypeOK
  <2>2. /\ game'.starts = game.starts /\ UNCHANGED <<pc, phaseObj>>
        /\ RequireConfirmation(Players)
    BY <1>6, <2>1 DEF EndGame, flowVars, GameRecords
  <2> QED BY <1>1, <1>2, <2>2, FlaggingKeepsStore DEF StartsInv
<1>7. ASSUME NEW p \in Players, NEW id \in UndoTargets(p), Undo(p, id) PROVE LineStarts' /\ StartsInv'
  <2>1. RollBack(id)
    BY <1>7 DEF Undo, RollBackFails
  <2> QED BY <1>1, <2>1, UndoLeadsToTargets, RollBackKeepsStarts
<1>8. CASE AllowUndo
  <2>1. requests # <<>>
    BY <1>8 DEF AllowUndo
  <2>2. PICK e \in QuickTargets(Request.by, Request.point) : RollBack(e.id)
    BY <1>8 DEF AllowUndo, ConsentedTargets, RollBackFails
  <2>3. Request \in UndoRequests
    BY <1>1, <2>1, EmptySeq DEF ConsentInv, Request
  <2>4. Request.by \in Players
    BY <2>3 DEF UndoRequests
  <2>5. e.id \in Targets
    BY <2>2, <2>4, UndoLeadsToTargets
  <2> QED BY <1>1, <2>2, <2>5, RollBackKeepsStarts
<1>9. CASE \/ (\E p \in Players : RequestUndo(p)) \/ CompleteConfirmation \/ DenyUndo \/ DenyAndBlock
           \/ UNCHANGED undoGameVars
  <2>1. UNCHANGED <<game, pc, phaseObj, snapshots>>
    BY <1>9 DEF RequestUndo, CompleteConfirmation, DenyUndo, DenyAndBlock, CloseRequest, undoGameVars,
                roundVars, flowVars, snapshotVars, factoryVars
  <2> QED BY <2>1 DEF LineStarts, StartsInv
<1> QED BY <1>3, <1>4, <1>5, <1>6, <1>7, <1>8, <1>9 DEF UndoNext

-----------------------------------------------------------------------------
(* What holds of every game with undo.  The game's snapshots record game records, *)
(* and the phases reach the timepoints of SnapshotTimepoint.                      *)

\* The pipeline's variables and the store's have their types, rollbacks and failed
\* restores included.
THEOREM UndoTypesCorrect ==
  ASSUME GameStates = GameRecords, Timepoints = SnapshotTimepoint
  PROVE  UndoSpec => [](RoundTypeOK /\ SnapshotTypeOK)
<1>1. UndoInit => UndoInv
  BY UndoInvInit
<1>2. UndoInv /\ [UndoNext]_undoGameVars => UndoInv'
  BY UndoInvNext
<1>3. UndoInv => RoundTypeOK /\ SnapshotTypeOK
  BY DEF UndoInv, RoundPart, StoreInv
<1> QED BY <1>1, <1>2, <1>3, PTL DEF UndoSpec

\* Whatever the phases, the prompts and the players' undos do to the store is what
\* its interface allows.
THEOREM UndoUsesTheStore ==
  ASSUME GameStates = GameRecords, Timepoints = SnapshotTimepoint
  PROVE  UndoSpec => UndoUsesStore
<1>1. UndoInit => UndoInv /\ ManagerInit
  BY UndoInvInit
<1>2. UndoInv /\ [UndoNext]_undoGameVars => UndoInv' /\ [ManagerNext]_managerVars
  BY UndoInvNext
<1> QED BY <1>1, <1>2, PTL DEF UndoSpec, UndoUsesStore, ManagerSpec

\* So the game with undo is a game whose past is a line of recorded states: an undo
\* reaches a recorded state exactly, and what it takes back is gone.
THEOREM UndoImplementsHistory ==
  ASSUME GameStates = GameRecords, Timepoints = SnapshotTimepoint
  PROVE  UndoSpec => ImplementsHistory
BY UndoUsesTheStore, StoreImplementsHistory, PTL DEF UndoUsesStore

\* Every action window stands at a snapshot of the active player's own, of this very
\* moment (SnapshotManager.moveToNextTimepoint, ActionWindow.checkUpdateSnapshot).
THEOREM WindowsAreSnapshotted ==
  ASSUME GameStates = GameRecords, Timepoints = SnapshotTimepoint
  PROVE  UndoSpec => []WindowIsSnapshotted
<1>1. UndoInit => UndoInv
  BY UndoInvInit
<1>2. UndoInv /\ [UndoNext]_undoGameVars => UndoInv'
  BY UndoInvNext
<1>3. UndoInv => WindowIsSnapshotted
  <2> SUFFICES ASSUME UndoInv, pc = "actionWindow" PROVE WindowIsSnapshotted
    BY DEF WindowIsSnapshotted
  <2>1. /\ CurrentTimepoint = "action"
        /\ [snapshots[currentId].state EXCEPT !.ended = game.ended] = game
        /\ currentId \in actionSnapshots[game.active] /\ game.active \in Players \ game.passed
    BY DEF UndoInv, RoundPart, GameInv, MomentPart, TimepointInv, MomentInv
  <2>2. currentId # NoSnapshot
    BY <2>1, CurrentIsRecorded DEF UndoInv
  <2>3. \A other \in actionSnapshots[game.active] : other <= currentId
    BY <2>1, <2>2, ContainersAreTyped DEF UndoInv, StoreInv, CurrentIsNewest
  <2> QED BY <2>1, <2>3 DEF WindowIsSnapshotted, IsLatest
<1> QED BY <1>1, <1>2, <1>3, PTL DEF UndoSpec

\* Neither the end of the action phase nor the readied cards nor the start of the
\* action phase is kept twice for a player, whatever was undone in between.
THEOREM NothingIsKeptTwice ==
  ASSUME GameStates = GameRecords, Timepoints = SnapshotTimepoint
  PROVE  UndoSpec => []NothingKeptTwice
<1>1. UndoInit => UndoInv
  BY UndoInvInit
<1>2. UndoInv /\ [UndoNext]_undoGameVars => UndoInv'
  BY UndoInvNext
<1>3. UndoInv => NothingKeptTwice
  <2> SUFFICES ASSUME UndoInv PROVE NothingKeptTwice
    OBVIOUS
  <2>1. prompted \subseteq Players /\ UnkeptInv
    BY DEF UndoInv, RoundPart, RoundTypeOK, MomentPart
  <2>2. pc = "setupActionPhase" => phaseObj.name = "action"
    BY PhasesThatRun DEF UndoInv, RoundPart, FlowInv, OwnSteps, BetweenPhases, Phases
  <2> SUFFICES ASSUME NEW p \in prompted
               PROVE  /\ (pc = "phaseEnded" /\ TakesEndSnapshots) \/ (pc = "cardsReadied" /\ TakesReadySnapshots) =>
                           /\ currentId \notin actionSnapshots[p]
                           /\ \A e \in quickSnapshots[p] : e.id # currentId
                      /\ pc = "setupActionPhase" /\ phaseObj.mode = "normal" =>
                           \A e \in quickSnapshots[p] : e.id # currentId
    BY DEF NothingKeptTwice
  <2>3. p \in Players
    BY <2>1
  <2>4. CASE pc = "phaseEnded" /\ TakesEndSnapshots
    BY <2>1, <2>3, <2>4 DEF UnkeptInv, TakesEndSnapshots
  <2>5. CASE pc = "cardsReadied" /\ TakesReadySnapshots
    BY <2>1, <2>3, <2>5 DEF UnkeptInv
  <2>6. CASE pc = "setupActionPhase" /\ phaseObj.mode = "normal"
    BY <2>1, <2>2, <2>3, <2>6 DEF UnkeptInv
  <2> QED BY <2>4, <2>5, <2>6
<1> QED BY <1>1, <1>2, <1>3, PTL DEF UndoSpec

\* What an opponent consents to is what was shown when consent was asked for, however
\* the prompts have changed since (UndoConfirmationPrompt).
THEOREM ConsentIsKept ==
  ASSUME GameStates = GameRecords, Timepoints = SnapshotTimepoint
  PROVE  UndoSpec => ConsentIsToWhatWasShown
<1>1. UndoInit => UndoInv
  BY UndoInvInit
<1>2. UndoInv /\ [UndoNext]_undoGameVars => UndoInv'
  BY UndoInvNext
<1>3. UndoInv /\ [UndoNext]_undoGameVars =>
        [requests # <<>> /\ unwinding' # unwinding => currentId' = Request.shown]_undoGameVars
  <2> SUFFICES ASSUME UndoInv, UndoNext, requests # <<>>, unwinding' # unwinding
               PROVE  currentId' = Request.shown
    OBVIOUS
  <2>1. ConsentInv /\ unwinding = NoPrompt
    BY DEF UndoInv, ConsentInv
  <2>2. AllowUndo
    <3>1. ~CompleteConfirmation
      BY <2>1 DEF CompleteConfirmation
    <3>2. UNCHANGED unwinding \/ AllowUndo \/ CompleteConfirmation
      BY DEF UndoNext, PipelineStep, PlayerChoice, AnswerQuestion, EndGame, Undo, RequestUndo,
             DenyUndo, DenyAndBlock, CloseRequest, undoVars
    <3> QED BY <3>1, <3>2
  <2>3. PICK e \in QuickTargets(Request.by, Request.point) : RollBack(e.id)
    BY <2>2 DEF AllowUndo, ConsentedTargets
  <2>4. LeadsWhereShown(Request)
    <3>1. Len(requests) \in 1 .. Len(requests)
      BY <2>1, EmptySeq DEF ConsentInv
    <3> QED BY <2>1, <3>1 DEF ConsentInv, Request
  <2> QED BY <2>3, <2>4 DEF LeadsWhereShown, QuickTargets, RollBack, Restore
<1> QED BY <1>1, <1>2, <1>3, PTL DEF UndoSpec, ConsentIsToWhatWasShown

\* Where no restore fails, the triggers of the start of a phase have resolved once at
\* every prompt (Phase.startPhase, PhaseInitializeMode).
THEOREM PhasesStartOnce ==
  ASSUME GameStates = GameRecords, Timepoints = SnapshotTimepoint, ~RestoreMayFail
  PROVE  UndoSpec => []PhaseStartsOnce
<1> DEFINE Inv == UndoInv /\ LineStarts /\ StartsInv
<1>1. UndoInit => Inv
  <2> SUFFICES ASSUME UndoInit PROVE Inv
    OBVIOUS
  <2>1. LineStarts
    BY DEF UndoInit, SnapshotInit, LineStarts
  <2>2. StartsInv
    BY DEF UndoInit, RoundInit, NewPhase, StartsInv
  <2> QED BY <2>1, <2>2, UndoInvInit
<1>2. Inv /\ [UndoNext]_undoGameVars => Inv'
  BY UndoInvNext, StartsNext
<1>3. Inv => PhaseStartsOnce
  <2> SUFFICES ASSUME Inv, Waiting PROVE PhaseStartsOnce
    BY DEF PhaseStartsOnce
  <2>1. pc \notin {"setCurrentPhase", "startOfPhase", "startPhase", "beginRound"}
    BY WaitingIsRecorded DEF UndoInv
  <2> QED BY <2>1 DEF StartsInv, PhaseStartsOnce
<1> HIDE DEF Inv
<1> QED BY <1>1, <1>2, <1>3, PTL DEF UndoSpec

-----------------------------------------------------------------------------
(* The line of play: which timepoints it has passed, and in which order *)

At(id, timepoint) == snapshots[id].timepoint = timepoint
StartsPhase(id, ph) == At(id, "startOfPhase") /\ snapshots[id].state.phase = ph
EndsPhase(id, ph) == At(id, "endOfPhase") /\ snapshots[id].state.phase = ph
NextOf(a, b) == snapshots[b].timepointNumber = snapshots[a].timepointNumber + 1
Flagged(id) == snapshots[id].requiresConfirmation

CurrentPhase == IF currentId = NoSnapshot THEN "none" ELSE snapshots[currentId].state.phase

AtEnd == phaseObj.mode = "rollbackToEndOfPhase"

\* What a step leaves of a snapshot: its number, and what is noted of its successor.
SameNumber(id) == snapshots'[id].timepointNumber = snapshots[id].timepointNumber
SameMark(id) == snapshots'[id].nextSnapshotIsSamePlayer = snapshots[id].nextSnapshotIsSamePlayer
SameFlag(id) == snapshots'[id].requiresConfirmation = snapshots[id].requiresConfirmation

\* What happens to the line: snapshots are flagged, a timepoint is added, and a
\* rollback cuts what is newer.
FlagsRaised ==
  /\ StoreKept
  /\ UNCHANGED lastAssignedTimepointNumber
  /\ \A id \in DOMAIN snapshots : SameNumber(id) /\ SameMark(id) /\ (Flagged(id) => Flagged(id)')

LineMoved(timepoint) ==
  /\ StoreMoved(timepoint)
  /\ lastAssignedTimepointNumber' = lastAssignedTimepointNumber + 1
  /\ snapshots'[currentId'].timepointNumber = lastAssignedTimepointNumber + 1
  /\ \A id \in DOMAIN snapshots :
       /\ SameNumber(id) /\ SameFlag(id)
       /\ IF id = currentId /\ timepoint = "action"
          THEN snapshots'[id].nextSnapshotIsSamePlayer = (game.active = snapshots[id].state.active)
          ELSE SameMark(id)

LineCut(id) ==
  /\ StoreCut(id)
  /\ \A other \in DOMAIN snapshots' : SameNumber(other) /\ SameMark(other) /\ (other # id => SameFlag(other))
  /\ \A p \in Players : /\ actionSnapshots'[p] = UpTo(actionSnapshots[p], id)
                        /\ quickSnapshots'[p] = EntriesUpTo(quickSnapshots[p], id)

LEMMA FlaggingRaisesFlags ==
  ASSUME StoreInv, UNCHANGED snapshotVars \/ \E players : RequireConfirmation(players)
  PROVE  FlagsRaised
<1>1. StoreKept
  BY FlaggingKeepsStore
<1>2. CASE UNCHANGED snapshotVars
  BY <1>1, <1>2 DEF FlagsRaised, SameNumber, SameMark, Flagged, snapshotVars, factoryVars
<1>3. ASSUME NEW players, RequireConfirmation(players) PROVE FlagsRaised
  <2>1. \A id \in DOMAIN snapshots : snapshots[id] \in Snapshots
    BY DEF StoreInv, SnapshotTypeOK
  <2> QED BY <1>1, <1>3, <2>1
             DEF FlagsRaised, SameNumber, SameMark, Flagged, RequireConfirmation, ConfirmationRequired, Snapshots
<1> QED BY <1>2, <1>3

LEMMA MovingMovesTheLine ==
  ASSUME StoreInv, NEW timepoint, MoveToNextTimepoint(timepoint)
  PROVE  LineMoved(timepoint)
<1>1. StoreMoved(timepoint)
  BY MovingMovesStore
<1>2. /\ \A id \in DOMAIN snapshots : snapshots[id] \in Snapshots
      /\ DOMAIN snapshots \subseteq 0 .. lastAssignedSnapshotId
      /\ lastAssignedSnapshotId \in Nat \cup {-1}
  BY DEF StoreInv, SnapshotTypeOK
<1>3. \A id \in DOMAIN snapshots : snapshots'[id] = MarkSuccessor(timepoint)[id]
  BY <1>2 DEF MoveToNextTimepoint
<1>4. ASSUME NEW id \in DOMAIN snapshots
      PROVE  /\ SameNumber(id) /\ SameFlag(id)
             /\ IF id = currentId /\ timepoint = "action"
                THEN snapshots'[id].nextSnapshotIsSamePlayer = (game.active = snapshots[id].state.active)
                ELSE SameMark(id)
  <2>1. CASE id = currentId /\ timepoint = "action"
    <3>1. snapshots'[id] = [snapshots[id] EXCEPT
                              !.nextSnapshotIsSamePlayer = (game.active = snapshots[id].state.active)]
      BY <1>3, <2>1 DEF MarkSuccessor
    <3> QED BY <1>2, <2>1, <3>1 DEF SameNumber, SameFlag, Snapshots
  <2>2. CASE ~(id = currentId /\ timepoint = "action")
    <3>1. snapshots'[id] = snapshots[id]
      BY <1>3, <2>2 DEF MarkSuccessor
    <3> QED BY <2>2, <3>1 DEF SameNumber, SameFlag, SameMark
  <2> QED BY <2>1, <2>2
<1>5. /\ lastAssignedTimepointNumber' = lastAssignedTimepointNumber + 1
      /\ snapshots'[currentId'].timepointNumber = lastAssignedTimepointNumber + 1
  BY DEF MoveToNextTimepoint, NewSnapshot
<1> QED BY <1>1, <1>4, <1>5 DEF LineMoved

LEMMA RestoringCutsTheLine ==
  ASSUME StoreInv, NEW id \in DOMAIN snapshots, Restore(id)
  PROVE  LineCut(id)
<1>1. StoreCut(id)
  BY RestoringCutsStore
<1>2. \A other \in DOMAIN snapshots' : SameNumber(other) /\ SameMark(other) /\ (other # id => SameFlag(other))
  BY DEF Restore, UpTo, SameNumber, SameMark, SameFlag, StoreInv, SnapshotTypeOK, Snapshots
<1>3. \A p \in Players : /\ actionSnapshots'[p] = UpTo(actionSnapshots[p], id)
                         /\ quickSnapshots'[p] = EntriesUpTo(quickSnapshots[p], id)
  BY DEF Restore
<1> QED BY <1>1, <1>2, <1>3 DEF LineCut

\* The current snapshot is the newest, and has the last number.
LEMMA CurrentIsLast ==
  ASSUME StoreInv
  PROVE  /\ \A id \in DOMAIN snapshots :
              /\ id \in Nat /\ id <= currentId /\ currentId \in DOMAIN snapshots /\ currentId # NoSnapshot
              /\ snapshots[id].timepointNumber \in Nat
              /\ snapshots[id].timepointNumber <= snapshots[currentId].timepointNumber
              /\ snapshots[id].timepointNumber = snapshots[currentId].timepointNumber => id = currentId
         /\ currentId # NoSnapshot =>
              currentId \in DOMAIN snapshots /\ snapshots[currentId].timepointNumber = lastAssignedTimepointNumber
<1>1. CASE currentId = NoSnapshot
  BY <1>1 DEF StoreInv, CurrentIsNewest
<1>2. CASE currentId # NoSnapshot
  <2>1. /\ currentId \in DOMAIN snapshots /\ \A id \in DOMAIN snapshots : id <= currentId
        /\ snapshots[currentId].timepointNumber = lastAssignedTimepointNumber
    BY <1>2 DEF StoreInv, CurrentIsNewest
  <2> QED BY <1>2, <2>1, NumbersAreDistinct
<1> QED BY <1>1, <1>2

-----------------------------------------------------------------------------
(* The steps that reach a timepoint, one by one *)

MovesFrom(timepoint) ==
  \/ pc = "startOfPhase" /\ timepoint = "startOfPhase" /\ pc' = "startPhase" /\ phaseObj.mode = "normal"
  \/ pc = "beforeMulligan" /\ timepoint = "mulligan" /\ pc' = "mulliganPrompt" /\ phaseObj.name = "setup"
  \/ pc = "beforeResource" /\ timepoint = "setupResource" /\ pc' = "setupResourcePrompt"
       /\ phaseObj.name = "setup"
  \/ pc = "queueNextAction" /\ timepoint = "action" /\ pc' = "actionWindow" /\ ~OpensAgain
       /\ phaseObj.name = "action"
  \/ pc = "drawTwo" /\ timepoint = "regroupResource" /\ pc' = "draws" /\ phaseObj.name = "regroup"
  \/ pc = "endPhase" /\ timepoint = "endOfPhase" /\ pc' = "phaseEnded"
  \/ pc = "readyAllCards" /\ timepoint = "regroupReadyCards" /\ pc' = "cardsReadied"
       /\ phaseObj.name = "regroup" /\ TakesReadySnapshots

LEMMA TimepointMoves ==
  ASSUME UndoInv, TimepointStep
  PROVE  \E timepoint \in SnapshotTimepoint :
           /\ MovesFrom(timepoint) /\ Reaches(timepoint) /\ LineMoved(timepoint)
           /\ asking = <<>> /\ phaseObj' = phaseObj /\ ~AtEnd
           /\ game.phase = phaseObj.name /\ phaseObj.name \in Phases
           /\ game'.active = game.active
<1>1. /\ RoundPart /\ StoreInv /\ HeapInv /\ MomentPart
      /\ phaseObj \in RunnablePhases /\ phaseObj.name \in Phases
  BY PhasesThatRun DEF UndoInv, RoundPart, FlowInv
<1>2. \A timepoint : Reaches(timepoint) => LineMoved(timepoint)
  BY <1>1, MovingMovesTheLine DEF Reaches
<1>3. /\ pc \in {"beforeMulligan", "beforeResource"} => phaseObj.name = "setup"
      /\ pc = "queueNextAction" => phaseObj.name = "action"
      /\ pc \in {"drawTwo", "readyAllCards"} => phaseObj.name = "regroup"
      /\ pc \in {"startOfPhase", "beforeMulligan", "beforeResource", "queueNextAction", "drawTwo",
                 "readyAllCards"} => ~AtEnd
      /\ pc = "startOfPhase" => phaseObj.mode = "normal"
      /\ pc \notin BetweenPhases => game.phase = phaseObj.name
  BY <1>1 DEF RoundPart, FlowInv, GameInv, OwnSteps, BetweenPhases, Phases, AfterActions, AtEnd
<1>4. TimepointReached
  BY <1>1, TimepointStepReaches
<1>5. OpenActionWindow => ~OpensAgain
  BY DEF TimepointStep, OpenActionWindow, StartOfPhaseSnapshot, SnapshotBeforeMulligan,
         SnapshotBeforeResource, DrawTwo, EndPhase, ReadyAllCards, AtStep
<1>6. game'.active = game.active
  <2>1. game' = game \/ EndPhase
    BY <1>4 DEF TimepointReached, OpenActionWindow, StartOfPhaseSnapshot, SnapshotBeforeMulligan,
         SnapshotBeforeResource, DrawTwo, ReadyAllCards
  <2>2. game \in GameRecords
    BY <1>1 DEF RoundPart, RoundTypeOK
  <2> QED BY <2>1, <2>2 DEF EndPhase, GameRecords
<1>10. CASE StartOfPhaseSnapshot /\ Reaches("startOfPhase")
  BY <1>1, <1>2, <1>3, <1>6, <1>10 DEF StartOfPhaseSnapshot, AtStep, MovesFrom, SnapshotTimepoint, BetweenPhases
<1>11. CASE SnapshotBeforeMulligan /\ Reaches("mulligan")
  BY <1>1, <1>2, <1>3, <1>6, <1>11 DEF SnapshotBeforeMulligan, AtStep, MovesFrom, SnapshotTimepoint, BetweenPhases
<1>12. CASE SnapshotBeforeResource /\ Reaches("setupResource")
  BY <1>1, <1>2, <1>3, <1>6, <1>12 DEF SnapshotBeforeResource, AtStep, MovesFrom, SnapshotTimepoint, BetweenPhases
<1>13. CASE OpenActionWindow /\ Reaches("action")
  BY <1>1, <1>2, <1>3, <1>5, <1>6, <1>13 DEF OpenActionWindow, AtStep, MovesFrom, SnapshotTimepoint, BetweenPhases
<1>14. CASE DrawTwo /\ Reaches("regroupResource")
  BY <1>1, <1>2, <1>3, <1>6, <1>14 DEF DrawTwo, AtStep, MovesFrom, SnapshotTimepoint, BetweenPhases
<1>15. CASE EndPhase /\ phaseObj.mode # "rollbackToEndOfPhase" /\ Reaches("endOfPhase")
  BY <1>1, <1>2, <1>3, <1>6, <1>15 DEF EndPhase, AtStep, MovesFrom, SnapshotTimepoint, BetweenPhases, AtEnd
<1>16. CASE ReadyAllCards /\ TakesReadySnapshots /\ Reaches("regroupReadyCards")
  BY <1>1, <1>2, <1>3, <1>6, <1>16 DEF ReadyAllCards, AtStep, MovesFrom, SnapshotTimepoint, BetweenPhases
<1> QED BY <1>4, <1>10, <1>11, <1>12, <1>13, <1>14, <1>15, <1>16 DEF TimepointReached

-----------------------------------------------------------------------------
(* The kinds of steps *)

\* The pipeline stands where it stood; a player waits, asks, wins or concedes, or a
\* restore has failed.
Stands ==
  /\ UNCHANGED <<pc, phaseObj, done, asking, resolved, historyVars>>
  /\ FlagsRaised
  /\ \/ game' = game
     \/ Waiting /\ game' = [game EXCEPT !.ended = TRUE]
     \/ Waiting /\ game' = snapshots[currentId].state
  /\ prompted' = prompted \/ Waiting

\* The history of the present timepoint grows, and that of others stays.
Grows(history, later) ==
  /\ DOMAIN later = DOMAIN history
  /\ \A id \in DOMAIN history : /\ history[id] \subseteq later[id]
                                /\ id # currentId => later[id] = history[id]

\* The game goes on at the present timepoint.
Stays ==
  /\ \/ PlainStep \/ RepeatedStep \/ DrawingStep \/ FirstPlayerStep
     \/ (\E p \in Players : PlayerChoice(p)) \/ AnswerQuestion
  /\ StaysAtTimepoint
  /\ FlagsRaised
  /\ Grows(decided, decided') /\ Grows(informed, informed')

LEMMA UndoStepKinds ==
  ASSUME UndoInv, UndoNext \/ UNCHANGED undoGameVars
  PROVE  \/ TimepointStep \/ KeepingStep \/ Stays \/ Stands
         \/ \E id \in Targets : RollBack(id)
<1>1. RoundPart /\ StoreInv /\ HeapInv /\ MomentPart /\ ConsentInv
  BY DEF UndoInv
<1>2. /\ UNCHANGED decided => Grows(decided, decided')
      /\ UNCHANGED informed => Grows(informed, informed')
      /\ \A p, ability : Decides(p, ability) => Grows(decided, decided')
      /\ \A players : Reveal(players) => Grows(informed, informed')
  BY DEF Grows, Decides, Reveal
<1>3. CASE PipelineStep
  <2>1. CASE PlainStep \/ RepeatedStep
    <3>1. StaysAtTimepoint /\ UNCHANGED snapshotVars /\ UNCHANGED <<decided, informed>>
      BY <2>1 DEF PlainStep, RepeatedStep, StaysAtTimepoint
    <3> QED BY <1>1, <1>2, <2>1, <3>1, FlaggingRaisesFlags DEF Stays
  <2>2. CASE FirstPlayerStep
    <3>1. StaysAtTimepoint /\ UNCHANGED snapshotVars /\ UNCHANGED informed
      BY <2>2 DEF FirstPlayerStep, StaysAtTimepoint
    <3> QED BY <1>1, <1>2, <2>2, <3>1, FlaggingRaisesFlags DEF Stays, FirstPlayerStep
  <2>3. CASE DrawingStep
    <3>1. StaysAtTimepoint /\ (\E players : Reveal(players)) /\ UNCHANGED decided
      BY <2>3 DEF DrawingStep, StaysAtTimepoint
    <3> QED BY <1>1, <1>2, <2>3, <3>1, FlaggingRaisesFlags DEF Stays, Reveal
  <2> QED BY <1>3, <2>1, <2>2, <2>3 DEF PipelineStep
<1>4. ASSUME NEW p \in Players, PlayerChoice(p) PROVE Stays
  <2>1. StaysAtTimepoint /\ Decides(p, p \in resolved')
    BY <1>4 DEF PlayerChoice, StaysAtTimepoint, Choice
  <2>2. \/ UNCHANGED <<snapshotVars, informed>>
        \/ \E players : Reveal(players)
    BY <1>4 DEF PlayerChoice
  <2> QED BY <1>1, <1>2, <1>4, <2>1, <2>2, FlaggingRaisesFlags DEF Stays, Reveal
<1>5. CASE AnswerQuestion
  <2>1. /\ StaysAtTimepoint /\ (\E players : Reveal(players))
        /\ (\E p, ability : Decides(p, ability))
    BY <1>5 DEF AnswerQuestion, StaysAtTimepoint
  <2> QED BY <1>1, <1>2, <1>5, <2>1, FlaggingRaisesFlags DEF Stays, Reveal
<1>6. CASE EndGame
  <2>1. FlagsRaised
    BY <1>1, <1>6, FlaggingRaisesFlags DEF EndGame
  <2> QED BY <1>6, <2>1 DEF EndGame, Stands, flowVars, undoVars
<1>7. ASSUME Waiting, RollBackFails PROVE Stands
  <2>1. UNCHANGED snapshotVars /\ game' = snapshots[currentId].state
    BY <1>7 DEF RollBackFails, RestoreFails
  <2> QED BY <1>1, <1>7, <2>1, FlaggingRaisesFlags DEF RollBackFails, Stands, flowVars
<1>8. ASSUME NEW p \in Players, NEW id \in UndoTargets(p), Undo(p, id)
      PROVE  Stands \/ (RollBack(id) /\ id \in Targets)
  BY <1>7, <1>8, UndoLeadsToTargets DEF Undo, MayUndo
<1>9. CASE AllowUndo
  <2>1. requests # <<>> /\ Waiting
    BY <1>1, <1>9 DEF AllowUndo, ConsentInv
  <2>2. Request \in UndoRequests
    BY <1>1, <2>1, EmptySeq DEF ConsentInv, Request
  <2>3. Request.by \in Players
    BY <2>2 DEF UndoRequests
  <2>4. \A e \in ConsentedTargets : e.id \in Targets
    BY <2>3, UndoLeadsToTargets DEF ConsentedTargets
  <2> QED BY <1>7, <1>9, <2>1, <2>4 DEF AllowUndo
<1>10. CASE (\E p \in Players : RequestUndo(p)) \/ CompleteConfirmation \/ DenyUndo \/ DenyAndBlock
            \/ UNCHANGED undoGameVars
  <2>1. UNCHANGED <<game, pc, phaseObj, done, asking, resolved, historyVars, snapshotVars>>
    BY <1>10 DEF RequestUndo, CompleteConfirmation, DenyUndo, DenyAndBlock, CloseRequest, undoGameVars,
                 roundVars, flowVars, undoVars
  <2>2. prompted' = prompted \/ Waiting
    BY <1>10 DEF RequestUndo, MayUndo, CompleteConfirmation, DenyUndo, DenyAndBlock, CloseRequest,
                 undoGameVars, roundVars, flowVars
  <2> QED BY <1>1, <2>1, <2>2, FlaggingRaisesFlags DEF Stands
<1> QED BY <1>3, <1>4, <1>5, <1>6, <1>8, <1>9, <1>10 DEF UndoNext

\* What the current snapshot is after each of them.
LEMMA FlaggedIsCurrent ==
  ASSUME StoreInv, HeapInv, FlagsRaised
  PROVE  /\ CurrentTimepoint' = CurrentTimepoint /\ CurrentPhase' = CurrentPhase
         /\ currentId' = currentId
         /\ currentId # NoSnapshot => snapshots'[currentId'].state = snapshots[currentId].state
         /\ actionSnapshots' = actionSnapshots /\ quickSnapshots' = quickSnapshots
         /\ DOMAIN snapshots' = DOMAIN snapshots
         /\ \A id \in DOMAIN snapshots : SameRecord(id)
BY KeptStoreKeepsMoment DEF FlagsRaised, StoreKept, CurrentPhase

LEMMA MovedIsCurrent ==
  ASSUME StoreInv, NEW timepoint, LineMoved(timepoint)
  PROVE  /\ currentId' \in Nat /\ currentId' # NoSnapshot /\ currentId' \notin DOMAIN snapshots
         /\ \A id \in DOMAIN snapshots : id < currentId' /\ SameRecord(id)
         /\ CurrentTimepoint' = timepoint /\ CurrentPhase' = game.phase
         /\ snapshots'[currentId'].timepoint = timepoint /\ snapshots'[currentId'].state = game
         /\ DOMAIN snapshots' = DOMAIN snapshots \cup {currentId'}
<1>1. /\ currentId' \in Nat /\ \A id \in DOMAIN snapshots : id < currentId' /\ SameRecord(id)
      /\ DOMAIN snapshots' = DOMAIN snapshots \cup {currentId'}
      /\ snapshots'[currentId'].timepoint = timepoint /\ snapshots'[currentId'].state = game
  BY DEF LineMoved, StoreMoved
<1>2. currentId' # NoSnapshot /\ currentId' \notin DOMAIN snapshots
  BY <1>1 DEF NoSnapshot
<1> QED BY <1>1, <1>2 DEF CurrentTimepoint, CurrentPhase

LEMMA CutIsCurrent ==
  ASSUME StoreInv, HeapInv, NEW id \in Targets, RollBack(id)
  PROVE  /\ LineCut(id) /\ id \in DOMAIN snapshots /\ id \in Nat
         /\ currentId' = id /\ currentId' # NoSnapshot
         /\ DOMAIN snapshots' = {other \in DOMAIN snapshots : other <= id}
         /\ \A other \in DOMAIN snapshots' : SameRecord(other)
         /\ CurrentTimepoint' = snapshots[id].timepoint
         /\ pc' = "setCurrentPhase" /\ asking' = <<>> /\ done' = {}
         /\ phaseObj' = EntryPoint(snapshots[id]) /\ phaseObj'.mode # "normal"
         /\ AtEnd' <=> At(id, "endOfPhase")
         /\ game' = snapshots[id].state
<1>1. /\ id \in DOMAIN snapshots /\ id \in Nat /\ snapshots[id].timepoint \in SnapshotTimepoint
      /\ Recorded(snapshots[id])
      /\ snapshots[id].timepoint = "endOfPhase" => snapshots[id].state.phase = "action"
  BY TargetsAreRecorded
<1>2. LineCut(id)
  BY <1>1, RestoringCutsTheLine DEF RollBack
<1>3. /\ currentId' = id /\ currentId' # NoSnapshot
      /\ DOMAIN snapshots' = {other \in DOMAIN snapshots : other <= id}
      /\ \A other \in DOMAIN snapshots' : SameRecord(other)
  BY <1>1, <1>2 DEF LineCut, StoreCut, NoSnapshot
<1>4. CurrentTimepoint' = snapshots[id].timepoint
  <2>1. id \in DOMAIN snapshots'
    BY <1>1, <1>3
  <2> QED BY <1>3, <2>1 DEF CurrentTimepoint, SameRecord
<1>5. /\ pc' = "setCurrentPhase" /\ asking' = <<>> /\ done' = {}
      /\ phaseObj' = EntryPoint(snapshots[id]) /\ game' = snapshots[id].state
  BY DEF RollBack, Restore
<1>6. /\ EntryPoint(snapshots[id]).mode # "normal"
      /\ EntryPoint(snapshots[id]).mode = "rollbackToEndOfPhase" => At(id, "endOfPhase")
  BY <1>1, EntryPoints DEF At
<1>7. At(id, "endOfPhase") => EntryPoint(snapshots[id]).mode = "rollbackToEndOfPhase"
  BY DEF At, EntryPoint
<1> QED BY <1>1, <1>2, <1>3, <1>4, <1>5, <1>6, <1>7 DEF AtEnd

\* The timepoint passed last, by the step the pipeline is at.
PlaceInv ==
  /\ pc \in {"setCurrentPhase", "startOfPhase"} /\ phaseObj.mode = "normal" =>
       /\ phaseObj.name = "setup" => CurrentTimepoint = "none"
       /\ phaseObj.name # "setup" => CurrentTimepoint = "endOfPhase"
       /\ phaseObj.name = "action" => CurrentPhase # "action"
       /\ phaseObj.name = "regroup" => CurrentPhase = "action"
  /\ pc \in {"phaseEnded", "beginRound"} \/ AtEnd => CurrentTimepoint = "endOfPhase"
  /\ pc = "beginRound" => CurrentPhase = phaseObj.name
  /\ pc = "queueNextAction" => CurrentTimepoint \in {"startOfPhase", "action"}
  /\ pc \in {"tearDown", "endPhase"} /\ phaseObj.name = "action" /\ ~AtEnd => CurrentTimepoint = "action"
  /\ pc = "endPhase" /\ phaseObj.name = "setup" => CurrentTimepoint = "setupResource"
  /\ pc \in {"cardsReadied", "endPhase"} /\ phaseObj.name = "regroup" =>
       CurrentTimepoint = "regroupReadyCards"
  /\ pc = "drawTwo" =>
       CurrentTimepoint = IF phaseObj.mode = "rollbackToWithinPhase" THEN "regroupResource" ELSE "startOfPhase"
  /\ pc \in {"draws", "resourcePrompt", "regroupResource"} => CurrentTimepoint = "regroupResource"
  /\ pc \in {"drawTwo", "draws", "resourcePrompt", "regroupResource"} => TakesReadySnapshots
  /\ pc = "readyAllCards" =>
       CurrentTimepoint = IF TakesReadySnapshots THEN "regroupResource" ELSE "regroupReadyCards"
  /\ pc = "tearDown" /\ asking # <<>> => AtEnd
  /\ pc = "rotate" => /\ game.active = snapshots[currentId].state.active
                      /\ currentId \in actionSnapshots[game.active]

LEMMA PlaceInvMoved ==
  ASSUME UndoInv, PlaceInv, TimepointStep
  PROVE  PlaceInv'
<1>1. PICK timepoint \in SnapshotTimepoint :
        /\ MovesFrom(timepoint) /\ LineMoved(timepoint)
        /\ phaseObj' = phaseObj /\ ~AtEnd
  BY TimepointMoves
<1>2. CurrentTimepoint' = timepoint
  BY <1>1, MovedIsCurrent DEF UndoInv
<1> QED BY <1>1, <1>2 DEF PlaceInv, MovesFrom, AtEnd, TakesReadySnapshots

LEMMA PlaceInvKept ==
  ASSUME UndoInv, PlaceInv, KeepingStep
  PROVE  PlaceInv'
<1>1. UNCHANGED <<snapshots, currentId>>
  BY DEF KeepingStep, KeepTimepoint, AddQuickStartOfActionSnapshots, factoryVars
<1>2. CurrentTimepoint' = CurrentTimepoint /\ CurrentPhase' = CurrentPhase
  BY <1>1 DEF CurrentTimepoint, CurrentPhase
<1>3. phaseObj.name \in Phases
  BY PhasesThatRun DEF UndoInv, RoundPart, FlowInv
<1>4. CASE PhaseEnded
  <2>1. CurrentTimepoint = "endOfPhase" /\ CurrentPhase = phaseObj.name
    BY <1>4 DEF PhaseEnded, AtStep, PlaceInv, UndoInv, MomentPart, PhaseInv, CurrentPhase
  <2> QED BY <1>2, <1>4, <2>1 DEF PhaseEnded, NewPhase, PlaceInv, AtEnd, AtStep, TakesReadySnapshots
<1>5. CASE CardsReadied
  <2>1. phaseObj.name = "regroup"
    BY <1>3, <1>5 DEF CardsReadied, AtStep, UndoInv, RoundPart, FlowInv, OwnSteps, BetweenPhases, Phases
  <2> QED BY <1>2, <1>5, <2>1 DEF CardsReadied, AtStep, PlaceInv, AtEnd, TakesReadySnapshots
<1>6. CASE SetupActionPhase
  <2>1. CurrentTimepoint = "startOfPhase"
    BY <1>6 DEF SetupActionPhase, AtStep, UndoInv, MomentPart, TimepointInv
  <2> QED BY <1>2, <1>6, <2>1 DEF SetupActionPhase, AtStep, PlaceInv, AtEnd, TakesReadySnapshots
<1> QED BY <1>4, <1>5, <1>6 DEF KeepingStep

LEMMA PlaceInvUndone ==
  ASSUME UndoInv, NEW id \in Targets, RollBack(id)
  PROVE  PlaceInv'
<1>1. /\ pc' = "setCurrentPhase" /\ phaseObj'.mode # "normal" /\ asking' = <<>>
      /\ CurrentTimepoint' = snapshots[id].timepoint
      /\ AtEnd' <=> At(id, "endOfPhase")
  BY CutIsCurrent DEF UndoInv
<1> QED BY <1>1 DEF PlaceInv, At, AtEnd, TakesReadySnapshots

LEMMA PlaceInvStands ==
  ASSUME UndoInv, PlaceInv, Stands
  PROVE  PlaceInv'
<1>1. /\ UNCHANGED <<pc, phaseObj, asking>>
      /\ CurrentTimepoint' = CurrentTimepoint /\ CurrentPhase' = CurrentPhase
      /\ currentId' = currentId /\ actionSnapshots' = actionSnapshots
      /\ currentId # NoSnapshot => snapshots'[currentId'].state = snapshots[currentId].state
  BY FlaggedIsCurrent DEF UndoInv, Stands
<1>2. pc = "rotate" => game'.active = game.active /\ currentId # NoSnapshot
  <2>1. pc = "rotate" => CurrentTimepoint = "action" /\ game.active = snapshots[currentId].state.active
    BY DEF UndoInv, MomentPart, TimepointInv, PlaceInv
  <2>2. game \in GameRecords
    BY DEF UndoInv, RoundPart, RoundTypeOK
  <2>3. game' = [game EXCEPT !.ended = TRUE] => game'.active = game.active
    BY <2>2 DEF GameRecords
  <2> QED BY <2>1, <2>3 DEF Stands, CurrentTimepoint
<1> QED BY <1>1, <1>2 DEF PlaceInv, AtEnd, TakesReadySnapshots

\* What the step that sets up a phase after a rollback leads to.
LEMMA ResumedIsPlaced ==
  ASSUME UndoInv, SetCurrentPhase, phaseObj.mode # "normal"
  PROVE  /\ game' = game /\ currentId # NoSnapshot /\ game = snapshots[currentId].state
         /\ phaseObj' = phaseObj /\ asking = <<>> /\ asking' = <<>> /\ pc = "setCurrentPhase"
         /\ \/ pc' = "startPhase" /\ CurrentTimepoint \in {"startOfPhase", "endOfPhase"}
            \/ pc' = "mulliganPrompt" /\ CurrentTimepoint = "mulligan"
            \/ pc' = "setupResourcePrompt" /\ CurrentTimepoint = "setupResource"
            \/ pc' = "queueNextAction" /\ CurrentTimepoint = "action"
            \/ /\ pc' = "drawTwo" /\ CurrentTimepoint = "regroupResource"
               /\ phaseObj.mode = "rollbackToWithinPhase" /\ TakesReadySnapshots
            \/ pc' = "readyAllCards" /\ CurrentTimepoint = "regroupReadyCards" /\ ~TakesReadySnapshots
<1>1. /\ RoundPart /\ StoreInv /\ HeapInv /\ MomentInv /\ pc = "setCurrentPhase" /\ phaseObj' = phaseObj
      /\ phaseObj \in RunnablePhases /\ phaseObj.name \in Phases /\ phaseObj.mode \in Modes
      /\ asking = <<>> /\ asking' = <<>>
  BY PhasesThatRun DEF UndoInv, MomentPart, RoundPart, FlowInv, SetCurrentPhase, AtStep
<1>2. /\ currentId # NoSnapshot /\ currentId \in DOMAIN snapshots
      /\ game = snapshots[currentId].state /\ game.phase = phaseObj.name
      /\ phaseObj.mode = "rollbackToStartOfPhase" => CurrentTimepoint = "startOfPhase"
      /\ phaseObj.mode = "rollbackToEndOfPhase" => CurrentTimepoint = "endOfPhase"
      /\ phaseObj.first = "mulliganPrompt" => CurrentTimepoint = "mulligan"
      /\ phaseObj.first = "setupResourcePrompt" => CurrentTimepoint = "setupResource"
      /\ phaseObj.first = "queueNextAction" =>
           CurrentTimepoint = "action" /\ currentId \in actionSnapshots[game.active]
      /\ phaseObj.first = "readyAllCards" => CurrentTimepoint = "regroupReadyCards"
  BY <1>1, ResumedAtTheCurrent
<1>3. game' = game
  <2>1. game' = [game EXCEPT !.phase = phaseObj.name, !.starts = game.starts] /\ game \in GameRecords
    BY <1>1 DEF SetCurrentPhase, RoundPart, RoundTypeOK
  <2> QED BY <1>2, <2>1 DEF GameRecords
<1>4. CASE phaseObj.mode = "rollbackToWithinPhase"
  <2>1. /\ pc' = phaseObj.first
        /\ pc' \in {"mulliganPrompt", "setupResourcePrompt", "queueNextAction", "drawTwo", "readyAllCards"}
    BY <1>1, <1>4, FirstStepsAreOwn DEF SetCurrentPhase, ResumedSteps, Phases
  <2>2. pc' = "drawTwo" => CurrentTimepoint = "regroupResource"
    <3>1. phaseObj = EntryPoint(snapshots[currentId])
      BY <1>1 DEF MomentInv
    <3>2. CurrentTimepoint = snapshots[currentId].timepoint /\ CurrentTimepoint \in SnapshotTimepoint
      BY <1>1, <1>2, CurrentIsRecorded
    <3> QED BY <1>4, <2>1, <3>1, <3>2 DEF EntryPoint, SnapshotTimepoint
  <2> QED BY <1>1, <1>2, <1>3, <1>4, <2>1, <2>2 DEF TakesReadySnapshots
<1>5. CASE phaseObj.mode # "rollbackToWithinPhase"
  <2>1. pc' = "startPhase"
    BY <1>1, <1>5 DEF SetCurrentPhase
  <2> QED BY <1>1, <1>2, <1>3, <1>5, <2>1 DEF Modes
<1> QED BY <1>4, <1>5

LEMMA PlaceInvStays ==
  ASSUME UndoInv, GameStates = GameRecords, PlaceInv, StaysAtTimepoint, FlagsRaised
  PROVE  PlaceInv'
<1>1. /\ CurrentTimepoint' = CurrentTimepoint /\ CurrentPhase' = CurrentPhase
      /\ currentId' = currentId /\ actionSnapshots' = actionSnapshots
      /\ currentId # NoSnapshot => snapshots'[currentId'].state = snapshots[currentId].state
  BY FlaggedIsCurrent DEF UndoInv
<1>2. /\ phaseObj \in RunnablePhases /\ phaseObj.name \in Phases /\ phaseObj.mode \in Modes
      /\ game \in GameRecords /\ FlowInv /\ TimepointInv
  BY PhasesThatRun DEF UndoInv, RoundPart, RoundTypeOK, FlowInv, MomentPart
<1>3. CASE SetCurrentPhase
  <2>1. CASE phaseObj.mode = "normal"
    BY <1>1, <1>3, <2>1 DEF SetCurrentPhase, AtStep, PlaceInv, AtEnd, TakesReadySnapshots
  <2>2. CASE phaseObj.mode # "normal"
    <3>1. CASE pc' \in {"startPhase", "mulliganPrompt", "setupResourcePrompt"}
      BY <1>1, <1>3, <2>2, <3>1, ResumedIsPlaced DEF PlaceInv, AtEnd, TakesReadySnapshots
    <3>2. CASE pc' \in {"queueNextAction", "drawTwo", "readyAllCards"}
      BY <1>1, <1>3, <2>2, <3>2, ResumedIsPlaced DEF PlaceInv, AtEnd, TakesReadySnapshots
    <3> QED BY <1>3, <2>2, <3>1, <3>2, ResumedIsPlaced
  <2> QED BY <2>1, <2>2
<1>4. CASE StartPhase
  <2>1. /\ phaseObj' = phaseObj /\ pc = "startPhase" /\ pc' = phaseObj.first
        /\ pc' \in {"chooseFirstPlayer", "setupActionPhase", "drawTwo", "tearDown"}
        /\ pc' = "tearDown" => AtEnd
        /\ phaseObj.mode # "rollbackToWithinPhase"
    BY <1>2, <1>4, FirstStepsAreOwn DEF StartPhase, AtStep, Modes, Phases, FirstStep, FlowInv, AtEnd
  <2>2. pc' = "drawTwo" => CurrentTimepoint = "startOfPhase" /\ TakesReadySnapshots
    <3>1. pc' = "drawTwo" => ~AtEnd
      BY <1>2, <2>1, FirstStepsAreOwn DEF AtEnd
    <3> QED BY <1>2, <2>1, <3>1 DEF TimepointInv, AtEnd, TakesReadySnapshots
  <2> QED BY <1>1, <2>1, <2>2 DEF PlaceInv, AtEnd, TakesReadySnapshots
<1>5. CASE BeginRound
  BY <1>1, <1>2, <1>5 DEF BeginRound, AtStep, NewPhase, PlaceInv, AtEnd, FlowInv, TakesReadySnapshots
<1>6. CASE OpenMulliganPrompt \/ OpenSetupResourcePrompt \/ OpenResourcePrompt
  BY <1>1, <1>6 DEF OpenMulliganPrompt, OpenSetupResourcePrompt, OpenResourcePrompt, OpenPrompt, AtStep,
                    PlaceInv, AtEnd, TakesReadySnapshots
<1>7. CASE RotateActivePlayer
  BY <1>1, <1>2, <1>7 DEF RotateActivePlayer, AtStep, PlaceInv, AtEnd, TimepointInv, TakesReadySnapshots
<1>8. CASE TearDownActionPhase
  <2>1. phaseObj.name = "action"
    BY <1>2, <1>8 DEF TearDownActionPhase, AtStep, FlowInv, OwnSteps, BetweenPhases, Phases
  <2> QED BY <1>1, <1>8, <2>1 DEF TearDownActionPhase, AtStep, PlaceInv, AtEnd, TakesReadySnapshots
<1>9. CASE OpenActionWindow
  BY <1>1, <1>9 DEF OpenActionWindow, AtStep, PlaceInv, AtEnd, TakesReadySnapshots
<1>10. CASE EndPhase /\ phaseObj.mode = "rollbackToEndOfPhase"
  BY <1>1, <1>10 DEF EndPhase, AtStep, PlaceInv, AtEnd, TakesReadySnapshots
<1>11. CASE ReadyAllCards /\ ~TakesReadySnapshots
  BY <1>1, <1>11 DEF ReadyAllCards, AtStep, PlaceInv, AtEnd, TakesReadySnapshots
<1>12. CASE Draws \/ ChooseFirstPlayer
  BY <1>1, <1>12 DEF Draws, ChooseFirstPlayer, AtStep, PlaceInv, AtEnd, TakesReadySnapshots
<1>13. CASE Answer
  <2>1. pc = "rotate" => currentId # NoSnapshot
    BY <1>2 DEF TimepointInv, CurrentTimepoint
  <2> QED BY <1>1, <1>13, <2>1 DEF Answer, PlaceInv, AtEnd, TakesReadySnapshots
<1>14. ASSUME NEW p \in Players, Choice(p) PROVE PlaceInv'
  <2>1. CASE pc # "actionWindow"
    <3>1. /\ asking' = <<>> /\ phaseObj' = phaseObj
          /\ \/ pc = "mulligan" /\ pc' \in {"mulligan", "beforeResource"}
             \/ pc = "setupResource" /\ pc' \in {"setupResource", "endPhase"}
             \/ pc = "regroupResource" /\ pc' \in {"regroupResource", "readyAllCards"}
      BY <1>14, <2>1, ChoicesMove
    <3>2. pc = "setupResource" => phaseObj.name = "setup" /\ CurrentTimepoint = "setupResource"
      BY <1>2 DEF FlowInv, OwnSteps, BetweenPhases, Phases, TimepointInv
    <3> QED BY <1>1, <3>1, <3>2 DEF PlaceInv, AtEnd, TakesReadySnapshots
  <2>2. CASE pc = "actionWindow"
    <3>1. /\ phaseObj' = phaseObj /\ pc' = "rotate" /\ p = game.active
          /\ \/ Pass(p) \/ TakeCardAction(p)
             \/ \E counter \in game.counters : ClaimCounter(p, counter)
      BY <1>14, <2>2, ChoicesMove
    <3>2. game.extra = {} /\ game.initiative # NoPlayer
      BY <2>2 DEF UndoInv, RoundPart, GameInv, BetweenPhases, BeforeFirstPlayer
    <3>3. game'.active = game.active
      BY <3>1, <3>2, ActionsChangeTheGame DEF UndoInv, RoundPart
    <3>4. /\ game.active = snapshots[currentId].state.active /\ currentId \in actionSnapshots[game.active]
          /\ currentId # NoSnapshot
      <4> DEFINE state == snapshots[currentId].state
      <4>1. /\ currentId # NoSnapshot /\ currentId \in actionSnapshots[game.active]
            /\ [state EXCEPT !.ended = game.ended] = game
        BY <1>2, <2>2 DEF UndoInv, MomentPart, TimepointInv, MomentInv, CurrentTimepoint
      <4>2. state \in GameRecords
        BY <4>1, CurrentIsRecorded DEF UndoInv
      <4> HIDE DEF state
      <4>3. state.active = game.active
        BY <4>1, <4>2 DEF GameRecords
      <4> QED BY <4>1, <4>3 DEF state
    <3> QED BY <1>1, <2>2, <3>1, <3>3, <3>4 DEF PlaceInv, AtEnd, TakesReadySnapshots
  <2> QED BY <2>1, <2>2
<1> QED BY <1>3, <1>4, <1>5, <1>6, <1>7, <1>8, <1>9, <1>10, <1>11, <1>12, <1>13, <1>14 DEF StaysAtTimepoint

LEMMA PlaceInvNext ==
  ASSUME UndoInv, GameStates = GameRecords, PlaceInv, UndoNext \/ UNCHANGED undoGameVars
  PROVE  PlaceInv'
BY UndoStepKinds, PlaceInvMoved, PlaceInvKept, PlaceInvUndone, PlaceInvStands, PlaceInvStays DEF Stays

-----------------------------------------------------------------------------
(* The order of the line, and what quick undo knows of it *)

LineOrder ==
  \A a, b \in DOMAIN snapshots : NextOf(a, b) =>
    /\ At(a, "action") => At(b, "action") \/ EndsPhase(b, "action")
    /\ EndsPhase(a, "action") => StartsPhase(b, "regroup")
    /\ At(a, "action") /\ At(b, "action") =>
         snapshots[a].nextSnapshotIsSamePlayer = (snapshots[a].state.active = snapshots[b].state.active)

Kept(p, id, source) == [id |-> id, source |-> source] \in quickSnapshots[p]
SourceOf(id) == IF At(id, "startOfPhase") THEN "phase" ELSE "action"
\* Timepoints that quick undo always knows of: a player's own actions, and the start
\* of every regroup phase.
AlwaysKept(p, id) == \/ At(id, "action") /\ snapshots[id].state.active = p
                     \/ StartsPhase(id, "regroup")

EntriesInv ==
  \A p \in Players :
    /\ \A e \in quickSnapshots[p] :
         /\ e.source = SourceOf(e.id)
         /\ At(e.id, "action") => snapshots[e.id].state.active = p
         /\ At(e.id, "endOfPhase") => snapshots[e.id].state.phase = "action"
    /\ \A id \in actionSnapshots[p] : Kept(p, id, "action")
    /\ \A id \in DOMAIN snapshots : AlwaysKept(p, id) => Kept(p, id, SourceOf(id))

HistoryDomains == DOMAIN decided = DOMAIN snapshots /\ DOMAIN informed = DOMAIN snapshots

LEMMA LineOrderMoved ==
  ASSUME UndoInv, PlaceInv, LineOrder, TimepointStep
  PROVE  LineOrder'
<1>1. StoreInv /\ HeapInv /\ MomentPart
  BY DEF UndoInv
<1>2. PICK timepoint \in SnapshotTimepoint :
        /\ MovesFrom(timepoint) /\ LineMoved(timepoint)
        /\ ~AtEnd /\ game.phase = phaseObj.name /\ phaseObj.name \in Phases
  BY TimepointMoves
<1>3. /\ currentId' \in Nat /\ currentId' \notin DOMAIN snapshots
      /\ DOMAIN snapshots' = DOMAIN snapshots \cup {currentId'}
      /\ \A id \in DOMAIN snapshots : SameRecord(id)
      /\ snapshots'[currentId'].timepoint = timepoint /\ snapshots'[currentId'].state = game
  BY <1>1, <1>2, MovedIsCurrent
<1>4. /\ snapshots'[currentId'].timepointNumber = lastAssignedTimepointNumber + 1
      /\ \A id \in DOMAIN snapshots :
           /\ SameNumber(id)
           /\ IF id = currentId /\ timepoint = "action"
              THEN snapshots'[id].nextSnapshotIsSamePlayer = (game.active = snapshots[id].state.active)
              ELSE SameMark(id)
  BY <1>2 DEF LineMoved
<1>5. \A id \in DOMAIN snapshots :
        /\ snapshots[id].timepointNumber \in Nat /\ currentId # NoSnapshot /\ currentId \in DOMAIN snapshots
        /\ snapshots[id].timepointNumber <= lastAssignedTimepointNumber
        /\ snapshots[id].timepointNumber = lastAssignedTimepointNumber => id = currentId
        /\ snapshots[currentId].timepointNumber = lastAssignedTimepointNumber
  BY <1>1, CurrentIsLast
<1>6. currentId \in DOMAIN snapshots =>
        /\ At(currentId, "action") =>
             \/ timepoint = "action"
             \/ timepoint = "endOfPhase" /\ game.phase = "action"
        /\ EndsPhase(currentId, "action") => timepoint = "startOfPhase" /\ game.phase = "regroup"
  <2> SUFFICES ASSUME currentId \in DOMAIN snapshots
               PROVE  /\ At(currentId, "action") =>
                           \/ timepoint = "action"
                           \/ timepoint = "endOfPhase" /\ game.phase = "action"
                      /\ EndsPhase(currentId, "action") => timepoint = "startOfPhase" /\ game.phase = "regroup"
    OBVIOUS
  <2>1. /\ CurrentTimepoint = snapshots[currentId].timepoint
        /\ CurrentPhase = snapshots[currentId].state.phase
    BY <1>5 DEF CurrentTimepoint, CurrentPhase
  <2>2. CASE pc = "startOfPhase"
    BY <1>2, <2>1, <2>2 DEF MovesFrom, PlaceInv, At, EndsPhase, Phases
  <2>3. CASE pc \in {"beforeMulligan", "beforeResource"}
    BY <1>1, <2>1, <2>3 DEF MomentPart, TimepointInv, At, EndsPhase
  <2>4. CASE pc = "queueNextAction"
    BY <1>2, <2>1, <2>4 DEF MovesFrom, PlaceInv, At, EndsPhase
  <2>5. CASE pc = "drawTwo" \/ (pc = "readyAllCards" /\ TakesReadySnapshots)
    BY <2>1, <2>5 DEF PlaceInv, At, EndsPhase
  <2>6. CASE pc = "endPhase"
    BY <1>2, <2>1, <2>6 DEF MovesFrom, PlaceInv, At, EndsPhase, Phases
  <2> QED BY <1>2, <2>2, <2>3, <2>4, <2>5, <2>6 DEF MovesFrom
<1>7. ASSUME NEW a \in DOMAIN snapshots', NEW b \in DOMAIN snapshots', NextOf(a, b)'
      PROVE  /\ At(a, "action")' => At(b, "action")' \/ EndsPhase(b, "action")'
             /\ EndsPhase(a, "action")' => StartsPhase(b, "regroup")'
             /\ At(a, "action")' /\ At(b, "action")' =>
                  snapshots'[a].nextSnapshotIsSamePlayer = (snapshots'[a].state.active = snapshots'[b].state.active)
  <2>1. CASE a \in DOMAIN snapshots /\ b \in DOMAIN snapshots
    <3>1. NextOf(a, b)
      BY <1>4, <1>7, <2>1 DEF NextOf, SameNumber
    <3>2. a # currentId
      BY <1>5, <2>1, <3>1 DEF NextOf
    <3>3. SameRecord(a) /\ SameRecord(b) /\ SameMark(a)
      BY <1>3, <1>4, <2>1, <3>2
    <3> QED BY <2>1, <3>1, <3>3 DEF LineOrder, SameRecord, SameMark, At, EndsPhase, StartsPhase
  <2>2. CASE a \in DOMAIN snapshots /\ b = currentId'
    <3>1. a = currentId
      BY <1>4, <1>5, <1>7, <2>2 DEF NextOf, SameNumber
    <3>2. SameRecord(a)
      BY <1>3, <2>2
    <3>3. /\ At(a, "action")' => At(b, "action")' \/ EndsPhase(b, "action")'
          /\ EndsPhase(a, "action")' => StartsPhase(b, "regroup")'
      BY <1>3, <1>6, <2>2, <3>1, <3>2 DEF SameRecord, At, EndsPhase, StartsPhase
    <3>4. At(b, "action")' =>
            snapshots'[a].nextSnapshotIsSamePlayer = (snapshots'[a].state.active = snapshots'[b].state.active)
      <4> SUFFICES ASSUME At(b, "action")'
                   PROVE  snapshots'[a].nextSnapshotIsSamePlayer
                            = (snapshots'[a].state.active = snapshots'[b].state.active)
        OBVIOUS
      <4>1. timepoint = "action"
        BY <1>3, <2>2 DEF At
      <4>2. snapshots'[a].nextSnapshotIsSamePlayer = (game.active = snapshots[a].state.active)
        BY <1>4, <2>2, <3>1, <4>1
      <4>3. snapshots'[a].state = snapshots[a].state /\ snapshots'[b].state = game
        BY <1>3, <2>2, <3>2 DEF SameRecord
      <4>4. (game.active = snapshots[a].state.active) = (snapshots[a].state.active = game.active)
        OBVIOUS
      <4> QED BY <4>2, <4>3, <4>4
    <3> QED BY <3>3, <3>4
  <2>3. CASE a = currentId'
    <3>1. lastAssignedTimepointNumber \in Nat \cup {-1}
      BY <1>1, NumbersAreDistinct
    <3>2. snapshots'[b].timepointNumber = lastAssignedTimepointNumber + 1 + 1
      BY <1>4, <1>7, <2>3 DEF NextOf
    <3>3. b \in DOMAIN snapshots => snapshots'[b].timepointNumber <= lastAssignedTimepointNumber
      BY <1>4, <1>5 DEF SameNumber
    <3>4. b \notin DOMAIN snapshots => snapshots'[b].timepointNumber = lastAssignedTimepointNumber + 1
      BY <1>3, <1>4
    <3> QED BY <3>1, <3>2, <3>3, <3>4
  <2> QED BY <1>3, <2>1, <2>2, <2>3
<1> QED BY <1>7 DEF LineOrder

LEMMA LineOrderNext ==
  ASSUME UndoInv, PlaceInv, LineOrder, UndoNext \/ UNCHANGED undoGameVars
  PROVE  LineOrder'
<1>1. StoreInv /\ HeapInv
  BY DEF UndoInv
<1>2. ASSUME DOMAIN snapshots' \subseteq DOMAIN snapshots,
             \A id \in DOMAIN snapshots' : SameRecord(id) /\ SameNumber(id) /\ SameMark(id)
      PROVE  LineOrder'
  BY <1>2 DEF LineOrder, NextOf, SameRecord, SameNumber, SameMark, At, EndsPhase, StartsPhase
<1>3. CASE FlagsRaised
  BY <1>2, <1>3 DEF FlagsRaised, StoreKept
<1>4. CASE KeepingStep
  <2>1. UNCHANGED snapshots
    BY <1>4 DEF KeepingStep, KeepTimepoint, AddQuickStartOfActionSnapshots, factoryVars
  <2> QED BY <1>2, <2>1 DEF SameRecord, SameNumber, SameMark
<1>5. ASSUME NEW id \in Targets, RollBack(id) PROVE LineOrder'
  BY <1>1, <1>2, <1>5, CutIsCurrent DEF LineCut
<1> QED BY <1>3, <1>4, <1>5, UndoStepKinds, LineOrderMoved DEF Stays, Stands

LEMMA HistoryDomainsNext ==
  ASSUME UndoInv, HistoryDomains, UndoNext \/ UNCHANGED undoGameVars
  PROVE  HistoryDomains'
<1>1. StoreInv /\ HeapInv
  BY DEF UndoInv
<1>2. CASE Stays \/ Stands
  BY <1>2 DEF Stays, Stands, FlagsRaised, StoreKept, Grows, HistoryDomains, historyVars
<1>3. CASE KeepingStep
  BY <1>3 DEF KeepingStep, KeepTimepoint, AddQuickStartOfActionSnapshots, factoryVars, historyVars, HistoryDomains
<1>4. ASSUME NEW id \in Targets, RollBack(id) PROVE HistoryDomains'
  BY <1>1, <1>4, CutIsCurrent DEF RollBack, UpTo, HistoryDomains
<1>5. CASE TimepointStep
  <2>1. DOMAIN snapshots' = DOMAIN snapshots \cup {currentId'}
    BY <1>1, <1>5, TimepointMoves, MovedIsCurrent
  <2>2. decided' = WithTimepoint(decided) /\ informed' = WithTimepoint(informed)
    BY <1>5 DEF TimepointStep
  <2> QED BY <2>1, <2>2 DEF HistoryDomains, WithTimepoint
<1> QED BY <1>2, <1>3, <1>4, <1>5, UndoStepKinds

\* A step keeps the snapshot with this id for some players.
EntriesAdded(players, source, id) ==
  /\ quickSnapshots' = WithQuickEntry(players, source, id)
  /\ \A p \in Players : actionSnapshots'[p] \subseteq
       IF p \in players /\ source = "action" THEN actionSnapshots[p] \cup {id} ELSE actionSnapshots[p]

\* The moments at which the players prompted since a timepoint was reached have it kept.
KeepsForPrompted ==
  \/ pc = "phaseEnded" /\ TakesEndSnapshots
  \/ pc = "cardsReadied" /\ TakesReadySnapshots
  \/ pc = "setupActionPhase" /\ phaseObj.mode = "normal"

LEMMA KeepingAddsEntries ==
  ASSUME UndoInv, KeepingStep
  PROVE  /\ UNCHANGED <<snapshots, currentId>>
         /\ \E players \in SUBSET Players, source \in Sources :
              /\ EntriesAdded(players, source, currentId)
              /\ players # {} =>
                   /\ KeepsForPrompted /\ prompted # {} /\ asking = <<>>
                   /\ CurrentTimepoint \notin {"action", "none"}
                   /\ source = IF CurrentTimepoint = "startOfPhase" THEN "phase" ELSE "action"
                   /\ CurrentTimepoint = "endOfPhase" => snapshots[currentId].state.phase = "action"
<1>1. StoreInv /\ HeapInv /\ MomentPart
  BY DEF UndoInv
<1>2. UNCHANGED <<snapshots, currentId>>
  BY DEF KeepingStep, KeepTimepoint, AddQuickStartOfActionSnapshots, factoryVars
<1>3. \E players \in SUBSET Players, source \in Sources :
        /\ EntriesAdded(players, source, currentId)
        /\ players # {} =>
             /\ KeepsForPrompted /\ prompted # {} /\ asking = <<>>
             /\ CurrentTimepoint \notin {"action", "none"}
             /\ source = IF CurrentTimepoint = "startOfPhase" THEN "phase" ELSE "action"
             /\ CurrentTimepoint = "endOfPhase" => snapshots[currentId].state.phase = "action"
  <2>1. prompted \in SUBSET Players
    BY DEF UndoInv, RoundPart, RoundTypeOK
  <2>2. \E players \in SUBSET Players :
          /\ players # {} => KeepsForPrompted /\ prompted # {} /\ asking = <<>>
          /\ \/ /\ KeepTimepoint(players)
                /\ players # {} =>
                     /\ CurrentTimepoint \in {"endOfPhase", "regroupReadyCards"}
                     /\ CurrentTimepoint = "endOfPhase" => snapshots[currentId].state.phase = "action"
             \/ AddQuickStartOfActionSnapshots(players) /\ CurrentTimepoint = "startOfPhase"
    <3>1. CASE PhaseEnded /\ KeepTimepoint(IF TakesEndSnapshots THEN prompted ELSE {})
      <4> DEFINE players == IF TakesEndSnapshots THEN prompted ELSE {}
      <4>1. TakesEndSnapshots => CurrentTimepoint = "endOfPhase" /\ snapshots[currentId].state.phase = "action"
        BY <1>1, <3>1 DEF PhaseEnded, AtStep, TakesEndSnapshots, MomentPart, TimepointInv, PhaseInv
      <4>2. KeepTimepoint(players) /\ players \in SUBSET Players /\ (players # {} => TakesEndSnapshots)
            /\ (players # {} => KeepsForPrompted /\ prompted # {} /\ asking = <<>>)
        BY <2>1, <3>1 DEF PhaseEnded, AtStep, KeepsForPrompted
      <4> HIDE DEF players
      <4> QED BY <4>1, <4>2
    <3>2. CASE CardsReadied /\ KeepTimepoint(IF TakesReadySnapshots THEN prompted ELSE {})
      <4> DEFINE players == IF TakesReadySnapshots THEN prompted ELSE {}
      <4>1. TakesReadySnapshots => CurrentTimepoint = "regroupReadyCards"
        BY <1>1, <3>2 DEF CardsReadied, AtStep, MomentPart, TimepointInv
      <4>2. KeepTimepoint(players) /\ players \in SUBSET Players /\ (players # {} => TakesReadySnapshots)
            /\ (players # {} => KeepsForPrompted /\ prompted # {} /\ asking = <<>>)
        BY <2>1, <3>2 DEF CardsReadied, AtStep, KeepsForPrompted
      <4> HIDE DEF players
      <4> QED BY <4>1, <4>2
    <3>3. CASE /\ SetupActionPhase
               /\ AddQuickStartOfActionSnapshots(IF phaseObj.mode = "normal" THEN prompted ELSE {})
      <4> DEFINE players == IF phaseObj.mode = "normal" THEN prompted ELSE {}
      <4>1. CurrentTimepoint = "startOfPhase"
        BY <1>1, <3>3 DEF SetupActionPhase, AtStep, MomentPart, TimepointInv
      <4>2. AddQuickStartOfActionSnapshots(players) /\ players \in SUBSET Players
            /\ (players # {} => KeepsForPrompted /\ prompted # {} /\ asking = <<>>)
        BY <2>1, <3>3 DEF SetupActionPhase, AtStep, KeepsForPrompted
      <4> HIDE DEF players
      <4> QED BY <4>1, <4>2
    <3> QED BY <3>1, <3>2, <3>3 DEF KeepingStep
  <2>3. PICK players \in SUBSET Players :
          /\ players # {} => KeepsForPrompted /\ prompted # {} /\ asking = <<>>
          /\ \/ /\ KeepTimepoint(players)
                /\ players # {} =>
                     /\ CurrentTimepoint \in {"endOfPhase", "regroupReadyCards"}
                     /\ CurrentTimepoint = "endOfPhase" => snapshots[currentId].state.phase = "action"
             \/ AddQuickStartOfActionSnapshots(players) /\ CurrentTimepoint = "startOfPhase"
    BY <2>2
  <2>4. CASE KeepTimepoint(players) /\ (players # {} =>
                /\ CurrentTimepoint \in {"endOfPhase", "regroupReadyCards"}
                /\ CurrentTimepoint = "endOfPhase" => snapshots[currentId].state.phase = "action")
    <3>1. /\ quickSnapshots' = WithQuickEntry(players, "action", currentId)
          /\ \A p \in Players : actionSnapshots'[p] \subseteq
               IF p \in players THEN actionSnapshots[p] \cup {currentId} ELSE actionSnapshots[p]
      BY <1>2, <2>4, PushedKeepsIds DEF KeepTimepoint, TakeActionSnapshots
    <3>2. "action" \in Sources
      BY DEF Sources
    <3> QED BY <2>3, <2>4, <3>1, <3>2 DEF EntriesAdded
  <2>5. CASE AddQuickStartOfActionSnapshots(players) /\ CurrentTimepoint = "startOfPhase"
    <3>1. quickSnapshots' = WithQuickEntry(players, "phase", currentId) /\ actionSnapshots' = actionSnapshots
      BY <2>5 DEF AddQuickStartOfActionSnapshots
    <3>2. "phase" \in Sources
      BY DEF Sources
    <3> QED BY <2>3, <2>5, <3>1, <3>2 DEF EntriesAdded
  <2> QED BY <2>3, <2>4, <2>5
<1> QED BY <1>2, <1>3

\* The current snapshot is known to quick undo for some players more.
LEMMA EntriesInvKept ==
  ASSUME UndoInv, EntriesInv, KeepingStep
  PROVE  EntriesInv'
<1>1. StoreInv /\ HeapInv /\ MomentPart
  BY DEF UndoInv
<1>2. UNCHANGED <<snapshots, currentId>>
  BY KeepingAddsEntries
<1>3. PICK players \in SUBSET Players, source \in Sources :
        /\ EntriesAdded(players, source, currentId)
        /\ players # {} =>
             /\ CurrentTimepoint \notin {"action", "none"}
             /\ source = IF CurrentTimepoint = "startOfPhase" THEN "phase" ELSE "action"
             /\ CurrentTimepoint = "endOfPhase" => snapshots[currentId].state.phase = "action"
  BY KeepingAddsEntries
<1>4. /\ CurrentTimepoint # "none" => currentId # NoSnapshot
      /\ currentId # NoSnapshot =>
           currentId \in DOMAIN snapshots /\ CurrentTimepoint = snapshots[currentId].timepoint
  BY <1>1, CurrentIsRecorded
<1>5. ASSUME NEW p \in Players
      PROVE  /\ quickSnapshots[p] \subseteq quickSnapshots'[p]
             /\ \A e \in quickSnapshots'[p] :
                  e \in quickSnapshots[p] \/ (e = [id |-> currentId, source |-> source] /\ p \in players)
             /\ p \in players => [id |-> currentId, source |-> source] \in quickSnapshots'[p]
  BY <1>3 DEF EntriesAdded, WithQuickEntry
<1>6. \A id \in DOMAIN snapshots : SourceOf(id)' = SourceOf(id)
  BY <1>2 DEF SourceOf, At
<1> SUFFICES ASSUME NEW p \in Players
             PROVE  /\ \A e \in quickSnapshots'[p] :
                         /\ e.source = SourceOf(e.id)'
                         /\ At(e.id, "action")' => snapshots'[e.id].state.active = p
                         /\ At(e.id, "endOfPhase")' => snapshots'[e.id].state.phase = "action"
                    /\ \A id \in actionSnapshots'[p] : Kept(p, id, "action")'
                    /\ \A id \in DOMAIN snapshots' : AlwaysKept(p, id)' => Kept(p, id, SourceOf(id))'
  BY DEF EntriesInv
<1>7. ASSUME NEW e \in quickSnapshots'[p]
      PROVE  /\ e.source = SourceOf(e.id)'
             /\ At(e.id, "action")' => snapshots'[e.id].state.active = p
             /\ At(e.id, "endOfPhase")' => snapshots'[e.id].state.phase = "action"
  <2>1. CASE e \in quickSnapshots[p]
    <3>1. e.id \in DOMAIN snapshots
      BY <1>1, <2>1, ContainersAreTyped
    <3> QED BY <1>2, <1>6, <2>1, <3>1 DEF EntriesInv, At
  <2>2. CASE e = [id |-> currentId, source |-> source] /\ p \in players
    <3>1. e.id = currentId /\ e.source = source /\ players # {}
      BY <2>2
    <3> QED BY <1>2, <1>3, <1>4, <3>1 DEF At, SourceOf
  <2> QED BY <1>5, <2>1, <2>2
<1>8. \A id \in actionSnapshots'[p] : Kept(p, id, "action")'
  BY <1>3, <1>5 DEF EntriesAdded, EntriesInv, Kept
<1>9. \A id \in DOMAIN snapshots' : AlwaysKept(p, id)' => Kept(p, id, SourceOf(id))'
  BY <1>2, <1>5, <1>6 DEF EntriesInv, AlwaysKept, Kept, At, StartsPhase
<1> QED BY <1>7, <1>8, <1>9

LEMMA MovingAddsEntries ==
  ASSUME UndoInv, TimepointStep
  PROVE  \E timepoint \in SnapshotTimepoint, players \in SUBSET Players, source \in Sources :
           /\ MovesFrom(timepoint) /\ LineMoved(timepoint) /\ EntriesAdded(players, source, currentId')
           /\ source = IF timepoint = "startOfPhase" THEN "phase" ELSE "action"
           /\ timepoint = "action" => players = {game.active}
           /\ timepoint \in {"endOfPhase", "regroupReadyCards"} => players = {}
           /\ timepoint = "startOfPhase" => players = IF game.phase = "action" THEN {} ELSE Players
           /\ timepoint = "regroupResource" /\ players # {} =>
                prompted # {} /\ phaseObj.mode # "rollbackToWithinPhase"
<1>1. prompted \in SUBSET Players
  BY DEF UndoInv, RoundPart, RoundTypeOK
<1>2. PICK timepoint \in SnapshotTimepoint :
        MovesFrom(timepoint) /\ Reaches(timepoint) /\ LineMoved(timepoint)
  BY TimepointMoves
<1>3. ASSUME NEW players \in SUBSET Players, TakeActionSnapshots(players), timepoint # "startOfPhase",
             timepoint = "action" => players = {game.active},
             timepoint \in {"endOfPhase", "regroupReadyCards"} => players = {},
             timepoint = "regroupResource" /\ players # {} =>
                prompted # {} /\ phaseObj.mode # "rollbackToWithinPhase"
      PROVE  \E others \in SUBSET Players, source \in Sources :
               /\ EntriesAdded(others, source, currentId')
               /\ source = IF timepoint = "startOfPhase" THEN "phase" ELSE "action"
               /\ timepoint = "action" => others = {game.active}
               /\ timepoint \in {"endOfPhase", "regroupReadyCards"} => others = {}
               /\ timepoint = "startOfPhase" => others = IF game.phase = "action" THEN {} ELSE Players
               /\ timepoint = "regroupResource" /\ others # {} =>
                    prompted # {} /\ phaseObj.mode # "rollbackToWithinPhase"
  <2>1. EntriesAdded(players, "action", currentId')
    BY <1>3, PushedKeepsIds DEF TakeActionSnapshots, EntriesAdded
  <2>2. "action" \in Sources
    BY DEF Sources
  <2> QED BY <1>3, <2>1, <2>2
<1>4. CASE timepoint = "startOfPhase"
  <2> DEFINE players == IF game.phase = "action" THEN {} ELSE Players
  <2>1. TakePhaseSnapshot(game.phase) /\ game.phase \in Phases
    BY <1>2, <1>4 DEF Reaches
  <2>2. players = IF game.phase \in {"regroup", "setup"} THEN Players ELSE {}
    BY <2>1 DEF Phases
  <2>3. quickSnapshots' = WithQuickEntry(players, "phase", currentId') /\ actionSnapshots' = actionSnapshots
    BY <2>1, <2>2 DEF TakePhaseSnapshot
  <2>4. EntriesAdded(players, "phase", currentId') /\ players \in SUBSET Players /\ "phase" \in Sources
    BY <2>3 DEF EntriesAdded, Sources
  <2> QED BY <1>2, <1>4, <2>4
<1>5. CASE timepoint = "regroupResource"
  <2> DEFINE players == IF phaseObj.mode = "rollbackToWithinPhase" THEN {} ELSE prompted
  <2>1. DrawTwo /\ ReachTimepoint("regroupResource", players)
    BY <1>2, <1>5 DEF MovesFrom, TimepointStep, StartOfPhaseSnapshot, SnapshotBeforeMulligan,
       SnapshotBeforeResource, OpenActionWindow, DrawTwo, EndPhase, ReadyAllCards, AtStep
  <2>2. /\ players \in SUBSET Players /\ TakeActionSnapshots(players)
        /\ players # {} => prompted # {} /\ phaseObj.mode # "rollbackToWithinPhase"
    BY <1>1, <2>1 DEF ReachTimepoint
  <2> HIDE DEF players
  <2> QED BY <1>2, <1>3, <1>5, <2>2
<1>6. CASE timepoint \notin {"startOfPhase", "regroupResource"}
  <2>1. PICK players \in SUBSET Players :
          /\ TakeActionSnapshots(players)
          /\ timepoint = "action" => players = {game.active}
          /\ timepoint \in {"endOfPhase", "regroupReadyCards"} => players = {}
    BY <1>2, <1>6 DEF Reaches
  <2> QED BY <1>2, <1>3, <1>6, <2>1
<1> QED BY <1>4, <1>5, <1>6

LEMMA EntriesInvMoved ==
  ASSUME UndoInv, EntriesInv, TimepointStep
  PROVE  EntriesInv'
<1>1. StoreInv /\ HeapInv /\ MomentPart
  BY DEF UndoInv
<1>2. PICK timepoint \in SnapshotTimepoint, players \in SUBSET Players, source \in Sources :
        /\ MovesFrom(timepoint) /\ LineMoved(timepoint) /\ EntriesAdded(players, source, currentId')
        /\ source = IF timepoint = "startOfPhase" THEN "phase" ELSE "action"
        /\ timepoint = "action" => players = {game.active}
        /\ timepoint = "endOfPhase" => players = {}
        /\ timepoint = "startOfPhase" => players = IF game.phase = "action" THEN {} ELSE Players
  BY MovingAddsEntries
<1>3. /\ currentId' \notin DOMAIN snapshots
      /\ DOMAIN snapshots' = DOMAIN snapshots \cup {currentId'}
      /\ \A id \in DOMAIN snapshots : SameRecord(id)
      /\ snapshots'[currentId'].timepoint = timepoint /\ snapshots'[currentId'].state = game
  BY <1>1, <1>2, MovedIsCurrent
<1>5. ASSUME NEW p \in Players
      PROVE  /\ quickSnapshots[p] \subseteq quickSnapshots'[p]
             /\ \A e \in quickSnapshots'[p] :
                  e \in quickSnapshots[p] \/ (e = [id |-> currentId', source |-> source] /\ p \in players)
             /\ p \in players => [id |-> currentId', source |-> source] \in quickSnapshots'[p]
  BY <1>2 DEF EntriesAdded, WithQuickEntry
<1>6. /\ \A id \in DOMAIN snapshots : SourceOf(id)' = SourceOf(id)
      /\ SourceOf(currentId)' = source
  BY <1>3, <1>2 DEF SourceOf, At, SameRecord
<1> SUFFICES ASSUME NEW p \in Players
             PROVE  /\ \A e \in quickSnapshots'[p] :
                         /\ e.source = SourceOf(e.id)'
                         /\ At(e.id, "action")' => snapshots'[e.id].state.active = p
                         /\ At(e.id, "endOfPhase")' => snapshots'[e.id].state.phase = "action"
                    /\ \A id \in actionSnapshots'[p] : Kept(p, id, "action")'
                    /\ \A id \in DOMAIN snapshots' : AlwaysKept(p, id)' => Kept(p, id, SourceOf(id))'
  BY DEF EntriesInv
<1>7. ASSUME NEW e \in quickSnapshots'[p]
      PROVE  /\ e.source = SourceOf(e.id)'
             /\ At(e.id, "action")' => snapshots'[e.id].state.active = p
             /\ At(e.id, "endOfPhase")' => snapshots'[e.id].state.phase = "action"
  <2>1. CASE e \in quickSnapshots[p]
    <3>1. e.id \in DOMAIN snapshots
      BY <1>1, <2>1, ContainersAreTyped
    <3> QED BY <1>3, <1>6, <2>1, <3>1 DEF EntriesInv, At, SameRecord
  <2>2. CASE e = [id |-> currentId', source |-> source] /\ p \in players
    <3>1. e.id = currentId' /\ e.source = source /\ players # {}
      BY <2>2
    <3> QED BY <1>3, <1>2, <1>6, <2>2, <3>1 DEF At, SourceOf
  <2> QED BY <1>5, <2>1, <2>2
<1>8. \A id \in actionSnapshots'[p] : Kept(p, id, "action")'
  BY <1>2, <1>5 DEF EntriesAdded, EntriesInv, Kept
<1>9. ASSUME NEW id \in DOMAIN snapshots', AlwaysKept(p, id)' PROVE Kept(p, id, SourceOf(id))'
  <2>1. CASE id \in DOMAIN snapshots
    <3>1. AlwaysKept(p, id)
      BY <1>3, <1>9, <2>1 DEF AlwaysKept, At, StartsPhase, SameRecord
    <3> QED BY <1>5, <1>6, <2>1, <3>1 DEF EntriesInv, Kept
  <2>2. CASE id = currentId'
    <3>1. p \in players
      BY <1>3, <1>2, <1>9, <2>2 DEF AlwaysKept, At, StartsPhase
    <3>2. [id |-> currentId', source |-> source] \in quickSnapshots'[p]
      BY <1>5, <3>1
    <3> QED BY <1>6, <2>2, <3>2 DEF Kept
  <2> QED BY <1>3, <2>1, <2>2
<1> QED BY <1>7, <1>8, <1>9

LEMMA EntriesInvUndone ==
  ASSUME UndoInv, EntriesInv, NEW id \in Targets, RollBack(id)
  PROVE  EntriesInv'
<1>1. StoreInv /\ HeapInv
  BY DEF UndoInv
<1>2. /\ DOMAIN snapshots' = {other \in DOMAIN snapshots : other <= id}
      /\ \A other \in DOMAIN snapshots' : SameRecord(other)
      /\ \A p \in Players : /\ actionSnapshots'[p] = UpTo(actionSnapshots[p], id)
                            /\ quickSnapshots'[p] = EntriesUpTo(quickSnapshots[p], id)
  BY <1>1, CutIsCurrent DEF LineCut
<1> SUFFICES ASSUME NEW p \in Players
             PROVE  /\ \A e \in quickSnapshots'[p] :
                         /\ e.source = SourceOf(e.id)'
                         /\ At(e.id, "action")' => snapshots'[e.id].state.active = p
                         /\ At(e.id, "endOfPhase")' => snapshots'[e.id].state.phase = "action"
                    /\ \A k \in actionSnapshots'[p] : Kept(p, k, "action")'
                    /\ \A k \in DOMAIN snapshots' : AlwaysKept(p, k)' => Kept(p, k, SourceOf(k))'
  BY DEF EntriesInv
<1>3. ASSUME NEW e \in quickSnapshots'[p]
      PROVE  /\ e.source = SourceOf(e.id)'
             /\ At(e.id, "action")' => snapshots'[e.id].state.active = p
             /\ At(e.id, "endOfPhase")' => snapshots'[e.id].state.phase = "action"
  <2>1. e \in quickSnapshots[p] /\ e.id \in DOMAIN snapshots'
    BY <1>1, <1>2, ContainersAreTyped DEF EntriesUpTo
  <2> QED BY <1>2, <2>1 DEF EntriesInv, SameRecord, SourceOf, At
<1>4. ASSUME NEW k \in actionSnapshots'[p] PROVE Kept(p, k, "action")'
  <2>1. k \in actionSnapshots[p] /\ k <= id
    BY <1>2 DEF UpTo
  <2> QED BY <1>2, <2>1 DEF EntriesInv, Kept, EntriesUpTo
<1>5. ASSUME NEW k \in DOMAIN snapshots', AlwaysKept(p, k)' PROVE Kept(p, k, SourceOf(k))'
  <2>1. k \in DOMAIN snapshots /\ k <= id /\ SameRecord(k)
    BY <1>2
  <2>2. AlwaysKept(p, k) /\ SourceOf(k)' = SourceOf(k)
    BY <1>5, <2>1 DEF SameRecord, AlwaysKept, At, StartsPhase, SourceOf
  <2>3. [id |-> k, source |-> SourceOf(k)] \in quickSnapshots[p]
    BY <2>1, <2>2 DEF EntriesInv, Kept
  <2> QED BY <1>2, <2>1, <2>2, <2>3 DEF Kept, EntriesUpTo
<1> QED BY <1>3, <1>4, <1>5

LEMMA EntriesInvNext ==
  ASSUME UndoInv, EntriesInv, UndoNext \/ UNCHANGED undoGameVars
  PROVE  EntriesInv'
<1>1. StoreInv /\ HeapInv
  BY DEF UndoInv
<1>2. CASE FlagsRaised
  <2>1. /\ actionSnapshots' = actionSnapshots /\ quickSnapshots' = quickSnapshots
        /\ DOMAIN snapshots' = DOMAIN snapshots
        /\ \A id \in DOMAIN snapshots : SameRecord(id)
    BY <1>1, <1>2, FlaggedIsCurrent
  <2>2. /\ \A p \in Players : \A e \in quickSnapshots[p] : e.id \in DOMAIN snapshots
        /\ \A id \in DOMAIN snapshots : SourceOf(id)' = SourceOf(id)
    BY <1>1, <2>1, ContainersAreTyped DEF SourceOf, At, SameRecord
  <2> QED BY <2>1, <2>2 DEF EntriesInv, SameRecord, At, StartsPhase, AlwaysKept, Kept
<1> QED BY <1>2, UndoStepKinds, EntriesInvMoved, EntriesInvKept, EntriesInvUndone DEF Stays, Stands

-----------------------------------------------------------------------------
(* What has happened at the timepoints of the line *)

HistoryPart == UndoInv /\ PlaceInv /\ LineOrder /\ EntriesInv /\ HistoryDomains

SameHistory(id) == decided'[id] = decided[id] /\ informed'[id] = informed[id]
NothingHappened(id) == decided[id] = {} /\ informed[id] = {}

\* Nothing has happened yet at a timepoint just reached, and nothing any more at one
\* a rollback has led to.
LEMMA MovedHistory ==
  ASSUME StoreInv, HistoryDomains, TimepointStep, NEW timepoint, LineMoved(timepoint)
  PROVE  NothingHappened(currentId)' /\ \A id \in DOMAIN snapshots : SameHistory(id)
<1>1. decided' = WithTimepoint(decided) /\ informed' = WithTimepoint(informed)
  BY DEF TimepointStep
<1>2. currentId' \notin DOMAIN snapshots
  BY MovedIsCurrent
<1> QED BY <1>1, <1>2 DEF WithTimepoint, HistoryDomains, NothingHappened, SameHistory

LEMMA UndoneHistory ==
  ASSUME StoreInv, HeapInv, HistoryDomains, NEW id \in Targets, RollBack(id)
  PROVE  /\ NothingHappened(currentId)'
         /\ \A other \in DOMAIN snapshots' : other # id => other < id /\ SameHistory(other)
<1>1. /\ currentId' = id /\ id \in Nat /\ id \in DOMAIN snapshots
      /\ DOMAIN snapshots' = {other \in DOMAIN snapshots : other <= id}
  BY CutIsCurrent
<1>2. DOMAIN snapshots \subseteq Nat
  BY ContainersAreTyped
<1>3. /\ decided' = [other \in UpTo(DOMAIN decided, id) |-> IF other = id THEN {} ELSE decided[other]]
      /\ informed' = [other \in UpTo(DOMAIN informed, id) |-> IF other = id THEN {} ELSE informed[other]]
  BY DEF RollBack
<1> QED BY <1>1, <1>2, <1>3 DEF UpTo, HistoryDomains, NothingHappened, SameHistory

\* The steps that write the history of the present timepoint.
LEMMA StayedHistory ==
  ASSUME Stays
  PROVE  \/ UNCHANGED <<decided, informed>>
         \/ Draws \/ ChooseFirstPlayer \/ Answer \/ \E p \in Players : Choice(p)
BY DEF Stays, PlainStep, RepeatedStep, DrawingStep, FirstPlayerStep, PlayerChoice, AnswerQuestion, Choice

\* The phase is set up again after a rollback.
Rebuilt == pc = "setCurrentPhase" /\ phaseObj.mode # "normal"

\* Where a timepoint was just reached, by playing or by undoing, nothing has happened since.
FreshInv ==
  Rebuilt \/ (pc = "queueNextAction" /\ OpensAgain) \/ pc = "actionWindow" => NothingHappened(currentId)

LEMMA FreshInvNext ==
  ASSUME HistoryPart, GameStates = GameRecords, FreshInv, UndoNext \/ UNCHANGED undoGameVars
  PROVE  FreshInv'
<1>1. UndoInv /\ RoundPart /\ StoreInv /\ HeapInv /\ MomentPart /\ HistoryDomains
  BY DEF HistoryPart, UndoInv
<1>2. CASE TimepointStep
  BY <1>1, <1>2, TimepointMoves, MovedHistory DEF FreshInv
<1>3. ASSUME NEW id \in Targets, RollBack(id) PROVE FreshInv'
  BY <1>1, <1>3, UndoneHistory DEF FreshInv
<1>4. CASE KeepingStep
  <2>1. UNCHANGED <<snapshots, currentId>>
    BY <1>1, <1>4, KeepingAddsEntries
  <2>2. SetupActionPhase => CurrentTimepoint' = "startOfPhase"
    BY <1>1, <2>1 DEF SetupActionPhase, AtStep, MomentPart, TimepointInv, CurrentTimepoint
  <2> QED BY <1>4, <2>2
             DEF KeepingStep, PhaseEnded, CardsReadied, SetupActionPhase, NewPhase, FreshInv, Rebuilt, OpensAgain,
                 AtStep
<1>5. CASE Stands
  <2>1. /\ UNCHANGED <<pc, phaseObj, decided, informed>> /\ currentId' = currentId
        /\ CurrentTimepoint' = CurrentTimepoint
        /\ currentId # NoSnapshot => snapshots'[currentId'].state = snapshots[currentId].state
    BY <1>1, <1>5, FlaggedIsCurrent DEF Stands, historyVars
  <2>2. pc = "queueNextAction" => game' = game
    BY <1>1, <1>5, WaitingIsRecorded DEF Stands
  <2>3. CurrentTimepoint = "action" => currentId # NoSnapshot
    BY DEF CurrentTimepoint
  <2> QED BY <2>1, <2>2, <2>3 DEF FreshInv, Rebuilt, OpensAgain, NothingHappened
<1>6. CASE Stays
  <2>1. /\ currentId' = currentId /\ CurrentTimepoint' = CurrentTimepoint
        /\ currentId # NoSnapshot => snapshots'[currentId'].state = snapshots[currentId].state
        /\ CurrentTimepoint = "action" => currentId # NoSnapshot
    BY <1>1, <1>6, FlaggedIsCurrent DEF Stays, CurrentTimepoint
  <2>2. CASE SetCurrentPhase
    <3>1. UNCHANGED <<decided, informed>>
      BY <1>1, <1>6, <2>2, StayedHistory, ChoicesMove
         DEF SetCurrentPhase, AtStep, Draws, ChooseFirstPlayer, Answer
    <3>2. phaseObj.mode = "normal" => ~Rebuilt' /\ pc' = "startOfPhase"
      BY <2>2 DEF SetCurrentPhase, Rebuilt
    <3> QED BY <2>1, <2>2, <3>1, <3>2 DEF FreshInv, Rebuilt, SetCurrentPhase, AtStep, NothingHappened
  <2>3. CASE OpenActionWindow /\ OpensAgain
    <3>1. UNCHANGED <<decided, informed>>
      BY <1>1, <1>6, <2>3, StayedHistory, ChoicesMove
         DEF OpenActionWindow, AtStep, Draws, ChooseFirstPlayer, Answer
    <3> QED BY <2>1, <2>3, <3>1 DEF FreshInv, OpenActionWindow, AtStep, NothingHappened
  <2>4. CASE RotateActivePlayer
    <3>1. /\ CurrentTimepoint = "action" /\ snapshots[currentId].state.actionNumber = game.actionNumber
          /\ game \in GameRecords
      BY <1>1, <2>4 DEF RotateActivePlayer, AtStep, MomentPart, TimepointInv, MomentInv, RoundPart, RoundTypeOK
    <3>2. pc' = "queueNextAction" => game'.actionNumber # game.actionNumber
      BY <2>4, <3>1 DEF RotateActivePlayer, GameRecords
    <3> QED BY <2>1, <2>4, <3>1, <3>2 DEF RotateActivePlayer, FreshInv, Rebuilt, OpensAgain
  <2>5. CASE Answer
    <3>1. pc' = pc /\ pc \notin {"setCurrentPhase", "queueNextAction", "actionWindow"}
      BY <1>1, <2>5 DEF Answer, RoundPart, FlowInv, AfterWindows
    <3> QED BY <3>1 DEF FreshInv, Rebuilt
  <2>6. CASE StartPhase
    <3>1. pc' = phaseObj.first /\ phaseObj.first \notin {"setCurrentPhase", "queueNextAction", "actionWindow"}
      BY <1>1, <2>6, FirstStepsAreOwn, PhasesThatRun
         DEF StartPhase, AtStep, RoundPart, FlowInv, Modes, Phases, FirstStep
    <3> QED BY <3>1 DEF FreshInv, Rebuilt
  <2>7. CASE \E p \in Players : Choice(p)
    BY <2>7, ChoicesMove DEF FreshInv, Rebuilt
  <2>8. CASE BeginRound
    BY <2>8 DEF BeginRound, NewPhase, FreshInv, Rebuilt
  <2>9. CASE \/ OpenMulliganPrompt \/ OpenSetupResourcePrompt \/ OpenResourcePrompt
             \/ TearDownActionPhase \/ EndPhase \/ ReadyAllCards \/ Draws \/ ChooseFirstPlayer
    BY <2>9 DEF OpenMulliganPrompt, OpenSetupResourcePrompt, OpenResourcePrompt, OpenPrompt, TearDownActionPhase,
                EndPhase, ReadyAllCards, Draws, ChooseFirstPlayer, FreshInv, Rebuilt
  <2> QED BY <1>6, <2>2, <2>3, <2>4, <2>5, <2>6, <2>7, <2>8, <2>9 DEF Stays, StaysAtTimepoint
<1> QED BY <1>1, <1>2, <1>3, <1>4, <1>5, <1>6, UndoStepKinds

-----------------------------------------------------------------------------
(* Whose turn it is *)

\* Only at an action and at the start of the action phase has a player the turn.
IdleLine ==
  \A id \in DOMAIN snapshots :
    snapshots[id].state.active # NoPlayer => At(id, "action") \/ StartsPhase(id, "action")

IdleGame ==
  game.active # NoPlayer =>
    phaseObj.name = "action" /\ ~AtEnd /\ pc \notin {"tearDown", "endPhase", "phaseEnded"}

LEMMA IdleLineNext ==
  ASSUME UndoInv, IdleLine, IdleGame, UndoNext \/ UNCHANGED undoGameVars
  PROVE  IdleLine'
<1>1. StoreInv /\ HeapInv
  BY DEF UndoInv
<1>2. ASSUME DOMAIN snapshots' \subseteq DOMAIN snapshots, \A id \in DOMAIN snapshots' : SameRecord(id)
      PROVE  IdleLine'
  BY <1>2 DEF IdleLine, SameRecord, At, StartsPhase
<1>3. CASE FlagsRaised
  BY <1>1, <1>2, <1>3, FlaggedIsCurrent
<1>4. CASE KeepingStep
  BY <1>2, <1>4, KeepingAddsEntries DEF SameRecord
<1>5. ASSUME NEW id \in Targets, RollBack(id) PROVE IdleLine'
  BY <1>1, <1>2, <1>5, CutIsCurrent
<1>6. CASE TimepointStep
  <2>1. PICK timepoint \in SnapshotTimepoint :
          MovesFrom(timepoint) /\ LineMoved(timepoint) /\ game.phase = phaseObj.name
    BY <1>6, TimepointMoves
  <2>2. /\ \A id \in DOMAIN snapshots : SameRecord(id)
        /\ snapshots'[currentId'].timepoint = timepoint /\ snapshots'[currentId'].state = game
        /\ DOMAIN snapshots' = DOMAIN snapshots \cup {currentId'}
    BY <1>1, <2>1, MovedIsCurrent
  <2>3. game.active # NoPlayer => timepoint = "action" \/ (timepoint = "startOfPhase" /\ game.phase = "action")
    BY <2>1 DEF IdleGame, MovesFrom
  <2> QED BY <2>2, <2>3 DEF IdleLine, SameRecord, At, StartsPhase
<1> QED BY <1>3, <1>4, <1>5, <1>6, UndoStepKinds DEF Stays, Stands

LEMMA IdleGameNext ==
  ASSUME UndoInv, PlaceInv, GameStates = GameRecords, IdleLine, IdleGame, UndoNext \/ UNCHANGED undoGameVars
  PROVE  IdleGame'
<1>1. /\ RoundPart /\ StoreInv /\ HeapInv /\ MomentPart /\ game \in GameRecords
      /\ FlowInv /\ phaseObj \in RunnablePhases /\ phaseObj.name \in Phases /\ phaseObj.mode \in Modes
  BY PhasesThatRun DEF UndoInv, RoundPart, RoundTypeOK, FlowInv
<1>2. CASE TimepointStep
  <2>1. PICK timepoint \in SnapshotTimepoint :
          MovesFrom(timepoint) /\ phaseObj' = phaseObj /\ game'.active = game.active
    BY <1>2, TimepointMoves
  <2> QED BY <2>1 DEF IdleGame, MovesFrom, AtEnd
<1>3. ASSUME NEW id \in Targets, RollBack(id) PROVE IdleGame'
  <2>1. /\ pc' = "setCurrentPhase" /\ phaseObj' = EntryPoint(snapshots[id]) /\ game' = snapshots[id].state
        /\ AtEnd' <=> At(id, "endOfPhase")
        /\ id \in DOMAIN snapshots
    BY <1>1, <1>3, CutIsCurrent
  <2>2. game'.active # NoPlayer => At(id, "action") \/ StartsPhase(id, "action")
    BY <2>1 DEF IdleLine
  <2>3. /\ At(id, "action") => phaseObj'.name = "action" /\ ~AtEnd'
        /\ StartsPhase(id, "action") => phaseObj'.name = "action" /\ ~AtEnd'
    BY <2>1 DEF At, StartsPhase, EntryPoint
  <2> QED BY <2>1, <2>2, <2>3 DEF IdleGame
<1>4. CASE KeepingStep
  <2>1. CASE PhaseEnded
    BY <2>1 DEF PhaseEnded, AtStep, IdleGame
  <2>2. CASE CardsReadied
    BY <1>1, <2>2 DEF CardsReadied, AtStep, IdleGame, FlowInv, OwnSteps, BetweenPhases, Phases
  <2>3. CASE SetupActionPhase
    BY <1>1, <2>3 DEF SetupActionPhase, AtStep, IdleGame, AtEnd, GameRecords
  <2> QED BY <1>4, <2>1, <2>2, <2>3 DEF KeepingStep
<1>5. CASE Stands
  <2>1. UNCHANGED <<pc, phaseObj>>
    BY <1>5 DEF Stands
  <2>2. CASE game'.active = game.active
    BY <2>1, <2>2 DEF IdleGame, AtEnd
  <2>3. CASE Waiting /\ game' = snapshots[currentId].state
    <3>1. /\ pc \in {"setupActionPhase", "tearDown", "rotate", "drawTwo", "resourcePrompt", "cardsReadied",
                     "phaseEnded", "mulligan", "setupResource", "regroupResource", "actionWindow"}
          /\ currentId # NoSnapshot /\ snapshots[currentId].state.phase = phaseObj.name
          /\ CurrentTimepoint = snapshots[currentId].timepoint
          /\ currentId \in DOMAIN snapshots /\ Recorded(snapshots[currentId])
      BY <1>1, <2>3, WaitingIsRecorded, CurrentIsRecorded
    <3>2. game'.active # NoPlayer => /\ CurrentTimepoint \in {"action", "startOfPhase"}
                                     /\ phaseObj.name = "action"
      BY <2>3, <3>1 DEF IdleLine, At, StartsPhase, Recorded
    <3>3. CurrentTimepoint \in {"action", "startOfPhase"} => ~AtEnd /\ pc # "phaseEnded"
      BY DEF PlaceInv
    <3>4. pc = "tearDown" => AtEnd
      BY <2>3 DEF PlaceInv, Waiting, PromptedAll
    <3> QED BY <2>1, <3>1, <3>2, <3>3, <3>4 DEF IdleGame, AtEnd
  <2>4. game' = [game EXCEPT !.ended = TRUE] => game'.active = game.active
    BY <1>1 DEF GameRecords
  <2> QED BY <1>5, <2>2, <2>3, <2>4 DEF Stands
<1>6. CASE Stays
  <2>1. CASE SetCurrentPhase
    <3>1. game'.active = game.active /\ phaseObj' = phaseObj
      BY <1>1, <2>1 DEF SetCurrentPhase, GameRecords
    <3>2. pc' \notin {"tearDown", "endPhase", "phaseEnded"}
      BY <1>1, <2>1, FirstStepsAreOwn DEF SetCurrentPhase, ResumedSteps, Phases
    <3> QED BY <3>1, <3>2 DEF IdleGame, AtEnd
  <2>2. CASE StartPhase
    <3>1. game'.active = game.active /\ phaseObj' = phaseObj /\ pc' = phaseObj.first
      BY <1>1, <2>2 DEF StartPhase, GameRecords
    <3>2. pc' \in {"chooseFirstPlayer", "setupActionPhase", "drawTwo", "tearDown"} /\ (pc' = "tearDown" => AtEnd)
      BY <1>1, <2>2, FirstStepsAreOwn DEF StartPhase, AtStep, Modes, Phases, FirstStep, FlowInv, AtEnd
    <3> QED BY <3>1, <3>2 DEF IdleGame, AtEnd
  <2>3. CASE BeginRound
    BY <2>3 DEF BeginRound, NewPhase, IdleGame, AtEnd
  <2>4. CASE RotateActivePlayer
    <3>1. game'.active = NextActive /\ phaseObj' = phaseObj /\ game.active # NoPlayer
      BY <1>1, <2>4, RoundFlowAssumption DEF RotateActivePlayer, AtStep, GameRecords, RoundPart, GameInv
    <3> QED BY <2>4, <3>1 DEF RotateActivePlayer, AtStep, IdleGame, AtEnd
  <2>5. CASE TearDownActionPhase \/ EndPhase
    <3>1. game'.active = game.active /\ game.active = NoPlayer
      BY <1>1, <2>5 DEF TearDownActionPhase, EndPhase, AtStep, GameRecords, IdleGame
    <3> QED BY <3>1 DEF IdleGame
  <2>6. ASSUME NEW p \in Players, Choice(p) PROVE IdleGame'
    <3>1. CASE pc = "actionWindow"
      <4>1. /\ phaseObj' = phaseObj /\ pc' = "rotate"
            /\ \/ Pass(p) \/ TakeCardAction(p)
               \/ \E counter \in game.counters : ClaimCounter(p, counter)
        BY <2>6, <3>1, ChoicesMove
      <4>2. game.extra = {} /\ game.initiative # NoPlayer
        BY <1>1, <3>1 DEF RoundPart, GameInv, BetweenPhases, BeforeFirstPlayer
      <4>3. game'.active = game.active
        BY <1>1, <4>1, <4>2, ActionsChangeTheGame DEF RoundPart
      <4> QED BY <3>1, <4>1, <4>3 DEF IdleGame, AtEnd
    <3>2. CASE pc # "actionWindow"
      <4>1. /\ game' = game /\ phaseObj' = phaseObj
            /\ pc' = "endPhase" => pc = "setupResource"
            /\ pc' \notin {"tearDown", "phaseEnded"}
        BY <2>6, <3>2, ChoicesMove
      <4>2. pc = "setupResource" => phaseObj.name = "setup"
        BY <1>1 DEF FlowInv, OwnSteps, BetweenPhases, Phases
      <4> QED BY <4>1, <4>2 DEF IdleGame, AtEnd
    <3> QED BY <3>1, <3>2
  <2>7. CASE OpenMulliganPrompt \/ OpenSetupResourcePrompt \/ OpenResourcePrompt \/ OpenActionWindow
             \/ ReadyAllCards \/ Draws
    BY <2>7 DEF OpenMulliganPrompt, OpenSetupResourcePrompt, OpenResourcePrompt, OpenPrompt, OpenActionWindow,
                ReadyAllCards, Draws, IdleGame, AtEnd, AtStep
  <2>8. CASE Answer
    BY <2>8 DEF Answer, IdleGame, AtEnd
  <2>9. CASE ChooseFirstPlayer
    <3>1. game'.active = game.active
      BY <1>1, <2>9 DEF ChooseFirstPlayer, GameRecords
    <3> QED BY <2>9, <3>1 DEF ChooseFirstPlayer, IdleGame, AtEnd
  <2> QED BY <1>6, <2>1, <2>2, <2>3, <2>4, <2>5, <2>6, <2>7, <2>8, <2>9 DEF Stays, StaysAtTimepoint
<1> QED BY <1>2, <1>3, <1>4, <1>5, <1>6, UndoStepKinds

-----------------------------------------------------------------------------
(* What was decided and what was revealed *)

\* Who decides is one of the players, and an ability that counts has been noted.
LEMMA DecisionsOfAStep ==
  ASSUME UndoInv, HistoryDomains, Stays
  PROVE  /\ resolved \subseteq resolved' /\ resolved' \subseteq resolved \cup Players
         /\ \/ UNCHANGED decided
            \/ \E p \in Players, ability \in BOOLEAN :
                 /\ currentId # NoSnapshot => decided'[currentId] = decided[currentId] \cup {[by |-> p, ability |-> ability]}
                 /\ ability => p \in resolved'
                 /\ (ChooseFirstPlayer /\ ~ability) \/ Choice(p) \/ (Answer /\ p = Head(asking))
<1>1. /\ StoreInv /\ HeapInv
      /\ currentId # NoSnapshot => currentId \in DOMAIN decided
  BY CurrentIsRecorded DEF UndoInv, HistoryDomains
<1>2. \A p, ability : Decides(p, ability) /\ currentId # NoSnapshot =>
        decided'[currentId] = decided[currentId] \cup {[by |-> p, ability |-> ability]}
  BY <1>1 DEF Decides
<1>3. CASE PlainStep \/ RepeatedStep \/ DrawingStep
  BY <1>3 DEF PlainStep, RepeatedStep, DrawingStep
<1>4. CASE FirstPlayerStep
  <2>1. PICK p \in Players : Decides(p, FALSE)
    BY <1>4 DEF FirstPlayerStep
  <2> QED BY <1>2, <1>4, <2>1 DEF FirstPlayerStep
<1>5. ASSUME NEW p \in Players, PlayerChoice(p)
      PROVE  /\ resolved \subseteq resolved' /\ resolved' \subseteq resolved \cup Players
             /\ Decides(p, p \in resolved') /\ Choice(p)
  BY <1>5 DEF PlayerChoice, Choice
<1>6. CASE AnswerQuestion
  <2>1. /\ resolved \subseteq resolved' /\ resolved' \subseteq resolved \cup {Head(asking)} /\ Answer
        /\ Decides(Head(asking), Head(asking) \in resolved')
    BY <1>6 DEF AnswerQuestion
  <2>2. Head(asking) \in Players
    BY <2>1 DEF Answer, UndoInv, RoundPart, RoundTypeOK
  <2> DEFINE p == Head(asking)
             ability == Head(asking) \in resolved'
  <2>3. p \in Players /\ ability \in BOOLEAN
    BY <2>2
  <2>4. /\ currentId # NoSnapshot => decided'[currentId] = decided[currentId] \cup {[by |-> p, ability |-> ability]}
        /\ ability => p \in resolved'
        /\ Answer /\ p = Head(asking)
    BY <1>2, <2>1
  <2>5. resolved' \subseteq resolved \cup Players
    BY <2>1, <2>2
  <2> HIDE DEF p, ability
  <2> QED BY <2>1, <2>3, <2>4, <2>5
<1>7. ASSUME NEW p \in Players, PlayerChoice(p)
      PROVE  \E q \in Players, ability \in BOOLEAN :
               /\ currentId # NoSnapshot => decided'[currentId] = decided[currentId] \cup {[by |-> q, ability |-> ability]}
               /\ ability => q \in resolved'
               /\ Choice(q)
  <2>1. (p \in resolved') \in BOOLEAN
    OBVIOUS
  <2> QED BY <1>2, <1>5, <1>7, <2>1
<1> QED BY <1>3, <1>4, <1>5, <1>6, <1>7 DEF Stays

\* What is revealed to a player is noted on the player's latest snapshot.
LEMMA RevelationsOfAStep ==
  ASSUME UndoInv, HistoryDomains, Stays
  PROVE  \/ UNCHANGED informed
         \/ \E players :
              /\ RequireConfirmation(players)
              /\ currentId # NoSnapshot => informed'[currentId] = informed[currentId] \cup players
              /\ \/ Draws \/ (\E p \in Players : Choice(p))
                 \/ /\ Answer
                    /\ game.active # Head(asking) /\ game.active # NoPlayer => game.active \in players
                    /\ pc \notin RevealingSteps /\ game.active = NoPlayer => players = {}
<1>1. currentId # NoSnapshot => currentId \in DOMAIN informed
  BY CurrentIsRecorded DEF UndoInv, HistoryDomains
<1>2. \A players : Reveal(players) =>
        /\ RequireConfirmation(players)
        /\ currentId # NoSnapshot => informed'[currentId] = informed[currentId] \cup players
  BY <1>1 DEF Reveal
<1>3. CASE PlainStep \/ RepeatedStep \/ FirstPlayerStep
  BY <1>3 DEF PlainStep, RepeatedStep, FirstPlayerStep
<1>4. CASE DrawingStep
  BY <1>2, <1>4 DEF DrawingStep
<1>5. ASSUME NEW p \in Players, PlayerChoice(p)
      PROVE  Choice(p) /\ (UNCHANGED informed \/ \E players : Reveal(players))
  BY <1>5 DEF PlayerChoice, Choice
<1>6. CASE AnswerQuestion
  <2> DEFINE p == Head(asking)
             acting == IF game.active = NoPlayer THEN {} ELSE {game.active} \ {p}
  <2>1. PICK players \in RevealedTo(p) : Reveal(players \cup acting)
    BY <1>6 DEF AnswerQuestion
  <2>2. pc \notin RevealingSteps => players = {}
    BY <2>1 DEF RevealedTo
  <2>3. /\ game.active # p /\ game.active # NoPlayer => game.active \in players \cup acting
        /\ pc \notin RevealingSteps /\ game.active = NoPlayer => players \cup acting = {}
    BY <2>2
  <2>4. Answer
    BY <1>6 DEF AnswerQuestion
  <2> HIDE DEF acting
  <2> QED BY <1>2, <2>1, <2>3, <2>4
<1> QED BY <1>2, <1>3, <1>4, <1>5, <1>6 DEF Stays

\* A step that answers a question leaves the pipeline at one of these.
LEMMA QuestionsAreAsked ==
  ASSUME UndoInv, PlaceInv, asking # <<>>
  PROVE  /\ CurrentTimepoint = "action" => pc = "rotate"
         /\ CurrentTimepoint = "endOfPhase" => pc \in {"tearDown", "phaseEnded"}
<1>1. /\ pc \in AfterWindows /\ TimepointInv /\ phaseObj \in RunnablePhases /\ phaseObj.name \in Phases
      /\ pc = "cardsReadied" => phaseObj.name = "regroup"
  BY PhasesThatRun DEF UndoInv, RoundPart, FlowInv, MomentPart, OwnSteps, BetweenPhases, Phases
<1> QED BY <1>1 DEF AfterWindows, TimepointInv, PlaceInv, AtEnd

\* The players who resolved an ability at the present timepoint are remembered.
ResolvedInv ==
  /\ resolved \subseteq Players
  /\ currentId # NoSnapshot => \A d \in decided[currentId] : d.ability => d.by \in resolved

LEMMA ResolvedInvNext ==
  ASSUME UndoInv, HistoryDomains, ResolvedInv, UndoNext \/ UNCHANGED undoGameVars
  PROVE  ResolvedInv'
<1>1. StoreInv /\ HeapInv
  BY DEF UndoInv
<1>2. CASE TimepointStep
  <2>1. resolved' = {}
    BY <1>2 DEF TimepointStep
  <2> QED BY <1>1, <1>2, <2>1, TimepointMoves, MovedHistory DEF ResolvedInv, NothingHappened
<1>3. ASSUME NEW id \in Targets, RollBack(id) PROVE ResolvedInv'
  <2>1. resolved' = resolved
    BY <1>3 DEF RollBack
  <2> QED BY <1>1, <1>3, <2>1, UndoneHistory DEF ResolvedInv, NothingHappened
<1>4. CASE KeepingStep
  BY <1>4, KeepingAddsEntries DEF KeepingStep, historyVars, ResolvedInv
<1>5. CASE Stands
  BY <1>1, <1>5, FlaggedIsCurrent DEF Stands, historyVars, ResolvedInv
<1>6. CASE Stays
  BY <1>1, <1>6, FlaggedIsCurrent, DecisionsOfAStep DEF ResolvedInv, Stays
<1> QED BY <1>2, <1>3, <1>4, <1>5, <1>6, UndoStepKinds

\* An action at which the opponent resolved an ability needs consent.
AbilityFlagged ==
  \A id \in DOMAIN snapshots : At(id, "action") =>
    \A d \in decided[id] : d.ability /\ d.by # snapshots[id].state.active => Flagged(id)

LEMMA AbilityFlaggedStays ==
  ASSUME UndoInv, PlaceInv, HistoryDomains, AbilityFlagged, Stays, GameStates = GameRecords
  PROVE  AbilityFlagged'
<1>1. /\ StoreInv /\ HeapInv /\ MomentPart
      /\ DOMAIN snapshots' = DOMAIN snapshots /\ \A id \in DOMAIN snapshots : SameRecord(id)
      /\ \A id \in DOMAIN snapshots : Flagged(id) => Flagged(id)'
      /\ \A id \in DOMAIN snapshots : id # currentId => decided'[id] = decided[id]
  BY FlaggedIsCurrent DEF UndoInv, Stays, FlagsRaised, Grows, HistoryDomains
<1> SUFFICES ASSUME NEW id \in DOMAIN snapshots, At(id, "action"),
                    NEW d \in decided'[id], d.ability, d.by # snapshots[id].state.active
             PROVE  Flagged(id)'
  BY <1>1 DEF AbilityFlagged, SameRecord, At
<1>2. CASE d \in decided[id]
  BY <1>1, <1>2 DEF AbilityFlagged
<1>3. CASE d \notin decided[id]
  <2>1. /\ id = currentId /\ currentId # NoSnapshot /\ CurrentTimepoint = "action" /\ decided' # decided
    BY <1>1, <1>3, CurrentIsLast, CurrentIsRecorded DEF At
  <2>2. PICK p \in Players, ability \in BOOLEAN :
          /\ decided'[currentId] = decided[currentId] \cup {[by |-> p, ability |-> ability]}
          /\ (ChooseFirstPlayer /\ ~ability) \/ Choice(p) \/ (Answer /\ p = Head(asking))
    BY <2>1, DecisionsOfAStep
  <2>3. d = [by |-> p, ability |-> ability]
    BY <1>3, <2>1, <2>2
  <2>4. ability /\ p # snapshots[currentId].state.active
    BY <2>1, <2>3
  <2>5. ~Choice(p)
    <3> SUFFICES ASSUME Choice(p) PROVE FALSE
      OBVIOUS
    <3>1. pc = "actionWindow" /\ p = game.active
      BY <1>1, <2>1, ChoicesMove DEF MomentPart, TimepointInv, PlaceInv
    <3> DEFINE state == snapshots[currentId].state
    <3>2. [state EXCEPT !.ended = game.ended] = game /\ state \in GameStates
      BY <1>1, <2>1, <3>1, CurrentIsRecorded DEF MomentPart, MomentInv
    <3> HIDE DEF state
    <3>3. state.active = game.active
      BY <3>2 DEF GameRecords
    <3> QED BY <2>4, <3>1, <3>3 DEF state
  <2>6. Answer /\ p = Head(asking)
    BY <2>2, <2>4, <2>5
  <2>7. pc = "rotate" /\ asking # <<>>
    BY <2>1, <2>6, QuestionsAreAsked DEF Answer
  <2>8. /\ game.active = snapshots[currentId].state.active /\ currentId \in actionSnapshots[game.active]
        /\ game.active \in Players
    BY <2>7 DEF PlaceInv, UndoInv, RoundPart, GameInv
  <2>9. \E players : game.active \in players /\ RequireConfirmation(players)
    <3>1. AnswerQuestion
      BY <2>6, <2>7, ChoicesMove DEF Stays, PlainStep, RepeatedStep, DrawingStep, FirstPlayerStep, PlayerChoice,
         Choice, StartPhase, SetCurrentPhase, BeginRound, OpenMulliganPrompt, OpenSetupResourcePrompt,
         OpenResourcePrompt, OpenPrompt, RotateActivePlayer, TearDownActionPhase, OpenActionWindow, EndPhase,
         ReadyAllCards, Draws, ChooseFirstPlayer, AtStep
    <3> DEFINE acting == IF game.active = NoPlayer THEN {} ELSE {game.active} \ {Head(asking)}
    <3>2. PICK players \in RevealedTo(Head(asking)) : Reveal(players \cup acting)
      BY <3>1 DEF AnswerQuestion
    <3>3. game.active \in players \cup acting
      BY <2>4, <2>6, <2>8, RoundFlowAssumption
    <3> HIDE DEF acting
    <3> QED BY <3>2, <3>3 DEF Reveal
  <2>10. IsLatest(currentId, actionSnapshots[game.active])
    BY <1>1, <2>8, ContainersAreTyped, CurrentIsLast DEF IsLatest
  <2>11. snapshots[currentId] \in Snapshots /\ currentId \in DOMAIN snapshots
    BY <1>1, <2>1 DEF StoreInv, SnapshotTypeOK
  <2> QED BY <2>1, <2>9, <2>10, <2>11 DEF RequireConfirmation, ConfirmationRequired, Flagged, Snapshots
<1> QED BY <1>2, <1>3

LEMMA AbilityFlaggedNext ==
  ASSUME UndoInv, PlaceInv, HistoryDomains, AbilityFlagged, UndoNext \/ UNCHANGED undoGameVars,
         GameStates = GameRecords
  PROVE  AbilityFlagged'
<1>1. StoreInv /\ HeapInv
  BY DEF UndoInv
<1>2. CASE TimepointStep
  <2>1. PICK timepoint \in SnapshotTimepoint : LineMoved(timepoint)
    BY <1>2, TimepointMoves
  <2>2. /\ DOMAIN snapshots' = DOMAIN snapshots \cup {currentId'}
        /\ \A id \in DOMAIN snapshots : SameRecord(id)
        /\ \A id \in DOMAIN snapshots : SameFlag(id)
    BY <1>1, <2>1, MovedIsCurrent DEF LineMoved
  <2>3. NothingHappened(currentId)' /\ \A id \in DOMAIN snapshots : SameHistory(id)
    BY <1>1, <1>2, <2>1, MovedHistory
  <2> QED BY <2>2, <2>3 DEF AbilityFlagged, NothingHappened, SameHistory, SameRecord, SameFlag, At, Flagged
<1>3. ASSUME NEW id \in Targets, RollBack(id) PROVE AbilityFlagged'
  <2>1. /\ DOMAIN snapshots' \subseteq DOMAIN snapshots /\ currentId' = id
        /\ \A other \in DOMAIN snapshots' : SameRecord(other) /\ (other # id => SameFlag(other))
    BY <1>1, <1>3, CutIsCurrent DEF LineCut
  <2>2. /\ NothingHappened(currentId)'
        /\ \A other \in DOMAIN snapshots' : other # id => other < id /\ SameHistory(other)
    BY <1>1, <1>3, UndoneHistory
  <2> QED BY <2>1, <2>2 DEF AbilityFlagged, NothingHappened, SameHistory, SameRecord, SameFlag, At, Flagged
<1>4. CASE KeepingStep
  BY <1>4, KeepingAddsEntries DEF KeepingStep, historyVars, AbilityFlagged, At, Flagged
<1>5. CASE Stands
  <2>1. /\ DOMAIN snapshots' = DOMAIN snapshots /\ UNCHANGED decided
        /\ \A id \in DOMAIN snapshots : SameRecord(id) /\ (Flagged(id) => Flagged(id)')
    BY <1>1, <1>5, FlaggedIsCurrent DEF Stands, FlagsRaised, historyVars
  <2> QED BY <2>1 DEF AbilityFlagged, SameRecord, At
<1>6. CASE Stays
  BY <1>6, AbilityFlaggedStays
<1> QED BY <1>2, <1>3, <1>4, <1>5, <1>6, UndoStepKinds

\* What was revealed to a player is noted on every earlier action of that player, or
\* quick undo knows a newer timepoint from before it was revealed.
InformedFlagged ==
  \A o \in DOMAIN informed : \A p \in informed[o] \cap Players : \A k \in actionSnapshots[p] :
    At(k, "action") /\ k <= o =>
      Flagged(k) \/ \E id : Kept(p, id, "action") /\ k < id /\ id <= o

LEMMA InformedFlaggedNext ==
  ASSUME HistoryPart, InformedFlagged, UndoNext \/ UNCHANGED undoGameVars
  PROVE  InformedFlagged'
<1>1. UndoInv /\ StoreInv /\ HeapInv /\ EntriesInv /\ HistoryDomains
  BY DEF HistoryPart, UndoInv
<1>2. /\ \A p \in Players : actionSnapshots[p] \subseteq DOMAIN snapshots
      /\ DOMAIN snapshots \subseteq Nat
  BY <1>1, ContainersAreTyped
<1>3. CASE TimepointStep
  <2>1. PICK timepoint \in SnapshotTimepoint, players \in SUBSET Players, source \in Sources :
          LineMoved(timepoint) /\ EntriesAdded(players, source, currentId')
    BY <1>1, <1>3, MovingAddsEntries
  <2>2. /\ DOMAIN snapshots' = DOMAIN snapshots \cup {currentId'}
        /\ \A id \in DOMAIN snapshots : id < currentId' /\ SameRecord(id)
        /\ \A id \in DOMAIN snapshots : SameFlag(id)
        /\ currentId' \in Nat
    BY <1>1, <2>1, MovedIsCurrent DEF LineMoved
  <2>3. /\ NothingHappened(currentId)' /\ \A id \in DOMAIN snapshots : SameHistory(id)
        /\ DOMAIN informed' = DOMAIN informed \cup {currentId'}
    BY <1>1, <1>3, <2>1, <2>2, MovedHistory DEF TimepointStep, WithTimepoint
  <2>4. \A p \in Players : /\ actionSnapshots'[p] \subseteq actionSnapshots[p] \cup {currentId'}
                           /\ quickSnapshots[p] \subseteq quickSnapshots'[p]
    BY <2>1 DEF EntriesAdded, WithQuickEntry
  <2> SUFFICES ASSUME NEW o \in DOMAIN informed', NEW p \in informed'[o] \cap Players,
                      NEW k \in actionSnapshots'[p], At(k, "action")', k <= o
               PROVE  Flagged(k)' \/ \E id : Kept(p, id, "action")' /\ k < id /\ id <= o
    BY DEF InformedFlagged
  <2>5. o \in DOMAIN snapshots /\ p \in informed[o]
    BY <1>1, <2>3 DEF NothingHappened, SameHistory, HistoryDomains
  <2>6. k \in actionSnapshots[p] /\ k \in DOMAIN snapshots
    BY <1>2, <2>2, <2>4, <2>5
  <2>7. Flagged(k) \/ \E id : Kept(p, id, "action") /\ k < id /\ id <= o
    BY <1>1, <2>2, <2>5, <2>6 DEF InformedFlagged, HistoryDomains, SameRecord, At
  <2> QED BY <2>2, <2>4, <2>6, <2>7 DEF SameFlag, Flagged, Kept
<1>4. ASSUME NEW id \in Targets, RollBack(id) PROVE InformedFlagged'
  <2>1. /\ id \in Nat /\ currentId' = id
        /\ DOMAIN snapshots' = {other \in DOMAIN snapshots : other <= id}
        /\ \A other \in DOMAIN snapshots' : SameRecord(other) /\ (other # id => SameFlag(other))
        /\ \A p \in Players : /\ actionSnapshots'[p] = UpTo(actionSnapshots[p], id)
                              /\ quickSnapshots'[p] = EntriesUpTo(quickSnapshots[p], id)
    BY <1>1, <1>4, CutIsCurrent DEF LineCut
  <2>2. /\ NothingHappened(currentId)' /\ HistoryDomains'
        /\ \A other \in DOMAIN snapshots' : other # id => other < id /\ SameHistory(other)
    BY <1>1, <1>4, UndoneHistory, HistoryDomainsNext
  <2> SUFFICES ASSUME NEW o \in DOMAIN informed', NEW p \in informed'[o] \cap Players,
                      NEW k \in actionSnapshots'[p], At(k, "action")', k <= o
               PROVE  Flagged(k)' \/ \E e : Kept(p, e, "action")' /\ k < e /\ e <= o
    BY DEF InformedFlagged
  <2>3. /\ o \in DOMAIN snapshots' /\ o < id /\ p \in informed[o] /\ o \in DOMAIN snapshots
    BY <2>1, <2>2 DEF NothingHappened, SameHistory, HistoryDomains
  <2>4. k \in actionSnapshots[p] /\ k \in DOMAIN snapshots' /\ k # id /\ k \in Nat
    BY <1>2, <2>1, <2>3 DEF UpTo
  <2>5. Flagged(k) \/ \E e : Kept(p, e, "action") /\ k < e /\ e <= o
    BY <1>1, <2>1, <2>3, <2>4 DEF InformedFlagged, HistoryDomains, SameRecord, At
  <2>6. ASSUME NEW e, Kept(p, e, "action"), e <= o PROVE Kept(p, e, "action")'
    <3>1. e \in Nat
      BY <1>1, <2>6, ContainersAreTyped DEF Kept
    <3> QED BY <1>2, <2>1, <2>3, <2>6, <3>1 DEF Kept, EntriesUpTo
  <2> QED BY <2>1, <2>4, <2>5, <2>6 DEF SameFlag, Flagged
<1>5. CASE KeepingStep
  <2>1. PICK players \in SUBSET Players, source \in Sources :
          /\ EntriesAdded(players, source, currentId)
          /\ players # {} => CurrentTimepoint \notin {"action", "none"}
    BY <1>1, <1>5, KeepingAddsEntries
  <2>2. UNCHANGED <<snapshots, currentId, informed>>
    BY <1>1, <1>5, KeepingAddsEntries DEF KeepingStep, historyVars
  <2>3. \A p \in Players : quickSnapshots[p] \subseteq quickSnapshots'[p]
    BY <2>1 DEF EntriesAdded, WithQuickEntry
  <2>4. \A p \in Players : \A k \in actionSnapshots'[p] : At(k, "action") => k \in actionSnapshots[p]
    <3>1. players # {} => ~At(currentId, "action")
      BY <2>1 DEF At, CurrentTimepoint
    <3> QED BY <2>1, <3>1 DEF EntriesAdded
  <2> QED BY <2>2, <2>3, <2>4 DEF InformedFlagged, At, Flagged, Kept
<1>6. CASE FlagsRaised /\ UNCHANGED informed
  <2>1. /\ DOMAIN snapshots' = DOMAIN snapshots
        /\ actionSnapshots' = actionSnapshots /\ quickSnapshots' = quickSnapshots
        /\ \A id \in DOMAIN snapshots : SameRecord(id) /\ (Flagged(id) => Flagged(id)')
    BY <1>1, <1>6, FlaggedIsCurrent DEF FlagsRaised
  <2> QED BY <1>2, <1>6, <2>1 DEF InformedFlagged, SameRecord, At, Kept
<1>7. CASE Stays /\ informed' # informed
  <2>1. /\ DOMAIN snapshots' = DOMAIN snapshots /\ currentId' = currentId
        /\ actionSnapshots' = actionSnapshots /\ quickSnapshots' = quickSnapshots
        /\ \A id \in DOMAIN snapshots : SameRecord(id) /\ (Flagged(id) => Flagged(id)')
        /\ DOMAIN informed' = DOMAIN informed
        /\ \A id \in DOMAIN informed : id # currentId => informed'[id] = informed[id]
    BY <1>1, <1>7, FlaggedIsCurrent DEF Stays, FlagsRaised, Grows
  <2>2. PICK players :
          /\ RequireConfirmation(players)
          /\ currentId # NoSnapshot => informed'[currentId] = informed[currentId] \cup players
    BY <1>1, <1>7, RevelationsOfAStep
  <2> SUFFICES ASSUME NEW o \in DOMAIN informed, NEW p \in informed'[o] \cap Players,
                      NEW k \in actionSnapshots[p], At(k, "action")', k <= o
               PROVE  Flagged(k)' \/ \E id : Kept(p, id, "action") /\ k < id /\ id <= o
    BY <2>1 DEF InformedFlagged, Kept
  <2>3. k \in DOMAIN snapshots /\ At(k, "action")
    BY <1>2, <2>1 DEF SameRecord, At
  <2>4. CASE p \in informed[o]
    BY <2>1, <2>3, <2>4 DEF InformedFlagged
  <2>5. CASE p \notin informed[o]
    <3>1. o = currentId /\ currentId # NoSnapshot /\ p \in players
      BY <1>1, <2>1, <2>2, <2>5, CurrentIsLast DEF HistoryDomains
    <3>2. CASE IsLatest(k, actionSnapshots[p])
      <4>1. snapshots[k] \in Snapshots
        BY <1>1, <2>3 DEF StoreInv, SnapshotTypeOK
      <4> QED BY <2>2, <2>3, <3>1, <3>2, <4>1 DEF RequireConfirmation, ConfirmationRequired, Flagged, Snapshots
    <3>3. CASE ~IsLatest(k, actionSnapshots[p])
      <4>1. PICK other \in actionSnapshots[p] : ~(other <= k)
        BY <3>3 DEF IsLatest
      <4>2. other \in DOMAIN snapshots /\ other \in Nat /\ k \in Nat /\ other <= currentId
        BY <1>1, <1>2, <2>3, <4>1, CurrentIsLast
      <4>3. Kept(p, other, "action")
        BY <1>1, <4>1 DEF EntriesInv
      <4> QED BY <3>1, <4>1, <4>2, <4>3
    <3> QED BY <3>2, <3>3
  <2> QED BY <2>4, <2>5
<1> QED BY <1>1, <1>3, <1>4, <1>5, <1>6, <1>7, UndoStepKinds DEF Stays, Stands, historyVars

\* Nothing is revealed once the action phase is over, if the windows that tear it down
\* and end it reveal nothing.
EndsUnrevealed == \A id \in DOMAIN informed : EndsPhase(id, "action") => informed[id] = {}

LEMMA EndsUnrevealedNext ==
  ASSUME HistoryPart, IdleGame, EndsUnrevealed, UndoNext \/ UNCHANGED undoGameVars,
         RevealingSteps \cap {"tearDown", "phaseEnded"} = {}
  PROVE  EndsUnrevealed'
<1>1. UndoInv /\ StoreInv /\ HeapInv /\ MomentPart /\ PlaceInv /\ HistoryDomains
  BY DEF HistoryPart, UndoInv
<1>2. CASE TimepointStep
  <2>1. PICK timepoint \in SnapshotTimepoint : LineMoved(timepoint)
    BY <1>1, <1>2, TimepointMoves
  <2>2. \A id \in DOMAIN snapshots : SameRecord(id)
    BY <1>1, <2>1, MovedIsCurrent
  <2>3. /\ NothingHappened(currentId)' /\ \A id \in DOMAIN snapshots : SameHistory(id)
        /\ DOMAIN informed' = DOMAIN informed \cup {currentId'}
    BY <1>1, <1>2, <2>1, MovedHistory DEF TimepointStep, WithTimepoint
  <2> QED BY <1>1, <2>2, <2>3
             DEF EndsUnrevealed, NothingHappened, SameHistory, SameRecord, EndsPhase, At, HistoryDomains
<1>3. ASSUME NEW id \in Targets, RollBack(id) PROVE EndsUnrevealed'
  <2>1. /\ DOMAIN snapshots' \subseteq DOMAIN snapshots /\ currentId' = id
        /\ \A other \in DOMAIN snapshots' : SameRecord(other)
    BY <1>1, <1>3, CutIsCurrent
  <2>2. /\ NothingHappened(currentId)' /\ HistoryDomains'
        /\ \A other \in DOMAIN snapshots' : other # id => other < id /\ SameHistory(other)
    BY <1>1, <1>3, UndoneHistory, HistoryDomainsNext
  <2> QED BY <1>1, <2>1, <2>2
             DEF EndsUnrevealed, NothingHappened, SameHistory, SameRecord, EndsPhase, At, HistoryDomains
<1>4. CASE KeepingStep
  BY <1>1, <1>4, KeepingAddsEntries DEF KeepingStep, historyVars, EndsUnrevealed, EndsPhase, At
<1>5. CASE FlagsRaised /\ UNCHANGED informed
  BY <1>1, <1>5, FlaggedIsCurrent DEF EndsUnrevealed, SameRecord, EndsPhase, At, HistoryDomains
<1>6. CASE Stays /\ informed' # informed
  <2>1. /\ \A id \in DOMAIN snapshots : SameRecord(id)
        /\ DOMAIN informed' = DOMAIN informed
        /\ \A id \in DOMAIN informed : id # currentId => informed'[id] = informed[id]
    BY <1>1, <1>6, FlaggedIsCurrent DEF Stays, Grows
  <2>2. currentId \in DOMAIN snapshots /\ EndsPhase(currentId, "action") => informed'[currentId] = informed[currentId]
    <3> SUFFICES ASSUME currentId \in DOMAIN snapshots, EndsPhase(currentId, "action")
                 PROVE  informed'[currentId] = informed[currentId]
      OBVIOUS
    <3>1. currentId # NoSnapshot /\ CurrentTimepoint = "endOfPhase"
      BY <1>1, CurrentIsLast, CurrentIsRecorded DEF EndsPhase, At
    <3>2. ~Draws /\ \A p \in Players : ~Choice(p)
      BY <1>1, <3>1, ChoicesMove DEF Draws, AtStep, PlaceInv, MomentPart, TimepointInv
    <3>4. PICK players :
            /\ informed'[currentId] = informed[currentId] \cup players
            /\ Answer /\ (pc \notin RevealingSteps /\ game.active = NoPlayer => players = {})
      BY <1>1, <1>6, <3>1, <3>2, RevelationsOfAStep
    <3>5. pc \in {"tearDown", "phaseEnded"}
      BY <1>1, <3>1, <3>4, QuestionsAreAsked DEF Answer
    <3>6. players = {}
      BY <3>4, <3>5 DEF IdleGame
    <3> QED BY <3>4, <3>6
  <2> QED BY <1>1, <2>1, <2>2 DEF EndsUnrevealed, SameRecord, EndsPhase, At, HistoryDomains
<1> QED BY <1>1, <1>2, <1>3, <1>4, <1>5, <1>6, UndoStepKinds DEF Stays, Stands, historyVars

-----------------------------------------------------------------------------
(* Where a quick undo leads *)

\* At these timepoints the pipeline waits at these steps.
LEMMA WhereItWaits ==
  ASSUME UndoInv, PlaceInv, Waiting
  PROVE  /\ CurrentTimepoint = "action" =>
              \/ pc = "actionWindow" /\ asking = <<>>
              \/ pc = "rotate" /\ asking # <<>>
         /\ CurrentTimepoint = "endOfPhase" => asking # <<>> /\ pc \in {"tearDown", "phaseEnded"}
         /\ CurrentTimepoint = "startOfPhase" => asking # <<>> /\ pc \in {"setupActionPhase", "drawTwo"}
         /\ CurrentTimepoint = "startOfPhase" /\ snapshots[currentId].state.phase = "regroup" =>
              pc = "drawTwo" /\ phaseObj.name = "regroup"
<1>1. /\ TimepointInv /\ PhaseInv /\ phaseObj \in RunnablePhases /\ phaseObj.name \in Phases
      /\ asking # <<>> => pc \in AfterWindows
      /\ pc = "cardsReadied" => phaseObj.name = "regroup"
      /\ pc = "setupActionPhase" => phaseObj.name = "action"
  BY PhasesThatRun DEF UndoInv, RoundPart, FlowInv, MomentPart, OwnSteps, BetweenPhases, Phases
<1>2. CASE asking = <<>>
  BY <1>1, <1>2 DEF Waiting, PromptedAll, TimepointInv, PlaceInv
<1>3. CASE asking # <<>>
  <2>1. pc \in AfterWindows
    BY <1>1, <1>3
  <2>2. CurrentTimepoint = "startOfPhase" => pc \in {"setupActionPhase", "drawTwo"}
    BY <1>1, <1>3, <2>1 DEF AfterWindows, TimepointInv, PlaceInv, AtEnd
  <2>3. CurrentTimepoint = "startOfPhase" => phaseObj.name = snapshots[currentId].state.phase
    BY <1>1, <2>2 DEF PhaseInv
  <2>4. CurrentTimepoint = "action" => pc = "rotate"
    BY <1>3, QuestionsAreAsked
  <2>5. CurrentTimepoint = "endOfPhase" => pc \in {"tearDown", "phaseEnded"}
    BY <1>3, QuestionsAreAsked
  <2> QED BY <1>1, <1>3, <2>2, <2>3, <2>4, <2>5
<1> QED BY <1>2, <1>3

\* No other id is newer than the latest of a player's quick snapshots, and one is newer
\* than the one before it.
LEMMA QuickEntriesInOrder ==
  ASSUME HeapInv, NEW p \in Players, NEW point, NEW e \in QuickEntriesAt(p, point)
  PROVE  /\ e \in quickSnapshots[p]
         /\ point = "current" => \A f \in quickSnapshots[p] : ~(f.id > e.id)
         /\ point # "current" => \E f \in quickSnapshots[p] :
              f.id > e.id /\ \A g \in quickSnapshots[p] : g.id > e.id => g = f
<1> DEFINE newer == {f \in quickSnapshots[p] : f.id > e.id}
<1>1. IsFiniteSet(newer)
  BY FS_Subset DEF HeapInv, Bounded
<1>2. /\ e \in quickSnapshots[p]
      /\ Cardinality(newer) = (IF point = "current" THEN 0 ELSE 1)
  BY DEF QuickEntriesAt
<1>3. CASE point = "current"
  <2>1. newer = {}
    BY <1>1, <1>2, <1>3, FS_EmptySet
  <2> QED BY <1>2, <1>3, <2>1
<1>4. CASE point # "current"
  <2>1. Cardinality(newer) = 1
    BY <1>2, <1>4
  <2> HIDE DEF newer
  <2>2. \E f : newer = {f}
    BY <1>1, <2>1, FS_Singleton
  <2>3. PICK f : newer = {f}
    BY <2>2
  <2>4. f \in quickSnapshots[p] /\ f.id > e.id
    BY <2>3 DEF newer
  <2>5. \A g \in quickSnapshots[p] : g.id > e.id => g = f
    BY <2>3 DEF newer
  <2> QED BY <1>2, <1>4, <2>4, <2>5
<1> QED BY <1>3, <1>4

\* An offered undo leads to a snapshot quick undo knows of; either nothing newer is
\* known, or one timepoint is, and the game stands at none of the moments at which the
\* latest one would be meant (getQuickRollbackPoint).
LEMMA OfferedIsKnown ==
  ASSUME UndoInv, PlaceInv, EntriesInv, NEW p \in Players, NEW id \in Offered(p)
  PROVE  /\ Waiting /\ requests = <<>> /\ unwinding = NoPrompt
         /\ id \in DOMAIN snapshots /\ id \in Nat /\ currentId \in DOMAIN snapshots /\ currentId \in Nat
         /\ \A f \in quickSnapshots[p] : f.id \in DOMAIN snapshots /\ f.id \in Nat
         /\ \E e \in quickSnapshots[p] : e.id = id /\ e.source = SourceOf(id) /\ StillHeld(e)
         /\ At(id, "action") => snapshots[id].state.active = p /\ id \in actionSnapshots[p]
         /\ RollbackPoint(p) = "current" => \A f \in quickSnapshots[p] : ~(f.id > id)
         /\ RollbackPoint(p) # "current" =>
              /\ \E f \in quickSnapshots[p] : f.id > id /\ \A g \in quickSnapshots[p] : g.id > id => g = f
              /\ CurrentTimepoint = "action" => pc = "actionWindow" /\ asking = <<>> /\ p = game.active
              /\ CurrentTimepoint \in {"regroupReadyCards", "startOfPhase", "endOfPhase"} =>
                   \E f \in quickSnapshots[p] : ~(f.id < currentId)
<1>1. StoreInv /\ HeapInv
  BY DEF UndoInv
<1>2. /\ MayUndo /\ requests = <<>>
      /\ \E e \in QuickTargets(p, RollbackPoint(p)) : e.id = id
  BY DEF Offered
<1>3. PICK e \in QuickEntriesAt(p, RollbackPoint(p)) : e.id = id /\ StillHeld(e)
  BY <1>2 DEF QuickTargets
<1>4. /\ e \in quickSnapshots[p]
      /\ RollbackPoint(p) = "current" => \A f \in quickSnapshots[p] : ~(f.id > id)
      /\ RollbackPoint(p) # "current" => \E f \in quickSnapshots[p] :
           f.id > id /\ \A g \in quickSnapshots[p] : g.id > id => g = f
  BY <1>1, <1>3, QuickEntriesInOrder
<1>5. /\ \A f \in quickSnapshots[p] : f.id \in DOMAIN snapshots
      /\ \A other \in DOMAIN snapshots : other \in Nat /\ currentId \in DOMAIN snapshots
  BY <1>1, ContainersAreTyped, CurrentIsLast
<1>6. Waiting /\ unwinding = NoPrompt
  BY <1>2 DEF MayUndo
<1>7. e.source = SourceOf(id) /\ (At(id, "action") => snapshots[id].state.active = p)
  BY <1>3, <1>4 DEF EntriesInv
<1>8. At(id, "action") => id \in actionSnapshots[p]
  <2> SUFFICES ASSUME At(id, "action") PROVE id \in actionSnapshots[p]
    OBVIOUS
  <2>1. e.source = "action"
    BY <1>7 DEF SourceOf, At
  <2>2. PICK q \in Players : id \in actionSnapshots[q]
    BY <1>3, <2>1 DEF StillHeld, AllActionSnapshots
  <2>3. snapshots[id].state.active = q
    BY <1>1, <2>2 DEF HeapInv, Held, At
  <2> QED BY <1>7, <2>2, <2>3
<1>9. RollbackPoint(p) # "current" =>
        /\ CurrentTimepoint = "action" => pc = "actionWindow" /\ asking = <<>> /\ p = game.active
        /\ CurrentTimepoint \in {"regroupReadyCards", "startOfPhase", "endOfPhase"} =>
             \E f \in quickSnapshots[p] : ~(f.id < currentId)
  <2> SUFFICES ASSUME RollbackPoint(p) # "current"
               PROVE  /\ CurrentTimepoint = "action" => pc = "actionWindow" /\ asking = <<>> /\ p = game.active
                      /\ CurrentTimepoint \in {"regroupReadyCards", "startOfPhase", "endOfPhase"} =>
                           \E f \in quickSnapshots[p] : ~(f.id < currentId)
    OBVIOUS
  <2>1. /\ CurrentTimepoint = "action" => PromptType(p) = "actionWindow"
        /\ CurrentTimepoint \in {"regroupReadyCards", "startOfPhase", "endOfPhase"} =>
             ~(quickSnapshots[p] # {} /\ \A f \in quickSnapshots[p] : f.id < currentId)
    BY DEF RollbackPoint, QuickRollbackPoint
  <2> QED BY <1>4, <2>1 DEF PromptType
<1> QED BY <1>2, <1>3, <1>4, <1>5, <1>6, <1>7, <1>8, <1>9

\* What lies between an action and now, when quick undo leads back to the action and
\* the numbers of the timepoints do not show that the opponent has acted since.
LEMMA ActionIsNear ==
  ASSUME HistoryPart, GameStates = GameRecords, NEW p \in Players, NEW id \in Offered(p), At(id, "action"),
         ~OpponentActedSince(id), NEW o \in DOMAIN snapshots, o >= id
  PROVE  \/ o = id
         \/ o = currentId /\ (At(o, "action") \/ EndsPhase(o, "action") \/ StartsPhase(o, "regroup"))
         \/ EndsPhase(o, "action") /\ StartsPhase(currentId, "regroup")
<1> DEFINE n(k) == snapshots[k].timepointNumber
           c == currentId
<1>1. /\ UndoInv /\ StoreInv /\ PlaceInv /\ EntriesInv /\ LineOrder
      /\ \A f \in quickSnapshots[p] : f.id \in DOMAIN snapshots /\ f.id \in Nat
  BY OfferedIsKnown DEF HistoryPart, UndoInv
<1>2. /\ id \in DOMAIN snapshots /\ id \in Nat /\ o \in Nat /\ c \in DOMAIN snapshots /\ c \in Nat
      /\ \A k \in DOMAIN snapshots : k \in Nat /\ n(k) \in Nat /\ n(k) <= n(c) /\ k <= c
      /\ \A k \in DOMAIN snapshots : n(k) = n(c) => k = c
      /\ n(c) = lastAssignedTimepointNumber
  BY <1>1, OfferedIsKnown, CurrentIsLast
<1>3. \A a, b \in DOMAIN snapshots : (a < b => n(a) < n(b)) /\ (n(a) = n(b) => a = b)
  BY <1>1, <1>2 DEF StoreInv, TimepointsNumberTheLine
<1>4. /\ n(id) <= n(o) /\ n(o) <= n(c) /\ n(c) <= n(id) + 2
      /\ n(c) = n(id) + 2 => snapshots[id].nextSnapshotIsSamePlayer
  BY <1>2, <1>3 DEF OpponentActedSince
<1>5. CASE n(o) = n(id)
  BY <1>2, <1>3, <1>5
<1>6. CASE n(c) = n(id) + 1 /\ n(o) = n(c)
  <2>1. o = c /\ NextOf(id, o)
    BY <1>2, <1>6 DEF NextOf
  <2> QED BY <1>1, <1>2, <2>1 DEF LineOrder
<1>7. CASE n(c) = n(id) + 2
  <2>1. PICK x \in DOMAIN snapshots : n(x) = n(id) + 1
    <3>1. n(id) + 1 \in 0 .. lastAssignedTimepointNumber
      BY <1>2, <1>7
    <3> QED BY <1>1, <3>1 DEF StoreInv, TimepointsNumberTheLine
  <2>2. NextOf(id, x) /\ NextOf(x, c)
    BY <1>2, <1>7, <2>1 DEF NextOf
  <2>3. CASE EndsPhase(x, "action")
    <3>1. StartsPhase(c, "regroup")
      BY <1>1, <1>2, <2>1, <2>2, <2>3 DEF LineOrder
    <3>2. o = id \/ o = x \/ o = c
      BY <1>2, <1>3, <1>4, <1>7, <2>1
    <3> QED BY <2>3, <3>1, <3>2
  <2>4. ASSUME At(x, "action") PROVE FALSE
    <3>1. snapshots[x].state.active = p
      <4>1. snapshots[id].nextSnapshotIsSamePlayer \in BOOLEAN
        BY <1>1, <1>2 DEF StoreInv, SnapshotTypeOK, Snapshots
      <4>2. snapshots[id].nextSnapshotIsSamePlayer = (snapshots[id].state.active = snapshots[x].state.active)
        BY <1>1, <1>2, <2>1, <2>2, <2>4 DEF LineOrder
      <4>3. snapshots[id].state.active = snapshots[x].state.active
        BY <1>4, <1>7, <4>1, <4>2
      <4> QED BY <1>1, <4>3, OfferedIsKnown
    <3>2. Kept(p, x, "action") /\ x > id /\ x # c /\ x < c
      BY <1>1, <1>2, <1>3, <1>7, <2>1, <2>4, <3>1 DEF EntriesInv, AlwaysKept, SourceOf, At
    <3>3. PICK f \in quickSnapshots[p] : f.id > id /\ \A g \in quickSnapshots[p] : g.id > id => g = f
      BY <1>1, <3>2, OfferedIsKnown DEF Kept
    <3>4. f.id = x /\ \A g \in quickSnapshots[p] : g.id < c
      <4>1. [id |-> x, source |-> "action"].id = x
        OBVIOUS
      <4>2. [id |-> x, source |-> "action"] = f
        BY <3>2, <3>3, <4>1 DEF Kept
      <4>3. f.id = x /\ x \in Nat /\ x < c /\ id < c
        BY <1>2, <2>1, <3>2, <4>1, <4>2
      <4>4. ASSUME NEW g \in quickSnapshots[p] PROVE g.id < c
        <5>1. g.id \in Nat
          BY <1>1
        <5>2. g.id > id => g.id = x
          BY <3>3, <4>3
        <5> QED BY <1>2, <4>3, <5>1, <5>2
      <4> QED BY <4>3, <4>4
    <3>5. RollbackPoint(p) # "current"
      BY <1>1, <3>2, OfferedIsKnown DEF Kept
    <3>6. CASE At(c, "action")
      <4>1. c # NoSnapshot /\ CurrentTimepoint = "action"
        BY <1>1, <1>2, <3>6, CurrentIsLast DEF At, CurrentTimepoint
      <4>2. pc = "actionWindow" /\ p = game.active
        BY <1>1, <3>5, <4>1, OfferedIsKnown
      <4> DEFINE state == snapshots[c].state
      <4>3. [state EXCEPT !.ended = game.ended] = game /\ state \in GameStates
        BY <1>1, <1>2, <4>1, <4>2, CurrentIsRecorded DEF UndoInv, MomentPart, MomentInv
      <4> HIDE DEF state
      <4>4. state.active = game.active
        BY <4>3 DEF GameRecords
      <4>5. Kept(p, c, "action")
        BY <1>1, <1>2, <3>6, <4>2, <4>4 DEF EntriesInv, AlwaysKept, SourceOf, At, state
      <4> QED BY <1>2, <3>4, <4>5 DEF Kept
    <3>7. CASE EndsPhase(c, "action")
      <4>1. CurrentTimepoint = "endOfPhase"
        BY <1>1, <1>2, <3>7, CurrentIsLast DEF EndsPhase, At, CurrentTimepoint
      <4> QED BY <1>1, <3>4, <3>5, <4>1, OfferedIsKnown
    <3> QED BY <1>1, <1>2, <2>1, <2>2, <2>4, <3>6, <3>7 DEF LineOrder
  <2> QED BY <1>1, <1>2, <2>1, <2>2, <2>3, <2>4 DEF LineOrder
<1> QED BY <1>2, <1>4, <1>5, <1>6, <1>7

\* What was revealed to a player since an action the player can take back.
LEMMA RevealedNeedsConsent ==
  ASSUME HistoryPart, GameStates = GameRecords, FreshInv, InformedFlagged, ~AtEnd \/ EndsUnrevealed
  PROVE  ActionUndoKeepsRevealed
<1>1. UndoInv /\ StoreInv /\ PlaceInv /\ EntriesInv /\ HistoryDomains
  BY DEF HistoryPart, UndoInv
<1> SUFFICES ASSUME UndoMode = "request", NEW p \in Players, NEW id \in Offered(p),
                    snapshots[id].timepoint = "action", NEW o \in DOMAIN informed, o >= id, p \in informed[o],
                    ~NeedsConfirmation(p, id)
             PROVE  FALSE
  BY DEF ActionUndoKeepsRevealed, InformedSince
<1>2. /\ At(id, "action") /\ ~OpponentActedSince(id) /\ ~Flagged(id)
  BY DEF NeedsConfirmation, SnapshotNeedsConfirmation, At, Flagged
<1>3. /\ o \in DOMAIN snapshots /\ id \in Nat /\ o \in Nat /\ currentId \in Nat /\ currentId \in DOMAIN snapshots
      /\ id \in actionSnapshots[p] /\ o <= currentId /\ currentId # NoSnapshot
  BY <1>1, <1>2, OfferedIsKnown, CurrentIsLast DEF HistoryDomains
<1>4. PICK m : Kept(p, m, "action") /\ id < m /\ m <= o
  BY <1>2, <1>3 DEF InformedFlagged
<1> DEFINE e == [id |-> m, source |-> "action"]
<1>5. /\ e \in quickSnapshots[p] /\ m \in DOMAIN snapshots /\ m \in Nat
      /\ "action" = SourceOf(m) /\ (At(m, "endOfPhase") => snapshots[m].state.phase = "action")
  <2>1. e \in quickSnapshots[p] /\ e.id = m /\ e.source = "action"
    BY <1>4 DEF Kept
  <2> HIDE DEF e
  <2> QED BY <1>1, <2>1, OfferedIsKnown DEF EntriesInv
<1>6. RollbackPoint(p) # "current"
  <2>1. e.id > id
    BY <1>3, <1>4, <1>5
  <2> QED BY <1>1, <1>5, <2>1, OfferedIsKnown
<1>7. m >= id /\ m # id /\ o # id
  BY <1>3, <1>4, <1>5
<1>8. CASE StartsPhase(currentId, "regroup")
  <2>1. Kept(p, currentId, "phase")
    BY <1>1, <1>3, <1>8 DEF EntriesInv, AlwaysKept, SourceOf, StartsPhase
  <2>2. PICK f \in quickSnapshots[p] : f.id > id /\ \A g \in quickSnapshots[p] : g.id > id => g = f
    BY <1>1, <1>6, OfferedIsKnown
  <2>3. f = [id |-> currentId, source |-> "phase"]
    BY <1>3, <1>7, <2>1, <2>2 DEF Kept
  <2>4. f = e
    BY <1>3, <1>4, <1>5, <2>2
  <2> QED BY <2>3, <2>4
<1>9. CASE ~StartsPhase(currentId, "regroup")
  <2>1. /\ m = currentId /\ (At(m, "action") \/ EndsPhase(m, "action"))
        /\ o = currentId
    BY <1>2, <1>3, <1>5, <1>7, <1>9, ActionIsNear
  <2>2. CASE At(m, "action")
    <3>1. CurrentTimepoint = "action"
      BY <1>3, <2>1, <2>2 DEF At, CurrentTimepoint
    <3>2. pc = "actionWindow"
      BY <1>1, <1>6, <3>1, OfferedIsKnown
    <3> QED BY <2>1, <3>2 DEF FreshInv, NothingHappened
  <2>3. CASE EndsPhase(m, "action")
    <3>1. CurrentTimepoint = "endOfPhase"
      BY <1>3, <2>1, <2>3 DEF EndsPhase, At, CurrentTimepoint
    <3>2. CASE EndsUnrevealed
      BY <2>1, <2>3, <3>2 DEF EndsUnrevealed
    <3>3. CASE ~AtEnd
      <4>1. pc = "phaseEnded"
        <5>1. Waiting
          BY <1>1, OfferedIsKnown
        <5> QED BY <1>1, <3>1, <3>3, <5>1, WhereItWaits DEF PlaceInv
      <4>2. e.id # currentId
        BY <1>1, <1>5, <3>3, <4>1 DEF UndoInv, MomentPart, UnkeptInv, AtEnd
      <4> QED BY <2>1, <4>2
    <3> QED BY <3>2, <3>3
  <2> QED BY <2>1, <2>2, <2>3
<1> QED BY <1>8, <1>9

\* The abilities the opponent has resolved since an action the player can take back.
LEMMA AbilitiesNeedConsent ==
  ASSUME HistoryPart, GameStates = GameRecords, FreshInv, IdleGame, ResolvedInv, AbilityFlagged,
         ~(pc = "drawTwo" /\ asking # <<>>)
  PROVE  ActionUndoSparesAbilities
<1>1. UndoInv /\ StoreInv /\ PlaceInv /\ EntriesInv /\ HistoryDomains
  BY DEF HistoryPart, UndoInv
<1> SUFFICES ASSUME UndoMode = "request", NEW p \in Players, NEW id \in Offered(p),
                    snapshots[id].timepoint = "action", ~NeedsConfirmation(p, id),
                    NEW o \in DOMAIN decided, o >= id, NEW d \in decided[o], d.by # p, d.ability
             PROVE  FALSE
  BY DEF ActionUndoSparesAbilities, OpponentResolvedSince, DecidedSince
<1>2. /\ At(id, "action") /\ ~OpponentActedSince(id) /\ ~Flagged(id)
      /\ Opponent(p) \in resolved => game.phase = "action" /\ game.active = p
  BY DEF NeedsConfirmation, SnapshotNeedsConfirmation, At, Flagged
<1>3. /\ o \in DOMAIN snapshots /\ id \in Nat /\ o \in Nat /\ currentId \in Nat /\ currentId \in DOMAIN snapshots
      /\ o <= currentId /\ currentId # NoSnapshot /\ Waiting /\ snapshots[id].state.active = p
  BY <1>1, <1>2, OfferedIsKnown, CurrentIsLast DEF HistoryDomains
<1>4. o # id
  BY <1>2, <1>3 DEF AbilityFlagged
<1>5. o = currentId => game.active = p /\ p # NoPlayer
  <2> SUFFICES ASSUME o = currentId PROVE game.active = p /\ p # NoPlayer
    OBVIOUS
  <2>1. d.by \in resolved /\ d.by \in Players
    BY <1>3 DEF ResolvedInv
  <2>2. d.by = Opponent(p)
    BY <2>1, OpponentIsTheOther
  <2> QED BY <1>2, <2>1, <2>2, RoundFlowAssumption
<1>6. ~StartsPhase(currentId, "regroup")
  <2> SUFFICES ASSUME StartsPhase(currentId, "regroup") PROVE FALSE
    OBVIOUS
  <2>1. CurrentTimepoint = "startOfPhase" /\ snapshots[currentId].state.phase = "regroup"
    BY <1>3 DEF StartsPhase, At, CurrentTimepoint
  <2> QED BY <1>1, <1>3, <2>1, WhereItWaits
<1>7. o = currentId /\ (At(o, "action") \/ EndsPhase(o, "action"))
  BY <1>2, <1>3, <1>4, <1>6, ActionIsNear
<1>8. CASE At(o, "action")
  <2>1. CurrentTimepoint = "action"
    BY <1>3, <1>7, <1>8 DEF At, CurrentTimepoint
  <2>2. pc # "actionWindow"
    BY <1>7 DEF FreshInv, NothingHappened
  <2>3. pc = "rotate"
    BY <1>1, <1>3, <2>1, <2>2, WhereItWaits
  <2>4. snapshots[o].state.active = p
    BY <1>1, <1>5, <1>7, <2>3 DEF PlaceInv
  <2>5. Kept(p, o, "action") /\ o > id
    BY <1>1, <1>3, <1>4, <1>8, <2>4 DEF EntriesInv, AlwaysKept, SourceOf, At
  <2> DEFINE e == [id |-> o, source |-> "action"]
  <2>6. e \in quickSnapshots[p] /\ e.id > id
    BY <2>5 DEF Kept
  <2>7. RollbackPoint(p) # "current"
    BY <1>1, <2>6, OfferedIsKnown
  <2> QED BY <1>1, <2>1, <2>2, <2>7, OfferedIsKnown
<1>9. CASE EndsPhase(o, "action")
  <2>1. CurrentTimepoint = "endOfPhase"
    BY <1>3, <1>7, <1>9 DEF EndsPhase, At, CurrentTimepoint
  <2>2. pc \in {"tearDown", "phaseEnded"}
    BY <1>1, <1>3, <2>1, WhereItWaits
  <2> QED BY <1>5, <1>7, <2>2 DEF IdleGame
<1> QED BY <1>7, <1>8, <1>9

\* Where the cards of the start of regroup ask nothing, nobody is asked before the draws.
QuietRegroup == pc = "drawTwo" => asking = <<>>

LEMMA QuietRegroupNext ==
  ASSUME UndoInv, QuietRegroup, UndoNext \/ UNCHANGED undoGameVars, "startOfRegroup" \notin AskingSteps
  PROVE  QuietRegroup'
<1>1. /\ FlowInv /\ phaseObj \in RunnablePhases /\ phaseObj.name \in Phases /\ phaseObj.mode \in Modes
      /\ StoreInv /\ HeapInv
  BY PhasesThatRun DEF UndoInv, RoundPart, FlowInv
<1>2. CASE TimepointStep
  BY <1>2, TimepointMoves DEF MovesFrom, QuietRegroup
<1>3. ASSUME NEW id \in Targets, RollBack(id) PROVE QuietRegroup'
  BY <1>3 DEF RollBack, QuietRegroup
<1>4. CASE KeepingStep
  BY <1>4 DEF KeepingStep, PhaseEnded, CardsReadied, SetupActionPhase, AtStep, QuietRegroup
<1>5. CASE Stands
  BY <1>5 DEF Stands, QuietRegroup
<1>6. CASE Stays
  <2>1. CASE StartPhase
    <3> SUFFICES ASSUME pc' = "drawTwo" PROVE asking' = <<>>
      BY DEF QuietRegroup
    <3>1. phaseObj.first = "drawTwo" /\ phaseObj.mode # "rollbackToWithinPhase" /\ pc = "startPhase"
      BY <1>1, <2>1 DEF StartPhase, AtStep, FlowInv
    <3>2. phaseObj.name = "regroup"
      BY <1>1, <3>1 DEF RunnablePhases, FirstStep, Phases, Modes
    <3>3. Questions(StartOf[phaseObj.name]) = {<<>>}
      BY <3>2 DEF Questions, StartOf
    <3> QED BY <2>1, <3>3 DEF StartPhase, Ask
  <2>2. CASE Answer
    BY <2>2 DEF Answer, QuietRegroup
  <2>3. ASSUME NEW p \in Players, Choice(p) PROVE QuietRegroup'
    BY <2>3, ChoicesMove DEF QuietRegroup
  <2>4. CASE SetCurrentPhase \/ BeginRound \/ RotateActivePlayer \/ TearDownActionPhase \/ ChooseFirstPlayer
             \/ OpenActionWindow
    BY <2>4 DEF SetCurrentPhase, BeginRound, RotateActivePlayer, TearDownActionPhase, ChooseFirstPlayer,
                OpenActionWindow, AtStep, QuietRegroup
  <2>5. CASE OpenMulliganPrompt \/ OpenSetupResourcePrompt \/ OpenResourcePrompt \/ EndPhase \/ ReadyAllCards
             \/ Draws
    BY <2>5 DEF OpenMulliganPrompt, OpenSetupResourcePrompt, OpenResourcePrompt, OpenPrompt, EndPhase,
                ReadyAllCards, Draws, AtStep, QuietRegroup
  <2> QED BY <1>6, <2>1, <2>2, <2>3, <2>4, <2>5 DEF Stays, StaysAtTimepoint
<1> QED BY <1>2, <1>3, <1>4, <1>5, <1>6, UndoStepKinds

-----------------------------------------------------------------------------
(* What a free undo spares *)

\* What is known of the history of every line of play.
UndoHistoryInv ==
  HistoryPart /\ FreshInv /\ IdleLine /\ IdleGame /\ ResolvedInv /\ AbilityFlagged /\ InformedFlagged

LEMMA UndoHistoryInit ==
  ASSUME UndoInit, GameStates = GameRecords
  PROVE  UndoHistoryInv /\ EndsUnrevealed /\ QuietRegroup
<1>1. UndoInv /\ RoundInit /\ SnapshotInit
  BY UndoInvInit DEF UndoInit
<1>2. /\ game.active = NoPlayer /\ pc = "setCurrentPhase" /\ asking = <<>> /\ resolved = {}
      /\ phaseObj.name = "setup" /\ phaseObj.mode = "normal" /\ currentId = NoSnapshot
      /\ DOMAIN snapshots = {} /\ DOMAIN decided = {} /\ DOMAIN informed = {}
      /\ \A p \in Players : quickSnapshots[p] = {} /\ actionSnapshots[p] = {}
  <2>1. game.active = NoPlayer /\ pc = "setCurrentPhase" /\ asking = <<>>
    BY <1>1 DEF RoundInit
  <2>2. phaseObj.name = "setup" /\ phaseObj.mode = "normal"
    BY <1>1 DEF RoundInit, NewPhase
  <2>3. /\ currentId = NoSnapshot /\ DOMAIN snapshots = {}
        /\ \A p \in Players : quickSnapshots[p] = {} /\ actionSnapshots[p] = {}
    BY <1>1 DEF SnapshotInit
  <2>4. resolved = {} /\ DOMAIN decided = {} /\ DOMAIN informed = {}
    BY DEF UndoInit
  <2> QED BY <2>1, <2>2, <2>3, <2>4
<1>3. CurrentTimepoint = "none"
  BY <1>2 DEF CurrentTimepoint
<1>4. PlaceInv /\ LineOrder /\ EntriesInv /\ HistoryDomains
  BY <1>2, <1>3 DEF PlaceInv, LineOrder, EntriesInv, HistoryDomains, AtEnd
<1>5. FreshInv /\ IdleLine /\ IdleGame /\ ResolvedInv
  BY <1>2, <1>3 DEF FreshInv, Rebuilt, IdleLine, IdleGame, ResolvedInv
<1>6. AbilityFlagged /\ InformedFlagged /\ EndsUnrevealed /\ QuietRegroup
  BY <1>2 DEF AbilityFlagged, InformedFlagged, EndsUnrevealed, QuietRegroup
<1> QED BY <1>1, <1>4, <1>5, <1>6 DEF UndoHistoryInv, HistoryPart

LEMMA UndoHistoryNext ==
  ASSUME UndoHistoryInv, [UndoNext]_undoGameVars, GameStates = GameRecords, Timepoints = SnapshotTimepoint
  PROVE  /\ UndoHistoryInv'
         /\ RevealingSteps \cap {"tearDown", "phaseEnded"} = {} /\ EndsUnrevealed => EndsUnrevealed'
         /\ "startOfRegroup" \notin AskingSteps /\ QuietRegroup => QuietRegroup'
<1>1. /\ HistoryPart /\ UndoInv /\ PlaceInv /\ LineOrder /\ EntriesInv /\ HistoryDomains
      /\ FreshInv /\ IdleLine /\ IdleGame /\ ResolvedInv /\ AbilityFlagged /\ InformedFlagged
      /\ UndoNext \/ UNCHANGED undoGameVars
  BY DEF UndoHistoryInv, HistoryPart
<1>2. UndoInv'
  BY <1>1, UndoInvNext
<1>3. PlaceInv' /\ LineOrder' /\ EntriesInv' /\ HistoryDomains'
  BY <1>1, PlaceInvNext, LineOrderNext, EntriesInvNext, HistoryDomainsNext
<1>4. FreshInv' /\ IdleLine' /\ IdleGame'
  BY <1>1, FreshInvNext, IdleLineNext, IdleGameNext
<1>5. ResolvedInv' /\ AbilityFlagged' /\ InformedFlagged'
  BY <1>1, ResolvedInvNext, AbilityFlaggedNext, InformedFlaggedNext
<1>6. RevealingSteps \cap {"tearDown", "phaseEnded"} = {} /\ EndsUnrevealed => EndsUnrevealed'
  BY <1>1, EndsUnrevealedNext
<1>7. "startOfRegroup" \notin AskingSteps /\ QuietRegroup => QuietRegroup'
  BY <1>1, QuietRegroupNext
<1> QED BY <1>2, <1>3, <1>4, <1>5, <1>6, <1>7 DEF UndoHistoryInv, HistoryPart

\* What was revealed to a player is not taken back by going back to an action without
\* asking (getRollbackConfirmation, setRequiresConfirmationToRollbackCurrentSnapshot),
\* except at the questions that follow a rollback to the end of the action phase.
THEOREM RevealedIsKept ==
  ASSUME GameStates = GameRecords, Timepoints = SnapshotTimepoint
  PROVE  UndoSpec => [](phaseObj.mode # "rollbackToEndOfPhase" => ActionUndoKeepsRevealed)
<1>1. UndoInit => UndoHistoryInv
  BY UndoHistoryInit
<1>2. UndoHistoryInv /\ [UndoNext]_undoGameVars => UndoHistoryInv'
  BY UndoHistoryNext
<1>3. UndoHistoryInv => (phaseObj.mode # "rollbackToEndOfPhase" => ActionUndoKeepsRevealed)
  BY RevealedNeedsConsent DEF UndoHistoryInv, AtEnd
<1> QED BY <1>1, <1>2, <1>3, PTL DEF UndoSpec

\* Without exception where the windows that end the action phase reveal nothing.
THEOREM RevealedIsAlwaysKept ==
  ASSUME GameStates = GameRecords, Timepoints = SnapshotTimepoint,
         RevealingSteps \cap {"tearDown", "phaseEnded"} = {}
  PROVE  UndoSpec => []ActionUndoKeepsRevealed
<1> DEFINE Inv == UndoHistoryInv /\ EndsUnrevealed
<1>1. UndoInit => Inv
  BY UndoHistoryInit
<1>2. Inv /\ [UndoNext]_undoGameVars => Inv'
  BY UndoHistoryNext
<1>3. Inv => ActionUndoKeepsRevealed
  BY RevealedNeedsConsent DEF UndoHistoryInv
<1> HIDE DEF Inv
<1> QED BY <1>1, <1>2, <1>3, PTL DEF UndoSpec

\* Going back to an action without asking takes back no ability the opponent has
\* resolved (hasResolvedAbilityThisTimepoint, opponentActedSinceLastSnapshot), except
\* at the questions of the start of the regroup phase.
THEOREM AbilitiesAreSpared ==
  ASSUME GameStates = GameRecords, Timepoints = SnapshotTimepoint
  PROVE  UndoSpec => [](pc # "drawTwo" => ActionUndoSparesAbilities)
<1>1. UndoInit => UndoHistoryInv
  BY UndoHistoryInit
<1>2. UndoHistoryInv /\ [UndoNext]_undoGameVars => UndoHistoryInv'
  BY UndoHistoryNext
<1>3. UndoHistoryInv => (pc # "drawTwo" => ActionUndoSparesAbilities)
  BY AbilitiesNeedConsent DEF UndoHistoryInv
<1> QED BY <1>1, <1>2, <1>3, PTL DEF UndoSpec

\* Without exception where the cards of the start of regroup ask nothing.
THEOREM AbilitiesAreAlwaysSpared ==
  ASSUME GameStates = GameRecords, Timepoints = SnapshotTimepoint, "startOfRegroup" \notin AskingSteps
  PROVE  UndoSpec => []ActionUndoSparesAbilities
<1> DEFINE Inv == UndoHistoryInv /\ QuietRegroup
<1>1. UndoInit => Inv
  BY UndoHistoryInit
<1>2. Inv /\ [UndoNext]_undoGameVars => Inv'
  BY UndoHistoryNext
<1>3. Inv => ActionUndoSparesAbilities
  BY AbilitiesNeedConsent DEF UndoHistoryInv, QuietRegroup
<1> HIDE DEF Inv
<1> QED BY <1>1, <1>2, <1>3, PTL DEF UndoSpec

-----------------------------------------------------------------------------
(* Whom the windows have asked, and where something was decided *)

Asked(id) == id \in DOMAIN firstAsked /\ firstAsked[id] # NoPlayer
Settled(id) == decided[id] # {}

\* The timepoints a window opens right after.
WindowTimepoints == {"startOfPhase", "endOfPhase", "regroupReadyCards"}

\* A timepoint quick undo knows for who was prompted since is one whose window asked.
AskedInv ==
  /\ \A id \in DOMAIN firstAsked : id \in DOMAIN snapshots /\ snapshots[id].timepoint \in WindowTimepoints
  /\ \A p \in Players : \A e \in quickSnapshots[p] :
       At(e.id, "endOfPhase") \/ At(e.id, "regroupReadyCards") \/ StartsPhase(e.id, "action") => Asked(e.id)

\* The window that follows the present timepoint has not opened yet.
BeforeWindow ==
  \/ Rebuilt \/ pc = "startPhase"
  \/ AtEnd /\ pc \in {"tearDown", "endPhase"}
  \/ pc = "readyAllCards" /\ ~TakesReadySnapshots

\* Who was asked is being asked or has answered, and who was prompted was asked.
WindowInv ==
  /\ Asked(currentId) /\ ~BeforeWindow => asking # <<>> \/ Settled(currentId)
  /\ KeepsForPrompted \/ (pc = "drawTwo" /\ phaseObj.mode # "rollbackToWithinPhase") =>
       (prompted # {} \/ asking # <<>> => Asked(currentId))

LEMMA WindowsRemember ==
  ASSUME asking' \in Seq(Players), NEW id, AsksAsBefore(id)
  PROVE  /\ DOMAIN firstAsked' = DOMAIN firstAsked \cup {id}
         /\ \A other \in DOMAIN firstAsked : firstAsked'[other] = firstAsked[other]
         /\ \A other : Asked(other) => Asked(other)'
         /\ \A other : other # id /\ Asked(other)' => Asked(other)
         /\ Asked(id)' <=> asking' # <<>>
<1>1. asking' # <<>> => Head(asking') \in Players
  OBVIOUS
<1>2. FirstOf(asking') # NoPlayer <=> asking' # <<>>
  BY <1>1, RoundFlowAssumption DEF FirstOf
<1>3. firstAsked' = [other \in DOMAIN firstAsked \cup {id} |->
                       IF other = id THEN FirstOf(asking') ELSE firstAsked[other]]
  BY DEF AsksAsBefore
<1>4. id \in DOMAIN firstAsked => FirstOf(asking') = firstAsked[id]
  BY DEF AsksAsBefore
<1> QED BY <1>2, <1>3, <1>4 DEF Asked

\* The windows that open at the present timepoint.
LEMMA StayingAsks ==
  ASSUME UndoInv, PlaceInv, Stays
  PROVE  \/ /\ AsksAsBefore(currentId) /\ currentId # NoSnapshot
            /\ CurrentTimepoint \in WindowTimepoints
            /\ \/ StartPhase /\ ~AtEnd
               \/ EndPhase /\ AtEnd
               \/ ReadyAllCards /\ ~TakesReadySnapshots
         \/ /\ UNCHANGED firstAsked
            /\ ~(StartPhase /\ ~AtEnd) /\ ~(EndPhase /\ AtEnd) /\ ~(ReadyAllCards /\ ~TakesReadySnapshots)
<1>1. MomentPart /\ StoreInv /\ HeapInv
  BY DEF UndoInv
<1>2. CurrentTimepoint # "none" => currentId # NoSnapshot
  BY <1>1, CurrentIsRecorded
<1>3. CASE PlainStep \/ RepeatedStep
  <2>1. CASE StartPhase
    <3>1. pc = "startPhase" /\ (~AtEnd => CurrentTimepoint = "startOfPhase")
      BY <1>1, <2>1 DEF StartPhase, AtStep, MomentPart, TimepointInv, AtEnd
    <3>2. IF AtEnd THEN UNCHANGED firstAsked ELSE AsksAsBefore(currentId)
      BY <1>3, <3>1 DEF PlainStep, RepeatedStep, SetCurrentPhase, BeginRound, OpenMulliganPrompt, AtEnd,
         OpenSetupResourcePrompt, OpenResourcePrompt, OpenPrompt, RotateActivePlayer, TearDownActionPhase,
         OpenActionWindow, EndPhase, ReadyAllCards, AtStep
    <3> QED BY <1>2, <2>1, <3>1, <3>2 DEF WindowTimepoints, EndPhase, ReadyAllCards, AtStep
  <2>2. CASE EndPhase /\ AtEnd
    <3>1. pc = "endPhase" /\ CurrentTimepoint = "endOfPhase"
      BY <2>2 DEF EndPhase, AtStep, PlaceInv
    <3>2. AsksAsBefore(currentId)
      BY <1>3, <3>1 DEF PlainStep, RepeatedStep, StartPhase, SetCurrentPhase, BeginRound, OpenMulliganPrompt,
         OpenSetupResourcePrompt, OpenResourcePrompt, OpenPrompt, RotateActivePlayer, TearDownActionPhase,
         OpenActionWindow, ReadyAllCards, AtStep
    <3> QED BY <1>2, <2>2, <3>1, <3>2 DEF WindowTimepoints
  <2>3. CASE ReadyAllCards /\ ~TakesReadySnapshots
    <3>1. pc = "readyAllCards" /\ CurrentTimepoint = "regroupReadyCards"
      BY <2>3 DEF ReadyAllCards, AtStep, PlaceInv
    <3>2. AsksAsBefore(currentId)
      BY <1>3, <3>1 DEF PlainStep, RepeatedStep, StartPhase, SetCurrentPhase, BeginRound, OpenMulliganPrompt,
         OpenSetupResourcePrompt, OpenResourcePrompt, OpenPrompt, RotateActivePlayer, TearDownActionPhase,
         OpenActionWindow, EndPhase, AtStep
    <3> QED BY <1>2, <2>3, <3>1, <3>2 DEF WindowTimepoints
  <2> QED BY <1>3, <2>1, <2>2, <2>3 DEF PlainStep, RepeatedStep, AtEnd
<1>4. CASE DrawingStep \/ FirstPlayerStep \/ AnswerQuestion \/ \E p \in Players : PlayerChoice(p)
  <2>1. UNCHANGED firstAsked
    BY <1>4 DEF DrawingStep, FirstPlayerStep, AnswerQuestion, PlayerChoice
  <2>2. \A p \in Players : Choice(p) => asking = <<>> /\ pc \in PromptedAll \cup {"actionWindow"}
    BY ChoicesMove DEF PromptedAll
  <2>3. Draws \/ ChooseFirstPlayer \/ Answer \/ \E p \in Players : Choice(p)
    BY <1>4 DEF DrawingStep, FirstPlayerStep, AnswerQuestion, PlayerChoice, Choice
  <2> QED BY <2>1, <2>2, <2>3 DEF StartPhase, EndPhase, ReadyAllCards, AtStep, Draws, ChooseFirstPlayer, Answer,
                                  PromptedAll
<1> QED BY <1>3, <1>4 DEF Stays

\* A window opens with the timepoint it follows.
LEMMA MovingAsks ==
  ASSUME UndoInv, TimepointStep
  PROVE  \/ UNCHANGED firstAsked /\ pc' \notin {"phaseEnded", "cardsReadied"}
         \/ /\ AsksAsBefore(currentId') /\ CurrentTimepoint' \in WindowTimepoints
            /\ asking' = <<>> => prompted' = {} \/ ~KeepsForPrompted'
<1>1. StoreInv /\ HeapInv
  BY DEF UndoInv
<1>2. \/ UNCHANGED firstAsked /\ pc' \notin {"phaseEnded", "cardsReadied"}
      \/ /\ AsksAsBefore(currentId')
         /\ \/ EndPhase /\ ~AtEnd /\ ReachTimepoint("endOfPhase", {})
            \/ ReadyAllCards /\ TakesReadySnapshots /\ ReachTimepoint("regroupReadyCards", {})
  BY DEF TimepointStep, AtEnd, StartOfPhaseSnapshot, SnapshotBeforeMulligan, SnapshotBeforeResource,
         OpenActionWindow, DrawTwo
<1>3. \A timepoint : MoveToNextTimepoint(timepoint) => CurrentTimepoint' = timepoint
  BY <1>1, MovingMovesTheLine, MovedIsCurrent
<1>4. CASE EndPhase /\ ~AtEnd /\ ReachTimepoint("endOfPhase", {})
  BY <1>2, <1>3, <1>4 DEF ReachTimepoint, WindowTimepoints, EndPhase, Ask, KeepsForPrompted, TakesEndSnapshots
<1>5. CASE ReadyAllCards /\ TakesReadySnapshots /\ ReachTimepoint("regroupReadyCards", {})
  BY <1>2, <1>3, <1>5 DEF ReachTimepoint, WindowTimepoints, ReadyAllCards, Ask, KeepsForPrompted
<1> QED BY <1>2, <1>4, <1>5

LEMMA AskedInvNext ==
  ASSUME HistoryPart, AskedInv, WindowInv, UndoNext \/ UNCHANGED undoGameVars, UndoInv'
  PROVE  AskedInv'
<1>1. /\ UndoInv /\ StoreInv /\ HeapInv /\ MomentPart /\ PlaceInv
      /\ asking' \in Seq(Players)
      /\ \A p \in Players : \A e \in quickSnapshots[p] : e.id \in DOMAIN snapshots
      /\ \A id \in DOMAIN snapshots : id \in Nat
      /\ CurrentTimepoint # "none" => currentId # NoSnapshot
      /\ currentId # NoSnapshot =>
           currentId \in DOMAIN snapshots /\ CurrentTimepoint = snapshots[currentId].timepoint
  BY ContainersAreTyped, CurrentIsRecorded DEF HistoryPart, UndoInv, RoundPart, RoundTypeOK
<1>2. CASE TimepointStep
  <2>1. PICK timepoint \in SnapshotTimepoint, players \in SUBSET Players, source \in Sources :
          /\ LineMoved(timepoint) /\ EntriesAdded(players, source, currentId')
          /\ timepoint \in {"endOfPhase", "regroupReadyCards"} => players = {}
          /\ timepoint = "startOfPhase" => players = IF game.phase = "action" THEN {} ELSE Players
    BY <1>1, <1>2, MovingAddsEntries
  <2>2. /\ DOMAIN snapshots' = DOMAIN snapshots \cup {currentId'} /\ currentId' \notin DOMAIN snapshots
        /\ \A id \in DOMAIN snapshots : SameRecord(id)
        /\ snapshots'[currentId'].timepoint = timepoint /\ snapshots'[currentId'].state = game
        /\ CurrentTimepoint' = timepoint
    BY <1>1, <2>1, MovedIsCurrent
  <2>3. /\ \A id : Asked(id) => Asked(id)'
        /\ \A id \in DOMAIN firstAsked' :
             id \in DOMAIN firstAsked \/ (id = currentId' /\ timepoint \in WindowTimepoints)
    <3>1. CASE UNCHANGED firstAsked
      BY <3>1 DEF Asked
    <3>2. CASE AsksAsBefore(currentId') /\ CurrentTimepoint' \in WindowTimepoints
      <4>1. PICK new : new = currentId'
        OBVIOUS
      <4>2. AsksAsBefore(new)
        BY <3>2, <4>1 DEF AsksAsBefore
      <4>3. /\ DOMAIN firstAsked' = DOMAIN firstAsked \cup {new}
            /\ \A other : Asked(other) => Asked(other)'
        BY <1>1, <4>2, WindowsRemember
      <4> QED BY <2>2, <3>2, <4>1, <4>3
    <3> QED BY <1>1, <1>2, <3>1, <3>2, MovingAsks
  <2>4. \A id \in DOMAIN firstAsked' : id \in DOMAIN snapshots' /\ snapshots'[id].timepoint \in WindowTimepoints
    BY <2>2, <2>3 DEF AskedInv, SameRecord
  <2>5. ASSUME NEW p \in Players, NEW e \in quickSnapshots'[p],
               At(e.id, "endOfPhase")' \/ At(e.id, "regroupReadyCards")' \/ StartsPhase(e.id, "action")'
        PROVE  Asked(e.id)'
    <3>1. e \in quickSnapshots[p] \/ (e.id = currentId' /\ p \in players)
      BY <2>1 DEF EntriesAdded, WithQuickEntry
    <3>2. CASE e \in quickSnapshots[p]
      BY <1>1, <2>2, <2>3, <2>5, <3>2 DEF AskedInv, SameRecord, At, StartsPhase
    <3>3. CASE e.id = currentId' /\ p \in players
      BY <2>1, <2>2, <2>5, <3>3 DEF At, StartsPhase
    <3> QED BY <3>1, <3>2, <3>3
  <2> QED BY <2>4, <2>5 DEF AskedInv
<1>3. ASSUME NEW id \in Targets, RollBack(id) PROVE AskedInv'
  <2>1. /\ id \in Nat
        /\ DOMAIN snapshots' = {other \in DOMAIN snapshots : other <= id}
        /\ \A other \in DOMAIN snapshots' : SameRecord(other)
        /\ \A p \in Players : quickSnapshots'[p] = EntriesUpTo(quickSnapshots[p], id)
    BY <1>1, <1>3, CutIsCurrent DEF LineCut
  <2>2. firstAsked' = [other \in UpTo(DOMAIN firstAsked, id) |-> firstAsked[other]]
    BY <1>3 DEF RollBack
  <2>3. \A other : Asked(other) /\ other <= id => Asked(other)'
    BY <2>2 DEF Asked, UpTo
  <2>4. \A other \in DOMAIN firstAsked' : other \in DOMAIN snapshots' /\ snapshots'[other].timepoint \in WindowTimepoints
    BY <2>1, <2>2 DEF AskedInv, UpTo, SameRecord
  <2>5. ASSUME NEW p \in Players, NEW e \in quickSnapshots'[p],
               At(e.id, "endOfPhase")' \/ At(e.id, "regroupReadyCards")' \/ StartsPhase(e.id, "action")'
        PROVE  Asked(e.id)'
    <3>1. e \in quickSnapshots[p] /\ e.id <= id /\ e.id \in DOMAIN snapshots'
      BY <1>1, <2>1 DEF EntriesUpTo
    <3> QED BY <2>1, <2>3, <2>5, <3>1 DEF AskedInv, SameRecord, At, StartsPhase
  <2> QED BY <2>4, <2>5 DEF AskedInv
<1>4. CASE KeepingStep
  <2>1. UNCHANGED <<snapshots, currentId, firstAsked>>
    BY <1>1, <1>4, KeepingAddsEntries DEF KeepingStep, historyVars
  <2>2. PICK players \in SUBSET Players, source \in Sources :
          EntriesAdded(players, source, currentId) /\ (players # {} => KeepsForPrompted /\ prompted # {})
    BY <1>1, <1>4, KeepingAddsEntries
  <2>3. \A id : Asked(id)' <=> Asked(id)
    BY <2>1 DEF Asked
  <2>4. players # {} => Asked(currentId)
    BY <2>2 DEF WindowInv
  <2>5. \A p \in Players : \A e \in quickSnapshots'[p] :
          e \in quickSnapshots[p] \/ (e.id = currentId /\ p \in players)
    BY <2>2 DEF EntriesAdded, WithQuickEntry
  <2>6. \A p \in Players : \A e \in quickSnapshots'[p] :
          e \in quickSnapshots[p] \/ Asked(e.id)
    BY <2>4, <2>5
  <2> QED BY <2>1, <2>3, <2>6 DEF AskedInv, At, StartsPhase
<1>5. CASE FlagsRaised /\ UNCHANGED firstAsked
  <2>1. /\ DOMAIN snapshots' = DOMAIN snapshots /\ quickSnapshots' = quickSnapshots
        /\ \A id \in DOMAIN snapshots : SameRecord(id)
    BY <1>1, <1>5, FlaggedIsCurrent
  <2> QED BY <1>1, <1>5, <2>1 DEF AskedInv, SameRecord, At, StartsPhase, Asked
<1>6. CASE Stays /\ AsksAsBefore(currentId) /\ currentId # NoSnapshot /\ CurrentTimepoint \in WindowTimepoints
  <2>1. /\ DOMAIN snapshots' = DOMAIN snapshots /\ quickSnapshots' = quickSnapshots
        /\ \A id \in DOMAIN snapshots : SameRecord(id)
    BY <1>1, <1>6, FlaggedIsCurrent DEF Stays
  <2>2. /\ \A id : Asked(id) => Asked(id)'
        /\ DOMAIN firstAsked' = DOMAIN firstAsked \cup {currentId}
    BY <1>1, <1>6, WindowsRemember
  <2> QED BY <1>1, <1>6, <2>1, <2>2 DEF AskedInv, SameRecord, At, StartsPhase
<1>7. CASE Stays
  BY <1>1, <1>5, <1>6, <1>7, StayingAsks DEF Stays
<1> QED BY <1>1, <1>2, <1>3, <1>4, <1>5, <1>7, UndoStepKinds DEF Stands, historyVars

\* A step that stays decides nothing away, and an answer or a choice decides something.
LEMMA StayingSettles ==
  ASSUME UndoInv, HistoryDomains, Stays
  PROVE  /\ currentId' = currentId
         /\ currentId # NoSnapshot /\ Settled(currentId) => Settled(currentId)'
         /\ currentId # NoSnapshot /\ (Answer \/ ChooseFirstPlayer \/ \E p \in Players : Choice(p)) =>
              Settled(currentId)'
         /\ \A id \in DOMAIN snapshots : Settled(id) => Settled(id)'
<1>1. /\ StoreInv /\ HeapInv /\ (currentId # NoSnapshot => currentId \in DOMAIN decided)
      /\ \A id \in DOMAIN decided : decided[id] \subseteq decided'[id]
      /\ FlagsRaised
  BY CurrentIsRecorded DEF UndoInv, HistoryDomains, Stays, Grows
<1>2. currentId' = currentId
  BY <1>1, FlaggedIsCurrent
<1>3. \A id \in DOMAIN snapshots : Settled(id) => Settled(id)'
  BY <1>1 DEF Settled, HistoryDomains
<1>4. \A p, ability : Decides(p, ability) /\ currentId # NoSnapshot =>
        [by |-> p, ability |-> ability] \in decided'[currentId]
  BY <1>1 DEF Decides
<1>5. \A p, ability : Decides(p, ability) /\ currentId # NoSnapshot => Settled(currentId)'
  BY <1>2, <1>4 DEF Settled
<1>6. ASSUME currentId # NoSnapshot, Answer \/ ChooseFirstPlayer \/ \E p \in Players : Choice(p)
      PROVE  Settled(currentId)'
  <2>1. CASE PlainStep \/ RepeatedStep \/ DrawingStep
    BY <1>6, <2>1, ChoicesMove DEF PlainStep, RepeatedStep, DrawingStep, StartPhase, SetCurrentPhase, BeginRound,
       OpenMulliganPrompt, OpenSetupResourcePrompt, OpenResourcePrompt, OpenPrompt, RotateActivePlayer,
       TearDownActionPhase, OpenActionWindow, EndPhase, ReadyAllCards, Draws, AtStep, Answer, ChooseFirstPlayer
  <2>2. CASE FirstPlayerStep
    BY <1>5, <1>6, <2>2 DEF FirstPlayerStep
  <2>3. ASSUME NEW p \in Players, PlayerChoice(p) PROVE Settled(currentId)'
    <3>1. Decides(p, p \in resolved')
      BY <2>3 DEF PlayerChoice
    <3> QED BY <1>5, <1>6, <3>1
  <2>4. CASE AnswerQuestion
    <3>1. Decides(Head(asking), Head(asking) \in resolved')
      BY <2>4 DEF AnswerQuestion
    <3> QED BY <1>5, <1>6, <3>1
  <2> QED BY <2>1, <2>2, <2>3, <2>4 DEF Stays
<1> QED BY <1>1, <1>2, <1>3, <1>6, CurrentIsRecorded DEF HistoryDomains

LEMMA WindowInvMoved ==
  ASSUME HistoryPart, AskedInv, TimepointStep, UndoInv'
  PROVE  WindowInv'
<1>1. /\ UndoInv /\ StoreInv /\ asking' \in Seq(Players)
  BY DEF HistoryPart, UndoInv, RoundPart, RoundTypeOK
<1>2. PICK timepoint \in SnapshotTimepoint : MovesFrom(timepoint) /\ LineMoved(timepoint)
  BY <1>1, TimepointMoves
<1>3. /\ currentId' \notin DOMAIN snapshots
      /\ pc' \notin {"drawTwo", "setupActionPhase"}
  BY <1>1, <1>2, MovedIsCurrent DEF MovesFrom
<1>4. CASE UNCHANGED firstAsked /\ pc' \notin {"phaseEnded", "cardsReadied"}
  <2>1. ~Asked(currentId)'
    BY <1>3, <1>4 DEF Asked, AskedInv
  <2> QED BY <1>3, <1>4, <2>1 DEF WindowInv, KeepsForPrompted
<1>5. CASE AsksAsBefore(currentId') /\ (asking' = <<>> => prompted' = {} \/ ~KeepsForPrompted')
  <2>1. PICK new : new = currentId'
    OBVIOUS
  <2>2. AsksAsBefore(new)
    BY <1>5, <2>1 DEF AsksAsBefore
  <2>3. Asked(new)' <=> asking' # <<>>
    BY <1>1, <2>2, WindowsRemember
  <2>4. Asked(currentId)' <=> asking' # <<>>
    BY <2>1, <2>3 DEF Asked
  <2> QED BY <1>3, <1>5, <2>4 DEF WindowInv
<1> QED BY <1>1, <1>4, <1>5, MovingAsks

LEMMA WindowInvKept ==
  ASSUME HistoryPart, WindowInv, KeepingStep
  PROVE  WindowInv'
<1>1. UndoInv
  BY DEF HistoryPart
<1>2. UNCHANGED <<snapshots, currentId, decided, firstAsked>>
  BY <1>1, KeepingAddsEntries DEF KeepingStep, historyVars
<1>3. (Asked(currentId)' <=> Asked(currentId)) /\ (Settled(currentId)' <=> Settled(currentId))
  BY <1>2 DEF Asked, Settled
<1>4. /\ asking = <<>> /\ pc \in {"phaseEnded", "cardsReadied", "setupActionPhase"}
      /\ pc' \in {"setCurrentPhase", "beginRound", "endPhase", "queueNextAction"}
  BY DEF KeepingStep, PhaseEnded, CardsReadied, SetupActionPhase, AtStep
<1>5. ~BeforeWindow
  BY <1>4 DEF BeforeWindow, Rebuilt
<1> QED BY <1>3, <1>4, <1>5 DEF WindowInv, KeepsForPrompted

LEMMA WindowInvStands ==
  ASSUME HistoryPart, WindowInv, Stands
  PROVE  WindowInv'
<1>1. StoreInv /\ HeapInv
  BY DEF HistoryPart, UndoInv
<1>2. currentId' = currentId /\ UNCHANGED <<pc, phaseObj, asking, decided, firstAsked>>
  BY <1>1, FlaggedIsCurrent DEF Stands, historyVars
<1>3. /\ Asked(currentId)' <=> Asked(currentId)
      /\ Settled(currentId)' <=> Settled(currentId)
      /\ BeforeWindow' <=> BeforeWindow
      /\ KeepsForPrompted' <=> KeepsForPrompted
  BY <1>2 DEF Asked, Settled, BeforeWindow, Rebuilt, AtEnd, TakesReadySnapshots, TakesEndSnapshots, KeepsForPrompted
<1>4. KeepsForPrompted \/ (pc = "drawTwo" /\ phaseObj.mode # "rollbackToWithinPhase") =>
        (Waiting => asking # <<>>)
  BY DEF KeepsForPrompted, Waiting, PromptedAll
<1>5. prompted' = prompted \/ Waiting
  BY DEF Stands
<1>6. Asked(currentId) /\ ~BeforeWindow => asking # <<>> \/ Settled(currentId)
  BY DEF WindowInv
<1>7. KeepsForPrompted \/ (pc = "drawTwo" /\ phaseObj.mode # "rollbackToWithinPhase") =>
       (prompted # {} \/ asking # <<>> => Asked(currentId))
  BY DEF WindowInv
<1>8. KeepsForPrompted' \/ (pc' = "drawTwo" /\ phaseObj'.mode # "rollbackToWithinPhase") =>
       (prompted' # {} \/ asking' # <<>> => Asked(currentId)')
  BY <1>2, <1>3, <1>4, <1>5, <1>7
<1> QED BY <1>2, <1>3, <1>6, <1>8 DEF WindowInv

\* A step that opens no window leaves the moment before the window for no other.
LEMMA StaysBeforeWindow ==
  ASSUME HistoryPart, AskedInv, Stays, Asked(currentId), BeforeWindow, UNCHANGED firstAsked,
         ~(StartPhase /\ ~AtEnd), ~(EndPhase /\ AtEnd), ~(ReadyAllCards /\ ~TakesReadySnapshots)
  PROVE  BeforeWindow'
<1>1. UndoInv /\ StoreInv /\ HeapInv /\ FlowInv /\ phaseObj \in RunnablePhases
  BY DEF HistoryPart, UndoInv, RoundPart, FlowInv
<1>2. CurrentTimepoint \in WindowTimepoints
  BY <1>1, CurrentIsLast DEF Asked, AskedInv, CurrentTimepoint
<1>3. CASE SetCurrentPhase
  <2>1. phaseObj.mode # "normal"
    BY <1>3 DEF BeforeWindow, Rebuilt, AtEnd, SetCurrentPhase, AtStep
  <2> QED BY <1>1, <1>2, <1>3, <2>1, ResumedIsPlaced DEF BeforeWindow, WindowTimepoints, TakesReadySnapshots
<1>4. CASE StartPhase
  <2>1. AtEnd /\ pc' = phaseObj.first /\ phaseObj' = phaseObj
    BY <1>4 DEF StartPhase
  <2> QED BY <1>1, <2>1 DEF RunnablePhases, BeforeWindow, AtEnd
<1>5. CASE TearDownActionPhase
  BY <1>5 DEF TearDownActionPhase, AtStep, BeforeWindow, Rebuilt, AtEnd
<1>6. CASE Answer
  BY <1>6 DEF Answer, BeforeWindow, Rebuilt, AtEnd, TakesReadySnapshots
<1>7. CASE EndPhase \/ ReadyAllCards
  BY <1>7 DEF EndPhase, ReadyAllCards, AtStep, BeforeWindow, Rebuilt, AtEnd
<1>8. ASSUME NEW p \in Players, Choice(p) PROVE FALSE
  BY <1>8, ChoicesMove DEF BeforeWindow, Rebuilt
<1> QED BY <1>3, <1>4, <1>5, <1>6, <1>7, <1>8
           DEF Stays, StaysAtTimepoint, BeginRound, OpenMulliganPrompt, OpenSetupResourcePrompt,
               OpenResourcePrompt, OpenPrompt, RotateActivePlayer, OpenActionWindow, Draws, ChooseFirstPlayer,
               AtStep, BeforeWindow, Rebuilt

LEMMA WindowInvStays ==
  ASSUME HistoryPart, AskedInv, WindowInv, Stays, UndoInv'
  PROVE  WindowInv'
<1>1. /\ UndoInv /\ HistoryDomains /\ PlaceInv /\ asking' \in Seq(Players)
      /\ FlowInv /\ phaseObj \in RunnablePhases /\ StoreInv /\ HeapInv
  BY DEF HistoryPart, UndoInv, RoundPart, RoundTypeOK, FlowInv
<1>2. /\ currentId' = currentId
      /\ Asked(currentId) => currentId # NoSnapshot
  BY <1>1, StayingSettles, CurrentIsLast DEF Asked, AskedInv
<1>3. CASE /\ AsksAsBefore(currentId) /\ currentId # NoSnapshot
           /\ \/ StartPhase /\ ~AtEnd
              \/ EndPhase /\ AtEnd
              \/ ReadyAllCards /\ ~TakesReadySnapshots
  <2>1. Asked(currentId)' <=> asking' # <<>>
    <3>1. PICK c : c = currentId
      OBVIOUS
    <3>2. AsksAsBefore(c)
      BY <1>3, <3>1 DEF AsksAsBefore
    <3>3. Asked(c)' <=> asking' # <<>>
      BY <1>1, <3>2, WindowsRemember
    <3> QED BY <1>2, <3>1, <3>3 DEF Asked
  <2>2. KeepsForPrompted' \/ (pc' = "drawTwo" /\ phaseObj'.mode # "rollbackToWithinPhase") =>
          (asking' = <<>> => prompted' = {})
    <3>1. CASE StartPhase
      BY <3>1 DEF StartPhase, Ask
    <3>2. CASE EndPhase /\ AtEnd
      BY <3>2 DEF EndPhase, AtEnd, KeepsForPrompted, TakesEndSnapshots
    <3>3. CASE ReadyAllCards /\ ~TakesReadySnapshots
      BY <3>3 DEF ReadyAllCards, KeepsForPrompted, TakesReadySnapshots
    <3> QED BY <1>3, <3>1, <3>2, <3>3
  <2> QED BY <2>1, <2>2 DEF WindowInv
<1>4. CASE /\ UNCHANGED firstAsked
           /\ ~(StartPhase /\ ~AtEnd) /\ ~(EndPhase /\ AtEnd) /\ ~(ReadyAllCards /\ ~TakesReadySnapshots)
  <2>1. Asked(currentId)' <=> Asked(currentId)
    BY <1>2, <1>4 DEF Asked
  <2>2. Asked(currentId)' /\ ~BeforeWindow' => asking' # <<>> \/ Settled(currentId)'
    <3> SUFFICES ASSUME Asked(currentId), ~BeforeWindow', asking' = <<>> PROVE Settled(currentId)'
      BY <2>1
    <3>1. ~BeforeWindow
      BY <1>4, StaysBeforeWindow
    <3>2. asking # <<>> \/ Settled(currentId)
      BY <3>1 DEF WindowInv
    <3>3. asking # <<>> => Answer
      BY ChoicesMove DEF Stays, StaysAtTimepoint, StartPhase, SetCurrentPhase, BeginRound, OpenMulliganPrompt,
         OpenSetupResourcePrompt, OpenResourcePrompt, OpenPrompt, RotateActivePlayer, TearDownActionPhase,
         OpenActionWindow, EndPhase, ReadyAllCards, Draws, ChooseFirstPlayer, AtStep
    <3> QED BY <1>1, <1>2, <3>2, <3>3, StayingSettles
  <2>3. KeepsForPrompted' \/ (pc' = "drawTwo" /\ phaseObj'.mode # "rollbackToWithinPhase") => Answer
    <3> SUFFICES ASSUME KeepsForPrompted' \/ (pc' = "drawTwo" /\ phaseObj'.mode # "rollbackToWithinPhase")
                 PROVE  Answer
      OBVIOUS
    <3>1. /\ pc' \in {"phaseEnded", "cardsReadied", "setupActionPhase", "drawTwo"}
          /\ pc' = "phaseEnded" => phaseObj'.mode # "rollbackToEndOfPhase"
          /\ pc' = "cardsReadied" => TakesReadySnapshots'
          /\ pc' = "setupActionPhase" => phaseObj'.mode = "normal"
          /\ pc' = "drawTwo" => phaseObj'.mode # "rollbackToWithinPhase"
      BY DEF KeepsForPrompted, TakesEndSnapshots
    <3>2. ~SetCurrentPhase
      <4>1. phaseObj.name \in Phases
        BY <1>1, PhasesThatRun
      <4>2. phaseObj.mode = "rollbackToWithinPhase" =>
              phaseObj.first \in {"mulliganPrompt", "setupResourcePrompt", "queueNextAction", "drawTwo", "readyAllCards"}
        BY <1>1, <4>1, FirstStepsAreOwn DEF ResumedSteps, Phases
      <4> QED BY <3>1, <4>2 DEF SetCurrentPhase
    <3>3. ~StartPhase
      BY <1>1, <1>4, <3>1 DEF StartPhase, AtEnd, RunnablePhases
    <3>4. ~(EndPhase /\ phaseObj.mode = "rollbackToEndOfPhase") /\ ~(ReadyAllCards /\ ~TakesReadySnapshots)
      BY <1>4 DEF AtEnd
    <3>5. \A p \in Players : ~Choice(p)
      BY <3>1, ChoicesMove
    <3> QED BY <3>1, <3>2, <3>3, <3>4, <3>5 DEF Stays, StaysAtTimepoint, BeginRound, OpenMulliganPrompt,
              OpenSetupResourcePrompt, OpenResourcePrompt, OpenPrompt, RotateActivePlayer, TearDownActionPhase,
              OpenActionWindow, Draws, ChooseFirstPlayer, AtStep
  <2>4. Answer => /\ asking # <<>> /\ pc' = pc /\ phaseObj' = phaseObj
                  /\ KeepsForPrompted' <=> KeepsForPrompted
    BY DEF Answer, KeepsForPrompted, TakesEndSnapshots, TakesReadySnapshots
  <2>5. KeepsForPrompted' \/ (pc' = "drawTwo" /\ phaseObj'.mode # "rollbackToWithinPhase") => Asked(currentId)'
    BY <2>1, <2>3, <2>4 DEF WindowInv
  <2> QED BY <2>2, <2>5 DEF WindowInv
<1> QED BY <1>1, <1>3, <1>4, StayingAsks

LEMMA WindowInvNext ==
  ASSUME HistoryPart, AskedInv, WindowInv, UndoNext \/ UNCHANGED undoGameVars, UndoInv'
  PROVE  WindowInv'
<1>1. UndoInv /\ StoreInv /\ HeapInv
  BY DEF HistoryPart, UndoInv
<1>2. ASSUME NEW id \in Targets, RollBack(id) PROVE WindowInv'
  BY <1>1, <1>2, CutIsCurrent DEF WindowInv, BeforeWindow, Rebuilt, KeepsForPrompted
<1> QED BY <1>1, <1>2, WindowInvMoved, WindowInvKept, WindowInvStands, WindowInvStays, UndoStepKinds

\* Past a prompt, a choice or an action, something was decided at the present timepoint.
PastDecision ==
  \/ pc \in {"beforeMulligan", "beforeResource", "rotate"}
  \/ pc \in {"tearDown", "endPhase"} /\ phaseObj.name = "action" /\ ~AtEnd
  \/ pc = "endPhase" /\ phaseObj.name = "setup"
  \/ pc = "readyAllCards" /\ TakesReadySnapshots
  \/ pc = "queueNextAction" /\ CurrentTimepoint = "action" /\ ~OpensAgain
  \/ pc \in PromptedAll /\ done # {}
SettledInv == PastDecision => Settled(currentId)

LEMMA SettledInvStays ==
  ASSUME HistoryPart, GameStates = GameRecords, SettledInv, Stays
  PROVE  SettledInv'
<1>1. /\ UndoInv /\ HistoryDomains /\ PlaceInv /\ FlowInv /\ GameInv /\ MomentPart /\ StoreInv /\ HeapInv
      /\ phaseObj \in RunnablePhases /\ phaseObj.name \in Phases
      /\ game \in GameRecords
  BY PhasesThatRun DEF HistoryPart, UndoInv, RoundPart, RoundTypeOK, FlowInv
<1>2. /\ currentId' = currentId /\ CurrentTimepoint' = CurrentTimepoint
      /\ currentId # NoSnapshot => snapshots'[currentId'].state = snapshots[currentId].state
      /\ CurrentTimepoint # "none" => currentId # NoSnapshot
  BY <1>1, FlaggedIsCurrent, CurrentIsRecorded DEF Stays
<1>3. /\ currentId # NoSnapshot /\ Settled(currentId) => Settled(currentId)'
      /\ currentId # NoSnapshot /\ (Answer \/ ChooseFirstPlayer \/ \E p \in Players : Choice(p)) =>
           Settled(currentId)'
  BY <1>1, StayingSettles
<1>4. \A p \in Players : Choice(p) => currentId # NoSnapshot
  BY <1>1, <1>2, ChoicesMove DEF MomentPart, TimepointInv, PlaceInv
<1>5. CASE (\E p \in Players : Choice(p)) \/ ChooseFirstPlayer
  <2>1. currentId # NoSnapshot
    BY <1>1, <1>2, <1>4, <1>5 DEF ChooseFirstPlayer, AtStep, MomentPart, TimepointInv
  <2> QED BY <1>3, <1>5, <2>1 DEF SettledInv
<1>6. CASE Answer
  <2>1. currentId # NoSnapshot
    <3>1. asking # <<>> /\ Waiting
      BY <1>6 DEF Answer, Waiting
    <3> QED BY <1>1, <3>1, WaitingIsRecorded DEF UndoInv
  <2> QED BY <1>3, <1>6, <2>1 DEF SettledInv
<1>7. CASE SetCurrentPhase
  <2>1. CASE phaseObj.mode = "normal"
    BY <1>7, <2>1 DEF SetCurrentPhase, SettledInv, PastDecision, PromptedAll
  <2>2. CASE phaseObj.mode # "normal"
    <3>1. /\ game' = game /\ currentId # NoSnapshot /\ game = snapshots[currentId].state
          /\ phaseObj' = phaseObj
          /\ \/ pc' \in {"startPhase", "mulliganPrompt", "setupResourcePrompt", "queueNextAction", "drawTwo"}
             \/ pc' = "readyAllCards" /\ ~TakesReadySnapshots
      BY <1>1, <1>7, <2>2, ResumedIsPlaced
    <3>2. pc' = "queueNextAction" /\ CurrentTimepoint' = "action" => OpensAgain'
      BY <1>2, <3>1 DEF OpensAgain
    <3> QED BY <3>1, <3>2 DEF SettledInv, PastDecision, PromptedAll, TakesReadySnapshots
  <2> QED BY <2>1, <2>2
<1>8. CASE StartPhase
  <2>1. pc' = phaseObj.first /\ phaseObj' = phaseObj /\ phaseObj.mode # "rollbackToWithinPhase"
    BY <1>1, <1>8 DEF StartPhase, AtStep, FlowInv
  <2>2. pc' \in {"chooseFirstPlayer", "setupActionPhase", "drawTwo"} \/ (pc' = "tearDown" /\ AtEnd')
    BY <1>1, <2>1 DEF RunnablePhases, PhaseObjects, FirstStep, Phases, Modes, AtEnd
  <2> QED BY <2>2 DEF SettledInv, PastDecision, PromptedAll
<1>9. CASE RotateActivePlayer
  <2>1. /\ pc = "rotate" /\ currentId # NoSnapshot
        /\ pc' \in {"tearDown", "queueNextAction"}
    BY <1>1, <1>2, <1>9 DEF RotateActivePlayer, AtStep, MomentPart, TimepointInv
  <2> QED BY <1>3, <2>1 DEF SettledInv, PastDecision
<1>10. CASE TearDownActionPhase
  <2>1. /\ pc = "tearDown" /\ pc' = "endPhase" /\ phaseObj' = phaseObj /\ phaseObj.name = "action"
    BY <1>1, <1>10 DEF TearDownActionPhase, AtStep, FlowInv, OwnSteps, BetweenPhases, Phases
  <2>2. ~AtEnd => currentId # NoSnapshot
    BY <1>1, <1>2, <2>1 DEF PlaceInv
  <2> QED BY <1>3, <2>1, <2>2 DEF SettledInv, PastDecision, PromptedAll, AtEnd
<1>11. CASE OpenMulliganPrompt \/ OpenSetupResourcePrompt \/ OpenResourcePrompt
  BY <1>11 DEF OpenMulliganPrompt, OpenSetupResourcePrompt, OpenResourcePrompt, OpenPrompt, SettledInv,
               PastDecision, PromptedAll
<1>12. CASE BeginRound \/ OpenActionWindow \/ EndPhase \/ ReadyAllCards \/ Draws
  BY <1>12 DEF BeginRound, OpenActionWindow, EndPhase, ReadyAllCards, Draws, SettledInv, PastDecision, PromptedAll
<1> QED BY <1>5, <1>6, <1>7, <1>8, <1>9, <1>10, <1>11, <1>12 DEF Stays, StaysAtTimepoint

LEMMA SettledInvNext ==
  ASSUME HistoryPart, GameStates = GameRecords, SettledInv, UndoNext \/ UNCHANGED undoGameVars
  PROVE  SettledInv'
<1>1. /\ UndoInv /\ StoreInv /\ HeapInv /\ PlaceInv /\ MomentPart /\ FlowInv
      /\ phaseObj \in RunnablePhases /\ phaseObj.name \in Phases
  BY PhasesThatRun DEF HistoryPart, UndoInv, RoundPart, FlowInv
<1>2. CASE TimepointStep
  BY <1>1, <1>2, TimepointMoves DEF MovesFrom, SettledInv, PastDecision, PromptedAll
<1>3. ASSUME NEW id \in Targets, RollBack(id) PROVE SettledInv'
  BY <1>3 DEF RollBack, SettledInv, PastDecision, PromptedAll
<1>4. CASE KeepingStep
  <2>1. UNCHANGED <<snapshots, currentId>>
    BY <1>1, <1>4, KeepingAddsEntries
  <2>2. CASE PhaseEnded
    BY <2>2 DEF PhaseEnded, SettledInv, PastDecision, PromptedAll
  <2>3. CASE CardsReadied
    <3>1. pc' = "endPhase" /\ phaseObj' = phaseObj /\ phaseObj.name = "regroup"
      BY <1>1, <2>3 DEF CardsReadied, AtStep, FlowInv, OwnSteps, BetweenPhases, Phases
    <3> QED BY <3>1 DEF SettledInv, PastDecision, PromptedAll
  <2>4. CASE SetupActionPhase
    <3>1. pc' = "queueNextAction" /\ CurrentTimepoint = "startOfPhase"
      BY <1>1, <2>4 DEF SetupActionPhase, AtStep, MomentPart, TimepointInv
    <3>2. CurrentTimepoint' = CurrentTimepoint
      BY <2>1 DEF CurrentTimepoint
    <3> QED BY <3>1, <3>2 DEF SettledInv, PastDecision, PromptedAll
  <2> QED BY <1>4, <2>2, <2>3, <2>4 DEF KeepingStep
<1>5. CASE Stands
  <2>1. /\ currentId' = currentId /\ CurrentTimepoint' = CurrentTimepoint
        /\ currentId # NoSnapshot => snapshots'[currentId'].state = snapshots[currentId].state
        /\ UNCHANGED <<pc, phaseObj, done, decided>>
        /\ CurrentTimepoint # "none" => currentId # NoSnapshot
    BY <1>1, <1>5, FlaggedIsCurrent, CurrentIsRecorded DEF Stands, historyVars
  <2>2. pc = "queueNextAction" => ~Waiting
    BY <1>1 DEF Waiting, PromptedAll, FlowInv, AfterWindows
  <2>3. pc = "queueNextAction" => game' = game
    BY <1>5, <2>2 DEF Stands
  <2>4. pc = "queueNextAction" => (OpensAgain' <=> OpensAgain)
    BY <2>1, <2>3 DEF OpensAgain
  <2>5. PastDecision' => PastDecision
    BY <2>1, <2>4 DEF PastDecision, AtEnd, TakesReadySnapshots
  <2> QED BY <2>1, <2>5 DEF SettledInv, Settled
<1>6. CASE Stays
  BY <1>6, SettledInvStays
<1> QED BY <1>1, <1>2, <1>3, <1>4, <1>5, <1>6, UndoStepKinds

-----------------------------------------------------------------------------
(* Between two timepoints that quick undo tells apart, something was decided *)

DecidedBehind ==
  \A p \in Players : \A e \in quickSnapshots[p] : \A b \in DOMAIN snapshots :
    /\ e.id < b
    /\ At(b, "regroupResource") => \E f \in quickSnapshots[p] : f.id = b
    => \E s \in DOMAIN snapshots : e.id <= s /\ s < b /\ Settled(s)

\* What is behind a timepoint that is just reached.
LEMMA ReachedWithDecision ==
  ASSUME HistoryPart, AskedInv, WindowInv, SettledInv, DecidedBehind, TimepointStep,
         NEW timepoint \in SnapshotTimepoint, MovesFrom(timepoint), NEW p \in Players, NEW e \in quickSnapshots[p],
         timepoint = "regroupResource" => prompted # {} /\ phaseObj.mode # "rollbackToWithinPhase"
  PROVE  \E s \in DOMAIN snapshots : e.id <= s /\ Settled(s)
<1>1. /\ UndoInv /\ StoreInv /\ HeapInv /\ PlaceInv /\ MomentPart
      /\ e.id \in DOMAIN snapshots /\ asking = <<>> /\ ~AtEnd
      /\ phaseObj.name \in Phases
  BY ContainersAreTyped, TimepointMoves DEF HistoryPart, UndoInv
<1>2. /\ currentId \in DOMAIN snapshots /\ currentId # NoSnapshot /\ e.id \in Nat /\ e.id <= currentId
      /\ currentId \in Nat
      /\ CurrentTimepoint = snapshots[currentId].timepoint
  BY <1>1, CurrentIsLast DEF CurrentTimepoint
<1>3. SUFFICES ASSUME ~Settled(currentId) PROVE \E s \in DOMAIN snapshots : e.id <= s /\ Settled(s)
  BY <1>2
<1>4. CASE CurrentTimepoint # "regroupResource" /\ e.id # currentId
  <2>1. e.id < currentId /\ ~At(currentId, "regroupResource")
    BY <1>2, <1>4 DEF At
  <2> QED BY <1>2, <2>1 DEF DecidedBehind
<1>5. ASSUME Asked(currentId), pc \in {"startOfPhase", "queueNextAction", "drawTwo", "endPhase"} PROVE FALSE
  <2>1. ~BeforeWindow
    BY <1>1, <1>5 DEF BeforeWindow, Rebuilt
  <2> QED BY <1>1, <1>3, <1>5, <2>1 DEF WindowInv
<1>6. ~PastDecision
  BY <1>3 DEF SettledInv
<1>7. CASE pc = "startOfPhase"
  <2>1. CurrentTimepoint = "endOfPhase"
    <3>1. phaseObj.mode = "normal"
      BY <1>7 DEF MovesFrom
    <3>2. CurrentTimepoint # "none"
      BY <1>1, <1>2, CurrentIsRecorded DEF CurrentTimepoint, StoreInv, SnapshotTypeOK, Snapshots, SnapshotTimepoint
    <3> QED BY <1>1, <1>7, <3>1, <3>2 DEF PlaceInv
  <2>2. e.id = currentId => Asked(currentId)
    BY <1>2, <2>1 DEF AskedInv, At
  <2> QED BY <1>4, <1>5, <1>7, <2>1, <2>2
<1>8. CASE pc = "queueNextAction"
  <2>1. CurrentTimepoint = "startOfPhase"
    BY <1>1, <1>6, <1>8 DEF PlaceInv, MovesFrom, PastDecision
  <2>2. StartsPhase(currentId, "action")
    BY <1>1, <1>2, <1>8, <2>1 DEF MovesFrom, MomentPart, PhaseInv, StartsPhase, At
  <2>3. e.id = currentId => Asked(currentId)
    BY <2>2 DEF AskedInv
  <2> QED BY <1>4, <1>5, <1>8, <2>1, <2>3
<1>9. CASE pc = "drawTwo"
  <2>1. Asked(currentId)
    BY <1>9 DEF WindowInv, MovesFrom
  <2> QED BY <1>5, <1>9, <2>1
<1>10. CASE pc = "endPhase"
  <2>1. CurrentTimepoint = "regroupReadyCards"
    BY <1>1, <1>6, <1>10 DEF PlaceInv, PastDecision, Phases
  <2>2. e.id = currentId => Asked(currentId)
    BY <1>2, <2>1 DEF AskedInv, At
  <2> QED BY <1>4, <1>5, <1>10, <2>1, <2>2
<1>11. pc \notin {"beforeMulligan", "beforeResource"} /\ ~(pc = "readyAllCards" /\ TakesReadySnapshots)
  BY <1>6 DEF PastDecision
<1> QED BY <1>7, <1>8, <1>9, <1>10, <1>11 DEF MovesFrom

LEMMA DecidedBehindMoved ==
  ASSUME HistoryPart, AskedInv, WindowInv, SettledInv, DecidedBehind, TimepointStep
  PROVE  DecidedBehind'
<1>1. UndoInv /\ StoreInv /\ HistoryDomains
  BY DEF HistoryPart, UndoInv
<1>2. PICK timepoint \in SnapshotTimepoint, players \in SUBSET Players, source \in Sources :
        /\ MovesFrom(timepoint) /\ LineMoved(timepoint) /\ EntriesAdded(players, source, currentId')
        /\ timepoint = "regroupResource" /\ players # {} =>
             prompted # {} /\ phaseObj.mode # "rollbackToWithinPhase"
  BY <1>1, MovingAddsEntries
<1>3. /\ DOMAIN snapshots' = DOMAIN snapshots \cup {currentId'} /\ currentId' \notin DOMAIN snapshots
      /\ currentId' \in Nat
      /\ \A id \in DOMAIN snapshots : id \in Nat /\ id < currentId' /\ SameRecord(id)
      /\ snapshots'[currentId'].timepoint = timepoint
      /\ \A p \in Players : \A e \in quickSnapshots[p] : e.id \in DOMAIN snapshots
  BY <1>1, <1>2, MovedIsCurrent, ContainersAreTyped
<1>4. \A id \in DOMAIN snapshots : Settled(id)' <=> Settled(id)
  BY <1>1, <1>2, MovedHistory DEF SameHistory, Settled
<1>5. \A p \in Players : \A e \in quickSnapshots'[p] :
        e \in quickSnapshots[p] \/ (e.id = currentId' /\ p \in players)
  BY <1>2 DEF EntriesAdded, WithQuickEntry
<1> SUFFICES ASSUME NEW p \in Players, NEW e \in quickSnapshots'[p], NEW b \in DOMAIN snapshots', e.id < b,
                    At(b, "regroupResource")' => \E f \in quickSnapshots'[p] : f.id = b
             PROVE  \E s \in DOMAIN snapshots' : e.id <= s /\ s < b /\ Settled(s)'
  BY DEF DecidedBehind
<1>6. e \in quickSnapshots[p] /\ e.id \in DOMAIN snapshots
  <2>1. e.id # currentId'
    BY <1>3
  <2> QED BY <1>3, <1>5, <2>1
<1>7. CASE b = currentId'
  <2>1. timepoint = "regroupResource" => prompted # {} /\ phaseObj.mode # "rollbackToWithinPhase"
    <3> SUFFICES ASSUME timepoint = "regroupResource" PROVE players # {}
      BY <1>2
    <3>1. PICK f \in quickSnapshots'[p] : f.id = currentId'
      BY <1>3, <1>7 DEF At
    <3> QED BY <1>3, <1>5, <3>1
  <2>2. PICK s \in DOMAIN snapshots : e.id <= s /\ Settled(s)
    BY <1>2, <1>6, <2>1, ReachedWithDecision
  <2> QED BY <1>3, <1>4, <1>7, <2>2
<1>8. CASE b # currentId'
  <2>1. b \in DOMAIN snapshots
    BY <1>3, <1>8
  <2>2. At(b, "regroupResource") => \E f \in quickSnapshots[p] : f.id = b
    BY <1>3, <1>5, <1>8, <2>1 DEF At, SameRecord
  <2>3. PICK s \in DOMAIN snapshots : e.id <= s /\ s < b /\ Settled(s)
    BY <1>6, <2>1, <2>2 DEF DecidedBehind
  <2> QED BY <1>3, <1>4, <2>3
<1> QED BY <1>7, <1>8

LEMMA DecidedBehindNext ==
  ASSUME HistoryPart, AskedInv, WindowInv, SettledInv, DecidedBehind, UndoNext \/ UNCHANGED undoGameVars
  PROVE  DecidedBehind'
<1>1. /\ UndoInv /\ StoreInv /\ HeapInv /\ MomentPart /\ HistoryDomains
      /\ \A p \in Players : \A e \in quickSnapshots[p] : e.id \in DOMAIN snapshots
      /\ \A id \in DOMAIN snapshots : id \in Nat /\ id <= currentId /\ currentId \in Nat /\ currentId # NoSnapshot
  BY ContainersAreTyped, CurrentIsLast DEF HistoryPart, UndoInv
<1>2. ASSUME NEW id \in Targets, RollBack(id) PROVE DecidedBehind'
  <2>1. /\ id \in Nat
        /\ DOMAIN snapshots' = {other \in DOMAIN snapshots : other <= id}
        /\ \A other \in DOMAIN snapshots' : SameRecord(other)
        /\ \A p \in Players : quickSnapshots'[p] = EntriesUpTo(quickSnapshots[p], id)
    BY <1>1, <1>2, CutIsCurrent DEF LineCut
  <2>2. \A other \in DOMAIN snapshots' : other # id => (Settled(other)' <=> Settled(other))
    BY <1>1, <1>2, UndoneHistory DEF SameHistory, Settled
  <2> SUFFICES ASSUME NEW p \in Players, NEW e \in quickSnapshots'[p], NEW b \in DOMAIN snapshots', e.id < b,
                      At(b, "regroupResource")' => \E f \in quickSnapshots'[p] : f.id = b
               PROVE  \E s \in DOMAIN snapshots' : e.id <= s /\ s < b /\ Settled(s)'
    BY DEF DecidedBehind
  <2>3. /\ e \in quickSnapshots[p] /\ b \in DOMAIN snapshots /\ b <= id
        /\ At(b, "regroupResource") => \E f \in quickSnapshots[p] : f.id = b
    BY <2>1 DEF EntriesUpTo, At, SameRecord
  <2>4. PICK s \in DOMAIN snapshots : e.id <= s /\ s < b /\ Settled(s)
    BY <2>3 DEF DecidedBehind
  <2>5. s \in DOMAIN snapshots' /\ s # id
    BY <1>1, <2>1, <2>3, <2>4
  <2> QED BY <2>2, <2>4, <2>5
<1>3. CASE KeepingStep
  <2>1. UNCHANGED <<snapshots, currentId, decided>>
    BY <1>1, <1>3, KeepingAddsEntries DEF KeepingStep, historyVars
  <2>2. PICK players \in SUBSET Players, source \in Sources :
          EntriesAdded(players, source, currentId) /\ (players # {} => KeepsForPrompted)
    BY <1>1, <1>3, KeepingAddsEntries
  <2>3. players # {} => CurrentTimepoint # "regroupResource"
    BY <1>1, <2>2 DEF KeepsForPrompted, MomentPart, TimepointInv, TakesEndSnapshots
  <2>4. \A p \in Players : \A e \in quickSnapshots'[p] :
          e \in quickSnapshots[p] \/ (e.id = currentId /\ p \in players)
    BY <2>2 DEF EntriesAdded, WithQuickEntry
  <2> SUFFICES ASSUME NEW p \in Players, NEW e \in quickSnapshots'[p], NEW b \in DOMAIN snapshots, e.id < b,
                      At(b, "regroupResource") => \E f \in quickSnapshots'[p] : f.id = b
               PROVE  \E s \in DOMAIN snapshots : e.id <= s /\ s < b /\ Settled(s)
    BY <2>1 DEF DecidedBehind, At, Settled
  <2>5. e \in quickSnapshots[p]
    BY <1>1, <2>4
  <2>6. At(b, "regroupResource") => \E f \in quickSnapshots[p] : f.id = b
    <3> SUFFICES ASSUME At(b, "regroupResource") PROVE \E f \in quickSnapshots[p] : f.id = b
      OBVIOUS
    <3>1. PICK f \in quickSnapshots'[p] : f.id = b
      OBVIOUS
    <3>2. b = currentId => CurrentTimepoint = "regroupResource"
      BY <1>1 DEF At, CurrentTimepoint
    <3> QED BY <2>3, <2>4, <3>1, <3>2
  <2> QED BY <2>5, <2>6 DEF DecidedBehind
<1>4. CASE FlagsRaised /\ \A id \in DOMAIN snapshots : Settled(id) => Settled(id)'
  <2>1. /\ DOMAIN snapshots' = DOMAIN snapshots /\ quickSnapshots' = quickSnapshots
        /\ \A id \in DOMAIN snapshots : SameRecord(id)
    BY <1>1, <1>4, FlaggedIsCurrent
  <2> QED BY <1>4, <2>1 DEF DecidedBehind, SameRecord, At
<1>5. CASE Stands
  BY <1>4, <1>5 DEF Stands, historyVars, Settled
<1>6. CASE Stays
  BY <1>1, <1>4, <1>6, StayingSettles DEF Stays
<1> QED BY <1>1, <1>2, <1>3, <1>5, <1>6, DecidedBehindMoved, UndoStepKinds

\* A quick undo leads past something that was decided, unless a prompt of an undone line
\* is left in place of the open one.
LEMMA UndoTakesSomethingBack ==
  ASSUME HistoryPart, GameStates = GameRecords, SettledInv, DecidedBehind, stale = NoPrompt
  PROVE  NoEmptyUndo
<1>1. UndoInv /\ StoreInv /\ PlaceInv /\ EntriesInv /\ HistoryDomains
  BY DEF HistoryPart, UndoInv
<1> SUFFICES ASSUME NEW p \in Players, NEW id \in Offered(p)
             PROVE  \E o \in DOMAIN snapshots : id <= o /\ Settled(o)
  BY <1>1, OfferedIsKnown, CurrentIsLast DEF NoEmptyUndo, DecidedSince, Settled, HistoryDomains
<1>2. /\ Waiting /\ requests = <<>> /\ id \in DOMAIN snapshots /\ id \in Nat
      /\ currentId \in DOMAIN snapshots /\ currentId \in Nat /\ currentId # NoSnapshot /\ id <= currentId
      /\ CurrentTimepoint = snapshots[currentId].timepoint
  BY <1>1, OfferedIsKnown, CurrentIsLast DEF CurrentTimepoint
<1>3. PICK e \in quickSnapshots[p] : e.id = id
  BY <1>1, OfferedIsKnown
<1>4. CASE RollbackPoint(p) # "current"
  <2>1. PICK f \in quickSnapshots[p] : f.id > id
    BY <1>1, <1>4, OfferedIsKnown
  <2>2. f.id \in DOMAIN snapshots /\ f.id \in Nat
    BY <1>1, OfferedIsKnown
  <2>3. e.id < f.id
    BY <1>2, <1>3, <2>1, <2>2
  <2>4. PICK s \in DOMAIN snapshots : e.id <= s /\ Settled(s)
    BY <2>2, <2>3 DEF DecidedBehind
  <2> QED BY <1>3, <2>4
<1>5. ASSUME ~At(currentId, "regroupResource"), id # currentId
      PROVE  \E o \in DOMAIN snapshots : id <= o /\ Settled(o)
  <2>1. e.id < currentId
    BY <1>2, <1>3, <1>5
  <2>2. PICK s \in DOMAIN snapshots : e.id <= s /\ Settled(s)
    BY <1>2, <1>5, <2>1 DEF DecidedBehind
  <2> QED BY <1>3, <2>2
<1>6. CASE RollbackPoint(p) = "current"
  <2>1. \/ game.phase = "regroup" /\ PromptType(p) = "resource" /\ p \in OpenGamePrompt.done
        \/ CurrentTimepoint = "action" /\ PromptType(p) # "actionWindow"
        \/ /\ CurrentTimepoint \in {"regroupReadyCards", "startOfPhase", "endOfPhase"}
           /\ \A f \in quickSnapshots[p] : f.id < currentId
    BY <1>6 DEF RollbackPoint, QuickRollbackPoint
  <2>2. CASE PromptType(p) = "resource" /\ p \in OpenGamePrompt.done
    <3>1. asking = <<>> /\ pc \in {"setupResource", "regroupResource"}
      BY <2>2 DEF PromptType
    <3>2. ~stale.some
      BY DEF NoPrompt
    <3>3. p \in done
      BY <2>2, <3>1, <3>2 DEF OpenGamePrompt, Prompt
    <3>4. Settled(currentId)
      BY <3>1, <3>3 DEF SettledInv, PastDecision, PromptedAll
    <3> QED BY <1>2, <3>4
  <2>3. CASE CurrentTimepoint = "action" /\ PromptType(p) # "actionWindow"
    <3>1. CASE pc = "rotate"
      BY <1>2, <3>1 DEF SettledInv, PastDecision
    <3>2. CASE pc = "actionWindow" /\ asking = <<>>
      <4>1. p # game.active
        BY <1>2, <2>3, <3>2 DEF PromptType
      <4> DEFINE state == snapshots[currentId].state
      <4>2. [state EXCEPT !.ended = game.ended] = game /\ state \in GameStates
        BY <1>1, <1>2, <3>2, CurrentIsRecorded DEF UndoInv, MomentPart, MomentInv
      <4> HIDE DEF state
      <4>3. state.active = game.active
        BY <4>2 DEF GameRecords
      <4>4. At(id, "action") => snapshots[id].state.active = p
        BY <1>1, OfferedIsKnown
      <4>5. id # currentId
        <5> SUFFICES ASSUME id = currentId
                     PROVE  FALSE
          OBVIOUS
        <5>1. At(id, "action")
          BY <1>2, <2>3 DEF At
        <5>2. state.active = p
          BY <4>4, <5>1 DEF state
        <5> QED BY <4>1, <4>3, <5>2
      <4> QED BY <1>2, <1>5, <2>3, <4>5 DEF At
    <3> QED BY <1>1, <1>2, <2>3, <3>1, <3>2, WhereItWaits
  <2>4. CASE /\ CurrentTimepoint \in {"regroupReadyCards", "startOfPhase", "endOfPhase"}
             /\ \A f \in quickSnapshots[p] : f.id < currentId
    <3>1. id # currentId
      BY <1>2, <1>3, <2>4
    <3> QED BY <1>2, <1>5, <2>4, <3>1 DEF At
  <2> QED BY <2>1, <2>2, <2>3, <2>4
<1> QED BY <1>4, <1>6

\* What is known of the decisions of every line of play.
DecisionsInv == HistoryPart /\ AskedInv /\ WindowInv /\ SettledInv /\ DecidedBehind

LEMMA DecisionsInit ==
  ASSUME UndoInit, GameStates = GameRecords
  PROVE  DecisionsInv
<1>1. HistoryPart
  BY UndoHistoryInit DEF UndoHistoryInv
<1>2. /\ DOMAIN firstAsked = {} /\ DOMAIN snapshots = {} /\ pc = "setCurrentPhase"
      /\ \A p \in Players : quickSnapshots[p] = {}
  BY DEF UndoInit, RoundInit, SnapshotInit
<1>3. AskedInv /\ DecidedBehind
  BY <1>2 DEF AskedInv, DecidedBehind
<1>4. WindowInv /\ SettledInv
  BY <1>2 DEF WindowInv, KeepsForPrompted, SettledInv, PastDecision, PromptedAll, Asked
<1> QED BY <1>1, <1>3, <1>4 DEF DecisionsInv

LEMMA DecisionsNext ==
  ASSUME DecisionsInv, [UndoNext]_undoGameVars, GameStates = GameRecords, Timepoints = SnapshotTimepoint
  PROVE  DecisionsInv'
<1>1. /\ HistoryPart /\ UndoInv /\ PlaceInv /\ LineOrder /\ EntriesInv /\ HistoryDomains
      /\ AskedInv /\ WindowInv /\ SettledInv /\ DecidedBehind
      /\ UndoNext \/ UNCHANGED undoGameVars
  BY DEF DecisionsInv, HistoryPart
<1>2. UndoInv'
  BY <1>1, UndoInvNext
<1>3. PlaceInv' /\ LineOrder' /\ EntriesInv' /\ HistoryDomains'
  BY <1>1, PlaceInvNext, LineOrderNext, EntriesInvNext, HistoryDomainsNext
<1>4. AskedInv' /\ WindowInv'
  BY <1>1, <1>2, AskedInvNext, WindowInvNext
<1>5. SettledInv' /\ DecidedBehind'
  BY <1>1, SettledInvNext, DecidedBehindNext
<1> QED BY <1>2, <1>3, <1>4, <1>5 DEF DecisionsInv, HistoryPart

\* Where undo is free, nobody is asked for consent, and no prompt is left behind.
FreeInv == UndoMode = "free" => requests = <<>> /\ unwinding = NoPrompt /\ stale = NoPrompt

LEMMA FreeNext ==
  ASSUME FreeInv, [UndoNext]_undoGameVars
  PROVE  FreeInv'
<1> SUFFICES ASSUME UndoMode = "free", requests = <<>>, unwinding = NoPrompt, stale = NoPrompt
             PROVE  requests' = <<>> /\ unwinding' = NoPrompt /\ stale' = NoPrompt
  BY DEF FreeInv
<1>1. CASE PipelineStep
  BY <1>1 DEF PipelineStep, StaleWhile, consentVars
<1>2. ASSUME NEW p \in Players, PlayerChoice(p) PROVE requests' = <<>> /\ unwinding' = NoPrompt /\ stale' = NoPrompt
  BY <1>2 DEF PlayerChoice, StaleWhile, consentVars
<1>3. CASE AnswerQuestion
  BY <1>3 DEF AnswerQuestion, StaleWhile, consentVars
<1>4. CASE EndGame
  BY <1>4 DEF EndGame, undoVars, consentVars
<1>5. ASSUME NEW p \in Players, NEW id, Undo(p, id)
      PROVE  requests' = <<>> /\ unwinding' = NoPrompt /\ stale' = NoPrompt
  BY <1>5 DEF Undo, RollBack
<1>6. ASSUME NEW p \in Players PROVE ~RequestUndo(p)
  BY DEF RequestUndo, NeedsConfirmation
<1>7. ~AllowUndo /\ ~CompleteConfirmation /\ ~DenyUndo /\ ~DenyAndBlock
  BY DEF AllowUndo, CompleteConfirmation, DenyUndo, DenyAndBlock
<1>8. CASE UNCHANGED undoGameVars
  BY <1>8 DEF undoGameVars, undoVars, consentVars
<1> QED BY <1>1, <1>2, <1>3, <1>4, <1>5, <1>6, <1>7, <1>8 DEF UndoNext

\* A quick undo always takes back something that somebody decided
\* (getQuickRollbackPoint, MetaSnapshotArray), as long as no prompt of an undone line
\* is left in place of the open one (UiPrompt.complete).
THEOREM UndosAreNotEmpty ==
  ASSUME GameStates = GameRecords, Timepoints = SnapshotTimepoint
  PROVE  UndoSpec => [](stale = NoPrompt => NoEmptyUndo)
<1>1. UndoInit => DecisionsInv
  BY DecisionsInit
<1>2. DecisionsInv /\ [UndoNext]_undoGameVars => DecisionsInv'
  BY DecisionsNext
<1>3. DecisionsInv => (stale = NoPrompt => NoEmptyUndo)
  BY UndoTakesSomethingBack DEF DecisionsInv
<1> QED BY <1>1, <1>2, <1>3, PTL DEF UndoSpec

\* Where undo is free no such prompt is ever left behind: no quick undo is empty.
THEOREM FreeUndosAreNotEmpty ==
  ASSUME GameStates = GameRecords, Timepoints = SnapshotTimepoint, UndoMode = "free"
  PROVE  UndoSpec => []NoEmptyUndo
<1> DEFINE Inv == DecisionsInv /\ FreeInv
<1>1. UndoInit => Inv
  BY DecisionsInit DEF UndoInit, FreeInv
<1>2. Inv /\ [UndoNext]_undoGameVars => Inv'
  BY DecisionsNext, FreeNext
<1>3. Inv => NoEmptyUndo
  BY UndoTakesSomethingBack DEF DecisionsInv, FreeInv
<1> HIDE DEF Inv
<1> QED BY <1>1, <1>2, <1>3, PTL DEF UndoSpec
=============================================================================
