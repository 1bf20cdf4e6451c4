-------------------------- MODULE SnapshotManager --------------------------
(***************************************************************************)
(* The undo store of the engine: SnapshotFactory, the snapshot containers  *)
(* and the SnapshotManager that drives them (src/server/game/core/snapshot)*)
(* with GameStateManager.rollbackToSnapshot.                               *)
(*                                                                         *)
(* A snapshot object is shared by every container that holds it, so the    *)
(* model keeps one heap of snapshots indexed by id, and containers hold    *)
(* ids.  The arrays of the code are filled in the order of the ids, which  *)
(* only grow, and never twice with one id (UndoGame checks it), so an      *)
(* array is the set of its ids.  The heap is the present line of play: it  *)
(* forgets what a rollback undoes, and the invariant RetainedOnTheLine     *)
(* shows that no container can still reach that.                           *)
(***************************************************************************)
EXTENDS Integers, FiniteSets, GameState

CONSTANTS
  GameStates,          \* values of Game.state, records with phase and active
  Timepoints,          \* kinds of timepoint the game passes (the enum SnapshotTimepoint)
  ActionHistoryLength, \* SnapshotLimits[Action], 3 in the code
  PhaseHistoryLength,  \* SnapshotLimits[Phase], 2 in the code
  MaxSnapshots         \* bound of the model: ids are drawn from 0..MaxSnapshots

SnapshotTimepoint == {"startOfPhase", "endOfPhase", "action", "mulligan",
                      "setupResource", "regroupResource", "regroupReadyCards"}
Sources == {"action", "phase"}
QuickRollbackPoints == {"current", "previous"}
NoSnapshot == -1

ASSUME SnapshotManagerAssumption ==
  /\ NoPlayer \notin Players
  /\ "startOfPhase" \in Timepoints /\ Timepoints \subseteq SnapshotTimepoint
  /\ ActionHistoryLength \in Nat \ {0}
  /\ PhaseHistoryLength \in Nat \ {0}
  /\ MaxSnapshots \in Nat

VARIABLES
  snapshots,                   \* the snapshots of the present line of play, by id
  currentId,                   \* id of SnapshotFactory.currentActionSnapshot
  lastAssignedSnapshotId,
  lastAssignedTimepointNumber,
  actionSnapshots,             \* per player
  phaseSnapshots,              \* per phase name
  manualSnapshots,             \* per player
  quickSnapshots               \* per player: [id, source] entries

factoryVars == <<snapshots, currentId, lastAssignedSnapshotId, lastAssignedTimepointNumber>>
containerVars == <<actionSnapshots, phaseSnapshots, manualSnapshots, quickSnapshots>>
snapshotVars == <<factoryVars, containerVars>>
managerVars == <<game, snapshotVars>>

Snapshots == [timepoint : Timepoints, timepointNumber : Nat, state : GameStates,
              requiresConfirmation : BOOLEAN, nextSnapshotIsSamePlayer : BOOLEAN]

SnapshotInit ==
  /\ snapshots = [id \in {} |-> {}]
  /\ currentId = NoSnapshot
  /\ lastAssignedSnapshotId = -1
  /\ lastAssignedTimepointNumber = -1
  /\ actionSnapshots = [p \in Players |-> {}]
  /\ phaseSnapshots = [ph \in Phases |-> {}]
  /\ manualSnapshots = [p \in Players |-> {}]
  /\ quickSnapshots = [p \in Players |-> {}]

-----------------------------------------------------------------------------
(* Reading the containers *)

IsLatest(id, history) == id \in history /\ \A other \in history : other <= id

\* The snapshot that `offset` newer ones precede: getSnapshot(key, -offset).
IsAtOffset(id, history, offset) ==
  id \in history /\ Cardinality({other \in history : other > id}) = offset

AllActionSnapshots == UNION {actionSnapshots[p] : p \in Players}
AllPhaseSnapshots == UNION {phaseSnapshots[ph] : ph \in Phases}

\* hasSnapshotId of the container a quick entry points into.
StillHeld(entry) ==
  entry.id \in (IF entry.source = "action" THEN AllActionSnapshots ELSE AllPhaseSnapshots)

\* MetaSnapshotArray: the last entry, or the one before the last.
QuickEntriesAt(p, point) ==
  {e \in quickSnapshots[p] :
     Cardinality({f \in quickSnapshots[p] : f.id > e.id}) = (IF point = "current" THEN 0 ELSE 1)}

QuickTargets(p, point) == {e \in QuickEntriesAt(p, point) : StillHeld(e)}

HasQuickSnapshot(p, point) == QuickTargets(p, point) # {}

CurrentTimepoint == IF currentId = NoSnapshot THEN "none" ELSE snapshots[currentId].timepoint

\* Variant: an action window is taken for the middle of the action.
CurrentInActions(p, promptType, doneResourcing) ==
  IF CurrentTimepoint = "action" THEN "current" ELSE "previous"

\* getQuickRollbackPoint: promptType is what the player's client shows, and
\* doneResourcing whether the open resource prompt counts the player as done.
QuickRollbackPoint(p, promptType, doneResourcing) ==
  IF \/ game.phase = "regroup" /\ promptType = "resource" /\ doneResourcing
     \/ CurrentTimepoint = "action" /\ promptType # "actionWindow"
     \/ /\ CurrentTimepoint \in {"regroupReadyCards", "startOfPhase", "endOfPhase"}
        /\ quickSnapshots[p] # {}
        /\ \A e \in quickSnapshots[p] : e.id < currentId
  THEN "current"
  ELSE "previous"

\* opponentActedSinceLastSnapshot, for the snapshot a quick undo leads to.
OpponentActedSince(id) ==
  LET since == lastAssignedTimepointNumber - snapshots[id].timepointNumber
  IN \/ since = 2 /\ ~snapshots[id].nextSnapshotIsSamePlayer
     \/ since > 2

-----------------------------------------------------------------------------
(* Writing them *)

\* setNextSnapshotIsSamePlayer on the snapshot that is about to be succeeded.
MarkSuccessor(timepoint) ==
  [id \in DOMAIN snapshots |->
     IF id = currentId /\ timepoint = "action"
     THEN [snapshots[id] EXCEPT
             !.nextSnapshotIsSamePlayer = (game.active = snapshots[id].state.active)]
     ELSE snapshots[id]]

\* Variant: the step that reaches the timepoint changes the game first.
LateSnapshot(timepoint, number) ==
  [timepoint |-> timepoint, timepointNumber |-> number, state |-> game',
   requiresConfirmation |-> FALSE, nextSnapshotIsSamePlayer |-> FALSE]

\* createSnapshotForCurrentTimepoint
NewSnapshot(timepoint, number) ==
  [timepoint |-> timepoint, timepointNumber |-> number, state |-> game,
   requiresConfirmation |-> FALSE, nextSnapshotIsSamePlayer |-> FALSE]

\* moveToNextTimepoint: records the present state under a new id.
MoveToNextTimepoint(timepoint) ==
  LET newId == lastAssignedSnapshotId + 1
      number == lastAssignedTimepointNumber + 1
      marked == MarkSuccessor(timepoint)
  IN /\ newId <= MaxSnapshots
     /\ timepoint = "action" => game.active # NoPlayer
     /\ snapshots' = [id \in DOMAIN snapshots \cup {newId} |->
                        IF id = newId THEN NewSnapshot(timepoint, number) ELSE marked[id]]
     /\ currentId' = newId
     /\ lastAssignedSnapshotId' = newId
     /\ lastAssignedTimepointNumber' = number

\* SnapshotHistoryMap.takeSnapshot: the oldest goes when the history is full.
Pushed(history, maxLength, id) ==
  LET longer == history \cup {id}
  IN IF Cardinality(longer) > maxLength
     THEN {kept \in longer : \E older \in longer : older < kept}
     ELSE longer

WithQuickEntry(players, source, id) ==
  [p \in Players |-> IF p \in players
                     THEN quickSnapshots[p] \cup {[id |-> id, source |-> source]}
                     ELSE quickSnapshots[p]]

\* takeSnapshot(Action) for each of the players: the snapshot taken is the one
\* that is current once the step's timepoint, if it reaches one, is recorded.
TakeActionSnapshots(players) ==
  /\ actionSnapshots' = [p \in Players |->
                           IF p \in players
                           THEN Pushed(actionSnapshots[p], ActionHistoryLength, currentId')
                           ELSE actionSnapshots[p]]
  /\ quickSnapshots' = WithQuickEntry(players, "action", currentId')
  /\ UNCHANGED <<phaseSnapshots, manualSnapshots>>

\* takeSnapshot(Phase).  Setup and regroup start with a quick entry for everybody;
\* the action phase does not, see AddQuickStartOfActionSnapshots.
TakePhaseSnapshot(ph) ==
  /\ phaseSnapshots' = [phaseSnapshots EXCEPT ![ph] = Pushed(@, PhaseHistoryLength, currentId')]
  /\ quickSnapshots' = WithQuickEntry(IF game.phase \in {"regroup", "setup"} THEN Players ELSE {},
                                      "phase", currentId')
  /\ UNCHANGED <<actionSnapshots, manualSnapshots>>

\* addQuickStartOfActionSnapshot for each of the players.
AddQuickStartOfActionSnapshots(players) ==
  /\ players # {} => IsLatest(currentId, phaseSnapshots["action"])
  /\ quickSnapshots' = WithQuickEntry(players, "phase", currentId)
  /\ UNCHANGED <<factoryVars, actionSnapshots, phaseSnapshots, manualSnapshots>>

TakeManualSnapshot(p) ==
  /\ currentId # NoSnapshot
  /\ manualSnapshots' = [manualSnapshots EXCEPT ![p] = @ \cup {currentId}]
  /\ UNCHANGED <<factoryVars, actionSnapshots, phaseSnapshots, quickSnapshots>>

\* A timepoint is reached and kept for some players, or for its phase.
ReachTimepoint(timepoint, players) == /\ MoveToNextTimepoint(timepoint)
                                      /\ TakeActionSnapshots(players)

ReachStartOfPhase(ph) == /\ MoveToNextTimepoint("startOfPhase")
                         /\ TakePhaseSnapshot(ph)

\* The timepoint reached earlier is kept for some players after all.
KeepTimepoint(players) == /\ players # {} => currentId # NoSnapshot
                          /\ UNCHANGED factoryVars
                          /\ TakeActionSnapshots(players)

\* setRequiresConfirmationToRollbackCurrentSnapshot, for the players in the set:
\* the flag is put on the latest action snapshot of each of them.
ConfirmationRequired(players) ==
  [id \in DOMAIN snapshots |->
     IF \E p \in players : IsLatest(id, actionSnapshots[p])
     THEN [snapshots[id] EXCEPT !.requiresConfirmation = TRUE]
     ELSE snapshots[id]]

-----------------------------------------------------------------------------
(* Rolling back *)

\* Variant: what is undone stays.
UpToAnything(ids, id) == ids
UpTo(ids, id) == {other \in ids : other <= id}

\* Variant: MetaSnapshotArray.clearNewerSnapshots is not called.
AllEntries(entries, id) == entries
EntriesUpTo(entries, id) == {e \in entries : e.id <= id}

\* rollbackToSnapshotInternal and the clearNewerSnapshots that follows it.
Restore(id) ==
  /\ game' = snapshots[id].state
  /\ snapshots' = [other \in UpTo(DOMAIN snapshots, id) |->
                     IF other = id THEN [snapshots[id] EXCEPT !.requiresConfirmation = FALSE]
                     ELSE snapshots[other]]
  /\ currentId' = id
  /\ lastAssignedTimepointNumber' = snapshots[id].timepointNumber
  /\ actionSnapshots' = [p \in Players |-> UpTo(actionSnapshots[p], id)]
  /\ phaseSnapshots' = [ph \in Phases |-> UpTo(phaseSnapshots[ph], id)]
  /\ manualSnapshots' = [p \in Players |-> UpTo(manualSnapshots[p], id)]
  /\ quickSnapshots' = [p \in Players |-> EntriesUpTo(quickSnapshots[p], id)]
  /\ UNCHANGED lastAssignedSnapshotId

\* The id that going `offset` snapshots back leads to (rollbackToInternal).
ActionTarget(p, offset, id) == IsAtOffset(id, actionSnapshots[p], offset)
PhaseTarget(ph, offset, id) == IsAtOffset(id, phaseSnapshots[ph], offset)

\* A restore that throws is answered by restoring the current snapshot, and the
\* rollback reports failure: nothing is cleared.
RestoreFails ==
  /\ currentId # NoSnapshot
  /\ game' = snapshots[currentId].state
  /\ UNCHANGED snapshotVars

-----------------------------------------------------------------------------
(* The store driven by any game *)

Retained == AllActionSnapshots \cup AllPhaseSnapshots \cup UNION {manualSnapshots[p] : p \in Players}

RequireConfirmation(players) ==
  /\ snapshots' = ConfirmationRequired(players)
  /\ UNCHANGED <<currentId, lastAssignedSnapshotId, lastAssignedTimepointNumber, containerVars>>

\* What the phases and prompts of the game do to the store, while the game goes on.
StoreGrows ==
  /\ game' \in GameStates
  /\ \/ UNCHANGED snapshotVars
     \/ \E timepoint \in Timepoints, players \in SUBSET Players :
          ReachTimepoint(timepoint, players)
     \/ game.phase \in Phases /\ ReachStartOfPhase(game.phase)
     \/ \E players \in SUBSET Players : \/ KeepTimepoint(players)
                                       \/ AddQuickStartOfActionSnapshots(players)
                                       \/ RequireConfirmation(players)
     \/ \E p \in Players : TakeManualSnapshot(p)

RollbackTo ==
  \/ \E p \in Players, id \in AllActionSnapshots, offset \in 0 .. ActionHistoryLength - 1 :
       ActionTarget(p, offset, id) /\ Restore(id)
  \/ \E ph \in Phases, id \in AllPhaseSnapshots, offset \in 0 .. PhaseHistoryLength - 1 :
       PhaseTarget(ph, offset, id) /\ Restore(id)
  \/ \E p \in Players : \E id \in manualSnapshots[p] : Restore(id)
  \/ \E p \in Players, point \in QuickRollbackPoints :
       \E e \in QuickTargets(p, point) : Restore(e.id)

ManagerInit == game \in GameStates /\ SnapshotInit

ManagerNext == StoreGrows \/ RollbackTo \/ RestoreFails

ManagerSpec == ManagerInit /\ [][ManagerNext]_managerVars

-----------------------------------------------------------------------------
(* What must hold of the store *)

\* The variables have their types.
SnapshotTypeOK ==
  /\ game \in GameStates
  /\ DOMAIN snapshots \subseteq 0 .. lastAssignedSnapshotId
  /\ \A id \in DOMAIN snapshots : snapshots[id] \in Snapshots
  /\ currentId \in Int
  /\ lastAssignedSnapshotId \in Nat \cup {-1}
  /\ lastAssignedTimepointNumber \in Nat \cup {-1}
  /\ actionSnapshots \in [Players -> SUBSET Nat]
  /\ phaseSnapshots \in [Phases -> SUBSET Nat]
  /\ manualSnapshots \in [Players -> SUBSET Nat]
  /\ quickSnapshots \in [Players -> SUBSET [id : Nat, source : Sources]]

\* Whatever a container holds, quick entries included, was taken on the present
\* line of play: no rollback leaves a snapshot of an undone branch reachable
\* (clearNewerSnapshots reaches every container there is).
RetainedOnTheLine ==
  /\ Retained \subseteq DOMAIN snapshots
  /\ \A p \in Players : \A e \in quickSnapshots[p] : e.id \in DOMAIN snapshots

\* Timepoint numbers count the timepoints of the present line from 0 in the
\* order they were passed, although ids skip what was undone: the differences
\* opponentActedSinceLastSnapshot takes are never negative and count timepoints.
TimepointsNumberTheLine ==
  /\ \A a, b \in DOMAIN snapshots :
       a < b => snapshots[a].timepointNumber < snapshots[b].timepointNumber
  /\ \A k \in 0 .. lastAssignedTimepointNumber :
       \E id \in DOMAIN snapshots : snapshots[id].timepointNumber = k

\* The current snapshot, which a failed rollback falls back on, is always the
\* newest of the line and carries the number assigned last.
CurrentIsNewest ==
  IF currentId = NoSnapshot
  THEN DOMAIN snapshots = {} /\ lastAssignedTimepointNumber = -1
  ELSE /\ currentId \in DOMAIN snapshots
       /\ \A id \in DOMAIN snapshots : id <= currentId
       /\ snapshots[currentId].timepointNumber = lastAssignedTimepointNumber

-----------------------------------------------------------------------------
(* The store implements the history of TimelineHistory *)

IdAt(k) == CHOOSE id \in DOMAIN snapshots : snapshots[id].timepointNumber = k

\* The states of the present line by their numbers, and the positions still kept.
Line == [i \in 1 .. lastAssignedTimepointNumber + 1 |-> snapshots[IdAt(i - 1)].state]
SavedPositions == {snapshots[id].timepointNumber + 1 : id \in Retained}

History == INSTANCE TimelineHistory WITH
  States <- GameStates, now <- game, line <- Line, saved <- SavedPositions

\* Every step of the store is a step of the abstract history: what is recorded is
\* never altered, going back reaches exactly the state recorded there, and what
\* came after it is gone for good.
ImplementsHistory == History!HistorySpec
=============================================================================
