----------------------- MODULE SnapshotManagerProofs -----------------------
(***************************************************************************)
(* The invariants of SnapshotManager hold for any players, game states,    *)
(* history lengths and number of snapshots.                                *)
(*                                                                         *)
(* None of them is inductive alone: a rollback restores a state of the     *)
(* heap, so its type and its number come from RetainedOnTheLine; that the  *)
(* numbers still cover 0..n afterwards comes from their order; and that a  *)
(* new number is above all the others comes from CurrentIsNewest.  StoreInv*)
(* is their conjunction, and is.                                           *)
(***************************************************************************)
EXTENDS SnapshotManager, SequenceTheorems, FiniteSetTheorems, TLAPS

StoreInv == /\ SnapshotTypeOK
            /\ RetainedOnTheLine
            /\ TimepointsNumberTheLine
            /\ CurrentIsNewest

\* The ids a history keeps after a push are ids it had, or the one pushed.
LEMMA PushedKeepsIds ==
  ASSUME NEW history, NEW maxLength, NEW id
  PROVE  Pushed(history, maxLength, id) \subseteq history \cup {id}
BY DEF Pushed

\* A store that holds nothing satisfies the invariant.
LEMMA StoreInvInit == ManagerInit => StoreInv
BY DEF ManagerInit, SnapshotInit, StoreInv, SnapshotTypeOK, RetainedOnTheLine,
       TimepointsNumberTheLine, CurrentIsNewest, Retained, AllActionSnapshots,
       AllPhaseSnapshots, NoSnapshot, Snapshots

\* The parts of the invariant that speak of the line alone, and of the containers.
LineInv == /\ DOMAIN snapshots \subseteq 0 .. lastAssignedSnapshotId
           /\ \A id \in DOMAIN snapshots : snapshots[id] \in Snapshots
           /\ currentId \in Int
           /\ lastAssignedSnapshotId \in Nat \cup {-1}
           /\ lastAssignedTimepointNumber \in Nat \cup {-1}
           /\ TimepointsNumberTheLine
           /\ CurrentIsNewest

ContainersInv == /\ actionSnapshots \in [Players -> SUBSET DOMAIN snapshots]
                 /\ phaseSnapshots \in [Phases -> SUBSET DOMAIN snapshots]
                 /\ manualSnapshots \in [Players -> SUBSET DOMAIN snapshots]
                 /\ quickSnapshots \in [Players -> SUBSET [id : DOMAIN snapshots, source : Sources]]

LEMMA StoreInvParts == StoreInv <=> game \in GameStates /\ LineInv /\ ContainersInv
<1>1. StoreInv => game \in GameStates /\ LineInv
  BY DEF StoreInv, SnapshotTypeOK, LineInv
<1>2. ASSUME StoreInv PROVE ContainersInv
  <2>1. /\ \A p \in Players : /\ actionSnapshots[p] \subseteq DOMAIN snapshots
                              /\ manualSnapshots[p] \subseteq DOMAIN snapshots
        /\ \A ph \in Phases : phaseSnapshots[ph] \subseteq DOMAIN snapshots
    BY <1>2 DEF StoreInv, RetainedOnTheLine, Retained, AllActionSnapshots, AllPhaseSnapshots
  <2>2. \A p \in Players : quickSnapshots[p] \subseteq [id : DOMAIN snapshots, source : Sources]
    <3>1. ASSUME NEW p \in Players, NEW e \in quickSnapshots[p]
          PROVE  e \in [id : DOMAIN snapshots, source : Sources]
      <4>1. e \in [id : Nat, source : Sources] /\ e.id \in DOMAIN snapshots
        BY <1>2, <3>1 DEF StoreInv, SnapshotTypeOK, RetainedOnTheLine
      <4> QED BY <4>1
    <3> QED BY <3>1
  <2> QED BY <1>2, <2>1, <2>2 DEF StoreInv, SnapshotTypeOK, ContainersInv
<1>3. ASSUME game \in GameStates, LineInv, ContainersInv PROVE StoreInv
  <2>1. DOMAIN snapshots \subseteq Nat
    BY <1>3 DEF LineInv
  <2>2. \A p \in Players : quickSnapshots[p] \subseteq [id : Nat, source : Sources]
    <3>1. ASSUME NEW p \in Players, NEW e \in quickSnapshots[p]
          PROVE  e \in [id : Nat, source : Sources]
      <4>1. e \in [id : DOMAIN snapshots, source : Sources]
        BY <1>3, <3>1 DEF ContainersInv
      <4> QED BY <2>1, <4>1
    <3> QED BY <3>1
  <2>3. SnapshotTypeOK
    BY <1>3, <2>1, <2>2 DEF LineInv, ContainersInv, SnapshotTypeOK
  <2>4. RetainedOnTheLine
    BY <1>3 DEF ContainersInv, RetainedOnTheLine, Retained, AllActionSnapshots, AllPhaseSnapshots
  <2> QED BY <1>3, <2>3, <2>4 DEF LineInv, StoreInv
<1> QED BY <1>1, <1>2, <1>3

\* moveToNextTimepoint extends the line by one number.
LEMMA MoveKeepsLineInv ==
  ASSUME game \in GameStates, LineInv, NEW timepoint \in Timepoints,
         MoveToNextTimepoint(timepoint)
  PROVE  /\ LineInv'
         /\ DOMAIN snapshots \subseteq DOMAIN snapshots'
         /\ currentId' \in DOMAIN snapshots'
<1> DEFINE newId == lastAssignedSnapshotId + 1
           marked == MarkSuccessor(timepoint)
<1>1. /\ DOMAIN marked = DOMAIN snapshots
      /\ \A id \in DOMAIN snapshots :
           /\ marked[id] \in Snapshots
           /\ marked[id].timepointNumber = snapshots[id].timepointNumber
  BY DEF MarkSuccessor, LineInv, Snapshots
<1>2. /\ newId \notin DOMAIN snapshots
      /\ DOMAIN snapshots' = DOMAIN snapshots \cup {newId}
      /\ snapshots'[newId] \in Snapshots
      /\ snapshots'[newId].timepointNumber = lastAssignedTimepointNumber + 1
      /\ \A id \in DOMAIN snapshots : snapshots'[id] = marked[id]
  BY SnapshotManagerAssumption DEF MoveToNextTimepoint, NewSnapshot, LineInv, Snapshots
<1>3. \A id \in DOMAIN snapshots : snapshots[id].timepointNumber <= lastAssignedTimepointNumber
  BY DEF LineInv, TimepointsNumberTheLine, CurrentIsNewest, Snapshots
<1>4. /\ DOMAIN snapshots' \subseteq 0 .. lastAssignedSnapshotId'
      /\ \A id \in DOMAIN snapshots' : snapshots'[id] \in Snapshots
      /\ currentId' \in Int
      /\ lastAssignedSnapshotId' \in Nat \cup {-1}
      /\ lastAssignedTimepointNumber' \in Nat \cup {-1}
  BY <1>1, <1>2 DEF MoveToNextTimepoint, NewSnapshot, LineInv
<1>5. TimepointsNumberTheLine'
  <2>1. ASSUME NEW a \in DOMAIN snapshots', NEW b \in DOMAIN snapshots', a < b
        PROVE  snapshots'[a].timepointNumber < snapshots'[b].timepointNumber
    BY <1>1, <1>2, <1>3, <2>1 DEF LineInv, TimepointsNumberTheLine, Snapshots
  <2>2. ASSUME NEW k \in 0 .. lastAssignedTimepointNumber'
        PROVE  \E id \in DOMAIN snapshots' : snapshots'[id].timepointNumber = k
    <3>1. CASE k = lastAssignedTimepointNumber + 1
      BY <1>2, <3>1
    <3>2. CASE k \in 0 .. lastAssignedTimepointNumber
      BY <1>1, <1>2, <3>2 DEF LineInv, TimepointsNumberTheLine
    <3>3. /\ lastAssignedTimepointNumber' = lastAssignedTimepointNumber + 1
          /\ lastAssignedTimepointNumber \in Nat \cup {-1}
      BY DEF MoveToNextTimepoint, NewSnapshot, LineInv
    <3>4. k \in 0 .. lastAssignedTimepointNumber + 1
      BY <3>3
    <3> QED BY <3>1, <3>2, <3>3, <3>4
  <2> QED BY <2>1, <2>2 DEF TimepointsNumberTheLine
<1>6. CurrentIsNewest'
  BY <1>2 DEF MoveToNextTimepoint, NewSnapshot, LineInv, CurrentIsNewest, NoSnapshot
<1> QED BY <1>2, <1>4, <1>5, <1>6 DEF MoveToNextTimepoint, NewSnapshot, LineInv

\* Containers filled with the current snapshot hold ids of the line.
LEMMA TakingKeepsContainersInv ==
  ASSUME ContainersInv, DOMAIN snapshots \subseteq DOMAIN snapshots',
         NEW players \in SUBSET Players,
         players # {} => currentId' \in DOMAIN snapshots',
         \/ TakeActionSnapshots(players)
         \/ currentId' \in DOMAIN snapshots' /\ game.phase \in Phases /\ TakePhaseSnapshot(game.phase)
         \/ AddQuickStartOfActionSnapshots(players)
         \/ \E p \in Players : TakeManualSnapshot(p) /\ currentId \in DOMAIN snapshots
         \/ UNCHANGED containerVars
  PROVE  ContainersInv'
<1>1. CASE TakeActionSnapshots(players)
  <2>1. actionSnapshots' \in [Players -> SUBSET DOMAIN snapshots']
    BY <1>1, PushedKeepsIds DEF TakeActionSnapshots, ContainersInv
  <2>2. quickSnapshots' \in [Players -> SUBSET [id : DOMAIN snapshots', source : Sources]]
    BY <1>1 DEF TakeActionSnapshots, WithQuickEntry, ContainersInv, Sources
  <2> QED BY <1>1, <2>1, <2>2 DEF TakeActionSnapshots, ContainersInv
<1>2. CASE currentId' \in DOMAIN snapshots' /\ game.phase \in Phases /\ TakePhaseSnapshot(game.phase)
  <2>1. phaseSnapshots' \in [Phases -> SUBSET DOMAIN snapshots']
    BY <1>2, PushedKeepsIds DEF TakePhaseSnapshot, ContainersInv
  <2>2. quickSnapshots' \in [Players -> SUBSET [id : DOMAIN snapshots', source : Sources]]
    BY <1>2 DEF TakePhaseSnapshot, WithQuickEntry, ContainersInv, Sources
  <2> QED BY <1>2, <2>1, <2>2 DEF TakePhaseSnapshot, ContainersInv
<1>3. CASE AddQuickStartOfActionSnapshots(players)
  <2>1. quickSnapshots' \in [Players -> SUBSET [id : DOMAIN snapshots', source : Sources]]
    BY <1>3 DEF AddQuickStartOfActionSnapshots, WithQuickEntry, ContainersInv, Sources, factoryVars
  <2> QED BY <1>3, <2>1 DEF AddQuickStartOfActionSnapshots, ContainersInv
<1>4. CASE \E p \in Players : TakeManualSnapshot(p) /\ currentId \in DOMAIN snapshots
  BY <1>4 DEF TakeManualSnapshot, ContainersInv
<1>5. CASE UNCHANGED containerVars
  BY <1>5 DEF containerVars, ContainersInv
<1> QED BY <1>1, <1>2, <1>3, <1>4, <1>5

\* Steps that leave the factory alone leave the line alone.
LEMMA FactoryKeepsLineInv ==
  ASSUME LineInv, UNCHANGED factoryVars
  PROVE  LineInv'
BY DEF LineInv, factoryVars, TimepointsNumberTheLine, CurrentIsNewest

\* Going back to any snapshot of the line keeps the invariant.
LEMMA RestoreKeepsStoreInv ==
  ASSUME StoreInv, NEW id \in DOMAIN snapshots, Restore(id)
  PROVE  StoreInv'
<1>1. /\ id \in Nat
      /\ DOMAIN snapshots' = {other \in DOMAIN snapshots : other <= id}
      /\ \A other \in DOMAIN snapshots' :
           /\ snapshots'[other] \in Snapshots
           /\ snapshots'[other].timepointNumber = snapshots[other].timepointNumber
  <2>1. snapshots' = [other \in UpTo(DOMAIN snapshots, id) |->
                        IF other = id THEN [snapshots[id] EXCEPT !.requiresConfirmation = FALSE]
                        ELSE snapshots[other]]
    BY DEF Restore
  <2>2. snapshots[id] \in Snapshots /\ id \in Nat
    BY DEF StoreInv, SnapshotTypeOK
  <2>3. /\ [snapshots[id] EXCEPT !.requiresConfirmation = FALSE] \in Snapshots
        /\ [snapshots[id] EXCEPT !.requiresConfirmation = FALSE].timepointNumber
             = snapshots[id].timepointNumber
    BY <2>2 DEF Snapshots
  <2>4. /\ DOMAIN snapshots' = {other \in DOMAIN snapshots : other <= id}
        /\ \A other \in DOMAIN snapshots' :
             snapshots'[other] = IF other = id
                                 THEN [snapshots[id] EXCEPT !.requiresConfirmation = FALSE]
                                 ELSE snapshots[other]
    BY <2>1 DEF UpTo
  <2>5. \A other \in DOMAIN snapshots : snapshots[other] \in Snapshots
    BY DEF StoreInv, SnapshotTypeOK
  <2> QED BY <2>2, <2>3, <2>4, <2>5
<1>2. SnapshotTypeOK'
  <2>1. game' \in GameStates /\ lastAssignedTimepointNumber' \in Nat
    BY DEF Restore, StoreInv, SnapshotTypeOK, Snapshots
  <2>2. /\ actionSnapshots' \in [Players -> SUBSET Nat]
        /\ phaseSnapshots' \in [Phases -> SUBSET Nat]
        /\ manualSnapshots' \in [Players -> SUBSET Nat]
    BY DEF Restore, UpTo, StoreInv, SnapshotTypeOK
  <2>3. quickSnapshots' \in [Players -> SUBSET [id : Nat, source : Sources]]
    BY DEF Restore, EntriesUpTo, StoreInv, SnapshotTypeOK
  <2>4. currentId' = id /\ lastAssignedSnapshotId' = lastAssignedSnapshotId
    BY DEF Restore
  <2>5. /\ DOMAIN snapshots' \subseteq 0 .. lastAssignedSnapshotId'
        /\ lastAssignedSnapshotId' \in Nat \cup {-1}
    BY <1>1, <2>4 DEF StoreInv, SnapshotTypeOK
  <2> QED BY <1>1, <2>1, <2>2, <2>3, <2>4, <2>5 DEF SnapshotTypeOK
<1>3. RetainedOnTheLine'
  BY <1>1 DEF Restore, UpTo, EntriesUpTo, StoreInv, RetainedOnTheLine, Retained, AllActionSnapshots,
              AllPhaseSnapshots
<1>4. TimepointsNumberTheLine'
  <2>1. ASSUME NEW k \in 0 .. lastAssignedTimepointNumber'
        PROVE  \E other \in DOMAIN snapshots' : snapshots'[other].timepointNumber = k
    <3>1. /\ snapshots[id].timepointNumber \in Nat
          /\ k <= snapshots[id].timepointNumber
          /\ k \in 0 .. lastAssignedTimepointNumber
      BY DEF Restore, StoreInv, SnapshotTypeOK, TimepointsNumberTheLine, CurrentIsNewest,
             Snapshots, NoSnapshot
    <3>2. PICK other \in DOMAIN snapshots : snapshots[other].timepointNumber = k
      BY <3>1 DEF StoreInv, TimepointsNumberTheLine
    <3>3. other <= id
      BY <3>1, <3>2 DEF StoreInv, SnapshotTypeOK, TimepointsNumberTheLine
    <3> QED BY <1>1, <3>2, <3>3
  <2>2. \A a, b \in DOMAIN snapshots' :
          a < b => snapshots'[a].timepointNumber < snapshots'[b].timepointNumber
    BY <1>1 DEF StoreInv, TimepointsNumberTheLine
  <2> QED BY <2>1, <2>2 DEF TimepointsNumberTheLine
<1>5. CurrentIsNewest'
  BY <1>1 DEF Restore, CurrentIsNewest, NoSnapshot
<1> QED BY <1>2, <1>3, <1>4, <1>5 DEF StoreInv

\* Flagging changes no number, state or container.
LEMMA FlaggingKeepsStoreInv ==
  ASSUME StoreInv, game' \in GameStates, NEW players, RequireConfirmation(players)
  PROVE  StoreInv'
<1>1. /\ DOMAIN snapshots' = DOMAIN snapshots
      /\ \A id \in DOMAIN snapshots :
           /\ snapshots'[id] \in Snapshots
           /\ snapshots'[id].timepointNumber = snapshots[id].timepointNumber
  BY DEF RequireConfirmation, ConfirmationRequired, StoreInv, SnapshotTypeOK, Snapshots
<1>2. UNCHANGED <<currentId, lastAssignedSnapshotId, lastAssignedTimepointNumber, containerVars>>
  BY DEF RequireConfirmation
<1>3. SnapshotTypeOK'
  BY <1>1, <1>2 DEF StoreInv, SnapshotTypeOK, containerVars
<1>4. RetainedOnTheLine'
  BY <1>1, <1>2 DEF StoreInv, RetainedOnTheLine, Retained, AllActionSnapshots,
                    AllPhaseSnapshots, containerVars
<1>5. TimepointsNumberTheLine' /\ CurrentIsNewest'
  BY <1>1, <1>2 DEF StoreInv, TimepointsNumberTheLine, CurrentIsNewest
<1> QED BY <1>3, <1>4, <1>5 DEF StoreInv

\* A rollback, by whatever kind of request, goes to a snapshot of the line.
LEMMA RollbackGoesToTheLine ==
  ASSUME StoreInv, RollbackTo
  PROVE  \E id \in DOMAIN snapshots : Restore(id)
<1>1. ASSUME NEW p \in Players, NEW id \in AllActionSnapshots, Restore(id)
      PROVE  \E other \in DOMAIN snapshots : Restore(other)
  BY <1>1 DEF StoreInv, RetainedOnTheLine, Retained
<1>2. ASSUME NEW id \in AllPhaseSnapshots, Restore(id)
      PROVE  \E other \in DOMAIN snapshots : Restore(other)
  BY <1>2 DEF StoreInv, RetainedOnTheLine, Retained
<1>3. ASSUME NEW p \in Players, NEW id \in manualSnapshots[p], Restore(id)
      PROVE  \E other \in DOMAIN snapshots : Restore(other)
  BY <1>3 DEF StoreInv, RetainedOnTheLine, Retained
<1>4. ASSUME NEW p \in Players, NEW e \in quickSnapshots[p], Restore(e.id)
      PROVE  \E other \in DOMAIN snapshots : Restore(other)
  BY <1>4 DEF StoreInv, RetainedOnTheLine
<1> QED BY <1>1, <1>2, <1>3, <1>4 DEF RollbackTo, QuickTargets, QuickEntriesAt

\* Whatever the game does to the store.
LEMMA GrowingKeepsStoreInv ==
  ASSUME StoreInv, StoreGrows
  PROVE  StoreInv'
<1>1. game \in GameStates /\ LineInv /\ ContainersInv /\ game' \in GameStates
  BY StoreInvParts DEF StoreGrows
<1>2. ASSUME LineInv', ContainersInv'
      PROVE  StoreInv'
  <2>1. (StoreInv <=> game \in GameStates /\ LineInv /\ ContainersInv)'
    BY StoreInvParts, PTL
  <2> QED BY <1>1, <1>2, <2>1
<1>3. currentId # NoSnapshot => currentId \in DOMAIN snapshots
  BY <1>1 DEF LineInv, CurrentIsNewest
<1>4. CASE UNCHANGED snapshotVars
  <2>1. LineInv' /\ ContainersInv'
    BY <1>1, <1>4, FactoryKeepsLineInv DEF snapshotVars, factoryVars, containerVars, ContainersInv
  <2> QED BY <1>2, <2>1
<1>5. ASSUME NEW timepoint \in Timepoints, NEW players \in SUBSET Players,
             ReachTimepoint(timepoint, players)
      PROVE  StoreInv'
  <2>1. /\ LineInv'
        /\ DOMAIN snapshots \subseteq DOMAIN snapshots'
        /\ currentId' \in DOMAIN snapshots'
    BY <1>1, <1>5, MoveKeepsLineInv DEF ReachTimepoint
  <2>2. ContainersInv'
    BY <1>1, <1>5, <2>1, TakingKeepsContainersInv DEF ReachTimepoint
  <2> QED BY <1>2, <2>1, <2>2
<1>6. CASE game.phase \in Phases /\ ReachStartOfPhase(game.phase)
  <2>1. MoveToNextTimepoint("startOfPhase") /\ TakePhaseSnapshot(game.phase)
    BY <1>6 DEF ReachStartOfPhase
  <2>2. /\ LineInv'
        /\ DOMAIN snapshots \subseteq DOMAIN snapshots'
        /\ currentId' \in DOMAIN snapshots'
    BY <1>1, <2>1, MoveKeepsLineInv, SnapshotManagerAssumption
  <2>3. ContainersInv'
    BY <1>1, <1>6, <2>1, <2>2, TakingKeepsContainersInv
  <2> QED BY <1>2, <2>2, <2>3
<1>7. ASSUME NEW players \in SUBSET Players, KeepTimepoint(players)
      PROVE  StoreInv'
  <2>1. /\ UNCHANGED factoryVars
        /\ TakeActionSnapshots(players)
        /\ players # {} => currentId' \in DOMAIN snapshots'
    BY <1>3, <1>7 DEF KeepTimepoint, factoryVars
  <2>2. LineInv' /\ ContainersInv'
    BY <1>1, <2>1, FactoryKeepsLineInv, TakingKeepsContainersInv DEF factoryVars
  <2> QED BY <1>2, <2>2
<1>8. ASSUME NEW players \in SUBSET Players, AddQuickStartOfActionSnapshots(players)
      PROVE  StoreInv'
  <2>1. players # {} => currentId \in DOMAIN snapshots
    BY <1>1, <1>8 DEF AddQuickStartOfActionSnapshots, IsLatest, Phases, ContainersInv
  <2>2. UNCHANGED factoryVars
    BY <1>8 DEF AddQuickStartOfActionSnapshots
  <2>3. LineInv' /\ ContainersInv'
    BY <1>1, <1>8, <2>1, <2>2, FactoryKeepsLineInv, TakingKeepsContainersInv DEF factoryVars
  <2> QED BY <1>2, <2>3
<1>9. ASSUME NEW players, RequireConfirmation(players)
      PROVE  StoreInv'
  BY <1>1, <1>9, FlaggingKeepsStoreInv
<1>10. ASSUME NEW p \in Players, TakeManualSnapshot(p)
       PROVE  StoreInv'
  <2>1. UNCHANGED factoryVars /\ currentId \in DOMAIN snapshots
    BY <1>3, <1>10 DEF TakeManualSnapshot
  <2>2. LineInv' /\ ContainersInv'
    <3>1. {} \in SUBSET Players
      OBVIOUS
    <3> QED BY <1>1, <1>10, <2>1, <3>1, FactoryKeepsLineInv, TakingKeepsContainersInv DEF factoryVars
  <2> QED BY <1>2, <2>2
<1> QED BY <1>4, <1>5, <1>6, <1>7, <1>8, <1>9, <1>10 DEF StoreGrows

\* StoreInv is inductive.
LEMMA StoreInvNext == StoreInv /\ [ManagerNext]_managerVars => StoreInv'
<1> SUFFICES ASSUME StoreInv, [ManagerNext]_managerVars PROVE StoreInv'
  OBVIOUS
<1>1. CASE StoreGrows
  BY <1>1, GrowingKeepsStoreInv
<1>2. CASE RollbackTo
  BY <1>2, RollbackGoesToTheLine, RestoreKeepsStoreInv
<1>3. CASE RestoreFails
  BY <1>3 DEF RestoreFails, StoreInv, SnapshotTypeOK, RetainedOnTheLine, Retained,
              AllActionSnapshots, AllPhaseSnapshots, TimepointsNumberTheLine,
              CurrentIsNewest, snapshotVars, factoryVars, containerVars, Snapshots
<1>4. CASE UNCHANGED managerVars
  BY <1>4 DEF StoreInv, SnapshotTypeOK, RetainedOnTheLine, Retained, AllActionSnapshots,
              AllPhaseSnapshots, TimepointsNumberTheLine, CurrentIsNewest,
              managerVars, snapshotVars, factoryVars, containerVars
<1> QED BY <1>1, <1>2, <1>3, <1>4 DEF ManagerNext

\* The variables of the store keep their types, whatever drives it.
THEOREM StoreTypeCorrect == ManagerSpec => []SnapshotTypeOK
<1>1. ManagerSpec => []StoreInv
  BY StoreInvInit, StoreInvNext, PTL DEF ManagerSpec
<1>2. StoreInv => SnapshotTypeOK
  BY DEF StoreInv
<1> QED BY <1>1, <1>2, PTL

\* No container can lead to a snapshot of an undone branch.
THEOREM NothingUndoneIsReachable == ManagerSpec => []RetainedOnTheLine
<1>1. ManagerSpec => []StoreInv
  BY StoreInvInit, StoreInvNext, PTL DEF ManagerSpec
<1>2. StoreInv => RetainedOnTheLine
  BY DEF StoreInv
<1> QED BY <1>1, <1>2, PTL

\* Timepoint numbers always number the present line of play, and the current
\* snapshot is its newest.
THEOREM NumbersFollowTheLine == ManagerSpec => [](TimepointsNumberTheLine /\ CurrentIsNewest)
<1>1. ManagerSpec => []StoreInv
  BY StoreInvInit, StoreInvNext, PTL DEF ManagerSpec
<1>2. StoreInv => TimepointsNumberTheLine /\ CurrentIsNewest
  BY DEF StoreInv
<1> QED BY <1>1, <1>2, PTL

-----------------------------------------------------------------------------
(* The store implements TimelineHistory.  The line it stands for is read off *)
(* the numbers of the snapshots, which name each snapshot once: that is what *)
(* makes the mapping a function of the store.                                *)

\* What StoreInv says of the snapshots, spelled out.
LEMMA NumbersAreDistinct ==
  StoreInv => /\ lastAssignedTimepointNumber \in Nat \cup {-1}
              /\ \A id \in DOMAIN snapshots : /\ id \in Nat
                                              /\ snapshots[id] \in Snapshots
                                              /\ snapshots[id].state \in GameStates
                                              /\ snapshots[id].timepointNumber \in
                                                   0 .. lastAssignedTimepointNumber
              /\ \A a, b \in DOMAIN snapshots :
                   snapshots[a].timepointNumber = snapshots[b].timepointNumber => a = b
<1> SUFFICES ASSUME StoreInv
             PROVE  /\ lastAssignedTimepointNumber \in Nat \cup {-1}
                    /\ \A id \in DOMAIN snapshots :
                         /\ id \in Nat
                         /\ snapshots[id] \in Snapshots
                         /\ snapshots[id].state \in GameStates
                         /\ snapshots[id].timepointNumber \in 0 .. lastAssignedTimepointNumber
                    /\ \A a, b \in DOMAIN snapshots :
                         snapshots[a].timepointNumber = snapshots[b].timepointNumber => a = b
  OBVIOUS
<1>1. lastAssignedTimepointNumber \in Nat \cup {-1}
  BY DEF StoreInv, SnapshotTypeOK
<1>2. \A id \in DOMAIN snapshots :
        /\ id \in Nat /\ snapshots[id] \in Snapshots
        /\ snapshots[id].state \in GameStates /\ snapshots[id].timepointNumber \in Nat
  BY DEF StoreInv, SnapshotTypeOK, Snapshots
<1>3. \A id \in DOMAIN snapshots : snapshots[id].timepointNumber <= lastAssignedTimepointNumber
  <2>1. ASSUME NEW id \in DOMAIN snapshots
        PROVE  snapshots[id].timepointNumber <= lastAssignedTimepointNumber
    <3>1. /\ currentId \in DOMAIN snapshots /\ id <= currentId
          /\ snapshots[currentId].timepointNumber = lastAssignedTimepointNumber
      BY DEF StoreInv, CurrentIsNewest
    <3>2. id < currentId \/ id = currentId
      BY <1>2, <3>1
    <3>3. id < currentId => snapshots[id].timepointNumber < snapshots[currentId].timepointNumber
      BY <3>1 DEF StoreInv, TimepointsNumberTheLine
    <3> QED BY <1>1, <1>2, <3>1, <3>2, <3>3
  <2> QED BY <2>1
<1>4. ASSUME NEW a \in DOMAIN snapshots, NEW b \in DOMAIN snapshots,
             snapshots[a].timepointNumber = snapshots[b].timepointNumber
      PROVE  a = b
  <2>1. a < b => snapshots[a].timepointNumber < snapshots[b].timepointNumber
    BY DEF StoreInv, TimepointsNumberTheLine
  <2>2. b < a => snapshots[b].timepointNumber < snapshots[a].timepointNumber
    BY DEF StoreInv, TimepointsNumberTheLine
  <2> QED BY <1>2, <1>4, <2>1, <2>2
<1> QED BY <1>1, <1>2, <1>3, <1>4

\* The line holds the state of each snapshot, at the position its number gives.
LineRecords ==
  /\ Line \in Seq(GameStates)
  /\ Len(Line) = lastAssignedTimepointNumber + 1
  /\ \A id \in DOMAIN snapshots : /\ snapshots[id].timepointNumber + 1 \in 1 .. Len(Line)
                                  /\ Line[snapshots[id].timepointNumber + 1] = snapshots[id].state
  /\ \A i \in 1 .. Len(Line) : \E id \in DOMAIN snapshots : snapshots[id].timepointNumber + 1 = i

LEMMA LineIsRecorded == StoreInv => LineRecords
<1> SUFFICES ASSUME StoreInv PROVE LineRecords
  OBVIOUS
<1> DEFINE n == lastAssignedTimepointNumber + 1
<1>1. n \in Nat
  BY NumbersAreDistinct
<1>2. \A i \in 1 .. n : \E id \in DOMAIN snapshots : snapshots[id].timepointNumber = i - 1
  <2>1. ASSUME NEW i \in 1 .. n
        PROVE  i - 1 \in 0 .. lastAssignedTimepointNumber
    BY <1>1, NumbersAreDistinct
  <2> QED BY <2>1 DEF StoreInv, TimepointsNumberTheLine
<1>3. \A i \in 1 .. n : IdAt(i - 1) \in DOMAIN snapshots
                       /\ snapshots[IdAt(i - 1)].timepointNumber = i - 1
  BY <1>2 DEF IdAt
<1>4. Line \in [1 .. n -> GameStates]
  BY <1>3, NumbersAreDistinct DEF Line
<1>5. Line \in Seq(GameStates) /\ Len(Line) = n
  BY <1>1, <1>4
<1>6. ASSUME NEW id \in DOMAIN snapshots
      PROVE  /\ snapshots[id].timepointNumber + 1 \in 1 .. n
             /\ Line[snapshots[id].timepointNumber + 1] = snapshots[id].state
  <2> DEFINE i == snapshots[id].timepointNumber + 1
  <2>1. i \in 1 .. n /\ i - 1 = snapshots[id].timepointNumber
    BY NumbersAreDistinct
  <2>2. IdAt(i - 1) = id
    BY <1>3, <2>1, NumbersAreDistinct
  <2>3. Line[i] = snapshots[IdAt(i - 1)].state
    BY <2>1 DEF Line
  <2> QED BY <2>1, <2>2, <2>3
<1>7. ASSUME NEW i \in 1 .. n
      PROVE  \E id \in DOMAIN snapshots : snapshots[id].timepointNumber + 1 = i
  BY <1>1, <1>2, NumbersAreDistinct
<1> QED BY <1>5, <1>6, <1>7 DEF LineRecords

\* What a step does to the line, from what it does to the snapshots.
LEMMA SameSnapshotsSameLine ==
  ASSUME StoreInv, StoreInv', DOMAIN snapshots' = DOMAIN snapshots,
         lastAssignedTimepointNumber' = lastAssignedTimepointNumber,
         \A id \in DOMAIN snapshots :
           /\ snapshots'[id].timepointNumber = snapshots[id].timepointNumber
           /\ snapshots'[id].state = snapshots[id].state
  PROVE  Line' = Line
<1>0. LineRecords'
  BY LineIsRecorded, PTL
<1>1. /\ Line \in Seq(GameStates) /\ Len(Line) = lastAssignedTimepointNumber + 1
      /\ \A id \in DOMAIN snapshots : Line[snapshots[id].timepointNumber + 1] = snapshots[id].state
      /\ \A i \in 1 .. Len(Line) : \E id \in DOMAIN snapshots : snapshots[id].timepointNumber + 1 = i
  BY LineIsRecorded DEF LineRecords
<1>2. /\ Line' \in Seq(GameStates) /\ Len(Line') = lastAssignedTimepointNumber' + 1
      /\ \A id \in DOMAIN snapshots' :
           Line'[snapshots'[id].timepointNumber + 1] = snapshots'[id].state
  BY <1>0 DEF LineRecords
<1> HIDE DEF Line
<1>3. ASSUME NEW i \in 1 .. Len(Line) PROVE Line'[i] = Line[i]
  <2>1. PICK id \in DOMAIN snapshots : snapshots[id].timepointNumber + 1 = i
    BY <1>1
  <2> QED BY <1>1, <1>2, <2>1
<1> QED BY <1>1, <1>2, <1>3, SeqEqual

LEMMA MoveAppendsToLine ==
  ASSUME StoreInv, StoreInv', NEW timepoint, MoveToNextTimepoint(timepoint)
  PROVE  Line' = Append(Line, game)
<1> DEFINE newId == lastAssignedSnapshotId + 1
           marked == MarkSuccessor(timepoint)
<1>0. LineRecords'
  BY LineIsRecorded, PTL
<1>1. /\ Line \in Seq(GameStates) /\ Len(Line) = lastAssignedTimepointNumber + 1
      /\ \A id \in DOMAIN snapshots : Line[snapshots[id].timepointNumber + 1] = snapshots[id].state
      /\ \A i \in 1 .. Len(Line) : \E id \in DOMAIN snapshots : snapshots[id].timepointNumber + 1 = i
  BY LineIsRecorded DEF LineRecords
<1>2. /\ Line' \in Seq(GameStates) /\ Len(Line') = lastAssignedTimepointNumber' + 1
      /\ \A id \in DOMAIN snapshots' :
           Line'[snapshots'[id].timepointNumber + 1] = snapshots'[id].state
  BY <1>0 DEF LineRecords
<1>3. /\ game \in GameStates /\ lastAssignedTimepointNumber \in Nat \cup {-1}
      /\ newId \notin DOMAIN snapshots
      /\ \A id \in DOMAIN snapshots : snapshots[id] \in Snapshots
  BY DEF StoreInv, SnapshotTypeOK
<1>4. \A id \in DOMAIN snapshots : /\ marked[id].timepointNumber = snapshots[id].timepointNumber
                                  /\ marked[id].state = snapshots[id].state
  BY <1>3 DEF MarkSuccessor, Snapshots
<1>5. /\ lastAssignedTimepointNumber' = lastAssignedTimepointNumber + 1
      /\ DOMAIN snapshots' = DOMAIN snapshots \cup {newId}
      /\ snapshots'[newId].timepointNumber = lastAssignedTimepointNumber + 1
      /\ snapshots'[newId].state = game
      /\ \A id \in DOMAIN snapshots : snapshots'[id] = marked[id]
  BY <1>3 DEF MoveToNextTimepoint, NewSnapshot
<1> HIDE DEF Line, newId, marked
<1>6. ASSUME NEW i \in 1 .. Len(Line) PROVE Line'[i] = Line[i]
  <2>1. PICK id \in DOMAIN snapshots : snapshots[id].timepointNumber + 1 = i
    BY <1>1
  <2> QED BY <1>1, <1>2, <1>4, <1>5, <2>1
<1>7. Line'[Len(Line) + 1] = game
  BY <1>1, <1>2, <1>5
<1>8. Len(Line') = Len(Line) + 1
  BY <1>1, <1>2, <1>3, <1>5
<1>9. /\ Append(Line, game) \in Seq(GameStates) /\ Len(Append(Line, game)) = Len(Line) + 1
      /\ \A i \in 1 .. Len(Line) : Append(Line, game)[i] = Line[i]
      /\ Append(Line, game)[Len(Line) + 1] = game
  BY <1>1, <1>3, AppendProperties
<1>10. \A i \in 1 .. Len(Line') : Line'[i] = Append(Line, game)[i]
  BY <1>1, <1>6, <1>7, <1>8, <1>9
<1> QED BY <1>2, <1>8, <1>9, <1>10, SeqEqual

LEMMA RestoreCutsLine ==
  ASSUME StoreInv, StoreInv', NEW id \in DOMAIN snapshots, Restore(id)
  PROVE  Line' = SubSeq(Line, 1, snapshots[id].timepointNumber + 1)
<1> DEFINE k == snapshots[id].timepointNumber + 1
<1>0. LineRecords'
  BY LineIsRecorded, PTL
<1>1. /\ Line \in Seq(GameStates) /\ k \in 1 .. Len(Line)
      /\ \A other \in DOMAIN snapshots :
           Line[snapshots[other].timepointNumber + 1] = snapshots[other].state
  BY LineIsRecorded DEF LineRecords
<1>2. /\ Line' \in Seq(GameStates) /\ Len(Line') = lastAssignedTimepointNumber' + 1
      /\ \A other \in DOMAIN snapshots' :
           Line'[snapshots'[other].timepointNumber + 1] = snapshots'[other].state
      /\ \A i \in 1 .. Len(Line') :
           \E other \in DOMAIN snapshots' : snapshots'[other].timepointNumber + 1 = i
  BY <1>0 DEF LineRecords
<1>3. /\ lastAssignedTimepointNumber' = snapshots[id].timepointNumber
      /\ DOMAIN snapshots' \subseteq DOMAIN snapshots
      /\ \A other \in DOMAIN snapshots' :
           /\ snapshots'[other].timepointNumber = snapshots[other].timepointNumber
           /\ snapshots'[other].state = snapshots[other].state
  BY NumbersAreDistinct DEF Restore, UpTo, Snapshots
<1> HIDE DEF Line
<1>4. Len(Line') = k
  BY <1>2, <1>3
<1>5. ASSUME NEW i \in 1 .. k PROVE Line'[i] = Line[i]
  <2>1. PICK other \in DOMAIN snapshots' : snapshots'[other].timepointNumber + 1 = i
    BY <1>2, <1>4
  <2> QED BY <1>1, <1>2, <1>3, <2>1
<1>6. /\ SubSeq(Line, 1, k) \in Seq(GameStates) /\ Len(SubSeq(Line, 1, k)) = k
      /\ \A i \in 1 .. k : SubSeq(Line, 1, k)[i] = Line[i]
  <2>1. k \in Nat /\ k >= 1 /\ \A i \in 1 .. k : Line[i] \in GameStates
    BY <1>1, ElementOfSeq
  <2> HIDE DEF k
  <2> QED BY <2>1
<1> HIDE DEF k
<1>7. Line' = SubSeq(Line, 1, k)
  BY <1>2, <1>4, <1>5, <1>6, SeqEqual
<1> QED BY <1>7 DEF k

\* What the containers may come to keep, for every way the store grows.
LEMMA TakingRetains ==
  ASSUME ContainersInv,
         \/ \E players \in SUBSET Players :
              TakeActionSnapshots(players) /\ (players # {} => currentId' # NoSnapshot)
         \/ \E ph \in Phases : TakePhaseSnapshot(ph) /\ currentId' # NoSnapshot
         \/ \E players : AddQuickStartOfActionSnapshots(players)
         \/ \E p \in Players : TakeManualSnapshot(p) /\ UNCHANGED currentId
         \/ UNCHANGED containerVars
  PROVE  /\ Retained' \subseteq Retained \cup {currentId'}
         /\ currentId' = NoSnapshot => Retained' \subseteq Retained
<1>1. ASSUME NEW players \in SUBSET Players, TakeActionSnapshots(players),
             players # {} => currentId' # NoSnapshot
      PROVE  /\ Retained' \subseteq Retained \cup {currentId'}
             /\ currentId' = NoSnapshot => Retained' \subseteq Retained
  <2>1. \A p \in Players : actionSnapshots'[p] \subseteq
          actionSnapshots[p] \cup (IF p \in players THEN {currentId'} ELSE {})
    BY <1>1, PushedKeepsIds DEF TakeActionSnapshots, ContainersInv
  <2>2. UNCHANGED <<phaseSnapshots, manualSnapshots>>
    BY <1>1 DEF TakeActionSnapshots
  <2> QED BY <1>1, <2>1, <2>2 DEF Retained, AllActionSnapshots, AllPhaseSnapshots
<1>2. ASSUME NEW ph \in Phases, TakePhaseSnapshot(ph), currentId' # NoSnapshot
      PROVE  Retained' \subseteq Retained \cup {currentId'}
  <2>1. \A other \in Phases : phaseSnapshots'[other] \subseteq phaseSnapshots[other] \cup {currentId'}
    BY <1>2, PushedKeepsIds DEF TakePhaseSnapshot, ContainersInv
  <2>2. UNCHANGED <<actionSnapshots, manualSnapshots>>
    BY <1>2 DEF TakePhaseSnapshot
  <2> QED BY <2>1, <2>2 DEF Retained, AllActionSnapshots, AllPhaseSnapshots
<1>3. ASSUME NEW players, AddQuickStartOfActionSnapshots(players)
      PROVE  Retained' \subseteq Retained
  BY <1>3 DEF AddQuickStartOfActionSnapshots, Retained, AllActionSnapshots, AllPhaseSnapshots
<1>4. ASSUME NEW p \in Players, TakeManualSnapshot(p), UNCHANGED currentId
      PROVE  /\ Retained' \subseteq Retained \cup {currentId'}
             /\ currentId' # NoSnapshot
  <2>1. \A q \in Players : manualSnapshots'[q] \subseteq manualSnapshots[q] \cup {currentId'}
    BY <1>4 DEF TakeManualSnapshot, ContainersInv
  <2>2. UNCHANGED <<actionSnapshots, phaseSnapshots>> /\ currentId' # NoSnapshot
    BY <1>4 DEF TakeManualSnapshot
  <2> QED BY <2>1, <2>2 DEF Retained, AllActionSnapshots, AllPhaseSnapshots
<1>5. CASE UNCHANGED containerVars
  BY <1>5 DEF containerVars, Retained, AllActionSnapshots, AllPhaseSnapshots
<1> QED BY <1>1, <1>2, <1>3, <1>4, <1>5

\* A step that keeps the line plays on: it may save the present timepoint.
LEMMA KeepingTheLinePlays ==
  ASSUME StoreInv, StoreInv', game' \in GameStates, UNCHANGED currentId,
         DOMAIN snapshots' = DOMAIN snapshots,
         lastAssignedTimepointNumber' = lastAssignedTimepointNumber,
         \A id \in DOMAIN snapshots :
           /\ snapshots'[id].timepointNumber = snapshots[id].timepointNumber
           /\ snapshots'[id].state = snapshots[id].state,
         Retained' \subseteq Retained \cup {currentId},
         currentId = NoSnapshot => Retained' \subseteq Retained
  PROVE  History!Play
<1>1. Line' = Line
  BY SameSnapshotsSameLine
<1>2. Len(Line) = lastAssignedTimepointNumber + 1 /\ lastAssignedTimepointNumber \in Nat \cup {-1}
  BY LineIsRecorded, NumbersAreDistinct DEF LineRecords
<1>3. Retained' \subseteq DOMAIN snapshots
  BY DEF StoreInv, RetainedOnTheLine
<1>4. ASSUME NEW id \in Retained'
      PROVE  snapshots'[id].timepointNumber + 1 \in
               SavedPositions \cup (IF Line = <<>> THEN {} ELSE {Len(Line)})
  <2>1. CASE id \in Retained
    BY <1>3, <2>1 DEF SavedPositions
  <2>2. CASE id \notin Retained
    <3>1. id = currentId /\ currentId # NoSnapshot
      BY <1>4, <2>2
    <3>2. snapshots'[id].timepointNumber + 1 = Len(Line) /\ Len(Line) # 0
      BY <1>2, <1>3, <3>1, NumbersAreDistinct DEF StoreInv, CurrentIsNewest
    <3>3. Line # <<>>
      BY <3>2, EmptySeq
    <3> QED BY <3>2, <3>3
  <2> QED BY <2>1, <2>2
<1>5. SavedPositions' \subseteq SavedPositions \cup (IF Line = <<>> THEN {} ELSE {Len(Line)})
  BY <1>4 DEF SavedPositions
<1> HIDE DEF Line, SavedPositions
<1> QED BY <1>1, <1>5 DEF History!Play

\* A new timepoint records the present state.
LEMMA MovingRecords ==
  ASSUME StoreInv, StoreInv', game' \in GameStates, NEW timepoint, MoveToNextTimepoint(timepoint),
         Retained' \subseteq Retained \cup {currentId'}
  PROVE  History!Record
<1>1. Line' = Append(Line, game)
  BY MoveAppendsToLine
<1>2. Len(Line) = lastAssignedTimepointNumber + 1
  BY LineIsRecorded DEF LineRecords
<1>3. Retained \subseteq DOMAIN snapshots
  BY DEF StoreInv, RetainedOnTheLine
<1>4. /\ \A id \in DOMAIN snapshots : id # currentId'
           /\ snapshots'[id].timepointNumber = snapshots[id].timepointNumber
      /\ snapshots'[currentId'].timepointNumber = lastAssignedTimepointNumber + 1
  <2>1. /\ \A id \in DOMAIN snapshots : snapshots[id] \in Snapshots
        /\ lastAssignedSnapshotId + 1 \notin DOMAIN snapshots
    BY DEF StoreInv, SnapshotTypeOK
  <2>2. \A id \in DOMAIN snapshots :
          MarkSuccessor(timepoint)[id].timepointNumber = snapshots[id].timepointNumber
    BY <2>1 DEF MarkSuccessor, Snapshots
  <2> QED BY <2>1, <2>2 DEF MoveToNextTimepoint, NewSnapshot
<1>5. ASSUME NEW id \in Retained'
      PROVE  snapshots'[id].timepointNumber + 1 \in SavedPositions \cup {Len(Line) + 1}
  <2>1. CASE id \in Retained
    BY <1>3, <1>4, <2>1 DEF SavedPositions
  <2>2. CASE id = currentId'
    BY <1>2, <1>4, <2>2
  <2> QED BY <1>5, <2>1, <2>2
<1>6. SavedPositions' \subseteq SavedPositions \cup {Len(Line) + 1}
  BY <1>5 DEF SavedPositions
<1> HIDE DEF Line, SavedPositions
<1> QED BY <1>1, <1>6 DEF History!Record

LEMMA GrowingPlaysOrRecords ==
  ASSUME StoreInv, StoreInv', StoreGrows
  PROVE  History!Play \/ History!Record
<1>1. game \in GameStates /\ ContainersInv /\ game' \in GameStates
  BY StoreInvParts DEF StoreGrows
<1>2. currentId # NoSnapshot => currentId \in DOMAIN snapshots
  BY DEF StoreInv, CurrentIsNewest
<1>3. ASSUME UNCHANGED factoryVars,
             Retained' \subseteq Retained \cup {currentId'},
             currentId' = NoSnapshot => Retained' \subseteq Retained
      PROVE  History!Play
  BY <1>1, <1>3, KeepingTheLinePlays DEF factoryVars
<1>4. CASE UNCHANGED snapshotVars
  <2>1. UNCHANGED factoryVars /\ UNCHANGED containerVars
    BY <1>4 DEF snapshotVars
  <2> QED BY <1>1, <1>3, <2>1, TakingRetains
<1>5. ASSUME NEW timepoint \in Timepoints, NEW players \in SUBSET Players,
             ReachTimepoint(timepoint, players)
      PROVE  History!Record
  <2>1. MoveToNextTimepoint(timepoint) /\ TakeActionSnapshots(players)
    BY <1>5 DEF ReachTimepoint
  <2>2. currentId' # NoSnapshot
    BY <2>1 DEF MoveToNextTimepoint, StoreInv, SnapshotTypeOK, NoSnapshot
  <2>3. Retained' \subseteq Retained \cup {currentId'}
    BY <1>1, <2>1, <2>2, TakingRetains
  <2> QED BY <1>1, <2>1, <2>3, MovingRecords
<1>6. CASE game.phase \in Phases /\ ReachStartOfPhase(game.phase)
  <2>1. MoveToNextTimepoint("startOfPhase") /\ TakePhaseSnapshot(game.phase)
    BY <1>6 DEF ReachStartOfPhase
  <2>2. currentId' # NoSnapshot
    BY <2>1 DEF MoveToNextTimepoint, StoreInv, SnapshotTypeOK, NoSnapshot
  <2>3. Retained' \subseteq Retained \cup {currentId'}
    BY <1>1, <1>6, <2>1, <2>2, TakingRetains
  <2> QED BY <1>1, <2>1, <2>3, MovingRecords
<1>7. ASSUME NEW players \in SUBSET Players, KeepTimepoint(players)
      PROVE  History!Play
  <2>1. /\ UNCHANGED factoryVars /\ TakeActionSnapshots(players)
        /\ players # {} => currentId' # NoSnapshot
    BY <1>7 DEF KeepTimepoint, factoryVars
  <2> QED BY <1>1, <1>3, <2>1, TakingRetains
<1>8. ASSUME NEW players \in SUBSET Players, AddQuickStartOfActionSnapshots(players)
      PROVE  History!Play
  <2>1. UNCHANGED factoryVars
    BY <1>8 DEF AddQuickStartOfActionSnapshots
  <2> QED BY <1>1, <1>3, <1>8, <2>1, TakingRetains
<1>9. ASSUME NEW players \in SUBSET Players, RequireConfirmation(players)
      PROVE  History!Play
  <2>1. /\ UNCHANGED containerVars
        /\ UNCHANGED <<currentId, lastAssignedTimepointNumber>>
        /\ DOMAIN snapshots' = DOMAIN snapshots
        /\ \A id \in DOMAIN snapshots :
             /\ snapshots'[id].timepointNumber = snapshots[id].timepointNumber
             /\ snapshots'[id].state = snapshots[id].state
    BY <1>9, NumbersAreDistinct DEF RequireConfirmation, ConfirmationRequired, Snapshots
  <2>2. /\ Retained' \subseteq Retained \cup {currentId'}
        /\ currentId' = NoSnapshot => Retained' \subseteq Retained
    BY <1>1, <2>1, TakingRetains
  <2> QED BY <1>1, <2>1, <2>2, KeepingTheLinePlays
<1>10. ASSUME NEW p \in Players, TakeManualSnapshot(p)
       PROVE  History!Play
  <2>1. UNCHANGED factoryVars /\ UNCHANGED currentId
    BY <1>10 DEF TakeManualSnapshot, factoryVars
  <2> QED BY <1>1, <1>3, <1>10, <2>1, TakingRetains
<1> QED BY <1>4, <1>5, <1>6, <1>7, <1>8, <1>9, <1>10 DEF StoreGrows

\* Every rollback goes to a snapshot that is still kept, and that is a saved position.
LEMMA RollbackTakesBack ==
  ASSUME StoreInv, StoreInv', RollbackTo
  PROVE  \E k \in SavedPositions : History!TakeBack(k)
<1>1. \E id \in Retained : Restore(id)
  <2>1. \A e : StillHeld(e) => e.id \in Retained
    BY DEF StillHeld, Retained
  <2>2. ASSUME NEW p \in Players, NEW point \in QuickRollbackPoints,
               NEW e \in QuickTargets(p, point), Restore(e.id)
        PROVE  \E id \in Retained : Restore(id)
    <3>1. e.id \in Retained
      BY <2>1 DEF QuickTargets
    <3> QED BY <2>2, <3>1
  <2>3. ASSUME NEW p \in Players, NEW id \in manualSnapshots[p], Restore(id)
        PROVE  \E other \in Retained : Restore(other)
    <3>1. id \in Retained
      BY DEF Retained
    <3> QED BY <2>3, <3>1
  <2>4. AllActionSnapshots \subseteq Retained /\ AllPhaseSnapshots \subseteq Retained
    BY DEF Retained
  <2> QED BY <2>2, <2>3, <2>4 DEF RollbackTo
<1>2. PICK id \in Retained : Restore(id)
  BY <1>1
<1>3. Retained \subseteq DOMAIN snapshots
  BY DEF StoreInv, RetainedOnTheLine
<1> DEFINE k == snapshots[id].timepointNumber + 1
<1>4. k \in SavedPositions
  BY DEF SavedPositions
<1>5. Line' = SubSeq(Line, 1, k)
  BY <1>2, <1>3, RestoreCutsLine
<1>6. game' = Line[k]
  BY <1>2, <1>3, LineIsRecorded DEF Restore, LineRecords
<1>7. SavedPositions' = {j \in SavedPositions : j <= k}
  <2>1. Retained' = {other \in Retained : other <= id}
    BY <1>2 DEF Restore, UpTo, Retained, AllActionSnapshots, AllPhaseSnapshots
  <2>2. \A other \in Retained' :
          snapshots'[other].timepointNumber = snapshots[other].timepointNumber
    BY <1>2, <1>3, <2>1, NumbersAreDistinct DEF Restore, UpTo, Snapshots
  <2>3. \A other \in DOMAIN snapshots :
          other <= id <=> snapshots[other].timepointNumber + 1 <= k
    BY <1>3, NumbersAreDistinct DEF StoreInv, TimepointsNumberTheLine
  <2>4. ASSUME NEW j \in SavedPositions' PROVE j \in SavedPositions /\ j <= k
    <3>1. PICK other \in Retained' : j = snapshots'[other].timepointNumber + 1
      BY <2>4 DEF SavedPositions
    <3> QED BY <1>3, <2>1, <2>2, <2>3, <3>1 DEF SavedPositions
  <2>5. ASSUME NEW j \in SavedPositions, j <= k PROVE j \in SavedPositions'
    <3>1. PICK other \in Retained : j = snapshots[other].timepointNumber + 1
      BY <2>5 DEF SavedPositions
    <3>2. other \in Retained'
      BY <1>3, <2>1, <2>3, <2>5, <3>1
    <3> QED BY <2>2, <3>1, <3>2 DEF SavedPositions
  <2> QED BY <2>4, <2>5
<1> HIDE DEF k
<1> QED BY <1>4, <1>5, <1>6, <1>7 DEF History!TakeBack

LEMMA FailingRestartsTimepoint ==
  ASSUME StoreInv, StoreInv', RestoreFails
  PROVE  History!RestartTimepoint
<1>1. /\ currentId \in DOMAIN snapshots
      /\ snapshots[currentId].timepointNumber = lastAssignedTimepointNumber
  BY DEF RestoreFails, StoreInv, CurrentIsNewest
<1>2. Len(Line) = lastAssignedTimepointNumber + 1 /\ Len(Line) \in 1 .. Len(Line)
      /\ Line[Len(Line)] = snapshots[currentId].state
  BY <1>1, LineIsRecorded DEF LineRecords
<1>3. Line # <<>>
  BY <1>2, EmptySeq
<1>4. UNCHANGED <<Line, SavedPositions>>
  BY DEF RestoreFails, snapshotVars, factoryVars, containerVars, Line, IdAt, SavedPositions,
         Retained, AllActionSnapshots, AllPhaseSnapshots
<1>5. game' = Line[Len(Line)]
  BY <1>2 DEF RestoreFails
<1> HIDE DEF Line, SavedPositions
<1> QED BY <1>3, <1>4, <1>5 DEF History!RestartTimepoint

LEMMA HistoryStarts == ManagerInit => History!HistoryInit
<1> SUFFICES ASSUME ManagerInit PROVE History!HistoryInit
  OBVIOUS
<1>1. SavedPositions = {} /\ game \in GameStates
  BY DEF ManagerInit, SnapshotInit, SavedPositions, Retained, AllActionSnapshots, AllPhaseSnapshots
<1>2. Line = <<>>
  <2>1. Line \in Seq(GameStates) /\ Len(Line) = 0
    BY StoreInvInit, LineIsRecorded DEF LineRecords, ManagerInit, SnapshotInit
  <2> QED BY <2>1, EmptySeq
<1> QED BY <1>1, <1>2 DEF History!HistoryInit

LEMMA StepsOfHistory ==
  StoreInv /\ StoreInv' /\ [ManagerNext]_managerVars => [History!HistoryNext]_(History!historyVars)
<1> SUFFICES ASSUME StoreInv, StoreInv', [ManagerNext]_managerVars
             PROVE  History!HistoryNext \/ UNCHANGED History!historyVars
  OBVIOUS
<1>1. CASE StoreGrows
  BY <1>1, GrowingPlaysOrRecords DEF History!HistoryNext
<1>2. CASE RollbackTo
  BY <1>2, RollbackTakesBack DEF History!HistoryNext
<1>3. CASE RestoreFails
  BY <1>3, FailingRestartsTimepoint DEF History!HistoryNext
<1>4. CASE UNCHANGED managerVars
  <2>1. UNCHANGED <<game, Line, SavedPositions>>
    BY <1>4 DEF managerVars, snapshotVars, factoryVars, containerVars, Line, IdAt, SavedPositions,
                Retained, AllActionSnapshots, AllPhaseSnapshots
  <2> QED BY <2>1 DEF History!historyVars
<1> QED BY <1>1, <1>2, <1>3, <1>4 DEF ManagerNext

\* The containers, ids and numbers of the store implement a line of recorded states
\* that can be taken back to a saved position: nothing recorded is ever altered, a
\* rollback reaches exactly the state recorded there (SnapshotManager.rollbackTo,
\* GameStateManager.rollbackToSnapshot), and what came after it is gone for good.
THEOREM StoreImplementsHistory == ManagerSpec => ImplementsHistory
<1>1. ManagerSpec => []StoreInv
  BY StoreInvInit, StoreInvNext, PTL DEF ManagerSpec
<1>2. ManagerInit => History!HistoryInit
  BY HistoryStarts
<1>3. StoreInv /\ StoreInv' /\ [ManagerNext]_managerVars
        => [History!HistoryNext]_(History!historyVars)
  BY StepsOfHistory
<1> QED BY <1>1, <1>2, <1>3, PTL DEF ManagerSpec, ImplementsHistory, History!HistorySpec
-----------------------------------------------------------------------------
(* Histories and their offsets *)

\* A set of numbers has a smallest element.
LEMMA SmallerIsWellFounded ==
  \E smaller : /\ IsWellFoundedOn(smaller, Nat)
               /\ \A m, n \in Nat : <<m, n>> \in smaller <=> m < n
<1>1. \A m, n \in Nat : <<m, n>> \in OpToRel(<, Nat) <=> m < n
  BY DEF OpToRel
<1> QED BY <1>1, NatLessThanWellFounded, Zenon

LEMMA SmallestOfNats ==
  ASSUME NEW S \in SUBSET Nat, S # {}
  PROVE  \E n \in S : \A m \in S : n <= m
<1>1. PICK smaller : /\ IsWellFoundedOn(smaller, Nat)
                     /\ \A m, n \in Nat : <<m, n>> \in smaller <=> m < n
  BY SmallerIsWellFounded
<1>2. IsWellFoundedOn(smaller, Nat)
  BY <1>1
<1>3. \E n \in S : \A m \in S : ~(<<m, n>> \in smaller)
  BY <1>2, WFMin
<1>4. PICK n \in S : \A m \in S : ~(<<m, n>> \in smaller)
  BY <1>3
<1>5. ASSUME NEW m \in S PROVE n <= m
  <2>1. m \in Nat /\ n \in Nat
    OBVIOUS
  <2>2. ~(<<m, n>> \in smaller)
    BY <1>4
  <2>3. ~(m < n)
    BY <1>1, <2>1, <2>2
  <2> QED BY <2>1, <2>3
<1> QED BY <1>5

\* A history that is full drops its oldest snapshot for a new one, and never the new
\* one itself (SnapshotHistoryMap.takeSnapshot).
LEMMA PushedIsBounded ==
  ASSUME NEW history \in SUBSET Nat, IsFiniteSet(history), NEW maxLength \in Nat \ {0},
         Cardinality(history) <= maxLength, NEW id \in Nat
  PROVE  /\ IsFiniteSet(Pushed(history, maxLength, id))
         /\ Cardinality(Pushed(history, maxLength, id)) <= maxLength
<1> DEFINE longer == history \cup {id}
           kept == {k \in longer : \E older \in longer : older < k}
<1>1. /\ IsFiniteSet(longer) /\ Cardinality(longer) \in Nat
      /\ Cardinality(longer) <= maxLength + 1
  <2>1. Cardinality(history) \in Nat
    BY FS_CardinalityType
  <2>2. /\ IsFiniteSet(longer)
        /\ Cardinality(longer) = IF id \in history THEN Cardinality(history) ELSE Cardinality(history) + 1
    BY FS_AddElement
  <2> HIDE DEF longer
  <2> QED BY <2>1, <2>2
<1>2. CASE Cardinality(longer) > maxLength
  <2>1. PICK first \in longer : \A other \in longer : first <= other
    <3>1. longer \in SUBSET Nat /\ longer # {}
      OBVIOUS
    <3> HIDE DEF longer
    <3> QED BY <3>1, SmallestOfNats
  <2>2. kept \in SUBSET (longer \ {first})
    BY <2>1
  <2>3. IsFiniteSet(longer \ {first}) /\ Cardinality(longer \ {first}) = Cardinality(longer) - 1
    BY <1>1, FS_RemoveElement
  <2>4. /\ IsFiniteSet(kept) /\ Cardinality(kept) \in Nat
        /\ Cardinality(kept) <= Cardinality(longer \ {first})
    <3> HIDE DEF longer, kept
    <3> QED BY <2>2, <2>3, FS_Subset, FS_CardinalityType
  <2>5. Pushed(history, maxLength, id) = kept
    BY <1>2 DEF Pushed
  <2> HIDE DEF kept, longer
  <2> QED BY <1>1, <2>3, <2>4, <2>5
<1>3. CASE ~(Cardinality(longer) > maxLength)
  BY <1>1, <1>3 DEF Pushed
<1> QED BY <1>2, <1>3

\* The newest snapshot is never the one dropped.
LEMMA PushedKeepsNewest ==
  ASSUME NEW history \in SUBSET Nat, IsFiniteSet(history), NEW maxLength \in Nat \ {0},
         NEW id \in Nat, \A other \in history : other < id
  PROVE  id \in Pushed(history, maxLength, id)
<1> DEFINE longer == history \cup {id}
<1>1. CASE history = {}
  <2>1. longer = {id}
    BY <1>1
  <2>2. ~(Cardinality(longer) > maxLength)
    BY <2>1, FS_Singleton
  <2> QED BY <2>2 DEF Pushed
<1>2. CASE history # {}
  BY <1>2 DEF Pushed
<1> QED BY <1>1, <1>2

\* Whatever a bounded history holds is at one of its offsets.
LEMMA HeldIsAtAnOffset ==
  ASSUME NEW history \in SUBSET Nat, IsFiniteSet(history), NEW maxLength \in Nat,
         Cardinality(history) <= maxLength, NEW id \in history
  PROVE  \E offset \in 0 .. maxLength - 1 : IsAtOffset(id, history, offset)
<1> DEFINE newer == {other \in history : other > id}
<1>1. newer \in SUBSET (history \ {id})
  OBVIOUS
<1>2. IsFiniteSet(history \ {id}) /\ Cardinality(history \ {id}) = Cardinality(history) - 1
  BY FS_RemoveElement
<1>3. Cardinality(newer) \in Nat /\ Cardinality(newer) <= Cardinality(history) - 1
  <2> DEFINE others == history \ {id}
  <2>1. newer \in SUBSET others /\ IsFiniteSet(others)
    BY <1>1, <1>2
  <2> HIDE DEF newer, others
  <2>2. IsFiniteSet(newer) /\ Cardinality(newer) <= Cardinality(others)
    BY <2>1, FS_Subset
  <2>3. Cardinality(newer) \in Nat
    BY <2>2, FS_CardinalityType
  <2> QED BY <1>2, <2>2, <2>3 DEF others
<1>4. Cardinality(newer) \in 0 .. maxLength - 1
  <2>1. Cardinality(history) \in Nat
    BY FS_CardinalityType
  <2> HIDE DEF newer
  <2> QED BY <1>3, <2>1
<1> QED BY <1>4 DEF IsAtOffset

\* All quick entries at one point have the same id.
LEMMA OneIdAtAPoint ==
  ASSUME NEW p, IsFiniteSet(quickSnapshots[p]), \A e \in quickSnapshots[p] : e.id \in Nat,
         NEW point, NEW e \in QuickEntriesAt(p, point), NEW f \in QuickEntriesAt(p, point)
  PROVE  e.id = f.id
<1> DEFINE After(x) == {g \in quickSnapshots[p] : g.id > x}
<1>1. /\ e \in quickSnapshots[p] /\ f \in quickSnapshots[p]
      /\ Cardinality(After(e.id)) = Cardinality(After(f.id))
  BY DEF QuickEntriesAt
<1>2. ASSUME NEW a \in quickSnapshots[p], NEW b \in quickSnapshots[p], a.id < b.id
      PROVE  Cardinality(After(a.id)) # Cardinality(After(b.id))
  <2>1. After(b.id) \in SUBSET After(a.id) /\ b \in After(a.id) /\ b \notin After(b.id)
    BY <1>2
  <2>2. IsFiniteSet(After(a.id))
    BY FS_Subset
  <2> HIDE DEF After
  <2> QED BY <2>1, <2>2, FS_Subset
<1>3. e.id \in Nat /\ f.id \in Nat
  BY <1>1
<1>4. ~(e.id < f.id) /\ ~(f.id < e.id)
  BY <1>1, <1>2
<1> QED BY <1>3, <1>4
=============================================================================
