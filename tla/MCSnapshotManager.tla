------------------------- MODULE MCSnapshotManager -------------------------
(* SnapshotManager driven in every order.  The containers of two players never *)
(* read one another, so one player is enough here: UndoGame runs two.          *)
EXTENDS SnapshotManager, TLC

CONSTANT p1

MCPlayers == {p1}
MCGameStates == {[phase |-> "setup", active |-> NoPlayer],
                 [phase |-> "action", active |-> p1],
                 [phase |-> "regroup", active |-> NoPlayer]}
MCTimepoints == {"startOfPhase", "action"}

\* Manual snapshots and confirmation flags are independent of one another: one
\* of each is enough.
FewExtras ==
  /\ Cardinality(manualSnapshots[p1]) <= 1
  /\ Cardinality({id \in DOMAIN snapshots : snapshots[id].requiresConfirmation}) <= 1

=============================================================================
