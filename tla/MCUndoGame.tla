----------------------------- MODULE MCUndoGame -----------------------------
(* UndoGame between two players, over rounds and rollbacks bounded by constants. *)
EXTENDS UndoGame, TLC

CONSTANTS p1, p2

MCPlayers == {p1, p2}
Premier == {{"initiative"}}

PlayersAreAlike == Permutations(Players)

\* The rounds of the model are over: the game goes on, the model does not.
LastRoundOver == pc = "beginRound" /\ game.round = MaxRounds /\ UNCHANGED undoGameVars

MCSpec == UndoInit /\ [][UndoNext \/ LastRoundOver]_undoGameVars /\ UndoFairness
=============================================================================
