--------------------------- MODULE MCTimedPrompts ---------------------------
(* Values for TimedPrompts. *)
EXTENDS TimedPrompts

CONSTANTS p1, p2

MCPlayers == {p1, p2}
=============================================================================
