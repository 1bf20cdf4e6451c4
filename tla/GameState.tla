----------------------------- MODULE GameState -----------------------------
(* What the modules of the game share: the players, and Game.state, the record *)
(* that every snapshot copies and every rollback replaces.                     *)

CONSTANTS
  Players,
  NoPlayer            \* actionPhaseActivePlayer = null

VARIABLE game         \* Game.state

Phases == {"setup", "action", "regroup"}
=============================================================================
