-------------------------- MODULE MCTriggerWindow --------------------------
(* A small instance of TriggerWindow: an ability of each player, one whose  *)
(* effect is followed by a "then", one followed by an "if you do not".      *)
EXTENDS TriggerWindow

CONSTANTS p1, p2, a1, b1

TwoPlayers == {p1, p2}
TwoAbilities == {a1, b1}
Controllers == (a1 :> p1) @@ (b1 :> p2)
SubStepsOfAll == (a1 :> "then") @@ (b1 :> "ifYouDoNot")
OneUnsteady == {a1}
SomeListening == {{a1, b1}}
=============================================================================
