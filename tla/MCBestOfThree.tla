--------------------------- MODULE MCBestOfThree ---------------------------
(* BestOfThree with its two players. *)
EXTENDS BestOfThree

CONSTANTS p1, p2

TwoUsers == {p1, p2}
=============================================================================
