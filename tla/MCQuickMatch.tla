---------------------------- MODULE MCQuickMatch ----------------------------
(* QuickMatch with two players whose connections drop. *)
EXTENDS QuickMatch

CONSTANTS u1, u2

TwoUsers == {u1, u2}
=============================================================================
