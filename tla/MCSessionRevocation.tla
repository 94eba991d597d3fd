------------------------- MODULE MCSessionRevocation -------------------------
(***************************************************************************)
(* Small instances of SessionRevocation for TLC.                           *)
(***************************************************************************)
EXTENDS SessionRevocation, TLC

CONSTANTS o1, c1, b1

OneOp == {o1}
OneClient == {c1}
OneBatch == {b1}

=============================================================================
