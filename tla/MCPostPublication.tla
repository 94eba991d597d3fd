------------------------- MODULE MCPostPublication -------------------------
(***************************************************************************)
(* Small instances of PostPublication for TLC.                             *)
(***************************************************************************)
EXTENDS PostPublication, TLC

CONSTANTS w1, w2, w3

ThreeWorkers == {w1, w2, w3}
TwoWorkers == {w1, w2}

=============================================================================
