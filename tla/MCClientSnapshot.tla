--------------------------- MODULE MCClientSnapshot ---------------------------
(***************************************************************************)
(* A small instance of ClientSnapshot for TLC.                             *)
(***************************************************************************)
EXTENDS ClientSnapshot, TLC

CONSTANTS a1, a2, r1, r2, p1, p2

TwoAdmins == {a1, a2}
TwoReaders == {r1, r2}
TwoProcesses == {p1, p2}

Symmetry ==
    Permutations(TwoAdmins) \cup Permutations(TwoReaders) \cup Permutations(TwoProcesses)

=============================================================================
