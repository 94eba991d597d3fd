--------------------------- MODULE MCSessionKernel ---------------------------
(***************************************************************************)
(* Small instances of SessionKernel for TLC.                               *)
(***************************************************************************)
EXTENDS SessionKernel, TLC

CONSTANTS o1, o2, c1, c2, r1, r2, s1, s2

TwoOps == {o1, o2}
OneClient == {c1}
TwoClients == {c1, c2}
OneRoot == {r1}
TwoRoots == {r1, r2}
TwoSessions == {s1, s2}

Interchangeable ==
    Permutations(Ops) \cup Permutations(Clients) \cup Permutations(Roots) \cup Permutations(Sessions)

=============================================================================
