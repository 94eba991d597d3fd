--------------------------- MODULE MCSubjectAccess ---------------------------
(***************************************************************************)
(* Small instances of SubjectAccess for TLC.                               *)
(***************************************************************************)
EXTENDS SubjectAccess, TLC

CONSTANTS x1, x2, x3, a1, a2, s1

TwoTransitions == {x1, x2}
ThreeTransitions == {x1, x2, x3}
OneAgent == {a1}
TwoAgents == {a1, a2}
NoSessions == {}
OneSession == {s1}

Interchangeable == Permutations(Transitions) \cup Permutations(Agents) \cup Permutations(Sessions)

=============================================================================
