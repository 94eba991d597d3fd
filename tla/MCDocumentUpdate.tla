-------------------------- MODULE MCDocumentUpdate --------------------------
(***************************************************************************)
(* Small instances of DocumentUpdate for TLC.                              *)
(***************************************************************************)
EXTENDS DocumentUpdate, TLC

CONSTANTS t1, t2, e1, e2, e3, w1, w2

TwoTargets == {t1, t2}
TwoEntries == {e1, e2}
ThreeEntries == {e1, e2, e3}
TwoWorkers == {w1, w2}

Interchangeable == Permutations(Targets) \cup Permutations(Entries) \cup Permutations(Workers)

=============================================================================
