--------------------------- MODULE MCCodeExchange ---------------------------
(***************************************************************************)
(* Small instances of CodeExchange for TLC.                                *)
(***************************************************************************)
EXTENDS CodeExchange, TLC

CONSTANTS r1, s1, s2, oidc, sso, f1, f2, k1, e1, e2

OneRoot == {r1}
TwoSessions == {s1, s2}
OneOidc == {oidc}
OneSso == {sso}
TwoFlows == {f1, f2}
OneWait == {k1}
TwoExchanges == {e1, e2}

Symmetry == Permutations(TwoSessions) \cup Permutations(TwoFlows)
               \cup Permutations(TwoExchanges)

=============================================================================
