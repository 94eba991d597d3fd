------------------------- MODULE ApplicationSessions -------------------------
(***************************************************************************)
(* What the session kernel promises to the protocols: a client session is  *)
(* usable from the moment it is opened, or never; while it is usable it is *)
(* the only one of its root and client; and once it is not, no login, no   *)
(* renewal and no late answer makes it usable again.                       *)
(***************************************************************************)
CONSTANT Sessions

VARIABLES
    seen,      \* the client sessions opened so far
    usable,    \* those an online use is granted
    relation   \* relation[s]: root and client of an opened session

vars == <<seen, usable, relation>>

Init == seen = {} /\ usable = {}

\* A session of a relation that has no usable one; under a root that was
\* revoked meanwhile it is never usable.
Open(s) ==
    /\ s \in Sessions \ seen
    /\ seen' = seen \cup {s}
    /\ \A z \in seen : relation'[z] = relation[z]
    /\ \/ usable' = usable
       \/ /\ \A z \in usable : relation'[z] # relation'[s]
          /\ usable' = usable \cup {s}

\* Revocation, the end of a root, the passage of time.
Close ==
    /\ usable' \subseteq usable
    /\ seen' = seen
    /\ \A z \in seen : relation'[z] = relation[z]

Next == Close \/ \E s \in Sessions : Open(s)

Spec == Init /\ [][Next]_vars

=============================================================================
