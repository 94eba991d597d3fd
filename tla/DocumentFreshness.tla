------------------------- MODULE DocumentFreshness --------------------------
(***************************************************************************)
(* What the document update engine promises its readers, with no outbox,   *)
(* no versions, no workers and no queue.                                   *)
(*                                                                         *)
(* The source advances by commits.  A commit concerns some targets.  Each  *)
(* target has a derived copy that shows the source as of some commit.  A   *)
(* copy only ever moves forward, never past the source, and a copy that is *)
(* behind a change that concerns it does not stay behind.                  *)
(***************************************************************************)
EXTENDS Naturals

CONSTANT Targets

VARIABLES
    now,        \* commits of the source so far
    changedAt,  \* changedAt[t]: the last commit that concerns t
    asOf        \* asOf[t]: the commit the copy of t shows

vars == <<now, changedAt, asOf>>

Init ==
    /\ now = 0
    /\ changedAt = [t \in Targets |-> 0]
    /\ asOf = [t \in Targets |-> 0]

Change(S) ==
    /\ now' = now + 1
    /\ changedAt' = [t \in Targets |-> IF t \in S THEN now + 1 ELSE changedAt[t]]
    /\ UNCHANGED asOf

Refresh ==
    /\ asOf' \in [Targets -> 0..now]
    /\ \A t \in Targets : asOf'[t] >= asOf[t]
    /\ UNCHANGED <<now, changedAt>>

Next == Refresh \/ \E S \in SUBSET Targets : Change(S)

Fresh(t) == asOf[t] >= changedAt[t]

CatchesUp == \A t \in Targets : ~Fresh(t) ~> Fresh(t)

Spec == Init /\ [][Next]_vars /\ CatchesUp

=============================================================================
