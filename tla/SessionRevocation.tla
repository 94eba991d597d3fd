-------------------------- MODULE SessionRevocation --------------------------
(***************************************************************************)
(* Revocation of many sessions (packages/api-core/src/subject-access/      *)
(* adapters/unified-session.ts), beside the other users of the session     *)
(* kernel.                                                                 *)
(*                                                                         *)
(* A batch captures the sessions of an index page by page, each page by    *)
(* its rank at that moment, and then terminates the captured ones one by   *)
(* one, roots first.  Nothing holds the index still in between: requests   *)
(* open, renew and revoke sessions, and time passes.                       *)
(***************************************************************************)
EXTENDS SessionKernel

CONSTANTS
    Batches,    \* revocations at work
    PageLimit,  \* entries of one page of a capture
    Budget      \* entries a capture may pass over

ASSUME RevocationAssumption ==
    /\ Roots \subseteq Nat     \* for the order of an index
    /\ Sessions \subseteq Nat
    /\ IsFiniteSet(Roots) /\ IsFiniteSet(Sessions)  \* an index can be counted
    /\ PageLimit \in Nat \ {0}
    /\ Budget \in Nat

VARIABLE batch  \* batch[b]: the memory of a revocation

requests == <<now, deadline, op, acknowledged>>
revocationVars == <<vars, batch>>

Nothing == <<"none", NoOne>>
Subject == <<"subject", NoOne>>
OfClient(c) == <<"client", c>>
ChildrenOf(r) == <<"children", r>>
Scopes == {Subject} \cup {OfClient(c) : c \in Clients} \cup {ChildrenOf(r) : r \in Roots}

\* scope, offset: the index and the rank at which the capture stands; later:
\* the indexes to capture after it.
\* watched and moved are history: what stood in the indexes when the capture of
\* each began, and whether an entry changed its place during the capture.
NoBatch == [pc |-> "none", scope |-> Nothing, later |-> {}, offset |-> 0,
            targets |-> {}, unfinished |-> {},
            watched |-> {}, moved |-> FALSE]

RevocationInit == Init /\ batch = [b \in Batches |-> NoBatch]

-----------------------------------------------------------------------------
(* Pages of an index.                                                      *)

Members(scope) ==
    LET indexed == {s \in Sessions : score[s] > 0} IN
    CASE scope[1] = "subject"  -> {AUser(r) : r \in {r \in Roots : rootScore[r] > 0}}
      [] scope[1] = "client"   -> {AClient(s) : s \in {s \in indexed : client[s].client = scope[2]}}
      [] scope[1] = "children" -> {AClient(s) : s \in {s \in indexed : client[s].root = scope[2]}}
      [] OTHER -> {}

Score(t) == IF t[1] = "user" THEN rootScore[t[2]] ELSE score[t[2]]

Precedes(t, u) == Score(t) < Score(u) \/ (Score(t) = Score(u) /\ t[2] < u[2])

Rank(scope, t) == Cardinality({u \in Members(scope) : Precedes(u, t)})

Page(scope, offset) ==
    {t \in Members(scope) : offset <= Rank(scope, t) /\ Rank(scope, t) < offset + PageLimit}

\* Records that are gone leave their entry in the index.
Records(page) == {t \in page : Present(RecordOf(t))}

\* Mutant: a page with fewer records than it may have is the last one.
FullPageHasMore(scope, offset) == Cardinality(Records(Page(scope, offset))) = PageLimit

HasMore(scope, offset) ==
    offset + Cardinality(Page(scope, offset)) < Cardinality(Members(scope))

-----------------------------------------------------------------------------
(* The capture.                                                            *)

Living(scope) == {t \in Members(scope) : Available(RecordOf(t))}

Capturing(x, scope) ==
    [x EXCEPT !.pc = "capture", !.scope = scope, !.offset = 0,
              !.watched = @ \cup Living(scope)]

\* Every session of a client.
RevokeClientSessions(b, c) ==
    /\ batch[b].pc = "none"
    /\ batch' = [batch EXCEPT ![b] = Capturing(NoBatch, OfClient(c))]
    /\ UNCHANGED vars

\* A root, observed for it, with its client sessions.
RevokePrincipalSession(b, r) ==
    /\ batch[b].pc = "none"
    /\ batch' = [batch EXCEPT ![b] = [Capturing(NoBatch, ChildrenOf(r)) EXCEPT
                                         !.targets = Records({AUser(r)})]]
    /\ UNCHANGED vars

\* The roots of the subject with their client sessions.
RevokeUserSessions(b) ==
    /\ batch[b].pc = "none"
    /\ batch' = [batch EXCEPT ![b] = Capturing(NoBatch, Subject)]
    /\ UNCHANGED vars

Captured(x) == x.targets \cup Records(Page(x.scope, x.offset))

NextPage(b) ==
    LET x == batch[b] IN
    /\ x.pc = "capture"
    /\ x.offset < Budget
    /\ HasMore(x.scope, x.offset)
    /\ batch' = [batch EXCEPT ![b] = [x EXCEPT
                    !.targets = Captured(x),
                    !.offset = @ + Cardinality(Page(x.scope, x.offset))]]
    /\ UNCHANGED vars

\* Mutant: the capture is over and its index is still at hand.
AfterKeepingScope(x, targets, later) == [x EXCEPT !.pc = "execute", !.targets = targets]

\* The targets are known so far: on with the next index, or the execution.
After(x, targets, later) ==
    IF later = {}
    THEN [x EXCEPT !.pc = "execute", !.targets = targets,
                   !.scope = Nothing, !.later = {}, !.offset = 0]
    ELSE LET next == CHOOSE s \in later : TRUE IN
         [Capturing(x, next) EXCEPT !.targets = targets, !.later = later \ {next}]

LastPage(b) ==
    LET x == batch[b] IN
    /\ x.pc = "capture"
    /\ x.scope # Subject
    /\ x.offset < Budget
    /\ ~HasMore(x.scope, x.offset)
    /\ batch' = [batch EXCEPT ![b] = After(x, Captured(x), x.later)]
    /\ UNCHANGED vars

\* Of the roots of the subject those of the wanted generations are chosen; one
\* of them may be kept, though its client sessions are not.
LastPageOfRoots(b, chosen, kept) ==
    LET x == batch[b]
        spared == (Captured(x) \ chosen) \cup {AUser(kept)} IN
    /\ x.pc = "capture"
    /\ x.scope = Subject
    /\ x.offset < Budget
    /\ ~HasMore(x.scope, x.offset)
    /\ chosen \subseteq Captured(x)
    /\ batch' = [batch EXCEPT ![b] =
                    After([x EXCEPT !.watched = @ \ spared], chosen \ spared,
                          {ChildrenOf(t[2]) : t \in chosen})]
    /\ UNCHANGED vars

\* Too many entries were passed over, a call failed, or the process died:
\* nothing has been revoked yet.
GiveUpCapture(b) ==
    /\ batch[b].pc = "capture"
    /\ batch' = [batch EXCEPT ![b] = NoBatch]
    /\ UNCHANGED vars

-----------------------------------------------------------------------------
(* The execution.                                                          *)

\* An entry of an index is moved, by a renewal, or taken out, by a revocation.
Reorders ==
    \/ \E r \in Roots : rootScore[r] > 0 /\ rootScore'[r] # rootScore[r]
    \/ \E s \in Sessions : score[s] > 0 /\ score'[s] # score[s]

\* The memories become bs, beside a step of the kernel.
Alongside(bs) ==
    batch' = [b \in Batches |-> [bs[b] EXCEPT !.moved = @ \/ (bs[b].pc = "capture" /\ Reorders)]]

Due(x, t) == t \in x.targets /\ (t[1] = "user" \/ \A u \in x.targets : u[1] = "client")

\* An error does not stop the batch: its target is left unfinished.
ExecuteTarget(b, t) ==
    /\ batch[b].pc = "execute"
    /\ Due(batch[b], t)
    /\ \/ Revoke(t) /\ Alongside([batch EXCEPT ![b].targets = @ \ {t}])
       \/ /\ Revoke(t) \/ UNCHANGED keys
          /\ Alongside([batch EXCEPT ![b].targets = @ \ {t}, ![b].unfinished = @ \cup {t}])
    /\ UNCHANGED requests

\* The caller is told what is unfinished, and may try that again, no more.
RetryUnfinished(b) ==
    /\ batch[b].pc = "execute"
    /\ batch[b].targets = {}
    /\ batch[b].unfinished # {}
    /\ batch' = [batch EXCEPT ![b] = [@ EXCEPT !.targets = batch[b].unfinished,
                                               !.unfinished = {}]]
    /\ UNCHANGED vars

\* The batch is over: done, or abandoned.
EndBatch(b) ==
    /\ batch[b].pc = "execute"
    /\ batch' = [batch EXCEPT ![b] = NoBatch]
    /\ UNCHANGED vars

-----------------------------------------------------------------------------
BatchStep(b) ==
    \/ \E c \in Clients : RevokeClientSessions(b, c)
    \/ \E r \in Roots : RevokePrincipalSession(b, r)
    \/ RevokeUserSessions(b)
    \/ NextPage(b)
    \/ LastPage(b)
    \/ \E chosen \in SUBSET {AUser(r) : r \in Roots}, kept \in Roots \cup {NoOne} :
          LastPageOfRoots(b, chosen, kept)
    \/ GiveUpCapture(b)
    \/ \E t \in Targets : ExecuteTarget(b, t)
    \/ RetryUnfinished(b)
    \/ EndBatch(b)

\* What goes on beside the batches.  The requests themselves are left out:
\* any root that was created may still be observed by one of them.
KernelStep ==
    \/ Tick
    \/ /\ \/ \E r \in Roots : WriteRoot(r)
          \/ \E r \in Roots, c \in Clients, s \in Sessions, ttl \in ClientTtls :
                Renew(r, c, s, ttl) \/ OpenNew(r, c, s, ttl)
          \/ \E t \in Targets : Present(RecordOf(t)) /\ Revoke(t)
       /\ UNCHANGED requests

RevocationNext ==
    \/ KernelStep /\ Alongside(batch)
    \/ \E b \in Batches : BatchStep(b)

RevocationSpec == RevocationInit /\ [][RevocationNext]_revocationVars

-----------------------------------------------------------------------------
(* Correctness.                                                            *)

\* The memory of a batch has its type; it stands at a page of an index exactly
\* while it captures, and nothing is unfinished before the execution.
BatchTypeOK ==
    /\ batch \in [Batches ->
          [pc : {"none", "capture", "execute"}, scope : Scopes \cup {Nothing},
           later : SUBSET Scopes, offset : Nat, targets : SUBSET Targets,
           unfinished : SUBSET Targets, watched : SUBSET Targets, moved : BOOLEAN]]
    /\ \A b \in Batches :
          /\ (batch[b].pc = "capture") <=> (batch[b].scope # Nothing)
          /\ batch[b].pc = "capture" => batch[b].unfinished = {}

\* The caller is told that every captured session is terminated.
Confirmed(x) == x.pc = "execute" /\ x.targets = {} /\ x.unfinished = {}

\* Nothing that stood when the revocation began stands when it is confirmed,
\* if no entry of an index changed its place during the capture.
ConfirmedUnlessMoved ==
    \A b \in Batches :
       Confirmed(batch[b]) /\ ~batch[b].moved =>
          \A t \in batch[b].watched : ~Available(RecordOf(t))

\* The same whatever happened during the capture.  As
\* docs/features/sso/login-and-session.md:33 has it, a batch handles what was
\* selected at its beginning, and new sessions may not be within it; of others it
\* does not say so, and docs/architecture/backend-architecture.md:170 wants all
\* targets captured first, not along a cursor that changes.
ConfirmedIsComplete ==
    \A b \in Batches :
       Confirmed(batch[b]) => \A t \in batch[b].watched : ~Available(RecordOf(t))

=============================================================================
