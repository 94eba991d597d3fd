---------------------------- MODULE SessionKernel ----------------------------
(***************************************************************************)
(* The session kernel (packages/session-kernel/src/unified).               *)
(*                                                                         *)
(* A user session is the root of a login; a client session relates one     *)
(* root to one client.  Every operation is one Redis script, so one step.  *)
(* What a request read it keeps as an observation and may act on later: a  *)
(* client session is opened, and an artifact is given a deadline, from an  *)
(* observation that nothing renews.                                        *)
(*                                                                         *)
(* One subject.  Identifiers are random and never repeat, so a record is   *)
(* its identifier: the branches for a replaced instance and for a          *)
(* collision need a repeated identifier.  The four indexes of client       *)
(* sessions are written together with the same scores and are one score    *)
(* here, which the members of each index share.  A key with a deadline is  *)
(* gone after it; an index outlives its members, and here never goes.      *)
(***************************************************************************)
EXTENDS Naturals, FiniteSets

CONSTANTS
    Roots,       \* user sessions
    Sessions,    \* client sessions
    Clients,     \* the clients
    Ops,         \* operations (requests) that read sessions and open them
    NoOne,       \* no session
    UserTtl,     \* lifetime of a root
    ClientTtls,  \* lifetimes of client sessions, one per configured process
    MaxTime      \* bound on the clock

ASSUME KernelAssumption ==
    /\ NoOne \notin Roots
    /\ NoOne \notin Sessions
    /\ UserTtl \in Nat \ {0}
    /\ ClientTtls \subseteq Nat \ {0}

VARIABLES
    now,           \* the clock of Redis
    user,          \* user[r]: the record of a root
    client,        \* client[s]: the record of a client session
    slot,          \* slot[r, c]: the client session of the relation
    rootScore,     \* rootScore[r]: score in the subject's index, 0 when absent
    score,         \* score[s]: score in the indexes of client sessions
    deadline,      \* deadline[s]: the latest deadline of an artifact of s
    op,            \* op[o]: the memory of an operation
    acknowledged   \* roots whose revocation was answered (history)

vars == <<now, user, client, slot, rootScore, score, deadline, op, acknowledged>>

keys == <<user, client, slot, rootScore, score>>

AUser(r) == <<"user", r>>
AClient(s) == <<"client", s>>
Targets == ({"user"} \X Roots) \cup ({"client"} \X Sessions)

\* An operation observes a root or a client session; a request that keeps
\* several observations is several operations.  knew is the roots it must not
\* observe, because they were revoked before it began (history).
NotBegun == [active |-> FALSE, root |-> NoOne, session |-> NoOne, until |-> 0, knew |-> {}]

Observing(r, s, until, knew) ==
    [active |-> TRUE, root |-> r, session |-> s, until |-> until, knew |-> knew]

NoSlot == [id |-> NoOne, expiresAt |-> 0]

ObserveRoot(o, r) ==
    op' = [op EXCEPT ![o] = Observing(r, NoOne, 0, op[o].knew)]

ObserveSession(o, s, until) ==
    op' = [op EXCEPT ![o] = Observing(NoOne, s, until, op[o].knew)]

Init ==
    /\ now = 1
    /\ user = [r \in Roots |-> [state |-> "absent", expiresAt |-> 0]]
    /\ client = [s \in Sessions |-> [state |-> "absent", root |-> NoOne,
                                     client |-> NoOne, expiresAt |-> 0]]
    /\ slot = [x \in Roots \X Clients |-> NoSlot]
    /\ rootScore = [r \in Roots |-> 0]
    /\ score = [s \in Sessions |-> 0]
    /\ deadline = [s \in Sessions |-> 0]
    /\ op = [o \in Ops |-> NotBegun]
    /\ acknowledged = {}

Least(a, b) == IF a <= b THEN a ELSE b
Greatest(a, b) == IF a >= b THEN a ELSE b

-----------------------------------------------------------------------------
(* Records and time.                                                       *)

\* The key is still there; a terminated record stays until its deadline.
Present(record) == record.state # "absent" /\ now <= record.expiresAt

Available(record) == record.state = "active" /\ now < record.expiresAt

RecordOf(t) == IF t[1] = "user" THEN user[t[2]] ELSE client[t[2]]

\* A client session that an online use would be granted.
Resolvable(s) ==
    /\ Available(client[s])
    /\ Available(user[client[s].root])

SlotHolder(r, c) == IF now <= slot[<<r, c>>].expiresAt THEN slot[<<r, c>>].id ELSE NoOne

Tick ==
    /\ now < MaxTime
    /\ now' = now + 1
    /\ UNCHANGED <<keys, deadline, op, acknowledged>>

-----------------------------------------------------------------------------
(* Operations and their observations.                                      *)

BeginOperation(o) ==
    /\ ~op[o].active
    /\ op' = [op EXCEPT ![o] = Observing(NoOne, NoOne, 0, acknowledged)]
    /\ UNCHANGED <<now, keys, deadline, acknowledged>>

\* An operation ends, fails or dies: its observations are void afterwards.
EndOperation(o) ==
    /\ op[o].active
    /\ op' = [op EXCEPT ![o] = NotBegun]
    /\ UNCHANGED <<now, keys, deadline, acknowledged>>

WriteRoot(r) ==
    /\ user[r].state = "absent"
    /\ user' = [user EXCEPT ![r] = [state |-> "active", expiresAt |-> now + UserTtl]]
    /\ rootScore' = [rootScore EXCEPT ![r] = now + UserTtl]
    /\ UNCHANGED <<client, slot, score>>

CreateUserSession(o, r) ==
    /\ op[o].active
    /\ WriteRoot(r)
    /\ ObserveRoot(o, r)
    /\ UNCHANGED <<now, deadline, acknowledged>>

ResolveUserSession(o, r) ==
    /\ op[o].active
    /\ Available(user[r])
    /\ ObserveRoot(o, r)
    /\ UNCHANGED <<now, keys, deadline, acknowledged>>

\* Mutant: any client session that still stands is good, whatever its root.
StandsAlone(s) == Available(client[s])

MayUse(s) == Resolvable(s) /\ client[s].expiresAt <= user[client[s].root].expiresAt

ResolveClientSession(o, s) ==
    /\ op[o].active
    /\ MayUse(s)
    /\ ObserveSession(o, s, client[s].expiresAt)
    /\ UNCHANGED <<now, keys, deadline, acknowledged>>

-----------------------------------------------------------------------------
(* Opening a client session under an observed root.                        *)

\* Mutant: each authorization opens a session of its own.
NeverReusable(s) == FALSE

Reusable(s) == s # NoOne /\ Available(client[s])

\* Mutant: every process applies its own lifetime to a session it reuses.
RestartedUntil(r, before, ttl) == Least(user[r].expiresAt, now + ttl)

\* Mutant: the deadline of the root is forgotten.
UnclippedUntil(r, before, ttl) == Greatest(before, now + ttl)

OpenUntil(r, before, ttl) == Least(user[r].expiresAt, Greatest(before, now + ttl))

\* Mutant: the slot lives as long as the process would let a new session live.
SlotForTtl(s, until, ttl) == [id |-> s, expiresAt |-> now + ttl]

Slotted(s, until, ttl) == [id |-> s, expiresAt |-> until]

\* The session s of the relation (r, c) is written with its slot and scores.
WriteSession(r, c, s, until, ttl) ==
    /\ client' = [client EXCEPT ![s] = [state |-> "active", root |-> r, client |-> c,
                                        expiresAt |-> until]]
    /\ slot' = [slot EXCEPT ![<<r, c>>] = Slotted(s, until, ttl)]
    /\ score' = [score EXCEPT ![s] = until]
    /\ UNCHANGED <<user, rootScore>>

\* The session of the slot is renewed, or a new one opened.  r is what the
\* caller observed: whether it was revoked since is not looked at.
Renew(r, c, s, ttl) ==
    /\ now < user[r].expiresAt
    /\ s = SlotHolder(r, c)
    /\ Reusable(s)
    /\ WriteSession(r, c, s, OpenUntil(r, client[s].expiresAt, ttl), ttl)

OpenNew(r, c, s, ttl) ==
    /\ now < user[r].expiresAt
    /\ ~Reusable(SlotHolder(r, c))
    /\ client[s].state = "absent"
    /\ WriteSession(r, c, s, OpenUntil(r, 0, ttl), ttl)

OpenClientSession(o, r, c, s, ttl) ==
    /\ op[o].active
    /\ op[o].root = r
    /\ Renew(r, c, s, ttl) \/ OpenNew(r, c, s, ttl)
    /\ ObserveSession(o, s, client'[s].expiresAt)
    /\ UNCHANGED <<now, deadline, acknowledged>>

\* A protocol gives an artifact a deadline, within those it observed.
IssueArtifact(o, ttl) ==
    LET s == op[o].session IN
    /\ op[o].active
    /\ s # NoOne
    /\ deadline' = [deadline EXCEPT ![s] = Greatest(@, Least(op[o].until, now + ttl))]
    /\ UNCHANGED <<now, keys, op, acknowledged>>

-----------------------------------------------------------------------------
(* Revocation of one target.                                               *)

\* Mutant: a root is taken from its index, and its record is left.
RevokedIndexOnly(records, kind, t) == records

\* Mutant: a state of its own, which the readers of the record do not know.
RevokedUnknown(records, kind, t) ==
    IF t[1] = kind /\ Available(records[t[2]])
    THEN [records EXCEPT ![t[2]].state = "revoked"]
    ELSE records

\* The record stays, terminated, until its deadline.
Revoked(records, kind, t) ==
    IF t[1] = kind /\ Available(records[t[2]])
    THEN [records EXCEPT ![t[2]].state = "terminated"]
    ELSE records

\* A session loses its slot and its places in the indexes.
Revoke(t) ==
    LET effective == Available(RecordOf(t)) IN
    /\ user' = Revoked(user, "user", t)
    /\ client' = Revoked(client, "client", t)
    /\ slot' = [x \in Roots \X Clients |->
                  IF effective /\ \E s \in Sessions :
                        /\ t = AClient(s)
                        /\ x = <<client[s].root, client[s].client>>
                        /\ slot[x].id = s
                  THEN NoSlot ELSE slot[x]]
    /\ rootScore' = [r \in Roots |-> IF effective /\ t = AUser(r) THEN 0 ELSE rootScore[r]]
    /\ score' = [s \in Sessions |-> IF effective /\ t = AClient(s) THEN 0 ELSE score[s]]

\* The target is revoked and the caller hears of it.
RevokeHeard(t) ==
    /\ Revoke(t)
    /\ acknowledged' = acknowledged \cup {r \in Roots : t = AUser(r)}
    /\ UNCHANGED <<now, deadline, op>>

\* The call or its reply is lost: the outcome is unknown.
RevokeUnheard(t) ==
    /\ Revoke(t) \/ UNCHANGED <<keys>>
    /\ UNCHANGED <<now, deadline, op, acknowledged>>

\* A session observed for it, alive or already terminated, is revoked alone.
RevokeObserved(t) ==
    /\ Present(RecordOf(t))
    /\ RevokeHeard(t) \/ RevokeUnheard(t)

-----------------------------------------------------------------------------
Step(o) ==
    \/ BeginOperation(o)
    \/ EndOperation(o)
    \/ \E r \in Roots : CreateUserSession(o, r) \/ ResolveUserSession(o, r)
    \/ \E s \in Sessions : ResolveClientSession(o, s)
    \/ \E r \in Roots, c \in Clients, s \in Sessions, ttl \in ClientTtls :
          OpenClientSession(o, r, c, s, ttl)
    \/ \E ttl \in ClientTtls : IssueArtifact(o, ttl)

Next ==
    \/ Tick
    \/ \E o \in Ops : Step(o)
    \/ \E t \in Targets : RevokeObserved(t)

Spec == Init /\ [][Next]_vars

-----------------------------------------------------------------------------
(* Correctness.                                                            *)

OpType == [active : BOOLEAN, root : Roots \cup {NoOne}, session : Sessions \cup {NoOne},
           until : Nat, knew : SUBSET Roots]

\* Every variable has its type.
TypeOK ==
    /\ now \in Nat \ {0}
    /\ user \in [Roots -> [state : {"absent", "active", "terminated"}, expiresAt : Nat]]
    /\ client \in [Sessions -> [state : {"absent", "active", "terminated"},
                                root : Roots \cup {NoOne}, client : Clients \cup {NoOne},
                                expiresAt : Nat]]
    /\ slot \in [Roots \X Clients -> [id : Sessions \cup {NoOne}, expiresAt : Nat]]
    /\ rootScore \in [Roots -> Nat]
    /\ score \in [Sessions -> Nat]
    /\ deadline \in [Sessions -> Nat]
    /\ op \in [Ops -> OpType]
    /\ acknowledged \subseteq Roots

\* Parallel authorizations share one session: there are never two that stand
\* for the same root and client, not even under a root that was revoked.
OneLiveInstance ==
    \A s, z \in Sessions :
       /\ Available(client[s])
       /\ Available(client[z])
       /\ client[s].root = client[z].root
       /\ client[s].client = client[z].client
       => s = z

\* No script finds the keys of another one corrupt: what an index lists is
\* active, a slot leads to a session of its own relation, and no session is
\* longer than its root (the checks of list, open and resolveClient).
NothingLooksCorrupt ==
    /\ \A r \in Roots : rootScore[r] > now => Available(user[r])
    /\ \A s \in Sessions : score[s] > now => Available(client[s])
    /\ \A r \in Roots, c \in Clients :
          LET s == SlotHolder(r, c) IN
          s # NoOne => client[s].root = r /\ client[s].client = c
    /\ \A s \in Sessions :
          client[s].state # "absent" => client[s].expiresAt <= user[client[s].root].expiresAt

\* An artifact never lives longer than its client session and its root,
\* although it is clipped to deadlines that were observed earlier and another
\* process may grant less.
ArtifactsWithinSessions ==
    \A s \in Sessions :
       deadline[s] > 0 =>
          /\ deadline[s] <= client[s].expiresAt
          /\ deadline[s] <= user[client[s].root].expiresAt

\* A root whose revocation was answered stays so, and no client session of it
\* is usable, also one that is opened late from an observation.
RevocationIsFinal ==
    \A r \in acknowledged :
       /\ ~Available(user[r])
       /\ \A s \in Sessions : client[s].root = r => ~Resolvable(s)

\* An operation that begins after the revocation of a root was answered never
\* observes the root, or a client session of it, for use.
NoUseAfterRevocation ==
    \A o \in Ops :
       /\ op[o].root \notin op[o].knew
       /\ op[o].session # NoOne => client[op[o].session].root \notin op[o].knew

\* Sessions only end: a terminated or expired one never stands again, its
\* root and client never change, and its deadline never moves back.
SessionsOnlyEnd ==
    [][/\ \A r \in Roots : user[r].state # "absent" =>
             /\ user'[r].expiresAt = user[r].expiresAt
             /\ user'[r].state \in {user[r].state, "terminated"}
       /\ \A s \in Sessions : client[s].state # "absent" =>
             /\ client'[s].root = client[s].root /\ client'[s].client = client[s].client
             /\ client'[s].expiresAt >= client[s].expiresAt
             /\ client'[s].state \in {client[s].state, "terminated"}
             /\ now >= client[s].expiresAt => client'[s] = client[s]]_vars

Promise == INSTANCE ApplicationSessions WITH
    seen <- {s \in Sessions : client[s].state # "absent"},
    usable <- {s \in Sessions : Resolvable(s)},
    relation <- [s \in Sessions |-> <<client[s].root, client[s].client>>]

\* The kernel implements its promise to the protocols.
ImplementsPromise == Promise!Spec

=============================================================================
