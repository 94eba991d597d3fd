----------------------- MODULE SessionRevocationProofs -----------------------
(***************************************************************************)
(* Proofs about SessionRevocation, for any sessions, clients, batches,     *)
(* page limits and budgets.                                                *)
(*                                                                         *)
(* A capture goes through an index by rank.  The argument is that ranks    *)
(* never shrink while no entry changes its place, so that what the capture *)
(* has passed it has seen (CaptureSound), and that a page holds no more    *)
(* entries than it may, so that nothing lies behind the last one.          *)
(* Beside batches the invariant of the kernel (Inv of SessionKernelProofs) *)
(* holds as it does beside requests, and with it what the kernel promises. *)
(***************************************************************************)
EXTENDS SessionRevocation, SessionKernelProofs, FiniteSetTheorems

Begun(t) == t \in Targets /\ RecordOf(t).state # "absent"
Ended(t) == ~Available(RecordOf(t))

\* What was there is captured, has ended, or is still ahead.
CaptureSound(x) ==
    \A t \in x.watched :
       /\ Begun(t)
       /\ \/ t \in x.targets
          \/ Ended(t)
          \/ t \in Members(x.scope) /\ x.offset <= Rank(x.scope, t)

ExecutionSound(x) ==
    \A t \in x.watched : Begun(t) /\ (t \in x.targets \cup x.unfinished \/ Ended(t))

BatchSound(x) ==
    ~x.moved => /\ x.pc = "capture" => CaptureSound(x)
                /\ x.pc = "execute" => ExecutionSound(x)

RInv == Inv /\ BatchTypeOK /\ \A b \in Batches : BatchSound(batch[b])

BatchType ==
    [pc : {"none", "capture", "execute"}, scope : Scopes \cup {Nothing},
     later : SUBSET Scopes, offset : Nat, targets : SUBSET Targets,
     unfinished : SUBSET Targets, watched : SUBSET Targets, moved : BOOLEAN]

-----------------------------------------------------------------------------
(* Ranks.                                                                  *)

\* A scope is an index of roots, or of client sessions.
LEMMA MemberFacts ==
    ASSUME NEW scope
    PROVE  /\ \/ Members(scope) \subseteq {AUser(r) : r \in {r \in Roots : rootScore[r] > 0}}
              \/ Members(scope) \subseteq {AClient(s) : s \in {s \in Sessions : score[s] > 0}}
           /\ Members(scope) \subseteq Targets
<1>1. CASE scope[1] = "subject"
  <2>1. Members(scope) = {AUser(r) : r \in {r \in Roots : rootScore[r] > 0}}
    BY <1>1 DEF Members
  <2> QED
    BY <2>1 DEF AUser, Targets
<1>2. CASE scope[1] = "client"
  <2>1. Members(scope) \subseteq {AClient(s) : s \in {s \in Sessions : score[s] > 0}}
    BY <1>2 DEF Members
  <2> QED
    BY <2>1 DEF AClient, Targets
<1>3. CASE scope[1] = "children"
  <2>1. Members(scope) \subseteq {AClient(s) : s \in {s \in Sessions : score[s] > 0}}
    BY <1>3 DEF Members
  <2> QED
    BY <2>1 DEF AClient, Targets
<1>4. CASE scope[1] \notin {"subject", "client", "children"}
  <2>1. Members(scope) = {}
    BY <1>4 DEF Members
  <2> QED
    BY <2>1
<1> QED
  BY <1>1, <1>2, <1>3, <1>4

LEMMA MembersFinite == ASSUME NEW scope PROVE IsFiniteSet(Members(scope))
<1>1. IsFiniteSet(Roots) /\ IsFiniteSet(Sessions)
  BY RevocationAssumption
<1>2. ASSUME NEW S, IsFiniteSet(S), NEW k, NEW T \in SUBSET {<<k, r>> : r \in S}
      PROVE  IsFiniteSet(T)
  <2>1. [t \in T |-> t[2]] \in Injection(T, S)
    BY <1>2 DEF Injection, IsInjective
  <2> QED
    BY <1>2, <2>1, FS_Injection
<1>3. CASE Members(scope) \subseteq {AUser(r) : r \in {r \in Roots : rootScore[r] > 0}}
  <2>1. Members(scope) \in SUBSET {<<"user", r>> : r \in Roots}
    BY <1>3 DEF AUser
  <2> QED
    BY <1>1, <1>2, <2>1
<1>4. CASE Members(scope) \subseteq {AClient(s) : s \in {s \in Sessions : score[s] > 0}}
  <2>1. Members(scope) \in SUBSET {<<"client", r>> : r \in Sessions}
    BY <1>4 DEF AClient
  <2> QED
    BY <1>1, <1>2, <2>1
<1> QED
  BY <1>3, <1>4, MemberFacts

\* An index is in order.
LEMMA Ordered ==
    ASSUME TypeOK, NEW scope, NEW t \in Members(scope), NEW u \in Members(scope)
    PROVE  /\ t # u => Precedes(t, u) \/ Precedes(u, t)
           /\ ~Precedes(t, t)
           /\ \A v \in Members(scope) : Precedes(v, t) /\ Precedes(t, u) => Precedes(v, u)
<1>1. ASSUME NEW v \in Members(scope) PROVE Score(v) \in Nat /\ v[2] \in Nat
  BY MemberFacts, RevocationAssumption DEF Score, AUser, AClient, TypeOK
<1>2. t # u => t[2] # u[2]
  BY MemberFacts DEF AUser, AClient
<1> QED
  BY <1>1, <1>2 DEF Precedes

LEMMA RankFacts ==
    ASSUME TypeOK, NEW scope, NEW t \in Members(scope)
    PROVE  /\ Rank(scope, t) \in Nat
           /\ Rank(scope, t) < Cardinality(Members(scope))
           /\ \A u \in Members(scope) : Precedes(t, u) => Rank(scope, t) < Rank(scope, u)
<1>1. IsFiniteSet(Members(scope))
  BY MembersFinite
<1>2. ASSUME NEW S \in SUBSET Members(scope), NEW T \in SUBSET S, NEW v \in S, v \notin T
      PROVE  Cardinality(T) \in Nat /\ Cardinality(T) < Cardinality(S)
  <2>1. IsFiniteSet(S)
    BY <1>1, FS_Subset
  <2>2. IsFiniteSet(T) /\ Cardinality(T) <= Cardinality(S) /\ Cardinality(S) # Cardinality(T)
    BY <1>2, <2>1, FS_Subset
  <2>3. Cardinality(T) \in Nat /\ Cardinality(S) \in Nat
    BY <2>1, <2>2, FS_CardinalityType
  <2> QED
    BY <2>2, <2>3
<1>3. {u \in Members(scope) : Precedes(u, t)} \in SUBSET Members(scope)
  OBVIOUS
<1>4. t \notin {u \in Members(scope) : Precedes(u, t)}
  BY Ordered
<1>5. Rank(scope, t) \in Nat /\ Rank(scope, t) < Cardinality(Members(scope))
  BY <1>2, <1>3, <1>4 DEF Rank
<1>6. ASSUME NEW u \in Members(scope), Precedes(t, u) PROVE Rank(scope, t) < Rank(scope, u)
  <2>1. PICK T, S : /\ T = {v \in Members(scope) : Precedes(v, t)}
                    /\ S = {v \in Members(scope) : Precedes(v, u)}
    OBVIOUS
  <2>2. S \in SUBSET Members(scope) /\ t \in S /\ t \notin T
    BY <1>4, <1>6, <2>1
  <2>3. T \in SUBSET S
    BY <1>6, <2>1, Ordered
  <2> QED
    BY <1>2, <2>1, <2>2, <2>3 DEF Rank
<1> QED
  BY <1>5, <1>6

\* No page has more entries than it may have.
LEMMA PageBounded ==
    ASSUME TypeOK, NEW scope, NEW offset \in Nat
    PROVE  /\ Cardinality(Page(scope, offset)) \in Nat
           /\ Cardinality(Page(scope, offset)) <= PageLimit
<1>1. PICK P : P = Page(scope, offset)
  OBVIOUS
<1>2. P \in SUBSET Members(scope)
  BY <1>1 DEF Page
<1>3. IsFiniteSet(P) /\ Cardinality(P) \in Nat
  BY <1>2, MembersFinite, FS_Subset, FS_CardinalityType
<1>4. PageLimit \in Nat \ {0}
  BY RevocationAssumption
<1>5. PICK I : I = offset..(offset + PageLimit - 1)
  OBVIOUS
<1>6. IsFiniteSet(I) /\ Cardinality(I) = PageLimit
  <2>1. offset \in Int /\ offset + PageLimit - 1 \in Int /\ ~(offset > offset + PageLimit - 1)
    BY <1>4
  <2>2. (offset + PageLimit - 1) - offset + 1 = PageLimit
    BY <1>4
  <2> QED
    BY <1>5, <2>1, <2>2, FS_Interval
<1>7. PICK f : f = [t \in P |-> Rank(scope, t)]
  OBVIOUS
<1>8. f \in [P -> I]
  <2>1. ASSUME NEW t \in P PROVE Rank(scope, t) \in I
    BY <1>1, <1>2, <1>4, <1>5, RankFacts DEF Page
  <2> QED
    BY <1>7, <2>1
<1>9. \A t, u \in P : t # u => f[t] # f[u]
  <2> SUFFICES ASSUME NEW t \in P, NEW u \in P, t # u PROVE f[t] # f[u]
    OBVIOUS
  <2>1. t \in Members(scope) /\ u \in Members(scope)
    BY <1>2
  <2>2. Precedes(t, u) \/ Precedes(u, t)
    BY <2>1, Ordered
  <2>3. /\ Rank(scope, t) \in Nat /\ Rank(scope, u) \in Nat
        /\ Rank(scope, t) < Rank(scope, u) \/ Rank(scope, u) < Rank(scope, t)
    BY <2>1, <2>2, RankFacts
  <2> QED
    BY <1>7, <2>3
<1>10. ~(Cardinality(I) < Cardinality(P))
  BY <1>3, <1>6, <1>8, <1>9, FS_PigeonHole
<1> QED
  BY <1>1, <1>3, <1>4, <1>6, <1>10

\* What the capture has not reached is in the page, or behind it; behind the
\* last page there is nothing.
LEMMA PassedIsSeen ==
    ASSUME TypeOK, NEW scope, NEW offset \in Nat, NEW t \in Members(scope),
           offset <= Rank(scope, t)
    PROVE  /\ \/ t \in Page(scope, offset)
              \/ offset + Cardinality(Page(scope, offset)) <= Rank(scope, t)
           /\ ~HasMore(scope, offset) => t \in Page(scope, offset)
<1>1. Rank(scope, t) \in Nat /\ Rank(scope, t) < Cardinality(Members(scope))
  BY RankFacts
<1>2. /\ Cardinality(Page(scope, offset)) \in Nat
      /\ Cardinality(Page(scope, offset)) <= PageLimit
  BY PageBounded
<1>3. Cardinality(Members(scope)) \in Nat /\ PageLimit \in Nat
  BY MembersFinite, FS_CardinalityType, RevocationAssumption
<1>4. t \in Page(scope, offset) \/ offset + PageLimit <= Rank(scope, t)
  BY <1>1, <1>3 DEF Page
<1> QED
  BY <1>1, <1>2, <1>3, <1>4 DEF HasMore

-----------------------------------------------------------------------------
(* Sessions only end.                                                      *)

\* What began stays, in its indexes' scopes; what ended stays ended.
SessionsGoOn ==
    /\ \A r \in Roots : user[r].state # "absent" =>
          /\ user'[r].state # "absent"
          /\ ~Available(user[r]) => ~Available(user[r])'
    /\ \A s \in Sessions : client[s].state # "absent" =>
          /\ client'[s].state # "absent"
          /\ client'[s].root = client[s].root
          /\ client'[s].client = client[s].client
          /\ ~Available(client[s]) => ~Available(client[s])'

LEMMA EndedStaysEnded ==
    ASSUME SessionsGoOn, NEW t, Begun(t)
    PROVE  Begun(t)' /\ (Ended(t) => Ended(t)')
<1>1. CASE t \in {"user"} \X Roots
  <2>1. PICK r \in Roots : t = <<"user", r>>
    BY <1>1
  <2> QED
    BY <2>1 DEF SessionsGoOn, Begun, Ended, RecordOf, Targets, Available
<1>2. CASE t \in {"client"} \X Sessions
  <2>1. PICK s \in Sessions : t = <<"client", s>>
    BY <1>2
  <2> QED
    BY <2>1 DEF SessionsGoOn, Begun, Ended, RecordOf, Targets, Available
<1> QED
  BY <1>1, <1>2 DEF Begun, Targets

LEMMA SessionsGoOnInSteps ==
    ASSUME Inv, RecordsStep
    PROVE  SessionsGoOn
<1>1. now \in Nat /\ now' \in Nat /\ now <= now'
  <2>1. now \in Nat /\ (now' = now \/ now' = now + 1)
    BY OpensOnRecords DEF RecordsStep, Tick, Creates, Opens, Revokes, Inv, TypeOK
  <2> QED
    BY <2>1
<1>2. ASSUME NEW r \in Roots, user[r].state # "absent"
      PROVE  user'[r].state # "absent" /\ (~Available(user[r]) => ~Available(user[r])')
  <2>1. user[r].expiresAt \in Nat
    BY DEF Inv, TypeOK
  <2>2. RootOnlyEnds(r)
    BY StepOnlyEnds
  <2> QED
    BY <1>1, <1>2, <2>1, <2>2 DEF RootOnlyEnds, Available
<1>3. ASSUME NEW s \in Sessions, client[s].state # "absent"
      PROVE  /\ client'[s].state # "absent"
             /\ client'[s].root = client[s].root /\ client'[s].client = client[s].client
             /\ ~Available(client[s]) => ~Available(client[s])'
  <2>1. client[s].expiresAt \in Nat
    BY DEF Inv, TypeOK
  <2>2. SessionOnlyEnds(s)
    BY StepOnlyEnds
  <2> QED
    BY <1>1, <1>3, <2>1, <2>2 DEF SessionOnlyEnds, Available
<1> QED
  BY <1>2, <1>3 DEF SessionsGoOn

LEMMA StandingGoesOn ==
    ASSUME Inv, UNCHANGED keys, UNCHANGED requests
    PROVE  Inv' /\ RecordsStep
<1>1. UNCHANGED vars
  BY DEF keys, requests, vars
<1>2. Inv'
  BY <1>1, NextKeepsInv
<1> QED
  BY <1>1, <1>2 DEF vars, RecordsStep, Leaves

\* A target whose record is gone is left as it is.
LEMMA RevokingGoesOn ==
    ASSUME Inv, NEW t \in Targets, Revoke(t), UNCHANGED requests
    PROVE  Inv' /\ RecordsStep /\ Ended(t)'
<1>1. /\ acknowledged' = acknowledged /\ now' = now
      /\ UNCHANGED <<now, deadline, op>>
  BY DEF requests
<1>2. RecordsStep
  BY <1>1 DEF RecordsStep, Revokes
<1>3. Inv'
  <2>1. CASE Present(RecordOf(t))
    BY <1>1, <2>1, RevokeKeepsInv
  <2>2. CASE ~Present(RecordOf(t))
    <3>1. ~Available(RecordOf(t))
      <4>1. RecordOf(t).expiresAt \in Nat /\ now \in Nat
        BY DEF RecordOf, Targets, Inv, TypeOK
      <4> QED
        BY <2>2, <4>1 DEF Present, Available
    <3>2. UNCHANGED keys
      <4>1. (t[1] = "user" => ~Available(user[t[2]])) /\ (t[1] = "client" => ~Available(client[t[2]]))
        BY <3>1 DEF RecordOf
      <4>2. UNCHANGED <<user, client>>
        BY <4>1 DEF Revoke, Revoked
      <4>3. UNCHANGED <<slot, rootScore, score>>
        BY <3>1 DEF Revoke, Inv, TypeOK
      <4> QED
        BY <4>2, <4>3 DEF keys
    <3> QED
      BY <3>2, StandingGoesOn
  <2> QED
    BY <2>1, <2>2
<1>4. Ended(t)'
  <2>1. ASSUME NEW r \in Roots, t = AUser(r) PROVE ~Available(user[r])'
    BY <1>1, <2>1, RevokeEffect DEF Inv, Available
  <2>2. ASSUME NEW s \in Sessions, t = AClient(s) PROVE ~Available(client[s])'
    BY <1>1, <2>2, RevokeEffect DEF Inv, Available
  <2> QED
    BY <2>1, <2>2 DEF Ended, RecordOf, Targets, AUser, AClient, Available
<1> QED
  BY <1>2, <1>3, <1>4

LEMMA KernelGoesOn ==
    ASSUME Inv, KernelStep
    PROVE  Inv' /\ RecordsStep
<1>1. CASE Tick
  BY <1>1, TickKeepsInv DEF RecordsStep, Leaves, Tick, keys
<1>2. ASSUME NEW r \in Roots, WriteRoot(r), UNCHANGED requests
      PROVE  Inv' /\ RecordsStep
  BY <1>2, RootKeepsInv DEF requests, RecordsStep, Creates, WriteRoot
<1>3. ASSUME NEW r \in Roots, NEW c \in Clients, NEW s \in Sessions, NEW ttl \in ClientTtls,
             Renew(r, c, s, ttl) \/ OpenNew(r, c, s, ttl), UNCHANGED requests
      PROVE  Inv' /\ RecordsStep
  <2>1. UNCHANGED <<now, deadline, op, acknowledged>>
    BY <1>3 DEF requests
  <2>2. Inv'
    BY <1>3, <2>1, WritingKeepsInv
  <2> QED
    BY <1>3, <2>1, <2>2 DEF RecordsStep, Opens
<1> QED
  BY <1>1, <1>2, <1>3, RevokingGoesOn DEF KernelStep

-----------------------------------------------------------------------------
(* While nothing moves, ranks never shrink.                                *)

LEMMA TargetsFinite == IsFiniteSet(Targets)
<1>1. IsFiniteSet({"user"} \X Roots) /\ IsFiniteSet({"client"} \X Sessions)
  BY RevocationAssumption, FS_Singleton, FS_Product
<1> QED
  BY <1>1, FS_Union DEF Targets

LEMMA MembersStay ==
    ASSUME Inv, SessionsGoOn, ~Reorders, NEW scope, NEW t \in Members(scope)
    PROVE  t \in Members(scope)' /\ Score(t)' = Score(t)
<1>1. /\ \A r \in Roots : rootScore[r] > 0 => rootScore'[r] = rootScore[r]
      /\ \A s \in Sessions : score[s] > 0 =>
            /\ score'[s] = score[s]
            /\ client'[s].root = client[s].root /\ client'[s].client = client[s].client
  BY DEF Reorders, SessionsGoOn, Inv, ScoresSound
<1>2. CASE scope[1] = "subject"
  <2>1. PICK r \in Roots : t = AUser(r) /\ rootScore[r] > 0
    BY <1>2 DEF Members
  <2>2. rootScore'[r] = rootScore[r]
    BY <1>1, <2>1
  <2> QED
    BY <1>2, <2>1, <2>2 DEF Members, Score, AUser
<1>3. CASE scope[1] \in {"client", "children"}
  <2>1. PICK s \in Sessions : /\ t = AClient(s) /\ score[s] > 0
                              /\ scope[1] = "client" => client[s].client = scope[2]
                              /\ scope[1] = "children" => client[s].root = scope[2]
    BY <1>3 DEF Members
  <2>2. /\ score'[s] = score[s]
        /\ client'[s].root = client[s].root /\ client'[s].client = client[s].client
    BY <1>1, <2>1
  <2>3. CASE scope[1] = "client"
    BY <2>1, <2>2, <2>3 DEF Members, Score, AClient
  <2>4. CASE scope[1] = "children"
    BY <2>1, <2>2, <2>4 DEF Members, Score, AClient
  <2> QED
    BY <1>3, <2>3, <2>4
<1>4. CASE scope[1] \notin {"subject", "client", "children"}
  BY <1>4 DEF Members
<1> QED
  BY <1>2, <1>3, <1>4

LEMMA RankGrows ==
    ASSUME Inv, SessionsGoOn, ~Reorders, NEW scope, NEW t \in Members(scope)
    PROVE  /\ t \in Members(scope)'
           /\ Rank(scope, t) \in Nat /\ Rank(scope, t)' \in Nat
           /\ Rank(scope, t) <= Rank(scope, t)'
<1>1. t \in Members(scope)' /\ Score(t)' = Score(t)
  BY MembersStay
<1>2. PICK S : S = {u \in Members(scope) : Precedes(u, t)}
  OBVIOUS
<1>3. PICK T : T = {u \in Members(scope)' : Precedes(u, t)'}
  OBVIOUS
<1>4. S \subseteq T
  <2> SUFFICES ASSUME NEW u \in S PROVE u \in T
    OBVIOUS
  <2>1. u \in Members(scope) /\ Precedes(u, t)
    BY <1>2
  <2>2. u \in Members(scope)' /\ Score(u)' = Score(u)
    BY <2>1, MembersStay
  <2>3. Precedes(u, t)'
    BY <1>1, <2>1, <2>2 DEF Precedes
  <2> QED
    BY <1>3, <2>2, <2>3
<1>5. Members(scope)' \subseteq Targets
  BY DEF Members, Targets, AUser, AClient
<1>6. IsFiniteSet(T)
  <2>1. T \subseteq Targets
    BY <1>3, <1>5
  <2> QED
    BY <2>1, TargetsFinite, FS_Subset
<1>7. IsFiniteSet(S) /\ Cardinality(S) <= Cardinality(T)
  BY <1>4, <1>6, FS_Subset
<1>8. Cardinality(S) \in Nat /\ Cardinality(T) \in Nat
  BY <1>6, <1>7, FS_CardinalityType
<1>9. Rank(scope, t) = Cardinality(S) /\ Rank(scope, t)' = Cardinality(T)
  BY <1>2, <1>3 DEF Rank
<1> QED
  BY <1>1, <1>7, <1>8, <1>9

\* A batch that does not act keeps its argument beside a step of the kernel.
LEMMA BatchGoesOn ==
    ASSUME Inv, SessionsGoOn, NEW x \in BatchType, BatchSound(x),
           NEW y \in BatchType,
           y.pc = x.pc, y.scope = x.scope, y.offset = x.offset, y.watched = x.watched,
           y.targets = x.targets, y.unfinished = x.unfinished,
           x.moved => y.moved,
           x.pc = "capture" /\ Reorders => y.moved
    PROVE  BatchSound(y)'
<1> SUFFICES ASSUME ~y.moved
             PROVE  /\ x.pc = "capture" => CaptureSound(y)'
                    /\ x.pc = "execute" => ExecutionSound(y)'
  BY DEF BatchSound
<1>1. ~x.moved
  OBVIOUS
<1>2. ASSUME x.pc = "capture", NEW t \in x.watched
      PROVE  /\ Begun(t)'
             /\ \/ t \in x.targets
                \/ Ended(t)'
                \/ t \in Members(x.scope)' /\ x.offset <= Rank(x.scope, t)'
  <2>1. Begun(t)
    BY <1>1, <1>2 DEF BatchSound, CaptureSound
  <2>2. Begun(t)' /\ (Ended(t) => Ended(t)')
    BY <2>1, EndedStaysEnded
  <2>3. ASSUME t \in Members(x.scope), x.offset <= Rank(x.scope, t)
        PROVE  t \in Members(x.scope)' /\ x.offset <= Rank(x.scope, t)'
    <3>1. ~Reorders
      BY <1>2
    <3>2. /\ t \in Members(x.scope)'
          /\ Rank(x.scope, t) \in Nat /\ Rank(x.scope, t)' \in Nat
          /\ Rank(x.scope, t) <= Rank(x.scope, t)'
      BY <2>3, <3>1, RankGrows
    <3>3. x.offset \in Nat
      BY DEF BatchType
    <3> QED
      BY <2>3, <3>2, <3>3
  <2>4. t \in x.targets \/ Ended(t) \/ (t \in Members(x.scope) /\ x.offset <= Rank(x.scope, t))
    BY <1>1, <1>2 DEF BatchSound, CaptureSound
  <2> QED
    BY <2>2, <2>3, <2>4
<1>3. ASSUME x.pc = "execute", NEW t \in x.watched
      PROVE  Begun(t)' /\ (t \in x.targets \cup x.unfinished \/ Ended(t)')
  <2>1. Begun(t) /\ (t \in x.targets \cup x.unfinished \/ Ended(t))
    BY <1>1, <1>3 DEF BatchSound, ExecutionSound
  <2> QED
    BY <2>1, EndedStaysEnded
<1> QED
  BY <1>2, <1>3 DEF CaptureSound, ExecutionSound

-----------------------------------------------------------------------------
(* The memory of one batch.                                                *)

Shaped(x) ==
    /\ x \in BatchType
    /\ (x.pc = "capture") <=> (x.scope # Nothing)
    /\ x.pc = "capture" => x.unfinished = {}

LEMMA ShapeFacts ==
    /\ BatchTypeOK <=> (batch \in [Batches -> BatchType] /\ \A b \in Batches : Shaped(batch[b]))
    /\ BatchTypeOK' <=> (batch' \in [Batches -> BatchType] /\ \A b \in Batches : Shaped(batch'[b]))
BY DEF BatchTypeOK, BatchType, Shaped

LEMMA ScopeFacts == Nothing \notin Scopes
BY DEF Nothing, Scopes, Subject, OfClient, ChildrenOf

LEMMA MemoryKeepsRInv ==
    ASSUME RInv, UNCHANGED vars, NEW b \in Batches, NEW x, Shaped(x), BatchSound(x),
           batch' = [batch EXCEPT ![b] = x]
    PROVE  RInv'
<1>1. Inv' /\ SessionsGoOn
  BY StandingGoesOn, SessionsGoOnInSteps DEF RInv, vars, keys, requests
<1>2. ~Reorders
  BY DEF Reorders, vars
<1>3. batch \in [Batches -> BatchType] /\ \A a \in Batches : Shaped(batch[a])
  BY ShapeFacts DEF RInv
<1>4. x \in BatchType
  BY DEF Shaped
<1>5. /\ batch' \in [Batches -> BatchType]
      /\ \A a \in Batches : batch'[a] = IF a = b THEN x ELSE batch[a]
  BY <1>3, <1>4
<1>6. BatchTypeOK'
  BY <1>3, <1>5, ShapeFacts
<1>7. ASSUME NEW a \in Batches PROVE BatchSound(batch[a])'
  <2>1. PICK y : y = batch'[a]
    OBVIOUS
  <2>2. y \in BatchType /\ BatchSound(y)
    BY <1>3, <1>4, <1>5, <2>1 DEF RInv
  <2>3. BatchSound(y)'
    BY <1>1, <1>2, <2>2, BatchGoesOn DEF RInv
  <2> QED
    BY <2>1, <2>3 DEF BatchSound, CaptureSound, ExecutionSound
<1> QED
  BY <1>1, <1>6, <1>7 DEF RInv

\* What the last page leaves behind, or the captured records, are dead.
LEMMA SeenFacts ==
    ASSUME Inv, NEW x \in BatchType, CaptureSound(x), NEW t \in x.watched
    PROVE  /\ Begun(t)
           /\ \/ t \in Captured(x)
              \/ Ended(t)
              \/ /\ HasMore(x.scope, x.offset)
                 /\ t \in Members(x.scope)
                 /\ x.offset + Cardinality(Page(x.scope, x.offset)) <= Rank(x.scope, t)
<1>1. Begun(t) /\ (t \in x.targets \/ Ended(t) \/ (t \in Members(x.scope) /\ x.offset <= Rank(x.scope, t)))
  BY DEF CaptureSound
<1>2. ASSUME t \in Page(x.scope, x.offset) PROVE t \in Captured(x) \/ Ended(t)
  <2>1. CASE Present(RecordOf(t))
    BY <1>2, <2>1 DEF Captured, Records
  <2>2. CASE ~Present(RecordOf(t))
    <3>1. RecordOf(t).expiresAt \in Nat /\ now \in Nat
      BY <1>1 DEF Begun, Targets, RecordOf, Inv, TypeOK
    <3> QED
      BY <2>2, <3>1 DEF Present, Ended, Available
  <2> QED
    BY <2>1, <2>2
<1>3. x.offset \in Nat /\ TypeOK
  BY DEF BatchType, Inv
<1>4. CASE t \in Members(x.scope) /\ x.offset <= Rank(x.scope, t)
  <2>1. /\ \/ t \in Page(x.scope, x.offset)
           \/ x.offset + Cardinality(Page(x.scope, x.offset)) <= Rank(x.scope, t)
        /\ ~HasMore(x.scope, x.offset) => t \in Page(x.scope, x.offset)
    BY <1>3, <1>4, PassedIsSeen
  <2> QED
    BY <1>1, <1>2, <1>4, <2>1
<1>5. t \in x.targets => t \in Captured(x)
  BY DEF Captured
<1> QED
  BY <1>1, <1>4, <1>5

LEMMA CapturedTyped ==
    ASSUME NEW x \in BatchType
    PROVE  Captured(x) \in SUBSET Targets
<1>1. Members(x.scope) \subseteq Targets
  BY MemberFacts
<1> QED
  BY <1>1 DEF Captured, Records, Page, BatchType

\* A capture begins.
LEMMA CapturingSound ==
    ASSUME Inv, NEW scope \in Scopes, NEW later \in SUBSET Scopes,
           NEW targets \in SUBSET Targets, NEW W \in SUBSET Targets, NEW m \in BOOLEAN,
           ~m => \A t \in W : Begun(t) /\ (t \in targets \/ Ended(t)),
           NEW y,
           y = [pc |-> "capture", scope |-> scope, later |-> later, offset |-> 0,
                targets |-> targets, unfinished |-> {},
                watched |-> W \cup Living(scope), moved |-> m]
    PROVE  Shaped(y) /\ BatchSound(y)
<1>1. Living(scope) \in SUBSET Targets
  BY MemberFacts DEF Living
<1>2. y \in BatchType
  BY <1>1 DEF BatchType
<1>3. Shaped(y)
  BY <1>2, ScopeFacts DEF Shaped
<1>4. ASSUME ~m, NEW t \in y.watched
      PROVE  Begun(t) /\ (t \in targets \/ Ended(t) \/ (t \in Members(scope) /\ 0 <= Rank(scope, t)))
  <2>1. CASE t \in W
    BY <1>4, <2>1
  <2>2. CASE t \in Living(scope)
    <3>1. t \in Members(scope) /\ Available(RecordOf(t))
      BY <2>2 DEF Living
    <3>2. Rank(scope, t) \in Nat
      BY <3>1, RankFacts DEF Inv
    <3> QED
      BY <1>1, <2>2, <3>1, <3>2 DEF Begun, Available
  <2> QED
    BY <1>4, <2>1, <2>2
<1> QED
  BY <1>3, <1>4 DEF BatchSound, CaptureSound

LEMMA AfterSound ==
    ASSUME Inv, NEW x \in BatchType, x.unfinished = {},
           NEW targets \in SUBSET Targets, NEW later \in SUBSET Scopes,
           ~x.moved => \A t \in x.watched : Begun(t) /\ (t \in targets \/ Ended(t)),
           NEW y, y = After(x, targets, later)
    PROVE  Shaped(y) /\ BatchSound(y)
<1>1. CASE later = {}
  <2>1. y = [x EXCEPT !.pc = "execute", !.targets = targets,
                      !.scope = Nothing, !.later = {}, !.offset = 0]
    BY <1>1 DEF After
  <2>2. y = [pc |-> "execute", scope |-> Nothing, later |-> {}, offset |-> 0,
             targets |-> targets, unfinished |-> x.unfinished,
             watched |-> x.watched, moved |-> x.moved]
    BY <2>1 DEF BatchType
  <2>3. y \in BatchType
    BY <2>2 DEF BatchType
  <2> QED
    BY <2>2, <2>3 DEF Shaped, BatchSound, ExecutionSound
<1>2. CASE later # {}
  <2>1. PICK next : next = CHOOSE s \in later : TRUE
    OBVIOUS
  <2>2. next \in later /\ next \in Scopes
    BY <1>2, <2>1
  <2>3. PICK z : z = Capturing(x, next)
    OBVIOUS
  <2>4. z = [pc |-> "capture", scope |-> next, later |-> x.later, offset |-> 0,
             targets |-> x.targets, unfinished |-> x.unfinished,
             watched |-> x.watched \cup Living(next), moved |-> x.moved]
    BY <2>3 DEF Capturing, BatchType
  <2>5. y = [z EXCEPT !.targets = targets, !.later = later \ {next}]
    BY <1>2, <2>1, <2>3 DEF After
  <2>6. y = [pc |-> "capture", scope |-> next, later |-> later \ {next}, offset |-> 0,
             targets |-> targets, unfinished |-> {},
             watched |-> x.watched \cup Living(next), moved |-> x.moved]
    BY <2>4, <2>5
  <2>7. x.watched \in SUBSET Targets /\ x.moved \in BOOLEAN /\ later \ {next} \in SUBSET Scopes
    BY DEF BatchType
  <2> QED
    BY <2>2, <2>6, <2>7, CapturingSound
<1> QED
  BY <1>1, <1>2

-----------------------------------------------------------------------------
(* The capture.                                                            *)

\* A capture that begins with nothing seen, or with a root at hand.
LEMMA BeginsSound ==
    ASSUME Inv, NEW scope \in Scopes, NEW targets \in SUBSET Targets, NEW y,
           y = [Capturing(NoBatch, scope) EXCEPT !.targets = targets]
    PROVE  Shaped(y) /\ BatchSound(y)
<1>1. PICK z : z = Capturing(NoBatch, scope)
  OBVIOUS
<1>2. z = [pc |-> "capture", scope |-> scope, later |-> {}, offset |-> 0,
           targets |-> {}, unfinished |-> {},
           watched |-> {} \cup Living(scope), moved |-> FALSE]
  BY <1>1 DEF Capturing, NoBatch
<1>3. y = [z EXCEPT !.targets = targets]
  BY <1>1
<1>4. y = [pc |-> "capture", scope |-> scope, later |-> {}, offset |-> 0,
           targets |-> targets, unfinished |-> {},
           watched |-> {} \cup Living(scope), moved |-> FALSE]
  BY <1>2, <1>3
<1>5. {} \in SUBSET Targets /\ {} \in SUBSET Scopes /\ FALSE \in BOOLEAN
  OBVIOUS
<1> QED
  BY <1>4, <1>5, CapturingSound

LEMMA BeginKeepsRInv ==
    ASSUME RInv, NEW b \in Batches,
           \/ \E c \in Clients : RevokeClientSessions(b, c)
           \/ \E r \in Roots : RevokePrincipalSession(b, r)
           \/ RevokeUserSessions(b)
    PROVE  RInv'
<1>0. Inv
  BY DEF RInv
<1>1. ASSUME NEW scope \in Scopes, UNCHANGED vars,
             batch' = [batch EXCEPT ![b] = Capturing(NoBatch, scope)]
      PROVE  RInv'
  <2>1. PICK y : y = Capturing(NoBatch, scope)
    OBVIOUS
  <2>2. y = [pc |-> "capture", scope |-> scope, later |-> {}, offset |-> 0,
             targets |-> {}, unfinished |-> {},
             watched |-> {} \cup Living(scope), moved |-> FALSE]
    BY <2>1 DEF Capturing, NoBatch
  <2>3. {} \in SUBSET Targets /\ {} \in SUBSET Scopes /\ FALSE \in BOOLEAN
    OBVIOUS
  <2>4. Shaped(y) /\ BatchSound(y)
    BY <1>0, <2>2, <2>3, CapturingSound
  <2> QED
    BY <1>1, <2>1, <2>4, MemoryKeepsRInv
<1>2. ASSUME NEW r \in Roots, RevokePrincipalSession(b, r) PROVE RInv'
  <2>1. PICK y : y = [Capturing(NoBatch, ChildrenOf(r)) EXCEPT !.targets = Records({AUser(r)})]
    OBVIOUS
  <2>2. Records({AUser(r)}) \in SUBSET Targets /\ ChildrenOf(r) \in Scopes
    BY DEF Records, Targets, AUser, Scopes
  <2>3. Shaped(y) /\ BatchSound(y)
    BY <1>0, <2>1, <2>2, BeginsSound
  <2> QED
    BY <1>2, <2>1, <2>3, MemoryKeepsRInv DEF RevokePrincipalSession
<1>3. ASSUME NEW c \in Clients, RevokeClientSessions(b, c) PROVE RInv'
  BY <1>1, <1>3 DEF RevokeClientSessions, Scopes
<1>4. CASE RevokeUserSessions(b)
  BY <1>1, <1>4 DEF RevokeUserSessions, Scopes
<1> QED
  BY <1>2, <1>3, <1>4

LEMMA NextPageKeepsRInv ==
    ASSUME RInv, NEW b \in Batches, NextPage(b)
    PROVE  RInv'
<1>1. PICK x : x = batch[b]
  OBVIOUS
<1>2. Inv /\ x \in BatchType /\ Shaped(x) /\ BatchSound(x)
  BY <1>1, ShapeFacts DEF RInv
<1>3. PICK y : y = [x EXCEPT !.targets = Captured(x),
                             !.offset = x.offset + Cardinality(Page(x.scope, x.offset))]
  OBVIOUS
<1>4. /\ x.pc = "capture" /\ UNCHANGED vars
      /\ batch' = [batch EXCEPT ![b] = y]
  BY <1>1, <1>2, <1>3 DEF NextPage, BatchType
<1>5. Captured(x) \in SUBSET Targets
  BY <1>2, CapturedTyped
<1>6. x.offset \in Nat /\ Cardinality(Page(x.scope, x.offset)) \in Nat
  BY <1>2, PageBounded DEF BatchType, Inv
<1>7. y = [pc |-> x.pc, scope |-> x.scope, later |-> x.later,
           offset |-> x.offset + Cardinality(Page(x.scope, x.offset)),
           targets |-> Captured(x), unfinished |-> x.unfinished,
           watched |-> x.watched, moved |-> x.moved]
  BY <1>2, <1>3 DEF BatchType
<1>8. y \in BatchType
  BY <1>2, <1>5, <1>6, <1>7 DEF BatchType
<1>9. Shaped(y)
  BY <1>2, <1>7, <1>8 DEF Shaped
<1>10. BatchSound(y)
  BY <1>2, <1>4, <1>7, SeenFacts DEF BatchSound, CaptureSound
<1> QED
  BY <1>4, <1>9, <1>10, MemoryKeepsRInv

LEMMA LastPageKeepsRInv ==
    ASSUME RInv, NEW b \in Batches, LastPage(b)
    PROVE  RInv'
<1>1. PICK x : x = batch[b]
  OBVIOUS
<1>2. Inv /\ x \in BatchType /\ Shaped(x) /\ BatchSound(x)
  BY <1>1, ShapeFacts DEF RInv
<1>3. PICK y : y = After(x, Captured(x), x.later)
  OBVIOUS
<1>4. /\ x.pc = "capture" /\ ~HasMore(x.scope, x.offset) /\ UNCHANGED vars
      /\ batch' = [batch EXCEPT ![b] = y]
  BY <1>1, <1>3 DEF LastPage
<1>5. Captured(x) \in SUBSET Targets /\ x.later \in SUBSET Scopes /\ x.unfinished = {}
  BY <1>2, <1>4, CapturedTyped DEF BatchType, Shaped
<1>6. ~x.moved => \A t \in x.watched : Begun(t) /\ (t \in Captured(x) \/ Ended(t))
  BY <1>2, <1>4, SeenFacts DEF BatchSound
<1>7. Shaped(y) /\ BatchSound(y)
  BY <1>2, <1>3, <1>5, <1>6, AfterSound
<1> QED
  BY <1>4, <1>7, MemoryKeepsRInv

LEMMA LastPageOfRootsKeepsRInv ==
    ASSUME RInv, NEW b \in Batches, NEW chosen \in SUBSET {AUser(r) : r \in Roots}, NEW kept,
           LastPageOfRoots(b, chosen, kept)
    PROVE  RInv'
<1>1. PICK x : x = batch[b]
  OBVIOUS
<1>2. Inv /\ x \in BatchType /\ Shaped(x) /\ BatchSound(x)
  BY <1>1, ShapeFacts DEF RInv
<1>3. PICK spared : spared = (Captured(x) \ chosen) \cup {AUser(kept)}
  OBVIOUS
<1>4. PICK w : w = [x EXCEPT !.watched = x.watched \ spared]
  OBVIOUS
<1>5. PICK y : y = After(w, chosen \ spared, {ChildrenOf(t[2]) : t \in chosen})
  OBVIOUS
<1>6. [x EXCEPT !.watched = @ \ spared] = w
  BY <1>2, <1>4 DEF BatchType
<1>7. /\ x.pc = "capture" /\ ~HasMore(x.scope, x.offset) /\ UNCHANGED vars
      /\ batch' = [batch EXCEPT ![b] = y]
  BY <1>1, <1>3, <1>5, <1>6 DEF LastPageOfRoots
<1>8. w = [pc |-> x.pc, scope |-> x.scope, later |-> x.later, offset |-> x.offset,
           targets |-> x.targets, unfinished |-> x.unfinished,
           watched |-> x.watched \ spared, moved |-> x.moved]
  BY <1>2, <1>4 DEF BatchType
<1>9. w \in BatchType /\ w.unfinished = {}
  BY <1>2, <1>7, <1>8 DEF BatchType, Shaped
<1>10. chosen \ spared \in SUBSET Targets /\ {ChildrenOf(t[2]) : t \in chosen} \in SUBSET Scopes
  BY DEF Targets, AUser, Scopes
<1>11. ~x.moved => \A t \in x.watched : Begun(t) /\ (t \in Captured(x) \/ Ended(t))
  BY <1>2, <1>7, SeenFacts DEF BatchSound
<1>12. ~w.moved => \A t \in w.watched : Begun(t) /\ (t \in chosen \ spared \/ Ended(t))
  BY <1>3, <1>8, <1>11
<1>13. Shaped(y) /\ BatchSound(y)
  BY <1>2, <1>5, <1>9, <1>10, <1>12, AfterSound
<1> QED
  BY <1>7, <1>13, MemoryKeepsRInv

LEMMA NoBatchSound == Shaped(NoBatch) /\ BatchSound(NoBatch)
<1>1. NoBatch \in BatchType
  BY DEF NoBatch, BatchType
<1> QED
  BY <1>1 DEF Shaped, BatchSound, NoBatch

LEMMA IdleKeepsRInv ==
    ASSUME RInv, NEW b \in Batches, GiveUpCapture(b) \/ EndBatch(b) \/ RetryUnfinished(b)
    PROVE  RInv'
<1>1. CASE GiveUpCapture(b) \/ EndBatch(b)
  <2>1. PICK y : y = NoBatch
    OBVIOUS
  <2>2. batch' = [batch EXCEPT ![b] = y] /\ UNCHANGED vars
    BY <1>1, <2>1 DEF GiveUpCapture, EndBatch
  <2> QED
    BY <2>1, <2>2, NoBatchSound, MemoryKeepsRInv
<1>2. CASE RetryUnfinished(b)
  <2>1. PICK x : x = batch[b]
    OBVIOUS
  <2>2. x \in BatchType /\ Shaped(x) /\ BatchSound(x)
    BY <2>1, ShapeFacts DEF RInv
  <2>3. PICK y : y = [pc |-> x.pc, scope |-> x.scope, later |-> x.later, offset |-> x.offset,
                      targets |-> x.unfinished, unfinished |-> {},
                      watched |-> x.watched, moved |-> x.moved]
    OBVIOUS
  <2>4. /\ batch' = [batch EXCEPT ![b] = y] /\ UNCHANGED vars
        /\ x.pc = "execute" /\ x.targets = {}
    <3>0. PICK u : u = x.unfinished
      OBVIOUS
    <3>1. PICK z : z = [x EXCEPT !.targets = u, !.unfinished = {}]
      OBVIOUS
    <3>2. z = y
      <4>1. z = [pc |-> x.pc, scope |-> x.scope, later |-> x.later, offset |-> x.offset,
                 targets |-> u, unfinished |-> {},
                 watched |-> x.watched, moved |-> x.moved]
        BY <2>2, <3>1 DEF BatchType
      <4> QED
        BY <2>3, <3>0, <4>1
    <3>3. batch' = [batch EXCEPT ![b] = [batch[b] EXCEPT !.targets = batch[b].unfinished,
                                                         !.unfinished = {}]]
      BY <1>2 DEF RetryUnfinished
    <3> QED
      BY <1>2, <2>1, <3>0, <3>1, <3>2, <3>3 DEF RetryUnfinished
  <2>5. y \in BatchType
    BY <2>2, <2>3 DEF BatchType
  <2>6. Shaped(y)
    BY <2>2, <2>3, <2>4, <2>5 DEF Shaped
  <2>7. BatchSound(y)
    BY <2>2, <2>3, <2>4 DEF BatchSound, ExecutionSound
  <2> QED
    BY <2>4, <2>6, <2>7, MemoryKeepsRInv
<1> QED
  BY <1>1, <1>2

-----------------------------------------------------------------------------
(* The execution, and the steps beside it.                                 *)

LEMMA AlongsideFacts ==
    ASSUME NEW bs \in [Batches -> BatchType], Alongside(bs)
    PROVE  /\ batch' \in [Batches -> BatchType]
           /\ \A a \in Batches :
                 /\ batch'[a].pc = bs[a].pc /\ batch'[a].scope = bs[a].scope
                 /\ batch'[a].offset = bs[a].offset /\ batch'[a].watched = bs[a].watched
                 /\ batch'[a].targets = bs[a].targets /\ batch'[a].unfinished = bs[a].unfinished
                 /\ bs[a].moved => batch'[a].moved
                 /\ bs[a].pc = "capture" /\ Reorders => batch'[a].moved
                 /\ batch'[a].moved => bs[a].moved \/ bs[a].pc = "capture"
<1>1. ASSUME NEW a \in Batches
      PROVE  /\ batch'[a] \in BatchType
             /\ batch'[a].pc = bs[a].pc /\ batch'[a].scope = bs[a].scope
             /\ batch'[a].offset = bs[a].offset /\ batch'[a].watched = bs[a].watched
             /\ batch'[a].targets = bs[a].targets /\ batch'[a].unfinished = bs[a].unfinished
             /\ bs[a].moved => batch'[a].moved
             /\ bs[a].pc = "capture" /\ Reorders => batch'[a].moved
             /\ batch'[a].moved => bs[a].moved \/ bs[a].pc = "capture"
  <2>1. PICK x \in BatchType : x = bs[a]
    OBVIOUS
  <2>2. PICK m : m = (x.moved \/ (x.pc = "capture" /\ Reorders))
    OBVIOUS
  <2>3. m \in BOOLEAN
    BY <2>2, Zenon
  <2>4. /\ x.moved => m
        /\ x.pc = "capture" /\ Reorders => m
        /\ m => x.moved \/ x.pc = "capture"
    BY <2>2, Zenon
  <2>5. PICK y : y = [x EXCEPT !.moved = m]
    OBVIOUS
  <2>6. y = [pc |-> x.pc, scope |-> x.scope, later |-> x.later, offset |-> x.offset,
             targets |-> x.targets, unfinished |-> x.unfinished,
             watched |-> x.watched, moved |-> m]
    BY <2>5 DEF BatchType
  <2>7. y \in BatchType
    BY <2>3, <2>6 DEF BatchType
  <2>8. batch'[a] = [x EXCEPT !.moved = x.moved \/ (x.pc = "capture" /\ Reorders)]
    BY <2>1 DEF Alongside, BatchType
  <2>9. batch'[a] = y
    BY <2>2, <2>5, <2>8, Zenon
  <2> QED
    BY <2>1, <2>4, <2>6, <2>7, <2>9
<1>2. batch' = [a \in Batches |-> batch'[a]]
  BY DEF Alongside
<1> QED
  BY <1>1, <1>2

LEMMA KernelKeepsRInv ==
    ASSUME RInv, KernelStep, Alongside(batch)
    PROVE  RInv'
<1>1. Inv' /\ SessionsGoOn
  BY KernelGoesOn, SessionsGoOnInSteps DEF RInv
<1>2. PICK bs : bs = batch
  OBVIOUS
<1>3. bs \in [Batches -> BatchType] /\ \A a \in Batches : Shaped(bs[a]) /\ BatchSound(bs[a])
  BY <1>2, ShapeFacts DEF RInv
<1>4. Alongside(bs)
  BY <1>2
<1>5. ASSUME NEW a \in Batches PROVE Shaped(batch'[a]) /\ BatchSound(batch[a])'
  <2>1. PICK y : y = batch'[a]
    OBVIOUS
  <2>2. y \in BatchType /\ Shaped(y)
    BY <1>3, <1>4, <2>1, AlongsideFacts DEF Shaped
  <2>3. BatchSound(y)'
    <3>1. PICK x \in BatchType : x = bs[a]
      BY <1>3
    <3>2. BatchSound(x)
      BY <1>3, <3>1
    <3>3. /\ y.pc = x.pc /\ y.scope = x.scope /\ y.offset = x.offset
          /\ y.watched = x.watched /\ y.targets = x.targets /\ y.unfinished = x.unfinished
          /\ x.moved => y.moved
          /\ x.pc = "capture" /\ Reorders => y.moved
      BY <1>3, <1>4, <2>1, <3>1, AlongsideFacts
    <3>4. Inv
      BY DEF RInv
    <3> QED
      BY <1>1, <2>2, <3>2, <3>3, <3>4, BatchGoesOn
  <2> QED
    BY <2>1, <2>2, <2>3 DEF BatchSound, CaptureSound, ExecutionSound
<1>6. batch' \in [Batches -> BatchType]
  BY <1>3, <1>4, AlongsideFacts
<1> QED
  BY <1>1, <1>5, <1>6, ShapeFacts DEF RInv

\* Two branches: the target is dead, or it is left unfinished.
LEMMA ExecuteKeepsRInv ==
    ASSUME RInv, NEW b \in Batches, NEW t \in Targets, ExecuteTarget(b, t)
    PROVE  RInv'
<1>0. Inv /\ BatchTypeOK
  BY DEF RInv
<1>1. PICK x : x = batch[b]
  OBVIOUS
<1>2. x \in BatchType /\ Shaped(x) /\ BatchSound(x)
  BY <1>1, ShapeFacts DEF RInv
<1>3. x.pc = "execute" /\ UNCHANGED requests
  BY <1>1 DEF ExecuteTarget
<1>4. batch \in [Batches -> BatchType] /\ \A a \in Batches : Shaped(batch[a]) /\ BatchSound(batch[a])
  BY ShapeFacts DEF RInv
<1>5. ASSUME NEW w, Shaped(w), w.pc = "execute", w.scope = x.scope, w.moved = x.moved,
             w.watched = x.watched,
             Inv', SessionsGoOn, Alongside([batch EXCEPT ![b] = w]),
             \A u \in x.targets \cup x.unfinished :
                u \in w.targets \cup w.unfinished \/ Ended(u)'
      PROVE  RInv'
  <2>1. PICK bs : bs = [batch EXCEPT ![b] = w]
    OBVIOUS
  <2>2. /\ bs \in [Batches -> BatchType]
        /\ \A a \in Batches : bs[a] = IF a = b THEN w ELSE batch[a]
    BY <1>4, <1>5, <2>1 DEF Shaped
  <2>3. Alongside(bs)
    BY <1>5, <2>1
  <2>4. ASSUME NEW a \in Batches PROVE Shaped(batch'[a]) /\ BatchSound(batch[a])'
    <3>1. PICK y : y = batch'[a]
      OBVIOUS
    <3>2. /\ y \in BatchType
          /\ y.pc = bs[a].pc /\ y.scope = bs[a].scope /\ y.offset = bs[a].offset
          /\ y.watched = bs[a].watched /\ y.targets = bs[a].targets
          /\ y.unfinished = bs[a].unfinished
          /\ bs[a].moved => y.moved
          /\ bs[a].pc = "capture" /\ Reorders => y.moved
      BY <2>2, <2>3, <3>1, AlongsideFacts
    <3>3. Shaped(bs[a])
      BY <1>4, <1>5, <2>2
    <3>4. Shaped(y)
      BY <3>2, <3>3 DEF Shaped
    <3>5. CASE a # b
      <4>1. PICK z \in BatchType : z = batch[a]
        BY <1>4
      <4>2. BatchSound(z)
        BY <1>4, <4>1
      <4>3. /\ y.pc = z.pc /\ y.scope = z.scope /\ y.offset = z.offset
            /\ y.watched = z.watched /\ y.targets = z.targets /\ y.unfinished = z.unfinished
            /\ z.moved => y.moved
            /\ z.pc = "capture" /\ Reorders => y.moved
        BY <2>2, <3>2, <3>5, <4>1
      <4>4. BatchSound(y)'
        BY <1>0, <1>5, <3>2, <4>2, <4>3, BatchGoesOn
      <4> QED
        BY <3>1, <3>4, <4>4 DEF BatchSound, CaptureSound, ExecutionSound
    <3>6. CASE a = b
      <4>1. bs[a] = w
        BY <2>2, <3>6
      <4>2. y.pc = "execute"
        BY <1>5, <3>2, <4>1
      <4>3. ASSUME ~y.moved, NEW u \in y.watched
            PROVE  Begun(u)' /\ (u \in y.targets \cup y.unfinished \/ Ended(u)')
        <5>1. ~x.moved /\ u \in x.watched
          BY <1>5, <3>2, <4>1, <4>3
        <5>2. Begun(u) /\ (u \in x.targets \cup x.unfinished \/ Ended(u))
          BY <1>2, <1>3, <5>1 DEF BatchSound, ExecutionSound
        <5>3. Begun(u)' /\ (Ended(u) => Ended(u)')
          BY <1>5, <5>2, EndedStaysEnded
        <5> QED
          BY <1>5, <3>2, <4>1, <5>2, <5>3
      <4>4. BatchSound(y)'
        BY <4>2, <4>3 DEF BatchSound, ExecutionSound
      <4> QED
        BY <3>1, <3>4, <4>4 DEF BatchSound, CaptureSound, ExecutionSound
    <3> QED
      BY <3>5, <3>6
  <2>5. batch' \in [Batches -> BatchType]
    BY <2>2, <2>3, AlongsideFacts
  <2> QED
    BY <1>5, <2>4, <2>5, ShapeFacts DEF RInv
<1>7. CASE Revoke(t) /\ Alongside([batch EXCEPT ![b].targets = @ \ {t}])
  <2>1. PICK w : w = [x EXCEPT !.targets = x.targets \ {t}]
    OBVIOUS
  <2>2. w = [pc |-> x.pc, scope |-> x.scope, later |-> x.later, offset |-> x.offset,
             targets |-> x.targets \ {t}, unfinished |-> x.unfinished,
             watched |-> x.watched, moved |-> x.moved]
    BY <1>2, <2>1 DEF BatchType
  <2>3. [batch EXCEPT ![b].targets = @ \ {t}] = [batch EXCEPT ![b] = w]
    BY <1>1, <1>4, <2>1 DEF BatchType
  <2>4. w \in BatchType
    BY <1>2, <2>2 DEF BatchType
  <2>5. Shaped(w)
    BY <1>2, <2>2, <2>4 DEF Shaped
  <2>6. Inv' /\ SessionsGoOn /\ Ended(t)'
    BY <1>0, <1>3, <1>7, RevokingGoesOn, SessionsGoOnInSteps
  <2>7. Alongside([batch EXCEPT ![b] = w])
    BY <1>7, <2>3
  <2>8. \A u \in x.targets \cup x.unfinished : u \in w.targets \cup w.unfinished \/ Ended(u)'
    BY <2>2, <2>6
  <2> QED
    BY <1>3, <1>5, <2>2, <2>5, <2>6, <2>7, <2>8
<1>8. CASE /\ Revoke(t) \/ UNCHANGED keys
           /\ Alongside([batch EXCEPT ![b].targets = @ \ {t}, ![b].unfinished = @ \cup {t}])
  <2>1. PICK w : w = [x EXCEPT !.targets = x.targets \ {t}, !.unfinished = x.unfinished \cup {t}]
    OBVIOUS
  <2>2. w = [pc |-> x.pc, scope |-> x.scope, later |-> x.later, offset |-> x.offset,
             targets |-> x.targets \ {t}, unfinished |-> x.unfinished \cup {t},
             watched |-> x.watched, moved |-> x.moved]
    BY <1>2, <2>1 DEF BatchType
  <2>3. [batch EXCEPT ![b].targets = @ \ {t}, ![b].unfinished = @ \cup {t}]
           = [batch EXCEPT ![b] = w]
    BY <1>1, <1>4, <2>1 DEF BatchType
  <2>4. w \in BatchType
    BY <1>2, <2>2 DEF BatchType
  <2>5. Shaped(w)
    BY <1>2, <1>3, <2>2, <2>4 DEF Shaped
  <2>6. Inv' /\ SessionsGoOn
    BY <1>0, <1>3, <1>8, RevokingGoesOn, StandingGoesOn, SessionsGoOnInSteps
  <2>7. Alongside([batch EXCEPT ![b] = w])
    BY <1>8, <2>3
  <2>8. \A u \in x.targets \cup x.unfinished : u \in w.targets \cup w.unfinished \/ Ended(u)'
    BY <2>2
  <2> QED
    BY <1>3, <1>5, <2>2, <2>5, <2>6, <2>7, <2>8
<1> QED
  BY <1>7, <1>8 DEF ExecuteTarget

-----------------------------------------------------------------------------
(* The theorems.                                                           *)

LEMMA InitRInv == RevocationInit => RInv
<1> SUFFICES ASSUME RevocationInit PROVE RInv
  OBVIOUS
<1>1. Inv
  BY InitInv DEF RevocationInit
<1>2. batch \in [Batches -> BatchType] /\ \A b \in Batches : Shaped(batch[b]) /\ BatchSound(batch[b])
  BY NoBatchSound DEF RevocationInit, Shaped
<1> QED
  BY <1>1, <1>2, ShapeFacts DEF RInv

LEMMA NextKeepsRInv == RInv /\ [RevocationNext]_revocationVars => RInv'
<1> SUFFICES ASSUME RInv, [RevocationNext]_revocationVars PROVE RInv'
  OBVIOUS
<1>1. CASE UNCHANGED revocationVars
  <2>1. Inv' /\ SessionsGoOn /\ batch' = batch /\ ~Reorders
    BY <1>1, StandingGoesOn, SessionsGoOnInSteps DEF RInv, revocationVars, vars, keys, requests, Reorders
  <2>2. batch \in [Batches -> BatchType] /\ \A b \in Batches : Shaped(batch[b]) /\ BatchSound(batch[b])
    BY ShapeFacts DEF RInv
  <2>3. ASSUME NEW b \in Batches PROVE BatchSound(batch[b])'
    <3>1. PICK y \in BatchType : y = batch[b]
      BY <2>2
    <3>2. BatchSound(y)'
      BY <2>1, <2>2, <3>1, BatchGoesOn DEF RInv
    <3> QED
      BY <2>1, <3>1, <3>2 DEF BatchSound, CaptureSound, ExecutionSound
  <2> QED
    BY <2>1, <2>2, <2>3, ShapeFacts DEF RInv
<1>2. CASE KernelStep /\ Alongside(batch)
  BY <1>2, KernelKeepsRInv
<1>3. ASSUME NEW b \in Batches, BatchStep(b) PROVE RInv'
  BY <1>3, BeginKeepsRInv, NextPageKeepsRInv, LastPageKeepsRInv, LastPageOfRootsKeepsRInv,
     IdleKeepsRInv, ExecuteKeepsRInv DEF BatchStep
<1> QED
  BY <1>1, <1>2, <1>3 DEF RevocationNext

LEMMA RInvHolds == RevocationSpec => []RInv
BY InitRInv, NextKeepsRInv, PTL DEF RevocationSpec

\* Every variable of a batch has its type for ever: it stands at a page of an
\* index exactly while it captures (the loop of capture in
\* unified-session.ts), and nothing is unfinished before the execution.
THEOREM BatchTypeCorrect == RevocationSpec => []BatchTypeOK
<1>1. RInv => BatchTypeOK
  BY DEF RInv
<1> QED
  BY <1>1, RInvHolds, PTL

\* A batch that reports every target terminated has left nothing standing of
\* what stood when it began to capture, unless an entry of an index changed
\* its place meanwhile: paging by rank (revokeUserSessions, revokeClientSessions
\* and revokePrincipalSession over the indexes of the kernel) skips nothing.
THEOREM ConfirmedMeansEnded == RevocationSpec => []ConfirmedUnlessMoved
<1>1. RInv => ConfirmedUnlessMoved
  BY DEF RInv, BatchSound, ExecutionSound, ConfirmedUnlessMoved, Confirmed, Ended
<1> QED
  BY <1>1, RInvHolds, PTL

-----------------------------------------------------------------------------
(* The kernel beside batches.                                              *)

\* Whatever the batches do to the records, they do by revocations.
LEMMA BatchesOnRecords ==
    ASSUME RInv, RevocationNext
    PROVE  RecordsStep
<1>1. CASE KernelStep
  BY <1>1, KernelGoesOn DEF RInv
<1>2. ASSUME UNCHANGED vars PROVE RecordsStep
  BY <1>2 DEF vars, RecordsStep, Leaves
<1>3. ASSUME NEW b \in Batches, NEW t \in Targets, ExecuteTarget(b, t) PROVE RecordsStep
  BY <1>3, RevokingGoesOn, StandingGoesOn DEF ExecuteTarget, RInv
<1>4. ASSUME NEW b \in Batches, BatchStep(b), \A t \in Targets : ~ExecuteTarget(b, t)
      PROVE  UNCHANGED vars
  BY <1>4 DEF BatchStep, RevokeClientSessions, RevokePrincipalSession, RevokeUserSessions,
              NextPage, LastPage, LastPageOfRoots, GiveUpCapture, RetryUnfinished, EndBatch
<1> QED
  BY <1>1, <1>2, <1>3, <1>4 DEF RevocationNext

\* Batches that race with authorizations never let a relation have two client
\* sessions that stand: a session of a batch loses its slot only with its life.
THEOREM OneLiveInstanceBesideBatches == RevocationSpec => []OneLiveInstance
BY InvOneLiveInstance, RInvHolds, PTL DEF RInv

\* A batch leaves the indexes it pages through, and the slots, in the state the
\* scripts of the kernel expect.
THEOREM NothingLooksCorruptBesideBatches == RevocationSpec => []NothingLooksCorrupt
BY InvNothingLooksCorrupt, RInvHolds, PTL DEF RInv

\* Sessions only end, also those a batch captured long ago, gave up, or tries
\* again: a session renewed since its capture is terminated, never shortened.
THEOREM SessionsOnlyEndBesideBatches == RevocationSpec => SessionsOnlyEnd
<1>1. RInv /\ [RevocationNext]_revocationVars =>
         [/\ \A r \in Roots : user[r].state # "absent" =>
               /\ user'[r].expiresAt = user[r].expiresAt
               /\ user'[r].state \in {user[r].state, "terminated"}
          /\ \A s \in Sessions : client[s].state # "absent" =>
               /\ client'[s].root = client[s].root /\ client'[s].client = client[s].client
               /\ client'[s].expiresAt >= client[s].expiresAt
               /\ client'[s].state \in {client[s].state, "terminated"}
               /\ now >= client[s].expiresAt => client'[s] = client[s]]_vars
  <2>1. CASE UNCHANGED revocationVars
    BY <2>1 DEF revocationVars
  <2> QED
    BY <2>1, BatchesOnRecords, StepOnlyEnds DEF RootOnlyEnds, SessionOnlyEnds, RInv
<1> QED
  BY <1>1, RInvHolds, PTL DEF RevocationSpec, SessionsOnlyEnd

\* The promise of the kernel to the protocols (ApplicationSessions) is kept
\* beside batches too: their steps only close sessions.
THEOREM ImplementsPromiseBesideBatches == RevocationSpec => ImplementsPromise
<1>1. RevocationInit => Promise!Init
  BY DEF RevocationInit, Init, Promise!Init, Resolvable, Available
<1>2. RInv /\ [RevocationNext]_revocationVars => [Promise!Next]_(Promise!vars)
  <2>1. CASE UNCHANGED revocationVars
    BY <2>1 DEF revocationVars, vars, Promise!vars, Resolvable, Available
  <2> QED
    BY <2>1, BatchesOnRecords, StepImplements DEF RInv
<1> QED
  BY <1>1, <1>2, RInvHolds, PTL DEF RevocationSpec, ImplementsPromise, Promise!Spec

=============================================================================
