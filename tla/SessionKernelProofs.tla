------------------------- MODULE SessionKernelProofs -------------------------
(***************************************************************************)
(* Proofs about SessionKernel, for any roots, sessions, clients, requests, *)
(* lifetimes and for ever.                                                 *)
(*                                                                         *)
(* The properties are not inductive: that two sessions of a relation never *)
(* stand rests on the slot, which must lead to every session that stands   *)
(* and live as long; that an artifact stays within its sessions rests on   *)
(* what an operation still remembers of them.  Inv says both.              *)
(***************************************************************************)
EXTENDS SessionKernel, TLAPS

\* A root has no deadline before it is created.  A session that was opened
\* belongs to a root that was created, and does not outlive it.
RecordsSound ==
    /\ \A r \in Roots : user[r].state = "absent" => user[r].expiresAt = 0
    /\ \A s \in Sessions : client[s].state # "absent" =>
          /\ client[s].root \in Roots
          /\ client[s].client \in Clients
          /\ user[client[s].root].state # "absent"
          /\ client[s].expiresAt <= user[client[s].root].expiresAt

\* A slot leads to a session of its relation, and to the one that stands for
\* as long as it stands.
SlotsSound ==
    /\ \A r \in Roots, c \in Clients :
          slot[<<r, c>>].id # NoOne =>
             /\ client[slot[<<r, c>>].id].state # "absent"
             /\ client[slot[<<r, c>>].id].root = r
             /\ client[slot[<<r, c>>].id].client = c
    /\ \A s \in Sessions : Available(client[s]) =>
          slot[<<client[s].root, client[s].client>>]
             = [id |-> s, expiresAt |-> client[s].expiresAt]

\* The indexes hold what is active, at its deadline.
ScoresSound ==
    /\ \A r \in Roots : rootScore[r] > 0 =>
          user[r].state = "active" /\ user[r].expiresAt = rootScore[r]
    /\ \A s \in Sessions : score[s] > 0 =>
          client[s].state = "active" /\ client[s].expiresAt = score[s]

DeadlinesSound ==
    \A s \in Sessions : deadline[s] > 0 =>
       client[s].state # "absent" /\ deadline[s] <= client[s].expiresAt

AcknowledgedSound ==
    \A r \in acknowledged : user[r].state # "absent" /\ ~Available(user[r])

\* What an operation observed exists, is no shorter than observed, and is
\* nothing it knew to be revoked.
ObservationSound(x) ==
    /\ x.root # NoOne => user[x.root].state # "absent" /\ x.root \notin x.knew
    /\ x.session # NoOne =>
          /\ client[x.session].state # "absent"
          /\ x.until <= client[x.session].expiresAt
          /\ client[x.session].root \notin x.knew
    /\ x.knew \subseteq acknowledged

ObservationsSound == \A o \in Ops : ObservationSound(op[o])

Inv ==
    /\ TypeOK
    /\ RecordsSound
    /\ SlotsSound
    /\ ScoresSound
    /\ DeadlinesSound
    /\ AcknowledgedSound
    /\ ObservationsSound

-----------------------------------------------------------------------------
(* Initially, and as time passes.                                          *)

LEMMA InitInv == Init => Inv
<1> SUFFICES ASSUME Init PROVE Inv
  OBVIOUS
<1> USE DEF Init
<1>1. TypeOK
  BY KernelAssumption DEF TypeOK, OpType, NotBegun, NoSlot
<1>2. RecordsSound /\ ScoresSound /\ DeadlinesSound /\ AcknowledgedSound
  BY DEF RecordsSound, ScoresSound, DeadlinesSound, AcknowledgedSound
<1>3. SlotsSound
  BY DEF SlotsSound, NoSlot, Available
<1>4. ObservationsSound
  BY DEF ObservationsSound, ObservationSound, NotBegun
<1> QED
  BY <1>1, <1>2, <1>3, <1>4 DEF Inv

LEMMA TickKeepsInv ==
    ASSUME Inv, Tick
    PROVE  Inv'
<1> USE DEF Inv, Tick, keys
<1>0. now \in Nat /\ now' = now + 1
  BY DEF TypeOK
<1>1. TypeOK'
  BY DEF TypeOK, OpType
<1>2. RecordsSound' /\ ScoresSound' /\ DeadlinesSound'
  BY DEF RecordsSound, ScoresSound, DeadlinesSound
<1>3. /\ \A s \in Sessions : Available(client[s])' => Available(client[s])
      /\ \A r \in Roots : Available(user[r])' => Available(user[r])
  BY <1>0 DEF Available, TypeOK
<1>4. SlotsSound'
  BY <1>3 DEF SlotsSound
<1>5. AcknowledgedSound'
  BY <1>3 DEF AcknowledgedSound, TypeOK
<1>6. ObservationsSound'
  BY DEF ObservationsSound, ObservationSound
<1> QED
  BY <1>1, <1>2, <1>4, <1>5, <1>6

-----------------------------------------------------------------------------
(* Steps that change only what an operation remembers.                     *)

LEMMA RememberingKeepsInv ==
    ASSUME Inv, UNCHANGED <<now, keys, deadline, acknowledged>>,
           NEW o \in Ops, NEW x \in OpType, ObservationSound(x),
           op' = [op EXCEPT ![o] = x]
    PROVE  Inv'
<1> USE DEF Inv, keys
<1>1. TypeOK'
  BY DEF TypeOK
<1>2. RecordsSound' /\ ScoresSound' /\ DeadlinesSound' /\ AcknowledgedSound'
  BY DEF RecordsSound, ScoresSound, DeadlinesSound, AcknowledgedSound, Available
<1>3. SlotsSound'
  BY DEF SlotsSound, Available
<1>4. ObservationsSound'
  BY DEF ObservationsSound, ObservationSound, TypeOK
<1> QED
  BY <1>1, <1>2, <1>3, <1>4

LEMMA OperationKeepsInv ==
    ASSUME Inv, NEW o \in Ops,
           \/ BeginOperation(o)
           \/ EndOperation(o)
           \/ \E r \in Roots : ResolveUserSession(o, r)
           \/ \E s \in Sessions : ResolveClientSession(o, s)
    PROVE  Inv'
<1>0. op[o] \in OpType /\ op \in [Ops -> OpType] /\ acknowledged \in SUBSET Roots
  BY DEF Inv, TypeOK
<1>1. CASE BeginOperation(o)
  <2> DEFINE x == Observing(NoOne, NoOne, 0, acknowledged)
  <2>1. x \in OpType /\ ObservationSound(x)
    BY <1>0 DEF OpType, ObservationSound, Observing
  <2>2. op' = [op EXCEPT ![o] = x] /\ UNCHANGED <<now, keys, deadline, acknowledged>>
    BY <1>1 DEF BeginOperation
  <2> QED
    BY <2>1, <2>2, RememberingKeepsInv
<1>2. CASE EndOperation(o)
  <2>1. NotBegun \in OpType /\ ObservationSound(NotBegun)
    BY DEF OpType, ObservationSound, NotBegun
  <2>2. op' = [op EXCEPT ![o] = NotBegun] /\ UNCHANGED <<now, keys, deadline, acknowledged>>
    BY <1>2 DEF EndOperation
  <2> QED
    BY <2>1, <2>2, RememberingKeepsInv
<1>3. ASSUME NEW r \in Roots, ResolveUserSession(o, r) PROVE Inv'
  <2> DEFINE x == Observing(r, NoOne, 0, op[o].knew)
  <2>1. op' = [op EXCEPT ![o] = x] /\ UNCHANGED <<now, keys, deadline, acknowledged>>
    BY <1>3 DEF ResolveUserSession, ObserveRoot
  <2>2. x \in OpType
    BY <1>0 DEF OpType, Observing
  <2>3. op[o].knew \subseteq acknowledged
    BY DEF Inv, ObservationsSound, ObservationSound
  <2>4. user[r].state # "absent" /\ r \notin acknowledged
    BY <1>3 DEF ResolveUserSession, Available, Inv, AcknowledgedSound
  <2>5. ObservationSound(x)
    BY <2>3, <2>4 DEF ObservationSound, Observing
  <2> QED
    BY <2>1, <2>2, <2>5, RememberingKeepsInv
<1>4. ASSUME NEW s \in Sessions, ResolveClientSession(o, s) PROVE Inv'
  <2> DEFINE x == Observing(NoOne, s, client[s].expiresAt, op[o].knew)
  <2>1. op' = [op EXCEPT ![o] = x] /\ UNCHANGED <<now, keys, deadline, acknowledged>>
    BY <1>4 DEF ResolveClientSession, ObserveSession
  <2>2. x \in OpType
    BY <1>0 DEF OpType, Observing, Inv, TypeOK
  <2>3. op[o].knew \subseteq acknowledged
    BY DEF Inv, ObservationsSound, ObservationSound
  <2>4. Available(client[s]) /\ Available(user[client[s].root])
    BY <1>4 DEF ResolveClientSession, MayUse, Resolvable
  <2>5. client[s].state # "absent" /\ client[s].root \notin acknowledged
    BY <2>4 DEF Available, Inv, AcknowledgedSound
  <2>6. client[s].expiresAt \in Nat
    BY DEF Inv, TypeOK
  <2>7. ObservationSound(x)
    BY <2>3, <2>5, <2>6 DEF ObservationSound, Observing
  <2> QED
    BY <2>1, <2>2, <2>7, RememberingKeepsInv
<1> QED
  BY <1>1, <1>2, <1>3, <1>4

-----------------------------------------------------------------------------
(* Sessions and artifacts come into being.                                 *)

\* Whether or not a request observes the root it creates.
LEMMA RootKeepsInv ==
    ASSUME Inv, NEW r \in Roots, WriteRoot(r), UNCHANGED <<now, deadline, acknowledged>>,
           \/ op' = op
           \/ \E o \in Ops : op' = [op EXCEPT ![o] = Observing(r, NoOne, 0, op[o].knew)]
    PROVE  Inv'
<1> USE DEF Inv
<1>1. /\ user[r].state = "absent"
      /\ user' = [user EXCEPT ![r] = [state |-> "active", expiresAt |-> now + UserTtl]]
      /\ rootScore' = [rootScore EXCEPT ![r] = now + UserTtl]
      /\ UNCHANGED <<client, slot, score, now, deadline, acknowledged>>
  BY DEF WriteRoot
<1>2. /\ user'[r] = [state |-> "active", expiresAt |-> now + UserTtl]
      /\ \A z \in Roots : z # r => user'[z] = user[z]
      /\ now + UserTtl \in Nat
  BY <1>1, KernelAssumption DEF TypeOK
<1>3. r \notin acknowledged /\ \A o \in Ops : op[o].knew \subseteq acknowledged
  BY <1>1 DEF ObservationsSound, ObservationSound, AcknowledgedSound
<1>4. TypeOK'
  <2>1. \A o \in Ops : Observing(r, NoOne, 0, op[o].knew) \in OpType
    BY DEF TypeOK, OpType, Observing
  <2>2. op' \in [Ops -> OpType]
    BY <2>1 DEF TypeOK
  <2> QED
    BY <1>1, <1>2, <2>2 DEF TypeOK
<1>5. RecordsSound'
  BY <1>1, <1>2 DEF RecordsSound
<1>6. SlotsSound'
  BY <1>1 DEF SlotsSound, Available
<1>7. ScoresSound'
  BY <1>1, <1>2 DEF ScoresSound, TypeOK
<1>8. DeadlinesSound'
  BY <1>1 DEF DeadlinesSound
<1>9. AcknowledgedSound'
  BY <1>1, <1>2, <1>3 DEF AcknowledgedSound, Available, TypeOK
<1>10. ObservationsSound'
  <2> SUFFICES ASSUME NEW p \in Ops PROVE ObservationSound(op[p])'
    BY DEF ObservationsSound
  <2>1. ObservationSound(op[p])
    BY DEF ObservationsSound
  <2>2. CASE op'[p] = Observing(r, NoOne, 0, op[p].knew)
    BY <1>1, <1>2, <1>3, <2>2 DEF ObservationSound, Observing
  <2>3. CASE op'[p] = op[p]
    <3>1. op[p].root # NoOne => user'[op[p].root].state # "absent"
      BY <1>2, <2>1 DEF ObservationSound, TypeOK, OpType
    <3> QED
      BY <1>1, <2>1, <2>3, <3>1 DEF ObservationSound
  <2> QED
    BY <2>2, <2>3 DEF TypeOK
<1> QED
  BY <1>4, <1>5, <1>6, <1>7, <1>8, <1>9, <1>10

LEMMA CreateKeepsInv ==
    ASSUME Inv, NEW o \in Ops, NEW r \in Roots, CreateUserSession(o, r)
    PROVE  Inv'
BY RootKeepsInv DEF CreateUserSession, ObserveRoot

\* A session is written for a relation in which no other one stands, either
\* new or for no less time than before.
Opening(r, c, s, u, ttl) ==
    /\ u \in Nat
    /\ u <= user[r].expiresAt
    /\ user[r].state # "absent"
    /\ WriteSession(r, c, s, u, ttl)
    /\ \/ client[s].state = "absent"
       \/ client[s].root = r /\ client[s].client = c /\ client[s].expiresAt <= u
    /\ \A z \in Sessions :
          Available(client[z]) /\ client[z].root = r /\ client[z].client = c => z = s
    /\ \/ op' = op
       \/ \E o \in Ops : /\ r \notin op[o].knew
                         /\ op' = [op EXCEPT ![o] = Observing(NoOne, s, u, op[o].knew)]
    /\ UNCHANGED <<now, deadline, acknowledged>>

LEMMA OpeningKeepsInv ==
    ASSUME Inv, NEW r \in Roots, NEW c \in Clients, NEW s \in Sessions,
           NEW u, NEW ttl, Opening(r, c, s, u, ttl)
    PROVE  Inv'
<1> USE DEF Inv, Opening
<1> DEFINE new == [state |-> "active", root |-> r, client |-> c, expiresAt |-> u]
<1>1. /\ client'[s] = new
      /\ \A z \in Sessions : z # s => client'[z] = client[z]
      /\ client' = [client EXCEPT ![s] = new]
      /\ UNCHANGED <<user, rootScore>>
  BY DEF WriteSession, TypeOK
<1>2. /\ slot' = [slot EXCEPT ![<<r, c>>] = [id |-> s, expiresAt |-> u]]
      /\ slot'[<<r, c>>] = [id |-> s, expiresAt |-> u]
      /\ \A x \in Roots \X Clients : x # <<r, c>> => slot'[x] = slot[x]
  BY DEF WriteSession, Slotted, TypeOK
<1>3. score' = [score EXCEPT ![s] = u]
  BY DEF WriteSession
<1>4. TypeOK'
  <2>1. \A o \in Ops : Observing(NoOne, s, u, op[o].knew) \in OpType
    BY DEF TypeOK, OpType, Observing
  <2>2. new \in [state : {"absent", "active", "terminated"}, root : Roots \cup {NoOne},
                 client : Clients \cup {NoOne}, expiresAt : Nat]
    OBVIOUS
  <2>3. slot' \in [Roots \X Clients -> [id : Sessions \cup {NoOne}, expiresAt : Nat]]
    BY <1>2 DEF TypeOK
  <2>4. op' \in [Ops -> OpType]
    BY <2>1 DEF TypeOK
  <2> QED
    BY <1>1, <1>3, <2>2, <2>3, <2>4 DEF TypeOK
<1>5. RecordsSound'
  BY <1>1 DEF RecordsSound
<1>6. SlotsSound'
  <2>1. ASSUME NEW q \in Roots, NEW d \in Clients, slot'[<<q, d>>].id # NoOne
        PROVE  /\ client'[slot'[<<q, d>>].id].state # "absent"
               /\ client'[slot'[<<q, d>>].id].root = q
               /\ client'[slot'[<<q, d>>].id].client = d
    <3>1. CASE <<q, d>> = <<r, c>>
      BY <1>1, <1>2, <3>1
    <3>2. CASE <<q, d>> # <<r, c>>
      <4> DEFINE z == slot[<<q, d>>].id
      <4>1. slot'[<<q, d>>] = slot[<<q, d>>] /\ <<q, d>> \in Roots \X Clients
        BY <1>2, <3>2
      <4>2. z \in Sessions
        BY <2>1, <4>1 DEF TypeOK
      <4>3. client[z].state # "absent" /\ client[z].root = q /\ client[z].client = d
        BY <2>1, <4>1 DEF SlotsSound
      <4>4. z # s
        BY <3>2, <4>3
      <4> QED
        BY <1>1, <4>1, <4>2, <4>3, <4>4
    <3> QED
      BY <3>1, <3>2
  <2>2. ASSUME NEW z \in Sessions, Available(client[z])'
        PROVE  slot'[<<client'[z].root, client'[z].client>>]
                  = [id |-> z, expiresAt |-> client'[z].expiresAt]
    <3>1. CASE z = s
      BY <1>1, <1>2, <3>1
    <3>2. CASE z # s
      <4>1. client'[z] = client[z] /\ Available(client[z])
        BY <1>1, <2>2, <3>2 DEF Available
      <4>2. client[z].root \in Roots /\ client[z].client \in Clients
        BY <4>1 DEF RecordsSound, Available
      <4>3. <<client[z].root, client[z].client>> # <<r, c>>
        BY <3>2, <4>1
      <4>4. slot[<<client[z].root, client[z].client>>]
               = [id |-> z, expiresAt |-> client[z].expiresAt]
        BY <4>1 DEF SlotsSound
      <4> QED
        BY <1>2, <4>1, <4>2, <4>3, <4>4
    <3> QED
      BY <3>1, <3>2
  <2> QED
    BY <2>1, <2>2 DEF SlotsSound
<1>7. ScoresSound'
  BY <1>1, <1>3 DEF ScoresSound, TypeOK
<1>8. DeadlinesSound'
  BY <1>1 DEF DeadlinesSound, TypeOK
<1>9. AcknowledgedSound'
  BY <1>1 DEF AcknowledgedSound, Available
<1>10. ObservationsSound'
  <2> SUFFICES ASSUME NEW p \in Ops PROVE ObservationSound(op[p])'
    BY DEF ObservationsSound
  <2>1. ObservationSound(op[p])
    BY DEF ObservationsSound
  <2>2. CASE r \notin op[p].knew /\ op'[p] = Observing(NoOne, s, u, op[p].knew)
    BY <1>1, <2>1, <2>2 DEF ObservationSound, Observing
  <2>3. CASE op'[p] = op[p]
    <3>1. op'[p] = op[p]
      BY <2>3
    <3>2. op[p].session # NoOne =>
             /\ client'[op[p].session].state # "absent"
             /\ op[p].until <= client'[op[p].session].expiresAt
             /\ client'[op[p].session].root \notin op[p].knew
      <4> SUFFICES ASSUME op[p].session # NoOne
                   PROVE  /\ client'[op[p].session].state # "absent"
                          /\ op[p].until <= client'[op[p].session].expiresAt
                          /\ client'[op[p].session].root \notin op[p].knew
        OBVIOUS
      <4>1. op[p].session \in Sessions /\ op[p].until \in Nat
        BY DEF TypeOK, OpType
      <4>2. client[op[p].session].expiresAt \in Nat
        BY <4>1 DEF TypeOK
      <4> QED
        BY <1>1, <2>1, <4>1, <4>2 DEF ObservationSound
    <3> QED
      BY <1>1, <2>1, <3>1, <3>2 DEF ObservationSound
  <2> QED
    BY <2>2, <2>3 DEF TypeOK
<1> QED
  BY <1>4, <1>5, <1>6, <1>7, <1>8, <1>9, <1>10

\* What stands for a relation is what its slot leads to.
LEMMA StandingIsSlotHolder ==
    ASSUME Inv, NEW z \in Sessions, Available(client[z])
    PROVE  SlotHolder(client[z].root, client[z].client) = z
<1>1. slot[<<client[z].root, client[z].client>>] = [id |-> z, expiresAt |-> client[z].expiresAt]
  BY DEF Inv, SlotsSound
<1>2. now <= client[z].expiresAt
  BY DEF Available, Inv, TypeOK
<1> QED
  BY <1>1, <1>2 DEF SlotHolder

\* The lifetime of an opened session lies between the one before and the root's.
LEMMA OpenUntilBounds ==
    ASSUME Inv, NEW r \in Roots, NEW before \in Nat, NEW ttl \in ClientTtls,
           before <= user[r].expiresAt
    PROVE  /\ OpenUntil(r, before, ttl) \in Nat
           /\ before <= OpenUntil(r, before, ttl)
           /\ OpenUntil(r, before, ttl) <= user[r].expiresAt
<1>1. now \in Nat /\ ttl \in Nat /\ user[r].expiresAt \in Nat
  BY KernelAssumption DEF Inv, TypeOK
<1> QED
  BY <1>1 DEF OpenUntil, Least, Greatest

\* An opened session is the one the slot led to, or is new when the slot led
\* to none that stands; no other one stands in its relation.
LEMMA WritingKeepsInv ==
    ASSUME Inv, NEW r \in Roots, NEW c \in Clients, NEW s \in Sessions,
           NEW ttl \in ClientTtls, Renew(r, c, s, ttl) \/ OpenNew(r, c, s, ttl),
           UNCHANGED <<now, deadline, acknowledged>>,
           \/ op' = op
           \/ \E o \in Ops :
                 /\ r \notin op[o].knew
                 /\ op' = [op EXCEPT ![o] =
                              Observing(NoOne, s, client'[s].expiresAt, op[o].knew)]
    PROVE  Inv'
<1>2. user[r].state # "absent"
  <2>1. now < user[r].expiresAt /\ now \in Nat
    BY DEF Renew, OpenNew, Inv, TypeOK
  <2> QED
    BY <2>1 DEF Inv, RecordsSound
<1>3. ASSUME NEW u \in Nat, u <= user[r].expiresAt, WriteSession(r, c, s, u, ttl),
             \/ client[s].state = "absent"
             \/ client[s].root = r /\ client[s].client = c /\ client[s].expiresAt <= u,
             \A z \in Sessions :
                Available(client[z]) /\ client[z].root = r /\ client[z].client = c => z = s
      PROVE  Inv'
  <2>1. client'[s].expiresAt = u
    BY <1>3 DEF WriteSession, Inv, TypeOK
  <2>2. Opening(r, c, s, u, ttl)
    BY <1>2, <1>3, <2>1 DEF Opening
  <2> QED
    BY <2>2, OpeningKeepsInv
<1>4. CASE Renew(r, c, s, ttl)
  <2> DEFINE u == OpenUntil(r, client[s].expiresAt, ttl)
  <2>1. s = SlotHolder(r, c) /\ Available(client[s]) /\ WriteSession(r, c, s, u, ttl)
    BY <1>4 DEF Renew, Reusable
  <2>2. client[s].root = r /\ client[s].client = c
    <3>1. slot[<<r, c>>].id = s /\ s # NoOne
      BY <2>1, KernelAssumption DEF SlotHolder
    <3> QED
      BY <3>1 DEF Inv, SlotsSound
  <2>3. client[s].expiresAt \in Nat /\ client[s].expiresAt <= user[r].expiresAt
    BY <2>1, <2>2 DEF Inv, TypeOK, RecordsSound, Available
  <2>4. u \in Nat /\ client[s].expiresAt <= u /\ u <= user[r].expiresAt
    BY <2>3, OpenUntilBounds
  <2>5. \A z \in Sessions :
           Available(client[z]) /\ client[z].root = r /\ client[z].client = c => z = s
    BY <2>1, StandingIsSlotHolder
  <2> QED
    BY <1>3, <2>1, <2>2, <2>4, <2>5
<1>5. CASE OpenNew(r, c, s, ttl)
  <2> DEFINE u == OpenUntil(r, 0, ttl)
  <2>1. ~Reusable(SlotHolder(r, c)) /\ client[s].state = "absent" /\ WriteSession(r, c, s, u, ttl)
    BY <1>5 DEF OpenNew
  <2>2. u \in Nat /\ u <= user[r].expiresAt
    <3>1. user[r].expiresAt \in Nat
      BY DEF Inv, TypeOK
    <3> QED
      BY <3>1, OpenUntilBounds
  <2>3. \A z \in Sessions :
           ~(Available(client[z]) /\ client[z].root = r /\ client[z].client = c)
    BY <2>1, StandingIsSlotHolder, KernelAssumption DEF Reusable
  <2> QED
    BY <1>3, <2>1, <2>2, <2>3
<1> QED
  BY <1>4, <1>5

\* A request opens under a root it observed.
LEMMA OpenKeepsInv ==
    ASSUME Inv, NEW o \in Ops, NEW r \in Roots, NEW c \in Clients, NEW s \in Sessions,
           NEW ttl \in ClientTtls, OpenClientSession(o, r, c, s, ttl)
    PROVE  Inv'
<1>1. /\ op[o].root = r
      /\ Renew(r, c, s, ttl) \/ OpenNew(r, c, s, ttl)
      /\ op' = [op EXCEPT ![o] = Observing(NoOne, s, client'[s].expiresAt, op[o].knew)]
      /\ UNCHANGED <<now, deadline, acknowledged>>
  BY DEF OpenClientSession, ObserveSession
<1>2. r \notin op[o].knew
  BY <1>1, KernelAssumption DEF Inv, ObservationsSound, ObservationSound
<1> QED
  BY <1>1, <1>2, WritingKeepsInv

\* An artifact ends with what was observed, and the session is no shorter.
LEMMA IssueKeepsInv ==
    ASSUME Inv, NEW o \in Ops, NEW ttl \in ClientTtls, IssueArtifact(o, ttl)
    PROVE  Inv'
<1> USE DEF Inv
<1> DEFINE s == op[o].session
<1>1. /\ s # NoOne
      /\ deadline' = [deadline EXCEPT ![s] =
                         Greatest(deadline[s], Least(op[o].until, now + ttl))]
      /\ UNCHANGED <<now, keys, op, acknowledged>>
  BY DEF IssueArtifact
<1>2. s \in Sessions /\ op[o].until \in Nat
  BY <1>1 DEF TypeOK, OpType
<1>3. client[s].state # "absent" /\ op[o].until <= client[s].expiresAt
  BY <1>1 DEF ObservationsSound, ObservationSound
<1>4. now + ttl \in Nat /\ client[s].expiresAt \in Nat /\ deadline[s] \in Nat
  BY <1>2, KernelAssumption DEF TypeOK
<1> DEFINE d == Greatest(deadline[s], Least(op[o].until, now + ttl))
<1>5. d \in Nat /\ (d = deadline[s] \/ d <= client[s].expiresAt)
  BY <1>2, <1>3, <1>4 DEF Greatest, Least
<1>6. TypeOK'
  BY <1>1, <1>5 DEF TypeOK, keys
<1>7. RecordsSound' /\ ScoresSound' /\ AcknowledgedSound'
  BY <1>1 DEF RecordsSound, ScoresSound, AcknowledgedSound, Available, keys
<1>8. SlotsSound'
  BY <1>1 DEF SlotsSound, Available, keys
<1>9. DeadlinesSound'
  <2> SUFFICES ASSUME NEW z \in Sessions, deadline'[z] > 0
               PROVE  client'[z].state # "absent" /\ deadline'[z] <= client'[z].expiresAt
    BY DEF DeadlinesSound
  <2>1. CASE z = s
    <3>1. deadline'[z] = d
      BY <1>1, <1>2, <2>1 DEF TypeOK
    <3>2. deadline[s] > 0 => deadline[s] <= client[s].expiresAt
      BY <1>2 DEF DeadlinesSound
    <3>3. d <= client[s].expiresAt
      BY <1>4, <1>5, <3>1, <3>2
    <3> QED
      BY <1>1, <1>3, <2>1, <3>1, <3>3 DEF keys
  <2>2. CASE z # s
    <3>1. deadline'[z] = deadline[z]
      BY <1>1, <2>2 DEF TypeOK
    <3> QED
      BY <1>1, <3>1 DEF DeadlinesSound, keys
  <2> QED
    BY <2>1, <2>2
<1>10. ObservationsSound'
  BY <1>1 DEF ObservationsSound, ObservationSound, keys
<1> QED
  BY <1>6, <1>7, <1>8, <1>9, <1>10

-----------------------------------------------------------------------------
(* Sessions are revoked.                                                   *)

\* Revocation leaves every record alone or terminates the target's.
LEMMA RevokeEffect ==
    ASSUME TypeOK, NEW t \in Targets, Revoke(t)
    PROVE  /\ \A r \in Roots : t # AUser(r) \/ ~Available(user[r]) => user'[r] = user[r]
           /\ \A r \in Roots : t = AUser(r) /\ Available(user[r]) =>
                 user'[r].state = "terminated" /\ user'[r].expiresAt = user[r].expiresAt
           /\ \A s \in Sessions : t # AClient(s) \/ ~Available(client[s]) =>
                 client'[s] = client[s]
           /\ \A s \in Sessions : t = AClient(s) /\ Available(client[s]) =>
                 /\ client'[s].state = "terminated"
                 /\ client'[s].root = client[s].root
                 /\ client'[s].client = client[s].client
                 /\ client'[s].expiresAt = client[s].expiresAt
           /\ user' \in [Roots -> [state : {"absent", "active", "terminated"}, expiresAt : Nat]]
           /\ client' \in [Sessions -> [state : {"absent", "active", "terminated"},
                                        root : Roots \cup {NoOne},
                                        client : Clients \cup {NoOne}, expiresAt : Nat]]
<1>1. user' = Revoked(user, "user", t) /\ client' = Revoked(client, "client", t)
  BY DEF Revoke
<1>2. CASE t[1] = "user"
  <2>1. t[2] \in Roots /\ t = AUser(t[2])
    BY <1>2 DEF Targets, AUser
  <2>2. client' = client
    BY <1>1, <1>2 DEF Revoked
  <2>3. \A s \in Sessions : t # AClient(s)
    BY <1>2 DEF AClient
  <2>4. \A r \in Roots : t = AUser(r) <=> r = t[2]
    BY <2>1 DEF AUser
  <2>5. CASE Available(user[t[2]])
    <3>1. user' = [user EXCEPT ![t[2]].state = "terminated"]
      BY <1>1, <1>2, <2>5 DEF Revoked
    <3> QED
      BY <2>1, <2>2, <2>3, <2>4, <2>5, <3>1 DEF TypeOK
  <2>6. CASE ~Available(user[t[2]])
    <3>1. user' = user
      BY <1>1, <1>2, <2>6 DEF Revoked
    <3> QED
      BY <2>1, <2>2, <2>3, <2>4, <2>6, <3>1 DEF TypeOK
  <2> QED
    BY <2>5, <2>6
<1>3. CASE t[1] = "client"
  <2>1. t[2] \in Sessions /\ t = AClient(t[2])
    BY <1>3 DEF Targets, AClient
  <2>2. user' = user
    BY <1>1, <1>3 DEF Revoked
  <2>3. \A r \in Roots : t # AUser(r)
    BY <1>3 DEF AUser
  <2>4. \A s \in Sessions : t = AClient(s) <=> s = t[2]
    BY <2>1 DEF AClient
  <2>5. CASE Available(client[t[2]])
    <3>1. client' = [client EXCEPT ![t[2]].state = "terminated"]
      BY <1>1, <1>3, <2>5 DEF Revoked
    <3> QED
      BY <2>1, <2>2, <2>3, <2>4, <2>5, <3>1 DEF TypeOK
  <2>6. CASE ~Available(client[t[2]])
    <3>1. client' = client
      BY <1>1, <1>3, <2>6 DEF Revoked
    <3> QED
      BY <2>1, <2>2, <2>3, <2>4, <2>6, <3>1 DEF TypeOK
  <2> QED
    BY <2>5, <2>6
<1> QED
  BY <1>2, <1>3 DEF Targets

LEMMA RevokeKeepsInv ==
    ASSUME Inv, NEW t \in Targets, Present(RecordOf(t)), Revoke(t),
           acknowledged \subseteq acknowledged',
           acknowledged' \subseteq acknowledged \cup {r \in Roots : t = AUser(r)},
           UNCHANGED <<now, deadline, op>>
    PROVE  Inv'
<1> USE DEF Inv
<1>1. /\ \A r \in Roots : t # AUser(r) \/ ~Available(user[r]) => user'[r] = user[r]
      /\ \A r \in Roots : t = AUser(r) /\ Available(user[r]) =>
            user'[r].state = "terminated" /\ user'[r].expiresAt = user[r].expiresAt
      /\ \A s \in Sessions : t # AClient(s) \/ ~Available(client[s]) =>
            client'[s] = client[s]
      /\ \A s \in Sessions : t = AClient(s) /\ Available(client[s]) =>
            /\ client'[s].state = "terminated"
            /\ client'[s].root = client[s].root
            /\ client'[s].client = client[s].client
            /\ client'[s].expiresAt = client[s].expiresAt
  BY RevokeEffect
<1>2. ASSUME NEW r \in Roots
      PROVE  /\ user'[r].expiresAt = user[r].expiresAt
             /\ user[r].state # "absent" => user'[r].state # "absent"
  BY <1>1
<1>11. ASSUME NEW r \in Roots, Available(user[r])'
       PROVE  Available(user[r]) /\ t # AUser(r)
  BY <1>1, <1>11 DEF Available
<1>13. ASSUME NEW s \in Sessions
       PROVE  /\ client'[s].expiresAt = client[s].expiresAt
              /\ client'[s].root = client[s].root
              /\ client'[s].client = client[s].client
              /\ (client'[s].state # "absent") <=> (client[s].state # "absent")
  BY <1>1 DEF Available
<1>12. ASSUME NEW s \in Sessions, Available(client[s])'
       PROVE  Available(client[s]) /\ t # AClient(s)
  BY <1>1, <1>12 DEF Available
<1>3. /\ slot' = [x \in Roots \X Clients |->
                    IF Available(RecordOf(t)) /\ \E s \in Sessions :
                          /\ t = AClient(s)
                          /\ x = <<client[s].root, client[s].client>>
                          /\ slot[x].id = s
                    THEN NoSlot ELSE slot[x]]
      /\ rootScore' = [r \in Roots |-> IF Available(RecordOf(t)) /\ t = AUser(r)
                                       THEN 0 ELSE rootScore[r]]
      /\ score' = [s \in Sessions |-> IF Available(RecordOf(t)) /\ t = AClient(s)
                                      THEN 0 ELSE score[s]]
  BY DEF Revoke
<1>4. TypeOK'
  <2>1. slot' \in [Roots \X Clients -> [id : Sessions \cup {NoOne}, expiresAt : Nat]]
    BY <1>3 DEF TypeOK, NoSlot
  <2>2. rootScore' \in [Roots -> Nat] /\ score' \in [Sessions -> Nat]
    BY <1>3 DEF TypeOK
  <2> QED
    BY <2>1, <2>2, RevokeEffect DEF TypeOK
<1>5. RecordsSound'
  BY <1>2, <1>13 DEF RecordsSound
<1>6. SlotsSound'
  <2>1. ASSUME NEW q \in Roots, NEW d \in Clients, slot'[<<q, d>>].id # NoOne
        PROVE  /\ client'[slot'[<<q, d>>].id].state # "absent"
               /\ client'[slot'[<<q, d>>].id].root = q
               /\ client'[slot'[<<q, d>>].id].client = d
    <3>1. slot'[<<q, d>>] = slot[<<q, d>>]
      BY <1>3, <2>1 DEF NoSlot
    <3>2. slot[<<q, d>>].id \in Sessions
      BY <2>1, <3>1 DEF TypeOK
    <3> QED
      BY <1>2, <1>13, <2>1, <3>1, <3>2 DEF SlotsSound
  <2>2. ASSUME NEW z \in Sessions, Available(client[z])'
        PROVE  slot'[<<client'[z].root, client'[z].client>>]
                  = [id |-> z, expiresAt |-> client'[z].expiresAt]
    <3> DEFINE x == <<client[z].root, client[z].client>>
    <3>1. Available(client[z]) /\ t # AClient(z)
      BY <1>12, <2>2
    <3>2. x \in Roots \X Clients
      BY <3>1 DEF RecordsSound, Available
    <3>3. slot[x] = [id |-> z, expiresAt |-> client[z].expiresAt]
      BY <3>1 DEF SlotsSound
    <3>4. slot'[x] = slot[x]
      BY <1>3, <3>1, <3>2, <3>3
    <3> QED
      BY <1>2, <1>13, <3>3, <3>4
  <2> QED
    BY <2>1, <2>2 DEF SlotsSound
<1>7. ScoresSound'
  <2>1. ASSUME NEW r \in Roots, rootScore'[r] > 0
        PROVE  user'[r].state = "active" /\ user'[r].expiresAt = rootScore'[r]
    <3>1. rootScore'[r] = rootScore[r] /\ ~(Available(RecordOf(t)) /\ t = AUser(r))
      BY <1>3, <2>1
    <3>2. t = AUser(r) => RecordOf(t) = user[r]
      BY DEF RecordOf, AUser
    <3> QED
      BY <1>1, <2>1, <3>1, <3>2 DEF ScoresSound
  <2>2. ASSUME NEW s \in Sessions, score'[s] > 0
        PROVE  client'[s].state = "active" /\ client'[s].expiresAt = score'[s]
    <3>1. score'[s] = score[s] /\ ~(Available(RecordOf(t)) /\ t = AClient(s))
      BY <1>3, <2>2
    <3>2. t = AClient(s) => RecordOf(t) = client[s]
      BY DEF RecordOf, AClient
    <3> QED
      BY <1>1, <2>2, <3>1, <3>2 DEF ScoresSound
  <2> QED
    BY <2>1, <2>2 DEF ScoresSound
<1>8. DeadlinesSound'
  BY <1>2, <1>13 DEF DeadlinesSound
<1>9. AcknowledgedSound'
  <2> SUFFICES ASSUME NEW r \in acknowledged'
               PROVE  user'[r].state # "absent" /\ ~Available(user[r])'
    BY DEF AcknowledgedSound
  <2>1. r \in Roots
    BY DEF TypeOK
  <2>2. user[r].state # "absent" /\ (t = AUser(r) \/ ~Available(user[r]))
    <3>1. CASE r \in acknowledged
      BY <3>1 DEF AcknowledgedSound
    <3>2. CASE t = AUser(r)
      BY <3>2 DEF RecordOf, AUser, Present
    <3> QED
      BY <3>1, <3>2
  <2> QED
    BY <1>2, <1>13, <1>11, <2>1, <2>2
<1>10. ObservationsSound'
  <2> SUFFICES ASSUME NEW o \in Ops PROVE ObservationSound(op[o])'
    BY DEF ObservationsSound
  <2>1. ObservationSound(op[o]) /\ op[o] \in OpType
    BY DEF ObservationsSound, TypeOK
  <2> QED
    BY <1>2, <1>13, <2>1 DEF ObservationSound, OpType
<1> QED
  BY <1>4, <1>5, <1>6, <1>7, <1>8, <1>9, <1>10

LEMMA NextKeepsInv == Inv /\ [Next]_vars => Inv'
<1> SUFFICES ASSUME Inv, [Next]_vars PROVE Inv'
  OBVIOUS
<1>1. CASE Tick
  BY <1>1, TickKeepsInv
<1>2. ASSUME NEW o \in Ops, Step(o) PROVE Inv'
  <2>1. CASE \/ BeginOperation(o)
             \/ EndOperation(o)
             \/ \E r \in Roots : ResolveUserSession(o, r)
             \/ \E s \in Sessions : ResolveClientSession(o, s)
    BY <2>1, OperationKeepsInv
  <2>2. CASE \E r \in Roots : CreateUserSession(o, r)
    BY <2>2, CreateKeepsInv
  <2>3. CASE \E r \in Roots, c \in Clients, s \in Sessions, ttl \in ClientTtls :
                OpenClientSession(o, r, c, s, ttl)
    BY <2>3, OpenKeepsInv
  <2>4. CASE \E ttl \in ClientTtls : IssueArtifact(o, ttl)
    BY <2>4, IssueKeepsInv
  <2> QED
    BY <1>2, <2>1, <2>2, <2>3, <2>4 DEF Step
<1>3. CASE UNCHANGED vars
  BY <1>3 DEF vars, Inv, TypeOK, RecordsSound, SlotsSound, ScoresSound, DeadlinesSound,
              AcknowledgedSound, ObservationsSound, ObservationSound, Available
<1>4. ASSUME NEW t \in Targets, RevokeObserved(t) PROVE Inv'
  <2>1. Present(RecordOf(t))
    BY <1>4 DEF RevokeObserved
  <2>2. CASE RevokeHeard(t)
    <3>1. /\ Revoke(t)
          /\ acknowledged \subseteq acknowledged'
          /\ acknowledged' \subseteq acknowledged \cup {r \in Roots : t = AUser(r)}
          /\ UNCHANGED <<now, deadline, op>>
      BY <2>2 DEF RevokeHeard
    <3> QED
      BY <2>1, <3>1, RevokeKeepsInv
  <2>3. CASE RevokeUnheard(t)
    <3>1. CASE Revoke(t)
      <4>1. /\ acknowledged \subseteq acknowledged'
            /\ acknowledged' \subseteq acknowledged \cup {r \in Roots : t = AUser(r)}
            /\ UNCHANGED <<now, deadline, op>>
        BY <2>3 DEF RevokeUnheard
      <4> QED
        BY <2>1, <3>1, <4>1, RevokeKeepsInv
    <3>2. CASE UNCHANGED <<keys>>
      BY <1>3, <2>3, <3>2 DEF RevokeUnheard, keys, vars
    <3> QED
      BY <2>3, <3>1, <3>2 DEF RevokeUnheard
  <2> QED
    BY <1>4, <2>2, <2>3 DEF RevokeObserved
<1> QED
  BY <1>1, <1>2, <1>3, <1>4 DEF Next

-----------------------------------------------------------------------------
(* The properties of states.                                               *)

\* Inv holds for ever: whatever the requests, the revocations, their lost
\* replies and the clock do to the keys of the kernel.
THEOREM Invariance == Spec => []Inv
<1>1. Inv /\ [Next]_vars => Inv'
  BY NextKeepsInv
<1> QED
  BY <1>1, InitInv, PTL DEF Spec

\* Every variable has its type.
THEOREM TypeCorrect == Spec => []TypeOK
<1>1. Inv => TypeOK
  BY DEF Inv
<1> QED
  BY <1>1, Invariance, PTL

LEMMA InvOneLiveInstance == Inv => OneLiveInstance
<1> SUFFICES ASSUME Inv, NEW s \in Sessions, NEW z \in Sessions,
                    Available(client[s]), Available(client[z]),
                    client[s].root = client[z].root, client[s].client = client[z].client
             PROVE  s = z
  BY DEF OneLiveInstance
<1> QED
  BY StandingIsSlotHolder

\* A root and a client never have two client sessions that stand, however
\* many requests open one at once, whatever lifetimes their processes grant.
THEOREM OneLiveInstanceHolds == Spec => []OneLiveInstance
BY InvOneLiveInstance, Invariance, PTL

LEMMA InvNothingLooksCorrupt == Inv => NothingLooksCorrupt
<1> SUFFICES ASSUME Inv PROVE NothingLooksCorrupt
  OBVIOUS
<1>1. \A r \in Roots : rootScore[r] > now => Available(user[r])
  BY DEF Inv, TypeOK, ScoresSound, Available
<1>2. \A s \in Sessions : score[s] > now => Available(client[s])
  BY DEF Inv, TypeOK, ScoresSound, Available
<1>3. ASSUME NEW r \in Roots, NEW c \in Clients, SlotHolder(r, c) # NoOne
      PROVE  client[SlotHolder(r, c)].root = r /\ client[SlotHolder(r, c)].client = c
  <2>1. SlotHolder(r, c) = slot[<<r, c>>].id
    BY <1>3 DEF SlotHolder
  <2> QED
    BY <1>3, <2>1 DEF Inv, SlotsSound
<1>4. \A s \in Sessions :
         client[s].state # "absent" => client[s].expiresAt <= user[client[s].root].expiresAt
  BY DEF Inv, RecordsSound
<1> QED
  BY <1>1, <1>2, <1>3, <1>4 DEF NothingLooksCorrupt

\* The checks by which the scripts call a key corrupt never fail.
THEOREM NothingLooksCorruptHolds == Spec => []NothingLooksCorrupt
BY InvNothingLooksCorrupt, Invariance, PTL

\* An artifact clipped to what an operation observed never outlives its
\* client session or its root.
THEOREM ArtifactsWithinSessionsHolds == Spec => []ArtifactsWithinSessions
<1>1. Inv => ArtifactsWithinSessions
  <2> SUFFICES ASSUME Inv, NEW s \in Sessions, deadline[s] > 0
               PROVE  /\ deadline[s] <= client[s].expiresAt
                      /\ deadline[s] <= user[client[s].root].expiresAt
    BY DEF ArtifactsWithinSessions
  <2>1. client[s].state # "absent" /\ deadline[s] <= client[s].expiresAt
    BY DEF Inv, DeadlinesSound
  <2>2. /\ client[s].root \in Roots
        /\ client[s].expiresAt <= user[client[s].root].expiresAt
    BY <2>1 DEF Inv, RecordsSound
  <2>3. /\ deadline[s] \in Nat /\ client[s].expiresAt \in Nat
        /\ user[client[s].root].expiresAt \in Nat
    BY <2>2 DEF Inv, TypeOK
  <2> QED
    BY <2>1, <2>2, <2>3
<1> QED
  BY <1>1, Invariance, PTL

\* Once the revocation of a root was answered, neither it nor any client
\* session opened under it, before or since, is usable again.
THEOREM RevocationIsFinalHolds == Spec => []RevocationIsFinal
<1>1. Inv => RevocationIsFinal
  BY DEF Inv, AcknowledgedSound, RevocationIsFinal, Resolvable
<1> QED
  BY <1>1, Invariance, PTL

\* An operation begun after that answer never observes the root or a client
\* session of it for use.
THEOREM NoUseAfterRevocationHolds == Spec => []NoUseAfterRevocation
<1>1. Inv => NoUseAfterRevocation
  <2> SUFFICES ASSUME Inv, NEW o \in Ops
               PROVE  /\ op[o].root \notin op[o].knew
                      /\ op[o].session # NoOne => client[op[o].session].root \notin op[o].knew
    BY DEF NoUseAfterRevocation
  <2>1. ObservationSound(op[o]) /\ op[o] \in OpType
    BY DEF Inv, TypeOK, ObservationsSound
  <2> QED
    BY <2>1, KernelAssumption DEF ObservationSound, OpType
<1> QED
  BY <1>1, Invariance, PTL

-----------------------------------------------------------------------------
(* What a step may do to the records, and the promise to the protocols.    *)

\* A step leaves the records alone, creates a root, opens or renews a client
\* session, or revokes a target.
Leaves == UNCHANGED <<user, client>>
Creates(r) ==
    /\ user[r].state = "absent"
    /\ user' = [user EXCEPT ![r] = [state |-> "active", expiresAt |-> now + UserTtl]]
    /\ UNCHANGED <<now, client>>
Opens(r, c, s, ttl) == (Renew(r, c, s, ttl) \/ OpenNew(r, c, s, ttl)) /\ UNCHANGED now
Revokes(t) == Revoke(t) /\ UNCHANGED now

RecordsStep ==
    \/ Leaves /\ (Tick \/ UNCHANGED now)
    \/ \E r \in Roots : Creates(r)
    \/ \E r \in Roots, c \in Clients, s \in Sessions, ttl \in ClientTtls :
          Opens(r, c, s, ttl)
    \/ \E t \in Targets : Revokes(t)

LEMMA StepOnRecords == Next => RecordsStep
<1> SUFFICES ASSUME Next PROVE RecordsStep
  OBVIOUS
<1>1. CASE Tick
  BY <1>1 DEF Tick, keys, Leaves, RecordsStep
<1>2. ASSUME NEW o \in Ops, Step(o)
      PROVE  \/ Leaves /\ UNCHANGED now
             \/ \E r \in Roots : Creates(r)
             \/ \E r \in Roots, c \in Clients, s \in Sessions, ttl \in ClientTtls :
                   Opens(r, c, s, ttl)
  <2>1. CASE \/ BeginOperation(o)
             \/ EndOperation(o)
             \/ \E r \in Roots : ResolveUserSession(o, r)
             \/ \E s \in Sessions : ResolveClientSession(o, s)
             \/ \E ttl \in ClientTtls : IssueArtifact(o, ttl)
    BY <2>1 DEF BeginOperation, EndOperation, ResolveUserSession, ResolveClientSession,
                IssueArtifact, keys, Leaves
  <2>2. CASE \E r \in Roots : CreateUserSession(o, r)
    BY <2>2 DEF CreateUserSession, WriteRoot, Creates
  <2>3. CASE \E r \in Roots, c \in Clients, s \in Sessions, ttl \in ClientTtls :
                OpenClientSession(o, r, c, s, ttl)
    BY <2>3 DEF OpenClientSession, Opens
  <2> QED
    BY <1>2, <2>1, <2>2, <2>3 DEF Step
<1>3. ASSUME NEW t \in Targets, RevokeObserved(t)
      PROVE  (Leaves /\ UNCHANGED now) \/ Revokes(t)
  BY <1>3 DEF RevokeObserved, RevokeHeard, RevokeUnheard, keys, Leaves, Revokes
<1> QED
  BY <1>1, <1>2, <1>3 DEF Next, RecordsStep

\* What an opening does to the records: one that stands is prolonged in its
\* relation, or a new one appears where none stands.
LEMMA OpensOnRecords ==
    ASSUME Inv, NEW r \in Roots, NEW c \in Clients, NEW s \in Sessions,
           NEW ttl \in ClientTtls, Opens(r, c, s, ttl)
    PROVE  /\ UNCHANGED <<now, user>>
           /\ \A z \in Sessions : z # s => client'[z] = client[z]
           /\ client'[s].state = "active" /\ client'[s].root = r /\ client'[s].client = c
           /\ \/ /\ Available(client[s]) /\ client[s].root = r /\ client[s].client = c
                 /\ client'[s].expiresAt >= client[s].expiresAt
              \/ /\ client[s].state = "absent"
                 /\ \A z \in Sessions :
                      ~(Available(client[z]) /\ client[z].root = r /\ client[z].client = c)
<1>1. ASSUME NEW u \in Nat, WriteSession(r, c, s, u, ttl)
      PROVE  /\ user' = user
             /\ \A z \in Sessions : z # s => client'[z] = client[z]
             /\ client'[s].state = "active" /\ client'[s].root = r /\ client'[s].client = c
             /\ client'[s].expiresAt = u
  BY <1>1 DEF WriteSession, Inv, TypeOK
<1>2. CASE Renew(r, c, s, ttl)
  <2> DEFINE u == OpenUntil(r, client[s].expiresAt, ttl)
  <2>1. s = SlotHolder(r, c) /\ Available(client[s]) /\ WriteSession(r, c, s, u, ttl)
    BY <1>2 DEF Renew, Reusable
  <2>2. client[s].root = r /\ client[s].client = c
    <3>1. slot[<<r, c>>].id = s /\ s # NoOne
      BY <2>1, KernelAssumption DEF SlotHolder
    <3> QED
      BY <3>1 DEF Inv, SlotsSound
  <2>3. client[s].expiresAt \in Nat /\ client[s].expiresAt <= user[r].expiresAt
    BY <2>1, <2>2 DEF Inv, TypeOK, RecordsSound, Available
  <2>4. u \in Nat /\ client[s].expiresAt <= u
    BY <2>3, OpenUntilBounds
  <2>5. client'[s].expiresAt >= client[s].expiresAt
    BY <1>1, <2>1, <2>3, <2>4
  <2>6. /\ UNCHANGED <<now, user>>
        /\ \A z \in Sessions : z # s => client'[z] = client[z]
        /\ client'[s].state = "active" /\ client'[s].root = r /\ client'[s].client = c
    BY <1>1, <2>1, <2>4 DEF Opens
  <2> QED
    BY <2>1, <2>2, <2>5, <2>6
<1>3. CASE OpenNew(r, c, s, ttl)
  <2>1. /\ ~Reusable(SlotHolder(r, c))
        /\ client[s].state = "absent"
        /\ WriteSession(r, c, s, OpenUntil(r, 0, ttl), ttl)
    BY <1>3 DEF OpenNew
  <2>2. \A z \in Sessions :
           ~(Available(client[z]) /\ client[z].root = r /\ client[z].client = c)
    BY <2>1, StandingIsSlotHolder, KernelAssumption DEF Reusable
  <2>3. /\ UNCHANGED <<now, user>>
        /\ \A z \in Sessions : z # s => client'[z] = client[z]
        /\ client'[s].state = "active" /\ client'[s].root = r /\ client'[s].client = c
    <3>1. OpenUntil(r, 0, ttl) \in Nat
      <4>1. user[r].expiresAt \in Nat
        BY DEF Inv, TypeOK
      <4> QED
        BY <4>1, OpenUntilBounds
    <3> QED
      BY <1>1, <2>1, <3>1 DEF Opens
  <2> QED
    BY <2>1, <2>2, <2>3
<1> QED
  BY <1>2, <1>3 DEF Opens

LEMMA RevokesOnRecords ==
    ASSUME Inv, NEW t \in Targets, Revokes(t)
    PROVE  /\ now' = now
           /\ \A r \in Roots :
                 \/ user'[r] = user[r]
                 \/ /\ Available(user[r]) /\ user'[r].state = "terminated"
                    /\ user'[r].expiresAt = user[r].expiresAt
           /\ \A s \in Sessions :
                 \/ client'[s] = client[s]
                 \/ /\ Available(client[s]) /\ client'[s].state = "terminated"
                    /\ client'[s].root = client[s].root
                    /\ client'[s].client = client[s].client
                    /\ client'[s].expiresAt = client[s].expiresAt
BY RevokeEffect DEF Revokes, Inv

\* What SessionsOnlyEnd says of a step, for a root and for a client session.
RootOnlyEnds(r) ==
    user[r].state # "absent" =>
       /\ user'[r].expiresAt = user[r].expiresAt
       /\ user'[r].state \in {user[r].state, "terminated"}

SessionOnlyEnds(s) ==
    client[s].state # "absent" =>
       /\ client'[s].root = client[s].root /\ client'[s].client = client[s].client
       /\ client'[s].expiresAt >= client[s].expiresAt
       /\ client'[s].state \in {client[s].state, "terminated"}
       /\ now >= client[s].expiresAt => client'[s] = client[s]

LEMMA StepOnlyEnds ==
    ASSUME Inv, RecordsStep
    PROVE  /\ \A r \in Roots : RootOnlyEnds(r)
           /\ \A s \in Sessions : SessionOnlyEnds(s)
<1>0. /\ now \in Nat
      /\ \A r \in Roots : user[r].expiresAt \in Nat
      /\ \A s \in Sessions : client[s].expiresAt \in Nat
  BY DEF Inv, TypeOK
<1>1. CASE Leaves
  BY <1>0, <1>1 DEF Leaves, RootOnlyEnds, SessionOnlyEnds
<1>2. ASSUME NEW r \in Roots, Creates(r)
      PROVE  /\ \A q \in Roots : RootOnlyEnds(q)
             /\ \A s \in Sessions : SessionOnlyEnds(s)
  <2>1. user[r].state = "absent" /\ \A q \in Roots : q # r => user'[q] = user[q]
    BY <1>2 DEF Creates, Inv, TypeOK
  <2>2. client' = client
    BY <1>2 DEF Creates
  <2> QED
    BY <1>0, <2>1, <2>2 DEF RootOnlyEnds, SessionOnlyEnds
<1>3. ASSUME NEW r \in Roots, NEW c \in Clients, NEW s \in Sessions, NEW ttl \in ClientTtls,
             Opens(r, c, s, ttl)
      PROVE  /\ \A q \in Roots : RootOnlyEnds(q)
             /\ \A z \in Sessions : SessionOnlyEnds(z)
  <2>1. user' = user
    BY <1>3, OpensOnRecords
  <2>2. ASSUME NEW z \in Sessions, z # s PROVE SessionOnlyEnds(z)
    <3>1. client'[z] = client[z]
      BY <1>3, <2>2, OpensOnRecords
    <3> QED
      BY <1>0, <3>1 DEF SessionOnlyEnds
  <2>3. SessionOnlyEnds(s)
    <3>1. \/ client[s].state = "absent"
          \/ /\ Available(client[s])
             /\ client[s].root = client'[s].root /\ client[s].client = client'[s].client
             /\ client'[s].state = "active"
             /\ client'[s].expiresAt >= client[s].expiresAt
      BY <1>3, OpensOnRecords
    <3> QED
      BY <1>0, <3>1 DEF SessionOnlyEnds, Available
  <2> QED
    BY <1>0, <2>1, <2>2, <2>3 DEF RootOnlyEnds
<1>4. ASSUME NEW t \in Targets, Revokes(t)
      PROVE  /\ \A r \in Roots : RootOnlyEnds(r)
             /\ \A s \in Sessions : SessionOnlyEnds(s)
  <2>1. ASSUME NEW r \in Roots PROVE RootOnlyEnds(r)
    BY <1>4, RevokesOnRecords DEF RootOnlyEnds
  <2>2. ASSUME NEW s \in Sessions PROVE SessionOnlyEnds(s)
    BY <1>0, <1>4, RevokesOnRecords DEF SessionOnlyEnds, Available
  <2> QED
    BY <2>1, <2>2
<1> QED
  BY <1>1, <1>2, <1>3, <1>4 DEF RecordsStep

\* No renewal, no late opening and no repeated revocation makes a session
\* stand again, gives it another root or client, or shortens it.
THEOREM SessionsOnlyEndHolds == Spec => SessionsOnlyEnd
<1>1. Inv /\ [Next]_vars =>
         [/\ \A r \in Roots : user[r].state # "absent" =>
               /\ user'[r].expiresAt = user[r].expiresAt
               /\ user'[r].state \in {user[r].state, "terminated"}
          /\ \A s \in Sessions : client[s].state # "absent" =>
               /\ client'[s].root = client[s].root /\ client'[s].client = client[s].client
               /\ client'[s].expiresAt >= client[s].expiresAt
               /\ client'[s].state \in {client[s].state, "terminated"}
               /\ now >= client[s].expiresAt => client'[s] = client[s]]_vars
  BY StepOnRecords, StepOnlyEnds DEF RootOnlyEnds, SessionOnlyEnds
<1> QED
  BY <1>1, Invariance, PTL DEF Spec, SessionsOnlyEnd

-----------------------------------------------------------------------------
(* The refinement.                                                         *)

Opened(s) == client[s].state # "absent"
Relation == [s \in Sessions |-> <<client[s].root, client[s].client>>]

\* A step that opens nothing and makes nothing usable is a Close.
LEMMA ClosesOnly ==
    ASSUME \A s \in Sessions :
              /\ Opened(s)' <=> Opened(s)
              /\ Opened(s) => client'[s].root = client[s].root /\ client'[s].client = client[s].client
              /\ Resolvable(s)' => Resolvable(s)
    PROVE  Promise!Close
<1>1. {s \in Sessions : Resolvable(s)}' \subseteq {s \in Sessions : Resolvable(s)}
  OBVIOUS
<1>2. {s \in Sessions : Opened(s)}' = {s \in Sessions : Opened(s)}
  OBVIOUS
<1>3. \A z \in {s \in Sessions : Opened(s)} : Relation'[z] = Relation[z]
  BY DEF Relation
<1> QED
  BY <1>1, <1>2, <1>3 DEF Promise!Close, Opened, Relation

\* Opening under a root that stands makes one session usable, where none was
\* usable; under another root it makes none usable.
LEMMA OpensImplement ==
    ASSUME Inv, NEW r \in Roots, NEW c \in Clients, NEW s \in Sessions,
           NEW ttl \in ClientTtls, Opens(r, c, s, ttl)
    PROVE  Promise!Next
<1>1. /\ UNCHANGED <<now, user>>
      /\ \A z \in Sessions : z # s => client'[z] = client[z]
      /\ client'[s].state = "active" /\ client'[s].root = r /\ client'[s].client = c
  BY OpensOnRecords
<1>2. /\ \A z \in Sessions : z # s => (Resolvable(z)' <=> Resolvable(z))
      /\ Resolvable(s)' => Available(user[r])
  <2>1. ASSUME NEW z \in Sessions, z # s PROVE Resolvable(z)' <=> Resolvable(z)
    BY <1>1, <2>1 DEF Resolvable, Available
  <2>2. Resolvable(s)' => Available(user[r])
    BY <1>1 DEF Resolvable, Available
  <2> QED
    BY <2>1, <2>2
<1>3. \A z \in Sessions : z # s => (Opened(z)' <=> Opened(z))
  BY <1>1 DEF Opened
<1>4. CASE Available(client[s]) /\ client[s].root = r /\ client[s].client = c
  <2>1. Resolvable(s)' => Resolvable(s)
    BY <1>2, <1>4 DEF Resolvable
  <2>2. Opened(s)' /\ Opened(s)
    BY <1>1, <1>4 DEF Opened, Available
  <2>3. \A z \in Sessions :
           /\ Opened(z)' <=> Opened(z)
           /\ Opened(z) => client'[z].root = client[z].root /\ client'[z].client = client[z].client
           /\ Resolvable(z)' => Resolvable(z)
    BY <1>1, <1>2, <1>3, <1>4, <2>1, <2>2
  <2> QED
    BY <2>3, ClosesOnly DEF Promise!Next
<1>5. CASE /\ client[s].state = "absent"
           /\ \A z \in Sessions :
                ~(Available(client[z]) /\ client[z].root = r /\ client[z].client = c)
  <2> DEFINE seen == {z \in Sessions : Opened(z)}
             usable == {z \in Sessions : Resolvable(z)}
  <2>1. ~Opened(s) /\ Opened(s)' /\ ~Resolvable(s)
    BY <1>1, <1>5 DEF Opened, Resolvable, Available
  <2>2. s \in Sessions \ seen /\ seen' = seen \cup {s}
    BY <1>3, <2>1
  <2>3. \A z \in Sessions : z # s => Relation'[z] = Relation[z]
    BY <1>1 DEF Relation
  <2>4. \A z \in seen : Relation'[z] = Relation[z]
    BY <2>2, <2>3
  <2>5. \/ usable' = usable
        \/ /\ \A z \in usable : Relation'[z] # Relation'[s]
           /\ usable' = usable \cup {s}
    <3>1. CASE ~Resolvable(s)'
      BY <1>2, <2>1, <3>1
    <3>2. CASE Resolvable(s)'
      <4>1. usable' = usable \cup {s}
        BY <1>2, <3>2
      <4>2. ASSUME NEW z \in usable PROVE Relation'[z] # Relation'[s]
        <5>1. z \in Sessions /\ z # s /\ Available(client[z])
          BY <2>1 DEF Resolvable
        <5>2. client[z].root # r \/ client[z].client # c
          BY <1>5, <5>1
        <5> QED
          BY <1>1, <5>1, <5>2 DEF Relation
      <4> QED
        BY <4>1, <4>2
    <3> QED
      BY <3>1, <3>2
  <2>6. Promise!Open(s)
    BY <2>2, <2>4, <2>5 DEF Promise!Open, Opened, Relation
  <2> QED
    BY <2>6 DEF Promise!Next
<1> QED
  BY <1>4, <1>5, OpensOnRecords

LEMMA StepImplements ==
    ASSUME Inv, RecordsStep
    PROVE  Promise!Next
<1>1. CASE Leaves /\ (Tick \/ UNCHANGED now)
  <2>1. now' >= now /\ now \in Nat /\ now' \in Nat
    BY <1>1 DEF Tick, Inv, TypeOK
  <2>2. /\ UNCHANGED <<user, client>>
        /\ \A s \in Sessions : client[s].expiresAt \in Nat
        /\ \A r \in Roots : user[r].expiresAt \in Nat
    BY <1>1 DEF Leaves, Inv, TypeOK
  <2>3. ASSUME NEW s \in Sessions, Resolvable(s)' PROVE Resolvable(s)
    <3>1. Available(client[s])
      BY <2>1, <2>2, <2>3 DEF Resolvable, Available
    <3>2. client[s].root \in Roots
      BY <3>1 DEF Inv, RecordsSound, Available
    <3>3. Available(user[client[s].root])
      BY <2>1, <2>2, <2>3, <3>2 DEF Resolvable, Available
    <3> QED
      BY <3>1, <3>3 DEF Resolvable
  <2>4. \A s \in Sessions :
           /\ Opened(s)' <=> Opened(s)
           /\ Opened(s) => client'[s].root = client[s].root /\ client'[s].client = client[s].client
           /\ Resolvable(s)' => Resolvable(s)
    BY <2>2, <2>3 DEF Opened
  <2> QED
    BY <2>4, ClosesOnly DEF Promise!Next
<1>2. ASSUME NEW r \in Roots, Creates(r) PROVE Promise!Next
  <2>1. /\ user[r].state = "absent"
        /\ \A q \in Roots : q # r => user'[q] = user[q]
        /\ UNCHANGED <<now, client>>
    BY <1>2 DEF Creates, Inv, TypeOK
  <2>2. ASSUME NEW s \in Sessions, Resolvable(s)' PROVE Resolvable(s)
    <3>1. Available(client[s])
      BY <2>1, <2>2 DEF Resolvable, Available
    <3>2. client[s].root \in Roots /\ client[s].root # r
      BY <2>1, <3>1 DEF Inv, RecordsSound, Available
    <3> QED
      BY <2>1, <2>2, <3>1, <3>2 DEF Resolvable, Available
  <2>3. \A s \in Sessions :
           /\ Opened(s)' <=> Opened(s)
           /\ Opened(s) => client'[s].root = client[s].root /\ client'[s].client = client[s].client
           /\ Resolvable(s)' => Resolvable(s)
    BY <2>1, <2>2 DEF Opened
  <2> QED
    BY <2>3, ClosesOnly DEF Promise!Next
<1>3. ASSUME NEW r \in Roots, NEW c \in Clients, NEW s \in Sessions, NEW ttl \in ClientTtls,
             Opens(r, c, s, ttl)
      PROVE  Promise!Next
  BY <1>3, OpensImplement
<1>4. ASSUME NEW t \in Targets, Revokes(t) PROVE Promise!Next
  <2>1. ASSUME NEW s \in Sessions
        PROVE  /\ Opened(s)' <=> Opened(s)
               /\ client'[s].root = client[s].root
               /\ client'[s].client = client[s].client
               /\ Available(client[s])' => Available(client[s])
    BY <1>4, RevokesOnRecords DEF Opened, Available
  <2>2. ASSUME NEW r \in Roots PROVE Available(user[r])' => Available(user[r])
    BY <1>4, RevokesOnRecords DEF Available
  <2>3. ASSUME NEW s \in Sessions, Resolvable(s)' PROVE Resolvable(s)
    <3>1. Available(client[s])
      BY <2>1, <2>3 DEF Resolvable
    <3>2. PICK r \in Roots : client[s].root = r /\ client'[s].root = r
      BY <2>1, <3>1 DEF Inv, RecordsSound, Available
    <3>3. Available(user[r])'
      BY <2>3, <3>2 DEF Resolvable, Available
    <3>4. Available(user[r])
      BY <2>2, <3>3
    <3> QED
      BY <3>1, <3>2, <3>4 DEF Resolvable
  <2> QED
    BY <2>1, <2>3, ClosesOnly DEF Promise!Next
<1> QED
  BY <1>1, <1>2, <1>3, <1>4 DEF RecordsStep

\* The kernel implements its promise: every script either opens a session
\* where none is usable, or only takes usable ones away.
THEOREM ImplementsPromiseHolds == Spec => ImplementsPromise
<1>1. Init => Promise!Init
  BY DEF Init, Promise!Init, Resolvable, Available
<1>2. Inv /\ [Next]_vars => [Promise!Next]_(Promise!vars)
  <2>1. CASE UNCHANGED vars
    BY <2>1 DEF vars, Promise!vars, Resolvable, Available
  <2> QED
    BY <2>1, StepOnRecords, StepImplements
<1> QED
  BY <1>1, <1>2, Invariance, PTL DEF Spec, ImplementsPromise, Promise!Spec

=============================================================================
