----------------------------- MODULE GatewayProofs -----------------------------
(***************************************************************************)
(* Proofs about Gateway, for any resources, references, scopes and         *)
(* manifests, and any number of applies.                                   *)
(*                                                                         *)
(* While the effect of every write is known, APISIX holds, resource by     *)
(* resource, what was there before or what the plan puts there             *)
(* (WritingSound, UndoingSound).  That is why a certain report is true.    *)
(* That references resolve between two writes rests on the order of the    *)
(* writes, and on who may own what a resource refers to (ValueSound).      *)
(***************************************************************************)
EXTENDS Gateway, TLAPS

OfScope(s) == UNION {DOMAIN m : m \in Manifests[s]}

\* What the resource r may hold: only the scope that owns it names what it
\* refers to, and that is of a kind that is written before its own.
ValueSound(r, v) ==
    /\ v \in Values \cup {Absent}
    /\ v # Absent =>
          /\ v.owner \in Scopes => r \in OfScope(v.owner)
          /\ \A q \in v.refs :
                /\ q \in Ids \ Foreign /\ Order[q] < Order[r]
                /\ \A t \in Scopes : q \in OfScope(t) => v.owner = t

ValuesSound ==
    /\ remote \in [Ids -> Values \cup {Absent}] /\ base \in [Ids -> Values \cup {Absent}]
    /\ \A r \in Ids : ValueSound(r, remote[r]) /\ ValueSound(r, base[r])
    /\ \A w \in late : w[1] \in Ids \ Foreign /\ ValueSound(w[1], w[2])

Shape ==
    /\ inst = [pc |-> inst.pc, blocked |-> inst.blocked, aborted |-> inst.aborted,
               unknown |-> inst.unknown, failed |-> inst.failed, checked |-> inst.checked,
               todo |-> inst.todo, attempted |-> inst.attempted, undo |-> inst.undo,
               after |-> inst.after, before |-> inst.before]
    /\ report = [outcome |-> report.outcome, scope |-> report.scope,
                 manifest |-> report.manifest, prune |-> report.prune]

Flags ==
    /\ inst.blocked \in BOOLEAN /\ inst.aborted \in BOOLEAN /\ inst.unknown \in BOOLEAN
    /\ inst.failed \in BOOLEAN /\ suspect \in BOOLEAN

Typed ==
    /\ Shape /\ Flags
    /\ children \subseteq {c \in Consumers : remote[c] # Absent}
    /\ kept \subseteq Consumers
    /\ inst.pc \in {"idle", "planned", "writing", "undoing", "down"}
    /\ inst.checked \subseteq Consumers
    /\ inst.todo \subseteq Ids /\ inst.attempted \subseteq Ids \ inst.todo
    /\ inst.undo \subseteq inst.attempted
    /\ report.outcome \in Certain \cup {"none", "unknown", "rollback_failed"}
    /\ applies \in 0..MaxApplies

Active == inst.pc \in {"planned", "writing", "undoing"}

ReportSound ==
    /\ report.scope \in Scopes /\ report.manifest \in Manifests[report.scope]
    /\ report.prune \in BOOLEAN

Planned == inst.todo \cup inst.attempted

\* The plan still follows from what the apply found.
PlanSound ==
    /\ ReportSound
    /\ Planned = TargetsOf(report.scope, report.manifest, report.prune, base)
    /\ \A r \in Planned : /\ inst.after[r] = After(report.scope, report.manifest, r)
                          /\ inst.before[r] = base[r]

\* A consumer is checked only while it has no credentials.
PlannedSound ==
    /\ inst.attempted = {} /\ remote = base
    /\ kept \subseteq children /\ kept \cap inst.checked = {}

WritingSound ==
    /\ inst.undo = {}
    /\ \A r \in Ids : remote[r] = IF r \in inst.attempted THEN inst.after[r] ELSE base[r]

UndoingSound ==
    ~inst.unknown /\ ~inst.failed =>
        \A r \in Ids : remote[r] # base[r] => r \in inst.undo /\ remote[r] = inst.after[r]

\* Nothing in the plan takes the credentials that are to be kept.
KeptSound ==
    /\ ~inst.unknown => kept \subseteq children
    /\ \A r \in kept \cap Planned : inst.after[r] # Absent /\ inst.before[r] # Absent

\* A write that nobody waits for is of an apply that knows, or has told.
LateSound ==
    /\ late # {} => suspect /\ (inst.unknown \/ inst.blocked \/ inst.pc = "down")
    /\ inst.unknown => inst.pc = "undoing" /\ suspect
    /\ inst.failed => inst.pc = "undoing" /\ suspect
    /\ inst.blocked => inst.pc = "idle" /\ report.outcome \notin Certain

ApplySound ==
    /\ Active => PlanSound
    /\ inst.pc = "planned" => PlannedSound
    /\ inst.pc = "writing" => WritingSound
    /\ inst.pc = "undoing" => UndoingSound
    /\ inst.pc \in {"writing", "undoing"} => KeptSound
    /\ inst.pc = "idle" /\ report.outcome \in Certain => ReportSound
    /\ OutcomeIsTrue

RefsSound ==
    ~suspect => Whole(remote) /\ (inst.pc # "idle" \/ inst.blocked => Whole(base))

Inv == ValuesSound /\ Typed /\ LateSound /\ ApplySound /\ RefsSound
-----------------------------------------------------------------------------
(* Manifests, and the values they lead to.                                 *)

LEMMA ManifestFacts ==
    ASSUME NEW s \in Scopes, NEW m \in Manifests[s]
    PROVE  /\ DOMAIN m \subseteq Ids \ Foreign /\ DOMAIN m \subseteq OfScope(s)
           /\ \A r \in DOMAIN m : /\ Labelled(s, m[r]) # Absent /\ Labelled(s, m[r]).owner = s
                                  /\ Labelled(s, m[r]).refs \subseteq DOMAIN m
                                  /\ ValueSound(r, Labelled(s, m[r]))
                                  /\ \A q \in Labelled(s, m[r]).refs : Order[q] < Order[r]
<1>1. DOMAIN m \subseteq Ids \ Foreign /\ DOMAIN m \subseteq OfScope(s)
  BY GatewayAssumption DEF OfScope
<1>2. ASSUME NEW r \in DOMAIN m
      PROVE  /\ Labelled(s, m[r]) # Absent /\ Labelled(s, m[r]).owner = s
             /\ Labelled(s, m[r]).refs \subseteq DOMAIN m
             /\ ValueSound(r, Labelled(s, m[r]))
             /\ \A q \in Labelled(s, m[r]).refs : Order[q] < Order[r]
  <2>1. /\ m[r] \in [refs : SUBSET Ids, body : Bodies]
        /\ \A q \in m[r].refs : q \in DOMAIN m /\ Order[q] < Order[r]
        /\ \A t \in Scopes \ {s} : \A n \in Manifests[t] : m[r].refs \cap DOMAIN n = {}
    BY <1>2, GatewayAssumption
  <2>2. PICK v : v = Labelled(s, m[r])
    OBVIOUS
  <2>3. v \in Values /\ v.owner = s /\ v.refs = m[r].refs
    BY <2>1, <2>2 DEF Labelled, Values
  <2>4. v # Absent
    BY <2>3, GatewayAssumption
  <2>5. ASSUME NEW q \in v.refs, NEW t \in Scopes, q \in OfScope(t) PROVE v.owner = t
    BY <2>1, <2>3, <2>5 DEF OfScope
  <2>6. ValueSound(r, v)
    BY <1>1, <1>2, <2>1, <2>3, <2>5 DEF ValueSound
  <2> QED
    BY <2>1, <2>2, <2>3, <2>4, <2>6
<1> QED
  BY <1>1, <1>2

LEMMA ScopesAreOurs == \A s \in Scopes : OfScope(s) \cap Foreign = {}
BY GatewayAssumption DEF OfScope

LEMMA TheirsSound ==
    ASSUME NEW r \in Ids
    PROVE  /\ ValueSound(r, Theirs) /\ Theirs # Absent /\ Theirs.owner = Unowned /\ Theirs.refs = {}
           /\ ValueSound(r, Absent)
<1>1. (CHOOSE b \in Bodies : TRUE) \in Bodies
  BY GatewayAssumption
<1>2. PICK v : v = Theirs
  OBVIOUS
<1>3. v \in Values /\ v.owner = Unowned /\ v.refs = {}
  BY <1>1, <1>2 DEF Theirs, Values
<1>4. v # Absent
  BY <1>3, GatewayAssumption
<1> QED
  BY <1>2, <1>3, <1>4, GatewayAssumption DEF ValueSound

\* What a plan consists of.
LEMMA TargetFacts ==
    ASSUME NEW s \in Scopes, NEW m \in Manifests[s], NEW prune \in BOOLEAN, NEW res,
           \A r \in Ids : ValueSound(r, res[r])
    PROVE  /\ TargetsOf(s, m, prune, res) \subseteq Ids \ Foreign
           /\ \A r \in TargetsOf(s, m, prune, res) :
                 /\ ValueSound(r, After(s, m, r))
                 /\ After(s, m, r) # Absent => r \in DOMAIN m /\ After(s, m, r) = Labelled(s, m[r])
                 /\ After(s, m, r) = Absent => /\ prune /\ res[r] # Absent /\ res[r].owner = s
                                               /\ r \notin DOMAIN m /\ r \in OfScope(s)
           /\ \A r \in Ids \ TargetsOf(s, m, prune, res) :
                 /\ r \in DOMAIN m => res[r] = Labelled(s, m[r])
                 /\ prune /\ r \notin DOMAIN m /\ res[r] # Absent => res[r].owner # s
<1>1. /\ DOMAIN m \subseteq Ids \ Foreign
      /\ \A r \in DOMAIN m : ValueSound(r, Labelled(s, m[r])) /\ Labelled(s, m[r]) # Absent
  BY ManifestFacts
<1>2. ASSUME NEW r \in Deletes(s, m, res)
      PROVE  /\ r \in Ids \ Foreign /\ res[r] # Absent /\ res[r].owner = s
             /\ r \notin DOMAIN m /\ r \in OfScope(s)
  <2>1. r \in Ids /\ res[r] # Absent /\ res[r].owner = s /\ r \notin DOMAIN m
    BY <1>2 DEF Deletes, Present
  <2>2. r \in OfScope(s)
    BY <2>1 DEF ValueSound
  <2> QED
    BY <2>1, <2>2, ScopesAreOurs
<1>3. \A r \in Ids : ValueSound(r, Absent)
  BY TheirsSound
<1> QED
  BY <1>1, <1>2, <1>3 DEF TargetsOf, Upserts, Deletes, Present, After

\* What others do does not change a plan.
LEMMA TargetsStay ==
    ASSUME NEW s \in Scopes, NEW m \in Manifests[s], NEW prune \in BOOLEAN, NEW old, NEW new,
           \A r \in Ids : ValueSound(r, old[r]) /\ ValueSound(r, new[r]),
           \A r \in Ids \ Foreign : new[r] = old[r]
    PROVE  TargetsOf(s, m, prune, new) = TargetsOf(s, m, prune, old)
<1>1. DOMAIN m \subseteq Ids \ Foreign
  BY ManifestFacts
<1>2. Upserts(s, m, new) = Upserts(s, m, old)
  BY <1>1 DEF Upserts
<1>3. ASSUME NEW res, \A r \in Ids : ValueSound(r, res[r]) PROVE Deletes(s, m, res) \subseteq Ids \ Foreign
  <2>1. ASSUME NEW r \in Deletes(s, m, res) PROVE r \in Ids \ Foreign
    <3>1. r \in Ids /\ res[r] # Absent /\ res[r].owner = s
      BY <2>1 DEF Deletes, Present
    <3>2. r \in OfScope(s)
      BY <1>3, <3>1 DEF ValueSound
    <3> QED
      BY <3>1, <3>2, ScopesAreOurs
  <2> QED
    BY <2>1
<1>4. Deletes(s, m, new) = Deletes(s, m, old)
  <2>1. Deletes(s, m, new) \subseteq Ids \ Foreign /\ Deletes(s, m, old) \subseteq Ids \ Foreign
    BY <1>3
  <2>2. \A r \in Ids \ Foreign : r \in Deletes(s, m, new) <=> r \in Deletes(s, m, old)
    BY DEF Deletes, Present
  <2> QED
    BY <2>1, <2>2
<1> QED
  BY <1>2, <1>4 DEF TargetsOf
-----------------------------------------------------------------------------
(* What follows for an apply at work.                                      *)

LEMMA BaseSound == Inv => \A r \in Ids : ValueSound(r, base[r])
BY DEF Inv, ValuesSound

LEMMA ActivePlan ==
    ASSUME Inv, Active, NEW s, NEW m, s = report.scope, m = report.manifest
    PROVE  /\ s \in Scopes /\ m \in Manifests[s] /\ Planned \subseteq Ids \ Foreign
           /\ \A r \in Planned :
                 /\ inst.before[r] = base[r]
                 /\ ValueSound(r, inst.before[r]) /\ ValueSound(r, inst.after[r])
                 /\ inst.after[r] # Absent => r \in DOMAIN m /\ inst.after[r] = Labelled(s, m[r])
                 /\ inst.after[r] = Absent => /\ report.prune /\ base[r] # Absent /\ base[r].owner = s
                                              /\ r \notin DOMAIN m /\ r \in OfScope(s)
           /\ \A r \in Ids \ Planned :
                 /\ r \in DOMAIN m => base[r] = Labelled(s, m[r])
                 /\ report.prune /\ r \notin DOMAIN m /\ base[r] # Absent => base[r].owner # s
<1>1. PlanSound /\ \A r \in Ids : ValueSound(r, base[r])
  BY BaseSound DEF Inv, ApplySound
<1>2. s \in Scopes /\ m \in Manifests[s] /\ report.prune \in BOOLEAN
  BY <1>1 DEF PlanSound, ReportSound
<1>3. PICK T : T = Planned
  OBVIOUS
<1>4. T = TargetsOf(s, m, report.prune, base)
  BY <1>1, <1>3 DEF PlanSound
<1>5. \A r \in T : inst.after[r] = After(s, m, r) /\ inst.before[r] = base[r]
  BY <1>1, <1>3 DEF PlanSound
<1>6. T \subseteq Ids \ Foreign
  BY <1>1, <1>2, <1>4, TargetFacts
<1>7. \A r \in T :
         /\ ValueSound(r, After(s, m, r))
         /\ After(s, m, r) # Absent => r \in DOMAIN m /\ After(s, m, r) = Labelled(s, m[r])
         /\ After(s, m, r) = Absent => /\ report.prune /\ base[r] # Absent /\ base[r].owner = s
                                       /\ r \notin DOMAIN m /\ r \in OfScope(s)
  BY <1>1, <1>2, <1>4, TargetFacts
<1>8. \A r \in Ids \ T :
         /\ r \in DOMAIN m => base[r] = Labelled(s, m[r])
         /\ report.prune /\ r \notin DOMAIN m /\ base[r] # Absent => base[r].owner # s
  BY <1>1, <1>2, <1>4, TargetFacts
<1> QED
  BY <1>1, <1>2, <1>3, <1>5, <1>6, <1>7, <1>8

\* References resolve after a write, if its own do.
LEMMA PutWhole ==
    ASSUME NEW old, NEW new, NEW r \in Ids, NEW v, Whole(old), v # Absent,
           \A q \in v.refs : old[q] # Absent,
           \A p \in Ids : new[p] = IF p = r THEN v ELSE old[p],
           v.refs \subseteq Ids, \A p \in Ids : old[p] # Absent => old[p].refs \subseteq Ids
    PROVE  Whole(new)
BY DEF Whole, Present

\* They resolve after a deletion, if nothing referred to what is deleted.
LEMMA RemoveWhole ==
    ASSUME NEW old, NEW new, NEW r \in Ids, Whole(old),
           \A p \in Ids \ {r} : old[p] # Absent => r \notin old[p].refs,
           \A p \in Ids : new[p] = IF p = r THEN Absent ELSE old[p],
           \A p \in Ids : old[p] # Absent => old[p].refs \subseteq Ids
    PROVE  Whole(new)
BY DEF Whole, Present

LEMMA RefsAreIds == Inv => \A p \in Ids : remote[p] # Absent => remote[p].refs \subseteq Ids
BY DEF Inv, ValuesSound, ValueSound

LEMMA NextIsThere == \A rs, val, r : r \in NextOf(rs, val) => r \in rs
BY DEF NextOf, Lowest, Highest

LEMMA LowestFacts ==
    ASSUME NEW rs, NEW val, NEW r \in NextOf(rs, val)
    PROVE  /\ val[r] # Absent => \A q \in rs : val[q] # Absent => Order[r] <= Order[q]
           /\ val[r] = Absent => \A q \in rs : val[q] = Absent /\ Order[r] >= Order[q]
<1>1. CASE {q \in rs : val[q] # Absent} = {}
  BY <1>1 DEF NextOf, Highest
<1>2. CASE {q \in rs : val[q] # Absent} # {}
  BY <1>2 DEF NextOf, Lowest
<1> QED
  BY <1>1, <1>2

LEMMA Orders == \A p \in Ids : Order[p] \in Nat
BY GatewayAssumption

\* The next write leaves no reference open: what is written refers to kinds that
\* were written before it, what is deleted is referred to by kinds that were
\* deleted before it.
LEMMA WriteWhole ==
    ASSUME Inv, inst.pc = "writing", Whole(remote), NEW r \in NextOf(inst.todo, inst.after),
           NEW new, \A p \in Ids : new[p] = IF p = r THEN inst.after[r] ELSE remote[p]
    PROVE  Whole(new)
<1>1. PICK s, m : s = report.scope /\ m = report.manifest
  OBVIOUS
<1>2. /\ s \in Scopes /\ m \in Manifests[s] /\ Planned \subseteq Ids \ Foreign
      /\ \A q \in Planned :
            /\ inst.before[q] = base[q]
            /\ ValueSound(q, inst.after[q])
            /\ inst.after[q] # Absent => q \in DOMAIN m /\ inst.after[q] = Labelled(s, m[q])
            /\ inst.after[q] = Absent => /\ report.prune /\ base[q] # Absent /\ base[q].owner = s
                                         /\ q \notin DOMAIN m /\ q \in OfScope(s)
      /\ \A q \in Ids \ Planned :
            /\ q \in DOMAIN m => base[q] = Labelled(s, m[q])
            /\ report.prune /\ q \notin DOMAIN m /\ base[q] # Absent => base[q].owner # s
  BY <1>1, ActivePlan DEF Active
<1>3. r \in inst.todo /\ r \in Planned /\ r \in Ids
  BY <1>2, NextIsThere DEF Planned
<1>4. \A q \in Ids : remote[q] = IF q \in inst.attempted THEN inst.after[q] ELSE base[q]
  BY DEF Inv, ApplySound, WritingSound
<1>5. /\ DOMAIN m \subseteq Ids
      /\ \A q \in DOMAIN m : /\ Labelled(s, m[q]) # Absent /\ Labelled(s, m[q]).refs \subseteq DOMAIN m
                             /\ \A p \in Labelled(s, m[q]).refs : Order[p] < Order[q]
  BY <1>2, ManifestFacts
<1>6. \A p \in Ids : remote[p] # Absent => remote[p].refs \subseteq Ids
  BY RefsAreIds
<1>7. CASE inst.after[r] # Absent
  <2>1. ASSUME NEW q \in inst.after[r].refs PROVE remote[q] # Absent
    <3>1. q \in DOMAIN m /\ q \in Ids /\ Order[q] < Order[r]
      BY <1>2, <1>3, <1>5, <1>7
    <3>2. CASE q \in inst.attempted
      <4>1. inst.after[q] # Absent
        BY <1>2, <3>1, <3>2 DEF Planned
      <4> QED
        BY <1>4, <3>1, <3>2, <4>1
    <3>3. CASE q \in inst.todo
      <4>1. inst.after[q] # Absent
        BY <1>2, <3>1, <3>3 DEF Planned
      <4>2. Order[r] <= Order[q]
        BY <1>7, <3>3, <4>1, LowestFacts
      <4> QED
        BY <1>3, <3>1, <4>2, Orders
    <3>4. CASE q \notin Planned
      BY <1>2, <1>4, <1>5, <3>1, <3>4 DEF Planned
    <3> QED
      BY <3>2, <3>3, <3>4 DEF Planned
  <2>2. inst.after[r].refs \subseteq Ids
    BY <1>2, <1>3, <1>5, <1>7
  <2> QED
    BY <1>3, <1>6, <1>7, <2>1, <2>2, PutWhole
<1>8. CASE inst.after[r] = Absent
  <2>1. /\ \A q \in inst.todo : inst.after[q] = Absent /\ Order[r] >= Order[q]
        /\ report.prune /\ base[r].owner = s /\ r \notin DOMAIN m /\ r \in OfScope(s)
    BY <1>2, <1>3, <1>8, LowestFacts
  <2>2. ASSUME NEW p \in Ids \ {r}, remote[p] # Absent, r \in remote[p].refs PROVE FALSE
    <3>1. Order[r] < Order[p] /\ remote[p].owner = s
      BY <1>2, <2>1, <2>2 DEF Inv, ValuesSound, ValueSound
    <3>2. p \notin DOMAIN m
      <4>1. ASSUME p \in DOMAIN m PROVE remote[p] = Labelled(s, m[p])
        <5>1. CASE p \in inst.attempted
          BY <1>2, <1>4, <2>2, <5>1 DEF Planned
        <5>2. CASE p \in inst.todo
          BY <1>2, <2>1, <4>1, <5>2 DEF Planned
        <5>3. CASE p \notin Planned
          BY <1>2, <1>4, <4>1, <5>3 DEF Planned
        <5> QED
          BY <5>1, <5>2, <5>3 DEF Planned
      <4> QED
        BY <1>5, <2>1, <2>2, <4>1
    <3>3. p \notin inst.attempted
      BY <1>2, <1>4, <2>2, <3>2 DEF Planned
    <3>4. p \in inst.todo
      BY <1>2, <1>4, <2>1, <2>2, <3>1, <3>2, <3>3 DEF Planned
    <3>5. Order[r] >= Order[p]
      BY <2>1, <3>4
    <3> QED
      BY <1>3, <3>1, <3>5, Orders
  <2> QED
    BY <1>3, <1>6, <1>8, <2>2, RemoveWhole
<1> QED
  BY <1>7, <1>8

\* Nor does the next undoing.
LEMMA UndoWhole ==
    ASSUME Inv, inst.pc = "undoing", ~inst.unknown, ~inst.failed, Whole(remote), Whole(base),
           NEW r \in NextOf(inst.undo, inst.before),
           NEW new, \A p \in Ids : new[p] = IF p = r THEN inst.before[r] ELSE remote[p]
    PROVE  Whole(new)
<1>1. r \in inst.undo /\ inst.undo \subseteq Planned
  BY NextIsThere DEF Planned, Inv, Typed
<1>2. Planned \subseteq Ids /\ \A q \in Planned : inst.before[q] = base[q]
  BY ActivePlan DEF Active
<1>3. \A q \in Ids : remote[q] # base[q] => q \in inst.undo
  BY DEF Inv, ApplySound, UndoingSound
<1>4. \A p \in Ids : remote[p] # Absent => remote[p].refs \subseteq Ids
  BY RefsAreIds
<1>5. r \in Ids /\ inst.before[r] = base[r]
  BY <1>1, <1>2
<1>6. CASE inst.before[r] # Absent
  <2>1. ASSUME NEW q \in base[r].refs PROVE remote[q] # Absent
    <3>1. q \in Ids /\ Order[q] < Order[r] /\ base[q] # Absent
      BY <1>5, <1>6 DEF Inv, ValuesSound, ValueSound, Whole, Present
    <3>2. q \notin inst.undo
      <4>1. q \in inst.undo => inst.before[q] # Absent
        BY <1>1, <1>2, <3>1
      <4>2. q \in inst.undo => Order[r] <= Order[q]
        BY <1>6, <4>1, LowestFacts
      <4> QED
        BY <1>5, <3>1, <4>2, Orders
    <3> QED
      BY <1>3, <3>1, <3>2
  <2>2. base[r].refs \subseteq Ids
    BY <1>5, <1>6 DEF Inv, ValuesSound, ValueSound
  <2> QED
    BY <1>4, <1>5, <1>6, <2>1, <2>2, PutWhole
<1>7. CASE inst.before[r] = Absent
  <2>1. \A q \in inst.undo : inst.before[q] = Absent /\ Order[r] >= Order[q]
    BY <1>7, LowestFacts
  <2>2. ASSUME NEW p \in Ids \ {r}, remote[p] # Absent, r \in remote[p].refs PROVE FALSE
    <3>1. Order[r] < Order[p]
      BY <2>2 DEF Inv, ValuesSound, ValueSound
    <3>2. p \notin inst.undo
      BY <1>5, <2>1, <3>1, Orders
    <3>3. remote[p] = base[p]
      BY <1>3, <3>2
    <3>4. base[r] # Absent
      BY <2>2, <3>3 DEF Whole, Present
    <3> QED
      BY <1>5, <1>7, <3>4
  <2> QED
    BY <1>4, <1>5, <1>7, <2>2, RemoveWhole
<1> QED
  BY <1>6, <1>7
-----------------------------------------------------------------------------
(* The properties, and the beginning.                                      *)

LEMMA InvProperties == Inv => TypeOK /\ OutcomeIsTrue /\ ReferencesResolve
<1> SUFFICES ASSUME Inv PROVE TypeOK /\ OutcomeIsTrue /\ ReferencesResolve
  OBVIOUS
<1>1. {inst.blocked, inst.aborted, inst.unknown, inst.failed, suspect} \subseteq BOOLEAN
  <2>1. Flags
    BY DEF Inv, Typed
  <2> QED
    BY <2>1, Zenon DEF Flags
<1>2. \A w \in late : w[1] \in Ids /\ w[2] \in Values \cup {Absent}
  BY DEF Inv, ValuesSound, ValueSound
<1>3. late # {} => inst.unknown \/ inst.blocked \/ inst.pc = "down"
  BY DEF Inv, LateSound
<1>4. remote \in [Ids -> Values \cup {Absent}] /\ base \in [Ids -> Values \cup {Absent}]
  BY DEF Inv, ValuesSound
<1>5. TypeOK
  BY <1>1, <1>2, <1>3, <1>4 DEF Inv, Typed, TypeOK
<1>6. OutcomeIsTrue
  BY DEF Inv, ApplySound
<1>7. ReferencesResolve
  BY DEF Inv, RefsSound, ReferencesResolve
<1> QED
  BY <1>5, <1>6, <1>7

LEMMA InitInv == Init => Inv
<1> SUFFICES ASSUME Init PROVE Inv
  OBVIOUS
<1>1. ValuesSound
  BY TheirsSound DEF Init, ValuesSound
<1>2. Shape
  BY DEF Init, Shape, Fresh, NoReport
<1>3. Flags
  BY DEF Init, Flags, Fresh
<1>4. Typed
  BY <1>2, <1>3, GatewayAssumption DEF Init, Typed, Fresh, NoReport
<1>5. LateSound
  BY DEF Init, LateSound, Fresh
<1>6. ApplySound
  BY DEF Init, ApplySound, Active, Fresh, NoReport, Certain, OutcomeIsTrue
<1>7. RefsSound
  BY DEF Init, RefsSound, Whole, Present
<1> QED
  BY <1>1, <1>4, <1>5, <1>6, <1>7 DEF Inv

-----------------------------------------------------------------------------
(* The end of an apply.                                                    *)

Outcomes == Certain \cup {"unknown", "rollback_failed"}

\* The fields of the instance when an apply is over.
LEMMA FinishShape ==
    ASSUME Inv, NEW outcome \in Outcomes, Finish(outcome)
    PROVE  /\ Shape' /\ inst'.pc = "idle" /\ inst'.blocked \in BOOLEAN
           /\ inst'.blocked <=> outcome \in {"unknown", "rollback_failed"}
           /\ ~inst'.aborted /\ ~inst'.unknown /\ ~inst'.failed /\ inst'.aborted \in BOOLEAN
           /\ inst'.unknown \in BOOLEAN /\ inst'.failed \in BOOLEAN
           /\ inst'.checked = {} /\ inst'.todo = {} /\ inst'.attempted = {} /\ inst'.undo = {}
           /\ report'.outcome = outcome /\ report'.scope = report.scope
           /\ report'.manifest = report.manifest /\ report'.prune = report.prune
<1>1. PICK b \in BOOLEAN : b <=> outcome \in {"unknown", "rollback_failed"}
  OBVIOUS
<1>2. b = (outcome \in {"unknown", "rollback_failed"})
  BY <1>1, Zenon
<1>3. inst' = [Fresh EXCEPT !.blocked = b]
  BY <1>2 DEF Finish
<1>4. report' = [report EXCEPT !.outcome = outcome] /\ Shape
  BY DEF Finish, Inv, Typed
<1>5. report' = [outcome |-> outcome, scope |-> report.scope, manifest |-> report.manifest,
                 prune |-> report.prune]
  BY <1>4 DEF Shape
<1> QED
  BY <1>1, <1>3, <1>5 DEF Fresh, Shape

LEMMA FinishInv ==
    ASSUME Inv, Active, NEW outcome \in Outcomes, Finish(outcome),
           UNCHANGED <<remote, children, late, suspect, history>>,
           outcome \in {"applied", "no_change"} => remote = Published,
           outcome \in {"rolled_back", "unstarted"} => remote = base,
           outcome \in Certain => kept \subseteq children,
           late # {} => outcome \notin Certain
    PROVE  Inv'
<1>1. /\ Shape' /\ inst'.pc = "idle" /\ inst'.blocked \in BOOLEAN
      /\ inst'.blocked <=> outcome \in {"unknown", "rollback_failed"}
      /\ ~inst'.aborted /\ ~inst'.unknown /\ ~inst'.failed /\ inst'.aborted \in BOOLEAN
      /\ inst'.unknown \in BOOLEAN /\ inst'.failed \in BOOLEAN
      /\ inst'.checked = {} /\ inst'.todo = {} /\ inst'.attempted = {} /\ inst'.undo = {}
      /\ report'.outcome = outcome /\ report'.scope = report.scope
      /\ report'.manifest = report.manifest /\ report'.prune = report.prune
  BY FinishShape
<1>2. UNCHANGED <<remote, children, late, suspect, base, kept, applies>>
  BY DEF history
<1>3. ValuesSound'
  BY <1>2 DEF Inv, ValuesSound
<1>4. Typed'
  BY <1>1, <1>2 DEF Inv, Typed, Flags, Outcomes
<1>5. LateSound'
  BY <1>1, <1>2 DEF Inv, LateSound, Outcomes, Certain
<1>6. ReportSound
  BY DEF Inv, ApplySound, PlanSound
<1>7. Published' = Published
  BY <1>1, <1>2 DEF Published
<1>8. ApplySound'
  BY <1>1, <1>2, <1>6, <1>7 DEF ApplySound, Active, ReportSound, OutcomeIsTrue, Certain
<1>9. RefsSound'
  BY <1>1, <1>2 DEF Inv, RefsSound, Active
<1> QED
  BY <1>3, <1>4, <1>5, <1>8, <1>9 DEF Inv

\* Nothing is under way while an apply knows the effect of its writes.
LEMMA NothingLate ==
    ASSUME Inv, Active, ~inst.unknown
    PROVE  late = {}
BY DEF Inv, LateSound, Active

LEMMA GiveUpInv == Inv /\ GiveUp => Inv'
<1> SUFFICES ASSUME Inv, GiveUp PROVE Inv'
  OBVIOUS
<1>1. Active
  BY DEF GiveUp, Active
<1>2. ~inst.unknown
  BY DEF GiveUp, Inv, LateSound
<1>3. remote = base
  <2>1. CASE inst.pc = "planned"
    BY <2>1 DEF Inv, ApplySound, PlannedSound
  <2>2. CASE inst.pc = "writing" /\ inst.attempted = {}
    <3>1. \A r \in Ids : remote[r] = base[r]
      BY <2>2 DEF Inv, ApplySound, WritingSound
    <3> QED
      BY <3>1 DEF Inv, ValuesSound
  <2> QED
    BY <2>1, <2>2 DEF GiveUp
<1>4. kept \subseteq children
  BY <1>2 DEF GiveUp, Inv, ApplySound, PlannedSound, KeptSound
<1>5. late = {}
  BY <1>1, <1>2, NothingLate
<1> QED
  BY <1>1, <1>3, <1>4, <1>5, FinishInv DEF GiveUp, Outcomes, Certain

\* When everything planned was written, the manifest is published as a whole.
LEMMA AppliedInv == Inv /\ Applied => Inv'
<1> SUFFICES ASSUME Inv, Applied PROVE Inv'
  OBVIOUS
<1>1. Active /\ inst.pc = "writing" /\ inst.todo = {}
  BY DEF Applied, Active
<1>2. ~inst.unknown
  BY <1>1 DEF Inv, LateSound
<1>3. late = {} /\ kept \subseteq children
  BY <1>1, <1>2, NothingLate DEF Inv, ApplySound, KeptSound
<1>4. PICK s, m : s = report.scope /\ m = report.manifest
  OBVIOUS
<1>5. /\ s \in Scopes /\ m \in Manifests[s] /\ Planned \subseteq Ids \ Foreign
      /\ \A q \in Planned :
            /\ inst.after[q] # Absent => q \in DOMAIN m /\ inst.after[q] = Labelled(s, m[q])
            /\ inst.after[q] = Absent => /\ report.prune /\ base[q] # Absent /\ base[q].owner = s
                                         /\ q \notin DOMAIN m
      /\ \A q \in Ids \ Planned :
            /\ q \in DOMAIN m => base[q] = Labelled(s, m[q])
            /\ report.prune /\ q \notin DOMAIN m /\ base[q] # Absent => base[q].owner # s
  BY <1>1, <1>4, ActivePlan
<1>6. \A r \in Ids : remote[r] = IF r \in Planned THEN inst.after[r] ELSE base[r]
  BY <1>1 DEF Inv, ApplySound, WritingSound, Planned
<1>7. ASSUME NEW r \in Ids
      PROVE  remote[r] = IF r \in DOMAIN m THEN Labelled(s, m[r])
                         ELSE IF report.prune /\ base[r] # Absent /\ base[r].owner = s THEN Absent
                         ELSE base[r]
  <2>1. \A q \in DOMAIN m : Labelled(s, m[q]) # Absent
    BY <1>5, ManifestFacts
  <2> QED
    BY <1>5, <1>6, <2>1
<1>8. remote = Published
  BY <1>4, <1>7 DEF Published, Inv, ValuesSound
<1>9. PICK outcome \in {"applied", "no_change"} : Finish(outcome)
  BY DEF Applied
<1> QED
  BY <1>1, <1>3, <1>8, <1>9, FinishInv DEF Applied, Outcomes, Certain

LEMMA LateInv == Inv /\ Late => Inv'
BY FinishInv DEF Late, Active, Outcomes, Certain

LEMMA UndoneInv == Inv /\ Undone => Inv'
<1> SUFFICES ASSUME Inv, Undone PROVE Inv'
  OBVIOUS
<1>1. Active /\ inst.pc = "undoing"
  BY DEF Undone, Active
<1>2. PICK outcome : outcome = UndoOutcome
  OBVIOUS
<1>3. Finish(outcome) /\ outcome \in Outcomes
  BY <1>2 DEF Undone, UndoOutcome, Outcomes, Certain
<1>4. CASE outcome # "rolled_back"
  BY <1>1, <1>2, <1>3, <1>4, FinishInv DEF Undone, UndoOutcome, Certain
<1>5. CASE outcome = "rolled_back"
  <2>1. ~inst.unknown /\ ~inst.failed /\ inst.undo = {}
    BY <1>2, <1>5 DEF UndoOutcome
  <2>2. \A r \in Ids : remote[r] = base[r]
    BY <1>1, <2>1 DEF Inv, ApplySound, UndoingSound
  <2>3. remote = base
    BY <2>2 DEF Inv, ValuesSound
  <2>4. late = {} /\ kept \subseteq children
    BY <1>1, <2>1, NothingLate DEF Inv, ApplySound, KeptSound
  <2> QED
    BY <1>1, <1>3, <1>5, <2>3, <2>4, FinishInv DEF Undone, Certain
<1> QED
  BY <1>4, <1>5
-----------------------------------------------------------------------------
(* The plan.                                                               *)

LEMMA PlanInv ==
    ASSUME Inv, NEW s \in Scopes, NEW m \in Manifests[s], NEW prune \in BOOLEAN, Plan(s, m, prune)
    PROVE  Inv'
<1>1. /\ inst.pc = "idle" /\ ~inst.blocked /\ ~inst.unknown /\ ~inst.failed /\ late = {}
      /\ UNCHANGED <<remote, children, late, suspect>> /\ base' = remote /\ kept' = children
      /\ applies < MaxApplies /\ applies' = applies + 1
  BY DEF Plan, Inv, LateSound
<1>2. PICK T : T = TargetsOf(s, m, prune, remote)
  OBVIOUS
<1>3. PICK a, b : a = [r \in T |-> After(s, m, r)] /\ b = [r \in T |-> remote[r]]
  OBVIOUS
<1>4. inst' = [Fresh EXCEPT !.pc = "planned", !.todo = T, !.after = a, !.before = b]
  BY <1>2, <1>3 DEF Plan
<1>5. report' = [outcome |-> "none", scope |-> s, manifest |-> m, prune |-> prune]
  BY DEF Plan
<1>6. /\ inst'.pc = "planned" /\ ~inst'.blocked /\ ~inst'.aborted /\ ~inst'.unknown /\ ~inst'.failed
      /\ inst'.blocked \in BOOLEAN /\ inst'.aborted \in BOOLEAN /\ inst'.unknown \in BOOLEAN
      /\ inst'.failed \in BOOLEAN
      /\ inst'.checked = {} /\ inst'.todo = T /\ inst'.attempted = {} /\ inst'.undo = {} /\ inst'.after = a /\ inst'.before = b
      /\ report'.outcome = "none" /\ report'.scope = s /\ report'.manifest = m /\ report'.prune = prune
      /\ Shape'
  BY <1>4, <1>5 DEF Fresh, Shape
<1>7. T \subseteq Ids
  BY <1>2, TargetFacts DEF Inv, ValuesSound
<1>8. ValuesSound'
  BY <1>1 DEF Inv, ValuesSound
<1>9. Typed'
  BY <1>1, <1>6, <1>7, GatewayAssumption DEF Inv, Typed, Flags, Certain
<1>10. LateSound'
  BY <1>1, <1>6 DEF LateSound
<1>11. PlanSound'
  BY <1>1, <1>2, <1>3, <1>6 DEF PlanSound, ReportSound, Planned
<1>12. ApplySound'
  BY <1>1, <1>6, <1>11 DEF ApplySound, PlannedSound, OutcomeIsTrue, Certain
<1>13. RefsSound'
  BY <1>1 DEF Inv, RefsSound, Whole, Present
<1> QED
  BY <1>8, <1>9, <1>10, <1>12, <1>13 DEF Inv

\* A consumer that must not lose its credentials is not checked.
LEMMA ReadCredentialsInv ==
    ASSUME Inv, NEW c \in Consumers, ReadCredentials(c)
    PROVE  Inv'
<1>1. PICK k : k = inst.checked \cup {c}
  OBVIOUS
<1>2. /\ inst.pc = "planned" /\ c \notin children /\ Shape
      /\ UNCHANGED <<remote, children, late, report, suspect, base, kept, applies>>
      /\ inst' = [inst EXCEPT !.checked = k]
  BY <1>1 DEF ReadCredentials, history, Inv, Typed
<1>3. /\ Shape' /\ inst'.checked = k
      /\ inst'.pc = inst.pc /\ inst'.blocked = inst.blocked /\ inst'.aborted = inst.aborted
      /\ inst'.unknown = inst.unknown /\ inst'.failed = inst.failed
      /\ inst'.todo = inst.todo /\ inst'.attempted = inst.attempted
      /\ inst'.undo = inst.undo /\ inst'.after = inst.after /\ inst'.before = inst.before
  BY <1>2 DEF Shape
<1>4. ValuesSound'
  BY <1>2 DEF Inv, ValuesSound
<1>5. Typed'
  BY <1>1, <1>2, <1>3 DEF Inv, Typed, Flags
<1>6. LateSound'
  BY <1>2, <1>3 DEF Inv, LateSound
<1>7. PlanSound'
  BY <1>2, <1>3 DEF Inv, ApplySound, Active, PlanSound, ReportSound, Planned
<1>8. PlannedSound'
  BY <1>1, <1>2, <1>3 DEF Inv, ApplySound, PlannedSound
<1>9. ApplySound'
  BY <1>2, <1>3, <1>7, <1>8 DEF ApplySound, OutcomeIsTrue
<1>10. RefsSound'
  BY <1>2, <1>3 DEF Inv, RefsSound, Whole, Present
<1> QED
  BY <1>4, <1>5, <1>6, <1>9, <1>10 DEF Inv

\* The plan deletes no consumer that must not lose its credentials.
LEMMA AssertRestorableDeletionsInv == Inv /\ AssertRestorableDeletions => Inv'
<1> SUFFICES ASSUME Inv, AssertRestorableDeletions PROVE Inv'
  OBVIOUS
<1>1. /\ inst.pc = "planned" /\ Restorable
      /\ UNCHANGED <<remote, children, late, report, suspect, base, kept, applies>>
      /\ inst' = [inst EXCEPT !.pc = "writing"] /\ Shape
  BY DEF AssertRestorableDeletions, history, Inv, Typed
<1>2. /\ inst'.pc = "writing" /\ Shape' /\ inst'.checked = inst.checked
      /\ inst'.blocked = inst.blocked /\ inst'.aborted = inst.aborted /\ inst'.unknown = inst.unknown
      /\ inst'.failed = inst.failed /\ inst'.todo = inst.todo /\ inst'.attempted = inst.attempted
      /\ inst'.undo = inst.undo /\ inst'.after = inst.after /\ inst'.before = inst.before
  BY <1>1 DEF Shape
<1>3. ValuesSound'
  BY <1>1 DEF Inv, ValuesSound
<1>4. Typed'
  BY <1>1, <1>2 DEF Inv, Typed, Flags
<1>5. ~inst.unknown /\ ~inst.failed /\ ~inst.blocked
  BY <1>1 DEF Inv, LateSound
<1>6. LateSound'
  BY <1>1, <1>2, <1>5 DEF Inv, LateSound
<1>7. PlanSound /\ PlannedSound
  BY <1>1 DEF Inv, ApplySound, Active
<1>8. PlanSound'
  BY <1>1, <1>2, <1>7 DEF PlanSound, ReportSound, Planned
<1>9. WritingSound'
  BY <1>1, <1>2, <1>7 DEF WritingSound, PlannedSound, Inv, Typed
<1>10. KeptSound'
  <2>1. ASSUME NEW c \in kept, c \in Planned
        PROVE  inst.after[c] # Absent /\ inst.before[c] # Absent
    <3>1. c \in inst.todo /\ c \in Consumers /\ remote[c] # Absent /\ c \notin inst.checked
      BY <1>7, <2>1 DEF PlannedSound, Planned, Inv, Typed
    <3>2. inst.after[c] # Absent
      BY <1>1, <2>1, <3>1 DEF Restorable, Deleted
    <3>3. inst.before[c] = remote[c]
      BY <1>7, <2>1 DEF PlanSound, PlannedSound
    <3> QED
      BY <3>1, <3>2, <3>3
  <2>2. Planned' = Planned
    BY <1>2 DEF Planned
  <2> QED
    BY <1>1, <1>2, <1>7, <2>1, <2>2 DEF KeptSound, PlannedSound
<1>11. ApplySound'
  BY <1>2, <1>8, <1>9, <1>10 DEF ApplySound, OutcomeIsTrue
<1>12. RefsSound'
  BY <1>1, <1>2 DEF Inv, RefsSound, Whole, Present
<1> QED
  BY <1>3, <1>4, <1>6, <1>11, <1>12 DEF Inv

LEMMA AbortInv == Inv /\ Abort => Inv'
<1> SUFFICES ASSUME Inv, Abort PROVE Inv'
  OBVIOUS
<1>1. /\ Active /\ inst' = [inst EXCEPT !.aborted = TRUE] /\ Shape
      /\ UNCHANGED <<remote, children, late, report, suspect, base, kept, applies>>
  BY DEF Abort, Active, history, Inv, Typed
<1>2. /\ Shape' /\ inst'.aborted /\ inst'.aborted \in BOOLEAN /\ inst'.checked = inst.checked
      /\ inst'.pc = inst.pc /\ inst'.blocked = inst.blocked /\ inst'.unknown = inst.unknown
      /\ inst'.failed = inst.failed /\ inst'.todo = inst.todo /\ inst'.attempted = inst.attempted
      /\ inst'.undo = inst.undo /\ inst'.after = inst.after /\ inst'.before = inst.before
  BY <1>1 DEF Shape
<1>3. ValuesSound'
  BY <1>1 DEF Inv, ValuesSound
<1>4. Typed'
  BY <1>1, <1>2 DEF Inv, Typed, Flags
<1>5. LateSound'
  BY <1>1, <1>2 DEF Inv, LateSound
<1>6. PlanSound'
  BY <1>1, <1>2 DEF Inv, ApplySound, PlanSound, ReportSound, Planned
<1>7. /\ inst'.pc = "planned" => PlannedSound'
      /\ inst'.pc = "writing" => WritingSound'
      /\ inst'.pc = "undoing" => UndoingSound'
      /\ inst'.pc \in {"writing", "undoing"} => KeptSound'
  BY <1>1, <1>2 DEF Inv, ApplySound, PlannedSound, WritingSound, UndoingSound, KeptSound, Planned
<1>8. ApplySound'
  BY <1>1, <1>2, <1>6, <1>7 DEF ApplySound, OutcomeIsTrue, Active
<1>9. RefsSound'
  BY <1>1, <1>2 DEF Inv, RefsSound, Whole, Present
<1> QED
  BY <1>3, <1>4, <1>5, <1>8, <1>9 DEF Inv
-----------------------------------------------------------------------------
(* Writes.                                                                 *)

LEMMA ArrivesFacts ==
    ASSUME Inv, NEW r \in Ids \ Foreign, NEW v, ValueSound(r, v), Arrives(r, v)
    PROVE  /\ remote' \in [Ids -> Values \cup {Absent}]
           /\ \A p \in Ids : remote'[p] = IF p = r THEN v ELSE remote[p]
           /\ \A p \in Ids : ValueSound(p, remote'[p])
           /\ children' \subseteq {c \in Consumers : remote'[c] # Absent}
           /\ children \ {r} \subseteq children' /\ (v # Absent => children' = children)
<1>1. remote \in [Ids -> Values \cup {Absent}] /\ \A p \in Ids : ValueSound(p, remote[p])
  BY DEF Inv, ValuesSound
<1>2. remote' = [remote EXCEPT ![r] = v] /\ v \in Values \cup {Absent}
  BY DEF Arrives, ValueSound
<1>3. \A p \in Ids : remote'[p] = IF p = r THEN v ELSE remote[p]
  BY <1>1, <1>2
<1>4. children \subseteq {c \in Consumers : remote[c] # Absent} /\ Consumers \subseteq Ids
  BY GatewayAssumption DEF Inv, Typed
<1>5. children' = IF v = Absent THEN children \ {r} ELSE children
  BY DEF Arrives
<1> QED
  BY <1>1, <1>2, <1>3, <1>4, <1>5

\* A write, whatever becomes of it, leaves sound values everywhere.
LEMMA UnheardFacts ==
    ASSUME Inv, NEW r \in Ids \ Foreign, NEW v, ValueSound(r, v), base' = base,
           Unheard(r, v) \/ Nothing
    PROVE  /\ ValuesSound'
           /\ children' \subseteq {c \in Consumers : remote'[c] # Absent}
<1>1. /\ base \in [Ids -> Values \cup {Absent}] /\ remote \in [Ids -> Values \cup {Absent}]
      /\ \A p \in Ids : ValueSound(p, remote[p]) /\ ValueSound(p, base[p])
      /\ \A w \in late : w[1] \in Ids \ Foreign /\ ValueSound(w[1], w[2])
      /\ children \subseteq {c \in Consumers : remote[c] # Absent}
  BY DEF Inv, ValuesSound, Typed
<1>2. CASE Accepted(r, v)
  <2>1. Arrives(r, v) /\ late' = late
    BY <1>2 DEF Accepted
  <2>2. /\ remote' \in [Ids -> Values \cup {Absent}]
        /\ \A p \in Ids : ValueSound(p, remote'[p])
        /\ children' \subseteq {c \in Consumers : remote'[c] # Absent}
    BY <2>1, ArrivesFacts
  <2> QED
    BY <1>1, <2>1, <2>2 DEF ValuesSound
<1>3. CASE Nothing
  BY <1>1, <1>3 DEF Nothing, ValuesSound
<1>4. CASE late' = late \cup {<<r, v>>} /\ UNCHANGED <<remote, children>>
  <2>1. \A w \in late' : w[1] \in Ids \ Foreign /\ ValueSound(w[1], w[2])
    BY <1>1, <1>4
  <2> QED
    BY <1>1, <1>4, <2>1 DEF ValuesSound
<1> QED
  BY <1>2, <1>3, <1>4 DEF Unheard

\* The instance after a write that was tried.
LEMMA TriedShape ==
    ASSUME Shape, NEW r
    PROVE  Tried(r) = [pc |-> inst.pc, blocked |-> inst.blocked, aborted |-> inst.aborted,
                       unknown |-> inst.unknown, failed |-> inst.failed, checked |-> inst.checked,
                       todo |-> inst.todo \ {r}, attempted |-> inst.attempted \cup {r},
                       undo |-> inst.undo, after |-> inst.after, before |-> inst.before]
<1>1. PICK a, b : a = inst.todo \ {r} /\ b = inst.attempted \cup {r}
  OBVIOUS
<1>2. Tried(r) = [inst EXCEPT !.todo = a, !.attempted = b]
  BY <1>1 DEF Tried
<1>3. PICK p, k, d, u, f, n, y, z : /\ p = inst.pc /\ k = inst.blocked /\ d = inst.aborted
                                    /\ u = inst.unknown /\ f = inst.failed /\ n = inst.undo
                                    /\ y = inst.after /\ z = inst.before
  OBVIOUS
<1>4. PICK t, e, c : t = inst.todo /\ e = inst.attempted /\ c = inst.checked
  OBVIOUS
<1>5. inst = [pc |-> p, blocked |-> k, aborted |-> d, unknown |-> u, failed |-> f, checked |-> c,
              todo |-> t, attempted |-> e, undo |-> n, after |-> y, before |-> z]
  BY <1>3, <1>4 DEF Shape
<1>6. Tried(r) = [pc |-> p, blocked |-> k, aborted |-> d, unknown |-> u, failed |-> f, checked |-> c,
                  todo |-> a, attempted |-> b, undo |-> n, after |-> y, before |-> z]
  BY <1>2, <1>5
<1> QED
  BY <1>1, <1>3, <1>4, <1>6

LEMMA WriteFacts ==
    ASSUME Inv, NEW r \in Ids, Write(r)
    PROVE  /\ inst.pc = "writing" /\ Active /\ Active' /\ ~inst.unknown /\ ~inst.failed /\ ~inst.blocked
           /\ r \in inst.todo /\ r \in Ids \ Foreign /\ ValueSound(r, inst.after[r])
           /\ late = {} /\ UNCHANGED <<report, base, kept, applies>>
           /\ Shape' /\ inst'.checked = inst.checked /\ inst'.todo = inst.todo \ {r} /\ inst'.attempted = inst.attempted \cup {r}
           /\ inst'.after = inst.after /\ inst'.before = inst.before
           /\ inst'.blocked = inst.blocked /\ inst'.failed = inst.failed /\ inst'.aborted = inst.aborted
           /\ \/ /\ Accepted(r, inst.after[r]) /\ UNCHANGED suspect
                 /\ inst'.pc = "writing" /\ inst'.undo = inst.undo /\ ~inst'.unknown /\ inst'.unknown \in BOOLEAN
              \/ /\ Nothing /\ UNCHANGED suspect /\ ~inst'.unknown /\ inst'.unknown \in BOOLEAN
                 /\ inst'.pc = "undoing" /\ inst'.undo = inst.attempted \cup {r}
              \/ /\ Unheard(r, inst.after[r]) /\ suspect' /\ suspect' \in BOOLEAN
                 /\ inst'.unknown /\ inst'.unknown \in BOOLEAN
                 /\ inst'.pc = "undoing" /\ inst'.undo = inst.attempted \cup {r}
<1>1. /\ inst.pc = "writing" /\ Active /\ ~inst.unknown /\ ~inst.failed /\ ~inst.blocked /\ late = {}
      /\ r \in inst.todo /\ Shape /\ UNCHANGED <<report, base, kept, applies>>
      /\ inst.unknown \in BOOLEAN
  BY NextIsThere DEF Write, history, Active, Inv, LateSound, Typed, Flags
<1>2. r \in Ids \ Foreign /\ ValueSound(r, inst.after[r])
  BY <1>1, ActivePlan DEF Planned
<1>3. PICK t : t = Tried(r)
  OBVIOUS
<1>4. t = [pc |-> inst.pc, blocked |-> inst.blocked, aborted |-> inst.aborted,
           unknown |-> inst.unknown, failed |-> inst.failed, checked |-> inst.checked,
           todo |-> inst.todo \ {r}, attempted |-> inst.attempted \cup {r},
           undo |-> inst.undo, after |-> inst.after, before |-> inst.before]
  BY <1>1, <1>3, TriedShape
<1>5. CASE Accepted(r, inst.after[r]) /\ inst' = t /\ UNCHANGED suspect
  <2>1. /\ Shape' /\ inst'.checked = inst.checked /\ inst'.todo = inst.todo \ {r} /\ inst'.attempted = inst.attempted \cup {r}
        /\ inst'.after = inst.after /\ inst'.before = inst.before
        /\ inst'.blocked = inst.blocked /\ inst'.failed = inst.failed /\ inst'.aborted = inst.aborted
        /\ inst'.pc = inst.pc /\ inst'.undo = inst.undo /\ inst'.unknown = inst.unknown
    BY <1>1, <1>4, <1>5 DEF Shape
  <2> QED
    BY <1>1, <1>2, <1>5, <2>1 DEF Active
<1>6. ASSUME NEW u \in BOOLEAN,
             inst' = [t EXCEPT !.pc = "undoing", !.undo = inst.attempted \cup {r}, !.unknown = u]
      PROVE  /\ Shape' /\ inst'.checked = inst.checked /\ inst'.todo = inst.todo \ {r} /\ inst'.attempted = inst.attempted \cup {r}
             /\ inst'.after = inst.after /\ inst'.before = inst.before
             /\ inst'.blocked = inst.blocked /\ inst'.failed = inst.failed
             /\ inst'.aborted = inst.aborted /\ inst'.unknown = u
             /\ inst'.pc = "undoing" /\ inst'.undo = inst.attempted \cup {r}
  BY <1>1, <1>4, <1>6 DEF Shape
<1>7. CASE Nothing /\ UNCHANGED suspect
           /\ inst' = [t EXCEPT !.pc = "undoing", !.undo = inst.attempted \cup {r}, !.unknown = FALSE]
  BY <1>1, <1>2, <1>6, <1>7 DEF Active
<1>8. CASE Unheard(r, inst.after[r]) /\ suspect' = TRUE
           /\ inst' = [t EXCEPT !.pc = "undoing", !.undo = inst.attempted \cup {r}, !.unknown = TRUE]
  BY <1>1, <1>2, <1>6, <1>8 DEF Active
<1> QED
  BY <1>3, <1>5, <1>7, <1>8 DEF Write, Failing

LEMMA WriteInv ==
    ASSUME Inv, NEW r \in Ids, Write(r)
    PROVE  Inv'
<1>1. /\ inst.pc = "writing" /\ Active /\ Active' /\ ~inst.unknown /\ ~inst.failed /\ ~inst.blocked
      /\ r \in inst.todo /\ r \in Ids \ Foreign /\ ValueSound(r, inst.after[r])
      /\ late = {} /\ UNCHANGED <<report, base, kept, applies>>
      /\ Shape' /\ inst'.checked = inst.checked /\ inst'.todo = inst.todo \ {r} /\ inst'.attempted = inst.attempted \cup {r}
      /\ inst'.after = inst.after /\ inst'.before = inst.before
      /\ inst'.blocked = inst.blocked /\ inst'.failed = inst.failed /\ inst'.aborted = inst.aborted
  BY WriteFacts
<1>2. \/ /\ Accepted(r, inst.after[r]) /\ UNCHANGED suspect
         /\ inst'.pc = "writing" /\ inst'.undo = inst.undo /\ ~inst'.unknown /\ inst'.unknown \in BOOLEAN
      \/ /\ Nothing /\ UNCHANGED suspect /\ ~inst'.unknown /\ inst'.unknown \in BOOLEAN
         /\ inst'.pc = "undoing" /\ inst'.undo = inst.attempted \cup {r}
      \/ /\ Unheard(r, inst.after[r]) /\ suspect' /\ suspect' \in BOOLEAN
         /\ inst'.unknown /\ inst'.unknown \in BOOLEAN
         /\ inst'.pc = "undoing" /\ inst'.undo = inst.attempted \cup {r}
  BY WriteFacts
<1>3. ValuesSound' /\ children' \subseteq {c \in Consumers : remote'[c] # Absent}
  BY <1>1, <1>2, UnheardFacts DEF Unheard
<1>4. inst.undo = {} /\ \A p \in Ids : remote[p] = IF p \in inst.attempted THEN inst.after[p] ELSE base[p]
  BY <1>1 DEF Inv, ApplySound, WritingSound
<1>5. Typed'
  <2>1. Flags'
    <3>1. /\ inst.blocked \in BOOLEAN /\ inst.aborted \in BOOLEAN /\ inst.failed \in BOOLEAN
          /\ suspect \in BOOLEAN
      BY DEF Inv, Typed, Flags
    <3>2. inst'.blocked \in BOOLEAN /\ inst'.aborted \in BOOLEAN /\ inst'.failed \in BOOLEAN
      BY <1>1, <3>1
    <3>3. inst'.unknown \in BOOLEAN /\ suspect' \in BOOLEAN
      BY <1>2, <3>1, Zenon
    <3> QED
      BY <3>2, <3>3 DEF Flags
  <2>2. /\ inst'.todo \subseteq Ids /\ inst'.attempted \subseteq Ids \ inst'.todo
        /\ inst'.undo \subseteq inst'.attempted
    BY <1>1, <1>2, <1>4 DEF Inv, Typed
  <2> QED
    BY <1>1, <1>2, <1>3, <2>1, <2>2 DEF Inv, Typed
<1>6. LateSound'
  <2>1. late' # {} => inst'.unknown /\ suspect'
    BY <1>1, <1>2 DEF Accepted, Nothing
  <2>2. inst'.unknown => inst'.pc = "undoing" /\ suspect'
    BY <1>2
  <2> QED
    BY <1>1, <2>1, <2>2 DEF LateSound
<1>7. Planned' = Planned
  BY <1>1 DEF Planned
<1>8. PlanSound'
  BY <1>1, <1>7 DEF Inv, ApplySound, PlanSound, ReportSound
<1>9. KeptSound'
  <2>1. KeptSound /\ r \in Planned
    BY <1>1 DEF Inv, ApplySound, Planned
  <2>2. kept \subseteq children /\ (r \in kept => inst.after[r] # Absent)
    BY <1>1, <2>1 DEF KeptSound
  <2>3. ~inst'.unknown => kept \subseteq children'
    <3>1. CASE Accepted(r, inst.after[r])
      BY <1>1, <2>2, <3>1, ArrivesFacts DEF Accepted
    <3>2. CASE Nothing
      BY <2>2, <3>2 DEF Nothing
    <3> QED
      BY <1>2, <3>1, <3>2
  <2> QED
    BY <1>1, <1>7, <2>1, <2>3 DEF KeptSound
<1>10. inst'.pc = "writing" => WritingSound'
  <2>1. CASE Accepted(r, inst.after[r]) /\ inst'.undo = inst.undo
    <3>1. \A p \in Ids : remote'[p] = IF p = r THEN inst.after[r] ELSE remote[p]
      BY <1>1, <2>1, ArrivesFacts DEF Accepted
    <3> QED
      BY <1>1, <1>4, <2>1, <3>1 DEF WritingSound
  <2> QED
    BY <1>2, <2>1
<1>11. inst'.pc = "undoing" => UndoingSound'
  BY <1>1, <1>2, <1>4 DEF UndoingSound, Nothing
<1>12. ApplySound'
  BY <1>2, <1>8, <1>9, <1>10, <1>11 DEF ApplySound, OutcomeIsTrue
<1>13. RefsSound'
  <2>1. SUFFICES ASSUME ~suspect' PROVE Whole(remote)' /\ Whole(base)'
    BY DEF RefsSound
  <2>2. ~suspect /\ Whole(remote) /\ Whole(base)
    BY <1>1, <1>2, <2>1 DEF Inv, RefsSound
  <2>3. CASE Nothing
    BY <1>1, <2>2, <2>3 DEF Nothing, Whole, Present
  <2>4. CASE Accepted(r, inst.after[r])
    <3>1. r \in NextOf(inst.todo, inst.after)
      BY DEF Write
    <3>2. PICK new : new = remote'
      OBVIOUS
    <3>3. \A p \in Ids : new[p] = IF p = r THEN inst.after[r] ELSE remote[p]
      BY <1>1, <2>4, <3>2, ArrivesFacts DEF Accepted
    <3>4. Whole(new)
      BY <1>1, <2>2, <3>1, <3>3, WriteWhole
    <3> QED
      BY <1>1, <2>2, <3>2, <3>4 DEF Whole, Present
  <2> QED
    BY <1>2, <2>1, <2>3, <2>4
<1> QED
  BY <1>3, <1>5, <1>6, <1>12, <1>13 DEF Inv
-----------------------------------------------------------------------------
(* Undoing.                                                                *)

LEMMA UndoFacts ==
    ASSUME Inv, NEW r \in Ids, Undo(r)
    PROVE  /\ inst.pc = "undoing" /\ Active /\ ~inst.blocked
           /\ r \in inst.undo /\ r \in Planned /\ r \in Ids \ Foreign
           /\ ValueSound(r, inst.before[r]) /\ inst.before[r] = base[r]
           /\ UNCHANGED <<report, base, kept, applies>>
           /\ Shape' /\ inst'.pc = "undoing" /\ inst'.undo = inst.undo \ {r}
           /\ inst'.checked = inst.checked
           /\ inst'.todo = inst.todo /\ inst'.attempted = inst.attempted
           /\ inst'.after = inst.after /\ inst'.before = inst.before
           /\ inst'.blocked = inst.blocked /\ inst'.aborted = inst.aborted
           /\ \/ /\ Accepted(r, inst.before[r]) /\ UNCHANGED suspect
                 /\ inst'.unknown = inst.unknown /\ inst'.failed = inst.failed
              \/ /\ Nothing /\ suspect' = TRUE
                 /\ inst'.unknown = inst.unknown /\ inst'.failed = TRUE
              \/ /\ Unheard(r, inst.before[r]) /\ suspect' = TRUE
                 /\ inst'.unknown = TRUE /\ inst'.failed = inst.failed
<1>1. /\ inst.pc = "undoing" /\ Active /\ ~inst.blocked /\ r \in inst.undo /\ r \in Planned /\ Shape
      /\ UNCHANGED <<report, base, kept, applies>>
  BY NextIsThere DEF Undo, history, Active, Inv, LateSound, Typed, Planned
<1>2. r \in Ids \ Foreign /\ ValueSound(r, inst.before[r]) /\ inst.before[r] = base[r]
  BY <1>1, ActivePlan
<1>3. PICK n : n = inst.undo \ {r}
  OBVIOUS
<1>4. CASE Accepted(r, inst.before[r]) /\ inst' = [inst EXCEPT !.undo = n] /\ UNCHANGED suspect
  <2>1. /\ Shape' /\ inst'.pc = inst.pc /\ inst'.undo = n
        /\ inst'.checked = inst.checked
        /\ inst'.todo = inst.todo /\ inst'.attempted = inst.attempted
        /\ inst'.after = inst.after /\ inst'.before = inst.before
        /\ inst'.blocked = inst.blocked /\ inst'.aborted = inst.aborted
        /\ inst'.unknown = inst.unknown /\ inst'.failed = inst.failed
    BY <1>1, <1>4 DEF Shape
  <2> QED
    BY <1>1, <1>2, <1>3, <1>4, <2>1
<1>5. CASE Nothing /\ inst' = [inst EXCEPT !.undo = n, !.failed = TRUE] /\ suspect' = TRUE
  <2>1. /\ Shape' /\ inst'.pc = inst.pc /\ inst'.undo = n
        /\ inst'.checked = inst.checked
        /\ inst'.todo = inst.todo /\ inst'.attempted = inst.attempted
        /\ inst'.after = inst.after /\ inst'.before = inst.before
        /\ inst'.blocked = inst.blocked /\ inst'.aborted = inst.aborted
        /\ inst'.unknown = inst.unknown /\ inst'.failed = TRUE
    BY <1>1, <1>5 DEF Shape
  <2> QED
    BY <1>1, <1>2, <1>3, <1>5, <2>1
<1>6. CASE Unheard(r, inst.before[r]) /\ inst' = [inst EXCEPT !.undo = n, !.unknown = TRUE]
           /\ suspect' = TRUE
  <2>1. /\ Shape' /\ inst'.pc = inst.pc /\ inst'.undo = n
        /\ inst'.checked = inst.checked
        /\ inst'.todo = inst.todo /\ inst'.attempted = inst.attempted
        /\ inst'.after = inst.after /\ inst'.before = inst.before
        /\ inst'.blocked = inst.blocked /\ inst'.aborted = inst.aborted
        /\ inst'.unknown = TRUE /\ inst'.failed = inst.failed
    BY <1>1, <1>6 DEF Shape
  <2> QED
    BY <1>1, <1>2, <1>3, <1>6, <2>1
<1> QED
  BY <1>3, <1>4, <1>5, <1>6 DEF Undo

LEMMA UndoInv ==
    ASSUME Inv, NEW r \in Ids, Undo(r)
    PROVE  Inv'
<1>1. /\ inst.pc = "undoing" /\ Active /\ ~inst.blocked
      /\ r \in inst.undo /\ r \in Planned /\ r \in Ids \ Foreign
      /\ ValueSound(r, inst.before[r]) /\ inst.before[r] = base[r]
      /\ UNCHANGED <<report, base, kept, applies>>
      /\ Shape' /\ inst'.pc = "undoing" /\ inst'.undo = inst.undo \ {r}
      /\ inst'.checked = inst.checked
      /\ inst'.todo = inst.todo /\ inst'.attempted = inst.attempted
      /\ inst'.after = inst.after /\ inst'.before = inst.before
      /\ inst'.blocked = inst.blocked /\ inst'.aborted = inst.aborted
  BY UndoFacts
<1>2. \/ /\ Accepted(r, inst.before[r]) /\ UNCHANGED suspect
         /\ inst'.unknown = inst.unknown /\ inst'.failed = inst.failed
      \/ /\ Nothing /\ suspect' = TRUE
         /\ inst'.unknown = inst.unknown /\ inst'.failed = TRUE
      \/ /\ Unheard(r, inst.before[r]) /\ suspect' = TRUE
         /\ inst'.unknown = TRUE /\ inst'.failed = inst.failed
  BY UndoFacts
<1>3. ValuesSound' /\ children' \subseteq {c \in Consumers : remote'[c] # Absent}
  BY <1>1, <1>2, UnheardFacts DEF Unheard
<1>4. Typed'
  <2>1. Flags'
    BY <1>1, <1>2 DEF Flags, Inv, Typed
  <2> QED
    BY <1>1, <1>3, <2>1 DEF Inv, Typed
<1>5. LateSound'
  BY <1>1, <1>2 DEF Inv, LateSound, Accepted, Nothing
<1>6. Planned' = Planned
  BY <1>1 DEF Planned
<1>7. PlanSound'
  BY <1>1, <1>6 DEF Inv, ApplySound, PlanSound, ReportSound
<1>8. KeptSound'
  <2>1. KeptSound
    BY <1>1 DEF Inv, ApplySound
  <2>2. ~inst'.unknown => kept \subseteq children'
    <3>1. CASE Accepted(r, inst.before[r]) /\ ~inst.unknown
      <4>1. kept \subseteq children /\ (r \in kept => inst.before[r] # Absent)
        BY <1>1, <2>1, <3>1 DEF KeptSound
      <4> QED
        BY <1>1, <3>1, <4>1, ArrivesFacts DEF Accepted
    <3>2. CASE Nothing /\ ~inst.unknown
      BY <2>1, <3>2 DEF Nothing, KeptSound
    <3> QED
      BY <1>2, <3>1, <3>2
  <2> QED
    BY <1>1, <1>6, <2>1, <2>2 DEF KeptSound
<1>9. UndoingSound'
  <2>1. SUFFICES ASSUME ~inst'.unknown, ~inst'.failed PROVE UndoingSound'
    BY DEF UndoingSound
  <2>2. Accepted(r, inst.before[r]) /\ ~inst.unknown /\ ~inst.failed
    BY <1>2, <2>1
  <2>3. \A p \in Ids : remote[p] # base[p] => p \in inst.undo /\ remote[p] = inst.after[p]
    BY <1>1, <2>2 DEF Inv, ApplySound, UndoingSound
  <2>4. \A p \in Ids : remote'[p] = IF p = r THEN base[r] ELSE remote[p]
    BY <1>1, <2>2, ArrivesFacts DEF Accepted
  <2> QED
    BY <1>1, <2>3, <2>4 DEF UndoingSound
<1>10. ApplySound'
  BY <1>1, <1>7, <1>8, <1>9 DEF ApplySound, OutcomeIsTrue
<1>11. RefsSound'
  <2>1. SUFFICES ASSUME ~suspect' PROVE Whole(remote)' /\ Whole(base)'
    BY DEF RefsSound
  <2>2. Accepted(r, inst.before[r]) /\ ~suspect /\ Whole(remote) /\ Whole(base)
    BY <1>1, <1>2, <2>1 DEF Inv, RefsSound
  <2>3. ~inst.unknown /\ ~inst.failed
    BY <2>2 DEF Inv, LateSound
  <2>4. r \in NextOf(inst.undo, inst.before)
    BY DEF Undo
  <2>5. PICK new : new = remote'
    OBVIOUS
  <2>6. \A p \in Ids : new[p] = IF p = r THEN inst.before[r] ELSE remote[p]
    BY <1>1, <2>2, <2>5, ArrivesFacts DEF Accepted
  <2>7. Whole(new)
    BY <1>1, <2>2, <2>3, <2>4, <2>6, UndoWhole
  <2> QED
    BY <1>1, <2>2, <2>5, <2>7 DEF Whole, Present
<1> QED
  BY <1>3, <1>4, <1>5, <1>10, <1>11 DEF Inv
-----------------------------------------------------------------------------
(* Processes, and the others.                                              *)

LEMMA FreshShape ==
    ASSUME Shape, report' = report \/ report' = NoReport,
           inst' = Fresh \/ inst' = [Fresh EXCEPT !.pc = "down"]
    PROVE  /\ Shape'
           /\ ~inst'.blocked /\ ~inst'.aborted /\ ~inst'.unknown /\ ~inst'.failed
           /\ inst'.blocked \in BOOLEAN /\ inst'.aborted \in BOOLEAN
           /\ inst'.unknown \in BOOLEAN /\ inst'.failed \in BOOLEAN
           /\ inst'.checked = {} /\ inst'.todo = {} /\ inst'.attempted = {} /\ inst'.undo = {}
           /\ inst' = Fresh => inst'.pc = "idle"
           /\ inst' = [Fresh EXCEPT !.pc = "down"] => inst'.pc = "down"
           /\ report' = NoReport => report'.outcome = "none"
<1>1. report' = [outcome |-> report'.outcome, scope |-> report'.scope, manifest |-> report'.manifest,
                 prune |-> report'.prune]
  BY DEF Shape, NoReport
<1>2. CASE inst' = Fresh
  BY <1>1, <1>2 DEF Fresh, Shape, NoReport
<1>3. CASE inst' = [Fresh EXCEPT !.pc = "down"]
  <2>1. inst' = [pc |-> "down", blocked |-> FALSE, aborted |-> FALSE, unknown |-> FALSE, failed |-> FALSE,
                 checked |-> {}, todo |-> {}, attempted |-> {}, undo |-> {}, after |-> <<>>,
                 before |-> <<>>]
    BY <1>3 DEF Fresh
  <2>2. inst' = Fresh => inst'.pc = "idle"
    BY DEF Fresh
  <2>3. report' = NoReport => report'.outcome = "none"
    BY DEF NoReport
  <2> QED
    BY <1>1, <2>1, <2>2, <2>3 DEF Shape
<1> QED
  BY <1>2, <1>3

LEMMA CrashInv == Inv /\ Crash => Inv'
<1> SUFFICES ASSUME Inv, Crash PROVE Inv'
  OBVIOUS
<1>1. /\ inst.pc \notin {"idle", "down"} /\ inst' = [Fresh EXCEPT !.pc = "down"]
      /\ UNCHANGED <<remote, children, late, report, suspect, base, kept, applies>> /\ Shape
  BY DEF Crash, history, Inv, Typed
<1>2. /\ Shape' /\ inst'.pc = "down"
      /\ ~inst'.blocked /\ ~inst'.aborted /\ ~inst'.unknown /\ ~inst'.failed
      /\ inst'.blocked \in BOOLEAN /\ inst'.aborted \in BOOLEAN
      /\ inst'.unknown \in BOOLEAN /\ inst'.failed \in BOOLEAN
      /\ inst'.checked = {} /\ inst'.todo = {} /\ inst'.attempted = {} /\ inst'.undo = {}
  BY <1>1, FreshShape
<1>3. ValuesSound'
  BY <1>1 DEF Inv, ValuesSound
<1>4. Typed'
  BY <1>1, <1>2 DEF Inv, Typed, Flags
<1>5. LateSound'
  BY <1>1, <1>2 DEF Inv, LateSound
<1>6. ApplySound'
  BY <1>2 DEF ApplySound, Active, OutcomeIsTrue
<1>7. RefsSound'
  BY <1>1, <1>2 DEF Inv, RefsSound, Whole, Present
<1> QED
  BY <1>3, <1>4, <1>5, <1>6, <1>7 DEF Inv

LEMMA RestartInv == Inv /\ Restart => Inv'
<1> SUFFICES ASSUME Inv, Restart PROVE Inv'
  OBVIOUS
<1>1. /\ late = {} /\ inst' = Fresh /\ report' = NoReport /\ remote' \in {remote, base}
      /\ UNCHANGED <<late, base, kept, applies>> /\ Shape
      /\ children' = {c \in children : remote'[c] # Absent}
  BY DEF Restart, history, Inv, Typed
<1>2. /\ Shape' /\ inst'.pc = "idle" /\ report'.outcome = "none"
      /\ ~inst'.blocked /\ ~inst'.aborted /\ ~inst'.unknown /\ ~inst'.failed
      /\ inst'.blocked \in BOOLEAN /\ inst'.aborted \in BOOLEAN
      /\ inst'.unknown \in BOOLEAN /\ inst'.failed \in BOOLEAN
      /\ inst'.checked = {} /\ inst'.todo = {} /\ inst'.attempted = {} /\ inst'.undo = {}
  BY <1>1, FreshShape
<1>3. ValuesSound'
  BY <1>1 DEF Inv, ValuesSound
<1>4. suspect' \in BOOLEAN /\ (~suspect' => ~suspect \/ Whole(remote)')
  <2>1. suspect' = (suspect /\ ~Whole(remote'))
    BY DEF Restart
  <2>2. Whole(remote') <=> Whole(remote)'
    BY DEF Whole, Present
  <2> QED
    BY <2>1, <2>2, Zenon
<1>5. Typed'
  BY <1>1, <1>2, <1>4 DEF Inv, Typed, Flags, NoReport
<1>6. LateSound'
  BY <1>1, <1>2 DEF LateSound
<1>7. ApplySound'
  BY <1>2 DEF ApplySound, Active, OutcomeIsTrue, Certain
<1>8. RefsSound'
  <2>1. ~suspect => Whole(remote) /\ Whole(base)
    BY DEF Restart, Inv, RefsSound
  <2>2. ~suspect => Whole(remote)'
    BY <1>1, <2>1 DEF Whole, Present
  <2> QED
    BY <1>2, <1>4, <2>2 DEF RefsSound
<1> QED
  BY <1>3, <1>5, <1>6, <1>7, <1>8 DEF Inv

\* What arrives late changes APISIX under an apply that knows, or has told.
LEMMA LateWriteInv ==
    ASSUME Inv, NEW w \in late, LateArrives(w) \/ LateLost(w)
    PROVE  Inv'
<1>1. /\ late' = late \ {w} /\ UNCHANGED <<inst, report, suspect, base, kept, applies>>
      /\ late # {}
  BY DEF LateArrives, LateLost, history
<1>2. /\ suspect /\ (inst.unknown \/ inst.blocked \/ inst.pc = "down")
      /\ inst.unknown => inst.pc = "undoing"
      /\ inst.blocked => inst.pc = "idle" /\ report.outcome \notin Certain
  BY <1>1 DEF Inv, LateSound
<1>3. /\ remote' \in [Ids -> Values \cup {Absent}] /\ \A p \in Ids : ValueSound(p, remote'[p])
      /\ children' \subseteq {c \in Consumers : remote'[c] # Absent}
  <2>1. CASE LateLost(w)
    BY <2>1 DEF LateLost, Inv, ValuesSound, Typed
  <2>2. CASE LateArrives(w)
    <3>1. w[1] \in Ids \ Foreign /\ ValueSound(w[1], w[2]) /\ Arrives(w[1], w[2])
      BY <2>2 DEF LateArrives, Inv, ValuesSound
    <3> QED
      BY <3>1, ArrivesFacts
  <2> QED
    BY <2>1, <2>2
<1>4. ValuesSound'
  BY <1>1, <1>3 DEF Inv, ValuesSound
<1>5. Typed'
  BY <1>1, <1>3 DEF Inv, Typed, Shape, Flags
<1>6. LateSound'
  BY <1>1, <1>2 DEF Inv, LateSound
<1>7. Active => inst.pc = "undoing" /\ inst.unknown
  BY <1>2 DEF Active
<1>8. Active => PlanSound'
  BY <1>1 DEF Inv, ApplySound, PlanSound, ReportSound, Planned
<1>9. Active => KeptSound' /\ UndoingSound'
  BY <1>1, <1>7 DEF Inv, ApplySound, KeptSound, UndoingSound, Planned
<1>10. inst.pc = "idle" => report.outcome \notin Certain
  BY <1>2
<1>11. ApplySound'
  BY <1>1, <1>7, <1>8, <1>9, <1>10 DEF ApplySound, OutcomeIsTrue, Active, Certain
<1>12. RefsSound'
  BY <1>1, <1>2 DEF RefsSound
<1> QED
  BY <1>4, <1>5, <1>6, <1>11, <1>12 DEF Inv

\* Nothing of an apply is about a resource of others.
LEMMA ForeignWriteInv ==
    ASSUME Inv, NEW r \in Foreign, ForeignWrite(r)
    PROVE  Inv'
<1>1. /\ UNCHANGED <<children, late, inst, report, suspect, kept, applies>> /\ r \in Ids
      /\ remote \in [Ids -> Values \cup {Absent}] /\ base \in [Ids -> Values \cup {Absent}]
      /\ \A p \in Ids : ValueSound(p, remote[p]) /\ ValueSound(p, base[p])
  BY GatewayAssumption DEF ForeignWrite, Inv, ValuesSound
<1>2. PICK v \in {Theirs, Absent} : /\ remote' = [remote EXCEPT ![r] = v]
                                    /\ base' = [base EXCEPT ![r] = v]
  BY DEF ForeignWrite
<1>3. ValueSound(r, v) /\ (v # Absent => v.owner = Unowned /\ v.refs = {})
  BY <1>1, <1>2, TheirsSound
<1>4. v \in Values \cup {Absent}
  BY <1>3 DEF ValueSound
<1>5. /\ \A p \in Ids : remote'[p] = IF p = r THEN v ELSE remote[p]
      /\ \A p \in Ids : base'[p] = IF p = r THEN v ELSE base[p]
      /\ remote' \in [Ids -> Values \cup {Absent}] /\ base' \in [Ids -> Values \cup {Absent}]
  BY <1>1, <1>2, <1>4
<1>6. /\ \A p \in Ids : ValueSound(p, remote'[p]) /\ ValueSound(p, base'[p])
  BY <1>1, <1>3, <1>5
<1>7. ValuesSound'
  BY <1>1, <1>5, <1>6 DEF Inv, ValuesSound
<1>8. Typed'
  <2>1. children' \subseteq {c \in Consumers : remote'[c] # Absent}
    BY <1>1, <1>5, GatewayAssumption DEF Inv, Typed
  <2> QED
    BY <1>1, <2>1 DEF Inv, Typed, Shape, Flags
<1>9. LateSound'
  BY <1>1 DEF Inv, LateSound
<1>10. ASSUME Active
       PROVE  PlanSound' /\ r \notin Planned
  <2>1. PlanSound /\ Planned \subseteq Ids \ Foreign
    BY <1>10, ActivePlan DEF Inv, ApplySound
  <2>2. TargetsOf(report.scope, report.manifest, report.prune, base')
          = TargetsOf(report.scope, report.manifest, report.prune, base)
    <3>1. PICK s, m, u, new : s = report.scope /\ m = report.manifest /\ u = report.prune /\ new = base'
      OBVIOUS
    <3>2. TargetsOf(s, m, u, new) = TargetsOf(s, m, u, base)
      BY <1>1, <1>5, <1>6, <2>1, <3>1, TargetsStay DEF PlanSound, ReportSound
    <3> QED
      BY <3>1, <3>2
  <2>3. Planned' = Planned
    BY <1>1 DEF Planned
  <2>4. TargetsOf(report.scope, report.manifest, report.prune, base)'
          = TargetsOf(report.scope, report.manifest, report.prune, base')
    BY <1>1 DEF TargetsOf, Upserts, Deletes, Present
  <2> QED
    BY <1>1, <1>5, <2>1, <2>2, <2>3, <2>4 DEF PlanSound, ReportSound
<1>11. inst.pc = "planned" => PlannedSound'
  BY <1>1, <1>2, <1>5 DEF Inv, ApplySound, PlannedSound
<1>12. inst.pc = "writing" => WritingSound'
  BY <1>1, <1>5, <1>10 DEF Inv, ApplySound, WritingSound, Active, Planned
<1>13. inst.pc = "undoing" => UndoingSound'
  BY <1>1, <1>5, <1>10 DEF Inv, ApplySound, UndoingSound, Active, Planned
<1>14. inst.pc \in {"writing", "undoing"} => KeptSound'
  BY <1>1 DEF Inv, ApplySound, KeptSound, Planned
<1>15. OutcomeIsTrue'
  <2>1. SUFFICES ASSUME inst.pc = "idle", report.outcome \in Certain
                 PROVE  /\ report.outcome \in {"applied", "no_change"} => remote' = Published'
                        /\ report.outcome \in {"rolled_back", "unstarted"} => remote' = base'
                        /\ kept \subseteq children
    BY <1>1 DEF OutcomeIsTrue, Certain
  <2>2. ReportSound /\ OutcomeIsTrue
    BY <2>1 DEF Inv, ApplySound
  <2>3. ASSUME remote = Published PROVE remote' = Published'
    <3>1. PICK s, m : s = report.scope /\ m = report.manifest
      OBVIOUS
    <3>2. s \in Scopes /\ m \in Manifests[s] /\ s # Unowned
      BY <2>2, <3>1, GatewayAssumption DEF ReportSound
    <3>3. r \notin DOMAIN m
      BY <3>2, ManifestFacts
    <3>4. Published = [p \in Ids |->
                         IF p \in DOMAIN m THEN Labelled(s, m[p])
                         ELSE IF report.prune /\ base[p] # Absent /\ base[p].owner = s THEN Absent
                         ELSE base[p]]
      BY <3>1 DEF Published
    <3>5. Published' = [p \in Ids |->
                          IF p \in DOMAIN m THEN Labelled(s, m[p])
                          ELSE IF report.prune /\ base'[p] # Absent /\ base'[p].owner = s THEN Absent
                          ELSE base'[p]]
      BY <1>1, <3>1 DEF Published
    <3>6. ASSUME NEW p \in Ids
          PROVE  remote'[p] = IF p \in DOMAIN m THEN Labelled(s, m[p])
                              ELSE IF report.prune /\ base'[p] # Absent /\ base'[p].owner = s THEN Absent
                              ELSE base'[p]
      BY <1>3, <1>5, <2>3, <3>2, <3>3, <3>4
    <3> QED
      BY <1>5, <3>5, <3>6
  <2>4. remote = base => remote' = base'
    BY <1>2
  <2> QED
    BY <2>1, <2>2, <2>3, <2>4 DEF OutcomeIsTrue
<1>16. ReportSound => ReportSound'
  BY <1>1 DEF ReportSound
<1>17. ApplySound'
  BY <1>1, <1>10, <1>11, <1>12, <1>13, <1>14, <1>15, <1>16 DEF ApplySound, Active, Inv
<1>18. RefsSound'
  <2>1. ASSUME NEW old, NEW new, Whole(old), \A p \in Ids : ValueSound(p, old[p]),
               \A p \in Ids : new[p] = IF p = r THEN v ELSE old[p]
        PROVE  Whole(new)
    BY <1>3, <2>1 DEF Whole, Present, ValueSound
  <2>2. PICK new, found : new = remote' /\ found = base'
    OBVIOUS
  <2>3. (Whole(remote) => Whole(new)) /\ (Whole(base) => Whole(found))
    BY <1>1, <1>5, <2>1, <2>2
  <2>4. (Whole(new) => Whole(remote)') /\ (Whole(found) => Whole(base)')
    BY <2>2 DEF Whole, Present
  <2> QED
    BY <1>1, <2>3, <2>4 DEF RefsSound, Inv
<1> QED
  BY <1>7, <1>8, <1>9, <1>17, <1>18 DEF Inv

LEMMA AddCredentialInv ==
    ASSUME Inv, NEW c \in Consumers, AddCredential(c)
    PROVE  Inv'
<1>1. /\ remote[c] # Absent /\ children' = children \cup {c}
      /\ UNCHANGED <<remote, late, inst, report, suspect, base, applies>>
      /\ kept' = kept \/ (inst.pc = "planned" /\ c \notin inst.checked /\ kept' = kept \cup {c})
  BY DEF AddCredential
<1>2. ValuesSound'
  BY <1>1 DEF Inv, ValuesSound
<1>3. Typed'
  BY <1>1 DEF Inv, Typed, Shape, Flags
<1>4. LateSound'
  BY <1>1 DEF Inv, LateSound
<1>5. Active => PlanSound'
  BY <1>1 DEF Inv, ApplySound, PlanSound, ReportSound, Planned
<1>6. /\ inst.pc = "planned" => PlannedSound'
      /\ inst.pc = "writing" => WritingSound'
      /\ inst.pc = "undoing" => UndoingSound'
      /\ inst.pc \in {"writing", "undoing"} => KeptSound'
  BY <1>1 DEF Inv, ApplySound, PlannedSound, WritingSound, UndoingSound, KeptSound, Planned
<1>7. OutcomeIsTrue' /\ (ReportSound => ReportSound')
  BY <1>1 DEF Inv, ApplySound, OutcomeIsTrue, Published, ReportSound
<1>8. ApplySound'
  BY <1>1, <1>5, <1>6, <1>7 DEF Inv, ApplySound, Active
<1>9. RefsSound'
  BY <1>1 DEF Inv, RefsSound, Whole, Present
<1> QED
  BY <1>2, <1>3, <1>4, <1>8, <1>9 DEF Inv

LEMMA StutterInv == Inv /\ UNCHANGED vars => Inv'
<1> SUFFICES ASSUME Inv, UNCHANGED vars PROVE Inv'
  OBVIOUS
<1>1. UNCHANGED <<remote, children, late, inst, report, suspect, base, kept, applies>>
  BY DEF vars
<1>2. ValuesSound' /\ Typed' /\ LateSound'
  BY <1>1 DEF Inv, ValuesSound, Typed, Shape, Flags, LateSound
<1>3. ApplySound'
  <2>1. Active => PlanSound'
    BY <1>1 DEF Inv, ApplySound, PlanSound, ReportSound, Planned
  <2>2. /\ inst.pc = "planned" => PlannedSound'
        /\ inst.pc = "writing" => WritingSound'
        /\ inst.pc = "undoing" => UndoingSound'
        /\ inst.pc \in {"writing", "undoing"} => KeptSound'
    BY <1>1 DEF Inv, ApplySound, PlannedSound, WritingSound, UndoingSound, KeptSound, Planned
  <2>3. OutcomeIsTrue' /\ (ReportSound => ReportSound')
    BY <1>1 DEF Inv, ApplySound, OutcomeIsTrue, Published, ReportSound
  <2> QED
    BY <1>1, <2>1, <2>2, <2>3 DEF Inv, ApplySound, Active
<1>4. RefsSound'
  BY <1>1 DEF Inv, RefsSound, Whole, Present
<1> QED
  BY <1>2, <1>3, <1>4 DEF Inv
-----------------------------------------------------------------------------
(* The theorems.                                                           *)

LEMMA StepInv == Inv /\ [Next]_vars => Inv'
<1> SUFFICES ASSUME Inv, [Next]_vars PROVE Inv'
  OBVIOUS
<1>1. CASE \E s \in Scopes, prune \in BOOLEAN : \E m \in Manifests[s] : Plan(s, m, prune)
  BY <1>1, PlanInv
<1>2. CASE \/ AssertRestorableDeletions \/ GiveUp \/ Abort \/ Applied \/ Late \/ Undone
           \/ \E c \in Consumers : ReadCredentials(c)
  BY <1>2, ReadCredentialsInv, AssertRestorableDeletionsInv, GiveUpInv, AbortInv, AppliedInv, LateInv, UndoneInv
<1>3. CASE \E r \in Ids : Write(r) \/ Undo(r)
  BY <1>3, WriteInv, UndoInv
<1>4. CASE Crash
  BY <1>4, CrashInv
<1>5. CASE Restart
  BY <1>5, RestartInv
<1>6. CASE Others
  BY <1>6, LateWriteInv, ForeignWriteInv, AddCredentialInv DEF Others
<1>7. CASE UNCHANGED vars
  BY <1>7, StutterInv
<1> QED
  BY <1>1, <1>2, <1>3, <1>4, <1>5, <1>6, <1>7 DEF Next, Apply

LEMMA InvHolds == Spec => []Inv
BY InitInv, StepInv, PTL DEF Spec

\* Every variable has its type, consumers with credentials are there, and a write
\* that nobody waits for is remembered, whatever is published and however APISIX
\* answers.
THEOREM TypeCorrect == Spec => []TypeOK
BY InvHolds, InvProperties, PTL

\* What an apply reports with certainty is so, for any manifests and resources:
\* an applied publication is there as a whole, one that was rolled back or not
\* started has left every resource as it was, and no consumer has lost credentials
\* that it had when the apply planned or looked for them.
THEOREM ReportsAreTrue == Spec => []OutcomeIsTrue
BY InvHolds, InvProperties, PTL

\* Between any two writes of an apply or of its undoing, and after a crash there,
\* a resource refers to resources that exist, unless an undoing failed or the
\* effect of a write is unknown.
THEOREM NoReferenceIsOpen == Spec => []ReferencesResolve
BY InvHolds, InvProperties, PTL

=============================================================================
