------------------------------- MODULE Gateway -------------------------------
(***************************************************************************)
(* Publication of a gateway configuration to APISIX (apps/gateway).        *)
(*                                                                         *)
(* An apply reads the resources of APISIX, plans what the manifest of a    *)
(* scope changes, and sends the writes one by one.  At the first failure   *)
(* it undoes what it has tried.  When it cannot tell what APISIX holds it  *)
(* blocks the instance until somebody has looked and restarts it.          *)
(*                                                                         *)
(* APISIX is external: it takes a write, refuses it, or gives no answer,   *)
(* in which case the write happened, never happens, or is still under way. *)
(* As the release manual demands, nobody else writes to the resources of   *)
(* an apply, and a restart waits for what is under way.  Credentials of    *)
(* consumers, which are no part of the plan, may be added at any time.     *)
(***************************************************************************)
EXTENDS Naturals, FiniteSets

CONSTANTS
    Ids,        \* resources of APISIX
    Order,      \* Order[r]: syncOrder of the kind of r
    Foreign,    \* those of Ids written by others at any time
    Consumers,  \* those of the rest whose deletion takes child credentials along
    Scopes,
    Manifests,  \* Manifests[s]: what a client may publish for scope s, validated
    Bodies,
    Unowned,    \* owner of a resource without the labels of a scope
    Absent,
    NoScope,
    MaxApplies  \* bound: applies

Values == [owner : Scopes \cup {Unowned}, refs : SUBSET Ids, body : Bodies]

ASSUME GatewayAssumption ==
    /\ Order \in [Ids -> Nat] /\ MaxApplies \in Nat
    /\ Foreign \subseteq Ids /\ Consumers \subseteq Ids \ Foreign /\ Bodies # {}
    /\ Unowned \notin Scopes /\ NoScope \notin Scopes /\ Absent \notin Values
    /\ \A s \in Scopes : \A m \in Manifests[s] :
          \* a rule for the operator; the code does not look whose an id is
          /\ DOMAIN m \subseteq Ids \ Foreign
          /\ \A r \in DOMAIN m :
                /\ m[r] \in [refs : SUBSET Ids, body : Bodies]
                \* validateRouteSourceReferences
                /\ \A q \in m[r].refs : q \in DOMAIN m /\ Order[q] < Order[r]
                \* formatGeneratedId: what a route refers to carries its scope
                /\ \A t \in Scopes \ {s} : \A n \in Manifests[t] : m[r].refs \cap DOMAIN n = {}

VARIABLES
    remote,    \* remote[r]: the resource in APISIX, or Absent
    children,  \* consumers that have credentials of their own
    late,      \* writes under way that nobody waits for
    inst,      \* the instance
    report,    \* what the last apply reported
    suspect,   \* history: an undoing failed, or the effect of a write is unknown
    base,      \* history: remote as the last apply found it, and others went on
    kept,      \* history: consumers whose credentials the last apply must not lose
    applies

vars == <<remote, children, late, inst, report, suspect, base, kept, applies>>

history == <<base, kept, applies>>

Fresh ==
    [pc |-> "idle", blocked |-> FALSE, aborted |-> FALSE, unknown |-> FALSE, failed |-> FALSE,
     checked |-> {}, todo |-> {}, attempted |-> {}, undo |-> {}, after |-> <<>>, before |-> <<>>]

NoReport == [outcome |-> "none", scope |-> NoScope, manifest |-> <<>>, prune |-> FALSE]

Init ==
    /\ remote = [r \in Ids |-> Absent]
    /\ children = {} /\ late = {} /\ inst = Fresh /\ report = NoReport
    /\ suspect = FALSE /\ base = remote /\ kept = {} /\ applies = 0

-----------------------------------------------------------------------------
(* The plan.                                                               *)

Labelled(s, v) == [owner |-> s, refs |-> v.refs, body |-> v.body]

Present(res) == {r \in Ids : res[r] # Absent}

Upserts(s, m, res) == {r \in DOMAIN m : res[r] # Labelled(s, m[r])}

\* Mutant: whatever a manifest of this system published is deleted.
AnyScope(s, m, res) == {r \in Present(res) \ DOMAIN m : res[r].owner # Unowned}

\* Managed by a manifest of this scope, and no longer desired.
Deletes(s, m, res) == {r \in Present(res) \ DOMAIN m : res[r].owner = s}

TargetsOf(s, m, prune, res) == Upserts(s, m, res) \cup (IF prune THEN Deletes(s, m, res) ELSE {})

After(s, m, r) == IF r \in DOMAIN m THEN Labelled(s, m[r]) ELSE Absent

-----------------------------------------------------------------------------
(* Order: upserts by the order of their kinds, deletions by its reverse.   *)

Lowest(rs) == {r \in rs : \A q \in rs : Order[r] <= Order[q]}
Highest(rs) == {r \in rs : \A q \in rs : Order[r] >= Order[q]}

\* Mutant: deletions in the order of the kinds.
LowestFirst(rs, val) ==
    LET there == {r \in rs : val[r] # Absent} IN
    IF there # {} THEN Lowest(there) ELSE Lowest(rs)

NextOf(rs, val) ==
    LET there == {r \in rs : val[r] # Absent} IN
    IF there # {} THEN Lowest(there) ELSE Highest(rs)

-----------------------------------------------------------------------------
(* A write.                                                                *)

Arrives(r, v) ==
    /\ remote' = [remote EXCEPT ![r] = v]
    /\ children' = IF v = Absent THEN children \ {r} ELSE children

Nothing == UNCHANGED <<remote, children, late>>

Accepted(r, v) == Arrives(r, v) /\ UNCHANGED late

\* No answer in time, or one that says nothing about the effect.
Unheard(r, v) ==
    \/ Accepted(r, v)
    \/ Nothing
    \/ late' = late \cup {<<r, v>>} /\ UNCHANGED <<remote, children>>

-----------------------------------------------------------------------------
(* An apply.  Requests that meet a running one are refused as busy.        *)

\* The fresh read and the plan.
Plan(s, m, prune) ==
    /\ inst.pc = "idle" /\ ~inst.blocked
    /\ applies < MaxApplies
    /\ LET targets == TargetsOf(s, m, prune, remote) IN
       inst' = [Fresh EXCEPT !.pc = "planned", !.todo = targets,
                             !.after = [r \in targets |-> After(s, m, r)],
                             !.before = [r \in targets |-> remote[r]]]
    /\ report' = [outcome |-> "none", scope |-> s, manifest |-> m, prune |-> prune]
    /\ base' = remote /\ kept' = children /\ applies' = applies + 1
    /\ UNCHANGED <<remote, children, late, suspect>>

Deleted == {r \in inst.todo : inst.after[r] = Absent}

\* One request per consumer that is to be deleted; one with credentials makes
\* the apply give up.
ReadCredentials(c) ==
    /\ inst.pc = "planned" /\ ~inst.aborted
    /\ c \in (Deleted \cap Consumers) \ inst.checked
    /\ c \notin children
    /\ inst' = [inst EXCEPT !.checked = @ \cup {c}]
    /\ UNCHANGED <<remote, children, late, report, suspect, history>>

\* Mutant: consumers are deleted like any other resource.
AnyDeletion == TRUE

Restorable == Deleted \cap Consumers \subseteq inst.checked

AssertRestorableDeletions ==
    /\ inst.pc = "planned" /\ Restorable
    /\ inst' = [inst EXCEPT !.pc = "writing"]
    /\ UNCHANGED <<remote, children, late, report, suspect, history>>

\* The process goes on with what it remembers of its block.
Finish(outcome) ==
    /\ inst' = [Fresh EXCEPT !.blocked = outcome \in {"unknown", "rollback_failed"}]
    /\ report' = [report EXCEPT !.outcome = outcome]

\* Nothing was written: a snapshot cannot be restored, a read failed, or the
\* deadline passed before the first write.
GiveUp ==
    /\ \/ inst.pc = "planned"
       \/ inst.pc = "writing" /\ inst.aborted /\ inst.attempted = {} /\ inst.todo # {}
    /\ Finish("unstarted")
    /\ UNCHANGED <<remote, children, late, suspect, history>>

\* The operation timer.
Abort ==
    /\ inst.pc \in {"planned", "writing", "undoing"} /\ ~inst.aborted
    /\ inst' = [inst EXCEPT !.aborted = TRUE]
    /\ UNCHANGED <<remote, children, late, report, suspect, history>>

Tried(r) == [inst EXCEPT !.todo = @ \ {r}, !.attempted = @ \cup {r}]

Failing(r, unknown) ==
    [Tried(r) EXCEPT !.pc = "undoing", !.undo = inst.attempted \cup {r}, !.unknown = unknown]

Write(r) ==
    /\ inst.pc = "writing" /\ ~inst.aborted
    /\ r \in NextOf(inst.todo, inst.after)
    /\ \/ Accepted(r, inst.after[r]) /\ inst' = Tried(r) /\ UNCHANGED suspect
       \/ Nothing /\ inst' = Failing(r, FALSE) /\ UNCHANGED suspect
       \/ Unheard(r, inst.after[r]) /\ inst' = Failing(r, TRUE) /\ suspect' = TRUE
    /\ UNCHANGED <<report, history>>

Applied ==
    /\ inst.pc = "writing" /\ inst.todo = {}
    /\ Finish(IF inst.attempted = {} THEN "no_change" ELSE "applied")
    /\ UNCHANGED <<remote, children, late, suspect, history>>

\* The deadline passes between two writes: nothing more is sent, nothing undone.
Late ==
    /\ inst.pc = "writing" /\ inst.aborted
    /\ inst.attempted # {} /\ inst.todo # {}
    /\ Finish("unknown")
    /\ UNCHANGED <<remote, children, late, suspect, history>>

-----------------------------------------------------------------------------
(* Undoing: what was there is restored, then what was not is removed.      *)

Undo(r) ==
    /\ inst.pc = "undoing" /\ ~inst.aborted
    /\ r \in NextOf(inst.undo, inst.before)
    /\ \/ /\ Accepted(r, inst.before[r])
          /\ inst' = [inst EXCEPT !.undo = @ \ {r}]
          /\ UNCHANGED suspect
       \/ /\ Nothing
          /\ inst' = [inst EXCEPT !.undo = @ \ {r}, !.failed = TRUE]
          /\ suspect' = TRUE
       \/ /\ Unheard(r, inst.before[r])
          /\ inst' = [inst EXCEPT !.undo = @ \ {r}, !.unknown = TRUE]
          /\ suspect' = TRUE
    /\ UNCHANGED <<report, history>>

\* Mutant: the effect is unknown only if the deadline has passed.
OnlyDeadline == IF inst.undo # {} THEN "unknown" ELSE IF inst.failed THEN "rollback_failed" ELSE "rolled_back"

\* What is left to undo was cut off by the deadline.
UndoOutcome ==
    IF inst.unknown \/ inst.undo # {} THEN "unknown"
    ELSE IF inst.failed THEN "rollback_failed" ELSE "rolled_back"

Undone ==
    /\ inst.pc = "undoing"
    /\ inst.undo = {} \/ inst.aborted
    /\ Finish(UndoOutcome)
    /\ UNCHANGED <<remote, children, late, suspect, history>>

-----------------------------------------------------------------------------
(* Processes, and the others.                                              *)

Whole(res) == \A r \in Present(res) : \A q \in res[r].refs : res[q] # Absent

Crash ==
    /\ inst.pc \notin {"idle", "down"}
    /\ inst' = [Fresh EXCEPT !.pc = "down"]
    /\ UNCHANGED <<remote, children, late, report, suspect, history>>

\* Somebody has looked: nothing is under way.  The block is forgotten; the
\* resources are as they are, or put back as they were.
Restart ==
    /\ inst.pc = "down" \/ inst.blocked
    /\ late = {}
    /\ inst' = Fresh
    /\ report' = NoReport
    /\ remote' \in {remote, base}
    /\ children' = {c \in children : remote'[c] # Absent}
    /\ suspect' = (suspect /\ ~Whole(remote'))
    /\ UNCHANGED <<late, history>>

LateArrives(w) ==
    /\ w \in late
    /\ late' = late \ {w}
    /\ Arrives(w[1], w[2])
    /\ UNCHANGED <<inst, report, suspect, history>>

LateLost(w) ==
    /\ w \in late
    /\ late' = late \ {w}
    /\ UNCHANGED <<remote, children, inst, report, suspect, history>>

Theirs == [owner |-> Unowned, refs |-> {}, body |-> CHOOSE b \in Bodies : TRUE]

\* The dynamic registry, other installations, and people.
ForeignWrite(r) ==
    /\ r \in Foreign
    /\ \E v \in {Theirs, Absent} \ {remote[r]} :
          /\ remote' = [remote EXCEPT ![r] = v]
          /\ base' = [base EXCEPT ![r] = v]
    /\ UNCHANGED <<children, late, inst, report, suspect, kept, applies>>

\* The owner of a consumer's credentials.  The apply sees those that are there
\* when it reads the consumer's; what is added later it may delete unseen.
AddCredential(c) ==
    /\ c \in Consumers \ children /\ remote[c] # Absent
    /\ children' = children \cup {c}
    /\ kept' = IF inst.pc = "planned" /\ c \notin inst.checked THEN kept \cup {c} ELSE kept
    /\ UNCHANGED <<remote, late, inst, report, suspect, base, applies>>

Others ==
    \/ \E w \in late : LateArrives(w) \/ LateLost(w)
    \/ \E r \in Foreign : ForeignWrite(r)
    \/ \E c \in Consumers : AddCredential(c)

-----------------------------------------------------------------------------
Apply ==
    \/ \E s \in Scopes, prune \in BOOLEAN : \E m \in Manifests[s] : Plan(s, m, prune)
    \/ AssertRestorableDeletions \/ GiveUp \/ Abort \/ Applied \/ Late \/ Undone
    \/ \E c \in Consumers : ReadCredentials(c)
    \/ \E r \in Ids : Write(r) \/ Undo(r)

Next == Apply \/ Crash \/ Restart \/ Others

Spec == Init /\ [][Next]_vars

-----------------------------------------------------------------------------
(* Correctness.                                                            *)

Certain == {"unstarted", "no_change", "applied", "rolled_back"}

\* Every variable has its type; a write that nobody waits for is remembered by
\* its process, which is undoing or blocked, until the process ends.
TypeOK ==
    /\ remote \in [Ids -> Values \cup {Absent}]
    /\ base \in [Ids -> Values \cup {Absent}]
    /\ children \subseteq {c \in Consumers : remote[c] # Absent}
    /\ kept \subseteq Consumers
    /\ \A w \in late : w[1] \in Ids /\ w[2] \in Values \cup {Absent}
    /\ inst.pc \in {"idle", "planned", "writing", "undoing", "down"}
    /\ {inst.blocked, inst.aborted, inst.unknown, inst.failed, suspect} \subseteq BOOLEAN
    /\ inst.checked \subseteq Consumers
    /\ inst.todo \subseteq Ids /\ inst.attempted \subseteq Ids \ inst.todo
    /\ inst.undo \subseteq inst.attempted
    /\ report.outcome \in Certain \cup {"none", "unknown", "rollback_failed"}
    /\ applies \in 0..MaxApplies
    /\ late # {} => inst.unknown \/ inst.blocked \/ inst.pc = "down"

\* What APISIX holds if the manifest was published as a whole.
Published ==
    LET s == report.scope
        m == report.manifest
    IN [r \in Ids |->
            IF r \in DOMAIN m THEN Labelled(s, m[r])
            ELSE IF report.prune /\ base[r] # Absent /\ base[r].owner = s THEN Absent
            ELSE base[r]]

\* A certain report is true until the next apply begins, whatever arrives late:
\* a publication that was applied left the desired resources and, when asked to
\* prune, no others of its scope; it left alone what its manifest does not name,
\* the unnamed resources of other scopes included, but takes over what it does
\* name.  One that was rolled back, or not started, left every resource as it
\* was.  No consumer loses the credentials it had when the apply planned, or when
\* the apply looked for them; those added after that look are not protected.
OutcomeIsTrue ==
    inst.pc = "idle" =>
        /\ report.outcome \in {"applied", "no_change"} => remote = Published
        /\ report.outcome \in {"rolled_back", "unstarted"} => remote = base
        /\ report.outcome \in Certain => kept \subseteq children

\* At every moment, also between two writes of an apply or of its undoing, and
\* after a crash there, a resource refers to resources that exist: the data plane
\* never serves a route without its upstream.  Only where an undoing failed, or
\* the effect of a write is unknown, this may be otherwise.
ReferencesResolve == suspect \/ Whole(remote)

=============================================================================
