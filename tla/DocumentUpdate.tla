--------------------------- MODULE DocumentUpdate ---------------------------
(***************************************************************************)
(* The shared document update engine (packages/document-update) as the     *)
(* User Document instantiates it (packages/user-document/src/worker).      *)
(*                                                                         *)
(* A source transaction commits a change together with a durable outbox    *)
(* entry.  A worker claims the entry, expands it into the affected targets *)
(* and, in the same transaction, raises the version each of those targets  *)
(* has to reach.  A worker then claims the required rebuilds, reads one    *)
(* snapshot of the source, and publishes the document if it still owns the *)
(* rebuild.  Jobs in Redis only wake durable work: they may be lost,       *)
(* delivered late, delivered again.  A scheduled repair resets abandoned   *)
(* rows and wakes them again.                                              *)
(*                                                                         *)
(* Data is abstracted to the position (lsn) of the source commit that a    *)
(* snapshot includes: a document is described by the snapshot it was built *)
(* from, and it is up to date when that snapshot includes the last change  *)
(* of everything it shows.  One organization stands for every shared       *)
(* source (organization, position, role): a change of it concerns exactly  *)
(* the users that are its members when the change is expanded.             *)
(*                                                                         *)
(* Processing tokens are UUIDs in the code.  Here the token is the job     *)
(* execution that drew it: an execution holds at most one claim at a time, *)
(* so a row carrying its token is the row of its latest claim.             *)
(***************************************************************************)
EXTENDS Naturals, FiniteSets

CONSTANTS
    Targets,    \* users that own a document
    Entries,    \* outbox entry identifiers; their number bounds the changes
    Workers,    \* concurrent job executions
    Org,        \* what an organization change is about
    NoOne,      \* SQL NULL in a processing_token column
    MaxFaults   \* bound on lost jobs, crashes, failed steps, early repairs

ASSUME EngineAssumption ==
    /\ Org \notin Targets
    /\ NoOne \notin Workers
    /\ NoOne \notin Entries
    /\ MaxFaults \in Nat

VARIABLES
    lsn,          \* number of committed source changes
    ownAt,        \* ownAt[t]: last change of the user t itself (0: no such user)
    orgAt,        \* last change of the organization
    member,       \* users employed in the organization
    outbox,       \* the outbox table
    rebuild,      \* the rebuild state table
    doc,          \* the published document rows
    outboxJobs,   \* expand jobs in the queue
    rebuildJobs,  \* rebuild requests in the queue
    exec,         \* memory of each job execution
    faults        \* faults so far

source == <<lsn, ownAt, orgAt, member>>
vars == <<lsn, ownAt, orgAt, member, outbox, rebuild, doc, outboxJobs,
          rebuildJobs, exec, faults>>

Status == {"absent", "pending", "failed", "processing", "processed"}

Request == [target : Targets, version : Nat]

OutboxRow == [status : Status, about : Targets \cup {Org}, at : Nat,
              token : Workers \cup {NoOne}, receipt : SUBSET Request]

RebuildRow == [version : Nat, status : Status, token : Workers \cup {NoOne}]

DocRow == [version : Nat, at : Nat]

Exec == [pc : {"idle", "expanding", "expandTx", "enqueue", "claimed", "built"},
         entry : Entries \cup {NoOne}, found : SUBSET Targets,
         seen : [Targets -> RebuildRow], held : SUBSET Request,
         at : Nat, retried : BOOLEAN]

NoEntry == [status |-> "absent", about |-> Org, at |-> 0, token |-> NoOne, receipt |-> {}]

NoRebuild == [version |-> 0, status |-> "absent", token |-> NoOne]

Idle == [pc |-> "idle", entry |-> NoOne, found |-> {},
         seen |-> [t \in Targets |-> NoRebuild], held |-> {}, at |-> 0,
         retried |-> FALSE]

TypeOK ==
    /\ lsn \in Nat
    /\ ownAt \in [Targets -> Nat]
    /\ orgAt \in Nat
    /\ member \in SUBSET Targets
    /\ outbox \in [Entries -> OutboxRow]
    /\ rebuild \in [Targets -> RebuildRow]
    /\ doc \in [Targets -> DocRow]
    /\ outboxJobs \in SUBSET Entries
    /\ rebuildJobs \in SUBSET Request
    /\ exec \in [Workers -> Exec]
    /\ \A w \in Workers : exec[w].pc \in {"expanding", "expandTx", "enqueue"}
                           <=> exec[w].entry \in Entries
    /\ faults \in 0..MaxFaults

Init ==
    /\ lsn = 0
    /\ ownAt = [t \in Targets |-> 0]
    /\ orgAt = 0
    /\ member = {}
    /\ outbox = [e \in Entries |-> NoEntry]
    /\ rebuild = [t \in Targets |-> NoRebuild]
    /\ doc = [t \in Targets |-> [version |-> 0, at |-> 0]]
    /\ outboxJobs = {}
    /\ rebuildJobs = {}
    /\ exec = [w \in Workers |-> Idle]
    /\ faults = 0

Fault == faults < MaxFaults /\ faults' = faults + 1

\* The queue may deliver the job of a failed or lost execution again.
Redeliver(w, again) ==
    LET x == exec[w] IN
    /\ outboxJobs' = IF again /\ x.entry # NoOne THEN outboxJobs \cup {x.entry} ELSE outboxJobs
    /\ rebuildJobs' = IF again /\ x.entry = NoOne THEN rebuildJobs \cup x.held ELSE rebuildJobs

-----------------------------------------------------------------------------
(* The source transactions: change, outbox entry and wake-up.              *)

\* The outbox row commits with the change; the wake-up follows the commit.
PersistOutboxEntry(e, about, createdAt) ==
    /\ outbox[e].status = "absent"
    /\ outbox' = [outbox EXCEPT ![e] = [@ EXCEPT !.status = "pending", !.about = about,
                                                 !.at = createdAt]]
    /\ outboxJobs' = outboxJobs \cup {e}

\* A change of one user: its account, its employment, its responsibilities.
\* The users the organization concerns change only through such a change.
ChangeUser(t, e, joins) ==
    /\ PersistOutboxEntry(e, t, lsn + 1)
    /\ lsn' = lsn + 1
    /\ ownAt' = [ownAt EXCEPT ![t] = lsn + 1]
    /\ member' = IF joins THEN member \cup {t} ELSE member \ {t}
    /\ UNCHANGED <<orgAt, rebuild, doc, rebuildJobs, exec, faults>>

ChangeOrg(e) ==
    /\ PersistOutboxEntry(e, Org, lsn + 1)
    /\ lsn' = lsn + 1
    /\ orgAt' = lsn + 1
    /\ UNCHANGED <<ownAt, member, rebuild, doc, rebuildJobs, exec, faults>>

\* Maintenance: an entry for an existing user, with no change of the source.
BackfillUser(t, e) ==
    /\ ownAt[t] > 0
    /\ PersistOutboxEntry(e, t, lsn)
    /\ UNCHANGED <<source, rebuild, doc, rebuildJobs, exec, faults>>

-----------------------------------------------------------------------------
(* Expansion of an outbox entry into required rebuild versions.            *)

AffectedBy(about) == IF about = Org THEN member ELSE {about}

\* Mutant: whoever finds the entry processing believes it is his.
OwnsEntryByStatus(w, e) == outbox[e].status = "processing"

OwnsEntry(w, e) == outbox[e].status = "processing" /\ outbox[e].token = w

Claimable(row) == row.status \in {"pending", "failed"}

\* A worker is handed an expand job and claims the entry in one UPDATE.
ClaimOutbox(w, e) ==
    /\ exec[w].pc = "idle"
    /\ e \in outboxJobs
    /\ Claimable(outbox[e])
    /\ outbox' = [outbox EXCEPT ![e] = [@ EXCEPT !.status = "processing", !.token = w]]
    /\ outboxJobs' = outboxJobs \ {e}
    /\ exec' = [exec EXCEPT ![w] = [Idle EXCEPT !.pc = "expanding", !.entry = e]]
    /\ UNCHANGED <<source, rebuild, doc, rebuildJobs, faults>>

\* The entry was not claimable: a processed one replays its receipt, any
\* other belongs to someone else and the job is skipped.
ReplayOutbox(w, e) ==
    /\ exec[w].pc = "idle"
    /\ e \in outboxJobs
    /\ ~Claimable(outbox[e])
    /\ rebuildJobs' = IF outbox[e].status = "processed"
                      THEN rebuildJobs \cup outbox[e].receipt
                      ELSE rebuildJobs
    /\ outboxJobs' = outboxJobs \ {e}
    /\ UNCHANGED <<source, outbox, rebuild, doc, exec, faults>>

\* The repeatable-read transaction opens: its first statement fixes the
\* snapshot and locks the entry, if the claim still stands.
BeginExpansion(w) ==
    /\ exec[w].pc = "expanding"
    /\ OwnsEntry(w, exec[w].entry)
    /\ exec' = [exec EXCEPT ![w] = [@ EXCEPT
                    !.pc = "expandTx", !.seen = rebuild, !.at = lsn,
                    !.found = AffectedBy(outbox[exec[w].entry].about)]]
    /\ UNCHANGED <<source, outbox, rebuild, doc, outboxJobs, rebuildJobs, faults>>

StaleExpansion(w) ==
    /\ exec[w].pc = "expanding"
    /\ ~OwnsEntry(w, exec[w].entry)
    /\ exec' = [exec EXCEPT ![w] = Idle]
    /\ UNCHANGED <<source, outbox, rebuild, doc, outboxJobs, rebuildJobs, faults>>

\* A row written by another transaction since the snapshot aborts this one.
Conflict(w) == \E t \in exec[w].found : rebuild[t] # exec[w].seen[t]

Registered(S) == {[target |-> t, version |-> rebuild[t].version + 1] : t \in S}

\* Mutant: the upsert does nothing when the row exists (ON CONFLICT DO NOTHING).
RequireOnce(row) ==
    IF row.status = "absent" THEN [row EXCEPT !.version = 1, !.status = "pending"] ELSE row

\* Mutant: the upsert of an existing row raises the version and leaves the status.
RequireVersionOnly(row) ==
    [row EXCEPT !.version = @ + 1, !.status = IF @ = "absent" THEN "pending" ELSE @]

Require(row) == [version |-> row.version + 1, status |-> "pending", token |-> NoOne]

CommitExpansion(w) ==
    LET e == exec[w].entry
        S == exec[w].found IN
    /\ exec[w].pc = "expandTx"
    /\ ~Conflict(w)
    /\ rebuild' = [t \in Targets |-> IF t \in S THEN Require(rebuild[t]) ELSE rebuild[t]]
    /\ outbox' = [outbox EXCEPT ![e] = [@ EXCEPT !.status = "processed", !.token = NoOne,
                                                 !.receipt = Registered(S)]]
    /\ exec' = [exec EXCEPT ![w] = [Idle EXCEPT !.pc = "enqueue", !.entry = e,
                                                !.held = Registered(S)]]
    /\ UNCHANGED <<source, doc, outboxJobs, rebuildJobs, faults>>

\* SQLSTATE 40001: the derived expansion is tried once more.
RetryExpansion(w) ==
    /\ exec[w].pc = "expandTx"
    /\ Conflict(w)
    /\ ~exec[w].retried
    /\ exec' = [exec EXCEPT ![w] = [Idle EXCEPT !.pc = "expanding",
                                                !.entry = exec[w].entry,
                                                !.retried = TRUE]]
    /\ UNCHANGED <<source, outbox, rebuild, doc, outboxJobs, rebuildJobs, faults>>

FailedEntry(w, e) ==
    IF OwnsEntry(w, e)
    THEN [outbox EXCEPT ![e] = [@ EXCEPT !.status = "failed", !.token = NoOne]]
    ELSE outbox

\* Any other error (a second conflict among them) marks the entry failed, if
\* it is still ours, and fails the job, which the queue may deliver again.
FailExpansion(w, again) ==
    LET e == exec[w].entry IN
    /\ exec[w].pc \in {"expanding", "expandTx"}
    /\ IF exec[w].pc = "expandTx" /\ Conflict(w) /\ exec[w].retried
       THEN UNCHANGED faults ELSE Fault
    /\ outbox' = FailedEntry(w, e)
    /\ Redeliver(w, again)
    /\ exec' = [exec EXCEPT ![w] = Idle]
    /\ UNCHANGED <<source, rebuild, doc>>

\* After the commit the registered rebuilds are put in the queue.
EnqueueRebuilds(w) ==
    /\ exec[w].pc = "enqueue"
    /\ rebuildJobs' = rebuildJobs \cup exec[w].held
    /\ exec' = [exec EXCEPT ![w] = Idle]
    /\ UNCHANGED <<source, outbox, rebuild, doc, outboxJobs, faults>>

\* The queue refused them: the expand job fails and may be delivered again.
EnqueueFails(w, again) ==
    /\ exec[w].pc = "enqueue"
    /\ Fault
    /\ Redeliver(w, again)
    /\ exec' = [exec EXCEPT ![w] = Idle]
    /\ UNCHANGED <<source, outbox, rebuild, doc>>

-----------------------------------------------------------------------------
(* Rebuild of the required documents.                                      *)

\* Of the requests of one message, only the greatest version per target.
Newest(batch) ==
    {r \in batch : \A q \in batch : q.target = r.target => q.version <= r.version}

\* Mutant: ownership by version alone, whatever became of the claim.
OwnsRebuildByVersion(w, r) == rebuild[r.target].version = r.version

OwnsRebuild(w, r) ==
    /\ rebuild[r.target].status = "processing"
    /\ rebuild[r.target].version = r.version
    /\ rebuild[r.target].token = w

MayClaim(r) ==
    /\ rebuild[r.target].version = r.version
    /\ Claimable(rebuild[r.target])

\* One message carries a batch of requests, claimed by one UPDATE.
ClaimRebuilds(w, batch) ==
    LET mine == {r \in Newest(batch) : MayClaim(r)} IN
    /\ exec[w].pc = "idle"
    /\ batch # {}
    /\ rebuild' = [t \in Targets |->
                     IF \E r \in mine : r.target = t
                     THEN [rebuild[t] EXCEPT !.status = "processing", !.token = w]
                     ELSE rebuild[t]]
    /\ rebuildJobs' = rebuildJobs \ batch
    /\ exec' = [exec EXCEPT ![w] = IF mine = {} THEN Idle
                                   ELSE [Idle EXCEPT !.pc = "claimed", !.held = mine]]
    /\ UNCHANGED <<source, outbox, doc, outboxJobs, faults>>

\* One repeatable-read, read-only snapshot serves the whole batch.
BuildDocuments(w) ==
    /\ exec[w].pc = "claimed"
    /\ exec' = [exec EXCEPT ![w] = [@ EXCEPT !.pc = "built", !.at = lsn]]
    /\ UNCHANGED <<source, outbox, rebuild, doc, outboxJobs, rebuildJobs, faults>>

Release(w, group) ==
    exec' = [exec EXCEPT ![w] = IF exec[w].held \subseteq group THEN Idle
                                ELSE [exec[w] EXCEPT !.held = @ \ group]]

\* The row is written only over a document that is not newer.
Accepted(r) == doc[r.target].version <= r.version

VersionFor(S, t) == (CHOOSE r \in S : r.target = t).version

\* The rows after the claims S are completed, and those of F given up.
Completed(w, S, F) ==
    [t \in Targets |->
       IF \E r \in S : r.target = t
       THEN [rebuild[t] EXCEPT !.status = "processed", !.token = NoOne]
       ELSE IF \E r \in F : r.target = t /\ OwnsRebuild(w, r)
       THEN [rebuild[t] EXCEPT !.status = "failed", !.token = NoOne]
       ELSE rebuild[t]]

Written(w, S) ==
    [t \in Targets |-> IF \E r \in S : r.target = t
                       THEN [version |-> VersionFor(S, t), at |-> exec[w].at]
                       ELSE doc[t]]

Eligible(w, group) == {r \in group : OwnsRebuild(w, r)}

\* One publication transaction: lock, keep what is still owned, write the
\* documents, mark their rebuilds processed.
PublishGroup(w, group) ==
    LET eligible == Eligible(w, group) IN
    /\ exec[w].pc = "built"
    /\ group # {}
    /\ group \subseteq exec[w].held
    /\ \A r \in eligible : Accepted(r)
    /\ doc' = Written(w, eligible)
    /\ rebuild' = Completed(w, eligible, {})
    /\ Release(w, group)
    /\ UNCHANGED <<source, outbox, outboxJobs, rebuildJobs, faults>>

\* A failed build or publication gives up its claims, those still held.  An
\* older document than the stored one is such a failure; every other one is
\* a fault.
FailRebuilds(w, group, again) ==
    /\ exec[w].pc \in {"claimed", "built"}
    /\ group # {}
    /\ group \subseteq exec[w].held
    /\ IF exec[w].pc = "built" /\ \E r \in Eligible(w, group) : ~Accepted(r)
       THEN UNCHANGED faults ELSE Fault
    /\ rebuild' = Completed(w, {}, group)
    /\ Redeliver(w, again)
    /\ Release(w, group)
    /\ UNCHANGED <<source, outbox, doc>>

\* The publication of a group committed but was not acknowledged.  The whole
\* batch stops: the cleanup fails every claim it still finds held, and the
\* published ones are no longer held.
LoseAcknowledgement(w, group, again) ==
    LET eligible == Eligible(w, group) IN
    /\ exec[w].pc = "built"
    /\ group # {}
    /\ group \subseteq exec[w].held
    /\ \A r \in eligible : Accepted(r)
    /\ Fault
    /\ doc' = Written(w, eligible)
    /\ rebuild' = Completed(w, eligible, exec[w].held)
    /\ Redeliver(w, again)
    /\ exec' = [exec EXCEPT ![w] = Idle]
    /\ UNCHANGED <<source, outbox>>

-----------------------------------------------------------------------------
(* Loss of jobs, crashes of executions, and the scheduled repair.          *)

LoseOutboxJob(e) ==
    /\ e \in outboxJobs
    /\ Fault
    /\ outboxJobs' = outboxJobs \ {e}
    /\ UNCHANGED <<source, outbox, rebuild, doc, rebuildJobs, exec>>

LoseRebuildJob(r) ==
    /\ r \in rebuildJobs
    /\ Fault
    /\ rebuildJobs' = rebuildJobs \ {r}
    /\ UNCHANGED <<source, outbox, rebuild, doc, outboxJobs, exec>>

\* The execution disappears with its memory and its open transaction.  Also
\* the outcome of a cleanup that could not reach, or skipped, a locked row.
Crash(w, again) ==
    /\ exec[w].pc # "idle"
    /\ Fault
    /\ Redeliver(w, again)
    /\ exec' = [exec EXCEPT ![w] = Idle]
    /\ UNCHANGED <<source, outbox, rebuild, doc>>

\* An open expansion holds the row lock of its entry; repair skips it.
LockedEntry(e) == \E w \in Workers : exec[w].pc = "expandTx" /\ exec[w].entry = e

RepairableEntries ==
    {e \in Entries : /\ outbox[e].status \in {"pending", "failed", "processing"}
                     /\ ~LockedEntry(e)}

\* Mutant: repair overlooks rebuilds whose owner disappeared.
RepairableUnclaimed == {t \in Targets : rebuild[t].status \in {"pending", "failed"}}

RepairableTargets ==
    {t \in Targets : rebuild[t].status \in {"pending", "failed", "processing"}}

\* Rows whose owner is still at work; to repair one the owner must have run
\* longer than the configured staleness.
LiveEntries == {e \in Entries : \E w \in Workers : exec[w].entry = e /\ OwnsEntry(w, e)}
LiveTargets == {t \in Targets :
                  \E w \in Workers : \E r \in exec[w].held :
                     r.target = t /\ OwnsRebuild(w, r)}

Current(t) == [target |-> t, version |-> rebuild[t].version]

\* Mutant: repair clears the status with the token.
ResetToNull(row) == [row EXCEPT !.status = NoOne, !.token = NoOne]

Reset(row) == [row EXCEPT !.status = "pending", !.token = NoOne]

\* One repair round: any part of the repairable rows (LIMIT, SKIP LOCKED) is
\* reset in one transaction and woken after it.
Repair(E, R) ==
    /\ E \subseteq RepairableEntries
    /\ R \subseteq RepairableTargets
    /\ outbox' = [e \in Entries |-> IF e \in E THEN Reset(outbox[e]) ELSE outbox[e]]
    /\ rebuild' = [t \in Targets |-> IF t \in R THEN Reset(rebuild[t]) ELSE rebuild[t]]
    /\ outboxJobs' = outboxJobs \cup E
    /\ rebuildJobs' = rebuildJobs \cup {Current(t) : t \in R}
    /\ UNCHANGED <<source, doc, exec>>

TimelyRepair(E, R) ==
    /\ E \cap LiveEntries = {}
    /\ R \cap LiveTargets = {}
    /\ Repair(E, R)
    /\ UNCHANGED faults

EarlyRepair(E, R) ==
    /\ (E \cap LiveEntries) \cup (R \cap LiveTargets) # {}
    /\ Fault
    /\ Repair(E, R)

-----------------------------------------------------------------------------

SourceStep ==
    \E e \in Entries :
       \/ ChangeOrg(e)
       \/ \E t \in Targets : BackfillUser(t, e) \/ \E joins \in BOOLEAN : ChangeUser(t, e, joins)

\* What a live execution does when nothing fails.
WorkerStep(w) ==
    \/ \E e \in Entries : ClaimOutbox(w, e) \/ ReplayOutbox(w, e)
    \/ BeginExpansion(w) \/ StaleExpansion(w) \/ CommitExpansion(w) \/ RetryExpansion(w)
    \/ EnqueueRebuilds(w)
    \/ \E batch \in SUBSET rebuildJobs : ClaimRebuilds(w, batch)
    \/ BuildDocuments(w)
    \/ \E group \in SUBSET exec[w].held : PublishGroup(w, group)

FailureStep(w) ==
    \E again \in BOOLEAN :
       \/ FailExpansion(w, again) \/ EnqueueFails(w, again) \/ Crash(w, again)
       \/ \E group \in SUBSET exec[w].held :
            FailRebuilds(w, group, again) \/ LoseAcknowledgement(w, group, again)

LossStep ==
    \/ \E e \in Entries : LoseOutboxJob(e)
    \/ \E r \in rebuildJobs : LoseRebuildJob(r)

RepairStep ==
    \E E \in SUBSET RepairableEntries, R \in SUBSET RepairableTargets :
       TimelyRepair(E, R) \/ EarlyRepair(E, R)

Next ==
    \/ SourceStep
    \/ \E w \in Workers : WorkerStep(w) \/ FailureStep(w)
    \/ LossStep
    \/ RepairStep

Spec == Init /\ [][Next]_vars

(***************************************************************************)
(* Fairness.  Queue consumers keep taking jobs and a job execution that    *)
(* does not fail goes on (BullMQ workers); the repair schedule runs a      *)
(* round forever (document-repair-schedule.ts), and its LIMIT covers the   *)
(* rows of this instance.  Nothing is assumed of changes and failures.     *)
(***************************************************************************)
RepairRound ==
    TimelyRepair(RepairableEntries \ LiveEntries, RepairableTargets \ LiveTargets)

Fairness ==
    /\ \A w \in Workers : WF_vars(WorkerStep(w))
    /\ WF_vars(RepairRound)

FairSpec == Spec /\ Fairness

-----------------------------------------------------------------------------
(* Properties.                                                             *)

Unprocessed(e) == outbox[e].status \in {"pending", "failed", "processing"}

OwnPending(t) == \E e \in Entries : Unprocessed(e) /\ outbox[e].about = t

OrgPending == \E e \in Entries : Unprocessed(e) /\ outbox[e].about = Org

\* The last commit that changed something the document of t shows.
ChangedAt(t) == IF t \in member /\ orgAt > ownAt[t] THEN orgAt ELSE ownAt[t]

\* Once no entry that concerns a user is unprocessed and its rebuild is
\* processed, the published document was built from a snapshot that includes
\* every committed change it shows, whatever owners, retries, crashes and
\* repairs took part, and although the affected users are computed when the
\* entry is expanded, not when the change commits.
SettledDocumentIsCurrent ==
    \A t \in Targets :
       rebuild[t].status = "processed" /\ ~OwnPending(t) /\ ~OrgPending
          => doc[t].at >= ChangedAt(t)

\* The test of the subject access authority, which looks only for unprocessed
\* entries of the user itself: it never takes for current a document that
\* misses a change of that user (its account status among them).
AuthorityReadsCurrent(t) ==
    /\ ~OwnPending(t)
    /\ rebuild[t].status = "processed"
    /\ doc[t].version = rebuild[t].version

AuthorityMissesNoOwnChange ==
    \A t \in Targets : AuthorityReadsCurrent(t) => doc[t].at >= ownAt[t]

\* At-least-once delivery, replays, retries and early repairs still register
\* every required version exactly once: each version of a target is in the
\* receipt of exactly one processed entry, and no receipt is ahead of it.
EachVersionHasOneReceipt ==
    /\ \A t \in Targets : \A v \in 1..rebuild[t].version :
         \E e \in Entries : /\ [target |-> t, version |-> v] \in outbox[e].receipt
                            /\ \A f \in Entries \ {e} :
                                 [target |-> t, version |-> v] \notin outbox[f].receipt
    /\ \A e \in Entries : \A r \in outbox[e].receipt :
         outbox[e].status = "processed" /\ r.version \in 1..rebuild[r.target].version

\* A document is never ahead of the version its target must reach, and a
\* rebuild is marked processed only together with the document of exactly
\* that version (readiness and the authority compare the two).
ProcessedMatchesDocument ==
    \A t \in Targets :
       /\ doc[t].version <= rebuild[t].version
       /\ rebuild[t].status = "processed" => doc[t].version = rebuild[t].version

\* A reader never sees a document go back: neither to a lower version nor to
\* an older snapshot of the source, not even at the same version.
DocumentsMoveForward ==
    [][\A t \in Targets : /\ doc'[t].version >= doc[t].version
                          /\ doc'[t].at >= doc[t].at]_vars

\* Every change reaches the documents it concerns, although wake-ups may be
\* lost, executions crash and steps fail, as long as failures stop.
EveryChangeIsPublished ==
    \A t \in Targets : doc[t].at < ChangedAt(t) ~> doc[t].at >= ChangedAt(t)

\* The engine implements the promise of DocumentFreshness.
Promise == INSTANCE DocumentFreshness WITH
    now <- lsn,
    changedAt <- [t \in Targets |-> ChangedAt(t)],
    asOf <- [t \in Targets |-> doc[t].at]

ImplementsFreshness == Promise!Init /\ [][Promise!Next]_(Promise!vars)

=============================================================================
