# Verification of the SHGAS IAM services

TLA+ specifications of the identity and access management services of this repository, checked with TLC and proved
with TLAPS. Each module is translated from the source; `PROJECT.json` ("map") names, for every definition, the lines
it stands for.

## 1. The system

An identity service in TypeScript: PostgreSQL holds accounts, employments, organizations, clients; Redis holds live
login state, access records, caches and BullMQ queues. Two API processes (`apps/api`, `apps/admin-api`), a worker
(`apps/worker`), a one-shot operations CLI (`apps/ops`), a gateway publisher (`apps/gateway`) and two front ends.
Any number of instances of each run at once; nothing but PostgreSQL transactions and single Redis scripts is atomic.

| Component | State it keeps | Operations | Talks to | What must hold |
|---|---|---|---|---|
| Document update engine `packages/document-update`, `packages/user-document/src/{invalidation,worker,publication}` | outbox rows, rebuild state rows, document rows (PostgreSQL); jobs (Redis) | persist, expand, claim, build, publish, fail, repair | source transactions, queue, post-publication | a settled document misses no committed change, never goes back, and every change is published in the end |
| Post-publication work `user-document-post-publication.processor.ts` | attempts, token, status per rebuild row; facts in Redis | claim, publish facts, ask for access repair, complete, retry | engine, subject facts, subject access | what is marked processed has its facts in Redis and asked for the access repair; a dead owner leaves the work to the repair; it comes to rest |
| Subject access `packages/api-core/src/subject-access`, `packages/user-document/src/subject-access` | access record, journal, two index entries (Redis); transition intents (PostgreSQL) | lifecycle run, recovery, repair, reap, seed, admit, revoke | admin and public user services, engine, session kernel | nobody is admitted to a disabled account; a session does not survive a disabling; nothing stays blocked |
| Session kernel `packages/session-kernel` | root and client session records, indexes (Redis) | create, open, resolve, capture, list, revoke | SSO and OIDC, subject access | a client session lives only under its root; a revocation hits the captured instance only |
| OIDC provider `packages/oidc`, custom SSO `packages/custom-sso` | codes, token families, logout state, login contexts (Redis) | authorize, exchange, refresh, log out | session kernel, client snapshot | a code becomes one token; a failure reports what it really undid; a forced login is a fresh one |
| Client snapshot, unit of work (`packages/api-core/src/{client-snapshot,uow}`) | control and payload per client (Redis), loads shared in a process | acquire, invalidate, repair, restore | client mutations, protocol runtime | no older configuration after a change was reported in effect |
| Login restriction (`packages/api-core/src/login-restriction`) | counters and locks (Redis) | record failure, check | authentication | no lost failure |
| Organization document `packages/organization-document` | as the engine | second instance of the engine over the organization tree | engine | as the engine |
| Delegation, role and responsibility resolution, filter engine | none | pure functions | APIs | equal to their reference definition |
| Gateway publisher `apps/gateway` | a block in memory; APISIX configuration | plan, write, undo, block | APISIX | a certain report is true; references always resolve; what a manifest neither names nor prunes is kept |
| Admin and public use cases (employment, accounts, recovery codes) | rows in PostgreSQL | mutations in units of work | subject access, invalidation | tenure and responsibility rules |

**What is hard.** Interleavings of job executions, lifecycle runs and repairs on the same rows and keys; work that is
computed from a snapshot and applied later; two stores that no transaction spans; jobs and Redis calls that are lost,
late or delivered twice; executions that die between two steps; COMMITs whose outcome is unknown; leases that run out
while their owner still works. `PROJECT.json` ("hazards") lists each of these at the line where it bites, with the
properties aimed at it.

## 2. Plan

In the order of importance.

1. `DocumentUpdate`, its promise `DocumentFreshness`, its proofs `DocumentUpdateProofs` (done).
2. `SubjectAccess`: the two-store transition protocol and the admission of sessions; its proofs `SubjectAccessProofs`
   (done).
3. `SessionKernel`, its promise `ApplicationSessions`, its proofs `SessionKernelProofs`, and `SessionRevocation`, which
   adds batch revocations to the kernel, with its proofs `SessionRevocationProofs` (done).
4. `PostPublication`: attempts, tokens, retries and facts; its proofs `PostPublicationProofs` (done).
5. `CodeExchange`: authorization codes of OIDC and custom SSO, on `ApplicationSessions`; its proofs
   `CodeExchangeProofs` (done).
6. `ClientSnapshot`: mutations, invalidation and the versioned cache; its proofs `ClientSnapshotProofs` (done).
7. `Gateway`: publication to APISIX and its undoing; its proofs `GatewayProofs` (done).
8. Left: refresh token families, `LoginRestriction`, the resolution of delegations and roles, the evaluation of
   filters, the expansion of `OrganizationDocument` over the tree, the employment lifecycle.

How the modules meet:

* `DocumentUpdate` and `SubjectAccess`: the access authority reads the engine's rows (`AuthorityMissesNoOwnChange` is
  what entitles `SubjectAccess` to treat the published facts as one number), and the liveness of publication is the
  fairness of its `Publish`.
* `DocumentUpdate` and `PostPublication`: the publication of a row restarts the work of `PostPublication` in the same
  transaction. Its `Publish` is a `PublishGroup` that publishes a user.
* `SessionKernel` and `CodeExchange`: `CodeExchange` is written on the state of `ApplicationSessions`, which the kernel
  is proved to implement, so it carries no keys, scores or deadlines of the kernel.

Every safety property that holds in a run, invariant, action property or refinement, is a theorem for all values of
the constants. What stays with TLC:

* the liveness properties `EveryChangeIsPublished`, `EveryBlockEnds` and `EffectsSettle`: they rest on fairness and
  ENABLED, which the prover does not reach;
* `ConfirmedIsComplete`, which does not hold (section 5).

Theorems worth proving next: that the records of `SessionKernel` keep what `CodeExchange` takes for granted besides
`ApplicationSessions` (a session ends by the deadline of its root at the latest), and that `PostPublication` refines the one step of
publication that `SubjectAccess` has.

## 3. Document update

### Model (`DocumentUpdate.tla`)

* State: `outbox` and `rebuild` are the two tables, `doc` the published row, `outboxJobs` and `rebuildJobs` the queue,
  `exec[w]` the memory of a job execution, `lsn`, `ownAt`, `orgAt`, `member` the source.
* A document is described by the source commit (`at`) its snapshot includes; it is current when that is not before the
  last change of anything it shows (`ChangedAt`). One organization stands for all shared sources.
* Source: `ChangeUser`, `ChangeOrg`, `BackfillUser` commit a change with its outbox entry and wake the queue.
* Expansion (`processOutbox`): `ClaimOutbox`/`ReplayOutbox`, `BeginExpansion`/`StaleExpansion`, `CommitExpansion`,
  `RetryExpansion` (SQLSTATE 40001, once), `FailExpansion`, `EnqueueRebuilds`/`EnqueueFails`. The affected users are
  those at the time of the snapshot, as in the code.
* Rebuild: `ClaimRebuilds` (newest version per target, one UPDATE), `BuildDocuments` (one repeatable-read snapshot),
  `PublishGroup` (lock, keep what is still owned, write, complete), `FailRebuilds`, `LoseAcknowledgement` (COMMIT
  without an answer, then the cleanup).
* Environment: `Redeliver`, `LoseOutboxJob`, `LoseRebuildJob`, `Crash`; `TimelyRepair`, and `EarlyRepair` of a row
  whose owner is only slow.

`DocumentFreshness.tla` is what a reader is promised: each copy shows some commit, only moves forward, and catches up.

### Runs

* `document_update_safety`: 2 users, 2 changes, 2 workers, 2 faults; 67,771 states up to symmetry. Two entries are
  enough for a change to arrive during the expansion, the build and the publication of another one and for two
  expansions of one target to conflict; two workers and two faults are enough for a stale owner to meet its successor
  (early repair) and then fail in any way.
* `document_update_liveness`: the same with one fault and fairness; 150,741 states.

Fairness: job executions that do not fail go on (the queue consumer), and the repair round runs for ever
(`document-repair-schedule.ts`), in its whole LIMIT. A schedule whose round ends as `cleanup-failed` stops for good
(`document-repair-schedule.ts:56-60`), so that no old process overlaps a new round; this is outside of the assumption,
here and wherever the repair is taken to go on: somebody has to restart the worker. Nothing is assumed of failures except that they are finitely many
(`MaxFaults`), nor of changes.

### Proofs (`DocumentUpdateProofs.tla`)

For any sets of users, entries and workers and any number of faults, from `EngineAssumption` alone:
`TypeCorrect`, `SettledDocuments`, `AuthorityReads`, `ProcessedVersions`, `DocumentsOnlyMoveForward`, `Refinement`,
`VersionsAreRegisteredOnce`.

The properties are not inductive. Call a snapshot *good enough* for a target if it misses only changes that an
unprocessed entry still stands for. `Inv` adds to the type invariant: every change has its entry or its effect; a
running expansion holds a membership no older than its snapshot or will be aborted by a conflict; whoever still owns a
rebuild has a snapshot good enough for it; a processed rebuild has a good enough document. Every step is one of three
kinds (`StepKinds`): it changes neither source nor requirement (`Gentle`), it changes the source (`SourceStep`), or it
commits an expansion; the invariant is shown for each kind.

`VersionsAreRegisteredOnce` (`EachVersionHasOneReceipt`) is inductive together with `Inv`: only the commit of an expansion
writes a receipt or raises a required version, and only of an entry that is not processed yet, hence has none; it raises
the version of each target by one, which no earlier receipt has reached.

Model-checked only: liveness (`EveryChangeIsPublished`).

## 4. Subject access

### Model (`SubjectAccess.tla`)

* State: `account`, `changes`, `published`, `intent` in PostgreSQL; `record`, `journal`, `recoverAt`, `repairAt` in
  Redis; the memory of the lifecycle runs (`run`), of recovery and repair executions (`agent`), of sessions and of a
  bootstrap. `disables`, and the `epoch` of a session, are history only.
* One subject: nothing is shared by two of them but the order of the scheduled work.
* Lifecycle (`lifecycle.ts`): `CreateIntent`, `Begin`/`BeginConflicts`/`BeginFails`, `GiveUpIntent`, `AbortBegin`,
  `Mutate`/`MutateRollsBack`, `UndoIntent`, `Restore`, `PrepareRepair`, `Finalize`, `RevokeSessions`. `StopRun` is the
  death of the run, or an error of any call that ends it. A begin whose caller gave up may run later (`LateBegin`).
* Recovery: `ReapIntent`, `ClaimRecovery`, `ResolveRecovery`, `Reconcile`, `RecoveryFails`. Repair: `ClaimRepair`,
  `Judge`, `FinalizeRepair`, `RescheduleRepair`, `RepairFails`.
* Time appears only where the scripts compare with it: an index entry is waiting or due. A lease lives while the entry
  it was claimed from is waiting, since claiming writes the end of the lease as its score. A lease that runs out under
  an agent still at work counts as a fault; after its agent died it does not.
* Sessions: `LogIn` reads the committed generation, `OpenSession` follows later, `RefuseOperation` and `RevokeRefused`
  are an operation that finds its session dead and revokes it.

### Runs

* `subject_access_stores`: two runs (any dispositions, so disable/enable/edit/create in both orders), two agents, two
  faults, the reaper and a bootstrap; 831,646 states up to symmetry. Two transitions are enough for a late or stale
  step of one to meet the other; two agents for a stale lease to meet its successor.
* `subject_access_sessions`: one agent, one session, a change outside the lifecycle, one fault; 1,030,672 states. One
  session is enough, since the properties speak of each session alone.
* `subject_access_liveness`: one agent, one fault; fairness of recovery, repair, reaper, time and publication (the
  schedule of `apps/worker` runs them for ever, with the exception named in section 3; publication is `EveryChangeIsPublished`), none of the runs.

### Proofs (`SubjectAccessProofs.tla`)

For any transitions, agents and sessions, and any number of faults and other changes, from `AccessAssumption` alone:
`TypeCorrect`, `EnabledFollowsAccount`, `FactsPrecedeAdmission`, `DisablingOutlivesSessions`, `OneOutcome`,
`BlocksAreQueued`, and the action properties `DecidedOnce` and `RevocationHitsTheDead`: all safety properties of the
runs.

The record in Redis alone does not carry an invariant, since a block hides the record it may give back. The argument is
about the record that *stands* (`Standing`): the one in Redis, or the one behind a block whose change of status
PostgreSQL has not committed. `StandingSound` says that it is enabled only while the account is, and that its facts are
published. A change of status is committed only while its own run blocks the record; from then on the old generation
is *dead* (`Dead`): it neither stands nor is a transition still to begin, and this is for ever (`DeathsLast`). The rest
of the invariant says what each actor may do with what it remembers:

* `RunSound`, by the place of a lifecycle run: whether its intent is decided, whether its block is still there;
* `AgentSound`: the decision a recovery or repair acts on is the one in PostgreSQL, also after its lease was lost;
* `UnbegunSound`: a transition whose begin was not executed yet, and still may be late, is nowhere to be found in Redis;
* `SessionSound`: a session has the generation that stands and saw no disabling since it was read, or it has a dead one;
  one that is about to be revoked has a dead one.

Each step is shown to be of one of a few shapes (begin, mutate, restore, prepare, finish, give up, publish, seed), with
one lemma for each shape and one for each action.

Model-checked only: liveness (`EveryBlockEnds`).

## 5. Session kernel

### Model (`SessionKernel.tla`, `SessionRevocation.tla`)

* State: `user[r]` and `client[s]` are the records, `slot[r, c]` the reuse slot of a root and a client, `rootScore` and
  `score` the scores of a session in its indexes, `deadline[s]` the latest deadline given to an artifact of `s`,
  `op[o]` what a request remembers, `acknowledged` (history) the roots whose revocation was answered.
* Each Redis script is one step: `CreateUserSession`, `OpenClientSession` (`Renew` or `OpenNew`), `ResolveUserSession`,
  `ResolveClientSession`, `Revoke`. `IssueArtifact` is `getIssuanceLifetime`. `RevokeUnheard` is a call whose outcome
  the caller does not learn (`storage.ts`). The process that opens a session brings its own lifetime (`ClientTtls`).
* An observation is bound to the operation that made it, and nothing refreshes it: between the observation of a root
  and the opening under it, the root may be revoked, expire, or get the same client's session from elsewhere.
  An operation holds one observation; a request that keeps several is several operations.
* A client session has the same score in its four indexes, written by the same script, so one score stands for them.
  Random identifiers never repeat, so an instance is its identifier.
* `SessionRevocation` puts batches beside the kernel: the capture page by page (`NextPage`, `LastPage`,
  `LastPageOfRoots`), its refusal (`GiveUpCapture`), the execution target by target with failed and unknown outcomes
  (`ExecuteTarget`), and the retry of what is unfinished. The requests themselves are left out there: any root that
  was created may be opened under.

`ApplicationSessions.tla` is what the protocols are promised: a client session is usable from its opening or never, is
then the only usable one of its root and client, and once it is not usable it never is again.

### Runs

* `session_kernel`: two requests, two clients, one root, two sessions, lifetimes 1 and 3 under a root of 3, four ticks;
  146,114 states up to symmetry. Two requests are enough for one to act on what another one changed since; two
  sessions are enough for a second instance beside the first and after it; the lifetimes differ so that renewal is
  clipped by the root, and by nothing.
* `session_revocation`: two roots, two sessions, one client, one batch with pages of one entry; 1,881,728 states. Two
  entries in pages of one are the smallest index that has a rank to shift. One lifetime, since what a renewal moves
  is the subject of the next run.
* `session_revocation_moving`: the same with two lifetimes; TLC finds the finding below.

### Finding

`ConfirmedIsComplete` does not hold. The pages of a capture are ranks of a live index. A renewal moves an entry to a
later rank and a revocation takes one out; what followed it moves up by one, and the entry that was to begin the next
page is skipped. It is in no page, so it is not unfinished either, and the batch is confirmed
(`unified-lifecycle.ts`). It takes more than one page (1000 entries), that is a busy client.
`docs/features/sso/login-and-session.md:33` says that a batch handles the records selected at its beginning, and that
newly established sessions may not be within it; it names no others that may be left out.
`docs/architecture/backend-architecture.md:170` wants all targets captured first, and not along a cursor that changes.
The same document disclaims a global snapshot (lines 140 and 169), which a reader may take to cover this case; the
session passed over here is no late arrival, it stood all along. What does hold is `ConfirmedUnlessMoved`.

### Proofs (`SessionKernelProofs.tla`, `SessionRevocationProofs.tla`)

For any roots, sessions, clients, requests and lifetimes, and with no bound on time in use (`MaxTime` only stops the
clock), from `KernelAssumption` alone: every property of the run `session_kernel`, the refinement included.

`OneLiveInstance` is not inductive: a step that opens a session looks at the slot, never at the other sessions. `Inv`
says that the slot of a relation leads to a session of that relation, and that whatever stands is what its slot leads
to, for exactly as long (`SlotsSound`); that records lie within their roots (`RecordsSound`); that scores and deadlines
match records; that an acknowledged root no longer stands; and that what an operation observed exists, is no shorter
than observed, and is nothing it knew to be revoked (`ObservationSound`). For the refinement, a step either opens a
session where its relation has none that stands (`OpensOnRecords`), or makes nothing usable (`ClosesOnly`).

For batches (`SessionRevocationProofs`), from `KernelAssumption` and `RevocationAssumption` (pages hold something,
indexes are finite, names are numbers so that equal scores have an order): `BatchTypeCorrect`, `ConfirmedMeansEnded`
(`ConfirmedUnlessMoved`), and what the kernel promises, for any number of batches that race with openings, renewals,
revocations and time: `OneLiveInstanceBesideBatches`, `NothingLooksCorruptBesideBatches`,
`SessionsOnlyEndBesideBatches`, `ImplementsPromiseBesideBatches`. The invariant `RInv` is that of the kernel, which the
requests left out of the model do not disturb, and of each batch:

* `CaptureSound`: what stood when the capture began is captured, has ended, or is at a rank not yet passed. While no
  entry changes its place, ranks never shrink: entries only come behind, and leave only with the end of their session;
* `ExecutionSound`: what was captured is unfinished, or has ended.

That the last page is the last is a fact about counting: a page with fewer entries than the limit leaves no rank.
The lemmas on one step of the records (`RecordsStep`, `RootKeepsInv`, `WritingKeepsInv`) serve both modules.

Nothing of the sessions is model-checked only.

## 6. Work after a publication

### Model (`PostPublication.tla`)

* State: `document` and `row` are the version of the document and the post-publication columns of its rebuild row,
  `facts` the version of the subject facts in Redis, `exec[w]` the memory of an execution. `asked` is history.
  Rows of several users share nothing, so there is one.
* Claims: `ClaimRequest` (after a publication), `ClaimRepair` (the schedule), `ClaimForced` and `RetryExhausted` (an
  operator). Each is one UPDATE; `FailedOrStale` and `NextAttempt` are its conditions.
* Effects, without a lock: `ReadDocument`, `PublishFacts` (one script), `RepairAccess`; each may fail or not be heard.
  The repair of the subject's access may answer that it is deferred (its lease is held, the authority does not say what
  is to be repaired, or nothing is); the processor counts that as done, and so does the model (`RepairAnswers`). What a
  deferred repair leaves is in the backlog of section 4 (`EveryBlockIsQueued`).
* `Complete` writes the outcome if the row is still the execution's own, `CompletionFails` goes to the cleanup, `Crash`
  leaves the row to the repair. `GrowStale` is the time after which an owner is taken for dead, whether it is or not.

### Run

`post_publication`: 3 workers, 3 attempts instead of 5, 2 versions, 1 explicit retry; 218,278 states. Three workers are
an owner, the successor that took it for dead, and one on the next version; two versions are enough for a late effect
of an older one; three attempts are enough to be exhausted by dying, by failing and by both.

Fairness: an execution goes on or dies (one that hangs for ever is as good as dead, and `Crash` is its step); the repair
takes what is due (`document-repair-schedule.ts` runs rounds for ever, unless one ends as `cleanup-failed`, see section
3); time passes. Nothing is assumed of success: `EffectsSettle` promises rest, not effect. No fairness of operators or of
publications.

### Proofs (`PostPublicationProofs.tla`)

`TypeCorrect` and `ProcessedRows` (`Spec => []ProcessedIsEffective`), for any workers, versions and attempts, from
`PostPublicationAssumption` alone. `ProcessedIsEffective` is not inductive: it says of a row what an execution that may
be anywhere, and may have lost its row long ago, will write into it. The invariant adds

* `ExecSound`: what an execution remembers to have done is there, for the version it works for or a later one. Facts
  only grow (the script refuses an older version), so a late effect of an older version does not disturb it;
* `RowSound`: a row that says it is processed has its facts, and the repair was asked for when they were there.
  `Complete` may write that only if the row still has the token of the execution, hence its version, and then
  `ExecSound` is what it needs.

`EffectsSettle` is a liveness property and only model-checked.

## 7. Authorization codes

### Model (`CodeExchange.tla`)

* State: the browser (`cookie`, the roots it was `held`, the `completion` it was given), `standing` and `expired` roots,
  continuations `wait`, authorization requests `flow`, codes and tokens, redemptions `redeem`; `seen` and `relation` of
  `ApplicationSessions`, and the `live` sessions, whose record is neither revoked nor expired. `usable`, of which
  `ApplicationSessions` speaks, is a definition: a live session under a root that stands.
* Authorization: `AuthorizeOidc`/`AuthorizeSso` resolve the root; a request without one saves a continuation, whose
  login page is asked for (`AllowCompletion`) and which is resumed (`Resume`, `ConsumeContinuation`). Then a client
  session is reused or opened under the root that was resolved, and a code is saved. As in the script, an opening looks
  at the deadline of that root, which never changes, and not whether it was revoked meanwhile (`MayOpen`): under a
  revoked root a session is opened or renewed and a code is issued, but no use is granted.
* Redemption: OIDC takes the code and then looks at the session; custom SSO reads it, looks, and takes it
  (`TakeCode` against `ReadCode`, `Permit`, `ConsumeCode`). `SaveToken` ends it well. Every call may fail or stay
  unanswered (`TakeUnheard`, `ReadUnheard`, `ConsumeUnheard`, `SaveUnheard`); what a failure undoes depends on the way
  (`RevokeForFailure`, `Compensate`).
* Sessions and roots end at any time, keys expire at any time, and a token or the browser logs out. A root that is
  revoked (`EndRoot`) leaves the records of its sessions; one that reaches its deadline (`ExpireRoot`) takes them along,
  because every opening and renewal clips the session by it.

Refresh tokens, PKCE, nonces, redirect URIs and the layout of tokens are left out: no property speaks of them.

### Run

`code_exchange`: 1 root, 2 sessions, an OIDC and a custom SSO client, 2 requests, 1 continuation asked for twice, 2
redemptions, 2 of continuations and redemptions together; 1,776,083 states up to symmetry. Two redemptions of one code
meet at every step; two requests compete for one continuation; one root is enough for a login that was there before
(it is in `heldThen`) and for one that is fresh. A third session would only be opened like the second. The theorems
hold for any number of roots, which is out of the reach of a run.

### Proofs (`CodeExchangeProofs.tla`)

`TypeCorrect` (with it, that no session outlives the deadline of its root), `CodesAreSingleUse`, `ReportsAreTrue` and
`ForcedLogins`: the four properties of the run, for any roots, sessions, clients, requests, redemptions and
continuations, from `CodeExchangeAssumption` alone. The invariant says of each redemption what its place in the procedure
entitles it to:

* `PlaceSound`: its place in the procedure fixes what it knows of the code, and what its failure may still undo;
* `CodeSound`: what it says of the code is true. One that consumed the code is the one the code was given to, so two
  never did; one that says it is not attempted or missing did not take it, also when an answer was lost;
* `TokenSound`: a token exists only of a redemption that consumed its code, and a removed one is gone;
* a request that was resumed from a continuation has a root that was not held when the login page was asked for.

The last needs the field `before` of a request: what the browser held when the login page was asked for, copied when the
request is resumed, because the continuation is gone by then and may be asked for again.

Two more theorems are about steps. `SessionsAsPromised` (`Spec => Kernel!Spec`): the protocols change the sessions only as
`ApplicationSessions` allows, the promise `SessionKernel` is proved to keep. It rests on the slot, which keeps two
sessions of one root and client from being live together, also under a revoked root, and on a session's root having been
created before it, so that no login makes a session usable. `GrantsDoNotReturn`: a token whose use was
refused once, because its session ended or it was removed, is never granted again (`GrantsOnlyEnd`); what a request
issued, what a redemption redeems and what is gone stay so (`OnlyGoOn`), and sessions do not return. No run checks these
two; TLC agreed on the instance of `code_exchange` before they were proved.

## 8. Client snapshot

### Model (`ClientSnapshot.tla`)

* State: `db` the version of the configuration, `redis` the control (epoch and generation) and the payload, `flights`
  the loads that readers of one process share, `reader[r]` an acquire, `admin[a]` a mutation, `backup` an older copy
  of Redis. `told` and `warned` are history: what some caller was told.
* A mutation (`client-mutation.ts`, `uow`) rolls back, commits and must invalidate, or does not hear the answer to
  COMMIT, which is decided now or later (`Decide`), and invalidates as a precaution. An error of the invalidation
  reaches the caller.
* An acquire asks for the control and the payload in one script, answers from a payload of that control, or joins or
  starts a load. `Load` reads the database, `Publish` stores under the control it observed or conflicts, `Settle`
  answers all who share the flight; after a second conflict the snapshot is unavailable.
* Incidents: `Repair` of a client, `LoseControl`, and the restore of a backup with traffic stopped, as ADR-0021 wants
  it, ended by `RepairAll`.

### Run

`client_snapshot`: 2 mutations, 2 readers, 2 processes, 1 change of the configuration, 1 incident; 1,982,864 states up
to symmetry. Two readers are enough to share a load in one process and to race in two; one change is enough to
be late for; two mutations give two generations.

Between a commit and its invalidation an older load may still replace a newer payload of the same control, so readers
may see the new value and then the old one. ADR-0021 accepts this: nobody has been told yet. `AcquiredIsCurrent` is
therefore about changes somebody was told are in effect.

### Proofs (`ClientSnapshotProofs.tla`)

`NoStaleAnswers` (`Spec => []AcquiredIsCurrent`) and `NoSilentStaleness` (`Spec => []StaleIsKnown`), for any admins,
readers and processes, from `ClientSnapshotAssumption` and `NoneAssumption` (a missing control or payload is none).
Nothing rests on the bounds. What a reader returns was decided long before, by what it observed, what the load it
joined read, and what happened to Redis meanwhile; the invariant says

* `Known`: a control that a reader or a load carries is of an epoch that was used and of a generation that is not ahead
  of Redis, so once Redis has moved on, even by losing its control, it never has this control again (`ControlMoves`);
* `RedisSound` and `FlightSound`: a value under the control Redis has now is no older than what anybody was told
  (`Shows`), and is the database's unless a mutation is on its way or ended in an error (`Excused`);
* `Served`: a loaded value is enough for each reader that observed its control. It holds when the value is loaded, since
  everything told was committed, and when a reader observes a control, by `Shows`; nothing changes it later;
* `ClosedSound`: nobody is on the way while traffic is stopped, so a restored control, which breaks `Known`, meets nobody.

`TypeCorrect` (`Spec => []TypeOK`) has a second invariant, since `TypeOK` bounds epochs and generations: an epoch is used
up only by an incident, and a generation is spent by an incident or by a mutation that ends, so neither runs ahead of
the incidents and mutations there are; and whoever waits for a load has a flight that will answer it.
No other theorem rests on these bounds.

## 9. Gateway publication

### Model (`Gateway.tla`)

* State: `remote` is what APISIX holds, `children` the credentials of consumers, `late` the writes still under way that
  nobody waits for, `inst` the instance (its plan, what it checked and tried, its block), `report` its last report.
  `base`, `kept` and `suspect` are history. APISIX is external.
* `Plan` reads and plans (`Upserts`, `Deletes`). `ReadCredentials` asks, one request per consumer that is to be deleted,
  whether it has credentials; `AssertRestorableDeletions` begins to write when all were asked and none has. `Write` sends
  one write in the order `NextOf`, and at the first failure `Undo` restores what was tried in the same way, from the
  snapshots. `Abort` is the operation timer; `Late`, `Undone` and `Applied` report; an uncertain outcome blocks the
  instance.
* Others write to resources no manifest names, and add credentials. `Crash`; `Restart` by somebody who has looked.

Assumed, from the release manual (`docs/releases/apisix-gateway-release.md:42` and `:124`, `apps/gateway/README.md`):
other writers to the resources of an apply are stopped during it, and a restart waits for what is under way.

### Run

`gateway_publish`: 2 scopes, 7 resources (two upstreams, a service, a route that moves from one upstream to the other,
a consumer, plugin metadata both scopes name, a foreign route), 3 applies; 2,523,242 states. Three applies are a
publication, one that changes and prunes, and one of the other scope.

`apps/gateway/README.md` says that a publication leaves alone the objects of other scopes and those that are not
managed. Deletions do (`Deletes`). An upsert writes whatever has the id a manifest names, without looking at its owner
(`planner.ts:32`); ids carry their scope except those of plugin metadata, so it is there that two scopes overwrite each
other. A crash between two writes leaves references whole, but the restarted instance is not blocked: that the
configuration is half published is for the operator to see.

Credentials are no part of the plan. `OutcomeIsTrue` says that no consumer loses those it had when the apply planned, or
when the apply asked for them (`kept`). Credentials that are added after a consumer was asked and before it is deleted
are deleted with it, and the apply reports `applied`: the code reads each consumer once, before the first write
(`apisix-admin-client.ts:80-94`, `gateway-publication.ts:30`). The model has these behaviours; nothing is claimed of them.
The same holds for credentials of a consumer that the apply itself created and takes back.

### Proofs (`GatewayProofs.tla`)

`TypeCorrect`, `ReportsAreTrue` (`OutcomeIsTrue`) and `NoReferenceIsOpen` (`ReferencesResolve`): the properties of the run,
for any resources, scopes and manifests and any number of applies, from `GatewayAssumption`. What it assumes of manifests
is partly what the code validates or builds: a manifest names what its resources refer to, of a kind that is written
earlier (`validateRouteSourceReferences`), under identifiers that carry the scope (`formatGeneratedId`). That a manifest
names none of the resources others write to (`Foreign`) is not: it is a rule of the release manual for the operator.

* `PlanSound`, `WritingSound`, `UndoingSound`: while every effect is known, each resource holds what was there before or
  what the plan puts there, and which of the two follows from what was tried, and what of it was undone;
* `PlannedSound`, `KeptSound`: a consumer is checked only while it has no credentials, so the plan that is written deletes
  none of those that must keep theirs;
* `LateSound`: a write nobody waits for makes the state suspect, and an instance that left one reports nothing certain;
* `ValuesSound`: what a resource refers to is of its own scope and of an earlier kind. So a plan deletes it only together
  with what refers to it, after it, and writes it before; undoing goes the other way round;
* `RefsSound`: while nothing is suspect, every reference in APISIX resolves, and so it did when the apply began; each
  write keeps this because of the order in which it comes, forwards and in the undoing.

Nothing of this module is model-checked only.

## 10. Not modelled

The rest of the components in `PROJECT.json`, each with its reason. Login restriction is one script of Redis per
operation, and nothing else depends on it. Delegation, role and responsibility resolution, filters and projections are
pure functions, which their unit tests reach well. The organization document is a second instance of the engine. The
use cases of the APIs are transactions of PostgreSQL one by one; where they meet another store they are in
`SubjectAccess`, `DocumentUpdate` and `ClientSnapshot`. Front ends, routes, schemas, integrations, tests, release and
architecture scripts carry no protocol state; they are most of the repository, so the modules stand for a small share
of its lines.

Loss of Redis data is modelled for the client snapshot only: elsewhere the code rebuilds nothing from PostgreSQL but the
records seeded by a bootstrap. The repair's LIMIT is taken to cover the rows of the instance, so starvation by rows that
fail for ever is not modelled (see the hazard). That an index of sessions is never trimmed, so that a capture may reach
its budget for ever, is listed as a hazard without a property.

## 11. How to run

    tlc -config DocumentUpdate_safety.cfg MCDocumentUpdate
    tlc -config SubjectAccess_stores.cfg MCSubjectAccess
    tlc -config SessionKernel_sessions.cfg MCSessionKernel
    tlc -config SessionRevocation_batches.cfg MCSessionRevocation
    tlc -config PostPublication_effects.cfg MCPostPublication
    tlc -config CodeExchange_codes.cfg MCCodeExchange
    tlc -config ClientSnapshot_cache.cfg MCClientSnapshot
    tlc -config Gateway_publish.cfg MCGateway
    tlapm DocumentUpdateProofs.tla
    tlapm SubjectAccessProofs.tla
    tlapm SessionKernelProofs.tla
    tlapm SessionRevocationProofs.tla
    tlapm PostPublicationProofs.tla
    tlapm CodeExchangeProofs.tla
    tlapm ClientSnapshotProofs.tla
    tlapm GatewayProofs.tla

Each `MC*` module instantiates a component for TLC; `PROJECT.json` lists the runs, what each shows, and for every
checked property a mutant: a definition of the model changed as a plausible bug would change it, under which TLC finds
the property violated.
