---------------------------- MODULE SubjectAccess ----------------------------
(***************************************************************************)
(* Subject access (packages/api-core/src/subject-access and                *)
(* packages/user-document/src/subject-access): how an account is disabled, *)
(* enabled or created when PostgreSQL holds the account and Redis the      *)
(* record that every operation of its sessions reads.                      *)
(*                                                                         *)
(* A run of the lifecycle writes an intent in PostgreSQL, blocks the       *)
(* record in Redis, changes the account in the transaction that commits    *)
(* the intent, and then finishes the record.  It can fail or die between   *)
(* any two of these.  A scheduled recovery decides transitions whose run   *)
(* did not come back, by the intent; a repair finishes the decided ones,   *)
(* by the account and its published facts; a reaper gives up old intents.  *)
(* Leases fence the workers that do this.  A session carries the           *)
(* generation (transition) that was committed when its owner logged in and *)
(* is admitted only while that generation stands.                          *)
(*                                                                         *)
(* One subject: the keys and rows of two subjects share nothing.  Each     *)
(* Redis script and each PostgreSQL transaction is one step.  Times are    *)
(* kept as far as they are compared with now: an index entry is due or     *)
(* not, and a lease ends when its index entry falls due, because claiming  *)
(* writes the end of the lease as the score.  A lease token is the agent   *)
(* that drew it, which holds one lease at a time; the fence number adds    *)
(* nothing to a fresh token.  The branches of the scripts that answer      *)
(* "invalid" or drop an index entry of no transition need damaged keys     *)
(* (EveryBlockIsQueued says so) and are left out.                          *)
(***************************************************************************)
EXTENDS Naturals, FiniteSets

CONSTANTS
    Transitions,  \* lifecycle runs, one transition identifier each
    Agents,       \* executions of recovery or repair
    Sessions,     \* sessions of the subject
    Seed,         \* the identifier a bootstrap gives to its record
    NoId,         \* no transition (a missing record or token)
    MaxFaults,    \* bound on failed calls, lost replies, deaths, slow leases
    MaxOthers     \* bound on changes of the user outside the lifecycle

ASSUME AccessAssumption ==
    /\ Seed \notin Transitions
    /\ NoId \notin Transitions \cup {Seed} \cup Agents
    /\ MaxFaults \in Nat
    /\ MaxOthers \in Nat

VARIABLES
    account,    \* the account in PostgreSQL
    changes,    \* committed changes of this user
    published,  \* changes its published document and facts include
    intent,     \* intent[x]: the transition's row in PostgreSQL
    record,     \* the access record in Redis
    journal,    \* the transition journal in Redis
    recoverAt,  \* the subject's entry in the transition index
    repairAt,   \* its entry in the repair backlog and its age index
    run,        \* memory of each lifecycle run
    late,       \* begin scripts whose caller gave up, still to be executed
    agent,      \* memory of each recovery or repair execution
    session,    \* sessions of the subject, and what an operation found
    seeding,    \* what a bootstrap read of the account
    others,     \* changes outside the lifecycle so far
    faults,     \* faults so far
    disables    \* history: committed steps to a disabled account

redis == <<record, journal, recoverAt, repairAt>>
postgres == <<account, changes, published, intent>>
vars == <<account, changes, published, intent, record, journal, recoverAt, repairAt,
          run, late, agent, session, seeding, others, faults, disables>>

Ids == Transitions \cup {Seed}
Targets == {"enabled", "disabled", "rollback"}
When == {"out", "waiting", "due"}

Absent == [state |-> "absent", id |-> NoId]
Record == [state : {"absent", "enabled", "blocking", "disabled"}, id : Ids \cup {NoId}]

Journal == [status : {"absent", "mutating", "repairable", "finalized", "rolled_back"},
            id : Transitions \cup {NoId}, previous : Record,
            target : Targets \cup {"none"}, token : Agents \cup {NoId}]

Intent == [status : {"absent", "pending", "committed", "rolled_back"},
           target : Targets \cup {"none"}, at : Nat]

Run == [pc : {"new", "begin", "rejected", "uncertain", "abort", "mutate", "undo", "restore",
              "prepare", "finalize", "revoke", "done"},
        target : Targets \cup {"none"}, previous : Ids \cup {NoId}]

Agent == [pc : {"idle", "recovering", "resolved", "repairing", "judged"},
          id : Transitions \cup {NoId}, target : Targets \cup {"none"}, matches : BOOLEAN]

Session == [status : {"none", "opening", "open", "revoked"}, generation : Ids \cup {NoId},
            finding : {"none", "stale", "disabled"}, epoch : Nat]

TypeOK ==
    /\ account \in {"absent", "enabled", "disabled"}
    /\ changes \in Nat /\ published \in 0..changes
    /\ intent \in [Transitions -> Intent]
    /\ record \in Record
    /\ journal \in Journal
    /\ recoverAt \in When /\ repairAt \in When
    /\ run \in [Transitions -> Run]
    /\ late \in SUBSET Transitions
    /\ agent \in [Agents -> Agent]
    /\ session \in [Sessions -> Session]
    /\ seeding \in {"none", "enabled", "disabled"}
    /\ others \in 0..MaxOthers
    /\ faults \in 0..MaxFaults
    /\ disables \in Nat

IdleAgent == [pc |-> "idle", id |-> NoId, target |-> "none", matches |-> FALSE]

\* An account from before subject access, without a record, or a new user.
Init ==
    /\ account \in {"absent", "enabled", "disabled"}
    /\ changes = 0 /\ published = 0
    /\ intent = [x \in Transitions |-> [status |-> "absent", target |-> "none", at |-> 0]]
    /\ record = Absent
    /\ journal = [status |-> "absent", id |-> NoId, previous |-> Absent,
                  target |-> "none", token |-> NoId]
    /\ recoverAt = "out" /\ repairAt = "out"
    /\ run = [x \in Transitions |-> [pc |-> "new", target |-> "none", previous |-> NoId]]
    /\ late = {}
    /\ agent = [a \in Agents |-> IdleAgent]
    /\ session = [s \in Sessions |-> [status |-> "none", generation |-> NoId,
                                      finding |-> "none", epoch |-> 0]]
    /\ seeding = "none"
    /\ others = 0
    /\ faults = 0
    /\ disables = 0

Fault == faults < MaxFaults /\ faults' = faults + 1

Goes(x, pc) == run' = [run EXCEPT ![x].pc = pc]

-----------------------------------------------------------------------------
(* The Redis scripts, each answering whether it took effect.               *)

Mutating(x) == journal.status = "mutating" /\ journal.id = x

Repairable(x, target) ==
    journal.status = "repairable" /\ journal.id = x /\ journal.target = target

\* Mutant: a second transition takes over a blocked record.
BeginOver(x) ==
    /\ record' = [state |-> "blocking", id |-> x]
    /\ journal' = [status |-> "mutating", id |-> x, previous |-> record,
                   target |-> "none", token |-> NoId]
    /\ recoverAt' = "waiting"
    /\ UNCHANGED repairAt

\* BEGIN_BLOCKING; a blocked record refuses any other transition.
BeginBlocking(x) ==
    /\ record.state # "blocking"
    /\ record' = [state |-> "blocking", id |-> x]
    /\ journal' = [status |-> "mutating", id |-> x, previous |-> record,
                   target |-> "none", token |-> NoId]
    /\ recoverAt' = "waiting"
    /\ UNCHANGED repairAt

\* ABORT_BEGIN and ROLLBACK: the record that was there before comes back.
RestorePrevious(x) ==
    /\ record' = journal.previous
    /\ journal' = [status |-> "rolled_back", id |-> x, previous |-> Absent,
                   target |-> "none", token |-> NoId]
    /\ recoverAt' = "out"
    /\ repairAt' = "out"

\* Mutant: the decided transition is not put in the repair backlog.
PrepareOnly(x, target) ==
    /\ journal' = [journal EXCEPT !.status = "repairable", !.target = target, !.token = NoId]
    /\ recoverAt' = "out"
    /\ UNCHANGED <<record, repairAt>>

\* PREPARE_REPAIR: the transition is decided, the repair may finish it.
Prepare(x, target) ==
    /\ journal' = [journal EXCEPT !.status = "repairable", !.target = target, !.token = NoId]
    /\ repairAt' = "due"
    /\ recoverAt' = "out"
    /\ UNCHANGED record

\* Mutant: the record keeps the generation it had before the transition.
FinishInPlace(x, target) ==
    /\ record' = [state |-> target, id |-> journal.previous.id]
    /\ journal' = [status |-> "finalized", id |-> x, previous |-> Absent,
                   target |-> target, token |-> NoId]
    /\ recoverAt' = "out"
    /\ repairAt' = "out"

\* FINALIZE and FINALIZE_REPAIR: the record takes the state and generation.
Finish(x, target) ==
    /\ record' = [state |-> target, id |-> x]
    /\ journal' = [status |-> "finalized", id |-> x, previous |-> Absent,
                   target |-> target, token |-> NoId]
    /\ recoverAt' = "out"
    /\ repairAt' = "out"

-----------------------------------------------------------------------------
(* A run of the lifecycle.                                                 *)

CreateIntent(x) ==
    /\ run[x].pc = "new"
    /\ intent' = [intent EXCEPT ![x] = [@ EXCEPT !.status = "pending"]]
    /\ Goes(x, "begin")
    /\ UNCHANGED <<account, changes, published, redis, late, agent, session, seeding, others,
                   faults, disables>>

\* The receipt carries the generation that the transition may invalidate.
Begin(x) ==
    /\ run[x].pc = "begin"
    /\ BeginBlocking(x)
    /\ run' = [run EXCEPT ![x] = [@ EXCEPT !.pc = "mutate", !.previous = record.id]]
    /\ UNCHANGED <<postgres, late, agent, session, seeding, others, faults, disables>>

BeginConflicts(x) ==
    /\ run[x].pc = "begin"
    /\ record.state = "blocking"
    /\ Goes(x, "rejected")
    /\ UNCHANGED <<postgres, redis, late, agent, session, seeding, others, faults, disables>>

\* The call fails at the client: the script ran, or did not, or runs later.
BeginFails(x) ==
    /\ run[x].pc = "begin"
    /\ Fault
    /\ \/ BeginBlocking(x) /\ UNCHANGED late
       \/ UNCHANGED <<redis, late>>
       \/ late' = late \cup {x} /\ UNCHANGED redis
    /\ Goes(x, "uncertain")
    /\ UNCHANGED <<postgres, agent, session, seeding, others, disables>>

\* Mutant: the intent is given up whatever its status.
GivenUpAlways(x) ==
    [intent EXCEPT ![x] = [@ EXCEPT !.status = "rolled_back", !.target = "rollback"]]

\* Mutant: the status is written in the place of the target.
GivenUpAsTarget(x) ==
    [intent EXCEPT ![x] = [@ EXCEPT !.target = "rolled_back"]]

\* The update of markRolledBack has no effect unless the intent is pending.
GivenUp(x) ==
    IF intent[x].status = "pending"
    THEN [intent EXCEPT ![x] = [@ EXCEPT !.status = "rolled_back", !.target = "rollback"]]
    ELSE intent

\* After a refused or uncertain begin the intent is given up; a failure of
\* that is only logged.
GiveUpIntent(x) ==
    /\ run[x].pc \in {"rejected", "uncertain"}
    /\ \/ intent' = GivenUp(x) /\ UNCHANGED faults
       \/ Fault /\ UNCHANGED intent
    /\ Goes(x, IF run[x].pc = "rejected" THEN "done" ELSE "abort")
    /\ UNCHANGED <<account, changes, published, redis, late, agent, session, seeding, others,
                   disables>>

\* A begin that did not arrive yet is not stopped by the abort.
AbortBegin(x) ==
    /\ run[x].pc = "abort"
    /\ IF Mutating(x) THEN RestorePrevious(x) ELSE UNCHANGED redis
    /\ Goes(x, "done")
    /\ UNCHANGED <<postgres, late, agent, session, seeding, others, faults, disables>>

LateBegin(x) ==
    /\ x \in late
    /\ late' = late \ {x}
    /\ \/ BeginBlocking(x)
       \/ record.state = "blocking" /\ UNCHANGED redis
    /\ UNCHANGED <<postgres, run, agent, session, seeding, others, faults, disables>>

\* What the lifecycle does when the account becomes `to`: a change of status
\* decides; with the same status the previous record is restored, except by
\* the operations that always disable.
Dispositions(to) ==
    IF account # to THEN {to}
    ELSE IF to = "disabled" THEN {"rollback", "disabled"} ELSE {"rollback"}

AfterCommit(target) ==
    IF target = "rollback" THEN "restore" ELSE "prepare"

\* One transaction locks the pending intent, changes the account and commits
\* the intent.  The caller may not learn that it committed.
Mutate(x) ==
    /\ run[x].pc = "mutate"
    /\ intent[x].status = "pending"
    /\ \E to \in {"enabled", "disabled"} : \E target \in Dispositions(to) :
         /\ account' = to
         /\ changes' = changes + 1
         /\ disables' = IF to = "disabled" /\ account # to THEN disables + 1 ELSE disables
         /\ intent' = [intent EXCEPT ![x] = [status |-> "committed", target |-> target,
                                             at |-> changes + 1]]
         /\ \/ /\ run' = [run EXCEPT ![x] = [@ EXCEPT !.pc = AfterCommit(target),
                                                      !.target = target]]
               /\ UNCHANGED faults
            \/ Fault /\ Goes(x, "done")
    /\ UNCHANGED <<published, redis, late, agent, session, seeding, others>>

\* The transaction is rolled back, and the run knows it: the intent was taken
\* away, or the mutation itself refused.
MutateRollsBack(x) ==
    /\ run[x].pc = "mutate"
    /\ Goes(x, "undo")
    /\ UNCHANGED <<postgres, redis, late, agent, session, seeding, others, faults, disables>>

UndoIntent(x) ==
    /\ run[x].pc = "undo"
    /\ intent' = GivenUp(x)
    /\ Goes(x, "restore")
    /\ UNCHANGED <<account, changes, published, redis, late, agent, session, seeding, others,
                   faults, disables>>

\* Recovery may have been faster, and another transition may have begun.
Restore(x) ==
    /\ run[x].pc = "restore"
    /\ IF Mutating(x) THEN RestorePrevious(x) ELSE UNCHANGED redis
    /\ Goes(x, "done")
    /\ UNCHANGED <<postgres, late, agent, session, seeding, others, faults, disables>>

\* A refusal (recovery was faster and the repair has finished) ends the run.
PrepareRepair(x) ==
    LET target == run[x].target
        already == /\ journal.status \in {"repairable", "finalized"}
                   /\ journal.id = x /\ journal.target = target IN
    /\ run[x].pc = "prepare"
    /\ IF Mutating(x) THEN Prepare(x, target) ELSE UNCHANGED redis
    /\ Goes(x, IF (Mutating(x) \/ already) /\ target = "disabled" THEN "finalize" ELSE "done")
    /\ UNCHANGED <<postgres, late, agent, session, seeding, others, faults, disables>>

LeaseLives == journal.token # NoId /\ repairAt = "waiting"

\* A refusal or failure to finalize is only logged: the repair will do it.
Finalize(x) ==
    /\ run[x].pc = "finalize"
    /\ \/ /\ IF Repairable(x, "disabled") /\ ~LeaseLives
             THEN Finish(x, "disabled") ELSE UNCHANGED redis
          /\ UNCHANGED faults
       \/ Fault /\ UNCHANGED redis
    /\ Goes(x, IF run[x].previous = NoId THEN "done" ELSE "revoke")
    /\ UNCHANGED <<postgres, late, agent, session, seeding, others, disables>>

\* Mutant: the revocation takes every session of the user.
RevokedAll(generation) ==
    [s \in Sessions |-> IF session[s].status = "open"
                        THEN [session[s] EXCEPT !.status = "revoked"] ELSE session[s]]

\* The sessions of one generation are revoked, no others.
Revoked(generation) ==
    [s \in Sessions |-> IF session[s].status = "open" /\ session[s].generation = generation
                        THEN [session[s] EXCEPT !.status = "revoked"] ELSE session[s]]

RevokeSessions(x) ==
    /\ run[x].pc = "revoke"
    /\ session' = Revoked(run[x].previous)
    /\ Goes(x, "done")
    /\ UNCHANGED <<postgres, redis, late, agent, seeding, others, faults, disables>>

\* The run dies, or a call of its own fails and the error ends it.
StopRun(x) ==
    /\ run[x].pc \notin {"new", "done"}
    /\ Fault
    /\ Goes(x, "done")
    /\ UNCHANGED <<postgres, redis, late, agent, session, seeding, others, disables>>

-----------------------------------------------------------------------------
(* Reaper and recovery of transitions whose run did not come back.         *)

\* An intent pending for long is given up, whatever its run is doing.
ReapIntent(x) ==
    /\ intent[x].status = "pending"
    /\ intent' = GivenUp(x)
    /\ UNCHANGED <<account, changes, published, redis, run, late, agent, session, seeding,
                   others, faults, disables>>

\* Time passes: the recovery delay of a begin, the delay of a reschedule, or
\* a lease runs out.  An agent still working on its lease outran it: a fault.
Working(a) == agent[a].pc # "idle"

Holder == journal.token \in Agents /\ Working(journal.token)

RecoveryFallsDue ==
    /\ recoverAt = "waiting"
    /\ IF Holder THEN Fault ELSE UNCHANGED faults
    /\ recoverAt' = "due"
    /\ UNCHANGED <<postgres, record, journal, repairAt, run, late, agent, session, seeding,
                   others, disables>>

RepairFallsDue ==
    /\ repairAt = "waiting"
    /\ IF Holder THEN Fault ELSE UNCHANGED faults
    /\ repairAt' = "due"
    /\ UNCHANGED <<postgres, record, journal, recoverAt, run, late, agent, session, seeding,
                   others, disables>>

ClaimRecovery(a) ==
    /\ agent[a].pc = "idle"
    /\ recoverAt = "due"
    /\ Mutating(record.id)
    /\ journal' = [journal EXCEPT !.token = a]
    /\ recoverAt' = "waiting"
    /\ agent' = [agent EXCEPT ![a] = [IdleAgent EXCEPT !.pc = "recovering", !.id = journal.id]]
    /\ UNCHANGED <<postgres, record, repairAt, run, late, session, seeding, others, faults,
                   disables>>

\* Mutant: a pending intent is reported rolled back, but left pending.
ResolvedByReading(x) == intent

\* The intent is locked and decides; a pending one is given up for it.
Resolved(x) == GivenUp(x)

ResolveRecovery(a) ==
    LET x == agent[a].id IN
    /\ agent[a].pc = "recovering"
    /\ intent' = Resolved(x)
    /\ agent' = [agent EXCEPT ![a] = [@ EXCEPT !.pc = "resolved",
                                               !.target = GivenUp(x)[x].target]]
    /\ UNCHANGED <<account, changes, published, redis, run, late, session, seeding, others,
                   faults, disables>>

\* Mutant: a lease is good for any transition that is being decided.
HoldsAnyRecovery(a) == journal.status = "mutating" /\ recoverAt = "waiting"

HoldsRecovery(a) ==
    Mutating(agent[a].id) /\ journal.token = a /\ recoverAt = "waiting"

\* A lease that was lost or ran out leaves everything to its next holder.
Reconcile(a) ==
    /\ agent[a].pc = "resolved"
    /\ IF ~HoldsRecovery(a) THEN UNCHANGED redis
       ELSE IF agent[a].target = "rollback" THEN RestorePrevious(agent[a].id)
       ELSE Prepare(agent[a].id, agent[a].target)
    /\ agent' = [agent EXCEPT ![a] = IdleAgent]
    /\ UNCHANGED <<postgres, run, late, session, seeding, others, faults, disables>>

\* A failed step gives the lease back for a later attempt, if it can.
RecoveryFails(a) ==
    /\ agent[a].pc \in {"recovering", "resolved"}
    /\ Fault
    /\ \/ /\ HoldsRecovery(a)
          /\ journal' = [journal EXCEPT !.token = NoId]
       \/ UNCHANGED journal
    /\ agent' = [agent EXCEPT ![a] = IdleAgent]
    /\ UNCHANGED <<postgres, record, recoverAt, repairAt, run, late, session, seeding, others,
                   disables>>

-----------------------------------------------------------------------------
(* Repair: a decided transition is finished once the account and its       *)
(* published facts agree with its target.                                  *)

\* The schedule takes what is due; the publication of a document asks for its
\* subject at once and is refused only while a lease lives.
ClaimRepair(a) ==
    /\ agent[a].pc = "idle"
    /\ journal.status = "repairable" /\ journal.id = record.id
    /\ repairAt # "out" /\ ~LeaseLives
    /\ journal' = [journal EXCEPT !.token = a]
    /\ repairAt' = "waiting"
    /\ agent' = [agent EXCEPT ![a] = [IdleAgent EXCEPT !.pc = "repairing", !.id = journal.id,
                                                       !.target = journal.target]]
    /\ UNCHANGED <<postgres, record, recoverAt, run, late, session, seeding, others, faults,
                   disables>>

\* Mutant: the account alone is compared.
AccountMatches(target) ==
    IF target = "disabled" THEN account # "enabled" ELSE account = "enabled"

\* An account that is gone or disabled; or enabled, with no change pending.
AuthorityMatches(target) ==
    IF target = "disabled" THEN account # "enabled"
    ELSE account = "enabled" /\ published = changes

Judge(a) ==
    /\ agent[a].pc = "repairing"
    /\ agent' = [agent EXCEPT ![a] = [@ EXCEPT !.pc = "judged",
                                               !.matches = AuthorityMatches(agent[a].target)]]
    /\ UNCHANGED <<postgres, redis, run, late, session, seeding, others, faults, disables>>

HoldsRepair(a) ==
    Repairable(agent[a].id, agent[a].target) /\ journal.token = a /\ LeaseLives

FinalizeRepair(a) ==
    /\ agent[a].pc = "judged" /\ agent[a].matches
    /\ IF HoldsRepair(a) THEN Finish(agent[a].id, agent[a].target) ELSE UNCHANGED redis
    /\ agent' = [agent EXCEPT ![a] = IdleAgent]
    /\ UNCHANGED <<postgres, run, late, session, seeding, others, faults, disables>>

RescheduleRepair(a) ==
    /\ agent[a].pc = "judged" /\ ~agent[a].matches
    /\ journal' = IF HoldsRepair(a) THEN [journal EXCEPT !.token = NoId] ELSE journal
    /\ agent' = [agent EXCEPT ![a] = IdleAgent]
    /\ UNCHANGED <<postgres, record, recoverAt, repairAt, run, late, session, seeding, others,
                   faults, disables>>

RepairFails(a) ==
    /\ agent[a].pc \in {"repairing", "judged"}
    /\ Fault
    /\ \/ /\ HoldsRepair(a)
          /\ journal' = [journal EXCEPT !.token = NoId]
       \/ UNCHANGED journal
    /\ agent' = [agent EXCEPT ![a] = IdleAgent]
    /\ UNCHANGED <<postgres, record, recoverAt, repairAt, run, late, session, seeding, others,
                   disables>>

-----------------------------------------------------------------------------
(* The user document, the bootstrap of records, and the sessions.          *)

\* Employment or profile changes: no transition, but the facts are stale.
OtherChange ==
    /\ account # "absent"
    /\ others < MaxOthers
    /\ others' = others + 1
    /\ changes' = changes + 1
    /\ UNCHANGED <<account, published, intent, redis, run, late, agent, session, seeding,
                   faults, disables>>

\* The document update engine settles (DocumentUpdate).
Publish ==
    /\ published < changes
    /\ published' = changes
    /\ UNCHANGED <<account, changes, intent, redis, run, late, agent, session, seeding, others,
                   faults, disables>>

ReadForSeed ==
    /\ seeding = "none"
    /\ account # "absent"
    /\ seeding' = account
    /\ UNCHANGED <<postgres, redis, run, late, agent, session, others, faults, disables>>

\* Only a missing record is seeded, with a state that may be out of date.
Seeded(state) == IF record = Absent THEN [state |-> state, id |-> Seed] ELSE record

SeedRecord ==
    /\ seeding # "none"
    /\ record' = Seeded(seeding)
    /\ seeding' = "none"
    /\ UNCHANGED <<postgres, journal, recoverAt, repairAt, run, late, agent, session, others,
                   faults, disables>>

\* Authentication reads the committed generation, the session opens later.
LogIn(s) ==
    /\ session[s].status = "none"
    /\ record.state = "enabled"
    /\ session' = [session EXCEPT ![s] = [@ EXCEPT !.status = "opening",
                                                   !.generation = record.id,
                                                   !.epoch = disables]]
    /\ UNCHANGED <<postgres, redis, run, late, agent, seeding, others, faults, disables>>

OpenSession(s) ==
    /\ session[s].status = "opening"
    /\ session' = [session EXCEPT ![s].status = "open"]
    /\ UNCHANGED <<postgres, redis, run, late, agent, seeding, others, faults, disables>>

\* An operation of the session reads the record; if it is refused for good the
\* operation goes on to revoke what it found dead.
RefuseOperation(s) ==
    /\ session[s].status = "open" /\ session[s].finding = "none"
    /\ \/ /\ record.state = "enabled" /\ record.id # session[s].generation
          /\ session' = [session EXCEPT ![s].finding = "stale"]
       \/ /\ record.state = "disabled"
          /\ session' = [session EXCEPT ![s].finding = "disabled"]
    /\ UNCHANGED <<postgres, redis, run, late, agent, seeding, others, faults, disables>>

RevokeRefused(s) ==
    /\ session[s].finding # "none"
    /\ session' = IF session[s].finding = "stale"
                  THEN [session EXCEPT ![s] = [@ EXCEPT !.status = "revoked",
                                                        !.finding = "none"]]
                  ELSE [Revoked(session[s].generation) EXCEPT ![s].finding = "none"]
    /\ UNCHANGED <<postgres, redis, run, late, agent, seeding, others, faults, disables>>

-----------------------------------------------------------------------------

RunStep(x) ==
    \/ CreateIntent(x) \/ Begin(x) \/ BeginConflicts(x) \/ BeginFails(x) \/ GiveUpIntent(x)
    \/ AbortBegin(x) \/ Mutate(x) \/ MutateRollsBack(x) \/ UndoIntent(x) \/ Restore(x)
    \/ PrepareRepair(x) \/ Finalize(x) \/ RevokeSessions(x) \/ StopRun(x)

\* What an agent does when nothing fails.
AgentStep(a) ==
    \/ ClaimRecovery(a) \/ ResolveRecovery(a) \/ Reconcile(a)
    \/ ClaimRepair(a) \/ Judge(a) \/ FinalizeRepair(a) \/ RescheduleRepair(a)

SessionStep(s) == LogIn(s) \/ OpenSession(s) \/ RefuseOperation(s) \/ RevokeRefused(s)

Next ==
    \/ \E x \in Transitions : RunStep(x) \/ LateBegin(x) \/ ReapIntent(x)
    \/ \E a \in Agents : AgentStep(a) \/ RecoveryFails(a) \/ RepairFails(a)
    \/ \E s \in Sessions : SessionStep(s)
    \/ RecoveryFallsDue \/ RepairFallsDue
    \/ OtherChange \/ Publish \/ ReadForSeed \/ SeedRecord

Spec == Init /\ [][Next]_vars

(***************************************************************************)
(* Fairness.  The repair schedule runs reaper, recovery and repair for     *)
(* ever; time passes; a document that is behind is published               *)
(* (EveryChangeIsPublished of DocumentUpdate).  Nothing is assumed of the  *)
(* runs: any of them may stop anywhere.                                    *)
(***************************************************************************)
Fairness ==
    /\ \A a \in Agents : WF_vars(AgentStep(a))
    /\ WF_vars(RecoveryFallsDue) /\ WF_vars(RepairFallsDue)
    /\ WF_vars(Publish)
    /\ \A x \in Transitions : WF_vars(ReapIntent(x))

FairSpec == Spec /\ Fairness

-----------------------------------------------------------------------------
(* Properties.                                                             *)

Admitted(s) ==
    /\ session[s].status = "open"
    /\ record.state = "enabled"
    /\ record.id = session[s].generation

\* Redis never admits anyone while PostgreSQL holds the account disabled,
\* whichever run, recovery, repair, late begin or seed wrote the record.
EnabledOnlyWithAccount == record.state = "enabled" => account = "enabled"

\* A session that is admitted has not survived a disabling of the account,
\* not even one that was undone by enabling the account again.
AdmittedSawNoDisable == \A s \in Sessions : Admitted(s) => session[s].epoch = disables

\* Whoever is admitted under a transition finds published facts that include
\* the change this transition made.
AdmittedWithOwnFacts ==
    \A x \in Transitions :
       record = [state |-> "enabled", id |-> x] => published >= intent[x].at

\* The two stores never disagree on the outcome: Redis restores the previous
\* record only of a transition that PostgreSQL did not commit as a change of
\* status and never will, and finishes only one that it did commit, with the
\* target it committed.
StoresAgree ==
    \A x \in Transitions :
       /\ journal.status = "rolled_back" /\ journal.id = x
            => intent[x].target \in {"none", "rollback"}
       /\ journal.status \in {"repairable", "finalized"} /\ journal.id = x
            => intent[x].status = "committed" /\ intent[x].target = journal.target

\* A blocked subject is never forgotten: it is blocked exactly while its
\* journal is open for the same transition, and then it is queued for
\* recovery or for repair, in one of the two only.
EveryBlockIsQueued ==
    /\ (record.state = "blocking") <=> journal.status \in {"mutating", "repairable"}
    /\ record.state = "blocking" => record.id = journal.id
    /\ (recoverAt # "out") <=> journal.status = "mutating"
    /\ (repairAt # "out") <=> journal.status = "repairable"

\* Revocation hits dead sessions only: none that would still be admitted,
\* although the generation was read long before the revocation.
OnlyDeadSessionsAreRevoked ==
    [][\A s \in Sessions :
         session'[s].status = "revoked" /\ session[s].status # "revoked" => ~Admitted(s)]_vars

\* The outcome of a transition in PostgreSQL is decided once.
OutcomeIsFinal ==
    [][\A x \in Transitions :
         intent[x].status \in {"committed", "rolled_back"} => intent'[x] = intent[x]]_vars

\* No subject stays blocked, wherever its runs stopped.
EveryBlockEnds == record.state = "blocking" ~> record.state # "blocking"

=============================================================================
