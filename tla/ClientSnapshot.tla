---------------------------- MODULE ClientSnapshot ----------------------------
(***************************************************************************)
(* The snapshot of the configuration of a client (packages/api-core/src/   *)
(* client-snapshot) and the mutations that invalidate it (apps/admin-api/  *)
(* src/services/client/client-mutation.ts, packages/api-core/src/uow).     *)
(*                                                                         *)
(* The database owns the configuration.  Processes read it through Redis:  *)
(* a control of an epoch and a generation, and a payload that is valid     *)
(* under the control it was loaded for.  Readers of one process that       *)
(* observe the same control share a load.  A mutation commits, and then    *)
(* moves the control on.  One client and one kind of payload: another      *)
(* client has keys of its own, the credential a payload under the same     *)
(* control.                                                                *)
(***************************************************************************)
EXTENDS Naturals, FiniteSets

CONSTANTS
    Admins,        \* executions of a mutation
    Readers,       \* callers of acquire
    Processes,
    None,
    MaxVersion,    \* bound: versions of the configuration
    MaxMutations,  \* bound: mutations
    MaxIncidents   \* bound: repairs of the client, losses of the control, restores of Redis

ASSUME ClientSnapshotAssumption ==
    {MaxVersion, MaxMutations, MaxIncidents} \subseteq Nat

Epochs == 1..(1 + MaxIncidents)
Generations == 0..(MaxMutations + MaxIncidents)
Controls == [epoch : Epochs, generation : Generations]
Payloads == [control : Controls, value : 0..MaxVersion]

ASSUME NoneAssumption ==
    /\ None \notin [epoch : Nat, generation : Nat]
    /\ None \notin [control : [epoch : Nat, generation : Nat], value : Nat]

VARIABLES
    db,       \* version of the configuration
    doubt,    \* a COMMIT without an answer has not been decided yet
    redis,    \* its control and payload
    epochs,   \* epochs used; they are random and never come again
    backup,   \* an earlier redis
    open,     \* FALSE: traffic is stopped for a restore
    admin,    \* admin[a]: a mutation
    reader,   \* reader[r]: an acquire
    flights,  \* loads under way, shared in their process
    told,     \* history: the newest version somebody was told is in effect
    warned,   \* history: a mutation ended in an error, or without an answer
    used      \* what counts towards the bounds

vars == <<db, doubt, redis, epochs, backup, open, admin, reader, flights, told, warned, used>>

environment == <<epochs, backup, open, used>>

Empty == [control |-> None, payload |-> None]

Idle == [pc |-> "idle", version |-> 0]

Resting == [pc |-> "idle", process |-> None, attempt |-> 0, need |-> 0, control |-> None, seen |-> None, value |-> 0]

Init ==
    /\ db = 0 /\ doubt = FALSE /\ redis = Empty /\ epochs = 0 /\ backup = Empty /\ open = TRUE
    /\ admin = [a \in Admins |-> Idle]
    /\ reader = [r \in Readers |-> Resting]
    /\ flights = {} /\ told = 0 /\ warned = FALSE
    /\ used = [mutations |-> 0, incidents |-> 0]

Newer(v, w) == IF v > w THEN v ELSE w

-----------------------------------------------------------------------------
(* The scripts of Redis.                                                   *)

\* Mutant: a control that is rebuilt starts over, always in the same epoch.
SameEpoch == 1

FreshEpoch == epochs + 1

Bootstrapped == [control |-> [epoch |-> FreshEpoch, generation |-> 0], payload |-> None]

\* ACQUIRE_SCRIPT
Acquired == IF redis.control = None THEN Bootstrapped ELSE redis

\* Mutant: the payload is dropped, the generation stays.
DropOnly == IF redis.control = None THEN Bootstrapped ELSE [redis EXCEPT !.payload = None]

\* INVALIDATE_SCRIPT
Invalidated ==
    IF redis.control = None THEN Bootstrapped
    ELSE [control |-> [redis.control EXCEPT !.generation = @ + 1], payload |-> None]

\* A script that rebuilds the control uses up an epoch.
Runs(result) ==
    /\ redis' = result
    /\ epochs' = IF redis.control = None THEN epochs + 1 ELSE epochs

Untouched == UNCHANGED <<redis, epochs>>

\* PUBLISH_SCRIPT
IsCurrent(f) == redis.control = f.control

Stored(f) ==
    IF IsCurrent(f) THEN [redis EXCEPT !.payload = [control |-> f.control, value |-> f.value]]
    ELSE redis

-----------------------------------------------------------------------------
(* Mutations, in a transaction that locks the row of the client.           *)

Starts(a) ==
    /\ admin[a].pc = "idle" /\ open /\ ~doubt
    /\ \A other \in Admins : admin[other].pc # "transaction"
    /\ used.mutations < MaxMutations
    /\ admin' = [admin EXCEPT ![a].pc = "transaction"]
    /\ used' = [used EXCEPT !.mutations = @ + 1]
    /\ UNCHANGED <<db, doubt, redis, epochs, backup, open, reader, flights, told, warned>>

\* Changed, or submitted with the values it has.
NextVersions == {db} \cup ({db + 1} \cap 0..MaxVersion)

Rollback(a) ==
    /\ admin[a].pc = "transaction"
    /\ admin' = [admin EXCEPT ![a] = Idle]
    /\ UNCHANGED <<db, doubt, redis, reader, flights, told, warned, environment>>

Commit(a) ==
    /\ admin[a].pc = "transaction"
    /\ db' \in NextVersions
    /\ admin' = [admin EXCEPT ![a] = [pc |-> "committed", version |-> db']]
    /\ UNCHANGED <<doubt, redis, reader, flights, told, warned, environment>>

\* COMMIT gets no answer: decided already, or only later.
CommitUnheard(a) ==
    /\ admin[a].pc = "transaction"
    /\ \/ db' \in NextVersions /\ UNCHANGED doubt
       \/ doubt' = TRUE /\ UNCHANGED db
    /\ admin' = [admin EXCEPT ![a].pc = "unknown"]
    /\ UNCHANGED <<redis, reader, flights, told, warned, environment>>

Decide ==
    /\ doubt
    /\ db' \in NextVersions /\ doubt' = FALSE
    /\ UNCHANGED <<redis, admin, reader, flights, told, warned, environment>>

\* The required task of a commit; after an unknown one, a precaution.
Invalidate(a) ==
    /\ admin[a].pc \in {"committed", "unknown"}
    /\ Runs(Invalidated)
    /\ IF admin[a].pc = "committed"
       THEN told' = Newer(told, admin[a].version) /\ warned' = (warned /\ doubt)
       ELSE warned' = TRUE /\ UNCHANGED told
    /\ admin' = [admin EXCEPT ![a] = Idle]
    /\ UNCHANGED <<db, doubt, reader, flights, backup, open, used>>

\* Mutant: the invalidation is a best effort, and the change a success.
EndsWell(a) == told' = Newer(told, admin[a].version) /\ UNCHANGED warned

EndsInError(a) == warned' = TRUE /\ UNCHANGED told

\* Redis fails or does not answer, or the process dies.
InvalidateFails(a) ==
    /\ admin[a].pc \in {"committed", "unknown"}
    /\ Untouched \/ Runs(Invalidated)
    /\ EndsInError(a)
    /\ admin' = [admin EXCEPT ![a] = Idle]
    /\ UNCHANGED <<db, doubt, reader, flights, backup, open, used>>

\* repairClient
Repair ==
    /\ open /\ used.incidents < MaxIncidents
    /\ Runs(Invalidated)
    /\ told' = db /\ warned' = (warned /\ doubt)
    /\ used' = [used EXCEPT !.incidents = @ + 1]
    /\ UNCHANGED <<db, doubt, admin, reader, flights, backup, open>>

-----------------------------------------------------------------------------
(* Acquire.                                                                *)

Begin(r, p) ==
    /\ reader[r].pc = "idle" /\ open
    /\ reader' = [reader EXCEPT ![r] =
                      [Resting EXCEPT !.pc = "ask", !.process = p, !.attempt = 1, !.need = told]]
    /\ UNCHANGED <<db, doubt, redis, admin, flights, told, warned, environment>>

\* Redis answers with the control and a payload that belongs to it.
Ask(r) ==
    /\ reader[r].pc = "ask"
    /\ Runs(Acquired)
    /\ reader' = [reader EXCEPT ![r] = [@ EXCEPT !.pc = "answer",
                      !.control = Acquired.control, !.seen = Acquired.payload]]
    /\ UNCHANGED <<db, doubt, admin, flights, told, warned, backup, open, used>>

AskFails(r) ==
    /\ reader[r].pc = "ask"
    /\ Untouched \/ Runs(Acquired)
    /\ reader' = [reader EXCEPT ![r] = Resting]
    /\ UNCHANGED <<db, doubt, admin, flights, told, warned, backup, open, used>>

Hit(r) == reader[r].seen # None /\ reader[r].seen.control = reader[r].control

Finished(r, value) ==
    [Resting EXCEPT !.pc = "done", !.need = reader[r].need, !.value = value]

\* The answer arrives: it may be old by now.
Answer(r) ==
    /\ reader[r].pc = "answer" /\ Hit(r)
    /\ reader' = [reader EXCEPT ![r] = Finished(r, @.seen.value)]
    /\ UNCHANGED <<db, doubt, redis, admin, flights, told, warned, environment>>

\* Mutant: the readers of a process share a load, whatever they have observed.
SharedByAll(f, r) == f.process = reader[r].process

Shared(f, r) == f.process = reader[r].process /\ f.control = reader[r].control

\* A miss joins the load of its process and control, or starts it.
Miss(r) ==
    /\ reader[r].pc = "answer" /\ ~Hit(r)
    /\ reader' = [reader EXCEPT ![r] = [@ EXCEPT !.pc = "wait", !.seen = None]]
    /\ flights' = IF \E f \in flights : Shared(f, r) THEN flights
                  ELSE flights \cup {[process |-> reader[r].process, control |-> reader[r].control,
                                      pc |-> "load", value |-> 0]}
    /\ UNCHANGED <<db, doubt, redis, admin, told, warned, environment>>

Load(f) ==
    /\ f.pc = "load"
    /\ flights' = (flights \ {f}) \cup {[f EXCEPT !.pc = "publish", !.value = db]}
    /\ UNCHANGED <<db, doubt, redis, admin, reader, told, warned, environment>>

\* Mutant: a flight answers the readers that observed Redis for the first time.
FirstAttempts(f) == {r \in Readers : reader[r].pc = "wait" /\ Shared(f, r) /\ reader[r].attempt = 1}

Waiting(f) == {r \in Readers : reader[r].pc = "wait" /\ Shared(f, r)}

\* The readers of a load go on together.
Resume(f, next) ==
    reader' = [r \in Readers |-> IF r \in Waiting(f) THEN next[r] ELSE reader[r]]

Taken(f, r) == Finished(r, f.value)

\* After a second conflict the snapshot is unavailable.
AskAgain(r) ==
    IF reader[r].attempt = 1 THEN [reader[r] EXCEPT !.pc = "ask", !.attempt = 2, !.control = None]
    ELSE Resting

Publish(f) ==
    /\ f.pc = "publish"
    /\ redis' = Stored(f)
    /\ flights' = (flights \ {f})
           \cup {[f EXCEPT !.pc = IF IsCurrent(f) THEN "published" ELSE "conflict"]}
    /\ UNCHANGED <<db, doubt, admin, reader, told, warned, environment>>

\* The answer to the publication arrives: it may be old by now.
Settle(f) ==
    /\ f.pc \in {"published", "conflict"}
    /\ Resume(f, [r \in Readers |-> IF f.pc = "published" THEN Taken(f, r) ELSE AskAgain(r)])
    /\ flights' = flights \ {f}
    /\ UNCHANGED <<db, doubt, redis, admin, told, warned, environment>>

\* The database or Redis fails; a publication without an answer took place, or not.
FlightFails(f) ==
    /\ Resume(f, [r \in Readers |-> Resting])
    /\ flights' = flights \ {f}
    /\ UNCHANGED <<db, doubt, redis, admin, told, warned, environment>>

Leave(r) ==
    /\ reader[r].pc = "done"
    /\ reader' = [reader EXCEPT ![r] = Resting]
    /\ UNCHANGED <<db, doubt, redis, admin, flights, told, warned, environment>>

-----------------------------------------------------------------------------
(* Redis loses what it holds, or gets back what it held.                   *)

Expire ==
    /\ redis.payload # None
    /\ redis' = [redis EXCEPT !.payload = None]
    /\ UNCHANGED <<db, doubt, admin, reader, flights, told, warned, environment>>

\* The control is missing or damaged; the payload may be there.
LoseControl ==
    /\ redis.control # None /\ used.incidents < MaxIncidents
    /\ redis' = [redis EXCEPT !.control = None]
    /\ used' = [used EXCEPT !.incidents = @ + 1]
    /\ UNCHANGED <<db, doubt, admin, reader, flights, told, warned, epochs, backup, open>>

TakeBackup ==
    /\ used.incidents < MaxIncidents /\ backup = Empty /\ redis.payload # None
    /\ backup' = redis
    /\ UNCHANGED <<db, doubt, redis, epochs, open, admin, reader, flights, told, warned, used>>

Drained ==
    /\ \A a \in Admins : admin[a].pc = "idle"
    /\ \A r \in Readers : reader[r].pc = "idle"
    /\ flights = {} /\ ~doubt

Restore ==
    /\ open /\ Drained /\ backup # Empty /\ used.incidents < MaxIncidents
    /\ redis' = backup /\ backup' = Empty /\ open' = FALSE
    /\ used' = [used EXCEPT !.incidents = @ + 1]
    /\ UNCHANGED <<db, doubt, epochs, admin, reader, flights, told, warned>>

\* Mutant: the restored keys are trusted.
TrustRestored == redis

AllUnlinked == Empty

\* repairAllAfterRedisRestore, then verifyAllAfterRedisRestore
RepairAll ==
    /\ ~open
    /\ redis' = AllUnlinked /\ open' = TRUE
    /\ UNCHANGED <<db, doubt, epochs, backup, admin, reader, flights, told, warned, used>>

-----------------------------------------------------------------------------
Mutation(a) ==
    \/ Starts(a) \/ Rollback(a) \/ Commit(a) \/ CommitUnheard(a)
    \/ Invalidate(a) \/ InvalidateFails(a)

Acquire(r) ==
    \/ \E p \in Processes : Begin(r, p)
    \/ Ask(r) \/ AskFails(r) \/ Answer(r) \/ Miss(r) \/ Leave(r)

Flight(f) == Load(f) \/ Publish(f) \/ Settle(f) \/ FlightFails(f)

Next ==
    \/ \E a \in Admins : Mutation(a)
    \/ \E r \in Readers : Acquire(r)
    \/ \E f \in flights : Flight(f)
    \/ Decide \/ Repair \/ Expire \/ LoseControl \/ TakeBackup \/ Restore \/ RepairAll

Spec == Init /\ [][Next]_vars

-----------------------------------------------------------------------------
(* Correctness.                                                            *)

\* Every variable has its type; epochs are used in turn, and whoever waits for a
\* load has one: no reader of a process is left behind by a flight that ended.
TypeOK ==
    /\ {db, told} \subseteq 0..MaxVersion /\ epochs \in 0..Cardinality(Epochs)
    /\ {doubt, open, warned} \subseteq BOOLEAN
    /\ {redis, backup} \subseteq [control : Controls \cup {None}, payload : Payloads \cup {None}]
    /\ admin \in [Admins -> [pc : {"idle", "transaction", "committed", "unknown"},
                             version : 0..MaxVersion]]
    /\ reader \in [Readers -> [pc : {"idle", "ask", "answer", "wait", "done"},
                               process : Processes \cup {None}, attempt : 0..2,
                               need : 0..MaxVersion, control : Controls \cup {None},
                               seen : Payloads \cup {None}, value : 0..MaxVersion]]
    /\ flights \subseteq [process : Processes, control : Controls,
                          pc : {"load", "publish", "published", "conflict"}, value : 0..MaxVersion]
    /\ \A r \in Readers : reader[r].pc = "wait" => \E f \in flights : Shared(f, r)

\* Once somebody was told that a change is in effect, no acquire that begins after
\* that returns an older configuration: not from the payload, not from a load it
\* joined, not after a control was lost or a backup restored.
AcquiredIsCurrent ==
    \A r \in Readers : reader[r].pc = "done" => reader[r].value >= reader[r].need

\* An old configuration does not stay in the cache unnoticed: with no mutation
\* under way, a payload older than the database means that a mutation has ended
\* in an error, and the client was not repaired since; a load that was started
\* before the mutation does not bring it back.
StaleIsKnown ==
    (open /\ ~doubt /\ ~warned /\ \A a \in Admins : admin[a].pc = "idle")
        => \/ redis.payload = None
           \/ redis.payload.control # redis.control
           \/ redis.payload.value = db

=============================================================================
