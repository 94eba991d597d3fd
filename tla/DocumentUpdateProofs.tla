------------------------ MODULE DocumentUpdateProofs ------------------------
(***************************************************************************)
(* Theorems about DocumentUpdate for any number of users, entries and      *)
(* workers, and any number of failures.                                    *)
(***************************************************************************)
EXTENDS DocumentUpdate, TLAPS

(***************************************************************************)
(* The inductive invariant.  A snapshot taken at commit s is good enough   *)
(* for the document of t when every change it misses still has an          *)
(* unprocessed entry that will raise the required version of t.            *)
(***************************************************************************)
GoodEnough(t, s) ==
    /\ s >= ownAt[t] \/ OwnPending(t)
    /\ \A e \in Entries :
         outbox[e].status # "absent" /\ outbox[e].about = Org /\ t \in member
            => s >= outbox[e].at \/ Unprocessed(e) \/ OwnPending(t)

\* No snapshot, and no recorded change, lies in the future.
InTime ==
    /\ orgAt <= lsn
    /\ \A t \in Targets : ownAt[t] <= lsn /\ doc[t].at <= lsn
    /\ \A e \in Entries : outbox[e].at <= lsn
    /\ \A w \in Workers : exec[w].at <= lsn

\* The last change of the organization has its entry.
OrgChangeHasEntry ==
    orgAt > 0 => \E e \in Entries : /\ outbox[e].status # "absent"
                                    /\ outbox[e].about = Org
                                    /\ outbox[e].at = orgAt

\* An open expansion holds its entry, its snapshot includes the change of the
\* entry, and whoever it did not find joined the organization later.
ExpandsWell(w) ==
    LET e == exec[w].entry IN
    /\ e \in Entries
    /\ OwnsEntry(w, e)
    /\ outbox[e].at <= exec[w].at
    /\ outbox[e].about # Org => exec[w].found = {outbox[e].about}
    /\ outbox[e].about = Org =>
         \A t \in member \ exec[w].found : ownAt[t] > exec[w].at

ExpansionsHold == \A w \in Workers : exec[w].pc = "expandTx" => ExpandsWell(w)

\* What an owner is about to publish is good enough and not older than what
\* is published.
PublishesWell(w, r) ==
    GoodEnough(r.target, exec[w].at) /\ exec[w].at >= doc[r.target].at

OwnedIsGood ==
    \A w \in Workers : \A r \in exec[w].held :
       exec[w].pc = "built" /\ OwnsRebuild(w, r) => PublishesWell(w, r)

\* What is published and not asked for again is good enough.
ProcessedIsGood ==
    \A t \in Targets : rebuild[t].status = "processed" => GoodEnough(t, doc[t].at)

Inv ==
    /\ TypeOK
    /\ InTime
    /\ OrgChangeHasEntry
    /\ ExpansionsHold
    /\ OwnedIsGood
    /\ ProcessedIsGood
    /\ ProcessedMatchesDocument

-----------------------------------------------------------------------------
(* Types.                                                                  *)

LEMMA Words ==
    {"absent", "pending", "failed", "processing", "processed"} \subseteq Status
BY DEF Status

LEMMA IdleIsExec == Idle \in Exec /\ NoRebuild \in RebuildRow
BY DEF Idle, NoRebuild, Exec, RebuildRow, Status

\* The updates of an outbox row, of a rebuild row and of an execution's
\* memory that the actions make.
LEMMA OutboxRowUpdate ==
    ASSUME NEW row \in OutboxRow, NEW s \in Status, NEW about \in Targets \cup {Org},
           NEW n \in Nat, NEW o \in Workers \cup {NoOne}, NEW q \in SUBSET Request
    PROVE  /\ [row EXCEPT !.status = s, !.about = about, !.at = n] \in OutboxRow
           /\ [row EXCEPT !.status = s, !.token = o] \in OutboxRow
           /\ [row EXCEPT !.status = s, !.token = o, !.receipt = q] \in OutboxRow
BY DEF OutboxRow

LEMMA RebuildRowUpdate ==
    ASSUME NEW row \in RebuildRow, NEW s \in Status, NEW o \in Workers \cup {NoOne}
    PROVE  /\ [row EXCEPT !.status = s, !.token = o] \in RebuildRow
           /\ Require(row) \in RebuildRow
           /\ Reset(row) \in RebuildRow
<1>1. [row EXCEPT !.status = s, !.token = o] \in RebuildRow
  BY DEF RebuildRow
<1>2. Require(row) \in RebuildRow
  BY Words DEF RebuildRow, Require
<1>3. Reset(row) \in RebuildRow
  BY Words DEF RebuildRow, Reset
<1> QED
  BY <1>1, <1>2, <1>3

\* What an execution starts from.
LEMMA ExecStart ==
    ASSUME NEW e \in Entries, NEW q \in SUBSET Request
    PROVE  /\ [Idle EXCEPT !.pc = "expanding", !.entry = e] \in Exec
           /\ [Idle EXCEPT !.pc = "expanding", !.entry = e, !.retried = TRUE] \in Exec
           /\ [Idle EXCEPT !.pc = "enqueue", !.entry = e, !.held = q] \in Exec
<1> USE DEF Exec, Idle, NoRebuild, RebuildRow, Status
<1>1. [Idle EXCEPT !.pc = "expanding", !.entry = e] \in Exec
  OBVIOUS
<1>2. [Idle EXCEPT !.pc = "expanding", !.entry = e, !.retried = TRUE] \in Exec
  OBVIOUS
<1>3. [Idle EXCEPT !.pc = "enqueue", !.entry = e, !.held = q] \in Exec
  OBVIOUS
<1> QED
  BY <1>1, <1>2, <1>3

LEMMA ExecClaimed ==
    ASSUME NEW q \in SUBSET Request
    PROVE  [Idle EXCEPT !.pc = "claimed", !.held = q] \in Exec
BY DEF Exec, Idle, NoRebuild, RebuildRow, Status

\* How its memory goes on.
LEMMA ExecUpdate ==
    ASSUME NEW x \in Exec, NEW q \in SUBSET Request, NEW n \in Nat,
           NEW f \in SUBSET Targets, NEW seen \in [Targets -> RebuildRow]
    PROVE  /\ [x EXCEPT !.pc = "expandTx", !.seen = seen, !.at = n, !.found = f] \in Exec
           /\ [x EXCEPT !.pc = "built", !.at = n] \in Exec
           /\ [x EXCEPT !.held = q] \in Exec
<1>1. [x EXCEPT !.pc = "expandTx", !.seen = seen, !.at = n, !.found = f] \in Exec
  BY DEF Exec
<1>2. [x EXCEPT !.pc = "built", !.at = n] \in Exec
  BY DEF Exec
<1>3. [x EXCEPT !.held = q] \in Exec
  BY DEF Exec
<1> QED
  BY <1>1, <1>2, <1>3

LEMMA Resettable == ASSUME NEW row \in OutboxRow PROVE Reset(row) \in OutboxRow
BY Words DEF OutboxRow, Reset

LEMMA RegisteredType ==
    ASSUME TypeOK, NEW S \in SUBSET Targets
    PROVE  Registered(S) \in SUBSET Request
BY DEF TypeOK, Registered, Request, RebuildRow

LEMMA FaultType ==
    ASSUME TypeOK, Fault PROVE faults' \in 0..MaxFaults
BY EngineAssumption DEF TypeOK, Fault

LEMMA RedeliverType ==
    ASSUME TypeOK, NEW w \in Workers, NEW again \in BOOLEAN, Redeliver(w, again)
    PROVE  outboxJobs' \in SUBSET Entries /\ rebuildJobs' \in SUBSET Request
BY DEF TypeOK, Redeliver, Exec

\* What TypeOK asks of exec, and that an execution that ends keeps it.
ExecOK ==
    /\ exec \in [Workers -> Exec]
    /\ \A w \in Workers : exec[w].pc \in {"expanding", "expandTx", "enqueue"}
                           <=> exec[w].entry \in Entries

LEMMA IdleType ==
    ASSUME TypeOK, NEW w \in Workers, exec' = [exec EXCEPT ![w] = Idle]
    PROVE  ExecOK'
BY EngineAssumption, IdleIsExec DEF TypeOK, ExecOK, Idle

LEMMA ReleaseType ==
    ASSUME TypeOK, NEW w \in Workers, NEW group, Release(w, group)
    PROVE  ExecOK'
<1>1. [exec[w] EXCEPT !.held = @ \ group] \in Exec
  BY DEF TypeOK, Exec
<1> QED
  BY <1>1, EngineAssumption, IdleIsExec DEF TypeOK, ExecOK, Release, Idle, Exec

LEMMA CompletedType ==
    ASSUME TypeOK, NEW w \in Workers, NEW S, NEW F
    PROVE  Completed(w, S, F) \in [Targets -> RebuildRow]
<1>1. ASSUME NEW t \in Targets
      PROVE  /\ [rebuild[t] EXCEPT !.status = "processed", !.token = NoOne] \in RebuildRow
             /\ [rebuild[t] EXCEPT !.status = "failed", !.token = NoOne] \in RebuildRow
             /\ rebuild[t] \in RebuildRow
  BY RebuildRowUpdate, Words DEF TypeOK
<1> QED
  BY <1>1 DEF Completed

LEMMA WrittenType ==
    ASSUME TypeOK, NEW w \in Workers, NEW S \in SUBSET Request
    PROVE  Written(w, S) \in [Targets -> DocRow]
<1>1. ASSUME NEW t \in Targets, \E r \in S : r.target = t
      PROVE  VersionFor(S, t) \in Nat
  BY <1>1 DEF VersionFor, Request
<1>2. exec[w].at \in Nat
  BY DEF TypeOK, Exec
<1> QED
  BY <1>1, <1>2 DEF Written, TypeOK, DocRow

LEMMA TypeStep == TypeOK /\ [Next]_vars => TypeOK'
<1> SUFFICES ASSUME TypeOK, [Next]_vars PROVE TypeOK'
  OBVIOUS
<1> USE EngineAssumption
<1>1. ASSUME NEW e \in Entries, NEW about \in Targets \cup {Org}, NEW n \in Nat,
             PersistOutboxEntry(e, about, n)
      PROVE  outbox' \in [Entries -> OutboxRow] /\ outboxJobs' \in SUBSET Entries
  <2>1. [outbox[e] EXCEPT !.status = "pending", !.about = about, !.at = n] \in OutboxRow
    BY Words, OutboxRowUpdate DEF TypeOK
  <2> QED
    BY <1>1, <2>1 DEF PersistOutboxEntry, TypeOK
<1>2. ASSUME NEW t \in Targets, NEW e \in Entries, NEW joins \in BOOLEAN,
             ChangeUser(t, e, joins)
      PROVE  TypeOK'
  BY <1>1, <1>2 DEF ChangeUser, TypeOK
<1>3. ASSUME NEW e \in Entries, ChangeOrg(e) PROVE TypeOK'
  BY <1>1, <1>3 DEF ChangeOrg, TypeOK
<1>4. ASSUME NEW t \in Targets, NEW e \in Entries, BackfillUser(t, e) PROVE TypeOK'
  BY <1>1, <1>4 DEF BackfillUser, TypeOK, source
<1>5. ASSUME NEW w \in Workers, NEW e \in Entries, ClaimOutbox(w, e) PROVE TypeOK'
  <2>1. [outbox[e] EXCEPT !.status = "processing", !.token = w] \in OutboxRow
    BY Words, OutboxRowUpdate DEF TypeOK
  <2>2. [Idle EXCEPT !.pc = "expanding", !.entry = e] \in Exec
    BY ExecStart
  <2> QED
    BY <1>5, <2>1, <2>2 DEF ClaimOutbox, TypeOK, source, Idle
<1>6. ASSUME NEW w \in Workers, NEW e \in Entries, ReplayOutbox(w, e) PROVE TypeOK'
  BY <1>6 DEF ReplayOutbox, TypeOK, OutboxRow, source
<1>7. ASSUME NEW w \in Workers, BeginExpansion(w) PROVE TypeOK'
  <2>1. AffectedBy(outbox[exec[w].entry].about) \in SUBSET Targets
    BY <1>7 DEF BeginExpansion, TypeOK, AffectedBy, OutboxRow
  <2>2. [exec[w] EXCEPT !.pc = "expandTx", !.seen = rebuild, !.at = lsn,
                        !.found = AffectedBy(outbox[exec[w].entry].about)] \in Exec
    BY <2>1, ExecUpdate DEF TypeOK
  <2> QED
    BY <1>7, <2>2 DEF BeginExpansion, TypeOK, source, Exec
<1>8. ASSUME NEW w \in Workers, StaleExpansion(w) PROVE TypeOK'
  BY <1>8, IdleIsExec DEF StaleExpansion, TypeOK, source, Idle
<1>9. ASSUME NEW w \in Workers, CommitExpansion(w) PROVE TypeOK'
  <2> DEFINE e == exec[w].entry
             S == exec[w].found
  <2>1. e \in Entries /\ S \in SUBSET Targets
    BY <1>9 DEF CommitExpansion, TypeOK, Exec
  <2>2. [outbox[e] EXCEPT !.status = "processed", !.token = NoOne,
                          !.receipt = Registered(S)] \in OutboxRow
    BY <2>1, Words, OutboxRowUpdate, RegisteredType DEF TypeOK
  <2>3. [Idle EXCEPT !.pc = "enqueue", !.entry = e, !.held = Registered(S)] \in Exec
    BY <2>1, RegisteredType, ExecStart
  <2>4. \A t \in Targets : Require(rebuild[t]) \in RebuildRow
    BY RebuildRowUpdate, Words DEF TypeOK
  <2> QED
    BY <1>9, <2>1, <2>2, <2>3, <2>4 DEF CommitExpansion, TypeOK, source, Idle
<1>10. ASSUME NEW w \in Workers, RetryExpansion(w) PROVE TypeOK'
  <2>1. exec[w].entry \in Entries
    BY <1>10 DEF RetryExpansion, TypeOK
  <2>2. [Idle EXCEPT !.pc = "expanding", !.entry = exec[w].entry, !.retried = TRUE] \in Exec
    BY <2>1, ExecStart
  <2> QED
    BY <1>10, <2>1, <2>2 DEF RetryExpansion, TypeOK, source, Idle
<1>11. ASSUME NEW w \in Workers, NEW again \in BOOLEAN, FailExpansion(w, again) PROVE TypeOK'
  <2>1. outbox' \in [Entries -> OutboxRow]
    <3>1. exec[w].entry \in Entries
      BY <1>11 DEF FailExpansion, TypeOK
    <3>2. [outbox[exec[w].entry] EXCEPT !.status = "failed", !.token = NoOne] \in OutboxRow
      BY <3>1, Words, OutboxRowUpdate DEF TypeOK
    <3> QED
      BY <1>11, <3>1, <3>2 DEF FailExpansion, FailedEntry, TypeOK
  <2>2. faults' \in 0..MaxFaults
    BY <1>11, FaultType DEF FailExpansion, TypeOK
  <2> QED
    BY <1>11, <2>1, <2>2, IdleType, RedeliverType DEF FailExpansion, TypeOK, ExecOK, source
<1>12. ASSUME NEW w \in Workers, EnqueueRebuilds(w) PROVE TypeOK'
  <2>1. rebuildJobs' \in SUBSET Request
    BY <1>12 DEF EnqueueRebuilds, TypeOK, Exec
  <2> QED
    BY <1>12, <2>1, IdleType DEF EnqueueRebuilds, TypeOK, ExecOK, source
<1>13. ASSUME NEW w \in Workers, NEW again \in BOOLEAN, EnqueueFails(w, again) PROVE TypeOK'
  BY <1>13, IdleType, RedeliverType, FaultType DEF EnqueueFails, TypeOK, ExecOK, source
<1>14. ASSUME NEW w \in Workers, NEW batch \in SUBSET rebuildJobs, ClaimRebuilds(w, batch)
       PROVE  TypeOK'
  <2> DEFINE mine == {r \in Newest(batch) : MayClaim(r)}
  <2>1. mine \in SUBSET Request
    BY DEF Newest, TypeOK
  <2>2. \A t \in Targets : [rebuild[t] EXCEPT !.status = "processing", !.token = w] \in RebuildRow
    BY RebuildRowUpdate, Words DEF TypeOK
  <2>3. rebuild' \in [Targets -> RebuildRow]
    BY <1>14, <2>2 DEF ClaimRebuilds, TypeOK
  <2>4. [Idle EXCEPT !.pc = "claimed", !.held = mine] \in Exec
    BY <2>1, ExecClaimed
  <2>5. exec' = [exec EXCEPT ![w] = IF mine = {} THEN Idle
                                   ELSE [Idle EXCEPT !.pc = "claimed", !.held = mine]]
    BY <1>14 DEF ClaimRebuilds
  <2> DEFINE next == IF mine = {} THEN Idle
                     ELSE [Idle EXCEPT !.pc = "claimed", !.held = mine]
  <2>6. next \in Exec
    BY <2>4, IdleIsExec
  <2>7. next.entry = NoOne /\ next.pc \in {"idle", "claimed"}
    BY DEF Idle
  <2>8. ExecOK'
    <3> HIDE DEF mine
    <3> QED
      BY <2>5, <2>6, <2>7 DEF TypeOK, ExecOK
  <2>9. rebuildJobs' \in SUBSET Request
    BY <1>14 DEF ClaimRebuilds, TypeOK
  <2> QED
    BY <1>14, <2>3, <2>8, <2>9 DEF ClaimRebuilds, TypeOK, ExecOK, source
<1>15. ASSUME NEW w \in Workers, BuildDocuments(w) PROVE TypeOK'
  <2>1. [exec[w] EXCEPT !.pc = "built", !.at = lsn] \in Exec
    BY ExecUpdate DEF TypeOK
  <2> QED
    BY <1>15, <2>1 DEF BuildDocuments, TypeOK, source, Exec
<1>16. ASSUME NEW w \in Workers, NEW group \in SUBSET exec[w].held, PublishGroup(w, group)
       PROVE  TypeOK'
  <2>1. Eligible(w, group) \in SUBSET Request
    BY DEF Eligible, TypeOK, Exec
  <2> QED
    BY <1>16, <2>1, WrittenType, CompletedType, ReleaseType DEF PublishGroup, TypeOK, ExecOK, source
<1>17. ASSUME NEW w \in Workers, NEW group \in SUBSET exec[w].held, NEW again \in BOOLEAN,
              FailRebuilds(w, group, again)
       PROVE  TypeOK'
  <2>1. faults' \in 0..MaxFaults
    BY <1>17, FaultType DEF FailRebuilds, TypeOK
  <2> QED
    BY <1>17, <2>1, CompletedType, ReleaseType, RedeliverType DEF FailRebuilds, TypeOK, ExecOK, source
<1>18. ASSUME NEW w \in Workers, NEW group \in SUBSET exec[w].held, NEW again \in BOOLEAN,
              LoseAcknowledgement(w, group, again)
       PROVE  TypeOK'
  <2>1. Eligible(w, group) \in SUBSET Request
    BY DEF Eligible, TypeOK, Exec
  <2> QED
    BY <1>18, <2>1, WrittenType, CompletedType, IdleType, RedeliverType, FaultType
       DEF LoseAcknowledgement, TypeOK, ExecOK, source
<1>19. ASSUME NEW w \in Workers, NEW again \in BOOLEAN, Crash(w, again) PROVE TypeOK'
  BY <1>19, IdleType, RedeliverType, FaultType DEF Crash, TypeOK, ExecOK, source
<1>20. ASSUME LossStep PROVE TypeOK'
  BY <1>20, FaultType DEF LossStep, LoseOutboxJob, LoseRebuildJob, TypeOK, source
<1>21. ASSUME NEW E \in SUBSET RepairableEntries, NEW R \in SUBSET RepairableTargets,
              TimelyRepair(E, R) \/ EarlyRepair(E, R)
       PROVE  TypeOK'
  <2>1. E \in SUBSET Entries /\ R \in SUBSET Targets
    BY DEF RepairableEntries, RepairableTargets
  <2>2. outbox' \in [Entries -> OutboxRow]
    <3>1. \A e \in Entries : Reset(outbox[e]) \in OutboxRow
      BY OutboxRowUpdate, Words, Resettable DEF TypeOK
    <3> QED
      BY <1>21, <3>1 DEF TimelyRepair, EarlyRepair, Repair, TypeOK
  <2>3. rebuild' \in [Targets -> RebuildRow]
    <3>1. \A t \in Targets : Reset(rebuild[t]) \in RebuildRow
      BY RebuildRowUpdate, Words DEF TypeOK
    <3> QED
      BY <1>21, <3>1 DEF TimelyRepair, EarlyRepair, Repair, TypeOK
  <2>4. rebuildJobs' \in SUBSET Request
    <3>1. \A t \in Targets : Current(t) \in Request
      BY DEF Current, Request, TypeOK, RebuildRow
    <3> QED
      BY <1>21, <2>1, <3>1 DEF TimelyRepair, EarlyRepair, Repair, TypeOK
  <2>5. faults' \in 0..MaxFaults
    BY <1>21, FaultType DEF TimelyRepair, EarlyRepair, TypeOK
  <2> QED
    BY <1>21, <2>1, <2>2, <2>3, <2>4, <2>5
       DEF TimelyRepair, EarlyRepair, Repair, TypeOK, source
<1>22. CASE UNCHANGED vars
  BY <1>22 DEF vars, TypeOK
<1> QED
  BY <1>2, <1>3, <1>4, <1>5, <1>6, <1>7, <1>8, <1>9, <1>10, <1>11, <1>12, <1>13, <1>14,
     <1>15, <1>16, <1>17, <1>18, <1>19, <1>20, <1>21, <1>22
     DEF Next, SourceStep, WorkerStep, FailureStep, RepairStep

\* Every variable keeps its type, in every behaviour of the engine.
THEOREM TypeCorrect == Spec => []TypeOK
<1>1. Init => TypeOK
  BY EngineAssumption, IdleIsExec
     DEF Init, TypeOK, NoEntry, OutboxRow, Status, DocRow, NoRebuild, Idle
<1> QED
  BY <1>1, TypeStep, PTL DEF Spec

-----------------------------------------------------------------------------
(* Preservation of the inductive invariant.                                *)

\* An entry keeps what it is about, and stays unprocessed if it was.
Kept(e) ==
    /\ outbox'[e].about = outbox[e].about
    /\ outbox'[e].at = outbox[e].at
    /\ outbox'[e].status = "absent" <=> outbox[e].status = "absent"
    /\ Unprocessed(e) => Unprocessed(e)'

LEMMA GoodKept ==
    ASSUME TypeOK, UNCHANGED source, \A e \in Entries : Kept(e),
           NEW t \in Targets, NEW s \in Nat, GoodEnough(t, s)
    PROVE  GoodEnough(t, s)'
<1>1. OwnPending(t) => OwnPending(t)'
  BY DEF OwnPending, Kept
<1> QED
  BY <1>1 DEF GoodEnough, Kept, source

\* The owner of the rebuild of t publishes what it built.
Publishes(t) ==
    \E w \in Workers : \E r \in exec[w].held :
       /\ exec[w].pc = "built" /\ r.target = t /\ OwnsRebuild(w, r)
       /\ doc'[t].version = rebuild[t].version
       /\ doc'[t].at = exec[w].at
       /\ rebuild'[t].version = rebuild[t].version
       /\ rebuild'[t].status = "processed"

\* No document is written, and the rebuild of t stays or gets no new owner
\* that has already built.
LeavesAlone(t) ==
    /\ doc'[t] = doc[t]
    /\ \/ rebuild'[t] = rebuild[t]
       \/ /\ rebuild'[t].version = rebuild[t].version
          /\ \/ rebuild'[t].status \in {"pending", "failed"}
             \/ /\ rebuild'[t].status = "processing"
                /\ exec'[rebuild'[t].token].pc # "built"

\* An execution stays as it is, has nothing in hand, has just begun its
\* expansion, has just built from the present source, or goes on publishing.
GoesOn(w) ==
    \/ exec'[w] = exec[w] /\ (exec[w].pc = "expandTx" => OwnsEntry(w, exec[w].entry)')
    \/ exec'[w].pc \notin {"expandTx", "built"} /\ exec'[w].at <= lsn
    \/ exec'[w].pc = "expandTx" /\ exec'[w].at <= lsn /\ ExpandsWell(w)'
    \/ exec'[w].pc = "built" /\ exec'[w].at = lsn
    \/ /\ exec[w].pc = "built"
       /\ exec'[w].pc = "built"
       /\ exec'[w].at = exec[w].at
       /\ exec'[w].held \subseteq exec[w].held

\* The steps that change no source and complete no entry.
Gentle ==
    /\ UNCHANGED source
    /\ \A e \in Entries : Kept(e)
    /\ \A t \in Targets : LeavesAlone(t) \/ Publishes(t)
    /\ \A w \in Workers : GoesOn(w)

LEMMA PublishedIsOwned ==
    ASSUME Inv, NEW t \in Targets, Publishes(t)
    PROVE  /\ GoodEnough(t, doc'[t].at)
           /\ doc'[t].at >= doc[t].at
           /\ doc'[t].version >= doc[t].version
           /\ doc'[t].at <= lsn
<1>1. PICK w \in Workers : \E r \in exec[w].held :
         /\ exec[w].pc = "built" /\ r.target = t /\ OwnsRebuild(w, r)
         /\ doc'[t].version = rebuild[t].version
         /\ doc'[t].at = exec[w].at
  BY DEF Publishes
<1>2. GoodEnough(t, exec[w].at) /\ exec[w].at >= doc[t].at
  BY <1>1 DEF Inv, OwnedIsGood, PublishesWell
<1> QED
  BY <1>1, <1>2 DEF Inv, ProcessedMatchesDocument, InTime

LEMMA GentleStep == ASSUME Inv, TypeOK', Gentle PROVE Inv'
<1> USE DEF Inv
<1>1. \A t \in Targets : doc'[t].at <= lsn
  BY PublishedIsOwned DEF Gentle, LeavesAlone, InTime
<1>2. InTime'
  <2>1. \A w \in Workers : exec'[w].at <= lsn
    BY DEF Gentle, GoesOn, InTime, TypeOK
  <2> QED
    BY <1>1, <2>1 DEF InTime, Gentle, Kept, source
<1>3. OrgChangeHasEntry'
  BY DEF OrgChangeHasEntry, Gentle, Kept, source
<1>4. ExpansionsHold'
  <2> SUFFICES ASSUME NEW w \in Workers, exec'[w].pc = "expandTx" PROVE ExpandsWell(w)'
    BY DEF ExpansionsHold
  <2>1. CASE exec'[w] = exec[w] /\ OwnsEntry(w, exec[w].entry)'
    <3>1. ExpandsWell(w)
      BY <2>1 DEF ExpansionsHold
    <3> QED
      BY <2>1, <3>1 DEF ExpandsWell, Gentle, Kept, source
  <2> QED
    BY <2>1 DEF Gentle, GoesOn
<1>5. OwnedIsGood'
  <2> SUFFICES ASSUME NEW w \in Workers, NEW r \in exec'[w].held,
                      exec'[w].pc = "built", OwnsRebuild(w, r)'
               PROVE  PublishesWell(w, r)'
    BY DEF OwnedIsGood
  <2>1. r.target \in Targets /\ exec'[w].at \in Nat
    BY DEF TypeOK, Exec, Request
  <2>2. /\ rebuild'[r.target].status = "processing"
        /\ rebuild'[r.target].token = w
    BY DEF OwnsRebuild
  <2>3. doc'[r.target] = doc[r.target] /\ rebuild'[r.target] = rebuild[r.target]
    BY <2>1, <2>2 DEF Gentle, LeavesAlone, Publishes
  <2>4. CASE exec'[w].at = lsn
    <3>1. GoodEnough(r.target, lsn)
      BY <2>1 DEF GoodEnough, InTime, TypeOK
    <3>2. ASSUME NEW n \in Nat, GoodEnough(r.target, n) PROVE GoodEnough(r.target, n)'
      BY <2>1, <3>2, GoodKept DEF Gentle
    <3>3. lsn >= doc[r.target].at
      BY <2>1 DEF InTime, TypeOK, DocRow
    <3> QED
      BY <2>3, <2>4, <3>1, <3>2, <3>3 DEF PublishesWell, GoodEnough, TypeOK
  <2>5. CASE /\ r \in exec[w].held /\ exec[w].pc = "built"
             /\ exec'[w].at = exec[w].at
    <3>1. PublishesWell(w, r)
      BY <2>3, <2>5 DEF OwnedIsGood, OwnsRebuild
    <3>2. GoodEnough(r.target, exec[w].at)'
      BY <2>1, <2>5, <3>1, GoodKept DEF Gentle, PublishesWell
    <3> QED
      BY <2>3, <2>5, <3>1, <3>2 DEF PublishesWell, GoodEnough
  <2> QED
    BY <2>4, <2>5 DEF Gentle, GoesOn
<1>6. ProcessedIsGood'
  <2> SUFFICES ASSUME NEW t \in Targets, rebuild'[t].status = "processed"
               PROVE  GoodEnough(t, doc[t].at)'
    BY DEF ProcessedIsGood
  <2>1. doc'[t].at \in Nat
    BY DEF TypeOK, DocRow
  <2>2. GoodEnough(t, doc'[t].at)
    <3>1. CASE LeavesAlone(t)
      BY <3>1 DEF LeavesAlone, ProcessedIsGood
    <3>2. CASE Publishes(t)
      BY <3>2, PublishedIsOwned
    <3> QED
      BY <3>1, <3>2 DEF Gentle
  <2>3. ASSUME NEW n \in Nat, GoodEnough(t, n) PROVE GoodEnough(t, n)'
    BY <2>3, GoodKept DEF Gentle
  <2> QED
    BY <2>1, <2>2, <2>3 DEF GoodEnough
<1>7. ProcessedMatchesDocument'
  <2> SUFFICES ASSUME NEW t \in Targets
               PROVE  /\ doc'[t].version <= rebuild'[t].version
                      /\ rebuild'[t].status = "processed"
                           => doc'[t].version = rebuild'[t].version
    BY DEF ProcessedMatchesDocument
  <2>1. rebuild[t].version \in Nat
    BY DEF TypeOK, RebuildRow
  <2> QED
    BY <2>1 DEF ProcessedMatchesDocument, Gentle, LeavesAlone, Publishes
<1> QED
  BY <1>2, <1>3, <1>4, <1>5, <1>6, <1>7

\* Most steps are gentle.
LEMMA ReleaseGentle ==
    ASSUME TypeOK, NEW w \in Workers, NEW group, Release(w, group), exec[w].pc = "built"
    PROVE  /\ \A v \in Workers \ {w} : exec'[v] = exec[v]
           /\ \/ exec'[w].pc \notin {"expandTx", "built"} /\ exec'[w].at <= lsn
              \/ /\ exec'[w].pc = "built"
                 /\ exec'[w].at = exec[w].at
                 /\ exec'[w].held \subseteq exec[w].held
BY DEF Release, TypeOK, Exec, Idle

LEMMA WakingIsGentle ==
    ASSUME Inv, UNCHANGED <<source, outbox, rebuild, doc>>,
           \A v \in Workers : \/ exec'[v] = exec[v]
                              \/ exec'[v].pc \notin {"expandTx", "built"} /\ exec'[v].at <= lsn
    PROVE  Gentle
<1>1. \A v \in Workers : exec'[v] = exec[v] /\ exec[v].pc = "expandTx"
                           => OwnsEntry(v, exec[v].entry)'
  BY DEF Inv, ExpansionsHold, ExpandsWell, OwnsEntry
<1>2. \A e \in Entries : Kept(e)
  BY DEF Kept, Unprocessed
<1> QED
  BY <1>1, <1>2 DEF Gentle, GoesOn, LeavesAlone

LEMMA IdlingIsGentle ==
    ASSUME Inv, UNCHANGED <<source, outbox, rebuild, doc>>, NEW w \in Workers,
           exec' = [exec EXCEPT ![w] = Idle]
    PROVE  Gentle
<1>1. \A v \in Workers : \/ exec'[v] = exec[v]
                         \/ exec'[v].pc \notin {"expandTx", "built"} /\ exec'[v].at <= lsn
  BY DEF Inv, TypeOK, Idle
<1> QED
  BY <1>1, WakingIsGentle

LEMMA RetryExpansionIsGentle ==
    ASSUME Inv, NEW w \in Workers, RetryExpansion(w)
    PROVE  Gentle
<1>1. \A v \in Workers : \/ exec'[v] = exec[v]
                         \/ exec'[v].pc \notin {"expandTx", "built"} /\ exec'[v].at <= lsn
  BY DEF RetryExpansion, Inv, TypeOK, Idle
<1> QED
  BY <1>1, WakingIsGentle DEF RetryExpansion

\* Claiming or failing an entry, or resetting entries that no open expansion
\* holds.
LEMMA ClaimOutboxIsGentle ==
    ASSUME Inv, NEW w \in Workers, NEW e \in Entries, ClaimOutbox(w, e)
    PROVE  Gentle
<1>1. \A f \in Entries : Kept(f)
  BY DEF ClaimOutbox, Claimable, Kept, Unprocessed, Inv, TypeOK, OutboxRow
<1>2. \A v \in Workers : \/ exec'[v] = exec[v]
                         \/ exec'[v].pc \notin {"expandTx", "built"} /\ exec'[v].at <= lsn
  BY DEF ClaimOutbox, Idle, Inv, TypeOK
<1>3. \A v \in Workers : exec[v].pc = "expandTx" => OwnsEntry(v, exec[v].entry)'
  BY DEF ClaimOutbox, Claimable, Inv, TypeOK, OutboxRow, ExpansionsHold, ExpandsWell, OwnsEntry
<1> QED
  BY <1>1, <1>2, <1>3 DEF Gentle, GoesOn, LeavesAlone, ClaimOutbox, source

LEMMA FailExpansionIsGentle ==
    ASSUME Inv, NEW w \in Workers, NEW again \in BOOLEAN, FailExpansion(w, again)
    PROVE  Gentle
<1>1. exec[w].entry \in Entries
  BY DEF FailExpansion, Inv, TypeOK
<1>2. \A f \in Entries : Kept(f)
  BY <1>1 DEF FailExpansion, FailedEntry, OwnsEntry, Kept, Unprocessed, Inv, TypeOK, OutboxRow
<1>3. \A v \in Workers : \/ exec'[v] = exec[v]
                         \/ exec'[v].pc \notin {"expandTx", "built"} /\ exec'[v].at <= lsn
  BY DEF FailExpansion, Idle, Inv, TypeOK
<1>4. \A v \in Workers \ {w} : exec[v].pc = "expandTx" => OwnsEntry(v, exec[v].entry)'
  BY <1>1 DEF FailExpansion, FailedEntry, Inv, TypeOK, OutboxRow, ExpansionsHold, ExpandsWell,
              OwnsEntry
<1>5. exec'[w].pc \notin {"expandTx", "built"} /\ exec'[w].at <= lsn
  BY DEF FailExpansion, Idle, Inv, TypeOK
<1> QED
  BY <1>2, <1>3, <1>4, <1>5 DEF Gentle, GoesOn, LeavesAlone, FailExpansion, source

LEMMA RepairIsGentle ==
    ASSUME Inv, NEW E \in SUBSET RepairableEntries, NEW R \in SUBSET RepairableTargets,
           Repair(E, R)
    PROVE  Gentle
<1>1. \A f \in Entries : Kept(f)
  BY DEF Repair, Reset, RepairableEntries, Kept, Unprocessed, Inv, TypeOK, OutboxRow
<1>2. \A v \in Workers : exec[v].pc = "expandTx" => OwnsEntry(v, exec[v].entry)'
  BY DEF Repair, RepairableEntries, LockedEntry, Inv, ExpansionsHold, ExpandsWell, OwnsEntry
<1>3. \A t \in Targets : \/ rebuild'[t] = rebuild[t]
                         \/ /\ rebuild'[t].version = rebuild[t].version
                            /\ rebuild'[t].status = "pending"
  BY DEF Repair, Reset, Inv, TypeOK, RebuildRow
<1> QED
  BY <1>1, <1>2, <1>3 DEF Gentle, GoesOn, LeavesAlone, Repair, source

\* Claiming or failing rebuilds.
LEMMA ClaimRebuildsIsGentle ==
    ASSUME Inv, NEW w \in Workers, NEW batch \in SUBSET rebuildJobs, ClaimRebuilds(w, batch)
    PROVE  Gentle
<1>1. \A e \in Entries : Kept(e)
  BY DEF ClaimRebuilds, Kept, Unprocessed
<1>2. exec'[w].pc \in {"idle", "claimed"} /\ exec'[w].at <= lsn
  <2> DEFINE mine == {r \in Newest(batch) : MayClaim(r)}
  <2>1. 0 <= lsn /\ exec \in [Workers -> Exec]
    BY DEF Inv, TypeOK
  <2>2. exec'[w] = IF mine = {} THEN Idle ELSE [Idle EXCEPT !.pc = "claimed", !.held = mine]
    BY <2>1 DEF ClaimRebuilds
  <2> HIDE DEF mine
  <2> QED
    BY <2>1, <2>2 DEF Idle
<1>3. \A v \in Workers \ {w} : exec'[v] = exec[v]
  BY DEF ClaimRebuilds, Inv, TypeOK
<1>4. \A t \in Targets : \/ rebuild'[t] = rebuild[t]
                         \/ /\ rebuild'[t].version = rebuild[t].version
                            /\ rebuild'[t].status = "processing"
                            /\ rebuild'[t].token = w
  BY DEF ClaimRebuilds, Inv, TypeOK, RebuildRow
<1>5. \A v \in Workers \ {w} : exec[v].pc = "expandTx" => OwnsEntry(v, exec[v].entry)'
  BY <1>3 DEF ClaimRebuilds, Inv, ExpansionsHold, ExpandsWell, OwnsEntry
<1> QED
  BY <1>1, <1>2, <1>3, <1>4, <1>5 DEF Gentle, GoesOn, LeavesAlone, ClaimRebuilds, source

LEMMA FailRebuildsIsGentle ==
    ASSUME Inv, NEW w \in Workers, NEW group, NEW again \in BOOLEAN,
           FailRebuilds(w, group, again)
    PROVE  Gentle
<1>1. \A e \in Entries : Kept(e)
  BY DEF FailRebuilds, Kept, Unprocessed
<1>2. \A t \in Targets : \/ rebuild'[t] = rebuild[t]
                         \/ /\ rebuild'[t].version = rebuild[t].version
                            /\ rebuild'[t].status = "failed"
  BY DEF FailRebuilds, Completed, Inv, TypeOK, RebuildRow
<1>3. \A v \in Workers \ {w} : exec'[v] = exec[v]
  BY DEF FailRebuilds, Release, Inv, TypeOK
<1>4. \A v \in Workers \ {w} : exec[v].pc = "expandTx" => OwnsEntry(v, exec[v].entry)'
  BY <1>3 DEF FailRebuilds, Inv, ExpansionsHold, ExpandsWell, OwnsEntry
<1>5. \/ exec'[w].pc \notin {"expandTx", "built"} /\ exec'[w].at <= lsn
      \/ /\ exec[w].pc = "built"
         /\ exec'[w].pc = "built"
         /\ exec'[w].at = exec[w].at
         /\ exec'[w].held \subseteq exec[w].held
  BY DEF FailRebuilds, Release, Inv, InTime, TypeOK, Exec, Idle
<1> QED
  BY <1>1, <1>2, <1>3, <1>4, <1>5 DEF Gentle, GoesOn, LeavesAlone, FailRebuilds, source

\* Beginning an expansion, building, publishing.
LEMMA BeginExpansionIsGentle ==
    ASSUME Inv, NEW w \in Workers, BeginExpansion(w)
    PROVE  Gentle
<1> DEFINE e == exec[w].entry
<1>1. exec \in [Workers -> Exec] /\ e \in Entries /\ outbox[e].at <= lsn
  BY DEF BeginExpansion, Inv, TypeOK, InTime
<1>2. \A v \in Workers \ {w} : exec'[v] = exec[v]
  BY <1>1 DEF BeginExpansion
<1>3. /\ exec'[w].pc = "expandTx" /\ exec'[w].entry = e /\ exec'[w].at = lsn
      /\ exec'[w].found = AffectedBy(outbox[e].about)
  BY <1>1 DEF BeginExpansion, Exec
<1>4. UNCHANGED <<source, outbox, rebuild, doc>> /\ OwnsEntry(w, e)
  BY DEF BeginExpansion
<1>5. ExpandsWell(w)'
  BY <1>1, <1>3, <1>4 DEF ExpandsWell, OwnsEntry, AffectedBy, source
<1>6. \A v \in Workers \ {w} : exec[v].pc = "expandTx" => OwnsEntry(v, exec[v].entry)'
  BY <1>2, <1>4 DEF Inv, ExpansionsHold, ExpandsWell, OwnsEntry
<1>7. \A f \in Entries : Kept(f)
  BY <1>4 DEF Kept, Unprocessed
<1>8. \A v \in Workers : GoesOn(v)
  BY <1>2, <1>3, <1>5, <1>6 DEF GoesOn, Inv, TypeOK
<1> QED
  BY <1>4, <1>7, <1>8 DEF Gentle, LeavesAlone

LEMMA BuildDocumentsIsGentle ==
    ASSUME Inv, NEW w \in Workers, BuildDocuments(w)
    PROVE  Gentle
<1>1. exec \in [Workers -> Exec]
  BY DEF Inv, TypeOK
<1>2. \A v \in Workers \ {w} : exec'[v] = exec[v]
  BY <1>1 DEF BuildDocuments
<1>3. exec'[w].pc = "built" /\ exec'[w].at = lsn
  BY <1>1 DEF BuildDocuments, Exec
<1>4. UNCHANGED <<source, outbox, rebuild, doc>>
  BY DEF BuildDocuments
<1>5. \A v \in Workers \ {w} : exec[v].pc = "expandTx" => OwnsEntry(v, exec[v].entry)'
  BY <1>2, <1>4 DEF Inv, ExpansionsHold, ExpandsWell, OwnsEntry
<1>6. \A f \in Entries : Kept(f)
  BY <1>4 DEF Kept, Unprocessed
<1> QED
  BY <1>2, <1>3, <1>4, <1>5, <1>6 DEF Gentle, GoesOn, LeavesAlone


\* What the completion of S and the giving up of F do to one row.
LEMMA CompletedRow ==
    ASSUME TypeOK, NEW w \in Workers, NEW S, NEW F, NEW t \in Targets
    PROVE  /\ (\E r \in S : r.target = t) =>
                /\ Completed(w, S, F)[t].status = "processed"
                /\ Completed(w, S, F)[t].version = rebuild[t].version
           /\ ~(\E r \in S : r.target = t) =>
                \/ Completed(w, S, F)[t] = rebuild[t]
                \/ /\ Completed(w, S, F)[t].status = "failed"
                   /\ Completed(w, S, F)[t].version = rebuild[t].version
<1> DEFINE done == [rebuild[t] EXCEPT !.status = "processed", !.token = NoOne]
           givenUp == [rebuild[t] EXCEPT !.status = "failed", !.token = NoOne]
<1>1. /\ done.status = "processed" /\ done.version = rebuild[t].version
      /\ givenUp.status = "failed" /\ givenUp.version = rebuild[t].version
  BY DEF TypeOK, RebuildRow
<1>2. /\ (\E r \in S : r.target = t) => Completed(w, S, F)[t] = done
      /\ ~(\E r \in S : r.target = t) => Completed(w, S, F)[t] \in {rebuild[t], givenUp}
  BY DEF Completed
<1> HIDE DEF done, givenUp
<1> QED
  BY <1>1, <1>2

\* Both ways to publish: the claims of w in S, all owned, are completed and
\* those of F, if still held, are given up.
LEMMA PublishingIsGentle ==
    ASSUME Inv, NEW w \in Workers, NEW S, NEW F, exec[w].pc = "built",
           S \subseteq exec[w].held, \A r \in S : OwnsRebuild(w, r),
           doc' = Written(w, S), rebuild' = Completed(w, S, F),
           UNCHANGED <<source, outbox>>,
           \A v \in Workers \ {w} : exec'[v] = exec[v],
           \/ exec'[w].pc \notin {"expandTx", "built"} /\ exec'[w].at <= lsn
           \/ /\ exec'[w].pc = "built"
              /\ exec'[w].at = exec[w].at
              /\ exec'[w].held \subseteq exec[w].held
    PROVE  Gentle
<1>1. ASSUME NEW t \in Targets PROVE LeavesAlone(t) \/ Publishes(t)
  <2>1. CASE \E r \in S : r.target = t
    <3>1. PICK r \in S : r.target = t
      BY <2>1
    <3>2. VersionFor(S, t) = rebuild[t].version
      BY <3>1 DEF VersionFor, OwnsRebuild
    <3>3. doc'[t] = [version |-> rebuild[t].version, at |-> exec[w].at]
      BY <2>1, <3>2 DEF Written
    <3>4. rebuild'[t].status = "processed" /\ rebuild'[t].version = rebuild[t].version
      BY <2>1, CompletedRow DEF Inv
    <3> QED
      BY <3>1, <3>3, <3>4 DEF Publishes
  <2>2. CASE ~ \E r \in S : r.target = t
    <3>1. doc'[t] = doc[t]
      BY <2>2 DEF Written
    <3>2. \/ rebuild'[t] = rebuild[t]
          \/ rebuild'[t].status = "failed" /\ rebuild'[t].version = rebuild[t].version
      BY <2>2, CompletedRow DEF Inv
    <3> QED
      BY <3>1, <3>2 DEF LeavesAlone
  <2> QED
    BY <2>1, <2>2
<1>2. \A v \in Workers \ {w} : exec[v].pc = "expandTx" => OwnsEntry(v, exec[v].entry)'
  BY DEF Inv, ExpansionsHold, ExpandsWell, OwnsEntry
<1>3. \A e \in Entries : Kept(e)
  BY DEF Kept, Unprocessed
<1>4. \A v \in Workers : GoesOn(v)
  BY <1>2 DEF GoesOn
<1> QED
  BY <1>1, <1>3, <1>4 DEF Gentle

LEMMA PublishGroupIsGentle ==
    ASSUME Inv, NEW w \in Workers, NEW group \in SUBSET exec[w].held, PublishGroup(w, group)
    PROVE  Gentle
<1> DEFINE S == Eligible(w, group)
<1>1. exec[w].pc = "built" /\ Release(w, group)
  BY DEF PublishGroup
<1>2. /\ doc' = Written(w, S)
      /\ rebuild' = Completed(w, S, {})
      /\ UNCHANGED <<source, outbox>>
  BY DEF PublishGroup
<1>3. S \subseteq exec[w].held /\ \A r \in S : OwnsRebuild(w, r)
  BY DEF Eligible
<1>4. /\ \A v \in Workers \ {w} : exec'[v] = exec[v]
      /\ \/ exec'[w].pc \notin {"expandTx", "built"} /\ exec'[w].at <= lsn
         \/ /\ exec'[w].pc = "built"
            /\ exec'[w].at = exec[w].at
            /\ exec'[w].held \subseteq exec[w].held
  BY <1>1, ReleaseGentle DEF Inv
<1> QED
  BY <1>1, <1>2, <1>3, <1>4, PublishingIsGentle

LEMMA LoseAcknowledgementIsGentle ==
    ASSUME Inv, NEW w \in Workers, NEW group \in SUBSET exec[w].held, NEW again \in BOOLEAN,
           LoseAcknowledgement(w, group, again)
    PROVE  Gentle
<1> DEFINE S == Eligible(w, group)
<1>1. exec[w].pc = "built" /\ exec' = [exec EXCEPT ![w] = Idle]
  BY DEF LoseAcknowledgement
<1>2. /\ doc' = Written(w, S)
      /\ rebuild' = Completed(w, S, exec[w].held)
      /\ UNCHANGED <<source, outbox>>
  BY DEF LoseAcknowledgement
<1>3. S \subseteq exec[w].held /\ \A r \in S : OwnsRebuild(w, r)
  BY DEF Eligible
<1>4. /\ \A v \in Workers \ {w} : exec'[v] = exec[v]
      /\ exec'[w].pc \notin {"expandTx", "built"} /\ exec'[w].at <= lsn
  BY <1>1 DEF Idle, Inv, TypeOK
<1> QED
  BY <1>1, <1>2, <1>3, <1>4, PublishingIsGentle

-----------------------------------------------------------------------------
(* The steps that are not: a change of the source, the commit of an        *)
(* expansion.                                                              *)

\* The entry e commits with a change that concerns one user, the
\* organization, or nothing.
ChangesSource(e) ==
    /\ outbox[e].status = "absent"
    /\ outbox'[e].status = "pending" /\ outbox'[e].at = lsn'
    /\ \A f \in Entries \ {e} : outbox'[f] = outbox[f]
    /\ lsn' \in {lsn, lsn + 1}
    /\ \A t \in Targets :
         \/ ownAt'[t] = ownAt[t] /\ (t \in member' <=> t \in member)
         \/ lsn' = lsn + 1 /\ ownAt'[t] = lsn' /\ outbox'[e].about = t
    /\ \/ orgAt' = orgAt
       \/ orgAt' = lsn' /\ outbox'[e].about = Org
    /\ UNCHANGED <<rebuild, doc, exec>>

LEMMA SourceIsChanged ==
    ASSUME Inv, NEW e \in Entries
    PROVE  /\ \A t \in Targets, joins \in BOOLEAN : ChangeUser(t, e, joins) => ChangesSource(e)
           /\ ChangeOrg(e) => ChangesSource(e)
           /\ \A t \in Targets : BackfillUser(t, e) => ChangesSource(e)
<1>1. outbox \in [Entries -> OutboxRow] /\ ownAt \in [Targets -> Nat] /\ lsn \in Nat
  BY DEF Inv, TypeOK
<1>2. ASSUME NEW about \in Targets \cup {Org}, NEW n \in Nat, PersistOutboxEntry(e, about, n)
      PROVE  /\ outbox[e].status = "absent"
             /\ outbox'[e].status = "pending" /\ outbox'[e].at = n /\ outbox'[e].about = about
             /\ \A f \in Entries \ {e} : outbox'[f] = outbox[f]
  BY <1>1, <1>2 DEF PersistOutboxEntry, OutboxRow
<1>3. ASSUME NEW t \in Targets, NEW joins \in BOOLEAN, ChangeUser(t, e, joins)
      PROVE  ChangesSource(e)
  <2>1. PersistOutboxEntry(e, t, lsn + 1) /\ lsn' = lsn + 1 /\ orgAt' = orgAt
    BY <1>3 DEF ChangeUser
  <2>2. \A u \in Targets :
          \/ ownAt'[u] = ownAt[u] /\ (u \in member' <=> u \in member)
          \/ ownAt'[u] = lsn + 1 /\ u = t
    BY <1>1, <1>3 DEF ChangeUser
  <2>3. UNCHANGED <<rebuild, doc, exec>>
    BY <1>3 DEF ChangeUser
  <2> QED
    BY <1>1, <1>2, <2>1, <2>2, <2>3 DEF ChangesSource
<1>4. ASSUME ChangeOrg(e) PROVE ChangesSource(e)
  <2>1. PersistOutboxEntry(e, Org, lsn + 1) /\ lsn' = lsn + 1 /\ orgAt' = lsn'
    BY <1>4 DEF ChangeOrg
  <2>2. UNCHANGED <<ownAt, member, rebuild, doc, exec>>
    BY <1>4 DEF ChangeOrg
  <2>3. /\ outbox[e].status = "absent"
        /\ outbox'[e].status = "pending" /\ outbox'[e].at = lsn + 1 /\ outbox'[e].about = Org
        /\ \A f \in Entries \ {e} : outbox'[f] = outbox[f]
    <3>1. lsn + 1 \in Nat /\ Org \in Targets \cup {Org}
      BY <1>1
    <3> QED
      BY <1>2, <2>1, <3>1
  <2> QED
    BY <2>1, <2>2, <2>3 DEF ChangesSource
<1>5. ASSUME NEW t \in Targets, BackfillUser(t, e) PROVE ChangesSource(e)
  <2>1. PersistOutboxEntry(e, t, lsn)
    BY <1>5 DEF BackfillUser
  <2>2. UNCHANGED <<lsn, ownAt, orgAt, member, rebuild, doc, exec>>
    BY <1>5 DEF BackfillUser, source
  <2>3. /\ outbox[e].status = "absent"
        /\ outbox'[e].status = "pending" /\ outbox'[e].at = lsn
        /\ \A f \in Entries \ {e} : outbox'[f] = outbox[f]
    BY <1>1, <1>2, <2>1
  <2> QED
    BY <2>2, <2>3 DEF ChangesSource
<1> QED
  BY <1>3, <1>4, <1>5


LEMMA SourceStepChangesSource ==
    ASSUME Inv, SourceStep
    PROVE  \E e \in Entries : ChangesSource(e)
BY SourceIsChanged DEF SourceStep

\* A good enough snapshot stays so: whoever the change concerns has a new
\* unprocessed entry.
LEMMA GoodAfterChange ==
    ASSUME Inv, NEW e \in Entries, ChangesSource(e), NEW t \in Targets, NEW s \in Nat,
           GoodEnough(t, s)
    PROVE  GoodEnough(t, s)'
<1>1. Unprocessed(e)' /\ ~Unprocessed(e)
  BY DEF ChangesSource, Unprocessed
<1>2. \A f \in Entries : f # e => outbox'[f] = outbox[f]
  BY DEF ChangesSource
<1>3. OwnPending(t) => OwnPending(t)'
  BY <1>1, <1>2 DEF OwnPending, Unprocessed
<1>4. CASE outbox'[e].about = t
  BY <1>1, <1>4 DEF GoodEnough, OwnPending
<1>5. CASE outbox'[e].about # t
  <2>1. ownAt'[t] = ownAt[t] /\ (t \in member' <=> t \in member)
    BY <1>5 DEF ChangesSource
  <2>2. s >= ownAt'[t] \/ OwnPending(t)'
    BY <1>3, <2>1 DEF GoodEnough
  <2>3. ASSUME NEW f \in Entries, outbox'[f].status # "absent", outbox'[f].about = Org,
               t \in member'
        PROVE  s >= outbox'[f].at \/ Unprocessed(f)' \/ OwnPending(t)'
    <3>1. CASE f = e
      BY <1>1, <3>1
    <3>2. CASE f # e
      BY <1>2, <1>3, <2>1, <2>3, <3>2 DEF GoodEnough, Unprocessed
    <3> QED
      BY <3>1, <3>2
  <2> QED
    BY <2>2, <2>3 DEF GoodEnough
<1> QED
  BY <1>4, <1>5

LEMMA SourceStepKeepsInv ==
    ASSUME Inv, TypeOK', NEW e \in Entries, ChangesSource(e)
    PROVE  Inv'
<1> USE DEF Inv
<1>1. UNCHANGED <<rebuild, doc, exec>> /\ outbox'[e].at = lsn'
  BY DEF ChangesSource
<1>2. \A f \in Entries : f # e => outbox'[f] = outbox[f]
  BY DEF ChangesSource
<1>3. lsn \in Nat /\ lsn' \in Nat /\ lsn <= lsn'
  BY DEF TypeOK, ChangesSource
<1>4. InTime'
  <2>1. orgAt' <= lsn' /\ \A t \in Targets : ownAt'[t] <= lsn'
    BY <1>3 DEF ChangesSource, InTime, TypeOK
  <2>2. \A t \in Targets : doc'[t].at <= lsn'
    BY <1>1, <1>3 DEF InTime, TypeOK, DocRow
  <2>3. \A f \in Entries : outbox'[f].at <= lsn'
    BY <1>1, <1>2, <1>3 DEF InTime, TypeOK, OutboxRow
  <2>4. \A w \in Workers : exec'[w].at <= lsn'
    BY <1>1, <1>3 DEF InTime, TypeOK, Exec
  <2> QED
    BY <2>1, <2>2, <2>3, <2>4 DEF InTime
<1>5. OrgChangeHasEntry'
  BY <1>1, <1>2 DEF OrgChangeHasEntry, ChangesSource
<1>6. ExpansionsHold'
  <2> SUFFICES ASSUME NEW w \in Workers, exec[w].pc = "expandTx" PROVE ExpandsWell(w)'
    BY <1>1 DEF ExpansionsHold
  <2>1. ExpandsWell(w) /\ exec[w].at <= lsn /\ exec[w].at \in Nat
    BY DEF ExpansionsHold, InTime, TypeOK, Exec
  <2>2. exec[w].entry # e
    BY <2>1 DEF ExpandsWell, OwnsEntry, ChangesSource
  <2>3. \A t \in member' \ exec[w].found :
          \/ t \in member /\ ownAt'[t] = ownAt[t]
          \/ ownAt'[t] > exec[w].at
    BY <1>3, <2>1 DEF ChangesSource, TypeOK
  <2> QED
    BY <1>1, <1>2, <2>1, <2>2, <2>3 DEF ExpandsWell, OwnsEntry
<1>7. OwnedIsGood'
  <2> SUFFICES ASSUME NEW w \in Workers, NEW r \in exec[w].held,
                      exec[w].pc = "built", OwnsRebuild(w, r)
               PROVE  PublishesWell(w, r)'
    BY <1>1 DEF OwnedIsGood, OwnsRebuild
  <2>1. r.target \in Targets /\ exec[w].at \in Nat /\ PublishesWell(w, r)
    BY DEF TypeOK, Exec, Request, OwnedIsGood
  <2>2. GoodEnough(r.target, exec[w].at)'
    BY <1>1, <2>1, GoodAfterChange DEF PublishesWell
  <2> QED
    BY <1>1, <2>1, <2>2 DEF PublishesWell
<1>8. ProcessedIsGood'
  <2> SUFFICES ASSUME NEW t \in Targets, rebuild[t].status = "processed"
               PROVE  GoodEnough(t, doc[t].at)'
    BY <1>1 DEF ProcessedIsGood
  <2>1. doc[t].at \in Nat /\ GoodEnough(t, doc[t].at)
    BY DEF TypeOK, DocRow, ProcessedIsGood
  <2> QED
    BY <1>1, <2>1, GoodAfterChange
<1>9. ProcessedMatchesDocument'
  BY <1>1 DEF ProcessedMatchesDocument
<1> QED
  BY <1>4, <1>5, <1>6, <1>7, <1>8, <1>9


LEMMA CommitExpansionKeepsInv ==
    ASSUME Inv, TypeOK', NEW w \in Workers, CommitExpansion(w)
    PROVE  Inv'
<1> USE DEF Inv
<1> DEFINE e == exec[w].entry
           S == exec[w].found
<1>1. ExpandsWell(w) /\ e \in Entries /\ exec[w].at \in Nat /\ exec[w].at <= lsn
  BY DEF CommitExpansion, ExpansionsHold, ExpandsWell, TypeOK, Exec, InTime
<1>2. /\ outbox'[e].status = "processed"
      /\ outbox'[e].about = outbox[e].about /\ outbox'[e].at = outbox[e].at
      /\ outbox[e].status = "processing" /\ outbox[e].token = w
  BY <1>1 DEF CommitExpansion, TypeOK, OutboxRow, ExpandsWell, OwnsEntry
<1>3. \A f \in Entries : f # e => outbox'[f] = outbox[f]
  BY DEF CommitExpansion, TypeOK
<1>4. UNCHANGED <<lsn, ownAt, orgAt, member, doc>>
  BY DEF CommitExpansion, source
<1>5. exec'[w].pc = "enqueue" /\ exec'[w].at <= lsn
  BY DEF CommitExpansion, TypeOK, Idle
<1>6. \A v \in Workers \ {w} : exec'[v] = exec[v]
  BY DEF CommitExpansion, TypeOK
<1>7. \A t \in Targets :
        \/ t \notin S /\ rebuild'[t] = rebuild[t]
        \/ rebuild'[t].status = "pending" /\ rebuild'[t].version = rebuild[t].version + 1
  BY DEF CommitExpansion, Require
<1>8. ASSUME NEW t \in Targets, t \notin S, NEW s \in Nat, GoodEnough(t, s)
      PROVE  GoodEnough(t, s)'
  <2>1. outbox[e].about # t
    BY <1>1, <1>8, EngineAssumption DEF ExpandsWell
  <2>2. OwnPending(t)' <=> OwnPending(t)
    BY <1>2, <1>3, <2>1 DEF OwnPending, Unprocessed
  <2>3. ASSUME NEW f \in Entries, outbox'[f].status # "absent", outbox'[f].about = Org,
               t \in member
        PROVE  s >= outbox'[f].at \/ Unprocessed(f)' \/ OwnPending(t)'
    <3>1. CASE f = e
      <4>1. ownAt[t] > exec[w].at /\ exec[w].at >= outbox[e].at
        BY <1>1, <1>2, <1>8, <2>3, <3>1 DEF ExpandsWell
      <4>2. ownAt[t] \in Nat /\ outbox[e].at \in Nat
        BY <1>1 DEF TypeOK, OutboxRow
      <4>3. s >= ownAt[t] \/ OwnPending(t)
        BY <1>8 DEF GoodEnough
      <4> QED
        BY <1>1, <1>2, <2>2, <3>1, <4>1, <4>2, <4>3
    <3>2. CASE f # e
      BY <1>3, <1>8, <2>2, <2>3, <3>2 DEF GoodEnough, Unprocessed
    <3> QED
      BY <3>1, <3>2
  <2> QED
    BY <1>4, <1>8, <2>2, <2>3 DEF GoodEnough
<1>9. InTime'
  <2>1. \A f \in Entries : outbox'[f].at = outbox[f].at
    BY <1>2, <1>3
  <2>2. \A v \in Workers : exec'[v].at <= lsn
    BY <1>5, <1>6 DEF InTime
  <2> QED
    BY <1>4, <2>1, <2>2 DEF InTime
<1>10. OrgChangeHasEntry'
  BY <1>2, <1>3, <1>4 DEF OrgChangeHasEntry
<1>11. ExpansionsHold'
  <2> SUFFICES ASSUME NEW v \in Workers, exec'[v].pc = "expandTx" PROVE ExpandsWell(v)'
    BY DEF ExpansionsHold
  <2>1. v # w /\ exec'[v] = exec[v] /\ ExpandsWell(v)
    BY <1>5, <1>6 DEF ExpansionsHold
  <2>2. exec[v].entry # e
    BY <1>2, <2>1 DEF ExpandsWell, OwnsEntry
  <2> QED
    BY <1>3, <1>4, <2>1, <2>2 DEF ExpandsWell, OwnsEntry
<1>12. OwnedIsGood'
  <2> SUFFICES ASSUME NEW v \in Workers, NEW r \in exec'[v].held,
                      exec'[v].pc = "built", OwnsRebuild(v, r)'
               PROVE  PublishesWell(v, r)'
    BY DEF OwnedIsGood
  <2>1. v # w /\ exec'[v] = exec[v]
    BY <1>5, <1>6
  <2>2. r.target \in Targets /\ exec[v].at \in Nat
    BY <2>1 DEF TypeOK, Exec, Request
  <2>3. r.target \notin S /\ rebuild'[r.target] = rebuild[r.target]
    BY <1>7, <2>2 DEF OwnsRebuild
  <2>4. PublishesWell(v, r)
    BY <2>1, <2>3 DEF OwnedIsGood, OwnsRebuild
  <2>5. GoodEnough(r.target, exec[v].at)'
    BY <1>8, <2>1, <2>2, <2>3, <2>4 DEF PublishesWell
  <2> QED
    BY <1>4, <2>1, <2>4, <2>5 DEF PublishesWell
<1>13. ProcessedIsGood'
  <2> SUFFICES ASSUME NEW t \in Targets, rebuild'[t].status = "processed"
               PROVE  GoodEnough(t, doc[t].at)'
    BY DEF ProcessedIsGood
  <2>1. t \notin S /\ rebuild[t].status = "processed"
    BY <1>7
  <2> QED
    BY <1>4, <1>8, <2>1 DEF TypeOK, DocRow, ProcessedIsGood
<1>14. ProcessedMatchesDocument'
  BY <1>4, <1>7 DEF ProcessedMatchesDocument, TypeOK, RebuildRow, DocRow
<1> QED
  BY <1>9, <1>10, <1>11, <1>12, <1>13, <1>14


-----------------------------------------------------------------------------
(* The steps together, and the theorems.                                   *)

LEMMA StepKinds ==
    ASSUME Inv, [Next]_vars
    PROVE  Gentle \/ SourceStep \/ \E w \in Workers : CommitExpansion(w)
<1>1. ASSUME UNCHANGED <<source, outbox, rebuild, doc, exec>> PROVE Gentle
  BY <1>1, WakingIsGentle
<1>2. ASSUME NEW w \in Workers, WorkerStep(w) PROVE Gentle \/ CommitExpansion(w)
  <2>1. ASSUME NEW e \in Entries, ReplayOutbox(w, e) PROVE Gentle
    BY <1>1, <2>1 DEF ReplayOutbox
  <2>2. ASSUME StaleExpansion(w) PROVE Gentle
    BY <2>2, IdlingIsGentle DEF StaleExpansion
  <2>3. ASSUME EnqueueRebuilds(w) PROVE Gentle
    BY <2>3, IdlingIsGentle DEF EnqueueRebuilds
  <2> QED
    BY <1>2, <2>1, <2>2, <2>3, ClaimOutboxIsGentle, BeginExpansionIsGentle,
       RetryExpansionIsGentle, ClaimRebuildsIsGentle, BuildDocumentsIsGentle,
       PublishGroupIsGentle
       DEF WorkerStep
<1>3. ASSUME NEW w \in Workers, FailureStep(w) PROVE Gentle
  <2>1. ASSUME NEW again \in BOOLEAN, EnqueueFails(w, again) PROVE Gentle
    BY <2>1, IdlingIsGentle DEF EnqueueFails
  <2>2. ASSUME NEW again \in BOOLEAN, Crash(w, again) PROVE Gentle
    BY <2>2, IdlingIsGentle DEF Crash
  <2> QED
    BY <1>3, <2>1, <2>2, FailExpansionIsGentle, FailRebuildsIsGentle,
       LoseAcknowledgementIsGentle
       DEF FailureStep
<1>4. CASE LossStep
  BY <1>1, <1>4 DEF LossStep, LoseOutboxJob, LoseRebuildJob
<1>5. CASE RepairStep
  BY <1>5, RepairIsGentle DEF RepairStep, TimelyRepair, EarlyRepair
<1>6. CASE UNCHANGED vars
  BY <1>1, <1>6 DEF vars, source
<1> QED
  BY <1>2, <1>3, <1>4, <1>5, <1>6 DEF Next

LEMMA InvStep == Inv /\ [Next]_vars => Inv'
<1> SUFFICES ASSUME Inv, [Next]_vars PROVE Inv'
  OBVIOUS
<1>1. TypeOK'
  BY TypeStep DEF Inv
<1> QED
  BY <1>1, StepKinds, GentleStep, SourceStepChangesSource, SourceStepKeepsInv,
     CommitExpansionKeepsInv

\* The inductive invariant holds in every reachable state.
THEOREM Invariance == Spec => []Inv
<1>1. Init => TypeOK
  BY EngineAssumption, IdleIsExec
     DEF Init, TypeOK, NoEntry, OutboxRow, Status, DocRow, NoRebuild, Idle
<1>2. Init => Inv
  BY <1>1 DEF Init, Inv, InTime, OrgChangeHasEntry, ExpansionsHold, OwnedIsGood,
              ProcessedIsGood, ProcessedMatchesDocument, NoEntry, NoRebuild, Idle
<1> QED
  BY <1>2, InvStep, PTL DEF Spec

\* A settled document misses no committed change, for any number of users,
\* entries, workers and failures.
THEOREM SettledDocuments == Spec => []SettledDocumentIsCurrent
<1>1. Inv => SettledDocumentIsCurrent
  <2> SUFFICES ASSUME Inv, NEW t \in Targets, rebuild[t].status = "processed",
                      ~OwnPending(t), ~OrgPending
               PROVE  doc[t].at >= ChangedAt(t)
    BY DEF SettledDocumentIsCurrent
  <2>1. GoodEnough(t, doc[t].at)
    BY DEF Inv, ProcessedIsGood
  <2>2. doc[t].at >= ownAt[t]
    BY <2>1 DEF GoodEnough
  <2>3. ASSUME t \in member, orgAt > ownAt[t] PROVE doc[t].at >= orgAt
    <3>1. orgAt > 0
      BY <2>3 DEF Inv, TypeOK
    <3> QED
      BY <2>1, <2>3, <3>1 DEF Inv, OrgChangeHasEntry, GoodEnough, OrgPending
  <2> QED
    BY <2>2, <2>3 DEF ChangedAt
<1> QED
  BY <1>1, Invariance, PTL

\* The subject access authority never takes for current a document that
\* misses a change of the user itself.
THEOREM AuthorityReads == Spec => []AuthorityMissesNoOwnChange
<1>1. Inv => AuthorityMissesNoOwnChange
  BY DEF Inv, ProcessedIsGood, AuthorityMissesNoOwnChange, AuthorityReadsCurrent, GoodEnough
<1> QED
  BY <1>1, Invariance, PTL

\* A rebuild is processed only together with the document of its version.
THEOREM ProcessedVersions == Spec => []ProcessedMatchesDocument
<1>1. Inv => ProcessedMatchesDocument
  BY DEF Inv
<1> QED
  BY <1>1, Invariance, PTL

\* How the document rows move in one step.
LEMMA DocumentStep ==
    ASSUME Inv, Inv', [Next]_vars, NEW t \in Targets
    PROVE  doc'[t].version >= doc[t].version /\ doc'[t].at >= doc[t].at
<1>1. doc[t].version \in Nat /\ doc[t].at \in Nat
  BY DEF Inv, TypeOK, DocRow
<1>2. CASE Gentle
  BY <1>1, <1>2, PublishedIsOwned DEF Gentle, LeavesAlone
<1>3. CASE SourceStep
  BY <1>1, <1>3, SourceStepChangesSource DEF ChangesSource
<1>4. CASE \E w \in Workers : CommitExpansion(w)
  BY <1>1, <1>4 DEF CommitExpansion
<1> QED
  BY <1>2, <1>3, <1>4, StepKinds

\* No document ever goes back, in version or in the snapshot it shows.
THEOREM DocumentsOnlyMoveForward == Spec => DocumentsMoveForward
<1>1. Inv /\ Inv' /\ [Next]_vars
        => [\A t \in Targets : /\ doc'[t].version >= doc[t].version
                               /\ doc'[t].at >= doc[t].at]_vars
  BY DocumentStep
<1> QED
  BY <1>1, Invariance, PTL DEF Spec, DocumentsMoveForward

\* Every step of the engine is a change, a refresh or nothing to a reader who
\* only knows the promise.
LEMMA PromiseStep ==
    ASSUME Inv, Inv', [Next]_vars
    PROVE  [Promise!Next]_(Promise!vars)
<1> USE DEF Promise!Next, Promise!vars, Promise!Change, Promise!Refresh
<1>1. /\ lsn \in Nat /\ orgAt \in Nat /\ orgAt <= lsn
      /\ \A t \in Targets : ownAt[t] \in Nat /\ ownAt[t] <= lsn
  BY DEF Inv, TypeOK, InTime
<1>2. ASSUME UNCHANGED source PROVE \A t \in Targets : ChangedAt(t)' = ChangedAt(t)
  BY <1>2 DEF source, ChangedAt
<1>3. ASSUME NEW t \in Targets, NEW e \in Entries, NEW joins \in BOOLEAN, ChangeUser(t, e, joins)
      PROVE  Promise!Change({t})
  <2>1. lsn' = lsn + 1 /\ UNCHANGED <<orgAt, doc>>
    BY <1>3 DEF ChangeUser
  <2>2. /\ ownAt'[t] = lsn + 1
        /\ \A u \in Targets \ {t} : ownAt'[u] = ownAt[u] /\ (u \in member' <=> u \in member)
    BY <1>3 DEF ChangeUser, Inv, TypeOK
  <2>3. \A u \in Targets : ChangedAt(u)' = IF u \in {t} THEN lsn + 1 ELSE ChangedAt(u)
    <3>1. ChangedAt(t)' = lsn + 1
      BY <1>1, <2>1, <2>2 DEF ChangedAt
    <3>2. ASSUME NEW u \in Targets \ {t} PROVE ChangedAt(u)' = ChangedAt(u)
      <4>1. ownAt'[u] = ownAt[u] /\ (u \in member' <=> u \in member) /\ orgAt' = orgAt
        BY <2>1, <2>2
      <4> QED
        BY <4>1 DEF ChangedAt
    <3> QED
      BY <3>1, <3>2
  <2> QED
    BY <2>1, <2>3
<1>4. ASSUME NEW e \in Entries, ChangeOrg(e) PROVE Promise!Change(member)
  <2>1. lsn' = lsn + 1 /\ orgAt' = lsn + 1 /\ UNCHANGED <<ownAt, member, doc>>
    BY <1>4 DEF ChangeOrg
  <2>2. \A u \in Targets : ChangedAt(u)' = IF u \in member THEN lsn + 1 ELSE ChangedAt(u)
    BY <1>1, <2>1 DEF ChangedAt
  <2> QED
    BY <2>1, <2>2
<1>5. CASE SourceStep
  <2>1. member \in SUBSET Targets
    BY DEF Inv, TypeOK
  <2>2. ASSUME NEW t \in Targets, NEW e \in Entries, BackfillUser(t, e)
        PROVE  UNCHANGED Promise!vars
    BY <1>2, <2>2 DEF BackfillUser, source
  <2> QED
    BY <1>3, <1>4, <1>5, <2>1, <2>2 DEF SourceStep
<1>6. ASSUME UNCHANGED source PROVE Promise!Refresh
  <2>1. \A t \in Targets : doc'[t].at \in 0..lsn
    BY <1>6 DEF Inv, TypeOK, DocRow, InTime, source
  <2>2. \A t \in Targets : doc'[t].at >= doc[t].at
    BY DocumentStep
  <2> QED
    BY <1>2, <1>6, <2>1, <2>2 DEF source
<1>7. ~SourceStep => UNCHANGED source
  BY StepKinds DEF Gentle, CommitExpansion
<1> QED
  BY <1>5, <1>6, <1>7

\* The engine, with its outbox, versions, tokens, retries and repairs, is an
\* implementation of DocumentFreshness.
THEOREM Refinement == Spec => ImplementsFreshness
<1>1. Init => Promise!Init
  BY DEF Init, Promise!Init, ChangedAt
<1> QED
  BY <1>1, PromiseStep, Invariance, PTL DEF Spec, ImplementsFreshness
-----------------------------------------------------------------------------
(* Receipts.                                                               *)

Receipts == Inv /\ EachVersionHasOneReceipt

\* Only the commit of an expansion gives a receipt, or ends an entry.
KeepsReceipts ==
    \A e \in Entries : /\ outbox'[e].receipt = outbox[e].receipt
                       /\ outbox[e].status = "processed" => outbox'[e].status = "processed"

LEMMA ReceiptsAreKept ==
    ASSUME Inv, [Next]_vars
    PROVE  KeepsReceipts \/ \E w \in Workers : CommitExpansion(w)
<1>1. outbox \in [Entries -> OutboxRow]
  BY DEF Inv, TypeOK
<1>2. ASSUME UNCHANGED outbox PROVE KeepsReceipts
  BY <1>2 DEF KeepsReceipts
<1>3. ASSUME NEW e \in Entries, NEW about, NEW n, PersistOutboxEntry(e, about, n) PROVE KeepsReceipts
  BY <1>1, <1>3 DEF PersistOutboxEntry, KeepsReceipts, OutboxRow
<1>4. CASE SourceStep
  BY <1>3, <1>4 DEF SourceStep, ChangeUser, ChangeOrg, BackfillUser
<1>5. ASSUME NEW w \in Workers, NEW e \in Entries, ClaimOutbox(w, e) PROVE KeepsReceipts
  BY <1>1, <1>5 DEF ClaimOutbox, Claimable, KeepsReceipts, OutboxRow
<1>6. ASSUME NEW w \in Workers, NEW again \in BOOLEAN, FailExpansion(w, again) PROVE KeepsReceipts
  BY <1>1, <1>6 DEF FailExpansion, FailedEntry, OwnsEntry, KeepsReceipts, OutboxRow
<1>7. ASSUME NEW E \in SUBSET RepairableEntries, NEW R, Repair(E, R) PROVE KeepsReceipts
  BY <1>1, <1>7 DEF Repair, RepairableEntries, Reset, KeepsReceipts, OutboxRow
<1>8. ASSUME NEW w \in Workers, WorkerStep(w) PROVE KeepsReceipts \/ CommitExpansion(w)
  BY <1>2, <1>5, <1>8 DEF WorkerStep, ReplayOutbox, BeginExpansion, StaleExpansion, RetryExpansion,
     EnqueueRebuilds, ClaimRebuilds, BuildDocuments, PublishGroup
<1>9. ASSUME NEW w \in Workers, FailureStep(w) PROVE KeepsReceipts
  BY <1>2, <1>6, <1>9 DEF FailureStep, EnqueueFails, Crash, FailRebuilds, LoseAcknowledgement
<1>10. CASE LossStep
  BY <1>2, <1>10 DEF LossStep, LoseOutboxJob, LoseRebuildJob
<1>11. CASE RepairStep
  BY <1>7, <1>11 DEF RepairStep, TimelyRepair, EarlyRepair
<1>12. CASE UNCHANGED vars
  BY <1>2, <1>12 DEF vars
<1> QED
  BY <1>4, <1>8, <1>9, <1>10, <1>11, <1>12 DEF Next

\* And only it raises a version.
LEMMA VersionsAreKept ==
    ASSUME Inv, [Next]_vars, ~ \E w \in Workers : CommitExpansion(w), NEW t \in Targets
    PROVE  rebuild'[t].version = rebuild[t].version
<1>1. CASE Gentle
  BY <1>1 DEF Gentle, LeavesAlone, Publishes
<1>2. CASE SourceStep
  BY <1>2, SourceStepChangesSource DEF ChangesSource
<1> QED
  BY <1>1, <1>2, StepKinds

LEMMA KeptReceipts ==
    ASSUME Receipts, KeepsReceipts, \A t \in Targets : rebuild'[t].version = rebuild[t].version
    PROVE  EachVersionHasOneReceipt'
<1>1. \A e \in Entries : \A r \in outbox[e].receipt : r.target \in Targets
  BY DEF Receipts, Inv, TypeOK, OutboxRow, Request
<1> QED
  BY <1>1 DEF Receipts, EachVersionHasOneReceipt, KeepsReceipts

\* The entry whose expansion commits had no receipt, and gets the next version
\* of each target it found.
LEMMA CommitGivesReceipts ==
    ASSUME Receipts, NEW w \in Workers, CommitExpansion(w)
    PROVE  EachVersionHasOneReceipt'
<1> DEFINE e == exec[w].entry
           S == exec[w].found
<1>1. e \in Entries /\ outbox[e].status = "processing" /\ S \subseteq Targets
  BY DEF CommitExpansion, Receipts, Inv, ExpansionsHold, ExpandsWell, OwnsEntry, TypeOK, Exec
<1>2. /\ outbox'[e].status = "processed" /\ outbox'[e].receipt = Registered(S)
      /\ \A f \in Entries \ {e} : outbox'[f] = outbox[f]
  BY <1>1 DEF CommitExpansion, Receipts, Inv, TypeOK, OutboxRow
<1>3. \A t \in Targets : /\ t \in S => rebuild'[t].version = rebuild[t].version + 1
                         /\ t \notin S => rebuild'[t].version = rebuild[t].version
                         /\ rebuild[t].version \in Nat
  BY DEF CommitExpansion, Require, Receipts, Inv, TypeOK, RebuildRow
<1>4. \A r : r \in Registered(S) <=>
               \E t \in S : r = [target |-> t, version |-> rebuild[t].version + 1]
  BY DEF Registered
<1>5. outbox[e].receipt = {}
  BY <1>1 DEF Receipts, EachVersionHasOneReceipt
<1>6. \A f \in Entries : \A r \in outbox[f].receipt :
         /\ r.target \in Targets /\ r.version \in 1..rebuild[r.target].version
         /\ outbox[f].status = "processed"
  BY DEF Receipts, EachVersionHasOneReceipt, Inv, TypeOK, OutboxRow, Request
<1>7. ASSUME NEW t \in Targets, NEW v \in 1..rebuild'[t].version
      PROVE  \E f \in Entries : /\ [target |-> t, version |-> v] \in outbox'[f].receipt
                                /\ \A g \in Entries \ {f} :
                                      [target |-> t, version |-> v] \notin outbox'[g].receipt
  <2>1. PICK r : r = [target |-> t, version |-> v]
    OBVIOUS
  <2>2. r.target = t /\ r.version = v
    BY <2>1
  <2>3. CASE v \in 1..rebuild[t].version
    <3>1. PICK f \in Entries : r \in outbox[f].receipt /\ \A g \in Entries \ {f} : r \notin outbox[g].receipt
      BY <2>1, <2>3 DEF Receipts, EachVersionHasOneReceipt
    <3>2. f # e
      BY <1>5, <3>1
    <3>3. r \notin Registered(S)
      <4>1. ASSUME NEW u \in S, r = [target |-> u, version |-> rebuild[u].version + 1] PROVE FALSE
        <5>1. u = t /\ v = rebuild[t].version + 1
          BY <2>2, <4>1
        <5> QED
          BY <1>3, <2>3, <5>1
      <4> QED
        BY <1>4, <4>1
    <3> QED
      BY <1>1, <1>2, <2>1, <3>1, <3>2, <3>3
  <2>4. CASE v \notin 1..rebuild[t].version
    <3>1. t \in S /\ v = rebuild[t].version + 1
      BY <1>3, <1>7, <2>4
    <3>2. r \in Registered(S)
      BY <1>4, <2>1, <3>1
    <3>3. \A g \in Entries : r \notin outbox[g].receipt
      BY <1>6, <2>2, <2>4
    <3> QED
      BY <1>1, <1>2, <2>1, <3>2, <3>3
  <2> QED
    BY <2>3, <2>4
<1>8. ASSUME NEW f \in Entries, NEW r \in outbox'[f].receipt
      PROVE  outbox'[f].status = "processed" /\ r.version \in 1..rebuild'[r.target].version
  <2>1. CASE f = e
    <3>1. PICK t \in S : r = [target |-> t, version |-> rebuild[t].version + 1]
      BY <1>2, <1>4, <1>8, <2>1
    <3> QED
      BY <1>1, <1>2, <1>3, <2>1, <3>1
  <2>2. CASE f # e
    BY <1>2, <1>3, <1>6, <1>8, <2>2
  <2> QED
    BY <2>1, <2>2
<1> QED
  BY <1>7, <1>8 DEF EachVersionHasOneReceipt

\* Whatever is delivered twice, replayed, retried or repaired too early, every
\* required version of a document is registered by exactly one entry.
THEOREM VersionsAreRegisteredOnce == Spec => []EachVersionHasOneReceipt
<1>1. Init /\ Inv => Receipts
  BY DEF Init, NoRebuild, NoEntry, Receipts, EachVersionHasOneReceipt
<1>2. Receipts /\ Inv' /\ [Next]_vars => Receipts'
  BY ReceiptsAreKept, VersionsAreKept, KeptReceipts, CommitGivesReceipts DEF Receipts
<1>3. Receipts => EachVersionHasOneReceipt
  BY DEF Receipts
<1> QED
  BY <1>1, <1>2, <1>3, Invariance, PTL DEF Spec

=============================================================================
