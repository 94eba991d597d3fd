------------------------- MODULE SubjectAccessProofs -------------------------
(***************************************************************************)
(* Proofs about SubjectAccess, for any transitions, agents and sessions.   *)
(*                                                                         *)
(* The argument is about the record that stands: the one in Redis, or the  *)
(* one a block may still give back, because PostgreSQL has not committed   *)
(* a change of status (Standing).  The account changes its status only     *)
(* while its record is blocked by the run that changes it; from then on    *)
(* the old record does not stand, and its generation is dead: no run,      *)
(* agent, late begin or seed brings it back (Dead).                        *)
(***************************************************************************)
EXTENDS SubjectAccess, TLAPS

\* Transitions whose begin has not been executed, and may still be.
Unbegun == {x \in Transitions : run[x].pc \in {"new", "begin"}} \cup late

\* PostgreSQL has committed no change of status with it.
Revocable(x) == intent[x].target \in {"none", "rollback"}

Opened == journal.status \in {"mutating", "repairable"}

Standing ==
    IF journal.status = "mutating" /\ Revocable(journal.id) THEN journal.previous ELSE record

Enabled(g) == [state |-> "enabled", id |-> g]

\* A generation that stood, and will not again.
Dead(g) ==
    /\ Standing.id # g
    /\ g \in Transitions => g \notin Unbegun /\ ~(Opened /\ journal.id = g)
    /\ g = Seed => Standing.state # "absent"

-----------------------------------------------------------------------------
IntentSound(x) ==
    /\ intent[x] \in Intent
    /\ intent[x].status \in {"absent", "pending"} => intent[x].target = "none"
    /\ intent[x].status = "rolled_back" => intent[x].target = "rollback"
    /\ intent[x].status = "committed" => intent[x].target # "none"
    /\ intent[x].at <= changes

PostgresSound ==
    /\ account \in {"absent", "enabled", "disabled"}
    /\ changes \in Nat /\ published \in Nat /\ published <= changes /\ disables \in Nat
    /\ intent \in [Transitions -> Intent]
    /\ \A x \in Transitions : IntentSound(x)

RedisSound ==
    /\ record \in Record /\ journal \in Journal /\ recoverAt \in When /\ repairAt \in When
    /\ journal.status \in {"mutating", "repairable", "finalized"} => journal.id \in Transitions
    /\ journal.status = "mutating" =>
          journal.previous.state # "blocking" /\ journal.previous.id # journal.id
    /\ journal.status = "repairable" => journal.target \in {"enabled", "disabled"}

\* What a record that stands promises.
StandingSound ==
    /\ Standing.state = "enabled" => account = "enabled"
    /\ Standing.state = "absent" /\ seeding # "none" => account = seeding
    /\ \A x \in Transitions : Standing = Enabled(x) => published >= intent[x].at

\* A transition that has not begun is nowhere to be found.
UnbegunSound ==
    /\ late \subseteq Transitions
    /\ \A x \in Unbegun : record.id # x /\ journal.id # x /\ journal.previous.id # x

CoreSound ==
    /\ PostgresSound /\ RedisSound /\ StoresAgree /\ EveryBlockIsQueued
    /\ StandingSound /\ UnbegunSound /\ seeding \in {"none", "enabled", "disabled"}

\* A run is entitled to what it will do next.
RunSound(x) ==
    /\ run[x] \in Run
    /\ (run[x].pc = "new") <=> (intent[x].status = "absent")
    /\ run[x].pc \in {"begin", "rejected", "uncertain", "abort", "mutate", "undo"} =>
          intent[x].status \in {"pending", "rolled_back"}
    /\ run[x].pc = "mutate" /\ intent[x].status = "pending" =>
          Mutating(x) /\ journal.previous.id = run[x].previous
    /\ run[x].pc = "restore" => intent[x].target = "rollback"
    /\ run[x].pc \in {"prepare", "finalize"} =>
          /\ intent[x].status = "committed" /\ intent[x].target = run[x].target
          /\ run[x].target \in {"enabled", "disabled"}
    /\ run[x].pc \in {"prepare", "finalize", "revoke"} /\ run[x].previous # NoId => Dead(run[x].previous)
    /\ run[x].pc = "revoke" => run[x].previous # NoId
    /\ x \in late => run[x].pc \in {"uncertain", "abort", "done"}
                     /\ intent[x].status \in {"pending", "rolled_back"}

AgentSound(a) ==
    /\ agent[a] \in Agent
    /\ agent[a].pc # "idle" => agent[a].id \in Transitions \ Unbegun
    /\ agent[a].pc = "resolved" =>
          /\ intent[agent[a].id].status \in {"committed", "rolled_back"}
          /\ agent[a].target = intent[agent[a].id].target
    /\ agent[a].pc \in {"repairing", "judged"} => ~Mutating(agent[a].id)
    /\ agent[a].pc = "judged" /\ agent[a].matches /\ agent[a].target = "enabled"
          /\ Repairable(agent[a].id, "enabled") =>
             account = "enabled" /\ published >= intent[agent[a].id].at

\* The generation of a session stands and has seen no disabling since it was
\* read, or it is dead.
SessionSound(s) ==
    /\ session[s] \in Session
    /\ session[s].status # "none" =>
          \/ Standing = Enabled(session[s].generation) /\ session[s].epoch = disables
          \/ Dead(session[s].generation)
    /\ session[s].finding # "none" =>
          session[s].status # "none" /\ Dead(session[s].generation)

Counted == others \in 0..MaxOthers /\ faults \in 0..MaxFaults

Inv ==
    /\ CoreSound /\ Counted
    /\ run \in [Transitions -> Run] /\ \A x \in Transitions : RunSound(x)
    /\ agent \in [Agents -> Agent] /\ \A a \in Agents : AgentSound(a)
    /\ session \in [Sessions -> Session] /\ \A s \in Sessions : SessionSound(s)

-----------------------------------------------------------------------------
(* What the invariant says of the properties.                              *)

LEMMA InvTypes == Inv => TypeOK
<1> SUFFICES ASSUME Inv PROVE TypeOK
  OBVIOUS
<1>1. published \in 0..changes
  BY DEF Inv, CoreSound, PostgresSound
<1>2. late \in SUBSET Transitions
  BY DEF Inv, CoreSound, UnbegunSound
<1> QED
  BY <1>1, <1>2 DEF Inv, CoreSound, PostgresSound, RedisSound, Counted, TypeOK

\* A record that is enabled stands.
LEMMA EnabledStands == CoreSound /\ record.state # "blocking" => Standing = record
BY DEF CoreSound, EveryBlockIsQueued, Standing

LEMMA InvProperties ==
    Inv => /\ EnabledOnlyWithAccount /\ AdmittedWithOwnFacts /\ AdmittedSawNoDisable
           /\ StoresAgree /\ EveryBlockIsQueued
<1> SUFFICES ASSUME Inv
             PROVE  EnabledOnlyWithAccount /\ AdmittedWithOwnFacts /\ AdmittedSawNoDisable
  BY DEF Inv, CoreSound
<1>1. EnabledOnlyWithAccount
  BY EnabledStands DEF Inv, CoreSound, StandingSound, EnabledOnlyWithAccount
<1>2. AdmittedWithOwnFacts
  BY EnabledStands DEF Inv, CoreSound, StandingSound, AdmittedWithOwnFacts, Enabled
<1>3. ASSUME NEW s \in Sessions, Admitted(s) PROVE session[s].epoch = disables
  <2>1. Standing = record /\ Standing.id = session[s].generation
    BY <1>3, EnabledStands DEF Inv, Admitted
  <2>2. ~Dead(session[s].generation)
    BY <2>1 DEF Dead
  <2> QED
    BY <1>3, <2>2 DEF Inv, SessionSound, Admitted
<1>4. AdmittedSawNoDisable
  BY <1>3 DEF AdmittedSawNoDisable
<1> QED
  BY <1>1, <1>2, <1>4

LEMMA InitInv == Init => Inv
<1> SUFFICES ASSUME Init PROVE Inv
  OBVIOUS
<1>1. Absent \in Record
  BY DEF Absent, Record
<1>2. Standing = Absent
  BY DEF Init, Standing
<1>3. PostgresSound
  BY DEF Init, PostgresSound, IntentSound, Intent
<1>4. RedisSound
  BY <1>1 DEF Init, RedisSound, Journal, When
<1>5. StoresAgree /\ EveryBlockIsQueued
  BY DEF Init, StoresAgree, EveryBlockIsQueued, Absent
<1>6. StandingSound
  BY <1>2 DEF Init, StandingSound, Absent, Enabled
<1>7. UnbegunSound
  BY AccessAssumption DEF Init, UnbegunSound, Unbegun, Absent
<1>8. \A x \in Transitions : run[x] \in Run /\ RunSound(x)
  BY DEF Init, RunSound, Run
<1>9. IdleAgent \in Agent
  BY DEF IdleAgent, Agent
<1>10. \A a \in Agents : agent[a] \in Agent /\ AgentSound(a)
  BY <1>9 DEF Init, AgentSound, IdleAgent
<1>11. \A s \in Sessions : session[s] \in Session /\ SessionSound(s)
  BY DEF Init, SessionSound, Session
<1>12. Counted
  BY AccessAssumption DEF Init, Counted
<1> QED
  BY <1>3, <1>4, <1>5, <1>6, <1>7, <1>8, <1>10, <1>11, <1>12 DEF Init, Inv, CoreSound

-----------------------------------------------------------------------------
(* What holds of every step, for whoever does not take it.                 *)

DeathsLast == \A g \in Ids \cup {NoId} : Dead(g) => Dead(g)'

LivesOn ==
    \A g \in Ids \cup {NoId} :
       Standing = Enabled(g) => \/ Standing' = Enabled(g) /\ disables' = disables
                                \/ Dead(g)'

AgentsGoOn ==
    \A x \in Transitions \ Unbegun :
       /\ x \notin Unbegun'
       /\ Mutating(x)' => Mutating(x)
       /\ intent[x].status \in {"committed", "rolled_back"} => intent'[x] = intent[x]
       /\ Repairable(x, "enabled")' =>
             \/ Mutating(x)
             \/ Repairable(x, "enabled") /\ account' = account /\ published <= published'

RunGoesOn(x) ==
    /\ \/ intent'[x] = intent[x]
       \/ /\ intent[x].status = "pending"
          /\ intent'[x].status = "rolled_back" /\ intent'[x].target = "rollback"
    /\ run[x].pc = "mutate" /\ intent[x].status = "pending" =>
          Mutating(x)' /\ journal'.previous = journal.previous
    /\ x \in late' => x \in late

Onward == CoreSound' /\ DeathsLast /\ LivesOn /\ AgentsGoOn

LEMMA RunKept ==
    ASSUME Inv, Onward, NEW x \in Transitions, run'[x] = run[x], RunGoesOn(x)
    PROVE  RunSound(x)'
<1>1. RunSound(x) /\ intent[x] \in Intent
  BY DEF Inv, CoreSound, PostgresSound
<1>2. run[x].previous \in Ids \cup {NoId}
  BY DEF Inv, Run
<1>3. Dead(run[x].previous) => Dead(run[x].previous)'
  BY <1>2 DEF Onward, DeathsLast, Dead
<1> QED
  BY <1>1, <1>3 DEF RunSound, RunGoesOn, Mutating

LEMMA AgentKept ==
    ASSUME Inv, Onward, NEW a \in Agents, agent'[a] = agent[a]
    PROVE  AgentSound(a)'
<1>1. AgentSound(a)
  BY DEF Inv
<1>2. CASE agent[a].pc = "idle"
  BY <1>1, <1>2 DEF AgentSound
<1>3. CASE agent[a].pc # "idle"
  <2>1. agent[a].id \in Transitions \ Unbegun
    BY <1>1, <1>3 DEF AgentSound
  <2>2. PICK x \in Transitions \ Unbegun : x = agent[a].id
    BY <2>1
  <2>3. /\ x \notin Unbegun'
        /\ Mutating(x)' => Mutating(x)
        /\ intent[x].status \in {"committed", "rolled_back"} => intent'[x] = intent[x]
        /\ Repairable(x, "enabled")' =>
             \/ Mutating(x)
             \/ Repairable(x, "enabled") /\ account' = account /\ published <= published'
    BY DEF Onward, AgentsGoOn
  <2>4. Repairable(x, "enabled") => intent[x].status = "committed"
    BY DEF Inv, CoreSound, StoresAgree, Repairable
  <2>5. published \in Nat /\ published' \in Nat /\ intent[x].at \in Nat
    BY DEF Inv, Onward, CoreSound, PostgresSound, Intent
  <2>6. Mutating(agent[a].id)' => Mutating(x)
    BY <2>2, <2>3 DEF Mutating
  <2>7. Repairable(agent[a].id, "enabled")' => Repairable(x, "enabled")'
    BY <2>2 DEF Repairable
  <2> QED
    BY <1>1, <1>3, <2>2, <2>3, <2>4, <2>5, <2>6, <2>7 DEF AgentSound, Mutating, Repairable
<1> QED
  BY <1>2, <1>3

LEMMA SessionKept ==
    ASSUME Inv, Onward, NEW s \in Sessions, session'[s] \in Session,
           session'[s].generation = session[s].generation,
           session'[s].epoch = session[s].epoch,
           (session'[s].status = "none") <=> (session[s].status = "none"),
           session'[s].finding # "none" => session[s].finding # "none"
    PROVE  SessionSound(s)'
<1>1. SessionSound(s)
  BY DEF Inv
<1>2. PICK g \in Ids \cup {NoId} : g = session[s].generation
  BY <1>1 DEF SessionSound, Session
<1>3. Dead(g) => Dead(g)'
  BY DEF Onward, DeathsLast
<1>4. Standing = Enabled(g) => \/ Standing' = Enabled(g) /\ disables' = disables
                               \/ Dead(g)'
  BY DEF Onward, LivesOn
<1>5. Standing' = Enabled(g) => Standing' = Enabled(session'[s].generation)
  BY <1>2 DEF Enabled
<1>6. Dead(g)' => Dead(session[s].generation)'
  BY <1>2 DEF Dead
<1> QED
  BY <1>1, <1>2, <1>3, <1>4, <1>5, <1>6 DEF SessionSound, Enabled, Dead

-----------------------------------------------------------------------------
(* The steps by what they do to the two stores.                            *)

\* PostgreSQL, and what a bootstrap has read of it, are as they were.
Aside ==
    /\ UNCHANGED <<account, changes, published, intent, seeding, disables>>
    /\ Unbegun' \subseteq Unbegun /\ late' \subseteq Transitions

\* The same record stands, and nothing began.
LEMMA StandingKept ==
    ASSUME Inv, Standing' = Standing, disables' = disables, Unbegun' \subseteq Unbegun,
           \A x \in Transitions \ Unbegun : (Opened' /\ journal'.id = x) => (Opened /\ journal.id = x)
    PROVE  DeathsLast /\ LivesOn
<1>1. ASSUME NEW g \in Ids \cup {NoId}, Dead(g) PROVE Dead(g)'
  BY <1>1 DEF Dead
<1> QED
  BY <1>1 DEF DeathsLast, LivesOn

\* The record and the decision of its transition are as they were; leases and
\* the times of the indexes may not be.
Rests ==
    /\ Aside
    /\ record' = record /\ journal' \in Journal
    /\ journal'.status = journal.status /\ journal'.id = journal.id
    /\ journal'.previous = journal.previous /\ journal'.target = journal.target
    /\ recoverAt' \in When /\ ((recoverAt' = "out") <=> (recoverAt = "out"))
    /\ repairAt' \in When /\ ((repairAt' = "out") <=> (repairAt = "out"))

LEMMA RestsOn ==
    ASSUME Inv, Rests
    PROVE  /\ Onward
           /\ \A x \in Transitions : (x \in late' => x \in late) => RunGoesOn(x)
<1>1. /\ UNCHANGED <<account, changes, published, intent, seeding, disables, record>>
      /\ Unbegun' \subseteq Unbegun /\ Standing' = Standing
  BY DEF Rests, Aside, Standing, Revocable
<1>2. PostgresSound'
  BY <1>1 DEF Inv, CoreSound, PostgresSound, IntentSound
<1>3. RedisSound'
  BY <1>1 DEF Rests, Inv, CoreSound, RedisSound
<1>4. StoresAgree' /\ EveryBlockIsQueued'
  BY <1>1 DEF Rests, Inv, CoreSound, StoresAgree, EveryBlockIsQueued
<1>5. StandingSound'
  BY <1>1 DEF Inv, CoreSound, StandingSound
<1>6. UnbegunSound'
  BY <1>1 DEF Rests, Aside, Inv, CoreSound, UnbegunSound
<1>7. CoreSound'
  BY <1>1, <1>2, <1>3, <1>4, <1>5, <1>6 DEF Inv, CoreSound
<1>8. DeathsLast /\ LivesOn
  BY <1>1, StandingKept DEF Rests, Opened
<1>9. AgentsGoOn
  BY <1>1 DEF Rests, AgentsGoOn, Mutating, Repairable, Inv, CoreSound, PostgresSound
<1>10. ASSUME NEW x \in Transitions, x \in late' => x \in late PROVE RunGoesOn(x)
  BY <1>1, <1>10 DEF Rests, RunGoesOn, Mutating, Inv, RunSound
<1> QED
  BY <1>7, <1>8, <1>9, <1>10 DEF Onward

\* A transition begins: the record that stood may come back.
Begins(x) ==
    /\ Aside
    /\ BeginBlocking(x) /\ x \in Unbegun /\ x \notin Unbegun'

LEMMA UnbegunRevocable ==
    ASSUME Inv, NEW x \in Unbegun
    PROVE  x \in Transitions /\ Revocable(x) /\ intent[x].status # "committed"
<1>1. x \in Transitions
  BY DEF Unbegun, Inv, CoreSound, UnbegunSound
<1>2. RunSound(x) /\ IntentSound(x)
  BY <1>1 DEF Inv, CoreSound, PostgresSound
<1> QED
  BY <1>1, <1>2 DEF Unbegun, RunSound, IntentSound, Intent, Revocable

LEMMA BeginsOn ==
    ASSUME Inv, NEW x \in Transitions, Begins(x)
    PROVE  /\ Onward
           /\ \A y \in Transitions \ {x} : (y \in late' => y \in late) => RunGoesOn(y)
<1>1. /\ UNCHANGED <<account, changes, published, intent, seeding, disables>>
      /\ Unbegun' \subseteq Unbegun /\ late' \subseteq Transitions
      /\ x \in Unbegun /\ x \notin Unbegun' /\ record.state # "blocking"
      /\ record' = [state |-> "blocking", id |-> x]
      /\ journal' = [status |-> "mutating", id |-> x, previous |-> record,
                     target |-> "none", token |-> NoId]
      /\ recoverAt' = "waiting" /\ repairAt' = repairAt
  BY DEF Begins, Aside, BeginBlocking
<1>2. Standing = record /\ ~Opened
  BY <1>1, EnabledStands DEF Inv, CoreSound, EveryBlockIsQueued, Opened
<1>3. Revocable(x) /\ intent[x].status # "committed"
  BY <1>1, UnbegunRevocable
<1>4. Standing' = Standing
  BY <1>1, <1>2, <1>3 DEF Standing, Revocable
<1>5. PostgresSound'
  BY <1>1 DEF Inv, CoreSound, PostgresSound, IntentSound
<1>6. record.id # x
  BY <1>1 DEF Inv, CoreSound, UnbegunSound
<1>7. RedisSound'
  BY <1>1, <1>6 DEF Inv, CoreSound, RedisSound, Record, Journal, Ids, When
<1>8. StoresAgree' /\ EveryBlockIsQueued'
  BY <1>1, <1>2 DEF Inv, CoreSound, StoresAgree, EveryBlockIsQueued, Opened
<1>9. StandingSound'
  BY <1>1, <1>4 DEF Inv, CoreSound, StandingSound
<1>10. UnbegunSound'
  BY <1>1 DEF Inv, CoreSound, UnbegunSound
<1>11. CoreSound'
  BY <1>1, <1>5, <1>7, <1>8, <1>9, <1>10 DEF Inv, CoreSound
<1>12. DeathsLast /\ LivesOn
  BY <1>1, <1>4, StandingKept
<1>13. AgentsGoOn
  BY <1>1 DEF AgentsGoOn, Mutating, Repairable
<1>14. ASSUME NEW y \in Transitions \ {x}, y \in late' => y \in late PROVE RunGoesOn(y)
  BY <1>1, <1>2, <1>14 DEF RunGoesOn, Inv, RunSound, Mutating, Opened
<1> QED
  BY <1>11, <1>12, <1>13, <1>14 DEF Onward

\* Its run does not rely on the block any more.
Parted(x) == ~(run[x].pc = "mutate" /\ intent[x].status = "pending")

\* A block gives back what stood.
Restores(x) ==
    /\ Aside /\ late' \subseteq late
    /\ Mutating(x) /\ Revocable(x) /\ RestorePrevious(x) /\ Parted(x)

LEMMA RestoresOn ==
    ASSUME Inv, NEW x \in Transitions, Restores(x)
    PROVE  Onward /\ \A y \in Transitions : RunGoesOn(y)
<1>1. /\ UNCHANGED <<account, changes, published, intent, seeding, disables>>
      /\ Unbegun' \subseteq Unbegun /\ late' \subseteq Transitions
      /\ journal.status = "mutating" /\ journal.id = x /\ Revocable(x)
      /\ record' = journal.previous
      /\ journal' = [status |-> "rolled_back", id |-> x, previous |-> Absent,
                     target |-> "none", token |-> NoId]
      /\ recoverAt' = "out" /\ repairAt' = "out"
  BY DEF Restores, Aside, RestorePrevious, Mutating
<1>2. Standing = journal.previous /\ Standing' = Standing
  BY <1>1 DEF Standing
<1>3. PostgresSound'
  BY <1>1 DEF Inv, CoreSound, PostgresSound, IntentSound
<1>4. Absent \in Record
  BY DEF Absent, Record
<1>5. RedisSound'
  BY <1>1, <1>4 DEF Inv, CoreSound, RedisSound, Journal, When
<1>6. StoresAgree' /\ EveryBlockIsQueued'
  BY <1>1 DEF Inv, CoreSound, RedisSound, Revocable, StoresAgree, EveryBlockIsQueued
<1>7. StandingSound'
  BY <1>1, <1>2 DEF Inv, CoreSound, StandingSound
<1>8. UnbegunSound'
  BY <1>1, AccessAssumption DEF Inv, CoreSound, UnbegunSound, Absent, Unbegun
<1>9. CoreSound'
  BY <1>1, <1>3, <1>5, <1>6, <1>7, <1>8 DEF Inv, CoreSound
<1>10. DeathsLast /\ LivesOn
  BY <1>1, <1>2, StandingKept DEF Opened
<1>11. AgentsGoOn
  BY <1>1 DEF AgentsGoOn, Mutating, Repairable
<1>12. ASSUME NEW y \in Transitions PROVE RunGoesOn(y)
  BY <1>1 DEF RunGoesOn, Inv, RunSound, Mutating, Parted, Restores
<1> QED
  BY <1>9, <1>10, <1>11, <1>12 DEF Onward

\* A transition that PostgreSQL committed is decided in Redis.
Prepares(x, target) ==
    /\ Aside /\ late' \subseteq late
    /\ Mutating(x) /\ Prepare(x, target)
    /\ intent[x].status = "committed" /\ intent[x].target = target
    /\ target \in {"enabled", "disabled"}

LEMMA PreparesOn ==
    ASSUME Inv, NEW x \in Transitions, NEW target, Prepares(x, target)
    PROVE  Onward /\ \A y \in Transitions : RunGoesOn(y)
<1>1. /\ UNCHANGED <<account, changes, published, intent, seeding, disables, record>>
      /\ Unbegun' \subseteq Unbegun /\ late' \subseteq Transitions
      /\ journal.status = "mutating" /\ journal.id = x
      /\ intent[x].status = "committed" /\ intent[x].target = target
      /\ target \in {"enabled", "disabled"}
      /\ recoverAt' = "out" /\ repairAt' = "due"
  BY DEF Prepares, Aside, Prepare, Mutating
<1>2. journal \in Journal
  BY DEF Inv, CoreSound, RedisSound
<1>3. /\ journal' \in Journal /\ journal'.status = "repairable" /\ journal'.target = target
      /\ journal'.id = x /\ journal'.previous = journal.previous
  BY <1>1, <1>2 DEF Prepares, Prepare, Journal, Targets
<1>4. Standing = record /\ Standing' = Standing
  BY <1>1, <1>3 DEF Standing, Revocable
<1>5. PostgresSound'
  BY <1>1 DEF Inv, CoreSound, PostgresSound, IntentSound
<1>6. RedisSound'
  BY <1>1, <1>3 DEF Inv, CoreSound, RedisSound, When
<1>7. StoresAgree' /\ EveryBlockIsQueued'
  BY <1>1, <1>3 DEF Inv, CoreSound, StoresAgree, EveryBlockIsQueued
<1>8. StandingSound'
  BY <1>1, <1>4 DEF Inv, CoreSound, StandingSound
<1>9. UnbegunSound'
  BY <1>1, <1>3 DEF Inv, CoreSound, UnbegunSound
<1>10. CoreSound'
  BY <1>1, <1>5, <1>6, <1>7, <1>8, <1>9 DEF Inv, CoreSound
<1>11. DeathsLast /\ LivesOn
  BY <1>1, <1>3, <1>4, StandingKept DEF Opened
<1>12. AgentsGoOn
  BY <1>1, <1>3 DEF AgentsGoOn, Mutating, Repairable
<1>13. ASSUME NEW y \in Transitions PROVE RunGoesOn(y)
  BY <1>1 DEF RunGoesOn, Inv, RunSound, Mutating, Prepares
<1> QED
  BY <1>10, <1>11, <1>12, <1>13 DEF Onward

\* A decided transition is finished; to enable, the account and its facts agree.
Finishes(x, target) ==
    /\ Aside /\ late' \subseteq late
    /\ Repairable(x, target) /\ Finish(x, target)
    /\ target = "enabled" => account = "enabled" /\ published >= intent[x].at

LEMMA FinishesOn ==
    ASSUME Inv, NEW x \in Transitions, NEW target, Finishes(x, target)
    PROVE  Onward /\ \A y \in Transitions : RunGoesOn(y)
<1>1. /\ UNCHANGED <<account, changes, published, intent, seeding, disables>>
      /\ Unbegun' \subseteq Unbegun /\ late' \subseteq Transitions
      /\ journal.status = "repairable" /\ journal.id = x /\ journal.target = target
      /\ record' = [state |-> target, id |-> x]
      /\ journal' = [status |-> "finalized", id |-> x, previous |-> Absent,
                     target |-> target, token |-> NoId]
      /\ recoverAt' = "out" /\ repairAt' = "out"
      /\ target \in {"enabled", "disabled"}
      /\ target = "enabled" => account = "enabled" /\ published >= intent[x].at
  BY DEF Finishes, Aside, Finish, Repairable, Inv, CoreSound, RedisSound
<1>2. Standing = record /\ record.state = "blocking" /\ record.id = x /\ Opened /\ Standing' = record'
  BY <1>1 DEF Standing, Inv, CoreSound, EveryBlockIsQueued, Opened
<1>3. PostgresSound'
  BY <1>1 DEF Inv, CoreSound, PostgresSound, IntentSound
<1>4. Absent \in Record
  BY DEF Absent, Record
<1>5. RedisSound'
  BY <1>1, <1>4 DEF Inv, CoreSound, RedisSound, Record, Ids, Journal, When, Targets
<1>6. StoresAgree' /\ EveryBlockIsQueued'
  BY <1>1 DEF Inv, CoreSound, StoresAgree, EveryBlockIsQueued
<1>7. StandingSound'
  BY <1>1, <1>2 DEF StandingSound, Enabled
<1>8. x \notin Unbegun
  BY <1>1 DEF Inv, CoreSound, UnbegunSound
<1>9. UnbegunSound'
  BY <1>1, <1>8, AccessAssumption DEF Inv, CoreSound, UnbegunSound, Absent, Unbegun
<1>10. CoreSound'
  BY <1>1, <1>3, <1>5, <1>6, <1>7, <1>9 DEF Inv, CoreSound
<1>11. DeathsLast
  BY <1>1, <1>2 DEF DeathsLast, Dead, Opened
<1>12. LivesOn
  BY <1>2 DEF LivesOn, Enabled
<1>13. AgentsGoOn
  BY <1>1 DEF AgentsGoOn, Mutating, Repairable
<1>14. ASSUME NEW y \in Transitions PROVE RunGoesOn(y)
  BY <1>1 DEF RunGoesOn, Inv, RunSound, Mutating, Finishes
<1> QED
  BY <1>10, <1>11, <1>12, <1>13, <1>14 DEF Onward

\* An intent that is pending is given up.
GivesUp(x) ==
    /\ intent' = GivenUp(x)
    /\ UNCHANGED <<account, changes, published, seeding, disables, redis, late>>
    /\ Unbegun' = Unbegun

LEMMA GivesUpOn ==
    ASSUME Inv, NEW x \in Transitions, GivesUp(x)
    PROVE  Onward /\ \A y \in Transitions : RunGoesOn(y)
<1>1. UNCHANGED <<account, changes, published, seeding, disables, record, journal, recoverAt,
                  repairAt, late>> /\ Unbegun' = Unbegun
  BY DEF GivesUp, redis
<1>2. \A y \in Transitions :
         \/ intent'[y] = intent[y]
         \/ /\ intent[y].status = "pending"
            /\ intent'[y].status = "rolled_back" /\ intent'[y].target = "rollback"
            /\ intent'[y].at = intent[y].at /\ intent'[y] \in Intent
  BY DEF GivesUp, GivenUp, Inv, CoreSound, PostgresSound, Intent, Targets
<1>3. intent' \in [Transitions -> Intent]
  BY <1>2 DEF GivesUp, GivenUp, Inv, CoreSound, PostgresSound
<1>4. \A y \in Transitions : intent[y].status = "pending" => intent[y].target = "none"
  BY DEF Inv, CoreSound, PostgresSound, IntentSound
<1>5. PostgresSound'
  BY <1>1, <1>2, <1>3 DEF Inv, CoreSound, PostgresSound, IntentSound
<1>6. RedisSound' /\ EveryBlockIsQueued'
  BY <1>1 DEF Inv, CoreSound, RedisSound, EveryBlockIsQueued
<1>7. StoresAgree'
  BY <1>1, <1>2 DEF Inv, CoreSound, StoresAgree
<1>8. journal.status = "mutating" => journal.id \in Transitions
  BY DEF Inv, CoreSound, RedisSound
<1>9. Standing' = Standing
  BY <1>1, <1>2, <1>4, <1>8 DEF Standing, Revocable
<1>10. StandingSound'
  BY <1>1, <1>2, <1>9 DEF Inv, CoreSound, StandingSound
<1>11. UnbegunSound'
  BY <1>1 DEF Inv, CoreSound, UnbegunSound
<1>12. CoreSound'
  BY <1>1, <1>5, <1>6, <1>7, <1>10, <1>11 DEF Inv, CoreSound
<1>13. DeathsLast /\ LivesOn
  BY <1>1, <1>9, StandingKept DEF Opened
<1>14. published \in Nat
  BY DEF Inv, CoreSound, PostgresSound
<1>15. AgentsGoOn
  BY <1>1, <1>2, <1>14 DEF AgentsGoOn, Mutating, Repairable
<1>16. ASSUME NEW y \in Transitions PROVE RunGoesOn(y)
  BY <1>1, <1>2 DEF RunGoesOn, Inv, RunSound, Mutating
<1> QED
  BY <1>12, <1>13, <1>15, <1>16 DEF Onward

\* Only the account of a blocked record changes its status; what stood is dead.
Mutates(x, to, target) ==
    /\ intent[x].status = "pending" /\ Mutating(x)
    /\ to \in {"enabled", "disabled"} /\ target \in Dispositions(to)
    /\ account' = to /\ changes' = changes + 1
    /\ disables' = (IF to = "disabled" /\ account # to THEN disables + 1 ELSE disables)
    /\ intent' = [intent EXCEPT ![x] = [status |-> "committed", target |-> target,
                                        at |-> changes + 1]]
    /\ UNCHANGED <<published, redis, seeding, late>>
    /\ Unbegun' \subseteq Unbegun

LEMMA MutatesOn ==
    ASSUME Inv, NEW x \in Transitions, NEW to, NEW target, Mutates(x, to, target)
    PROVE  Onward /\ \A y \in Transitions \ {x} : RunGoesOn(y)
<1>1. /\ UNCHANGED <<published, seeding, record, journal, recoverAt, repairAt, late>>
      /\ Unbegun' \subseteq Unbegun
      /\ journal.status = "mutating" /\ journal.id = x /\ intent[x].status = "pending"
      /\ to \in {"enabled", "disabled"} /\ account' = to
  BY DEF Mutates, redis, Mutating
<1>2. PICK n \in Nat : n = changes + 1 /\ changes \in Nat /\ changes' = n
  BY DEF Mutates, Inv, CoreSound, PostgresSound
<1>3. PICK i : i = [status |-> "committed", target |-> target, at |-> n]
  OBVIOUS
<1>4. target \in Targets /\ (target # "rollback" => target \in {"enabled", "disabled"})
         /\ (target = "rollback" => account = to)
  BY DEF Mutates, Dispositions, Targets
<1>5. i \in Intent /\ i.status = "committed" /\ i.target = target /\ i.at = n
  BY <1>3, <1>4 DEF Intent
<1>6. intent' = [intent EXCEPT ![x] = i]
  BY <1>2, <1>3 DEF Mutates
<1>7. \A y \in Transitions : intent'[y] = IF y = x THEN i ELSE intent[y]
  BY <1>6 DEF Inv, CoreSound, PostgresSound
<1>8. intent' \in [Transitions -> Intent]
  BY <1>5, <1>6 DEF Inv, CoreSound, PostgresSound
<1>9. disables \in Nat /\ disables' \in Nat /\ (target = "rollback" => disables' = disables)
  BY <1>4 DEF Mutates, Inv, CoreSound, PostgresSound
<1>10. \A y \in Transitions : IntentSound(y)'
  BY <1>2, <1>4, <1>5, <1>7 DEF Inv, CoreSound, PostgresSound, IntentSound, Intent
<1>11. PostgresSound'
  BY <1>1, <1>2, <1>8, <1>9, <1>10 DEF Inv, CoreSound, PostgresSound
<1>12. RedisSound' /\ EveryBlockIsQueued' /\ StoresAgree' /\ UnbegunSound'
  BY <1>1 DEF Inv, CoreSound, RedisSound, EveryBlockIsQueued, StoresAgree, UnbegunSound
<1>13. Standing = journal.previous /\ journal.previous.id # x /\ record.state = "blocking" /\ record.id = x
  BY <1>1 DEF Standing, Revocable, Inv, CoreSound, PostgresSound, IntentSound, RedisSound,
              EveryBlockIsQueued
<1>14. Standing' = IF target = "rollback" THEN journal.previous ELSE record
  BY <1>1, <1>4, <1>5, <1>7 DEF Standing, Revocable, Targets
<1>15. StandingSound'
  <2>1. CASE target = "rollback"
    <3>1. account' = account /\ Standing' = Standing /\ seeding' = seeding
      BY <1>1, <1>4, <1>13, <1>14, <2>1
    <3>2. ASSUME NEW y \in Transitions, Standing = Enabled(y) PROVE intent'[y] = intent[y]
      BY <1>7, <1>13, <3>2 DEF Enabled
    <3> QED
      BY <1>1, <3>1, <3>2 DEF Inv, CoreSound, StandingSound
  <2>2. CASE target # "rollback"
    BY <1>13, <1>14, <2>2 DEF StandingSound, Enabled
  <2> QED
    BY <2>1, <2>2
<1>16. CoreSound'
  BY <1>1, <1>11, <1>12, <1>15 DEF Inv, CoreSound
<1>17. ASSUME NEW g \in Ids \cup {NoId}, Dead(g) PROVE Dead(g)'
  BY <1>1, <1>13, <1>14, <1>17 DEF Dead, Opened
<1>18. ASSUME NEW g \in Ids \cup {NoId}, Standing = Enabled(g), target # "rollback" PROVE Dead(g)'
  <2>1. g # x /\ Standing'.id # g /\ Standing'.state # "absent"
    BY <1>13, <1>14, <1>18 DEF Enabled
  <2>2. g \notin Unbegun
    BY <1>13, <1>18 DEF Inv, CoreSound, UnbegunSound, Enabled
  <2> QED
    BY <1>1, <2>1, <2>2 DEF Dead
<1>19. DeathsLast /\ LivesOn
  BY <1>9, <1>13, <1>14, <1>17, <1>18 DEF DeathsLast, LivesOn
<1>20. AgentsGoOn
  BY <1>1, <1>7 DEF AgentsGoOn, Mutating, Repairable
<1>21. ASSUME NEW y \in Transitions \ {x} PROVE RunGoesOn(y)
  BY <1>1, <1>7 DEF RunGoesOn, Inv, RunSound, Mutating
<1> QED
  BY <1>16, <1>19, <1>20, <1>21 DEF Onward

\* Changes that are not of the account, and their publication.
Publishes ==
    /\ changes' \in Nat /\ published' \in Nat
    /\ changes <= changes' /\ published <= published' /\ published' <= changes'
    /\ UNCHANGED <<account, intent, redis, late, seeding, disables>>
    /\ Unbegun' = Unbegun

LEMMA PublishesOn ==
    ASSUME Inv, Publishes
    PROVE  Onward /\ \A y \in Transitions : RunGoesOn(y)
<1>1. UNCHANGED <<account, intent, late, seeding, disables, record, journal, recoverAt, repairAt>>
         /\ Unbegun' = Unbegun /\ Standing' = Standing
  BY DEF Publishes, redis, Standing, Revocable
<1>2. /\ changes' \in Nat /\ published' \in Nat /\ changes \in Nat /\ published \in Nat
      /\ changes <= changes' /\ published <= published' /\ published' <= changes'
      /\ \A x \in Transitions : intent[x].at \in Nat
  BY DEF Publishes, Inv, CoreSound, PostgresSound, Intent
<1>3. PostgresSound'
  BY <1>1, <1>2 DEF Inv, CoreSound, PostgresSound, IntentSound
<1>4. RedisSound' /\ EveryBlockIsQueued' /\ StoresAgree' /\ UnbegunSound'
  BY <1>1 DEF Inv, CoreSound, RedisSound, EveryBlockIsQueued, StoresAgree, UnbegunSound
<1>5. StandingSound'
  BY <1>1, <1>2 DEF Inv, CoreSound, StandingSound
<1>6. CoreSound'
  BY <1>1, <1>3, <1>4, <1>5 DEF Inv, CoreSound
<1>7. DeathsLast /\ LivesOn
  BY <1>1, StandingKept DEF Opened
<1>8. AgentsGoOn
  BY <1>1, <1>2 DEF AgentsGoOn, Mutating, Repairable
<1>9. ASSUME NEW y \in Transitions PROVE RunGoesOn(y)
  BY <1>1 DEF RunGoesOn, Inv, RunSound, Mutating
<1> QED
  BY <1>6, <1>7, <1>8, <1>9 DEF Onward
\* A run writes its intent.
Creates(x) ==
    /\ intent[x].status = "absent"
    /\ intent' = [intent EXCEPT ![x] = [intent[x] EXCEPT !.status = "pending"]]
    /\ UNCHANGED <<account, changes, published, redis, late, seeding, disables>>
    /\ Unbegun' = Unbegun

LEMMA CreatesOn ==
    ASSUME Inv, NEW x \in Transitions, Creates(x)
    PROVE  Onward /\ \A y \in Transitions \ {x} : RunGoesOn(y)
<1>1. UNCHANGED <<account, changes, published, seeding, disables, record, journal, recoverAt,
                  repairAt, late>> /\ Unbegun' = Unbegun
  BY DEF Creates, redis
<1>2. intent[x] \in Intent /\ IntentSound(x) /\ intent[x].status = "absent"
  BY DEF Creates, Inv, CoreSound, PostgresSound
<1>3. PICK i \in Intent : i = [intent[x] EXCEPT !.status = "pending"]
  BY <1>2 DEF Intent
<1>4. i.status = "pending" /\ i.target = "none" /\ i.at = intent[x].at /\ intent[x].target = "none"
  BY <1>2, <1>3 DEF Intent, IntentSound
<1>5. \A y \in Transitions : intent'[y] = IF y = x THEN i ELSE intent[y]
  BY <1>3 DEF Creates, Inv, CoreSound, PostgresSound
<1>6. intent' \in [Transitions -> Intent]
  BY <1>3 DEF Creates, Inv, CoreSound, PostgresSound
<1>7. PostgresSound'
  BY <1>1, <1>2, <1>4, <1>5, <1>6 DEF Inv, CoreSound, PostgresSound, IntentSound
<1>8. RedisSound' /\ EveryBlockIsQueued' /\ UnbegunSound'
  BY <1>1 DEF Inv, CoreSound, RedisSound, EveryBlockIsQueued, UnbegunSound
<1>9. StoresAgree'
  BY <1>1, <1>2, <1>4, <1>5 DEF Inv, CoreSound, StoresAgree
<1>10. journal.status = "mutating" => journal.id \in Transitions
  BY DEF Inv, CoreSound, RedisSound
<1>11. Standing' = Standing
  BY <1>1, <1>4, <1>5, <1>10 DEF Standing, Revocable
<1>12. StandingSound'
  BY <1>1, <1>4, <1>5, <1>11 DEF Inv, CoreSound, StandingSound
<1>13. CoreSound'
  BY <1>1, <1>7, <1>8, <1>9, <1>12 DEF Inv, CoreSound
<1>14. DeathsLast /\ LivesOn
  BY <1>1, <1>11, StandingKept DEF Opened
<1>15. published \in Nat
  BY DEF Inv, CoreSound, PostgresSound
<1>16. AgentsGoOn
  BY <1>1, <1>2, <1>5, <1>15 DEF AgentsGoOn, Mutating, Repairable
<1>17. ASSUME NEW y \in Transitions \ {x} PROVE RunGoesOn(y)
  BY <1>1, <1>5 DEF RunGoesOn, Inv, RunSound, Mutating
<1> QED
  BY <1>13, <1>14, <1>16, <1>17 DEF Onward

\* A bootstrap reads the account, or finds that there is a record already.
Reads ==
    /\ seeding' = "none" \/ (seeding' = account /\ account # "absent")
    /\ UNCHANGED <<account, changes, published, intent, redis, late, disables>>
    /\ Unbegun' = Unbegun

LEMMA ReadsOn ==
    ASSUME Inv, Reads
    PROVE  Onward /\ \A y \in Transitions : RunGoesOn(y)
<1>1. UNCHANGED <<account, changes, published, intent, late, disables, record, journal,
                  recoverAt, repairAt>> /\ Unbegun' = Unbegun /\ Standing' = Standing
  BY DEF Reads, redis, Standing, Revocable
<1>2. seeding' \in {"none", "enabled", "disabled"} /\ (seeding' # "none" => seeding' = account)
  BY DEF Reads, Inv, CoreSound, PostgresSound
<1>3. PostgresSound'
  BY <1>1 DEF Inv, CoreSound, PostgresSound, IntentSound
<1>4. RedisSound' /\ EveryBlockIsQueued' /\ StoresAgree' /\ UnbegunSound'
  BY <1>1 DEF Inv, CoreSound, RedisSound, EveryBlockIsQueued, StoresAgree, UnbegunSound
<1>5. StandingSound'
  BY <1>1, <1>2 DEF Inv, CoreSound, StandingSound
<1>6. CoreSound'
  BY <1>2, <1>3, <1>4, <1>5 DEF CoreSound
<1>7. DeathsLast /\ LivesOn
  BY <1>1, StandingKept DEF Opened
<1>8. published \in Nat
  BY DEF Inv, CoreSound, PostgresSound
<1>9. AgentsGoOn
  BY <1>1, <1>8 DEF AgentsGoOn, Mutating, Repairable
<1>10. ASSUME NEW y \in Transitions PROVE RunGoesOn(y)
  BY <1>1 DEF RunGoesOn, Inv, RunSound, Mutating
<1> QED
  BY <1>6, <1>7, <1>9, <1>10 DEF Onward

\* What was read of the account becomes the record that was missing: no run
\* changed the status in between, because it would have left a record.
Seeds ==
    /\ seeding # "none" /\ record = Absent
    /\ record' = [state |-> seeding, id |-> Seed] /\ seeding' = "none"
    /\ UNCHANGED <<account, changes, published, intent, journal, recoverAt, repairAt, late, disables>>
    /\ Unbegun' = Unbegun

LEMMA SeedsOn ==
    ASSUME Inv, Seeds
    PROVE  Onward /\ \A y \in Transitions : RunGoesOn(y)
<1>1. /\ UNCHANGED <<account, changes, published, intent, late, disables, journal, recoverAt, repairAt>>
      /\ Unbegun' = Unbegun /\ seeding' = "none"
      /\ seeding \in {"enabled", "disabled"}
      /\ record' = [state |-> seeding, id |-> Seed]
      /\ record.state = "absent" /\ record.id = NoId
  BY DEF Seeds, Absent, Inv, CoreSound
<1>2. Standing = record /\ ~Opened
  BY <1>1, EnabledStands DEF Inv, CoreSound, EveryBlockIsQueued, Opened
<1>3. Standing' = record'
  BY <1>1, <1>2 DEF Standing, Opened
<1>4. PostgresSound'
  BY <1>1 DEF Inv, CoreSound, PostgresSound, IntentSound
<1>5. RedisSound'
  BY <1>1 DEF Inv, CoreSound, RedisSound, Record, Ids
<1>6. EveryBlockIsQueued' /\ StoresAgree'
  BY <1>1, <1>2 DEF Inv, CoreSound, EveryBlockIsQueued, StoresAgree, Opened
<1>7. StandingSound'
  BY <1>1, <1>2, <1>3, AccessAssumption DEF Inv, CoreSound, StandingSound, Enabled
<1>8. UnbegunSound'
  BY <1>1, AccessAssumption DEF Inv, CoreSound, UnbegunSound, Unbegun
<1>9. CoreSound'
  BY <1>1, <1>4, <1>5, <1>6, <1>7, <1>8 DEF CoreSound
<1>10. DeathsLast
  BY <1>1, <1>2, <1>3, AccessAssumption DEF DeathsLast, Dead, Opened
<1>11. LivesOn
  BY <1>1, <1>2 DEF LivesOn, Enabled
<1>12. published \in Nat
  BY DEF Inv, CoreSound, PostgresSound
<1>13. AgentsGoOn
  BY <1>1, <1>12 DEF AgentsGoOn, Mutating, Repairable
<1>14. ASSUME NEW y \in Transitions PROVE RunGoesOn(y)
  BY <1>1 DEF RunGoesOn, Inv, RunSound, Mutating
<1> QED
  BY <1>9, <1>10, <1>11, <1>13, <1>14 DEF Onward
-----------------------------------------------------------------------------
(* The steps of a run.                                                     *)

RunPc == {"new", "begin", "rejected", "uncertain", "abort", "mutate", "undo", "restore",
          "prepare", "finalize", "revoke", "done"}

\* The steps after which the transition may still be given up.
Early == {"begin", "rejected", "uncertain", "abort", "mutate", "undo"}

LEMMA RunMoves ==
    ASSUME Inv, NEW x \in Transitions, NEW r \in Run, run' = [run EXCEPT ![x] = r]
    PROVE  /\ run' \in [Transitions -> Run] /\ run'[x] = r
           /\ \A y \in Transitions \ {x} : run'[y] = run[y]
           /\ late' \subseteq late /\ r.pc \notin {"new", "begin"} =>
                 Unbegun' \subseteq Unbegun /\ (x \notin late => x \notin Unbegun')
<1>1. run \in [Transitions -> Run]
  BY DEF Inv
<1>2. /\ run' \in [Transitions -> Run] /\ run'[x] = r
      /\ \A y \in Transitions \ {x} : run'[y] = run[y]
  BY <1>1
<1> QED
  BY <1>2 DEF Unbegun

LEMMA RunGoes ==
    ASSUME Inv, NEW x \in Transitions, NEW pc \in RunPc, Goes(x, pc)
    PROVE  \E r \in Run : /\ r.pc = pc /\ r.target = run[x].target /\ r.previous = run[x].previous
                          /\ run' = [run EXCEPT ![x] = r]
<1>1. run[x] \in Run
  BY DEF Inv
<1>2. PICK r : r = [run[x] EXCEPT !.pc = pc]
  OBVIOUS
<1>3. /\ r \in Run
      /\ r.pc = pc /\ r.target = run[x].target /\ r.previous = run[x].previous
  BY <1>1, <1>2 DEF Run, RunPc
<1>4. run' = [run EXCEPT ![x] = r]
  BY <1>2 DEF Goes
<1> QED
  BY <1>3, <1>4

LEMMA RunActs ==
    ASSUME Inv, Onward, NEW x \in Transitions, NEW r \in Run, run' = [run EXCEPT ![x] = r],
           \A y \in Transitions \ {x} : RunGoesOn(y),
           RunSound(x)', UNCHANGED <<agent, session>>, Counted'
    PROVE  Inv'
<1>1. /\ run' \in [Transitions -> Run] /\ \A y \in Transitions \ {x} : run'[y] = run[y]
  BY RunMoves
<1>2. \A y \in Transitions : RunSound(y)'
  BY <1>1, RunKept
<1>3. \A a \in Agents : AgentSound(a)'
  BY AgentKept
<1>4. \A s \in Sessions : SessionSound(s)'
  BY SessionKept DEF Inv
<1> QED
  BY <1>1, <1>2, <1>3, <1>4 DEF Onward, Inv

\* A run that moves on without a mutation stays entitled.
LEMMA RunPasses ==
    ASSUME Inv, Onward, NEW x \in Transitions, NEW r \in Run, run' = [run EXCEPT ![x] = r],
           r.target = run[x].target, r.previous = run[x].previous, RunGoesOn(x),
           run[x].pc # "new", r.pc \notin {"new", "mutate"},
           r.pc \in Early => run[x].pc \in Early,
           r.pc = "restore" => intent'[x].target = "rollback",
           r.pc \in {"prepare", "finalize"} => run[x].pc = "prepare",
           r.pc = "revoke" => run[x].pc = "finalize" /\ run[x].previous # NoId,
           x \in late => r.pc \in {"uncertain", "abort", "done"}
    PROVE  RunSound(x)'
<1>1. run'[x] = r /\ RunSound(x)
  BY RunMoves DEF Inv
<1>2. r.previous \in Ids \cup {NoId}
  BY DEF Run
<1>3. Dead(r.previous) => Dead(r.previous)'
  BY <1>2 DEF Onward, DeathsLast
<1>4. run[x].pc \in {"prepare", "finalize", "revoke"} /\ r.previous # NoId => Dead(r.previous)
  BY <1>1 DEF RunSound
<1>5. r.pc \in {"prepare", "finalize", "revoke"} /\ r.previous # NoId => Dead(r.previous)'
  BY <1>3, <1>4
<1>6. PICK p : p = r.previous /\ p = run'[x].previous
  BY <1>1
<1>7. r.pc \in {"prepare", "finalize", "revoke"} /\ p # NoId => Dead(p)'
  BY <1>5, <1>6 DEF Dead
<1>8. run'[x].pc \in {"prepare", "finalize", "revoke"} /\ run'[x].previous # NoId
         => Dead(run[x].previous)'
  BY <1>1, <1>6, <1>7 DEF Dead
<1>9. /\ (run'[x].pc = "new") <=> (intent'[x].status = "absent")
      /\ run'[x].pc \in Early => intent'[x].status \in {"pending", "rolled_back"}
  BY <1>1 DEF RunSound, RunGoesOn, Early
<1>10. run'[x].pc \in {"prepare", "finalize"} =>
          /\ intent'[x].status = "committed" /\ intent'[x].target = run'[x].target
          /\ run'[x].target \in {"enabled", "disabled"}
  BY <1>1 DEF RunSound, RunGoesOn
<1>11. x \in late' => run'[x].pc \in {"uncertain", "abort", "done"}
                     /\ intent'[x].status \in {"pending", "rolled_back"}
  BY <1>1 DEF RunSound, RunGoesOn
<1> QED
  BY <1>1, <1>8, <1>9, <1>10, <1>11 DEF RunSound, Early
LEMMA GoesAside ==
    ASSUME Inv, NEW x \in Transitions, NEW pc \in RunPc \ {"new", "begin"}, Goes(x, pc),
           UNCHANGED <<postgres, seeding, disables, late>>
    PROVE  Aside /\ late' \subseteq late
<1>1. late' = late /\ late \subseteq Transitions
  BY DEF Inv, CoreSound, UnbegunSound
<1>2. Unbegun' \subseteq Unbegun
  BY <1>1, RunGoes, RunMoves
<1> QED
  BY <1>1, <1>2 DEF Aside, postgres

LEMMA GoesOn ==
    ASSUME Inv, Onward, NEW x \in Transitions, NEW pc \in RunPc \ {"new", "mutate"}, Goes(x, pc),
           \A y \in Transitions : RunGoesOn(y),
           run[x].pc # "new",
           pc \in Early => run[x].pc \in Early,
           pc = "restore" => intent'[x].target = "rollback",
           pc \in {"prepare", "finalize"} => run[x].pc = "prepare",
           pc = "revoke" => run[x].pc = "finalize" /\ run[x].previous # NoId,
           x \in late => pc \in {"uncertain", "abort", "done"},
           UNCHANGED <<agent, session>>, Counted'
    PROVE  Inv'
<1>1. PICK r \in Run : /\ r.pc = pc /\ r.target = run[x].target /\ r.previous = run[x].previous
                       /\ run' = [run EXCEPT ![x] = r]
  BY RunGoes
<1>2. RunSound(x)'
  BY <1>1, RunPasses
<1> QED
  BY <1>1, <1>2, RunActs

\* Nothing but the run itself changes.
LEMMA RestingGoesOn ==
    ASSUME Inv, NEW x \in Transitions, NEW pc \in RunPc \ {"new", "mutate", "begin", "restore"},
           Goes(x, pc),
           UNCHANGED <<postgres, redis, late, agent, session, seeding, others, disables>>,
           faults' \in 0..MaxFaults,
           run[x].pc # "new",
           pc \in Early => run[x].pc \in Early,
           pc \in {"prepare", "finalize"} => run[x].pc = "prepare",
           pc = "revoke" => run[x].pc = "finalize" /\ run[x].previous # NoId,
           x \in late => pc \in {"uncertain", "abort", "done"}
    PROVE  Inv'
<1>1. Aside /\ late' \subseteq late
  BY GoesAside
<1>2. Rests
  BY <1>1 DEF Rests, redis, Inv, CoreSound, RedisSound
<1>3. Onward /\ \A y \in Transitions : RunGoesOn(y)
  BY <1>1, <1>2, RestsOn
<1>4. Counted'
  BY DEF Inv, Counted
<1> QED
  BY <1>3, <1>4, GoesOn

LEMMA FaultCounts == Inv /\ Fault => faults' \in 0..MaxFaults
BY AccessAssumption DEF Inv, Counted, Fault

LEMMA LateRun ==
    ASSUME Inv, NEW x \in late
    PROVE  x \in Transitions /\ run[x].pc \in {"uncertain", "abort", "done"}
BY DEF Inv, CoreSound, UnbegunSound, RunSound

LEMMA CreateIntentStep == ASSUME Inv, NEW x \in Transitions, CreateIntent(x) PROVE Inv'
<1>1. run[x].pc = "new" /\ RunSound(x) /\ intent[x].status = "absent"
  BY DEF CreateIntent, Inv, RunSound
<1>2. PICK r \in Run : /\ r.pc = "begin" /\ r.target = run[x].target /\ r.previous = run[x].previous
                       /\ run' = [run EXCEPT ![x] = r]
  BY RunGoes DEF CreateIntent, RunPc
<1>3. /\ run'[x] = r /\ \A y \in Transitions \ {x} : run'[y] = run[y]
  BY <1>2, RunMoves
<1>4. late' = late
  BY DEF CreateIntent
<1>5. Unbegun' = Unbegun
  BY <1>1, <1>2, <1>3, <1>4 DEF Unbegun
<1>6. Creates(x)
  BY <1>1, <1>5 DEF CreateIntent, Creates
<1>7. Onward /\ \A y \in Transitions \ {x} : RunGoesOn(y)
  BY <1>6, CreatesOn
<1>8. intent'[x].status = "pending"
  BY DEF CreateIntent, Inv, CoreSound, PostgresSound, Intent
<1>9. x \notin late
  BY <1>1, LateRun
<1>10. RunSound(x)'
  BY <1>2, <1>3, <1>4, <1>8, <1>9 DEF RunSound
<1>11. Counted'
  BY DEF CreateIntent, Inv, Counted
<1> QED
  BY <1>2, <1>7, <1>10, <1>11, RunActs DEF CreateIntent

LEMMA BeginStep == ASSUME Inv, NEW x \in Transitions, Begin(x) PROVE Inv'
<1>1. run[x].pc = "begin" /\ RunSound(x) /\ run[x] \in Run /\ x \notin late /\ late' = late
  BY LateRun DEF Begin, Inv
<1>2. record \in Record /\ record.id \in Ids \cup {NoId}
  BY DEF Inv, CoreSound, RedisSound, Record
<1>3. PICK r \in Run : r = [run[x] EXCEPT !.pc = "mutate", !.previous = record.id]
  BY <1>1, <1>2 DEF Run
<1>4. r.pc = "mutate" /\ r.previous = record.id /\ run' = [run EXCEPT ![x] = r]
  BY <1>1, <1>3 DEF Begin, Run
<1>5. run'[x] = r /\ x \notin Unbegun' /\ Unbegun' \subseteq Unbegun
  BY <1>1, <1>4, RunMoves
<1>6. Begins(x)
  BY <1>1, <1>5 DEF Begin, Begins, Aside, Unbegun, postgres, Inv, CoreSound, UnbegunSound
<1>7. Onward /\ \A y \in Transitions \ {x} : RunGoesOn(y)
  BY <1>1, <1>6, BeginsOn
<1>8. Mutating(x)' /\ journal'.previous.id = r.previous
  BY <1>4 DEF Begin, BeginBlocking, Mutating
<1>9. RunSound(x)'
  BY <1>1, <1>4, <1>5, <1>8 DEF RunSound, Begin, postgres
<1>10. Counted'
  BY DEF Begin, Inv, Counted
<1> QED
  BY <1>4, <1>7, <1>9, <1>10, RunActs DEF Begin

LEMMA BeginConflictsStep == ASSUME Inv, NEW x \in Transitions, BeginConflicts(x) PROVE Inv'
<1>1. x \notin late /\ faults' \in 0..MaxFaults
  BY LateRun DEF BeginConflicts, Inv, Counted
<1> QED
  BY <1>1, RestingGoesOn DEF BeginConflicts, RunPc, Early

LEMMA BeginFailsStep == ASSUME Inv, NEW x \in Transitions, BeginFails(x) PROVE Inv'
<1>1. /\ run[x].pc = "begin" /\ RunSound(x) /\ x \notin late /\ late \subseteq Transitions
      /\ faults' \in 0..MaxFaults
  BY LateRun, FaultCounts DEF BeginFails, Inv, CoreSound, UnbegunSound
<1>2. PICK r \in Run : /\ r.pc = "uncertain" /\ r.target = run[x].target
                       /\ r.previous = run[x].previous /\ run' = [run EXCEPT ![x] = r]
  BY RunGoes DEF BeginFails, RunPc
<1>3. run'[x] = r /\ \A y \in Transitions \ {x} : run'[y] = run[y]
  BY <1>2, RunMoves
<1>4. Counted'
  BY <1>1 DEF BeginFails, Inv, Counted
<1>5. RunSound(x)'
  BY <1>1, <1>2, <1>3 DEF BeginFails, RunSound, postgres
<1>6. CASE BeginBlocking(x) /\ UNCHANGED late
  <2>1. Unbegun' \subseteq Unbegun /\ x \notin Unbegun' /\ x \in Unbegun
    BY <1>1, <1>2, <1>6, RunMoves DEF Unbegun
  <2>2. Begins(x)
    BY <1>1, <1>6, <2>1 DEF BeginFails, Begins, Aside, postgres
  <2>3. Onward /\ \A y \in Transitions \ {x} : RunGoesOn(y)
    BY <1>6, <2>2, BeginsOn
  <2> QED
    BY <1>2, <1>4, <1>5, <2>3, RunActs DEF BeginFails
<1>7. CASE UNCHANGED redis /\ late' \in {late, late \cup {x}}
  <2>1. Unbegun' \subseteq Unbegun
    BY <1>1, <1>2, <1>3, <1>7 DEF Unbegun
  <2>2. Rests
    BY <1>1, <1>7, <2>1 DEF BeginFails, Rests, Aside, postgres, redis, Inv, CoreSound, RedisSound
  <2>3. Onward /\ \A y \in Transitions \ {x} : RunGoesOn(y)
    BY <1>7, <2>2, RestsOn
  <2> QED
    BY <1>2, <1>4, <1>5, <2>3, RunActs DEF BeginFails
<1> QED
  BY <1>6, <1>7 DEF BeginFails
\* What is given up is pending, and stays what it was otherwise.
LEMMA GivenUpTarget ==
    ASSUME Inv, NEW x \in Transitions, intent[x].status \in {"pending", "rolled_back"}
    PROVE  GivenUp(x)[x].target = "rollback" /\ GivenUp(x)[x].status = "rolled_back"
<1>1. intent[x] \in Intent /\ IntentSound(x) /\ intent \in [Transitions -> Intent]
  BY DEF Inv, CoreSound, PostgresSound
<1> QED
  BY <1>1 DEF GivenUp, IntentSound, Intent

LEMMA GiveUpIntentStep == ASSUME Inv, NEW x \in Transitions, GiveUpIntent(x) PROVE Inv'
<1>1. /\ run[x].pc \in {"rejected", "uncertain"}
      /\ x \in late => run[x].pc = "uncertain"
  BY LateRun DEF GiveUpIntent
<1>2. CASE intent' = GivenUp(x) /\ UNCHANGED faults
  <2>1. PICK pc \in RunPc \ {"new", "begin", "mutate"} :
          /\ pc = IF run[x].pc = "rejected" THEN "done" ELSE "abort"
          /\ Goes(x, pc)
    BY DEF GiveUpIntent, RunPc
  <2>2. PICK r \in Run : /\ r.pc = pc /\ r.target = run[x].target
                         /\ r.previous = run[x].previous /\ run' = [run EXCEPT ![x] = r]
    BY <2>1, RunGoes
  <2>3. /\ run'[x] = r /\ \A y \in Transitions \ {x} : run'[y] = run[y]
    BY <2>2, RunMoves
  <2>4. Unbegun' = Unbegun
    BY <1>1, <2>1, <2>2, <2>3 DEF Unbegun, GiveUpIntent
  <2>5. GivesUp(x)
    BY <1>2, <2>4 DEF GivesUp, GiveUpIntent
  <2>6. Onward /\ \A y \in Transitions : RunGoesOn(y)
    BY <2>5, GivesUpOn
  <2>7. Counted'
    BY <1>2 DEF Inv, Counted, GiveUpIntent
  <2> QED
    BY <1>1, <2>1, <2>6, <2>7, GoesOn DEF GiveUpIntent, Early
<1>3. CASE Fault /\ UNCHANGED intent
  <2>1. faults' \in 0..MaxFaults
    BY <1>3, FaultCounts
  <2>2. CASE run[x].pc = "rejected"
    BY <1>1, <1>3, <2>1, <2>2, RestingGoesOn DEF GiveUpIntent, RunPc, Early, postgres
  <2>3. CASE run[x].pc = "uncertain"
    BY <1>1, <1>3, <2>1, <2>3, RestingGoesOn DEF GiveUpIntent, RunPc, Early, postgres
  <2> QED
    BY <1>1, <2>2, <2>3
<1> QED
  BY <1>2, <1>3 DEF GiveUpIntent

LEMMA AbortBeginStep == ASSUME Inv, NEW x \in Transitions, AbortBegin(x) PROVE Inv'
<1>1. run[x].pc = "abort" /\ RunSound(x) /\ IntentSound(x)
  BY DEF AbortBegin, Inv, CoreSound, PostgresSound
<1>2. Revocable(x) /\ Parted(x)
  BY <1>1 DEF RunSound, IntentSound, Revocable, Parted
<1>3. CASE Mutating(x)
  <2>1. Aside /\ late' \subseteq late
    BY GoesAside DEF AbortBegin, RunPc
  <2>2. Restores(x)
    BY <1>2, <1>3, <2>1 DEF AbortBegin, Restores
  <2>3. Onward /\ \A y \in Transitions : RunGoesOn(y)
    BY <2>2, RestoresOn
  <2>4. Counted'
    BY DEF AbortBegin, Inv, Counted
  <2> QED
    BY <1>1, <2>3, <2>4, GoesOn DEF AbortBegin, RunPc, Early
<1>4. CASE ~Mutating(x)
  <2>1. faults' \in 0..MaxFaults
    BY DEF AbortBegin, Inv, Counted
  <2> QED
    BY <1>1, <1>4, <2>1, RestingGoesOn DEF AbortBegin, RunPc, Early
<1> QED
  BY <1>3, <1>4

\* From here on the generation of the record that stood is dead.
LEMMA MutateKills ==
    ASSUME Inv, NEW x \in Transitions, NEW to, NEW target, Mutates(x, to, target),
           target # "rollback", NEW p, p = journal.previous.id
    PROVE  Dead(p)'
<1>1. /\ journal.status = "mutating" /\ journal.id = x /\ record' = record /\ journal' = journal
      /\ Unbegun' \subseteq Unbegun
  BY DEF Mutates, redis, Mutating
<1>2. record.state = "blocking" /\ record.id = x /\ p # x /\ p \notin Unbegun
  BY <1>1 DEF Inv, CoreSound, RedisSound, EveryBlockIsQueued, UnbegunSound
<1>3. intent'[x].target = target
  BY DEF Mutates, Inv, CoreSound, PostgresSound
<1>4. target # "none"
  BY DEF Mutates, Dispositions
<1>5. Standing' = record
  BY <1>1, <1>3, <1>4 DEF Standing, Revocable
<1> QED
  BY <1>1, <1>2, <1>5 DEF Dead, Opened

LEMMA MutateStep == ASSUME Inv, NEW x \in Transitions, Mutate(x) PROVE Inv'
<1>1. PICK to, target :
         /\ to \in {"enabled", "disabled"} /\ target \in Dispositions(to)
         /\ account' = to
         /\ changes' = changes + 1
         /\ disables' = IF to = "disabled" /\ account # to THEN disables + 1 ELSE disables
         /\ intent' = [intent EXCEPT ![x] = [status |-> "committed", target |-> target,
                                             at |-> changes + 1]]
         /\ \/ /\ run' = [run EXCEPT ![x] = [@ EXCEPT !.pc = AfterCommit(target),
                                                      !.target = target]]
               /\ UNCHANGED faults
            \/ Fault /\ Goes(x, "done")
  BY DEF Mutate
<1>2. /\ run[x].pc = "mutate" /\ intent[x].status = "pending" /\ RunSound(x) /\ run[x] \in Run
      /\ x \notin late /\ Mutating(x) /\ journal.previous.id = run[x].previous
  BY LateRun DEF Mutate, Inv, RunSound
<1>3. target \in {"rollback", "enabled", "disabled"}
  BY <1>1 DEF Dispositions
<1>4. PICK r \in Run :
         /\ run' = [run EXCEPT ![x] = r] /\ r.previous = run[x].previous
         /\ \/ r.pc = AfterCommit(target) /\ r.target = target
            \/ r.pc = "done"
  <2>1. CASE run' = [run EXCEPT ![x] = [@ EXCEPT !.pc = AfterCommit(target), !.target = target]]
    <3>1. PICK r : r = [run[x] EXCEPT !.pc = AfterCommit(target), !.target = target]
      OBVIOUS
    <3>2. r \in Run /\ r.previous = run[x].previous /\ r.pc = AfterCommit(target) /\ r.target = target
      BY <1>2, <1>3, <3>1 DEF Run, AfterCommit, Targets
    <3>3. run' = [run EXCEPT ![x] = r]
      BY <2>1, <3>1
    <3> QED
      BY <3>2, <3>3
  <2>2. CASE Goes(x, "done")
    BY <2>2, RunGoes DEF RunPc
  <2> QED
    BY <1>1, <2>1, <2>2
<1>5. r.pc \in {"restore", "prepare", "done"}
  BY <1>4 DEF AfterCommit
<1>6. run'[x] = r /\ Unbegun' \subseteq Unbegun /\ late' = late
  BY <1>4, <1>5, RunMoves DEF Mutate
<1>7. Mutates(x, to, target)
  BY <1>1, <1>2, <1>6 DEF Mutate, Mutates
<1>8. Onward /\ \A y \in Transitions \ {x} : RunGoesOn(y)
  BY <1>7, MutatesOn
<1>9. intent'[x].status = "committed" /\ intent'[x].target = target
  BY <1>1 DEF Inv, CoreSound, PostgresSound
<1>10. PICK p : p = r.previous
  OBVIOUS
<1>11. target # "rollback" => Dead(p)'
  BY <1>2, <1>4, <1>7, <1>10, MutateKills
<1>12. target # "rollback" => Dead(run[x].previous)'
  BY <1>6, <1>10, <1>11 DEF Dead
<1>13. RunSound(x)'
  BY <1>2, <1>3, <1>4, <1>5, <1>6, <1>9, <1>12 DEF RunSound, AfterCommit
<1>14. Counted'
  BY <1>1, FaultCounts DEF Mutate, Inv, Counted
<1> QED
  BY <1>4, <1>8, <1>13, <1>14, RunActs DEF Mutate

LEMMA MutateRollsBackStep == ASSUME Inv, NEW x \in Transitions, MutateRollsBack(x) PROVE Inv'
<1>1. x \notin late /\ faults' \in 0..MaxFaults
  BY LateRun DEF MutateRollsBack, Inv, Counted
<1> QED
  BY <1>1, RestingGoesOn DEF MutateRollsBack, RunPc, Early

LEMMA UndoIntentStep == ASSUME Inv, NEW x \in Transitions, UndoIntent(x) PROVE Inv'
<1>1. run[x].pc = "undo" /\ x \notin late /\ RunSound(x)
  BY LateRun DEF UndoIntent, Inv
<1>2. Unbegun' = Unbegun
  <2>1. PICK r \in Run : r.pc = "restore" /\ run' = [run EXCEPT ![x] = r]
    BY RunGoes DEF UndoIntent, RunPc
  <2>2. run'[x] = r /\ \A y \in Transitions \ {x} : run'[y] = run[y]
    BY <2>1, RunMoves
  <2> QED
    BY <1>1, <2>1, <2>2 DEF Unbegun, UndoIntent
<1>3. GivesUp(x)
  BY <1>2 DEF GivesUp, UndoIntent
<1>4. Onward /\ \A y \in Transitions : RunGoesOn(y)
  BY <1>3, GivesUpOn
<1>5. intent'[x].target = "rollback"
  BY <1>1, GivenUpTarget DEF UndoIntent, RunSound
<1>6. Counted'
  BY DEF UndoIntent, Inv, Counted
<1> QED
  BY <1>1, <1>4, <1>5, <1>6, GoesOn DEF UndoIntent, RunPc, Early

LEMMA RestoreStep == ASSUME Inv, NEW x \in Transitions, Restore(x) PROVE Inv'
<1>1. run[x].pc = "restore" /\ Revocable(x) /\ Parted(x)
  BY DEF Restore, Inv, RunSound, Revocable, Parted
<1>2. CASE Mutating(x)
  <2>1. Aside /\ late' \subseteq late
    BY GoesAside DEF Restore, RunPc
  <2>2. Restores(x)
    BY <1>1, <1>2, <2>1 DEF Restore, Restores
  <2>3. Onward /\ \A y \in Transitions : RunGoesOn(y)
    BY <2>2, RestoresOn
  <2>4. Counted'
    BY DEF Restore, Inv, Counted
  <2> QED
    BY <1>1, <2>3, <2>4, GoesOn DEF Restore, RunPc, Early
<1>3. CASE ~Mutating(x)
  <2>1. faults' \in 0..MaxFaults
    BY DEF Restore, Inv, Counted
  <2> QED
    BY <1>1, <1>3, <2>1, RestingGoesOn DEF Restore, RunPc, Early
<1> QED
  BY <1>2, <1>3
LEMMA PrepareRepairStep == ASSUME Inv, NEW x \in Transitions, PrepareRepair(x) PROVE Inv'
<1>1. /\ run[x].pc = "prepare" /\ x \notin late
      /\ intent[x].status = "committed" /\ intent[x].target = run[x].target
      /\ run[x].target \in {"enabled", "disabled"}
  BY LateRun DEF PrepareRepair, Inv, RunSound
<1>2. PICK pc \in {"finalize", "done"} : Goes(x, pc)
  BY DEF PrepareRepair
<1>3. pc \in RunPc \ {"new", "begin", "mutate", "restore"}
  BY DEF RunPc
<1>4. CASE Mutating(x)
  <2>1. Aside /\ late' \subseteq late
    BY <1>2, <1>3, GoesAside DEF PrepareRepair
  <2>2. Prepares(x, run[x].target)
    BY <1>1, <1>4, <2>1 DEF PrepareRepair, Prepares
  <2>3. Onward /\ \A y \in Transitions : RunGoesOn(y)
    BY <2>2, PreparesOn
  <2>4. Counted'
    BY DEF PrepareRepair, Inv, Counted
  <2> QED
    BY <1>1, <1>2, <1>3, <2>3, <2>4, GoesOn DEF PrepareRepair, Early
<1>5. CASE ~Mutating(x)
  <2>1. faults' \in 0..MaxFaults
    BY DEF PrepareRepair, Inv, Counted
  <2> QED
    BY <1>1, <1>2, <1>3, <1>5, <2>1, RestingGoesOn DEF PrepareRepair, Early
<1> QED
  BY <1>4, <1>5

LEMMA FinalizeStep == ASSUME Inv, NEW x \in Transitions, Finalize(x) PROVE Inv'
<1>1. run[x].pc = "finalize" /\ x \notin late
  BY LateRun DEF Finalize
<1>2. PICK pc \in {"revoke", "done"} :
         Goes(x, pc) /\ (pc = "revoke" => run[x].previous # NoId)
  BY DEF Finalize
<1>3. pc \in RunPc \ {"new", "begin", "mutate", "restore"}
  BY DEF RunPc
<1>4. CASE Repairable(x, "disabled") /\ Finish(x, "disabled") /\ UNCHANGED faults
  <2>1. Aside /\ late' \subseteq late
    BY <1>2, <1>3, GoesAside DEF Finalize
  <2>2. Finishes(x, "disabled")
    BY <1>4, <2>1 DEF Finishes
  <2>3. Onward /\ \A y \in Transitions : RunGoesOn(y)
    BY <2>2, FinishesOn
  <2>4. Counted'
    BY <1>4 DEF Finalize, Inv, Counted
  <2> QED
    BY <1>1, <1>2, <1>3, <2>3, <2>4, GoesOn DEF Finalize, Early
<1>5. CASE UNCHANGED redis
  <2>1. faults' \in 0..MaxFaults
    BY FaultCounts DEF Finalize, Inv, Counted
  <2> QED
    BY <1>1, <1>2, <1>3, <1>5, <2>1, RestingGoesOn DEF Finalize, Early
<1> QED
  BY <1>4, <1>5 DEF Finalize

\* Revoking marks open sessions and changes nothing else of them.
LEMMA RevokedShape ==
    ASSUME Inv, NEW g, NEW s \in Sessions
    PROVE  /\ Revoked(g)[s] \in Session
           /\ Revoked(g)[s].generation = session[s].generation
           /\ Revoked(g)[s].epoch = session[s].epoch /\ Revoked(g)[s].finding = session[s].finding
           /\ (Revoked(g)[s].status = "none") <=> (session[s].status = "none")
           /\ Revoked(g)[s].status = "revoked" /\ session[s].status # "revoked" =>
                 session[s].generation = g
<1>1. session[s] \in Session
  BY DEF Inv
<1> QED
  BY <1>1 DEF Revoked, Session

LEMMA RevokeSessionsStep == ASSUME Inv, NEW x \in Transitions, RevokeSessions(x) PROVE Inv'
<1>1. run[x].pc = "revoke" /\ x \notin late
  BY LateRun DEF RevokeSessions
<1>2. PICK r \in Run : /\ r.pc = "done" /\ r.target = run[x].target /\ r.previous = run[x].previous
                       /\ run' = [run EXCEPT ![x] = r]
  BY RunGoes DEF RevokeSessions, RunPc
<1>3. Aside /\ late' \subseteq late
  BY GoesAside DEF RevokeSessions, RunPc
<1>4. Rests
  BY <1>3 DEF RevokeSessions, Rests, redis, Inv, CoreSound, RedisSound
<1>5. Onward /\ \A y \in Transitions : RunGoesOn(y)
  BY <1>3, <1>4, RestsOn
<1>6. RunSound(x)'
  BY <1>1, <1>2, <1>5, RunPasses DEF Early
<1>7. run' \in [Transitions -> Run] /\ \A y \in Transitions : RunSound(y)'
  BY <1>2, <1>5, <1>6, RunMoves, RunKept
<1>8. \A a \in Agents : AgentSound(a)'
  BY <1>5, AgentKept DEF RevokeSessions
<1>9. ASSUME NEW s \in Sessions PROVE session'[s] \in Session /\ SessionSound(s)'
  <2>1. session'[s] = Revoked(run[x].previous)[s]
    BY DEF RevokeSessions
  <2> QED
    BY <1>5, <2>1, RevokedShape, SessionKept
<1>10. session' \in [Sessions -> Session]
  BY <1>9 DEF RevokeSessions, Revoked
<1>11. Counted'
  BY DEF RevokeSessions, Inv, Counted
<1> QED
  BY <1>5, <1>7, <1>8, <1>9, <1>10, <1>11 DEF Inv, Onward, RevokeSessions

LEMMA StopRunStep == ASSUME Inv, NEW x \in Transitions, StopRun(x) PROVE Inv'
<1>1. faults' \in 0..MaxFaults
  BY FaultCounts DEF StopRun
<1> QED
  BY <1>1, RestingGoesOn DEF StopRun, RunPc, Early

LEMMA RunStepKeeps == ASSUME Inv, NEW x \in Transitions, RunStep(x) PROVE Inv'
BY CreateIntentStep, BeginStep, BeginConflictsStep, BeginFailsStep, GiveUpIntentStep,
   AbortBeginStep, MutateStep, MutateRollsBackStep, UndoIntentStep, RestoreStep,
   PrepareRepairStep, FinalizeStep, RevokeSessionsStep, StopRunStep DEF RunStep

-----------------------------------------------------------------------------
(* The steps of everyone else.                                             *)

LEMMA AgentActs ==
    ASSUME Inv, Onward, \A y \in Transitions : RunGoesOn(y),
           NEW a \in Agents, NEW r \in Agent, agent' = [agent EXCEPT ![a] = r],
           AgentSound(a)', UNCHANGED <<run, session>>, Counted'
    PROVE  Inv'
<1>1. agent' \in [Agents -> Agent] /\ \A b \in Agents \ {a} : agent'[b] = agent[b]
  BY DEF Inv
<1>2. \A b \in Agents : AgentSound(b)'
  BY <1>1, AgentKept
<1>3. \A y \in Transitions : RunSound(y)'
  BY RunKept
<1>4. \A s \in Sessions : SessionSound(s)'
  BY SessionKept DEF Inv
<1> QED
  BY <1>1, <1>2, <1>3, <1>4 DEF Onward, Inv

LEMMA AgentRests ==
    ASSUME Inv, Onward, \A y \in Transitions : RunGoesOn(y),
           NEW a \in Agents, agent' = [agent EXCEPT ![a] = IdleAgent],
           UNCHANGED <<run, session>>, Counted'
    PROVE  Inv'
<1>1. IdleAgent \in Agent /\ IdleAgent.pc = "idle"
  BY DEF IdleAgent, Agent
<1>2. PICK r \in Agent : r = IdleAgent
  BY <1>1
<1>3. agent' = [agent EXCEPT ![a] = r] /\ r.pc = "idle"
  BY <1>1, <1>2
<1>4. agent'[a] = r
  BY <1>3 DEF Inv
<1>5. AgentSound(a)'
  BY <1>3, <1>4 DEF AgentSound
<1> QED
  BY <1>3, <1>5, AgentActs

LEMMA OthersAct ==
    ASSUME Inv, Onward, \A y \in Transitions : RunGoesOn(y),
           UNCHANGED <<run, agent, session>>, Counted'
    PROVE  Inv'
<1>1. \A y \in Transitions : RunSound(y)'
  BY RunKept
<1>2. \A a \in Agents : AgentSound(a)'
  BY AgentKept
<1>3. \A s \in Sessions : SessionSound(s)'
  BY SessionKept DEF Inv
<1> QED
  BY <1>1, <1>2, <1>3 DEF Onward, Inv
LEMMA LateBeginStep == ASSUME Inv, NEW x \in Transitions, LateBegin(x) PROVE Inv'
<1>1. /\ x \in late /\ late' = late \ {x} /\ run' = run /\ run[x].pc \in {"uncertain", "abort", "done"}
      /\ late' \subseteq Transitions
  BY LateRun DEF LateBegin, Inv, CoreSound, UnbegunSound
<1>2. Unbegun' \subseteq Unbegun /\ x \in Unbegun /\ x \notin Unbegun'
  BY <1>1 DEF Unbegun
<1>3. Aside
  BY <1>1, <1>2 DEF Aside, LateBegin, postgres
<1>4. Counted'
  BY DEF LateBegin, Inv, Counted
<1>5. CASE BeginBlocking(x)
  <2>1. Begins(x)
    BY <1>2, <1>3, <1>5 DEF Begins
  <2>2. Onward /\ \A y \in Transitions \ {x} : RunGoesOn(y)
    BY <1>1, <2>1, BeginsOn
  <2>3. RunGoesOn(x)
    BY <1>1, <1>3 DEF RunGoesOn, Aside
  <2> QED
    BY <1>4, <2>2, <2>3, OthersAct DEF LateBegin
<1>6. CASE UNCHANGED redis
  <2>1. Rests
    BY <1>3, <1>6 DEF Rests, redis, Inv, CoreSound, RedisSound
  <2>2. Onward /\ \A y \in Transitions : RunGoesOn(y)
    BY <1>1, <2>1, RestsOn
  <2> QED
    BY <1>4, <2>2, OthersAct DEF LateBegin
<1> QED
  BY <1>5, <1>6 DEF LateBegin

LEMMA ReapIntentStep == ASSUME Inv, NEW x \in Transitions, ReapIntent(x) PROVE Inv'
<1>1. GivesUp(x)
  BY DEF ReapIntent, GivesUp, Unbegun
<1>2. Onward /\ \A y \in Transitions : RunGoesOn(y)
  BY <1>1, GivesUpOn
<1>3. Counted'
  BY DEF ReapIntent, Inv, Counted
<1> QED
  BY <1>2, <1>3, OthersAct DEF ReapIntent

\* Leases and times alone change.
LEMMA LeaseMoves ==
    ASSUME Inv, UNCHANGED <<postgres, record, run, late, seeding, disables>>,
           \/ journal' = journal
           \/ \E t \in Agents \cup {NoId} : journal' = [journal EXCEPT !.token = t],
           recoverAt' \in When, (recoverAt' = "out") <=> (recoverAt = "out"),
           repairAt' \in When, (repairAt' = "out") <=> (repairAt = "out")
    PROVE  Rests /\ Onward /\ \A y \in Transitions : RunGoesOn(y)
<1>1. journal \in Journal
  BY DEF Inv, CoreSound, RedisSound
<1>2. /\ journal' \in Journal /\ journal'.status = journal.status /\ journal'.id = journal.id
      /\ journal'.previous = journal.previous /\ journal'.target = journal.target
  BY <1>1 DEF Journal
<1>3. Unbegun' = Unbegun /\ late' = late /\ late \subseteq Transitions
  BY DEF Unbegun, Inv, CoreSound, UnbegunSound
<1>4. Rests
  BY <1>2, <1>3 DEF Rests, Aside, postgres
<1> QED
  BY <1>3, <1>4, RestsOn

\* A transition that began is not among those that have not.
LEMMA JournalBegun ==
    ASSUME Inv, Opened
    PROVE  journal.id \in Transitions \ Unbegun /\ record.id = journal.id
<1>1. journal.id \in Transitions /\ record.id = journal.id
  BY DEF Inv, CoreSound, RedisSound, EveryBlockIsQueued, Opened
<1> QED
  BY <1>1 DEF Inv, CoreSound, UnbegunSound

LEMMA ClaimRecoveryStep == ASSUME Inv, NEW a \in Agents, ClaimRecovery(a) PROVE Inv'
<1>1. journal.status = "mutating" /\ Opened
  BY DEF ClaimRecovery, Mutating, Opened
<1>2. Onward /\ \A y \in Transitions : RunGoesOn(y)
  BY LeaseMoves DEF ClaimRecovery, When, Inv, CoreSound, RedisSound
<1>3. PICK x \in Transitions \ Unbegun : x = journal.id
  BY <1>1, JournalBegun
<1>4. PICK r : r = [IdleAgent EXCEPT !.pc = "recovering", !.id = journal.id]
  OBVIOUS
<1>5. r \in Agent /\ r.pc = "recovering" /\ r.id = x
  BY <1>3, <1>4 DEF IdleAgent, Agent
<1>6. agent' = [agent EXCEPT ![a] = r] /\ agent'[a] = r
  BY <1>4 DEF ClaimRecovery, Inv
<1>7. x \notin Unbegun'
  BY <1>3 DEF ClaimRecovery, Unbegun
<1>8. AgentSound(a)'
  BY <1>5, <1>6, <1>7 DEF AgentSound
<1>9. Counted'
  BY DEF ClaimRecovery, Inv, Counted
<1> QED
  BY <1>2, <1>5, <1>6, <1>8, <1>9, AgentActs DEF ClaimRecovery

LEMMA ResolveRecoveryStep == ASSUME Inv, NEW a \in Agents, ResolveRecovery(a) PROVE Inv'
<1>1. PICK x \in Transitions : x = agent[a].id /\ x \notin Unbegun
  BY DEF ResolveRecovery, Inv, AgentSound
<1>2. agent[a] \in Agent /\ intent' = GivenUp(x) /\ Unbegun' = Unbegun
  BY <1>1 DEF ResolveRecovery, Resolved, Inv, Unbegun
<1>3. GivesUp(x)
  BY <1>2 DEF ResolveRecovery, GivesUp
<1>4. Onward /\ \A y \in Transitions : RunGoesOn(y)
  BY <1>3, GivesUpOn
<1>5. intent[x] \in Intent /\ intent[x].status # "absent"
  BY <1>1 DEF Unbegun, Inv, CoreSound, PostgresSound, RunSound
<1>6. intent'[x].status \in {"committed", "rolled_back"}
  BY <1>2, <1>5, GivenUpTarget DEF GivenUp, Intent
<1>7. PICK r : r = [agent[a] EXCEPT !.pc = "resolved", !.target = intent'[x].target]
  OBVIOUS
<1>8. intent'[x].target \in Targets \cup {"none"}
  BY <1>4 DEF Onward, CoreSound, PostgresSound, Intent
<1>9. r \in Agent /\ r.pc = "resolved" /\ r.id = x /\ r.target = intent'[x].target
  BY <1>1, <1>2, <1>7, <1>8 DEF Agent
<1>10. agent' = [agent EXCEPT ![a] = r] /\ agent'[a] = r
  BY <1>1, <1>2, <1>7 DEF ResolveRecovery, Inv
<1>11. AgentSound(a)'
  BY <1>1, <1>2, <1>6, <1>9, <1>10 DEF AgentSound
<1>12. Counted'
  BY DEF ResolveRecovery, Inv, Counted
<1> QED
  BY <1>4, <1>9, <1>10, <1>11, <1>12, AgentActs DEF ResolveRecovery

LEMMA ReconcileStep == ASSUME Inv, NEW a \in Agents, Reconcile(a) PROVE Inv'
<1>1. PICK x \in Transitions : /\ x = agent[a].id /\ x \notin Unbegun
                               /\ intent[x].status \in {"committed", "rolled_back"}
                               /\ agent[a].target = intent[x].target
  BY DEF Reconcile, Inv, AgentSound
<1>2. Aside /\ late' \subseteq late
  BY DEF Reconcile, Aside, postgres, Unbegun, Inv, CoreSound, UnbegunSound
<1>3. Onward /\ \A y \in Transitions : RunGoesOn(y)
  <2>1. CASE ~HoldsRecovery(a)
    <3>1. UNCHANGED redis
      BY <2>1 DEF Reconcile
    <3> QED
      BY <3>1, LeaseMoves DEF Reconcile, redis, Inv, CoreSound, RedisSound
  <2>2. CASE HoldsRecovery(a) /\ agent[a].target = "rollback"
    <3>1. Restores(x)
      BY <1>1, <1>2, <2>2 DEF Reconcile, Restores, HoldsRecovery, Revocable, Parted
    <3> QED
      BY <3>1, RestoresOn
  <2>3. CASE HoldsRecovery(a) /\ agent[a].target # "rollback"
    <3>1. IntentSound(x)
      BY DEF Inv, CoreSound, PostgresSound
    <3>2. PICK target : target = intent[x].target
      OBVIOUS
    <3>3. intent[x].status = "committed" /\ target \in {"enabled", "disabled"}
      BY <1>1, <2>3, <3>1, <3>2 DEF IntentSound, Intent, Targets
    <3>4. Prepares(x, target)
      BY <1>1, <1>2, <2>3, <3>2, <3>3 DEF Reconcile, Prepares, HoldsRecovery
    <3> QED
      BY <3>4, PreparesOn
  <2> QED
    BY <2>1, <2>2, <2>3
<1>4. Counted'
  BY DEF Reconcile, Inv, Counted
<1> QED
  BY <1>3, <1>4, AgentRests DEF Reconcile

LEMMA FailsStep ==
    ASSUME Inv, NEW a \in Agents, RecoveryFails(a) \/ RepairFails(a)
    PROVE  Inv'
<1>1. /\ UNCHANGED <<postgres, record, recoverAt, repairAt, run, late, session, seeding,
                     others, disables>>
      /\ Fault /\ agent' = [agent EXCEPT ![a] = IdleAgent]
      /\ journal' = journal \/ journal' = [journal EXCEPT !.token = NoId]
  BY DEF RecoveryFails, RepairFails
<1>2. Onward /\ \A y \in Transitions : RunGoesOn(y)
  BY <1>1, LeaseMoves DEF Inv, CoreSound, RedisSound
<1>3. Counted'
  BY <1>1, FaultCounts DEF Inv, Counted
<1> QED
  BY <1>1, <1>2, <1>3, AgentRests

LEMMA ClaimRepairStep == ASSUME Inv, NEW a \in Agents, ClaimRepair(a) PROVE Inv'
<1>1. journal.status = "repairable" /\ Opened
  BY DEF ClaimRepair, Opened
<1>2. Rests /\ Onward /\ \A y \in Transitions : RunGoesOn(y)
  BY LeaseMoves DEF ClaimRepair, When, Inv, CoreSound, RedisSound
<1>3. PICK x \in Transitions \ Unbegun : x = journal.id
  BY <1>1, JournalBegun
<1>4. journal.target \in Targets \cup {"none"} /\ journal'.status = "repairable"
  BY <1>1, <1>2 DEF Rests, Inv, CoreSound, RedisSound, Journal
<1>5. PICK r : r = [IdleAgent EXCEPT !.pc = "repairing", !.id = journal.id, !.target = journal.target]
  OBVIOUS
<1>6. r \in Agent /\ r.pc = "repairing" /\ r.id = x
  BY <1>3, <1>4, <1>5 DEF IdleAgent, Agent
<1>7. agent' = [agent EXCEPT ![a] = r] /\ agent'[a] = r
  BY <1>5 DEF ClaimRepair, Inv
<1>8. x \notin Unbegun'
  BY <1>3 DEF ClaimRepair, Unbegun
<1>9. AgentSound(a)'
  BY <1>4, <1>6, <1>7, <1>8 DEF AgentSound, Mutating
<1>10. Counted'
  BY DEF ClaimRepair, Inv, Counted
<1> QED
  BY <1>2, <1>6, <1>7, <1>9, <1>10, AgentActs DEF ClaimRepair

\* The account is read in one step, and later changes of it need the lease's
\* transition to be over.
LEMMA JudgeStep == ASSUME Inv, NEW a \in Agents, Judge(a) PROVE Inv'
<1>1. /\ agent[a] \in Agent /\ agent[a].pc = "repairing" /\ AgentSound(a)
  BY DEF Judge, Inv
<1>2. Onward /\ \A y \in Transitions : RunGoesOn(y)
  BY LeaseMoves DEF Judge, redis, Inv, CoreSound, RedisSound
<1>3. PICK x \in Transitions \ Unbegun : x = agent[a].id
  BY <1>1 DEF AgentSound
<1>4. PICK m \in BOOLEAN : m = AuthorityMatches(agent[a].target)
  BY Zenon DEF AuthorityMatches
<1>5. PICK r : r = [agent[a] EXCEPT !.pc = "judged", !.matches = m]
  OBVIOUS
<1>6. /\ r \in Agent /\ r.pc = "judged" /\ r.id = x /\ r.target = agent[a].target
      /\ r.matches = m
  BY <1>1, <1>3, <1>5 DEF Agent
<1>7. agent' = [agent EXCEPT ![a] = r] /\ agent'[a] = r
  BY <1>4, <1>5 DEF Judge, Inv
<1>8. intent[x].at <= changes
  BY DEF Inv, CoreSound, PostgresSound, IntentSound
<1>9. r.matches /\ r.target = "enabled" => account = "enabled" /\ published = changes
  BY <1>4, <1>6 DEF AuthorityMatches
<1>10. UNCHANGED <<account, published, intent, journal, Unbegun>>
  BY DEF Judge, postgres, redis, Unbegun
<1>11. ~Mutating(x)
  BY <1>1, <1>3 DEF AgentSound
<1>12. AgentSound(a)'
  BY <1>3, <1>6, <1>7, <1>8, <1>9, <1>10, <1>11 DEF AgentSound, Mutating,
     Inv, CoreSound, PostgresSound, Intent
<1>13. Counted'
  BY DEF Judge, Inv, Counted
<1> QED
  BY <1>2, <1>6, <1>7, <1>12, <1>13, AgentActs DEF Judge

LEMMA FinalizeRepairStep == ASSUME Inv, NEW a \in Agents, FinalizeRepair(a) PROVE Inv'
<1>1. agent[a].pc = "judged" /\ agent[a].matches /\ AgentSound(a)
  BY DEF FinalizeRepair, Inv
<1>2. PICK x \in Transitions : x = agent[a].id
  BY <1>1 DEF AgentSound
<1>3. PICK target : target = agent[a].target
  OBVIOUS
<1>4. Aside /\ late' \subseteq late
  BY DEF FinalizeRepair, Aside, postgres, Unbegun, Inv, CoreSound, UnbegunSound
<1>5. Onward /\ \A y \in Transitions : RunGoesOn(y)
  <2>1. CASE ~HoldsRepair(a)
    <3>1. UNCHANGED redis
      BY <2>1 DEF FinalizeRepair
    <3> QED
      BY <3>1, LeaseMoves DEF FinalizeRepair, redis, Inv, CoreSound, RedisSound
  <2>2. CASE HoldsRepair(a)
    <3>1. Repairable(x, target) /\ Finish(x, target)
      BY <1>2, <1>3, <2>2 DEF FinalizeRepair, HoldsRepair
    <3>2. target = "enabled" => account = "enabled" /\ published >= intent[x].at
      BY <1>1, <1>2, <1>3, <3>1 DEF AgentSound
    <3>3. Finishes(x, target)
      BY <1>4, <3>1, <3>2 DEF Finishes
    <3> QED
      BY <3>3, FinishesOn
  <2> QED
    BY <2>1, <2>2
<1>6. Counted'
  BY DEF FinalizeRepair, Inv, Counted
<1> QED
  BY <1>5, <1>6, AgentRests DEF FinalizeRepair

LEMMA RescheduleRepairStep == ASSUME Inv, NEW a \in Agents, RescheduleRepair(a) PROVE Inv'
<1>1. Onward /\ \A y \in Transitions : RunGoesOn(y)
  BY LeaseMoves DEF RescheduleRepair, Inv, CoreSound, RedisSound
<1>2. Counted'
  BY DEF RescheduleRepair, Inv, Counted
<1> QED
  BY <1>1, <1>2, AgentRests DEF RescheduleRepair
LEMMA SessionActs ==
    ASSUME Inv, UNCHANGED <<postgres, redis, run, late, agent, seeding, others, faults, disables>>,
           session' \in [Sessions -> Session], \A s \in Sessions : Onward => SessionSound(s)'
    PROVE  Inv'
<1>1. Onward /\ \A y \in Transitions : RunGoesOn(y)
  BY LeaseMoves DEF redis, Inv, CoreSound, RedisSound
<1>2. \A y \in Transitions : RunSound(y)'
  BY <1>1, RunKept
<1>3. \A a \in Agents : AgentSound(a)'
  BY <1>1, AgentKept
<1> QED
  BY <1>1, <1>2, <1>3 DEF Onward, Inv, Counted

\* One session changes, or starts.
LEMMA OneSession ==
    ASSUME Inv, NEW s \in Sessions, NEW r \in Session, session' = [session EXCEPT ![s] = r],
           UNCHANGED <<postgres, redis, run, late, agent, seeding, others, faults, disables>>,
           Onward => SessionSound(s)'
    PROVE  Inv'
<1>1. /\ session' \in [Sessions -> Session] /\ session \in [Sessions -> Session]
      /\ \A q \in Sessions \ {s} : session'[q] = session[q]
  BY DEF Inv
<1>2. ASSUME Onward, NEW q \in Sessions \ {s} PROVE SessionSound(q)'
  BY <1>1, <1>2, SessionKept
<1> QED
  BY <1>1, <1>2, SessionActs

\* What a refused operation found is dead for ever.
LEMMA StaleIsDead ==
    ASSUME Inv, NEW s \in Sessions, session[s].status # "none",
           \/ record.state = "enabled" /\ record.id # session[s].generation
           \/ record.state = "disabled"
    PROVE  Dead(session[s].generation)
<1>1. Standing = record
  BY EnabledStands DEF Inv
<1>2. Standing # Enabled(session[s].generation)
  BY <1>1 DEF Enabled
<1> QED
  BY <1>2 DEF Inv, SessionSound

LEMMA LogInStep == ASSUME Inv, NEW s \in Sessions, LogIn(s) PROVE Inv'
<1>1. /\ session[s] \in Session /\ session[s].finding = "none"
      /\ record \in Record /\ record.state = "enabled" /\ record.id \in Ids \cup {NoId}
      /\ disables \in Nat
  BY DEF LogIn, Inv, SessionSound, CoreSound, RedisSound, PostgresSound, Record
<1>2. PICK g \in Ids \cup {NoId} : g = record.id
  BY <1>1
<1>3. PICK r : r = [session[s] EXCEPT !.status = "opening", !.generation = record.id,
                                      !.epoch = disables]
  OBVIOUS
<1>4. /\ r \in Session /\ r.status = "opening" /\ r.generation = g /\ r.epoch = disables
      /\ r.finding = "none"
  BY <1>1, <1>2, <1>3 DEF Session
<1>5. session' = [session EXCEPT ![s] = r] /\ session'[s] = r
  BY <1>3 DEF LogIn, Inv
<1>6. Standing = Enabled(g)
  BY <1>1, <1>2, EnabledStands DEF Inv, Enabled, Record
<1>7. Standing' = Standing /\ disables' = disables
  BY DEF LogIn, Standing, Revocable, postgres, redis
<1>8. Standing' = Enabled(session'[s].generation)
  BY <1>4, <1>5, <1>6, <1>7 DEF Enabled
<1>9. SessionSound(s)'
  BY <1>4, <1>5, <1>7, <1>8 DEF SessionSound, Enabled
<1> QED
  BY <1>4, <1>5, <1>9, OneSession DEF LogIn

LEMMA OpenSessionStep == ASSUME Inv, NEW s \in Sessions, OpenSession(s) PROVE Inv'
<1>1. session[s] \in Session /\ session[s].status = "opening"
  BY DEF OpenSession, Inv
<1>2. PICK r : r = [session[s] EXCEPT !.status = "open"]
  OBVIOUS
<1>3. /\ r \in Session /\ r.status = "open" /\ r.generation = session[s].generation
      /\ r.epoch = session[s].epoch /\ r.finding = session[s].finding
  BY <1>1, <1>2 DEF Session
<1>4. session' = [session EXCEPT ![s] = r] /\ session'[s] = r
  BY <1>2 DEF OpenSession, Inv
<1>5. Onward => SessionSound(s)'
  BY <1>1, <1>3, <1>4, SessionKept
<1> QED
  BY <1>3, <1>4, <1>5, OneSession DEF OpenSession

LEMMA RefuseOperationStep == ASSUME Inv, NEW s \in Sessions, RefuseOperation(s) PROVE Inv'
<1>1. session[s] \in Session /\ session[s].status = "open" /\ SessionSound(s)
  BY DEF RefuseOperation, Inv
<1>2. PICK f \in {"stale", "disabled"} : session' = [session EXCEPT ![s].finding = f]
  BY DEF RefuseOperation
<1>3. PICK r : r = [session[s] EXCEPT !.finding = f]
  OBVIOUS
<1>4. /\ r \in Session /\ r.status = "open" /\ r.generation = session[s].generation
  BY <1>1, <1>3 DEF Session
<1>5. session' = [session EXCEPT ![s] = r] /\ session'[s] = r
  BY <1>2, <1>3 DEF Inv
<1>6. PICK g \in Ids \cup {NoId} : g = session[s].generation
  BY <1>1 DEF Session
<1>7. Dead(g)
  BY <1>1, <1>6, StaleIsDead DEF RefuseOperation
<1>8. ASSUME Onward PROVE SessionSound(s)'
  <2>1. Dead(g)'
    BY <1>6, <1>7, <1>8 DEF Onward, DeathsLast
  <2>2. Dead(session[s].generation)'
    BY <1>4, <1>5, <1>6, <2>1 DEF Dead
  <2> QED
    BY <1>4, <1>5, <2>2 DEF SessionSound, Dead
<1> QED
  BY <1>4, <1>5, <1>8, OneSession DEF RefuseOperation

LEMMA RevokeRefusedStep == ASSUME Inv, NEW s \in Sessions, RevokeRefused(s) PROVE Inv'
<1>1. session[s] \in Session /\ session[s].finding # "none" /\ SessionSound(s)
  BY DEF RevokeRefused, Inv
<1>2. CASE session[s].finding = "stale"
  <2>1. PICK r : r = [session[s] EXCEPT !.status = "revoked", !.finding = "none"]
    OBVIOUS
  <2>2. /\ r \in Session /\ r.status = "revoked" /\ r.generation = session[s].generation
        /\ r.epoch = session[s].epoch /\ r.finding = "none"
    BY <1>1, <2>1 DEF Session
  <2>3. session' = [session EXCEPT ![s] = r] /\ session'[s] = r
    BY <1>2, <2>1 DEF RevokeRefused, Inv
  <2>4. Onward => SessionSound(s)'
    BY <1>1, <2>2, <2>3, SessionKept DEF SessionSound
  <2> QED
    BY <2>2, <2>3, <2>4, OneSession DEF RevokeRefused
<1>3. CASE session[s].finding # "stale"
  <2>1. PICK g : g = session[s].generation
    OBVIOUS
  <2>2. session' = [Revoked(g) EXCEPT ![s].finding = "none"]
    BY <1>3, <2>1 DEF RevokeRefused
  <2>3. Revoked(g)[s] \in Session
    BY RevokedShape
  <2>4. PICK r : r = [Revoked(g)[s] EXCEPT !.finding = "none"]
    OBVIOUS
  <2>5. /\ r \in Session /\ r.generation = Revoked(g)[s].generation
        /\ r.epoch = Revoked(g)[s].epoch /\ r.status = Revoked(g)[s].status /\ r.finding = "none"
    BY <2>3, <2>4 DEF Session
  <2>6. \A q \in Sessions : session'[q] = IF q = s THEN r ELSE Revoked(g)[q]
    BY <2>2, <2>4 DEF Revoked
  <2>7. session' \in [Sessions -> Session]
    <3>1. DOMAIN session' = Sessions /\ session' = [q \in Sessions |-> session'[q]]
      BY <2>2 DEF Revoked
    <3> QED
      BY <2>5, <2>6, <3>1, RevokedShape
  <2>8. ASSUME NEW q \in Sessions, Onward PROVE SessionSound(q)'
    BY <2>5, <2>6, <2>7, <2>8, RevokedShape, SessionKept
  <2> QED
    BY <2>7, <2>8, SessionActs DEF RevokeRefused
<1> QED
  BY <1>2, <1>3

LEMMA FallsDueStep == ASSUME Inv, RecoveryFallsDue \/ RepairFallsDue PROVE Inv'
<1>1. Onward /\ \A y \in Transitions : RunGoesOn(y)
  BY LeaseMoves DEF RecoveryFallsDue, RepairFallsDue, When, Inv, CoreSound, RedisSound
<1>2. Counted'
  BY FaultCounts DEF RecoveryFallsDue, RepairFallsDue, Inv, Counted
<1> QED
  BY <1>1, <1>2, OthersAct DEF RecoveryFallsDue, RepairFallsDue

LEMMA PublishStep == ASSUME Inv, OtherChange \/ Publish PROVE Inv'
<1>1. changes \in Nat /\ published \in Nat /\ published <= changes /\ others \in 0..MaxOthers
         /\ faults \in 0..MaxFaults
  BY DEF Inv, CoreSound, PostgresSound, Counted
<1>2. Publishes
  BY <1>1 DEF OtherChange, Publish, Publishes, Unbegun
<1>3. Onward /\ \A y \in Transitions : RunGoesOn(y)
  BY <1>2, PublishesOn
<1>4. Counted'
  BY <1>1, AccessAssumption DEF OtherChange, Publish, Counted
<1> QED
  BY <1>3, <1>4, OthersAct DEF OtherChange, Publish

LEMMA SeedStep == ASSUME Inv, ReadForSeed \/ SeedRecord PROVE Inv'
<1>1. Onward /\ \A y \in Transitions : RunGoesOn(y)
  <2>1. CASE ReadForSeed
    <3>1. Reads
      BY <2>1 DEF ReadForSeed, Reads, postgres, Unbegun
    <3> QED
      BY <3>1, ReadsOn
  <2>2. CASE SeedRecord /\ record # Absent
    <3>1. record' = record
      BY <2>2 DEF SeedRecord, Seeded
    <3>2. Reads
      BY <2>2, <3>1 DEF SeedRecord, Reads, postgres, redis, Unbegun
    <3> QED
      BY <3>2, ReadsOn
  <2>3. CASE SeedRecord /\ record = Absent
    <3>1. Seeds
      BY <2>3 DEF SeedRecord, Seeded, Seeds, postgres, Unbegun
    <3> QED
      BY <3>1, SeedsOn
  <2> QED
    BY <2>1, <2>2, <2>3
<1>2. Counted'
  BY DEF ReadForSeed, SeedRecord, Inv, Counted
<1> QED
  BY <1>1, <1>2, OthersAct DEF ReadForSeed, SeedRecord

LEMMA StepInv == Inv /\ [Next]_vars => Inv'
<1> SUFFICES ASSUME Inv, [Next]_vars PROVE Inv'
  OBVIOUS
<1>1. CASE UNCHANGED vars
  <2>1. Onward /\ \A y \in Transitions : RunGoesOn(y)
    BY <1>1, LeaseMoves DEF vars, postgres, Inv, CoreSound, RedisSound
  <2>2. Counted'
    BY <1>1 DEF vars, Inv, Counted
  <2> QED
    BY <1>1, <2>1, <2>2, OthersAct DEF vars
<1>2. ASSUME NEW x \in Transitions, RunStep(x) \/ LateBegin(x) \/ ReapIntent(x) PROVE Inv'
  BY <1>2, RunStepKeeps, LateBeginStep, ReapIntentStep
<1>3. ASSUME NEW a \in Agents, AgentStep(a) \/ RecoveryFails(a) \/ RepairFails(a) PROVE Inv'
  BY <1>3, ClaimRecoveryStep, ResolveRecoveryStep, ReconcileStep, ClaimRepairStep, JudgeStep,
     FinalizeRepairStep, RescheduleRepairStep, FailsStep DEF AgentStep
<1>4. ASSUME NEW s \in Sessions, SessionStep(s) PROVE Inv'
  BY <1>4, LogInStep, OpenSessionStep, RefuseOperationStep, RevokeRefusedStep DEF SessionStep
<1> QED
  BY <1>1, <1>2, <1>3, <1>4, FallsDueStep, PublishStep, SeedStep DEF Next
-----------------------------------------------------------------------------
(* The theorems.                                                           *)

LEMMA SpecInv == Spec => []Inv
<1>1. Init => Inv
  BY InitInv
<1>2. Inv /\ [Next]_vars => Inv'
  BY StepInv
<1> QED
  BY <1>1, <1>2, PTL DEF Spec

\* The states of the intents, of record and journal, and of everyone's memory
\* keep their shape, whatever step comes when.
THEOREM TypeCorrect == Spec => []TypeOK
BY SpecInv, InvTypes, PTL

\* The record in Redis says enabled only while the account in PostgreSQL is
\* enabled: no run, recovery, repair, late begin or bootstrap writes it, or
\* gives it back, after the account was disabled.
THEOREM EnabledFollowsAccount == Spec => []EnabledOnlyWithAccount
BY SpecInv, InvProperties, PTL

\* An operation admitted under a transition finds published facts at least as
\* new as the change that the transition made.
THEOREM FactsPrecedeAdmission == Spec => []AdmittedWithOwnFacts
BY SpecInv, InvProperties, PTL

\* No session that an operation would admit was opened, or even authenticated,
\* before the last disabling of the account.
THEOREM DisablingOutlivesSessions == Spec => []AdmittedSawNoDisable
BY SpecInv, InvProperties, PTL

\* Redis gives a block back only if PostgreSQL did not commit a change of
\* status, and finishes it only with the target that PostgreSQL committed.
THEOREM OneOutcome == Spec => []StoresAgree
BY SpecInv, InvProperties, PTL

\* A blocked subject is in the index of the recovery or in the backlog of the
\* repair, and in one of them only.
THEOREM BlocksAreQueued == Spec => []EveryBlockIsQueued
BY SpecInv, InvProperties, PTL

LEMMA GivenUpKeepsOutcomes ==
    ASSUME Inv, NEW x \in Transitions, NEW y \in Transitions,
           intent[y].status \in {"committed", "rolled_back"}
    PROVE  GivenUp(x)[y] = intent[y]
<1>1. intent \in [Transitions -> Intent]
  BY DEF Inv, CoreSound, PostgresSound
<1> QED
  BY <1>1 DEF GivenUp

LEMMA OutcomesStay ==
    ASSUME Inv, [Next]_vars, NEW y \in Transitions,
           intent[y].status \in {"committed", "rolled_back"}
    PROVE  intent'[y] = intent[y]
<1>1. intent \in [Transitions -> Intent]
  BY DEF Inv, CoreSound, PostgresSound
<1>2. ASSUME NEW x \in Transitions, RunStep(x) PROVE intent'[y] = intent[y]
  <2>1. CASE CreateIntent(x)
    <3>1. intent[x].status = "absent"
      BY <2>1 DEF CreateIntent, Inv, RunSound
    <3> QED
      BY <1>1, <2>1, <3>1 DEF CreateIntent
  <2>2. CASE Mutate(x)
    BY <1>1, <2>2 DEF Mutate
  <2>3. CASE GiveUpIntent(x) \/ UndoIntent(x)
    BY <2>3, GivenUpKeepsOutcomes DEF GiveUpIntent, UndoIntent
  <2>4. CASE UNCHANGED intent
    BY <2>4
  <2> QED
    BY <1>2, <2>1, <2>2, <2>3, <2>4 DEF RunStep, Begin, BeginConflicts, BeginFails, AbortBegin,
       MutateRollsBack, Restore, PrepareRepair, Finalize, RevokeSessions, StopRun, postgres
<1>3. ASSUME NEW x \in Transitions, LateBegin(x) \/ ReapIntent(x) PROVE intent'[y] = intent[y]
  BY <1>3, GivenUpKeepsOutcomes DEF LateBegin, ReapIntent, postgres
<1>4. ASSUME NEW a \in Agents, AgentStep(a) \/ RecoveryFails(a) \/ RepairFails(a)
      PROVE  intent'[y] = intent[y]
  <2>1. CASE ResolveRecovery(a)
    <3>1. PICK x \in Transitions : x = agent[a].id
      BY <2>1 DEF ResolveRecovery, Inv, AgentSound
    <3> QED
      BY <2>1, <3>1, GivenUpKeepsOutcomes DEF ResolveRecovery, Resolved
  <2> QED
    BY <1>4, <2>1 DEF AgentStep, ClaimRecovery, Reconcile, ClaimRepair, Judge, FinalizeRepair,
       RescheduleRepair, RecoveryFails, RepairFails, postgres
<1>5. ASSUME NEW s \in Sessions, SessionStep(s) PROVE intent'[y] = intent[y]
  BY <1>5 DEF SessionStep, LogIn, OpenSession, RefuseOperation, RevokeRefused, postgres
<1> QED
  BY <1>2, <1>3, <1>4, <1>5 DEF Next, vars, RecoveryFallsDue, RepairFallsDue, OtherChange,
     Publish, ReadForSeed, SeedRecord, postgres

\* PostgreSQL decides a transition once: runs, recovery and reaper find the
\* decision that was made, and keep it.
THEOREM DecidedOnce == Spec => OutcomeIsFinal
<1>1. Inv /\ [Next]_vars =>
        [\A x \in Transitions :
           intent[x].status \in {"committed", "rolled_back"} => intent'[x] = intent[x]]_vars
  BY OutcomesStay
<1> QED
  BY <1>1, SpecInv, PTL DEF Spec, OutcomeIsFinal

LEMMA DeadIsRefused ==
    ASSUME Inv, NEW s \in Sessions, Dead(session[s].generation)
    PROVE  ~Admitted(s)
BY EnabledStands DEF Inv, Admitted, Dead

LEMMA RevokedAreDead ==
    ASSUME Inv, [Next]_vars, NEW s \in Sessions,
           session'[s].status = "revoked", session[s].status # "revoked"
    PROVE  ~Admitted(s)
<1>1. session \in [Sessions -> Session]
  BY DEF Inv
<1>2. ASSUME NEW x \in Transitions, RunStep(x) PROVE ~Admitted(s)
  <2>1. RevokeSessions(x)
    BY <1>2 DEF RunStep, CreateIntent, Begin, BeginConflicts, BeginFails, GiveUpIntent, AbortBegin,
       Mutate, MutateRollsBack, UndoIntent, Restore, PrepareRepair, Finalize, StopRun
  <2>2. PICK g : g = run[x].previous
    OBVIOUS
  <2>3. Dead(g)
    BY <2>1, <2>2 DEF RevokeSessions, Inv, RunSound
  <2>4. session'[s] = Revoked(g)[s]
    BY <2>1, <2>2 DEF RevokeSessions
  <2>5. session[s].generation = g
    BY <2>4, RevokedShape
  <2> QED
    BY <2>3, <2>5, DeadIsRefused
<1>3. ASSUME NEW q \in Sessions, SessionStep(q) PROVE ~Admitted(s)
  <2>1. CASE LogIn(q) \/ OpenSession(q) \/ RefuseOperation(q)
    <3>1. session'[s].status \in {session[s].status, "opening", "open"}
      BY <1>1, <2>1 DEF LogIn, OpenSession, RefuseOperation, Session
    <3> QED
      BY <3>1
  <2>2. CASE RevokeRefused(q)
    <3>1. Dead(session[q].generation)
      BY <2>2 DEF RevokeRefused, Inv, SessionSound
    <3>2. session[s].generation = session[q].generation
      <4>1. CASE session[q].finding = "stale"
        <5>1. s = q
          BY <1>1, <2>2, <4>1 DEF RevokeRefused
        <5> QED
          BY <5>1
      <4>2. CASE session[q].finding # "stale"
        <5>1. PICK g : g = session[q].generation
          OBVIOUS
        <5>2. session' = [Revoked(g) EXCEPT ![q].finding = "none"]
          BY <2>2, <4>2, <5>1 DEF RevokeRefused
        <5>3. Revoked(g)[s] \in Session
          BY RevokedShape
        <5>4. session'[s].status = Revoked(g)[s].status
          BY <5>2, <5>3 DEF Revoked, Session
        <5> QED
          BY <5>1, <5>4, RevokedShape
      <4> QED
        BY <4>1, <4>2
    <3> QED
      BY <3>1, <3>2, DeadIsRefused
  <2> QED
    BY <1>3, <2>1, <2>2 DEF SessionStep
<1>4. CASE UNCHANGED session
  BY <1>4
<1> QED
  BY <1>2, <1>3, <1>4 DEF Next, vars, LateBegin, ReapIntent, AgentStep, ClaimRecovery,
     ResolveRecovery, Reconcile, ClaimRepair, Judge, FinalizeRepair, RescheduleRepair,
     RecoveryFails, RepairFails, RecoveryFallsDue, RepairFallsDue, OtherChange, Publish,
     ReadForSeed, SeedRecord

\* A revocation, of a run or of a refused operation, hits only sessions that no
\* operation would admit, however long ago it learned of their generation.
THEOREM RevocationHitsTheDead == Spec => OnlyDeadSessionsAreRevoked
<1>1. Inv /\ [Next]_vars =>
        [\A s \in Sessions :
           session'[s].status = "revoked" /\ session[s].status # "revoked" => ~Admitted(s)]_vars
  BY RevokedAreDead
<1> QED
  BY <1>1, SpecInv, PTL DEF Spec, OnlyDeadSessionsAreRevoked

=============================================================================
