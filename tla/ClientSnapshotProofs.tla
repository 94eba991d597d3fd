------------------------ MODULE ClientSnapshotProofs ------------------------
(***************************************************************************)
(* Proofs about ClientSnapshot, for any admins, readers and processes, and *)
(* for ever: nothing but the type at the end uses a bound.                *)
(*                                                                         *)
(* AcquiredIsCurrent speaks of what a reader returns; it rests on controls *)
(* that never come again.  A value that was loaded for a control is no     *)
(* older than what anybody was told when the control was the one of Redis; *)
(* a reader whose control this is began before, and needs no more.  Inv    *)
(* says this of the payload, of loads under way and of readers.            *)
(***************************************************************************)
EXTENDS ClientSnapshot, FiniteSetTheorems, TLAPS

ControlType == [epoch : Nat, generation : Nat]
PayloadType == [control : ControlType, value : Nat]
RedisType == [control : ControlType \cup {None}, payload : PayloadType \cup {None}]
AdminType == [pc : {"idle", "transaction", "committed", "unknown"}, version : Nat]
ReaderType == [pc : {"idle", "ask", "answer", "wait", "done"}, process : Processes \cup {None},
               attempt : 0..2, need : Nat, control : ControlType \cup {None},
               seen : PayloadType \cup {None}, value : Nat]
FlightType == [process : Processes \cup {None}, control : ControlType,
               pc : {"load", "publish", "published", "conflict"}, value : Nat]

Counted ==
    /\ db \in Nat /\ told \in Nat /\ told <= db /\ epochs \in Nat
    /\ doubt \in BOOLEAN /\ open \in BOOLEAN /\ warned \in BOOLEAN

\* A control that was in Redis, and will not be again unless it is there now.
Known(c) ==
    /\ c.epoch <= epochs
    /\ redis.control # None /\ redis.control.epoch = c.epoch =>
          c.generation <= redis.control.generation

\* A mutation has not told its end, or has told a bad one.
Excused == warned \/ doubt \/ \E a \in Admins : admin[a].pc \in {"committed", "unknown"}

\* A value under the control of Redis shows what anybody was told, and the whole
\* truth unless there is an excuse.
Shows(v) == told <= v /\ (v # db => Excused)

RedisSound ==
    /\ redis \in RedisType /\ backup \in RedisType
    /\ redis.control # None => redis.control.epoch <= epochs
    /\ backup.control # None => backup.control.epoch <= epochs
    /\ open /\ redis.payload # None /\ redis.payload.control = redis.control
          => Shows(redis.payload.value)

AdminsSound ==
    /\ admin \in [Admins -> AdminType]
    /\ \A a \in Admins : admin[a].pc = "committed" => admin[a].version <= db
    /\ doubt => warned \/ \E a \in Admins : admin[a].pc = "unknown"

ClosedSound == ~open => Drained

Observes(x) == x.pc \in {"answer", "wait"}

ReaderSound(x) ==
    /\ x \in ReaderType
    /\ x.need <= told
    /\ Observes(x) => x.control # None /\ Known(x.control)
    /\ x.pc = "answer" /\ x.seen # None /\ x.seen.control = x.control => x.need <= x.seen.value
    /\ x.pc = "done" => x.need <= x.value

Loaded(f) == f.pc # "load"

FlightSound(f) ==
    /\ f \in FlightType
    /\ Known(f.control)
    /\ Loaded(f) /\ f.control = redis.control => Shows(f.value)

\* What was loaded for the control a reader observed is enough for it.
Serves(f, x) == Observes(x) /\ Loaded(f) /\ f.control = x.control => x.need <= f.value

ReadersSound ==
    /\ reader \in [Readers -> ReaderType]
    /\ \A r \in Readers : ReaderSound(reader[r])

FlightsSound == \A f \in flights : FlightSound(f)

Served == \A r \in Readers, f \in flights : Serves(f, reader[r])

Inv ==
    /\ Counted /\ RedisSound /\ AdminsSound /\ ClosedSound
    /\ ReadersSound /\ FlightsSound /\ Served

-----------------------------------------------------------------------------
\* The invariant is about the properties that are to be shown.
LEMMA InvCurrent == Inv => AcquiredIsCurrent
<1> SUFFICES ASSUME Inv, NEW r \in Readers, reader[r].pc = "done"
             PROVE  reader[r].value >= reader[r].need
  BY DEF AcquiredIsCurrent
<1>1. ReaderSound(reader[r])
  BY DEF Inv, ReadersSound
<1>2. reader[r].need \in Nat /\ reader[r].value \in Nat /\ reader[r].need <= reader[r].value
  BY <1>1 DEF ReaderSound, ReaderType
<1> QED
  BY <1>2

LEMMA InvStale == Inv => StaleIsKnown
BY DEF Inv, RedisSound, Shows, Excused, StaleIsKnown

LEMMA InitInv == Init => Inv
<1> SUFFICES ASSUME Init PROVE Inv
  OBVIOUS
<1>1. Counted
  <2>1. db = 0 /\ told = 0 /\ epochs = 0
    BY DEF Init
  <2>2. db \in Nat /\ told \in Nat /\ told <= db /\ epochs \in Nat
    BY <2>1
  <2>3. doubt \in BOOLEAN /\ open \in BOOLEAN /\ warned \in BOOLEAN
    BY Zenon DEF Init
  <2> QED
    BY <2>2, <2>3 DEF Counted
<1>2. RedisSound
  BY DEF Init, RedisSound, RedisType, Empty
<1>3. AdminsSound
  BY DEF Init, AdminsSound, AdminType, Idle
<1>4. ClosedSound
  BY DEF Init, ClosedSound
<1>5. Resting \in ReaderType /\ ReaderSound(Resting)
  BY DEF Init, Resting, ReaderType, ReaderSound, Observes
<1>6. ReadersSound
  BY <1>5 DEF Init, ReadersSound
<1>7. FlightsSound /\ Served
  BY DEF Init, FlightsSound, Served
<1> QED
  BY <1>1, <1>2, <1>3, <1>4, <1>6, <1>7 DEF Inv

-----------------------------------------------------------------------------
(* The control of Redis.                                                   *)

KnownGoesOn == \A c \in ControlType : Known(c) => Known(c)'

\* The control becomes one that nobody has observed; the payload is gone.
ControlMoves ==
    /\ redis' \in RedisType
    /\ redis'.control # None /\ redis'.control.epoch <= epochs' /\ redis'.payload = None
    /\ epochs' \in Nat /\ epochs <= epochs'
    /\ \A c \in ControlType : Known(c) => Known(c)' /\ c # redis'.control

LEMMA BootstrapMoves ==
    ASSUME Inv, redis.control = None, Runs(Bootstrapped)
    PROVE  ControlMoves
<1>1. PICK n \in Nat : n = epochs + 1
  BY DEF Inv, Counted
<1>2. PICK c : c = [epoch |-> n, generation |-> 0]
  OBVIOUS
<1>3. c \in ControlType /\ c.epoch = n /\ c # None
  BY <1>2, NoneAssumption DEF ControlType
<1>4. redis' = [control |-> c, payload |-> None] /\ epochs' = n
  BY <1>1, <1>2 DEF Runs, Bootstrapped, FreshEpoch
<1>5. redis' \in RedisType /\ redis'.control = c /\ redis'.payload = None
  BY <1>3, <1>4 DEF RedisType
<1>6. epochs \in Nat
  BY DEF Inv, Counted
<1>7. ASSUME NEW d \in ControlType, Known(d) PROVE Known(d)' /\ d # redis'.control
  <2>1. d.epoch \in Nat /\ d.epoch <= epochs
    BY <1>7 DEF ControlType, Known
  <2>2. d.epoch < n
    BY <1>1, <1>6, <2>1
  <2> QED
    BY <1>3, <1>4, <1>5, <2>1, <2>2 DEF Known
<1> QED
  BY <1>1, <1>3, <1>4, <1>5, <1>6, <1>7 DEF ControlMoves

LEMMA InvalidationMoves ==
    ASSUME Inv, Runs(Invalidated)
    PROVE  ControlMoves
<1>1. CASE redis.control = None
  BY <1>1, BootstrapMoves DEF Invalidated, Runs
<1>2. CASE redis.control # None
  <2>1. redis.control \in ControlType /\ redis.control.epoch <= epochs /\ epochs \in Nat
    BY <1>2 DEF Inv, RedisSound, RedisType, Counted
  <2>2. PICK n \in Nat : n = redis.control.generation + 1
    BY <2>1 DEF ControlType
  <2>3. PICK c : c = [redis.control EXCEPT !.generation = n]
    OBVIOUS
  <2>4. c \in ControlType /\ c.epoch = redis.control.epoch /\ c.generation = n /\ c # None
    BY <2>1, <2>3, NoneAssumption DEF ControlType
  <2>5. redis' = [control |-> c, payload |-> None] /\ epochs' = epochs
    BY <1>2, <2>2, <2>3 DEF Runs, Invalidated
  <2>6. redis' \in RedisType /\ redis'.control = c /\ redis'.payload = None
    BY <2>4, <2>5 DEF RedisType
  <2>7. ASSUME NEW d \in ControlType, Known(d) PROVE Known(d)' /\ d # redis'.control
    <3>1. d.epoch \in Nat /\ d.generation \in Nat /\ redis.control.generation \in Nat
      BY <2>1 DEF ControlType
    <3>2. d.epoch = c.epoch => d.generation < n
      BY <1>2, <2>2, <2>4, <2>7, <3>1 DEF Known
    <3> QED
      BY <2>4, <2>5, <2>6, <2>7, <3>1, <3>2 DEF Known
  <2> QED
    BY <2>1, <2>4, <2>5, <2>6, <2>7 DEF ControlMoves
<1> QED
  BY <1>1, <1>2

-----------------------------------------------------------------------------
(* What the steps have in common.                                          *)

\* What anybody needs and what is true of controls only grows.
LEMMA ReadersKept ==
    ASSUME Inv, Counted', KnownGoesOn, told <= told', UNCHANGED reader
    PROVE  ReadersSound'
<1> SUFFICES ASSUME NEW r \in Readers PROVE ReaderSound(reader[r])'
  BY DEF Inv, ReadersSound
<1>1. ReaderSound(reader[r]) /\ reader[r] \in ReaderType /\ reader'[r] = reader[r]
  BY DEF Inv, ReadersSound, ReaderSound
<1>2. reader[r].need \in Nat /\ told \in Nat /\ told' \in Nat
  BY <1>1 DEF Inv, Counted, ReaderType
<1>3. reader[r].need <= told'
  BY <1>1, <1>2 DEF ReaderSound
<1>4. Observes(reader[r]) => reader[r].control # None /\ Known(reader[r].control)'
  BY <1>1 DEF ReaderSound, ReaderType, KnownGoesOn
<1> QED
  BY <1>1, <1>3, <1>4 DEF ReaderSound, Observes

ShowsGoesOn == \A v \in Nat : Shows(v) => Shows(v)'

\* Nothing moves but the database and its mutations.
LEMMA DatabaseStep ==
    ASSUME Inv, UNCHANGED <<redis, epochs, backup, open, reader, flights, told>>,
           Counted', AdminsSound', ClosedSound', ShowsGoesOn
    PROVE  Inv'
<1>1. KnownGoesOn
  BY DEF KnownGoesOn, Known
<1>2. told <= told'
  BY DEF Inv, Counted
<1>3. ReadersSound'
  BY <1>1, <1>2, ReadersKept
<1>4. redis.payload # None => redis.payload.value \in Nat
  BY DEF Inv, RedisSound, RedisType, PayloadType
<1>5. RedisSound'
  BY <1>4 DEF Inv, RedisSound, ShowsGoesOn
<1>6. ASSUME NEW f \in flights PROVE FlightSound(f)'
  <2>1. FlightSound(f) /\ f.value \in Nat /\ f.control \in ControlType
    BY DEF Inv, FlightsSound, FlightSound, FlightType
  <2> QED
    BY <1>1, <2>1 DEF FlightSound, KnownGoesOn, ShowsGoesOn
<1>7. FlightsSound'
  BY <1>6 DEF FlightsSound
<1>8. Served'
  BY DEF Inv, Served, Serves, Observes
<1> QED
  BY <1>3, <1>5, <1>7, <1>8 DEF Inv

\* No load under way is for the new control.
LEMMA ControlLeaves ==
    ASSUME Inv, ControlMoves, UNCHANGED <<backup, open, flights>>
    PROVE  KnownGoesOn /\ RedisSound' /\ FlightsSound'
<1>1. KnownGoesOn
  BY DEF KnownGoesOn, ControlMoves
<1>2. backup.control # None => backup.control.epoch <= epochs'
  <2>1. ASSUME backup.control # None
        PROVE  backup.control.epoch \in Nat /\ epochs \in Nat /\ backup.control.epoch <= epochs
    BY <2>1 DEF Inv, Counted, RedisSound, RedisType, ControlType
  <2> QED
    BY <2>1 DEF ControlMoves
<1>3. RedisSound'
  BY <1>2 DEF Inv, RedisSound, ControlMoves
<1>4. ASSUME NEW f \in flights PROVE FlightSound(f)'
  <2>1. FlightSound(f) /\ f.control \in ControlType
    BY DEF Inv, FlightsSound, FlightSound, FlightType
  <2>2. Known(f.control)' /\ f.control # redis'.control
    BY <2>1 DEF FlightSound, ControlMoves
  <2> QED
    BY <2>1, <2>2 DEF FlightSound
<1>5. FlightsSound'
  BY <1>4 DEF FlightsSound
<1> QED
  BY <1>1, <1>3, <1>5

\* The control moves on, and readers and loads do not notice.
LEMMA ControlStep ==
    ASSUME Inv, ControlMoves, UNCHANGED <<backup, open, reader, flights>>, told <= told',
           Counted', AdminsSound', ClosedSound'
    PROVE  Inv'
<1>1. KnownGoesOn /\ RedisSound' /\ FlightsSound'
  BY ControlLeaves
<1>2. ReadersSound'
  BY <1>1, ReadersKept
<1>3. Served'
  BY DEF Inv, Served, Serves, Observes
<1> QED
  BY <1>1, <1>2, <1>3 DEF Inv

-----------------------------------------------------------------------------
(* Mutations.                                                              *)

\* A mutation that is on its way keeps traffic from being stopped.
LEMMA AdminClosed ==
    ASSUME Inv, NEW a \in Admins, admin[a].pc # "idle" \/ open, UNCHANGED open
    PROVE  open /\ ClosedSound'
BY DEF Inv, ClosedSound, Drained

LEMMA StartsInv == ASSUME Inv, NEW a \in Admins, Starts(a) PROVE Inv'
<1>1. UNCHANGED <<redis, epochs, backup, open, reader, flights, told, db, doubt, warned>>
  BY DEF Starts
<1>2. Counted'
  BY <1>1 DEF Inv, Counted
<1>3. AdminsSound'
  BY DEF Starts, Inv, AdminsSound, AdminType
<1>4. ClosedSound'
  BY <1>1, AdminClosed DEF Starts
<1>5. ShowsGoesOn
  BY <1>1 DEF Starts, Inv, AdminsSound, ShowsGoesOn, Shows, Excused
<1> QED
  BY <1>1, <1>2, <1>3, <1>4, <1>5, DatabaseStep

LEMMA RollbackInv == ASSUME Inv, NEW a \in Admins, Rollback(a) PROVE Inv'
<1>1. UNCHANGED <<redis, epochs, backup, open, reader, flights, told, db, doubt, warned>>
  BY DEF Rollback, environment
<1>2. Counted'
  BY <1>1 DEF Inv, Counted
<1>3. AdminsSound'
  BY DEF Rollback, Inv, AdminsSound, AdminType, Idle
<1>4. ClosedSound'
  BY <1>1, AdminClosed DEF Rollback
<1>5. ShowsGoesOn
  BY <1>1 DEF Rollback, Inv, AdminsSound, ShowsGoesOn, Shows, Excused, Idle
<1> QED
  BY <1>1, <1>2, <1>3, <1>4, <1>5, DatabaseStep

LEMMA NextVersionsGrow ==
    ASSUME Inv, NEW v \in NextVersions
    PROVE  v \in Nat /\ db <= v
BY ClientSnapshotAssumption DEF Inv, Counted, NextVersions

LEMMA CommitInv == ASSUME Inv, NEW a \in Admins, Commit(a) PROVE Inv'
<1>1. UNCHANGED <<redis, epochs, backup, open, reader, flights, told, doubt, warned>>
  BY DEF Commit, environment
<1>2. PICK v \in Nat : v = db' /\ db <= v
  BY NextVersionsGrow DEF Commit
<1>3. Counted'
  BY <1>1, <1>2 DEF Inv, Counted
<1>4. \A b \in Admins : admin'[b] = IF b = a THEN [pc |-> "committed", version |-> v] ELSE admin[b]
  BY <1>2 DEF Commit, Inv, AdminsSound
<1>5. admin' \in [Admins -> AdminType]
  BY <1>2 DEF Commit, Inv, AdminsSound, AdminType
<1>6. ASSUME NEW b \in Admins, admin'[b].pc = "committed" PROVE admin'[b].version <= db'
  <2>1. b # a => admin[b].version \in Nat /\ admin[b].version <= db /\ db \in Nat
    BY <1>4, <1>6 DEF Inv, AdminsSound, AdminType, Counted
  <2> QED
    BY <1>2, <1>4, <2>1
<1>7. doubt' => warned' \/ \E b \in Admins : admin'[b].pc = "unknown"
  BY <1>1, <1>4 DEF Commit, Inv, AdminsSound
<1>8. AdminsSound'
  BY <1>5, <1>6, <1>7 DEF AdminsSound
<1>9. ClosedSound'
  BY <1>1, AdminClosed DEF Commit
<1>10. ShowsGoesOn
  BY <1>1, <1>4 DEF ShowsGoesOn, Shows, Excused
<1> QED
  BY <1>1, <1>3, <1>8, <1>9, <1>10, DatabaseStep

LEMMA CommitUnheardInv == ASSUME Inv, NEW a \in Admins, CommitUnheard(a) PROVE Inv'
<1>1. UNCHANGED <<redis, epochs, backup, open, reader, flights, told, warned>>
  BY DEF CommitUnheard, environment
<1>2. PICK v \in Nat : v = db' /\ db <= v
  BY NextVersionsGrow DEF CommitUnheard, NextVersions
<1>3. doubt' \in BOOLEAN
  BY Zenon DEF CommitUnheard, Inv, Counted
<1>4. Counted'
  BY <1>1, <1>2, <1>3 DEF Inv, Counted
<1>5. /\ admin' \in [Admins -> AdminType]
      /\ \A b \in Admins : b # a => admin'[b] = admin[b]
      /\ admin'[a].pc = "unknown"
  BY DEF CommitUnheard, Inv, AdminsSound, AdminType
<1>6. ASSUME NEW b \in Admins, admin'[b].pc = "committed" PROVE admin'[b].version <= db'
  <2>1. admin'[b] = admin[b] /\ admin[b].version \in Nat /\ admin[b].version <= db /\ db \in Nat
    BY <1>5, <1>6 DEF Inv, AdminsSound, AdminType, Counted
  <2> QED
    BY <1>2, <2>1
<1>7. AdminsSound'
  BY <1>5, <1>6 DEF AdminsSound
<1>8. ClosedSound'
  BY <1>1, AdminClosed DEF CommitUnheard
<1>9. ShowsGoesOn
  BY <1>1, <1>5 DEF ShowsGoesOn, Shows, Excused
<1> QED
  BY <1>1, <1>4, <1>7, <1>8, <1>9, DatabaseStep

LEMMA DecideInv == ASSUME Inv, Decide PROVE Inv'
<1>1. UNCHANGED <<redis, epochs, backup, open, admin, reader, flights, told, warned>>
  BY DEF Decide, environment
<1>2. PICK v \in Nat : v = db' /\ db <= v
  BY NextVersionsGrow DEF Decide
<1>3. doubt /\ ~doubt' /\ doubt' \in BOOLEAN
  BY Zenon DEF Decide
<1>4. Counted'
  BY <1>1, <1>2, <1>3 DEF Inv, Counted
<1>5. ASSUME NEW b \in Admins, admin[b].pc = "committed" PROVE admin[b].version <= db'
  <2>1. admin[b].version \in Nat /\ admin[b].version <= db /\ db \in Nat
    BY <1>5 DEF Inv, AdminsSound, AdminType, Counted
  <2> QED
    BY <1>2, <2>1
<1>6. AdminsSound'
  BY <1>1, <1>3, <1>5 DEF Inv, AdminsSound
<1>7. ClosedSound'
  BY <1>1, <1>3 DEF Inv, ClosedSound, Drained
<1>8. ShowsGoesOn
  BY <1>1, <1>3 DEF Inv, AdminsSound, ShowsGoesOn, Shows, Excused
<1> QED
  BY <1>1, <1>4, <1>6, <1>7, <1>8, DatabaseStep

\* A mutation ends, in an error or with what it can promise.
LEMMA EndsInv ==
    ASSUME Inv, NEW a \in Admins, admin[a].pc \in {"committed", "unknown"},
           UNCHANGED <<db, doubt, open>>, admin' = [admin EXCEPT ![a] = Idle],
           warned' \in BOOLEAN, warned' \/ (admin[a].pc = "committed" /\ (doubt /\ warned => warned'))
    PROVE  AdminsSound' /\ ClosedSound'
<1>1. /\ admin' \in [Admins -> AdminType]
      /\ \A b \in Admins : b # a => admin'[b] = admin[b]
      /\ admin'[a].pc = "idle"
  BY DEF Inv, AdminsSound, AdminType, Idle
<1>2. ASSUME NEW b \in Admins, admin'[b].pc = "committed" PROVE admin'[b].version <= db'
  BY <1>1, <1>2 DEF Inv, AdminsSound
<1>3. ASSUME doubt' PROVE warned' \/ \E b \in Admins : admin'[b].pc = "unknown"
  BY <1>1, <1>3 DEF Inv, AdminsSound
<1>4. AdminsSound'
  BY <1>1, <1>2, <1>3 DEF AdminsSound
<1>5. ClosedSound'
  BY AdminClosed
<1> QED
  BY <1>4, <1>5

LEMMA InvalidateInv == ASSUME Inv, NEW a \in Admins, Invalidate(a) PROVE Inv'
<1>1. UNCHANGED <<db, doubt, reader, flights, backup, open>> /\ ControlMoves
  BY InvalidationMoves DEF Invalidate
<1>2. db \in Nat /\ told \in Nat /\ told <= db
  BY DEF Inv, Counted
<1>3. told' \in Nat /\ told <= told' /\ told' <= db
  <2>1. CASE admin[a].pc = "committed"
    <3>1. PICK v \in Nat : v = admin[a].version /\ v <= db
      BY <2>1 DEF Inv, AdminsSound, AdminType
    <3>2. told' = Newer(told, v)
      BY <2>1, <3>1 DEF Invalidate
    <3> QED
      BY <1>2, <3>1, <3>2 DEF Newer
  <2>2. CASE admin[a].pc # "committed"
    BY <1>2, <2>2 DEF Invalidate
  <2> QED
    BY <2>1, <2>2
<1>4. warned' \in BOOLEAN
  BY Zenon DEF Invalidate, Inv, Counted
<1>5. warned' \/ (admin[a].pc = "committed" /\ (doubt /\ warned => warned'))
  BY DEF Invalidate
<1>6. admin[a].pc \in {"committed", "unknown"} /\ admin' = [admin EXCEPT ![a] = Idle]
  BY DEF Invalidate
<1>7. AdminsSound' /\ ClosedSound'
  BY <1>1, <1>4, <1>5, <1>6, EndsInv
<1>8. doubt' \in BOOLEAN /\ open' \in BOOLEAN
  BY <1>1, Zenon DEF Inv, Counted
<1>9. Counted'
  BY <1>1, <1>2, <1>3, <1>4, <1>8 DEF Counted, ControlMoves
<1> QED
  BY <1>1, <1>3, <1>7, <1>9, ControlStep

LEMMA InvalidateFailsInv == ASSUME Inv, NEW a \in Admins, InvalidateFails(a) PROVE Inv'
<1>1. /\ UNCHANGED <<db, doubt, reader, flights, backup, open, told>> /\ warned' = TRUE
      /\ admin[a].pc \in {"committed", "unknown"} /\ admin' = [admin EXCEPT ![a] = Idle]
  BY DEF InvalidateFails, EndsInError
<1>2. AdminsSound' /\ ClosedSound'
  BY <1>1, EndsInv
<1>3. CASE Untouched
  <2>1. Counted'
    BY <1>1, <1>3 DEF Inv, Counted, Untouched
  <2>2. ShowsGoesOn
    BY <1>1, <1>3 DEF ShowsGoesOn, Shows, Excused
  <2> QED
    BY <1>1, <1>2, <1>3, <2>1, <2>2, DatabaseStep DEF Untouched
<1>4. CASE Runs(Invalidated)
  <2>1. ControlMoves
    BY <1>4, InvalidationMoves
  <2>2. Counted'
    BY <1>1, <2>1 DEF Inv, Counted, ControlMoves
  <2>3. told <= told'
    BY <1>1 DEF Inv, Counted
  <2> QED
    BY <1>1, <1>2, <2>1, <2>2, <2>3, ControlStep
<1> QED
  BY <1>3, <1>4 DEF InvalidateFails

LEMMA RepairInv == ASSUME Inv, Repair PROVE Inv'
<1>1. /\ UNCHANGED <<db, doubt, reader, flights, backup, open, admin>>
      /\ open /\ told' = db /\ ControlMoves
  BY InvalidationMoves DEF Repair
<1>2. warned' \in BOOLEAN /\ (doubt /\ warned => warned')
  BY Zenon DEF Repair, Inv, Counted
<1>3. doubt' \in BOOLEAN /\ open' \in BOOLEAN
  BY <1>1, Zenon DEF Inv, Counted
<1>4. db \in Nat /\ told <= db /\ epochs' \in Nat
  BY <1>1 DEF Inv, Counted, ControlMoves
<1>5. Counted'
  BY <1>1, <1>2, <1>3, <1>4 DEF Counted
<1>6. AdminsSound'
  BY <1>1, <1>2 DEF Inv, AdminsSound
<1>7. ClosedSound'
  BY <1>1 DEF ClosedSound
<1> QED
  BY <1>1, <1>4, <1>5, <1>6, <1>7, ControlStep

-----------------------------------------------------------------------------
(* Redis by itself.                                                        *)

\* The payload goes, or the control does.
LEMMA LossStep ==
    ASSUME Inv, UNCHANGED <<db, doubt, admin, reader, flights, told, warned, epochs, open>>,
           redis' \in RedisType,
           redis'.control \in {redis.control, None},
           redis'.payload # None => redis'.control = None,
           UNCHANGED backup
    PROVE  Inv'
<1>1. Counted' /\ AdminsSound'
  BY DEF Inv, Counted, AdminsSound
<1>2. ClosedSound'
  BY DEF Inv, ClosedSound, Drained
<1>3. KnownGoesOn
  BY DEF KnownGoesOn, Known
<1>4. ReadersSound'
  BY <1>1, <1>3, ReadersKept DEF Inv, Counted
<1>5. redis'.payload # None => redis'.payload.control # None
  BY NoneAssumption DEF RedisType, PayloadType, ControlType
<1>6. RedisSound'
  BY <1>5 DEF Inv, RedisSound
<1>7. ASSUME NEW f \in flights PROVE FlightSound(f)'
  <2>1. FlightSound(f) /\ f.control \in ControlType /\ f.control # None
    BY NoneAssumption DEF Inv, FlightsSound, FlightSound, FlightType, ControlType
  <2> QED
    BY <1>3, <2>1 DEF FlightSound, KnownGoesOn, Shows, Excused
<1>8. FlightsSound'
  BY <1>7 DEF FlightsSound
<1>9. Served'
  BY DEF Inv, Served, Serves, Observes
<1> QED
  BY <1>1, <1>2, <1>4, <1>6, <1>8, <1>9 DEF Inv

LEMMA ExpireInv == ASSUME Inv, Expire PROVE Inv'
<1>1. redis' \in RedisType /\ redis'.control = redis.control /\ redis'.payload = None
  BY DEF Expire, Inv, RedisSound, RedisType
<1> QED
  BY <1>1, LossStep DEF Expire, environment

LEMMA LoseControlInv == ASSUME Inv, LoseControl PROVE Inv'
<1>1. redis' \in RedisType /\ redis'.control = None
  BY DEF LoseControl, Inv, RedisSound, RedisType
<1> QED
  BY <1>1, LossStep DEF LoseControl

\* Nothing is on its way when what Redis holds changes by hand.
LEMMA QuietStep ==
    ASSUME Inv, UNCHANGED <<db, doubt, admin, reader, flights, told, warned, epochs>>,
           RedisSound', open' \in BOOLEAN, Drained
    PROVE  Inv'
<1>1. Counted' /\ AdminsSound'
  BY DEF Inv, Counted, AdminsSound
<1>2. ClosedSound' /\ FlightsSound' /\ Served'
  BY DEF ClosedSound, Drained, FlightsSound, Served
<1>3. ASSUME NEW r \in Readers PROVE ReaderSound(reader[r])'
  BY DEF Inv, ReadersSound, ReaderSound, Drained, Observes
<1>4. ReadersSound'
  BY <1>3 DEF Inv, ReadersSound
<1> QED
  BY <1>1, <1>2, <1>4 DEF Inv

LEMMA RestoreInv == ASSUME Inv, Restore PROVE Inv'
<1>1. RedisSound'
  BY DEF Restore, Inv, RedisSound, Empty, RedisType
<1>2. open' \in BOOLEAN
  BY DEF Restore
<1> QED
  BY <1>1, <1>2, QuietStep DEF Restore

LEMMA RepairAllInv == ASSUME Inv, RepairAll PROVE Inv'
<1>1. RedisSound'
  BY DEF RepairAll, AllUnlinked, Inv, RedisSound, Empty, RedisType
<1>2. open' \in BOOLEAN /\ Drained
  BY DEF RepairAll, Inv, ClosedSound
<1> QED
  BY <1>1, <1>2, QuietStep DEF RepairAll

LEMMA TakeBackupInv == ASSUME Inv, TakeBackup PROVE Inv'
<1>1. UNCHANGED <<db, doubt, admin, reader, flights, told, warned, epochs, open, redis>>
         /\ backup' = redis
  BY DEF TakeBackup
<1>2. Counted' /\ AdminsSound' /\ ClosedSound' /\ ReadersSound' /\ FlightsSound' /\ Served'
  BY <1>1 DEF Inv, Counted, AdminsSound, ClosedSound, Drained, ReadersSound, ReaderSound,
              FlightsSound, FlightSound, Served, Known, Shows, Excused
<1>3. RedisSound'
  BY <1>1 DEF Inv, RedisSound, Shows, Excused
<1> QED
  BY <1>2, <1>3 DEF Inv

-----------------------------------------------------------------------------
(* Acquire.                                                                *)

calm == <<db, doubt, admin, told, warned, backup, open>>

\* The mutations and the traffic are as they were; readers or loads are not.
LEMMA CalmStep ==
    ASSUME Inv, UNCHANGED calm, open, epochs' \in Nat
    PROVE  /\ Counted' /\ AdminsSound' /\ ClosedSound'
           /\ ReadersSound' /\ RedisSound' /\ FlightsSound' /\ Served' => Inv'
<1>1. Counted'
  BY DEF Inv, Counted, calm
<1>2. AdminsSound' /\ ClosedSound'
  BY DEF Inv, AdminsSound, ClosedSound, calm
<1> QED
  BY <1>1, <1>2 DEF Inv

\* One reader takes a step.
LEMMA ReaderStep ==
    ASSUME Inv, UNCHANGED calm, open, epochs' \in Nat, KnownGoesOn,
           NEW r \in Readers, NEW x, reader' = [reader EXCEPT ![r] = x], ReaderSound(x)',
           RedisSound', FlightsSound',
           \A f \in flights' : Serves(f, x) /\ (f \in flights \/ ~Loaded(f))
    PROVE  Inv'
<1>1. \A q \in Readers : reader'[q] = IF q = r THEN x ELSE reader[q]
  BY DEF Inv, ReadersSound
<1>2. x \in ReaderType
  BY DEF ReaderSound
<1>3. reader' \in [Readers -> ReaderType]
  BY <1>2 DEF Inv, ReadersSound
<1>4. ASSUME NEW q \in Readers, q # r PROVE ReaderSound(reader[q])'
  <2>1. ReaderSound(reader[q]) /\ reader'[q] = reader[q] /\ told' = told
    BY <1>1, <1>4 DEF Inv, ReadersSound, calm
  <2>2. Observes(reader[q]) => Known(reader[q].control)'
    BY <2>1, NoneAssumption DEF ReaderSound, ReaderType, KnownGoesOn, ControlType
  <2> QED
    BY <2>1, <2>2 DEF ReaderSound, Observes
<1>5. ReadersSound'
  BY <1>1, <1>3, <1>4 DEF ReadersSound
<1>6. ASSUME NEW q \in Readers, NEW f \in flights' PROVE Serves(f, reader[q])'
  <2>1. CASE q = r
    BY <1>1, <2>1 DEF Serves, Observes, Loaded
  <2>2. CASE q # r
    BY <1>1, <2>2 DEF Inv, Served, Serves, Observes, Loaded
  <2> QED
    BY <2>1, <2>2
<1>7. Served'
  BY <1>6 DEF Served
<1> QED
  BY <1>5, <1>7, CalmStep

\* A reader on its way keeps traffic from being stopped.
LEMMA ReaderOpen ==
    ASSUME Inv, NEW r \in Readers, reader[r].pc # "idle"
    PROVE  open
BY DEF Inv, ClosedSound, Drained

LEMMA RestingSound == Inv => ReaderSound(Resting) /\ (UNCHANGED told => ReaderSound(Resting)')
BY DEF Inv, Counted, Resting, ReaderSound, ReaderType, Observes

\* What only a reader does leaves the rest sound.
LEMMA RestUnchanged ==
    ASSUME Inv, UNCHANGED <<db, doubt, redis, epochs, admin, flights, told, warned, backup, open>>
    PROVE  /\ UNCHANGED calm /\ epochs' \in Nat /\ KnownGoesOn /\ RedisSound' /\ FlightsSound'
<1>1. UNCHANGED calm /\ epochs' \in Nat /\ KnownGoesOn
  BY DEF calm, Inv, Counted, KnownGoesOn, Known
<1>2. RedisSound' /\ FlightsSound'
  BY DEF Inv, RedisSound, FlightsSound, FlightSound, Known, Shows, Excused
<1> QED
  BY <1>1, <1>2

LEMMA LeaveInv == ASSUME Inv, NEW r \in Readers, Leave(r) PROVE Inv'
<1>1. UNCHANGED <<db, doubt, redis, epochs, admin, flights, told, warned, backup, open>>
  BY DEF Leave, environment
<1>2. open
  BY ReaderOpen DEF Leave
<1>3. ReaderSound(Resting)'
  BY <1>1, RestingSound
<1>4. \A f \in flights' : Serves(f, Resting)
  BY DEF Serves, Observes, Resting
<1> QED
  BY <1>1, <1>2, <1>3, <1>4, RestUnchanged, ReaderStep DEF Leave

LEMMA BeginInv == ASSUME Inv, NEW r \in Readers, NEW p \in Processes, Begin(r, p) PROVE Inv'
<1>1. UNCHANGED <<db, doubt, redis, epochs, admin, flights, told, warned, backup, open>> /\ open
  BY DEF Begin, environment
<1>2. PICK x : x = [Resting EXCEPT !.pc = "ask", !.process = p, !.attempt = 1, !.need = told]
  OBVIOUS
<1>3. told \in Nat
  BY DEF Inv, Counted
<1>4. x \in ReaderType /\ x.pc = "ask" /\ x.need = told
  <2>1. PICK y \in ReaderType : y = Resting
    BY RestingSound DEF ReaderSound
  <2>2. x = [y EXCEPT !.pc = "ask", !.process = p, !.attempt = 1, !.need = told]
    BY <1>2, <2>1
  <2>3. 1 \in 0..2 /\ p \in Processes \cup {None}
    OBVIOUS
  <2> QED
    BY <1>3, <2>1, <2>2, <2>3 DEF ReaderType
<1>5. ReaderSound(x)' /\ \A f \in flights' : Serves(f, x)
  BY <1>1, <1>3, <1>4 DEF ReaderSound, Observes, Serves
<1>6. reader' = [reader EXCEPT ![r] = x]
  BY <1>2 DEF Begin
<1> QED
  BY <1>1, <1>5, <1>6, RestUnchanged, ReaderStep

LEMMA AnswerInv == ASSUME Inv, NEW r \in Readers, Answer(r) PROVE Inv'
<1>1. UNCHANGED <<db, doubt, redis, epochs, admin, flights, told, warned, backup, open>>
  BY DEF Answer, environment
<1>2. open
  BY ReaderOpen DEF Answer
<1>3. /\ ReaderSound(reader[r]) /\ reader[r] \in ReaderType
      /\ reader[r].pc = "answer" /\ reader[r].seen # None /\ reader[r].seen.control = reader[r].control
  BY DEF Inv, ReadersSound, Answer, Hit
<1>4. PICK v \in Nat : v = reader[r].seen.value /\ reader[r].need <= v
  BY <1>3 DEF ReaderSound, ReaderType, PayloadType
<1>5. PICK x : x = Finished(r, v)
  OBVIOUS
<1>6. x \in ReaderType /\ x.pc = "done" /\ x.need = reader[r].need /\ x.value = v
  BY <1>3, <1>4, <1>5, RestingSound DEF Finished, ReaderSound, ReaderType
<1>7. ReaderSound(x)' /\ \A f \in flights' : Serves(f, x)
  BY <1>1, <1>3, <1>4, <1>6 DEF ReaderSound, Observes, Serves
<1>8. reader' = [reader EXCEPT ![r] = x]
  BY <1>4, <1>5 DEF Answer
<1> QED
  BY <1>1, <1>2, <1>7, <1>8, RestUnchanged, ReaderStep

\* The script that answers an acquire leaves a control that is known from then
\* on, with nothing old under it.
LEMMA Acquires ==
    ASSUME Inv, Runs(Acquired), UNCHANGED calm, UNCHANGED flights, open
    PROVE  /\ redis' = Acquired /\ epochs' \in Nat /\ KnownGoesOn /\ RedisSound' /\ FlightsSound'
           /\ redis'.control \in ControlType /\ \A c \in ControlType : c = redis'.control => Known(c)'
           /\ \A f \in flights : Loaded(f) /\ f.control = redis'.control => told <= f.value
<1>1. CASE redis.control = None
  <2>1. ControlMoves /\ redis' = Acquired
    BY <1>1, BootstrapMoves DEF Acquired, Runs
  <2>2. KnownGoesOn /\ RedisSound' /\ FlightsSound'
    BY <2>1, ControlLeaves DEF calm
  <2>3. redis'.control \in ControlType
    BY <2>1 DEF ControlMoves, RedisType
  <2>4. \A c \in ControlType : c = redis'.control => Known(c)'
    BY <2>1, <2>3 DEF ControlMoves, Known, ControlType
  <2>5. ASSUME NEW f \in flights PROVE f.control # redis'.control
    BY <2>1 DEF ControlMoves, Inv, FlightsSound, FlightSound, FlightType
  <2> QED
    BY <2>1, <2>2, <2>3, <2>4, <2>5 DEF ControlMoves
<1>2. CASE redis.control # None
  <2>1. UNCHANGED <<redis, epochs>> /\ redis' = Acquired
    BY <1>2 DEF Runs, Acquired
  <2>2. epochs' \in Nat /\ KnownGoesOn /\ RedisSound' /\ FlightsSound'
    BY <2>1, RestUnchanged DEF calm
  <2>3. redis'.control \in ControlType
    BY <1>2, <2>1 DEF Inv, RedisSound, RedisType
  <2>4. \A c \in ControlType : c = redis'.control => Known(c)'
    BY <1>2, <2>1, <2>3 DEF Inv, RedisSound, Known, ControlType
  <2>5. ASSUME NEW f \in flights, Loaded(f), f.control = redis'.control PROVE told <= f.value
    BY <2>1, <2>5 DEF Inv, FlightsSound, FlightSound, Shows
  <2> QED
    BY <2>1, <2>2, <2>3, <2>4, <2>5
<1> QED
  BY <1>1, <1>2

LEMMA AskInv == ASSUME Inv, NEW r \in Readers, Ask(r) PROVE Inv'
<1>1. UNCHANGED calm /\ UNCHANGED flights /\ Runs(Acquired)
  BY DEF Ask, calm
<1>2. open
  BY ReaderOpen DEF Ask
<1>3. /\ redis' = Acquired /\ epochs' \in Nat /\ KnownGoesOn /\ RedisSound' /\ FlightsSound'
      /\ redis'.control \in ControlType /\ \A c \in ControlType : c = redis'.control => Known(c)'
      /\ \A f \in flights : Loaded(f) /\ f.control = redis'.control => told <= f.value
  BY <1>1, <1>2, Acquires
<1>4. PICK c \in ControlType : c = redis'.control
  BY <1>3
<1>5. PICK s \in PayloadType \cup {None} : s = redis'.payload
  BY <1>3 DEF RedisSound, RedisType
<1>6. PICK x : x = [reader[r] EXCEPT !.pc = "answer", !.control = c, !.seen = s]
  OBVIOUS
<1>7. ReaderSound(reader[r]) /\ reader[r] \in ReaderType
  BY DEF Inv, ReadersSound, ReaderSound
<1>8. /\ x \in ReaderType /\ x.pc = "answer" /\ x.control = c /\ x.seen = s
      /\ x.need = reader[r].need /\ x.need \in Nat
  BY <1>6, <1>7 DEF ReaderType
<1>9. x.need <= told /\ told' = told /\ told \in Nat /\ open'
  BY <1>1, <1>2, <1>7, <1>8 DEF ReaderSound, calm, Inv, Counted
<1>10. ASSUME s # None, s.control = c PROVE x.need <= s.value
  <2>1. s.value \in Nat /\ told <= s.value
    BY <1>3, <1>4, <1>5, <1>9, <1>10 DEF RedisSound, Shows, PayloadType
  <2> QED
    BY <1>8, <1>9, <2>1
<1>11. ReaderSound(x)'
  BY <1>3, <1>4, <1>8, <1>9, <1>10, NoneAssumption DEF ReaderSound, Observes, ControlType
<1>12. ASSUME NEW f \in flights' PROVE Serves(f, x) /\ f \in flights
  <2>1. f \in flights /\ f.value \in Nat
    BY <1>1 DEF Inv, FlightsSound, FlightSound, FlightType
  <2> QED
    BY <1>3, <1>4, <1>8, <1>9, <2>1 DEF Serves
<1>13. reader' = [reader EXCEPT ![r] = x]
  BY <1>3, <1>4, <1>5, <1>6 DEF Ask
<1> QED
  BY <1>1, <1>2, <1>3, <1>11, <1>12, <1>13, ReaderStep

LEMMA AskFailsInv == ASSUME Inv, NEW r \in Readers, AskFails(r) PROVE Inv'
<1>1. UNCHANGED calm /\ UNCHANGED flights
  BY DEF AskFails, calm
<1>2. open
  BY ReaderOpen DEF AskFails
<1>3. epochs' \in Nat /\ KnownGoesOn /\ RedisSound' /\ FlightsSound'
  <2>1. CASE Untouched
    BY <1>1, <2>1, RestUnchanged DEF Untouched, calm
  <2>2. CASE Runs(Acquired)
    BY <1>1, <1>2, <2>2, Acquires
  <2> QED
    BY <2>1, <2>2 DEF AskFails
<1>4. ReaderSound(Resting)'
  BY <1>1, RestingSound DEF calm
<1>5. \A f \in flights' : Serves(f, Resting) /\ f \in flights
  BY <1>1 DEF Serves, Observes, Resting
<1> QED
  BY <1>1, <1>2, <1>3, <1>4, <1>5, ReaderStep DEF AskFails

LEMMA MissInv == ASSUME Inv, NEW r \in Readers, Miss(r) PROVE Inv'
<1>1. UNCHANGED <<db, doubt, redis, epochs, admin, told, warned, backup, open>>
  BY DEF Miss, environment
<1>2. open /\ UNCHANGED calm /\ epochs' \in Nat /\ KnownGoesOn
  BY <1>1, ReaderOpen DEF Miss, calm, Inv, Counted, KnownGoesOn, Known
<1>3. RedisSound'
  BY <1>1 DEF Inv, RedisSound, Shows, Excused
<1>4. ReaderSound(reader[r]) /\ reader[r] \in ReaderType /\ reader[r].pc = "answer"
  BY DEF Miss, Inv, ReadersSound, ReaderSound
<1>5. reader[r].control \in ControlType /\ Known(reader[r].control)
  BY <1>4 DEF ReaderSound, ReaderType, Observes
<1>6. PICK x : x = [reader[r] EXCEPT !.pc = "wait", !.seen = None]
  OBVIOUS
<1>7. /\ x \in ReaderType /\ x.pc = "wait" /\ x.control = reader[r].control
      /\ x.need = reader[r].need
  BY <1>4, <1>6 DEF ReaderType
<1>8. ReaderSound(x)'
  BY <1>1, <1>2, <1>4, <1>5, <1>7, NoneAssumption DEF ReaderSound, Observes, KnownGoesOn, ControlType
<1>9. ASSUME NEW f \in flights', f \notin flights
      PROVE  f.pc = "load" /\ FlightSound(f)' /\ ~Loaded(f)
  <2>1. /\ f = [process |-> reader[r].process, control |-> reader[r].control,
                pc |-> "load", value |-> 0]
        /\ reader[r].process \in Processes \cup {None}
    BY <1>4, <1>9 DEF Miss, ReaderType
  <2> QED
    BY <1>2, <1>5, <2>1 DEF FlightSound, FlightType, KnownGoesOn, Loaded
<1>10. ASSUME NEW f \in flights PROVE FlightSound(f)'
  BY <1>1 DEF Inv, FlightsSound, FlightSound, Known, Shows, Excused
<1>11. FlightsSound'
  BY <1>9, <1>10 DEF FlightsSound
<1>12. ASSUME NEW f \in flights' PROVE Serves(f, x) /\ (f \in flights \/ ~Loaded(f))
  <2>1. Serves(f, reader[r]) \/ ~Loaded(f)
    BY <1>9 DEF Inv, Served
  <2> QED
    BY <1>4, <1>7, <1>9, <2>1 DEF Serves, Observes
<1>13. reader' = [reader EXCEPT ![r] = x]
  BY <1>6 DEF Miss
<1> QED
  BY <1>2, <1>3, <1>8, <1>11, <1>12, <1>13, ReaderStep

-----------------------------------------------------------------------------
(* Loads.                                                                  *)

\* A load under way keeps traffic from being stopped.
LEMMA FlightOpen == Inv /\ flights # {} => open
BY DEF Inv, ClosedSound, Drained

\* One load takes a step, and readers do not notice.
LEMMA FlightStep ==
    ASSUME Inv, UNCHANGED calm, UNCHANGED <<epochs, reader>>, RedisSound',
           redis'.control = redis.control,
           NEW f \in flights, NEW g, flights' = (flights \ {f}) \cup {g}, FlightSound(g)',
           \A r \in Readers : Serves(g, reader[r])
    PROVE  Inv'
<1>1. open /\ epochs' \in Nat /\ KnownGoesOn /\ told <= told'
  BY FlightOpen DEF calm, Inv, Counted, KnownGoesOn, Known
<1>2. Counted'
  BY DEF Inv, Counted, calm
<1>3. ReadersSound'
  BY <1>1, <1>2, ReadersKept
<1>4. ASSUME NEW h \in flights PROVE FlightSound(h)'
  BY DEF Inv, FlightsSound, FlightSound, Known, Shows, Excused, calm
<1>5. FlightsSound'
  BY <1>4 DEF FlightsSound
<1>6. Served'
  BY DEF Inv, Served, Serves, Observes, Loaded
<1> QED
  BY <1>1, <1>3, <1>5, <1>6, CalmStep

LEMMA LoadInv == ASSUME Inv, NEW f \in flights, Load(f) PROVE Inv'
<1>1. UNCHANGED calm /\ UNCHANGED <<epochs, reader, redis>>
  BY DEF Load, calm, environment
<1>2. FlightSound(f) /\ f \in FlightType /\ db \in Nat /\ told \in Nat /\ told <= db
  BY DEF Inv, FlightsSound, FlightSound, Counted
<1>3. PICK g : g = [f EXCEPT !.pc = "publish", !.value = db]
  OBVIOUS
<1>4. g \in FlightType /\ g.control = f.control /\ g.value = db
  BY <1>2, <1>3 DEF FlightType
<1>5. FlightSound(g)'
  BY <1>1, <1>2, <1>4 DEF FlightSound, Known, Shows, calm
<1>6. ASSUME NEW r \in Readers PROVE Serves(g, reader[r])
  <2>1. reader[r].need \in Nat /\ reader[r].need <= told
    BY DEF Inv, ReadersSound, ReaderSound, ReaderType
  <2> QED
    BY <1>2, <1>4, <2>1 DEF Serves
<1>7. RedisSound'
  BY <1>1 DEF Inv, RedisSound, Shows, Excused, calm
<1>8. flights' = (flights \ {f}) \cup {g}
  BY <1>3 DEF Load
<1> QED
  BY <1>1, <1>5, <1>6, <1>7, <1>8, FlightStep

LEMMA PublishInv == ASSUME Inv, NEW f \in flights, Publish(f) PROVE Inv'
<1>1. UNCHANGED calm /\ UNCHANGED <<epochs, reader>>
  BY DEF Publish, calm, environment
<1>2. FlightSound(f) /\ f \in FlightType /\ f.pc = "publish"
  BY DEF Inv, FlightsSound, FlightSound, Publish
<1>3. PICK g : g = [f EXCEPT !.pc = IF IsCurrent(f) THEN "published" ELSE "conflict"]
  OBVIOUS
<1>4. g \in FlightType /\ g.control = f.control /\ g.value = f.value
  BY <1>2, <1>3 DEF FlightType
<1>5. redis \in RedisType
  BY DEF Inv, RedisSound
<1>6. ASSUME IsCurrent(f) PROVE RedisSound'
  <2>1. PICK p : p = [control |-> f.control, value |-> f.value]
    OBVIOUS
  <2>2. p \in PayloadType /\ p.control = f.control /\ p.value = f.value
    BY <1>2, <2>1 DEF FlightType, PayloadType
  <2>3. redis' = [redis EXCEPT !.payload = p]
    BY <1>6, <2>1 DEF Publish, Stored
  <2>4. redis' \in RedisType /\ redis'.control = redis.control /\ redis'.payload = p
    BY <1>5, <2>2, <2>3 DEF RedisType
  <2>5. Shows(f.value)
    BY <1>2, <1>6 DEF FlightSound, Loaded, IsCurrent
  <2> QED
    BY <1>1, <2>2, <2>4, <2>5 DEF Inv, RedisSound, Shows, Excused, calm
<1>7. ASSUME ~IsCurrent(f) PROVE RedisSound'
  BY <1>1, <1>7 DEF Publish, Stored, Inv, RedisSound, Shows, Excused, calm
<1>8. redis'.control = redis.control
  BY <1>5 DEF Publish, Stored, RedisType
<1>9. FlightSound(g)'
  BY <1>1, <1>2, <1>4, <1>8 DEF FlightSound, Known, Shows, Excused, Loaded, calm
<1>10. \A r \in Readers : Serves(g, reader[r])
  BY <1>2, <1>4 DEF Inv, Served, Serves, Loaded
<1>11. flights' = (flights \ {f}) \cup {g}
  BY <1>3 DEF Publish
<1> QED
  BY <1>1, <1>6, <1>7, <1>8, <1>9, <1>10, <1>11, FlightStep

\* A load ends; the readers that waited for it go on, or give up.
LEMMA FlightEnds ==
    ASSUME Inv, NEW f \in flights, flights' = flights \ {f}, NEW next, Resume(f, next),
           UNCHANGED <<db, doubt, redis, admin, told, warned, environment>>,
           \A r \in Waiting(f) : ReaderSound(next[r])' /\ ~Observes(next[r])
    PROVE  Inv'
<1>1. UNCHANGED <<db, doubt, redis, epochs, admin, told, warned, backup, open>>
  BY DEF environment
<1>2. UNCHANGED calm /\ epochs' \in Nat /\ KnownGoesOn /\ open
  BY <1>1, FlightOpen DEF calm, Inv, Counted, KnownGoesOn, Known
<1>3. RedisSound'
  BY <1>1 DEF Inv, RedisSound, Shows, Excused
<1>4. \A g \in flights : FlightSound(g)'
  BY <1>1 DEF Inv, FlightsSound, FlightSound, Known, Shows, Excused
<1>5. FlightsSound'
  BY <1>4 DEF FlightsSound
<1>6. ASSUME NEW r \in Readers
      PROVE  \/ reader'[r] = reader[r] /\ ReaderSound(reader[r])'
             \/ ReaderSound(reader[r])' /\ ~Observes(reader'[r])
  <2>1. CASE r \in Waiting(f)
    BY <2>1 DEF Resume, ReaderSound, Observes, Known
  <2>2. CASE r \notin Waiting(f)
    BY <1>1, <2>2 DEF Resume, Inv, ReadersSound, ReaderSound, Known
  <2> QED
    BY <2>1, <2>2
<1>7. reader' \in [Readers -> ReaderType]
  BY <1>6 DEF Resume, ReaderSound
<1>8. ReadersSound'
  BY <1>6, <1>7 DEF ReadersSound
<1>9. Served'
  BY <1>6 DEF Inv, Served, Serves, Observes
<1> QED
  BY <1>2, <1>3, <1>5, <1>8, <1>9, CalmStep

LEMMA SettleInv == ASSUME Inv, NEW f \in flights, Settle(f) PROVE Inv'
<1>0. PICK next :
         next = [r \in Readers |-> IF f.pc = "published" THEN Taken(f, r) ELSE AskAgain(r)]
  OBVIOUS
<1>1. /\ UNCHANGED <<db, doubt, redis, admin, told, warned, environment>>
      /\ f.pc \in {"published", "conflict"} /\ Resume(f, next) /\ flights' = flights \ {f}
  BY <1>0 DEF Settle
<1>2. ASSUME NEW r \in Waiting(f)
      PROVE  ReaderSound(next[r])' /\ ~Observes(next[r])
  <2>1. /\ r \in Readers /\ reader[r] \in ReaderType /\ ReaderSound(reader[r])
        /\ reader[r].pc = "wait" /\ f.control = reader[r].control
    BY DEF Waiting, Shared, Inv, ReadersSound, ReaderSound
  <2>2. f \in FlightType /\ f.value \in Nat
    BY DEF Inv, FlightsSound, FlightSound, FlightType
  <2>3. reader[r].need <= f.value
    BY <1>1, <2>1 DEF Inv, Served, Serves, Observes, Loaded
  <2>4. told' = told /\ Resting \in ReaderType
    BY <1>1, RestingSound DEF ReaderSound
  <2>5. CASE f.pc = "published"
    <3>1. PICK x : x = Taken(f, r)
      OBVIOUS
    <3>2. x \in ReaderType /\ x.pc = "done" /\ x.need = reader[r].need /\ x.value = f.value
      BY <2>1, <2>2, <2>4, <3>1 DEF Taken, Finished, ReaderType
    <3>3. ReaderSound(x)' /\ ~Observes(x)
      BY <2>1, <2>3, <2>4, <3>2 DEF ReaderSound, Observes
    <3> QED
      BY <1>0, <2>1, <2>5, <3>1, <3>3
  <2>6. CASE f.pc # "published" /\ reader[r].attempt = 1
    <3>1. PICK x : x = [reader[r] EXCEPT !.pc = "ask", !.attempt = 2, !.control = None]
      OBVIOUS
    <3>2. x \in ReaderType /\ x.pc = "ask" /\ x.need = reader[r].need
      <4>1. PICK y \in ReaderType : y = reader[r]
        BY <2>1
      <4>2. 2 \in 0..2 /\ x = [y EXCEPT !.pc = "ask", !.attempt = 2, !.control = None]
        BY <3>1, <4>1
      <4> QED
        BY <4>1, <4>2 DEF ReaderType
    <3>3. ReaderSound(x)' /\ ~Observes(x)
      BY <2>1, <2>4, <3>2 DEF ReaderSound, Observes
    <3> QED
      BY <1>0, <2>1, <2>6, <3>1, <3>3 DEF AskAgain
  <2>7. CASE f.pc # "published" /\ reader[r].attempt # 1
    <3>1. next[r] = Resting
      BY <1>0, <2>1, <2>7 DEF AskAgain
    <3>2. ReaderSound(Resting)' /\ ~Observes(Resting)
      BY <2>4, RestingSound DEF Observes, Resting
    <3> QED
      BY <3>1, <3>2
  <2> QED
    BY <2>5, <2>6, <2>7
<1> QED
  BY <1>1, <1>2, FlightEnds

LEMMA FlightFailsInv == ASSUME Inv, NEW f \in flights, FlightFails(f) PROVE Inv'
<1>1. /\ UNCHANGED <<db, doubt, redis, admin, told, warned, environment>>
      /\ Resume(f, [r \in Readers |-> Resting]) /\ flights' = flights \ {f}
  BY DEF FlightFails
<1>2. ReaderSound(Resting)' /\ ~Observes(Resting)
  BY <1>1, RestingSound DEF Observes, Resting
<1>3. ASSUME NEW r \in Waiting(f)
      PROVE  ReaderSound([q \in Readers |-> Resting][r])' /\ ~Observes([q \in Readers |-> Resting][r])
  BY <1>2 DEF Waiting
<1> QED
  BY <1>1, <1>3, FlightEnds

-----------------------------------------------------------------------------
LEMMA StepInv == Inv /\ [Next]_vars => Inv'
<1> SUFFICES ASSUME Inv, [Next]_vars PROVE Inv'
  OBVIOUS
<1>1. CASE UNCHANGED vars
  <2>1. UNCHANGED calm /\ UNCHANGED <<redis, epochs, reader, flights>>
    BY <1>1 DEF vars, calm
  <2>2. Counted' /\ AdminsSound' /\ ClosedSound' /\ ShowsGoesOn
    BY <1>1 DEF vars, Inv, Counted, AdminsSound, ClosedSound, Drained, ShowsGoesOn, Shows, Excused
  <2> QED
    BY <2>1, <2>2, DatabaseStep DEF calm
<1>2. ASSUME NEW a \in Admins, Mutation(a) PROVE Inv'
  BY <1>2, StartsInv, RollbackInv, CommitInv, CommitUnheardInv, InvalidateInv, InvalidateFailsInv
     DEF Mutation
<1>3. ASSUME NEW r \in Readers, Acquire(r) PROVE Inv'
  BY <1>3, BeginInv, AskInv, AskFailsInv, AnswerInv, MissInv, LeaveInv DEF Acquire
<1>4. ASSUME NEW f \in flights, Flight(f) PROVE Inv'
  BY <1>4, LoadInv, PublishInv, SettleInv, FlightFailsInv DEF Flight
<1>5. CASE Decide \/ Repair \/ Expire \/ LoseControl \/ TakeBackup \/ Restore \/ RepairAll
  BY <1>5, DecideInv, RepairInv, ExpireInv, LoseControlInv, TakeBackupInv, RestoreInv, RepairAllInv
<1> QED
  BY <1>1, <1>2, <1>3, <1>4, <1>5 DEF Next

LEMMA AlwaysInv == Spec => []Inv
BY InitInv, StepInv, PTL DEF Spec

\* Once somebody was told that a change is in effect, no acquire that begins
\* after that returns an older configuration, however many mutations, repairs,
\* losses of the control and restores there are.
THEOREM NoStaleAnswers == Spec => []AcquiredIsCurrent
BY AlwaysInv, InvCurrent, PTL

\* With no mutation under way and none that ended in an error, what the cache
\* holds under its control is what the database holds.
THEOREM NoSilentStaleness == Spec => []StaleIsKnown
BY AlwaysInv, InvStale, PTL

-----------------------------------------------------------------------------
(* The type, with its bounds.                                              *)
(*                                                                         *)
(* An epoch is used up when the control is rebuilt, and it is rebuilt only *)
(* after an incident; a generation is spent by a mutation that ends, and   *)
(* each mutation ends once.                                                *)

Busy == {a \in Admins : admin[a].pc # "idle"}
Spent == used.mutations + used.incidents

InBounds(c) == c.epoch \in 1..epochs /\ c.generation + Cardinality(Busy) <= Spent

ControlBounded(c) == c # None => c \in ControlType /\ InBounds(c)
PayloadBounded(p) == p # None => p \in PayloadType /\ InBounds(p.control) /\ p.value <= MaxVersion
StoreBounded(x) == ControlBounded(x.control) /\ PayloadBounded(x.payload)

CountersSound ==
    /\ used \in [mutations : 0..MaxMutations, incidents : 0..MaxIncidents]
    /\ IsFiniteSet(Busy)
    /\ Cardinality(Busy) <= used.mutations
    /\ db <= MaxVersion
    /\ epochs <= 1 + used.incidents
    /\ redis.control = None \/ ~open => epochs <= used.incidents

VersionsSound == \A a \in Admins : admin[a].version <= MaxVersion

ReaderBounded(x) ==
    /\ ControlBounded(x.control) /\ PayloadBounded(x.seen)
    /\ x.value <= MaxVersion
    /\ x.pc \in {"ask", "answer", "wait"} => x.process \in Processes

FlightBounded(f) == ControlBounded(f.control) /\ f.value <= MaxVersion /\ f.process \in Processes

ReadersBounded == \A r \in Readers : ReaderBounded(reader[r])
FlightsBounded == \A f \in flights : FlightBounded(f)

Awaited == \A r \in Readers : reader[r].pc = "wait" => \E f \in flights : Shared(f, r)

Bounds ==
    /\ CountersSound /\ StoreBounded(redis) /\ StoreBounded(backup) /\ VersionsSound
    /\ ReadersBounded /\ FlightsBounded /\ Awaited

LEMMA BoundsType == Inv /\ Bounds => TypeOK
<1> SUFFICES ASSUME Inv, Bounds PROVE TypeOK
  OBVIOUS
<1>1. /\ MaxVersion \in Nat /\ MaxMutations \in Nat /\ MaxIncidents \in Nat
      /\ used.mutations \in 0..MaxMutations /\ used.incidents \in 0..MaxIncidents
      /\ epochs \in Nat /\ epochs <= 1 + MaxIncidents
  BY ClientSnapshotAssumption DEF Inv, Counted, Bounds, CountersSound
<1>2. Cardinality(Epochs) = 1 + MaxIncidents
  <2>1. 1 \in Int /\ 1 + MaxIncidents \in Int /\ ~(1 > 1 + MaxIncidents)
    BY <1>1
  <2>2. (1 + MaxIncidents) - 1 + 1 = 1 + MaxIncidents
    BY <1>1
  <2> QED
    BY <2>1, <2>2, FS_Interval DEF Epochs
<1>3. Cardinality(Busy) \in Nat
  BY FS_CardinalityType DEF Bounds, CountersSound
<1>4. ASSUME NEW c \in ControlType, InBounds(c) PROVE c \in Controls
  <2>1. c.epoch \in Nat /\ c.generation \in Nat /\ c.epoch >= 1 /\ c.epoch <= epochs
    BY <1>1, <1>4 DEF ControlType, InBounds
  <2>2. c.generation + Cardinality(Busy) <= used.mutations + used.incidents
    BY <1>4 DEF InBounds, Spent
  <2>3. c.epoch \in Epochs /\ c.generation \in Generations
    BY <1>1, <1>3, <2>1, <2>2 DEF Epochs, Generations
  <2> QED
    BY <2>3 DEF ControlType, Controls
<1>5. ASSUME NEW c, ControlBounded(c) PROVE c \in Controls \cup {None}
  BY <1>4, <1>5 DEF ControlBounded
<1>6. ASSUME NEW p, PayloadBounded(p) PROVE p \in Payloads \cup {None}
  <2> SUFFICES ASSUME p # None PROVE p \in Payloads
    OBVIOUS
  <2>1. p \in PayloadType /\ p.control \in Controls /\ p.value \in 0..MaxVersion
    BY <1>1, <1>4, <1>6 DEF PayloadBounded, PayloadType
  <2> QED
    BY <2>1 DEF PayloadType, Payloads
<1>7. {db, told} \subseteq 0..MaxVersion /\ epochs \in 0..Cardinality(Epochs)
  BY <1>1, <1>2 DEF Inv, Counted, Bounds, CountersSound
<1>8. {doubt, open, warned} \subseteq BOOLEAN
  <2>1. doubt \in BOOLEAN /\ open \in BOOLEAN /\ warned \in BOOLEAN
    BY Zenon DEF Inv, Counted
  <2> QED
    BY <2>1, Zenon
<1>9. ASSUME NEW x \in RedisType, StoreBounded(x)
      PROVE  x \in [control : Controls \cup {None}, payload : Payloads \cup {None}]
  <2>1. x.control \in Controls \cup {None} /\ x.payload \in Payloads \cup {None}
    BY <1>5, <1>6, <1>9 DEF StoreBounded
  <2> QED
    BY <2>1 DEF RedisType
<1>10. {redis, backup} \subseteq [control : Controls \cup {None}, payload : Payloads \cup {None}]
  BY <1>9 DEF Inv, RedisSound, Bounds
<1>11. admin \in [Admins -> [pc : {"idle", "transaction", "committed", "unknown"},
                             version : 0..MaxVersion]]
  BY <1>1 DEF Inv, AdminsSound, AdminType, Bounds, VersionsSound
<1>12. ASSUME NEW r \in Readers
       PROVE  reader[r] \in [pc : {"idle", "ask", "answer", "wait", "done"},
                             process : Processes \cup {None}, attempt : 0..2,
                             need : 0..MaxVersion, control : Controls \cup {None},
                             seen : Payloads \cup {None}, value : 0..MaxVersion]
  <2>1. PICK x : x = reader[r]
    OBVIOUS
  <2>2. x \in ReaderType /\ ReaderBounded(x) /\ x.need <= told
    BY <2>1 DEF Inv, ReadersSound, ReaderSound, Bounds, ReadersBounded
  <2>3. x.need \in 0..MaxVersion /\ x.value \in 0..MaxVersion
    BY <1>1, <1>7, <2>2 DEF ReaderType, ReaderBounded, Inv, Counted
  <2>4. x.control \in Controls \cup {None} /\ x.seen \in Payloads \cup {None}
    BY <1>5, <1>6, <2>2 DEF ReaderBounded
  <2> QED
    BY <2>1, <2>2, <2>3, <2>4 DEF ReaderType
<1>13. reader \in [Readers -> [pc : {"idle", "ask", "answer", "wait", "done"},
                               process : Processes \cup {None}, attempt : 0..2,
                               need : 0..MaxVersion, control : Controls \cup {None},
                               seen : Payloads \cup {None}, value : 0..MaxVersion]]
  BY <1>12 DEF Inv, ReadersSound
<1>14. ASSUME NEW f \in flights
       PROVE  f \in [process : Processes, control : Controls,
                     pc : {"load", "publish", "published", "conflict"}, value : 0..MaxVersion]
  <2>1. f \in FlightType /\ FlightBounded(f)
    BY DEF Inv, FlightsSound, FlightSound, Bounds, FlightsBounded
  <2>2. f.control # None
    BY <2>1, NoneAssumption DEF FlightType, ControlType
  <2>3. f.control \in Controls /\ f.value \in 0..MaxVersion /\ f.process \in Processes
    BY <1>1, <1>5, <2>1, <2>2 DEF FlightType, FlightBounded
  <2> QED
    BY <2>1, <2>3 DEF FlightType
<1> QED
  BY <1>7, <1>8, <1>10, <1>11, <1>13, <1>14 DEF TypeOK, Bounds, Awaited

\* What is in bounds stays in bounds.
InBoundsGoesOn == \A c \in ControlType : InBounds(c) => InBounds(c)'

LEMMA BoundedGoesOn ==
    ASSUME InBoundsGoesOn
    PROVE  /\ \A c : ControlBounded(c) => ControlBounded(c)'
           /\ \A p : PayloadBounded(p) => PayloadBounded(p)'
           /\ \A x : StoreBounded(x) => StoreBounded(x)'
           /\ \A x : ReaderBounded(x) => ReaderBounded(x)'
           /\ \A f : FlightBounded(f) => FlightBounded(f)'
<1>1. \A c : ControlBounded(c) => ControlBounded(c)'
  BY DEF InBoundsGoesOn, ControlBounded
<1>2. \A p : PayloadBounded(p) => PayloadBounded(p)'
  BY DEF InBoundsGoesOn, PayloadBounded, PayloadType
<1> QED
  BY <1>1, <1>2 DEF StoreBounded, ReaderBounded, FlightBounded

\* The counters of a step that no mutation takes.
LEMMA CountersGoOn ==
    ASSUME Inv, Bounds, UNCHANGED <<admin, used, db>>, epochs' \in Nat, epochs <= epochs',
           epochs' <= 1 + used.incidents,
           redis'.control = None \/ ~open' => epochs' <= used.incidents
    PROVE  CountersSound' /\ InBoundsGoesOn
<1>1. CountersSound'
  BY DEF Bounds, CountersSound, Busy
<1>2. InBoundsGoesOn
  BY DEF InBoundsGoesOn, InBounds, Busy, Spent, Inv, Counted, ControlType
<1> QED
  BY <1>1, <1>2

LEMMA CalmCounters ==
    ASSUME Inv, Bounds, UNCHANGED <<admin, used, db, epochs, open>>,
           redis'.control = None => redis.control = None
    PROVE  CountersSound' /\ InBoundsGoesOn
BY CountersGoOn DEF Inv, Counted, Bounds, CountersSound

\* Readers and loads do not notice.
LEMMA StoreStep ==
    ASSUME Bounds, UNCHANGED <<reader, flights>>, CountersSound', InBoundsGoesOn,
           StoreBounded(redis)', StoreBounded(backup)', VersionsSound'
    PROVE  Bounds'
<1>1. ReadersBounded' /\ FlightsBounded'
  BY BoundedGoesOn DEF Bounds, ReadersBounded, FlightsBounded
<1>2. Awaited'
  BY DEF Bounds, Awaited, Shared
<1> QED
  BY <1>1, <1>2 DEF Bounds

\* A mutation begins, for one more that is counted.
LEMMA StartsBounds == ASSUME Inv, Bounds, NEW a \in Admins, Starts(a) PROVE Bounds'
<1>1. UNCHANGED <<db, doubt, redis, epochs, backup, open, reader, flights, told, warned>>
  BY DEF Starts
<1>2. /\ used.mutations \in Nat /\ used.incidents \in Nat /\ epochs \in Nat
      /\ MaxMutations \in Nat /\ used.mutations < MaxMutations
  BY ClientSnapshotAssumption DEF Starts, Inv, Counted, Bounds, CountersSound
<1>3. /\ used' \in [mutations : 0..MaxMutations, incidents : 0..MaxIncidents]
      /\ used'.mutations = used.mutations + 1 /\ used'.incidents = used.incidents
  BY <1>2 DEF Starts, Bounds, CountersSound
<1>4. /\ admin' \in [Admins -> AdminType] /\ admin[a].pc = "idle" /\ admin'[a].pc = "transaction"
      /\ \A b \in Admins : admin'[b].version = admin[b].version
      /\ \A b \in Admins : b # a => admin'[b] = admin[b]
  BY DEF Starts, Inv, AdminsSound, AdminType
<1>5. PICK B : B = Busy
  OBVIOUS
<1>6. Busy' = B \cup {a} /\ a \notin B
  BY <1>4, <1>5 DEF Busy
<1>7. IsFiniteSet(B) /\ Cardinality(B) \in Nat /\ Cardinality(B) <= used.mutations
  BY <1>5, FS_CardinalityType DEF Bounds, CountersSound
<1>8. IsFiniteSet(B \cup {a}) /\ Cardinality(B \cup {a}) = Cardinality(B) + 1
  BY <1>6, <1>7, FS_AddElement
<1>9. CountersSound'
  BY <1>1, <1>2, <1>3, <1>6, <1>7, <1>8 DEF Bounds, CountersSound
<1>10. InBoundsGoesOn
  BY <1>1, <1>2, <1>3, <1>5, <1>6, <1>7, <1>8 DEF InBoundsGoesOn, InBounds, Spent, ControlType
<1>11. VersionsSound'
  BY <1>4 DEF Bounds, VersionsSound
<1>12. StoreBounded(redis)' /\ StoreBounded(backup)'
  BY <1>1, <1>10, BoundedGoesOn DEF Bounds, StoreBounded, ControlBounded, PayloadBounded, InBounds
<1> QED
  BY <1>1, <1>9, <1>10, <1>11, <1>12, StoreStep

\* A mutation that goes on, and the database with it.
LEMMA CommitsBounds ==
    ASSUME Inv, Bounds,
           \/ \E a \in Admins : Commit(a) \/ CommitUnheard(a)
           \/ Decide
    PROVE  Bounds'
<1>1. UNCHANGED <<redis, epochs, backup, open, reader, flights, told, used>>
  BY DEF Commit, CommitUnheard, Decide, environment
<1>2. db' \in Nat /\ db' <= MaxVersion
  BY ClientSnapshotAssumption
     DEF Commit, CommitUnheard, Decide, NextVersions, Inv, Counted, Bounds, CountersSound
<1>3. VersionsSound' /\ Busy' = Busy
  <2>1. ASSUME NEW a \in Admins, Commit(a) PROVE VersionsSound' /\ Busy' = Busy
    <3>1. \A b \in Admins : admin'[b] = IF b = a THEN [pc |-> "committed", version |-> db'] ELSE admin[b]
      BY <2>1 DEF Commit, Inv, AdminsSound
    <3>2. admin[a].pc = "transaction"
      BY <2>1 DEF Commit
    <3>3. VersionsSound'
      BY <1>2, <3>1 DEF Bounds, VersionsSound
    <3>4. \A b \in Admins : (admin'[b].pc # "idle") <=> (admin[b].pc # "idle")
      BY <3>1, <3>2
    <3> QED
      BY <3>3, <3>4 DEF Busy
  <2>2. ASSUME NEW a \in Admins, CommitUnheard(a) PROVE VersionsSound' /\ Busy' = Busy
    <3>1. /\ \A b \in Admins : admin'[b].version = admin[b].version
          /\ \A b \in Admins : b # a => admin'[b] = admin[b]
          /\ admin[a].pc = "transaction" /\ admin'[a].pc = "unknown"
      BY <2>2 DEF CommitUnheard, Inv, AdminsSound, AdminType
    <3>2. VersionsSound'
      BY <3>1 DEF Bounds, VersionsSound
    <3>3. \A b \in Admins : (admin'[b].pc # "idle") <=> (admin[b].pc # "idle")
      BY <3>1
    <3> QED
      BY <3>2, <3>3 DEF Busy
  <2>3. CASE Decide
    BY <2>3 DEF Decide, Bounds, VersionsSound, Busy
  <2> QED
    BY <2>1, <2>2, <2>3
<1>4. CountersSound'
  BY <1>1, <1>2, <1>3 DEF Bounds, CountersSound
<1>5. InBoundsGoesOn
  BY <1>1, <1>3 DEF InBoundsGoesOn, InBounds, Spent
<1>6. StoreBounded(redis)' /\ StoreBounded(backup)'
  BY <1>1, <1>5, BoundedGoesOn DEF Bounds, StoreBounded, ControlBounded, PayloadBounded, InBounds
<1> QED
  BY <1>1, <1>3, <1>4, <1>5, <1>6, StoreStep

\* A mutation ends: it may spend a generation.
LEMMA EndsFacts ==
    ASSUME Inv, Bounds, NEW a \in Admins, admin[a].pc # "idle",
           admin' = [admin EXCEPT ![a] = Idle], UNCHANGED used
    PROVE  /\ VersionsSound'
           /\ IsFiniteSet(Busy') /\ Cardinality(Busy)' \in Nat /\ Cardinality(Busy) \in Nat
           /\ Cardinality(Busy) = Cardinality(Busy)' + 1
           /\ Cardinality(Busy)' <= used'.mutations
<1>1. /\ \A b \in Admins : b # a => admin'[b] = admin[b]
      /\ admin'[a].pc = "idle" /\ admin'[a].version = 0
  BY DEF Inv, AdminsSound, Idle
<1>2. VersionsSound'
  BY <1>1, ClientSnapshotAssumption DEF Bounds, VersionsSound
<1>3. PICK B : B = Busy
  OBVIOUS
<1>4. Busy' = B \ {a} /\ a \in B
  BY <1>1, <1>3 DEF Busy
<1>5. IsFiniteSet(B) /\ Cardinality(B) \in Nat /\ Cardinality(B) <= used.mutations
  BY <1>3, FS_CardinalityType DEF Bounds, CountersSound
<1>6. /\ IsFiniteSet(B \ {a}) /\ Cardinality(B \ {a}) = Cardinality(B) - 1
      /\ Cardinality(B \ {a}) \in Nat
  BY <1>4, <1>5, FS_RemoveElement, FS_CardinalityType
<1>7. used.mutations \in Nat
  BY DEF Bounds, CountersSound
<1> QED
  BY <1>2, <1>3, <1>4, <1>5, <1>6, <1>7

\* The control is rebuilt, in an epoch that an incident allows, or moves on by
\* the generation of the mutation that ends or of the incident.
LEMMA InvalidationBounds ==
    ASSUME Inv, Bounds, Runs(Invalidated), UNCHANGED <<db, reader, flights, backup, open>>, open,
           VersionsSound', IsFiniteSet(Busy'), Cardinality(Busy)' \in Nat, Cardinality(Busy) \in Nat,
           Cardinality(Busy)' <= used'.mutations,
           used' \in [mutations : 0..MaxMutations, incidents : 0..MaxIncidents],
           used.incidents <= used'.incidents,
           Spent' \in Nat, Spent \in Nat, Cardinality(Busy)' + 1 + Spent <= Cardinality(Busy) + Spent'
    PROVE  Bounds'
<1>1. /\ epochs \in Nat /\ epochs' \in Nat /\ epochs <= epochs'
      /\ used.incidents \in Nat /\ used'.incidents \in Nat /\ used'.mutations \in Nat
      /\ epochs <= 1 + used.incidents
  BY DEF Runs, Inv, Counted, Bounds, CountersSound
<1>2. InBoundsGoesOn
  BY <1>1 DEF InBoundsGoesOn, InBounds, ControlType
<1>3. CASE redis.control = None
  <2>1. epochs' = epochs + 1 /\ epochs <= used.incidents /\ redis' = Bootstrapped
    BY <1>3 DEF Runs, Invalidated, Bounds, CountersSound
  <2>2. PICK n \in Nat : n = epochs + 1
    BY <1>1
  <2>3. PICK c : c = [epoch |-> n, generation |-> 0]
    OBVIOUS
  <2>4. c \in ControlType /\ c.epoch = n /\ c.generation = 0 /\ c # None
    BY <2>3, NoneAssumption DEF ControlType
  <2>5. redis' = [control |-> c, payload |-> None]
    BY <2>1, <2>2, <2>3 DEF Bootstrapped, FreshEpoch
  <2>6. InBounds(c)'
    BY <1>1, <2>1, <2>2, <2>4 DEF InBounds, Spent
  <2>7. StoreBounded(redis)'
    BY <2>4, <2>5, <2>6 DEF StoreBounded, ControlBounded, PayloadBounded, InBounds
  <2>8. CountersSound'
    BY <1>1, <2>1, <2>4, <2>5 DEF Bounds, CountersSound
  <2>9. StoreBounded(backup)'
    BY <1>2, BoundedGoesOn DEF Bounds, StoreBounded, ControlBounded, PayloadBounded, InBounds
  <2> QED
    BY <1>2, <2>7, <2>8, <2>9, StoreStep
<1>4. CASE redis.control # None
  <2>1. redis.control \in ControlType /\ InBounds(redis.control) /\ epochs' = epochs
    BY <1>4 DEF Bounds, StoreBounded, ControlBounded, Runs
  <2>2. PICK n \in Nat : n = redis.control.generation + 1
    BY <2>1 DEF ControlType
  <2>3. PICK c : c = [redis.control EXCEPT !.generation = n]
    OBVIOUS
  <2>4. c \in ControlType /\ c.epoch = redis.control.epoch /\ c.generation = n /\ c # None
    BY <2>1, <2>3, NoneAssumption DEF ControlType
  <2>5. redis' = [control |-> c, payload |-> None]
    BY <1>4, <2>2, <2>3 DEF Runs, Invalidated
  <2>6. InBounds(c)'
    BY <2>1, <2>2, <2>4 DEF InBounds, ControlType
  <2>7. StoreBounded(redis)'
    BY <2>4, <2>5, <2>6 DEF StoreBounded, ControlBounded, PayloadBounded, InBounds
  <2>8. CountersSound'
    BY <1>1, <2>1, <2>4, <2>5 DEF Bounds, CountersSound
  <2>9. StoreBounded(backup)'
    BY <1>2, BoundedGoesOn DEF Bounds, StoreBounded, ControlBounded, PayloadBounded, InBounds
  <2> QED
    BY <1>2, <2>7, <2>8, <2>9, StoreStep
<1> QED
  BY <1>3, <1>4

LEMMA EndsBounds ==
    ASSUME Inv, Bounds, NEW a \in Admins, Rollback(a) \/ Invalidate(a) \/ InvalidateFails(a)
    PROVE  Bounds'
<1>1. /\ UNCHANGED <<db, reader, flights, backup, open, used>> /\ admin' = [admin EXCEPT ![a] = Idle]
      /\ admin[a].pc # "idle"
      /\ UNCHANGED <<redis, epochs>> \/ Runs(Invalidated)
  BY DEF Rollback, Invalidate, InvalidateFails, Untouched, environment, EndsInError,
         Inv, Counted, AdminsSound
<1>2. /\ VersionsSound'
      /\ IsFiniteSet(Busy') /\ Cardinality(Busy)' \in Nat /\ Cardinality(Busy) \in Nat
      /\ Cardinality(Busy) = Cardinality(Busy)' + 1
      /\ Cardinality(Busy)' <= used'.mutations
  BY <1>1, EndsFacts
<1>3. /\ used \in [mutations : 0..MaxMutations, incidents : 0..MaxIncidents]
      /\ Spent \in Nat /\ Spent' = Spent /\ used.incidents \in Nat /\ open
  BY <1>1, AdminClosed DEF Bounds, CountersSound, Spent
<1>4. CASE Runs(Invalidated)
  BY <1>1, <1>2, <1>3, <1>4, InvalidationBounds
<1>5. CASE UNCHANGED <<redis, epochs>>
  <2>1. CountersSound'
    BY <1>1, <1>2, <1>3, <1>5 DEF Bounds, CountersSound
  <2>2. InBoundsGoesOn
    BY <1>2, <1>3, <1>5 DEF InBoundsGoesOn, InBounds, ControlType
  <2>3. StoreBounded(redis)' /\ StoreBounded(backup)'
    BY <1>1, <1>5, <2>2, BoundedGoesOn DEF Bounds, StoreBounded, ControlBounded, PayloadBounded, InBounds
  <2> QED
    BY <1>1, <1>2, <2>1, <2>2, <2>3, StoreStep
<1> QED
  BY <1>1, <1>4, <1>5

LEMMA RepairBounds == ASSUME Inv, Bounds, Repair PROVE Bounds'
<1>1. /\ UNCHANGED <<db, reader, flights, backup, open, admin>> /\ open /\ Runs(Invalidated)
      /\ used.mutations \in Nat /\ used.incidents \in Nat /\ used.incidents < MaxIncidents
      /\ MaxIncidents \in Nat
  BY ClientSnapshotAssumption DEF Repair, Bounds, CountersSound
<1>2. /\ used' \in [mutations : 0..MaxMutations, incidents : 0..MaxIncidents]
      /\ used'.mutations = used.mutations /\ used'.incidents = used.incidents + 1
  BY <1>1 DEF Repair, Bounds, CountersSound
<1>3. VersionsSound' /\ Busy' = Busy
  BY <1>1 DEF Bounds, VersionsSound, Busy
<1>4. IsFiniteSet(Busy) /\ Cardinality(Busy) \in Nat /\ Cardinality(Busy) <= used.mutations
  BY FS_CardinalityType DEF Bounds, CountersSound
<1>5. /\ IsFiniteSet(Busy') /\ Cardinality(Busy)' = Cardinality(Busy)
      /\ Cardinality(Busy)' \in Nat /\ Cardinality(Busy)' <= used'.mutations
  BY <1>2, <1>3, <1>4
<1>6. /\ Spent \in Nat /\ Spent' \in Nat /\ Spent' = Spent + 1 /\ used.incidents <= used'.incidents
      /\ Cardinality(Busy)' + 1 + Spent <= Cardinality(Busy) + Spent'
  BY <1>1, <1>2, <1>4, <1>5 DEF Spent
<1> QED
  BY <1>1, <1>2, <1>3, <1>4, <1>5, <1>6, InvalidationBounds

-----------------------------------------------------------------------------
(* Bounds, while Redis loses or gets back what it held.                    *)

LEMMA ExpireBounds == ASSUME Inv, Bounds, Expire PROVE Bounds'
<1>1. /\ UNCHANGED <<db, admin, reader, flights, epochs, backup, open, used>>
      /\ redis'.control = redis.control /\ redis'.payload = None
  BY DEF Expire, environment, Inv, RedisSound, RedisType
<1>2. CountersSound' /\ InBoundsGoesOn
  BY <1>1, CalmCounters
<1>3. StoreBounded(redis)' /\ StoreBounded(backup)'
  BY <1>1, <1>2, BoundedGoesOn DEF Bounds, StoreBounded, ControlBounded, PayloadBounded, InBounds
<1> QED
  BY <1>1, <1>2, <1>3, StoreStep DEF Bounds, VersionsSound

LEMMA TakeBackupBounds == ASSUME Inv, Bounds, TakeBackup PROVE Bounds'
<1>1. UNCHANGED <<db, admin, reader, flights, epochs, redis, open, used>> /\ backup' = redis
  BY DEF TakeBackup
<1>2. CountersSound' /\ InBoundsGoesOn
  BY <1>1, CalmCounters
<1>3. StoreBounded(redis)' /\ StoreBounded(backup)'
  BY <1>1, <1>2, BoundedGoesOn DEF Bounds, StoreBounded, ControlBounded, PayloadBounded, InBounds
<1> QED
  BY <1>1, <1>2, <1>3, StoreStep DEF Bounds, VersionsSound

\* One incident more, that allows one epoch more.
LEMMA IncidentCounters ==
    ASSUME Inv, Bounds, UNCHANGED <<db, admin, epochs>>, used.incidents < MaxIncidents,
           used' = [used EXCEPT !.incidents = @ + 1]
    PROVE  CountersSound' /\ InBoundsGoesOn
<1>1. /\ used.mutations \in Nat /\ used.incidents \in Nat /\ MaxIncidents \in Nat /\ epochs \in Nat
      /\ epochs <= 1 + used.incidents
  BY ClientSnapshotAssumption DEF Inv, Counted, Bounds, CountersSound
<1>2. /\ used' \in [mutations : 0..MaxMutations, incidents : 0..MaxIncidents]
      /\ used'.mutations = used.mutations /\ used'.incidents = used.incidents + 1
  BY <1>1 DEF Bounds, CountersSound
<1>3. Busy' = Busy /\ Cardinality(Busy) \in Nat
  BY FS_CardinalityType DEF Bounds, CountersSound, Busy
<1>4. CountersSound'
  BY <1>1, <1>2, <1>3 DEF Bounds, CountersSound
<1>5. InBoundsGoesOn
  BY <1>1, <1>2, <1>3 DEF InBoundsGoesOn, InBounds, Spent, ControlType
<1> QED
  BY <1>4, <1>5

LEMMA LoseControlBounds == ASSUME Inv, Bounds, LoseControl PROVE Bounds'
<1>1. /\ UNCHANGED <<db, admin, reader, flights, epochs, backup, open>>
      /\ redis'.control = None /\ redis'.payload = redis.payload
  BY DEF LoseControl, Inv, RedisSound, RedisType
<1>2. CountersSound' /\ InBoundsGoesOn
  BY <1>1, IncidentCounters DEF LoseControl
<1>3. StoreBounded(redis)' /\ StoreBounded(backup)'
  BY <1>1, <1>2, BoundedGoesOn DEF Bounds, StoreBounded, ControlBounded, PayloadBounded, InBounds
<1> QED
  BY <1>1, <1>2, <1>3, StoreStep DEF Bounds, VersionsSound

LEMMA RestoreBounds == ASSUME Inv, Bounds, Restore PROVE Bounds'
<1>1. /\ UNCHANGED <<db, admin, reader, flights, epochs>>
      /\ redis' = backup /\ backup' = Empty
  BY DEF Restore
<1>2. CountersSound' /\ InBoundsGoesOn
  BY <1>1, IncidentCounters DEF Restore
<1>3. StoreBounded(redis)'
  BY <1>1, <1>2, BoundedGoesOn DEF Bounds, StoreBounded, ControlBounded, PayloadBounded, InBounds
<1>4. StoreBounded(backup)'
  BY <1>1 DEF Empty, StoreBounded, ControlBounded, PayloadBounded
<1> QED
  BY <1>1, <1>2, <1>3, <1>4, StoreStep DEF Bounds, VersionsSound

LEMMA RepairAllBounds == ASSUME Inv, Bounds, RepairAll PROVE Bounds'
<1>1. /\ UNCHANGED <<db, admin, reader, flights, epochs, backup, used>>
      /\ redis' = Empty /\ ~open
  BY DEF RepairAll, AllUnlinked
<1>2. epochs \in Nat /\ used.incidents \in Nat /\ epochs <= used.incidents
  BY <1>1 DEF Inv, Counted, Bounds, CountersSound
<1>3. CountersSound' /\ InBoundsGoesOn
  BY <1>1, <1>2, CountersGoOn
<1>4. StoreBounded(redis)'
  BY <1>1 DEF Empty, StoreBounded, ControlBounded, PayloadBounded
<1>5. StoreBounded(backup)'
  BY <1>1, <1>3, BoundedGoesOn DEF Bounds, StoreBounded, ControlBounded, PayloadBounded, InBounds
<1> QED
  BY <1>1, <1>3, <1>4, <1>5, StoreStep DEF Bounds, VersionsSound

-----------------------------------------------------------------------------
(* Bounds, of readers.                                                     *)

\* The control of Redis is one that is there, or a new one.
LEMMA AcquiredBounds ==
    ASSUME Inv, Bounds, open, UNCHANGED <<db, admin, backup, open, used>>,
           Runs(Acquired) \/ UNCHANGED <<redis, epochs>>
    PROVE  CountersSound' /\ InBoundsGoesOn /\ StoreBounded(redis)' /\ StoreBounded(backup)'
<1>1. CASE Runs(Acquired) /\ redis.control = None
  <2>1. /\ epochs \in Nat /\ used.incidents \in Nat /\ epochs <= used.incidents
        /\ epochs' = epochs + 1 /\ redis' = Bootstrapped
    BY <1>1 DEF Runs, Acquired, Inv, Counted, Bounds, CountersSound
  <2>2. PICK n \in Nat : n = epochs + 1
    BY <2>1
  <2>3. PICK c : c = [epoch |-> n, generation |-> 0]
    OBVIOUS
  <2>4. c \in ControlType /\ c.epoch = n /\ c.generation = 0 /\ c # None
    BY <2>3, NoneAssumption DEF ControlType
  <2>5. redis' = [control |-> c, payload |-> None]
    BY <2>1, <2>2, <2>3 DEF Bootstrapped, FreshEpoch
  <2>6. redis'.control # None /\ epochs' \in Nat /\ epochs <= epochs' /\ epochs' <= 1 + used.incidents
    BY <2>1, <2>4, <2>5
  <2>7. CountersSound' /\ InBoundsGoesOn
    BY <2>6, CountersGoOn
  <2>8. /\ Cardinality(Busy)' \in Nat /\ Cardinality(Busy)' <= used'.mutations
        /\ used'.mutations \in Nat /\ used'.incidents \in Nat
    BY <2>7, FS_CardinalityType DEF CountersSound
  <2>9. InBounds(c)'
    BY <2>1, <2>2, <2>4, <2>8 DEF InBounds, Spent
  <2>10. StoreBounded(redis)'
    BY <2>4, <2>5, <2>9 DEF StoreBounded, ControlBounded, PayloadBounded, InBounds
  <2>11. StoreBounded(backup)'
    BY <2>7, BoundedGoesOn DEF Bounds, StoreBounded, ControlBounded, PayloadBounded, InBounds
  <2> QED
    BY <2>7, <2>10, <2>11
<1>2. CASE UNCHANGED <<redis, epochs>>
  <2>1. CountersSound' /\ InBoundsGoesOn
    BY <1>2, CalmCounters
  <2>2. StoreBounded(redis)' /\ StoreBounded(backup)'
    BY <1>2, <2>1, BoundedGoesOn DEF Bounds, StoreBounded, ControlBounded, PayloadBounded, InBounds
  <2> QED
    BY <2>1, <2>2
<1>3. Runs(Acquired) /\ redis.control # None => UNCHANGED <<redis, epochs>>
  BY DEF Runs, Acquired
<1> QED
  BY <1>1, <1>2, <1>3

\* One reader takes a step.
LEMMA ReaderStepBounds ==
    ASSUME Inv, Bounds, UNCHANGED admin, CountersSound', InBoundsGoesOn,
           StoreBounded(redis)', StoreBounded(backup)',
           NEW r \in Readers, NEW x, reader' = [reader EXCEPT ![r] = x], ReaderBounded(x)',
           flights \subseteq flights', \A f \in flights' \ flights : FlightBounded(f)',
           x.pc = "wait" =>
              \E f \in flights' : f.process = x.process /\ f.control = x.control
    PROVE  Bounds'
<1>1. \A q \in Readers : reader'[q] = IF q = r THEN x ELSE reader[q]
  BY DEF Inv, ReadersSound
<1>2. VersionsSound'
  BY DEF Bounds, VersionsSound
<1>3. ASSUME NEW q \in Readers PROVE ReaderBounded(reader[q])'
  <2>1. CASE q = r
    BY <1>1, <2>1 DEF ReaderBounded, ControlBounded, PayloadBounded, InBounds
  <2>2. CASE q # r
    <3>1. reader'[q] = reader[q] /\ ReaderBounded(reader[q])
      BY <1>1, <2>2 DEF Bounds, ReadersBounded
    <3> QED
      BY <3>1, BoundedGoesOn DEF ReaderBounded, ControlBounded, PayloadBounded, InBounds
  <2> QED
    BY <2>1, <2>2
<1>4. FlightsBounded'
  BY BoundedGoesOn DEF Bounds, FlightsBounded
<1>5. Awaited'
  BY <1>1 DEF Bounds, Awaited, Shared
<1> QED
  BY <1>2, <1>3, <1>4, <1>5 DEF Bounds, ReadersBounded

LEMMA RestingBounded == ReaderBounded(Resting)'
BY ClientSnapshotAssumption DEF Resting, ReaderBounded, ControlBounded, PayloadBounded

LEMMA AskBounds == ASSUME Inv, Bounds, NEW r \in Readers, Ask(r) PROVE Bounds'
<1>1. UNCHANGED <<db, admin, flights, backup, open, used, told>> /\ Runs(Acquired) /\ open
  BY ReaderOpen DEF Ask
<1>2. CountersSound' /\ InBoundsGoesOn /\ StoreBounded(redis)' /\ StoreBounded(backup)'
  BY <1>1, AcquiredBounds
<1>3. PICK y : y = reader[r]
  OBVIOUS
<1>4. y \in ReaderType /\ ReaderBounded(y) /\ y.pc = "ask"
  BY <1>3 DEF Inv, ReadersSound, Bounds, ReadersBounded, Ask
<1>5. PICK c : c = redis'.control
  OBVIOUS
<1>6. PICK s : s = redis'.payload
  OBVIOUS
<1>7. PICK x : x = [y EXCEPT !.pc = "answer", !.control = c, !.seen = s]
  OBVIOUS
<1>8. /\ x.pc = "answer" /\ x.control = c /\ x.seen = s
      /\ x.value = y.value /\ x.process = y.process
  BY <1>4, <1>7 DEF ReaderType
<1>9. ControlBounded(c)' /\ PayloadBounded(s)'
  BY <1>2, <1>5, <1>6 DEF StoreBounded, ControlBounded, PayloadBounded, InBounds
<1>10. ReaderBounded(x)'
  BY <1>4, <1>8, <1>9 DEF ReaderBounded, ControlBounded, PayloadBounded, InBounds
<1>11. reader' = [reader EXCEPT ![r] = x]
  BY <1>1, <1>3, <1>5, <1>6, <1>7 DEF Ask, Runs
<1> QED
  BY <1>1, <1>2, <1>8, <1>10, <1>11, ReaderStepBounds

LEMMA AskFailsBounds == ASSUME Inv, Bounds, NEW r \in Readers, AskFails(r) PROVE Bounds'
<1>1. /\ UNCHANGED <<db, admin, flights, backup, open, used>> /\ open
      /\ Runs(Acquired) \/ UNCHANGED <<redis, epochs>>
  BY ReaderOpen DEF AskFails, Untouched
<1>2. CountersSound' /\ InBoundsGoesOn /\ StoreBounded(redis)' /\ StoreBounded(backup)'
  BY <1>1, AcquiredBounds
<1>3. Resting.pc = "idle"
  BY DEF Resting
<1> QED
  BY <1>1, <1>2, <1>3, RestingBounded, ReaderStepBounds DEF AskFails

\* What only a reader does leaves the rest in bounds.
LEMMA RestBounds ==
    ASSUME Inv, Bounds, UNCHANGED <<db, redis, admin, epochs, backup, open, used>>
    PROVE  CountersSound' /\ InBoundsGoesOn /\ StoreBounded(redis)' /\ StoreBounded(backup)'
<1>1. CountersSound' /\ InBoundsGoesOn
  BY CalmCounters
<1>2. StoreBounded(redis)' /\ StoreBounded(backup)'
  BY <1>1, BoundedGoesOn DEF Bounds, StoreBounded, ControlBounded, PayloadBounded, InBounds
<1> QED
  BY <1>1, <1>2

LEMMA PassingBounds ==
    ASSUME Inv, Bounds, NEW r \in Readers,
           (\E p \in Processes : Begin(r, p)) \/ Answer(r) \/ Leave(r)
    PROVE  Bounds'
<1>1. UNCHANGED <<db, redis, admin, epochs, backup, open, used, flights>>
  BY DEF Begin, Answer, Leave, environment
<1>2. CountersSound' /\ InBoundsGoesOn /\ StoreBounded(redis)' /\ StoreBounded(backup)'
  BY <1>1, RestBounds
<1>3. ASSUME NEW p \in Processes, Begin(r, p) PROVE Bounds'
  <2>1. PICK n : n = told
    OBVIOUS
  <2>2. PICK x : x = [Resting EXCEPT !.pc = "ask", !.process = p, !.attempt = 1, !.need = n]
    OBVIOUS
  <2>3. /\ x.pc = "ask" /\ x.process = p /\ x.control = None /\ x.seen = None /\ x.value = 0
    BY <2>2 DEF Resting
  <2>4. ReaderBounded(x)'
    BY <2>3, ClientSnapshotAssumption DEF ReaderBounded, ControlBounded, PayloadBounded
  <2>5. reader' = [reader EXCEPT ![r] = x]
    BY <1>3, <2>1, <2>2 DEF Begin
  <2> QED
    BY <1>1, <1>2, <2>3, <2>4, <2>5, ReaderStepBounds
<1>4. CASE Answer(r)
  <2>1. ReaderBounded(reader[r]) /\ reader[r].seen # None
    BY <1>4 DEF Bounds, ReadersBounded, Answer, Hit
  <2>2. PICK v : v = reader[r].seen.value
    OBVIOUS
  <2>3. v <= MaxVersion
    BY <2>1, <2>2 DEF ReaderBounded, PayloadBounded
  <2>4. PICK n : n = reader[r].need
    OBVIOUS
  <2>5. PICK x : x = [Resting EXCEPT !.pc = "done", !.need = n, !.value = v]
    OBVIOUS
  <2>6. x.pc = "done" /\ x.control = None /\ x.seen = None /\ x.value = v
    BY <2>5 DEF Resting
  <2>7. ReaderBounded(x)'
    BY <2>3, <2>6 DEF ReaderBounded, ControlBounded, PayloadBounded
  <2>8. reader' = [reader EXCEPT ![r] = x]
    BY <1>4, <2>2, <2>4, <2>5 DEF Answer, Finished
  <2> QED
    BY <1>1, <1>2, <2>6, <2>7, <2>8, ReaderStepBounds
<1>5. CASE Leave(r)
  <2>1. Resting.pc = "idle"
    BY DEF Resting
  <2> QED
    BY <1>1, <1>2, <1>5, <2>1, RestingBounded, ReaderStepBounds DEF Leave
<1> QED
  BY <1>3, <1>4, <1>5

LEMMA MissBounds == ASSUME Inv, Bounds, NEW r \in Readers, Miss(r) PROVE Bounds'
<1>1. UNCHANGED <<db, redis, admin, epochs, backup, open, used>>
  BY DEF Miss, environment
<1>2. CountersSound' /\ InBoundsGoesOn /\ StoreBounded(redis)' /\ StoreBounded(backup)'
  BY <1>1, RestBounds
<1>3. PICK y : y = reader[r]
  OBVIOUS
<1>4. y \in ReaderType /\ ReaderBounded(y) /\ y.pc = "answer"
  BY <1>3 DEF Inv, ReadersSound, Bounds, ReadersBounded, Miss
<1>5. PICK x : x = [y EXCEPT !.pc = "wait", !.seen = None]
  OBVIOUS
<1>6. /\ x.pc = "wait" /\ x.control = y.control /\ x.seen = None
      /\ x.value = y.value /\ x.process = y.process
  BY <1>4, <1>5 DEF ReaderType
<1>7. ControlBounded(y.control)'
  BY <1>2, <1>4, BoundedGoesOn DEF ReaderBounded, ControlBounded, InBounds
<1>8. ReaderBounded(x)'
  BY <1>4, <1>6, <1>7 DEF ReaderBounded, ControlBounded, PayloadBounded, InBounds
<1>9. PICK f : f = [process |-> y.process, control |-> y.control, pc |-> "load", value |-> 0]
  OBVIOUS
<1>10. FlightBounded(f)'
  BY <1>4, <1>7, <1>9, ClientSnapshotAssumption
     DEF FlightBounded, ReaderBounded, ControlBounded, InBounds
<1>11. /\ flights \subseteq flights' /\ \A g \in flights' \ flights : g = f
       /\ \E g \in flights' : g.process = x.process /\ g.control = x.control
  <2>1. CASE \E g \in flights : Shared(g, r)
    BY <1>3, <1>6, <2>1 DEF Miss, Shared
  <2>2. CASE ~\E g \in flights : Shared(g, r)
    <3>1. flights' = flights \cup {f}
      BY <1>3, <1>9, <2>2 DEF Miss
    <3> QED
      BY <1>6, <1>9, <3>1
  <2> QED
    BY <2>1, <2>2
<1>12. reader' = [reader EXCEPT ![r] = x]
  BY <1>3, <1>5 DEF Miss
<1>13. \A g \in flights' \ flights : FlightBounded(g)'
  BY <1>10, <1>11 DEF FlightBounded, ControlBounded, InBounds
<1> QED
  BY <1>1, <1>2, <1>8, <1>11, <1>12, <1>13, ReaderStepBounds

-----------------------------------------------------------------------------
(* Bounds, of loads.                                                       *)

\* One load takes a step, for the same readers.
LEMMA FlightStepBounds ==
    ASSUME Inv, Bounds, UNCHANGED <<admin, reader>>, CountersSound', InBoundsGoesOn,
           StoreBounded(redis)', StoreBounded(backup)',
           NEW f \in flights, NEW g, flights' = (flights \ {f}) \cup {g},
           g.process = f.process, g.control = f.control, g.value <= MaxVersion
    PROVE  Bounds'
<1>1. VersionsSound'
  BY DEF Bounds, VersionsSound
<1>2. ReadersBounded'
  BY BoundedGoesOn DEF Bounds, ReadersBounded
<1>3. FlightBounded(g)'
  <2>1. FlightBounded(f)
    BY DEF Bounds, FlightsBounded
  <2> QED
    BY <2>1, BoundedGoesOn DEF FlightBounded, ControlBounded, InBounds
<1>4. FlightsBounded'
  BY <1>3, BoundedGoesOn DEF Bounds, FlightsBounded, FlightBounded, ControlBounded, InBounds
<1>5. Awaited'
  BY DEF Bounds, Awaited, Shared
<1> QED
  BY <1>1, <1>2, <1>4, <1>5 DEF Bounds

LEMMA LoadBounds == ASSUME Inv, Bounds, NEW f \in flights, Load(f) PROVE Bounds'
<1>1. UNCHANGED <<db, redis, admin, epochs, backup, open, used, reader>>
  BY DEF Load, environment
<1>2. CountersSound' /\ InBoundsGoesOn /\ StoreBounded(redis)' /\ StoreBounded(backup)'
  BY <1>1, RestBounds
<1>3. f \in FlightType /\ db <= MaxVersion
  BY DEF Inv, FlightsSound, FlightSound, Bounds, CountersSound
<1>4. PICK n : n = db
  OBVIOUS
<1>5. PICK g : g = [f EXCEPT !.pc = "publish", !.value = n]
  OBVIOUS
<1>6. g.process = f.process /\ g.control = f.control /\ g.value <= MaxVersion
  BY <1>3, <1>4, <1>5 DEF FlightType
<1>7. flights' = (flights \ {f}) \cup {g}
  BY <1>4, <1>5 DEF Load
<1> QED
  BY <1>1, <1>2, <1>6, <1>7, FlightStepBounds

LEMMA PublishBounds == ASSUME Inv, Bounds, NEW f \in flights, Publish(f) PROVE Bounds'
<1>1. UNCHANGED <<db, admin, epochs, backup, open, used, reader>> /\ redis' = Stored(f)
  BY DEF Publish, environment
<1>2. f \in FlightType /\ FlightBounded(f) /\ redis \in RedisType
  BY DEF Inv, RedisSound, FlightsSound, FlightSound, Bounds, FlightsBounded
<1>3. f.control \in ControlType /\ InBounds(f.control) /\ f.value \in Nat /\ f.value <= MaxVersion
  BY <1>2, NoneAssumption DEF FlightType, FlightBounded, ControlBounded, ControlType
<1>4. PICK p : p = [control |-> f.control, value |-> f.value]
  OBVIOUS
<1>5. p \in PayloadType /\ PayloadBounded(p)
  BY <1>3, <1>4 DEF PayloadType, PayloadBounded
<1>6. redis' = redis \/ redis' = [redis EXCEPT !.payload = p]
  BY <1>1, <1>4 DEF Stored
<1>7. redis'.control = redis.control /\ redis'.payload \in {redis.payload, p}
  BY <1>2, <1>6 DEF RedisType
<1>8. CountersSound' /\ InBoundsGoesOn
  BY <1>1, <1>7, CalmCounters
<1>9. PayloadBounded(redis.payload) /\ ControlBounded(redis.control)
  BY DEF Bounds, StoreBounded
<1>10. StoreBounded(redis)'
  BY <1>5, <1>7, <1>8, <1>9, BoundedGoesOn DEF StoreBounded, ControlBounded, PayloadBounded, InBounds
<1>11. StoreBounded(backup)'
  BY <1>1, <1>8, BoundedGoesOn DEF Bounds, StoreBounded, ControlBounded, PayloadBounded, InBounds
<1>12. PICK pc : pc = IF IsCurrent(f) THEN "published" ELSE "conflict"
  OBVIOUS
<1>13. PICK g : g = [f EXCEPT !.pc = pc]
  OBVIOUS
<1>14. g.process = f.process /\ g.control = f.control /\ g.value <= MaxVersion
  BY <1>2, <1>3, <1>13 DEF FlightType
<1>15. flights' = (flights \ {f}) \cup {g}
  BY <1>12, <1>13 DEF Publish
<1> QED
  BY <1>1, <1>8, <1>10, <1>11, <1>14, <1>15, FlightStepBounds

\* A load ends, and none of its readers waits any more.
LEMMA FlightEndsBounds ==
    ASSUME Inv, Bounds, UNCHANGED <<db, redis, admin, epochs, backup, open, used>>,
           NEW f \in flights, flights' = flights \ {f}, NEW next, Resume(f, next),
           \A r \in Waiting(f) : ReaderBounded(next[r])' /\ next[r].pc # "wait"
    PROVE  Bounds'
<1>1. CountersSound' /\ InBoundsGoesOn /\ StoreBounded(redis)' /\ StoreBounded(backup)'
  BY RestBounds
<1>2. VersionsSound'
  BY DEF Bounds, VersionsSound
<1>3. \A r \in Readers : reader'[r] = IF r \in Waiting(f) THEN next[r] ELSE reader[r]
  BY DEF Resume
<1>4. ASSUME NEW r \in Readers PROVE ReaderBounded(reader[r])'
  <2>1. CASE r \in Waiting(f)
    BY <1>3, <2>1 DEF ReaderBounded, ControlBounded, PayloadBounded, InBounds
  <2>2. CASE r \notin Waiting(f)
    BY <1>1, <1>3, <2>2, BoundedGoesOn
       DEF Bounds, ReadersBounded, ReaderBounded, ControlBounded, PayloadBounded, InBounds
  <2> QED
    BY <2>1, <2>2
<1>5. FlightsBounded'
  BY <1>1, BoundedGoesOn DEF Bounds, FlightsBounded
<1>6. ASSUME NEW r \in Readers, reader'[r].pc = "wait" PROVE \E g \in flights' : Shared(g, r)'
  <2>1. r \notin Waiting(f) /\ reader'[r] = reader[r]
    BY <1>3, <1>6
  <2>2. PICK g \in flights : Shared(g, r)
    BY <1>6, <2>1 DEF Bounds, Awaited
  <2>3. g # f
    BY <1>6, <2>1, <2>2 DEF Waiting
  <2> QED
    BY <2>1, <2>2, <2>3 DEF Shared
<1>7. Awaited'
  BY <1>6 DEF Awaited
<1> QED
  BY <1>1, <1>2, <1>4, <1>5, <1>7 DEF Bounds, ReadersBounded

LEMMA SettleBounds == ASSUME Inv, Bounds, NEW f \in flights, Settle(f) PROVE Bounds'
<1>0. PICK next :
         next = [r \in Readers |-> IF f.pc = "published" THEN Taken(f, r) ELSE AskAgain(r)]
  OBVIOUS
<1>1. /\ UNCHANGED <<db, redis, admin, epochs, backup, open, used>>
      /\ Resume(f, next) /\ flights' = flights \ {f}
  BY <1>0 DEF Settle, environment
<1>2. CountersSound' /\ InBoundsGoesOn
  BY <1>1, RestBounds
<1>3. ASSUME NEW r \in Waiting(f) PROVE ReaderBounded(next[r])' /\ next[r].pc # "wait"
  <2>1. r \in Readers /\ reader[r] \in ReaderType /\ ReaderBounded(reader[r]) /\ reader[r].pc = "wait"
    BY DEF Waiting, Inv, ReadersSound, Bounds, ReadersBounded
  <2>2. CASE f.pc = "published"
    <3>1. PICK x : x = [Resting EXCEPT !.pc = "done", !.need = reader[r].need, !.value = f.value]
      OBVIOUS
    <3>2. x.pc = "done" /\ x.control = None /\ x.seen = None /\ x.value = f.value
      BY <3>1 DEF Resting
    <3>3. f.value <= MaxVersion
      BY DEF Bounds, FlightsBounded, FlightBounded
    <3>4. ReaderBounded(x)'
      BY <3>2, <3>3 DEF ReaderBounded, ControlBounded, PayloadBounded
    <3>5. next[r] = x
      BY <1>0, <2>1, <2>2, <3>1 DEF Taken, Finished
    <3> QED
      BY <3>2, <3>4, <3>5
  <2>3. CASE f.pc # "published" /\ reader[r].attempt = 1
    <3>1. PICK y : y = reader[r]
      OBVIOUS
    <3>2. PICK x : x = [y EXCEPT !.pc = "ask", !.attempt = 2, !.control = None]
      OBVIOUS
    <3>3. /\ x.pc = "ask" /\ x.control = None /\ x.seen = y.seen
          /\ x.value = y.value /\ x.process = y.process
      BY <2>1, <3>1, <3>2 DEF ReaderType
    <3>4. PayloadBounded(y.seen)'
      BY <1>2, <2>1, <3>1, BoundedGoesOn DEF ReaderBounded, PayloadBounded, InBounds
    <3>5. ReaderBounded(x)'
      BY <2>1, <3>1, <3>3, <3>4 DEF ReaderBounded, ControlBounded, PayloadBounded, InBounds
    <3>6. next[r] = x
      BY <1>0, <2>1, <2>3, <3>1, <3>2 DEF AskAgain
    <3> QED
      BY <3>3, <3>5, <3>6
  <2>4. CASE f.pc # "published" /\ reader[r].attempt # 1
    <3>1. next[r] = Resting
      BY <1>0, <2>1, <2>4 DEF AskAgain
    <3> QED
      BY <3>1, RestingBounded DEF Resting
  <2> QED
    BY <2>2, <2>3, <2>4
<1> QED
  BY <1>1, <1>3, FlightEndsBounds

LEMMA FlightFailsBounds == ASSUME Inv, Bounds, NEW f \in flights, FlightFails(f) PROVE Bounds'
<1>0. PICK next : next = [r \in Readers |-> Resting]
  OBVIOUS
<1>1. /\ UNCHANGED <<db, redis, admin, epochs, backup, open, used>>
      /\ Resume(f, next) /\ flights' = flights \ {f}
  BY <1>0 DEF FlightFails, environment
<1>2. ASSUME NEW r \in Waiting(f) PROVE ReaderBounded(next[r])' /\ next[r].pc # "wait"
  <2>1. next[r] = Resting
    BY <1>0 DEF Waiting
  <2> QED
    BY <2>1, RestingBounded DEF Resting
<1> QED
  BY <1>1, <1>2, FlightEndsBounds

-----------------------------------------------------------------------------
LEMMA InitBounds == Init => Bounds
<1> SUFFICES ASSUME Init PROVE Bounds
  OBVIOUS
<1>1. Busy = {}
  BY DEF Init, Idle, Busy
<1>2. IsFiniteSet(Busy) /\ Cardinality(Busy) = 0
  BY <1>1, FS_EmptySet
<1>3. CountersSound
  BY <1>2, ClientSnapshotAssumption DEF Init, CountersSound, Empty
<1>4. VersionsSound
  BY ClientSnapshotAssumption DEF Init, Idle, VersionsSound
<1>5. StoreBounded(redis) /\ StoreBounded(backup)
  BY DEF Init, Empty, StoreBounded, ControlBounded, PayloadBounded
<1>6. ReadersBounded
  BY ClientSnapshotAssumption
     DEF Init, Resting, ReadersBounded, ReaderBounded, ControlBounded, PayloadBounded
<1>7. FlightsBounded /\ Awaited
  BY DEF Init, FlightsBounded, Awaited, Resting
<1> QED
  BY <1>3, <1>4, <1>5, <1>6, <1>7 DEF Bounds

LEMMA StepBounds == Inv /\ Bounds /\ [Next]_vars => Bounds'
<1> SUFFICES ASSUME Inv, Bounds, [Next]_vars PROVE Bounds'
  OBVIOUS
<1>1. CASE UNCHANGED vars
  <2>1. UNCHANGED <<db, redis, admin, epochs, backup, open, used, reader, flights>>
    BY <1>1 DEF vars
  <2> QED
    BY <2>1, RestBounds, StoreStep DEF Bounds, VersionsSound
<1>2. ASSUME NEW a \in Admins, Mutation(a) PROVE Bounds'
  BY <1>2, StartsBounds, CommitsBounds, EndsBounds DEF Mutation
<1>3. ASSUME NEW r \in Readers, Acquire(r) PROVE Bounds'
  BY <1>3, AskBounds, AskFailsBounds, PassingBounds, MissBounds DEF Acquire
<1>4. ASSUME NEW f \in flights, Flight(f) PROVE Bounds'
  BY <1>4, LoadBounds, PublishBounds, SettleBounds, FlightFailsBounds DEF Flight
<1>5. CASE Decide \/ Repair \/ Expire \/ LoseControl \/ TakeBackup \/ Restore \/ RepairAll
  BY <1>5, CommitsBounds, RepairBounds, ExpireBounds, LoseControlBounds, TakeBackupBounds,
     RestoreBounds, RepairAllBounds
<1> QED
  BY <1>1, <1>2, <1>3, <1>4, <1>5 DEF Next

\* Every variable has its type for ever: an epoch and a generation are spent by
\* an incident or by a mutation that ends, and by nothing else, so controls are
\* never used up; and whoever waits for a load has one, so no reader is left
\* behind by a flight that ended or failed (the shared loads of the client
\* snapshot reader).
THEOREM TypeCorrect == Spec => []TypeOK
<1>1. Inv /\ Bounds => TypeOK
  BY BoundsType
<1>2. Spec => []Bounds
  BY InitBounds, StepBounds, AlwaysInv, PTL DEF Spec
<1> QED
  BY <1>1, <1>2, AlwaysInv, PTL

=============================================================================
