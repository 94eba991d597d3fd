------------------------ MODULE PostPublicationProofs ------------------------
(***************************************************************************)
(* Proofs about PostPublication, for any workers and any number of         *)
(* attempts, versions and retries.                                         *)
(*                                                                         *)
(* That a processed row is right is not inductive: it rests on what its    *)
(* owner has done by the time it completes the row.  ExecSound says that,  *)
(* of every execution, also of those that no longer own anything.          *)
(***************************************************************************)
EXTENDS PostPublication, TLAPS

RowType == [version : 0..MaxVersion,
            status : {"none", "pending", "processing", "processed", "failed"},
            token : Workers \cup {NoOne}, attempts : 0..MaxAttempts, stale : BOOLEAN]

Places == {"idle", "claimed", "read", "published", "done", "cleanup"}
Outcomes == {"none", "processed", "failed"}

ExecType == [pc : Places, version : 0..document, outcome : Outcomes]

\* The row is about the version that was published last, it is owned while it is
\* processing, and it says it is processed if it is.
RowSound ==
    /\ row \in RowType
    /\ (row.status = "processing") <=> (row.token # NoOne)
    /\ row.version = document
    /\ row.version = 0 => row.status = "none"
    /\ row.status = "processed" => facts = document /\ document \in asked

\* An execution is about a version that was published; what it has done is
\* there, for this version or a later one.
ExecSound(x) ==
    /\ x \in ExecType
    /\ x.pc # "idle" => x.version # 0
    /\ x.pc = "published" => x.version <= facts
    /\ x.pc \in {"done", "cleanup"} => x.outcome # "none"
    /\ x.outcome = "processed" => x.version <= facts /\ \E v \in asked : x.version <= v

Counted ==
    /\ document \in 0..MaxVersion /\ facts \in 0..document
    /\ asked \subseteq 1..document /\ retries \in 0..MaxRetries

Inv ==
    /\ Counted
    /\ RowSound
    /\ exec \in [Workers -> ExecType]
    /\ \A w \in Workers : ExecSound(exec[w])

\* The invariant is about the properties that are to be shown.
LEMMA InvImplies == Inv => TypeOK /\ ProcessedIsEffective
BY DEF Inv, Counted, RowSound, RowType, ExecType, Places, Outcomes, TypeOK, ProcessedIsEffective

LEMMA InitInv == Init => Inv
<1> SUFFICES ASSUME Init PROVE Inv
  OBVIOUS
<1>1. Counted
  BY PostPublicationAssumption DEF Init, Counted
<1>2. RowSound
  BY PostPublicationAssumption DEF Init, RowSound, RowType, NoRow
<1>3. \A w \in Workers : exec[w] = Idle
  BY DEF Init
<1>4. Idle \in ExecType /\ ExecSound(Idle)
  BY DEF Init, Idle, ExecType, Places, Outcomes, ExecSound
<1>5. exec \in [Workers -> ExecType]
  BY <1>4 DEF Init
<1> QED
  BY <1>1, <1>2, <1>3, <1>4, <1>5 DEF Inv

-----------------------------------------------------------------------------
\* What executions did stays done when time goes on: versions, facts and repairs
\* only grow.
Grows ==
    /\ document <= document' /\ facts <= facts' /\ asked \subseteq asked'

LEMMA StaysSound ==
    ASSUME Counted, Counted', Grows, NEW x, ExecSound(x)
    PROVE  ExecSound(x)'
BY DEF Counted, Grows, ExecSound, ExecType, Places, Outcomes

\* A step of one execution.
LEMMA OneExecution ==
    ASSUME Inv, NEW w \in Workers, NEW x, Counted', Grows, RowSound',
           ExecSound(x)', exec' = [exec EXCEPT ![w] = x]
    PROVE  Inv'
<1>1. \A v \in Workers : ExecSound(exec[v])'
  <2> SUFFICES ASSUME NEW v \in Workers PROVE ExecSound(exec[v])'
    OBVIOUS
  <2>1. ExecSound(exec[v])
    BY DEF Inv
  <2>2. exec'[v] = IF v = w THEN x ELSE exec[v]
    BY DEF Inv
  <2>3. CASE v = w
    BY <2>2, <2>3 DEF ExecSound, ExecType, Places, Outcomes
  <2>4. CASE v # w
    BY <2>1, <2>2, <2>4 DEF Inv, Counted, Grows, ExecSound, ExecType, Places, Outcomes
  <2> QED
    BY <2>3, <2>4
<1>2. exec' \in [Workers -> ExecType']
  BY <1>1 DEF Inv, ExecSound
<1> QED
  BY <1>1, <1>2 DEF Inv

\* A step that is none of an execution.
LEMMA NoExecution ==
    ASSUME Inv, Counted', Grows, RowSound', exec' = exec
    PROVE  Inv'
<1>1. \A v \in Workers : ExecSound(exec[v])'
  BY DEF Inv, Counted, Grows, ExecSound, ExecType, Places, Outcomes
<1>2. exec' \in [Workers -> ExecType']
  BY <1>1 DEF Inv, ExecSound
<1> QED
  BY <1>1, <1>2 DEF Inv

-----------------------------------------------------------------------------
(* Publication, claims.                                                    *)

NewRow(v, s, t, n) == [version |-> v, status |-> s, token |-> t, attempts |-> n, stale |-> FALSE]

LEMMA PublishInv == ASSUME Inv, Publish PROVE Inv'
<1>1. row' = NewRow(document', "pending", NoOne, 0)
  BY DEF Publish, NoRow, NewRow
<1>2. Counted' /\ Grows
  BY PostPublicationAssumption DEF Publish, Inv, Counted, Grows
<1>3. RowSound'
  <2>1. document' \in 0..MaxVersion /\ document' # 0 /\ 0 \in 0..MaxAttempts
    BY PostPublicationAssumption DEF Publish, Inv, Counted
  <2> QED
    BY <1>1, <2>1, PostPublicationAssumption DEF RowSound, RowType, NewRow
<1> QED
  BY <1>2, <1>3, NoExecution DEF Publish

\* A claim counts one attempt of those that are left, or starts over.
LEMMA AttemptsCounted ==
    ASSUME Inv, NEW reset \in BOOLEAN, reset \/ ~Exhausted
    PROVE  NextAttempt(reset) \in 0..MaxAttempts
<1>1. row.attempts \in 0..MaxAttempts
  BY DEF Inv, RowSound, RowType
<1> QED
  BY <1>1, PostPublicationAssumption DEF NextAttempt, Exhausted

LEMMA ClaimLockedInv ==
    ASSUME Inv, NEW w \in Workers, NEW reset \in BOOLEAN, ClaimLocked(w, reset),
           row.status # "none", retries' \in 0..MaxRetries
    PROVE  Inv'
<1>0. PICK x : x = [pc |-> "claimed", version |-> row.version, outcome |-> "none"]
  OBVIOUS
<1>1. row \in RowType
  BY DEF Inv, RowSound
<1>2. row' = NewRow(row.version, "processing", w, NextAttempt(reset))
  BY <1>1 DEF ClaimLocked, RowType, NewRow
<1>3. NextAttempt(reset) \in 0..MaxAttempts
  BY AttemptsCounted DEF ClaimLocked
<1>4. Counted' /\ Grows
  BY DEF ClaimLocked, Inv, Counted, Grows
<1>5. RowSound'
  BY <1>1, <1>2, <1>3, <1>4, PostPublicationAssumption
  DEF ClaimLocked, Inv, RowSound, RowType, NewRow
<1>6. exec' = [exec EXCEPT ![w] = x]
  <2>1. ASSUME NEW v, NEW y, [Idle EXCEPT !.pc = "claimed", !.version = v] = y
        PROVE  y = [pc |-> "claimed", version |-> v, outcome |-> "none"]
    BY <2>1 DEF Idle
  <2> QED
    BY <1>0, <2>1 DEF ClaimLocked
<1>7. ExecSound(x)'
  BY <1>0, <1>4 DEF ClaimLocked, Inv, Counted, RowSound, ExecSound, ExecType, Places, Outcomes
<1> QED
  BY <1>4, <1>5, <1>6, <1>7, OneExecution

LEMMA ClaimInv == ASSUME Inv, NEW w \in Workers, Claim(w) PROVE Inv'
<1>1. retries' \in 0..MaxRetries
  <2>1. retries \in 0..MaxRetries /\ (retries' = retries \/ (retries < MaxRetries /\ retries' = retries + 1))
    BY DEF Claim, ClaimRequest, ClaimRepair, ClaimForced, RetryExhausted, Inv, Counted
  <2> QED
    BY <2>1, PostPublicationAssumption
<1>2. row.status # "none"
  BY DEF Claim, ClaimRequest, ClaimRepair, ClaimForced, RetryExhausted, FailedOrStale
<1>3. \E reset \in BOOLEAN : ClaimLocked(w, reset)
  BY DEF Claim, ClaimRequest, ClaimRepair, ClaimForced, RetryExhausted
<1> QED
  BY <1>1, <1>2, <1>3, ClaimLockedInv

LEMMA GrowStaleInv == ASSUME Inv, GrowStale PROVE Inv'
<1>1. row' \in RowType /\ row'.version = row.version /\ row'.status = row.status
         /\ row'.token = row.token
  BY DEF GrowStale, Inv, RowSound, RowType
<1>2. Counted' /\ Grows
  BY DEF GrowStale, Inv, Counted, Grows
<1>3. RowSound'
  BY <1>1 DEF GrowStale, Inv, RowSound, RowType
<1> QED
  BY <1>2, <1>3, NoExecution DEF GrowStale

-----------------------------------------------------------------------------
(* Effects.                                                                *)

Reaches(w, pc, outcome) == [pc |-> pc, version |-> exec[w].version, outcome |-> outcome]

LEMMA AtReaches ==
    ASSUME Inv, NEW w \in Workers, NEW pc \in Places, NEW outcome \in Outcomes,
           At(w, pc, outcome)
    PROVE  exec' = [exec EXCEPT ![w] = Reaches(w, pc, outcome)]
<1>1. exec[w] \in ExecType
  BY DEF Inv
<1>2. PICK x : x = [exec[w] EXCEPT !.pc = pc, !.outcome = outcome]
  OBVIOUS
<1>3. x \in ExecType /\ x = Reaches(w, pc, outcome)
  BY <1>1, <1>2 DEF ExecType, Reaches
<1> QED
  BY <1>2, <1>3 DEF At

\* A failure is always a sound end of an execution.
LEMMA FailureSound ==
    ASSUME Inv, NEW w \in Workers, exec[w].pc # "idle", Counted', Grows, RowSound',
           NEW pc \in {"done", "cleanup"}, At(w, pc, "failed")
    PROVE  Inv'
<1>0. PICK x : x = [pc |-> pc, version |-> exec[w].version, outcome |-> "failed"]
  OBVIOUS
<1>1. ExecSound(x)
  BY <1>0 DEF Inv, ExecSound, ExecType, Places, Outcomes
<1>2. exec' = [exec EXCEPT ![w] = x]
  BY <1>0, AtReaches DEF Reaches, Places, Outcomes
<1>3. ExecSound(x)'
  BY <1>1, StaysSound DEF Inv
<1> QED
  BY <1>2, <1>3, OneExecution

\* Facts never go back, so what an execution of an older version did stays done;
\* and a processed row stays right whatever an older version writes.
LEMMA FactsInv ==
    ASSUME Inv, NEW w \in Workers, WriteFacts(exec[w].version) \/ facts' = facts,
           exec[w].pc = "read", UNCHANGED <<document, row, asked, retries>>
    PROVE  Counted' /\ Grows /\ RowSound'
<1>1. exec[w].version \in 0..document
  BY DEF Inv, ExecType, Places, Outcomes
<1>2. facts' \in 0..document /\ facts <= facts'
  BY <1>1 DEF Inv, Counted, WriteFacts
<1>3. Counted' /\ Grows
  BY <1>2 DEF Inv, Counted, Grows
<1> QED
  BY <1>2, <1>3 DEF Inv, Counted, RowSound, RowType

LEMMA ReadDocumentInv == ASSUME Inv, NEW w \in Workers, ReadDocument(w) PROVE Inv'
<1>0. PICK x : x = [pc |-> "read", version |-> exec[w].version, outcome |-> "none"]
  OBVIOUS
<1>1. Counted' /\ Grows /\ RowSound'
  BY DEF ReadDocument, Inv, Counted, Grows, RowSound, RowType
<1>2. CASE At(w, "done", "failed")
  BY <1>1, <1>2, FailureSound DEF ReadDocument
<1>3. CASE At(w, "read", "none")
  <2>1. ExecSound(x)
    BY <1>0 DEF ReadDocument, Inv, ExecSound, ExecType, Places, Outcomes
  <2>2. ExecSound(x)'
    BY <1>1, <2>1, StaysSound DEF Inv
  <2>3. exec' = [exec EXCEPT ![w] = x]
    BY <1>3, <1>0, AtReaches DEF Reaches, Places, Outcomes
  <2> QED
    BY <1>1, <2>2, <2>3, OneExecution
<1> QED
  BY <1>2, <1>3 DEF ReadDocument

LEMMA PublishFactsInv == ASSUME Inv, NEW w \in Workers, PublishFacts(w) PROVE Inv'
<1>0. PICK x : x = [pc |-> "published", version |-> exec[w].version, outcome |-> "none"]
  OBVIOUS
<1>1. Counted' /\ Grows /\ RowSound'
  BY FactsInv DEF PublishFacts
<1>2. CASE At(w, "done", "failed")
  BY <1>1, <1>2, FailureSound DEF PublishFacts
<1>3. CASE At(w, "published", "none")
  <2>1. exec[w].version <= facts'
    BY DEF PublishFacts, WriteFacts, Inv, Counted, ExecType, Places, Outcomes
  <2>2. ExecSound(x)'
    BY <1>0, <1>1, <2>1 DEF PublishFacts, Inv, Counted, ExecSound, ExecType, Places, Outcomes
  <2>3. exec' = [exec EXCEPT ![w] = x]
    BY <1>3, <1>0, AtReaches DEF Reaches, Places, Outcomes
  <2> QED
    BY <1>1, <2>2, <2>3, OneExecution
<1> QED
  BY <1>2, <1>3 DEF PublishFacts

LEMMA RepairAccessInv == ASSUME Inv, NEW w \in Workers, RepairAccess(w) PROVE Inv'
<1>0. PICK x : x = [pc |-> "done", version |-> exec[w].version, outcome |-> "processed"]
  OBVIOUS
<1>1. exec[w].version \in 1..document /\ exec[w].version <= facts /\ facts \in 1..document
  BY PostPublicationAssumption DEF RepairAccess, Inv, Counted, ExecSound, ExecType, Places, Outcomes
<1>2. Counted' /\ Grows
  <2>1. asked' \subseteq 1..document /\ asked \subseteq asked'
    BY <1>1 DEF RepairAccess, Inv, Counted
  <2> QED
    BY <2>1 DEF RepairAccess, Inv, Counted, Grows
<1>3. RowSound'
  BY DEF RepairAccess, Inv, RowSound, RowType
<1>4. CASE At(w, "done", "failed")
  BY <1>2, <1>3, <1>4, FailureSound DEF RepairAccess
<1>5. CASE At(w, "done", "processed")
  <2>1. ExecSound(x)'
    <3>1. x \in ExecType' /\ exec[w].version <= facts' /\ facts \in asked'
      BY <1>0, <1>1 DEF RepairAccess, ExecType, Places, Outcomes
    <3> QED
      BY <1>0, <1>1, <3>1 DEF ExecSound
  <2>2. exec' = [exec EXCEPT ![w] = x]
    BY <1>0, <1>5, AtReaches DEF Reaches, Places, Outcomes
  <2> QED
    BY <1>2, <1>3, <2>1, <2>2, OneExecution
<1> QED
  BY <1>4, <1>5 DEF RepairAccess, RepairAnswers

LEMMA EffectInv == ASSUME Inv, NEW w \in Workers, Effect(w) PROVE Inv'
<1>1. CASE PublishUnheard(w)
  <2>1. Counted' /\ Grows /\ RowSound'
    BY <1>1, FactsInv DEF PublishUnheard
  <2> QED
    BY <1>1, <2>1, FailureSound DEF PublishUnheard
<1>2. CASE FailEffect(w)
  <2>1. Counted' /\ Grows /\ RowSound'
    BY <1>2 DEF FailEffect, Inv, Counted, Grows, RowSound, RowType
  <2> QED
    BY <1>2, <2>1, FailureSound DEF FailEffect
<1> QED
  BY <1>1, <1>2, ReadDocumentInv, PublishFactsInv, RepairAccessInv DEF Effect

-----------------------------------------------------------------------------
(* Completion.                                                             *)

\* An outcome is written by the owner only, which did its work for the version
\* that is published.
LEMMA RowAfterSound ==
    ASSUME Inv, NEW w \in Workers, exec[w].pc \in {"done", "cleanup"},
           row' = RowAfter(w) \/ row' = row, UNCHANGED <<document, facts, asked, retries>>
    PROVE  Counted' /\ Grows /\ RowSound'
<1>1. Counted' /\ Grows
  BY DEF Inv, Counted, Grows
<1>2. CASE row' = row
  <2>1. document' = document /\ facts' = facts /\ asked' = asked
    OBVIOUS
  <2>2. RowSound
    BY DEF Inv
  <2> QED
    BY <1>1, <1>2, <2>1, <2>2 DEF RowSound, RowType
<1>3. CASE row' = RowAfter(w) /\ Owns(w)
  <2>1. row' = [version |-> row.version, status |-> exec[w].outcome, token |-> NoOne,
                attempts |-> row.attempts, stale |-> FALSE]
    BY <1>3 DEF RowAfter, Inv, RowSound, RowType
  <2>2. exec[w].outcome \in {"processed", "failed"}
    BY DEF Inv, ExecSound, ExecType, Places, Outcomes
  <2>3. exec[w].outcome = "processed" => facts = document /\ document \in asked
    BY <1>3 DEF Owns, Inv, Counted, RowSound, ExecSound
  <2>4. row.version # 0
    BY <1>3 DEF Owns, Inv, RowSound
  <2>5. row \in RowType /\ row.version = document
    BY DEF Inv, RowSound
  <2> QED
    BY <1>1, <2>1, <2>2, <2>3, <2>4, <2>5, PostPublicationAssumption DEF RowSound, RowType
<1> QED
  BY <1>1, <1>2, <1>3 DEF RowAfter

LEMMA WorkInv == ASSUME Inv, NEW w \in Workers, Work(w) PROVE Inv'
<1>1. ExecSound(Idle)
  BY DEF Inv, Counted, ExecSound, ExecType, Places, Outcomes, Idle
<1>2. CASE Complete(w)
  <2>1. Counted' /\ Grows /\ RowSound'
    BY <1>2, RowAfterSound DEF Complete
  <2>2. ExecSound(Idle)'
    BY <1>1, <2>1, StaysSound DEF Inv
  <2> QED
    BY <1>2, <2>1, <2>2, OneExecution DEF Complete
<1>3. CASE CompletionFails(w)
  <2>1. Counted' /\ Grows /\ RowSound'
    BY <1>3, RowAfterSound DEF CompletionFails
  <2> QED
    BY <1>3, <2>1, FailureSound DEF CompletionFails
<1>4. CASE Crash(w)
  <2>1. Counted' /\ Grows /\ RowSound'
    BY <1>4 DEF Crash, Inv, Counted, Grows, RowSound, RowType
  <2>2. ExecSound(Idle)'
    BY <1>1, <2>1, StaysSound DEF Inv
  <2> QED
    BY <1>4, <2>1, <2>2, OneExecution DEF Crash
<1> QED
  BY <1>2, <1>3, <1>4, EffectInv DEF Work

-----------------------------------------------------------------------------
LEMMA StayInv == Inv /\ UNCHANGED vars => Inv'
BY DEF vars, Inv, Counted, RowSound, RowType, ExecSound, ExecType, Places, Outcomes

LEMMA NextInv == Inv /\ [Next]_vars => Inv'
BY PublishInv, GrowStaleInv, ClaimInv, WorkInv, StayInv DEF Next

LEMMA Invariance == Spec => []Inv
BY InitInv, NextInv, PTL DEF Spec

\* Every variable has its type: attempts are never more than allowed, a row is
\* owned while it is processing and at no other time, and facts never run ahead
\* of the document.
THEOREM TypeCorrect == Spec => []TypeOK
BY Invariance, InvImplies, PTL

\* A processed row is right: its facts are in Redis and the repair of its
\* subject's access was asked for when they were, whatever owners of earlier
\* claims still do.
THEOREM ProcessedRows == Spec => []ProcessedIsEffective
BY Invariance, InvImplies, PTL

=============================================================================
