--------------------------- MODULE PostPublication ---------------------------
(***************************************************************************)
(* What follows the publication of a user document (packages/              *)
(* user-document/src/worker/user-document-post-publication.processor.ts):  *)
(* the facts of its version go to Redis and a repair of the access of its  *)
(* subject is asked for.                                                   *)
(*                                                                         *)
(* The work is claimed in the rebuild row of the user, by the worker that  *)
(* published, by the repair, or by an operator; it is done without a lock, *)
(* and completed by whoever still owns the row.  Owners die, and are taken *)
(* for dead while they work.  Rows of several users share nothing.         *)
(***************************************************************************)
EXTENDS Naturals

CONSTANTS
    Workers,      \* executions
    MaxAttempts,  \* USER_DOCUMENT_POST_PUBLICATION_MAX_ATTEMPTS
    MaxVersion,   \* bound: versions published
    MaxRetries,   \* bound: explicit retries
    NoOne

ASSUME PostPublicationAssumption ==
    /\ NoOne \notin Workers
    /\ MaxAttempts \in Nat \ {0}
    /\ MaxVersion \in Nat /\ MaxRetries \in Nat

VARIABLES
    document,  \* version of the document row; 0: none
    row,       \* the post-publication columns of the rebuild row
    facts,     \* version of the facts in Redis; 0: none
    asked,     \* history: versions of the facts with which a repair of access was asked for
    exec,      \* exec[w]: the memory of an execution
    retries    \* explicit retries so far

vars == <<document, row, facts, asked, exec, retries>>

\* token: the execution a claim made the owner.  stale: started long ago.
NoRow == [version |-> 0, status |-> "none", token |-> NoOne, attempts |-> 0, stale |-> FALSE]

Idle == [pc |-> "idle", version |-> 0, outcome |-> "none"]

Init ==
    /\ document = 0 /\ facts = 0 /\ asked = {} /\ retries = 0
    /\ row = NoRow
    /\ exec = [w \in Workers |-> Idle]

-----------------------------------------------------------------------------
(* Publication, which restarts the work in its own transaction.            *)

Publish ==
    /\ document < MaxVersion
    /\ document' = document + 1
    /\ row' = [NoRow EXCEPT !.version = document + 1, !.status = "pending"]
    /\ UNCHANGED <<facts, asked, exec, retries>>

-----------------------------------------------------------------------------
(* Claims.                                                                 *)

Exhausted == row.attempts >= MaxAttempts

\* Mutant: an exhausted row that is claimed again goes on counting.
OneMoreAttempt(reset) == row.attempts + 1

NextAttempt(reset) == IF reset /\ Exhausted THEN 1 ELSE row.attempts + 1

ClaimLocked(w, reset) ==
    /\ exec[w].pc = "idle"
    /\ reset \/ ~Exhausted
    /\ row' = [row EXCEPT !.status = "processing", !.token = w,
                          !.attempts = NextAttempt(reset), !.stale = FALSE]
    /\ exec' = [exec EXCEPT ![w] = [Idle EXCEPT !.pc = "claimed", !.version = row.version]]
    /\ UNCHANGED <<document, facts, asked>>

\* After a publication, with the version that was published.
ClaimRequest(w) ==
    /\ row.status \in {"pending", "failed"}
    /\ ClaimLocked(w, FALSE)
    /\ UNCHANGED retries

\* Mutant: the repair looks for failed rows only.
FailedOnly == row.status \in {"pending", "failed"}

FailedOrStale ==
    \/ row.status \in {"pending", "failed"}
    \/ row.status = "processing" /\ row.stale

ClaimRepair(w) ==
    /\ FailedOrStale
    /\ ClaimLocked(w, FALSE)
    /\ UNCHANGED retries

\* An operator repairs with force, or retries an exhausted row by its version.
ClaimForced(w) ==
    /\ retries < MaxRetries
    /\ FailedOrStale
    /\ ClaimLocked(w, TRUE)
    /\ retries' = retries + 1

RetryExhausted(w) ==
    /\ retries < MaxRetries
    /\ Exhausted
    /\ row.status = "failed" \/ (row.status = "processing" /\ row.stale)
    /\ ClaimLocked(w, TRUE)
    /\ retries' = retries + 1

\* Time passes; the owner may be dead, or only slow.
GrowStale ==
    /\ row.status = "processing"
    /\ row' = [row EXCEPT !.stale = TRUE]
    /\ UNCHANGED <<document, facts, asked, exec, retries>>

-----------------------------------------------------------------------------
(* Effects.                                                                *)

At(w, pc, outcome) == exec' = [exec EXCEPT ![w] = [@ EXCEPT !.pc = pc, !.outcome = outcome]]

\* The document is read; a later version than the claimed one is a failure.
ReadDocument(w) ==
    /\ exec[w].pc = "claimed"
    /\ IF document = exec[w].version THEN At(w, "read", "none") ELSE At(w, "done", "failed")
    /\ UNCHANGED <<document, row, facts, asked, retries>>

\* Mutant: the facts are written whatever is there.
WriteFactsAlways(v) == facts' = v

\* PUBLISH_IF_NOT_OLDER
WriteFacts(v) == facts' = IF facts > v THEN facts ELSE v

PublishFacts(w) ==
    /\ exec[w].pc = "read"
    /\ WriteFacts(exec[w].version)
    /\ IF facts > exec[w].version THEN At(w, "done", "failed") ELSE At(w, "published", "none")
    /\ UNCHANGED <<document, row, asked, retries>>

\* No answer of Redis: the facts were written, or not.
PublishUnheard(w) ==
    /\ exec[w].pc = "read"
    /\ WriteFacts(exec[w].version) \/ facts' = facts
    /\ At(w, "done", "failed")
    /\ UNCHANGED <<document, row, asked, retries>>

\* deferred: another repair has the lease of the subject, the authority does not
\* say what is to be repaired, or there is nothing to repair.
RepairAnswers == {"enabled", "disabled", "deferred", "failed"}

\* The repair of the subject is asked for; every answer but a failure counts,
\* also one that leaves the repair to the backlog of the subjects.
RepairAccess(w) ==
    /\ exec[w].pc = "published"
    /\ asked' = asked \cup {facts}
    /\ \E answer \in RepairAnswers :
          At(w, "done", IF answer = "failed" THEN "failed" ELSE "processed")
    /\ UNCHANGED <<document, row, facts, retries>>

\* A step of the effects fails.
FailEffect(w) ==
    /\ exec[w].pc \in {"claimed", "read", "published"}
    /\ At(w, "done", "failed")
    /\ UNCHANGED <<document, row, facts, asked, retries>>

-----------------------------------------------------------------------------
(* Completion.                                                             *)

\* Mutant: whoever processes the row may complete it.
OwnsAnything(w) == row.status = "processing"

Owns(w) == row.status = "processing" /\ row.version = exec[w].version /\ row.token = w

\* The row takes the outcome of its owner; of nobody else.
RowAfter(w) ==
    IF Owns(w)
    THEN [row EXCEPT !.status = exec[w].outcome, !.token = NoOne, !.stale = FALSE]
    ELSE row

Complete(w) ==
    /\ exec[w].pc \in {"done", "cleanup"}
    /\ row' = RowAfter(w)
    /\ exec' = [exec EXCEPT ![w] = Idle]
    /\ UNCHANGED <<document, facts, asked, retries>>

\* The write fails, or is not answered: what is still owned is to be failed.
CompletionFails(w) ==
    /\ exec[w].pc = "done"
    /\ row' \in {row, RowAfter(w)}
    /\ At(w, "cleanup", "failed")
    /\ UNCHANGED <<document, facts, asked, retries>>

\* The process dies; a cleanup that fails leaves the same.
Crash(w) ==
    /\ exec[w].pc # "idle"
    /\ exec' = [exec EXCEPT ![w] = Idle]
    /\ UNCHANGED <<document, row, facts, asked, retries>>

-----------------------------------------------------------------------------
Claim(w) == ClaimRequest(w) \/ ClaimRepair(w) \/ ClaimForced(w) \/ RetryExhausted(w)

Effect(w) ==
    \/ ReadDocument(w) \/ PublishFacts(w) \/ PublishUnheard(w)
    \/ RepairAccess(w) \/ FailEffect(w)

Work(w) == Effect(w) \/ Complete(w) \/ CompletionFails(w) \/ Crash(w)

Next == Publish \/ GrowStale \/ \E w \in Workers : Claim(w) \/ Work(w)

Spec == Init /\ [][Next]_vars

\* An execution goes on or dies; the repair runs on schedule, and takes what
\* has been processing for too long.
Fairness ==
    /\ \A w \in Workers : WF_vars(Work(w))
    /\ WF_vars(\E w \in Workers : ClaimRepair(w))
    /\ WF_vars(GrowStale)

FairSpec == Spec /\ Fairness

-----------------------------------------------------------------------------
(* Correctness.                                                            *)

\* Every variable has its type, the row is one its table accepts, and it is
\* about the version that was published last.
TypeOK ==
    /\ document \in 0..MaxVersion /\ facts \in 0..document
    /\ asked \subseteq 1..document /\ retries \in 0..MaxRetries
    /\ row \in [version : 0..MaxVersion,
                status : {"none", "pending", "processing", "processed", "failed"},
                token : Workers \cup {NoOne}, attempts : 0..MaxAttempts, stale : BOOLEAN]
    /\ (row.status = "processing") <=> (row.token # NoOne)
    /\ row.version = document
    /\ exec \in [Workers ->
          [pc : {"idle", "claimed", "read", "published", "done", "cleanup"},
           version : 0..document, outcome : {"none", "processed", "failed"}]]

\* A row that says it is processed is right, and stays right while no further
\* version is published: the facts in Redis are those of its document, and the
\* repair of the subject's access was asked for when they were there; whatever
\* owners of earlier claims still do.  A repair that was deferred is left to the
\* backlog of the subjects.
ProcessedIsEffective ==
    row.status = "processed" => facts = document /\ document \in asked

\* Every publication comes to rest: processed, or out of attempts and waiting
\* for an operator.  Neither a dead owner nor one that was taken for dead leaves
\* the work to nobody.
EffectsSettle ==
    <>[](row.status \in {"none", "processed"} \/ Exhausted)

=============================================================================
