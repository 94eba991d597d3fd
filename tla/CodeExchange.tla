---------------------------- MODULE CodeExchange ----------------------------
(***************************************************************************)
(* Authorization codes of OIDC (packages/oidc) and of custom SSO           *)
(* (packages/custom-sso/src/unified), on the sessions of the kernel as     *)
(* ApplicationSessions promises them.                                      *)
(*                                                                         *)
(* An authorization request resolves the browser's root, opens a client    *)
(* session under it and saves a code, perhaps after a login to which a     *)
(* continuation leads and from which it returns.  The application redeems  *)
(* the code for a token: at the OIDC token endpoint, with the business     *)
(* Secret, or at the managed callback.  Each step is one call of Redis;    *)
(* everything else may happen in between, and each step may fail.          *)
(***************************************************************************)
EXTENDS Naturals, FiniteSets

CONSTANTS
    Roots,      \* logins of one browser
    Sessions,   \* client sessions
    OidcClients, SsoClients,
    Flows,      \* authorization requests; each issues one code at most
    Waits,      \* continuations of OIDC requests
    Exchanges,  \* redemptions; each makes one token at most
    MaxAsks,    \* bound: how often the login page of a continuation is asked for
    MaxBegun,   \* bound: continuations and redemptions begun
    NoOne

Clients == OidcClients \cup SsoClients

ASSUME CodeExchangeAssumption ==
    /\ NoOne \notin Roots \cup Sessions \cup Clients \cup Waits
    /\ NoOne \notin Flows \cup Exchanges
    /\ {"none", "live", "gone"} \cap Exchanges = {}
    /\ OidcClients \cap SsoClients = {}
    /\ MaxAsks \in Nat /\ MaxBegun \in Nat

VARIABLES
    created, standing,  \* roots logged in, and those still resolved and permitted
    expired,            \* roots past the deadline they were created with
    cookie, held,       \* the root the browser presents, and those it was ever given
    completion,         \* the browser's proof that it was shown a login page
    wait,               \* wait[k]: a continuation
    flow,               \* flow[f]: the memory of an authorization request
    code,               \* code[f]: "none", "live", "gone", or the redemption that took it
    redeem,             \* redeem[e]: the memory of a redemption
    token,              \* token[e]: "none", "live" or "gone"
    seen, relation,     \* the sessions opened, see ApplicationSessions
    live                \* those whose record is there: not revoked, not expired

browser == <<created, cookie, held, completion>>
kernel == <<seen, live, relation, expired>>
vars == <<browser, standing, wait, flow, code, redeem, token, kernel>>

\* A use is granted to a session whose record is there and whose root stands;
\* a root that is revoked leaves the records of its sessions.
usable == {s \in live : relation[s].root \in standing}

Kernel == INSTANCE ApplicationSessions

Ways == {"oidc", "business", "managed"}
WaysOf(c) == IF c \in OidcClients THEN {"oidc"} ELSE {"business", "managed"}

NoRelation == [root |-> NoOne, client |-> NoOne]

NoCompletion == [wait |-> NoOne, ask |-> 0]

\* asked: how often a completion was allowed; heldThen is history: the roots
\* the browser had been given at the last of them.
NoWait == [state |-> "none", client |-> NoOne, forced |-> FALSE,
           asked |-> 0, heldThen |-> {}]

\* before is history: the roots the browser had been given when the completion
\* this request returned with was allowed.
NoFlow == [pc |-> "idle", client |-> NoOne, way |-> "none", forced |-> FALSE,
           root |-> NoOne, wait |-> NoOne, before |-> {}, session |-> NoOne]

\* consumption, revocation, compensation: what a failure reports.
\* known: a token was prepared, and is to be removed by a failure.
NoRedeem == [pc |-> "idle", flow |-> NoOne, way |-> "none", known |-> FALSE,
             consumption |-> "not_attempted", revocation |-> "none",
             compensation |-> "none"]

Init ==
    /\ created = {} /\ standing = {} /\ cookie = NoOne /\ held = {}
    /\ completion = NoCompletion
    /\ wait = [k \in Waits |-> NoWait]
    /\ flow = [f \in Flows |-> NoFlow]
    /\ code = [f \in Flows |-> "none"]
    /\ redeem = [e \in Exchanges |-> NoRedeem]
    /\ token = [e \in Exchanges |-> "none"]
    /\ seen = {} /\ live = {} /\ expired = {}
    /\ relation = [s \in Sessions |-> NoRelation]

MayBegin ==
    Cardinality({k \in Waits : wait[k].state # "none"})
       + Cardinality({e \in Exchanges : redeem[e].pc # "idle"}) < MaxBegun

-----------------------------------------------------------------------------
(* The browser and its logins.                                             *)

Login(r) ==
    /\ r \notin created
    /\ created' = created \cup {r}
    /\ standing' = standing \cup {r}
    /\ UNCHANGED <<cookie, held, completion, wait, flow, code, redeem, token, kernel>>

\* The answer of a login reaches the browser later, or never.
ReceiveCookie(r) ==
    /\ r \in created \ held
    /\ cookie' = r
    /\ held' = held \cup {r}
    /\ UNCHANGED <<created, completion, standing, wait, flow, code, redeem, token, kernel>>

\* A root is revoked, or its subject disabled: for ever.
EndRoot(r) ==
    /\ r \in standing
    /\ standing' = standing \ {r}
    /\ UNCHANGED <<browser, wait, flow, code, redeem, token, kernel>>

SessionsOf(r) == {s \in seen : relation[s].root = r}

\* Mutant: a renewal is not clipped by the deadline of the root.
ExpireRootAlone(r) ==
    /\ r \in created \ expired
    /\ expired' = expired \cup {r}
    /\ standing' = standing \ {r}
    /\ UNCHANGED <<browser, wait, flow, code, redeem, token, seen, live, relation>>

\* A root reaches its deadline, and with it every session that was opened or
\* renewed under it.
ExpireRoot(r) ==
    /\ r \in created \ expired
    /\ expired' = expired \cup {r}
    /\ standing' = standing \ {r}
    /\ live' = live \ SessionsOf(r)
    /\ UNCHANGED <<browser, wait, flow, code, redeem, token, seen, relation>>

\* A session is revoked, or reaches a deadline of its own.
EndSession(s) ==
    /\ s \in live
    /\ live' = live \ {s}
    /\ UNCHANGED <<browser, standing, wait, flow, code, redeem, token, seen, relation, expired>>

\* Keys of Redis reach their deadline; that of a token would only take it away.
ExpireCode(f) ==
    /\ code[f] = "live"
    /\ code' = [code EXCEPT ![f] = "gone"]
    /\ UNCHANGED <<browser, standing, wait, flow, redeem, token, kernel>>

ExpireWait(k) ==
    /\ wait[k].state = "open"
    /\ wait' = [wait EXCEPT ![k].state = "gone"]
    /\ UNCHANGED <<browser, standing, flow, code, redeem, token, kernel>>

-----------------------------------------------------------------------------
(* Authorization.                                                          *)

Resolved(r) == r \in standing

Authorize(f, c, w) ==
    /\ flow[f].pc = "idle"
    /\ Resolved(cookie)
    /\ flow' = [flow EXCEPT ![f] = [NoFlow EXCEPT !.pc = "resolved", !.client = c,
                                                  !.way = w, !.root = cookie]]
    /\ UNCHANGED <<browser, standing, wait, code, redeem, token, kernel>>

\* The browser has a root, and is not asked to log in again.
AuthorizeOidc(f, c) == c \in OidcClients /\ Authorize(f, c, "oidc")

\* The way of redemption, which the configuration says now, goes into the code.
AuthorizeSso(f, c, w) == c \in SsoClients /\ w # "oidc" /\ Authorize(f, c, w)

\* The browser has none: an OIDC request waits for a login.  A request that
\* forces one is not answered by a root that is there.
SaveContinuation(k, c, forced) ==
    /\ wait[k].state = "none" /\ MayBegin
    /\ c \in OidcClients
    /\ ~Resolved(cookie)
    /\ wait' = [wait EXCEPT ![k] = [NoWait EXCEPT !.state = "open", !.client = c,
                                                  !.forced = forced]]
    /\ UNCHANGED <<browser, standing, flow, code, redeem, token, kernel>>

\* Mutant: a completion is allowed to a browser that is logged in.
AllowCompletionAnyway(k, answered) ==
    /\ wait[k].state = "open"
    /\ wait[k].asked < MaxAsks
    /\ wait' = [wait EXCEPT ![k] = [@ EXCEPT !.asked = wait[k].asked + 1, !.heldThen = held]]
    /\ completion' = IF answered THEN [wait |-> k, ask |-> wait[k].asked + 1]
                                 ELSE completion
    /\ UNCHANGED <<created, cookie, held, standing, flow, code, redeem, token, kernel>>

\* The login page is asked for, without a root; the last completion counts,
\* whether or not its answer reaches the browser.
AllowCompletion(k, answered) ==
    /\ wait[k].state = "open"
    /\ wait[k].asked < MaxAsks
    /\ ~Resolved(cookie)
    /\ wait' = [wait EXCEPT ![k] = [@ EXCEPT !.asked = wait[k].asked + 1, !.heldThen = held]]
    /\ completion' = IF answered THEN [wait |-> k, ask |-> wait[k].asked + 1]
                                 ELSE completion
    /\ UNCHANGED <<created, cookie, held, standing, flow, code, redeem, token, kernel>>

FirstCompletion(k) ==
    wait[k].asked > 0 /\ completion = [wait |-> k, ask |-> wait[k].asked]

\* Mutant: a root is enough.
ResumeWithAnyRoot(f, k) ==
    /\ flow[f].pc = "idle"
    /\ wait[k].state = "open"
    /\ Resolved(cookie)
    /\ flow' = [flow EXCEPT ![f] = [NoFlow EXCEPT
                    !.pc = "resuming", !.client = wait[k].client, !.way = "oidc",
                    !.forced = wait[k].forced, !.root = cookie, !.wait = k,
                    !.before = wait[k].heldThen]]
    /\ UNCHANGED <<browser, standing, wait, code, redeem, token, kernel>>

\* Back from the login: the continuation is read and the root resolved.
Resume(f, k) ==
    /\ flow[f].pc = "idle"
    /\ wait[k].state = "open"
    /\ Resolved(cookie)
    /\ wait[k].forced => FirstCompletion(k)
    /\ flow' = [flow EXCEPT ![f] = [NoFlow EXCEPT
                    !.pc = "resuming", !.client = wait[k].client, !.way = "oidc",
                    !.forced = wait[k].forced, !.root = cookie, !.wait = k,
                    !.before = wait[k].heldThen]]
    /\ UNCHANGED <<browser, standing, wait, code, redeem, token, kernel>>

\* Mutant: the continuation stays until its deadline.
KeepContinuation(f) ==
    /\ flow[f].pc = "resuming"
    /\ wait[flow[f].wait].state = "open"
    /\ flow' = [flow EXCEPT ![f].pc = "resolved"]
    /\ UNCHANGED <<browser, standing, wait, code, redeem, token, kernel>>

ConsumeContinuation(f) ==
    /\ flow[f].pc = "resuming"
    /\ wait[flow[f].wait].state = "open"
    /\ wait' = [wait EXCEPT ![flow[f].wait].state = "gone"]
    /\ flow' = [flow EXCEPT ![f].pc = "resolved"]
    /\ UNCHANGED <<browser, standing, code, redeem, token, kernel>>

RelationOf(f) == [root |-> flow[f].root, client |-> flow[f].client]

\* The root that was resolved is not looked at again: it may have been revoked
\* meanwhile, and only its deadline, which is known, is checked.
MayOpen(f) == flow[f].pc = "resolved" /\ flow[f].root \notin expired

\* The one live session of the root and the client is renewed.
ReuseSession(f, s) ==
    /\ MayOpen(f)
    /\ s \in live
    /\ relation[s] = RelationOf(f)
    /\ flow' = [flow EXCEPT ![f].pc = "opened", ![f].session = s]
    /\ UNCHANGED <<browser, standing, wait, code, redeem, token, kernel>>

\* Without one a session is opened.
OpenSession(f, s) ==
    /\ MayOpen(f)
    /\ \A z \in live : relation[z] # RelationOf(f)
    /\ s \notin seen
    /\ seen' = seen \cup {s}
    /\ live' = live \cup {s}
    /\ relation' = [relation EXCEPT ![s] = RelationOf(f)]
    /\ flow' = [flow EXCEPT ![f].pc = "opened", ![f].session = s]
    /\ UNCHANGED <<browser, standing, wait, code, redeem, token, expired>>

SaveCode(f) ==
    /\ flow[f].pc = "opened"
    /\ flow' = [flow EXCEPT ![f].pc = "issued"]
    /\ code' = [code EXCEPT ![f] = "live"]
    /\ UNCHANGED <<browser, standing, wait, redeem, token, kernel>>

-----------------------------------------------------------------------------
(* Redemption.                                                             *)

Session(e) == flow[redeem[e].flow].session
Code(e) == code[redeem[e].flow]
CodeBecomes(e, c) == code' = [code EXCEPT ![redeem[e].flow] = c]
Moves(e, pc) == redeem' = [redeem EXCEPT ![e].pc = pc]

\* The application presents a code it was given, or saw, on one of the ways its
\* client has or once had; the OIDC and the business way also locate the client
\* session that a failure will end.
Begin(e, f, w) ==
    /\ redeem[e].pc = "idle" /\ MayBegin
    /\ flow[f].pc = "issued"
    /\ w \in WaysOf(flow[f].client)
    /\ redeem' = [redeem EXCEPT ![e] = [NoRedeem EXCEPT !.pc = "begun", !.flow = f, !.way = w]]
    /\ UNCHANGED <<browser, standing, wait, flow, code, token, kernel>>

\* OIDC takes the code before it looks at the session.
TakeCode(e) ==
    /\ redeem[e].pc = "begun"
    /\ redeem[e].way = "oidc"
    /\ Code(e) = "live"
    /\ CodeBecomes(e, e)
    /\ redeem' = [redeem EXCEPT ![e] = [@ EXCEPT !.pc = "taken", !.consumption = "consumed"]]
    /\ UNCHANGED <<browser, standing, wait, flow, token, kernel>>

\* Custom SSO reads it first; the way for which it was issued is in it.
ReadCode(e) ==
    /\ redeem[e].pc = "begun"
    /\ redeem[e].way # "oidc"
    /\ Code(e) = "live"
    /\ redeem[e].way = flow[redeem[e].flow].way
    /\ Moves(e, "read")
    /\ UNCHANGED <<browser, standing, wait, flow, code, token, kernel>>

\* The session is usable, and the one of the code.
Permit(e) ==
    /\ redeem[e].pc \in {"taken", "read"}
    /\ Session(e) \in usable
    /\ Moves(e, IF redeem[e].way = "oidc" THEN "ready" ELSE "permitted")
    /\ UNCHANGED <<browser, standing, wait, flow, code, token, kernel>>

\* Mutant: what was read is taken to be still there.
ConsumeUnchecked(e) ==
    /\ redeem[e].pc = "permitted"
    /\ CodeBecomes(e, e)
    /\ redeem' = [redeem EXCEPT ![e] = [@ EXCEPT !.pc = "ready", !.consumption = "consumed"]]
    /\ UNCHANGED <<browser, standing, wait, flow, token, kernel>>

ConsumeCode(e) ==
    /\ redeem[e].pc = "permitted"
    /\ Code(e) = "live"
    /\ CodeBecomes(e, e)
    /\ redeem' = [redeem EXCEPT ![e] = [@ EXCEPT !.pc = "ready", !.consumption = "consumed"]]
    /\ UNCHANGED <<browser, standing, wait, flow, token, kernel>>

\* The delivery that follows changes nothing here, unless it fails.
SaveToken(e) ==
    /\ redeem[e].pc = "ready"
    /\ token' = [token EXCEPT ![e] = "live"]
    /\ redeem' = [redeem EXCEPT ![e] = [@ EXCEPT !.pc = "saved", !.known = (redeem[e].way # "oidc")]]
    /\ UNCHANGED <<browser, standing, wait, flow, code, kernel>>

-----------------------------------------------------------------------------
(* Failures of a redemption.                                               *)

AfterFailure(w) == IF w = "managed" THEN "compensating" ELSE "revoking"

Failing(x, consumption, known) ==
    [x EXCEPT !.pc = AfterFailure(x.way), !.consumption = consumption, !.known = known]

Reading == {"begun", "permitted"}
Working == {"begun", "taken", "read", "permitted", "ready", "saved"}

\* A check fails, a reader is refused, the answer cannot be delivered.
Fail(e) ==
    /\ redeem[e].pc \in Working
    /\ redeem' = [redeem EXCEPT ![e] = Failing(@, @.consumption, @.known)]
    /\ UNCHANGED <<browser, standing, wait, flow, code, token, kernel>>

\* The code is not there, or was taken meanwhile.
MissCode(e) ==
    /\ redeem[e].pc \in Reading
    /\ Code(e) # "live"
    /\ redeem' = [redeem EXCEPT ![e] = Failing(@, "missing", @.known)]
    /\ UNCHANGED <<browser, standing, wait, flow, code, token, kernel>>

Unheard(e) == redeem' = [redeem EXCEPT ![e] = Failing(@, "unknown", @.known)]

\* A call that takes the code gets no answer: it was taken, or not.
TakenOrNot(e) ==
    /\ Unheard(e)
    /\ code' = code \/ (Code(e) = "live" /\ CodeBecomes(e, e))
    /\ UNCHANGED <<browser, standing, wait, flow, token, kernel>>

TakeUnheard(e) ==
    /\ redeem[e].pc = "begun"
    /\ redeem[e].way = "oidc"
    /\ TakenOrNot(e)

ReadUnheard(e) ==
    /\ redeem[e].pc = "begun"
    /\ redeem[e].way # "oidc"
    /\ Unheard(e)
    /\ UNCHANGED <<browser, standing, wait, flow, code, token, kernel>>

ConsumeUnheard(e) ==
    /\ redeem[e].pc = "permitted"
    /\ TakenOrNot(e)

\* Mutant: a token is known once it is saved.
SaveUnheardUnknown(e) ==
    /\ redeem[e].pc = "ready"
    /\ \/ token' = token
       \/ token' = [token EXCEPT ![e] = "live"]
    /\ redeem' = [redeem EXCEPT ![e] = Failing(@, @.consumption, FALSE)]
    /\ UNCHANGED <<browser, standing, wait, flow, code, kernel>>

\* The call that saves the token gets no answer; custom SSO knows the token
\* from before the call.
SaveUnheard(e) ==
    /\ redeem[e].pc = "ready"
    /\ \/ token' = token
       \/ token' = [token EXCEPT ![e] = "live"]
    /\ redeem' = [redeem EXCEPT ![e] = Failing(@, @.consumption, @.way # "oidc")]
    /\ UNCHANGED <<browser, standing, wait, flow, code, kernel>>

AfterRevocation(w) == IF w = "oidc" THEN "failed" ELSE "compensating"

\* The client session that was located at the beginning is ended; not in time,
\* perhaps, and then the outcome is unknown.
RevokeForFailure(e) ==
    /\ redeem[e].pc = "revoking"
    /\ \E r \in {"ended", "unknown"} :
          /\ redeem' = [redeem EXCEPT ![e] = [@ EXCEPT !.pc = AfterRevocation(redeem[e].way),
                                                       !.revocation = r]]
          /\ \/ live' = live \ {Session(e)}
             \/ r = "unknown" /\ live' = live
    /\ UNCHANGED <<browser, standing, wait, flow, code, token, seen, relation, expired>>

\* The token, if one was prepared, is removed; a managed failure does no more.
Compensate(e) ==
    /\ redeem[e].pc = "compensating"
    /\ \E c \in IF redeem[e].known THEN {"removed", "unknown"} ELSE {"not_attempted"} :
          /\ redeem' = [redeem EXCEPT ![e] = [@ EXCEPT !.pc = "failed", !.compensation = c]]
          /\ \/ c # "removed" /\ token' = token
             \/ c # "not_attempted" /\ token' = [token EXCEPT ![e] = "gone"]
    /\ UNCHANGED <<browser, standing, wait, flow, code, kernel>>

-----------------------------------------------------------------------------
(* Logout.                                                                 *)

\* A use of the token is granted.
Granted(e) == token[e] = "live" /\ Session(e) \in usable

\* The holder of a custom SSO token ends the root of its session.
LogoutByToken(e) ==
    /\ Granted(e)
    /\ redeem[e].way # "oidc"
    /\ EndRoot(relation[Session(e)].root)

\* The browser ends the root it presents now.
LogoutOfBrowser ==
    /\ Resolved(cookie)
    /\ standing' = standing \ {cookie}
    /\ cookie' = NoOne
    /\ UNCHANGED <<created, held, completion, wait, flow, code, redeem, token, kernel>>

-----------------------------------------------------------------------------
BrowserStep == \E r \in Roots : Login(r) \/ ReceiveCookie(r) \/ EndRoot(r) \/ ExpireRoot(r)

Ending ==
    \/ \E s \in Sessions : EndSession(s)
    \/ \E f \in Flows : ExpireCode(f)
    \/ \E k \in Waits : ExpireWait(k)

Authorization ==
    \/ \E f \in Flows, c \in Clients : AuthorizeOidc(f, c)
    \/ \E f \in Flows, c \in Clients, w \in Ways : AuthorizeSso(f, c, w)
    \/ \E k \in Waits, c \in OidcClients, forced \in BOOLEAN : SaveContinuation(k, c, forced)
    \/ \E k \in Waits, answered \in BOOLEAN : AllowCompletion(k, answered)
    \/ \E f \in Flows, k \in Waits : Resume(f, k)
    \/ \E f \in Flows : ConsumeContinuation(f) \/ SaveCode(f)
    \/ \E f \in Flows, s \in Sessions : ReuseSession(f, s) \/ OpenSession(f, s)

Redemption ==
    \/ \E e \in Exchanges, f \in Flows, w \in Ways : Begin(e, f, w)
    \/ \E e \in Exchanges :
          \/ TakeCode(e) \/ ReadCode(e) \/ Permit(e) \/ ConsumeCode(e)
          \/ SaveToken(e)
          \/ Fail(e) \/ MissCode(e)
          \/ TakeUnheard(e) \/ ReadUnheard(e) \/ ConsumeUnheard(e) \/ SaveUnheard(e)
          \/ RevokeForFailure(e) \/ Compensate(e)

Logout == LogoutOfBrowser \/ \E e \in Exchanges : LogoutByToken(e)

Next == BrowserStep \/ Ending \/ Authorization \/ Redemption \/ Logout

Spec == Init /\ [][Next]_vars

-----------------------------------------------------------------------------
(* Correctness.                                                            *)

\* Every variable has its type; what a request has reached is what its place
\* says; and no session, however often renewed, outlives the deadline of its
\* root.
TypeOK ==
    /\ standing \subseteq created \ expired /\ expired \subseteq created /\ created \subseteq Roots
    /\ held \subseteq created /\ cookie \in held \cup {NoOne}
    /\ completion \in [wait : Waits \cup {NoOne}, ask : 0..MaxAsks]
    /\ wait \in [Waits -> [state : {"none", "open", "gone"}, client : OidcClients \cup {NoOne},
                           forced : BOOLEAN, asked : 0..MaxAsks, heldThen : SUBSET Roots]]
    /\ flow \in [Flows -> [pc : {"idle", "resuming", "resolved", "opened", "issued"},
                           client : Clients \cup {NoOne}, way : Ways \cup {"none"},
                           forced : BOOLEAN, root : Roots \cup {NoOne},
                           wait : Waits \cup {NoOne}, before : SUBSET Roots,
                           session : Sessions \cup {NoOne}]]
    /\ code \in [Flows -> {"none", "live", "gone"} \cup Exchanges]
    /\ redeem \in [Exchanges ->
          [pc : Working \cup {"idle", "revoking", "compensating", "failed"},
           flow : Flows \cup {NoOne}, way : Ways \cup {"none"}, known : BOOLEAN,
           consumption : {"not_attempted", "unknown", "missing", "consumed"},
           revocation : {"none", "ended", "unknown"},
           compensation : {"none", "not_attempted", "removed", "unknown"}]]
    /\ token \in [Exchanges -> {"none", "live", "gone"}]
    /\ live \subseteq seen /\ seen \subseteq Sessions
    /\ relation \in [Sessions -> [root : Roots \cup {NoOne}, client : Clients \cup {NoOne}]]
    /\ \A f \in Flows : flow[f].pc = "issued" => flow[f].session \in seen
    /\ \A e \in Exchanges : redeem[e].pc # "idle" =>
          redeem[e].flow \in Flows /\ flow[redeem[e].flow].pc = "issued"
    /\ \A s \in live : relation[s].root \in created \ expired

\* A code becomes one token at most: the redemption that made one is the
\* redemption that took the code, whatever runs beside it and is not answered.
OneTokenPerCode ==
    \A e \in Exchanges : token[e] # "none" => Code(e) = e

\* What a failed redemption reports holds, and goes on to hold: a session it
\* ended grants no use of any token again, a token it removed or did not save is
\* not there, and a code it did not attempt or did not find was not taken by it.
ReportIsTrue ==
    \A e \in Exchanges : redeem[e].pc = "failed" =>
       /\ redeem[e].revocation = "ended" => Session(e) \notin usable
       /\ redeem[e].compensation \in {"removed", "not_attempted"} => token[e] # "live"
       /\ redeem[e].consumption \in {"not_attempted", "missing"} => Code(e) # e
       /\ redeem[e].consumption = "consumed" => Code(e) = e

\* A request that forces a login is answered under a root the browser was not
\* given before the login page was asked for, and by one code only.
ForcedLoginIsFresh ==
    \A f \in Flows : flow[f].forced /\ code[f] # "none" =>
       /\ wait[flow[f].wait].asked > 0
       /\ flow[f].root \notin flow[f].before
       /\ \A g \in Flows \ {f} : code[g] # "none" => flow[g].wait # flow[f].wait

=============================================================================
