------------------------- MODULE CodeExchangeProofs -------------------------
(***************************************************************************)
(* Proofs about CodeExchange, for any roots, sessions, clients, requests,  *)
(* continuations and redemptions.                                          *)
(*                                                                         *)
(* What is to be shown speaks of codes, tokens and reports; none of it is  *)
(* inductive.  It rests on where each redemption is (what it attempted,    *)
(* what it knows, what it may have left behind), on the one request that   *)
(* consumed a continuation, and on what the browser was given since the    *)
(* login page was asked for.  Inv says these, part by part.  The last      *)
(* section is about steps: requests, redemptions and tokens only go on     *)
(* (OnlyGoOn), and sessions as the kernel promises (StepOfKernel).         *)
(***************************************************************************)
EXTENDS CodeExchange, TLAPS

CodeStates == {"none", "live", "gone"} \cup Exchanges
TokenStates == {"none", "live", "gone"}

WaitType == [state : {"none", "open", "gone"}, client : OidcClients \cup {NoOne},
             forced : BOOLEAN, asked : 0..MaxAsks, heldThen : SUBSET Roots]

FlowType == [pc : {"idle", "resuming", "resolved", "opened", "issued"},
             client : Clients \cup {NoOne}, way : Ways \cup {"none"},
             forced : BOOLEAN, root : Roots \cup {NoOne},
             wait : Waits \cup {NoOne}, before : SUBSET Roots,
             session : Sessions \cup {NoOne}]

RedeemType == [pc : Working \cup {"idle", "revoking", "compensating", "failed"},
               flow : Flows \cup {NoOne}, way : Ways \cup {"none"}, known : BOOLEAN,
               consumption : {"not_attempted", "unknown", "missing", "consumed"},
               revocation : {"none", "ended", "unknown"},
               compensation : {"none", "not_attempted", "removed", "unknown"}]

RelationType == [root : Roots \cup {NoOne}, client : Clients \cup {NoOne}]

BrowserSound ==
    /\ standing \subseteq created \ expired /\ expired \subseteq created /\ created \subseteq Roots
    /\ held \subseteq created /\ cookie \in held \cup {NoOne}
    /\ completion \in [wait : Waits \cup {NoOne}, ask : 0..MaxAsks]

\* Two sessions of one root and client are never live together.
SessionsSound ==
    /\ live \subseteq seen /\ seen \subseteq Sessions
    /\ relation \in [Sessions -> RelationType]
    /\ \A s \in live : relation[s].root \in created \ expired
    /\ \A s, z \in live : relation[s] = relation[z] => s = z

\* Once a login page was asked for, the root the browser presents is one it was
\* given since.
WaitSound(x) ==
    /\ x \in WaitType
    /\ x.heldThen \subseteq held
    /\ x.state = "none" => x.asked = 0
    /\ x.asked > 0 /\ cookie \in standing => cookie \notin x.heldThen

WaitsSound == wait \in [Waits -> WaitType] /\ \A k \in Waits : WaitSound(wait[k])

\* The requests that are past the consumption of their continuation.
Past == {"resolved", "opened", "issued"}

FlowSound(x, c) ==
    /\ x.pc # "idle" => x.root \in created
    /\ x.pc \in {"opened", "issued"} => x.session \in seen
    /\ x.pc # "issued" <=> c = "none"
    /\ x.pc = "resuming" => x.wait \in Waits
    /\ x.pc \in Past /\ x.wait # NoOne => wait[x.wait].state = "gone"
    /\ x.forced => x.wait \in Waits /\ wait[x.wait].asked > 0 /\ x.root \notin x.before

FlowsSound ==
    /\ flow \in [Flows -> FlowType] /\ code \in [Flows -> CodeStates]
    /\ \A f \in Flows : FlowSound(flow[f], code[f])
    /\ \A f, g \in Flows :
          f # g /\ flow[f].pc \in Past /\ flow[g].pc \in Past /\ flow[f].wait = flow[g].wait
             => flow[f].wait = NoOne

\* What a redemption remembers fits its place.
PlaceSound(x) ==
    /\ x.pc = "idle" <=> x.flow = NoOne
    /\ x.pc \in {"idle", "begun", "read", "permitted"} => x.consumption = "not_attempted"
    /\ x.pc \in {"taken", "ready", "saved"} => x.consumption = "consumed"
    /\ x.pc = "taken" => x.way = "oidc"
    /\ x.pc \in {"read", "compensating"} => x.way # "oidc"
    /\ x.compensation # "none" => x.pc = "failed"
    /\ x.compensation = "not_attempted" => ~x.known /\ x.way # "oidc"
    /\ x.known => x.consumption = "consumed"

\* What it says of the code, and of the token, holds.
CodeSound(x, e, c) ==
    /\ x.consumption = "consumed" => c = e
    /\ x.consumption \in {"not_attempted", "missing"} => c # e

TokenSound(x, t) ==
    /\ t # "none" => x.consumption = "consumed"
    /\ x.way # "oidc" /\ ~x.known => t = "none"
    /\ x.pc \in {"idle", "begun", "taken", "read", "permitted", "ready"} => t = "none"
    /\ x.compensation = "removed" => t = "gone"

RedeemSound(e) ==
    /\ PlaceSound(redeem[e])
    /\ TokenSound(redeem[e], token[e])
    /\ redeem[e].flow # NoOne =>
          /\ flow[redeem[e].flow].pc = "issued"
          /\ CodeSound(redeem[e], e, code[redeem[e].flow])
          /\ redeem[e].revocation = "ended" => flow[redeem[e].flow].session \notin live

RedeemsSound ==
    /\ redeem \in [Exchanges -> RedeemType] /\ token \in [Exchanges -> TokenStates]
    /\ \A e \in Exchanges : RedeemSound(e)

\* A code is taken by the redemption it was presented to.
TakenSound ==
    \A f \in Flows, e \in Exchanges : code[f] = e => redeem[e].flow = f

Inv ==
    /\ BrowserSound /\ SessionsSound /\ WaitsSound
    /\ FlowsSound /\ RedeemsSound /\ TakenSound

-----------------------------------------------------------------------------
\* The invariant is about the properties that are to be shown.
LEMMA InvTypes == Inv => TypeOK
<1> SUFFICES ASSUME Inv PROVE TypeOK
  OBVIOUS
<1>1. \A f \in Flows : flow[f].pc = "issued" => flow[f].session \in seen
  BY DEF Inv, FlowsSound, FlowSound
<1>2. \A e \in Exchanges : redeem[e].pc # "idle" =>
         redeem[e].flow \in Flows /\ flow[redeem[e].flow].pc = "issued"
  BY DEF Inv, RedeemsSound, RedeemSound, PlaceSound, RedeemType
<1>3. /\ wait \in [Waits -> WaitType]
      /\ flow \in [Flows -> FlowType] /\ code \in [Flows -> CodeStates]
      /\ redeem \in [Exchanges -> RedeemType] /\ token \in [Exchanges -> TokenStates]
  BY DEF Inv, WaitsSound, FlowsSound, RedeemsSound
<1> QED
  BY <1>1, <1>2, <1>3
  DEF Inv, BrowserSound, SessionsSound, TypeOK,
      WaitType, FlowType, RedeemType, RelationType, CodeStates, TokenStates

LEMMA InvToken == Inv => OneTokenPerCode
<1> SUFFICES ASSUME Inv, NEW e \in Exchanges, token[e] # "none"
             PROVE  Code(e) = e
  BY DEF OneTokenPerCode
<1>1. RedeemSound(e)
  BY DEF Inv, RedeemsSound
<1>2. redeem[e].consumption = "consumed" /\ redeem[e].flow # NoOne
  BY <1>1 DEF RedeemSound, TokenSound, PlaceSound
<1> QED
  BY <1>1, <1>2 DEF RedeemSound, CodeSound, Code

LEMMA InvReport == Inv => ReportIsTrue
<1> SUFFICES ASSUME Inv, NEW e \in Exchanges, redeem[e].pc = "failed"
             PROVE  /\ redeem[e].revocation = "ended" => Session(e) \notin usable
                    /\ redeem[e].compensation \in {"removed", "not_attempted"} => token[e] # "live"
                    /\ redeem[e].consumption \in {"not_attempted", "missing"} => Code(e) # e
                    /\ redeem[e].consumption = "consumed" => Code(e) = e
  BY DEF ReportIsTrue
<1>1. RedeemSound(e)
  BY DEF Inv, RedeemsSound
<1>2. redeem[e].flow # NoOne
  BY <1>1 DEF RedeemSound, PlaceSound
<1> QED
  BY <1>1, <1>2 DEF RedeemSound, PlaceSound, CodeSound, TokenSound, Code, Session, usable

LEMMA InvForced == Inv => ForcedLoginIsFresh
<1> SUFFICES ASSUME Inv, NEW f \in Flows, flow[f].forced, code[f] # "none"
             PROVE  /\ wait[flow[f].wait].asked > 0
                    /\ flow[f].root \notin flow[f].before
                    /\ \A g \in Flows \ {f} : code[g] # "none" => flow[g].wait # flow[f].wait
  BY DEF ForcedLoginIsFresh
<1>1. FlowSound(flow[f], code[f]) /\ flow[f].wait \in Waits
  BY DEF Inv, FlowsSound, FlowSound
<1>2. \A g \in Flows : code[g] # "none" => flow[g].pc \in Past
  BY DEF Inv, FlowsSound, FlowSound, Past
<1> QED
  BY <1>1, <1>2, CodeExchangeAssumption DEF Inv, FlowsSound, FlowSound

LEMMA InitInv == Init => Inv
<1> SUFFICES ASSUME Init PROVE Inv
  OBVIOUS
<1> USE CodeExchangeAssumption
<1>1. BrowserSound /\ SessionsSound
  BY DEF Init, BrowserSound, SessionsSound, NoCompletion, RelationType, NoRelation
<1>2. NoWait \in WaitType /\ NoFlow \in FlowType /\ NoRedeem \in RedeemType
  BY DEF NoWait, NoFlow, NoRedeem, WaitType, FlowType, RedeemType, Working
<1>3. WaitsSound
  BY <1>2 DEF Init, WaitsSound, WaitSound, NoWait
<1>4. FlowsSound
  BY <1>2 DEF Init, FlowsSound, FlowSound, NoFlow, CodeStates, Past
<1>5. RedeemsSound
  BY <1>2 DEF Init, RedeemsSound, RedeemSound, PlaceSound, TokenSound, NoRedeem, TokenStates
<1>6. TakenSound
  BY DEF Init, TakenSound
<1> QED
  BY <1>1, <1>3, <1>4, <1>5, <1>6 DEF Inv

-----------------------------------------------------------------------------
(* Redemption.                                                             *)

\* What a step of a redemption may do to its code: leave it, or take it.
TakesAtMost(e, f, c) ==
    /\ code' = [code EXCEPT ![f] = c]
    /\ c = code[f] \/ (code[f] = "live" /\ c = e)

\* A step of redemption e, after which it is x, its code c and its token t.
LEMMA RedemptionStep ==
    ASSUME Inv, NEW e \in Exchanges, NEW x \in RedeemType, NEW c \in CodeStates,
           NEW t \in TokenStates,
           redeem' = [redeem EXCEPT ![e] = x],
           x.flow \in Flows, flow[x.flow].pc = "issued",
           redeem[e].flow \in {NoOne, x.flow},
           TakesAtMost(e, x.flow, c),
           token' = [token EXCEPT ![e] = t],
           live' \subseteq live,
           UNCHANGED <<browser, standing, wait, flow, seen, relation, expired>>,
           PlaceSound(x), CodeSound(x, e, c), TokenSound(x, t),
           x.revocation = "ended" => flow[x.flow].session \notin live'
    PROVE  Inv'
<1>1. UNCHANGED <<created, cookie, held, completion, standing, wait, flow, seen, relation, expired>>
  BY DEF browser
<1>2. BrowserSound' /\ SessionsSound' /\ WaitsSound'
  BY <1>1 DEF Inv, BrowserSound, SessionsSound, WaitsSound, WaitSound
<1>3. code \in [Flows -> CodeStates] /\ redeem \in [Exchanges -> RedeemType]
         /\ token \in [Exchanges -> TokenStates]
  BY DEF Inv, FlowsSound, RedeemsSound
<1>4. code[x.flow] # "none" /\ c # "none"
  BY CodeExchangeAssumption DEF Inv, FlowsSound, FlowSound, TakesAtMost
<1>5. \A f \in Flows : code'[f] = IF f = x.flow THEN c ELSE code[f]
  BY <1>3 DEF TakesAtMost
<1>6. /\ \A d \in Exchanges : redeem'[d] = IF d = e THEN x ELSE redeem[d]
      /\ \A d \in Exchanges : token'[d] = IF d = e THEN t ELSE token[d]
  <2>1. \A d \in Exchanges : redeem'[d] = IF d = e THEN x ELSE redeem[d]
    BY <1>3
  <2>2. \A d \in Exchanges : token'[d] = IF d = e THEN t ELSE token[d]
    BY <1>3
  <2> QED
    BY <2>1, <2>2
<1>7. FlowsSound'
  <2>1. code' \in [Flows -> CodeStates]
    BY <1>3 DEF TakesAtMost
  <2>2. \A f \in Flows : code'[f] = "none" <=> code[f] = "none"
    BY <1>4, <1>5
  <2>3. \A f \in Flows : FlowSound(flow[f], code[f])'
    BY <1>1, <2>2 DEF Inv, FlowsSound, FlowSound
  <2> QED
    BY <1>1, <2>1, <2>3 DEF Inv, FlowsSound
<1>8. TakenSound'
  <2> SUFFICES ASSUME NEW f \in Flows, NEW d \in Exchanges, code'[f] = d
               PROVE  redeem'[d].flow = f
    BY DEF TakenSound
  <2>1. CASE code[f] = d
    <3>1. redeem[d].flow = f
      BY <2>1 DEF Inv, TakenSound
    <3> QED
      BY <1>6, <3>1, CodeExchangeAssumption
  <2>2. CASE code[f] # d
    BY <1>5, <1>6, <2>2 DEF TakesAtMost
  <2> QED
    BY <2>1, <2>2
<1>9. RedeemsSound'
  <2>1. redeem' \in [Exchanges -> RedeemType] /\ token' \in [Exchanges -> TokenStates]
    BY <1>3
  <2>2. RedeemSound(e)'
    <3>1. redeem'[e] = x /\ token'[e] = t /\ code'[x.flow] = c /\ flow' = flow
      BY <1>1, <1>5, <1>6
    <3> QED
      BY <3>1 DEF RedeemSound
  <2>3. ASSUME NEW d \in Exchanges, d # e PROVE RedeemSound(d)'
    <3>1. RedeemSound(d)
      BY DEF Inv, RedeemsSound
    <3>2. redeem'[d] = redeem[d] /\ token'[d] = token[d]
      BY <1>6, <2>3
    <3>3. redeem[d].flow \in Flows \cup {NoOne}
      BY <1>3 DEF RedeemType
    <3>4. ASSUME NEW f \in Flows, CodeSound(redeem[d], d, code[f])
          PROVE  CodeSound(redeem[d], d, code'[f])
      BY <1>5, <2>3, <3>4, CodeExchangeAssumption DEF CodeSound, TakesAtMost
    <3> QED
      BY <1>1, <3>1, <3>2, <3>3, <3>4 DEF RedeemSound
  <2> QED
    BY <2>1, <2>2, <2>3 DEF RedeemsSound
<1> QED
  BY <1>2, <1>7, <1>8, <1>9 DEF Inv

\* What the invariant says of a redemption that has begun.
Begun(e) ==
    /\ redeem[e] \in RedeemType /\ redeem[e].flow \in Flows
    /\ flow[redeem[e].flow].pc = "issued"
    /\ Code(e) \in CodeStates /\ token[e] \in TokenStates
    /\ PlaceSound(redeem[e])
    /\ CodeSound(redeem[e], e, Code(e))
    /\ TokenSound(redeem[e], token[e])
    /\ redeem[e].revocation = "ended" => Session(e) \notin live

LEMMA InvBegun ==
    ASSUME Inv, NEW e \in Exchanges, redeem[e].pc # "idle"
    PROVE  Begun(e)
<1>1. redeem[e] \in RedeemType /\ RedeemSound(e) /\ token[e] \in TokenStates
  BY DEF Inv, RedeemsSound
<1>2. redeem[e].flow \in Flows
  BY <1>1 DEF RedeemSound, PlaceSound, RedeemType
<1>3. Code(e) \in CodeStates
  BY <1>2 DEF Inv, FlowsSound, Code
<1> QED
  BY <1>1, <1>2, <1>3, CodeExchangeAssumption DEF Begun, RedeemSound, Code, Session

\* A step of a redemption that has begun: its place, and what it reports, change.
LEMMA Continues ==
    ASSUME Inv, NEW e \in Exchanges, redeem[e].pc # "idle",
           NEW x, NEW c \in CodeStates, NEW t \in TokenStates,
           x \in RedeemType, x.flow = redeem[e].flow,
           redeem' = [redeem EXCEPT ![e] = x],
           code' = [code EXCEPT ![redeem[e].flow] = c] \/ (code' = code /\ c = Code(e)),
           c = Code(e) \/ (Code(e) = "live" /\ c = e),
           token' = [token EXCEPT ![e] = t] \/ (token' = token /\ t = token[e]),
           live' \subseteq live,
           UNCHANGED <<browser, standing, wait, flow, seen, relation, expired>>,
           PlaceSound(x), CodeSound(x, e, c), TokenSound(x, t),
           x.revocation = "ended" => redeem[e].revocation = "ended" \/ Session(e) \notin live'
    PROVE  Inv'
<1>1. Begun(e)
  BY InvBegun
<1>2. code \in [Flows -> CodeStates] /\ token \in [Exchanges -> TokenStates]
  BY DEF Inv, FlowsSound, RedeemsSound
<1>3. code' = [code EXCEPT ![x.flow] = c]
  BY <1>1, <1>2 DEF Begun, Code
<1>4. token' = [token EXCEPT ![e] = t]
  BY <1>2
<1>5. TakesAtMost(e, x.flow, c)
  BY <1>3 DEF TakesAtMost, Code
<1>6. x.revocation = "ended" => flow[x.flow].session \notin live'
  BY <1>1 DEF Begun, Session
<1> QED
  BY <1>1, <1>4, <1>5, <1>6, RedemptionStep DEF Begun

LEMMA BeginInv ==
    ASSUME Inv, NEW e \in Exchanges, NEW f \in Flows, NEW w \in Ways, Begin(e, f, w)
    PROVE  Inv'
<1>1. PICK x : x = [NoRedeem EXCEPT !.pc = "begun", !.flow = f, !.way = w]
  OBVIOUS
<1>2. /\ x \in RedeemType /\ x.flow = f /\ x.pc = "begun" /\ x.way = w /\ ~x.known
      /\ x.consumption = "not_attempted" /\ x.revocation = "none" /\ x.compensation = "none"
  BY <1>1 DEF NoRedeem, RedeemType, Working
<1>3. redeem' = [redeem EXCEPT ![e] = x]
  BY <1>1 DEF Begin
<1>4. RedeemSound(e) /\ redeem[e].pc = "idle" /\ redeem[e].flow = NoOne /\ token[e] = "none"
  BY DEF Begin, Inv, RedeemsSound, RedeemSound, PlaceSound, TokenSound
<1>5. code[f] # e
  BY <1>4, CodeExchangeAssumption DEF Inv, TakenSound
<1>6. PlaceSound(x) /\ CodeSound(x, e, code[f]) /\ TokenSound(x, token[e])
  BY <1>2, <1>4, <1>5, CodeExchangeAssumption DEF PlaceSound, CodeSound, TokenSound
<1>7. /\ code \in [Flows -> CodeStates] /\ token \in [Exchanges -> TokenStates]
      /\ code[f] \in CodeStates /\ token[e] \in TokenStates
  BY DEF Inv, FlowsSound, RedeemsSound
<1>8. TakesAtMost(e, x.flow, code[f]) /\ token' = [token EXCEPT ![e] = token[e]]
  BY <1>2, <1>7 DEF Begin, TakesAtMost
<1>9. live' \subseteq live /\ UNCHANGED <<browser, standing, wait, flow, seen, relation, expired>>
  BY DEF Begin, kernel
<1> QED
  BY <1>2, <1>3, <1>4, <1>6, <1>7, <1>8, <1>9, RedemptionStep DEF Begin

LEMMA TakeCodeInv == ASSUME Inv, NEW e \in Exchanges, TakeCode(e) PROVE Inv'
<1>1. PICK x : x = [redeem[e] EXCEPT !.pc = "taken", !.consumption = "consumed"]
  OBVIOUS
<1>2. Begun(e) /\ redeem[e].pc = "begun" /\ redeem[e].way = "oidc"
  BY InvBegun DEF TakeCode
<1>3. /\ x \in RedeemType /\ x.flow = redeem[e].flow /\ x.pc = "taken" /\ x.way = "oidc"
      /\ x.known = redeem[e].known /\ x.consumption = "consumed"
      /\ x.revocation = redeem[e].revocation /\ x.compensation = redeem[e].compensation
  BY <1>1, <1>2 DEF Begun, RedeemType, Working
<1>4. PlaceSound(x) /\ CodeSound(x, e, e) /\ TokenSound(x, token[e])
  BY <1>2, <1>3, CodeExchangeAssumption DEF Begun, PlaceSound, CodeSound, TokenSound
<1>5. redeem' = [redeem EXCEPT ![e] = x]
  BY <1>1 DEF TakeCode
<1>6. e \in CodeStates /\ token[e] \in TokenStates
  BY <1>2 DEF Begun, CodeStates
<1> QED
  BY <1>2, <1>3, <1>4, <1>5, <1>6, Continues DEF TakeCode, CodeBecomes, kernel

\* A step that moves a redemption on, and takes nothing.
LEMMA MovesInv ==
    ASSUME Inv, NEW e \in Exchanges, redeem[e].pc # "idle",
           NEW pc \in {"read", "permitted", "ready"}, Moves(e, pc),
           pc = "read" => redeem[e].pc = "begun" /\ redeem[e].way # "oidc",
           pc = "permitted" => redeem[e].pc = "read",
           pc = "ready" => redeem[e].pc = "taken",
           UNCHANGED <<browser, standing, wait, flow, code, token, kernel>>
    PROVE  Inv'
<1>1. PICK x : x = [redeem[e] EXCEPT !.pc = pc]
  OBVIOUS
<1>2. Begun(e)
  BY InvBegun
<1>3. /\ x \in RedeemType /\ x.flow = redeem[e].flow /\ x.pc = pc /\ x.way = redeem[e].way
      /\ x.known = redeem[e].known /\ x.consumption = redeem[e].consumption
      /\ x.revocation = redeem[e].revocation /\ x.compensation = redeem[e].compensation
  BY <1>1, <1>2 DEF Begun, RedeemType, Working
<1>4. redeem[e].pc \in {"begun", "read", "taken"}
  OBVIOUS
<1>5. PlaceSound(x) /\ CodeSound(x, e, Code(e)) /\ TokenSound(x, token[e])
  BY <1>2, <1>3, <1>4, CodeExchangeAssumption DEF Begun, PlaceSound, CodeSound, TokenSound
<1>6. redeem' = [redeem EXCEPT ![e] = x]
  BY <1>1 DEF Moves
<1>7. Code(e) \in CodeStates /\ token[e] \in TokenStates
  BY <1>2 DEF Begun
<1> QED
  BY <1>3, <1>5, <1>6, <1>7, Continues DEF kernel

LEMMA ReadCodeInv == ASSUME Inv, NEW e \in Exchanges, ReadCode(e) PROVE Inv'
BY MovesInv DEF ReadCode

LEMMA PermitInv == ASSUME Inv, NEW e \in Exchanges, Permit(e) PROVE Inv'
<1>1. redeem[e].pc # "idle"
  BY DEF Permit
<1>2. redeem[e].pc = "taken" => redeem[e].way = "oidc"
  BY <1>1, InvBegun DEF Begun, PlaceSound
<1>3. redeem[e].pc = "read" => redeem[e].way # "oidc"
  BY <1>1, InvBegun DEF Begun, PlaceSound
<1>4. CASE redeem[e].pc = "taken"
  BY <1>1, <1>2, <1>4, MovesInv DEF Permit
<1>5. CASE redeem[e].pc = "read"
  BY <1>1, <1>3, <1>5, MovesInv DEF Permit
<1> QED
  BY <1>4, <1>5 DEF Permit

LEMMA ConsumeCodeInv == ASSUME Inv, NEW e \in Exchanges, ConsumeCode(e) PROVE Inv'
<1>1. PICK x : x = [redeem[e] EXCEPT !.pc = "ready", !.consumption = "consumed"]
  OBVIOUS
<1>2. Begun(e) /\ redeem[e].pc = "permitted"
  BY InvBegun DEF ConsumeCode
<1>3. /\ x \in RedeemType /\ x.flow = redeem[e].flow /\ x.pc = "ready" /\ x.way = redeem[e].way
      /\ x.known = redeem[e].known /\ x.consumption = "consumed"
      /\ x.revocation = redeem[e].revocation /\ x.compensation = redeem[e].compensation
  BY <1>1, <1>2 DEF Begun, RedeemType, Working
<1>4. PlaceSound(x) /\ CodeSound(x, e, e) /\ TokenSound(x, token[e])
  BY <1>2, <1>3, CodeExchangeAssumption DEF Begun, PlaceSound, CodeSound, TokenSound
<1>5. redeem' = [redeem EXCEPT ![e] = x]
  BY <1>1 DEF ConsumeCode
<1>6. e \in CodeStates /\ token[e] \in TokenStates
  BY <1>2 DEF Begun, CodeStates
<1> QED
  BY <1>2, <1>3, <1>4, <1>5, <1>6, Continues DEF ConsumeCode, CodeBecomes, kernel

LEMMA SaveTokenInv == ASSUME Inv, NEW e \in Exchanges, SaveToken(e) PROVE Inv'
<1>1. PICK x : x = [redeem[e] EXCEPT !.pc = "saved", !.known = (redeem[e].way # "oidc")]
  OBVIOUS
<1>2. Begun(e) /\ redeem[e].pc = "ready"
  BY InvBegun DEF SaveToken
<1>3. /\ x \in RedeemType /\ x.flow = redeem[e].flow /\ x.pc = "saved" /\ x.way = redeem[e].way
      /\ x.known = (redeem[e].way # "oidc") /\ x.consumption = redeem[e].consumption
      /\ x.revocation = redeem[e].revocation /\ x.compensation = redeem[e].compensation
  BY <1>1, <1>2 DEF Begun, RedeemType, Working
<1>4. PlaceSound(x) /\ CodeSound(x, e, Code(e)) /\ TokenSound(x, "live")
  BY <1>2, <1>3, CodeExchangeAssumption DEF Begun, PlaceSound, CodeSound, TokenSound
<1>5. redeem' = [redeem EXCEPT ![e] = x]
  BY <1>1 DEF SaveToken
<1>6. Code(e) \in CodeStates /\ "live" \in TokenStates
  BY <1>2 DEF Begun, TokenStates
<1> QED
  BY <1>2, <1>3, <1>4, <1>5, <1>6, Continues DEF SaveToken, kernel

\* A step that makes a redemption fail.
LEMMA FailingInv ==
    ASSUME Inv, NEW e \in Exchanges, redeem[e].pc \in Working,
           NEW con \in {"not_attempted", "unknown", "missing", "consumed"}, NEW known \in BOOLEAN,
           NEW c \in CodeStates, NEW t \in TokenStates,
           redeem' = [redeem EXCEPT ![e] = Failing(redeem[e], con, known)],
           code' = [code EXCEPT ![redeem[e].flow] = c] \/ (code' = code /\ c = Code(e)),
           c = Code(e) \/ (Code(e) = "live" /\ c = e),
           token' = [token EXCEPT ![e] = t] \/ (token' = token /\ t = token[e]),
           UNCHANGED <<browser, standing, wait, flow, kernel>>,
           known => con = "consumed",
           con = "consumed" => c = e,
           con \in {"not_attempted", "missing"} => c # e,
           t # "none" => con = "consumed",
           redeem[e].way # "oidc" /\ ~known => t = "none"
    PROVE  Inv'
<1>1. PICK x : x = Failing(redeem[e], con, known)
  OBVIOUS
<1>2. Begun(e)
  BY InvBegun DEF Working
<1>3. /\ x \in RedeemType /\ x.flow = redeem[e].flow /\ x.pc = AfterFailure(redeem[e].way)
      /\ x.way = redeem[e].way /\ x.known = known /\ x.consumption = con
      /\ x.revocation = redeem[e].revocation /\ x.compensation = redeem[e].compensation
  BY <1>1, <1>2 DEF Begun, RedeemType, Failing, AfterFailure
<1>4. redeem[e].compensation = "none"
  BY <1>2 DEF Begun, PlaceSound, Working, RedeemType
<1>5. PlaceSound(x) /\ CodeSound(x, e, c) /\ TokenSound(x, t)
  BY <1>2, <1>3, <1>4, CodeExchangeAssumption
  DEF Begun, PlaceSound, CodeSound, TokenSound, AfterFailure, Working
<1>6. redeem' = [redeem EXCEPT ![e] = x]
  BY <1>1
<1> QED
  BY <1>2, <1>3, <1>5, <1>6, Continues DEF kernel, Working

LEMMA FailInv == ASSUME Inv, NEW e \in Exchanges, Fail(e) PROVE Inv'
<1>1. Begun(e)
  BY InvBegun DEF Fail, Working
<1>2. redeem[e].consumption \in {"not_attempted", "unknown", "missing", "consumed"}
         /\ redeem[e].known \in BOOLEAN
  BY <1>1 DEF Begun, RedeemType
<1> QED
  BY <1>1, <1>2, FailingInv DEF Fail, Begun, PlaceSound, CodeSound, TokenSound

\* While a code is still to be taken, nothing was attempted and nothing is known.
LEMMA StillReading ==
    ASSUME Inv, NEW e \in Exchanges, redeem[e].pc \in Reading
    PROVE  Begun(e) /\ redeem[e].known = FALSE /\ token[e] = "none" /\ Code(e) # e
<1>1. Begun(e)
  BY InvBegun DEF Reading
<1> QED
  BY <1>1 DEF Begun, Reading, PlaceSound, TokenSound, CodeSound, RedeemType

LEMMA MissCodeInv == ASSUME Inv, NEW e \in Exchanges, MissCode(e) PROVE Inv'
<1>1. Begun(e) /\ redeem[e].known = FALSE /\ token[e] = "none" /\ Code(e) # e
  BY StillReading DEF MissCode
<1> QED
  BY <1>1, FailingInv DEF MissCode, Begun, Reading, Working

LEMMA TakenOrNotInv ==
    ASSUME Inv, NEW e \in Exchanges, redeem[e].pc \in Reading, TakenOrNot(e)
    PROVE  Inv'
<1>1. Begun(e) /\ redeem[e].known = FALSE /\ token[e] = "none" /\ Code(e) # e
  BY StillReading
<1>2. CASE code' = code
  BY <1>1, <1>2, FailingInv DEF TakenOrNot, Unheard, Begun, Reading, Working
<1>3. CASE Code(e) = "live" /\ CodeBecomes(e, e)
  <2>1. e \in CodeStates
    BY DEF CodeStates
  <2> QED
    BY <1>1, <1>3, <2>1, FailingInv
    DEF TakenOrNot, Unheard, CodeBecomes, Begun, Reading, Working
<1> QED
  BY <1>2, <1>3 DEF TakenOrNot

LEMMA UnheardInv ==
    ASSUME Inv, NEW e \in Exchanges, TakeUnheard(e) \/ ReadUnheard(e) \/ ConsumeUnheard(e)
    PROVE  Inv'
<1>1. CASE ReadUnheard(e)
  <2>1. Begun(e) /\ redeem[e].known = FALSE /\ token[e] = "none" /\ Code(e) # e
    BY <1>1, StillReading DEF ReadUnheard, Reading
  <2> QED
    BY <1>1, <2>1, FailingInv DEF ReadUnheard, Unheard, Begun, Reading, Working
<1> QED
  BY <1>1, TakenOrNotInv DEF TakeUnheard, ConsumeUnheard, Reading

LEMMA SaveUnheardInv == ASSUME Inv, NEW e \in Exchanges, SaveUnheard(e) PROVE Inv'
<1>1. Begun(e) /\ redeem[e].pc = "ready"
  BY InvBegun DEF SaveUnheard
<1>2. redeem[e].consumption = "consumed" /\ Code(e) = e /\ token[e] = "none"
  BY <1>1 DEF Begun, PlaceSound, CodeSound, TokenSound
<1>3. CASE token' = token
  BY <1>1, <1>2, <1>3, FailingInv DEF SaveUnheard, Begun, Working
<1>4. CASE token' = [token EXCEPT ![e] = "live"]
  <2>1. "live" \in TokenStates
    BY DEF TokenStates
  <2> QED
    BY <1>1, <1>2, <1>4, <2>1, FailingInv DEF SaveUnheard, Begun, Working
<1> QED
  BY <1>3, <1>4 DEF SaveUnheard

LEMMA RevokeForFailureInv == ASSUME Inv, NEW e \in Exchanges, RevokeForFailure(e) PROVE Inv'
<1>1. PICK r \in {"ended", "unknown"} :
         /\ redeem' = [redeem EXCEPT ![e] = [redeem[e] EXCEPT !.pc = AfterRevocation(redeem[e].way),
                                                              !.revocation = r]]
         /\ live' = live \ {Session(e)} \/ (r = "unknown" /\ live' = live)
  BY DEF RevokeForFailure
<1>2. PICK x : x = [redeem[e] EXCEPT !.pc = AfterRevocation(redeem[e].way), !.revocation = r]
  OBVIOUS
<1>3. Begun(e) /\ redeem[e].pc = "revoking"
  BY InvBegun DEF RevokeForFailure
<1>4. /\ x \in RedeemType /\ x.flow = redeem[e].flow /\ x.pc = AfterRevocation(redeem[e].way)
      /\ x.way = redeem[e].way /\ x.known = redeem[e].known
      /\ x.consumption = redeem[e].consumption
      /\ x.revocation = r /\ x.compensation = redeem[e].compensation
  BY <1>2, <1>3 DEF Begun, RedeemType, AfterRevocation
<1>5. PlaceSound(x) /\ CodeSound(x, e, Code(e)) /\ TokenSound(x, token[e])
  BY <1>3, <1>4, CodeExchangeAssumption
  DEF Begun, PlaceSound, CodeSound, TokenSound, AfterRevocation
<1>6. redeem' = [redeem EXCEPT ![e] = x]
  BY <1>1, <1>2
<1>7. Code(e) \in CodeStates /\ token[e] \in TokenStates
  BY <1>3 DEF Begun
<1>8. live' \subseteq live /\ (x.revocation = "ended" => Session(e) \notin live')
  BY <1>1, <1>4
<1>9. UNCHANGED <<browser, standing, wait, flow, code, token, seen, relation, expired>>
  BY DEF RevokeForFailure
<1> QED
  BY <1>3, <1>4, <1>5, <1>6, <1>7, <1>8, <1>9, Continues

LEMMA CompensateInv == ASSUME Inv, NEW e \in Exchanges, Compensate(e) PROVE Inv'
<1>1. Begun(e) /\ redeem[e].pc = "compensating" /\ redeem[e].way # "oidc"
  BY InvBegun DEF Compensate, Begun, PlaceSound
<1>2. PICK r \in IF redeem[e].known THEN {"removed", "unknown"} ELSE {"not_attempted"} :
         /\ redeem' = [redeem EXCEPT ![e] = [redeem[e] EXCEPT !.pc = "failed", !.compensation = r]]
         /\ \/ r # "removed" /\ token' = token
            \/ r # "not_attempted" /\ token' = [token EXCEPT ![e] = "gone"]
  BY DEF Compensate
<1>3. PICK x : x = [redeem[e] EXCEPT !.pc = "failed", !.compensation = r]
  OBVIOUS
<1>4. /\ x \in RedeemType /\ x.flow = redeem[e].flow /\ x.pc = "failed"
      /\ x.way = redeem[e].way /\ x.known = redeem[e].known
      /\ x.consumption = redeem[e].consumption
      /\ x.revocation = redeem[e].revocation /\ x.compensation = r
  BY <1>1, <1>3 DEF Begun, RedeemType
<1>5. redeem' = [redeem EXCEPT ![e] = x]
  BY <1>2, <1>3
<1>6. UNCHANGED <<browser, standing, wait, flow, code, kernel>>
  BY DEF Compensate
<1>7. r = "not_attempted" <=> ~redeem[e].known
  BY <1>1, <1>2 DEF Begun, RedeemType
<1>8. PlaceSound(x) /\ CodeSound(x, e, Code(e))
  BY <1>1, <1>4, <1>7, CodeExchangeAssumption DEF Begun, PlaceSound, CodeSound
<1>9. CASE r # "removed" /\ token' = token
  <2>1. TokenSound(x, token[e])
    BY <1>1, <1>4, <1>9 DEF Begun, TokenSound
  <2> QED
    BY <1>1, <1>4, <1>5, <1>6, <1>8, <1>9, <2>1, Continues DEF Begun, kernel
<1>10. CASE r # "not_attempted" /\ token' = [token EXCEPT ![e] = "gone"]
  <2>1. TokenSound(x, "gone") /\ "gone" \in TokenStates
    BY <1>1, <1>4, <1>7, <1>10 DEF Begun, PlaceSound, TokenSound, TokenStates
  <2> QED
    BY <1>1, <1>4, <1>5, <1>6, <1>8, <1>10, <2>1, Continues DEF Begun, kernel
<1> QED
  BY <1>2, <1>9, <1>10

LEMMA RedemptionInv == ASSUME Inv, Redemption PROVE Inv'
BY BeginInv, TakeCodeInv, ReadCodeInv, PermitInv, ConsumeCodeInv, SaveTokenInv, FailInv,
   MissCodeInv, UnheardInv, SaveUnheardInv, RevokeForFailureInv, CompensateInv
DEF Redemption

-----------------------------------------------------------------------------
(* Authorization.                                                          *)

\* Continuations that were consumed or have expired stay so, and what was asked
\* for was asked for.
WaitsGoOn ==
    \A k \in Waits : /\ wait[k].state = "gone" => wait'[k].state = "gone"
                     /\ wait[k].asked > 0 => wait'[k].asked > 0

\* The continuation of x was consumed by request f alone.
ConsumedAlone(f, x) ==
    x.pc \in Past /\ x.wait # NoOne =>
       \A g \in Flows \ {f} : flow[g].pc \in Past => flow[g].wait # x.wait

SessionsGoOn == seen \subseteq seen' /\ live' \subseteq live \cup (Sessions \ seen)

\* A step of request f, which has not issued its code, after which it is x.
LEMMA FlowStep ==
    ASSUME Inv, NEW f \in Flows, flow[f].pc # "issued",
           NEW x \in FlowType, NEW c \in CodeStates \ Exchanges,
           flow' = [flow EXCEPT ![f] = x],
           code' = [code EXCEPT ![f] = c] \/ (code' = code /\ c = code[f]),
           WaitsGoOn, SessionsGoOn, ConsumedAlone(f, x), UNCHANGED <<browser, redeem, token>>,
           BrowserSound', SessionsSound', WaitsSound',
           FlowSound(x, c)'
    PROVE  Inv'
<1>1. /\ flow \in [Flows -> FlowType] /\ code \in [Flows -> CodeStates]
      /\ redeem \in [Exchanges -> RedeemType]
  BY DEF Inv, FlowsSound, RedeemsSound
<1>2. \A g \in Flows : flow'[g] = IF g = f THEN x ELSE flow[g]
  BY <1>1
<1>3. \A g \in Flows : code'[g] = IF g = f THEN c ELSE code[g]
  BY <1>1
<1>4. FlowsSound'
  <2>0. created' = created
    BY DEF browser
  <2>1. flow' \in [Flows -> FlowType] /\ code' \in [Flows -> CodeStates]
    BY <1>1
  <2>2. FlowSound(flow[f], code[f])'
    <3>1. flow'[f] = x /\ code'[f] = c
      BY <1>2, <1>3
    <3> QED
      BY <3>1 DEF FlowSound
  <2>3. ASSUME NEW g \in Flows, g # f PROVE FlowSound(flow[g], code[g])'
    <3>1. FlowSound(flow[g], code[g]) /\ flow[g] \in FlowType
      BY DEF Inv, FlowsSound
    <3>2. flow'[g] = flow[g] /\ code'[g] = code[g]
      BY <1>2, <1>3, <2>3
    <3>3. flow[g].wait # NoOne => flow[g].wait \in Waits
      BY <3>1 DEF FlowType
    <3> QED
      BY <2>0, <3>1, <3>2, <3>3 DEF FlowSound, WaitsGoOn, SessionsGoOn
  <2>4. ASSUME NEW g \in Flows, NEW h \in Flows, g # h, flow'[g].pc \in Past,
               flow'[h].pc \in Past, flow'[g].wait = flow'[h].wait
        PROVE  flow'[g].wait = NoOne
    BY <1>2, <2>4 DEF Inv, FlowsSound, ConsumedAlone
  <2> QED
    BY <2>1, <2>2, <2>3, <2>4 DEF FlowsSound
<1>5. TakenSound'
  BY <1>3 DEF Inv, TakenSound
<1>6. RedeemsSound'
  <2>1. ASSUME NEW e \in Exchanges PROVE RedeemSound(e)'
    <3>1. RedeemSound(e) /\ redeem[e] \in RedeemType
      BY DEF Inv, RedeemsSound
    <3>2. CASE redeem[e].flow = NoOne
      BY <3>1, <3>2 DEF RedeemSound
    <3>3. CASE redeem[e].flow # NoOne
      <4>1. redeem[e].flow \in Flows \ {f}
        BY <3>1, <3>3 DEF RedeemType, RedeemSound
      <4>2. /\ flow'[redeem[e].flow] = flow[redeem[e].flow]
            /\ code'[redeem[e].flow] = code[redeem[e].flow]
        BY <1>2, <1>3, <4>1
      <4>3. flow[redeem[e].flow].session \in seen
        BY <3>1, <3>3, <4>1 DEF Inv, FlowsSound, FlowSound, RedeemSound
      <4> QED
        BY <3>1, <3>3, <4>2, <4>3 DEF RedeemSound, SessionsGoOn
    <3> QED
      BY <3>2, <3>3
  <2> QED
    BY <2>1 DEF Inv, RedeemsSound
<1> QED
  BY <1>4, <1>5, <1>6 DEF Inv

LEMMA SameGoOn ==
    /\ UNCHANGED wait => WaitsGoOn
    /\ UNCHANGED kernel => SessionsGoOn
BY DEF WaitsGoOn, SessionsGoOn, kernel

\* What a step that leaves the browser and its roots alone preserves.
LEMMA SameBrowser ==
    ASSUME Inv, UNCHANGED <<browser, standing>>, UNCHANGED kernel \/ UNCHANGED expired
    PROVE  BrowserSound'
BY DEF Inv, BrowserSound, browser, kernel

LEMMA SameWaits ==
    ASSUME Inv, UNCHANGED <<browser, standing, wait>>
    PROVE  WaitsSound'
BY DEF Inv, WaitsSound, WaitSound, browser

LEMMA SameSessions ==
    ASSUME Inv, UNCHANGED kernel, UNCHANGED browser \/ created \subseteq created'
    PROVE  SessionsSound'
BY DEF Inv, SessionsSound, kernel, browser

LEMMA AuthorizeInv ==
    ASSUME Inv, NEW f \in Flows, NEW c \in Clients, NEW w \in Ways, Authorize(f, c, w)
    PROVE  Inv'
<1>1. PICK x : x = [NoFlow EXCEPT !.pc = "resolved", !.client = c, !.way = w, !.root = cookie]
  OBVIOUS
<1>2. cookie \in Roots /\ cookie \in created'
  BY DEF Authorize, Resolved, Inv, BrowserSound, browser
<1>3. /\ x \in FlowType /\ x.pc = "resolved" /\ x.wait = NoOne /\ x.forced = FALSE
      /\ x.root = cookie
  BY <1>1, <1>2 DEF NoFlow, FlowType
<1>4. flow' = [flow EXCEPT ![f] = x]
  BY <1>1 DEF Authorize
<1>5. flow[f].pc # "issued" /\ code[f] = "none"
  BY DEF Authorize, Inv, FlowsSound, FlowSound
<1>6. FlowSound(x, "none")'
  BY <1>2, <1>3 DEF FlowSound
<1>7. BrowserSound' /\ SessionsSound' /\ WaitsSound'
  BY SameBrowser, SameSessions, SameWaits DEF Authorize
<1>8. "none" \in CodeStates \ Exchanges
  BY CodeExchangeAssumption DEF CodeStates
<1>9. ConsumedAlone(f, x)
  BY <1>3 DEF ConsumedAlone
<1> QED
  BY <1>3, <1>4, <1>5, <1>6, <1>7, <1>8, <1>9, SameGoOn, FlowStep DEF Authorize

LEMMA AllowedSince ==
    ASSUME Inv, NEW k \in Waits, Resolved(cookie), FirstCompletion(k)
    PROVE  wait[k].asked > 0 /\ cookie \notin wait[k].heldThen
BY DEF Inv, WaitsSound, WaitSound, Resolved, FirstCompletion

LEMMA ResumeInv ==
    ASSUME Inv, NEW f \in Flows, NEW k \in Waits, Resume(f, k)
    PROVE  Inv'
<1>1. PICK x : x = [NoFlow EXCEPT
                    !.pc = "resuming", !.client = wait[k].client, !.way = "oidc",
                    !.forced = wait[k].forced, !.root = cookie, !.wait = k,
                    !.before = wait[k].heldThen]
  OBVIOUS
<1>2. cookie \in Roots /\ cookie \in created' /\ wait[k] \in WaitType
  BY DEF Resume, Resolved, Inv, BrowserSound, WaitsSound, browser
<1>3. /\ wait[k].client \in Clients \cup {NoOne} /\ wait[k].forced \in BOOLEAN
      /\ wait[k].heldThen \in SUBSET Roots
  BY <1>2 DEF WaitType, Clients
<1>4. /\ x \in FlowType /\ x.pc = "resuming" /\ x.wait = k /\ x.forced = wait[k].forced
      /\ x.root = cookie /\ x.before = wait[k].heldThen
  BY <1>1, <1>2, <1>3 DEF NoFlow, FlowType, Ways
<1>5. flow' = [flow EXCEPT ![f] = x]
  BY <1>1 DEF Resume
<1>6. flow[f].pc # "issued" /\ code[f] = "none"
  BY DEF Resume, Inv, FlowsSound, FlowSound
<1>7. FlowSound(x, "none")'
  <2>1. wait' = wait
    BY DEF Resume
  <2>2. wait[k].forced => wait[k].asked > 0 /\ cookie \notin wait[k].heldThen
    BY AllowedSince DEF Resume
  <2> QED
    BY <1>2, <1>4, <2>1, <2>2 DEF FlowSound, Past
<1>8. BrowserSound' /\ SessionsSound' /\ WaitsSound'
  BY SameBrowser, SameSessions, SameWaits DEF Resume
<1>9. "none" \in CodeStates \ Exchanges
  BY CodeExchangeAssumption DEF CodeStates
<1>10. ConsumedAlone(f, x)
  BY <1>4 DEF ConsumedAlone, Past
<1> QED
  BY <1>4, <1>5, <1>6, <1>7, <1>8, <1>9, <1>10, SameGoOn, FlowStep DEF Resume

LEMMA ConsumeContinuationInv ==
    ASSUME Inv, NEW f \in Flows, ConsumeContinuation(f)
    PROVE  Inv'
<1>1. PICK k \in Waits : k = flow[f].wait
  BY DEF ConsumeContinuation, Inv, FlowsSound, FlowSound
<1>2. PICK x : x = [flow[f] EXCEPT !.pc = "resolved"]
  OBVIOUS
<1>3. flow[f] \in FlowType /\ FlowSound(flow[f], code[f])
  BY DEF Inv, FlowsSound
<1>4. /\ x \in FlowType /\ x.pc = "resolved" /\ x.wait = k /\ x.forced = flow[f].forced
      /\ x.root = flow[f].root /\ x.before = flow[f].before
  BY <1>1, <1>2, <1>3 DEF FlowType
<1>5. flow' = [flow EXCEPT ![f] = x]
  BY <1>2 DEF ConsumeContinuation
<1>6. flow[f].pc # "issued" /\ code[f] = "none" /\ code' = code
  BY <1>3 DEF ConsumeContinuation, FlowSound
<1>7. wait[k] \in WaitType /\ WaitSound(wait[k]) /\ wait \in [Waits -> WaitType]
  BY DEF Inv, WaitsSound
<1>8. PICK y : y = [wait[k] EXCEPT !.state = "gone"]
  OBVIOUS
<1>9. /\ y \in WaitType /\ y.state = "gone" /\ y.asked = wait[k].asked
      /\ y.heldThen = wait[k].heldThen
  BY <1>7, <1>8 DEF WaitType
<1>10. wait' = [wait EXCEPT ![k] = y]
  BY <1>1, <1>8 DEF ConsumeContinuation
<1>11. \A j \in Waits : wait'[j] = IF j = k THEN y ELSE wait[j]
  BY <1>7, <1>10
<1>12. WaitsSound'
  <2>1. UNCHANGED <<held, cookie, standing>>
    BY DEF ConsumeContinuation, browser
  <2>2. wait' \in [Waits -> WaitType]
    BY <1>7, <1>9, <1>10
  <2>3. ASSUME NEW j \in Waits PROVE WaitSound(wait[j])'
    BY <1>7, <1>9, <1>11, <2>1 DEF Inv, WaitsSound, WaitSound
  <2> QED
    BY <2>2, <2>3 DEF WaitsSound
<1>13. FlowSound(x, "none")'
  BY <1>1, <1>3, <1>4, <1>6, <1>9, <1>11 DEF ConsumeContinuation, FlowSound, browser
<1>14. BrowserSound' /\ SessionsSound'
  BY SameBrowser, SameSessions DEF ConsumeContinuation
<1>15. "none" \in CodeStates \ Exchanges
  BY CodeExchangeAssumption DEF CodeStates
<1>16. \A g \in Flows \ {f} : flow[g].pc \in Past => flow[g].wait # k
  BY <1>1, CodeExchangeAssumption DEF ConsumeContinuation, Inv, FlowsSound, FlowSound
<1>17. WaitsGoOn
  BY <1>9, <1>11 DEF WaitsGoOn
<1>18. ConsumedAlone(f, x)
  BY <1>4, <1>16 DEF ConsumedAlone
<1>19. UNCHANGED <<browser, redeem, token>> /\ SessionsGoOn
  BY SameGoOn DEF ConsumeContinuation
<1> QED
  BY <1>4, <1>5, <1>6, <1>12, <1>13, <1>14, <1>15, <1>17, <1>18, <1>19, FlowStep

\* The session of the request is there, and may be renewed or new.
LEMMA OpenedInv ==
    ASSUME Inv, NEW f \in Flows, NEW s \in Sessions, flow[f].pc = "resolved",
           flow' = [flow EXCEPT ![f] = [flow[f] EXCEPT !.pc = "opened", !.session = s]],
           UNCHANGED <<browser, standing, wait, code, redeem, token, expired>>,
           s \in seen', SessionsGoOn, SessionsSound'
    PROVE  Inv'
<1>1. PICK x : x = [flow[f] EXCEPT !.pc = "opened", !.session = s]
  OBVIOUS
<1>2. flow[f] \in FlowType /\ FlowSound(flow[f], code[f])
  BY DEF Inv, FlowsSound
<1>3. /\ x \in FlowType /\ x.pc = "opened" /\ x.wait = flow[f].wait /\ x.forced = flow[f].forced
      /\ x.root = flow[f].root /\ x.before = flow[f].before /\ x.session = s
  BY <1>1, <1>2 DEF FlowType
<1>4. flow' = [flow EXCEPT ![f] = x]
  BY <1>1
<1>5. flow[f].pc # "issued" /\ code[f] = "none" /\ code' = code /\ wait' = wait
  BY <1>2 DEF FlowSound
<1>6. FlowSound(x, "none")'
  BY <1>2, <1>3, <1>5 DEF FlowSound, Past, browser
<1>7. BrowserSound' /\ WaitsSound'
  BY SameBrowser, SameWaits
<1>8. "none" \in CodeStates \ Exchanges
  BY CodeExchangeAssumption DEF CodeStates
<1>9. ConsumedAlone(f, x)
  BY <1>3, CodeExchangeAssumption DEF ConsumedAlone, Inv, FlowsSound, Past
<1> QED
  BY <1>3, <1>4, <1>5, <1>6, <1>7, <1>8, <1>9, SameGoOn, FlowStep

LEMMA ReuseSessionInv ==
    ASSUME Inv, NEW f \in Flows, NEW s \in Sessions, ReuseSession(f, s)
    PROVE  Inv'
<1>1. s \in seen' /\ SessionsGoOn
  BY SameGoOn DEF ReuseSession, Inv, SessionsSound, kernel
<1>2. SessionsSound'
  BY SameSessions DEF ReuseSession
<1> QED
  BY <1>1, <1>2, OpenedInv DEF ReuseSession, MayOpen, kernel

\* A session is opened under a root that has not reached its deadline, and when
\* there is no other of its root and client.
LEMMA OpenSessionInv ==
    ASSUME Inv, NEW f \in Flows, NEW s \in Sessions, OpenSession(f, s)
    PROVE  Inv'
<1>1. /\ s \notin seen /\ seen' = seen \cup {s} /\ live' = live \cup {s}
      /\ \A z \in live : z # s /\ relation[z] # RelationOf(f)
  BY DEF OpenSession, Inv, SessionsSound
<1>2. SessionsGoOn
  BY <1>1 DEF SessionsGoOn
<1>3. RelationOf(f) \in RelationType /\ RelationOf(f).root \in created \ expired
  <2>1. flow[f].root \in created /\ flow[f].root \notin expired /\ flow[f] \in FlowType
    BY DEF OpenSession, MayOpen, Inv, FlowsSound, FlowSound
  <2> QED
    BY <2>1 DEF RelationOf, RelationType, FlowType
<1>4. SessionsSound'
  <2>1. relation' = [relation EXCEPT ![s] = RelationOf(f)] /\ UNCHANGED <<created, expired>>
    BY DEF OpenSession, browser
  <2>2. relation \in [Sessions -> RelationType] /\ live \subseteq Sessions
    BY DEF Inv, SessionsSound
  <2>3. relation' \in [Sessions -> RelationType]
    BY <1>3, <2>1, <2>2
  <2>4. relation'[s] = RelationOf(f) /\ \A z \in live : relation'[z] = relation[z]
    BY <1>1, <2>1, <2>2
  <2>5. ASSUME NEW z \in live' PROVE relation'[z].root \in (created \ expired)'
    BY <1>1, <1>3, <2>1, <2>4, <2>5 DEF Inv, SessionsSound
  <2>6. ASSUME NEW z \in live', NEW y \in live', relation'[z] = relation'[y] PROVE z = y
    BY <1>1, <2>4, <2>6 DEF Inv, SessionsSound
  <2> QED
    BY <1>1, <2>3, <2>5, <2>6 DEF Inv, SessionsSound
<1> QED
  BY <1>1, <1>2, <1>4, OpenedInv DEF OpenSession, MayOpen

LEMMA SaveCodeInv == ASSUME Inv, NEW f \in Flows, SaveCode(f) PROVE Inv'
<1>1. PICK x : x = [flow[f] EXCEPT !.pc = "issued"]
  OBVIOUS
<1>2. flow[f] \in FlowType /\ FlowSound(flow[f], code[f]) /\ flow[f].pc = "opened"
  BY DEF SaveCode, Inv, FlowsSound
<1>3. /\ x \in FlowType /\ x.pc = "issued" /\ x.wait = flow[f].wait /\ x.forced = flow[f].forced
      /\ x.root = flow[f].root /\ x.before = flow[f].before /\ x.session = flow[f].session
  BY <1>1, <1>2 DEF FlowType
<1>4. flow' = [flow EXCEPT ![f] = x]
  BY <1>1 DEF SaveCode
<1>5. wait' = wait /\ seen' = seen /\ created' = created
  BY DEF SaveCode, kernel, browser
<1>6. FlowSound(x, "live")'
  BY <1>2, <1>3, <1>5 DEF FlowSound, Past
<1>7. BrowserSound' /\ WaitsSound' /\ SessionsSound'
  BY SameBrowser, SameWaits, SameSessions DEF SaveCode
<1>8. "live" \in CodeStates \ Exchanges
  BY CodeExchangeAssumption DEF CodeStates
<1>9. ConsumedAlone(f, x)
  BY <1>2, <1>3, CodeExchangeAssumption DEF ConsumedAlone, Inv, FlowsSound, Past
<1> QED
  BY <1>2, <1>3, <1>4, <1>6, <1>7, <1>8, <1>9, SameGoOn, FlowStep DEF SaveCode

-----------------------------------------------------------------------------
(* The browser, its logins and its continuations; the end of sessions.     *)

\* A step that none of the requests and redemptions takes.
LEMMA QuietStep ==
    ASSUME Inv, UNCHANGED <<flow, redeem, token, seen>>, live' \subseteq live, WaitsGoOn,
           UNCHANGED browser \/ created \subseteq created',
           code' \in [Flows -> CodeStates],
           \A f \in Flows : code'[f] = code[f] \/ (code[f] = "live" /\ code'[f] = "gone"),
           BrowserSound', SessionsSound', WaitsSound'
    PROVE  Inv'
<1>1. FlowsSound'
  <2>0. created \subseteq created'
    BY DEF browser
  <2>1. ASSUME NEW g \in Flows PROVE FlowSound(flow[g], code[g])'
    <3>1. FlowSound(flow[g], code[g]) /\ flow[g] \in FlowType
      BY DEF Inv, FlowsSound
    <3>2. flow[g].wait # NoOne => flow[g].wait \in Waits
      BY <3>1 DEF FlowType
    <3> QED
      BY <2>0, <3>1, <3>2 DEF FlowSound, WaitsGoOn
  <2> QED
    BY <2>1 DEF Inv, FlowsSound
<1>2. TakenSound'
  BY CodeExchangeAssumption DEF Inv, TakenSound
<1>3. RedeemsSound'
  <2>1. ASSUME NEW e \in Exchanges PROVE RedeemSound(e)'
    <3>1. RedeemSound(e) /\ redeem[e] \in RedeemType
      BY DEF Inv, RedeemsSound
    <3>2. ASSUME NEW f \in Flows, CodeSound(redeem[e], e, code[f])
          PROVE  CodeSound(redeem[e], e, code'[f])
      BY <3>2, CodeExchangeAssumption DEF CodeSound
    <3> QED
      BY <3>1, <3>2 DEF RedeemSound, RedeemType
  <2> QED
    BY <2>1 DEF Inv, RedeemsSound
<1> QED
  BY <1>1, <1>2, <1>3 DEF Inv

LEMMA SameCodes ==
    ASSUME Inv, UNCHANGED code
    PROVE  /\ code' \in [Flows -> CodeStates]
           /\ \A f \in Flows : code'[f] = code[f] \/ (code[f] = "live" /\ code'[f] = "gone")
BY DEF Inv, FlowsSound

\* A step of continuation k, after which it is x.
LEMMA WaitStep ==
    ASSUME Inv, NEW k \in Waits, NEW x \in WaitType, wait' = [wait EXCEPT ![k] = x],
           WaitSound(x)', UNCHANGED <<cookie, held, standing>>,
           wait[k].state = "gone" => x.state = "gone",
           wait[k].asked > 0 => x.asked > 0
    PROVE  WaitsSound' /\ WaitsGoOn
<1>1. wait \in [Waits -> WaitType]
  BY DEF Inv, WaitsSound
<1>2. \A j \in Waits : wait'[j] = IF j = k THEN x ELSE wait[j]
  BY <1>1
<1>3. ASSUME NEW j \in Waits PROVE WaitSound(wait[j])'
  <2>1. WaitSound(wait[j])
    BY DEF Inv, WaitsSound
  <2>2. CASE j = k
    <3>1. wait'[j] = x
      BY <1>2, <2>2
    <3> QED
      BY <3>1 DEF WaitSound
  <2>3. CASE j # k
    BY <1>2, <2>1, <2>3 DEF WaitSound
  <2> QED
    BY <2>2, <2>3
<1>4. WaitsGoOn
  BY <1>2 DEF WaitsGoOn
<1> QED
  BY <1>1, <1>3, <1>4 DEF WaitsSound

LEMMA SaveContinuationInv ==
    ASSUME Inv, NEW k \in Waits, NEW c \in OidcClients, NEW forced \in BOOLEAN,
           SaveContinuation(k, c, forced)
    PROVE  Inv'
<1>1. PICK x : x = [NoWait EXCEPT !.state = "open", !.client = c, !.forced = forced]
  OBVIOUS
<1>2. x \in WaitType /\ x.state = "open" /\ x.asked = 0 /\ x.heldThen = {}
  <2>1. 0 \in 0..MaxAsks /\ {} \in SUBSET Roots
    BY CodeExchangeAssumption
  <2>2. x.state = "open" /\ x.client = c /\ x.forced = forced /\ x.asked = 0 /\ x.heldThen = {}
    BY <1>1 DEF NoWait
  <2>3. NoWait \in [state : {"none"}, client : {NoOne}, forced : {FALSE},
                    asked : {0}, heldThen : {{}}]
    BY DEF NoWait
  <2>4. x \in [state : {"open"}, client : {c}, forced : {forced}, asked : {0}, heldThen : {{}}]
    BY <1>1, <2>3
  <2> QED
    BY <2>1, <2>2, <2>4 DEF WaitType
<1>3. wait' = [wait EXCEPT ![k] = x]
  BY <1>1 DEF SaveContinuation
<1>4. wait[k].state = "none" /\ wait[k].asked = 0
  BY DEF SaveContinuation, Inv, WaitsSound, WaitSound
<1>5. WaitSound(x)'
  BY <1>2 DEF WaitSound
<1>6. WaitsSound' /\ WaitsGoOn
  BY <1>2, <1>3, <1>4, <1>5, WaitStep DEF SaveContinuation, browser
<1>7. BrowserSound' /\ SessionsSound'
  BY SameBrowser, SameSessions DEF SaveContinuation
<1> QED
  BY <1>6, <1>7, SameCodes, QuietStep DEF SaveContinuation, kernel

LEMMA AllowCompletionInv ==
    ASSUME Inv, NEW k \in Waits, NEW answered \in BOOLEAN, AllowCompletion(k, answered)
    PROVE  Inv'
<1>1. PICK n : n = wait[k].asked + 1
  OBVIOUS
<1>2. wait[k] \in WaitType /\ WaitSound(wait[k]) /\ wait[k].state = "open"
  BY DEF AllowCompletion, Inv, WaitsSound
<1>3. n \in 0..MaxAsks /\ n > 0
  <2>1. wait[k].asked \in 0..MaxAsks /\ wait[k].asked < MaxAsks
    BY <1>2 DEF AllowCompletion, WaitType
  <2> QED
    BY <1>1, <2>1, CodeExchangeAssumption
<1>4. PICK x : x = [wait[k] EXCEPT !.asked = n, !.heldThen = held]
  OBVIOUS
<1>5. x \in WaitType /\ x.state = "open" /\ x.asked = n /\ x.heldThen = held
  <2>1. held \in SUBSET Roots
    BY DEF Inv, BrowserSound
  <2> QED
    BY <1>2, <1>3, <1>4, <2>1 DEF WaitType
<1>6. wait' = [wait EXCEPT ![k] = x]
  BY <1>1, <1>4 DEF AllowCompletion
<1>7. WaitSound(x)'
  BY <1>5 DEF AllowCompletion, Resolved, WaitSound
<1>8. WaitsSound' /\ WaitsGoOn
  BY <1>2, <1>3, <1>5, <1>6, <1>7, WaitStep DEF AllowCompletion
<1>9. BrowserSound'
  <2>1. completion' \in [wait : Waits \cup {NoOne}, ask : 0..MaxAsks]
    BY <1>1, <1>3 DEF AllowCompletion, Inv, BrowserSound
  <2> QED
    BY <2>1 DEF AllowCompletion, Inv, BrowserSound, kernel
<1>10. SessionsSound'
  BY SameSessions DEF AllowCompletion
<1> QED
  BY <1>8, <1>9, <1>10, SameCodes, QuietStep DEF AllowCompletion, kernel

LEMMA ExpireWaitInv == ASSUME Inv, NEW k \in Waits, ExpireWait(k) PROVE Inv'
<1>1. PICK x : x = [wait[k] EXCEPT !.state = "gone"]
  OBVIOUS
<1>2. wait[k] \in WaitType /\ WaitSound(wait[k])
  BY DEF Inv, WaitsSound
<1>3. /\ x \in WaitType /\ x.state = "gone" /\ x.asked = wait[k].asked
      /\ x.heldThen = wait[k].heldThen
  BY <1>1, <1>2 DEF WaitType
<1>4. wait' = [wait EXCEPT ![k] = x]
  BY <1>1 DEF ExpireWait
<1>5. UNCHANGED <<cookie, held, standing>>
  BY DEF ExpireWait, browser
<1>6. WaitSound(x)'
  BY <1>2, <1>3, <1>5 DEF WaitSound
<1>7. WaitsSound' /\ WaitsGoOn
  BY <1>3, <1>4, <1>5, <1>6, WaitStep
<1>8. BrowserSound' /\ SessionsSound'
  BY SameBrowser, SameSessions DEF ExpireWait
<1> QED
  BY <1>7, <1>8, SameCodes, QuietStep DEF ExpireWait, kernel

LEMMA LoginInv == ASSUME Inv, NEW r \in Roots, Login(r) PROVE Inv'
<1>1. BrowserSound'
  BY DEF Login, Inv, BrowserSound, kernel
<1>2. SessionsSound'
  BY SameSessions DEF Login
<1>3. cookie # r
  BY CodeExchangeAssumption DEF Login, Inv, BrowserSound
<1>4. WaitsSound'
  BY <1>3 DEF Login, Inv, WaitsSound, WaitSound
<1> QED
  BY <1>1, <1>2, <1>4, SameGoOn, SameCodes, QuietStep DEF Login, kernel

\* A root that reaches the browser is none that it was given before.
LEMMA ReceiveCookieInv == ASSUME Inv, NEW r \in Roots, ReceiveCookie(r) PROVE Inv'
<1>1. BrowserSound'
  BY DEF ReceiveCookie, Inv, BrowserSound, kernel
<1>2. SessionsSound'
  BY SameSessions DEF ReceiveCookie
<1>3. WaitsSound'
  BY DEF ReceiveCookie, Inv, WaitsSound, WaitSound
<1> QED
  BY <1>1, <1>2, <1>3, SameGoOn, SameCodes, QuietStep DEF ReceiveCookie, kernel

LEMMA EndRootInv == ASSUME Inv, NEW r, EndRoot(r) PROVE Inv'
<1>1. BrowserSound'
  BY DEF EndRoot, Inv, BrowserSound, browser, kernel
<1>2. SessionsSound'
  BY SameSessions DEF EndRoot
<1>3. WaitsSound'
  BY DEF EndRoot, Inv, WaitsSound, WaitSound, browser
<1> QED
  BY <1>1, <1>2, <1>3, SameGoOn, SameCodes, QuietStep DEF EndRoot, kernel

\* A root that expires takes its sessions along.
LEMMA ExpireRootInv == ASSUME Inv, NEW r, ExpireRoot(r) PROVE Inv'
<1>1. BrowserSound'
  BY DEF ExpireRoot, Inv, BrowserSound, browser
<1>2. SessionsSound'
  BY DEF ExpireRoot, Inv, SessionsSound, SessionsOf, browser
<1>3. WaitsSound'
  BY DEF ExpireRoot, Inv, WaitsSound, WaitSound, browser
<1> QED
  BY <1>1, <1>2, <1>3, SameGoOn, SameCodes, QuietStep DEF ExpireRoot

LEMMA LogoutOfBrowserInv == ASSUME Inv, LogoutOfBrowser PROVE Inv'
<1>1. BrowserSound'
  BY DEF LogoutOfBrowser, Inv, BrowserSound, kernel
<1>2. SessionsSound'
  BY SameSessions DEF LogoutOfBrowser
<1>3. NoOne \notin standing
  BY CodeExchangeAssumption DEF Inv, BrowserSound
<1>4. WaitsSound'
  BY <1>3 DEF LogoutOfBrowser, Inv, WaitsSound, WaitSound
<1> QED
  BY <1>1, <1>2, <1>4, SameGoOn, SameCodes, QuietStep DEF LogoutOfBrowser, kernel

LEMMA EndSessionInv == ASSUME Inv, NEW s \in Sessions, EndSession(s) PROVE Inv'
<1>1. BrowserSound' /\ WaitsSound'
  BY SameBrowser, SameWaits DEF EndSession
<1>2. SessionsSound'
  BY DEF EndSession, Inv, SessionsSound, browser
<1> QED
  BY <1>1, <1>2, SameGoOn, SameCodes, QuietStep DEF EndSession

LEMMA ExpireCodeInv == ASSUME Inv, NEW f \in Flows, ExpireCode(f) PROVE Inv'
<1>1. BrowserSound' /\ WaitsSound' /\ SessionsSound'
  BY SameBrowser, SameWaits, SameSessions DEF ExpireCode
<1>2. /\ code' \in [Flows -> CodeStates]
      /\ \A g \in Flows : code'[g] = code[g] \/ (code[g] = "live" /\ code'[g] = "gone")
  BY DEF ExpireCode, Inv, FlowsSound, CodeStates
<1> QED
  BY <1>1, <1>2, SameGoOn, QuietStep DEF ExpireCode, kernel

-----------------------------------------------------------------------------
LEMMA AuthorizationInv == ASSUME Inv, Authorization PROVE Inv'
BY AuthorizeInv, SaveContinuationInv, AllowCompletionInv, ResumeInv, ConsumeContinuationInv,
   SaveCodeInv, ReuseSessionInv, OpenSessionInv
DEF Authorization, AuthorizeOidc, AuthorizeSso, Ways

LEMMA StayInv == Inv /\ UNCHANGED vars => Inv'
<1> SUFFICES ASSUME Inv, UNCHANGED vars PROVE Inv'
  OBVIOUS
<1>1. UNCHANGED <<browser, standing, wait, flow, code, redeem, token, kernel>>
  BY DEF vars
<1>2. BrowserSound' /\ WaitsSound' /\ SessionsSound'
  BY <1>1, SameBrowser, SameWaits, SameSessions
<1> QED
  BY <1>1, <1>2, SameGoOn, SameCodes, QuietStep DEF kernel

LEMMA NextInv == Inv /\ [Next]_vars => Inv'
BY LoginInv, ReceiveCookieInv, EndRootInv, ExpireRootInv, EndSessionInv, ExpireCodeInv, ExpireWaitInv,
   AuthorizationInv, RedemptionInv, LogoutOfBrowserInv, StayInv
DEF Next, BrowserStep, Ending, Logout, LogoutByToken

LEMMA Invariance == Spec => []Inv
BY InitInv, NextInv, PTL DEF Spec

\* Every variable has its type, a redemption is of a code that was issued, and no
\* session outlives the deadline of its root.
THEOREM TypeCorrect == Spec => []TypeOK
BY Invariance, InvTypes, PTL

\* A code becomes one token at most, however many redemptions present it and
\* whatever calls stay without an answer.
THEOREM CodesAreSingleUse == Spec => []OneTokenPerCode
BY Invariance, InvToken, PTL

\* What a failed redemption reports of the code, the token and the session is
\* true, and stays true.
THEOREM ReportsAreTrue == Spec => []ReportIsTrue
BY Invariance, InvReport, PTL

\* A request that forces a login is answered under a root the browser was given
\* since the login page was asked for, by one code only.
THEOREM ForcedLogins == Spec => []ForcedLoginIsFresh
BY Invariance, InvForced, PTL

-----------------------------------------------------------------------------
(* Sessions and grants over time.                                          *)

\* What a step other than an opening may do: sessions end, roots end, and a root
\* that comes to stand is new.
OnlyEnds ==
    /\ UNCHANGED <<seen, relation>>
    /\ live' \subseteq live
    /\ standing' \subseteq standing \cup (Roots \ created)

LEMMA StepOnlyEnds ==
    ASSUME Next
    PROVE  OnlyEnds \/ \E f \in Flows, s \in Sessions : OpenSession(f, s)
<1>1. ASSUME NEW r, EndRoot(r) PROVE OnlyEnds
  BY <1>1 DEF EndRoot, OnlyEnds, kernel
<1>2. CASE BrowserStep
  BY <1>1, <1>2 DEF BrowserStep, Login, ReceiveCookie, ExpireRoot, OnlyEnds, kernel
<1>3. CASE Ending
  BY <1>3 DEF Ending, EndSession, ExpireCode, ExpireWait, OnlyEnds, kernel
<1>4. CASE Authorization
  BY <1>4 DEF Authorization, AuthorizeOidc, AuthorizeSso, Authorize, SaveContinuation,
              AllowCompletion, Resume, ConsumeContinuation, SaveCode, ReuseSession,
              OnlyEnds, kernel
<1>5. CASE Redemption
  <2>1. ASSUME NEW e \in Exchanges, RevokeForFailure(e) PROVE OnlyEnds
    BY <2>1 DEF RevokeForFailure, OnlyEnds
  <2> QED
    BY <1>5, <2>1 DEF Redemption, Begin, TakeCode, ReadCode, Permit, ConsumeCode, SaveToken,
                      Fail, MissCode, TakeUnheard, ReadUnheard, ConsumeUnheard, TakenOrNot,
                      SaveUnheard, Compensate, OnlyEnds, kernel
<1>6. CASE Logout
  BY <1>1, <1>6 DEF Logout, LogoutByToken, LogoutOfBrowser, OnlyEnds, kernel
<1> QED
  BY <1>2, <1>3, <1>4, <1>5, <1>6 DEF Next

\* A session that is opened, perhaps under a root that was revoked, has no usable
\* one beside it; else usable sessions only become fewer, also at a login.
LEMMA StepOfKernel ==
    ASSUME Inv, Next
    PROVE  Kernel!Close \/ \E s \in Sessions : Kernel!Open(s)
<1>1. CASE OnlyEnds
  <2>1. ASSUME NEW s \in live, relation[s].root \in standing' PROVE relation[s].root \in standing
    BY <1>1, <2>1 DEF OnlyEnds, Inv, SessionsSound
  <2>2. usable' \subseteq usable
    BY <1>1, <2>1 DEF OnlyEnds, usable
  <2> QED
    BY <1>1, <2>2 DEF OnlyEnds, Kernel!Close
<1>2. ASSUME NEW f \in Flows, NEW s \in Sessions, OpenSession(f, s)
      PROVE  Kernel!Open(s)
  <2>1. /\ s \notin seen /\ seen' = seen \cup {s} /\ live' = live \cup {s} /\ s \notin live
        /\ standing' = standing
    BY <1>2 DEF OpenSession, Inv, SessionsSound
  <2>2. /\ relation'[s] = RelationOf(f)
        /\ \A z \in seen : relation'[z] = relation[z]
    BY <1>2, <2>1 DEF OpenSession, Inv, SessionsSound
  <2>3. \A z \in live : z \in seen /\ relation[z] # RelationOf(f)
    BY <1>2 DEF OpenSession, Inv, SessionsSound
  <2>4. \A z \in live : relation'[z] = relation[z]
    BY <2>2, <2>3
  <2>5. usable' = usable \cup IF RelationOf(f).root \in standing THEN {s} ELSE {}
    BY <2>1, <2>2, <2>4 DEF usable
  <2>6. \A z \in usable : relation'[z] # relation'[s]
    BY <2>2, <2>3, <2>4 DEF usable
  <2> QED
    BY <2>1, <2>2, <2>5, <2>6 DEF Kernel!Open
<1> QED
  BY <1>1, <1>2, StepOnlyEnds

\* The protocols change the sessions only as ApplicationSessions promises: no
\* authorization, login, redemption, failure or logout revives a session, or
\* opens a second one of its root and client that is usable, although an opening
\* does not look at the root again.
THEOREM SessionsAsPromised == Spec => Kernel!Spec
<1>1. Init => Kernel!Init
  BY DEF Init, Kernel!Init, usable
<1>2. Inv /\ [Next]_vars => [Kernel!Next]_(Kernel!vars)
  <2> SUFFICES ASSUME Inv, [Next]_vars PROVE [Kernel!Next]_(Kernel!vars)
    OBVIOUS
  <2>1. CASE Next
    BY <2>1, StepOfKernel DEF Kernel!Next
  <2>2. CASE UNCHANGED vars
    BY <2>2 DEF vars, kernel, usable, Kernel!vars
  <2> QED
    BY <2>1, <2>2
<1> QED
  BY <1>1, <1>2, Invariance, PTL DEF Spec, Kernel!Spec

\* Requests and redemptions only go on: what was issued stays as it is, a
\* redemption stays with its request, and a token that is gone stays gone.
OnlyGoOn ==
    /\ \A f \in Flows : flow[f].pc = "issued" => flow'[f] = flow[f]
    /\ \A e \in Exchanges : redeem[e].flow # NoOne => redeem'[e].flow = redeem[e].flow
    /\ \A e \in Exchanges : token[e] # "none" =>
          token'[e] # "none" /\ (token[e] = "gone" => token'[e] = "gone")

LEMMA RequestsGoOn ==
    ASSUME NEW f \in Flows, flow[f].pc # "issued",
           \A g \in Flows \ {f} : flow'[g] = flow[g], UNCHANGED <<redeem, token>>
    PROVE  OnlyGoOn
BY DEF OnlyGoOn

LEMMA RedemptionGoesOn ==
    ASSUME Inv, NEW e \in Exchanges, UNCHANGED flow, NEW x, NEW t,
           redeem' = [redeem EXCEPT ![e] = x], redeem[e].flow \in {NoOne, x.flow},
           token' = token \/ token' = [token EXCEPT ![e] = t],
           t = "gone" \/ (t = "live" /\ token[e] = "none")
    PROVE  OnlyGoOn
<1>1. redeem \in [Exchanges -> RedeemType] /\ token \in [Exchanges -> TokenStates]
  BY DEF Inv, RedeemsSound
<1>2. \A d \in Exchanges : redeem'[d] = IF d = e THEN x ELSE redeem[d]
  BY <1>1
<1>3. \A d \in Exchanges : token'[d] = token[d] \/ (d = e /\ token'[d] = t)
  BY <1>1
<1> QED
  BY <1>2, <1>3 DEF OnlyGoOn

LEMMA AuthorizationGoesOn == ASSUME Inv, Authorization PROVE OnlyGoOn
<1>1. flow \in [Flows -> FlowType]
  BY DEF Inv, FlowsSound
<1>2. CASE UNCHANGED <<flow, redeem, token>>
  BY <1>2 DEF OnlyGoOn
<1>3. ASSUME NEW f \in Flows, flow[f].pc # "issued", NEW x,
             flow' = [flow EXCEPT ![f] = x], UNCHANGED <<redeem, token>>
      PROVE  OnlyGoOn
  BY <1>1, <1>3, RequestsGoOn
<1>4. ASSUME NEW f \in Flows, NEW c, NEW w, Authorize(f, c, w) PROVE OnlyGoOn
  BY <1>3, <1>4 DEF Authorize
<1>5. ASSUME NEW f \in Flows, NEW k \in Waits, Resume(f, k) PROVE OnlyGoOn
  BY <1>3, <1>5 DEF Resume
<1>6. ASSUME NEW f \in Flows, ConsumeContinuation(f) PROVE OnlyGoOn
  <2>1. flow' = [flow EXCEPT ![f] = [flow[f] EXCEPT !.pc = "resolved"]]
    BY <1>6 DEF ConsumeContinuation
  <2> QED
    BY <1>3, <1>6, <2>1 DEF ConsumeContinuation
<1>7. ASSUME NEW f \in Flows, SaveCode(f) PROVE OnlyGoOn
  <2>1. flow' = [flow EXCEPT ![f] = [flow[f] EXCEPT !.pc = "issued"]]
    BY <1>7 DEF SaveCode
  <2> QED
    BY <1>3, <1>7, <2>1 DEF SaveCode
<1>8. ASSUME NEW f \in Flows, NEW s \in Sessions, ReuseSession(f, s) \/ OpenSession(f, s)
      PROVE  OnlyGoOn
  <2>1. flow' = [flow EXCEPT ![f] = [flow[f] EXCEPT !.pc = "opened", !.session = s]]
    BY <1>8 DEF ReuseSession, OpenSession
  <2> QED
    BY <1>3, <1>8, <2>1 DEF ReuseSession, OpenSession, MayOpen
<1> QED
  BY <1>2, <1>4, <1>5, <1>6, <1>7, <1>8
  DEF Authorization, AuthorizeOidc, AuthorizeSso, SaveContinuation, AllowCompletion

LEMMA RedemptionGoOn == ASSUME Inv, Redemption PROVE OnlyGoOn
<1>1. redeem \in [Exchanges -> RedeemType] /\ token \in [Exchanges -> TokenStates]
  BY DEF Inv, RedeemsSound
<1>2. ASSUME NEW e \in Exchanges, NEW f \in Flows, NEW w \in Ways, Begin(e, f, w)
      PROVE  OnlyGoOn
  <2>1. redeem[e].flow = NoOne
    BY <1>2 DEF Begin, Inv, RedeemsSound, RedeemSound, PlaceSound
  <2>2. PICK x : x = [NoRedeem EXCEPT !.pc = "begun", !.flow = f, !.way = w]
    OBVIOUS
  <2>3. redeem' = [redeem EXCEPT ![e] = x] /\ flow' = flow /\ token' = token
    BY <1>2, <2>2 DEF Begin
  <2> QED
    BY <2>1, <2>3, RedemptionGoesOn
<1>3. ASSUME NEW e \in Exchanges, NEW x, x.flow = redeem[e].flow, UNCHANGED flow,
             redeem' = [redeem EXCEPT ![e] = x],
             \/ token' = token
             \/ token' = [token EXCEPT ![e] = "gone"]
             \/ token' = [token EXCEPT ![e] = "live"] /\ token[e] = "none"
      PROVE  OnlyGoOn
  <2>1. CASE token' = [token EXCEPT ![e] = "live"] /\ token[e] = "none"
    BY <1>3, <2>1, RedemptionGoesOn
  <2>2. CASE token' = token \/ token' = [token EXCEPT ![e] = "gone"]
    BY <1>3, <2>2, RedemptionGoesOn
  <2> QED
    BY <1>3, <2>1, <2>2
<1>4. ASSUME NEW e \in Exchanges, redeem[e].pc = "ready" PROVE token[e] = "none"
  BY <1>4 DEF Inv, RedeemsSound, RedeemSound, TokenSound
<1>5. ASSUME NEW e \in Exchanges, NEW pc, Moves(e, pc), UNCHANGED <<flow, token>>
      PROVE  OnlyGoOn
  <2>1. PICK x : x = [redeem[e] EXCEPT !.pc = pc]
    OBVIOUS
  <2>2. x.flow = redeem[e].flow
    BY <1>1, <2>1 DEF RedeemType
  <2>3. redeem' = [redeem EXCEPT ![e] = x]
    BY <1>5, <2>1 DEF Moves
  <2> QED
    BY <1>3, <1>5, <2>2, <2>3
<1>6. ASSUME NEW e \in Exchanges, NEW con, NEW known, UNCHANGED flow,
             redeem' = [redeem EXCEPT ![e] = Failing(@, con, known)],
             \/ token' = token
             \/ token' = [token EXCEPT ![e] = "live"] /\ token[e] = "none"
      PROVE  OnlyGoOn
  <2>1. PICK x : x = Failing(redeem[e], con, known)
    OBVIOUS
  <2>2. x.flow = redeem[e].flow
    BY <1>1, <2>1 DEF RedeemType, Failing
  <2>3. redeem' = [redeem EXCEPT ![e] = x]
    BY <1>6, <2>1
  <2> QED
    BY <1>3, <1>6, <2>2, <2>3
<1>7. ASSUME NEW e \in Exchanges, TakeCode(e) \/ ConsumeCode(e) PROVE OnlyGoOn
  <2>1. PICK pc : redeem' = [redeem EXCEPT ![e] = [@ EXCEPT !.pc = pc, !.consumption = "consumed"]]
    BY <1>7 DEF TakeCode, ConsumeCode
  <2>2. PICK x : x = [redeem[e] EXCEPT !.pc = pc, !.consumption = "consumed"]
    OBVIOUS
  <2>3. x.flow = redeem[e].flow
    BY <1>1, <2>2 DEF RedeemType
  <2>4. redeem' = [redeem EXCEPT ![e] = x]
    BY <2>1, <2>2
  <2> QED
    BY <1>3, <1>7, <2>3, <2>4 DEF TakeCode, ConsumeCode
<1>8. ASSUME NEW e \in Exchanges, SaveToken(e) PROVE OnlyGoOn
  <2>1. PICK x : x = [redeem[e] EXCEPT !.pc = "saved", !.known = (redeem[e].way # "oidc")]
    OBVIOUS
  <2>2. x.flow = redeem[e].flow
    BY <1>1, <2>1 DEF RedeemType
  <2>3. redeem' = [redeem EXCEPT ![e] = x]
    BY <1>8, <2>1 DEF SaveToken
  <2>4. token' = [token EXCEPT ![e] = "live"] /\ token[e] = "none" /\ flow' = flow
    BY <1>4, <1>8 DEF SaveToken
  <2> QED
    BY <1>3, <2>2, <2>3, <2>4
<1>9. ASSUME NEW e \in Exchanges, RevokeForFailure(e) PROVE OnlyGoOn
  <2>1. PICK r : redeem' = [redeem EXCEPT ![e] = [@ EXCEPT !.pc = AfterRevocation(redeem[e].way),
                                                          !.revocation = r]]
    BY <1>9 DEF RevokeForFailure
  <2>2. PICK x : x = [redeem[e] EXCEPT !.pc = AfterRevocation(redeem[e].way), !.revocation = r]
    OBVIOUS
  <2>3. x.flow = redeem[e].flow
    BY <1>1, <2>2 DEF RedeemType
  <2>4. redeem' = [redeem EXCEPT ![e] = x]
    BY <2>1, <2>2
  <2> QED
    BY <1>3, <1>9, <2>3, <2>4 DEF RevokeForFailure
<1>10. ASSUME NEW e \in Exchanges, Compensate(e) PROVE OnlyGoOn
  <2>1. PICK c : /\ redeem' = [redeem EXCEPT ![e] = [@ EXCEPT !.pc = "failed", !.compensation = c]]
                 /\ token' = token \/ token' = [token EXCEPT ![e] = "gone"]
    BY <1>10 DEF Compensate
  <2>2. PICK x : x = [redeem[e] EXCEPT !.pc = "failed", !.compensation = c]
    OBVIOUS
  <2>3. x.flow = redeem[e].flow
    BY <1>1, <2>2 DEF RedeemType
  <2>4. redeem' = [redeem EXCEPT ![e] = x]
    BY <2>1, <2>2
  <2> QED
    BY <1>3, <1>10, <2>1, <2>3, <2>4 DEF Compensate
<1>11. ASSUME NEW e \in Exchanges,
              Fail(e) \/ MissCode(e) \/ TakeUnheard(e) \/ ReadUnheard(e) \/ ConsumeUnheard(e)
       PROVE  OnlyGoOn
  <2>1. CASE Fail(e)
    BY <1>6, <2>1 DEF Fail
  <2>2. CASE MissCode(e)
    BY <1>6, <2>2 DEF MissCode
  <2>3. CASE TakeUnheard(e) \/ ReadUnheard(e) \/ ConsumeUnheard(e)
    BY <1>6, <2>3 DEF TakeUnheard, ReadUnheard, ConsumeUnheard, TakenOrNot, Unheard
  <2> QED
    BY <1>11, <2>1, <2>2, <2>3
<1>12. ASSUME NEW e \in Exchanges, SaveUnheard(e) PROVE OnlyGoOn
  <2>1. token[e] = "none"
    BY <1>4, <1>12 DEF SaveUnheard
  <2> QED
    BY <1>6, <1>12, <2>1 DEF SaveUnheard
<1>13. ASSUME NEW e \in Exchanges, ReadCode(e) \/ Permit(e) PROVE OnlyGoOn
  BY <1>5, <1>13 DEF ReadCode, Permit
<1> QED
  BY <1>2, <1>7, <1>8, <1>9, <1>10, <1>11, <1>12, <1>13 DEF Redemption

LEMMA StepGoesOn == ASSUME Inv, Next PROVE OnlyGoOn
<1>1. CASE UNCHANGED <<flow, redeem, token>>
  BY <1>1 DEF OnlyGoOn
<1> QED
  BY <1>1, AuthorizationGoesOn, RedemptionGoOn
  DEF Next, BrowserStep, Login, ReceiveCookie, EndRoot, ExpireRoot, Ending, EndSession, ExpireCode, ExpireWait,
      Logout, LogoutOfBrowser, LogoutByToken

\* What a token no longer grants, it never grants again: neither a renewal nor a
\* session opened later, nor any redemption that runs beside, revives it.
GrantsOnlyEnd ==
    [][\A e \in Exchanges : token[e] # "none" /\ ~Granted(e) => ~Granted(e)']_vars

LEMMA StepOnlyEndsGrants ==
    ASSUME Inv, Next, NEW e \in Exchanges, token[e] # "none", ~Granted(e)
    PROVE  ~Granted(e)'
<1>1. RedeemSound(e) /\ token[e] \in TokenStates /\ redeem[e] \in RedeemType
  BY DEF Inv, RedeemsSound
<1>2. redeem[e].flow \in Flows /\ flow[redeem[e].flow].pc = "issued"
  BY <1>1 DEF RedeemSound, TokenSound, PlaceSound, RedeemType
<1>3. Session(e) \in seen
  BY <1>2 DEF Inv, FlowsSound, FlowSound, Session
<1>4. Session(e)' = Session(e)
  <2>1. redeem'[e].flow = redeem[e].flow
    BY <1>2, CodeExchangeAssumption, StepGoesOn DEF OnlyGoOn
  <2>2. flow'[redeem[e].flow] = flow[redeem[e].flow]
    BY <1>2, StepGoesOn DEF OnlyGoOn
  <2> QED
    BY <2>1, <2>2 DEF Session
<1>5. CASE token[e] = "gone"
  BY <1>5, StepGoesOn DEF OnlyGoOn, Granted
<1>6. CASE Session(e) \notin usable
  <2>1. Session(e) \notin usable'
    BY <1>3, <1>6, StepOfKernel DEF Kernel!Close, Kernel!Open
  <2> QED
    BY <1>4, <2>1 DEF Granted
<1> QED
  BY <1>1, <1>5, <1>6 DEF Granted, TokenStates

\* An application whose token was refused once, because the session ended or the
\* token was removed, is refused for ever.
THEOREM GrantsDoNotReturn == Spec => GrantsOnlyEnd
<1>1. Inv /\ [Next]_vars =>
        [\A e \in Exchanges : token[e] # "none" /\ ~Granted(e) => ~Granted(e)']_vars
  BY StepOnlyEndsGrants
<1> QED
  BY <1>1, Invariance, PTL DEF Spec, GrantsOnlyEnd

=============================================================================
