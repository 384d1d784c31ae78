----------------------------- MODULE OAuthFlows -----------------------------
(* Signing in with an identity provider, up to the point where an identity is *)
(* established (server/oauth.rs, util/oidc.rs).                               *)
(*                                                                            *)
(* A browser starts a flow and is sent to the provider; the provider sends it *)
(* back with a code, or somebody delivers the link to another browser, twice, *)
(* late, or with a code that was made for another flow.  The callback takes   *)
(* the flow out of the table, checks the browser against it, exchanges the    *)
(* code and checks the identity token, fetching the provider's signing keys   *)
(* when the ones it has do not do.  Random values are drawn once and never    *)
(* guessed, so state, nonce, verifier and binding are one number each.        *)
EXTENDS Accounts, FiniteSets, Functions

CONSTANTS Requests,       \* callbacks and forms being served
          MAX_FLOWS,      \* flows the table holds at once
          FLOW_TTL,       \* how long one is kept
          KEYS_FOR,       \* how long signing keys are reused
          MaxStarts,      \* bound: flows started
          MaxRotations    \* bound: times a provider changes its key

ASSUME OAuthAssumption ==
  /\ MAX_FLOWS \in Nat \ {0}
  /\ {FLOW_TTL, KEYS_FOR, MaxStarts, MaxRotations} \subseteq Nat

Providers == {"google", "apple"}

VARIABLES flows,    \* the table: state -> [provider, binding, started_at]
          cookie,   \* the flow cookie of each browser, 0 when there is none
          req,      \* the callbacks
          jwks,     \* per provider: the signing keys in hand and when fetched
          epoch,    \* per provider: the key it signs with
          begun,    \* history: state -> who started the flow, when, ...
          wins      \* history: how often each flow established an identity

flowVars == <<flows, cookie, req, jwks, epoch, begun, wins>>

(* nonce: the flow the code was made for.  kid: the key the token is signed   *)
(* with.  keys: the signing keys the callback goes by.                        *)
NoRequest ==
  [pc |-> "idle", provider |-> "google", browser |-> CHOOSE c \in Clients : TRUE,
   state |-> 0, nonce |-> 0, kid |-> 0, keys |-> {}]

FlowInit ==
  /\ flows = <<>> /\ begun = <<>> /\ wins = <<>>
  /\ cookie = [c \in Clients |-> 0]
  /\ req = [r \in Requests |-> NoRequest]
  /\ jwks = [p \in Providers |-> [keys |-> {}, at |-> 0]]
  /\ epoch = [p \in Providers |-> 1]

Fresh(table, now) ==
  {s \in DOMAIN table : now - table[s].started_at < FLOW_TTL}
prune(table, now) == Restrict(table, Fresh(table, now))

Oldest(table) ==
  {s \in DOMAIN table :
     \A x \in DOMAIN table : table[s].started_at <= table[x].started_at}

(* A plausible bug: the newest flow makes room.                               *)
VictimsNewest(table) ==
  IF Cardinality(DOMAIN table) < MAX_FLOWS THEN {{}}
  ELSE {{s} : s \in {s \in DOMAIN table :
          \A x \in DOMAIN table : table[s].started_at >= table[x].started_at}}

(* What PendingFlows::insert drops from a full table: the oldest flow; of     *)
(* several begun in the same second, any.                                     *)
Victims(table) ==
  IF Cardinality(DOMAIN table) < MAX_FLOWS THEN {{}}
                                           ELSE {{s} : s \in Oldest(table)}

(* auth_start, with the provider configured.                                  *)
auth_start(b, p) ==
  LET live == prune(flows, clock)
      s == Cardinality(DOMAIN begun) + 1 IN
  /\ s <= MaxStarts
  /\ \E gone \in Victims(live) :
       flows' = Added(Restrict(live, DOMAIN live \ gone), s,
                      [provider |-> p, binding |-> s, started_at |-> clock])
  /\ begun' = Added(begun, s, [browser |-> b, at |-> clock, taken |-> FALSE])
  /\ wins' = Added(wins, s, 0)
  /\ cookie' = [cookie EXCEPT ![b] = s]
  /\ UNCHANGED <<req, jwks, epoch>>

(* PendingFlows::take.                                                        *)
Taken(table, s) == Restrict(table, DOMAIN table \ {s})

(* A plausible bug: the browser is not looked at.                             *)
BoundAnyway(b, flow) == TRUE

(* The flow cookie of the browser that came back matches the flow.            *)
Bound(b, flow) == cookie[b] = flow.binding

(* finish, up to the first await: the flow is taken whatever else is wrong;   *)
(* every answer drops the flow cookie.  declined: the provider reports an     *)
(* error, sends no code, or is no longer configured.                          *)
callback(r, b, p, s, n, declined) ==
  LET live == prune(flows, clock)
      good == /\ s \in DOMAIN live
              /\ live[s].provider = p
              /\ Bound(b, live[s])
              /\ ~declined IN
  /\ req[r].pc = "idle"
  /\ flows' = Taken(live, s)
  /\ begun' = [begun EXCEPT ![s].taken = TRUE]
  /\ IF good
       THEN /\ req' = [req EXCEPT ![r] = [NoRequest EXCEPT
                 !.pc = "exchange", !.provider = p, !.browser = b,
                 !.state = s, !.nonce = n]]
            /\ UNCHANGED cookie
       ELSE /\ cookie' = [cookie EXCEPT ![b] = 0]
            /\ UNCHANGED req
  /\ UNCHANGED <<jwks, epoch, wins>>

Refused(r) ==
  /\ req' = [req EXCEPT ![r] = NoRequest]
  /\ cookie' = [cookie EXCEPT ![req[r].browser] = 0]

(* exchange_code.  A provider that takes a PKCE challenge refuses a code made *)
(* for another flow; the token is signed with the key of the day.             *)
uses_pkce(p) == p = "google"
exchange_code(r, ok) ==
  /\ req[r].pc = "exchange"
  /\ ok => (uses_pkce(req[r].provider) => req[r].nonce = req[r].state)
  /\ IF ok THEN /\ req' = [req EXCEPT ![r].pc = "keys",
                                      ![r].kid = epoch[req[r].provider]]
                /\ UNCHANGED cookie
           ELSE Refused(r)
  /\ UNCHANGED <<flows, jwks, epoch, begun, wins>>

(* A provider publishes a key no later than it signs with it, and withdraws   *)
(* none for as long as a sign-in takes.                                       *)
Published(p) == 1..epoch[p]
Rotate(p) ==
  /\ epoch[p] <= MaxRotations
  /\ epoch' = [epoch EXCEPT ![p] = @ + 1]
  /\ UNCHANGED <<flows, cookie, req, jwks, begun, wins>>

(* verify_id_token: the keys in hand will not do, for age or because the one  *)
(* the token names is not among them.                                         *)
NeedsFetch(r) ==
  LET p == req[r].provider IN
  \/ jwks[p].keys = {}
  \/ clock - jwks[p].at >= KEYS_FOR
  \/ req[r].kid \notin jwks[p].keys

signing_keys(r, ok) ==
  LET p == req[r].provider IN
  /\ req[r].pc = "keys"
  /\ NeedsFetch(r)
  /\ IF ok
       THEN /\ jwks' = [jwks EXCEPT ![p] = [keys |-> Published(p), at |-> clock]]
            /\ req' = [req EXCEPT ![r].pc = "check", ![r].keys = Published(p)]
            /\ UNCHANGED cookie
       ELSE /\ Refused(r)
            /\ UNCHANGED jwks
  /\ UNCHANGED <<flows, epoch, begun, wins>>

UseKeysInHand(r) ==
  /\ req[r].pc = "keys"
  /\ ~NeedsFetch(r)
  /\ req' = [req EXCEPT ![r].pc = "check",
                        ![r].keys = jwks[req[r].provider].keys]
  /\ UNCHANGED <<flows, cookie, jwks, epoch, begun, wins>>

(* check_id_token: a key that is published, and the nonce of this flow.       *)
ChecksOut(q) == q.kid \in q.keys /\ q.nonce = q.state

(* check_id_token; wrong: signature, audience, issuer or expiry do not hold.  *)
check_id_token(r, wrong) ==
  /\ req[r].pc = "check"
  /\ IF ChecksOut(req[r]) /\ ~wrong
       THEN /\ req' = [req EXCEPT ![r].pc = "known"]
            /\ wins' = [wins EXCEPT ![req[r].state] = @ + 1]
            /\ UNCHANGED cookie
       ELSE /\ Refused(r)
            /\ UNCHANGED wins
  /\ UNCHANGED <<flows, jwks, epoch, begun>>

FlowStep(r) ==
  \/ \E ok \in BOOLEAN : exchange_code(r, ok) \/ signing_keys(r, ok)
  \/ UseKeysInHand(r)
  \/ \E wrong \in BOOLEAN : check_id_token(r, wrong)

(* ------------------------------ properties ------------------------------ *)

(* The table never holds more flows than its limit, nor one that was not      *)
(* begun; the callbacks keep their types.                                     *)
FlowTypeOK ==
  /\ DOMAIN flows \subseteq DOMAIN begun
  /\ Cardinality(DOMAIN flows) <= MAX_FLOWS
  /\ \A s \in DOMAIN flows :
       flows[s] \in [provider : Providers, binding : DOMAIN begun,
                     started_at : 0..MaxClock]
  /\ DOMAIN begun \subseteq 1..MaxStarts
  /\ cookie \in [Clients -> 0..MaxStarts]
  /\ req \in [Requests ->
       [pc : {"idle", "exchange", "keys", "check", "known"},
        provider : Providers, browser : Clients, state : 0..MaxStarts,
        nonce : 0..MaxStarts, kid : 0..MaxRotations + 1,
        keys : SUBSET (1..MaxRotations + 1)]]

(* A flow establishes one identity at most, however often and by whomever its *)
(* callback is delivered.                                                     *)
FlowsAreSpentOnce == \A s \in DOMAIN wins : wins[s] <= 1

(* Whoever is known at the end of a flow authorised this flow, in the browser *)
(* that began it: neither a link delivered elsewhere nor a code made for      *)
(* another flow gets that far.                                                *)
KnownWhereBegun ==
  \A r \in Requests :
    req[r].pc = "known" =>
      /\ begun[req[r].state].browser = req[r].browser
      /\ req[r].nonce = req[r].state

(* A sign-in that has not come back is still awaited, unless it took too long *)
(* or MAX_FLOWS others were begun in the same second or later.                *)
AwaitedUnlessCrowded ==
  \A s \in DOMAIN begun :
    \/ s \in DOMAIN flows
    \/ begun[s].taken
    \/ clock - begun[s].at >= FLOW_TTL
    \/ Cardinality({x \in DOMAIN begun \ {s} : begun[x].at >= begun[s].at})
         >= MAX_FLOWS

(* A provider that changes its key turns nobody away: when an identity token  *)
(* is checked, the key that signed it is in hand.                             *)
RotationIsHarmless ==
  \A r \in Requests :
    req[r].pc = "check" => req[r].kid \in req[r].keys

(* A flow is good for one identity, in the browser that began it, and the     *)
(* table of flows stays in its bounds.                                        *)
FlowInv == FlowTypeOK /\ FlowsAreSpentOnce /\ KnownWhereBegun

(* The limits of the table and of the key cache turn away nobody who comes    *)
(* back in time.                                                              *)
SignInsGoThrough == AwaitedUnlessCrowded /\ RotationIsHarmless
=============================================================================
