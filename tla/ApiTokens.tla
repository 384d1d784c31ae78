------------------------------ MODULE ApiTokens ------------------------------
(* API tokens and the guards every request passes (server/api_token.rs,       *)
(* server/guards.rs, the order of the layers in lib.rs).                      *)
(*                                                                            *)
(* A request passes the framing check, then the check of its session's        *)
(* generation, then the token guard, which is the innermost: a token becomes  *)
(* an ordinary session for the length of the request, and the session is      *)
(* purged from the answer.  Between the guard's reads, the handler's and the  *)
(* store's read-and-replace of a token record, other requests run.            *)
EXTENDS Accounts, FiniteSets

CONSTANTS Calls,           \* requests in flight
          Holder,          \* a client that was given tokens and signs in nowhere
          Own,             \* the other clients -> the account each can sign in to
          Edited,          \* bound: the accounts that are edited
          TOUCH_INTERVAL,  \* how stale the mark of last use may be
          MaxTokens,       \* bound: tokens
          MaxCalls         \* bound: requests

ASSUME TokensAssumption ==
  /\ Holder \in Clients
  /\ Own \in [Clients \ {Holder} -> Ids]
  /\ Edited \subseteq Ids
  /\ {TOUCH_INTERVAL, MaxTokens} \subseteq Nat \ {0} /\ MaxCalls \in Nat

Scopes == {"read", "write"}

(* Routes: of the token endpoints (NEVER), /is_logged_in (ALWAYS), one of     *)
(* CORE_SCOPES, an item or plugin route that declares a scope, and one that   *)
(* nobody placed in a scope.                                                  *)
Paths == {"issue", "revoke", "whoami", "settings", "item", "unplaced"}

VARIABLES tokens,   \* id -> record
          call,     \* the requests
          calls,
          ended,    \* history: tokens whose revocation was answered
          written,  \* history: those of which one revocation was written
          crossed   \* history: tokens a record read earlier was written back to

tokenVars == <<tokens, call, calls, ended, written, crossed>>

(* by: the client whose request made the token; at_gen: the generation its    *)
(* owner had then (histories).                                                *)
Token == [user : Ids, scopes : SUBSET Scopes, revoked : BOOLEAN,
          expires : 0..2 * MaxClock, last_used : 0..MaxClock,
          by : Clients, at_gen : 0..MaxGen]

(* token: the one presented, 0 for none.  principal, who: what the session    *)
(* of the request says, if it has one.  target: the token a revocation is     *)
(* about.  old: the token record a merge has read.  Histories, of when the    *)
(* request came: late, a revocation of its token had been answered; spared,   *)
(* but none had been written; outlived, its owner's generation had moved on.  *)
(* And of what happened since: unmarked, its mark of last use could not be    *)
(* written; moved, the owner's record changed after the guard read it.        *)
NoCall ==
  [pc |-> "idle", client |-> Holder, path |-> "whoami", token |-> 0,
   genuine |-> FALSE, session |-> {}, actor |-> 0, target |-> 0,
   old |-> {}, touched |-> 0, late |-> FALSE, spared |-> FALSE,
   outlived |-> FALSE, unmarked |-> FALSE, moved |-> FALSE]

TokenInit(there) ==
  /\ tokens = there
  /\ call = [r \in Calls |-> NoCall]
  /\ calls = 0
  /\ ended = {} /\ written = {} /\ crossed = {}

CallIs(r, q) == call' = [call EXCEPT ![r] = q]

(* A request comes in.  A client need not send the cookie it holds.           *)
Arrive(r, c, path, t, genuine, withCookie, target) ==
  /\ call[r].pc = "idle"
  /\ calls < MaxCalls
  /\ calls' = calls + 1
  /\ CallIs(r, [NoCall EXCEPT
       !.pc = "generation", !.client = c, !.path = path, !.token = t,
       !.genuine = genuine, !.session = IF withCookie THEN jar[c] ELSE {},
       !.target = target, !.late = t \in ended, !.spared = t \in ended \ written,
       !.outlived = t # 0 /\ tokens[t].at_gen # accounts[tokens[t].user].gen])
  /\ UNCHANGED <<accountVars, tokens, ended, written, crossed>>

(* reject_ambiguous_framing: a body framed two ways gets no further.          *)
reject_ambiguous_framing(r) ==
  /\ call[r].pc = "idle"
  /\ calls < MaxCalls
  /\ calls' = calls + 1
  /\ UNCHANGED <<accountVars, tokens, call, ended, written, crossed>>

(* enforce_session_generation: a session whose account moved on, or is gone,  *)
(* is cleared and the request goes on without; a store that does not answer   *)
(* changes nothing.                                                           *)
Stale(k, i) == IF i = 0 THEN TRUE ELSE k.gen # session_generation(i)
enforce_session_generation(r, i, unavailable) ==
  LET q == call[r] IN
  /\ q.pc = "generation"
  /\ IF q.session = {} THEN i = 0 /\ ~unavailable
     ELSE \A k \in q.session : get_user(k.key, i)
  /\ LET dropped == /\ ~unavailable
                    /\ \E k \in q.session : Stale(k, i) IN
     /\ CallIs(r, [q EXCEPT !.pc = IF q.token = 0 THEN "handle" ELSE "token",
                            !.session = IF dropped THEN {} ELSE @])
     /\ jar' = IF dropped THEN [jar EXCEPT ![q.client] = {}] ELSE jar
  /\ UNCHANGED <<accounts, lastId, clock, tokens, calls, ended, written,
                 crossed>>

Answered(r) == CallIs(r, NoCall)

(* check: not revoked, not expired, the right secret.                         *)
check(rec, genuine, now) ==
  /\ ~rec.revoked
  /\ rec.expires = 0 \/ now < rec.expires
  /\ genuine

(* One credential at a time: a session beside the token is refused.           *)
BothPresented(q) == q.session # {}

(* accept_api_token as far as resolve: the token's record and its check.      *)
ResolveToken(r) ==
  LET q == call[r] IN
  /\ q.pc = "token"
  /\ IF BothPresented(q) \/ q.token \notin DOMAIN tokens
        \/ ~check(tokens[q.token], q.genuine, clock)
       THEN Answered(r)
       ELSE CallIs(r, [q EXCEPT !.pc = "owner", !.old = {tokens[q.token]}])
  /\ UNCHANGED <<accountVars, tokens, calls, ended, written, crossed>>

(* The scope a path needs: CORE_SCOPES, or what the route or the collection   *)
(* declares (item_route_verb, collection_of, the route cache); {} for none.   *)
Needed(path) ==
  CASE path = "settings" -> {"read"}
    [] path = "item" -> {"write"}
    [] OTHER -> {}

(* scope_allows: NEVER, ALWAYS, and nothing that is in no scope.              *)
scope_allows(path, granted) ==
  /\ path \notin {"issue", "revoke"}
  /\ path = "whoami" \/ Needed(path) \cap granted # {}

(* The owner is there, active, and has an address to be identified by.        *)
OwnerStands(i) ==
  /\ i \in DOMAIN accounts
  /\ accounts[i].active
  /\ accounts[i].email # NoKey

(* ... the owner, the scopes, the identity put into the session, stamped.     *)
AttachOwner(r) ==
  LET q == call[r]
      rec == CHOOSE x \in q.old : TRUE IN
  /\ q.pc = "owner"
  /\ IF OwnerStands(rec.user) /\ scope_allows(q.path, rec.scopes)
       THEN CallIs(r, [q EXCEPT !.pc = "touch", !.session =
              {[key |-> accounts[rec.user].email,
                gen |-> session_generation(rec.user), who |-> rec.user]}])
       ELSE Answered(r)
  /\ UNCHANGED <<accountVars, tokens, calls, ended, written, crossed>>

(* touch, when the mark is young enough.                                      *)
Marked(last, now) == now - last < TOUCH_INTERVAL
Untouched(r) ==
  LET q == call[r] IN
  /\ q.pc = "touch"
  /\ \A rec \in q.old : Marked(rec.last_used, clock)
  /\ CallIs(r, [q EXCEPT !.pc = "handle", !.old = {}, !.touched = clock])
  /\ UNCHANGED <<accountVars, tokens, calls, ended, written, crossed>>

(* touch otherwise: set_item with merge reads the record again ...            *)
TouchRead(r) ==
  LET q == call[r] IN
  /\ q.pc = "touch"
  /\ \A rec \in q.old : ~Marked(rec.last_used, clock)
  /\ CallIs(r, [q EXCEPT !.pc = "touching", !.old = {tokens[q.token]},
                         !.touched = clock])
  /\ UNCHANGED <<accountVars, tokens, calls, ended, written, crossed>>

(* ... and replaces it; another write in between is lost.  Nobody looks       *)
(* whether the write got through.                                             *)
MergeWrite(t, old, rec) ==
  /\ tokens' = [tokens EXCEPT ![t] = rec]
  /\ crossed' = IF tokens[t] = old THEN crossed ELSE crossed \cup {t}

TouchWrite(r, fails) ==
  LET q == call[r]
      old == CHOOSE x \in q.old : TRUE IN
  /\ q.pc = "touching"
  /\ IF fails THEN UNCHANGED <<tokens, crossed>>
     ELSE MergeWrite(q.token, old, [old EXCEPT !.last_used = q.touched])
  /\ CallIs(r, [q EXCEPT !.pc = "handle", !.old = {}, !.unmarked = fails])
  /\ UNCHANGED <<accountVars, calls, ended, written>>

(* The handler resolves the principal for itself.                             *)
Handle(r, i) ==
  LET q == call[r] IN
  /\ q.pc = "handle"
  /\ IF q.session = {} THEN i = 0
                       ELSE \A k \in q.session : get_user(k.key, i)
  /\ CallIs(r, [q EXCEPT !.actor = i,
       !.pc = IF i = 0 THEN "answer"
              ELSE IF q.path \in {"issue", "revoke"} THEN q.path ELSE "answer"])
  /\ UNCHANGED <<accountVars, tokens, calls, ended, written, crossed>>

(* issue: for the caller's own account.                                       *)
issue(r, scopes, days) ==
  LET q == call[r]
      t == Cardinality(DOMAIN tokens) + 1 IN
  /\ q.pc = "issue"
  /\ t <= MaxTokens
  /\ q.actor \in DOMAIN accounts
  /\ scopes # {}
  /\ tokens' = Added(tokens, t,
       [user |-> q.actor, scopes |-> scopes, revoked |-> FALSE,
        expires |-> IF days = 0 THEN 0 ELSE clock + days, last_used |-> 0,
        by |-> q.client, at_gen |-> accounts[q.actor].gen])
  /\ CallIs(r, [q EXCEPT !.pc = "answer"])
  /\ UNCHANGED <<accountVars, calls, ended, written, crossed>>

(* subject: one's own token, or anybody's for an administrator.               *)
MayManage(i, t) ==
  i \in DOMAIN accounts /\ (tokens[t].user = i \/ is_admin(i))

(* api_token_revoke: whose it is, and set_item's read ...                     *)
RevokeRead(r) ==
  LET q == call[r] IN
  /\ q.pc = "revoke"
  /\ IF q.target \in DOMAIN tokens /\ MayManage(q.actor, q.target)
       THEN CallIs(r, [q EXCEPT !.pc = "revoking", !.old = {tokens[q.target]}])
       ELSE CallIs(r, [q EXCEPT !.pc = "answer"])
  /\ UNCHANGED <<accountVars, tokens, calls, ended, written, crossed>>

(* ... and its write; the answer is success whether or not it got through.    *)
RevokeWrite(r, fails) ==
  LET q == call[r]
      old == CHOOSE x \in q.old : TRUE IN
  /\ q.pc = "revoking"
  /\ IF fails THEN UNCHANGED <<tokens, crossed>>
     ELSE MergeWrite(q.target, old, [old EXCEPT !.revoked = TRUE])
  /\ ended' = ended \cup {q.target}
  /\ written' = IF fails THEN written ELSE written \cup {q.target}
  /\ CallIs(r, [q EXCEPT !.pc = "answer", !.old = {}])
  /\ UNCHANGED <<accountVars, calls>>

(* A plausible bug: the answer carries the session the guard made.            *)
JarKeeps(q) == IF q.token # 0 THEN q.session ELSE jar[q.client]

(* What the answer leaves the client with: nothing, after a token (purge),    *)
(* and what it had otherwise.                                                 *)
JarAfter(q) == IF q.token # 0 THEN {} ELSE jar[q.client]

Answer(r) ==
  LET q == call[r] IN
  /\ q.pc = "answer"
  /\ jar' = [jar EXCEPT ![q.client] = JarAfter(q)]
  /\ Answered(r)
  /\ UNCHANGED <<accounts, lastId, clock, tokens, calls, ended, written,
                 crossed>>

(* A person signs in to the account that is theirs (SignIn, Sessions).        *)
LogIn(c) ==
  LET i == Own[c] IN
  /\ i \in DOMAIN accounts
  /\ jar[c] = {}
  /\ accounts[i].active /\ accounts[i].email # NoKey
  /\ SessionFor(c, [key |-> accounts[i].email, gen |-> accounts[i].gen, who |-> i])
  /\ UNCHANGED <<accounts, lastId, clock, tokenVars>>

Moved(i) ==
  call' = [r \in Calls |->
    [call[r] EXCEPT !.moved = @ \/ \E k \in call[r].session : k.who = i]]

(* The account changes: its sessions are revoked, it is switched off, or its  *)
(* address is taken off the record.                                           *)
EditAccount(i, rec) ==
  /\ calls < MaxCalls
  /\ calls' = calls + 1
  /\ Patched(i, rec)
  /\ Moved(i)
  /\ UNCHANGED <<lastId, jar, clock, tokens, ended, written, crossed>>

Edits(i) ==
  LET a == accounts[i] IN
  {[a EXCEPT !.email = NoKey], [a EXCEPT !.active = FALSE]}
  \cup IF a.gen < MaxGen THEN {[a EXCEPT !.gen = @ + 1]} ELSE {}

CallStep(r) ==
  \/ \E i \in 0..MaxIds :
       \/ \E unavailable \in BOOLEAN :
            enforce_session_generation(r, i, unavailable)
       \/ Handle(r, i)
  \/ ResolveToken(r)
  \/ AttachOwner(r)
  \/ Untouched(r) \/ TouchRead(r)
  \/ \E scope \in Scopes, days \in 0..1 : issue(r, {scope}, days)
  \/ RevokeRead(r)
  \/ \E fails \in BOOLEAN : TouchWrite(r, fails) \/ RevokeWrite(r, fails)
  \/ Answer(r)

(* What clients send: nothing; a token, with the right secret or a wrong one; *)
(* a cookie; or both.  Routes that a token alone tells apart are asked with a *)
(* token.                                                                     *)
Visit(r) ==
  \/ Arrive(r, Holder, "whoami", 0, FALSE, FALSE, 0)
  \/ \E t \in DOMAIN tokens :
       \/ Arrive(r, Holder, "whoami", t, FALSE, FALSE, 0)
       \/ \E path \in Paths : Arrive(r, Holder, path, t, TRUE, FALSE, t)
  \/ \E c \in {c \in Clients : jar[c] # {}} :
       \/ \E path \in {"issue", "whoami"}, t \in {0} \cup DOMAIN tokens :
            Arrive(r, c, path, t, TRUE, TRUE, 0)
       \/ \E t \in DOMAIN tokens : Arrive(r, c, "revoke", 0, FALSE, TRUE, t)

TokenNext ==
  \/ \E r \in Calls : CallStep(r) \/ Visit(r) \/ reject_ambiguous_framing(r)
  \/ \E c \in DOMAIN Own : LogIn(c)
  \/ \E i \in Edited : \E rec \in Edits(i) : EditAccount(i, rec)

(* ------------------------------ properties ------------------------------ *)

(* The tokens and the requests keep their types; a principal is an address.   *)
TokenTypeOK ==
  /\ \A t \in DOMAIN tokens : tokens[t] \in Token
  /\ DOMAIN tokens \subseteq 1..MaxTokens
  /\ calls \in 0..MaxCalls
  /\ \A r \in Calls :
       /\ call[r].pc \in {"idle", "generation", "token", "owner", "touch",
            "touching", "handle", "issue", "revoke", "revoking", "answer"}
       /\ call[r].old \subseteq Token
       /\ \A k \in call[r].session : k.key \in Keys

(* Every token was made by a client for the account it signs in to: one that  *)
(* was only ever given tokens makes none, whatever the tokens may do.         *)
TokensDoNotBegetTokens ==
  \A t \in DOMAIN tokens :
    tokens[t].by \in DOMAIN Own /\ tokens[t].user = Own[tokens[t].by]

(* A client that signs in nowhere holds no session: the one its token stands  *)
(* for, while a request runs, does not get out with the answer.               *)
TokensOpenNoSession == jar[Holder] = {}

(* A request that came after its token's revocation was answered does not     *)
(* reach a handler, with two exceptions: a mark of last use, read earlier,    *)
(* was written over the revocation; or no revocation of the token could be    *)
(* written, which api_token_revoke answers like one that was.                 *)
Reached(r) == call[r].pc \in {"handle", "issue", "revoke", "revoking", "answer"}
RevokedTokensAreRefused ==
  \A r \in Calls :
    (Reached(r) /\ call[r].late) =>
      call[r].spared \/ call[r].token \in crossed

(* A handler that a token reaches acts as the token's owner and inside its    *)
(* scopes, unless the owner's address was changed while the request ran.      *)
TokensActAsTheirOwner ==
  \A r \in Calls :
    (Reached(r) /\ call[r].token # 0) =>
      /\ call[r].actor \in {0, tokens[call[r].token].user} \/ call[r].moved
      /\ call[r].path \notin {"issue", "revoke"}
      /\ \/ call[r].path = "whoami"
         \/ Needed(call[r].path) \cap tokens[call[r].token].scopes # {}

(* A token that reached a handler looks used: its mark is younger than the    *)
(* interval, with two exceptions: an overlapping write put an older mark      *)
(* back, or the mark could not be written (touch does not look).              *)
UsedTokensLookUsed ==
  \A r \in Calls :
    (call[r].token # 0 /\ call[r].pc = "handle") =>
      \/ call[r].touched - tokens[call[r].token].last_used < TOUCH_INTERVAL
      \/ call[r].unmarked
      \/ call[r].token \in crossed

(* guards.rs: "bump the account's generation and its tokens stop working with *)
(* its cookies".                                                              *)
TokensStopWithCookies ==
  \A r \in Calls :
    (call[r].token # 0 /\ call[r].pc = "handle") => ~call[r].outlived

(* A token is good for its owner's account, inside its scopes, until its      *)
(* revocation is answered and written; for no session and no further token.   *)
TokenInv ==
  /\ TokenTypeOK /\ TokensDoNotBegetTokens /\ TokensOpenNoSession
  /\ RevokedTokensAreRefused /\ TokensActAsTheirOwner /\ UsedTokensLookUsed
=============================================================================
