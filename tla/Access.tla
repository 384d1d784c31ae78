------------------------------- MODULE Access -------------------------------
(* Every way to an account: sign-in with a provider, the directory or a form  *)
(* (SignIn over OAuthFlows), and API tokens (ApiTokens), over one set of      *)
(* accounts and one set of clients.  To keep the product small the clients of *)
(* one behaviour do one kind of thing (work).                                 *)
EXTENDS SignIn, ApiTokens

VARIABLE work   \* bound: what the clients of this behaviour do

vars == <<accountVars, flowVars, signInVars, tokenVars, work>>

CONSTANTS Ann, Bob,    \* two keys, for the accounts there are
          MaxFlowing   \* bound: sign-ins started, when they are followed up

ASSUME AccessAssumption ==
  /\ {Ann, Bob} \subseteq Keys /\ Ann # Bob
  /\ MaxFlowing \in Nat
  /\ MaxIds >= 2 /\ \A c \in DOMAIN Own : Own[c] <= 2
  /\ \E c \in DOMAIN Own : Own[c] = 2

(* A token that has been handed out already.                                  *)
BobsToken ==
  [user |-> 2, scopes |-> {"read"}, revoked |-> FALSE, expires |-> 0,
   last_used |-> 0, by |-> CHOOSE c \in DOMAIN Own : Own[c] = 2, at_gen |-> 0]

Init ==
  /\ work \in {"crowd", "flows", "accounts", "tokens"}
  /\ lastId = IF work = "tokens" THEN 2 ELSE 1
  /\ accounts = [i \in 1..lastId |->
       IF i = 2 THEN Provisioned(Bob)
                ELSE [Provisioned(Ann) EXCEPT !.admin = work = "tokens"]]
  /\ jar = [c \in Clients |->
       IF work = "tokens" /\ c # Holder
         THEN {[key |-> accounts[Own[c]].email, gen |-> 0, who |-> Own[c]]}
         ELSE {}]
  /\ clock = 1
  /\ FlowInit /\ SearchInit
  /\ TokenInit(IF work = "tokens" THEN <<BobsToken>> ELSE <<>>)
  /\ work # "accounts" => policy.open

People == Clients \ {Holder}

(* Many sign-ins are started, and those that come back were called off.       *)
Crowding ==
  /\ work = "crowd"
  /\ \/ \E b \in People, p \in Providers : auth_start(b, p)
     \/ \E r \in Requests, b \in People, p \in Providers, s \in DOMAIN begun :
          callback(r, b, p, s, s, TRUE)
  /\ UNCHANGED <<accountVars, signInVars, tokenVars, work>>

(* Starting a sign-in, coming back, and the provider's keys.                  *)
Flowing ==
  /\ work = "flows"
  /\ \/ /\ Cardinality(DOMAIN begun) < MaxFlowing
        /\ \E b \in People, p \in Providers : auth_start(b, p)
     \/ \E r \in Requests, b \in People, p \in Providers,
           s, n \in DOMAIN begun, declined \in BOOLEAN :
          callback(r, b, p, s, n, declined)
     \/ Rotate("apple")
  /\ UNCHANGED <<accountVars, signInVars, tokenVars, work>>

FlowingOn(r) ==
  /\ FlowStep(r)
  /\ UNCHANGED <<accountVars, signInVars, tokenVars, work>>

Searching(r) ==
  /\ SearchStep(r, IF work = "accounts" THEN BOOLEAN ELSE {FALSE})
  /\ UNCHANGED <<tokenVars, work>>

Submitting ==
  /\ work = "accounts"
  /\ \/ \E r \in Requests, b \in People, entries \in SUBSET Identities,
           bound \in BOOLEAN : SeekDirectory(r, b, entries, bound)
     \/ \E r \in Requests, login, email \in Keys : SubmitForm(r, login, email)
     \/ \E open \in BOOLEAN, k \in SUBSET {Bob} :
          SetPolicy([open |-> open, blocked |-> k])
  /\ UNCHANGED <<tokenVars, work>>

Calling ==
  /\ work = "tokens"
  /\ TokenNext
  /\ UNCHANGED <<flowVars, signInVars, work>>

(* Time passes; with flows that are followed up, until the keys have aged.    *)
Passing ==
  /\ work # "accounts"
  /\ work = "flows" => clock <= KEYS_FOR
  /\ Tick
  /\ UNCHANGED <<flowVars, signInVars, tokenVars, work>>

Next ==
  \/ Crowding
  \/ Flowing
  \/ \E r \in Requests : FlowingOn(r) \/ Searching(r)
  \/ Submitting
  \/ Calling
  \/ Passing

Spec == Init /\ [][Next]_vars
=============================================================================
