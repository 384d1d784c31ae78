------------------------------- MODULE SignIn -------------------------------
(* From an established identity, or a registration form, to a record and a    *)
(* session (server/signin.rs, register and directory_login in                 *)
(* server/login.rs, the second half of finish in server/oauth.rs,             *)
(* util/ldap.rs).                                                             *)
(*                                                                            *)
(* Three ways in make accounts: a first sign-in with a provider, one with the *)
(* directory, and /register.  Each looks the record up, asks whether new      *)
(* accounts are taken, and writes, with the store free to answer others in    *)
(* between and to fail; a lookup that fails reads as "no such account".       *)
EXTENDS OAuthFlows

CONSTANTS Identities,   \* what providers and the directory vouch for
          MaxForms      \* bound: forms submitted

ASSUME SignInAssumption ==
  /\ Identities \subseteq
       [email : Keys, subject : Subjects, verified : BOOLEAN]
  /\ MaxForms \in Nat

VARIABLES seek,    \* per request: the search for a record
          policy,  \* registration: open, and the blocked addresses
          forms

signInVars == <<seek, policy, forms>>

Policies == [open : BOOLEAN, blocked : SUBSET Keys]

(* found, other: the records found by e-mail (or login) and by e-mail, 0 for  *)
(* none.  late: an account was made or linked since the first lookup; missed: *)
(* a lookup failed; shut: nobody has opened registration since the request    *)
(* began (histories).                                                         *)
NoSearch ==
  [pc |-> "idle", kind |-> "provider", login |-> NoKey, email |-> NoKey,
   verified |-> FALSE, via |-> "google", subject |-> "none",
   browser |-> NoRequest.browser,
   found |-> 0, other |-> 0, known |-> {}, gen |-> 0,
   late |-> FALSE, missed |-> FALSE, shut |-> FALSE]

SearchInit ==
  /\ seek = [r \in Requests |-> NoSearch]
  /\ policy \in [open : BOOLEAN, blocked : {{}}]
  /\ forms = 0

may_register(email) == policy.open /\ email \notin policy.blocked

Begin(r, s) ==
  seek' = [seek EXCEPT ![r] = [s EXCEPT !.shut = ~policy.open]]

(* finish goes on with the identity the token names.                          *)
SeekIdentity(r, i) ==
  /\ req[r].pc = "known"
  /\ seek[r].pc = "idle"
  /\ Begin(r, [NoSearch EXCEPT !.pc = "lookup", !.email = Folded[i.email],
                 !.login = Folded[i.email], !.via = req[r].provider,
                 !.subject = i.subject, !.verified = i.verified, !.browser = req[r].browser])
  /\ UNCHANGED <<accountVars, flowVars, policy, forms>>

(* ldap authenticate: the service account, the one entry the name matches,    *)
(* the bind with the typed password, and the entry read as its owner.  No     *)
(* password, no entry or two, or a refused bind is a rejection.               *)
authenticate(password, entries, bound, read) ==
  /\ password
  /\ Cardinality(entries) = 1
  /\ bound
  /\ read

(* login fell through to the directory: directory_login.                      *)
SeekDirectory(r, b, entries, bound) ==
  /\ req[r].pc = "idle" /\ seek[r].pc = "idle"
  /\ forms < MaxForms
  /\ forms' = forms + 1
  /\ IF authenticate(TRUE, entries, bound, TRUE)
       THEN LET i == CHOOSE i \in entries : TRUE IN
            Begin(r, [NoSearch EXCEPT !.pc = "lookup", !.kind = "directory",
                        !.email = Folded[i.email], !.login = Folded[i.email],
                        !.via = "directory", !.subject = i.subject,
                        !.verified = TRUE, !.browser = b])
       ELSE UNCHANGED seek
  /\ UNCHANGED <<accountVars, flowVars, policy>>

(* register: a form with a login and an e-mail address, both acceptable.      *)
SubmitForm(r, login, email) ==
  /\ req[r].pc = "idle" /\ seek[r].pc = "idle"
  /\ forms < MaxForms
  /\ forms' = forms + 1
  /\ Begin(r, [NoSearch EXCEPT !.pc = "policy", !.kind = "register",
                 !.login = login, !.email = email])
  /\ UNCHANGED <<accountVars, flowVars, policy>>

(* get_user(email), for a provider or the directory.                          *)
LookUp(r, i, fails) ==
  LET s == seek[r]
      hit == IF fails THEN 0 ELSE i IN
  /\ s.pc = "lookup"
  /\ get_user(s.email, i)
  /\ seek' = [seek EXCEPT ![r] = [s EXCEPT !.pc = "policy", !.found = hit,
       !.known = IF hit = 0 THEN {}
                 ELSE {x \in Subjects : <<s.via, x>> \in accounts[hit].subject},
       !.gen = IF hit = 0 THEN 0 ELSE accounts[hit].gen,
       !.missed = fails]]
  /\ UNCHANGED <<accountVars, flowVars, policy, forms>>

(* A plausible bug: a record without a subject of its own takes any.          *)
ResolveUnlinked(s) ==
  IF ~s.verified THEN "refuse"
  ELSE IF s.found = 0 THEN IF may_register(s.email) THEN "create" ELSE "refuse"
  ELSE IF /\ Folded[accounts[s.found].email] = Folded[s.email]
          /\ accounts[s.found].active
       THEN "signin" ELSE "refuse"

(* A plausible bug: a first sign-in is let in whether or not registration is  *)
(* open.                                                                      *)
ResolveOpen(s) ==
  IF ~s.verified THEN "refuse"
  ELSE IF s.found = 0 THEN "create"
  ELSE IF /\ Folded[accounts[s.found].email] = Folded[s.email]
          /\ accounts[s.found].active
          /\ s.known \subseteq {s.subject}
       THEN "signin" ELSE "refuse"

(* resolve_identity: the address is the key, vouched for; the record it finds *)
(* holds that address, is active, and is tied to no other subject.            *)
resolve_identity(s) ==
  IF ~s.verified THEN "refuse"
  ELSE IF s.found = 0 THEN IF may_register(s.email) THEN "create" ELSE "refuse"
  ELSE IF /\ accounts[s.found].email # NoKey
          /\ Folded[accounts[s.found].email] = Folded[s.email]
          /\ accounts[s.found].active
          /\ s.known \subseteq {s.subject}
       THEN "signin" ELSE "refuse"

(* A request is over: the flow cookie goes, and so does the request.          *)
Over(r) ==
  /\ seek' = [seek EXCEPT ![r] = NoSearch]
  /\ req' = [req EXCEPT ![r] = NoRequest]
  /\ cookie' = IF seek[r].kind = "provider"
                 THEN [cookie EXCEPT ![seek[r].browser] = 0] ELSE cookie

Resolve(r) ==
  LET s == seek[r] IN
  /\ s.pc = "policy" /\ s.kind # "register"
  /\ IF resolve_identity(s) = "refuse"
       THEN Over(r)
       ELSE /\ seek' = [seek EXCEPT ![r].pc = resolve_identity(s)]
            /\ UNCHANGED <<req, cookie>>
  /\ UNCHANGED <<accountVars, flows, jwks, epoch, begun, wins, policy, forms>>

(* Everybody who has looked before this write is late.                        *)
HasLooked(s) ==
  \/ s.pc \in {"signin", "create", "by_email", "target", "register"}
  \/ s.pc = "policy" /\ s.kind # "register"
Overtaken(r) ==
  [x \in Requests |->
     IF x = r THEN NoSearch
              ELSE [seek[x] EXCEPT !.late = @ \/ HasLooked(seek[x])]]

(* The session: the principal is the address, the stamp what was read before  *)
(* the write.                                                                 *)
Opened(r, i) ==
  LET s == seek[r] IN
  /\ SessionFor(s.browser, [key |-> s.email, gen |-> s.gen, who |-> i])
  /\ req' = [req EXCEPT ![r] = NoRequest]
  /\ cookie' = IF s.kind = "provider"
                 THEN [cookie EXCEPT ![s.browser] = 0] ELSE cookie
  /\ UNCHANGED wins

(* record_for, an account there is: the subject is remembered.                *)
RecordSignIn(r, fails) ==
  LET s == seek[r] IN
  /\ s.pc = "signin"
  /\ IF fails \/ s.found \notin DOMAIN accounts THEN UNCHANGED accounts
     ELSE Patched(s.found, [accounts[s.found] EXCEPT !.once = TRUE,
            !.subject = {x \in @ : x[1] # s.via} \cup {<<s.via, s.subject>>}])
  /\ seek' = Overtaken(r)
  /\ Opened(r, s.found)
  /\ UNCHANGED <<lastId, clock, flows, jwks, epoch, begun, policy, forms>>

Tied(s) == IF s.kind = "register" THEN {} ELSE {<<s.via, s.subject>>}

(* What record_for and register write.                                        *)
Created(s) ==
  [login |-> s.login, email |-> s.email, subject |-> Tied(s), active |-> TRUE,
   admin |-> FALSE, once |-> s.kind # "register", self_registered |-> TRUE,
   gen |-> 0, clean |-> ~s.late /\ ~s.missed,
   how |-> IF s.kind = "register" THEN "register" ELSE "identity"]

(* record_for, a new account, and announce_new_user.  The write may fail, or  *)
(* the record may not be readable after it: the directory's form is refused   *)
(* then, and a provider's sign-in goes on without a record.                   *)
RecordCreate(r, out) ==
  LET s == seek[r] IN
  /\ s.pc = "create"
  /\ IF out = "failed"
       THEN /\ UNCHANGED <<accounts, lastId>>
            /\ seek' = [seek EXCEPT ![r] = NoSearch]
       ELSE /\ lastId < MaxIds
            /\ lastId' = lastId + 1
            /\ NewAccount(Created(s))
            /\ seek' = Overtaken(r)
  /\ IF out # "made" /\ s.kind = "directory"
       THEN /\ req' = [req EXCEPT ![r] = NoRequest]
            /\ UNCHANGED <<jar, cookie, wins>>
       ELSE Opened(r, IF out = "failed" THEN 0 ELSE lastId + 1)
  /\ UNCHANGED <<clock, flows, jwks, epoch, begun, policy, forms>>

(* register: the door, then the lookups, each an await of its own.            *)
AskDoor(r) ==
  LET s == seek[r] IN
  /\ s.pc = "policy" /\ s.kind = "register"
  /\ seek' = [seek EXCEPT ![r] =
       IF may_register(s.email) THEN [s EXCEPT !.pc = "by_login"] ELSE NoSearch]
  /\ UNCHANGED <<accountVars, flowVars, policy, forms>>

ByLogin(r, i, fails) ==
  LET s == seek[r] IN
  /\ s.pc = "by_login"
  /\ get_user(s.login, i)
  /\ seek' = [seek EXCEPT ![r] = [s EXCEPT !.pc = "by_email", !.missed = fails,
                                           !.found = IF fails THEN 0 ELSE i]]
  /\ UNCHANGED <<accountVars, flowVars, policy, forms>>

ByEmail(r, i, fails) ==
  LET s == seek[r] IN
  /\ s.pc = "by_email"
  /\ get_user(s.email, i)
  /\ seek' = [seek EXCEPT ![r] = [s EXCEPT !.pc = "target",
                                           !.missed = @ \/ fails,
                                           !.other = IF fails THEN 0 ELSE i]]
  /\ UNCHANGED <<accountVars, flowVars, policy, forms>>

(* A plausible bug: only the e-mail is asked for.                             *)
RegistrationByEmail(s) == s.other = 0

(* registration_target: nothing found by either; the one other answer that is *)
(* no refusal, a form submitted again, has nothing left to write.             *)
registration_target(s) == s.found = 0 /\ s.other = 0

(* The last question, in any spelling; asked of the database, which may fail. *)
AskSpelling(r, fails) ==
  LET s == seek[r] IN
  /\ s.pc = "target"
  /\ seek' = [seek EXCEPT ![r] =
       IF registration_target(s)
          /\ (fails \/ ~taken_ignoring_case(s.login, s.email))
       THEN [s EXCEPT !.pc = "register", !.missed = @ \/ fails]
       ELSE NoSearch]
  /\ UNCHANGED <<accountVars, flowVars, policy, forms>>

(* What register writes: a record of its own, always.                         *)
RegisterWrites(s) == NewAccount(Created(s)) /\ lastId' = lastId + 1

Register(r, fails) ==
  LET s == seek[r] IN
  /\ s.pc = "register"
  /\ IF fails
       THEN /\ seek' = [seek EXCEPT ![r] = NoSearch]
            /\ UNCHANGED <<accounts, lastId>>
       ELSE /\ lastId < MaxIds
            /\ RegisterWrites(s)
            /\ seek' = Overtaken(r)
  /\ UNCHANGED <<jar, clock, flowVars, policy, forms>>

(* An administrator opens or closes registration, or blocks an address.       *)
SetPolicy(p) ==
  /\ forms < MaxForms
  /\ forms' = forms + 1
  /\ policy' = p
  /\ seek' = [r \in Requests |-> [seek[r] EXCEPT !.shut = @ /\ ~p.open]]
  /\ UNCHANGED <<accountVars, flowVars>>

(* Failing: whether the store's lookups may fail (bound).                     *)
SearchStep(r, Failing) ==
  \/ \E i \in Identities : SeekIdentity(r, i)
  \/ \E i \in 0..MaxIds, fails \in Failing :
       LookUp(r, i, fails) \/ ByLogin(r, i, fails) \/ ByEmail(r, i, fails)
  \/ Resolve(r)
  \/ \E out \in {"made", "unread", "failed"} : RecordCreate(r, out)
  \/ \E fails \in BOOLEAN :
       \/ RecordSignIn(r, fails)
       \/ AskSpelling(r, fails) \/ Register(r, fails)
  \/ AskDoor(r)

(* ------------------------------ properties ------------------------------ *)

(* The searches keep their types, and one that is about to make an account    *)
(* has found none.                                                            *)
SearchTypeOK ==
  /\ \A r \in Requests :
       seek[r].pc \in {"create", "register"} => seek[r].found = 0
  /\ seek \in [Requests ->
       [pc : {"idle", "lookup", "policy", "signin", "create", "by_login",
              "by_email", "target", "register"},
        kind : {"provider", "directory", "register"},
        login : Keys \cup {NoKey}, email : Keys \cup {NoKey},
        verified : BOOLEAN, via : SubjectKeys,
        subject : Subjects \cup {"none"}, browser : Clients,
        found : 0..MaxIds, other : 0..MaxIds, known : SUBSET Subjects,
        gen : 0..MaxGen, late : BOOLEAN, missed : BOOLEAN,
        shut : BOOLEAN]]
  /\ policy \in Policies
  /\ forms \in 0..MaxForms

(* Two accounts hold one address only when one of them was made by a request  *)
(* that another overtook, or that the store did not answer.                   *)
OneAccountPerAddress ==
  \A i, j \in DOMAIN accounts :
    (i < j /\ accounts[i].email = accounts[j].email /\ accounts[i].email # NoKey)
    => ~accounts[j].clean

(* /register makes no account that differs from an older one only in its      *)
(* spelling; the other ways in look for the exact spelling only.              *)
NoLookalikes ==
  \A i, j \in DOMAIN accounts :
    (i < j /\ accounts[j].how = "register" /\ accounts[j].clean)
    => {Folded[accounts[i].login], Folded[accounts[i].email]}
       \cap {Folded[accounts[j].login], Folded[accounts[j].email]} = {}

(* An account that was signed in to as one subject is never tied to another:  *)
(* an address that changes hands at the provider does not pick up the record. *)
(* The exception is the code's: two first sign-ins that overlap.              *)
SubjectsStay ==
  [][\A i \in DOMAIN accounts :
       accounts[i].subject \subseteq accounts'[i].subject
       \/ \E r \in Requests : /\ seek[r].pc = "signin" /\ seek'[r].pc = "idle"
                             /\ seek[r].late]_<<accounts, seek>>

(* No account is made by a request through which registration was closed,     *)
(* whichever way in it took.                                                  *)
ClosedIsClosed ==
  [][lastId' # lastId =>
       \E r \in Requests :
         /\ seek[r].pc \in {"create", "register"} /\ seek'[r].pc = "idle"
         /\ ~seek[r].shut]_<<lastId, seek>>

(* The accounts that the ways in leave behind, however the ways overlap.      *)
AccountInv ==
  AccountsTypeOK /\ SearchTypeOK /\ OneAccountPerAddress /\ NoLookalikes
=============================================================================
