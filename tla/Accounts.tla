------------------------------- MODULE Accounts -------------------------------
(* The account records as every way in sees them (server/user_control.rs,     *)
(* state/store.rs find_user), and the session cookies the clients hold.  The  *)
(* whole session is in the cookie: a principal and the generation that was    *)
(* current when it was stamped.                                               *)
EXTENDS Naturals, TLC

CONSTANTS Keys,      \* logins and e-mail addresses, with their spelling
          Folded,    \* Keys -> Keys: a key in lower case
          Subjects,  \* identifiers that providers and the directory give out
          Clients,   \* browsers, and programs that hold a token
          MaxIds,    \* bound: accounts
          MaxClock   \* bound: the clock

NoKey == "none"

ASSUME AccountsAssumption ==
  /\ NoKey \notin Keys
  /\ Folded \in [Keys -> Keys]
  /\ \A k \in Keys : Folded[Folded[k]] = Folded[k]
  /\ MaxIds \in Nat /\ MaxClock \in Nat \ {0}

(* subject_key and LDAP_SUBJECT_KEY: a field of the record for every way in.  *)
SubjectKeys == {"google", "apple", "directory"}
Ids == 1..MaxIds
MaxGen == 2

(* subject: per way in, the identity it is tied to, if any.  clean: it was     *)
(* made by a request whose lookups were answered and that no other        *)
(* creation overtook (history).  how: what made it (history).                 *)
Account ==
  [login : Keys, email : Keys \cup {NoKey}, subject : SUBSET (SubjectKeys \X Subjects),
   active : BOOLEAN, admin : BOOLEAN, once : BOOLEAN, self_registered : BOOLEAN,
   gen : 0..MaxGen, clean : BOOLEAN,
   how : {"provisioned", "register", "identity"}]

Provisioned(k) ==
  [login |-> k, email |-> k, subject |-> {}, active |-> TRUE, admin |-> FALSE,
   once |-> FALSE, self_registered |-> FALSE, gen |-> 0, clean |-> TRUE,
   how |-> "provisioned"]

VARIABLES accounts,  \* id -> Account
          lastId,    \* the highest id handed out
          jar,       \* the session cookie each client holds, if any
          clock

accountVars == <<accounts, lastId, jar, clock>>

(* who: the account the client proved to be, 0 when it could not be made      *)
(* (history).                                                                 *)
Cookie == [key : Keys \cup {NoKey}, gen : 0..MaxGen, who : 0..MaxIds]

Tick ==
  /\ clock < MaxClock
  /\ clock' = clock + 1
  /\ UNCHANGED <<accounts, lastId, jar>>

(* Identity::login and the stamp: a session for the account, in the answer.   *)
SessionFor(c, k) == jar' = [jar EXCEPT ![c] = {k}]

(* find_user: a record whose login or e-mail is the key, in this spelling;    *)
(* when several match, the database's first.                                  *)
Matching(k) ==
  {i \in DOMAIN accounts : accounts[i].login = k \/ accounts[i].email = k}
get_user(k, i) == IF Matching(k) = {} THEN i = 0 ELSE i \in Matching(k)

(* taken_ignoring_case.                                                       *)
taken_ignoring_case(login, email) ==
  \E i \in DOMAIN accounts :
    \E theirs \in {accounts[i].login, accounts[i].email} \ {NoKey} :
      Folded[theirs] \in {Folded[login], Folded[email]}

session_generation(i) == accounts[i].gen

(* check_role, for the role that matters here.                                *)
is_admin(i) == accounts[i].active /\ accounts[i].admin

(* HashMap::insert, and a new document: the table with an entry more.          *)
Added(table, k, v) ==
  [x \in DOMAIN table \cup {k} |-> IF x = k THEN v ELSE table[x]]

NewAccount(rec) == accounts' = Added(accounts, lastId + 1, rec)
Patched(i, rec) == accounts' = [accounts EXCEPT ![i] = rec]

(* The records and the cookies keep their types.                              *)
AccountsTypeOK ==
  /\ DOMAIN accounts \subseteq Ids
  /\ \A i \in DOMAIN accounts : accounts[i] \in Account
  /\ lastId \in 0..MaxIds
  /\ \A c \in Clients : jar[c] = {} \/ \E k \in Cookie : jar[c] = {k}
  /\ clock \in 0..MaxClock
=============================================================================
