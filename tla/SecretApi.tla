------------------------------ MODULE SecretApi ------------------------------
(***************************************************************************)
(* The callers of the secret store: the generic endpoints of               *)
(* server/secret.rs (a person's own secrets), the sign-in configuration    *)
(* screen of server/auth_config.rs, and the plugins' system secrets of     *)
(* state/core_task.rs.                                                     *)
(*                                                                         *)
(* A handler takes the store's mutex once and is one action, except        *)
(* auth_config_save: it reads the current configuration under the mutex,   *)
(* releases it, folds the submitted form onto what it read, and takes the  *)
(* mutex again to write, so it is two actions.                             *)
(***************************************************************************)
EXTENDS SecretStore

CONSTANTS
    Bodies,       \* the items that requests carry
    Admins,       \* the accounts with the admin role
    GlobalNames,  \* the names is_global_name matches
    SystemNames,  \* those of them that system_secret_name accepts
    ConfigNames,  \* the entries the sign-in screen writes
    Plugin,       \* stands for any plugin, as a caller
    NoCaller      \* nobody: start-up or a crash

ASSUME ApiAssumption ==
    /\ Bodies \subseteq SentItem
    /\ Admins \subseteq Owners
    /\ SystemNames \subseteq GlobalNames /\ GlobalNames \subseteq Names
    /\ ConfigNames \subseteq SystemNames
    /\ Plugin \notin Owners /\ NoCaller \notin Owners \cup {Plugin}

VARIABLES
    pending,  \* per administrator, a save between its read and its write
    caller    \* history: [who, via] of the last step

apivars == <<vars, pending, caller>>

Idle == [name |-> Absent, val |-> Absent]

NoPending == [a \in Admins |-> Idle]

\* A request dies with the process.
PendingOf(p) == pending' = IF phase' = "down" THEN NoPending ELSE p

Calls(who, via) == caller' = [who |-> who, via |-> via]

-----------------------------------------------------------------------------
(* /secret/edit and /secret/del.                                           *)

may_touch(item, u) == u \in Admins \/ item.owner = u

\* Mutant: only a new entry is stamped.
StampNew(body, existing, u) ==
    IF existing THEN body ELSE [body EXCEPT !.owner = u]

\* The owner is the server's to write: the caller for a new entry, the one
\* it has for an existing one, whatever the request says.
stamp(body, existing, u) ==
    [body EXCEPT !.owner = IF existing THEN entries[body.id].owner ELSE u]

\* `existing` is looked up only when the request names an id.
NamesExisting(body) == body.id # MaxId /\ body.id \in DOMAIN entries

\* Mutant: only the name in the request is compared with the reserved names.
MayEditByNewName(u, body) ==
    /\ body.name \notin GlobalNames
    /\ NamesExisting(body) => may_touch(entries[body.id], u)

MayEdit(u, body) ==
    /\ body.name \notin GlobalNames
    /\ NamesExisting(body) =>
          /\ may_touch(entries[body.id], u)
          /\ entries[body.id].name \notin GlobalNames

secret_edit(u, body) ==
    /\ phase = "up"
    /\ \/ ~MayEdit(u, body) /\ Refused
       \/ MayEdit(u, body) /\ Set(stamp(body, NamesExisting(body), u), TRUE)
    /\ PendingOf(pending)
    /\ Calls(u, "secrets")

MayDelete(u, id) ==
    id \in DOMAIN entries => /\ may_touch(entries[id], u)
                             /\ entries[id].name \notin GlobalNames

secret_del(u, id) ==
    /\ phase = "up"
    /\ \/ ~MayDelete(u, id) /\ Refused
       \/ MayDelete(u, id) /\ Del(id)
    /\ PendingOf(pending)
    /\ Calls(u, "secrets")

-----------------------------------------------------------------------------
(* /secret/list and /secret/get: what a person is shown.                   *)

secret_list(u) ==
    {[id |-> i, name |-> entries[i].name] :
        i \in {j \in DOMAIN entries : may_touch(entries[j], u)}}

\* The value of an entry is shown as a placeholder; one without a value has
\* nothing to hide.
get_masked(i) ==
    [entries[i] EXCEPT !.val = IF @ = Absent THEN Absent ELSE Hidden]

secret_get(u, i) ==
    IF i \in DOMAIN entries /\ may_touch(entries[i], u)
    THEN {get_masked(i)} ELSE {}

-----------------------------------------------------------------------------
(* Plugins: SystemSecretSet and SystemSecretDel.                           *)

IdOfName(n) == IF n \in DOMAIN name_index THEN get_by_name(n).id ELSE MaxId

system_secret_set(item) ==
    /\ phase = "up"
    /\ \/ item.name \notin SystemNames /\ Refused
       \/ /\ item.name \in SystemNames
          /\ Set([item EXCEPT !.id = IdOfName(item.name), !.owner = NoOwner],
                 FALSE)
    /\ PendingOf(pending)
    /\ Calls(Plugin, "system")

system_secret_del(n) ==
    /\ phase = "up"
    /\ \/ n \notin SystemNames \cap DOMAIN name_index /\ Refused
       \/ n \in SystemNames \cap DOMAIN name_index /\ Del(get_by_name(n).id)
    /\ PendingOf(pending)
    /\ Calls(Plugin, "system")

-----------------------------------------------------------------------------
(* The sign-in configuration screen.                                       *)

\* provider_config / ldap_config: what is stored, or nothing.
StoredSecret(n) == IF n \in DOMAIN name_index THEN get_by_name(n).val
                   ELSE Absent

\* The form is folded onto what is stored: a blank secret means unchanged.
\* Validation refuses a configuration that ends up without its secret.
apply_update(n, typed) == IF typed = Absent THEN StoredSecret(n) ELSE typed

auth_config_read(a, n, typed) ==
    /\ phase = "up"
    /\ pending[a] = Idle
    /\ apply_update(n, typed) # Absent
    /\ pending' = [pending EXCEPT ![a] = [name |-> n,
                                          val  |-> apply_update(n, typed)]]
    /\ Calls(a, "form")
    /\ UNCHANGED vars

auth_config_write(a) ==
    /\ phase = "up"
    /\ pending[a] # Idle
    /\ Set([id |-> IdOfName(pending[a].name), name |-> pending[a].name,
            val |-> pending[a].val, owner |-> NoOwner], TRUE)
    /\ PendingOf([pending EXCEPT ![a] = Idle])
    /\ Calls(a, "config")

auth_config_forget(a, n) ==
    /\ phase = "up"
    /\ \/ n \notin DOMAIN name_index /\ Refused
       \/ n \in DOMAIN name_index /\ Del(get_by_name(n).id)
    /\ PendingOf(pending)
    /\ Calls(a, "config")

-----------------------------------------------------------------------------
ServerStep == /\ open \/ AdoptSkip \/ AdoptMove \/ AdoptFinish \/ Crash
              /\ PendingOf(pending)
              /\ Calls(NoCaller, "server")

ApiInit == /\ Init
           /\ pending = NoPending
           /\ caller = [who |-> NoCaller, via |-> "server"]

ApiNext ==
    \/ ServerStep
    \/ \E u \in Owners, body \in Bodies : secret_edit(u, body)
    \/ \E u \in Owners, id \in Ids : secret_del(u, id)
    \/ \E item \in {b \in Bodies : b.id = MaxId} : system_secret_set(item)
    \/ \E n \in Names : system_secret_del(n)
    \/ \E a \in Admins, n \in ConfigNames, typed \in Values \cup {Absent} :
           auth_config_read(a, n, typed)
    \/ \E a \in Admins : auth_config_write(a)
    \/ \E a \in Admins, n \in ConfigNames : auth_config_forget(a, n)

ApiSpec == ApiInit /\ [][ApiNext]_apivars

-----------------------------------------------------------------------------
(* Properties.                                                             *)

Global(e) == {i \in DOMAIN e : e[i].name \in GlobalNames}

SameOn(S, e, f) == /\ S \subseteq DOMAIN f
                   /\ \A i \in S : f[i] = e[i]

\* An entry of somebody else's is out of reach: a step of a person who is not
\* an administrator leaves every entry they do not own as it was, and nobody
\* but start-up ever changes whose an entry is.  Holds until an entry
\* has the last id, u64::MAX, which is also the request for a new one.
OwnersKeepTheirSecrets ==
    [][MaxId \notin DOMAIN entries /\ caller'.via = "secrets" /\ phase' = "up" =>
         /\ caller'.who \notin Admins =>
               SameOn({i \in DOMAIN entries : entries[i].owner # caller'.who},
                      entries, entries')
         /\ \A i \in DOMAIN entries \cap DOMAIN entries' :
               entries'[i].owner = entries[i].owner]_apivars

\* The two spaces do not mix: the generic endpoints neither change, create
\* nor remove a reserved entry, not even for an administrator, and plugins
\* and the configuration screen neither change nor remove any other entry.
SpacesDoNotMix ==
    [][MaxId \notin DOMAIN entries /\ phase' = "up" =>
         /\ caller'.via = "secrets" =>
               /\ Global(entries') = Global(entries)
               /\ SameOn(Global(entries), entries, entries')
         /\ caller'.via \in {"system", "config"} =>
               SameOn(DOMAIN entries \ Global(entries), entries, entries')
      ]_apivars

\* What a person is shown is their own affair: a request of somebody else who
\* is not an administrator, or a plugin, neither adds to what another person
\* is shown nor takes from it (secret_list, secret_get, stamp).  An entry of
\* theirs that start-up moved to the reserved space is out of their hands.
OwnViews ==
    LET own(l) == {x \in l : x.name \notin GlobalNames} IN
    \A u \in Owners \ (Admins \cup {caller'.who}) : caller'.who \notin Admins =>
        /\ own(secret_list(u)') = own(secret_list(u))
        /\ \A i \in Ids : own(secret_get(u, i)') = own(secret_get(u, i))

\* An entry read, shown with its value hidden, and written back as it was
\* shown still has its value and its owner, whoever sends it and whatever
\* owner the request names (get_masked, RestoreHidden, stamp).
RoundTrips ==
    \A i \in DOMAIN entries : \A shown \in secret_get(caller'.who, i) :
        \/ i \in DOMAIN entries' /\ entries'[i] = entries[i]
        \/ \A o \in Owners \cup {NoOwner} :
              ~secret_edit(caller'.who, [shown EXCEPT !.owner = o])

\* Nobody's view depends on what others do, and a view that is written back
\* changes nothing, as long as no entry has the last id.
ViewsAreHonest ==
    [][MaxId \notin DOMAIN entries /\ phase' = "up" =>
         /\ caller'.via # "server" => OwnViews
         /\ caller'.via = "secrets" => RoundTrips]_apivars

\* What the comment on GLOBAL_PREFIX says: "A person's own secrets live
\* outside it", so nothing in the reserved space has a person for its owner.
ReservedIsNobodysOwn ==
    phase = "up" /\ MaxId \notin DOMAIN entries =>
        \A i \in Global(entries) : entries[i].owner = NoOwner
==============================================================================
