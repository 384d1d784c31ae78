# A TLA+ verification of isabelle-core

isabelle-core is the server of the Isabelle platform: an HTTP server over a
store of items (MongoDB, or files), with accounts and sessions, an encrypted
store for secrets, and plugins that hook into every operation. This directory
holds TLA+ models of its core, TLC configurations that check them on small
instances, and TLAPS proofs of the properties that matter most.
`PROJECT.json` lists the components, the runs, the source lines behind every
definition, the hazards of the code and the theorems.

    tlc -workers 2 -config SecretApi.cfg MCSecretApi      # one run
    tlapm SecretStoreProofs.tla                           # one proof module

## Inventory

| Component | State | Operations | What is hard |
|---|---|---|---|
| Secret store (`state/secrets.rs`) | `entries`, `name_index`, `next_id`, one encrypted file | `open`, `set`, `del`, `adopt_global_names` | failing writes, a crash between file and memory, renames, id counter at its end |
| Secret callers (`server/secret.rs`, `owner.rs`, `auth_config.rs`, `state/core_task.rs`) | none of their own; a form in flight | list, read, edit, delete, system set/delete, configure, forget | ownership, the reserved name space, a read before an unlock used after it |
| User cache (`state/store_mongo.rs`) | `user_cache`, `user_cache_gen` | `find_user_cached`, `invalidate_user_cache` | a lookup in flight across a write |
| Item store on MongoDB (`state/store_mongo.rs`) | documents, a counter document, `items`, `items_count` per process | `set_item`, `del_item`, `alloc_id`, `raise_counter`, `connect` | several processes, lost answers, restarts |
| Item store on files (`state/store_local.rs`, `util/fs.rs`) | item files, `cnt`, settings, the maps `items`, `items_count` | connect, set, del, get, list | crash between two files, one staging name for all writers, lists while items change |
| Sessions and codes (`server/login.rs`, `user_control.rs`, `guards.rs`) | on the account's record: `session_gen`, `otp`, `otp_attempts`, password, roles; cookies held by clients | login, logout, gen_otp, edits | every write is read, merge, replace |
| OAuth flows (`server/oauth.rs`, `util/oidc.rs`) | table of pending flows, flow cookies, cached signing keys | start, callback, code exchange, token checks | limit, expiry, single use, the right browser, rotated keys |
| Registration and identity (`server/signin.rs`, `login.rs`, `util/ldap.rs`) | account records, the registration policy | register, directory sign-in, `resolve_identity`, `finish` | search and write apart, three ways to one record |
| API tokens (`server/api_token.rs`, `guards.rs`) | token items | issue, accept, touch, revoke | touch racing revoke, the order of the guards, a session that lives for one request |
| Plugin dispatch (`handler/*`, `state/core_task.rs`) | mailboxes, the core's inbox, reply channels | hooks, routes, calls into the core, periodic jobs | waiting on each other, a plugin that dies |
| Item API (`server/itm.rs`, `owner.rs`, `list_filter.rs`) | none | edit, delete, list, query | order of hooks, vetoes, what a list may show |
| Settings, disk budget (`server/setting.rs`, `system.rs`, `state/diskbudget.rs`) | one settings item, the mail secret, the policy at work | four callers that read, change and write it whole | lost updates, one of two writes failing |
| Uploads (`util/multipart.rs`, `handler/route_call.rs`) | a body being read, its directory of files | read field by field, hook, clean up | a body that breaks off or stalls |
| Start-up (`lib.rs`, `state/merger.rs`, `state/data.rs`) | the database, the session key file | seed, `init_checks`, wiring, key | crashes, failures, plugins that write already |
| Plugin routes (`lib.rs`, `state/route_cache.rs`, `server/openapi.rs`) | `internals.js`, the registered routes, the cache | register, dispatch, describe | three parsers of one table |
| OIDC and LDAP clients, notifications, features, redaction, arguments | | | I/O, cryptography, data |

How they interact. A request passes the framing check, the session guard, which
looks the account up through the user cache and compares the session
generation, and the token guard, and then reaches a handler. Handlers call the
item store, each call an `await`, and call plugins over channels and wait for
their replies. Plugins call back into the core over another channel served by
one task (`core_task`). The secret store is behind one mutex that no handler
holds across an `await`. Items have no lock of any kind: on MongoDB the only
atomic step is a single database call, on files a single system call. A start
brings the parts up one after the other; plugins write from the moment they are
registered, clients when all is up.

## Modules

| Module | Models | Extends |
|---|---|---|
| `DurableSecrets` | the promise of the secret store: a map with unique names changed by whole puts and removes | |
| `SecretStore` | `state/secrets.rs` with failing writes and crashes | |
| `SecretApi` | every caller of the store | `SecretStore` |
| `UserCache` | the user-record cache of `state/store_mongo.rs` | |
| `MongoItems` | identifiers in `state/store_mongo.rs` | |
| `Sessions` | one account, its sessions and codes | |
| `AtomicWrite` | `util/fs.rs`, system call by system call | |
| `LocalStore` | `state/store_local.rs`: one collection and the settings file | `AtomicWrite` |
| `Listing` | its lists, and the list by ids of `itm_list` | `LocalStore` |
| `PluginDispatch` | mailboxes, replies and calls into the core | |
| `ListFilter` | `server/list_filter.rs`, a pure algorithm | |
| `ItemApi` | `server/itm.rs` and the plugin routes | `PluginDispatch`, `ListFilter` |
| `Accounts` | account records, cookies, the clock | |
| `OAuthFlows` | from the start of a flow to an established identity | `Accounts` |
| `SignIn` | from an identity or a form to a record and a session | `OAuthFlows` |
| `ApiTokens` | tokens and the guards | `Accounts` |
| `Access` | all ways to an account together | `SignIn`, `ApiTokens` |
| `StartUp` | seeding, checks, session key | |
| `Settings` | the settings item and its callers, the disk policy | |
| `Uploads` | bodies of plugin routes | |
| `Routes` | the route tables and their three readers | |
| `System` | a deployment over its restarts | `StartUp`, `Settings`, `Uploads`, `Routes` |
| `MC*` | the constants of a run | the module it is named after |
| `*Proofs` | theorems | the module it is named after, `TLAPS` |

An operator marked *Mutant* or *A plausible bug* is a mistake in the definition
that follows it; it is used by nothing, and replacing the definition by it
breaks the property `PROJECT.json` pairs it with.

Many properties are conjunctions of named parts (`StoreInv`, `TokenInv`, ...);
each part is stated and explained where it is defined. Type invariants are
parts of these, or are proved and not run.

### SecretStore and SecretApi

`entries`, `name_index` and `next_id` are the fields of `SecretStore`; `disk` is
the file in one of its three forms (absent, the old map of names, the
envelope). Everything runs under the mutex, so `set` and `del` are one action
each, with three outcomes: refused (by the name, or because the write failed),
done, and done but cut short by the death of the process after the file was
published. Start-up is a sequence: `open`, one action per adopted name, then
serving. An item is its id, name, owner and one masked field, which stands for
all of them: the loop over the fields treats each alone. `set` receives what a
client may send, with absent fields and with the placeholder it was shown.

`SecretApi` adds who may do what, and what a person is shown (`secret_list`,
`secret_get`, `get_masked`). `auth_config_save` is two actions, because it
releases the mutex between reading and writing. The check of the caller's role
comes before, and `Admins` stands for its result. `Bodies`, the
requests, are arbitrary in the proofs. `ApiImplementsStore` shows every caller's
step to be a step of the store, so what is proved of `SecretStore` holds here.

### UserCache

A lookup is three steps: the look under the lock (`Hit` or `Miss`, which notes
the generation), the database's answer, and the installation under the lock.
A write is two: the database takes it, then the cache is dropped. A write that
the database reports as failed may have been taken all the same. A record is
the number of the write that made it. Expiry may come at any time.

### MongoItems

One declared collection, several processes. Every database call is an action.
`alloc_id`'s lost answer may have moved the counter or not; a failed write may
have been taken or not; `get_item` turns an error into "not there". `Faults` says
which calls may fail, so that a run can name the failure it is about.
`MaxSeq` stands for `i64::MAX` and `MaxId` for `u64::MAX`.

### Sessions

One account. A handler's read is its first step, and `set_item` is two more:
it reads the record again (`SetGet`) and replaces the whole of it (`SetReplace`,
`SetFails`), merged with what it read or not, as the flag of its caller says.
`gen_otp` never merges; sign-ins and logouts always do; `/itm/edit` and a
plugin's `DbSetItem` hand on what their client or plugin asked for. A record
that is replaced has only the fields of the new item, so a field may read as
`Unset` afterwards, the session generation as 0. Of the fields whose change ends
sessions the password stands for itself and `active` for the roles, which also
end sessions when a replacing edit drops them. The login and the e-mail stay as they are:
an edit that drops them makes the account unreachable and is not modelled.
`disturbed` is history: the kinds of request that overlapped another or had a
write fail, and "reset" when an edit replaces a record that has a session
generation by one that has none.

### AtomicWrite, LocalStore and Listing

A path and its `.tmp` sibling name inodes, and an inode holds a set of writes.
Two writers of one path open the same sibling, so one may fill or rename what
the other has open. A write is opening, writing with `fsync`, and renaming, each
a step that may fail or be the last one before the process dies; `LocalStore`
puts the reading of the old item before it and the maps after it. An id is
allocated under the mutex of `items_count`, which also covers the `cnt` file.
`clashed` (two writers had one path open) and `cut` (a request failed or died
half-way) are history, and the properties say what they promise without them.
`del_item` removes a path that is not the item's, and the model does the same.

`Listing` reads the known ids in one step and then item by item, as the code
does, while requests go on. Sorting is given by what it returns (`Sorted`, and
`Places` for what is sorted after it was found). `MaxId` stands for `u64::MAX`, which is also a skip,
limit or bound that was not given.

### PluginDispatch, ListFilter and ItemApi

A plugin is a task with a bounded mailbox that serves one message at a time, may
call the core while it does, may answer nothing and may end; what waits for it
then sees a dropped channel. A request is a record of its stage (`auth`, `pre`,
`post`, `db`, `filter`, `route`, `rest`) and its turn in the stage; `PluginOf`
maps turns to plugins. What a plugin may answer is `Answers`, external: it may
change an item's contents and withhold from lists, but does not move owners.
`said` is the history of what the plugins said, `disturbed` the requests that a
write overtook.

`ListFilter` is the validation of a client's filter, against `Forbidden`, which
says in one sentence what must not be asked. Filters are trees of records, not
strings, and are drawn from `Documents`, any set of trees that holds the parts
of its members. A filter may also be blank, and a filter that is accepted may still be one
that the store cannot parse; the joined filter is then taken as the empty one, and the plugins'
filters with it (`lost`). The recursion is in functions: `validate_node` from a document
and its depth, `Under` from a number of levels to what lies there.

### Accounts, OAuthFlows, SignIn, ApiTokens and Access

`Accounts` has what all ways in share: records with a login, an e-mail and the
subjects they are tied to, and one cookie per client. `get_user` is as loose as
the database: of several matching records, any. In `OAuthFlows` state, nonce,
verifier and binding of a flow are one number, because each is drawn once;
anybody may deliver anybody's link. The table, `prune`, the victim of a full
table, the exchange and the checks of the token are as in the code; the
signature is the key it was made with. In `SignIn` every lookup and every write
is a step, a lookup may fail and then reads as "no such account", and policy
and other requests may change in between; `late`, `missed` and `shut` record
that this happened to a search. `ApiTokens` has a request pass the guards in the
order in which `lib.rs` wraps them; `jar` after the answer is what is left of the
session. A revocation and a mark are answered alike whether or not they could be
written; `ended` has every token whose revocation was answered, `written` those
of which one was written.

### StartUp, Settings, Uploads, Routes and System

`StartUp` is one action per item seeded or checked, with plugins that edit items
meanwhile, and a session key file that may be there, be unreadable, or be
written before the process dies. `Settings` is four callers that each read, may
be overtaken, and write the whole item; the mail credentials are in the item of
old and in the secret store now, and the two writes of the mail screen may fail
separately; a forget whose write failed goes on and is answered like any other
(`unwritten`). `Uploads` is a body read chunk by chunk, by kind of field, with
the limit and the deadline of the code; the directory of files and what the
reader has recorded of them are two variables. `Routes` has a table of specs of
which some are short of a part, and the three readers' results. `System` is
their composition: nothing is served before the start is over, the start puts
the stored policy to work, uploads go by the monitor's verdict, and the
process may die at any point.

## Runs

| Run | Bounds | Shows |
|---|---|---|
| `secrets` | 3 ids, the last of them u64::MAX; 3 names of which one is adopted and one reserved; two people and an administrator; one value; old-format file or none | nine properties of the store and its callers |
| `secret_adoption` | the same | **violation**: a person's secret called `ldap` is the server's configuration after a restart |
| `user_cache` | 2 principals, 2 lookups, 2 writers, 2 writes | no lookup sees a record older than a write that has returned, and coherence in the end |
| `mongo_items` | 2 processes, 2 requests at a time, 3 in all, chosen ids 1 and 2, counter up to 4, reads and writes fail | fresh ids, acknowledged items exist |
| `mongo_fallback` | 1 process, 1 request at a time, the counter may fail | **violation**: an id made up without the counter is handed out again |
| `sessions` | 2 requests at a time, generations 0 to 2, 2 sign-ins, 1 code, 1 guess, writes fail; edits that are merged or replace the record, with `active` on, off or absent | what has to run alone for what |
| `sessions_overlap` | 2 requests at a time, no failures, edits that are merged | **violation**: an overlapping sign-in undoes a logout |
| `local_store` | 2 requests at a time, 3 writes in all, ids up to 3, three collections to start from, one list | whole files, readable and exact lists, fresh ids, no lost fields |
| `item_api` | 2 plugins, 2 requests, mailboxes and inbox of one place, one item, one event in all (a call into the core, a silence, an end of a plugin, a periodic job) | vetoes, hooks, owners, lists, and an answer for every request |
| `system` | 2 items, 2 starts, 2 edits; 2 settings callers and 3 saves; 1 upload with 2 names and a limit of 2; up to 3 of 10 route specs | what a start, a save, an upload and a route table promise |
| `access` | 3 keys, two of which differ in spelling; 2 subjects; 3 clients; clock 3; 2 flows in the table, 4 started; 3 forms; 2 tokens, 3 calls | flows, searches, accounts and tokens |
| `token_generation` | the same | **violation**: revoking sessions does not stop tokens |

Why the bounds are enough. In `secrets`, ids 0 and 1 can be used, deleted and
asked for again before id 2 exhausts the counter, and two entries are what a
name collision, a rename onto a freed name, or the wrong owner takes; the second
person is the one whose view must not change. In
`user_cache` the second writer and the second lookup are the ones that
overtake; a third would repeat them. In `mongo_items` a process can read the
collection, another allocate, and the first raise the counter; the counter
reaches its end, so the fallback runs. In `sessions` a lost update takes two
requests; generation 2 is needed for a revocation of a session opened after
another revocation. `MCSessions` follows a behaviour until more than
`MaxDisturbed` = 2 kinds of request have been disturbed (`MaxReplaced` = 1 while an edit
replaces the record or has left a field out of it), or no property speaks
about it any more. The second loses nothing, because a set that only grows stays as
large as it was; the first is a bound, and with it two kinds may disturb each
other under merged edits, and one under edits that replace. The proofs have no
such bound.

In `local_store` two writers are what a clash takes and the third write is the
one that finds its traces, after a crash or not; two requests that are alike are
interchangeable. Lists are only begun on a collection that has two items
(`ListSeeds`), where a page can be short, shifted or out of order. In `item_api`
two plugins are what an order of hooks takes; with one place per mailbox the
third message waits, so that channels do fill up; plugins do one thing out
of the ordinary (`MaxEvents`). Which requests may overlap is `Together`: two
edits of the item, and anything with a plugin route, since only edits share the
item and only messages share the plugins. Filters go to one level below the
deepest that is accepted (`MAX_DEPTH` is 2 here). In `system` and `access` the
variable `work`, chosen at the start, splits what clients do, because the parts
share only the start, or the accounts: settings, uploads, items and routes are
each run over all starts and crashes, routes with one start (they are read once
per start); full tables of flows, flows that are followed up, ways to an
account, and tokens likewise. In `access` a fourth start fills a table of two
twice, three forms are two that overlap and one that finds what they left, and
two subjects are what an address that changes hands takes. Requests and calls
are interchangeable.

The deadlock check is off where the bounds run out with nothing left to do
(`sessions`, `item_api`, `system`, `access`): all requests are served, all starts
used up. It is on in `secrets`, `user_cache`, `mongo_items` and `local_store`.

Properties of the runs by hazard are in `PROJECT.json`. The violations:

* `ReservedIsNobodysOwn` contradicts "A person's own secrets live outside it"
  (`state/secrets.rs`, on `GLOBAL_PREFIX`).
* `TakenIdsAreNotHandedOut` contradicts "a later allocation cannot hand out a
  number that is already taken" (`state/store_mongo.rs`, on `raise_counter`).
* `RevokedStaysRevoked` contradicts "Bumping the account's session generation is
  what actually revokes it, here and on every other device" (`server/login.rs`,
  on `logout`).
* `TokensStopWithCookies` contradicts "bump the account's generation and its
  tokens stop working with its cookies" (`server/guards.rs`, on
  `accept_api_token`): the check of the generation has run by the time the guard
  stamps the session, and the stamp is the generation of that moment.

What the models show not to hold, where the repository promises nothing, is
written into the properties as a named exception: two accounts for one address
after overlapping searches or a failed lookup (`clean`), a subject replaced by
an overlapping first sign-in (`late`), a token revocation overwritten by a mark
of last use (`crossed`) or answered as done although it could not be written
(`spared`), a mark of last use that could not be written, a revoked cookie accepted
again after overlapping or failed logouts and edits (`disturbed`) or once an edit that replaces
the record has started the session generation again from 0 ("reset"), mail
credentials left in the settings by a forget that could not write them and
is answered ok (`leftover`), items that a plugin's database filter withheld and that a
client's filter which does not parse brings back (`lost`), torn or lost files after two writers of one path
(`clashed`), a reseeded database after a failed count (`misread`), an owner
moved by an overlapping edit (`disturbed`), a route declared twice (`Contested`). Where an exception is itself
the hazard (two writers of one path, overlapping registrations, first sign-ins or
marks, a failed count), the property says what holds around it and does not
catch it; `PROJECT.json` says so at the hazard.

## Fairness

`UserCache`: a request task that was begun is run to its end (tokio polls
a woken task again), the database driver answers or reports an error (it has
timeouts), a writer that got its answer goes on to drop the cache, and time
passes, so that an entry expires. New lookups and writes are under no fairness.

`ItemApi`: a request that has begun goes on when it can; a plugin takes the next
message, answers it, and sends a call it has decided on; the core task takes and
serves calls. Nothing makes a plugin end or call, and nobody is assumed to make
room for anybody in particular. `RequestsAreAnswered` then says that the
bounded channels cannot lock each other up, because the core task calls no
hook while it serves a plugin.

`System`: the deadline of a body passes, the plugin answers, and the task of a
request is polled until it has cleaned up. That a client ever sends another
byte is not assumed.

## Proofs

All proofs are for arbitrary constants under the named assumptions of the
modules (`MaxIdAssumption` and so on), which say that bounds are numbers, that
the sentinels are not ordinary values, that old-format files have distinct
names and fit, that the requests of `Sessions` are finitely many, that somebody
has an account, and that the interval between two marks of a token is not zero
(it is 60 seconds).

* `SecretStoreProofs`. The inductive invariant joins the type invariant, the
  index being the inverse of the entries, the file agreeing with memory, and
  two facts that none of these gives: the file on disk, even while the process
  is down, has unique non-empty names and keys that match its items, and its
  counter is past every id ever seen. The first is why a restart cannot be
  refused, the second why ids are not reused across one. The refinement of
  `DurableSecrets` uses the same invariant: a step that writes the file maps to
  one put or remove, all others leave `Parse(disk).entries` as it was, adoption of
  an old-format file included.
* `SecretStoreProofs`, callers. `ApiImplementsStore` maps caller steps to store steps; the two
  properties about who changes what follow from the store's invariant and from what the
  handlers check before they call it. So does `ViewsAreHonest`: what a person is shown
  is an operator of what is theirs (`OwnedBy`), and an entry folded onto itself
  with its value hidden is itself (`HiddenFoldsBack`). All three end where an entry has the id
  u64::MAX, since a request for that id is a request for a new entry.
* `UserCacheProofs`. The invariant adds to the property what a lookup in flight
  carries: what it read is no older than any write that has returned, unless
  the generation it noted is no longer the current one; and a writer that has not yet
  dropped the cache has not returned.
* `MongoItemsProofs`. `AllocationsStayFresh` assumes that the calls to the counter
  do not fail (`CounterIsReachable`), which the `mongo_fallback` run shows to be
  necessary. Its invariant says that, below its end, the counter is at or past
  everything given, everything returned, and the id a request in flight got from
  it. The exception is a collection older than its counter on which no process
  serves yet: the first `connect` has still to raise the counter to what it read. `AckedItemsStay` needs
  no such assumption.
* `AccessProofs`. `FlowsInv`: a flow in the table has established nobody and no
  callback holds it; a callback holds a flow that no other holds and that its
  browser began. Taking a flow out of the table before the first await is what
  makes the step from one to the other. That the table keeps `MAX_FLOWS` needs
  that the flow that makes room was in it.
* `AccessProofs`, records. `SearchInv` says of every search what it may still
  rely on: unless it was overtaken (`UpToDate`), what the store told it is still
  so, and one that may make an account was let in by an open policy (`LetIn`). A
  write makes every other search that has looked late (`OthersAreLate`), so the
  properties are lost only where they allow it. The four kinds of clients of
  `Access` are kept apart by `KindsApart`.
* `AccessProofs`, sign-ins in time. `AwaitedInv` says that a flow in the table is
  as old as its start, so one that `prune` drops is late, and one that makes room
  is the oldest of `MAX_FLOWS`: the others, with the one that came, are the
  `MAX_FLOWS` begun since (`Since`). That stays so as time passes and the table
  changes, which is `LateStaysLate`. `KeysInv` says that the key a token names is
  published while the keys are fetched and in hand when it is checked.
* `AccessProofs`, tokens. `TokensInv` says of each request what it knows at its
  place in the chain of guards (`CallFine`: `SessionFine`, `ActorFine`,
  `PassFine`), as an operator of the tokens, the revocations that were answered
  and the clock. These only grow (`Grows`), and what a request knows survives
  that, so a step has to be looked at for the request that makes it alone. A
  revocation or a mark replaces the whole record, and what it may undo is exactly
  what `crossed` notes. In behaviours about tokens nobody signs in but the two
  accounts there (`Residents`), and the holder of a stolen token never gets a
  session by another way (`Strangers`).
* `SessionsProofs`. "Runs alone" is about the steps of other requests, so the
  proof first turns it into a fact about a state: as long as a kind of request
  was not `disturbed`, one of that kind that is under way is the only one
  (`SoleRuns`). Each property then has an invariant of its own about the record
  and about every copy of it that a request has read and may write back
  (`GenOK`, `GuessOK`, `UsedOK`); `set_item` merges field by field, and that no
  merge goes back is where the exclusion is used.
  `GenOK` also says that no copy about to be written leaves out a generation that
  exists, which a replacing edit does exactly when it notes "reset".
* `LocalStoreProofs`. A path, its `.tmp` sibling and the writers that have it
  open name inodes; `InodesApart` says which of these may be the same, `WriterOK`
  what the writer knows of its inode in each phase, unless its path is in
  `clashed`. From it follow whole files, merges that keep fields, and the absence
  of litter. `Highest` says, unless a write was cut short, that every id a caller
  was told of is within the counter, and that the `cnt` file says the same as the
  counter or a request is on its way to make it.
* `LocalStoreProofs`, lists. `ReaderFine` says that a list by range took its ids in
  ascending order, has read the first `count` of them, and has on its page those
  that are `Due` of these, all of them unless files were torn or cut short: a
  request may replace the file of an id that is still to be read, but none
  takes it away. `ListFine` says that a list by ids asked once for each finds
  none twice. That a set of ids can be put in order at all (`SetsSort`) is
  by the least counterexample on its size.
* `SystemProofs`. The invariant is one part per component, and each part is kept
  by the steps of the others because they leave its variables alone (`StartRests`
  and its companions). `StartInv` adds that an item whose check is under way and
  that no plugin wrote since is still what the seed made it, that nothing is
  edited while a seeding start that read the count right is under way, and that
  every key ever served with is the one in the file. `SettingsInv` adds what each
  caller in flight has read (`TaskOK`): unless it was overtaken, the item is still
  what it read. `UploadInv` (`Recording`) says that every file on disk is one that
  the reader has recorded, in each phase of a body, which is why the cleanup
  finds all of them.
* `SystemProofs`, routes. `RouteInv` says what the document holds of what was read
  of the tables so far, and `DocumentAgrees` compares it with what a request
  finds. That a free operation id exists (`FreeIdIsFree`), that the table is read in
  its order (`TurnByTurn`) and that no id is given twice (`IdsAreApart`) hold for
  tables of any length.
* `ItemApiProofs`. `ItemInv` says of each plugin what lies at it (`PluginFine`) and
  of each request how far it is (`RequestFine`). The heart of it is that a
  question lies at most at one plugin, the one whose turn it is, and once
  (`QuestionFine`, `OnceEach`), and that the record a request carries, the page it
  is on and the refusal it was given are those of the last answer, heard or on its
  way (`HeldNow`, `PageNow`, `VetoFine`). Both are operators of one plugin or
  one request and of what the others may only add to, so `ARequestMoves` and
  `PluginsMove` settle all the others at once. `FiltersAreChecked` is the lemma about
  the filter: it is accepted exactly when it is not in `Forbidden`, for trees of
  any depth and width and any `MAX_DEPTH`.

What a recursive function computes for every input is proved by the least
counterexample (`LeastOf`): a set of numbers that is not empty has
a least member, at which the definition is unfolded once.

Only model-checked: liveness (`EventuallyCoherent`, `RequestsAreAnswered`,
`UploadsAreAnswered`), which is out of the prover's reach. Every other property
of a passing run has its theorem.

## Not modelled

Encryption, hashing, signatures and file permissions. In the modelled
components: the retry loop of `connect` over several collections and the sorting
of `get_items` on MongoDB; the deletion of an account, and the lookup that fails
in the session guard of `Sessions` (it is in `ApiTokens`); the redaction of the
user collection and the calendar entry that follows an edit; the core's own
paths, the schemas and the HTML page of the OpenAPI document. A failing fsync of
the directory after a rename (`util/fs.rs`) is taken as a success, as the code
does. Components marked `not_modelled` in `PROJECT.json` are data
(`public_read.rs`, features, BSON conversion, arguments, responses), an external
process (`notif/gcal.rs`) or a test double (`store_memory.rs`).

Known hazards without a property, besides those `PROJECT.json` lists: a plugin's
REST route that opens a session without a generation (`handler/route.rs`), a
plugin's own filter that does not parse and takes the others with it
(`store_mongo.rs`), the file store, which ignores filters and sort keys
(`store_local.rs:180-210`), a route spec that panics `run()` although the
document speaks of such entries as skipped (`openapi.rs:104-105`), and a `flow.url` left over from an earlier attempt
(`notif/gcal.rs`).

## Plan

1. Done: all modules above, their runs, and the proofs listed.
2. Deletion of accounts in `Sessions` and `Access`; several collections in
   `MongoItems`, with the retries of `connect`.
