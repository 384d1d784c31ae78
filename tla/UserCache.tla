------------------------------ MODULE UserCache ------------------------------
(***************************************************************************)
(* The user-record cache of state/store_mongo.rs.  A session's principal   *)
(* (a login or an email) is looked up on every request; a found record is  *)
(* kept for a short time and the whole cache is dropped after each write   *)
(* to the `user` collection.  A lookup reads a generation before it asks   *)
(* the database, and installs what it got only if the generation has not   *)
(* moved since.                                                            *)
(*                                                                         *)
(* The database (external) holds a record per principal, abstracted to the *)
(* number of the write that produced it and whether it exists.  Each       *)
(* await is a boundary between actions; what happens under the cache's     *)
(* lock is one action.                                                     *)
(***************************************************************************)
EXTENDS Naturals

CONSTANTS
    Principals,  \* what sessions hold
    Lookups,     \* concurrent calls of find_user_cached
    Writers,     \* concurrent calls of set_item or del_item on `user`
    MaxWrites    \* bound on the number of writes

ASSUME UserCacheAssumption == MaxWrites \in Nat

VARIABLES
    db,      \* the stored record of each principal
    cache,   \* user_cache: the cached records that have not expired
    gen,     \* user_cache_gen
    lookup,  \* the state of each lookup
    writer,  \* the state of each write
    writes,  \* number of writes begun so far
    acked    \* history: newest write of each principal that has returned

vars == <<db, cache, gen, lookup, writer, writes, acked>>

Record == [write : Nat, exists : BOOLEAN]

NoRecord == [write |-> 0, exists |-> FALSE]

Without(f, k) == [x \in DOMAIN f \ {k} |-> f[x]]

Put(f, k, v) == [x \in DOMAIN f \cup {k} |-> IF x = k THEN v ELSE f[x]]

Larger(a, b) == IF a >= b THEN a ELSE b

-----------------------------------------------------------------------------
(* find_user_cached.                                                       *)

\* Under the lock: a fresh entry answers the lookup, otherwise the
\* generation is noted and the lock released before the database is asked.
Hit(l, p) ==
    /\ lookup[l].pc \in {"idle", "done"}
    /\ p \in DOMAIN cache
    /\ lookup' = [lookup EXCEPT ![l] =
          [pc |-> "done", key |-> p, gen |-> gen, rec |-> cache[p], floor |-> acked[p]]]
    /\ UNCHANGED <<db, cache, gen, writer, writes, acked>>

Miss(l, p) ==
    /\ lookup[l].pc \in {"idle", "done"}
    /\ p \notin DOMAIN cache
    /\ lookup' = [lookup EXCEPT ![l] =
          [pc |-> "asking", key |-> p, gen |-> gen, rec |-> NoRecord, floor |-> acked[p]]]
    /\ UNCHANGED <<db, cache, gen, writer, writes, acked>>

\* find_one_checked: the database answers, or the lookup is Unavailable.
Answer(l) ==
    /\ lookup[l].pc = "asking"
    /\ lookup' = [lookup EXCEPT ![l].pc = "answered",
                                ![l].rec = db[lookup[l].key]]
    /\ UNCHANGED <<db, cache, gen, writer, writes, acked>>

Unavailable(l) ==
    /\ lookup[l].pc = "asking"
    /\ lookup' = [lookup EXCEPT ![l].pc = "idle"]
    /\ UNCHANGED <<db, cache, gen, writer, writes, acked>>

\* Only a record that exists is cached, and only if no write was seen since
\* the lookup began.
MayInstall(l) == lookup[l].rec.exists /\ lookup[l].gen = gen

Install(l) ==
    /\ lookup[l].pc = "answered"
    /\ cache' = IF MayInstall(l) THEN Put(cache, lookup[l].key, lookup[l].rec)
                ELSE cache
    /\ lookup' = [lookup EXCEPT ![l].pc = "done"]
    /\ UNCHANGED <<db, gen, writer, writes, acked>>

\* Mutant: an entry of a principal that is being looked up is kept alive.
ExpireUnlessUsed(p) ==
    /\ p \in DOMAIN cache
    /\ \A l \in Lookups : lookup[l].pc = "idle" \/ lookup[l].key # p
    /\ cache' = Without(cache, p)
    /\ UNCHANGED <<db, gen, lookup, writer, writes, acked>>

\* USER_CACHE_TTL runs out for an entry; it answers no lookup any more.
Expire(p) ==
    /\ p \in DOMAIN cache
    /\ cache' = Without(cache, p)
    /\ UNCHANGED <<db, gen, lookup, writer, writes, acked>>

-----------------------------------------------------------------------------
(* set_item and del_item on the `user` collection.                         *)

\* The database has taken the write; the cache has not been dropped yet.
Commit(w, p, exists) ==
    /\ writer[w].pc = "idle"
    /\ writes < MaxWrites
    /\ writes' = writes + 1
    /\ db' = [db EXCEPT ![p] = [write |-> writes', exists |-> exists]]
    /\ writer' = [writer EXCEPT ![w] = [pc |-> "written", key |-> p, write |-> writes']]
    /\ UNCHANGED <<cache, gen, lookup, acked>>

\* set_item got an error from the database, which may have taken the write
\* all the same: it returns u64::MAX and does not drop the cache.
CommitUnknown(w, p) ==
    /\ writer[w].pc = "idle"
    /\ writes < MaxWrites
    /\ writes' = writes + 1
    /\ db' = [db EXCEPT ![p] = [write |-> writes', exists |-> TRUE]]
    /\ UNCHANGED <<cache, gen, lookup, writer, acked>>

\* del_item ignores a failed delete and drops the cache anyway.
DeleteFails(w, p) ==
    /\ writer[w].pc = "idle"
    /\ writes < MaxWrites
    /\ writes' = writes + 1
    /\ writer' = [writer EXCEPT ![w] = [pc |-> "written", key |-> p, write |-> 0]]
    /\ UNCHANGED <<db, cache, gen, lookup, acked>>

\* Mutant: the generation moves on and the entries stay.
InvalidateKeepsEntries(w) ==
    /\ writer[w].pc = "written"
    /\ gen' = gen + 1
    /\ writer' = [writer EXCEPT ![w].pc = "idle"]
    /\ acked' = [acked EXCEPT ![writer[w].key] = Larger(@, writer[w].write)]
    /\ UNCHANGED <<db, cache, lookup, writes>>

\* Under the lock: the generation moves on and the cache is emptied.  The
\* call returns to its caller.
invalidate_user_cache(w) ==
    /\ writer[w].pc = "written"
    /\ gen' = gen + 1
    /\ cache' = [p \in {} |-> NoRecord]
    /\ writer' = [writer EXCEPT ![w].pc = "idle"]
    /\ acked' = [acked EXCEPT ![writer[w].key] = Larger(@, writer[w].write)]
    /\ UNCHANGED <<db, lookup, writes>>

-----------------------------------------------------------------------------
Init ==
    /\ db \in [Principals -> [write : {0}, exists : BOOLEAN]]
    /\ cache = [p \in {} |-> NoRecord]
    /\ gen = 0
    /\ \E p \in Principals :
         /\ lookup = [l \in Lookups |-> [pc |-> "idle", key |-> p, gen |-> 0,
                                         rec |-> NoRecord, floor |-> 0]]
         /\ writer = [w \in Writers |-> [pc |-> "idle", key |-> p, write |-> 0]]
    /\ writes = 0
    /\ acked = [p \in Principals |-> 0]

LookupStep(l) == Answer(l) \/ Unavailable(l) \/ Install(l)

Next ==
    \/ \E l \in Lookups, p \in Principals : Hit(l, p) \/ Miss(l, p)
    \/ \E l \in Lookups : LookupStep(l)
    \/ \E p \in Principals : Expire(p)
    \/ \E w \in Writers, p \in Principals :
          \/ \E exists \in BOOLEAN : Commit(w, p, exists)
          \/ CommitUnknown(w, p)
          \/ DeleteFails(w, p)
    \/ \E w \in Writers : invalidate_user_cache(w)

Spec == Init /\ [][Next]_vars

\* A request task that was started is run to its end and the database driver
\* answers or gives up; the clock that expires entries keeps going.
Fairness ==
    /\ \A l \in Lookups : WF_vars(LookupStep(l))
    /\ \A w \in Writers : WF_vars(invalidate_user_cache(w))
    /\ \A p \in Principals : WF_vars(Expire(p))

FairSpec == Spec /\ Fairness

-----------------------------------------------------------------------------
(* Properties.                                                             *)

\* Every variable has its type: in particular the cache holds records of known
\* principals only, and a lookup carries the generation it began under.
TypeOK ==
    /\ writes \in 0 .. MaxWrites
    /\ gen \in Nat
    /\ db \in [Principals -> Record]
    /\ DOMAIN cache \subseteq Principals
    /\ cache \in [DOMAIN cache -> Record]
    /\ lookup \in [Lookups -> [pc : {"idle", "asking", "answered", "done"},
                               key : Principals, gen : Nat, rec : Record, floor : Nat]]
    /\ writer \in [Writers -> [pc : {"idle", "written"}, key : Principals,
                               write : Nat]]
    /\ acked \in [Principals -> Nat]

\* Once a write to a user record has returned, the cache never again holds
\* the record as it was before it, although a lookup may have read the old
\* record before the write and finish after the cache was dropped.  This is
\* what makes a withdrawn role take effect at once.
CacheNeverOlderThanAcked ==
    \A p \in DOMAIN cache : cache[p].write >= acked[p]

\* A lookup that begins after a write has returned is answered with that
\* write or a later one, from the cache or from the database.
LookupsSeeAckedWrites ==
    \A l \in Lookups :
        lookup[l].pc = "done" => lookup[l].rec.write >= lookup[l].floor

\* Once writing stops, the cache agrees with the database for good, even if
\* a write was taken by the database but reported as failed and so dropped
\* nothing: such an entry lives until it expires.
EventuallyCoherent ==
    <>[](\A p \in DOMAIN cache : cache[p] = db[p])
==============================================================================
