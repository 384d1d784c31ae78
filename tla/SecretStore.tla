----------------------------- MODULE SecretStore -----------------------------
(***************************************************************************)
(* The encrypted secret store of state/secrets.rs: a map from numeric ids  *)
(* to items, an index from names to ids, an id counter, and one encrypted  *)
(* file that is replaced atomically on every change.                       *)
(*                                                                         *)
(* Every operation runs under the one mutex `Data::secrets`, so an         *)
(* operation is one action.  What is left to interleave is failure: a      *)
(* write of the file can fail (nothing changed, Err returned) and the      *)
(* process can die at any point, in particular after the new file was      *)
(* published and before the in-memory maps were updated.                   *)
(*                                                                         *)
(* An item is abstracted to its id, its name, one masked field (`val`,     *)
(* standing for every strs key that is_secret_key hides) and its owner.    *)
(***************************************************************************)
EXTENDS Integers, Sequences

CONSTANTS
    MaxId,        \* u64::MAX: the largest id, and the request for a new one
    Names,        \* names an entry may have (never the empty string)
    Values,       \* values of a masked field
    Owners,       \* account ids that may own an entry
    LegacyNames,  \* the bare names adopted at start-up, in order
    GlobalName,   \* the reserved form of each of them (global_name)
    LegacyFiles,  \* pre-envelope files the program may be started on
    Empty,        \* the empty name
    Absent,       \* a field that an item does not have
    Hidden,       \* the placeholder "<hidden>"
    NoOwner       \* an item without ids.owner

ASSUME MaxIdAssumption == MaxId \in Nat \ {0}

ASSUME SentinelAssumption ==
    /\ Empty \notin Names /\ Absent \notin Names /\ Empty # Absent
    /\ Hidden \notin Values /\ Absent \notin Values /\ Hidden # Absent
    /\ NoOwner \notin Owners

ASSUME LegacyAssumption ==
    /\ LegacyNames \in Seq(Names)
    /\ GlobalName \in [Names -> Names]

Ids == 0 .. MaxId

StoredItem == [id : Ids, name : Names \cup {Empty},
               val : Values \cup {Absent}, owner : Owners \cup {NoOwner}]

\* What a caller may hand to `set`: fields may be missing, the masked field
\* may hold the placeholder it was shown in place of the value.
SentItem == [id : Ids, name : Names \cup {Empty, Absent},
             val : Values \cup {Absent, Hidden}, owner : Owners \cup {NoOwner}]

(* A pre-envelope file maps names to items; it is represented by its       *)
(* entries in the order of their sorted keys, which is the order they are  *)
(* migrated in.                                                            *)
ASSUME LegacyFileAssumption ==
    \A file \in LegacyFiles :
        /\ file \in Seq([name : Names, val : Values \cup {Absent}])
        /\ Len(file) <= MaxId
        /\ \A i, j \in 1 .. Len(file) : file[i].name = file[j].name => i = j

VARIABLES
    disk,        \* the file: [format, entries, next_id]
    phase,       \* "down", "adopting", "up", or "refused" (open failed)
    adopting,    \* position in LegacyNames while phase = "adopting"
    entries,     \* SecretStore.entries
    name_index,  \* SecretStore.name_index
    next_id,     \* SecretStore.next_id
    seen         \* history: every id any entry has ever had

vars == <<disk, phase, adopting, entries, name_index, next_id, seen>>

EmptyMap == [x \in {} |-> x]

Restrict(f, S) == [x \in S |-> f[x]]

Put(f, k, v) == [x \in DOMAIN f \cup {k} |-> IF x = k THEN v ELSE f[x]]

Without(f, k) == Restrict(f, DOMAIN f \ {k})

Larger(a, b) == IF a >= b THEN a ELSE b

\* u64::saturating_add(1)
SaturatingSucc(i) == IF i = MaxId THEN MaxId ELSE i + 1

-----------------------------------------------------------------------------
(* Reading the file back: decrypt_and_parse.                               *)

\* The largest key of an envelope, 0 when it has none.
MaxKey(e) == CHOOSE m \in Ids :
                 /\ m \in DOMAIN e \cup {0}
                 /\ \A i \in DOMAIN e : i <= m

\* Mutant: the stored counter is ignored.
ParseRecounts(d) ==
    [entries |-> [i \in DOMAIN d.entries |-> [d.entries[i] EXCEPT !.id = i]],
     next_id |-> SaturatingSucc(MaxKey(d.entries))]

ParseEnvelope(d) ==
    [entries |-> [i \in DOMAIN d.entries |-> [d.entries[i] EXCEPT !.id = i]],
     next_id |-> Larger(d.next_id, SaturatingSucc(MaxKey(d.entries)))]

ParseLegacy(file) ==
    [entries |-> [i \in 0 .. Len(file) - 1 |->
                     [id |-> i, name |-> file[i + 1].name,
                      val |-> file[i + 1].val, owner |-> NoOwner]],
     next_id |-> Len(file)]

NothingStored == [entries |-> EmptyMap, next_id |-> 0]

Parse(d) == CASE d.format = "none"     -> NothingStored
              [] d.format = "envelope" -> ParseEnvelope(d)
              [] d.format = "legacy"   -> ParseLegacy(d.entries)

Named(e) == {i \in DOMAIN e : e[i].name # Empty}

\* build_name_index fails on the second entry with a name it already met.
HasDuplicateName(e) == \E i, j \in Named(e) : i # j /\ e[i].name = e[j].name

build_name_index(e) ==
    [n \in {e[i].name : i \in Named(e)} |->
        CHOOSE i \in Named(e) : e[i].name = n]

-----------------------------------------------------------------------------
(* SecretStore::set, up to the write.                                      *)

get_by_name(n) == entries[name_index[n]]

target_id(item) == IF item.id = MaxId THEN next_id ELSE item.id

\* Item::merge: a field the incoming item has replaces the one below it.
MergeItem(base, item) ==
    [base EXCEPT !.name  = IF item.name = Absent THEN @ ELSE item.name,
                 !.val   = IF item.val = Absent THEN @ ELSE item.val,
                 !.owner = IF item.owner = NoOwner THEN @ ELSE item.owner]

\* Mutant: a hidden field is dropped, as if nothing were stored.
RestoreNothing(item, t) ==
    IF item.val = Hidden THEN [item EXCEPT !.val = Absent] ELSE item

\* The hidden placeholder is replaced by the value of the existing entry,
\* or the field is dropped when there is none.
RestoreHidden(item, t) ==
    IF item.val # Hidden THEN item
    ELSE [item EXCEPT !.val = IF t \in DOMAIN entries THEN entries[t].val
                              ELSE Absent]

final_item(item, merge) ==
    LET t      == target_id(item)
        folded == IF merge /\ t \in DOMAIN entries
                  THEN MergeItem(entries[t], item) ELSE item
    IN  [RestoreHidden(folded, t) EXCEPT !.id = t]

\* Mutant: a name counts as taken only when a new entry asks for it.
RefusedWhenNew(item, merge) ==
    LET n == final_item(item, merge).name
    IN  \/ n \in {Empty, Absent}
        \/ n \in DOMAIN name_index /\ target_id(item) \notin DOMAIN entries

SetIsRefused(item, merge) ==
    LET n == final_item(item, merge).name
    IN  \/ n \in {Empty, Absent}
        \/ n \in DOMAIN name_index /\ name_index[n] # target_id(item)

SetEntries(item, merge) ==
    Put(entries, target_id(item), final_item(item, merge))

SetNextId(item) == Larger(next_id, SaturatingSucc(target_id(item)))

\* Mutant: the previous name is not freed.
SetIndexKeepsOld(item, merge) ==
    Put(name_index, final_item(item, merge).name, target_id(item))

\* The previous name is freed when this entry held it, the new one is taken.
SetIndex(item, merge) ==
    LET t     == target_id(item)
        n     == final_item(item, merge).name
        freed == IF /\ t \in DOMAIN entries
                    /\ entries[t].name # n
                    /\ entries[t].name \in DOMAIN name_index
                    /\ name_index[entries[t].name] = t
                 THEN Without(name_index, entries[t].name)
                 ELSE name_index
    IN  Put(freed, n, t)

-----------------------------------------------------------------------------
(* flush_state writes the envelope to a sibling and renames it.            *)

Envelope(e, n) == [format |-> "envelope", entries |-> e, next_id |-> n]

\* The process is gone; only the file is left.
Die == /\ phase' = "down"
       /\ adopting' = 1
       /\ entries' = EmptyMap
       /\ name_index' = EmptyMap
       /\ next_id' = 0

\* The file is published and then the in-memory state follows it.
Commit(e, idx, n) ==
    /\ disk' = Envelope(e, n)
    /\ entries' = e
    /\ name_index' = idx
    /\ next_id' = n
    /\ seen' = seen \cup DOMAIN e

\* Mutant: the file is truncated first, and the process dies in between.
DieTruncated(e, n) ==
    /\ disk' = Envelope(EmptyMap, n)
    /\ seen' = seen \cup DOMAIN e
    /\ Die

\* The file is published and the process dies before anything else.
CommitThenDie(e, n) ==
    /\ disk' = Envelope(e, n)
    /\ seen' = seen \cup DOMAIN e
    /\ Die

Refused == UNCHANGED vars

SetOk(item, merge) ==
    /\ ~SetIsRefused(item, merge)
    /\ Commit(SetEntries(item, merge), SetIndex(item, merge), SetNextId(item))

SetDies(item, merge) ==
    /\ ~SetIsRefused(item, merge)
    /\ CommitThenDie(SetEntries(item, merge), SetNextId(item))

\* `set` called by a request handler: refused on the name or by the file
\* system (nothing changes), done, or done and cut short.
Set(item, merge) ==
    /\ phase = "up"
    /\ \/ Refused
       \/ SetOk(item, merge) /\ UNCHANGED <<phase, adopting>>
       \/ SetDies(item, merge)

DelIndex(id) ==
    LET n == entries[id].name
    IN  IF n \in DOMAIN name_index /\ name_index[n] = id
        THEN Without(name_index, n) ELSE name_index

\* Mutant: the counter falls back to what is left.
DelOkRecounts(id) ==
    /\ id \in DOMAIN entries
    /\ LET e == Without(entries, id)
       IN  Commit(e, DelIndex(id), SaturatingSucc(MaxKey(e)))

DelOk(id) ==
    /\ id \in DOMAIN entries
    /\ Commit(Without(entries, id), DelIndex(id), next_id)

DelDies(id) ==
    /\ id \in DOMAIN entries
    /\ CommitThenDie(Without(entries, id), next_id)

\* `del`: nothing happens when there is no such entry or the write fails.
Del(id) ==
    /\ phase = "up"
    /\ \/ Refused
       \/ DelOk(id) /\ UNCHANGED <<phase, adopting>>
       \/ DelDies(id)

-----------------------------------------------------------------------------
(* Start-up: open, then adopt_global_names, then the store is shared.      *)

open ==
    /\ phase = "down"
    /\ LET p == Parse(disk) IN
       IF HasDuplicateName(p.entries)
       THEN /\ phase' = "refused"
            /\ UNCHANGED <<disk, adopting, entries, name_index, next_id, seen>>
       ELSE /\ phase' = "adopting"
            /\ adopting' = 1
            /\ entries' = p.entries
            /\ name_index' = build_name_index(p.entries)
            /\ next_id' = p.next_id
            /\ seen' = seen \cup DOMAIN p.entries
            /\ UNCHANGED disk

\* Mutant: the adopted entry becomes the system's.
RenamedUnowned(n) == [get_by_name(n) EXCEPT !.name = GlobalName[n], !.owner = NoOwner]

\* The entry under the bare name, renamed; the write keeps its id.
Renamed(n) == [get_by_name(n) EXCEPT !.name = GlobalName[n]]

AdoptDone == /\ phase' = "up"
             /\ UNCHANGED <<disk, adopting, entries, name_index, next_id, seen>>

\* One round of the loop over the legacy names.
AdoptSkip ==
    /\ phase = "adopting" /\ adopting <= Len(LegacyNames)
    /\ LET n == LegacyNames[adopting]
       IN  GlobalName[n] \in DOMAIN name_index \/ n \notin DOMAIN name_index
    /\ adopting' = adopting + 1
    /\ UNCHANGED <<disk, phase, entries, name_index, next_id, seen>>

AdoptMove ==
    /\ phase = "adopting" /\ adopting <= Len(LegacyNames)
    /\ LET n == LegacyNames[adopting]
       IN  /\ GlobalName[n] \notin DOMAIN name_index
           /\ n \in DOMAIN name_index
           /\ \/ /\ SetOk(Renamed(n), FALSE)
                 /\ adopting' = adopting + 1
                 /\ UNCHANGED phase
              \/ SetDies(Renamed(n), FALSE)
              \/ AdoptDone       \* `set` failed: logged, start-up goes on

AdoptFinish ==
    /\ phase = "adopting" /\ adopting > Len(LegacyNames)
    /\ AdoptDone

Crash == /\ phase \in {"adopting", "up"}
         /\ Die
         /\ UNCHANGED <<disk, seen>>

Init ==
    /\ disk \in {[format |-> "none", entries |-> EmptyMap, next_id |-> 0]}
                \cup {[format |-> "legacy", entries |-> file, next_id |-> 0] :
                          file \in LegacyFiles}
    /\ phase = "down"
    /\ adopting = 1
    /\ entries = EmptyMap
    /\ name_index = EmptyMap
    /\ next_id = 0
    /\ seen = {}

Next == \/ open
        \/ AdoptSkip \/ AdoptMove \/ AdoptFinish
        \/ \E item \in SentItem, merge \in BOOLEAN : Set(item, merge)
        \/ \E id \in Ids : Del(id)
        \/ Crash

Spec == Init /\ [][Next]_vars

-----------------------------------------------------------------------------
(* Properties.                                                             *)

Running == phase \in {"adopting", "up"}

\* Every variable has its type.  In particular no stored value is ever the
\* placeholder a client was shown instead of it, whatever sequence of merges
\* and replacements led there (the restore loop of `set`).
TypeOK ==
    /\ phase \in {"down", "adopting", "up", "refused"}
    /\ adopting \in 1 .. Len(LegacyNames) + 1
    /\ DOMAIN entries \subseteq Ids
    /\ entries \in [DOMAIN entries -> StoredItem]
    /\ DOMAIN name_index \subseteq Names
    /\ name_index \in [DOMAIN name_index -> Ids]
    /\ next_id \in Ids
    /\ seen \subseteq Ids
    /\ \/ disk = [format |-> "none", entries |-> EmptyMap, next_id |-> 0]
       \/ \E file \in LegacyFiles :
             disk = [format |-> "legacy", entries |-> file, next_id |-> 0]
       \/ /\ disk = Envelope(disk.entries, disk.next_id)
          /\ DOMAIN disk.entries \subseteq Ids
          /\ disk.entries \in [DOMAIN disk.entries -> StoredItem]
          /\ disk.next_id \in Ids

\* The name index is the inverse of the entries: it finds every entry by its
\* name, finds nothing else, and `entries[id].id == id`, as the comment on
\* `set` promises.  A rename that frees the wrong name, or a delete that
\* leaves one behind, breaks this some operations later.
IndexMatchesEntries ==
    Running =>
        /\ \A i \in DOMAIN entries :
              /\ entries[i].id = i
              /\ entries[i].name \in DOMAIN name_index
              /\ name_index[entries[i].name] = i
        /\ \A n \in DOMAIN name_index :
              /\ name_index[n] \in DOMAIN entries
              /\ entries[name_index[n]].name = n

\* A restart at any moment loses nothing and invents nothing: what `open`
\* would read from the file now is what the running store holds, the id
\* counter included.
MemoryMatchesFile ==
    Running => Parse(disk) = [entries |-> entries, next_id |-> next_id]

\* The store never writes a file that it refuses to open: build_name_index
\* finds no duplicate name, wherever the process was cut short.
AlwaysReopens == phase # "refused"

\* An id that any entry ever had is below the counter, also after that entry
\* was deleted and the process restarted, so a request for a new id never
\* gets one that a client may still hold for something else.  The counter
\* saturates at u64::MAX, where this ends.
NewIdsAreFresh ==
    Running /\ next_id < MaxId => \A i \in seen : i < next_id

\* adopt_global_names renames and does nothing else: no entry disappears or
\* appears, no value or owner changes, and no name that was already in the
\* reserved space is taken over.
AdoptionOnlyRenames ==
    [][phase = "adopting" /\ phase' # "down" =>
         /\ DOMAIN entries' = DOMAIN entries
         /\ \A i \in DOMAIN entries :
               /\ entries'[i].val = entries[i].val
               /\ entries'[i].owner = entries[i].owner
               /\ entries'[i].name # entries[i].name =>
                     /\ entries'[i].name = GlobalName[entries[i].name]
                     /\ entries'[i].name \notin DOMAIN name_index]_vars

\* What the file holds, as a map from ids to items.
Durable == Parse(disk).entries

Promise == INSTANCE DurableSecrets WITH secrets <- Durable

\* Whatever fails and wherever it is cut short, the file moves only by whole
\* puts and removes that keep names unique.
ImplementsDurableSecrets == Promise!Spec
==============================================================================
