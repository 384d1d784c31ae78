-------------------------- MODULE SecretStoreProofs --------------------------
(***************************************************************************)
(* Proofs about SecretStore, for every number of ids, every set of names   *)
(* and every list of adopted names, and about its callers in SecretApi.    *)
(*                                                                         *)
(* The file and the memory are described by two predicates: Consistent     *)
(* (what a map of entries and a counter must satisfy) and IndexOf (the     *)
(* index is the inverse of the entries).  The inductive invariant says     *)
(* that what `open` would read is Consistent, at all times, and that a     *)
(* running store holds exactly that, with its index.                       *)
(*                                                                         *)
(* The callers use the store within its specification, so its theorems     *)
(* hold under them; and they keep to their own entries.                    *)
(***************************************************************************)
EXTENDS SecretApi, WellFoundedInduction, TLAPS

Consistent(e, n) ==
    /\ DOMAIN e \subseteq Ids
    /\ e \in [DOMAIN e -> StoredItem]
    /\ n \in Ids
    /\ \A i \in DOMAIN e : /\ e[i].id = i
                           /\ e[i].name # Empty
                           /\ SaturatingSucc(i) <= n
    /\ \A i, j \in DOMAIN e : e[i].name = e[j].name => i = j

IndexOf(idx, e) ==
    /\ DOMAIN idx \subseteq Names
    /\ idx \in [DOMAIN idx -> Ids]
    /\ \A i \in DOMAIN e : /\ e[i].name \in DOMAIN idx
                           /\ idx[e[i].name] = i
    /\ \A n \in DOMAIN idx : /\ idx[n] \in DOMAIN e
                             /\ e[idx[n]].name = n

NoFile == [format |-> "none", entries |-> EmptyMap, next_id |-> 0]

LegacyFile(file) == [format |-> "legacy", entries |-> file, next_id |-> 0]

FileOK == \/ disk = NoFile
          \/ \E file \in LegacyFiles : disk = LegacyFile(file)
          \/ \E e, n : /\ disk = Envelope(e, n)
                       /\ Consistent(e, n)
                       /\ 1 <= n

Fresh(n) == n < MaxId => \A i \in seen : i < n

IInv ==
    /\ phase \in {"down", "adopting", "up"}
    /\ adopting \in 1 .. Len(LegacyNames) + 1
    /\ FileOK
    /\ seen \subseteq Ids
    /\ Fresh(Parse(disk).next_id)
    /\ Running => /\ Parse(disk) = [entries |-> entries, next_id |-> next_id]
                  /\ Consistent(entries, next_id)
                  /\ IndexOf(name_index, entries)
    /\ ~Running => /\ entries = EmptyMap
                   /\ name_index = EmptyMap
                   /\ next_id = 0

-----------------------------------------------------------------------------
(* Reading back what was written.                                          *)

\* A bounded set of naturals has a largest element, so MaxKey is one.
LEMMA MaxKeyIsLargest ==
    ASSUME NEW e, DOMAIN e \subseteq Ids
    PROVE  /\ MaxKey(e) \in DOMAIN e \cup {0}
           /\ \A i \in DOMAIN e : i <= MaxKey(e)
<1> DEFINE S == DOMAIN e \cup {0}
           T == {k \in 0 .. MaxId : MaxId - k \in S}
           R == OpToRel(<, Nat)
<1>1. T \subseteq Nat /\ T # {}
  <2>1. MaxId \in T
    BY MaxIdAssumption
  <2> QED BY <2>1
<1>2. PICK k \in T : \A y \in T : ~(<<y, k>> \in R)
  <2> HIDE DEF T, R
  <2>1. IsWellFoundedOn(R, Nat)
    BY NatLessThanWellFounded DEF R
  <2> QED BY <1>1, <2>1, WFMin
<1>3. \A y \in T : ~(y < k)
  BY <1>2, <1>1 DEF OpToRel
<1> DEFINE m == MaxId - k
<1>4. m \in Ids /\ m \in S
  BY MaxIdAssumption DEF Ids
<1>5. \A i \in DOMAIN e : i <= m
  <2> SUFFICES ASSUME NEW i \in DOMAIN e PROVE i <= m
    OBVIOUS
  <2>1. i \in 0 .. MaxId
    BY DEF Ids
  <2>2. MaxId - i \in T
    BY <2>1, MaxIdAssumption
  <2>3. ~(MaxId - i < k)
    BY <2>2, <1>3
  <2> QED BY <2>1, <2>3, MaxIdAssumption
<1> HIDE DEF m
<1>6. \E q \in Ids : q \in DOMAIN e \cup {0} /\ \A i \in DOMAIN e : i <= q
  BY <1>4, <1>5
<1> QED BY <1>6 DEF MaxKey

\* An envelope the store writes reads back as what was written.
LEMMA ParseOfEnvelope ==
    ASSUME NEW e, NEW n, Consistent(e, n), 1 <= n
    PROVE  Parse(Envelope(e, n)) = [entries |-> e, next_id |-> n]
<1>1. [i \in DOMAIN e |-> [e[i] EXCEPT !.id = i]] = e
  BY DEF Consistent, StoredItem
<1>2. SaturatingSucc(MaxKey(e)) <= n
  BY MaxKeyIsLargest, MaxIdAssumption DEF Consistent, SaturatingSucc, Ids
<1>3. Larger(n, SaturatingSucc(MaxKey(e))) = n
  BY <1>2 DEF Larger
<1> QED BY <1>1, <1>3 DEF Parse, ParseEnvelope, Envelope

\* A pre-envelope file reads as a consistent store that numbers its entries
\* from zero.
LEMMA ParseOfLegacy ==
    ASSUME NEW file \in LegacyFiles
    PROVE  /\ Parse(LegacyFile(file)) = ParseLegacy(file)
           /\ Consistent(ParseLegacy(file).entries, ParseLegacy(file).next_id)
<1>1. Parse(LegacyFile(file)) = ParseLegacy(file)
  BY DEF Parse, LegacyFile
<1> DEFINE e == ParseLegacy(file).entries
           n == ParseLegacy(file).next_id
<1>2. /\ Len(file) \in Nat /\ Len(file) <= MaxId
      /\ \A i \in 1 .. Len(file) : file[i] \in [name : Names, val : Values \cup {Absent}]
      /\ \A i, j \in 1 .. Len(file) : file[i].name = file[j].name => i = j
  <2> DEFINE Rec == [name : Names, val : Values \cup {Absent}]
  <2>1. /\ file \in Seq(Rec) /\ Len(file) <= MaxId
        /\ \A i, j \in 1 .. Len(file) : file[i].name = file[j].name => i = j
    BY LegacyFileAssumption, Zenon
  <2> HIDE DEF Rec
  <2>2. Len(file) \in Nat /\ \A i \in 1 .. Len(file) : file[i] \in Rec
    BY <2>1
  <2> QED BY <2>1, <2>2 DEF Rec
<1>3. /\ DOMAIN e = 0 .. Len(file) - 1
      /\ n = Len(file)
      /\ \A i \in DOMAIN e : e[i] = [id |-> i, name |-> file[i + 1].name,
                                     val |-> file[i + 1].val, owner |-> NoOwner]
  BY DEF ParseLegacy
<1> HIDE DEF e, n
<1>4. DOMAIN e \subseteq Ids /\ n \in Ids
  BY <1>2, <1>3, MaxIdAssumption DEF Ids
<1>5. \A i \in DOMAIN e : e[i] \in StoredItem
  BY <1>2, <1>3, <1>4 DEF StoredItem
<1>6. e \in [DOMAIN e -> StoredItem]
  BY <1>5 DEF e, ParseLegacy
<1>7. \A i \in DOMAIN e : e[i].id = i /\ e[i].name # Empty /\ SaturatingSucc(i) <= n
  BY <1>2, <1>3, SentinelAssumption, MaxIdAssumption DEF SaturatingSucc
<1>8. ASSUME NEW i \in DOMAIN e, NEW j \in DOMAIN e, e[i].name = e[j].name
      PROVE  i = j
  BY <1>2, <1>3, <1>8
<1> QED BY <1>1, <1>4, <1>6, <1>7, <1>8 DEF Consistent, e, n

\* Whatever the file is, it reads as a consistent store.
LEMMA FileIsConsistent ==
    ASSUME FileOK
    PROVE  /\ Parse(disk) = [entries |-> Parse(disk).entries,
                             next_id |-> Parse(disk).next_id]
           /\ Consistent(Parse(disk).entries, Parse(disk).next_id)
<1>1. CASE disk = NoFile
  <2>1. Parse(disk) = NothingStored
    BY <1>1 DEF NoFile, Parse
  <2>2. Consistent(EmptyMap, 0)
    BY MaxIdAssumption DEF Consistent, EmptyMap, Ids
  <2> QED BY <2>1, <2>2 DEF NothingStored
<1>2. CASE \E file \in LegacyFiles : disk = LegacyFile(file)
  BY <1>2, ParseOfLegacy DEF ParseLegacy
<1>3. CASE \E e, n : disk = Envelope(e, n) /\ Consistent(e, n) /\ 1 <= n
  BY <1>3, ParseOfEnvelope
<1> QED BY <1>1, <1>2, <1>3 DEF FileOK

\* build_name_index of a consistent map is its inverse, and never fails.
LEMMA IndexIsBuilt ==
    ASSUME NEW e, NEW n, Consistent(e, n)
    PROVE  /\ ~HasDuplicateName(e)
           /\ IndexOf(build_name_index(e), e)
<1>1. Named(e) = DOMAIN e
  BY DEF Named, Consistent
<1>2. ~HasDuplicateName(e)
  BY <1>1 DEF HasDuplicateName, Consistent
<1> DEFINE idx == build_name_index(e)
<1>3. DOMAIN idx = {e[i].name : i \in DOMAIN e}
  BY <1>1 DEF build_name_index
<1>4. \A i \in DOMAIN e : idx[e[i].name] = i
  BY <1>1 DEF build_name_index, Consistent
<1>5. \A m \in DOMAIN idx : idx[m] \in DOMAIN e /\ e[idx[m]].name = m
  BY <1>3, <1>4
<1>6. DOMAIN idx \subseteq Names
  BY <1>3 DEF Consistent, StoredItem
<1>7. idx = [m \in DOMAIN idx |-> idx[m]]
  BY DEF build_name_index
<1>8. idx \in [DOMAIN idx -> Ids]
  <2> HIDE DEF idx
  <2>1. \A m \in DOMAIN idx : idx[m] \in Ids
    BY <1>5 DEF Consistent
  <2> QED BY <2>1, <1>7
<1> HIDE DEF idx
<1>9. IndexOf(idx, e)
  BY <1>3, <1>4, <1>5, <1>6, <1>8 DEF IndexOf
<1> QED BY <1>2, <1>9 DEF idx

-----------------------------------------------------------------------------
(* One write.                                                              *)

\* The item `set` is about to store is well formed, unless it is refused.
LEMMA FinalItemIsStored ==
    ASSUME Consistent(entries, next_id), NEW item \in SentItem \cup StoredItem,
           NEW merge \in BOOLEAN, ~SetIsRefused(item, merge)
    PROVE  /\ target_id(item) \in Ids
           /\ final_item(item, merge) \in StoredItem
           /\ final_item(item, merge).id = target_id(item)
           /\ final_item(item, merge).name \in Names
<1> DEFINE t == target_id(item)
           folded == IF merge /\ t \in DOMAIN entries
                     THEN MergeItem(entries[t], item) ELSE item
           restored == RestoreHidden(folded, t)
           All == [id : Ids, name : Names \cup {Empty, Absent},
                   val : Values \cup {Absent, Hidden},
                   owner : Owners \cup {NoOwner}]
<1>1. t \in Ids
  BY DEF target_id, Consistent, SentItem, StoredItem
<1>2. item \in All
  BY DEF SentItem, StoredItem
<1>3. t \in DOMAIN entries => entries[t] \in StoredItem
  BY DEF Consistent
<1> HIDE DEF t
<1>4. folded \in All
  BY <1>2, <1>3 DEF MergeItem, StoredItem
<1> HIDE DEF folded
<1>5. /\ restored \in All
      /\ restored.val \in Values \cup {Absent}
  BY <1>3, <1>4, SentinelAssumption DEF RestoreHidden, StoredItem
<1>6. final_item(item, merge) = [restored EXCEPT !.id = t]
  BY DEF final_item, t, folded
<1> HIDE DEF restored
<1>7. /\ final_item(item, merge) \in All
      /\ final_item(item, merge).val \in Values \cup {Absent}
      /\ final_item(item, merge).id = t
  BY <1>1, <1>5, <1>6
<1>8. final_item(item, merge).name \notin {Empty, Absent}
  BY DEF SetIsRefused
<1> HIDE DEF All
<1>9. final_item(item, merge).name \in Names
  BY <1>7, <1>8 DEF All
<1>10. final_item(item, merge) \in StoredItem
  BY <1>7, <1>9 DEF All, StoredItem
<1> QED BY <1>1, <1>7, <1>9, <1>10 DEF t

\* A set that is not refused leads from a consistent store to a consistent
\* store with its index, and the counter does not go back.
LEMMA SetKeepsConsistent ==
    ASSUME Consistent(entries, next_id), IndexOf(name_index, entries),
           NEW item \in SentItem \cup StoredItem, NEW merge \in BOOLEAN,
           ~SetIsRefused(item, merge)
    PROVE  /\ Consistent(SetEntries(item, merge), SetNextId(item))
           /\ IndexOf(SetIndex(item, merge), SetEntries(item, merge))
           /\ 1 <= SetNextId(item) /\ next_id <= SetNextId(item)
           /\ DOMAIN SetEntries(item, merge) = DOMAIN entries \cup {target_id(item)}
           /\ SaturatingSucc(target_id(item)) <= SetNextId(item)
<1> DEFINE t == target_id(item)
           f == final_item(item, merge)
           e == SetEntries(item, merge)
           n == SetNextId(item)
           idx == SetIndex(item, merge)
<1>1. /\ t \in Ids /\ f \in StoredItem /\ f.id = t /\ f.name \in Names
  BY FinalItemIsStored
<1>2. f.name \in DOMAIN name_index => name_index[f.name] = t
  BY DEF SetIsRefused
<1>3. /\ DOMAIN e = DOMAIN entries \cup {t}
      /\ e = [x \in DOMAIN entries \cup {t} |-> IF x = t THEN f ELSE entries[x]]
  BY DEF SetEntries, Put
<1>4. n = Larger(next_id, SaturatingSucc(t))
  BY DEF SetNextId
<1> DEFINE frees == /\ t \in DOMAIN entries /\ entries[t].name # f.name
                    /\ entries[t].name \in DOMAIN name_index
                    /\ name_index[entries[t].name] = t
           freed == IF frees THEN Without(name_index, entries[t].name)
                    ELSE name_index
<1>5. idx = Put(freed, f.name, t)
  BY DEF SetIndex
<1> HIDE DEF t, f, e, n, idx
<1>6. /\ n \in Ids /\ next_id <= n /\ SaturatingSucc(t) <= n /\ 1 <= n
  BY <1>1, <1>4, MaxIdAssumption DEF Larger, SaturatingSucc, Consistent, Ids
<1>7. \A i \in DOMAIN entries : i # t => entries[i].name # f.name
  BY <1>2 DEF IndexOf
<1>8. Consistent(e, n)
  <2>1. e \in [DOMAIN e -> StoredItem]
    BY <1>1, <1>3 DEF Consistent
  <2>2. \A i \in DOMAIN e : /\ e[i].id = i /\ e[i].name # Empty
                             /\ SaturatingSucc(i) <= n
    <3> SUFFICES ASSUME NEW i \in DOMAIN e
                 PROVE  /\ e[i].id = i /\ e[i].name # Empty
                        /\ SaturatingSucc(i) <= n
      OBVIOUS
    <3>1. CASE i = t
      BY <3>1, <1>1, <1>3, <1>6, SentinelAssumption
    <3>2. CASE i # t
      <4>1. i \in DOMAIN entries /\ e[i] = entries[i]
        BY <3>2, <1>3
      <4>2. SaturatingSucc(i) <= next_id /\ SaturatingSucc(i) \in Int
        BY <4>1, MaxIdAssumption DEF Consistent, SaturatingSucc, Ids
      <4> QED BY <4>1, <4>2, <1>6 DEF Consistent, Ids
    <3> QED BY <3>1, <3>2
  <2>3. \A i, j \in DOMAIN e : e[i].name = e[j].name => i = j
    BY <1>3, <1>7 DEF Consistent
  <2> QED BY <1>1, <1>3, <1>6, <2>1, <2>2, <2>3 DEF Consistent
<1>9. /\ DOMAIN freed \subseteq DOMAIN name_index
      /\ \A m \in DOMAIN freed : freed[m] = name_index[m]
      /\ \A m \in DOMAIN freed : m # f.name => name_index[m] # t
      /\ \A i \in DOMAIN entries : i # t => entries[i].name \in DOMAIN freed
  BY DEF Without, Restrict, IndexOf
<1> HIDE DEF freed, frees
<1>10. /\ DOMAIN idx = DOMAIN freed \cup {f.name}
       /\ idx = [m \in DOMAIN idx |-> idx[m]]
       /\ idx[f.name] = t
       /\ \A m \in DOMAIN freed : m # f.name => idx[m] = name_index[m]
  BY <1>5, <1>9 DEF Put
<1>11. IndexOf(idx, e)
  <2>1. DOMAIN idx \subseteq Names /\ \A m \in DOMAIN idx : idx[m] \in Ids
    BY <1>1, <1>9, <1>10 DEF IndexOf
  <2>2. idx \in [DOMAIN idx -> Ids]
    BY <2>1, <1>10
  <2>3. ASSUME NEW i \in DOMAIN e
        PROVE  e[i].name \in DOMAIN idx /\ idx[e[i].name] = i
    <3>1. CASE i = t
      BY <3>1, <1>3, <1>10
    <3>2. CASE i # t
      BY <3>2, <1>3, <1>7, <1>9, <1>10 DEF IndexOf
    <3> QED BY <3>1, <3>2
  <2>4. ASSUME NEW m \in DOMAIN idx
        PROVE  idx[m] \in DOMAIN e /\ e[idx[m]].name = m
    <3>1. CASE m = f.name
      BY <3>1, <1>3, <1>10
    <3>2. CASE m # f.name
      BY <3>2, <1>3, <1>9, <1>10 DEF IndexOf
    <3> QED BY <3>1, <3>2
  <2> QED BY <2>1, <2>2, <2>3, <2>4 DEF IndexOf
<1> QED BY <1>3, <1>6, <1>8, <1>11 DEF t, e, n, idx

\* So does a delete.
LEMMA DelKeepsConsistent ==
    ASSUME Consistent(entries, next_id), IndexOf(name_index, entries),
           NEW id \in DOMAIN entries
    PROVE  /\ Consistent(Without(entries, id), next_id)
           /\ IndexOf(DelIndex(id), Without(entries, id))
           /\ 1 <= next_id
           /\ DOMAIN Without(entries, id) = DOMAIN entries \ {id}
<1> DEFINE e == Without(entries, id)
           idx == DelIndex(id)
<1>1. /\ DOMAIN e = DOMAIN entries \ {id}
      /\ e = [i \in DOMAIN entries \ {id} |-> entries[i]]
  BY DEF Without, Restrict
<1>2. /\ DOMAIN idx = DOMAIN name_index \ {entries[id].name}
      /\ idx = [m \in DOMAIN name_index \ {entries[id].name} |-> name_index[m]]
  BY DEF DelIndex, Without, Restrict, IndexOf
<1> HIDE DEF e, idx
<1>3. 1 <= next_id
  BY MaxIdAssumption DEF Consistent, SaturatingSucc, Ids
<1>4. Consistent(e, next_id)
  BY <1>1 DEF Consistent
<1>5. IndexOf(idx, e)
  <2>1. DOMAIN idx \subseteq Names /\ idx \in [DOMAIN idx -> Ids]
    BY <1>2 DEF IndexOf
  <2>2. \A i \in DOMAIN e : e[i].name \in DOMAIN idx /\ idx[e[i].name] = i
    BY <1>1, <1>2 DEF IndexOf, Consistent
  <2>3. \A m \in DOMAIN idx : idx[m] \in DOMAIN e /\ e[idx[m]].name = m
    BY <1>1, <1>2 DEF IndexOf
  <2> QED BY <2>1, <2>2, <2>3 DEF IndexOf
<1> QED BY <1>1, <1>3, <1>4, <1>5 DEF e, idx

-----------------------------------------------------------------------------
(* The inductive invariant.                                                *)

\* What a step that publishes a new file has to establish.
LEMMA Published ==
    ASSUME IInv, Running, NEW e, NEW n, Consistent(e, n), 1 <= n,
           next_id <= n,
           \A i \in DOMAIN e : i \in DOMAIN entries \/ SaturatingSucc(i) <= n,
           disk' = Envelope(e, n), seen' = seen \cup DOMAIN e
    PROVE  /\ FileOK'
           /\ Parse(disk)' = [entries |-> e, next_id |-> n]
           /\ seen' \subseteq Ids
           /\ Fresh(Parse(disk).next_id)'
<1>1. FileOK'
  <2>1. \E ee, nn : disk' = Envelope(ee, nn) /\ Consistent(ee, nn) /\ 1 <= nn
    OBVIOUS
  <2> QED BY <2>1, SMT DEF FileOK, Envelope, Consistent, NoFile, LegacyFile
<1>2. Parse(disk') = [entries |-> e, next_id |-> n]
  BY ParseOfEnvelope
<1>3. Parse(disk)' = [entries |-> e, next_id |-> n]
  BY <1>2 DEF Parse, ParseEnvelope, ParseLegacy, NothingStored
<1>4. seen' \subseteq Ids
  BY DEF Consistent, IInv
<1>5. Fresh(Parse(disk).next_id)'
  <2>1. n < MaxId => \A i \in seen' : i < n
    <3> SUFFICES ASSUME n < MaxId, NEW i \in seen' PROVE i < n
      OBVIOUS
    <3>1. next_id \in Ids /\ n \in Ids /\ i \in Ids
      BY <1>4 DEF IInv, Consistent
    <3>2. CASE i \in seen
      <4>1. Parse(disk).next_id = next_id
        BY DEF IInv
      <4>2. next_id < MaxId => i < next_id
        BY <4>1, <3>2 DEF IInv, Fresh
      <4> QED BY <4>2, <3>1, MaxIdAssumption DEF Ids
    <3>3. CASE i \in DOMAIN e
      BY <3>1, <3>3, MaxIdAssumption DEF Consistent, SaturatingSucc, Ids
    <3> QED BY <3>2, <3>3
  <2> QED BY <2>1, <1>3 DEF Fresh
<1> QED BY <1>1, <1>3, <1>4, <1>5

LEMMA CommitKeepsIInv ==
    ASSUME IInv, Running, NEW e, NEW idx, NEW n, Consistent(e, n), 1 <= n,
           next_id <= n, IndexOf(idx, e), Commit(e, idx, n),
           phase' \in {"adopting", "up"}, adopting' \in 1 .. Len(LegacyNames) + 1
    PROVE  IInv'
<1>1. /\ FileOK'
      /\ Parse(disk)' = [entries |-> e, next_id |-> n]
      /\ seen' \subseteq Ids
      /\ Fresh(Parse(disk).next_id)'
  BY Published DEF Commit, Consistent
<1>2. entries' = e /\ name_index' = idx /\ next_id' = n
  BY DEF Commit
<1>3. Consistent(entries, next_id)' /\ IndexOf(name_index, entries)'
  BY <1>2, SMT DEF Consistent, IndexOf
<1>4. Running'
  BY DEF Running
<1> QED BY <1>1, <1>2, <1>3, <1>4 DEF IInv, Running

LEMMA CommitThenDieKeepsIInv ==
    ASSUME IInv, Running, NEW e, NEW n, Consistent(e, n), 1 <= n,
           next_id <= n, CommitThenDie(e, n)
    PROVE  IInv'
<1>1. /\ FileOK'
      /\ seen' \subseteq Ids
      /\ Fresh(Parse(disk).next_id)'
  BY Published DEF CommitThenDie, Consistent
<1>2. 1 \in 1 .. Len(LegacyNames) + 1
  BY LegacyAssumption
<1> QED BY <1>1, <1>2 DEF IInv, CommitThenDie, Die, Running

LEMMA UnchangedFile ==
    ASSUME IInv, UNCHANGED <<disk, seen>>
    PROVE  /\ FileOK'
           /\ Parse(disk)' = Parse(disk)
           /\ seen' \subseteq Ids
           /\ Fresh(Parse(disk).next_id)'
<1>1. FileOK'
  BY DEF IInv, FileOK, NoFile, LegacyFile, Envelope, Consistent
<1>2. Parse(disk)' = Parse(disk)
  BY DEF Parse, ParseEnvelope, ParseLegacy, NothingStored
<1> QED BY <1>1, <1>2 DEF IInv, Fresh

LEMMA InitIInv == Init => IInv
<1> SUFFICES ASSUME Init PROVE IInv
  OBVIOUS
<1>1. FileOK
  BY DEF Init, FileOK, NoFile, LegacyFile
<1>2. 1 \in 1 .. Len(LegacyNames) + 1
  BY LegacyAssumption
<1> QED BY <1>1, <1>2 DEF Init, IInv, Fresh, Running

\* The renamed entry that adoption writes is not refused and is an update of
\* the entry it came from.
LEMMA RenameIsUpdate ==
    ASSUME IInv, Running, NEW n \in Names, n \in DOMAIN name_index,
           GlobalName[n] \notin DOMAIN name_index
    PROVE  /\ Renamed(n) \in StoredItem
           /\ Renamed(n).id = name_index[n]
           /\ name_index[n] \in DOMAIN entries
           /\ target_id(Renamed(n)) = name_index[n]
<1>1. /\ Consistent(entries, next_id) /\ IndexOf(name_index, entries)
  BY DEF IInv
<1> DEFINE i == name_index[n]
<1>2. i \in DOMAIN entries /\ entries[i] \in StoredItem /\ entries[i].id = i
  BY <1>1 DEF IndexOf, Consistent
<1>3. GlobalName[n] \in Names
  BY LegacyAssumption
<1>4. Renamed(n) = [entries[i] EXCEPT !.name = GlobalName[n]]
  BY DEF Renamed, get_by_name
<1> HIDE DEF i
<1>5. Renamed(n) \in StoredItem /\ Renamed(n).id = i
  BY <1>2, <1>3, <1>4 DEF StoredItem
<1>6. i = MaxId => next_id = MaxId
  BY <1>1, <1>2, MaxIdAssumption DEF Consistent, SaturatingSucc, Ids
<1>7. target_id(Renamed(n)) = i
  BY <1>5, <1>6 DEF target_id
<1> QED BY <1>2, <1>5, <1>7 DEF i

LEMMA StepIInv == IInv /\ [Next]_vars => IInv'
<1> SUFFICES ASSUME IInv, [Next]_vars PROVE IInv'
  OBVIOUS
<1>1. CASE open
  <2> DEFINE p == Parse(disk)
  <2>1. Consistent(p.entries, p.next_id) /\ p = [entries |-> p.entries, next_id |-> p.next_id]
    BY FileIsConsistent DEF IInv
  <2>2. ~HasDuplicateName(p.entries) /\ IndexOf(build_name_index(p.entries), p.entries)
    BY <2>1, IndexIsBuilt
  <2> HIDE DEF p
  <2>3. /\ phase' = "adopting" /\ adopting' = 1
        /\ entries' = p.entries /\ name_index' = build_name_index(p.entries)
        /\ next_id' = p.next_id /\ seen' = seen \cup DOMAIN p.entries
        /\ disk' = disk
    BY <1>1, <2>2 DEF open, p
  <2>4. Consistent(entries, next_id)' /\ IndexOf(name_index, entries)'
    BY <2>1, <2>2, <2>3, SMT DEF Consistent, IndexOf
  <2>5. Parse(disk)' = [entries |-> entries', next_id |-> next_id']
    BY <2>1, <2>3 DEF p, Parse, ParseEnvelope, ParseLegacy, NothingStored
  <2>6. FileOK'
    BY <2>3 DEF IInv, FileOK, NoFile, LegacyFile, Envelope, Consistent
  <2>7. seen' \subseteq Ids
    BY <2>1, <2>3 DEF Consistent, IInv
  <2>8. Fresh(Parse(disk).next_id)'
    <3>1. p.next_id < MaxId => \A i \in seen' : i < p.next_id
      BY <2>1, <2>3, MaxIdAssumption DEF IInv, Fresh, p, Consistent, SaturatingSucc, Ids
    <3> QED BY <3>1, <2>3, <2>5 DEF Fresh
  <2>9. 1 \in 1 .. Len(LegacyNames) + 1
    BY LegacyAssumption
  <2> QED BY <2>3, <2>4, <2>5, <2>6, <2>7, <2>8, <2>9 DEF IInv, Running
<1>2. CASE AdoptSkip
  <2>1. adopting' \in 1 .. Len(LegacyNames) + 1
    BY <1>2, LegacyAssumption DEF AdoptSkip, IInv
  <2> QED BY <1>2, <2>1, UnchangedFile DEF AdoptSkip, IInv, Running, Consistent, IndexOf
<1>3. CASE AdoptMove
  <2> DEFINE n == LegacyNames[adopting]
  <2>1. /\ n \in Names /\ Running
        /\ adopting + 1 \in 1 .. Len(LegacyNames) + 1
    BY <1>3, LegacyAssumption DEF AdoptMove, IInv, Running
  <2>2. /\ n \in DOMAIN name_index /\ GlobalName[n] \notin DOMAIN name_index
        /\ \/ SetOk(Renamed(n), FALSE) /\ adopting' = adopting + 1 /\ phase' = phase
           \/ SetDies(Renamed(n), FALSE)
           \/ AdoptDone
    BY <1>3 DEF AdoptMove
  <2> HIDE DEF n
  <2>3. Renamed(n) \in SentItem \cup StoredItem
    BY <2>1, <2>2, RenameIsUpdate
  <2>4. Consistent(entries, next_id) /\ IndexOf(name_index, entries)
    BY <2>1 DEF IInv
  <2>5. CASE SetOk(Renamed(n), FALSE) /\ adopting' = adopting + 1 /\ phase' = phase
    BY <2>1, <2>3, <2>4, <2>5, SetKeepsConsistent, CommitKeepsIInv DEF SetOk, Running
  <2>6. CASE SetDies(Renamed(n), FALSE)
    BY <2>1, <2>3, <2>4, <2>6, SetKeepsConsistent, CommitThenDieKeepsIInv DEF SetDies
  <2>7. CASE AdoptDone
    BY <2>7, <2>1, UnchangedFile DEF AdoptDone, IInv, Running, Consistent, IndexOf
  <2> QED BY <2>2, <2>5, <2>6, <2>7
<1>4. CASE AdoptFinish
  BY <1>4, UnchangedFile DEF AdoptFinish, AdoptDone, IInv, Running, Consistent, IndexOf
<1>5. ASSUME NEW item \in SentItem, NEW merge \in BOOLEAN, Set(item, merge)
      PROVE  IInv'
  <2>1. Running /\ Consistent(entries, next_id) /\ IndexOf(name_index, entries)
    BY <1>5 DEF Set, IInv, Running
  <2>2. CASE Refused
    BY <2>2, UnchangedFile DEF Refused, vars, IInv, Running, Consistent, IndexOf
  <2>3. CASE SetOk(item, merge) /\ UNCHANGED <<phase, adopting>>
    <3>1. phase' \in {"adopting", "up"} /\ adopting' \in 1 .. Len(LegacyNames) + 1
      BY <1>5, <2>3 DEF Set, IInv
    <3> QED BY <2>1, <2>3, <3>1, SetKeepsConsistent, CommitKeepsIInv DEF SetOk
  <2>4. CASE SetDies(item, merge)
    BY <2>1, <2>4, SetKeepsConsistent, CommitThenDieKeepsIInv DEF SetDies
  <2> QED BY <1>5, <2>2, <2>3, <2>4 DEF Set
<1>6. ASSUME NEW id \in Ids, Del(id)
      PROVE  IInv'
  <2>1. Running /\ Consistent(entries, next_id) /\ IndexOf(name_index, entries)
    BY <1>6 DEF Del, IInv, Running
  <2>2. CASE Refused
    BY <2>2, UnchangedFile DEF Refused, vars, IInv, Running, Consistent, IndexOf
  <2>3. next_id <= next_id
    BY <2>1 DEF Consistent, Ids
  <2>4. CASE DelOk(id) /\ UNCHANGED <<phase, adopting>>
    <3>1. phase' \in {"adopting", "up"} /\ adopting' \in 1 .. Len(LegacyNames) + 1
      BY <1>6, <2>4 DEF Del, IInv
    <3> QED BY <2>1, <2>3, <2>4, <3>1, DelKeepsConsistent, CommitKeepsIInv DEF DelOk
  <2>5. CASE DelDies(id)
    BY <2>1, <2>3, <2>5, DelKeepsConsistent, CommitThenDieKeepsIInv DEF DelDies
  <2> QED BY <1>6, <2>2, <2>4, <2>5 DEF Del
<1>7. CASE Crash
  <2>1. 1 \in 1 .. Len(LegacyNames) + 1
    BY LegacyAssumption
  <2> QED BY <1>7, <2>1, UnchangedFile DEF Crash, Die, IInv, Running
<1>8. CASE UNCHANGED vars
  BY <1>8, UnchangedFile DEF vars, IInv, Running, Consistent, IndexOf
<1> QED BY <1>1, <1>2, <1>3, <1>4, <1>5, <1>6, <1>7, <1>8 DEF Next

LEMMA SpecIInv == Spec => []IInv
  BY InitIInv, StepIInv, PTL DEF Spec

-----------------------------------------------------------------------------
(* The theorems.                                                           *)

\* Every reachable state is well typed; no stored value is the placeholder
\* "<hidden>", whatever was merged or replaced by `set`.
THEOREM TypeCorrect == Spec => []TypeOK
<1>1. IInv => TypeOK
  <2> SUFFICES ASSUME IInv PROVE TypeOK
    OBVIOUS
  <2>1. /\ DOMAIN entries \subseteq Ids /\ entries \in [DOMAIN entries -> StoredItem]
        /\ DOMAIN name_index \subseteq Names
        /\ name_index \in [DOMAIN name_index -> Ids]
        /\ next_id \in Ids
    <3>1. CASE Running
      BY <3>1 DEF IInv, Consistent, IndexOf
    <3>2. CASE ~Running
      BY <3>2, MaxIdAssumption DEF IInv, EmptyMap, Ids
    <3> QED BY <3>1, <3>2
  <2>2. \/ disk = NoFile
        \/ \E file \in LegacyFiles : disk = LegacyFile(file)
        \/ /\ disk = Envelope(disk.entries, disk.next_id)
           /\ Consistent(disk.entries, disk.next_id)
    BY DEF IInv, FileOK, Envelope
  <2> QED BY <2>1, <2>2 DEF IInv, TypeOK, NoFile, LegacyFile, Consistent
<1> QED BY <1>1, SpecIInv, PTL

\* The name index is the inverse of the entries in every reachable state:
\* set, del, open and adopt_global_names maintain it together.
THEOREM IndexIsInverse == Spec => []IndexMatchesEntries
<1>1. IInv => IndexMatchesEntries
  BY DEF IInv, IndexMatchesEntries, Consistent, IndexOf
<1> QED BY <1>1, SpecIInv, PTL

\* Restarting at any moment gives back what the running store holds: the
\* file is written before the memory changes, and read back unchanged.
THEOREM RestartLosesNothing == Spec => []MemoryMatchesFile
<1>1. IInv => MemoryMatchesFile
  BY DEF IInv, MemoryMatchesFile
<1> QED BY <1>1, SpecIInv, PTL

\* `open` never meets a duplicate name in a file this store wrote, so a
\* crash at any point never keeps the server from starting.
THEOREM NeverLockedOut == Spec => []AlwaysReopens
<1>1. IInv => AlwaysReopens
  BY DEF IInv, AlwaysReopens
<1> QED BY <1>1, SpecIInv, PTL

\* The counter stays above every id ever used, through deletes, explicit
\* ids, crashes and restarts, until it saturates.
THEOREM IdsAreNeverReissued == Spec => []NewIdsAreFresh
<1>1. IInv => NewIdsAreFresh
  BY DEF IInv, NewIdsAreFresh, Fresh
<1> QED BY <1>1, SpecIInv, PTL

\* Adoption at start-up renames entries and changes nothing else.
THEOREM AdoptionIsRename == Spec => AdoptionOnlyRenames
<1> DEFINE A ==
      phase = "adopting" /\ phase' # "down" =>
         /\ DOMAIN entries' = DOMAIN entries
         /\ \A i \in DOMAIN entries :
               /\ entries'[i].val = entries[i].val
               /\ entries'[i].owner = entries[i].owner
               /\ entries'[i].name # entries[i].name =>
                     /\ entries'[i].name = GlobalName[entries[i].name]
                     /\ entries'[i].name \notin DOMAIN name_index
<1>1. IInv /\ [Next]_vars => [A]_vars
  <2> SUFFICES ASSUME IInv, Next, phase = "adopting", phase' # "down"
               PROVE  A
    BY DEF vars
  <2>1. CASE entries' = entries
    BY <2>1
  <2>2. CASE AdoptMove
    <3> DEFINE n == LegacyNames[adopting]
               i == name_index[n]
    <3>1. n \in Names /\ Running
      BY <2>2, LegacyAssumption DEF AdoptMove, IInv, Running
    <3>2. /\ n \in DOMAIN name_index /\ GlobalName[n] \notin DOMAIN name_index
          /\ SetOk(Renamed(n), FALSE) \/ AdoptDone
      BY <2>2 DEF AdoptMove, SetDies, CommitThenDie, Die
    <3> HIDE DEF n
    <3>3. CASE AdoptDone
      BY <3>3, <2>1 DEF AdoptDone
    <3>4. CASE SetOk(Renamed(n), FALSE)
      <4>1. /\ Renamed(n) \in StoredItem /\ i \in DOMAIN entries
            /\ target_id(Renamed(n)) = i /\ Renamed(n).id = i
        BY <3>1, <3>2, RenameIsUpdate
      <4>2. entries[i].name = n /\ entries[i] \in StoredItem
        BY <3>1, <3>2 DEF IInv, IndexOf, Consistent
      <4>3. Renamed(n) = [entries[i] EXCEPT !.name = GlobalName[n]]
        BY DEF Renamed, get_by_name
      <4> HIDE DEF i
      <4>4. Renamed(n).val # Hidden
        BY <4>1, SentinelAssumption DEF StoredItem
      <4>5. final_item(Renamed(n), FALSE) = [Renamed(n) EXCEPT !.id = i]
        BY <4>1, <4>4 DEF final_item, RestoreHidden
      <4>6. entries' = Put(entries, i, final_item(Renamed(n), FALSE))
        BY <3>4, <4>1 DEF SetOk, Commit, SetEntries
      <4>7. /\ DOMAIN entries' = DOMAIN entries
            /\ \A j \in DOMAIN entries : j # i => entries'[j] = entries[j]
            /\ entries'[i] = [Renamed(n) EXCEPT !.id = i]
        BY <4>1, <4>5, <4>6 DEF Put
      <4>8. /\ entries'[i].val = entries[i].val
            /\ entries'[i].owner = entries[i].owner
            /\ entries'[i].name = GlobalName[n]
        BY <4>2, <4>3, <4>7 DEF StoredItem
      <4> QED BY <3>2, <4>2, <4>7, <4>8
    <3> QED BY <3>2, <3>3, <3>4
  <2>3. AdoptSkip \/ AdoptFinish => entries' = entries
    BY DEF AdoptSkip, AdoptFinish, AdoptDone
  <2> QED BY <2>1, <2>2, <2>3 DEF Next, open, Set, Del, Crash, Die
<1> QED BY <1>1, SpecIInv, PTL DEF Spec, AdoptionOnlyRenames

\* A step that publishes a file is a put or a remove of one entry.
LEMMA PublishIsPut ==
    ASSUME IInv, IInv', Running, NEW item \in SentItem \cup StoredItem,
           NEW merge \in BOOLEAN, ~SetIsRefused(item, merge),
           disk' = Envelope(SetEntries(item, merge), SetNextId(item))
    PROVE  Promise!PutOne
<1> DEFINE e == SetEntries(item, merge)
           i == target_id(item)
<1>1. Consistent(entries, next_id) /\ IndexOf(name_index, entries) /\ Durable = entries
  BY DEF IInv, Durable
<1>2. /\ Consistent(e, SetNextId(item)) /\ 1 <= SetNextId(item)
      /\ DOMAIN e = DOMAIN entries \cup {i}
  BY <1>1, SetKeepsConsistent
<1>3. Parse(disk') = [entries |-> e, next_id |-> SetNextId(item)]
  BY <1>2, ParseOfEnvelope
<1>4. Durable' = e
  <2>1. Durable' = Parse(disk').entries
    BY DEF Durable, Parse, ParseEnvelope, ParseLegacy, NothingStored
  <2> QED BY <2>1, <1>3
<1>5. \A j \in DOMAIN entries \ {i} : e[j] = entries[j]
  BY DEF SetEntries, Put
<1> HIDE DEF e, i
<1>6. Promise!UniqueNames(e) /\ \A k \in DOMAIN e : e[k].id = k
  BY <1>2 DEF Consistent, Promise!UniqueNames
<1>7. Promise!UniqueNames(Durable')
  BY <1>4, <1>6 DEF Promise!UniqueNames
<1> QED BY <1>1, <1>2, <1>4, <1>5, <1>6, <1>7 DEF Promise!PutOne, Promise!UniqueNames

LEMMA PublishIsRemove ==
    ASSUME IInv, Running, NEW id \in DOMAIN entries,
           disk' = Envelope(Without(entries, id), next_id)
    PROVE  Promise!RemoveOne
<1> DEFINE e == Without(entries, id)
<1>1. Consistent(entries, next_id) /\ IndexOf(name_index, entries) /\ Durable = entries
  BY DEF IInv, Durable
<1>2. Consistent(e, next_id) /\ 1 <= next_id
  BY <1>1, DelKeepsConsistent
<1>3. Parse(disk') = [entries |-> e, next_id |-> next_id]
  BY <1>2, ParseOfEnvelope
<1>4. Durable' = e
  <2>1. Durable' = Parse(disk').entries
    BY DEF Durable, Parse, ParseEnvelope, ParseLegacy, NothingStored
  <2> QED BY <2>1, <1>3
<1> QED BY <1>1, <1>4 DEF Promise!RemoveOne, Without, Restrict

\* The store implements its promise: seen through `open`, its file changes
\* only by putting or removing one whole entry with names unique, and no
\* failed write or crash is visible.
THEOREM StoreKeepsPromise == Spec => ImplementsDurableSecrets
<1>1. Init => Promise!Init
  <2> SUFFICES ASSUME Init PROVE Promise!Init
    OBVIOUS
  <2>1. Consistent(Durable, Parse(disk).next_id)
    BY InitIInv, FileIsConsistent DEF IInv, Durable
  <2> QED BY <2>1 DEF Promise!Init, Promise!UniqueNames, Consistent
<1>2. IInv /\ IInv' /\ [Next]_vars => [Promise!Next]_Durable
  <2> SUFFICES ASSUME IInv, IInv', [Next]_vars, disk' # disk, Durable' # Durable
               PROVE  Promise!Next
    BY DEF Durable, Parse, ParseEnvelope, ParseLegacy, NothingStored
  <2>1. ASSUME NEW item \in SentItem, NEW merge \in BOOLEAN, Set(item, merge)
        PROVE  Promise!Next
    <3>1. Running /\ ~SetIsRefused(item, merge)
          /\ disk' = Envelope(SetEntries(item, merge), SetNextId(item))
      BY <2>1 DEF Set, Refused, vars, SetOk, SetDies, Commit, CommitThenDie, Running
    <3> QED BY <3>1, PublishIsPut DEF Promise!Next
  <2>2. ASSUME NEW id \in Ids, Del(id)
        PROVE  Promise!Next
    <3>1. Running /\ id \in DOMAIN entries
          /\ disk' = Envelope(Without(entries, id), next_id)
      BY <2>2 DEF Del, Refused, vars, DelOk, DelDies, Commit, CommitThenDie, Running
    <3> QED BY <3>1, PublishIsRemove DEF Promise!Next
  <2>3. CASE AdoptMove
    <3> DEFINE n == LegacyNames[adopting]
    <3>1. n \in Names /\ Running
      BY <2>3, LegacyAssumption DEF AdoptMove, IInv, Running
    <3>2. /\ n \in DOMAIN name_index /\ GlobalName[n] \notin DOMAIN name_index
          /\ ~SetIsRefused(Renamed(n), FALSE)
          /\ disk' = Envelope(SetEntries(Renamed(n), FALSE), SetNextId(Renamed(n)))
      BY <2>3 DEF AdoptMove, SetOk, SetDies, Commit, CommitThenDie, AdoptDone
    <3> HIDE DEF n
    <3>3. Renamed(n) \in SentItem \cup StoredItem
      BY <3>1, <3>2, RenameIsUpdate
    <3> QED BY <3>1, <3>2, <3>3, PublishIsPut DEF Promise!Next
  <2>4. open \/ AdoptSkip \/ AdoptFinish \/ Crash => disk' = disk
    BY DEF open, AdoptSkip, AdoptFinish, AdoptDone, Crash
  <2> QED BY <2>1, <2>2, <2>3, <2>4 DEF Next, vars
<1> QED BY <1>1, <1>2, SpecIInv, PTL DEF Spec, ImplementsDurableSecrets, Promise!Spec

(* ------------------------------- the callers ------------------------------ *)

\* The invariant under the callers: the store's, and what an administrator's
\* configuration write holds.
ApiInv == /\ IInv
          /\ pending \in [Admins -> [name : ConfigNames \cup {Absent},
                                     val : Values \cup {Absent}]]
          /\ \A a \in Admins : pending[a] # Idle => pending[a].name \in ConfigNames

\* The id an entry is addressed by, and the entry it leads to.
LEMMA IdOfNameIsId ==
    ASSUME IInv, phase = "up", NEW n \in Names
    PROVE  /\ IdOfName(n) \in Ids
           /\ n \in DOMAIN name_index =>
                /\ IdOfName(n) = name_index[n]
                /\ name_index[n] \in DOMAIN entries
                /\ entries[name_index[n]].name = n
  BY MaxIdAssumption DEF IInv, Running, IdOfName, get_by_name, IndexOf, Consistent, Ids

LEMMA StampIsSent ==
    ASSUME IInv, phase = "up", NEW u \in Owners, NEW body \in Bodies
    PROVE  stamp(body, NamesExisting(body), u) \in SentItem
<1>1. body \in SentItem
  BY ApiAssumption
<1>2. NamesExisting(body) => entries[body.id].owner \in Owners \cup {NoOwner}
  BY DEF IInv, Running, Consistent, StoredItem, NamesExisting
<1> QED BY <1>1, <1>2 DEF stamp, SentItem

\* What a plugin's write and a configuration write hand to the store.
SystemItem(item) == [item EXCEPT !.id = IdOfName(item.name), !.owner = NoOwner]

ConfigItem(a) == [id |-> IdOfName(pending[a].name), name |-> pending[a].name,
                  val |-> pending[a].val, owner |-> NoOwner]

LEMMA SystemItemIsSent ==
    ASSUME IInv, phase = "up", NEW item \in Bodies, item.name \in SystemNames
    PROVE  SystemItem(item) \in SentItem
<1>1. item \in SentItem /\ item.name \in Names
  BY ApiAssumption
<1>2. IdOfName(item.name) \in Ids
  BY <1>1, IdOfNameIsId
<1> QED BY <1>1, <1>2 DEF SystemItem, SentItem

LEMMA ConfigItemIsSent ==
    ASSUME ApiInv, phase = "up", NEW a \in Admins, pending[a] # Idle
    PROVE  ConfigItem(a) \in SentItem /\ pending[a].name \in SystemNames
<1>1. pending[a].name \in SystemNames /\ pending[a].name \in Names
      /\ pending[a].val \in Values \cup {Absent}
  BY ApiAssumption DEF ApiInv
<1>2. IdOfName(pending[a].name) \in Ids
  BY <1>1, IdOfNameIsId DEF ApiInv
<1> QED BY <1>1, <1>2 DEF ConfigItem, SentItem

\* Every step of every caller is a step of the store or leaves it alone.
LEMMA ApiStepIsStoreStep == ApiInv /\ [ApiNext]_apivars => [Next]_vars
<1> SUFFICES ASSUME ApiInv, [ApiNext]_apivars PROVE [Next]_vars
  OBVIOUS
<1> USE DEF ApiInv
<1>1. CASE ServerStep
  BY <1>1 DEF ServerStep, Next
<1>2. ASSUME NEW u \in Owners, NEW body \in Bodies, secret_edit(u, body)
      PROVE  [Next]_vars
  <2>1. Refused \/ Set(stamp(body, NamesExisting(body), u), TRUE)
    BY <1>2 DEF secret_edit
  <2>2. phase = "up"
    BY <1>2 DEF secret_edit
  <2> QED BY <2>1, <2>2, StampIsSent DEF Next, Refused
<1>3. ASSUME NEW u \in Owners, NEW id \in Ids, secret_del(u, id)
      PROVE  [Next]_vars
  BY <1>3 DEF secret_del, Refused, Next
<1>4. ASSUME NEW item \in Bodies, system_secret_set(item)
      PROVE  [Next]_vars
  <2>1. phase = "up" /\ (Refused \/ (item.name \in SystemNames /\ Set(SystemItem(item), FALSE)))
    BY <1>4 DEF system_secret_set, SystemItem
  <2> QED BY <2>1, SystemItemIsSent DEF Next, Refused
<1>5. ASSUME NEW n \in Names, n \in DOMAIN name_index, Del(get_by_name(n).id)
      PROVE  [Next]_vars
  <2>1. get_by_name(n).id \in Ids
    BY <1>5, IdOfNameIsId DEF IdOfName, Del
  <2> QED BY <1>5, <2>1 DEF Next
<1>6. ASSUME NEW n \in Names, system_secret_del(n)
      PROVE  [Next]_vars
  BY <1>5, <1>6 DEF system_secret_del, Refused
<1>7. ASSUME NEW a \in Admins, auth_config_write(a)
      PROVE  [Next]_vars
  <2>1. phase = "up" /\ pending[a] # Idle /\ Set(ConfigItem(a), TRUE)
    BY <1>7 DEF auth_config_write, ConfigItem
  <2> QED BY <2>1, ConfigItemIsSent DEF Next
<1>8. ASSUME NEW a \in Admins, NEW n \in ConfigNames, auth_config_forget(a, n)
      PROVE  [Next]_vars
  BY <1>5, <1>8, ApiAssumption DEF auth_config_forget, Refused
<1>9. ASSUME NEW a \in Admins, NEW n \in ConfigNames, NEW typed \in Values \cup {Absent},
             auth_config_read(a, n, typed)
      PROVE  [Next]_vars
  BY <1>9 DEF auth_config_read
<1>10. CASE UNCHANGED apivars
  BY <1>10 DEF apivars
<1> QED BY <1>1, <1>2, <1>3, <1>4, <1>6, <1>7, <1>8, <1>9, <1>10 DEF ApiNext

LEMMA ApiInvInductive == ApiSpec => []ApiInv
<1>1. ApiInit => ApiInv
  BY InitIInv DEF ApiInit, ApiInv, NoPending, Idle
<1>2. ApiInv /\ [ApiNext]_apivars => ApiInv'
  <2> SUFFICES ASSUME ApiInv, [ApiNext]_apivars PROVE ApiInv'
    OBVIOUS
  <2>1. IInv'
    BY ApiStepIsStoreStep, StepIInv DEF ApiInv
  <2> DEFINE T == [name : ConfigNames \cup {Absent}, val : Values \cup {Absent}]
             P(p) == /\ p \in [Admins -> T]
                     /\ \A a \in Admins : p[a] # Idle => p[a].name \in ConfigNames
  <2>2. P(pending) /\ P(NoPending)
    BY DEF ApiInv, NoPending, Idle
  <2>3. PendingOf(pending) => P(pending')
    BY <2>2 DEF PendingOf
  <2>4. ASSUME NEW a \in Admins, auth_config_write(a) PROVE P(pending')
    <3>1. P([pending EXCEPT ![a] = Idle])
      BY <2>2 DEF Idle
    <3> QED BY <2>2, <3>1, <2>4 DEF auth_config_write, PendingOf
  <2>5. ASSUME NEW a \in Admins, NEW n \in ConfigNames, NEW typed \in Values \cup {Absent},
               auth_config_read(a, n, typed)
        PROVE  P(pending')
    <3>1. apply_update(n, typed) \in Values \cup {Absent}
      <4>1. n \in Names /\ phase = "up"
        BY <2>5, ApiAssumption DEF auth_config_read
      <4>2. StoredSecret(n) \in Values \cup {Absent}
        BY <4>1 DEF ApiInv, IInv, Running, StoredSecret, get_by_name, IndexOf, Consistent, StoredItem
      <4> QED BY <4>2 DEF apply_update
    <3> DEFINE r == [name |-> n, val |-> apply_update(n, typed)]
    <3>2. r \in T /\ r.name \in ConfigNames
      BY <3>1
    <3>3. pending' = [pending EXCEPT ![a] = r]
      BY <2>5 DEF auth_config_read
    <3> HIDE DEF r
    <3> QED BY <2>2, <3>2, <3>3
  <2>6. UNCHANGED apivars => P(pending')
    BY <2>2 DEF apivars
  <2> HIDE DEF P
  <2>7. \/ PendingOf(pending)
        \/ \E a \in Admins, n \in ConfigNames, typed \in Values \cup {Absent} :
              auth_config_read(a, n, typed)
        \/ \E a \in Admins : auth_config_write(a)
        \/ UNCHANGED apivars
    BY DEF ApiNext, ServerStep, secret_edit, secret_del, system_secret_set,
           system_secret_del, auth_config_forget
  <2>8. P(pending')
    BY <2>3, <2>4, <2>5, <2>6, <2>7
  <2> QED BY <2>1, <2>8 DEF ApiInv, P, Idle
<1> QED BY <1>1, <1>2, PTL DEF ApiSpec

\* Every handler uses the store only as its specification allows: what is
\* proved of the store holds under these callers.
THEOREM ApiImplementsStore == ApiSpec => Spec
<1>1. ApiInit => Init
  BY DEF ApiInit
<1> QED BY <1>1, ApiStepIsStoreStep, ApiInvInductive, PTL DEF ApiSpec, Spec

-----------------------------------------------------------------------------
(* Who may change what.                                                    *)

\* A write that is not refused changes the one entry it addresses.
LEMMA SetTouchesOne ==
    ASSUME IInv, phase = "up", NEW item \in SentItem, NEW merge \in BOOLEAN,
           Set(item, merge), phase' = "up"
    PROVE  \/ entries' = entries
           \/ /\ ~SetIsRefused(item, merge)
              /\ DOMAIN entries' = DOMAIN entries \cup {target_id(item)}
              /\ \A i \in DOMAIN entries \ {target_id(item)} : entries'[i] = entries[i]
              /\ entries'[target_id(item)] = final_item(item, merge)
  BY DEF Set, Refused, vars, SetOk, SetDies, Commit, CommitThenDie, Die, SetEntries, Put

\* A new id is not one of an entry there is.
LEMMA NewIdIsFree ==
    ASSUME IInv, phase = "up", MaxId \notin DOMAIN entries
    PROVE  next_id \notin DOMAIN entries
  BY MaxIdAssumption DEF IInv, Running, Consistent, SaturatingSucc, Ids

LEMMA DelTouchesOne ==
    ASSUME NEW id, Del(id), phase' = "up"
    PROVE  \/ entries' = entries
           \/ id \in DOMAIN entries /\ entries' = [i \in DOMAIN entries \ {id} |-> entries[i]]
  BY DEF Del, Refused, vars, DelOk, DelDies, Commit, CommitThenDie, Die, Without, Restrict

\* What a merge leaves of the stored entry and takes from the one sent.
LEMMA MergeFields ==
    ASSUME NEW base \in StoredItem, NEW item \in SentItem
    PROVE  /\ MergeItem(base, item).name = IF item.name = Absent THEN base.name ELSE item.name
           /\ MergeItem(base, item).owner = IF item.owner = NoOwner THEN base.owner
                                            ELSE item.owner
           /\ MergeItem(base, item) \in SentItem
<1> DEFINE n == IF item.name = Absent THEN base.name ELSE item.name
           v == IF item.val = Absent THEN base.val ELSE item.val
           o == IF item.owner = NoOwner THEN base.owner ELSE item.owner
<1>1. /\ n \in Names \cup {Empty, Absent} /\ v \in Values \cup {Absent, Hidden}
      /\ o \in Owners \cup {NoOwner} /\ base.id \in Ids
  BY DEF SentItem, StoredItem
<1>2. MergeItem(base, item) = [base EXCEPT !.name = n, !.val = v, !.owner = o]
  BY DEF MergeItem
<1> HIDE DEF n, v, o
<1>3. MergeItem(base, item) = [id |-> base.id, name |-> n, val |-> v, owner |-> o]
  BY <1>2 DEF StoredItem
<1> QED BY <1>1, <1>3 DEF SentItem, n, o

\* The entry that an edit by a person changes is one they may touch, is not
\* reserved, and keeps its owner; one that it makes is theirs.
LEMMA EditKeepsToOwn ==
    ASSUME IInv, MaxId \notin DOMAIN entries, phase' = "up",
           NEW u \in Owners, NEW body \in Bodies, secret_edit(u, body)
    PROVE  \/ entries' = entries
           \/ \E t : /\ DOMAIN entries' = DOMAIN entries \cup {t}
                     /\ \A i \in DOMAIN entries \ {t} : entries'[i] = entries[i]
                     /\ entries'[t].name \notin GlobalNames
                     /\ t \notin DOMAIN entries => entries'[t].owner = u
                     /\ t \in DOMAIN entries =>
                           /\ may_touch(entries[t], u)
                           /\ entries[t].name \notin GlobalNames
                           /\ entries'[t].owner = entries[t].owner
<1> DEFINE item == stamp(body, NamesExisting(body), u)
           t == target_id(item)
<1>1. phase = "up" /\ (Refused \/ (MayEdit(u, body) /\ Set(item, TRUE)))
  BY DEF secret_edit
<1>2. CASE Refused
  BY <1>2 DEF Refused, vars
<1>3. CASE MayEdit(u, body) /\ Set(item, TRUE) /\ entries' # entries
  <2>1. item \in SentItem /\ body \in SentItem
    BY <1>1, StampIsSent, ApiAssumption
  <2>2. item.id = body.id /\ item.name = body.name
    BY <2>1 DEF stamp, SentItem
  <2>3. item.owner = IF NamesExisting(body) THEN entries[body.id].owner ELSE u
    BY <2>1 DEF stamp, SentItem
  <2> HIDE DEF item
  <2>4. /\ ~SetIsRefused(item, TRUE)
        /\ DOMAIN entries' = DOMAIN entries \cup {t}
        /\ \A i \in DOMAIN entries \ {t} : entries'[i] = entries[i]
        /\ entries'[t] = final_item(item, TRUE)
    BY <1>1, <1>3, <2>1, SetTouchesOne
  <2>5. t \in DOMAIN entries <=> NamesExisting(body)
    BY <1>1, <2>2, NewIdIsFree DEF target_id, NamesExisting
  <2>6. NamesExisting(body) => t = body.id
    BY <2>2 DEF target_id, NamesExisting
  <2> HIDE DEF t
  <2>7. t \in DOMAIN entries => entries[t] \in StoredItem
    BY <1>1 DEF IInv, Running, Consistent
  <2> DEFINE folded == IF t \in DOMAIN entries THEN MergeItem(entries[t], item) ELSE item
  <2>8. /\ folded.name = IF t \in DOMAIN entries /\ item.name = Absent
                         THEN entries[t].name ELSE item.name
        /\ folded.owner = IF t \in DOMAIN entries /\ item.owner = NoOwner
                          THEN entries[t].owner ELSE item.owner
        /\ folded \in SentItem
    BY <2>1, <2>7, MergeFields DEF SentItem
  <2>9. final_item(item, TRUE) = [RestoreHidden(folded, t) EXCEPT !.id = t]
    BY DEF final_item, t
  <2> HIDE DEF folded
  <2>10. /\ final_item(item, TRUE).name = folded.name
         /\ final_item(item, TRUE).owner = folded.owner
    BY <2>8, <2>9 DEF RestoreHidden, SentItem
  <2>11. entries'[t].name \notin GlobalNames
    BY <1>3, <2>2, <2>4, <2>5, <2>6, <2>8, <2>10 DEF MayEdit
  <2>12. t \in DOMAIN entries => /\ may_touch(entries[t], u)
                                 /\ entries[t].name \notin GlobalNames
                                 /\ entries'[t].owner = entries[t].owner
    BY <1>3, <2>3, <2>4, <2>5, <2>6, <2>8, <2>10 DEF MayEdit
  <2>13. t \notin DOMAIN entries => entries'[t].owner = u
    BY <2>3, <2>4, <2>5, <2>8, <2>10
  <2> QED BY <2>4, <2>11, <2>12, <2>13
<1> QED BY <1>1, <1>2, <1>3

LEMMA DeleteKeepsToOwn ==
    ASSUME phase' = "up", NEW u \in Owners, NEW id \in Ids, secret_del(u, id)
    PROVE  \/ entries' = entries
           \/ /\ id \in DOMAIN entries /\ may_touch(entries[id], u)
              /\ entries[id].name \notin GlobalNames
              /\ entries' = [i \in DOMAIN entries \ {id} |-> entries[i]]
  BY DelTouchesOne DEF secret_del, Refused, vars, MayDelete

\* Only the owner and the administrators reach an entry through the generic
\* endpoints, and they cannot give it away (secret_edit, secret_del, stamp).
THEOREM SecretsStayWithOwners == ApiSpec => OwnersKeepTheirSecrets
<1> DEFINE A ==
      MaxId \notin DOMAIN entries /\ caller'.via = "secrets" /\ phase' = "up" =>
         /\ caller'.who \notin Admins =>
               SameOn({i \in DOMAIN entries : entries[i].owner # caller'.who},
                      entries, entries')
         /\ \A i \in DOMAIN entries \cap DOMAIN entries' :
               entries'[i].owner = entries[i].owner
<1>1. ApiInv /\ [ApiNext]_apivars => [A]_apivars
  <2> SUFFICES ASSUME ApiInv, ApiNext, MaxId \notin DOMAIN entries,
                      caller'.via = "secrets", phase' = "up"
               PROVE  A
    OBVIOUS
  <2>1. CASE entries' = entries
    BY <2>1 DEF SameOn
  <2>2. ASSUME NEW u \in Owners, NEW body \in Bodies, secret_edit(u, body)
        PROVE  A
    <3>1. caller'.who = u
      BY <2>2 DEF secret_edit, Calls
    <3>2. CASE entries' # entries
      <4>1. PICK t : /\ DOMAIN entries' = DOMAIN entries \cup {t}
                     /\ \A i \in DOMAIN entries \ {t} : entries'[i] = entries[i]
                     /\ t \in DOMAIN entries =>
                           /\ may_touch(entries[t], u)
                           /\ entries'[t].owner = entries[t].owner
        BY <2>2, <3>2, EditKeepsToOwn DEF ApiInv
      <4> QED BY <3>1, <4>1 DEF SameOn, may_touch
    <3> QED BY <2>1, <3>2
  <2>3. ASSUME NEW u \in Owners, NEW id \in Ids, secret_del(u, id)
        PROVE  A
    <3>1. caller'.who = u
      BY <2>3 DEF secret_del, Calls
    <3>2. CASE entries' # entries
      <4>1. /\ may_touch(entries[id], u)
            /\ entries' = [i \in DOMAIN entries \ {id} |-> entries[i]]
        BY <2>3, <3>2, DeleteKeepsToOwn
      <4> QED BY <3>1, <4>1 DEF SameOn, may_touch
    <3> QED BY <2>1, <3>2
  <2>4. ServerStep => caller'.via = "server"
    BY DEF ServerStep, Calls
  <2>5. ASSUME NEW item, system_secret_set(item) PROVE FALSE
    BY <2>5 DEF system_secret_set, Calls
  <2>6. ASSUME NEW n, system_secret_del(n) PROVE FALSE
    BY <2>6 DEF system_secret_del, Calls
  <2>7. ASSUME NEW a, NEW n, NEW typed, auth_config_read(a, n, typed) PROVE FALSE
    BY <2>7 DEF auth_config_read, Calls
  <2>8. ASSUME NEW a, auth_config_write(a) PROVE FALSE
    BY <2>8 DEF auth_config_write, Calls
  <2>9. ASSUME NEW a, NEW n, auth_config_forget(a, n) PROVE FALSE
    BY <2>9 DEF auth_config_forget, Calls
  <2> HIDE DEF A
  <2> QED BY <2>2, <2>3, <2>4, <2>5, <2>6, <2>7, <2>8, <2>9 DEF ApiNext
<1> QED BY <1>1, ApiInvInductive, PTL DEF ApiSpec, OwnersKeepTheirSecrets

\* A write to an entry by its reserved name leaves all others alone.
LEMMA SystemSetTouchesGlobal ==
    ASSUME IInv, MaxId \notin DOMAIN entries, phase = "up", phase' = "up",
           NEW item \in SentItem, NEW merge \in BOOLEAN,
           item.name \in SystemNames, item.id = IdOfName(item.name), Set(item, merge)
    PROVE  SameOn(DOMAIN entries \ Global(entries), entries, entries')
<1>1. item.name \in Names /\ item.name \in GlobalNames
  BY ApiAssumption
<1>2. target_id(item) \in DOMAIN entries => target_id(item) \in Global(entries)
  <2>1. CASE item.name \in DOMAIN name_index
    BY <1>1, <2>1, IdOfNameIsId DEF target_id, Global
  <2>2. CASE item.name \notin DOMAIN name_index
    BY <2>2, NewIdIsFree DEF IdOfName, target_id
  <2> QED BY <2>1, <2>2
<1> QED BY <1>2, SetTouchesOne DEF SameOn, Global

LEMMA SystemDelTouchesGlobal ==
    ASSUME IInv, phase = "up", phase' = "up", NEW n \in SystemNames,
           n \in DOMAIN name_index, Del(get_by_name(n).id)
    PROVE  SameOn(DOMAIN entries \ Global(entries), entries, entries')
<1>1. n \in Names /\ n \in GlobalNames
  BY ApiAssumption
<1>2. get_by_name(n).id = name_index[n] /\ name_index[n] \in Global(entries)
  BY <1>1, IdOfNameIsId DEF IdOfName, Global
<1> QED BY <1>2, DelTouchesOne DEF SameOn

\* The reserved space is closed to the generic endpoints, and everything
\* outside it to plugins and to the configuration screen.
THEOREM SpacesStayApart == ApiSpec => SpacesDoNotMix
<1> DEFINE A ==
      MaxId \notin DOMAIN entries /\ phase' = "up" =>
         /\ caller'.via = "secrets" =>
               /\ Global(entries') = Global(entries)
               /\ SameOn(Global(entries), entries, entries')
         /\ caller'.via \in {"system", "config"} =>
               SameOn(DOMAIN entries \ Global(entries), entries, entries')
<1>1. ApiInv /\ [ApiNext]_apivars => [A]_apivars
  <2> SUFFICES ASSUME ApiInv, ApiNext, MaxId \notin DOMAIN entries, phase' = "up"
               PROVE  A
    OBVIOUS
  <2> USE DEF ApiInv
  <2>1. CASE entries' = entries
    BY <2>1 DEF SameOn, Global
  <2>2. Refused => entries' = entries
    BY DEF Refused, vars
  <2>3. ASSUME NEW u \in Owners, NEW body \in Bodies, secret_edit(u, body)
        PROVE  A
    <3>1. caller'.via = "secrets"
      BY <2>3 DEF secret_edit, Calls
    <3>2. CASE entries' # entries
      <4>1. PICK t : /\ DOMAIN entries' = DOMAIN entries \cup {t}
                     /\ \A i \in DOMAIN entries \ {t} : entries'[i] = entries[i]
                     /\ entries'[t].name \notin GlobalNames
                     /\ t \in DOMAIN entries => entries[t].name \notin GlobalNames
        BY <2>3, <3>2, EditKeepsToOwn
      <4> QED BY <3>1, <4>1 DEF SameOn, Global
    <3> QED BY <2>1, <3>2
  <2>4. ASSUME NEW u \in Owners, NEW id \in Ids, secret_del(u, id)
        PROVE  A
    <3>1. caller'.via = "secrets"
      BY <2>4 DEF secret_del, Calls
    <3>2. CASE entries' # entries
      <4>1. /\ entries[id].name \notin GlobalNames
            /\ entries' = [i \in DOMAIN entries \ {id} |-> entries[i]]
        BY <2>4, <3>2, DeleteKeepsToOwn
      <4> QED BY <3>1, <4>1 DEF SameOn, Global
    <3> QED BY <2>1, <3>2
  <2>5. ASSUME NEW item \in Bodies, system_secret_set(item)
        PROVE  A
    <3>1. /\ phase = "up" /\ caller'.via = "system"
          /\ Refused \/ (item.name \in SystemNames /\ Set(SystemItem(item), FALSE))
      BY <2>5 DEF system_secret_set, Calls, SystemItem
    <3>2. ASSUME item.name \in SystemNames, Set(SystemItem(item), FALSE)
          PROVE  SameOn(DOMAIN entries \ Global(entries), entries, entries')
      <4>1. SystemItem(item) \in SentItem
        BY <3>1, <3>2, SystemItemIsSent
      <4>2. SystemItem(item).name = item.name /\ SystemItem(item).id = IdOfName(item.name)
        BY ApiAssumption DEF SystemItem, SentItem
      <4> QED BY <3>1, <3>2, <4>1, <4>2, SystemSetTouchesGlobal
    <3> QED BY <2>1, <2>2, <3>1, <3>2
  <2>6. ASSUME NEW n \in Names, system_secret_del(n)
        PROVE  A
    BY <2>1, <2>2, <2>6, SystemDelTouchesGlobal DEF system_secret_del, Calls
  <2>7. ASSUME NEW a \in Admins, auth_config_write(a)
        PROVE  A
    <3>1. /\ phase = "up" /\ pending[a] # Idle /\ Set(ConfigItem(a), TRUE)
          /\ caller'.via # "secrets"
      BY <2>7 DEF auth_config_write, ConfigItem, Calls
    <3>2. ConfigItem(a) \in SentItem /\ pending[a].name \in SystemNames
      BY <3>1, ConfigItemIsSent
    <3>3. ConfigItem(a).name = pending[a].name
          /\ ConfigItem(a).id = IdOfName(ConfigItem(a).name)
      BY DEF ConfigItem
    <3> QED BY <3>1, <3>2, <3>3, SystemSetTouchesGlobal
  <2>8. ASSUME NEW a \in Admins, NEW n \in ConfigNames, auth_config_forget(a, n)
        PROVE  A
    BY <2>1, <2>2, <2>8, SystemDelTouchesGlobal, ApiAssumption DEF auth_config_forget, Calls
  <2>9. CASE ServerStep
    BY <2>9 DEF ServerStep, Calls
  <2> QED BY <2>1, <2>3, <2>4, <2>5, <2>6, <2>7, <2>8, <2>9
          DEF ApiNext, auth_config_read, vars
<1> QED BY <1>1, ApiInvInductive, PTL DEF ApiSpec, SpacesDoNotMix

-----------------------------------------------------------------------------
(* What people are shown.                                                  *)

\* The entries that a person without the admin role is shown and that are not
\* reserved.
OwnedBy(u, e) == {i \in DOMAIN e : e[i].owner = u /\ e[i].name \notin GlobalNames}

\* What a person is shown outside the reserved space depends on nothing else.
LEMMA ViewsAreOfOwned ==
    ASSUME IInv, IInv', NEW u \in Owners \ Admins,
           OwnedBy(u, entries') = OwnedBy(u, entries),
           SameOn(OwnedBy(u, entries), entries, entries')
    PROVE  LET own(l) == {x \in l : x.name \notin GlobalNames} IN
           /\ own(secret_list(u)') = own(secret_list(u))
           /\ \A i \in Ids : own(secret_get(u, i)') = own(secret_get(u, i))
<1> DEFINE own(l) == {x \in l : x.name \notin GlobalNames}
           listed(e) == {[id |-> i, name |-> e[i].name] : i \in OwnedBy(u, e)}
           masked(e, i) == [e[i] EXCEPT !.val = IF @ = Absent THEN Absent ELSE Hidden]
           got(e, i) == IF i \in DOMAIN e /\ e[i].owner = u
                        THEN {masked(e, i)} ELSE {}
<1>1. own(secret_list(u)) = listed(entries) /\ own(secret_list(u)') = listed(entries')
  BY DEF secret_list, may_touch, OwnedBy
<1>2. listed(entries') = listed(entries)
  BY DEF SameOn
<1>3. ASSUME NEW i \in Ids
      PROVE  own(secret_get(u, i)') = own(secret_get(u, i))
  <2>1. secret_get(u, i) = got(entries, i) /\ secret_get(u, i)' = got(entries', i)
    BY DEF secret_get, get_masked, may_touch
  <2> HIDE DEF masked
  <2>2. CASE i \in OwnedBy(u, entries)
    BY <2>1, <2>2 DEF SameOn, OwnedBy, masked
  <2>3. CASE i \notin OwnedBy(u, entries)
    <3>1. /\ masked(entries, i).name = entries[i].name \/ i \notin DOMAIN entries
          /\ masked(entries', i).name = entries'[i].name \/ i \notin DOMAIN entries'
      <4>1. entries \in [DOMAIN entries -> StoredItem]
            /\ entries' \in [DOMAIN entries' -> StoredItem]
        BY DEF IInv, Running, Consistent, EmptyMap
      <4> QED BY <4>1 DEF masked, StoredItem
    <3>2. i \notin OwnedBy(u, entries')
      BY <2>3
    <3>3. own(got(entries, i)) = {} /\ own(got(entries', i)) = {}
      BY <2>3, <3>1, <3>2 DEF OwnedBy
    <3> QED BY <2>1, <3>3
  <2> QED BY <2>2, <2>3
<1> QED BY <1>1, <1>2, <1>3

\* A person's edit or delete leaves what belongs to another as it was.
LEMMA OthersKeepTheirs ==
    ASSUME IInv, MaxId \notin DOMAIN entries, phase' = "up",
           NEW w \in Owners \ Admins, NEW u \in Owners \ {w},
           \/ \E body \in Bodies : secret_edit(w, body)
           \/ \E id \in Ids : secret_del(w, id)
    PROVE  /\ OwnedBy(u, entries') = OwnedBy(u, entries)
           /\ SameOn(OwnedBy(u, entries), entries, entries')
<1>1. CASE entries' = entries
  BY <1>1 DEF OwnedBy, SameOn
<1>2. ASSUME NEW body \in Bodies, secret_edit(w, body), entries' # entries
      PROVE  /\ OwnedBy(u, entries') = OwnedBy(u, entries)
             /\ SameOn(OwnedBy(u, entries), entries, entries')
  <2>1. PICK t : /\ DOMAIN entries' = DOMAIN entries \cup {t}
                 /\ \A i \in DOMAIN entries \ {t} : entries'[i] = entries[i]
                 /\ t \notin DOMAIN entries => entries'[t].owner = w
                 /\ t \in DOMAIN entries => /\ may_touch(entries[t], w)
                                            /\ entries'[t].owner = entries[t].owner
    BY <1>2, EditKeepsToOwn
  <2>2. entries'[t].owner = w /\ (t \in DOMAIN entries => entries[t].owner = w)
    BY <2>1 DEF may_touch
  <2> QED BY <2>1, <2>2 DEF OwnedBy, SameOn
<1>3. ASSUME NEW id \in Ids, secret_del(w, id), entries' # entries
      PROVE  /\ OwnedBy(u, entries') = OwnedBy(u, entries)
             /\ SameOn(OwnedBy(u, entries), entries, entries')
  <2>1. /\ entries[id].owner = w
        /\ entries' = [i \in DOMAIN entries \ {id} |-> entries[i]]
    BY <1>3, DeleteKeepsToOwn DEF may_touch
  <2> QED BY <2>1 DEF OwnedBy, SameOn
<1> QED BY <1>1, <1>2, <1>3

\* A plugin's write ends under the reserved name that it asked for.
LEMMA SystemSetStaysGlobal ==
    ASSUME IInv, MaxId \notin DOMAIN entries, phase = "up", phase' = "up",
           NEW item \in SentItem, item.name \in SystemNames,
           item.id = IdOfName(item.name), Set(item, FALSE)
    PROVE  DOMAIN entries' \ Global(entries') = DOMAIN entries \ Global(entries)
<1>1. SameOn(DOMAIN entries \ Global(entries), entries, entries')
  BY SystemSetTouchesGlobal
<1>2. CASE entries' = entries
  BY <1>2 DEF Global
<1>3. CASE entries' # entries
  <2> DEFINE t == target_id(item)
  <2>1. /\ DOMAIN entries' = DOMAIN entries \cup {t}
        /\ \A i \in DOMAIN entries \ {t} : entries'[i] = entries[i]
        /\ entries'[t] = final_item(item, FALSE)
    BY <1>3, SetTouchesOne
  <2>2. final_item(item, FALSE).name = item.name
    BY DEF final_item, RestoreHidden, SentItem
  <2>3. entries'[t].name \in GlobalNames
    BY <2>1, <2>2, ApiAssumption
  <2> HIDE DEF t
  <2> QED BY <1>1, <2>1, <2>3 DEF SameOn, Global
<1> QED BY <1>2, <1>3

\* What a plugin does leaves everything outside the reserved space as it was.
LEMMA PluginsLeaveAlone ==
    ASSUME IInv, MaxId \notin DOMAIN entries, phase' = "up",
           \/ \E item \in Bodies : system_secret_set(item)
           \/ \E n \in Names : system_secret_del(n)
    PROVE  /\ DOMAIN entries' \ Global(entries') = DOMAIN entries \ Global(entries)
           /\ SameOn(DOMAIN entries \ Global(entries), entries, entries')
<1>1. CASE entries' = entries
  BY <1>1 DEF Global, SameOn
<1>2. ASSUME NEW item \in Bodies, system_secret_set(item), entries' # entries
      PROVE  /\ DOMAIN entries' \ Global(entries') = DOMAIN entries \ Global(entries)
             /\ SameOn(DOMAIN entries \ Global(entries), entries, entries')
  <2>1. /\ phase = "up" /\ item.name \in SystemNames
        /\ Set(SystemItem(item), FALSE)
    BY <1>2 DEF system_secret_set, SystemItem, Refused, vars
  <2>2. SystemItem(item) \in SentItem
    BY <2>1, SystemItemIsSent
  <2>3. SystemItem(item).name = item.name /\ SystemItem(item).id = IdOfName(item.name)
    BY ApiAssumption DEF SystemItem, SentItem
  <2> QED BY <2>1, <2>2, <2>3, SystemSetStaysGlobal, SystemSetTouchesGlobal
<1>3. ASSUME NEW n \in Names, system_secret_del(n), entries' # entries
      PROVE  /\ DOMAIN entries' \ Global(entries') = DOMAIN entries \ Global(entries)
             /\ SameOn(DOMAIN entries \ Global(entries), entries, entries')
  <2>1. /\ phase = "up" /\ n \in SystemNames /\ n \in DOMAIN name_index
        /\ Del(get_by_name(n).id)
    BY <1>3 DEF system_secret_del, Refused, vars
  <2>2. get_by_name(n).id = name_index[n] /\ name_index[n] \in Global(entries)
    BY <2>1, IdOfNameIsId, ApiAssumption DEF IdOfName, Global
  <2>3. entries' = [i \in DOMAIN entries \ {name_index[n]} |-> entries[i]]
    BY <1>3, <2>1, <2>2, DelTouchesOne
  <2> QED BY <2>2, <2>3 DEF SameOn, Global
<1> QED BY <1>1, <1>2, <1>3

\* An entry is its four fields.
LEMMA ItemFields ==
    ASSUME NEW e \in StoredItem, NEW v
    PROVE  /\ e = [id |-> e.id, name |-> e.name, val |-> e.val, owner |-> e.owner]
           /\ [e EXCEPT !.val = v]
                = [id |-> e.id, name |-> e.name, val |-> v, owner |-> e.owner]
           /\ v \in {Absent, Hidden} => [e EXCEPT !.val = v] \in SentItem
  BY DEF StoredItem, SentItem

\* An entry folded onto itself with its value hidden is itself.
LEMMA HiddenFoldsBack ==
    ASSUME NEW i \in DOMAIN entries, entries[i] \in StoredItem, entries[i].id = i,
           i # MaxId, NEW item, item = [get_masked(i) EXCEPT !.owner = entries[i].owner]
    PROVE  item \in SentItem /\ target_id(item) = i /\ final_item(item, TRUE) = entries[i]
<1> DEFINE e == entries[i]
           v == IF e.val = Absent THEN Absent ELSE Hidden
<1>1. v \in {Absent, Hidden} /\ (v = Absent <=> e.val = Absent) /\ e.val # Hidden
  BY SentinelAssumption DEF StoredItem
<1>2. item = [e EXCEPT !.val = v]
  BY DEF get_masked, StoredItem
<1> HIDE DEF v
<1>3. /\ item \in SentItem /\ item.id = i /\ item.name = e.name
      /\ item.val = v /\ item.owner = e.owner
  <2>1. /\ [e EXCEPT !.val = v]
             = [id |-> e.id, name |-> e.name, val |-> v, owner |-> e.owner]
        /\ [e EXCEPT !.val = v] \in SentItem
    BY <1>1, ItemFields, Zenon
  <2>2. item = [id |-> e.id, name |-> e.name, val |-> v, owner |-> e.owner]
    BY <1>2, <2>1
  <2> QED BY <1>2, <2>1, <2>2
<1>4. target_id(item) = i
  BY <1>3 DEF target_id
<1>5. MergeItem(e, item) = [e EXCEPT !.name = e.name, !.val = v, !.owner = e.owner]
  BY <1>1, <1>3 DEF MergeItem
<1>6. MergeItem(e, item) = item
  BY <1>2, <1>5 DEF StoredItem
<1>7. RestoreHidden(item, i) = e
  <2>1. CASE v = Hidden
    <3>1. RestoreHidden(item, i) = [item EXCEPT !.val = e.val]
      BY <1>3, <2>1 DEF RestoreHidden
    <3> QED BY <1>2, <3>1 DEF StoredItem
  <2>2. CASE v = Absent
    <3>1. RestoreHidden(item, i) = item
      BY <1>1, <1>3, <2>2, SentinelAssumption DEF RestoreHidden
    <3> QED BY <1>1, <1>2, <2>2, <3>1 DEF StoredItem
  <2> QED BY <1>1, <2>1, <2>2
<1>8. [e EXCEPT !.id = i] = e
  BY DEF StoredItem
<1>9. final_item(item, TRUE) = [RestoreHidden(MergeItem(e, item), i) EXCEPT !.id = i]
  BY <1>4 DEF final_item
<1> QED BY <1>3, <1>4, <1>6, <1>7, <1>8, <1>9

\* What was shown and is written back changes nothing.
LEMMA ShownWritesBack ==
    ASSUME IInv, MaxId \notin DOMAIN entries, phase' = "up", NEW w,
           NEW i \in DOMAIN entries, NEW o,
           secret_edit(w, [get_masked(i) EXCEPT !.owner = o])
    PROVE  i \in DOMAIN entries' /\ entries'[i] = entries[i]
<1> DEFINE body == [get_masked(i) EXCEPT !.owner = o]
           item == stamp(body, NamesExisting(body), w)
<1>1. phase = "up" /\ (Refused \/ Set(item, TRUE))
  BY DEF secret_edit
<1>2. entries[i] \in StoredItem /\ entries[i].id = i /\ i # MaxId
  BY <1>1 DEF IInv, Running, Consistent
<1>3. body.id = i /\ NamesExisting(body)
  BY <1>2 DEF get_masked, StoredItem, NamesExisting
<1>4. item = [get_masked(i) EXCEPT !.owner = entries[i].owner]
  BY <1>2, <1>3 DEF stamp, get_masked, StoredItem
<1> HIDE DEF item
<1>5. item \in SentItem /\ target_id(item) = i /\ final_item(item, TRUE) = entries[i]
  BY <1>2, <1>4, HiddenFoldsBack
<1>6. CASE Refused
  BY <1>6 DEF Refused, vars
<1>7. CASE Set(item, TRUE)
  BY <1>1, <1>5, <1>7, SetTouchesOne
<1> QED BY <1>1, <1>6, <1>7

\* What a person is shown is their own affair, and what they were shown can be
\* written back and changes nothing (secret_list, secret_get, secret_edit).
THEOREM ViewsAreOfTheirOwn == ApiSpec => ViewsAreHonest
<1> DEFINE A == MaxId \notin DOMAIN entries /\ phase' = "up" =>
                  /\ caller'.via # "server" => OwnViews
                  /\ caller'.via = "secrets" => RoundTrips
<1>1. ApiInv /\ [ApiNext]_apivars => [A]_apivars
  <2> SUFFICES ASSUME ApiInv, ApiNext, MaxId \notin DOMAIN entries, phase' = "up"
               PROVE  A
    OBVIOUS
  <2>0. IInv'
    BY ApiStepIsStoreStep, StepIInv DEF ApiInv
  <2>1. RoundTrips
    <3> SUFFICES ASSUME NEW i \in DOMAIN entries, NEW shown \in secret_get(caller'.who, i),
                        NEW o \in Owners \cup {NoOwner},
                        secret_edit(caller'.who, [shown EXCEPT !.owner = o])
                 PROVE  i \in DOMAIN entries' /\ entries'[i] = entries[i]
      BY DEF RoundTrips
    <3>1. shown = get_masked(i)
      BY DEF secret_get
    <3> QED BY <3>1, ShownWritesBack DEF ApiInv
  <2>2. ASSUME caller'.via # "server", caller'.who \notin Admins,
               NEW u \in Owners \ (Admins \cup {caller'.who})
        PROVE  /\ OwnedBy(u, entries') = OwnedBy(u, entries)
               /\ SameOn(OwnedBy(u, entries), entries, entries')
    <3>1. ASSUME NEW w \in Owners,
                 \/ \E body \in Bodies : secret_edit(w, body)
                 \/ \E id \in Ids : secret_del(w, id)
          PROVE  /\ OwnedBy(u, entries') = OwnedBy(u, entries)
                 /\ SameOn(OwnedBy(u, entries), entries, entries')
      <4>1. \A body \in Bodies : secret_edit(w, body) => caller'.who = w
        BY DEF secret_edit, Calls
      <4>2. \A id \in Ids : secret_del(w, id) => caller'.who = w
        BY DEF secret_del, Calls
      <4> QED BY <2>2, <3>1, <4>1, <4>2, OthersKeepTheirs DEF ApiInv
    <3>2. ASSUME \/ \E item \in Bodies : system_secret_set(item)
                 \/ \E n \in Names : system_secret_del(n)
          PROVE  /\ OwnedBy(u, entries') = OwnedBy(u, entries)
                 /\ SameOn(OwnedBy(u, entries), entries, entries')
      BY <3>2, PluginsLeaveAlone DEF ApiInv, OwnedBy, Global, SameOn
    <3>3. ASSUME NEW a \in Admins
          PROVE  /\ \A n, typed : ~auth_config_read(a, n, typed)
                 /\ ~auth_config_write(a)
                 /\ \A n : ~auth_config_forget(a, n)
      <4>1. \A n, typed : auth_config_read(a, n, typed) => caller'.who = a
        BY DEF auth_config_read, Calls
      <4>2. auth_config_write(a) => caller'.who = a
        BY DEF auth_config_write, Calls
      <4>3. \A n : auth_config_forget(a, n) => caller'.who = a
        BY DEF auth_config_forget, Calls
      <4> QED BY <2>2, <4>1, <4>2, <4>3
    <3>4. ServerStep => caller'.via = "server"
      BY DEF ServerStep, Calls
    <3> QED BY <2>2, <3>1, <3>2, <3>3, <3>4 DEF ApiNext
  <2>3. caller'.via # "server" => OwnViews
    BY <2>0, <2>2, ViewsAreOfOwned DEF OwnViews, ApiInv
  <2> QED BY <2>1, <2>3
<1> QED BY <1>1, ApiInvInductive, PTL DEF ApiSpec, ViewsAreHonest
==============================================================================
