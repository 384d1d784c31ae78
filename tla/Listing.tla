------------------------------ MODULE Listing ------------------------------
(* Lists of items over the file store: StoreLocal::get_items and              *)
(* get_all_items, and the list by id of itm_list (server/itm.rs).             *)
(*                                                                            *)
(* A list takes the known ids at one moment, sorted, and then reads the items *)
(* one by one, while requests write and delete.  u64::MAX (MaxId) stands for  *)
(* a bound, a skip or a limit that was not given.                             *)
EXTENDS LocalStore, SequencesExt

CONSTANTS IdMins, IdMaxs, Skips, Limits,   \* parameters that clients send
          IdLists,                         \* lists of ids that clients send
          ListSeeds  \* bound: lists are asked for over these first items

ASSUME ListingAssumption ==
    /\ IdMins \cup IdMaxs \subseteq 1 .. MaxId
    /\ Skips \cup Limits \subseteq 0 .. MaxId
    /\ IdLists \subseteq Seq(Ids)
    /\ ListSeeds \subseteq Seeds

VARIABLE reader

listingVars == <<vars, reader>>

NoReader == [pc |-> "idle", by |-> "range", ids |-> <<>>, todo |-> <<>>,
             found |-> <<>>, page |-> {}, skip |-> 0, limit |-> 0, count |-> 0,
             total |-> 0]

\* sort_unstable.
Ascending(s) == \A i, j \in DOMAIN s : i < j => s[i] < s[j]
Sorted(S) == CHOOSE s \in [1 .. Cardinality(S) -> S] : Ascending(s)
Unset(n, default) == IF n = MaxId THEN default ELSE n

\* Begins: in a process that runs, one list at a time.
Quiet == up /\ reader.pc = "idle"

\* The ids between the bounds; skip and limit count them in their order.
get_items(id_min, id_max, skip, limit) ==
    LET known == {id \in items : id >= Unset(id_min, 0) /\ id <= id_max}
    IN  /\ Quiet
        /\ reader' = [NoReader EXCEPT !.pc = "walk", !.ids = Sorted(known),
                         !.todo = Sorted(known), !.skip = Unset(skip, 0),
                         !.limit = limit, !.total = Cardinality(known)]
        /\ UNCHANGED vars

get_all_items == get_items(MaxId, MaxId, MaxId, MaxId)

\* itm_list with an id_list: all of them are read before the page is cut.
itm_list_ids(id_list, skip, limit) ==
    /\ Quiet
    /\ reader' = [NoReader EXCEPT !.pc = "walk", !.by = "list", !.ids = id_list,
                     !.todo = id_list, !.skip = Unset(skip, 0), !.limit = limit]
    /\ UNCHANGED vars

\* A plausible bug: one item too many.
PastLimitLate(count) == count > reader.skip + reader.limit

PastLimit(count) == count - reader.skip >= reader.limit

\* get_item.  A file that is not there or does not parse is passed over.
Readable(id) == read_json(id) # {}

\* One turn of the loop of get_items.
Walk ==
    LET id == Head(reader.todo) IN
    /\ up /\ reader.pc = "walk" /\ reader.by = "range"
    /\ reader' = IF reader.todo = <<>>
                    \/ (reader.count >= reader.skip /\ PastLimit(reader.count))
       THEN [reader EXCEPT !.pc = "read", !.todo = <<>>]
       ELSE [reader EXCEPT !.todo = Tail(@), !.count = @ + 1,
               !.page = IF reader.count >= reader.skip /\ Readable(id)
                          THEN @ \cup {id} ELSE @]
    /\ UNCHANGED vars

\* One turn of the loop over the id_list, which keeps what it found.
Fetch ==
    LET id == Head(reader.todo) IN
    /\ up /\ reader.pc = "walk" /\ reader.by = "list" /\ reader.todo # <<>>
    /\ reader' = [reader EXCEPT !.todo = Tail(@),
                    !.found = IF Readable(id) THEN Append(@, id) ELSE @]
    /\ UNCHANGED vars

\* The places an id has once what was found is sorted: after those of all the
\* lower ids, as many as it was found times.
Places(found, id) ==
    LET upto(bound) == Cardinality({i \in DOMAIN found : found[i] <= bound})
    IN  upto(id - 1) + 1 .. upto(id)

\* sort_by_key, skip and take.
Paginate ==
    LET found == reader.found
        end == reader.skip + Unset(reader.limit, Len(found))
    IN
    /\ up /\ reader.pc = "walk" /\ reader.by = "list" /\ reader.todo = <<>>
    /\ reader' = [reader EXCEPT !.pc = "read", !.total = Len(found),
                    !.page = {id \in ToSet(found) :
                                Places(found, id) \cap reader.skip + 1 .. end # {}}]
    /\ UNCHANGED vars

\* saturating_sub.  What a query matched is not recounted.
TotalAfter(withheld) ==
    IF reader.by = "range" THEN reader.total
    ELSE IF withheld < reader.total THEN reader.total - withheld ELSE 0

\* The list filter hooks withhold some of the page, and the client is answered.
Answer ==
    /\ up /\ reader.pc = "read"
    /\ \E shown \in SUBSET reader.page :
         reader' = [reader EXCEPT !.pc = "done", !.found = <<>>, !.page = shown,
                      !.total = TotalAfter(Cardinality(reader.page \ shown))]
    /\ UNCHANGED vars

ListingInit ==
    /\ Init
    /\ reader = [NoReader EXCEPT !.pc = IF dirs \in ListSeeds THEN "idle" ELSE "none"]

\* A list that is on its way dies with the process.
ReaderAfter == IF up' \/ reader.pc \in {"none", "done"} THEN reader ELSE NoReader

Lists ==
    \/ \E id_min \in IdMins, id_max \in IdMaxs, skip \in Skips, limit \in Limits :
          get_items(id_min, id_max, skip, limit)
    \/ get_all_items
    \/ \E id_list \in IdLists, skip \in Skips, limit \in Limits :
          itm_list_ids(id_list, skip, limit)
    \/ Walk \/ Fetch \/ Paginate \/ Answer

ListingNext ==
    \/ Next /\ reader' = ReaderAfter
    \/ Lists

ListingSpec == ListingInit /\ [][ListingNext]_listingVars

-----------------------------------------------------------------------------
\* The id at this place of the known ones, counted from 0.
Place(id) == Cardinality({x \in ToSet(reader.ids) : x < id})

\* A page of the store is the ids at its places in the list as it began: a
\* write, a delete or an allocation while the items are read one by one shifts
\* no item to another page and loses none, unless its file was torn or its
\* write was cut short (get_items).
PagesAreExact ==
    reader.pc = "read" /\ reader.by = "range" =>
        LET due == {id \in ToSet(reader.ids) :
                      Place(id) \in reader.skip .. (reader.skip + reader.limit - 1)}
        IN  /\ reader.total = Len(reader.ids)
            /\ reader.page \subseteq due
            /\ cut = {} /\ clashed = {} => reader.page = due

\* An item of an id list that the hooks withheld is answered like one that is
\* not there: without paging, the total counts what is shown and no more, as
\* long as no id is asked for twice (the recount at the end of itm_list).
WithheldReadsAsMissing ==
    /\ reader.pc = "done" /\ reader.by = "list"
    /\ reader.skip = 0 /\ reader.limit = MaxId /\ IsInjective(reader.ids)
    => reader.total = Cardinality(reader.page)

\* What itm_list answers, by range and by id, is what was listed and shown.
ListsAreExact == PagesAreExact /\ WithheldReadsAsMissing
=============================================================================
