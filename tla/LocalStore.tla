---------------------------- MODULE LocalStore ----------------------------
(***************************************************************************)
(* state/store_local.rs: one collection of items kept in files, and the    *)
(* settings file beside it.                                                *)
(*                                                                         *)
(* An item is a directory named after its id with a data.js in it; `cnt`   *)
(* holds the highest id.  Request threads share the maps `items` and       *)
(* `items_count`, each behind a mutex of its own, and the files, which are *)
(* behind none.  The counter file is written with the mutex of items_count *)
(* held, so that write is one step.  The process may die at any moment.    *)
(*                                                                         *)
(* Nothing keeps two writers of one item apart, and a request that fails   *)
(* or dies takes its number with it.  `clashed` and `cut` record whether   *)
(* that has happened, and the properties say what holds as long as not.    *)
(***************************************************************************)
EXTENDS AtomicWrite, FiniteSets

CONSTANTS Tasks,        \* request threads
          MaxId,        \* u64::MAX
          ClientIds,    \* ids that clients ask for by themselves
          Seeds,        \* the sets of items a first start may find
          WritesFail    \* the disk may refuse a write

Ids == 1 .. MaxId

\* The settings file is path 0.
Settings == 0

ASSUME LocalStoreAssumption ==
    /\ MaxId \in Nat /\ MaxId >= 2 /\ MaxOps \in Nat /\ MaxOps >= 1
    /\ Paths = Ids \cup {Settings}
    /\ ClientIds \subseteq Ids \ {MaxId}
    /\ Seeds \subseteq {1 .. n : n \in 0 .. (MaxId - 1)}
    /\ \A S \in Seeds : Cardinality(S) < MaxOps
    /\ WritesFail \in BOOLEAN

VARIABLES dirs,         \* ids that have a directory
          cnt,          \* the counter file, -1 when it is not there
          up,           \* the process runs
          items,        \* known ids
          items_count,  \* the running highest id
          task,         \* requests in progress
          ops,          \* writes begun so far
          acked,        \* per path, the last write that returned success
          clashed,      \* paths on which two writes overlapped
          cut           \* how writes have ended short: "failed", "died"

vars == <<file, tmp, content, dirs, cnt, up, items, items_count, task, ops,
          acked, clashed, cut>>

IdleTask == [pc |-> "idle", op |-> 0, path |-> 0, merge |-> FALSE,
             inode |-> 0, body |-> {}]

\* A request holds its path from the moment it knows it.
Busy(t) == task[t].pc \notin {"idle", "alloc"}

-----------------------------------------------------------------------------
(* connect, and the end of the process.                                    *)

\* Without a readable counter the collection is entered empty.
connect ==
    /\ ~up
    /\ up' = TRUE
    /\ items' = IF cnt = -1 THEN {} ELSE dirs
    /\ items_count' = IF cnt = -1 THEN 0 ELSE cnt
    /\ UNCHANGED <<file, tmp, content, dirs, cnt, task, ops, acked, clashed, cut>>

Die ==
    /\ up
    /\ up' = FALSE
    /\ items' = {} /\ items_count' = 0
    /\ task' = [t \in Tasks |-> IdleTask]
    /\ cut' = cut \cup (IF \E t \in Tasks : task[t].pc # "idle" THEN {"died"} ELSE {})
    /\ UNCHANGED <<file, tmp, content, dirs, cnt, ops, acked, clashed>>

-----------------------------------------------------------------------------
(* set_item and set_settings.                                              *)

\* The paths on which t's request would overlap another if it had path p.
Overlap(t, p) == IF \E u \in Tasks \ {t} : Busy(u) /\ task[u].path = p
                 THEN {p} ELSE {}

\* Writes are numbered in the order in which they learn their path.
Enter(t, p, merge) ==
    /\ ops < MaxOps
    /\ ops' = ops + 1
    /\ task' = [task EXCEPT ![t] = [IdleTask EXCEPT !.pc = "read", !.op = ops',
                                       !.path = p, !.merge = merge]]
    /\ clashed' = clashed \cup Overlap(t, p)
    /\ UNCHANGED <<file, tmp, content, dirs, cnt, up, items, acked, cut>>

set_item(t, id, merge) ==
    /\ up
    /\ task[t].pc = "idle"
    /\ Enter(t, id, merge)
    /\ UNCHANGED items_count

\* An item without an id of its own is asked for as u64::MAX.
set_new_item(t, merge) ==
    /\ up
    /\ task[t].pc = "idle"
    /\ task' = [task EXCEPT ![t].pc = "alloc", ![t].merge = merge]
    /\ UNCHANGED <<file, tmp, content, dirs, cnt, up, items, items_count, ops,
                   acked, clashed, cut>>

\* Settings are written whole, without a look at the old ones.
set_settings(t) ==
    /\ up
    /\ task[t].pc = "idle"
    /\ Enter(t, Settings, FALSE)
    /\ UNCHANGED items_count

\* saturating_add
NextId == IF items_count < MaxId THEN items_count + 1 ELSE MaxId

Allocate(t) ==
    /\ task[t].pc = "alloc"
    /\ items_count' = NextId
    /\ Enter(t, NextId, task[t].merge)

\* Mutant: the stored item is not read.
ReadNothing(t) ==
    /\ task[t].pc = "read"
    /\ dirs' = dirs \cup ({task[t].path} \ {Settings})
    /\ task' = [task EXCEPT ![t].pc = "open", ![t].body = {task[t].op}]
    /\ UNCHANGED <<file, tmp, content, cnt, up, items, items_count, ops, acked, clashed, cut>>

\* get_item, the merge, and create_dir, whose error is ignored.
ReadOld(t) ==
    LET p == task[t].path
    IN  /\ task[t].pc = "read"
        /\ dirs' = dirs \cup ({p} \ {Settings})
        /\ task' = [task EXCEPT ![t].pc = "open",
                       ![t].body = {task[t].op} \cup
                                      (IF task[t].merge THEN read_json(p) ELSE {})]
        /\ UNCHANGED <<file, tmp, content, cnt, up, items, items_count, ops,
                       acked, clashed, cut>>

Stage(t) ==
    /\ task[t].pc = "open"
    /\ OpenSibling(task[t].path, task[t].op)
    /\ task' = [task EXCEPT ![t].pc = "write",
                   ![t].inode = OpenedBy(task[t].path, task[t].op)]
    /\ UNCHANGED <<dirs, cnt, up, items, items_count, ops, acked, clashed, cut>>

StageBody(t) ==
    /\ task[t].pc = "write"
    /\ WriteAll(task[t].inode, task[t].body)
    /\ task' = [task EXCEPT ![t].pc = "rename"]
    /\ UNCHANGED <<dirs, cnt, up, items, items_count, ops, acked, clashed, cut>>

\* The caller is told u64::MAX, or false.
Fail(t) ==
    /\ RemoveStaged(task[t].path)
    /\ task' = [task EXCEPT ![t] = IdleTask]
    /\ cut' = cut \cup {"failed"}
    /\ UNCHANGED <<dirs, cnt, up, items, items_count, ops, acked, clashed>>

DiskRefuses(t) ==
    /\ WritesFail
    /\ task[t].pc \in {"open", "write", "rename"}
    /\ Fail(t)

NothingToRename(t) ==
    /\ task[t].pc = "rename"
    /\ tmp[task[t].path] = 0
    /\ Fail(t)

Publish(t) ==
    LET p == task[t].path
    IN  /\ task[t].pc = "rename"
        /\ Rename(p)
        /\ IF p = Settings
           THEN /\ task' = [task EXCEPT ![t] = IdleTask]
                /\ acked' = [acked EXCEPT ![p] = task[t].op]
           ELSE /\ task' = [task EXCEPT ![t].pc = "remember"]
                /\ UNCHANGED acked
        /\ UNCHANGED <<dirs, cnt, up, items, items_count, ops, clashed, cut>>

Remember(t) ==
    /\ task[t].pc = "remember"
    /\ items' = items \cup {task[t].path}
    /\ task' = [task EXCEPT ![t].pc = "count"]
    /\ UNCHANGED <<file, tmp, content, dirs, cnt, up, items_count, ops, acked, clashed, cut>>

\* Mutant: only an id past the highest one is persisted, so never one that
\* was just allocated.
PastHigh(id) == id > items_count

RaisesHigh(id) == id >= items_count

\* A counter file that cannot be written is logged and the item returned.
Count(t) ==
    LET id == task[t].path
    IN  /\ task[t].pc = "count"
        /\ IF RaisesHigh(id)
           THEN /\ items_count' = id
                /\ \/ cnt' = id /\ UNCHANGED cut
                   \/ WritesFail /\ UNCHANGED cnt /\ cut' = cut \cup {"failed"}
           ELSE UNCHANGED <<items_count, cnt, cut>>
        /\ task' = [task EXCEPT ![t] = IdleTask]
        /\ acked' = [acked EXCEPT ![id] = task[t].op]
        /\ UNCHANGED <<file, tmp, content, dirs, up, items, ops, clashed>>

\* The directory it would remove is not the one the item is in (the path
\* lacks "/collection"), so only the map forgets the id.
del_item(id) ==
    /\ up
    /\ id \in items
    /\ items' = items \ {id}
    /\ UNCHANGED <<file, tmp, content, dirs, cnt, up, items_count, task, ops,
                   acked, clashed, cut>>

-----------------------------------------------------------------------------
(* A collection directory without a counter, or with some items in it.     *)

Init ==
    /\ dirs \in Seeds
    /\ cnt = IF dirs = {} THEN -1 ELSE Cardinality(dirs)
    /\ file = [p \in Paths |-> IF p \in dirs THEN p ELSE 0]
    /\ tmp = [p \in Paths |-> 0]
    /\ content = [i \in Inodes |-> IF i \in dirs THEN {i} ELSE {}]
    /\ ops = Cardinality(dirs)
    /\ acked = file
    /\ up = FALSE /\ items = {} /\ items_count = 0
    /\ task = [t \in Tasks |-> IdleTask]
    /\ clashed = {} /\ cut = {}

Next ==
    \/ connect
    \/ Die
    \/ \E t \in Tasks :
          \/ \E id \in ClientIds, merge \in BOOLEAN : set_item(t, id, merge)
          \/ \E merge \in BOOLEAN : set_new_item(t, merge)
          \/ set_settings(t)
          \/ Allocate(t)
          \/ ReadOld(t)
          \/ Stage(t)
          \/ StageBody(t)
          \/ DiskRefuses(t)
          \/ NothingToRename(t)
          \/ Publish(t)
          \/ Remember(t)
          \/ Count(t)
    \/ \E id \in ClientIds : del_item(id)

Spec == Init /\ [][Next]_vars

-----------------------------------------------------------------------------
TaskState == [pc : {"idle", "alloc", "read", "open", "write", "rename",
                    "remember", "count"},
              op : 0 .. MaxOps, path : Paths, merge : BOOLEAN,
              inode : 0 .. MaxOps, body : Bodies]

\* Every variable has its type.
TypeOK ==
    /\ file \in [Paths -> 0 .. MaxOps] /\ tmp \in [Paths -> 0 .. MaxOps]
    /\ content \in [Inodes -> Bodies]
    /\ dirs \subseteq Ids /\ cnt \in Ids \cup {-1}
    /\ up \in BOOLEAN /\ items \subseteq Ids /\ items_count \in Ids \cup {0}
    /\ task \in [Tasks -> TaskState]
    /\ ops \in 0 .. MaxOps /\ acked \in [Paths -> 0 .. MaxOps]
    /\ clashed \subseteq Paths /\ cut \subseteq {"failed", "died"}

\* A reader of a file that no two writers wrote at a time sees the old item
\* or the new one, never a half of either, and never one older than the last
\* write that returned: not while a write is on its way, not after it failed,
\* not after the process died in the middle of it (atomic_write, get_item).
ReadersSeeWholeFiles ==
    \A p \in Paths \ clashed :
        /\ file[p] # 0 => Whole(content[file[p]])
        /\ acked[p] # 0 => \E o \in read_json(p) : o >= acked[p]

\* A merge does not lose what a returned write put in: the fields of the last
\* write that returned stay in the file until a write that replaces the whole
\* item is published (set_item with merge, on a file nobody else writes).
MergesKeepFields ==
    [][\A p \in Paths : \A t \in Tasks :
          /\ task[t].pc = "rename" /\ task[t].path = p /\ task[t].merge
          /\ task'[t].pc = "remember" /\ p \notin clashed
          => read_json(p) \subseteq read_json(p)']_vars

\* The counter never hands out an id whose item a caller was told about, in
\* this process or an earlier one, as long as no write failed or died on its
\* way and the counter has not reached u64::MAX (the counter lock in set_item,
\* `cnt`, connect).
AllocatedIdsAreFresh ==
    [][\A t \in Tasks :
          task[t].pc = "alloc" /\ task'[t].pc = "read" /\ cut = {} /\ task'[t].path # MaxId
             => acked[task'[t].path] = 0]_vars

\* What is listed can be read: an id gets into the map only after its file was
\* published, and a restart finds the same (set_item, connect), as long as no
\* write was cut short after it made its directory.
ListedItemsAreReadable ==
    cut = {} => \A id \in items \ clashed : read_json(id) # {}

\* A write that fails takes its staging file with it: with no request running,
\* none is left but after the process died in the middle of one (finish).
NoLitter ==
    (\A t \in Tasks : task[t].pc = "idle") /\ "died" \notin cut =>
        \A p \in Paths : tmp[p] = 0

\* What the files of a collection promise, together: whole for whoever reads
\* them, there for whatever is listed, and nothing beside them.
StoreInv == TypeOK /\ ReadersSeeWholeFiles /\ ListedItemsAreReadable /\ NoLitter
=============================================================================
