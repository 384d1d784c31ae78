----------------------------- MODULE MongoItems ------------------------------
(***************************************************************************)
(* Identifiers in state/store_mongo.rs: set_item, del_item, alloc_id,      *)
(* raise_counter and the part of connect that seeds the counter, for one   *)
(* declared collection that several server processes share.                *)
(*                                                                         *)
(* The database (external) holds the documents and one counter document    *)
(* per collection; each process keeps the ids it knows (`items`) and the   *)
(* largest of them (`items_count`).  Every database call is awaited, so it *)
(* is an action of its own.  A document is abstracted to its id and the    *)
(* number of the operation that wrote it last.                             *)
(***************************************************************************)
EXTENDS Naturals

CONSTANTS
    Procs,      \* server processes on the same database
    Tasks,      \* concurrent requests
    ClientIds,  \* ids that callers choose themselves
    MaxSeq,     \* i64::MAX: the largest value of the counter
    MaxId,      \* u64::MAX: the largest id, and the request for a new one
    MaxOps,     \* bound on the number of requests
    Faults      \* calls that may fail: a subset of {"alloc", "raise", "read", "write"}

ASSUME MongoItemsAssumption ==
    /\ MaxSeq \in Nat /\ MaxId \in Nat /\ MaxOps \in Nat
    /\ MaxSeq < MaxId
    /\ ClientIds \subseteq 0 .. MaxId - 1

VARIABLES
    docs,         \* the documents of the collection
    seq,          \* the shared counter; 0 stands for no counter document too
    phase,        \* of each process: "down", "connecting" or "up"
    items,        \* StoreMongo.items of each process
    items_count,  \* StoreMongo.items_count of each process
    task,         \* the state of each request
    ops,          \* number of requests begun
    settled,      \* history: ids that a set_item has returned
    given,        \* history: ids that alloc_id has returned
    deleted       \* history: ids that a del_item was called for

vars == <<docs, seq, phase, items, items_count, task, ops, settled, given, deleted>>

Ids == 0 .. MaxId

IdsOf(D) == {d.id : d \in D}

Larger(a, b) == IF a >= b THEN a ELSE b

Smaller(a, b) == IF a <= b THEN a ELSE b

IdleTask(p) == [pc |-> "idle", proc |-> p, op |-> 0, id |-> 0,
                chosen |-> FALSE, found |-> FALSE]

-----------------------------------------------------------------------------
(* The beginning of set_item and del_item.                                 *)

Begin(t, p, pc, id, chosen) ==
    /\ task[t].pc = "idle"
    /\ phase[p] = "up"
    /\ ops < MaxOps
    /\ ops' = ops + 1
    /\ task' = [task EXCEPT ![t] = [pc |-> pc, proc |-> p, op |-> ops', id |-> id,
                                    chosen |-> chosen, found |-> FALSE]]
    /\ UNCHANGED <<docs, seq, phase, items, items_count, settled, given>>

SetNew(t, p) == Begin(t, p, "alloc", MaxId, FALSE) /\ UNCHANGED deleted

SetChosen(t, p, i) == Begin(t, p, "look", i, TRUE) /\ UNCHANGED deleted

DelItem(t, p, i) == Begin(t, p, "delete", i, FALSE) /\ deleted' = deleted \cup {i}

-----------------------------------------------------------------------------
(* alloc_id: one findAndModify on the counter, then the process's own      *)
(* high-water mark; or, when the counter cannot be had, the mark alone.    *)

AllocCounter(t) ==
    /\ task[t].pc = "alloc"
    /\ seq < MaxSeq
    /\ seq' = seq + 1
    /\ task' = [task EXCEPT ![t].pc = "note", ![t].id = seq']
    /\ given' = given \cup {seq'}
    /\ UNCHANGED <<docs, phase, items, items_count, ops, settled, deleted>>

NoteHigh(t) ==
    /\ task[t].pc = "note"
    /\ items_count' = [items_count EXCEPT ![task[t].proc] = Larger(@, task[t].id)]
    /\ task' = [task EXCEPT ![t].pc = "look"]
    /\ UNCHANGED <<docs, seq, phase, items, ops, settled, given, deleted>>

\* saturating_add(1)
NextHigh(h) == Smaller(h + 1, MaxId)

\* The counter is at its end, or its answer was lost (before or after the
\* increment).
AllocFallback(t) ==
    /\ task[t].pc = "alloc"
    /\ "alloc" \in Faults \/ seq = MaxSeq
    /\ seq' \in {seq, Smaller(seq + 1, MaxSeq)}
    /\ LET next == NextHigh(items_count[task[t].proc])
       IN  /\ items_count' = [items_count EXCEPT ![task[t].proc] = next]
           /\ task' = [task EXCEPT ![t].pc = "look", ![t].id = next]
           /\ given' = given \cup {next}
    /\ UNCHANGED <<docs, phase, items, ops, settled, deleted>>

-----------------------------------------------------------------------------
(* The rest of set_item.                                                   *)

\* get_item answers None when the database fails it, too.
Look(t) ==
    /\ task[t].pc = "look"
    /\ \E found \in {task[t].id # MaxId /\ task[t].id \in IdsOf(docs)}
                    \cup (IF "read" \in Faults THEN {FALSE} ELSE {}) :
           task' = [task EXCEPT ![t].pc = "write", ![t].found = found]
    /\ UNCHANGED <<docs, seq, phase, items, items_count, ops, settled, given, deleted>>

\* insert_one when nothing was found, replace_one otherwise; replace_one
\* takes any one document with the id and does nothing when there is none.
Written(t) ==
    LET new == [id |-> task[t].id, op |-> task[t].op]
        old == {d \in docs : d.id = task[t].id}
    IN  IF ~task[t].found THEN {docs \cup {new}}
        ELSE IF old = {} THEN {docs}
        ELSE {(docs \ {d}) \cup {new} : d \in old}

Write(t) ==
    /\ task[t].pc = "write"
    /\ docs' \in Written(t)
    /\ task' = [task EXCEPT ![t].pc = "remember"]
    /\ UNCHANGED <<seq, phase, items, items_count, ops, settled, given, deleted>>

\* Mutant: the error is logged and set_item goes on.
WriteFailsQuietly(t) ==
    /\ task[t].pc = "write"
    /\ "write" \in Faults
    /\ docs' \in Written(t) \cup {docs}
    /\ task' = [task EXCEPT ![t].pc = "remember"]
    /\ UNCHANGED <<seq, phase, items, items_count, ops, settled, given, deleted>>

\* The database reports an error, whether or not it took the write: the
\* caller is answered u64::MAX and nothing else is done.
WriteFails(t) ==
    /\ task[t].pc = "write"
    /\ "write" \in Faults
    /\ docs' \in Written(t) \cup {docs}
    /\ task' = [task EXCEPT ![t].pc = "idle"]
    /\ UNCHANGED <<seq, phase, items, items_count, ops, settled, given, deleted>>

\* u64::MAX is the answer of a call that failed.
Returned(t) == settled \cup ({task[t].id} \ {MaxId})

\* Only an id that the caller chose is pushed into the counter.
Remember(t) ==
    /\ task[t].pc = "remember"
    /\ items' = [items EXCEPT ![task[t].proc] = @ \cup {task[t].id}]
    /\ items_count' = [items_count EXCEPT ![task[t].proc] = Larger(@, task[t].id)]
    /\ IF task[t].chosen
       THEN /\ task' = [task EXCEPT ![t].pc = "raise"]
            /\ UNCHANGED settled
       ELSE /\ task' = [task EXCEPT ![t].pc = "idle"]
            /\ settled' = Returned(t)
    /\ UNCHANGED <<docs, seq, phase, ops, given, deleted>>

\* What raise_counter leaves in the counter: $max with the clamped id, or
\* nothing new when the database fails it.
Raised(i) == {Larger(seq, Smaller(i, MaxSeq))}
             \cup (IF "raise" \in Faults THEN {seq} ELSE {})

Raise(t) ==
    /\ task[t].pc = "raise"
    /\ seq' \in Raised(task[t].id)
    /\ task' = [task EXCEPT ![t].pc = "idle"]
    /\ settled' = Returned(t)
    /\ UNCHANGED <<docs, phase, items, items_count, ops, given, deleted>>

-----------------------------------------------------------------------------
(* del_item.                                                               *)

\* delete_one takes one document; its result is not looked at.
Delete(t) ==
    /\ task[t].pc = "delete"
    /\ LET old == {d \in docs : d.id = task[t].id}
       IN  \/ \E d \in old : docs' = docs \ {d}
           \/ (old = {} \/ "write" \in Faults) /\ UNCHANGED docs
    /\ task' = [task EXCEPT ![t].pc = "forget"]
    /\ UNCHANGED <<seq, phase, items, items_count, ops, settled, given, deleted>>

Forget(t) ==
    /\ task[t].pc = "forget"
    /\ items' = [items EXCEPT ![task[t].proc] = @ \ {task[t].id}]
    /\ task' = [task EXCEPT ![t].pc = "idle"]
    /\ UNCHANGED <<docs, seq, phase, items_count, ops, settled, given, deleted>>

-----------------------------------------------------------------------------
(* connect: the ids on disk are read, then the counter is raised to the    *)
(* largest of them, then the process begins to serve.                      *)

IsLargest(i, S) == i \in S \cup {0} /\ \A j \in S : j <= i

ConnectRead(p) ==
    /\ phase[p] = "down"
    /\ phase' = [phase EXCEPT ![p] = "connecting"]
    /\ items' = [items EXCEPT ![p] = IdsOf(docs)]
    /\ \E count \in Ids : /\ IsLargest(count, IdsOf(docs))
                          /\ items_count' = [items_count EXCEPT ![p] = count]
    /\ UNCHANGED <<docs, seq, task, ops, settled, given, deleted>>

\* Mutant: the counter is left for the first allocation to create.
ConnectUnraised(p) ==
    /\ phase[p] = "connecting"
    /\ phase' = [phase EXCEPT ![p] = "up"]
    /\ UNCHANGED <<docs, seq, items, items_count, task, ops, settled, given, deleted>>

ConnectRaise(p) ==
    /\ phase[p] = "connecting"
    /\ phase' = [phase EXCEPT ![p] = "up"]
    /\ seq' \in Raised(items_count[p])
    /\ UNCHANGED <<docs, items, items_count, task, ops, settled, given, deleted>>

\* The process dies and its requests with it.
Crash(p) ==
    /\ phase[p] # "down"
    /\ phase' = [phase EXCEPT ![p] = "down"]
    /\ items' = [items EXCEPT ![p] = {}]
    /\ items_count' = [items_count EXCEPT ![p] = 0]
    /\ task' = [t \in Tasks |-> IF task[t].proc = p THEN IdleTask(p) ELSE task[t]]
    /\ UNCHANGED <<docs, seq, ops, settled, given, deleted>>

-----------------------------------------------------------------------------
\* A collection that may have been filled before there was a counter.
Init ==
    /\ settled \in SUBSET ClientIds
    /\ docs = {[id |-> i, op |-> 0] : i \in settled}
    /\ seq = 0
    /\ phase = [p \in Procs |-> "down"]
    /\ items = [p \in Procs |-> {}]
    /\ items_count = [p \in Procs |-> 0]
    /\ \E p \in Procs : task = [t \in Tasks |-> IdleTask(p)]
    /\ ops = 0
    /\ given = {}
    /\ deleted = {}

Next ==
    \/ \E t \in Tasks, p \in Procs : SetNew(t, p)
    \/ \E t \in Tasks, p \in Procs, i \in ClientIds : SetChosen(t, p, i)
    \/ \E t \in Tasks, p \in Procs, i \in ClientIds : DelItem(t, p, i)
    \/ \E t \in Tasks :
          \/ AllocCounter(t) \/ NoteHigh(t) \/ AllocFallback(t)
          \/ Look(t) \/ Write(t) \/ WriteFails(t) \/ Remember(t) \/ Raise(t)
          \/ Delete(t) \/ Forget(t)
    \/ \E p \in Procs : ConnectRead(p) \/ ConnectRaise(p) \/ Crash(p)

Spec == Init /\ [][Next]_vars

-----------------------------------------------------------------------------
(* Properties.                                                             *)

TaskState == [pc : {"idle", "alloc", "note", "look", "write", "remember",
                    "raise", "delete", "forget"},
              proc : Procs, op : 0 .. MaxOps, id : Ids,
              chosen : BOOLEAN, found : BOOLEAN]

\* Every variable has its type.
TypeOK ==
    /\ docs \subseteq [id : Ids, op : 0 .. MaxOps]
    /\ seq \in 0 .. MaxSeq
    /\ phase \in [Procs -> {"down", "connecting", "up"}]
    /\ items \in [Procs -> SUBSET Ids]
    /\ items_count \in [Procs -> Ids]
    /\ task \in [Tasks -> TaskState]
    /\ ops \in 0 .. MaxOps
    /\ settled \subseteq Ids
    /\ given \subseteq Ids
    /\ deleted \subseteq Ids

Allocates(t) == task[t].pc = "alloc" /\ task'[t].pc \in {"note", "look"}

\* alloc_id never answers with an id it has answered before, in any process,
\* nor with one that a write has returned, even if that item has been deleted
\* since, the process restarted, or the collection is older than the
\* counter.  It ends where the counter does.
AllocationsAreFresh ==
    [][\A t \in Tasks : Allocates(t) /\ seq < MaxSeq =>
          task'[t].id \notin settled \cup given]_vars

\* What the comment on raise_counter says: "a later allocation cannot hand
\* out a number that is already taken", by a document in the collection.
TakenIdsAreNotHandedOut ==
    [][\A t \in Tasks : Allocates(t) /\ seq < MaxSeq =>
          task'[t].id \notin IdsOf(docs)]_vars

\* Nobody is told of an item that does not exist: an id that set_item has
\* returned is in the collection for as long as no del_item is called for it,
\* whatever calls fail and whichever writes race or overwrite each other.
AckedItemsExist == settled \ deleted \subseteq IdsOf(docs)
==============================================================================
