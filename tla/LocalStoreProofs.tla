--------------------------- MODULE LocalStoreProofs ---------------------------
(***************************************************************************)
(* Proofs about the file store (LocalStore.tla) and its lists              *)
(* (Listing.tla).                                                          *)
(*                                                                         *)
(* The invariant says which inodes belong to which path (InodesApart), so  *)
(* that a writer of one path cannot touch the file of another; what a      *)
(* writer that is alone on its path knows about the file (WriterOK); and   *)
(* where the counter stands (Highest).  For a list on its way it says what *)
(* the reader has seen and what it will still find (ReaderFine).           *)
(***************************************************************************)
EXTENDS Listing, FiniteSetTheorems, WellFoundedInduction, TLAPS

\* The request has its sibling open.
Opened(t) == task[t].pc \in {"write", "rename"}
\* The request may still fail on the disk.
Working(t) == task[t].pc \in {"open", "write", "rename"}
\* Its file is published.
Finishing(t) == task[t].pc \in {"remember", "count"}

\* One request: its number is one that was given out, and what it is about to
\* write is whole and bears its own fields.
TaskOK(t) ==
    /\ task[t].pc = "idle" => task[t] = IdleTask
    /\ Busy(t) => task[t].op \in 1 .. ops
    /\ Finishing(t) => task[t].path \in Ids
    /\ Busy(t) /\ task[t].path = Settings => task[t].merge = FALSE
    /\ Working(t) => Whole(task[t].body) /\ task[t].op \in task[t].body

\* No request runs.
AllIdle == \A t \in Tasks : task[t] = IdleTask

\* Two requests have two numbers, and one path only if they clashed.
Apart(t, u) ==
    Busy(t) /\ Busy(u) =>
        /\ task[t].op # task[u].op
        /\ task[t].path = task[u].path => task[t].path \in clashed

\* All requests, and none of them in a process that is not there.
Requests ==
    /\ \A t \in Tasks : TaskOK(t)
    /\ ~up => items = {} /\ AllIdle
    /\ \A t, u \in Tasks : t # u => Apart(t, u)

\* The inode a request has open.
Held(t) == IF Opened(t) THEN {task[t].inode} ELSE {}
\* The inodes a path and its sibling name.
Named(p) == {file[p], tmp[p]} \ {0}
\* A number given out that no inode is named after yet.
Begun(t) == IF task[t].pc \in {"read", "open"} THEN {task[t].op} ELSE {}

\* No two paths share an inode, be it by name or by a writer that has it open, the
\* file is never its own sibling, and a new number names nothing.
InodesApart ==
    /\ \A p \in Paths : Named(p) \subseteq 1 .. ops
    /\ \A t \in Tasks : Held(t) \subseteq 1 .. ops
    /\ \A p \in Paths : file[p] # 0 => file[p] # tmp[p]
    /\ \A p, q \in Paths : p # q => Named(p) \cap Named(q) = {}
    /\ \A t \in Tasks, p \in Paths : p # task[t].path => Held(t) \cap Named(p) = {}
    /\ \A t, u \in Tasks : task[t].path # task[u].path => Held(t) \cap Held(u) = {}
    /\ \A t \in Tasks, p \in Paths : Begun(t) \cap Named(p) = {}
    /\ \A t, u \in Tasks : Begun(t) \cap Held(u) = {}

\* A file is whole, and not older than the last write that returned.
FileOK(p) ==
    /\ file[p] # 0 => Whole(content[file[p]])
    /\ acked[p] # 0 => file[p] # 0 /\ \E o \in content[file[p]] : o >= acked[p]

\* A writer that is alone on its path has the sibling open, knows what is in it, and
\* merges into what is still in the file.
WriterOK(t) ==
    LET p == task[t].path
    IN  /\ acked[p] < task[t].op
        /\ Opened(t) => tmp[p] = task[t].inode
        /\ task[t].pc = "write" => content[task[t].inode] = {}
        /\ task[t].pc = "rename" => content[task[t].inode] = task[t].body
        /\ Working(t) /\ task[t].merge => read_json(p) \subseteq task[t].body
        /\ Finishing(t) => file[p] # 0 /\ task[t].op \in content[file[p]]

\* Files and writers that no other writer disturbed.
FilesWhole ==
    /\ \A p \in Paths : acked[p] <= ops
    /\ \A p \in Paths \ clashed : FileOK(p)
    /\ \A t \in Tasks : Busy(t) /\ task[t].path \notin clashed => WriterOK(t)

\* A sibling is there only while somebody has it open.
Staged ==
    "died" \notin cut =>
        \A p \in Paths : tmp[p] # 0 => \E t \in Tasks : Opened(t) /\ task[t].path = p

\* A directory or an id on the list has a file, or is getting one.
Listed ==
    cut = {} =>
       /\ \A id \in dirs \ clashed :
             file[id] # 0 \/ \E t \in Tasks : Working(t) /\ task[t].path = id
       /\ \A id \in items \ clashed : file[id] # 0

\* What connect would read as the highest id.
Counter == IF cnt = -1 THEN 0 ELSE cnt
\* The highest id, running or on the disk.
High == IF up THEN items_count ELSE Counter

\* Every id that was returned is at or below the highest, and the counter file says
\* so too or a request is on its way to make it.
Highest ==
    cut = {} =>
       /\ \A id \in Ids : acked[id] # 0 => id <= High
       /\ up => \/ items_count = Counter
                \/ /\ items_count # 0
                   /\ \E t \in Tasks : Busy(t) /\ task[t].path = items_count

-----------------------------------------------------------------------------
(* The forms a step takes.                                                 *)

\* One request moves.
Moves(t) ==
    /\ task' \in [Tasks -> TaskState]
    /\ \A u \in Tasks \ {t} : task'[u] = task[u]
    /\ up /\ up'

\* It is still about the same write.
Same(t) ==
    /\ task'[t].op = task[t].op /\ task'[t].path = task[t].path
    /\ task'[t].merge = task[t].merge

\* A request learns its path and its number.
Begins(t) ==
    /\ Moves(t)
    /\ task[t].pc \in {"idle", "alloc"} /\ task'[t].pc = "read"
    /\ ops < MaxOps /\ ops' = ops + 1 /\ task'[t].op = ops + 1
    /\ task'[t].path = Settings => task'[t].merge = FALSE
    /\ clashed' = clashed \cup Overlap(t, task'[t].path)
    /\ \/ task[t].pc = "idle" /\ UNCHANGED items_count
       \/ /\ task[t].pc = "alloc"
          /\ items_count' = NextId /\ task'[t].path = NextId
    /\ UNCHANGED <<file, tmp, content, dirs, cnt, items, acked, cut>>

\* A request wants a new id.
Asks(t) ==
    /\ Moves(t)
    /\ task[t].pc = "idle" /\ task'[t].pc = "alloc"
    /\ UNCHANGED <<file, tmp, content, dirs, cnt, items, items_count, ops, acked, clashed, cut>>

\* The old item is read and merged.
Reads(t) ==
    /\ Moves(t) /\ Same(t)
    /\ task[t].pc = "read" /\ task'[t].pc = "open"
    /\ dirs' = dirs \cup ({task[t].path} \ {Settings})
    /\ task'[t].body = {task[t].op} \cup (IF task[t].merge THEN read_json(task[t].path) ELSE {})
    /\ UNCHANGED <<file, tmp, content, cnt, items, items_count, ops, acked, clashed, cut>>

\* The sibling is opened.
Stages(t) ==
    /\ Moves(t) /\ Same(t)
    /\ task[t].pc = "open" /\ task'[t].pc = "write"
    /\ task'[t].body = task[t].body
    /\ task'[t].inode = OpenedBy(task[t].path, task[t].op)
    /\ OpenSibling(task[t].path, task[t].op)
    /\ UNCHANGED <<dirs, cnt, items, items_count, ops, acked, clashed, cut>>

\* The body is written.
Writes(t) ==
    /\ Moves(t) /\ Same(t)
    /\ task[t].pc = "write" /\ task'[t].pc = "rename"
    /\ task'[t].body = task[t].body /\ task'[t].inode = task[t].inode
    /\ WriteAll(task[t].inode, task[t].body)
    /\ UNCHANGED <<dirs, cnt, items, items_count, ops, acked, clashed, cut>>

\* The request fails and removes the sibling.
Fails(t) ==
    /\ Moves(t)
    /\ Working(t) /\ task'[t] = IdleTask
    /\ RemoveStaged(task[t].path)
    /\ cut' = cut \cup {"failed"}
    /\ UNCHANGED <<dirs, cnt, items, items_count, ops, acked, clashed>>

\* The sibling becomes the item's file.
PublishesItem(t) ==
    /\ Moves(t) /\ Same(t)
    /\ task[t].pc = "rename" /\ task'[t].pc = "remember"
    /\ task[t].path \in Ids
    /\ Rename(task[t].path)
    /\ UNCHANGED <<dirs, cnt, items, items_count, ops, acked, clashed, cut>>

\* The sibling becomes the settings file, and the caller has its answer.
PublishesSettings(t) ==
    /\ Moves(t)
    /\ task[t].pc = "rename" /\ task'[t] = IdleTask
    /\ task[t].path = Settings
    /\ Rename(Settings)
    /\ acked' = [acked EXCEPT ![Settings] = task[t].op]
    /\ UNCHANGED <<dirs, cnt, items, items_count, ops, clashed, cut>>

\* The id is listed.
Remembers(t) ==
    /\ Moves(t) /\ Same(t)
    /\ task[t].pc = "remember" /\ task'[t].pc = "count"
    /\ items' = items \cup {task[t].path}
    /\ UNCHANGED <<file, tmp, content, dirs, cnt, items_count, ops, acked, clashed, cut>>

\* The highest id is raised, if need be, and the caller has its answer.
Counts(t) ==
    /\ Moves(t)
    /\ task[t].pc = "count" /\ task'[t] = IdleTask
    /\ acked' = [acked EXCEPT ![task[t].path] = task[t].op]
    /\ IF task[t].path >= items_count
       THEN /\ items_count' = task[t].path
            /\ \/ cnt' = task[t].path /\ UNCHANGED cut
               \/ UNCHANGED cnt /\ cut' = cut \cup {"failed"}
       ELSE UNCHANGED <<items_count, cnt, cut>>
    /\ UNCHANGED <<file, tmp, content, dirs, items, ops, clashed>>

\* An id is taken off the list.
Forgets ==
    /\ up /\ up' /\ items' \subseteq items
    /\ UNCHANGED <<file, tmp, content, dirs, cnt, items_count, task, ops, acked, clashed, cut>>

\* The forms a step takes.
StepForms ==
    \/ connect \/ Die \/ Forgets
    \/ \E t \in Tasks :
          \/ Begins(t) \/ Asks(t) \/ Reads(t) \/ Stages(t) \/ Writes(t) \/ Fails(t)
          \/ PublishesItem(t) \/ PublishesSettings(t) \/ Remembers(t) \/ Counts(t)

\* The constants.
LEMMA Bounds ==
    /\ MaxId \in Nat /\ MaxId >= 2 /\ MaxOps \in Nat /\ MaxOps >= 1
    /\ Paths = Ids \cup {Settings} /\ Settings = 0 /\ Settings \notin Ids
    /\ Ids \subseteq Nat /\ MaxId \in Ids
    /\ ClientIds \subseteq Ids
BY LocalStoreAssumption DEF Ids, Settings

\* The idle request is a request.
LEMMA IdleTyped ==
    /\ IdleTask \in TaskState
    /\ IdleTask.pc = "idle"
BY Bounds DEF IdleTask, TaskState, Bodies

\* Enter, for any caller.
LEMMA Enters ==
    ASSUME TypeOK, Requests, NEW t \in Tasks, up, up', task[t].pc \in {"idle", "alloc"},
           NEW p \in Paths, NEW m \in BOOLEAN, p = Settings => m = FALSE,
           Enter(t, p, m),
           \/ task[t].pc = "idle" /\ UNCHANGED items_count
           \/ task[t].pc = "alloc" /\ items_count' = NextId /\ p = NextId
    PROVE  Begins(t)
<1> DEFINE k == [IdleTask EXCEPT !.pc = "read", !.op = ops', !.path = p, !.merge = m]
<1>1. ops' = ops + 1 /\ ops < MaxOps /\ task' = [task EXCEPT ![t] = k]
  BY DEF Enter
<1>2. /\ k \in TaskState
      /\ k.pc = "read" /\ k.op = ops + 1 /\ k.path = p /\ k.merge = m
  <2>1. ops' \in 0 .. MaxOps
    BY <1>1, Bounds DEF TypeOK
  <2>2. k \in TaskState
    BY <2>1, IdleTyped DEF TaskState
  <2>3. k.pc = "read" /\ k.op = ops' /\ k.path = p /\ k.merge = m
    BY DEF IdleTask
  <2> QED BY <1>1, <2>2, <2>3
<1> HIDE DEF k
<1>3. /\ task' \in [Tasks -> TaskState]
      /\ \A u \in Tasks \ {t} : task'[u] = task[u]
      /\ task'[t] = k
  BY <1>1, <1>2 DEF TypeOK
<1>4. Moves(t) /\ task'[t].pc = "read" /\ task'[t].op = ops + 1 /\ task'[t].path = p
      /\ task'[t].merge = m
  BY <1>2, <1>3 DEF Moves
<1>5. /\ clashed' = clashed \cup Overlap(t, p)
      /\ UNCHANGED <<file, tmp, content, dirs, cnt, items, acked, cut>>
  BY DEF Enter
<1> HIDE DEF Enter
<1> QED BY <1>1, <1>4, <1>5 DEF Begins

\* Every step of the specification has one of the forms.
LEMMA NextForms ==
    ASSUME TypeOK, Requests, Next
    PROVE  StepForms
<1>1. CASE connect \/ Die
  BY <1>1 DEF StepForms
<1>2. ASSUME NEW id \in ClientIds, del_item(id) PROVE StepForms
  BY <1>2 DEF del_item, StepForms, Forgets
<1>3. ASSUME NEW t \in Tasks,
          \/ \E id \in ClientIds, merge \in BOOLEAN : set_item(t, id, merge)
          \/ \E merge \in BOOLEAN : set_new_item(t, merge)
          \/ set_settings(t)
          \/ Allocate(t)
          \/ ReadOld(t)
          \/ Stage(t)
          \/ StageBody(t)
          \/ DiskRefuses(t)
          \/ NothingToRename(t)
          \/ Publish(t)
          \/ Remember(t)
          \/ Count(t)
      PROVE  StepForms
  <2>k. /\ task \in [Tasks -> TaskState] /\ task[t] \in TaskState
        /\ file \in [Paths -> 0 .. MaxOps] /\ ops \in 0 .. MaxOps
    BY DEF TypeOK
  <2>u. task[t].pc # "idle" => up /\ TaskOK(t)
    BY IdleTyped DEF Requests, AllIdle
  <2> SUFFICES \/ Begins(t) \/ Asks(t) \/ Reads(t) \/ Stages(t) \/ Writes(t) \/ Fails(t)
               \/ PublishesItem(t) \/ PublishesSettings(t) \/ Remembers(t) \/ Counts(t)
    BY DEF StepForms
  <2>1. ASSUME NEW id \in ClientIds, NEW merge \in BOOLEAN, set_item(t, id, merge)
        PROVE  Begins(t)
    <3>1. up /\ up' /\ task[t].pc = "idle" /\ Enter(t, id, merge) /\ UNCHANGED items_count
      BY <2>1 DEF set_item, Enter
    <3> QED BY <3>1, Enters, Bounds
  <2>2. ASSUME NEW merge \in BOOLEAN, set_new_item(t, merge)
        PROVE  Asks(t)
    <3>1. up /\ up' /\ task' = [task EXCEPT ![t].pc = "alloc", ![t].merge = merge]
      BY <2>2 DEF set_new_item
    <3>2. task' \in [Tasks -> TaskState] /\ task'[t].pc = "alloc"
      BY <3>1, <2>k DEF TaskState
    <3>3. \A u \in Tasks \ {t} : task'[u] = task[u]
      BY <3>1, <2>k
    <3> QED BY <2>2, <3>1, <3>2, <3>3 DEF set_new_item, Asks, Moves
  <2>3. CASE set_settings(t)
    <3>1. up /\ up' /\ task[t].pc = "idle" /\ Enter(t, Settings, FALSE) /\ UNCHANGED items_count
      BY <2>3 DEF set_settings, Enter
    <3> QED BY <3>1, Enters, Bounds
  <2>4. CASE Allocate(t)
    <3>1. /\ up /\ up' /\ task[t].pc = "alloc" /\ Enter(t, NextId, task[t].merge)
          /\ items_count' = NextId
      BY <2>4, <2>u DEF Allocate, Enter
    <3>2. NextId \in Ids
      BY Bounds DEF NextId, TypeOK, Ids
    <3>3. task[t].merge \in BOOLEAN
      BY <2>k DEF TaskState
    <3> QED BY <3>1, <3>2, <3>3, Enters, Bounds
  <2>5. CASE ReadOld(t)
    <3> DEFINE b == {task[t].op} \cup (IF task[t].merge THEN read_json(task[t].path) ELSE {})
    <3>1. /\ up /\ up' /\ task[t].pc = "read"
          /\ task' = [task EXCEPT ![t].pc = "open", ![t].body = b]
      BY <2>5, <2>u DEF ReadOld
    <3>2. b \in Bodies
      BY <2>k DEF TaskState, read_json, Bodies, TypeOK, Inodes
    <3> HIDE DEF b
    <3>3. task' \in [Tasks -> TaskState] /\ task'[t].pc = "open" /\ task'[t].body = b /\ Same(t)
      BY <3>1, <3>2, <2>k DEF TaskState, Same
    <3>4. \A u \in Tasks \ {t} : task'[u] = task[u]
      BY <3>1, <2>k
    <3> QED BY <2>5, <3>1, <3>3, <3>4 DEF ReadOld, Reads, Moves, b
  <2>6. CASE Stage(t)
    <3> DEFINE i == OpenedBy(task[t].path, task[t].op)
    <3>1. /\ up /\ up' /\ task[t].pc = "open"
          /\ task' = [task EXCEPT ![t].pc = "write", ![t].inode = i]
      BY <2>6, <2>u DEF Stage
    <3>2. i \in 0 .. MaxOps
      BY <2>k DEF TaskState, OpenedBy, TypeOK
    <3> HIDE DEF i
    <3>3. /\ task' \in [Tasks -> TaskState] /\ task'[t].pc = "write" /\ task'[t].inode = i
          /\ Same(t) /\ task'[t].body = task[t].body
      BY <3>1, <3>2, <2>k DEF TaskState, Same
    <3>4. \A u \in Tasks \ {t} : task'[u] = task[u]
      BY <3>1, <2>k
    <3> QED BY <2>6, <3>1, <3>3, <3>4 DEF Stage, Stages, Moves, i
  <2>7. CASE StageBody(t)
    <3>1. /\ up /\ up' /\ task[t].pc = "write"
          /\ task' = [task EXCEPT ![t].pc = "rename"]
      BY <2>7, <2>u DEF StageBody
    <3>3. /\ task' \in [Tasks -> TaskState] /\ task'[t].pc = "rename"
          /\ Same(t) /\ task'[t].body = task[t].body /\ task'[t].inode = task[t].inode
      BY <3>1, <2>k DEF TaskState, Same
    <3>4. \A u \in Tasks \ {t} : task'[u] = task[u]
      BY <3>1, <2>k
    <3> QED BY <2>7, <3>1, <3>3, <3>4 DEF StageBody, Writes, Moves
  <2>8. CASE DiskRefuses(t) \/ NothingToRename(t)
    <3>1. Fail(t) /\ Working(t) /\ task' = [task EXCEPT ![t] = IdleTask] /\ up /\ up'
      BY <2>8, <2>u DEF DiskRefuses, NothingToRename, Fail, Working
    <3>2. task' \in [Tasks -> TaskState] /\ task'[t] = IdleTask
      BY <3>1, <2>k, IdleTyped
    <3>3. \A u \in Tasks \ {t} : task'[u] = task[u]
      BY <3>1, <2>k
    <3> QED BY <3>1, <3>2, <3>3 DEF Fail, Fails, Moves
  <2>9. CASE Publish(t)
    <3>1. up /\ up' /\ task[t].pc = "rename"
      BY <2>9, <2>u DEF Publish
    <3>2. CASE task[t].path = Settings
      <4>1. task' = [task EXCEPT ![t] = IdleTask]
        BY <2>9, <3>2 DEF Publish
      <4>2. task' \in [Tasks -> TaskState] /\ task'[t] = IdleTask
        BY <4>1, <2>k, IdleTyped
      <4>3. \A u \in Tasks \ {t} : task'[u] = task[u]
        BY <4>1, <2>k
      <4> QED BY <2>9, <3>1, <3>2, <4>2, <4>3 DEF Publish, PublishesSettings, Moves
    <3>3. CASE task[t].path # Settings
      <4>1. task' = [task EXCEPT ![t].pc = "remember"]
        BY <2>9, <3>3 DEF Publish
      <4>2. task' \in [Tasks -> TaskState] /\ task'[t].pc = "remember" /\ Same(t)
        BY <4>1, <2>k DEF TaskState, Same
      <4>3. \A u \in Tasks \ {t} : task'[u] = task[u]
        BY <4>1, <2>k
      <4>4. task[t].path \in Ids
        BY <2>k, <3>3, Bounds DEF TaskState
      <4> QED BY <2>9, <3>1, <3>3, <4>2, <4>3, <4>4 DEF Publish, PublishesItem, Moves
    <3> QED BY <3>2, <3>3
  <2>10. CASE Remember(t)
    <3>1. up /\ up' /\ task[t].pc = "remember" /\ task' = [task EXCEPT ![t].pc = "count"]
      BY <2>10, <2>u DEF Remember
    <3>2. task' \in [Tasks -> TaskState] /\ task'[t].pc = "count" /\ Same(t)
      BY <3>1, <2>k DEF TaskState, Same
    <3>3. \A u \in Tasks \ {t} : task'[u] = task[u]
      BY <3>1, <2>k
    <3> QED BY <2>10, <3>1, <3>2, <3>3 DEF Remember, Remembers, Moves
  <2>11. CASE Count(t)
    <3>1. up /\ up' /\ task[t].pc = "count" /\ task' = [task EXCEPT ![t] = IdleTask]
      BY <2>11, <2>u DEF Count
    <3>2. task' \in [Tasks -> TaskState] /\ task'[t] = IdleTask
      BY <3>1, <2>k, IdleTyped
    <3>3. \A u \in Tasks \ {t} : task'[u] = task[u]
      BY <3>1, <2>k
    <3>4. IF task[t].path >= items_count
          THEN /\ items_count' = task[t].path
               /\ \/ cnt' = task[t].path /\ UNCHANGED cut
                  \/ UNCHANGED cnt /\ cut' = cut \cup {"failed"}
          ELSE UNCHANGED <<items_count, cnt, cut>>
      BY <2>11 DEF Count, RaisesHigh
    <3> QED BY <2>11, <3>1, <3>2, <3>3, <3>4 DEF Count, Counts, Moves
  <2> QED BY <1>3, <2>1, <2>2, <2>3, <2>4, <2>5, <2>6, <2>7, <2>8, <2>9, <2>10, <2>11
<1> QED BY <1>1, <1>2, <1>3 DEF Next

-----------------------------------------------------------------------------
(* Types, and what a request carries.                                      *)

\* What read_json returns is empty or whole.
LEMMA ReadBody ==
    ASSUME TypeOK, NEW p \in Paths
    PROVE  /\ read_json(p) \subseteq 0 .. MaxOps /\ 0 \notin read_json(p)
           /\ read_json(p) # {} => Whole(read_json(p))
BY DEF read_json, Whole, TypeOK, Inodes, Bodies

\* Every step keeps the types.
LEMMA TypeStep ==
    ASSUME TypeOK, Requests, StepForms
    PROVE  TypeOK'
<1>1. CASE connect
  BY <1>1 DEF connect, TypeOK
<1>2. CASE Die
  <2>1. task' \in [Tasks -> TaskState]
    BY <1>2, IdleTyped DEF Die
  <2> QED BY <1>2, <2>1 DEF Die, TypeOK
<1>3. CASE Forgets
  BY <1>3 DEF Forgets, TypeOK
<1>4. ASSUME NEW t \in Tasks,
          \/ Begins(t) \/ Asks(t) \/ Reads(t) \/ Stages(t) \/ Writes(t) \/ Fails(t)
          \/ PublishesItem(t) \/ PublishesSettings(t) \/ Remembers(t) \/ Counts(t)
      PROVE  TypeOK'
  <2>k. /\ task[t] \in TaskState
        /\ task[t].path \in Paths /\ task[t].op \in 0 .. MaxOps
        /\ task[t].inode \in 0 .. MaxOps /\ task[t].body \in Bodies
    BY DEF TypeOK, TaskState
  <2>m. /\ task' \in [Tasks -> TaskState] /\ up' \in BOOLEAN /\ task'[t].path \in Paths
    BY <1>4 DEF Begins, Asks, Reads, Stages, Writes, Fails, PublishesItem,
                PublishesSettings, Remembers, Counts, Moves, TaskState
  <2>1. CASE Begins(t)
    <3>1. ops' \in 0 .. MaxOps
      BY <2>1, Bounds DEF Begins, TypeOK
    <3>2. clashed' \subseteq Paths
      BY <2>1, <2>m DEF Begins, TypeOK, Overlap
    <3>3. items_count' \in Ids \cup {0}
      BY <2>1, Bounds DEF Begins, TypeOK, NextId, Ids
    <3> QED BY <2>1, <2>m, <3>1, <3>2, <3>3 DEF Begins, TypeOK
  <2>2. CASE Asks(t)
    BY <2>2, <2>m DEF Asks, TypeOK
  <2>3. CASE Reads(t)
    BY <2>3, <2>k, <2>m, Bounds DEF Reads, TypeOK
  <2>4. CASE Stages(t)
    <3>1. OpenedBy(task[t].path, task[t].op) \in 0 .. MaxOps
      BY <2>k DEF OpenedBy, TypeOK
    <3>2. {} \in Bodies
      BY DEF Bodies
    <3>3. tmp' \in [Paths -> 0 .. MaxOps] /\ content' \in [Inodes -> Bodies]
      BY <2>4, <3>1, <3>2 DEF Stages, OpenSibling, TypeOK
    <3> QED BY <2>4, <2>m, <3>3 DEF Stages, OpenSibling, TypeOK
  <2>5. CASE Writes(t)
    <3>1. Garbled \in Bodies
      BY Bounds DEF Garbled, Bodies
    <3>2. PICK b \in Bodies : content' = [content EXCEPT ![task[t].inode] = b]
      BY <2>5, <2>k, <3>1 DEF Writes, WriteAll
    <3>3. content' \in [Inodes -> Bodies] /\ UNCHANGED <<file, tmp>>
      BY <2>5, <3>2 DEF Writes, WriteAll, TypeOK
    <3> QED BY <2>5, <2>m, <3>3 DEF Writes, TypeOK
  <2>6. CASE Fails(t)
    <3>1. tmp' = [tmp EXCEPT ![task[t].path] = 0] /\ UNCHANGED <<file, content>>
      BY <2>6 DEF Fails, RemoveStaged
    <3>2. 0 \in 0 .. MaxOps
      BY Bounds
    <3>3. tmp' \in [Paths -> 0 .. MaxOps]
      BY <3>1, <3>2 DEF TypeOK
    <3>4. cut' \subseteq {"failed", "died"}
      BY <2>6 DEF Fails, TypeOK
    <3> QED BY <2>6, <2>m, <3>1, <3>3, <3>4 DEF Fails, TypeOK
  <2>7. CASE PublishesItem(t) \/ PublishesSettings(t)
    <3>1. PICK p \in Paths : Rename(p)
      BY <2>7, Bounds DEF PublishesItem, PublishesSettings
    <3>2. /\ tmp' \in [Paths -> 0 .. MaxOps] /\ file' \in [Paths -> 0 .. MaxOps]
          /\ UNCHANGED content
      BY <3>1, Bounds DEF Rename, TypeOK
    <3>3. acked' \in [Paths -> 0 .. MaxOps]
      BY <2>7, <2>k DEF PublishesItem, PublishesSettings, TypeOK
    <3> QED BY <2>7, <2>m, <3>2, <3>3 DEF PublishesItem, PublishesSettings, TypeOK
  <2>8. CASE Remembers(t)
    <3>1. task[t].path \in Ids
      BY <2>8 DEF Remembers, Requests, TaskOK, Finishing
    <3> QED BY <2>8, <2>m, <3>1 DEF Remembers, TypeOK
  <2>9. CASE Counts(t)
    <3>1. task[t].path \in Ids
      BY <2>9 DEF Counts, Requests, TaskOK, Finishing
    <3>2. acked' \in [Paths -> 0 .. MaxOps]
      BY <2>9, <2>k DEF Counts, TypeOK
    <3>3. items_count' \in Ids \cup {0} /\ cnt' \in Ids \cup {-1} /\ cut' \subseteq {"failed", "died"}
      BY <2>9, <3>1 DEF Counts, TypeOK
    <3> QED BY <2>9, <2>m, <3>2, <3>3 DEF Counts, TypeOK
  <2> QED BY <1>4, <2>1, <2>2, <2>3, <2>4, <2>5, <2>6, <2>7, <2>8, <2>9
<1> QED BY <1>1, <1>2, <1>3, <1>4 DEF StepForms

\* What the step leaves of the request that moved.
LEMMA MoverOK ==
    ASSUME TypeOK, Requests, NEW t \in Tasks,
          \/ Begins(t) \/ Asks(t) \/ Reads(t) \/ Stages(t) \/ Writes(t) \/ Fails(t)
          \/ PublishesItem(t) \/ PublishesSettings(t) \/ Remembers(t) \/ Counts(t)
    PROVE  /\ TaskOK(t)'
           /\ ops \in Nat /\ ops' \in {ops, ops + 1}
           /\ clashed \subseteq clashed'
           /\ Moves(t)
           /\ Busy(t)' => \/ Begins(t)
                          \/ Busy(t) /\ Same(t)
<1>k. /\ task[t] \in TaskState /\ ops \in Nat /\ TaskOK(t)
      /\ task[t].path \in Paths
  BY Bounds DEF TypeOK, TaskState, Requests
<1>1. CASE Begins(t)
  <2>1. task'[t].op \in 1 .. ops'
    BY <1>1, <1>k DEF Begins
  <2> QED BY <1>1, <2>1, <1>k DEF Begins, TaskOK, Busy, Opened, Finishing, Working
<1>2. CASE Asks(t)
  BY <1>2, <1>k DEF Asks, TaskOK, Busy, Opened, Finishing, Working
<1>3. CASE Reads(t)
  <2>1. Whole(task'[t].body) /\ task[t].op \in task'[t].body
    BY <1>3, <1>k, ReadBody DEF Reads, Whole, TaskOK, Busy
  <2> QED BY <1>3, <1>k, <2>1 DEF Reads, Same, TaskOK, Busy, Opened, Finishing, Working
<1>4. CASE Stages(t)
  BY <1>4, <1>k DEF Stages, Same, TaskOK, Busy, Opened, Finishing, Working
<1>5. CASE Writes(t)
  BY <1>5, <1>k DEF Writes, Same, TaskOK, Busy, Opened, Finishing, Working
<1>6. CASE Fails(t) \/ PublishesSettings(t) \/ Counts(t)
  <2>1. task'[t] = IdleTask /\ ops' = ops /\ clashed' = clashed /\ Moves(t)
    BY <1>6 DEF Fails, PublishesSettings, Counts
  <2> QED BY <1>k, <2>1, IdleTyped DEF TaskOK, Busy, Opened, Finishing, Working
<1>7. CASE PublishesItem(t)
  BY <1>7, <1>k DEF PublishesItem, Same, TaskOK, Busy, Opened, Finishing, Working
<1>8. CASE Remembers(t)
  BY <1>8, <1>k DEF Remembers, Same, TaskOK, Busy, Opened, Finishing, Working
<1> QED BY <1>1, <1>2, <1>3, <1>4, <1>5, <1>6, <1>7, <1>8

\* Every step keeps the requests apart.
LEMMA RequestsStep ==
    ASSUME TypeOK, Requests, StepForms
    PROVE  Requests'
<1>1. CASE connect
  BY <1>1 DEF connect, Requests, TaskOK, AllIdle, Apart, Busy, Opened, Finishing, Working
<1>2. CASE Die
  <2>1. \A t \in Tasks : task'[t] = IdleTask
    BY <1>2 DEF Die
  <2> QED BY <1>2, <2>1, IdleTyped
          DEF Die, Requests, TaskOK, AllIdle, Apart, Busy, Opened, Finishing, Working
<1>3. CASE Forgets
  BY <1>3 DEF Forgets, Requests, TaskOK, AllIdle, Apart, Busy, Opened, Finishing, Working
<1>4. ASSUME NEW t \in Tasks,
          \/ Begins(t) \/ Asks(t) \/ Reads(t) \/ Stages(t) \/ Writes(t) \/ Fails(t)
          \/ PublishesItem(t) \/ PublishesSettings(t) \/ Remembers(t) \/ Counts(t)
      PROVE  Requests'
  <2>1. /\ TaskOK(t)'
        /\ ops \in Nat /\ ops' \in {ops, ops + 1}
        /\ clashed \subseteq clashed'
        /\ Moves(t)
        /\ Busy(t)' => \/ Begins(t)
                       \/ Busy(t) /\ Same(t)
    BY <1>4, MoverOK
  <2>2. ASSUME NEW u \in Tasks, u # t PROVE TaskOK(u)'
    BY <2>1, <2>2 DEF Moves, Requests, TaskOK, Busy, Opened, Finishing, Working
  <2>3. up'
    BY <2>1 DEF Moves
  <2>4. ASSUME NEW u \in Tasks, u # t PROVE Apart(t, u)' /\ Apart(u, t)'
    <3>1. task'[u] = task[u] /\ (Busy(u)' <=> Busy(u))
      BY <2>1, <2>4 DEF Moves, Busy
    <3>2. CASE Busy(t)' /\ Busy(u) /\ Begins(t)
      <4>1. task'[t].op = ops + 1 /\ task[u].op \in 1 .. ops
        BY <3>2, <2>1 DEF Begins, Requests, TaskOK
      <4>2. task[u].path = task'[t].path => task[u].path \in clashed'
        BY <3>2, <2>4 DEF Begins, Overlap
      <4> QED BY <2>1, <3>1, <4>1, <4>2 DEF Apart
    <3>3. CASE Busy(t) /\ Same(t)
      <4>1. Apart(t, u) /\ Apart(u, t)
        BY <2>4 DEF Requests
      <4> QED BY <2>1, <3>1, <3>3, <4>1 DEF Apart, Same
    <3> QED BY <2>1, <3>1, <3>2, <3>3 DEF Apart
  <2>5. ASSUME NEW u \in Tasks, NEW v \in Tasks, u # t, v # t, u # v PROVE Apart(u, v)'
    <3>1. task'[u] = task[u] /\ task'[v] = task[v] /\ Apart(u, v)
      BY <2>1, <2>5 DEF Moves, Requests
    <3> QED BY <3>1, <2>1 DEF Apart, Busy
  <2>6. \A u \in Tasks : TaskOK(u)'
    BY <2>1, <2>2
  <2>7. \A u, v \in Tasks : u # v => Apart(u, v)'
    BY <2>4, <2>5
  <2> QED BY <2>3, <2>6, <2>7 DEF Requests
<1> QED BY <1>1, <1>2, <1>3, <1>4 DEF StepForms

-----------------------------------------------------------------------------
(* Inodes.                                                                 *)

\* What a step does to the names of inodes, and to who holds one: it takes names
\* from its own path and number only.
Shuffles(t, q) ==
    /\ \A p \in Paths \ {q} : file'[p] = file[p] /\ tmp'[p] = tmp[p]
    /\ Named(q)' \subseteq Named(q) \cup Begun(t)
    /\ file'[q] # 0 => file'[q] # tmp'[q]
    /\ Held(t)' \subseteq Held(t) \cup Begun(t) \cup Named(q)
    /\ Held(t)' # {} => task'[t].path = q
    /\ Begun(t)' \subseteq Begun(t) \cup {ops + 1}
    /\ Begun(t)' # {} => Held(t)' = {} /\ UNCHANGED <<file, tmp>>

\* Every step shuffles the inodes of its own path.
LEMMA InodeMoves ==
    ASSUME TypeOK, Requests, InodesApart, NEW t \in Tasks,
          NEW q \in Paths, q = task[t].path,
          \/ Begins(t) \/ Asks(t) \/ Reads(t) \/ Stages(t) \/ Writes(t) \/ Fails(t)
          \/ PublishesItem(t) \/ PublishesSettings(t) \/ Remembers(t) \/ Counts(t)
    PROVE  Shuffles(t, q)
<1>k. /\ ops \in Nat /\ TaskOK(t)
      /\ file \in [Paths -> 0 .. MaxOps] /\ tmp \in [Paths -> 0 .. MaxOps]
      /\ file[q] # 0 => file[q] # tmp[q]
  BY Bounds DEF TypeOK, Requests, InodesApart
<1>1. CASE Begins(t)
  <2>1. UNCHANGED <<file, tmp>> /\ task'[t].pc = "read" /\ task'[t].op = ops + 1 /\ ops' = ops + 1
    BY <1>1 DEF Begins
  <2> QED BY <2>1, <1>k DEF Shuffles, Named, Held, Begun, Opened
<1>2. CASE Asks(t) \/ Remembers(t) \/ Counts(t)
  <2>1. /\ UNCHANGED <<file, tmp>> /\ ~Opened(t)' /\ task'[t].pc \notin {"read", "open"}
    BY <1>2, IdleTyped DEF Asks, Remembers, Counts, Opened
  <2> QED BY <2>1, <1>k DEF Shuffles, Named, Held, Begun
<1>3. CASE Reads(t)
  <2>1. /\ UNCHANGED <<file, tmp, ops>> /\ task'[t].pc = "open" /\ task[t].pc = "read"
        /\ task'[t].op = task[t].op
    BY <1>3 DEF Reads, Same
  <2>2. task[t].op \in 1 .. ops
    BY <2>1, <1>k DEF TaskOK, Busy
  <2> QED BY <2>1, <2>2, <1>k DEF Shuffles, Named, Held, Begun, Opened
<1>4. CASE Stages(t)
  <2>1. /\ task[t].pc = "open" /\ task'[t].pc = "write" /\ task'[t].path = q
        /\ task'[t].inode = OpenedBy(q, task[t].op)
        /\ tmp' = [tmp EXCEPT ![q] = OpenedBy(q, task[t].op)] /\ UNCHANGED file
    BY <1>4 DEF Stages, Same, OpenSibling
  <2>2. Begun(t) = {task[t].op} /\ Begun(t)' = {}
    BY <2>1 DEF Begun
  <2>3. /\ OpenedBy(q, task[t].op) \in Named(q) \cup Begun(t)
        /\ file[q] # 0 => OpenedBy(q, task[t].op) # file[q]
    BY <1>k, <2>2 DEF OpenedBy, Named, InodesApart
  <2>4. tmp'[q] = OpenedBy(q, task[t].op) /\ \A p \in Paths \ {q} : tmp'[p] = tmp[p]
    BY <2>1, <1>k
  <2> QED BY <2>1, <2>2, <2>3, <2>4, <1>k DEF Shuffles, Named, Held, Opened
<1>5. CASE Writes(t)
  <2>1. /\ UNCHANGED <<file, tmp>> /\ task'[t].pc = "rename" /\ task[t].pc = "write"
        /\ task'[t].path = q /\ task'[t].inode = task[t].inode
    BY <1>5 DEF Writes, Same, WriteAll
  <2> QED BY <2>1, <1>k DEF Shuffles, Named, Held, Begun, Opened
<1>6. CASE Fails(t)
  <2>1. /\ tmp' = [tmp EXCEPT ![q] = 0] /\ UNCHANGED file
        /\ task'[t].pc = "idle"
    BY <1>6, IdleTyped DEF Fails, RemoveStaged
  <2> QED BY <2>1, <1>k DEF Shuffles, Named, Held, Begun, Opened
<1>7. CASE PublishesItem(t) \/ PublishesSettings(t)
  <2>1. /\ task'[t].pc \in {"idle", "remember"}
        /\ Rename(q)
    BY <1>7, IdleTyped DEF PublishesItem, PublishesSettings
  <2>2. Begun(t)' = {} /\ Held(t)' = {}
    BY <2>1 DEF Begun, Held, Opened
  <2>3. /\ file'[q] = tmp[q] /\ tmp'[q] = 0
        /\ \A p \in Paths \ {q} : file'[p] = file[p] /\ tmp'[p] = tmp[p]
    BY <2>1, <1>k DEF Rename
  <2> QED BY <2>2, <2>3, <1>k DEF Shuffles, Named
<1> QED BY <1>1, <1>2, <1>3, <1>4, <1>5, <1>6, <1>7

\* Shuffling keeps the inodes of different paths apart.
LEMMA InodesKept ==
    ASSUME TypeOK, Requests, InodesApart, NEW t \in Tasks,
           NEW q \in Paths, q = task[t].path, Shuffles(t, q),
           \A u \in Tasks \ {t} : task'[u] = task[u],
           ops \in Nat, ops' \in {ops, ops + 1}
    PROVE  InodesApart'
<1>p. \A p \in Paths : p # q => Named(p)' = Named(p)
  BY DEF Shuffles, Named
<1>b. /\ Begun(t) \subseteq 1 .. ops
      /\ \A p \in Paths : Named(p) \subseteq 1 .. ops
      /\ \A u \in Tasks : Held(u) \subseteq 1 .. ops
      /\ ops + 1 \notin 1 .. ops /\ 1 .. ops \subseteq 1 .. ops'
  BY DEF Requests, TaskOK, Begun, Busy, InodesApart
<1>u. \A u \in Tasks \ {t} :
         /\ Held(u)' = Held(u) /\ Begun(u)' = Begun(u) /\ task'[u].path = task[u].path
         /\ Begun(u) \cap Begun(t) = {}
  BY DEF Held, Begun, Opened, Requests, Apart, Busy
<1>n. Begun(t)' # {} => \A p \in Paths : Named(p)' = Named(p)
  BY DEF Shuffles, Named
<1>s. /\ Named(q)' \subseteq Named(q) \cup Begun(t)
      /\ Held(t)' \subseteq Held(t) \cup Begun(t) \cup Named(q)
      /\ Held(t)' # {} => task'[t].path = q
      /\ Begun(t)' \subseteq Begun(t) \cup {ops + 1}
      /\ Begun(t)' # {} => Held(t)' = {}
  BY DEF Shuffles
<1>i. /\ \A p, r \in Paths : p # r => Named(p) \cap Named(r) = {}
      /\ \A u \in Tasks, p \in Paths : p # task[u].path => Held(u) \cap Named(p) = {}
      /\ \A u, v \in Tasks : task[u].path # task[v].path => Held(u) \cap Held(v) = {}
      /\ \A u \in Tasks, p \in Paths : Begun(u) \cap Named(p) = {}
      /\ \A u, v \in Tasks : Begun(u) \cap Held(v) = {}
  BY DEF InodesApart
<1>1. \A p \in Paths : (Named(p) \subseteq 1 .. ops)'
  BY <1>b, <1>p, <1>s
<1>2. \A u \in Tasks : (Held(u) \subseteq 1 .. ops)'
  BY <1>b, <1>u, <1>s
<1>3. \A p \in Paths : file'[p] # 0 => file'[p] # tmp'[p]
  BY DEF Shuffles, InodesApart
<1>4. \A p, r \in Paths : p # r => Named(p)' \cap Named(r)' = {}
  BY <1>p, <1>s, <1>i
<1>5. ASSUME NEW u \in Tasks, NEW p \in Paths, p # task'[u].path
      PROVE  Held(u)' \cap Named(p)' = {}
  <2>1. CASE u = t
    BY <2>1, <1>5, <1>p, <1>s, <1>i
  <2>2. CASE u # t
    BY <2>2, <1>5, <1>p, <1>s, <1>i, <1>u
  <2> QED BY <2>1, <2>2
<1>6. ASSUME NEW u \in Tasks \ {t}, task'[u].path # task'[t].path
      PROVE  Held(u)' \cap Held(t)' = {}
  BY <1>6, <1>s, <1>i, <1>u
<1>7. \A u, v \in Tasks : task'[u].path # task'[v].path => Held(u)' \cap Held(v)' = {}
  BY <1>6, <1>u, <1>i
<1>8. ASSUME NEW u \in Tasks, NEW p \in Paths
      PROVE  Begun(u)' \cap Named(p)' = {}
  <2>1. CASE u = t
    BY <2>1, <1>n, <1>s, <1>i, <1>b
  <2>2. CASE u # t
    BY <2>2, <1>u, <1>p, <1>s, <1>i
  <2> QED BY <2>1, <2>2
<1>9. ASSUME NEW u \in Tasks, NEW v \in Tasks
      PROVE  Begun(u)' \cap Held(v)' = {}
  <2>1. CASE u = t
    <3>1. CASE v = t
      BY <2>1, <3>1, <1>s
    <3>2. CASE v # t
      BY <2>1, <3>2, <1>s, <1>i, <1>b, <1>u
    <3> QED BY <3>1, <3>2
  <2>2. CASE u # t
    <3>1. CASE v = t
      BY <2>2, <3>1, <1>s, <1>i, <1>u
    <3>2. CASE v # t
      BY <2>2, <3>2, <1>i, <1>u
    <3> QED BY <3>1, <3>2
  <2> QED BY <2>1, <2>2
<1> QED BY <1>1, <1>2, <1>3, <1>4, <1>5, <1>7, <1>8, <1>9 DEF InodesApart

\* Every step keeps inodes apart.
LEMMA InodesStep ==
    ASSUME TypeOK, Requests, InodesApart, StepForms
    PROVE  InodesApart'
<1>1. CASE connect \/ Forgets
  <2>1. UNCHANGED <<file, tmp, task, ops>>
    BY <1>1 DEF connect, Forgets
  <2>2. /\ \A p \in Paths : Named(p)' = Named(p)
        /\ \A t \in Tasks : Held(t)' = Held(t) /\ Begun(t)' = Begun(t)
    BY <2>1 DEF Named, Held, Begun, Opened
  <2> QED BY <2>1, <2>2 DEF InodesApart
<1>2. CASE Die
  <2>1. \A t \in Tasks : task'[t].pc = "idle"
    BY <1>2, IdleTyped DEF Die
  <2>2. \A t \in Tasks : Held(t)' = {} /\ Begun(t)' = {}
    BY <2>1 DEF Held, Begun, Opened
  <2>3. UNCHANGED <<file, tmp, ops>>
    BY <1>2 DEF Die
  <2> QED BY <2>2, <2>3 DEF InodesApart, Named
<1>4. ASSUME NEW t \in Tasks,
          \/ Begins(t) \/ Asks(t) \/ Reads(t) \/ Stages(t) \/ Writes(t) \/ Fails(t)
          \/ PublishesItem(t) \/ PublishesSettings(t) \/ Remembers(t) \/ Counts(t)
      PROVE  InodesApart'
  <2> DEFINE q == task[t].path
  <2>q. q \in Paths
    BY DEF TypeOK, TaskState
  <2> PICK p \in Paths : p = q
    BY <2>q
  <2>1. Shuffles(t, p)
    BY <1>4, InodeMoves
  <2>2. Moves(t) /\ ops \in Nat /\ ops' \in {ops, ops + 1}
    BY <1>4, MoverOK
  <2> QED BY <2>1, <2>2, InodesKept DEF Moves
<1> QED BY <1>1, <1>2, <1>4 DEF StepForms

-----------------------------------------------------------------------------
(* What the files hold.                                                    *)

\* The inodes a step may truncate or write.
Touchable(t, q) == ({tmp[q]} \ {0}) \cup Begun(t) \cup Held(t)

\* It writes no other, and answers for its own path.
Touches(t, q) ==
    /\ \A p \in Paths \ {q} : acked'[p] = acked[p]
    /\ \A i \in Inodes \ Touchable(t, q) : content'[i] = content[i]

\* Every step of a writer touches what is its own.
LEMMA TouchMoves ==
    ASSUME TypeOK, Requests, NEW t \in Tasks, NEW q \in Paths, q = task[t].path,
          \/ Reads(t) \/ Stages(t) \/ Writes(t) \/ Fails(t)
          \/ PublishesItem(t) \/ PublishesSettings(t) \/ Remembers(t) \/ Counts(t)
    PROVE  Touches(t, q) /\ Busy(t)
<1>k. /\ content \in [Inodes -> Bodies] /\ acked \in [Paths -> 0 .. MaxOps]
      /\ 0 \notin Inodes
  BY DEF TypeOK, Inodes
<1>1. CASE Reads(t) \/ Remembers(t)
  BY <1>1 DEF Reads, Remembers, Touches, Busy
<1>2. CASE Stages(t)
  <2>1. /\ content' = [content EXCEPT ![OpenedBy(q, task[t].op)] = {}] /\ acked' = acked
        /\ task[t].pc = "open"
    BY <1>2 DEF Stages, OpenSibling
  <2>2. OpenedBy(q, task[t].op) = 0 \/ OpenedBy(q, task[t].op) \in Touchable(t, q)
    BY <2>1 DEF Touchable, Begun, OpenedBy
  <2> QED BY <2>1, <2>2, <1>k DEF Touches, Busy
<1>3. CASE Writes(t)
  <2>1. PICK b : content' = [content EXCEPT ![task[t].inode] = b]
    BY <1>3 DEF Writes, WriteAll
  <2>2. task[t].pc = "write" /\ acked' = acked
    BY <1>3 DEF Writes
  <2>3. task[t].inode \in Touchable(t, q)
    BY <2>2 DEF Touchable, Held, Opened
  <2> QED BY <2>1, <2>2, <2>3, <1>k DEF Touches, Busy
<1>4. CASE Fails(t)
  BY <1>4 DEF Fails, RemoveStaged, Touches, Busy, Working
<1>5. CASE PublishesItem(t)
  BY <1>5 DEF PublishesItem, Rename, Touches, Busy
<1>6. CASE PublishesSettings(t)
  BY <1>6, <1>k DEF PublishesSettings, Rename, Touches, Busy
<1>7. CASE Counts(t)
  BY <1>7, <1>k DEF Counts, Touches, Busy
<1> QED BY <1>1, <1>2, <1>3, <1>4, <1>5, <1>6, <1>7

\* Files and writers that the step is not about.
LEMMA OthersWhole ==
    ASSUME TypeOK, Requests, InodesApart, FilesWhole, NEW t \in Tasks,
           NEW q \in Paths, q = task[t].path, Shuffles(t, q), Touches(t, q), Busy(t),
           Moves(t), clashed \subseteq clashed'
    PROVE  /\ \A p \in Paths \ clashed' : p # q => FileOK(p)'
           /\ \A u \in Tasks \ {t} : Busy(u)' /\ task'[u].path \notin clashed' => WriterOK(u)'
<1>k. /\ \A p \in Paths \ {q} : UNCHANGED <<file[p], tmp[p], acked[p]>>
      /\ \A p \in Paths : Named(p) \subseteq Inodes
      /\ \A u \in Tasks : Held(u) \subseteq Inodes
  <2>1. 1 .. ops \subseteq Inodes
    BY Bounds DEF Inodes, TypeOK
  <2> QED BY <2>1 DEF Shuffles, Touches, InodesApart
<1>t. /\ \A p \in Paths \ {q} : Named(p) \cap Touchable(t, q) = {}
      /\ \A u \in Tasks : task[u].path # q => Held(u) \cap Touchable(t, q) = {}
  BY DEF InodesApart, Touchable, Named
<1>c. /\ \A p \in Paths \ {q} : file[p] # 0 => content'[file[p]] = content[file[p]]
      /\ \A u \in Tasks : Opened(u) /\ task[u].path # q
            => content'[task[u].inode] = content[task[u].inode]
  BY <1>k, <1>t DEF Touches, Named, Held
<1>r. \A p \in Paths \ {q} : read_json(p)' = read_json(p)
  BY <1>k, <1>c DEF read_json
<1>1. ASSUME NEW p \in Paths \ clashed', p # q PROVE FileOK(p)'
  <2>1. FileOK(p)
    BY <1>1 DEF FilesWhole
  <2> QED BY <2>1, <1>1, <1>k, <1>c DEF FileOK
<1>2. ASSUME NEW u \in Tasks \ {t}, Busy(u)', task'[u].path \notin clashed' PROVE WriterOK(u)'
  <2>1. task'[u] = task[u] /\ Busy(u) /\ task[u].path \notin clashed
    BY <1>2 DEF Moves, Busy
  <2>2. task[u].path \in Paths /\ task[u].path # q
    BY <2>1 DEF TypeOK, TaskState, Requests, Apart
  <2>3. WriterOK(u)
    BY <2>1 DEF FilesWhole
  <2> DEFINE p == task[u].path
  <2>4. /\ UNCHANGED <<file[p], tmp[p], acked[p]>>
    BY <2>2, <1>k, <2>1
  <2>5. read_json(p)' = read_json(p)
    BY <2>2, <1>r, <2>1
  <2>6. /\ file[p] # 0 => content'[file[p]] = content[file[p]]
        /\ Opened(u) => content'[task[u].inode] = content[task[u].inode]
    BY <2>2, <1>c
  <2> QED BY <2>1, <2>2, <2>3, <2>4, <2>5, <2>6, <1>k DEF WriterOK, Opened, Working, Finishing
<1> QED BY <1>1, <1>2

\* The file the step is about, and its writer, if it is alone.
LEMMA OwnWhole ==
    ASSUME TypeOK, Requests, InodesApart, FilesWhole, NEW t \in Tasks,
           NEW q \in Paths, q = task[t].path, q \notin clashed,
           \/ Reads(t) \/ Stages(t) \/ Writes(t) \/ Fails(t)
           \/ PublishesItem(t) \/ PublishesSettings(t) \/ Remembers(t) \/ Counts(t)
    PROVE  FileOK(q)' /\ (Busy(t)' => WriterOK(t)')
<1>k. /\ content \in [Inodes -> Bodies] /\ acked \in [Paths -> 0 .. MaxOps]
      /\ file \in [Paths -> 0 .. MaxOps] /\ tmp \in [Paths -> 0 .. MaxOps]
      /\ TaskOK(t)
  BY DEF TypeOK, Requests
<1>o. ops \in Nat /\ 1 .. ops \subseteq Inodes
  BY Bounds DEF TypeOK, Inodes
<1>b. Busy(t)
  BY DEF Reads, Stages, Writes, Fails, PublishesItem, PublishesSettings, Remembers, Counts,
         Busy, Working
<1>w. FileOK(q) /\ WriterOK(t)
  BY <1>b DEF FilesWhole
<1>1. CASE Reads(t)
  <2>1. /\ UNCHANGED <<file, tmp, content, acked>>
        /\ task'[t].pc = "open" /\ task'[t].op = task[t].op /\ task'[t].path = q
        /\ task'[t].merge = task[t].merge
        /\ task[t].merge => read_json(q) \subseteq task'[t].body
    BY <1>1 DEF Reads, Same
  <2>2. read_json(q)' = read_json(q)
    BY <2>1 DEF read_json
  <2> QED BY <2>1, <2>2, <1>w DEF FileOK, WriterOK, Opened, Working, Finishing
<1>2. CASE Stages(t)
  <2> DEFINE i == OpenedBy(q, task[t].op)
  <2>1. /\ tmp' = [tmp EXCEPT ![q] = i] /\ content' = [content EXCEPT ![i] = {}]
        /\ UNCHANGED <<file, acked>>
        /\ task[t].pc = "open" /\ task'[t].pc = "write" /\ task'[t].inode = i
        /\ task'[t].op = task[t].op /\ task'[t].path = q
        /\ task'[t].merge = task[t].merge /\ task'[t].body = task[t].body
    BY <1>2 DEF Stages, Same, OpenSibling
  <2>2. /\ i \in Inodes
        /\ file[q] # 0 => i # file[q]
    BY <2>1, <1>k, <1>o DEF OpenedBy, InodesApart, TaskOK, Busy, Named, Begun
  <2> HIDE DEF i
  <2>3. file[q] # 0 => content'[file[q]] = content[file[q]]
    BY <2>1, <2>2, <1>k DEF InodesApart, Named
  <2>4. read_json(q)' = read_json(q)
    BY <2>1, <2>3 DEF read_json
  <2>5. tmp'[q] = i /\ content'[i] = {}
    BY <2>1, <2>2, <1>k
  <2> QED BY <2>1, <2>3, <2>4, <2>5, <1>w DEF FileOK, WriterOK, Opened, Working, Finishing
<1>3. CASE Writes(t)
  <2> DEFINE i == task[t].inode
  <2>1. /\ UNCHANGED <<file, tmp, acked>>
        /\ task[t].pc = "write" /\ task'[t].pc = "rename" /\ task'[t].inode = i
        /\ task'[t].op = task[t].op /\ task'[t].path = q
        /\ task'[t].merge = task[t].merge /\ task'[t].body = task[t].body
    BY <1>3 DEF Writes, Same, WriteAll
  <2>2. i \in Held(t) /\ i = tmp[q] /\ content[i] = {}
    BY <2>1, <1>w DEF Held, Opened, WriterOK
  <2>3. content' = [content EXCEPT ![i] = task[t].body]
    BY <1>3, <2>2 DEF Writes, WriteAll
  <2>4. i \in Inodes /\ (file[q] # 0 => i # file[q])
    BY <2>2, <1>k, <1>o DEF InodesApart
  <2> HIDE DEF i
  <2>5. file[q] # 0 => content'[file[q]] = content[file[q]]
    BY <2>3, <2>4, <1>k DEF InodesApart, Named
  <2>6. read_json(q)' = read_json(q)
    BY <2>1, <2>5 DEF read_json
  <2>7. content'[i] = task[t].body
    BY <2>3, <2>4, <1>k
  <2> QED BY <2>1, <2>2, <2>5, <2>6, <2>7, <1>w DEF FileOK, WriterOK, Opened, Working, Finishing
<1>4. CASE Fails(t)
  <2>1. UNCHANGED <<file, content, acked>> /\ task'[t].pc = "idle"
    BY <1>4, IdleTyped DEF Fails, RemoveStaged
  <2> QED BY <2>1, <1>w DEF FileOK, Busy
<1>5. CASE PublishesItem(t) \/ PublishesSettings(t)
  <2>1. /\ Rename(q) /\ UNCHANGED content /\ task[t].pc = "rename"
        /\ task'[t].pc \in {"idle", "remember"}
    BY <1>5, IdleTyped DEF PublishesItem, PublishesSettings, Rename
  <2>2. file'[q] = tmp[q] /\ tmp[q] # 0
    BY <2>1, <1>k DEF Rename
  <2>3. /\ content'[file'[q]] = task[t].body
        /\ Whole(task[t].body) /\ task[t].op \in task[t].body
    BY <2>1, <2>2, <1>w, <1>k DEF WriterOK, Opened, TaskOK, Working
  <2>4. acked'[q] <= task[t].op /\ (Busy(t)' => acked'[q] < task[t].op)
    <3>1. CASE PublishesItem(t)
      <4>1. acked'[q] = acked[q] /\ acked[q] < task[t].op
        BY <3>1, <1>w DEF PublishesItem, WriterOK
      <4>2. task[t].op \in Nat /\ acked[q] \in Nat
        <5>1. task[t].op \in 1 .. ops
          BY <1>k, <1>b DEF TaskOK
        <5>2. \A n \in 1 .. ops : n \in Nat
          BY <1>o
        <5>3. acked[q] \in 0 .. MaxOps
          BY <1>k
        <5>4. \A n \in 0 .. MaxOps : n \in Nat
          BY Bounds
        <5> QED BY <5>1, <5>2, <5>3, <5>4
      <4> QED BY <4>1, <4>2
    <3>2. CASE PublishesSettings(t)
      <4>1. acked'[q] = task[t].op /\ ~Busy(t)'
        BY <3>2, <1>k, IdleTyped DEF PublishesSettings, Busy
      <4> QED BY <4>1, <1>k, <1>b DEF TaskOK
    <3> QED BY <1>5, <3>1, <3>2
  <2>5. Busy(t)' => task'[t].op = task[t].op /\ task'[t].path = q /\ task'[t].pc = "remember"
    BY <1>5, IdleTyped DEF PublishesItem, PublishesSettings, Same, Busy
  <2> QED BY <2>2, <2>3, <2>4, <2>5, <2>1 DEF FileOK, WriterOK, Opened, Working, Finishing
<1>6. CASE Remembers(t)
  <2>1. /\ UNCHANGED <<file, tmp, content, acked>>
        /\ task[t].pc = "remember" /\ task'[t].pc = "count" /\ task'[t].op = task[t].op
        /\ task'[t].path = q
    BY <1>6 DEF Remembers, Same
  <2> QED BY <2>1, <1>w DEF FileOK, WriterOK, Opened, Working, Finishing
<1>7. CASE Counts(t)
  <2>1. /\ UNCHANGED <<file, content>> /\ task[t].pc = "count" /\ task'[t].pc = "idle"
        /\ acked' = [acked EXCEPT ![q] = task[t].op]
    BY <1>7, IdleTyped DEF Counts
  <2>2. acked'[q] = task[t].op /\ task[t].op \in Nat
    BY <2>1, <1>k, <1>b DEF TaskOK
  <2>3. file[q] # 0 /\ task[t].op \in content[file[q]]
    BY <2>1, <1>w DEF WriterOK, Finishing
  <2> QED BY <2>1, <2>2, <2>3, <1>w DEF FileOK, Busy
<1> QED BY <1>1, <1>2, <1>3, <1>4, <1>5, <1>6, <1>7

\* Every step keeps the files whole.
LEMMA FilesStep ==
    ASSUME TypeOK, Requests, InodesApart, FilesWhole, StepForms
    PROVE  FilesWhole'
<1>1. CASE connect \/ Forgets
  BY <1>1 DEF connect, Forgets, FilesWhole, FileOK, WriterOK, read_json, Busy, Opened,
              Working, Finishing
<1>2. CASE Die
  <2>1. \A t \in Tasks : task'[t].pc = "idle"
    BY <1>2, IdleTyped DEF Die
  <2>2. UNCHANGED <<file, tmp, content, acked, ops, clashed>>
    BY <1>2 DEF Die
  <2> QED BY <2>1, <2>2 DEF FilesWhole, FileOK, Busy
<1>3. ASSUME NEW t \in Tasks, Begins(t) \/ Asks(t) PROVE FilesWhole'
  <2>1. /\ UNCHANGED <<file, tmp, content, acked>> /\ clashed \subseteq clashed'
        /\ ops \in Nat /\ ops' \in {ops, ops + 1}
        /\ task' \in [Tasks -> TaskState]
    BY <1>3, MoverOK DEF Begins, Asks, Moves
  <2>2. \A p \in Paths : acked'[p] <= ops'
    BY <2>1 DEF FilesWhole, TypeOK
  <2>3. \A p \in Paths \ clashed' : FileOK(p)'
    BY <2>1 DEF FilesWhole, FileOK
  <2>4. \A u \in Tasks \ {t} : Busy(u)' /\ task'[u].path \notin clashed' => WriterOK(u)'
    <3> SUFFICES ASSUME NEW u \in Tasks \ {t}, Busy(u)', task'[u].path \notin clashed'
                 PROVE  WriterOK(u)'
      OBVIOUS
    <3>1. task'[u] = task[u] /\ Busy(u)
      BY <1>3 DEF Begins, Asks, Moves, Busy
    <3>2. WriterOK(u)
      BY <3>1, <2>1 DEF FilesWhole
    <3> QED BY <3>1, <3>2, <2>1 DEF WriterOK, read_json, Opened, Working, Finishing
  <2>5. Busy(t)' => WriterOK(t)'
    <3> SUFFICES ASSUME Busy(t)' PROVE WriterOK(t)'
      OBVIOUS
    <3>1. task'[t].pc = "read" /\ task'[t].op = ops + 1 /\ task'[t].path \in Paths
      BY <1>3, <2>1 DEF Begins, Asks, Busy, TaskState
    <3>2. acked'[task'[t].path] < task'[t].op
      BY <3>1, <2>1 DEF FilesWhole, TypeOK
    <3> QED BY <3>1, <3>2 DEF WriterOK, Opened, Working, Finishing
  <2> QED BY <2>2, <2>3, <2>4, <2>5 DEF FilesWhole
<1>4. ASSUME NEW t \in Tasks,
          \/ Reads(t) \/ Stages(t) \/ Writes(t) \/ Fails(t)
          \/ PublishesItem(t) \/ PublishesSettings(t) \/ Remembers(t) \/ Counts(t)
      PROVE  FilesWhole'
  <2>q. task[t].path \in Paths
    BY DEF TypeOK, TaskState
  <2> PICK q \in Paths : q = task[t].path
    BY <2>q
  <2>1. Shuffles(t, q) /\ Touches(t, q) /\ Busy(t)
    BY <1>4, InodeMoves, TouchMoves
  <2>2. /\ Moves(t) /\ ops \in Nat /\ ops' \in {ops, ops + 1} /\ TaskOK(t)
        /\ Busy(t)' => Same(t)
    BY <1>4, MoverOK DEF Requests, Begins, Reads, Stages, Writes, Fails, PublishesItem,
                         PublishesSettings, Remembers, Counts, Busy, Working
  <2>3. clashed' = clashed
    BY <1>4 DEF Reads, Stages, Writes, Fails, PublishesItem, PublishesSettings, Remembers,
                Counts
  <2>4. /\ \A p \in Paths \ clashed' : p # q => FileOK(p)'
        /\ \A u \in Tasks \ {t} : Busy(u)' /\ task'[u].path \notin clashed' => WriterOK(u)'
    BY <2>1, <2>2, <2>3, OthersWhole
  <2>5. q \notin clashed => FileOK(q)' /\ (Busy(t)' => WriterOK(t)')
    BY <1>4, OwnWhole
  <2>6. \A p \in Paths : acked'[p] <= ops'
    <3>1. acked'[q] \in {acked[q], task[t].op}
      BY <1>4, Bounds DEF Reads, Stages, Writes, Fails, PublishesItem, PublishesSettings,
              Remembers, Counts, TypeOK
    <3>2. task[t].op \in 1 .. ops
      BY <2>1, <2>2 DEF TaskOK
    <3> QED BY <2>1, <2>2, <3>1, <3>2 DEF FilesWhole, TypeOK, Touches
  <2>7. Busy(t)' => task'[t].path = q
    BY <2>2 DEF Same
  <2> QED BY <2>3, <2>4, <2>5, <2>6, <2>7 DEF FilesWhole
<1> QED BY <1>1, <1>2, <1>3, <1>4 DEF StepForms

-----------------------------------------------------------------------------
(* What is left beside the files, what is listed, and the counter.         *)

\* Every step leaves a sibling only to one who has it open.
LEMMA StagedStep ==
    ASSUME TypeOK, Requests, Staged, StepForms
    PROVE  Staged'
<1> USE DEF Staged
<1>1. CASE connect \/ Forgets
  BY <1>1 DEF connect, Forgets, Opened
<1>2. CASE Die
  <2>1. "died" \notin cut' => /\ "died" \notin cut
                              /\ \A t \in Tasks : ~Opened(t)
    BY <1>2 DEF Die, Opened
  <2>2. UNCHANGED tmp
    BY <1>2 DEF Die
  <2> QED BY <2>1, <2>2
<1>3. ASSUME NEW t \in Tasks,
          \/ Begins(t) \/ Asks(t) \/ Reads(t) \/ Stages(t) \/ Writes(t) \/ Fails(t)
          \/ PublishesItem(t) \/ PublishesSettings(t) \/ Remembers(t) \/ Counts(t)
      PROVE  Staged'
  <2>1. "died" \notin cut' => "died" \notin cut
    BY <1>3 DEF Begins, Asks, Reads, Stages, Writes, Fails, PublishesItem,
                PublishesSettings, Remembers, Counts
  <2>2. /\ \A u \in Tasks \ {t} : task'[u] = task[u]
        /\ task[t].path \in Paths
        /\ tmp \in [Paths -> 0 .. MaxOps]
    BY <1>3, MoverOK DEF Moves, TypeOK, TaskState
  <2>3. \A p \in Paths : p # task[t].path => tmp'[p] = tmp[p]
    BY <1>3, <2>2 DEF Begins, Asks, Reads, Stages, Writes, Fails, PublishesItem,
                PublishesSettings, Remembers, Counts, OpenSibling, WriteAll, RemoveStaged, Rename
  <2>4. ASSUME NEW p \in Paths, tmp'[p] # 0, NEW u \in Tasks, u # t, Opened(u), task[u].path = p
        PROVE  \E v \in Tasks : Opened(v)' /\ task'[v].path = p
    BY <2>2, <2>4 DEF Opened
  <2>5. tmp'[task[t].path] = 0 \/ (Opened(t)' /\ task'[t].path = task[t].path)
        \/ (tmp' = tmp /\ ~Opened(t))
    BY <1>3, <2>2 DEF Begins, Asks, Reads, Stages, Writes, Fails, PublishesItem,
                PublishesSettings, Remembers, Counts, RemoveStaged, Rename, Opened, Same
  <2> QED BY <2>1, <2>3, <2>4, <2>5, <2>2
<1> QED BY <1>1, <1>2, <1>3 DEF StepForms

\* Every step lists only what has a file.
LEMMA ListedStep ==
    ASSUME TypeOK, Requests, FilesWhole, Listed, StepForms
    PROVE  Listed'
<1> USE DEF Listed
<1>1. CASE connect
  <2>1. \A t \in Tasks : ~Working(t)
    BY <1>1, IdleTyped DEF connect, Requests, AllIdle, Working
  <2> QED BY <1>1, <2>1 DEF connect, Working
<1>2. CASE Die
  <2>1. cut' = {} => cut = {} /\ \A t \in Tasks : ~Working(t)
    BY <1>2 DEF Die, Working
  <2>2. UNCHANGED <<dirs, file, clashed>> /\ items' = {}
    BY <1>2 DEF Die
  <2> QED BY <2>1, <2>2
<1>3. CASE Forgets
  BY <1>3 DEF Forgets, Working
<1>4. ASSUME NEW t \in Tasks, cut' = {},
          \/ Begins(t) \/ Asks(t) \/ Reads(t) \/ Stages(t) \/ Writes(t) \/ Fails(t)
          \/ PublishesItem(t) \/ PublishesSettings(t) \/ Remembers(t) \/ Counts(t)
      PROVE  Listed'
  <2>1. cut = {} /\ ~Fails(t)
    BY <1>4 DEF Begins, Asks, Reads, Stages, Writes, Fails, PublishesItem,
                PublishesSettings, Remembers, Counts
  <2>2. /\ \A u \in Tasks \ {t} : task'[u] = task[u]
        /\ task[t].path \in Paths /\ task[t].inode \in 0 .. MaxOps
        /\ tmp \in [Paths -> 0 .. MaxOps] /\ file \in [Paths -> 0 .. MaxOps]
        /\ clashed \subseteq clashed' /\ items \subseteq Ids /\ dirs \subseteq Ids
    BY <1>4, MoverOK DEF Moves, TypeOK, TaskState
  <2>3. \A p \in Paths : file[p] # 0 => file'[p] # 0
    BY <1>4, <2>2 DEF Begins, Asks, Reads, Stages, Writes, Fails, PublishesItem,
                PublishesSettings, Remembers, Counts, OpenSibling, WriteAll, RemoveStaged, Rename
  <2>4. ASSUME NEW id, NEW u \in Tasks, u # t, Working(u), task[u].path = id
        PROVE  \E v \in Tasks : Working(v)' /\ task'[v].path = id
    BY <2>2, <2>4 DEF Working
  <2>5. Working(t) => \/ Working(t)' /\ task'[t].path = task[t].path
                      \/ file'[task[t].path] # 0
    BY <1>4, <2>1, <2>2 DEF Begins, Asks, Reads, Stages, Writes, Working, Same, PublishesItem,
                PublishesSettings, Remembers, Counts, Rename
  <2>6. ASSUME NEW id \in dirs' \ clashed'
        PROVE  file'[id] # 0 \/ \E v \in Tasks : Working(v)' /\ task'[v].path = id
    <3>1. CASE id \in dirs
      <4>1. file[id] # 0 \/ \E v \in Tasks : Working(v) /\ task[v].path = id
        BY <3>1, <2>1, <2>2, <2>6
      <4> QED BY <4>1, <2>2, <2>3, <2>4, <2>5, <3>1, Bounds
    <3>2. CASE id \notin dirs
      <4>1. Reads(t) /\ id = task[t].path
        BY <1>4, <2>6, <3>2 DEF Begins, Asks, Reads, Stages, Writes, Fails, PublishesItem,
                PublishesSettings, Remembers, Counts
      <4> QED BY <4>1 DEF Reads, Same, Working
    <3> QED BY <3>1, <3>2
  <2>7. ASSUME NEW id \in items' \ clashed'
        PROVE  file'[id] # 0
    <3>1. CASE id \in items
      BY <3>1, <2>1, <2>2, <2>3, <2>7, Bounds
    <3>2. CASE id \notin items
      <4>1. Remembers(t) /\ id = task[t].path
        BY <1>4, <2>7, <3>2 DEF Begins, Asks, Reads, Stages, Writes, Fails, PublishesItem,
                PublishesSettings, Remembers, Counts
      <4>2. WriterOK(t)
        BY <4>1, <2>2, <2>7 DEF FilesWhole, Remembers, Busy
      <4> QED BY <4>1, <4>2, <2>2, <2>3 DEF WriterOK, Finishing, Remembers
    <3> QED BY <3>1, <3>2
  <2> QED BY <2>6, <2>7
<1> QED BY <1>1, <1>2, <1>3, <1>4 DEF StepForms

\* Every step keeps the highest id above all that were returned.
LEMMA HighestStep ==
    ASSUME TypeOK, Requests, Highest, StepForms
    PROVE  Highest'
<1> USE DEF Highest
<1>k. /\ items_count \in Nat /\ cnt \in Nat \cup {-1} /\ Counter \in Nat
      /\ acked \in [Paths -> 0 .. MaxOps] /\ up \in BOOLEAN
  BY Bounds DEF TypeOK, Counter
<1>1. CASE connect
  BY <1>1 DEF connect, High, Counter, Busy
<1>2. CASE Die
  <2>1. cut' = {} => cut = {} /\ \A t \in Tasks : ~Busy(t)
    BY <1>2 DEF Die, Busy
  <2>2. UNCHANGED <<acked, cnt>> /\ up /\ up' = FALSE
    BY <1>2 DEF Die
  <2> QED BY <2>1, <2>2 DEF High, Counter
<1>3. CASE Forgets
  BY <1>3 DEF Forgets, High, Counter, Busy
<1>4. ASSUME NEW t \in Tasks, cut' = {},
          \/ Begins(t) \/ Asks(t) \/ Reads(t) \/ Stages(t) \/ Writes(t) \/ Fails(t)
          \/ PublishesItem(t) \/ PublishesSettings(t) \/ Remembers(t) \/ Counts(t)
      PROVE  Highest'
  <2>1. cut = {} /\ ~Fails(t) /\ up /\ up'
    BY <1>4 DEF Begins, Asks, Reads, Stages, Writes, Fails, PublishesItem,
                PublishesSettings, Remembers, Counts, Moves
  <2>2. /\ \A u \in Tasks \ {t} : task'[u] = task[u]
        /\ TaskOK(t)
    BY <1>4, MoverOK DEF Moves, Requests
  <2>3. ASSUME NEW u \in Tasks, u # t, Busy(u), task[u].path = items_count
        PROVE  \E v \in Tasks : Busy(v)' /\ task'[v].path = items_count
    BY <2>2, <2>3 DEF Busy
  <2>4. CASE Begins(t) /\ items_count' # items_count
    <3>1. /\ items_count' = NextId /\ task'[t].path = NextId /\ task'[t].pc = "read"
          /\ UNCHANGED acked
      BY <2>4 DEF Begins
    <3>2. items_count <= NextId
      BY <1>k, Bounds DEF NextId, TypeOK, Ids
    <3>3. NextId \in Nat
      BY <1>k, Bounds DEF NextId
    <3>4. \A id \in Ids : acked'[id] # 0 => id <= items_count'
      BY <3>1, <3>2, <3>3, <2>1, <1>k, Bounds DEF High
    <3>5. Busy(t)' /\ task'[t].path = items_count' /\ items_count' # 0
      <4>1. NextId # 0
        BY <1>k, Bounds DEF NextId
      <4> QED BY <3>1, <4>1 DEF Busy
    <3> QED BY <2>1, <3>4, <3>5 DEF High
  <2>5. CASE \/ Begins(t) /\ items_count' = items_count
             \/ Asks(t) \/ Reads(t) \/ Stages(t) \/ Writes(t) \/ PublishesItem(t)
             \/ Remembers(t)
    <3>1. UNCHANGED <<items_count, cnt, acked>>
      BY <2>5 DEF Begins, Asks, Reads, Stages, Writes, PublishesItem, Remembers
    <3>2. Busy(t) => Busy(t)' /\ task'[t].path = task[t].path
      BY <2>5 DEF Begins, Asks, Reads, Stages, Writes, PublishesItem, Remembers, Busy, Same
    <3>3. \A id \in Ids : acked'[id] # 0 => id <= items_count
      BY <2>1, <3>1 DEF High
    <3>4. \/ items_count = Counter
          \/ items_count # 0 /\ \E v \in Tasks : Busy(v)' /\ task'[v].path = items_count
      <4>1. ASSUME NEW u \in Tasks, Busy(u), task[u].path = items_count
            PROVE  \E v \in Tasks : Busy(v)' /\ task'[v].path = items_count
        BY <2>3, <3>2, <4>1
      <4> QED BY <2>1, <4>1
    <3> QED BY <2>1, <3>1, <3>3, <3>4 DEF High, Counter
  <2>6. CASE PublishesSettings(t)
    <3>1. /\ UNCHANGED <<items_count, cnt>> /\ acked' = [acked EXCEPT ![Settings] = task[t].op]
          /\ task[t].path = 0
      BY <2>6 DEF PublishesSettings, Settings
    <3>2. \A id \in Ids : acked'[id] = acked[id]
      BY <3>1, <1>k, Bounds
    <3>3. \A id \in Ids : acked'[id] # 0 => id <= items_count
      BY <2>1, <3>2 DEF High
    <3>4. \/ items_count = Counter
          \/ items_count # 0 /\ \E v \in Tasks : Busy(v)' /\ task'[v].path = items_count
      <4>1. ASSUME NEW u \in Tasks, Busy(u), task[u].path = items_count, items_count # 0
            PROVE  \E v \in Tasks : Busy(v)' /\ task'[v].path = items_count
        BY <2>3, <3>1, <4>1
      <4> QED BY <2>1, <4>1
    <3> QED BY <2>1, <3>1, <3>3, <3>4 DEF High, Counter
  <2>7. CASE Counts(t)
    <3> DEFINE q == task[t].path
    <3>1. /\ acked' = [acked EXCEPT ![q] = task[t].op] /\ q \in Ids /\ q \in Nat
      BY <2>7, <2>2, Bounds DEF Counts, TaskOK, Finishing
    <3>2. \A id \in Ids : acked'[id] # 0 => id = q \/ id <= items_count
      BY <3>1, <2>1, <1>k DEF High
    <3>3. CASE q >= items_count
      <4>1. items_count' = q /\ cnt' = q
        BY <2>7, <3>3, <1>4 DEF Counts
      <4>2. q # -1
        BY <3>1
      <4>3. \A id \in Ids : acked'[id] # 0 => id <= q
        <5> SUFFICES ASSUME NEW id \in Ids, acked'[id] # 0 PROVE id <= q
          OBVIOUS
        <5>1. id \in Nat /\ (id = q \/ id <= items_count)
          BY <3>2, Bounds
        <5> HIDE DEF q
        <5> QED BY <5>1, <3>1, <3>3, <1>k
      <4> QED BY <2>1, <4>1, <4>2, <4>3 DEF High, Counter
    <3>4. CASE ~(q >= items_count)
      <4>1. UNCHANGED <<items_count, cnt>> /\ q # items_count /\ q <= items_count
        BY <2>7, <3>4, <3>1, <1>k DEF Counts
      <4> QED BY <2>1, <2>3, <3>2, <4>1 DEF High, Counter
    <3> QED BY <3>3, <3>4
  <2> QED BY <1>4, <2>1, <2>4, <2>5, <2>6, <2>7
<1> QED BY <1>1, <1>2, <1>3, <1>4 DEF StepForms

-----------------------------------------------------------------------------
(* The invariant and what it says.                                         *)

\* The inductive invariant.
StoreFacts == TypeOK /\ Requests /\ InodesApart /\ FilesWhole /\ Staged /\ Listed /\ Highest

\* It holds of every collection a first start may find.
LEMMA StoreInit == Init => StoreFacts
<1> SUFFICES ASSUME Init PROVE StoreFacts
  OBVIOUS
<1>1. PICK n \in 0 .. MaxId - 1 : dirs = 1 .. n
  BY LocalStoreAssumption DEF Init
<1>2. n \in Nat /\ n < MaxId /\ Cardinality(dirs) = n
  BY <1>1, Bounds, FS_Interval
<1>3. n < MaxOps
  BY <1>2, LocalStoreAssumption DEF Init
<1>4. /\ n \in 0 .. MaxOps /\ 0 \in 0 .. MaxOps
      /\ dirs \subseteq Inodes /\ dirs \subseteq 1 .. n /\ dirs \subseteq Ids /\ 0 \notin dirs
      /\ \A i \in dirs : i \in 0 .. MaxOps /\ i <= n
  BY <1>1, <1>2, <1>3, Bounds DEF Inodes, Ids
<1>5. /\ ops = n /\ cnt \in Ids \cup {-1} /\ Counter = n
      /\ file \in [Paths -> 0 .. MaxOps] /\ tmp \in [Paths -> 0 .. MaxOps]
      /\ \A p \in Paths : file[p] = (IF p \in dirs THEN p ELSE 0) /\ tmp[p] = 0
      /\ acked = file
  <2>1. CASE dirs = {}
    <3>1. n = 0
      BY <2>1, <1>1, <1>2
    <3> QED BY <2>1, <3>1, <1>2, <1>4 DEF Init, Counter
  <2>2. CASE dirs # {}
    <3>1. n \in Ids /\ n # -1
      BY <2>2, <1>1, <1>2, Bounds DEF Ids
    <3> QED BY <2>2, <3>1, <1>2, <1>4 DEF Init, Counter
  <2> QED BY <2>1, <2>2
<1>6. content \in [Inodes -> Bodies] /\ \A i \in dirs : content[i] = {i}
  BY <1>4 DEF Init, Bodies
<1>7. \A t \in Tasks : task[t] = IdleTask /\ task[t].pc = "idle"
  BY IdleTyped DEF Init
<1>8. /\ task \in [Tasks -> TaskState] /\ up = FALSE /\ items = {} /\ items_count = 0
      /\ clashed = {} /\ cut = {}
  BY IdleTyped DEF Init
<1>9. TypeOK
  BY <1>4, <1>5, <1>6, <1>8 DEF TypeOK
<1>10. Requests
  BY <1>7, <1>8 DEF Requests, AllIdle, TaskOK, Apart, Busy, Finishing, Working
<1>11. InodesApart
  <2>1. \A t \in Tasks : Held(t) = {} /\ Begun(t) = {}
    BY <1>7 DEF Held, Begun, Opened
  <2>2. \A p \in Paths : Named(p) = IF p \in dirs THEN {p} ELSE {}
    BY <1>4, <1>5 DEF Named
  <2> QED BY <2>1, <2>2, <1>4, <1>5 DEF InodesApart
<1>12. FilesWhole
  <2>1. ASSUME NEW p \in Paths PROVE acked[p] <= ops /\ FileOK(p)
    <3>1. CASE p \in dirs
      <4>1. file[p] = p /\ acked[p] = p /\ content[file[p]] = {p}
        BY <3>1, <1>5, <1>6
      <4>2. p \in Nat /\ p # 0 /\ p <= n
        BY <3>1, <1>2, <1>4
      <4> QED BY <4>1, <4>2, <1>5 DEF FileOK, Whole
    <3>2. CASE p \notin dirs
      <4>1. file[p] = 0 /\ acked[p] = 0
        BY <3>2, <1>5
      <4> QED BY <4>1, <1>2, <1>5 DEF FileOK
    <3> QED BY <3>1, <3>2
  <2> QED BY <2>1, <1>7 DEF FilesWhole, Busy
<1>13. Staged /\ Listed
  BY <1>4, <1>5, <1>8, Bounds DEF Staged, Listed
<1>14. Highest
  BY <1>4, <1>5, <1>8, Bounds DEF Highest, High
<1> QED BY <1>9, <1>10, <1>11, <1>12, <1>13, <1>14 DEF StoreFacts

\* Every step keeps it.
LEMMA StoreStep == StoreFacts /\ [Next]_vars => StoreFacts'
<1>1. StoreFacts /\ Next => StoreFacts'
  BY NextForms, TypeStep, RequestsStep, InodesStep, FilesStep, StagedStep, ListedStep,
     HighestStep DEF StoreFacts
<1>2. ASSUME StoreFacts, UNCHANGED vars PROVE StoreFacts'
  <2>1. UNCHANGED <<file, tmp, content, dirs, cnt, up, items, items_count, task, ops,
                    acked, clashed, cut>>
    BY <1>2 DEF vars
  <2>2. TypeOK' /\ Requests' /\ InodesApart'
    BY <1>2, <2>1 DEF StoreFacts, TypeOK, Requests, AllIdle, TaskOK, Apart, Busy, Finishing,
       Working, InodesApart, Held, Named, Begun, Opened
  <2>3. FilesWhole'
    BY <1>2, <2>1 DEF StoreFacts, FilesWhole, FileOK, WriterOK, read_json, Busy, Finishing,
       Working, Opened
  <2>4. Staged' /\ Listed' /\ Highest'
    BY <1>2, <2>1 DEF StoreFacts, Staged, Listed, Highest, High, Counter, Busy, Working, Opened
  <2> QED BY <2>2, <2>3, <2>4 DEF StoreFacts
<1> QED BY <1>1, <1>2

\* It holds throughout.
LEMMA StoreKeeps == Spec => []StoreFacts
<1> QED BY StoreInit, StoreStep, PTL DEF Spec

\* A file that nobody clashed on can be read.
LEMMA WholeIsRead ==
    ASSUME StoreFacts, NEW p \in Paths \ clashed, file[p] # 0
    PROVE  read_json(p) = content[file[p]] /\ read_json(p) # {}
BY DEF StoreFacts, FilesWhole, FileOK, read_json, Whole

\* The invariant says what the files promise.
LEMMA FactsSuffice == StoreFacts => StoreInv
<1> SUFFICES ASSUME StoreFacts PROVE StoreInv
  OBVIOUS
<1>1. ReadersSeeWholeFiles
  <2> SUFFICES ASSUME NEW p \in Paths \ clashed
               PROVE  /\ file[p] # 0 => Whole(content[file[p]])
                      /\ acked[p] # 0 => \E o \in read_json(p) : o >= acked[p]
    BY DEF ReadersSeeWholeFiles
  <2>1. FileOK(p)
    BY DEF StoreFacts, FilesWhole
  <2> QED BY <2>1, WholeIsRead DEF FileOK
<1>2. ListedItemsAreReadable
  <2> SUFFICES ASSUME cut = {}, NEW id \in items \ clashed PROVE read_json(id) # {}
    BY DEF ListedItemsAreReadable
  <2>1. file[id] # 0 /\ id \in Paths
    BY Bounds DEF StoreFacts, Listed, TypeOK
  <2> QED BY <2>1, WholeIsRead
<1>3. NoLitter
  BY DEF NoLitter, StoreFacts, Staged, Opened
<1> QED BY <1>1, <1>2, <1>3 DEF StoreInv, StoreFacts

\* For any number of requests and any interleaving of their system calls, failures
\* and deaths of the process: readers see whole files and nothing older than the
\* last write that returned, as long as no two writers of the path overlapped; what
\* is listed can be read; and no staging file is left over (util/fs.rs atomic_write,
\* store_local.rs set_item, get_item, connect).
THEOREM StoreIsSound == Spec => []StoreInv
<1> QED BY StoreKeeps, FactsSuffice, PTL

\* A request that moves in a step is the one the step is about.
LEMMA MoverIs ==
    ASSUME StoreFacts, Next, NEW t \in Tasks, task[t].pc # "idle", task'[t].pc # task[t].pc,
           task'[t].pc # "idle"
    PROVE  \/ Begins(t) \/ Asks(t) \/ Reads(t) \/ Stages(t) \/ Writes(t) \/ Fails(t)
           \/ PublishesItem(t) \/ PublishesSettings(t) \/ Remembers(t) \/ Counts(t)
<1>1. StepForms
  BY NextForms DEF StoreFacts
<1>2. ~connect /\ ~Die /\ ~Forgets
  BY IdleTyped DEF connect, Die, Forgets
<1>3. PICK u \in Tasks :
          \/ Begins(u) \/ Asks(u) \/ Reads(u) \/ Stages(u) \/ Writes(u) \/ Fails(u)
          \/ PublishesItem(u) \/ PublishesSettings(u) \/ Remembers(u) \/ Counts(u)
  BY <1>1, <1>2 DEF StepForms
<1>4. u = t
  BY <1>3, MoverOK DEF Moves, StoreFacts
<1> QED BY <1>3, <1>4

\* A step that allocates an id allocates one past the highest.
LEMMA FreshStep ==
    StoreFacts /\ [Next]_vars =>
        \A t \in Tasks :
          task[t].pc = "alloc" /\ task'[t].pc = "read" /\ cut = {} /\ task'[t].path # MaxId
             => acked[task'[t].path] = 0
<1> SUFFICES ASSUME StoreFacts, Next, NEW t \in Tasks,
                    task[t].pc = "alloc", task'[t].pc = "read", cut = {},
                    task'[t].path # MaxId, acked[task'[t].path] # 0
             PROVE  FALSE
  BY DEF vars
<1>1. Begins(t)
  BY MoverIs, IdleTyped DEF Reads, Stages, Writes, Fails, Asks, PublishesItem,
     PublishesSettings, Remembers, Counts, Working
<1>2. task'[t].path = NextId /\ up
  BY <1>1 DEF Begins, Moves
<1>3. items_count \in Nat /\ items_count < MaxId /\ NextId = items_count + 1
  BY <1>2, Bounds DEF NextId, StoreFacts, TypeOK
<1>4. NextId \in Ids
  BY <1>3, Bounds DEF Ids
<1>5. NextId <= items_count
  BY <1>2, <1>4 DEF StoreFacts, Highest, High
<1> QED BY <1>3, <1>5

\* No id is allocated that a caller was told about before, in this process or an
\* earlier one, unless a write was cut short or the ids are used up (set_item,
\* connect).
THEOREM FreshIds == Spec => AllocatedIdsAreFresh
<1> QED BY StoreKeeps, FreshStep, PTL DEF Spec, AllocatedIdsAreFresh

\* A step that publishes a merge publishes what was there as well.
LEMMA MergeStep ==
    StoreFacts /\ [Next]_vars =>
        \A p \in Paths : \A t \in Tasks :
          /\ task[t].pc = "rename" /\ task[t].path = p /\ task[t].merge
          /\ task'[t].pc = "remember" /\ p \notin clashed
          => read_json(p) \subseteq read_json(p)'
<1> SUFFICES ASSUME StoreFacts, Next, NEW p \in Paths, NEW t \in Tasks,
                    task[t].pc = "rename", task[t].path = p, task[t].merge,
                    task'[t].pc = "remember", p \notin clashed
             PROVE  read_json(p) \subseteq read_json(p)'
  BY DEF vars
<1>1. PublishesItem(t)
  BY MoverIs, IdleTyped DEF Begins, Reads, Stages, Writes, Fails, Asks,
     PublishesSettings, Remembers, Counts, Working
<1>2. WriterOK(t) /\ TaskOK(t) /\ file \in [Paths -> 0 .. MaxOps]
  BY DEF StoreFacts, FilesWhole, Requests, Busy, TypeOK
<1>3. /\ read_json(p) \subseteq task[t].body /\ Whole(task[t].body)
      /\ content[tmp[p]] = task[t].body
  BY <1>2 DEF WriterOK, Opened, Working, TaskOK
<1>4. file'[p] = tmp[p] /\ tmp[p] # 0 /\ UNCHANGED content
  BY <1>1, <1>2 DEF PublishesItem, Rename
<1> QED BY <1>3, <1>4 DEF read_json

\* A merge keeps the fields that are in the file, if it is alone on its path
\* (set_item with merge).
THEOREM FieldsAreKept == Spec => MergesKeepFields
<1> QED BY StoreKeeps, MergeStep, PTL DEF Spec, MergesKeepFields
-----------------------------------------------------------------------------
(* Lists.                                                                  *)

\* A set of naturals has a least element: what is claimed of every number is proved
\* by the least one it fails for.
LEMMA LeastOf ==
    ASSUME NEW S, S \subseteq Nat, S # {}
    PROVE  \E n \in S : \A k \in S : n <= k
<1>1. \E n \in S : \A k \in S : <<k, n>> \notin OpToRel(<, Nat)
  BY NatLessThanWellFounded, WFMin, Zenon
<1>2. PICK n \in S : \A k \in S : <<k, n>> \notin OpToRel(<, Nat)
  BY <1>1
<1>3. \A k \in S : ~(k < n)
  BY <1>2 DEF OpToRel
<1>4. \A k \in S : n <= k
  BY <1>3
<1> QED BY <1>4

\* The first n numbers are n.
LEMMA FirstNumbers == \A n \in Nat : IsFiniteSet(1 .. n) /\ Cardinality(1 .. n) = n
BY FS_Interval

\* There are only so many ids.
LEMMA IdsAreFinite == \A T : T \subseteq Ids => IsFiniteSet(T) /\ Cardinality(T) \in Nat
<1>1. IsFiniteSet(Ids)
  BY FS_Interval, Bounds DEF Ids
<1> QED BY <1>1, FS_Subset, FS_CardinalityType, Zenon

\* A set of ids can be put in order.
LEMMA SetsSort ==
    ASSUME NEW S, S \subseteq Ids
    PROVE  \E s \in [1 .. Cardinality(S) -> S] : Ascending(s)
<1> DEFINE Sorts(T) == \E s \in [1 .. Cardinality(T) -> T] : Ascending(s)
           Bad == {n \in Nat : \E T : T \subseteq Ids /\ Cardinality(T) = n /\ ~Sorts(T)}
<1>1. \A T : T \subseteq Ids => IsFiniteSet(T) /\ Cardinality(T) \in Nat
  BY IdsAreFinite
<1>2. ASSUME Bad # {} PROVE FALSE
  <2>1. PICK n \in Bad : \A k \in Bad : n <= k
    <3> HIDE DEF Sorts
    <3>1. Bad \subseteq Nat
      OBVIOUS
    <3> HIDE DEF Bad
    <3> QED BY <3>1, <1>2, LeastOf
  <2>2. n \in Nat
    OBVIOUS
  <2>3. PICK T : T \subseteq Ids /\ Cardinality(T) = n /\ ~Sorts(T)
    BY <2>1
  <2> HIDE DEF Bad
  <2>4. CASE n = 0
    <3> DEFINE s == [i \in 1 .. 0 |-> 0]
    <3>1. s \in [1 .. Cardinality(T) -> T] /\ Ascending(s)
      BY <2>3, <2>4 DEF Ascending
    <3> QED BY <3>1, <2>3
  <2>5. CASE n # 0
    <3>1. T # {}
      BY <2>3, <2>5, FS_EmptySet
    <3>2. PICK m \in T : \A x \in T : x <= m
      <4> DEFINE D == {MaxId - x : x \in T}
      <4>1. D \subseteq Nat /\ D # {}
        <5>1. ASSUME NEW x \in T PROVE MaxId - x \in Nat
          <6>1. x \in 1 .. MaxId /\ MaxId \in Nat
            BY <2>3, Bounds DEF Ids
          <6> QED BY <6>1
        <5> QED BY <5>1, <3>1
      <4> HIDE DEF D
      <4>2. PICK d \in D : \A e \in D : d <= e
        BY <4>1, LeastOf
      <4>3. PICK m \in T : d = MaxId - m
        BY <4>2 DEF D
      <4>4. ASSUME NEW x \in T PROVE x <= m
        <5>1. d <= MaxId - x
          BY <4>2 DEF D
        <5>2. x \in Nat /\ m \in Nat /\ MaxId \in Nat
          BY <2>3, Bounds
        <5> QED BY <5>1, <5>2, <4>3
      <4> QED BY <4>4
    <3> DEFINE U == T \ {m}
    <3>3. U \subseteq Ids /\ Cardinality(U) = n - 1 /\ n - 1 \in Nat
      <4>1. Cardinality(U) = Cardinality(T) - 1
        BY <1>1, <2>3, FS_RemoveElement
      <4> QED BY <4>1, <2>2, <2>3, <2>5
    <3>4. Sorts(U)
      <4>1. n - 1 \notin Bad
        BY <2>1, <2>2
      <4> HIDE DEF Sorts, U
      <4> QED BY <4>1, <3>3 DEF Bad
    <3>5. PICK u \in [1 .. n - 1 -> U] : Ascending(u)
      BY <3>3, <3>4
    <3> DEFINE s == [i \in 1 .. n |-> IF i = n THEN m ELSE u[i]]
    <3>6. s \in [1 .. n -> T]
      <4>1. \A i \in 1 .. n : i # n => i \in 1 .. n - 1
        BY <2>2
      <4> QED BY <4>1, <3>5
    <3>7. Ascending(s)
      <4> SUFFICES ASSUME NEW i \in 1 .. n, NEW j \in 1 .. n, i < j PROVE s[i] < s[j]
        BY DEF Ascending
      <4>1. i \in 1 .. n - 1 /\ s[i] = u[i] /\ u[i] \in U
        BY <2>2, <3>5
      <4>2. CASE j = n
        <5>1. u[i] \in Nat /\ m \in Nat /\ u[i] # m /\ u[i] <= m
          BY <4>1, <3>2, <2>3, Bounds
        <5> QED BY <5>1, <4>1, <4>2
      <4>3. CASE j # n
        <5>1. j \in 1 .. n - 1 /\ s[j] = u[j]
          BY <4>3, <2>2
        <5>2. u[i] < u[j]
          BY <3>5, <4>1, <5>1 DEF Ascending
        <5> QED BY <4>1, <5>1, <5>2
      <4> QED BY <4>2, <4>3
    <3> QED BY <2>3, <3>6, <3>7
  <2> QED BY <2>4, <2>5
<1>3. ~Sorts(S) => Cardinality(S) \in Bad
  BY <1>1
<1> QED BY <1>2, <1>3

\* What sort_unstable makes of the known ids.
LEMMA SortedIs ==
    ASSUME NEW S, S \subseteq Ids
    PROVE  /\ Sorted(S) \in Seq(Ids) /\ Len(Sorted(S)) = Cardinality(S)
           /\ Ascending(Sorted(S))
           /\ \A i \in DOMAIN Sorted(S) : Sorted(S)[i] \in S
<1> DEFINE n == Cardinality(S)
<1>1. n \in Nat
  BY IdsAreFinite
<1>2. Sorted(S) \in [1 .. n -> S] /\ Ascending(Sorted(S))
  BY SetsSort, Zenon DEF Sorted
<1> QED BY <1>1, <1>2

\* What a list is.
ReaderState ==
    [pc : {"none", "idle", "walk", "read", "done"}, by : {"range", "list"},
     ids : Seq(Ids), todo : Seq(Ids), found : Seq(Ids), page : SUBSET Ids,
     skip : 0 .. MaxId, limit : 0 .. MaxId, count : Nat, total : Nat]

\* What a list by range shows of its first n ids.
Due(ids, skip, limit, n) == {ids[i] : i \in {j \in 1 .. n : skip < j /\ j <= skip + limit}}

\* Nothing was cut short and no path had two writers.
Undisturbed == cut = {} /\ clashed = {}

\* The page so far, with n ids behind it.
ShowsDue(r, n) ==
    /\ r.page \subseteq Due(r.ids, r.skip, r.limit, n)
    /\ Undisturbed => r.page = Due(r.ids, r.skip, r.limit, n)

\* A list by range has its ids in their order, has seen the first of them, and finds
\* those it has still to read.
RangeFine(r) ==
    r.by = "range" /\ r.pc \in {"walk", "read"} =>
        /\ Ascending(r.ids) /\ r.total = Len(r.ids)
        /\ r.pc = "walk" =>
               /\ r.count + Len(r.todo) = Len(r.ids)
               /\ \A i \in 1 .. Len(r.todo) : r.todo[i] = r.ids[r.count + i]
               /\ ShowsDue(r, r.count)
               /\ Undisturbed => \A i \in 1 .. Len(r.ids) : file[r.ids[i]] # 0
        /\ r.pc = "read" => ShowsDue(r, Len(r.ids))

\* A list by ids, of which none is asked for twice, has found none of them twice,
\* and, if it is not cut into pages, counts what it shows.
ListFine(r) ==
    r.by = "list" /\ IsInjective(r.ids) =>
        /\ r.pc = "walk" =>
               /\ IsInjective(r.todo) /\ IsInjective(r.found)
               /\ \A i \in DOMAIN r.todo, j \in DOMAIN r.found : r.todo[i] # r.found[j]
        /\ r.pc \in {"read", "done"} /\ r.skip = 0 /\ r.limit = MaxId =>
               r.total = Cardinality(r.page)

\* What is known of a list, whatever the requests do meanwhile.
ReaderFine(r) == r \in ReaderState /\ RangeFine(r) /\ ListFine(r)

\* Files are there for good.
LEMMA FilesStay ==
    ASSUME StoreFacts, Next
    PROVE  /\ \A p \in Paths : file[p] # 0 => file'[p] # 0
           /\ cut \subseteq cut' /\ clashed \subseteq clashed'
<1>1. StepForms
  BY NextForms DEF StoreFacts
<1>2. file \in [Paths -> 0 .. MaxOps] /\ task \in [Tasks -> TaskState]
  BY DEF StoreFacts, TypeOK
<1>3. CASE connect \/ Die \/ Forgets
  BY <1>3 DEF connect, Die, Forgets
<1>4. ASSUME NEW t \in Tasks,
             \/ Begins(t) \/ Asks(t) \/ Reads(t) \/ Stages(t) \/ Writes(t) \/ Fails(t)
             \/ Remembers(t) \/ Counts(t)
      PROVE  file' = file /\ cut \subseteq cut' /\ clashed \subseteq clashed'
  BY <1>4 DEF Begins, Asks, Reads, Stages, Writes, Fails, Remembers, Counts, OpenSibling,
     WriteAll, RemoveStaged
<1>5. ASSUME NEW t \in Tasks, PublishesItem(t) \/ PublishesSettings(t)
      PROVE  /\ \A p \in Paths : file[p] # 0 => file'[p] # 0
             /\ cut = cut' /\ clashed = clashed'
  <2>1. task[t].path \in Paths
    BY <1>2 DEF TaskState
  <2>2. Rename(task[t].path) /\ UNCHANGED <<cut, clashed>>
    BY <1>5 DEF PublishesItem, PublishesSettings
  <2> QED BY <2>1, <2>2, <1>2 DEF Rename
<1> QED BY <1>1, <1>3, <1>4, <1>5 DEF StepForms

\* Before a list begins there is nothing to say of it.
LEMMA NoReaderFine ==
    /\ ReaderFine(NoReader) /\ ReaderFine([NoReader EXCEPT !.pc = "none"])
    /\ ReaderFine(NoReader)' /\ [NoReader EXCEPT !.pc = "idle"] = NoReader
<1>1. /\ NoReader \in ReaderState /\ NoReader.pc = "idle" /\ NoReader.by = "range"
  BY Bounds DEF NoReader, ReaderState
<1>2. NoReader' = NoReader
  BY DEF NoReader
<1> QED BY <1>1, <1>2 DEF ReaderFine, RangeFine, ListFine, ReaderState, NoReader

\* The requests take nothing away from a list that is on its way.
LEMMA RequestsLeaveLists ==
    ASSUME StoreFacts, Next, ReaderFine(reader), reader' = ReaderAfter
    PROVE  ReaderFine(reader)'
<1>1. CASE reader' = NoReader
  BY <1>1, NoReaderFine
<1>2. CASE reader' = reader
  <2>1. Undisturbed' => Undisturbed
    BY FilesStay DEF Undisturbed
  <2>2. \A n : ShowsDue(reader, n) => ShowsDue(reader, n)'
    BY <1>2, <2>1 DEF ShowsDue
  <2>3. reader \in ReaderState
    BY DEF ReaderFine
  <2>4. \A i \in 1 .. Len(reader.ids) : file[reader.ids[i]] # 0 => file'[reader.ids[i]] # 0
    <3> SUFFICES ASSUME NEW i \in 1 .. Len(reader.ids)
                 PROVE  reader.ids[i] \in Paths
      BY FilesStay
    <3>1. reader.ids \in Seq(Ids)
      BY <2>3 DEF ReaderState
    <3> QED BY <3>1, Bounds
  <2>5. RangeFine(reader)'
    <3>1. RangeFine(reader)
      BY DEF ReaderFine
    <3>2. ASSUME reader.by = "range" /\ reader.pc \in {"walk", "read"}
          PROVE  /\ Ascending(reader.ids) /\ reader.total = Len(reader.ids)
                 /\ reader.pc = "walk" =>
                      /\ reader.count + Len(reader.todo) = Len(reader.ids)
                      /\ \A i \in 1 .. Len(reader.todo) :
                            reader.todo[i] = reader.ids[reader.count + i]
                      /\ ShowsDue(reader, reader.count)'
                      /\ Undisturbed' => \A i \in 1 .. Len(reader.ids) : file'[reader.ids[i]] # 0
                 /\ reader.pc = "read" => ShowsDue(reader, Len(reader.ids))'
      BY <3>1, <3>2, <1>2, <2>1, <2>2, <2>4 DEF RangeFine
    <3> QED BY <3>2, <1>2 DEF RangeFine
  <2>6. ListFine(reader)'
    BY <1>2 DEF ReaderFine, ListFine
  <2> QED BY <1>2, <2>3, <2>5, <2>6 DEF ReaderFine
<1> QED BY <1>1, <1>2 DEF ReaderAfter

\* A list by range begins with the known ids in their order.
LEMMA RangeBegins ==
    ASSUME StoreFacts, ReaderFine(reader), NEW low \in 1 .. MaxId, NEW high \in 1 .. MaxId,
           NEW skip \in 0 .. MaxId, NEW limit \in 0 .. MaxId,
           get_items(low, high, skip, limit)
    PROVE  ReaderFine(reader)'
<1> DEFINE known == {id \in items : id >= Unset(low, 0) /\ id <= high}
           r == [NoReader EXCEPT !.pc = "walk", !.ids = Sorted(known),
                    !.todo = Sorted(known), !.skip = Unset(skip, 0),
                    !.limit = limit, !.total = Cardinality(known)]
<1>1. reader' = r /\ UNCHANGED vars
  BY DEF get_items
<1>2. known \subseteq items /\ known \subseteq Ids
  BY DEF StoreFacts, TypeOK
<1> HIDE DEF known
<1> DEFINE s == Sorted(known)
<1>3. /\ s \in Seq(Ids) /\ Len(s) = Cardinality(known) /\ Ascending(s)
      /\ Cardinality(known) \in Nat
      /\ \A i \in DOMAIN s : s[i] \in known
  BY <1>2, SortedIs, IdsAreFinite
<1>4. Unset(skip, 0) \in 0 .. MaxId
  BY Bounds DEF Unset
<1> HIDE DEF s
<1>5. /\ r \in ReaderState
      /\ r.pc = "walk" /\ r.by = "range" /\ r.ids = s /\ r.todo = s /\ r.count = 0
      /\ r.page = {} /\ r.total = Len(s)
  <2>1. NoReader \in ReaderState
    BY NoReaderFine DEF ReaderFine
  <2> QED BY <2>1, <1>3, <1>4 DEF ReaderState, NoReader, s
<1>6. UNCHANGED <<file, cut, clashed>>
  BY <1>1 DEF vars
<1>7. Undisturbed => \A i \in 1 .. Len(s) : file[s[i]] # 0
  BY <1>2, <1>3 DEF Undisturbed, StoreFacts, Listed
<1>8. /\ reader' \in ReaderState
      /\ reader'.pc = "walk" /\ reader'.by = "range" /\ reader'.ids = s /\ reader'.todo = s
      /\ reader'.count = 0 /\ reader'.page = {} /\ reader'.total = Len(s)
  BY <1>1, <1>5
<1> HIDE DEF r
<1>9. RangeFine(reader)'
  <2>1. ShowsDue(reader, 0)'
    BY <1>8 DEF ShowsDue, Due
  <2>2. Undisturbed' => \A i \in 1 .. Len(s) : file'[s[i]] # 0
    BY <1>6, <1>7 DEF Undisturbed
  <2>3. \A i \in 1 .. Len(s) : s[i] = s[0 + i]
    OBVIOUS
  <2>4. 0 + Len(s) = Len(s)
    BY <1>3
  <2> QED BY <1>3, <1>8, <2>1, <2>2, <2>3, <2>4 DEF RangeFine
<1>10. ListFine(reader)'
  BY <1>8 DEF ListFine
<1> QED BY <1>8, <1>9, <1>10 DEF ReaderFine

\* A list by ids begins with nothing found.
LEMMA ListBegins ==
    ASSUME ReaderFine(reader), NEW id_list \in Seq(Ids),
           NEW skip \in 0 .. MaxId, NEW limit \in 0 .. MaxId,
           itm_list_ids(id_list, skip, limit)
    PROVE  ReaderFine(reader)'
<1>1. reader' = [NoReader EXCEPT !.pc = "walk", !.by = "list", !.ids = id_list,
                    !.todo = id_list, !.skip = Unset(skip, 0), !.limit = limit]
  BY DEF itm_list_ids
<1>2. Unset(skip, 0) \in 0 .. MaxId
  BY Bounds DEF Unset
<1>3. /\ reader' \in ReaderState
      /\ reader'.pc = "walk" /\ reader'.by = "list" /\ reader'.ids = id_list
      /\ reader'.todo = id_list /\ reader'.found = <<>>
  <2>1. NoReader \in ReaderState
    BY NoReaderFine DEF ReaderFine
  <2> QED BY <1>1, <1>2, <2>1 DEF ReaderState, NoReader
<1> QED BY <1>3 DEF ReaderFine, RangeFine, ListFine, IsInjective

\* One turn of the loop over a range.
LEMMA WalkKeeps ==
    ASSUME StoreFacts, ReaderFine(reader), Walk
    PROVE  ReaderFine(reader)'
<1>1. /\ reader \in ReaderState /\ RangeFine(reader)
      /\ reader.pc = "walk" /\ reader.by = "range"
      /\ UNCHANGED <<file, cut, clashed>>
  BY DEF ReaderFine, Walk, vars
<1> DEFINE n == Len(reader.ids)  c == reader.count  k == reader.skip  l == reader.limit
<1>2. /\ reader.ids \in Seq(Ids) /\ reader.todo \in Seq(Ids) /\ n \in Nat
      /\ c \in Nat /\ k \in Nat /\ l \in Nat
      /\ Len(reader.todo) \in Nat /\ reader.page \subseteq Ids
  BY <1>1, Bounds DEF ReaderState
<1>3. /\ Ascending(reader.ids) /\ reader.total = n /\ c + Len(reader.todo) = n
      /\ \A i \in 1 .. Len(reader.todo) : reader.todo[i] = reader.ids[c + i]
      /\ ShowsDue(reader, c)
      /\ Undisturbed => \A i \in 1 .. n : file[reader.ids[i]] # 0
  BY <1>1 DEF RangeFine
<1>4. CASE reader.todo = <<>> \/ (c >= k /\ PastLimit(c))
  <2>1. reader' = [reader EXCEPT !.pc = "read", !.todo = <<>>]
    BY <1>4 DEF Walk
  <2>2. /\ reader' \in ReaderState /\ reader'.pc = "read" /\ reader'.by = "range"
        /\ reader'.ids = reader.ids /\ reader'.page = reader.page
        /\ reader'.skip = k /\ reader'.limit = l /\ reader'.total = n
    <3>1. <<>> \in Seq(Ids)
      OBVIOUS
    <3> QED BY <1>1, <1>3, <2>1, <3>1 DEF ReaderState
  <2>3. Due(reader.ids, k, l, n) = Due(reader.ids, k, l, c)
    <3>1. {j \in 1 .. n : k < j /\ j <= k + l} = {j \in 1 .. c : k < j /\ j <= k + l}
      BY <1>2, <1>3, <1>4 DEF PastLimit
    <3> QED BY <3>1 DEF Due
  <2>4. ShowsDue(reader, Len(reader.ids))'
    BY <1>1, <1>3, <2>2, <2>3 DEF ShowsDue, Undisturbed
  <2>5. RangeFine(reader)'
    BY <1>3, <2>2, <2>4 DEF RangeFine
  <2>6. ListFine(reader)'
    BY <2>2 DEF ListFine
  <2> QED BY <2>2, <2>5, <2>6 DEF ReaderFine
<1>5. CASE ~(reader.todo = <<>> \/ (c >= k /\ PastLimit(c)))
  <2> DEFINE id == Head(reader.todo)
             page == IF c >= k /\ Readable(id) THEN reader.page \cup {id} ELSE reader.page
  <2>1. reader' = [reader EXCEPT !.todo = Tail(@), !.count = @ + 1, !.page = page]
    BY <1>5 DEF Walk
  <2>2. /\ id = reader.ids[c + 1] /\ c + 1 \in 1 .. n /\ id \in Ids
        /\ Tail(reader.todo) \in Seq(Ids) /\ Len(Tail(reader.todo)) = Len(reader.todo) - 1
        /\ \A i \in 1 .. Len(reader.todo) - 1 : Tail(reader.todo)[i] = reader.todo[i + 1]
        /\ Len(reader.todo) >= 1
    BY <1>2, <1>3, <1>5
  <2> HIDE DEF id
  <2>3. page \subseteq Ids
    BY <1>2, <2>2
  <2>4. \A i \in 1 .. Len(reader.todo) - 1 : Tail(reader.todo)[i] = reader.ids[c + 1 + i]
    <3> SUFFICES ASSUME NEW i \in 1 .. Len(reader.todo) - 1
                 PROVE  Tail(reader.todo)[i] = reader.ids[c + 1 + i]
      OBVIOUS
    <3>1. i + 1 \in 1 .. Len(reader.todo) /\ c + (i + 1) = c + 1 + i
      BY <1>2
    <3>2. reader.todo[i + 1] = reader.ids[c + (i + 1)]
      BY <1>3, <3>1
    <3> QED BY <2>2, <3>1, <3>2
  <2> DEFINE due(m) == Due(reader.ids, k, l, m)
  <2>5. due(c + 1) = IF c >= k THEN due(c) \cup {id} ELSE due(c)
    <3> DEFINE D(m) == {j \in 1 .. m : k < j /\ j <= k + l}
               old == D(c)  new == D(c + 1)
    <3>1. new = IF c >= k THEN old \cup {c + 1} ELSE old
      BY <1>2, <1>5 DEF PastLimit
    <3>2. /\ due(c) = {reader.ids[i] : i \in old}
          /\ due(c + 1) = {reader.ids[i] : i \in new}
      BY DEF Due
    <3> HIDE DEF D, old, new, due
    <3>3. CASE c >= k
      <4>1. new = old \cup {c + 1}
        BY <3>1, <3>3
      <4> QED BY <2>2, <3>2, <3>3, <4>1
    <3>4. CASE ~(c >= k)
      BY <3>1, <3>2, <3>4
    <3> QED BY <3>3, <3>4
  <2>6. page \subseteq due(c + 1) /\ (Undisturbed => page = due(c + 1))
    <3>1. Undisturbed => Readable(id)
      <4>1. Undisturbed => file[id] # 0
        BY <1>3, <2>2
      <4> QED BY <4>1, <2>2, WholeIsRead, Bounds DEF Undisturbed, Readable
    <3>2. reader.page \subseteq due(c) /\ (Undisturbed => reader.page = due(c))
      BY <1>3 DEF ShowsDue
    <3> HIDE DEF due
    <3> QED BY <2>5, <3>1, <3>2
  <2> HIDE DEF page
  <2>7. /\ reader' \in ReaderState /\ reader'.pc = "walk" /\ reader'.by = "range"
        /\ reader'.ids = reader.ids /\ reader'.page = page /\ reader'.todo = Tail(reader.todo)
        /\ reader'.skip = k /\ reader'.limit = l /\ reader'.total = n /\ reader'.count = c + 1
    <3>1. c + 1 \in Nat
      BY <1>2
    <3> QED BY <1>1, <1>3, <2>1, <2>2, <2>3, <3>1 DEF ReaderState
  <2>8. ShowsDue(reader, reader.count)'
    BY <1>1, <2>6, <2>7 DEF ShowsDue, Undisturbed
  <2>9. RangeFine(reader)'
    <3>1. c + 1 + Len(Tail(reader.todo)) = n
      BY <1>2, <1>3, <2>2
    <3>2. Undisturbed' => \A i \in 1 .. n : file'[reader.ids[i]] # 0
      BY <1>1, <1>3 DEF Undisturbed
    <3> QED BY <1>3, <2>2, <2>4, <2>7, <2>8, <3>1, <3>2 DEF RangeFine
  <2>10. ListFine(reader)'
    BY <2>7 DEF ListFine
  <2> QED BY <2>7, <2>9, <2>10 DEF ReaderFine
<1> QED BY <1>4, <1>5

\* One turn of the loop over the ids of a list.
LEMMA FetchKeeps ==
    ASSUME ReaderFine(reader), Fetch
    PROVE  ReaderFine(reader)'
<1> DEFINE id == Head(reader.todo)
           found == IF Readable(id) THEN Append(reader.found, id) ELSE reader.found
<1>1. /\ reader \in ReaderState /\ ListFine(reader)
      /\ reader.pc = "walk" /\ reader.by = "list" /\ reader.todo # <<>>
      /\ reader' = [reader EXCEPT !.todo = Tail(@), !.found = found]
  BY DEF ReaderFine, Fetch
<1>2. /\ reader.ids \in Seq(Ids) /\ reader.todo \in Seq(Ids) /\ reader.found \in Seq(Ids)
  BY <1>1 DEF ReaderState
<1>3. /\ id = reader.todo[1] /\ 1 \in DOMAIN reader.todo /\ id \in Ids
      /\ Tail(reader.todo) \in Seq(Ids)
      /\ \A i \in DOMAIN Tail(reader.todo) :
            i + 1 \in DOMAIN reader.todo /\ i \in Nat \ {0} /\ Tail(reader.todo)[i] = reader.todo[i + 1]
  BY <1>1, <1>2
<1> HIDE DEF id
<1>4. /\ found \in Seq(Ids)
      /\ \A j \in DOMAIN found :
            \/ j \in DOMAIN reader.found /\ found[j] = reader.found[j]
            \/ j = Len(reader.found) + 1 /\ found[j] = id
  BY <1>2, <1>3
<1> HIDE DEF found
<1>5. /\ reader' \in ReaderState /\ reader'.pc = "walk" /\ reader'.by = "list"
      /\ reader'.ids = reader.ids /\ reader'.todo = Tail(reader.todo) /\ reader'.found = found
  BY <1>1, <1>3, <1>4 DEF ReaderState
<1>6. ASSUME IsInjective(reader.ids)
      PROVE  /\ IsInjective(Tail(reader.todo)) /\ IsInjective(found)
             /\ \A i \in DOMAIN Tail(reader.todo), j \in DOMAIN found :
                   Tail(reader.todo)[i] # found[j]
  <2>1. /\ IsInjective(reader.todo) /\ IsInjective(reader.found)
        /\ \A i \in DOMAIN reader.todo, j \in DOMAIN reader.found :
              reader.todo[i] # reader.found[j]
    BY <1>1, <1>6 DEF ListFine
  <2>2. IsInjective(Tail(reader.todo))
    <3> SUFFICES ASSUME NEW a \in DOMAIN Tail(reader.todo), NEW b \in DOMAIN Tail(reader.todo),
                        Tail(reader.todo)[a] = Tail(reader.todo)[b]
                 PROVE  a = b
      BY DEF IsInjective
    <3>1. a + 1 = b + 1 /\ a \in Nat /\ b \in Nat
      BY <1>3, <2>1 DEF IsInjective
    <3> QED BY <3>1
  <2>3. IsInjective(found)
    BY <1>3, <1>4, <2>1 DEF IsInjective
  <2>4. \A i \in DOMAIN Tail(reader.todo), j \in DOMAIN found :
           Tail(reader.todo)[i] # found[j]
    BY <1>3, <1>4, <2>1 DEF IsInjective
  <2> QED BY <2>2, <2>3, <2>4
<1> QED BY <1>5, <1>6 DEF ReaderFine, RangeFine, ListFine

\* A sequence without repetitions has as many elements as places.
LEMMA DistinctElements ==
    ASSUME NEW s \in Seq(Ids), IsInjective(s)
    PROVE  Cardinality(ToSet(s)) = Len(s)
<1>1. /\ Len(s) \in Nat /\ DOMAIN s = 1 .. Len(s)
      /\ s \in [1 .. Len(s) -> ToSet(s)]
  BY DEF ToSet
<1>2. s \in Bijection(1 .. Len(s), ToSet(s))
  BY <1>1 DEF Bijection, Injection, Surjection, ToSet
<1>3. IsFiniteSet(1 .. Len(s)) /\ Cardinality(1 .. Len(s)) = Len(s)
  BY <1>1, FS_Interval
<1> QED BY <1>2, <1>3, FS_Bijection DEF ExistsBijection

\* The page is cut from what was found; if it is not, everything is on it.
LEMMA PaginateKeeps ==
    ASSUME ReaderFine(reader), Paginate
    PROVE  ReaderFine(reader)'
<1> DEFINE found == reader.found
           end == reader.skip + Unset(reader.limit, Len(found))
           page == {id \in ToSet(found) : Places(found, id) \cap reader.skip + 1 .. end # {}}
<1>1. /\ reader \in ReaderState /\ ListFine(reader)
      /\ reader.pc = "walk" /\ reader.by = "list"
      /\ reader' = [reader EXCEPT !.pc = "read", !.total = Len(found), !.page = page]
  BY DEF ReaderFine, Paginate
<1>2. found \in Seq(Ids) /\ ToSet(found) \subseteq Ids /\ Len(found) \in Nat
  BY <1>1 DEF ReaderState, ToSet
<1>3. ASSUME reader.skip = 0, reader.limit = MaxId
      PROVE  page = ToSet(found)
  <2> SUFFICES ASSUME NEW id \in ToSet(found)
               PROVE  Places(found, id) \cap reader.skip + 1 .. end # {}
    OBVIOUS
  <2>1. end = Len(found)
    BY <1>2, <1>3 DEF Unset
  <2> DEFINE upto(bound) == {i \in DOMAIN found : found[i] <= bound}
  <2>2. PICK i \in DOMAIN found : found[i] = id
    BY DEF ToSet
  <2>3. id \in Nat
    BY <1>2, Bounds
  <2>4. /\ IsFiniteSet(upto(id)) /\ IsFiniteSet(upto(id - 1))
        /\ Cardinality(upto(id)) \in Nat /\ Cardinality(upto(id - 1)) \in Nat
        /\ Cardinality(upto(id)) <= Len(found)
    <3>1. IsFiniteSet(DOMAIN found) /\ Cardinality(DOMAIN found) = Len(found)
      <4>1. DOMAIN found = 1 .. Len(found)
        BY <1>2
      <4>2. IsFiniteSet(1 .. Len(found)) /\ Cardinality(1 .. Len(found)) = Len(found)
        BY <1>2, FirstNumbers
      <4> QED BY <4>1, <4>2
    <3>2. upto(id) \in SUBSET (DOMAIN found) /\ upto(id - 1) \in SUBSET (DOMAIN found)
      OBVIOUS
    <3> HIDE DEF upto, found
    <3> QED BY <3>1, <3>2, FS_Subset, FS_CardinalityType
  <2>5. upto(id - 1) \in SUBSET upto(id) /\ upto(id - 1) # upto(id)
    <3>1. i \in upto(id) /\ i \notin upto(id - 1)
      BY <2>2, <2>3
    <3>2. \A j \in DOMAIN found : found[j] \in Nat
      BY <1>2, Bounds DEF ToSet
    <3> QED BY <2>3, <3>1, <3>2
  <2>6. Cardinality(upto(id - 1)) < Cardinality(upto(id))
    <3> HIDE DEF upto
    <3> QED BY <2>4, <2>5, FS_Subset
  <2>7. Cardinality(upto(id)) \in Places(found, id)
    BY <2>4, <2>6 DEF Places
  <2>8. Cardinality(upto(id)) \in reader.skip + 1 .. end
    BY <2>1, <2>4, <2>6, <1>3, <1>2
  <2> QED BY <2>7, <2>8
<1>4. page \subseteq Ids
  BY <1>2
<1> HIDE DEF page
<1>5. /\ reader' \in ReaderState /\ reader'.pc = "read" /\ reader'.by = "list"
      /\ reader'.ids = reader.ids /\ reader'.total = Len(found) /\ reader'.page = page
      /\ reader'.skip = reader.skip /\ reader'.limit = reader.limit
  BY <1>1, <1>2, <1>4 DEF ReaderState
<1>6. ASSUME IsInjective(reader.ids), reader.skip = 0, reader.limit = MaxId
      PROVE  Len(found) = Cardinality(page)
  <2>1. IsInjective(found)
    BY <1>1, <1>6 DEF ListFine
  <2> QED BY <1>2, <1>3, <1>6, <2>1, DistinctElements
<1> QED BY <1>5, <1>6 DEF ReaderFine, RangeFine, ListFine

\* What the hooks withhold is taken off what is counted.
LEMMA AnswerKeeps ==
    ASSUME ReaderFine(reader), Answer
    PROVE  ReaderFine(reader)'
<1>1. PICK shown \in SUBSET reader.page :
          reader' = [reader EXCEPT !.pc = "done", !.found = <<>>, !.page = shown,
                       !.total = TotalAfter(Cardinality(reader.page \ shown))]
  BY DEF Answer
<1>2. /\ reader \in ReaderState /\ ListFine(reader) /\ reader.pc = "read"
  BY DEF ReaderFine, Answer
<1> DEFINE withheld == Cardinality(reader.page \ shown)
<1>3. /\ shown \subseteq Ids /\ reader.total \in Nat
      /\ withheld \in Nat /\ Cardinality(shown) \in Nat /\ Cardinality(reader.page) \in Nat
      /\ Cardinality(reader.page) = withheld + Cardinality(shown)
  <2>1. reader.page \subseteq Ids /\ reader.total \in Nat
    BY <1>2 DEF ReaderState
  <2>2. reader.page \cap shown = shown /\ shown \subseteq Ids /\ reader.page \ shown \subseteq Ids
    BY <2>1
  <2>3. /\ IsFiniteSet(reader.page) /\ withheld \in Nat
        /\ Cardinality(shown) \in Nat /\ Cardinality(reader.page) \in Nat
    BY <2>1, <2>2, IdsAreFinite
  <2>4. withheld = Cardinality(reader.page) - Cardinality(shown)
    BY <2>2, <2>3, FS_Difference
  <2> QED BY <2>1, <2>2, <2>3, <2>4
<1>4. TotalAfter(withheld) \in Nat
  BY <1>3 DEF TotalAfter
<1>5. /\ reader' \in ReaderState /\ reader'.pc = "done" /\ reader'.by = reader.by
      /\ reader'.ids = reader.ids /\ reader'.total = TotalAfter(withheld)
      /\ reader'.page = shown /\ reader'.skip = reader.skip /\ reader'.limit = reader.limit
  <2>1. <<>> \in Seq(Ids)
    OBVIOUS
  <2> HIDE DEF withheld
  <2> QED BY <1>1, <1>2, <1>3, <1>4, <2>1 DEF ReaderState, withheld
<1>6. ASSUME reader.by = "list", reader.total = Cardinality(reader.page)
      PROVE  TotalAfter(withheld) = Cardinality(shown)
  BY <1>3, <1>6 DEF TotalAfter
<1> QED BY <1>2, <1>5, <1>6 DEF ReaderFine, RangeFine, ListFine

\* Every step keeps it.
LEMMA ReaderStep ==
    StoreFacts /\ ReaderFine(reader) /\ [ListingNext]_listingVars => ReaderFine(reader)'
<1> SUFFICES ASSUME StoreFacts, ReaderFine(reader), [ListingNext]_listingVars
             PROVE  ReaderFine(reader)'
  OBVIOUS
<1>1. CASE Next /\ reader' = ReaderAfter
  BY <1>1, RequestsLeaveLists
<1>2. ASSUME NEW id_min \in IdMins, NEW id_max \in IdMaxs, NEW skip \in Skips,
             NEW limit \in Limits, get_items(id_min, id_max, skip, limit)
      PROVE  ReaderFine(reader)'
  BY <1>2, RangeBegins, ListingAssumption
<1>3. CASE get_all_items
  <2>1. MaxId \in 1 .. MaxId /\ MaxId \in 0 .. MaxId
    BY Bounds
  <2> QED BY <1>3, <2>1, RangeBegins DEF get_all_items
<1>4. ASSUME NEW id_list \in IdLists, NEW skip \in Skips, NEW limit \in Limits,
             itm_list_ids(id_list, skip, limit)
      PROVE  ReaderFine(reader)'
  BY <1>4, ListBegins, ListingAssumption
<1>5. CASE Walk \/ Fetch \/ Paginate \/ Answer
  BY <1>5, WalkKeeps, FetchKeeps, PaginateKeeps, AnswerKeeps
<1>6. CASE UNCHANGED listingVars
  <2>1. UNCHANGED <<reader, file, cut, clashed>>
    BY <1>6 DEF listingVars, vars
  <2> QED BY <2>1 DEF ReaderFine, RangeFine, ListFine, ShowsDue, Undisturbed
<1> QED BY <1>1, <1>2, <1>3, <1>4, <1>5, <1>6 DEF ListingNext, Lists

\* The requests behave as they do without a list.
LEMMA ListsLeaveRequests == [ListingNext]_listingVars => [Next]_vars
BY DEF ListingNext, listingVars, Lists, get_items, get_all_items, itm_list_ids, Walk, Fetch,
   Paginate, Answer

\* What is known of the files and of the list, together.
LEMMA ListsInOrder == ListingSpec => [](StoreFacts /\ ReaderFine(reader))
<1>1. ListingInit => StoreFacts /\ ReaderFine(reader)
  <2>1. ASSUME ListingInit PROVE reader = NoReader \/ reader = [NoReader EXCEPT !.pc = "none"]
    BY <2>1, NoReaderFine DEF ListingInit
  <2> QED BY <2>1, StoreInit, NoReaderFine DEF ListingInit
<1>2. StoreFacts /\ ReaderFine(reader) /\ [ListingNext]_listingVars
        => (StoreFacts /\ ReaderFine(reader))'
  BY StoreStep, ReaderStep, ListsLeaveRequests
<1> QED BY <1>1, <1>2, PTL DEF ListingSpec

\* The place of the i-th id is i - 1.
LEMMA PlacesAre ==
    ASSUME ReaderFine(reader), reader.by = "range", reader.pc = "read",
           NEW i \in 1 .. Len(reader.ids)
    PROVE  Place(reader.ids[i]) = i - 1
<1> DEFINE s == reader.ids
           lower == {x \in ToSet(s) : x < s[i]}
           first == [j \in 1 .. i - 1 |-> s[j]]
<1>1. s \in Seq(Ids) /\ Ascending(s) /\ i \in Nat /\ i >= 1 /\ DOMAIN s = 1 .. Len(s)
  BY DEF ReaderFine, RangeFine, ReaderState
<1>2. \A j \in 1 .. Len(s) : s[j] \in Nat
  <2>1. \A j \in 1 .. Len(s) : s[j] \in Ids
    BY <1>1
  <2> HIDE DEF s
  <2> QED BY <2>1, Bounds
<1>3. \A j, k \in 1 .. Len(s) : s[j] < s[k] <=> j < k
  <2> SUFFICES ASSUME NEW j \in 1 .. Len(s), NEW k \in 1 .. Len(s)
               PROVE  s[j] < s[k] <=> j < k
    OBVIOUS
  <2>1. (j < k => s[j] < s[k]) /\ (k < j => s[k] < s[j])
    BY <1>1 DEF Ascending
  <2>2. s[j] \in Nat /\ s[k] \in Nat /\ j \in Nat /\ k \in Nat
    BY <1>2
  <2> HIDE DEF s
  <2> QED BY <2>1, <2>2
<1>4. lower = {s[j] : j \in 1 .. i - 1}
  <2>1. \A j \in 1 .. Len(s) : s[j] < s[i] <=> j \in 1 .. i - 1
    BY <1>1, <1>3
  <2>2. \A j \in 1 .. i - 1 : j \in 1 .. Len(s)
    BY <1>1
  <2> HIDE DEF s
  <2> QED BY <1>1, <2>1, <2>2 DEF ToSet
<1>5. first \in Bijection(1 .. i - 1, lower)
  <2>1. \A j, k \in 1 .. i - 1 : s[j] = s[k] => j = k
    <3> SUFFICES ASSUME NEW j \in 1 .. i - 1, NEW k \in 1 .. i - 1, s[j] = s[k]
                 PROVE  j = k
      OBVIOUS
    <3>1. j \in 1 .. Len(s) /\ k \in 1 .. Len(s)
      BY <1>1
    <3>2. ~(s[j] < s[k]) /\ ~(s[k] < s[j])
      BY <1>2, <3>1
    <3> QED BY <1>3, <3>1, <3>2
  <2>2. first \in [1 .. i - 1 -> lower]
    BY <1>4
  <2> HIDE DEF lower, s
  <2> QED BY <1>4, <2>1, <2>2 DEF Bijection, Injection, Surjection, IsInjective
<1>6. Cardinality(lower) = i - 1
  <2>1. IsFiniteSet(1 .. i - 1) /\ Cardinality(1 .. i - 1) = i - 1
    BY <1>1, FS_Interval
  <2> HIDE DEF lower, first
  <2> QED BY <1>5, <2>1, FS_Bijection DEF ExistsBijection
<1> QED BY <1>6 DEF Place

\* The invariant says what was listed and shown.
LEMMA ReaderSuffices == ReaderFine(reader) => ListsAreExact
<1> SUFFICES ASSUME ReaderFine(reader) PROVE ListsAreExact
  OBVIOUS
<1>1. ASSUME reader.pc = "read", reader.by = "range" PROVE PagesAreExact
  <2> DEFINE n == Len(reader.ids)  k == reader.skip  l == reader.limit
             due == {id \in ToSet(reader.ids) : Place(id) \in k .. k + l - 1}
  <2>1. /\ reader.ids \in Seq(Ids) /\ n \in Nat /\ k \in Nat /\ l \in Nat
        /\ DOMAIN reader.ids = 1 .. n
    BY Bounds DEF ReaderFine, ReaderState
  <2>2. reader.total = n /\ ShowsDue(reader, n)
    BY <1>1 DEF ReaderFine, RangeFine
  <2>3. due = Due(reader.ids, k, l, n)
    <3>1. \A i \in 1 .. n : Place(reader.ids[i]) \in k .. k + l - 1 <=> k < i /\ i <= k + l
      <4> SUFFICES ASSUME NEW i \in 1 .. n
                   PROVE  Place(reader.ids[i]) \in k .. k + l - 1 <=> k < i /\ i <= k + l
        OBVIOUS
      <4>1. Place(reader.ids[i]) = i - 1
        BY <1>1, PlacesAre
      <4> QED BY <4>1, <2>1
    <3> QED BY <2>1, <3>1 DEF Due, ToSet
  <2> QED BY <1>1, <2>2, <2>3 DEF PagesAreExact, ShowsDue, Undisturbed
<1>2. WithheldReadsAsMissing
  BY DEF WithheldReadsAsMissing, ReaderFine, ListFine
<1> QED BY <1>1, <1>2 DEF ListsAreExact, PagesAreExact

\* For any collection, any requests beside it and any deaths of the process: a page by
\* range is the ids at its places in the list as it began, without those whose file was
\* torn or lost; and an item of a list of ids that the hooks withheld is not counted
\* (get_items, itm_list).
THEOREM ListsAreSound == ListingSpec => []ListsAreExact
<1> QED BY ListsInOrder, ReaderSuffices, PTL
=============================================================================
