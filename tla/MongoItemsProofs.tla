-------------------------- MODULE MongoItemsProofs ---------------------------
(***************************************************************************)
(* For any number of processes and requests: identifiers handed out by     *)
(* alloc_id are fresh as long as the counter can be reached and is not at  *)
(* its end, and an item that set_item has returned is in the collection    *)
(* until a del_item is called for it, whatever fails.                      *)
(***************************************************************************)
EXTENDS MongoItems, TLAPS

USE MongoItemsAssumption

LEMMA InitType == Init => TypeOK
  BY DEF Init, TypeOK, Ids, IdleTask, TaskState

LEMMA WrittenType ==
    ASSUME TypeOK, NEW t \in Tasks, NEW D \in Written(t)
    PROVE  /\ D \subseteq [id : Ids, op : 0 .. MaxOps]
           /\ IdsOf(docs) \subseteq IdsOf(D)
           /\ IdsOf(D) \subseteq IdsOf(docs) \cup {task[t].id}
           /\ ~task[t].found => task[t].id \in IdsOf(D)
<1> DEFINE new == [id |-> task[t].id, op |-> task[t].op]
           old == {d \in docs : d.id = task[t].id}
<1>0. new.id = task[t].id
  OBVIOUS
<1>1. new \in [id : Ids, op : 0 .. MaxOps]
  BY DEF TypeOK, TaskState
<1>2. CASE ~task[t].found
  <2>1. D = docs \cup {new}
    BY <1>2 DEF Written
  <2> HIDE DEF new
  <2>2. IdsOf(D) = IdsOf(docs) \cup {task[t].id}
    BY <1>0, <2>1 DEF IdsOf
  <2> QED BY <1>1, <1>2, <2>1, <2>2 DEF TypeOK
<1>3. CASE task[t].found /\ old = {}
  <2>1. D = docs
    BY <1>3 DEF Written
  <2> QED BY <1>3, <2>1 DEF TypeOK
<1>4. CASE task[t].found /\ old # {}
  <2>1. PICK d \in old : D = (docs \ {d}) \cup {new}
    BY <1>4 DEF Written
  <2>2. IdsOf(D) = IdsOf(docs)
    <3>1. ASSUME NEW i \in IdsOf(D) PROVE i \in IdsOf(docs)
      BY <2>1, <3>1 DEF IdsOf
    <3>2. ASSUME NEW i \in IdsOf(docs) PROVE i \in IdsOf(D)
      <4>1. PICK e \in docs : e.id = i
        BY <3>2 DEF IdsOf
      <4>2. CASE e = d
        <5> HIDE DEF new
        <5> QED BY <1>0, <4>1, <4>2, <2>1 DEF IdsOf
      <4>3. CASE e # d
        BY <4>1, <4>3, <2>1 DEF IdsOf
      <4> QED BY <4>2, <4>3
    <3> QED BY <3>1, <3>2
  <2> QED BY <1>1, <1>4, <2>1, <2>2 DEF TypeOK
<1> QED BY <1>2, <1>3, <1>4

LEMMA StepType == TypeOK /\ [Next]_vars => TypeOK'
<1> SUFFICES ASSUME TypeOK, [Next]_vars PROVE TypeOK'
  OBVIOUS
<1>1. ASSUME NEW t \in Tasks, NEW p \in Procs, NEW i \in Ids, NEW b \in BOOLEAN,
             NEW pc \in {"alloc", "look", "delete"}, Begin(t, p, pc, i, b),
             deleted' \subseteq Ids
      PROVE  TypeOK'
  <2>1. ops' \in 0 .. MaxOps
    BY <1>1 DEF Begin, TypeOK
  <2>2. [pc |-> pc, proc |-> p, op |-> ops', id |-> i, chosen |-> b,
         found |-> FALSE] \in TaskState
    BY <2>1 DEF TaskState
  <2>3. task' \in [Tasks -> TaskState]
    BY <1>1, <2>2 DEF Begin, TypeOK
  <2> QED BY <1>1, <2>1, <2>3 DEF Begin, TypeOK
<1>2. ASSUME NEW t \in Tasks, NEW p \in Procs, SetNew(t, p)
      PROVE  TypeOK'
  <2>1. MaxId \in Ids /\ deleted' \subseteq Ids
    BY <1>2 DEF SetNew, Ids, TypeOK
  <2> QED BY <1>1, <1>2, <2>1 DEF SetNew
<1>3. ASSUME NEW t \in Tasks, NEW p \in Procs, NEW i \in ClientIds, SetChosen(t, p, i)
      PROVE  TypeOK'
  <2>1. i \in Ids /\ deleted' \subseteq Ids
    BY <1>3 DEF SetChosen, Ids, TypeOK
  <2> QED BY <1>1, <1>3, <2>1 DEF SetChosen
<1>4. ASSUME NEW t \in Tasks, NEW p \in Procs, NEW i \in ClientIds, DelItem(t, p, i)
      PROVE  TypeOK'
  <2>1. i \in Ids /\ deleted' \subseteq Ids
    BY <1>4 DEF DelItem, Ids, TypeOK
  <2> QED BY <1>1, <1>4, <2>1 DEF DelItem
<1>5. ASSUME NEW t \in Tasks, AllocCounter(t)
      PROVE  TypeOK'
  <2>1. seq' \in 0 .. MaxSeq /\ seq' \in Ids
    BY <1>5 DEF AllocCounter, TypeOK, Ids
  <2>2. [task[t] EXCEPT !.pc = "note", !.id = seq'] \in TaskState
    <3>1. task[t] \in TaskState
      BY DEF TypeOK
    <3> QED BY <2>1, <3>1 DEF TaskState
  <2>3. task' = [task EXCEPT ![t] = [task[t] EXCEPT !.pc = "note", !.id = seq']]
    BY <1>5 DEF AllocCounter, TypeOK
  <2>4. task' \in [Tasks -> TaskState]
    BY <2>2, <2>3 DEF TypeOK
  <2> QED BY <1>5, <2>1, <2>4 DEF AllocCounter, TypeOK
<1>6. ASSUME NEW t \in Tasks, NoteHigh(t)
      PROVE  TypeOK'
  BY <1>6 DEF NoteHigh, TypeOK, TaskState, Larger
<1>7. ASSUME NEW t \in Tasks, AllocFallback(t)
      PROVE  TypeOK'
  <2>1. NextHigh(items_count[task[t].proc]) \in Ids
    BY DEF TypeOK, TaskState, Ids, NextHigh, Smaller
  <2>2. seq' \in 0 .. MaxSeq
    BY <1>7 DEF AllocFallback, TypeOK, Smaller
  <2> DEFINE moved == [task[t] EXCEPT !.pc = "look",
                                      !.id = NextHigh(items_count[task[t].proc])]
  <2>3. task' \in [Tasks -> TaskState]
    <3>1. task[t] \in TaskState
      BY DEF TypeOK
    <3>2. moved \in TaskState
      BY <2>1, <3>1 DEF TaskState
    <3>3. task' = [task EXCEPT ![t] = moved]
      BY <1>7 DEF AllocFallback, TypeOK
    <3> QED BY <3>2, <3>3 DEF TypeOK
  <2>4. items_count' \in [Procs -> Ids]
    BY <1>7, <2>1 DEF AllocFallback, TypeOK
  <2> QED BY <1>7, <2>1, <2>2, <2>3, <2>4 DEF AllocFallback, TypeOK
<1>8. ASSUME NEW t \in Tasks, Look(t)
      PROVE  TypeOK'
  <2>1. PICK found \in BOOLEAN :
            task' = [task EXCEPT ![t].pc = "write", ![t].found = found]
    BY <1>8 DEF Look
  <2>2. [task[t] EXCEPT !.pc = "write", !.found = found] \in TaskState
    <3>1. task[t] \in TaskState
      BY DEF TypeOK
    <3> QED BY <3>1 DEF TaskState
  <2>3. task' = [task EXCEPT ![t] = [task[t] EXCEPT !.pc = "write", !.found = found]]
    BY <2>1 DEF TypeOK
  <2>4. task' \in [Tasks -> TaskState]
    BY <2>2, <2>3 DEF TypeOK
  <2> QED BY <1>8, <2>4 DEF Look, TypeOK
<1>9. ASSUME NEW t \in Tasks, Write(t)
      PROVE  TypeOK'
  BY <1>9, WrittenType DEF Write, TypeOK, TaskState
<1>10. ASSUME NEW t \in Tasks, WriteFails(t)
       PROVE  TypeOK'
  BY <1>10, WrittenType DEF WriteFails, TypeOK, TaskState
<1>11. ASSUME NEW t \in Tasks, Remember(t)
       PROVE  TypeOK'
  <2>1. items' \in [Procs -> SUBSET Ids] /\ items_count' \in [Procs -> Ids]
    BY <1>11 DEF Remember, TypeOK, TaskState, Larger
  <2>2. settled' \subseteq Ids
    BY <1>11 DEF Remember, TypeOK, TaskState, Returned
  <2> QED BY <1>11, <2>1, <2>2 DEF Remember, TypeOK, TaskState
<1>12. ASSUME NEW t \in Tasks, Raise(t)
       PROVE  TypeOK'
  <2>1. seq' \in 0 .. MaxSeq
    BY <1>12 DEF Raise, Raised, TypeOK, TaskState, Larger, Smaller, Ids
  <2> QED BY <1>12, <2>1 DEF Raise, Returned, TypeOK, TaskState
<1>13. ASSUME NEW t \in Tasks, Delete(t)
       PROVE  TypeOK'
  BY <1>13 DEF Delete, TypeOK, TaskState
<1>14. ASSUME NEW t \in Tasks, Forget(t)
       PROVE  TypeOK'
  BY <1>14 DEF Forget, TypeOK, TaskState
<1>15. ASSUME NEW p \in Procs, ConnectRead(p)
       PROVE  TypeOK'
  BY <1>15 DEF ConnectRead, TypeOK, IdsOf
<1>16. ASSUME NEW p \in Procs, ConnectRaise(p)
       PROVE  TypeOK'
  <2>1. seq' \in 0 .. MaxSeq
    BY <1>16 DEF ConnectRaise, Raised, TypeOK, Larger, Smaller, Ids
  <2> QED BY <1>16, <2>1 DEF ConnectRaise, TypeOK
<1>17. ASSUME NEW p \in Procs, Crash(p)
       PROVE  TypeOK'
  BY <1>17 DEF Crash, TypeOK, TaskState, Ids, IdleTask
<1>18. CASE UNCHANGED vars
  BY <1>18 DEF vars, TypeOK
<1> QED BY <1>2, <1>3, <1>4, <1>5, <1>6, <1>7, <1>8, <1>9, <1>10, <1>11, <1>12,
           <1>13, <1>14, <1>15, <1>16, <1>17, <1>18 DEF Next

\* The state is well typed throughout.
THEOREM MongoTypeCorrect == Spec => []TypeOK
  BY InitType, StepType, PTL DEF Spec

-----------------------------------------------------------------------------
(* Freshness.  While the counter is below its end, everything handed out   *)
(* and everything settled is at or below it, and so is the id that a       *)
(* request carries if alloc_id gave it one.  The exception is a collection *)
(* older than its counter on which no process serves yet: there the first  *)
(* connect has still to raise the counter to what it read.                 *)

Unserved ==
    /\ \A p \in Procs : phase[p] # "up"
    /\ \A t \in Tasks : task[t].pc = "idle"
    /\ settled \subseteq IdsOf(docs)
    /\ \A p \in Procs : phase[p] = "connecting" =>
                             \A i \in settled : i <= items_count[p]

\* The request carries an id that alloc_id gave it.
Carries(t) ==
    ~task[t].chosen /\ task[t].pc \in {"note", "look", "write", "remember"}

TaskBelow(t) == Carries(t) => task[t].id <= seq

CounterCovers ==
    seq < MaxSeq =>
        /\ \A i \in given : i <= seq
        /\ (\A i \in settled : i <= seq) \/ Unserved
        /\ \A t \in Tasks : TaskBelow(t)

CounterIsReachable == "alloc" \notin Faults /\ "raise" \notin Faults

LEMMA InitCovers == Init => CounterCovers
<1> SUFFICES ASSUME Init PROVE CounterCovers
  OBVIOUS
<1>1. ASSUME NEW i \in settled
      PROVE  i \in IdsOf(docs)
  <2>1. [id |-> i, op |-> 0] \in docs
    BY DEF Init
  <2>2. [id |-> i, op |-> 0].id = i
    OBVIOUS
  <2> QED BY <2>1, <2>2 DEF IdsOf
<1>2. Unserved
  BY <1>1 DEF Init, Unserved, IdleTask
<1>3. \A t \in Tasks : TaskBelow(t)
  BY DEF Init, IdleTask, TaskBelow, Carries
<1> QED BY <1>2, <1>3 DEF Init, CounterCovers

\* raise_counter, when it cannot fail, lifts the counter to the id unless the
\* counter ends below it.
LEMMA RaisedCovers ==
    ASSUME CounterIsReachable, TypeOK, NEW i \in Ids, NEW s \in Raised(i)
    PROVE  /\ s \in Nat /\ seq <= s
           /\ s < MaxSeq => i <= s
  BY DEF CounterIsReachable, Raised, Larger, Smaller, TypeOK, Ids

LEMMA StepCovers ==
    ASSUME CounterIsReachable, TypeOK, CounterCovers, [Next]_vars
    PROVE  CounterCovers'
<1> SUFFICES ASSUME seq' < MaxSeq
             PROVE  /\ \A i \in given' : i <= seq'
                    /\ (\A i \in settled' : i <= seq') \/ Unserved'
                    /\ \A t \in Tasks : TaskBelow(t)'
  BY DEF CounterCovers
<1> USE DEF CounterIsReachable
<1>0. seq \in Nat /\ given \subseteq Nat /\ settled \subseteq Nat
      /\ \A t \in Tasks : task[t].id \in Nat
  BY DEF TypeOK, TaskState, Ids
<1>1. ASSUME NEW t \in Tasks, NEW p \in Procs, NEW i, NEW b, NEW pc,
             Begin(t, p, pc, i, b), pc \in {"alloc", "delete"} \/ b = TRUE
      PROVE  CounterCovers'
  <2>1. ~Unserved
    BY <1>1 DEF Begin, Unserved
  <2>2. \A u \in Tasks : seq < MaxSeq => TaskBelow(u)'
    BY <1>1 DEF Begin, TypeOK, CounterCovers, TaskBelow, Carries
  <2> QED BY <1>1, <2>1, <2>2 DEF Begin, CounterCovers
<1>2. ASSUME NEW t \in Tasks, NEW p \in Procs, SetNew(t, p)
      PROVE  CounterCovers'
  BY <1>1, <1>2 DEF SetNew
<1>3. ASSUME NEW t \in Tasks, NEW p \in Procs, NEW i \in ClientIds, SetChosen(t, p, i)
      PROVE  CounterCovers'
  BY <1>1, <1>3 DEF SetChosen
<1>4. ASSUME NEW t \in Tasks, NEW p \in Procs, NEW i \in ClientIds, DelItem(t, p, i)
      PROVE  CounterCovers'
  BY <1>1, <1>4 DEF DelItem
<1>5. ASSUME NEW t \in Tasks, AllocCounter(t)
      PROVE  CounterCovers'
  <2>1. ~Unserved /\ seq < MaxSeq /\ seq' = seq + 1
    BY <1>5 DEF AllocCounter, Unserved
  <2>2. \A u \in Tasks : TaskBelow(u)'
    BY <1>0, <1>5, <2>1 DEF AllocCounter, TypeOK, CounterCovers, TaskBelow, Carries
  <2> QED BY <1>0, <1>5, <2>1, <2>2 DEF AllocCounter, CounterCovers
<1>6. ASSUME NEW t \in Tasks, NoteHigh(t) \/ Look(t) \/ Write(t) \/ WriteFails(t)
                              \/ Delete(t) \/ Forget(t)
      PROVE  CounterCovers'
  <2>1. ~Unserved /\ UNCHANGED <<seq, given, settled>>
    BY <1>6 DEF NoteHigh, Look, Write, WriteFails, Delete, Forget, Unserved
  <2>2. /\ task'[t].id = task[t].id
        /\ Carries(t)' => Carries(t)
        /\ \A u \in Tasks \ {t} : task'[u] = task[u]
    <3>1. CASE NoteHigh(t)
      BY <3>1 DEF NoteHigh, TypeOK, TaskState, Carries
    <3>2. CASE Look(t)
      BY <3>2 DEF Look, TypeOK, TaskState, Carries
    <3>3. CASE Write(t)
      BY <3>3 DEF Write, TypeOK, TaskState, Carries
    <3>4. CASE WriteFails(t)
      BY <3>4 DEF WriteFails, TypeOK, TaskState, Carries
    <3>5. CASE Delete(t) \/ Forget(t)
      BY <3>5 DEF Delete, Forget, TypeOK, TaskState, Carries
    <3> QED BY <1>6, <3>1, <3>2, <3>3, <3>4, <3>5
  <2>3. \A u \in Tasks : seq < MaxSeq => TaskBelow(u)'
    <3> SUFFICES ASSUME NEW u \in Tasks, seq < MaxSeq
                 PROVE  TaskBelow(u)'
      OBVIOUS
    <3>1. TaskBelow(u)
      BY DEF CounterCovers
    <3>2. CASE u = t
      BY <2>1, <2>2, <3>1, <3>2 DEF TaskBelow
    <3>3. CASE u # t
      BY <2>1, <2>2, <3>1, <3>3 DEF TaskBelow, Carries
    <3> QED BY <3>2, <3>3
  <2> QED BY <2>1, <2>3 DEF CounterCovers
<1>7. ASSUME NEW t \in Tasks, AllocFallback(t)
      PROVE  CounterCovers'
  BY <1>0, <1>7 DEF AllocFallback, Smaller, TypeOK
<1>8. ASSUME NEW t \in Tasks, Remember(t)
      PROVE  CounterCovers'
  <2>1. ~Unserved /\ UNCHANGED <<seq, given>>
    BY <1>8 DEF Remember, Unserved
  <2>2. \A u \in Tasks : seq < MaxSeq => TaskBelow(u)'
    <3> SUFFICES ASSUME NEW u \in Tasks, seq < MaxSeq
                 PROVE  TaskBelow(u)'
      OBVIOUS
    <3>1. TaskBelow(u)
      BY DEF CounterCovers
    <3>2. task'[t].pc \in {"raise", "idle"} /\ (u # t => task'[u] = task[u])
      BY <1>8 DEF Remember, TypeOK, TaskState
    <3> QED BY <2>1, <3>1, <3>2 DEF TaskBelow, Carries
  <2>3. \A i \in settled' : i \in settled \/ (i = task[t].id /\ ~task[t].chosen)
    BY <1>8 DEF Remember, Returned
  <2>4. \A i \in settled' : seq < MaxSeq => i <= seq
    BY <1>8, <2>1, <2>3 DEF CounterCovers, TaskBelow, Carries, Remember
  <2> QED BY <2>1, <2>2, <2>4 DEF CounterCovers
<1>9. ASSUME NEW t \in Tasks, Raise(t)
      PROVE  CounterCovers'
  <2>1. ~Unserved /\ given' = given /\ task[t].id \in Ids
    BY <1>9 DEF Raise, Unserved, TypeOK, TaskState
  <2>2. seq' \in Nat /\ seq <= seq' /\ task[t].id <= seq'
    BY <1>9, <2>1, RaisedCovers DEF Raise
  <2>3. \A u \in Tasks : TaskBelow(u)'
    BY <1>0, <1>9, <2>2 DEF Raise, TypeOK, CounterCovers, TaskBelow, Carries
  <2>4. \A i \in settled' : i <= seq'
    BY <1>0, <1>9, <2>1, <2>2 DEF Raise, Returned, CounterCovers
  <2> QED BY <1>0, <2>1, <2>2, <2>3, <2>4 DEF CounterCovers
<1>10. ASSUME NEW p \in Procs, ConnectRead(p)
       PROVE  CounterCovers'
  <2>1. UNCHANGED <<docs, seq, given, settled, task>>
    BY <1>10 DEF ConnectRead
  <2>2. \A u \in Tasks : seq < MaxSeq => TaskBelow(u)'
    BY <2>1 DEF CounterCovers, TaskBelow, Carries
  <2>3. Unserved => Unserved'
    <3>1. \A i \in IdsOf(docs) : i <= items_count'[p]
      BY <1>10 DEF ConnectRead, IsLargest, TypeOK
    <3> QED BY <1>10, <2>1, <3>1 DEF ConnectRead, Unserved, TypeOK, IdsOf
  <2> QED BY <2>1, <2>2, <2>3 DEF CounterCovers
<1>11. ASSUME NEW p \in Procs, ConnectRaise(p)
       PROVE  CounterCovers'
  <2>1. UNCHANGED <<given, settled, task>> /\ items_count[p] \in Ids
    BY <1>11 DEF ConnectRaise, TypeOK
  <2>2. seq' \in Nat /\ seq <= seq' /\ items_count[p] <= seq'
    BY <1>11, <2>1, RaisedCovers DEF ConnectRaise
  <2>3. \A u \in Tasks : TaskBelow(u)'
    BY <1>0, <2>1, <2>2 DEF CounterCovers, TaskBelow, Carries
  <2>4. \A i \in settled' : i <= seq'
    <3>1. CASE Unserved
      BY <1>0, <1>11, <2>1, <2>2, <3>1 DEF Unserved, ConnectRaise, Ids
    <3>2. CASE ~Unserved
      BY <1>0, <2>1, <2>2, <3>2 DEF CounterCovers
    <3> QED BY <3>1, <3>2
  <2>5. \A i \in given' : i <= seq'
    BY <1>0, <2>1, <2>2 DEF CounterCovers
  <2> QED BY <2>3, <2>4, <2>5 DEF CounterCovers
<1>12. ASSUME NEW p \in Procs, Crash(p)
       PROVE  CounterCovers'
  <2>1. UNCHANGED <<docs, seq, given, settled>>
    BY <1>12 DEF Crash
  <2>2. \A u \in Tasks : seq < MaxSeq => TaskBelow(u)'
    BY <1>12 DEF Crash, IdleTask, TypeOK, CounterCovers, TaskBelow, Carries
  <2>3. Unserved => Unserved'
    BY <1>12, <2>1 DEF Crash, IdleTask, Unserved, TypeOK, IdsOf
  <2> QED BY <2>1, <2>2, <2>3 DEF CounterCovers
<1>13. CASE UNCHANGED vars
  BY <1>13 DEF vars, CounterCovers, TaskBelow, Carries, Unserved, IdsOf
<1> QED BY <1>2, <1>3, <1>4, <1>5, <1>6, <1>7, <1>8, <1>9, <1>10, <1>11, <1>12, <1>13
        DEF Next, CounterCovers

\* Whenever the counter can be reached, alloc_id answers with an id that it
\* has never answered and no write has returned: for every number of
\* processes, requests, restarts and deletions.
THEOREM AllocationsStayFresh ==
    ASSUME CounterIsReachable
    PROVE  Spec => AllocationsAreFresh
<1>1. ASSUME TypeOK, CounterCovers, Next, NEW t \in Tasks, Allocates(t), seq < MaxSeq
      PROVE  task'[t].id \notin settled \cup given
  <2>1. task[t].pc = "alloc" /\ task'[t].pc \in {"note", "look"}
    BY <1>1 DEF Allocates
  <2>2. AllocCounter(t)
    <3>1. ASSUME NEW u \in Tasks, NEW p \in Procs, NEW pc, NEW i, NEW b,
                 Begin(u, p, pc, i, b)
          PROVE  FALSE
      BY <2>1, <3>1 DEF Begin, TypeOK
    <3>2. ASSUME NEW u \in Tasks,
                 NoteHigh(u) \/ Look(u) \/ Write(u) \/ WriteFails(u)
                     \/ Remember(u) \/ Raise(u) \/ Delete(u) \/ Forget(u)
          PROVE  FALSE
      <4>1. u # t
        BY <2>1, <3>2 DEF NoteHigh, Look, Write, WriteFails, Remember, Raise, Delete, Forget
      <4>2. task'[t] = task[t]
        BY <1>1, <3>2, <4>1 DEF NoteHigh, Look, Write, WriteFails, Remember, Raise, Delete,
                          Forget, TypeOK
      <4> QED BY <2>1, <4>2
    <3>3. ASSUME NEW u \in Tasks, AllocCounter(u)
          PROVE  u = t
      BY <1>1, <2>1, <3>3 DEF AllocCounter, TypeOK
    <3>4. ASSUME NEW u \in Tasks, AllocFallback(u)
          PROVE  FALSE
      BY <1>1, <3>4 DEF AllocFallback, CounterIsReachable, TypeOK
    <3>5. ASSUME NEW p \in Procs, ConnectRead(p) \/ ConnectRaise(p) \/ Crash(p)
          PROVE  FALSE
      BY <2>1, <3>5 DEF ConnectRead, ConnectRaise, Crash, IdleTask
    <3> QED BY <1>1, <3>1, <3>2, <3>3, <3>4, <3>5 DEF Next, SetNew, SetChosen, DelItem
  <2>3. seq \in Nat /\ given \cup settled \subseteq Nat /\ task'[t].id = seq + 1
    BY <1>1, <2>2 DEF AllocCounter, TypeOK, TaskState, Ids
  <2>4. ~Unserved
    BY <2>1 DEF Unserved
  <2> QED BY <1>1, <2>3, <2>4 DEF CounterCovers
<1>2. TypeOK /\ CounterCovers /\ [Next]_vars =>
        [\A t \in Tasks : Allocates(t) /\ seq < MaxSeq =>
              task'[t].id \notin settled \cup given]_vars
  BY <1>1
<1>3. TypeOK /\ CounterCovers /\ [Next]_vars => CounterCovers'
  BY StepCovers
<1> QED BY <1>2, <1>3, InitCovers, MongoTypeCorrect, PTL DEF Spec, AllocationsAreFresh

-----------------------------------------------------------------------------
(* What was returned is there.  A document with a given id goes away only  *)
(* through a Delete, whose id is in `deleted` from the beginning of the    *)
(* call; so a request that saw the document, or wrote it, finds it there   *)
(* or finds its id deleted.                                                *)

Kept(i) == i \in IdsOf(docs) \cup deleted

TaskKept(t) ==
    /\ task[t].pc = "delete" => task[t].id \in deleted
    /\ task[t].pc = "write" /\ task[t].found => Kept(task[t].id)
    /\ task[t].pc \in {"remember", "raise"} => Kept(task[t].id)

KeptInv == AckedItemsExist /\ \A t \in Tasks : TaskKept(t)

LEMMA InitKept == Init => KeptInv
<1> SUFFICES ASSUME Init PROVE KeptInv
  OBVIOUS
<1>1. ASSUME NEW i \in settled
      PROVE  i \in IdsOf(docs)
  <2>1. [id |-> i, op |-> 0] \in docs
    BY DEF Init
  <2>2. [id |-> i, op |-> 0].id = i
    OBVIOUS
  <2> QED BY <2>1, <2>2 DEF IdsOf
<1> QED BY <1>1 DEF Init, IdleTask, KeptInv, TaskKept, AckedItemsExist

\* A step that drops no kept id, changes no other request and settles only
\* a kept id preserves the invariant if its own request is in order.
LEMMA KeptStep ==
    ASSUME KeptInv, NEW t \in Tasks,
           \A i : Kept(i) => Kept(i)',
           \A u \in Tasks \ {t} : task'[u] = task[u],
           \A i \in settled' \ settled : Kept(i)',
           deleted \subseteq deleted',
           TaskKept(t)'
    PROVE  KeptInv'
<1>1. AckedItemsExist'
  <2> SUFFICES ASSUME NEW i \in settled' PROVE Kept(i)'
    BY DEF AckedItemsExist, Kept
  <2>1. CASE i \in settled
    BY <2>1 DEF KeptInv, AckedItemsExist, Kept
  <2>2. CASE i \notin settled
    BY <2>2
  <2> QED BY <2>1, <2>2
<1>2. ASSUME NEW u \in Tasks
      PROVE  TaskKept(u)'
  <2>1. CASE u = t
    BY <2>1
  <2>2. CASE u # t
    <3>1. TaskKept(u) /\ task'[u] = task[u]
      BY <2>2 DEF KeptInv
    <3> QED BY <3>1 DEF TaskKept
  <2> QED BY <2>1, <2>2
<1> QED BY <1>1, <1>2 DEF KeptInv

LEMMA StepKept ==
    ASSUME TypeOK, KeptInv, [Next]_vars
    PROVE  KeptInv'
<1>1. ASSUME NEW t \in Tasks, NEW p \in Procs, NEW i, NEW b \in BOOLEAN, NEW pc,
             Begin(t, p, pc, i, b), deleted \subseteq deleted',
             pc \in {"alloc", "look", "delete"}, pc = "delete" => i \in deleted'
      PROVE  KeptInv'
  <2>1. task'[t] = [pc |-> pc, proc |-> p, op |-> ops', id |-> i,
                    chosen |-> b, found |-> FALSE]
    BY <1>1 DEF Begin, TypeOK
  <2>2. TaskKept(t)'
    BY <1>1, <2>1 DEF TaskKept
  <2>3. \A u \in Tasks \ {t} : task'[u] = task[u]
    BY <1>1 DEF Begin, TypeOK
  <2> QED BY <1>1, <2>2, <2>3, KeptStep DEF Begin, Kept
<1>2. ASSUME NEW t \in Tasks, NEW p \in Procs, SetNew(t, p)
      PROVE  KeptInv'
  <2>1. deleted \subseteq deleted' /\ Begin(t, p, "alloc", MaxId, FALSE)
    BY <1>2 DEF SetNew
  <2> QED BY <1>1, <2>1
<1>3. ASSUME NEW t \in Tasks, NEW p \in Procs, NEW i \in ClientIds, SetChosen(t, p, i)
      PROVE  KeptInv'
  <2>1. deleted \subseteq deleted' /\ Begin(t, p, "look", i, TRUE)
    BY <1>3 DEF SetChosen
  <2> QED BY <1>1, <2>1
<1>4. ASSUME NEW t \in Tasks, NEW p \in Procs, NEW i \in ClientIds, DelItem(t, p, i)
      PROVE  KeptInv'
  BY <1>1, <1>4 DEF DelItem
<1>5. ASSUME NEW t \in Tasks, AllocCounter(t) \/ NoteHigh(t) \/ AllocFallback(t) \/ Forget(t)
      PROVE  KeptInv'
  <2>1. UNCHANGED <<docs, settled, deleted>>
    BY <1>5 DEF AllocCounter, NoteHigh, AllocFallback, Forget
  <2>2. task'[t].pc \in {"note", "look", "idle"}
    BY <1>5 DEF AllocCounter, NoteHigh, AllocFallback, Forget, TypeOK, TaskState
  <2>3. \A u \in Tasks \ {t} : task'[u] = task[u]
    BY <1>5 DEF AllocCounter, NoteHigh, AllocFallback, Forget, TypeOK
  <2> QED BY <2>1, <2>2, <2>3, KeptStep DEF Kept, TaskKept
<1>6. ASSUME NEW t \in Tasks, Look(t)
      PROVE  KeptInv'
  <2>1. PICK found \in BOOLEAN :
            /\ task' = [task EXCEPT ![t].pc = "write", ![t].found = found]
            /\ found => task[t].id \in IdsOf(docs)
    BY <1>6 DEF Look
  <2>2. /\ task'[t].pc = "write" /\ task'[t].id = task[t].id
        /\ task'[t].found = found
        /\ \A u \in Tasks \ {t} : task'[u] = task[u]
    BY <2>1 DEF TypeOK, TaskState
  <2>3. UNCHANGED <<docs, settled, deleted>>
    BY <1>6 DEF Look
  <2> QED BY <2>1, <2>2, <2>3, KeptStep DEF Kept, TaskKept
<1>7. ASSUME NEW t \in Tasks, Write(t) \/ WriteFails(t)
      PROVE  KeptInv'
  <2>1. /\ UNCHANGED <<settled, deleted>>
        /\ docs' \in Written(t) \cup {docs}
        /\ task[t].pc = "write"
    BY <1>7 DEF Write, WriteFails
  <2>2. /\ task'[t].id = task[t].id
        /\ task'[t].pc = "idle" \/ (task'[t].pc = "remember" /\ docs' \in Written(t))
        /\ \A u \in Tasks \ {t} : task'[u] = task[u]
    BY <1>7 DEF Write, WriteFails, TypeOK, TaskState
  <2>3. IdsOf(docs) \subseteq IdsOf(docs')
    BY <2>1, WrittenType
  <2>4. docs' \in Written(t) => Kept(task[t].id)'
    <3>0. HAVE docs' \in Written(t)
    <3>1. CASE task[t].found
      BY <2>1, <2>2, <2>3, <3>1 DEF KeptInv, TaskKept, Kept
    <3>2. CASE ~task[t].found
      BY <2>2, <3>0, <3>2, WrittenType DEF Kept
    <3> QED BY <3>1, <3>2
  <2>5. \A i : Kept(i) => Kept(i)'
    BY <2>1, <2>3 DEF Kept
  <2>6. TaskKept(t)'
    BY <2>2, <2>4 DEF TaskKept
  <2> QED BY <2>1, <2>2, <2>5, <2>6, KeptStep
<1>8. ASSUME NEW t \in Tasks, Remember(t) \/ Raise(t)
      PROVE  KeptInv'
  <2>1. /\ UNCHANGED <<docs, deleted>>
        /\ settled' \subseteq settled \cup {task[t].id}
        /\ task[t].pc \in {"remember", "raise"}
    BY <1>8 DEF Remember, Raise, Returned
  <2>2. /\ task'[t].pc \in {"raise", "idle"} /\ task'[t].id = task[t].id
        /\ \A u \in Tasks \ {t} : task'[u] = task[u]
    BY <1>8 DEF Remember, Raise, TypeOK, TaskState
  <2>3. Kept(task[t].id)
    BY <2>1 DEF KeptInv, TaskKept
  <2> QED BY <2>1, <2>2, <2>3, KeptStep DEF Kept, TaskKept
<1>9. ASSUME NEW t \in Tasks, Delete(t)
      PROVE  KeptInv'
  <2>1. task[t].id \in deleted /\ UNCHANGED <<settled, deleted>>
    BY <1>9 DEF Delete, KeptInv, TaskKept
  <2>2. \A i : Kept(i) => Kept(i)'
    <3> SUFFICES ASSUME NEW d \in docs, d.id # task[t].id
                 PROVE  d \in docs'
      BY <2>1 DEF Kept, IdsOf
    <3> QED BY <1>9 DEF Delete
  <2>3. task'[t].pc = "forget" /\ \A u \in Tasks \ {t} : task'[u] = task[u]
    BY <1>9 DEF Delete, TypeOK, TaskState
  <2> QED BY <2>1, <2>2, <2>3, KeptStep DEF TaskKept
<1>10. ASSUME NEW p \in Procs, ConnectRead(p) \/ ConnectRaise(p) \/ Crash(p)
       PROVE  KeptInv'
  BY <1>10 DEF ConnectRead, ConnectRaise, Crash, IdleTask, KeptInv, TaskKept, Kept,
               AckedItemsExist
<1>11. CASE UNCHANGED vars
  BY <1>11 DEF vars, KeptInv, TaskKept, Kept, AckedItemsExist, IdsOf
<1> QED BY <1>2, <1>3, <1>4, <1>5, <1>6, <1>7, <1>8, <1>9, <1>10, <1>11 DEF Next

\* An id that set_item has returned stays in the collection until a del_item
\* is called for it, whatever calls to the database fail.
THEOREM AckedItemsStay == Spec => []AckedItemsExist
<1>1. TypeOK /\ KeptInv /\ [Next]_vars => KeptInv'
  BY StepKept
<1>2. KeptInv => AckedItemsExist
  BY DEF KeptInv
<1> QED BY <1>1, <1>2, InitKept, MongoTypeCorrect, PTL DEF Spec
==============================================================================
