--------------------------- MODULE UserCacheProofs ---------------------------
(***************************************************************************)
(* The generation check is enough, for any number of principals, lookups   *)
(* and writers: a record older than a write that has returned never gets   *)
(* into the cache and never answers a lookup that began after it.          *)
(*                                                                         *)
(* The invariant that carries the proof is LookupOK: a lookup holding an   *)
(* answer older than an acknowledged write must have begun under an older  *)
(* generation, because that write moved the generation before it returned. *)
(***************************************************************************)
EXTENDS UserCache, TLAPS

LookupOK(l) ==
    /\ lookup[l].gen <= gen
    /\ lookup[l].pc = "asking" => lookup[l].floor <= acked[lookup[l].key]
    /\ lookup[l].pc \in {"answered", "done"} =>
          lookup[l].rec.write >= lookup[l].floor
    /\ lookup[l].pc = "answered" /\ lookup[l].gen = gen =>
          lookup[l].rec.write >= acked[lookup[l].key]

WriterOK(w) == writer[w].write <= db[writer[w].key].write

IInv ==
    /\ TypeOK
    /\ \A p \in Principals : /\ acked[p] <= db[p].write
                             /\ db[p].write <= writes
    /\ \A w \in Writers : WriterOK(w)
    /\ \A l \in Lookups : LookupOK(l)
    /\ CacheNeverOlderThanAcked

LEMMA InitIInv == Init => IInv
  BY UserCacheAssumption DEF Init, IInv, TypeOK, LookupOK, WriterOK, CacheNeverOlderThanAcked,
     Record, NoRecord

LEMMA StepIInv == IInv /\ [Next]_vars => IInv'
<1> SUFFICES ASSUME IInv, [Next]_vars PROVE IInv'
  OBVIOUS
<1> USE UserCacheAssumption DEF IInv
<1>1. ASSUME NEW l \in Lookups, NEW p \in Principals, Hit(l, p)
      PROVE  IInv'
  <2>1. cache[p] \in Record /\ cache[p].write \in Nat /\ cache[p].write >= acked[p]
    BY <1>1 DEF Hit, TypeOK, CacheNeverOlderThanAcked, Record
  <2>2. TypeOK'
    BY <1>1, <2>1 DEF Hit, TypeOK
  <2>3. ASSUME NEW k \in Lookups
        PROVE  LookupOK(k)'
    BY <1>1, <2>1 DEF Hit, TypeOK, LookupOK
  <2> QED BY <1>1, <2>2, <2>3 DEF Hit, WriterOK, CacheNeverOlderThanAcked
<1>2. ASSUME NEW l \in Lookups, NEW p \in Principals, Miss(l, p)
      PROVE  IInv'
  <2>1. TypeOK'
    BY <1>2 DEF Miss, TypeOK, Record, NoRecord
  <2>2. ASSUME NEW k \in Lookups
        PROVE  LookupOK(k)'
    BY <1>2 DEF Miss, TypeOK, LookupOK
  <2> QED BY <1>2, <2>1, <2>2 DEF Miss, WriterOK, CacheNeverOlderThanAcked
<1>3. ASSUME NEW l \in Lookups, Answer(l)
      PROVE  IInv'
  <2>1. /\ lookup[l].key \in Principals
        /\ db[lookup[l].key] \in Record
        /\ db[lookup[l].key].write \in Nat
        /\ acked[lookup[l].key] \in Nat
    BY <1>3 DEF TypeOK, Record
  <2>2. TypeOK'
    <3> DEFINE L == [pc : {"idle", "asking", "answered", "done"},
                     key : Principals, gen : Nat, rec : Record, floor : Nat]
               answered == [lookup[l] EXCEPT !.pc = "answered",
                                             !.rec = db[lookup[l].key]]
    <3>1. lookup[l] \in L /\ lookup \in [Lookups -> L]
      BY DEF TypeOK
    <3>2. answered \in L
      BY <2>1, <3>1
    <3>3. lookup' = [lookup EXCEPT ![l] = answered]
      BY <1>3, <3>1 DEF Answer
    <3> HIDE DEF L, answered
    <3>4. lookup' \in [Lookups -> L]
      BY <3>1, <3>2, <3>3
    <3> QED BY <1>3, <3>4 DEF Answer, TypeOK, L
  <2>3. ASSUME NEW k \in Lookups
        PROVE  LookupOK(k)'
    BY <1>3, <2>1 DEF Answer, TypeOK, LookupOK
  <2> QED BY <1>3, <2>2, <2>3 DEF Answer, WriterOK, CacheNeverOlderThanAcked
<1>4. ASSUME NEW l \in Lookups, Unavailable(l)
      PROVE  IInv'
  <2>1. TypeOK'
    BY <1>4 DEF Unavailable, TypeOK
  <2>2. ASSUME NEW k \in Lookups
        PROVE  LookupOK(k)'
    BY <1>4 DEF Unavailable, TypeOK, LookupOK
  <2> QED BY <1>4, <2>1, <2>2 DEF Unavailable, WriterOK, CacheNeverOlderThanAcked
<1>5. ASSUME NEW l \in Lookups, Install(l)
      PROVE  IInv'
  <2>1. TypeOK'
    BY <1>5 DEF Install, Put, TypeOK
  <2>2. ASSUME NEW k \in Lookups
        PROVE  LookupOK(k)'
    BY <1>5 DEF Install, TypeOK, LookupOK
  <2>3. CacheNeverOlderThanAcked'
    BY <1>5 DEF Install, MayInstall, Put, TypeOK, LookupOK, CacheNeverOlderThanAcked
  <2> QED BY <1>5, <2>1, <2>2, <2>3 DEF Install, WriterOK
<1>6. ASSUME NEW p \in Principals, Expire(p)
      PROVE  IInv'
  BY <1>6 DEF Expire, Without, TypeOK, LookupOK, WriterOK, CacheNeverOlderThanAcked
<1>7. ASSUME NEW w \in Writers, NEW p \in Principals, NEW exists \in BOOLEAN,
             Commit(w, p, exists)
      PROVE  IInv'
  <2>1. TypeOK'
    <3>1. writes' \in 0 .. MaxWrites /\ writes' \in Nat
      BY <1>7 DEF Commit, TypeOK
    <3>2. [write |-> writes', exists |-> exists] \in Record
      BY <3>1 DEF Record
    <3> QED BY <1>7, <3>1, <3>2 DEF Commit, TypeOK
  <2>2. \A q \in Principals : acked'[q] <= db'[q].write /\ db'[q].write <= writes'
                              /\ db[q].write <= db'[q].write
    BY <1>7 DEF Commit, TypeOK, Record
  <2>3. \A v \in Writers : WriterOK(v)'
    BY <1>7, <2>2 DEF Commit, TypeOK, Record, WriterOK
  <2> QED BY <1>7, <2>1, <2>2, <2>3 DEF Commit, LookupOK, CacheNeverOlderThanAcked
<1>8. ASSUME NEW w \in Writers, NEW p \in Principals, CommitUnknown(w, p)
      PROVE  IInv'
  <2>1. TypeOK'
    <3>1. writes' \in 0 .. MaxWrites /\ writes' \in Nat
      BY <1>8 DEF CommitUnknown, TypeOK
    <3>2. [write |-> writes', exists |-> TRUE] \in Record
      BY <3>1 DEF Record
    <3> QED BY <1>8, <3>1, <3>2 DEF CommitUnknown, TypeOK
  <2>2. \A q \in Principals : acked'[q] <= db'[q].write /\ db'[q].write <= writes'
                              /\ db[q].write <= db'[q].write
    BY <1>8 DEF CommitUnknown, TypeOK, Record
  <2>3. \A v \in Writers : WriterOK(v)'
    BY <1>8, <2>2 DEF CommitUnknown, TypeOK, Record, WriterOK
  <2> QED BY <1>8, <2>1, <2>2, <2>3 DEF CommitUnknown, LookupOK, CacheNeverOlderThanAcked
<1>9. ASSUME NEW w \in Writers, NEW p \in Principals, DeleteFails(w, p)
      PROVE  IInv'
  BY <1>9 DEF DeleteFails, TypeOK, LookupOK, WriterOK, CacheNeverOlderThanAcked, Record
<1>10. ASSUME NEW w \in Writers, invalidate_user_cache(w)
       PROVE  IInv'
  <2>1. TypeOK'
    <3>1. gen' \in Nat /\ acked' \in [Principals -> Nat]
      BY <1>10 DEF invalidate_user_cache, TypeOK, Larger
    <3>2. DOMAIN cache' = {} /\ cache' \in [DOMAIN cache' -> Record]
      BY <1>10 DEF invalidate_user_cache
    <3>3. writer' \in [Writers -> [pc : {"idle", "written"}, key : Principals,
                                   write : Nat]]
      BY <1>10 DEF invalidate_user_cache, TypeOK
    <3> QED BY <1>10, <3>1, <3>2, <3>3 DEF invalidate_user_cache, TypeOK
  <2>2. \A q \in Principals : acked'[q] <= db'[q].write /\ db'[q].write <= writes'
                              /\ acked[q] <= acked'[q]
    BY <1>10 DEF invalidate_user_cache, TypeOK, Record, WriterOK, Larger
  <2>3. \A v \in Writers : WriterOK(v)'
    BY <1>10 DEF invalidate_user_cache, TypeOK, WriterOK
  <2>4. ASSUME NEW l \in Lookups
        PROVE  LookupOK(l)'
    <3>1. lookup'[l].gen < gen'
      BY <1>10 DEF invalidate_user_cache, TypeOK, LookupOK
    <3>2. acked[lookup[l].key] <= acked'[lookup[l].key] /\ lookup' = lookup
      BY <1>10, <2>2 DEF invalidate_user_cache, TypeOK
    <3> QED BY <3>1, <3>2, <2>1 DEF LookupOK, TypeOK
  <2>5. CacheNeverOlderThanAcked'
    BY <1>10 DEF invalidate_user_cache, CacheNeverOlderThanAcked
  <2> QED BY <2>1, <2>2, <2>3, <2>4, <2>5
<1>11. CASE UNCHANGED vars
  BY <1>11 DEF vars, TypeOK, LookupOK, WriterOK, CacheNeverOlderThanAcked
<1> QED BY <1>1, <1>2, <1>3, <1>4, <1>5, <1>6, <1>7, <1>8, <1>9, <1>10, <1>11
        DEF Next, LookupStep

LEMMA SpecIInv == Spec => []IInv
  BY InitIInv, StepIInv, PTL DEF Spec

\* The state is well typed throughout.
THEOREM CacheTypeCorrect == Spec => []TypeOK
<1>1. IInv => TypeOK
  BY DEF IInv
<1> QED BY <1>1, SpecIInv, PTL

\* No entry is older than a write that has returned: find_user_cached never
\* reinstates what invalidate_user_cache dropped.
THEOREM CacheIsCurrent == Spec => []CacheNeverOlderThanAcked
<1>1. IInv => CacheNeverOlderThanAcked
  BY DEF IInv
<1> QED BY <1>1, SpecIInv, PTL

\* Every answer of find_user_cached is at least as new as the last write
\* that had returned when the lookup began.
THEOREM LookupsAreCurrent == Spec => []LookupsSeeAckedWrites
<1>1. IInv => LookupsSeeAckedWrites
  BY DEF IInv, LookupOK, LookupsSeeAckedWrites
<1> QED BY <1>1, SpecIInv, PTL
==============================================================================
