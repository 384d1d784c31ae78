---------------------------- MODULE ItemApiProofs ----------------------------
(***************************************************************************)
(* Proofs about the item API and its plugins (ItemApi, PluginDispatch,     *)
(* ListFilter), for any number of plugins, requests, handlers and places   *)
(* in a mailbox.                                                           *)
(*                                                                         *)
(* A request has at most one question under way, at the plugin whose turn  *)
(* it is, and the plugins and the request agree on it (QuestionFine,       *)
(* OnceEach).  What a request then knows is said of its record, of its     *)
(* reply channel and of what the plugins told it, as operators of these    *)
(* (RequestFine): so a step has to be looked at for the request that it is *)
(* about, and the others stay as they were (OthersStay).                   *)
(***************************************************************************)
EXTENDS ItemApi, WellFoundedInduction, TLAPS

(* ------------------------------ the invariant ---------------------------- *)

\* The stages whose hooks are answered.
Asking == {"auth", "pre", "db", "filter", "route", "rest"}

Items == {Absent} \cup Item
Calls == {"none", "sending", "waiting", "over"}
Tidings == [hook |-> "tick"]

Messages ==
    {Tidings} \cup
    [hook : Asking \cup {"post"}, req : Requests, turn : Nat,
     carried : Items \cup SUBSET Ids]

PluginState ==
    [alive : BOOLEAN, box : Seq(Messages), serving : Messages \cup {None}, call : Calls]

Outcomes == {"none", 200, 400, 401, 403, 404, 500}

RequestState ==
    [op : Ops \cup {"none"}, pc : {"idle", "send", "wait", "done"},
     stage : Hooks \cup {"none"}, turn : Nat, id : Ids \cup {0}, carried : Items,
     page : SUBSET Ids, filters : SUBSET SUBSET Ids, lost : BOOLEAN,
     forbidden : BOOLEAN, outcome : Outcomes]

CoreCalls == [from : Plugins, op : {"get", "set", "del", "notify"}]

\* A question wants an answer; the other messages are told and that is it.
IsQuestion(m) == m.hook \in Asking
IsPost(m) == m.hook = "post"

\* What lies at a plugin.
At(v) == {v.serving} \cup {v.box[i] : i \in DOMAIN v.box}

\* A question under way is the one its request waits for, at the plugin whose
\* turn it is.
QuestionFine(m, p, q, a) ==
    /\ q.pc = "wait" /\ a = Empty
    /\ m = Question(q, m.req)
    /\ p = PluginOf(q.turn)

\* Posts are sent after the write, in their turns.
PostFine(m, p, q) ==
    /\ q.stage = "post"
    /\ m.turn \in 1 .. q.turn - 1
    /\ m.turn \in 1 .. Turns("post")
    /\ p = PluginOf(m.turn)

MailFine(v, p, qs, as) ==
    \A m \in At(v) :
        /\ IsQuestion(m) => QuestionFine(m, p, qs[m.req], as[m.req])
        /\ IsPost(m) => PostFine(m, p, qs[m.req])

\* No question lies at a plugin twice.
OnceEach(v) ==
    /\ \A i, j \in DOMAIN v.box :
           IsQuestion(v.box[i]) /\ IsQuestion(v.box[j]) /\ v.box[i].req = v.box[j].req
           => i = j
    /\ IsQuestion(v.serving) =>
           \A i \in DOMAIN v.box :
               ~(IsQuestion(v.box[i]) /\ v.box[i].req = v.serving.req)

PluginFine(v, p, qs, as) ==
    /\ v \in PluginState
    /\ Len(v.box) <= MailboxCap
    /\ ~v.alive => v.box = <<>> /\ v.serving = None
    /\ MailFine(v, p, qs, as)
    /\ OnceEach(v)

\* The stages an operation goes through.
StagesOf(op) ==
    CASE op \in {"edit", "del"} -> {"auth", "pre", "post"}
      [] op = "unknown" -> {"auth"}
      [] op = "list" -> {"filter"}
      [] op = "query" -> {"db", "filter"}
      [] op = "route" -> {"route"}
      [] op \in {"post_route", "rest"} -> {"rest"}
      [] OTHER -> {}

\* An answer was given and is not heard yet.
Told(q, a) == q.pc = "wait" /\ a # Empty

\* What a request is, by its stage and how far it is in it.
PhaseFine(q, a, h, r) ==
    /\ q.stage \in {"none"} \cup StagesOf(q.op)
    /\ q.pc = "idle" => q = Idle
    /\ q.stage = "none" => q.pc \in {"idle", "done"} /\ q.page = {} /\ h = NothingSaid
    /\ q.stage # "none" => q.pc # "idle" /\ q.turn \in 1 .. Turns(q.stage) + 1
    /\ q.pc = "wait" => q.stage \in Asking /\ q.turn <= Turns(q.stage)
    /\ Told(q, a) => a \in Answers(Question(q, r)) \cup {Dropped}
    /\ q.pc = "done" => q.stage # "db"
    /\ q.pc = "done" /\ q.stage \in {"rest", "post"} => Over(q)
    /\ q.op = "list" /\ q.pc = "done" => q.outcome = (IF q.page = {} THEN 400 ELSE 200)
    /\ q.op = "edit" /\ q.stage # "none" => q.carried \in Item
    /\ q.op = "query" => (q.stage # "none" <=> ~q.forbidden)

\* Every plugin that lives was asked in each of its turns before the n-th.
AskedBefore(hook, n, h, vs) ==
    \A k \in 1 .. n - 1 : vs[PluginOf(k)].alive => <<hook, k>> \in h.asked

AskedFine(q, a, h, vs) ==
    /\ q.stage \in Asking => AskedBefore(q.stage, q.turn, h, vs)
    /\ Told(q, a) => AskedBefore(q.stage, q.turn + 1, h, vs)
    /\ q.stage \in {"pre", "post"} => AskedBefore("auth", Turns("auth") + 1, h, vs)
    /\ q.stage = "post" => AskedBefore("pre", Turns("pre") + 1, h, vs)

\* A veto ends the request as soon as it is heard, and so does a served route.
VetoFine(q, a, h) ==
    /\ h.veto => /\ q.stage \in {"auth", "pre"}
                 /\ q.pc = "done" \/ (Told(q, a) /\ a.verdict = "no")
    /\ h.served # 0 => /\ h.served = 1
                       /\ \/ q.pc = "done"
                          \/ Told(q, a) /\ q.stage = "route" /\ a.verdict = "ok"

\* What a request will hold when it has heard the answer it was given.
HeldNow(q, a) ==
    IF Told(q, a) /\ a.verdict # "dropped" /\ q.stage = "pre" THEN a.carried ELSE q.carried
PageNow(q, a) ==
    IF Told(q, a) /\ a.verdict # "dropped" /\ q.stage = "filter" THEN a.carried ELSE q.page
FiltersNow(q, a) ==
    IF Told(q, a) /\ a.verdict = "ok" /\ q.stage = "db"
      THEN q.filters \cup {a.carried} ELSE q.filters

\* What the plugins left of it, so far; the database filters among them bind
\* only a query whose filters can be read.
LeftFine(q, a, h) ==
    /\ h.left # <<>> =>
        /\ h.left = <<h.left[1]>>
        /\ q.op = "edit" => q.stage # "auth" /\ h.left = <<HeldNow(q, a)>>
        /\ q.stage = "db" =>
               {i \in Ids : \A f \in FiltersNow(q, a) : i \in f} \subseteq h.left[1]
        /\ q.stage = "filter" /\ ~q.lost => PageNow(q, a) \subseteq h.left[1]
    /\ h.shown # <<>> =>
        /\ h.shown = <<h.shown[1]>>
        /\ q.stage = "filter" /\ PageNow(q, a) \subseteq h.shown[1]

\* What was written, and who has heard of it.
WrittenFine(q, h, r, done) ==
    /\ r \in done => q.stage = "post"
    /\ q.op = "edit" /\ q.stage = "post" => r \in done
    /\ \A n : <<"post", n>> \in h.asked => q.stage = "post" /\ n \in 1 .. Turns("post")

\* Every post that was sent was heard or lies at its plugin.
ToldFine(q, h, r, vs) ==
    q.stage = "post" =>
        \A n \in 1 .. q.turn - 1 : vs[PluginOf(n)].alive =>
            \/ <<"post", n>> \in h.asked
            \/ \E m \in At(vs[PluginOf(n)]) : IsPost(m) /\ m.req = r /\ m.turn = n

\* An edit keeps the owner it found, unless somebody has written since.
OwnerFine(q, r, items, others) ==
    q.op = "edit" /\ q.stage \in {"auth", "pre"} /\ r \notin others =>
        q.id \in Ids /\ (items[q.id] # Absent => q.carried.owner = items[q.id].owner)

RequestFine(r, q, a, h, vs, items, others, done) ==
    /\ q \in RequestState
    /\ h.veto \in BOOLEAN
    /\ PhaseFine(q, a, h, r)
    /\ AskedFine(q, a, h, vs)
    /\ VetoFine(q, a, h)
    /\ LeftFine(q, a, h)
    /\ WrittenFine(q, h, r, done)
    /\ ToldFine(q, h, r, vs)
    /\ OwnerFine(q, r, items, others)

CoreFine ==
    /\ inbox \in Seq(CoreCalls)
    /\ Len(inbox) <= CoreCap
    /\ core \in {None} \cup CoreCalls

Shapes ==
    /\ plugin = [p \in Plugins |-> plugin[p]]
    /\ req = [r \in Requests |-> req[r]]
    /\ slot = [r \in Requests |-> slot[r]]
    /\ said = [r \in Requests |-> said[r]]
    /\ store \in [Ids -> Items]

ItemInv ==
    /\ Shapes
    /\ CoreFine
    /\ \A p \in Plugins : PluginFine(plugin[p], p, req, slot)
    /\ \A r \in Requests :
           RequestFine(r, req[r], slot[r], said[r], plugin, store, disturbed, written)

(* -------------------------- turns, moves, answers ------------------------ *)

\* A stage has a number of turns, and every turn is some plugin's.
LEMMA TurnFacts ==
    /\ \A stage \in Hooks : Turns(stage) \in Nat
    /\ \A n \in Nat \ {0} : PluginOf(n) \in Plugins
    /\ 0 \notin Plugins
<1>1. ASSUME NEW stage \in Hooks PROVE Turns(stage) \in Nat
  <2>1. Handlers[stage] \in Nat /\ NPlugins \in Nat
    BY ItemApiAssumption, DispatchAssumption
  <2>2. \A m, n \in Nat : m * n \in Nat
    OBVIOUS
  <2> QED BY <2>1, <2>2 DEF Turns
<1>2. ASSUME NEW n \in Nat \ {0} PROVE PluginOf(n) \in Plugins
  <2>1. NPlugins \in Nat \ {0}
    BY DispatchAssumption
  <2>2. \A m \in Nat, k \in Nat \ {0} : (m % k) + 1 \in 1 .. k
    OBVIOUS
  <2>3. n - 1 \in Nat
    OBVIOUS
  <2> QED BY <2>1, <2>2, <2>3 DEF PluginOf, Plugins
<1>3. 0 \notin Plugins
  BY DispatchAssumption DEF Plugins
<1> QED BY <1>1, <1>2, <1>3

\* An item is not the absence of one.
LEMMA AbsentIsNoItem == Absent \notin Item
<1> SUFFICES ASSUME Absent \in Item PROVE FALSE
  OBVIOUS
<1>1. DOMAIN Absent = {"val", "owner"}
  BY DEF Item
<1>2. DOMAIN Absent = {"val"}
  BY DEF Absent
<1> QED BY <1>1, <1>2

\* The stages with nothing after them, where running out of turns is the end.
Last == {"filter", "route", "rest", "post"}

\* q has moved on to turn n of a stage, and was answered if that is past the last.
Moved(q, stage, n, s) ==
    /\ s \in RequestState
    /\ s.stage = stage /\ s.turn = n
    /\ s.op = q.op /\ s.id = q.id /\ s.carried = q.carried
    /\ s.page = q.page /\ s.filters = q.filters /\ s.forbidden = q.forbidden
    /\ s.lost = q.lost
    /\ IF n > Turns(stage) /\ stage \in Last
         THEN s.pc = "done" /\ s.outcome = Outcome(q)
         ELSE s.pc = "send" /\ s.outcome = q.outcome

\* Judging a stage answers a request that has run out of its turns, where
\* nothing comes after it, and touches nothing else of the request.
LEMMA SettledMoves ==
    ASSUME NEW q \in RequestState, q.pc = "send", q.stage \in Hooks
    PROVE  Moved(q, q.stage, q.turn, Settled(q))
<1>1. Outcome(q) \in Outcomes
  BY DEF Outcome, Outcomes
<1>2. CASE Over(q) /\ q.stage \in Last
  <2> DEFINE s == [q EXCEPT !.pc = "done", !.outcome = Outcome(q)]
  <2>1. Settled(q) = s
    BY <1>2 DEF Settled, Last, Answered
  <2>2. s \in RequestState
    BY <1>1, Zenon DEF RequestState
  <2>3. /\ s.stage = q.stage /\ s.turn = q.turn /\ s.op = q.op /\ s.id = q.id
        /\ s.carried = q.carried /\ s.page = q.page /\ s.filters = q.filters
        /\ s.forbidden = q.forbidden /\ s.pc = "done" /\ s.outcome = Outcome(q)
        /\ s.lost = q.lost
    BY DEF RequestState
  <2>4. q.turn > Turns(q.stage)
    BY <1>2 DEF Over
  <2> HIDE DEF s
  <2> QED BY <1>2, <2>1, <2>2, <2>3, <2>4 DEF Moved
<1>3. CASE ~(Over(q) /\ q.stage \in Last)
  <2>1. Settled(q) = q
    BY <1>3 DEF Settled, Last
  <2>2. ~(q.turn > Turns(q.stage) /\ q.stage \in Last)
    BY <1>3 DEF Over
  <2> QED BY <2>1, <2>2 DEF Moved
<1> QED BY <1>2, <1>3

\* A turn that is over moves the request one turn on, and answers it when that
\* was the last turn of a stage with nothing after it.
LEMMA NextTurnMoves ==
    ASSUME NEW q \in RequestState, q.stage \in Hooks
    PROVE  Moved(q, q.stage, q.turn + 1, NextTurn(q))
<1> DEFINE s == [q EXCEPT !.turn = @ + 1, !.pc = "send"]
<1>1. q.turn + 1 \in Nat
  BY DEF RequestState
<1>2. s \in RequestState
  BY <1>1, Zenon DEF RequestState
<1>3. /\ s.stage = q.stage /\ s.turn = q.turn + 1 /\ s.pc = "send" /\ s.op = q.op
      /\ s.id = q.id /\ s.carried = q.carried /\ s.page = q.page
      /\ s.filters = q.filters /\ s.forbidden = q.forbidden /\ s.outcome = q.outcome
      /\ s.lost = q.lost
  BY DEF RequestState
<1>4. NextTurn(q) = Settled(s)
  BY DEF NextTurn
<1> HIDE DEF s
<1>5. Outcome(s) = Outcome(q)
  BY <1>3 DEF Outcome
<1>6. Moved(s, s.stage, s.turn, Settled(s))
  BY <1>2, <1>3, SettledMoves
<1> QED BY <1>3, <1>4, <1>5, <1>6 DEF Moved

\* Going to a stage is standing at its first turn, or past it when no plugin
\* has a handler there.
LEMMA GoToMoves ==
    ASSUME NEW q \in RequestState, NEW stage \in Hooks
    PROVE  Moved(q, stage, 1, GoTo(q, stage))
<1> DEFINE s == [q EXCEPT !.stage = stage, !.turn = 1, !.pc = "send"]
<1>2. s \in RequestState
  BY Zenon, 1 \in Nat DEF RequestState
<1>3. /\ s.stage = stage /\ s.turn = 1 /\ s.pc = "send" /\ s.op = q.op
      /\ s.id = q.id /\ s.carried = q.carried /\ s.page = q.page
      /\ s.filters = q.filters /\ s.forbidden = q.forbidden /\ s.outcome = q.outcome
      /\ s.lost = q.lost
  BY DEF RequestState
<1>4. GoTo(q, stage) = Settled(s)
  BY DEF GoTo
<1> HIDE DEF s
<1>5. Outcome(s) = Outcome(q)
  BY <1>3 DEF Outcome
<1>6. Moved(s, s.stage, s.turn, Settled(s))
  BY <1>2, <1>3, SettledMoves
<1> QED BY <1>3, <1>4, <1>5, <1>6 DEF Moved

\* q was answered in the middle of a stage.
Ended(q, s) ==
    /\ s \in RequestState
    /\ s.pc = "done"
    /\ s.stage = q.stage /\ s.turn = q.turn
    /\ s.op = q.op /\ s.id = q.id /\ s.carried = q.carried
    /\ s.page = q.page /\ s.filters = q.filters /\ s.forbidden = q.forbidden
    /\ s.lost = q.lost

\* An answered request is over, with that answer and otherwise as it was.
LEMMA AnsweredEnds ==
    ASSUME NEW q \in RequestState
    PROVE  \A outcome \in {200, 400, 401, 403, 500} :
             Ended(q, Answered(q, outcome)) /\ Answered(q, outcome).outcome = outcome
<1>1. \A o \in Outcomes : Answered(q, o) \in RequestState
  BY Zenon DEF Answered, RequestState
<1>2. {200, 400, 401, 403, 500} \subseteq Outcomes
  BY DEF Outcomes
<1>3. ASSUME NEW o \in Outcomes
      PROVE  LET s == Answered(q, o) IN
             /\ s.stage = q.stage /\ s.turn = q.turn /\ s.op = q.op /\ s.id = q.id
             /\ s.carried = q.carried /\ s.page = q.page /\ s.filters = q.filters
             /\ s.forbidden = q.forbidden /\ s.pc = "done" /\ s.outcome = o
             /\ s.lost = q.lost
  BY DEF Answered, RequestState
<1>4. \A o \in Outcomes : Ended(q, Answered(q, o)) /\ Answered(q, o).outcome = o
  BY <1>1, <1>3 DEF Ended
<1> QED BY <1>2, <1>4

\* A question is a message of its request, about what the stage is about.
LEMMA QuestionIs ==
    ASSUME NEW q \in RequestState, q.stage \in Asking, NEW r \in Requests
    PROVE  LET m == Question(q, r) IN
           /\ m \in Messages /\ m # None /\ IsQuestion(m) /\ ~IsPost(m)
           /\ m.hook = q.stage /\ m.req = r /\ m.turn = q.turn
           /\ m.carried = IF q.stage \in {"auth", "pre"} THEN q.carried ELSE q.page
<1> DEFINE c == IF q.stage \in {"auth", "pre"} THEN q.carried ELSE q.page
           m == [hook |-> q.stage, req |-> r, turn |-> q.turn, carried |-> c]
<1>1. Question(q, r) = m
  BY DEF Question, Message
<1>2. c \in Items \cup SUBSET Ids /\ q.turn \in Nat
  BY DEF RequestState
<1>3. m.hook = q.stage /\ m.req = r /\ m.turn = q.turn /\ m.carried = c
  OBVIOUS
<1> HIDE DEF c
<1>4. m \in Messages
  BY <1>2 DEF Messages
<1> HIDE DEF m
<1>5. m # None /\ IsQuestion(m) /\ ~IsPost(m)
  BY <1>3 DEF None, IsQuestion, IsPost, Asking
<1> QED BY <1>1, <1>3, <1>4, <1>5 DEF c

\* What a plugin may make of a question: it refuses only in two stages, lets an
\* item be its owner's, and only withholds from a page.
LEMMA AnswersAre ==
    ASSUME NEW q \in RequestState, q.stage \in Asking, NEW r \in Requests,
           NEW a \in Answers(Question(q, r)) \cup {Dropped}
    PROVE  /\ a # Empty
           /\ a.verdict \in {"ok", "no", "not implemented", "dropped"}
           /\ a.verdict = "no" => q.stage \in {"auth", "pre"}
           /\ q.stage = "pre" /\ a.verdict # "dropped" =>
                /\ a.carried \in Items
                /\ q.carried \in Item =>
                     a.carried \in Item /\ a.carried.owner = q.carried.owner
           /\ q.stage = "db" /\ a.verdict # "dropped" =>
                a.carried \subseteq Ids /\ (a.verdict # "ok" => a.carried = Ids)
           /\ q.stage = "filter" /\ a.verdict # "dropped" =>
                a.carried \subseteq q.page
<1> DEFINE m == Question(q, r)
<1>1. /\ m.hook = q.stage
      /\ m.carried = IF q.stage \in {"auth", "pre"} THEN q.carried ELSE q.page
  BY QuestionIs
<1> HIDE DEF m
<1>2. q.carried \in Items /\ q.page \subseteq Ids
  BY DEF RequestState
<1>e. \A b : b.verdict # "empty" => b # Empty
  BY DEF Empty
<1>3. CASE a = Dropped
  <2>1. a.verdict = "dropped"
    BY <1>3 DEF Dropped
  <2> QED BY <1>e, <2>1
<1>4. CASE a \in Answers(m) /\ q.stage \in {"auth", "route", "rest"}
  <2>1. /\ q.stage = "auth" => Answers(m) = {Answer(v, m.carried) : v \in {"ok", "no"}}
        /\ q.stage \in {"route", "rest"} =>
             Answers(m) = {Answer(v, m.carried) : v \in {"ok", "not implemented"}}
    BY <1>1 DEF Answers
  <2>2. PICK v \in {"ok", "no", "not implemented"} :
          a = Answer(v, m.carried) /\ (v = "no" => q.stage = "auth")
    BY <1>4, <2>1
  <2>3. a.verdict = v
    BY <2>2 DEF Answer
  <2> QED BY <1>4, <1>e, <2>2, <2>3
<1>5. CASE a \in Answers(m) /\ q.stage = "pre"
  <2>a. Answers(m) =
          {Answer("no", m.carried), Answer("not implemented", m.carried)} \cup
          {Answer("ok", c) : c \in
             IF m.carried = Absent THEN {Absent}
             ELSE {[m.carried EXCEPT !.val = x] : x \in Vals}}
    BY <1>1, <1>5 DEF Answers
  <2>b. m.carried = q.carried
    BY <1>1, <1>5
  <2>1. \E v, c :
          /\ v \in {"ok", "no", "not implemented"} /\ a = Answer(v, c)
          /\ \/ c = q.carried
             \/ q.carried # Absent /\ \E x \in Vals : c = [q.carried EXCEPT !.val = x]
    <3> DEFINE cs == IF q.carried = Absent THEN {Absent}
                     ELSE {[q.carried EXCEPT !.val = x] : x \in Vals}
    <3>1. \/ a = Answer("no", q.carried) \/ a = Answer("not implemented", q.carried)
          \/ \E c \in cs : a = Answer("ok", c)
      BY <1>5, <2>a, <2>b, Zenon
    <3>2. \A c \in cs :
            \/ c = q.carried
            \/ q.carried # Absent /\ \E x \in Vals : c = [q.carried EXCEPT !.val = x]
      <4>1. CASE q.carried = Absent
        BY <4>1, Zenon
      <4>2. CASE q.carried # Absent
        BY <4>2, Zenon
      <4> QED BY <4>1, <4>2
    <3> HIDE DEF cs
    <3> QED BY <3>1, <3>2
  <2>2. \A x \in Vals : q.carried # Absent =>
          /\ [q.carried EXCEPT !.val = x] \in Item
          /\ [q.carried EXCEPT !.val = x].owner = q.carried.owner
    BY <1>2 DEF Items, Item
  <2>3. PICK v, c :
          /\ v \in {"ok", "no", "not implemented"} /\ a = Answer(v, c)
          /\ c \in Items
          /\ q.carried \in Item => c \in Item /\ c.owner = q.carried.owner
    BY <1>2, <2>1, <2>2 DEF Items
  <2>4. a.verdict = v /\ a.carried = c
    BY <2>3 DEF Answer
  <2> QED BY <1>5, <1>e, <2>3, <2>4
<1>6. CASE a \in Answers(m) /\ q.stage = "db"
  <2>1. PICK v \in {"ok", "not implemented"}, c \in SUBSET Ids :
          a = Answer(v, c) /\ (v # "ok" => c = Ids)
    BY <1>1, <1>6 DEF Answers
  <2>2. a.verdict = v /\ a.carried = c
    BY <2>1 DEF Answer
  <2> QED BY <1>6, <1>e, <2>1, <2>2
<1>7. CASE a \in Answers(m) /\ q.stage = "filter"
  <2>1. PICK c \in SUBSET q.page : a = Answer("ok", c)
    BY <1>1, <1>7 DEF Answers
  <2>2. a.verdict = "ok" /\ a.carried = c
    BY <2>1 DEF Answer
  <2> QED BY <1>7, <1>e, <2>1, <2>2
<1>8. a \in Answers(m) \/ a = Dropped
  BY DEF m
<1> QED BY <1>3, <1>4, <1>5, <1>6, <1>7, <1>8 DEF Asking

(* ------------------------------- mailboxes ------------------------------- *)

\* Appending a message adds it to what lies at the plugin.
LEMMA PutAdds ==
    ASSUME NEW v \in PluginState, NEW m \in Messages, NEW w,
           w = [v EXCEPT !.box = Append(@, m)]
    PROVE  /\ w \in PluginState
           /\ w.alive = v.alive /\ w.serving = v.serving
           /\ w.box = Append(v.box, m)
           /\ Len(w.box) = Len(v.box) + 1
           /\ At(w) = At(v) \cup {m}
<1>1. v.box \in Seq(Messages) /\ Append(v.box, m) \in Seq(Messages)
  BY DEF PluginState
<1>2. w \in PluginState
  BY <1>1, Zenon DEF PluginState
<1>3. w.alive = v.alive /\ w.serving = v.serving /\ w.box = Append(v.box, m)
  BY DEF PluginState
<1>4. /\ Len(w.box) = Len(v.box) + 1
      /\ DOMAIN v.box = 1 .. Len(v.box) /\ DOMAIN w.box = 1 .. Len(v.box) + 1
      /\ Len(v.box) \in Nat
      /\ \A i \in 1 .. Len(v.box) : w.box[i] = v.box[i]
      /\ w.box[Len(v.box) + 1] = m
  BY <1>1, <1>3
<1>5. {w.box[i] : i \in DOMAIN w.box} = {v.box[i] : i \in DOMAIN v.box} \cup {m}
  BY <1>4
<1> QED BY <1>2, <1>3, <1>4, <1>5 DEF At

\* A plugin that took the first message out of its mailbox.
Taken(v, c) == [v EXCEPT !.serving = Head(v.box), !.box = Tail(@), !.call = c]

\* Taking a message moves it, and no more.
LEMMA TakeMoves ==
    ASSUME NEW v \in PluginState, v.box # <<>>, v.serving = None, NEW c \in Calls, NEW w,
           w = Taken(v, c)
    PROVE  /\ w \in PluginState
           /\ w.alive = v.alive
           /\ Len(w.box) = Len(v.box) - 1
           /\ w.serving = v.box[1] /\ 1 \in DOMAIN v.box
           /\ DOMAIN w.box = 1 .. Len(v.box) - 1
           /\ \A i \in DOMAIN w.box : i + 1 \in DOMAIN v.box /\ w.box[i] = v.box[i + 1]
           /\ At(w) \subseteq At(v) /\ At(v) \subseteq At(w) \cup {None}
<1> USE DEF Taken
<1>1. v.box \in Seq(Messages) /\ Tail(v.box) \in Seq(Messages) /\ Head(v.box) \in Messages
  BY DEF PluginState
<1>2. w \in PluginState
  BY <1>1, Zenon DEF PluginState
<1>3. w.alive = v.alive /\ w.serving = Head(v.box) /\ w.box = Tail(v.box)
  BY DEF PluginState
<1>4. /\ Len(v.box) \in Nat \ {0} /\ Len(w.box) = Len(v.box) - 1
      /\ DOMAIN v.box = 1 .. Len(v.box) /\ DOMAIN w.box = 1 .. Len(v.box) - 1
      /\ w.serving = v.box[1]
      /\ \A i \in 1 .. Len(v.box) - 1 : w.box[i] = v.box[i + 1]
  BY <1>1, <1>3
<1>5. 1 \in DOMAIN v.box
      /\ \A i \in DOMAIN w.box : i + 1 \in DOMAIN v.box /\ w.box[i] = v.box[i + 1]
  BY <1>4
<1>6. At(w) \subseteq At(v)
  BY <1>4, <1>5 DEF At
<1>7. \A i \in DOMAIN v.box : i = 1 \/ (i - 1 \in DOMAIN w.box /\ w.box[i - 1] = v.box[i])
  BY <1>4
<1>8. \A i \in DOMAIN v.box : v.box[i] \in At(w)
  BY <1>4, <1>7 DEF At
<1> QED BY <1>2, <1>3, <1>4, <1>5, <1>6, <1>8 DEF At

\* What lies at a plugin: nothing, news of a tick, a question, or a post.
LEMMA MailIs ==
    ASSUME NEW v \in PluginState, NEW m \in At(v)
    PROVE  /\ m \in Messages \cup {None}
           /\ IsQuestion(m) \/ IsPost(m) => m.req \in Requests /\ m.turn \in Nat
           /\ IsQuestion(m) <=> m # None /\ m.hook \notin Unanswered
           /\ m = None \/ m = Tidings \/ IsQuestion(m) \/ IsPost(m)
<1>1. m \in Messages \cup {None}
  BY DEF PluginState, At
<1>2. /\ None.hook = "none" /\ Tidings.hook = "tick"
  BY DEF None, Tidings
<1>3. CASE m = None \/ m = Tidings
  BY <1>1, <1>2, <1>3 DEF IsQuestion, IsPost, Asking, Unanswered
<1>4. CASE m # None /\ m # Tidings
  <2>1. m \in [hook : Asking \cup {"post"}, req : Requests, turn : Nat,
               carried : Items \cup SUBSET Ids]
    BY <1>1, <1>4 DEF Messages
  <2>2. m.hook \in Asking \cup {"post"} /\ m.req \in Requests /\ m.turn \in Nat
    BY <2>1
  <2> QED BY <1>1, <1>4, <2>2 DEF IsQuestion, IsPost, Asking, Unanswered
<1> QED BY <1>3, <1>4

\* Request r has nothing under way, and may go on as if it had not been there; a
\* request that sends posts keeps to those it has sent.
MayMove(r, qs, as, qs2, as2) ==
    /\ qs[r] \in RequestState /\ qs2[r] \in RequestState
    /\ \A x \in Requests \ {r} : qs2[x] = qs[x] /\ as2[x] = as[x]
    /\ ~(qs[r].pc = "wait" /\ as[r] = Empty)
    /\ qs[r].stage = "post" => qs2[r].stage = "post" /\ qs2[r].turn >= qs[r].turn

\* A plugin's mail is in order as long as the requests it is from say so.
LEMMA MailStays ==
    ASSUME NEW v, NEW p \in Plugins, NEW qs, NEW as, PluginFine(v, p, qs, as),
           NEW r \in Requests, NEW qs2, NEW as2, MayMove(r, qs, as, qs2, as2)
    PROVE  PluginFine(v, p, qs2, as2)
<1>2. \A m \in At(v) : IsQuestion(m) \/ IsPost(m) => m.req \in Requests /\ m.turn \in Nat
  BY MailIs DEF PluginFine
<1>3. \A m \in At(v) : IsQuestion(m) => QuestionFine(m, p, qs2[m.req], as2[m.req])
  <2> SUFFICES ASSUME NEW m \in At(v), IsQuestion(m)
               PROVE  QuestionFine(m, p, qs2[m.req], as2[m.req])
    OBVIOUS
  <2>1. QuestionFine(m, p, qs[m.req], as[m.req]) /\ m.req \in Requests
    BY <1>2 DEF PluginFine, MailFine
  <2>2. m.req # r
    BY <2>1 DEF QuestionFine, MayMove
  <2> QED BY <2>1, <2>2 DEF MayMove
<1>4. \A m \in At(v) : IsPost(m) => PostFine(m, p, qs2[m.req])
  <2> SUFFICES ASSUME NEW m \in At(v), IsPost(m) PROVE PostFine(m, p, qs2[m.req])
    OBVIOUS
  <2>1. PostFine(m, p, qs[m.req]) /\ m.req \in Requests /\ m.turn \in Nat
    BY <1>2 DEF PluginFine, MailFine
  <2>2. CASE m.req # r
    BY <2>1, <2>2 DEF MayMove
  <2>3. CASE m.req = r
    <3>1. qs[r].stage = "post" /\ qs2[r].stage = "post" /\ qs2[r].turn >= qs[r].turn
      BY <2>1, <2>3 DEF PostFine, MayMove
    <3>2. qs[r].turn \in Nat /\ qs2[r].turn \in Nat
      BY DEF RequestState, MayMove
    <3>3. m.turn \in 1 .. qs[r].turn - 1
      BY <2>1, <2>3 DEF PostFine
    <3>4. m.turn \in 1 .. qs2[r].turn - 1
      BY <2>1, <3>1, <3>2, <3>3
    <3> QED BY <2>1, <2>3, <3>1, <3>4 DEF PostFine
  <2> QED BY <2>2, <2>3
<1> QED BY <1>3, <1>4 DEF PluginFine, MailFine

\* A request is as it was while it neither moves nor hears, as long as its posts
\* stay where they are and a write by somebody else is noted.
LEMMA OthersStay ==
    ASSUME NEW r \in Requests, NEW q, NEW a, NEW h,
           NEW vs, NEW items, NEW others, NEW done,
           NEW vs2, NEW items2, NEW others2, NEW done2,
           RequestFine(r, q, a, h, vs, items, others, done),
           \A p \in Plugins : vs2[p].alive =>
               /\ vs[p].alive
               /\ \A m \in At(vs[p]) : IsPost(m) /\ m.req = r => m \in At(vs2[p]),
           r \in done2 <=> r \in done,
           q.op = "edit" /\ q.stage \in {"auth", "pre"} /\ r \notin others2
               => r \notin others /\ items2 = items
    PROVE  RequestFine(r, q, a, h, vs2, items2, others2, done2)
<1>1. /\ q \in RequestState /\ q.turn \in Nat
      /\ q.stage \in Asking \cup {"post"} => q.stage \in Hooks
  BY DEF RequestFine, RequestState, Asking, Hooks
<1>2. \A hook, n : n \in Nat /\ AskedBefore(hook, n, h, vs) => AskedBefore(hook, n, h, vs2)
  BY TurnFacts DEF AskedBefore
<1>3. q.turn + 1 \in Nat /\ Turns("auth") + 1 \in Nat /\ Turns("pre") + 1 \in Nat
  BY <1>1, TurnFacts DEF Hooks
<1>4. AskedFine(q, a, h, vs2)
  BY <1>1, <1>2, <1>3 DEF RequestFine, AskedFine
<1>5. ToldFine(q, h, r, vs2)
  <2>1. \A n \in 1 .. q.turn - 1 : PluginOf(n) \in Plugins
    BY <1>1, TurnFacts
  <2> QED BY <2>1 DEF RequestFine, ToldFine
<1>6. WrittenFine(q, h, r, done2)
  BY DEF RequestFine, WrittenFine
<1>7. OwnerFine(q, r, items2, others2)
  BY DEF RequestFine, OwnerFine
<1> QED BY <1>4, <1>5, <1>6, <1>7 DEF RequestFine

\* A step of one request, or one that hears an answer, is about that request.
LEMMA ARequestMoves ==
    ASSUME ItemInv, NEW r \in Requests, NEW s, NEW b,
           req' = [req EXCEPT ![r] = s],
           slot' = [slot EXCEPT ![r] = b],
           UNCHANGED <<plugin, inbox, core, said>>,
           store' \in [Ids -> Items],
           ~(req[r].pc = "wait" /\ slot[r] = Empty),
           req[r].stage = "post" => s.stage = "post" /\ s.turn >= req[r].turn,
           RequestFine(r, s, b, said[r], plugin, store', disturbed', written'),
           \A x \in Requests \ {r} :
               /\ x \in written' <=> x \in written
               /\ req[x].op = "edit" /\ req[x].stage \in {"auth", "pre"} /\ x \notin disturbed'
                  => x \notin disturbed /\ store' = store
    PROVE  ItemInv'
<1>1. /\ req' = [x \in Requests |-> req'[x]] /\ req'[r] = s
      /\ slot' = [x \in Requests |-> slot'[x]] /\ slot'[r] = b
      /\ \A x \in Requests \ {r} : req'[x] = req[x] /\ slot'[x] = slot[x]
  BY DEF ItemInv, Shapes
<1>2. Shapes' /\ CoreFine'
  BY <1>1 DEF ItemInv, Shapes, CoreFine
<1>3. ASSUME NEW p \in Plugins PROVE PluginFine(plugin'[p], p, req', slot')
  <2>1. PluginFine(plugin[p], p, req, slot) /\ req[r] \in RequestState /\ s \in RequestState
    BY DEF ItemInv, RequestFine
  <2>2. /\ req'[r] \in RequestState
        /\ req[r].stage = "post" => req'[r].stage = "post" /\ req'[r].turn >= req[r].turn
    BY <1>1, <2>1
  <2>3. \A x \in Requests \ {r} : req'[x] = req[x] /\ slot'[x] = slot[x]
    BY <1>1
  <2>4. MayMove(r, req, slot, req', slot')
    BY <2>1, <2>2, <2>3 DEF MayMove
  <2>5. PluginFine(plugin[p], p, req', slot')
    BY <2>1, <2>4, MailStays
  <2> QED BY <2>5
<1>4. ASSUME NEW x \in Requests
      PROVE  RequestFine(x, req'[x], slot'[x], said'[x], plugin', store', disturbed', written')
  <2>1. CASE x = r
    BY <1>1, <2>1
  <2>2. CASE x # r
    <3>1. RequestFine(x, req[x], slot[x], said[x], plugin, store, disturbed, written)
      BY DEF ItemInv
    <3>2. RequestFine(x, req[x], slot[x], said[x], plugin, store', disturbed', written')
      BY <2>2, <3>1, OthersStay
    <3> QED BY <1>1, <2>2, <3>2
  <2> QED BY <2>1, <2>2
<1> QED BY <1>2, <1>3, <1>4 DEF ItemInv

(* ------------------------ the filters of the clients --------------------- *)

\* A set of naturals has a least element: a claim about every number below a
\* bound is proved by the least one it fails for.
LEMMA LeastOf ==
    ASSUME NEW S, S \subseteq Nat, S # {}
    PROVE  \E n \in S : \A k \in S : n <= k
<1>1. \E n \in S : \A k \in S : <<k, n>> \notin OpToRel(<, Nat)
  BY NatLessThanWellFounded, WFMin, Zenon
<1>2. PICK n \in S : \A k \in S : <<k, n>> \notin OpToRel(<, Nat)
  BY <1>1
<1>3. \A k \in S : ~(k < n)
  BY <1>2 DEF OpToRel
<1>4. \A k \in S : n <= k
  BY <1>3
<1> QED BY <1>4

\* What is under a document are documents.
LEMMA UnderAreDocuments ==
    ASSUME NEW d \in Documents PROVE Under(d) \subseteq Documents
<1> SUFFICES ASSUME NEW b \in Under(d) PROVE b \in Documents
  OBVIOUS
<1>1. PICK e \in d.entries : /\ d.kind = "object" /\ e.value.kind = "array"
                             /\ b \in {e.value.values[i] : i \in DOMAIN e.value.values}
  BY DEF Under
<1>2. IsDocument(d)
  BY ListFilterAssumption
<1>3. e.value \in Documents
  BY <1>1, <1>2 DEF IsDocument, Scalar, List, Array
<1>4. IsDocument(e.value)
  BY <1>3, ListFilterAssumption
<1>5. e.value.values \in Seq(Documents)
  BY <1>1, <1>4 DEF IsDocument, Scalar, List, Object
<1> QED BY <1>1, <1>5


\* A node that the server accepts with so many combinators around it, when
\* `known` is what it makes of the nodes below.
Fine(node, depth, known) ==
    /\ depth <= MAX_DEPTH
    /\ node.kind = "object"
    /\ \A e \in node.entries :
         IF e.key \in Operators
           THEN /\ e.key \in ALLOWED_COMBINATORS
                /\ e.value.kind = "array"
                /\ e.value.values # <<>>
                /\ \A branch \in Branches(e.value) : known[<<branch, depth + 1>>] = "Ok"
           ELSE field_is_allowed(e.key) /\ validate_leaf_value(e.value)

\* It depends on the nodes of the next level only, and at the deepest on nothing.
LEMMA FineDependsOn ==
    ASSUME NEW d \in Documents, NEW n, NEW f, NEW g,
           n <= MAX_DEPTH => \A b \in Documents : f[<<b, n + 1>>] = g[<<b, n + 1>>]
    PROVE  Fine(d, n, f) <=> Fine(d, n, g)
<1>1. ASSUME n <= MAX_DEPTH, d.kind = "object", NEW e \in d.entries,
             e.key \in ALLOWED_COMBINATORS, e.value.kind = "array"
      PROVE  (\A b \in Branches(e.value) : f[<<b, n + 1>>] = "Ok")
             <=> (\A b \in Branches(e.value) : g[<<b, n + 1>>] = "Ok")
  <2>1. Branches(e.value) \subseteq Under(d)
    BY <1>1 DEF Under, Branches
  <2>2. Branches(e.value) \subseteq Documents
    BY <2>1, UnderAreDocuments
  <2>3. \A b \in Branches(e.value) : f[<<b, n + 1>>] = g[<<b, n + 1>>]
    BY <1>1, <2>2
  <2> QED BY <2>3
<1> QED BY <1>1 DEF Fine

\* The recursion of validate_node ends, so it is what its definition says.
LEMMA LevelByLevel ==
    \A n \in 0..MAX_DEPTH + 1, d \in Documents :
        validate_node[<<d, n>>] = "Ok" <=> Fine(d, n, validate_node)
<1> DEFINE L == MAX_DEPTH + 1
           Step(g, at) == IF Fine(at[1], at[2], g) THEN "Ok" ELSE "Err"
           Built(g, k) == g = [at \in Documents \X (L - k..L) |-> Step(g, at)]
           T == {k \in 0..L : ~\E g : Built(g, k)}
<1>1. MAX_DEPTH \in Nat /\ L \in Nat /\ L > MAX_DEPTH
  BY ListFilterAssumption
<1>2. T = {}
  <2> SUFFICES ASSUME T # {} PROVE FALSE
    OBVIOUS
  <2>1. T \subseteq Nat
    BY <1>1
  <2>2. PICK k \in T : \A j \in T : k <= j
    BY <2>1, LeastOf
  <2>3. k # 0
    <3> DEFINE g == [at \in Documents \X (L..L) |-> "Err"]
    <3>1. \A f, node : ~Fine(node, L, f)
      BY <1>1 DEF Fine
    <3>2. L - 0 = L /\ \A at \in Documents \X (L..L) : at[2] = L
      BY <1>1
    <3>3. \A at \in Documents \X (L..L) : Step(g, at) = "Err"
      BY <3>1, <3>2
    <3>4. Built(g, 0)
      BY <3>2, <3>3
    <3> QED BY <3>4
  <2>4. k \in Nat /\ k - 1 \in 0..L /\ k - 1 \notin T /\ L - k \in 0..MAX_DEPTH
    <3>1. k \in 0..L /\ \A j \in T : k <= j
      BY <2>2
    <3>2. k \in Nat /\ k - 1 \in 0..L /\ ~(k <= k - 1) /\ L - k \in 0..MAX_DEPTH
      BY <1>1, <2>3, <3>1
    <3> HIDE DEF T
    <3> QED BY <3>1, <3>2
  <2>5. PICK g : Built(g, k - 1)
    BY <2>4
  <2> DEFINE m == L - k
             h == [at \in Documents \X (m..L) |-> IF at[2] = m THEN Step(g, at) ELSE g[at]]
  <2>6. /\ m \in Nat /\ m + 1 = L - (k - 1) /\ m < L
        /\ \A n \in m..L : n = m \/ n \in m + 1..L
        /\ \A n \in m..L : n \in Nat /\ n + 1 # m
        /\ \A n \in m..L : n <= MAX_DEPTH => n + 1 \in m + 1..L /\ n + 1 \in m..L
    BY <1>1, <2>4
  <2> HIDE DEF L, m, Step
  <2>7. \A at \in Documents \X (m..L) : h[at] = Step(h, at)
    <3> SUFFICES ASSUME NEW at \in Documents \X (m..L) PROVE h[at] = Step(h, at)
      OBVIOUS
    <3>1. at = <<at[1], at[2]>> /\ at[1] \in Documents /\ at[2] \in m..L
      OBVIOUS
    <3>2. at[2] <= MAX_DEPTH =>
            \A b \in Documents : h[<<b, at[2] + 1>>] = g[<<b, at[2] + 1>>]
      BY <2>6, <3>1
    <3>3. Step(h, at) = Step(g, at)
      BY <3>1, <3>2, FineDependsOn DEF Step
    <3>4. h[at] = Step(g, at)
      <4>1. CASE at[2] = m
        BY <4>1
      <4>2. CASE at[2] # m
        <5>1. at \in Documents \X (L - (k - 1)..L)
          BY <2>6, <3>1, <4>2
        <5>2. g[at] = Step(g, at)
          BY <2>5, <5>1
        <5> QED BY <4>2, <5>2
      <4> QED BY <4>1, <4>2
    <3> QED BY <3>3, <3>4
  <2>8. h = [at \in Documents \X (m..L) |-> Step(h, at)]
    BY <2>7
  <2>9. Built(h, k)
    BY <2>8 DEF m
  <2> QED BY <2>2, <2>9
<1>3. \E g : Built(g, L)
  <2>1. L \in 0..L
    BY <1>1
  <2> HIDE DEF Built
  <2> QED BY <1>2, <2>1
<1>4. validate_node = CHOOSE g : Built(g, L)
  <2>1. L - L = 0
    BY <1>1
  <2>2. validate_node = CHOOSE g : g = [at \in Documents \X (0..L) |-> Step(g, at)]
    BY DEF validate_node, Fine
  <2> QED BY <2>1, <2>2
<1>5. Built(validate_node, L)
  <2> HIDE DEF Built
  <2> QED BY <1>3, <1>4
<1>6. L - L = 0
  BY <1>1
<1>7. validate_node = [at \in Documents \X (0..L) |-> Step(validate_node, at)]
  BY <1>5, <1>6
<1> HIDE DEF L, Step
<1>8. ASSUME NEW n \in 0..L, NEW d \in Documents
      PROVE  validate_node[<<d, n>>] = Step(validate_node, <<d, n>>)
  <2>1. <<d, n>> \in Documents \X (0..L)
    OBVIOUS
  <2> QED BY <1>7, <2>1
<1> QED BY <1>8 DEF L, Step

\* The levels of a filter, one under the other.
LEMMA LevelsOf ==
    ASSUME NEW f
    PROVE  \A n \in 0..MAX_DEPTH :
             Inside(f)[n] = IF n = 0 THEN {f}
                            ELSE UNION {Under(node) : node \in Inside(f)[n - 1]}
<1> DEFINE L == MAX_DEPTH
           Step(g, n) == IF n = 0 THEN {f} ELSE UNION {Under(node) : node \in g[n - 1]}
           Built(g, k) == g = [n \in 0..k |-> Step(g, n)]
           T == {k \in 0..L : ~\E g : Built(g, k)}
<1>1. L \in Nat
  BY ListFilterAssumption
<1> HIDE DEF L
<1>2. T = {}
  <2> SUFFICES ASSUME T # {} PROVE FALSE
    OBVIOUS
  <2>1. T \subseteq Nat
    BY <1>1
  <2>2. PICK k \in T : \A j \in T : k <= j
    BY <2>1, LeastOf
  <2>3. k # 0
    <3> DEFINE g == [n \in 0..0 |-> {f}]
    <3>1. Built(g, 0)
      <4>1. \A n \in 0..0 : n = 0
        OBVIOUS
      <4> QED BY <4>1
    <3> QED BY <3>1
  <2>4. k \in Nat /\ k - 1 \in 0..L /\ k - 1 \notin T
    <3>1. k \in 0..L /\ \A j \in T : k <= j
      BY <2>2
    <3>2. k \in Nat /\ k - 1 \in 0..L /\ ~(k <= k - 1)
      BY <1>1, <2>3, <3>1
    <3> HIDE DEF T
    <3> QED BY <3>1, <3>2
  <2>5. PICK g : Built(g, k - 1)
    BY <2>4
  <2> DEFINE h == [n \in 0..k |-> IF n = k THEN Step(g, n) ELSE g[n]]
  <2>6. \A n \in 0..k : h[n] = Step(h, n)
    <3> SUFFICES ASSUME NEW n \in 0..k PROVE h[n] = Step(h, n)
      OBVIOUS
    <3>1. n # 0 => h[n - 1] = g[n - 1]
      BY <2>4
    <3>2. h[n] = Step(g, n)
      <4>1. CASE n = k
        BY <4>1
      <4>2. CASE n # k
        <5>1. n \in 0..k - 1 /\ h[n] = g[n]
          BY <2>4, <4>2
        <5> QED BY <2>5, <5>1
      <4> QED BY <4>1, <4>2
    <3> QED BY <3>1, <3>2
  <2>7. Built(h, k)
    <3> HIDE DEF Step
    <3> QED BY <2>6
  <2> QED BY <2>2, <2>7
<1>3. \E g : Built(g, L)
  <2>1. L \in 0..L
    BY <1>1
  <2> HIDE DEF Built
  <2> QED BY <1>2, <2>1
<1>4. Inside(f) = CHOOSE g : Built(g, L)
  BY DEF Inside, L
<1>5. Built(Inside(f), L)
  <2> HIDE DEF Built
  <2> QED BY <1>3, <1>4
<1> QED BY <1>5 DEF L

\* A value that a name is compared with is accepted unless it is harmful.
LEMMA LeafValuesAre ==
    ASSUME NEW v \in Documents
    PROVE  validate_leaf_value(v) <=>
             \/ v = Scalar
             \/ /\ v.kind = "object" /\ v.entries # {}
                /\ \A e \in v.entries :
                     /\ e.key \in ALLOWED_LEAF_OPS \cup ALLOWED_SET_OPS
                     /\ e.key \in ALLOWED_LEAF_OPS => e.value = Scalar
                     /\ e.key \in ALLOWED_SET_OPS =>
                          e.value \in {List(n, TRUE) : n \in 0..MAX_SET_OPERANDS}
<1>1. \A d \in Documents : d.kind = "scalar" <=> d = Scalar
  <2> SUFFICES ASSUME NEW d \in Documents PROVE d.kind = "scalar" <=> d = Scalar
    OBVIOUS
  <2>1. IsDocument(d)
    BY ListFilterAssumption
  <2> QED BY <2>1 DEF IsDocument, Scalar
<1>2. \A d \in Documents :
        d.kind = "list" /\ d.size <= MAX_SET_OPERANDS /\ d.plain
        <=> d \in {List(n, TRUE) : n \in 0..MAX_SET_OPERANDS}
  <2> SUFFICES ASSUME NEW d \in Documents
               PROVE  d.kind = "list" /\ d.size <= MAX_SET_OPERANDS /\ d.plain
                      <=> d \in {List(n, TRUE) : n \in 0..MAX_SET_OPERANDS}
    OBVIOUS
  <2>1. IsDocument(d) /\ MAX_SET_OPERANDS \in Nat
    BY ListFilterAssumption
  <2>2. ASSUME d.kind = "list", d.size <= MAX_SET_OPERANDS, d.plain
        PROVE  d \in {List(n, TRUE) : n \in 0..MAX_SET_OPERANDS}
    <3>1. d = List(d.size, d.plain) /\ d.size \in Nat /\ d.plain \in BOOLEAN
      <4>1. /\ d # Scalar
            /\ d.kind # "array" /\ d.kind # "object"
        BY <2>2 DEF Scalar
      <4> QED BY <2>1, <4>1, Zenon DEF IsDocument
    <3>2. d.plain = TRUE
      BY <2>2, <3>1
    <3>3. d.size \in 0..MAX_SET_OPERANDS
      BY <2>1, <2>2, <3>1
    <3>4. d = List(d.size, TRUE)
      BY <3>1, <3>2
    <3> QED BY <3>3, <3>4
  <2>3. ASSUME NEW n \in 0..MAX_SET_OPERANDS, d = List(n, TRUE)
        PROVE  d.kind = "list" /\ d.size <= MAX_SET_OPERANDS /\ d.plain
    <3>1. d.kind = "list" /\ d.size = n /\ d.plain = TRUE
      BY <2>3 DEF List
    <3> QED BY <2>1, <3>1
  <2> QED BY <2>2, <2>3
<1>3. v.kind = "object" => \A e \in v.entries : e.value \in Documents
  <2>1. IsDocument(v)
    BY ListFilterAssumption
  <2> QED BY <2>1 DEF IsDocument, Scalar, List, Array
<1>4. ALLOWED_SET_OPS \cap ALLOWED_LEAF_OPS = {}
  BY DEF ALLOWED_SET_OPS, ALLOWED_LEAF_OPS
<1>5. v.kind = "object" => \A e \in v.entries :
        /\ e.value.kind = "scalar" <=> e.value = Scalar
        /\ e.value.kind = "list" /\ e.value.size <= MAX_SET_OPERANDS /\ e.value.plain
           <=> e.value \in {List(n, TRUE) : n \in 0..MAX_SET_OPERANDS}
  BY <1>1, <1>2, <1>3
<1>6. v.kind = "scalar" <=> v = Scalar
  BY <1>1
<1> DEFINE lists == {List(n, TRUE) : n \in 0..MAX_SET_OPERANDS}
<1> HIDE DEF lists
<1>7. validate_leaf_value(v) <=>
        \/ v = Scalar
        \/ /\ v.kind = "object" /\ v.entries # {}
           /\ \A e \in v.entries :
                \/ e.key \in ALLOWED_SET_OPS /\ e.value \in lists
                \/ e.key \in ALLOWED_LEAF_OPS /\ e.value = Scalar
  BY <1>5, <1>6 DEF validate_leaf_value, lists
<1> QED BY <1>4, <1>7 DEF lists

\* A node is accepted when it has nothing harmful in itself and what is under it
\* is accepted.
LEMMA NodesAre ==
    ASSUME NEW d \in Documents, NEW n \in 0..MAX_DEPTH
    PROVE  validate_node[<<d, n>>] = "Ok" <=>
             ~Harmful(d, n) /\ \A b \in Under(d) : validate_node[<<b, n + 1>>] = "Ok"
<1> DEFINE V(b) == validate_node[<<b, n + 1>>]
           Good(e) == IF e.key \in Operators
                        THEN /\ e.key \in ALLOWED_COMBINATORS
                             /\ e.value.kind = "array"
                             /\ e.value.values # <<>>
                             /\ \A b \in Branches(e.value) : V(b) = "Ok"
                        ELSE field_is_allowed(e.key) /\ validate_leaf_value(e.value)
<1>1. n \in 0..MAX_DEPTH + 1 /\ n + 1 \in 0..MAX_DEPTH + 1 /\ n <= MAX_DEPTH /\ MAX_DEPTH \in Nat
  BY ListFilterAssumption
<1>2. validate_node[<<d, n>>] = "Ok" <=> d.kind = "object" /\ \A e \in d.entries : Good(e)
  <2>1. validate_node[<<d, n>>] = "Ok" <=> Fine(d, n, validate_node)
    BY <1>1, LevelByLevel
  <2> QED BY <1>1, <2>1 DEF Fine
<1>3. n = MAX_DEPTH => \A b \in Documents : V(b) # "Ok"
  <2> SUFFICES ASSUME n = MAX_DEPTH, NEW b \in Documents PROVE V(b) # "Ok"
    OBVIOUS
  <2>1. V(b) = "Ok" <=> Fine(b, n + 1, validate_node)
    BY <1>1, LevelByLevel
  <2>2. ~(n + 1 <= MAX_DEPTH)
    BY <1>1
  <2> QED BY <2>1, <2>2 DEF Fine
<1> HIDE DEF V
<1>4. CASE d.kind # "object"
  BY <1>2, <1>4 DEF Harmful
<1>5. CASE d.kind = "object"
  <2>1. \A e \in d.entries : e.value \in Documents
    <3>1. IsDocument(d)
      BY ListFilterAssumption
    <3> QED BY <1>5, <3>1 DEF IsDocument, Scalar, List, Array
  <2> DEFINE Below(e) == e.key \in ALLOWED_COMBINATORS /\ e.value.kind = "array"
                         => \A b \in Branches(e.value) : V(b) = "Ok"
             lists == {List(k, TRUE) : k \in 0..MAX_SET_OPERANDS}
             BadValue(v) ==
               /\ v # Scalar
               /\ \/ ~(v.kind = "object" /\ v.entries # {})
                  \/ \E x \in v.entries : x.key \notin ALLOWED_LEAF_OPS \cup ALLOWED_SET_OPS
                  \/ \E x \in v.entries : x.key \in ALLOWED_LEAF_OPS /\ x.value # Scalar
                  \/ \E x \in v.entries : x.key \in ALLOWED_SET_OPS /\ x.value \notin lists
             Bad(e) ==
               \/ e.key \in Credentials \cup {""}
               \/ e.key \in Operators \ ALLOWED_COMBINATORS
               \/ e.key \in ALLOWED_COMBINATORS /\
                    (e.value.kind # "array" \/ e.value.values = <<>> \/ n = MAX_DEPTH)
               \/ e.key \notin Operators \cup Credentials \cup {""} /\ BadValue(e.value)
  <2>2. (\A b \in Under(d) : V(b) = "Ok") <=> \A e \in d.entries : Below(e)
    BY <1>5 DEF Under, Branches
  <2>3. Harmful(d, n) <=> \E e \in d.entries : Bad(e)
    <3> HIDE DEF lists
    <3>1. \A v : /\ {e.value : e \in {x \in v.entries : x.key \in ALLOWED_LEAF_OPS}} \ {Scalar} # {}
                     <=> \E x \in v.entries : x.key \in ALLOWED_LEAF_OPS /\ x.value # Scalar
                 /\ {e.value : e \in {x \in v.entries : x.key \in ALLOWED_SET_OPS}} \ lists # {}
                     <=> \E x \in v.entries : x.key \in ALLOWED_SET_OPS /\ x.value \notin lists
      OBVIOUS
    <3>2. Harmful(d, n) <=>
            \E e \in d.entries :
              \/ e.key \in Credentials \cup {""}
              \/ e.key \in Operators \ ALLOWED_COMBINATORS
              \/ e.key \in ALLOWED_COMBINATORS /\
                   (e.value.kind # "array" \/ e.value.values = <<>> \/ n = MAX_DEPTH)
              \/ /\ e.key \notin Operators \cup Credentials \cup {""}
                 /\ e.value # Scalar
                 /\ \/ ~(e.value.kind = "object" /\ e.value.entries # {})
                    \/ \E x \in e.value.entries : x.key \notin ALLOWED_LEAF_OPS \cup ALLOWED_SET_OPS
                    \/ {x.value : x \in {y \in e.value.entries : y.key \in ALLOWED_LEAF_OPS}}
                         \ {Scalar} # {}
                    \/ {x.value : x \in {y \in e.value.entries : y.key \in ALLOWED_SET_OPS}}
                         \ lists # {}
      BY <1>5, Zenon DEF Harmful, lists
    <3> QED BY <3>1, <3>2
  <2>4. ASSUME NEW e \in d.entries PROVE Good(e) <=> ~Bad(e) /\ Below(e)
    <3> DEFINE key == e.key  v == e.value
    <3>1. validate_leaf_value(v) <=>
             \/ v = Scalar
             \/ /\ v.kind = "object" /\ v.entries # {}
                /\ \A x \in v.entries :
                     /\ x.key \in ALLOWED_LEAF_OPS \cup ALLOWED_SET_OPS
                     /\ x.key \in ALLOWED_LEAF_OPS => x.value = Scalar
                     /\ x.key \in ALLOWED_SET_OPS => x.value \in lists
      BY <2>1, LeafValuesAre
    <3>2. /\ ALLOWED_COMBINATORS \subseteq Operators
          /\ Operators \cap (Credentials \cup {""}) = {}
      BY DEF ALLOWED_COMBINATORS, ALLOWED_LEAF_OPS, ALLOWED_SET_OPS, Operators, Credentials
    <3> HIDE DEF lists
    <3>3. CASE key \notin Operators
      BY <3>1, <3>2, <3>3 DEF field_is_allowed
    <3>4. CASE key \in Operators /\ n # MAX_DEPTH
      BY <3>2, <3>4
    <3>5. CASE key \in Operators /\ n = MAX_DEPTH
      <4>1. v.kind = "array" /\ v.values # <<>> => \E b \in Branches(v) : b \in Documents
        <5> SUFFICES ASSUME v.kind = "array", v.values # <<>>
                     PROVE  \E b \in Branches(v) : b \in Documents
          OBVIOUS
        <5>1. IsDocument(v)
          BY <2>1, ListFilterAssumption
        <5>2. v.values \in Seq(Documents)
          BY <5>1 DEF IsDocument, Scalar, List, Object
        <5>3. 1 \in DOMAIN v.values /\ v.values[1] \in Documents
          BY <5>2
        <5> QED BY <5>3 DEF Branches
      <4> QED BY <1>3, <3>2, <3>5, <4>1
    <3> QED BY <3>3, <3>4, <3>5
  <2> HIDE DEF Good, Bad, Below
  <2> QED BY <1>2, <1>5, <2>2, <2>3, <2>4 DEF V
<1> QED BY <1>4, <1>5

\* The server accepts a filter exactly when nothing in it is harmful, however
\* deep it is.
LEMMA FiltersAreChecked ==
    ASSUME NEW f \in Documents \cup {Blank}
    PROVE  validate_client_filter(f) <=> ~Forbidden(f)
<1> DEFINE L == MAX_DEPTH  V(n) == {d \in Documents : validate_node[<<d, n>>] = "Ok"}  I == Inside(f)
<1> SUFFICES ASSUME f \notin {Scalar, Blank}
             PROVE  validate_client_filter(f) <=> ~Forbidden(f)
  BY DEF validate_client_filter, Forbidden
<1>1. L \in Nat
  BY ListFilterAssumption
<1>2. \A n \in 0..L : I[n] = IF n = 0 THEN {f} ELSE UNION {Under(node) : node \in I[n - 1]}
  BY LevelsOf
<1>3. \A n \in 0..L, d \in Documents :
        d \in V(n) <=> ~Harmful(d, n) /\ Under(d) \subseteq V(n + 1)
  BY NodesAre, UnderAreDocuments
<1>4. \A n : V(n) \subseteq Documents
  OBVIOUS
<1> HIDE DEF L, V, I
<1>5. ASSUME f \in V(0) PROVE \A n \in 0..L : I[n] \subseteq V(n)
  <2> DEFINE T == {n \in 0..L : ~(I[n] \subseteq V(n))}
  <2> SUFFICES ASSUME T # {} PROVE FALSE
    OBVIOUS
  <2>1. T \subseteq Nat
    BY <1>1
  <2>2. PICK n \in T : \A k \in T : n <= k
    BY <2>1, LeastOf
  <2>3. n # 0
    BY <1>1, <1>2, <1>5, <2>2
  <2>4. n \in 0..L /\ n - 1 \in 0..L /\ (n - 1) + 1 = n /\ ~(n <= n - 1)
    BY <1>1, <2>1, <2>2, <2>3
  <2>5. I[n - 1] \subseteq V(n - 1)
    BY <2>2, <2>4
  <2>6. I[n] = UNION {Under(node) : node \in I[n - 1]}
    BY <1>2, <2>3, <2>4
  <2>7. \A d \in I[n - 1] : Under(d) \subseteq V(n)
    BY <1>3, <1>4, <2>4, <2>5
  <2>8. I[n] \subseteq V(n)
    BY <2>6, <2>7
  <2> QED BY <2>2, <2>8
<1>6. \A n \in 0..L : I[n] \subseteq Documents
  <2> DEFINE T == {n \in 0..L : ~(I[n] \subseteq Documents)}
  <2> SUFFICES ASSUME T # {} PROVE FALSE
    OBVIOUS
  <2>1. T \subseteq Nat
    BY <1>1
  <2>2. PICK n \in T : \A k \in T : n <= k
    BY <2>1, LeastOf
  <2>3. n # 0
    BY <1>1, <1>2, <2>2
  <2>4. n \in 0..L /\ n - 1 \in 0..L /\ ~(n <= n - 1)
    BY <1>1, <2>1, <2>2, <2>3
  <2>5. I[n - 1] \subseteq Documents
    BY <2>2, <2>4
  <2>6. I[n] = UNION {Under(node) : node \in I[n - 1]}
    BY <1>2, <2>3, <2>4
  <2>7. \A d \in I[n - 1] : Under(d) \subseteq Documents
    BY <2>5, UnderAreDocuments
  <2>8. I[n] \subseteq Documents
    BY <2>6, <2>7
  <2> QED BY <2>2, <2>8
<1>7. ASSUME \A n \in 0..L : \A d \in I[n] : ~Harmful(d, n)
      PROVE  f \in V(0)
  <2> DEFINE T == {k \in 0..L : ~(I[L - k] \subseteq V(L - k))}
  <2>1. T = {}
    <3> SUFFICES ASSUME T # {} PROVE FALSE
      OBVIOUS
    <3>1. T \subseteq Nat
      BY <1>1
    <3>2. PICK k \in T : \A j \in T : k <= j
      BY <3>1, LeastOf
    <3>3. PICK d \in I[L - k] : d \notin V(L - k)
      BY <3>2
    <3>4. k \in 0..L /\ L - k \in 0..L
      BY <1>1, <3>2
    <3>5. d \in Documents /\ ~Harmful(d, L - k)
      BY <1>6, <1>7, <3>3, <3>4
    <3>6. PICK b \in Under(d) : b \notin V((L - k) + 1)
      BY <1>3, <3>3, <3>4, <3>5
    <3>7. CASE k = 0
      <4>1. L - k = L
        BY <1>1, <3>7
      <4>2. PICK e \in d.entries : e.key \in ALLOWED_COMBINATORS /\ d.kind = "object"
        BY <3>6 DEF Under
      <4>3. Harmful(d, MAX_DEPTH)
        BY <4>2 DEF Harmful
      <4> QED BY <3>5, <4>1, <4>3 DEF L
    <3>8. CASE k # 0
      <4>1. k - 1 \in 0..L /\ L - (k - 1) = (L - k) + 1 /\ ~(k <= k - 1)
            /\ (L - k) + 1 \in 0..L /\ (L - k) + 1 # 0 /\ ((L - k) + 1) - 1 = L - k
        BY <1>1, <3>4, <3>8
      <4>2. I[(L - k) + 1] \subseteq V((L - k) + 1)
        BY <3>2, <4>1
      <4>3. I[(L - k) + 1] = UNION {Under(node) : node \in I[L - k]}
        <5> DEFINE m == (L - k) + 1
        <5>1. m \in 0..L /\ m # 0 /\ m - 1 = L - k
          BY <4>1
        <5> HIDE DEF m
        <5>2. I[m] = UNION {Under(node) : node \in I[m - 1]}
          BY <1>2, <5>1
        <5> QED BY <5>1, <5>2 DEF m
      <4>4. b \in I[(L - k) + 1]
        BY <3>3, <3>6, <4>3
      <4> QED BY <3>6, <4>2, <4>4
    <3> QED BY <3>7, <3>8
  <2>2. L \in 0..L /\ L - L = 0 /\ 0 \in 0..L
    BY <1>1
  <2>3. I[0] \subseteq V(0)
    BY <2>1, <2>2
  <2> QED BY <1>2, <2>2, <2>3
<1>8. f \in V(0) => \A n \in 0..L : \A d \in I[n] : ~Harmful(d, n)
  BY <1>3, <1>5, <1>6
<1>9. f \notin {Scalar, Blank} => (f \in V(0) <=> ~Forbidden(f))
  BY <1>7, <1>8 DEF Forbidden, I, L
<1> QED BY <1>9 DEF validate_client_filter, Forbidden, V

(* ---------------------------- a request moves ---------------------------- *)

\* Which operations go through which stages.
LEMMA StagesAre ==
    /\ \A op : StagesOf(op) \subseteq Hooks \ {"tick"}
    /\ \A op : "auth" \in StagesOf(op) => op \in {"edit", "del", "unknown"}
    /\ \A op : "pre" \in StagesOf(op) => op \in {"edit", "del"}
    /\ \A op : "post" \in StagesOf(op) => op \in {"edit", "del"}
    /\ \A op : "db" \in StagesOf(op) => op = "query"
    /\ \A op : "route" \in StagesOf(op) => op = "route"
    /\ \A op : "rest" \in StagesOf(op) => op \in {"post_route", "rest"}
    /\ \A op : "filter" \in StagesOf(op) => op \in {"list", "query"}
    /\ StagesOf("edit") = {"auth", "pre", "post"} /\ StagesOf("del") = {"auth", "pre", "post"}
    /\ StagesOf("unknown") = {"auth"} /\ StagesOf("list") = {"filter"}
    /\ StagesOf("query") = {"db", "filter"} /\ StagesOf("route") = {"route"}
    /\ StagesOf("post_route") = {"rest"} /\ StagesOf("rest") = {"rest"}
BY DEF StagesOf, Hooks

\* A request that was never asked about anything, and begins: it is refused at once.
LEMMA BeginsRefused ==
    ASSUME NEW r \in Requests, NEW s \in RequestState, NEW b,
           NEW vs, NEW items, NEW others, NEW done, r \notin done,
           s.stage = "none", s.pc = "done", s.page = {},
           s.op = "list" => s.outcome = 400,
           s.op = "query" => s.forbidden
    PROVE  RequestFine(r, s, b, NothingSaid, vs, items, others, done)
<1>1. /\ NothingSaid.asked = {} /\ NothingSaid.veto = FALSE
      /\ NothingSaid.served = 0 /\ NothingSaid.left = <<>>
      /\ NothingSaid.shown = <<>>
  BY DEF NothingSaid
<1> DEFINE h == NothingSaid
<1>2. PhaseFine(s, b, h, r)
  BY DEF PhaseFine, Told
<1> HIDE DEF h
<1>3. AskedFine(s, b, h, vs)
  BY DEF AskedFine, Told, Asking
<1>4. VetoFine(s, b, h) /\ LeftFine(s, b, h) /\ WrittenFine(s, h, r, done)
  BY <1>1 DEF VetoFine, LeftFine, WrittenFine, h
<1>5. ToldFine(s, h, r, vs) /\ OwnerFine(s, r, items, others)
  BY DEF ToldFine, OwnerFine
<1> QED BY <1>1, <1>2, <1>3, <1>4, <1>5 DEF RequestFine, h

\* The stage in which an operation begins.
First(op) ==
    CASE op \in {"edit", "del", "unknown"} -> "auth"
      [] op = "list" -> "filter"
      [] op = "query" -> "db"
      [] op = "route" -> "route"
      [] OTHER -> "rest"

\* A request that begins with the first turn of its first stage.
LEMMA BeginsStage ==
    ASSUME NEW r \in Requests, NEW q, NEW s, NEW b,
           NEW vs, NEW items, NEW others, NEW done, r \notin done,
           q.op \in Ops \ {"refused"}, Moved(q, First(q.op), 1, s),
           q.op = "list" => q.page # {},
           q.op = "query" => ~q.forbidden,
           q.op = "edit" => q.id \in Ids /\ q.carried \in Item /\
               (items[q.id] # Absent => q.carried.owner = items[q.id].owner)
    PROVE  RequestFine(r, s, b, NothingSaid, vs, items, others, done)
<1>1. /\ NothingSaid.asked = {} /\ NothingSaid.veto = FALSE
      /\ NothingSaid.served = 0 /\ NothingSaid.left = <<>>
      /\ NothingSaid.shown = <<>>
  BY DEF NothingSaid
<1> DEFINE h == NothingSaid
<1>2. /\ First(q.op) \in StagesOf(q.op)
      /\ First(q.op) \in {"auth", "filter", "db", "route", "rest"}
      /\ q.op = "list" <=> First(q.op) = "filter"
      /\ q.op = "query" => First(q.op) = "db"
  BY StagesAre DEF First, Ops
<1>3. Turns(First(q.op)) \in Nat
  BY <1>2, TurnFacts DEF Hooks
<1>4. /\ s.op = q.op /\ s.stage = First(q.op) /\ s.turn = 1 /\ s.pc \in {"send", "done"}
      /\ s \in RequestState /\ s.carried = q.carried /\ s.id = q.id /\ s.page = q.page
      /\ s.forbidden = q.forbidden
      /\ s.pc = "done" => s.stage \in Last /\ 1 > Turns(s.stage) /\ s.outcome = Outcome(q)
  BY DEF Moved
<1>5. q.op = "list" => Outcome(q) = 200
  BY DEF Outcome
<1> HIDE DEF h
<1>6. PhaseFine(s, b, h, r)
  <2>1. s.stage \in StagesOf(s.op) /\ s.stage # "none" /\ s.pc \notin {"idle", "wait"}
    BY <1>2, <1>4
  <2>2. 1 \in 1 .. Turns(s.stage) + 1
    BY <1>3, <1>4
  <2>3. s.pc = "done" => s.stage # "db"
    BY <1>4 DEF Last
  <2>4. s.pc = "done" /\ s.stage \in {"rest", "post"} => Over(s)
    BY <1>4 DEF Over
  <2>5. s.op = "list" /\ s.pc = "done" => s.outcome = (IF s.page = {} THEN 400 ELSE 200)
    BY <1>4, <1>5
  <2> QED BY <1>4, <2>1, <2>2, <2>3, <2>4, <2>5 DEF PhaseFine, Told
<1>7. AskedFine(s, b, h, vs)
  BY <1>2, <1>4 DEF AskedFine, AskedBefore, Told
<1>8. VetoFine(s, b, h) /\ LeftFine(s, b, h) /\ WrittenFine(s, h, r, done)
  BY <1>1, <1>2, <1>4 DEF VetoFine, LeftFine, WrittenFine, h
<1>9. ToldFine(s, h, r, vs) /\ OwnerFine(s, r, items, others)
  BY <1>2, <1>4 DEF ToldFine, OwnerFine
<1> QED BY <1>1, <1>4, <1>6, <1>7, <1>8, <1>9 DEF RequestFine, h

\* q with what it carries, its page and its filters replaced.
Patched(q, s, carried, page, filters) ==
    /\ s \in RequestState
    /\ s.carried = carried /\ s.page = page /\ s.filters = filters
    /\ s.op = q.op /\ s.id = q.id /\ s.forbidden = q.forbidden
    /\ s.stage = q.stage /\ s.turn = q.turn /\ s.lost = q.lost

\* The records that a request moves on from once it has heard an answer.
LEMMA Patches ==
    ASSUME NEW q \in RequestState
    PROVE  /\ Patched(q, q, q.carried, q.page, q.filters)
           /\ \A c \in Items :
                Patched(q, [q EXCEPT !.carried = c], c, q.page, q.filters)
           /\ \A c \in SUBSET Ids :
                Patched(q, [q EXCEPT !.page = c], q.carried, c, q.filters)
           /\ \A c \in SUBSET SUBSET Ids :
                Patched(q, [q EXCEPT !.filters = c], q.carried, q.page, c)
           /\ Patched(q, [q EXCEPT !.outcome = 200], q.carried, q.page, q.filters)
<1>1. ASSUME NEW c \in Items
      PROVE  Patched(q, [q EXCEPT !.carried = c], c, q.page, q.filters)
  <2>1. [q EXCEPT !.carried = c] \in RequestState
    BY Zenon DEF RequestState
  <2> QED BY <2>1 DEF Patched, RequestState
<1>2. ASSUME NEW c \in SUBSET Ids
      PROVE  Patched(q, [q EXCEPT !.page = c], q.carried, c, q.filters)
  <2>1. [q EXCEPT !.page = c] \in RequestState
    BY Zenon DEF RequestState
  <2> QED BY <2>1 DEF Patched, RequestState
<1>3. ASSUME NEW c \in SUBSET SUBSET Ids
      PROVE  Patched(q, [q EXCEPT !.filters = c], q.carried, q.page, c)
  <2>1. [q EXCEPT !.filters = c] \in RequestState
    BY Zenon DEF RequestState
  <2> QED BY <2>1 DEF Patched, RequestState
<1>4. Patched(q, [q EXCEPT !.outcome = 200], q.carried, q.page, q.filters)
  <2>1. 200 \in Outcomes
    BY DEF Outcomes
  <2>2. [q EXCEPT !.outcome = 200] \in RequestState
    BY <2>1, Zenon DEF RequestState
  <2> QED BY <2>2 DEF Patched, RequestState
<1>5. Patched(q, q, q.carried, q.page, q.filters)
  BY DEF Patched
<1> QED BY <1>1, <1>2, <1>3, <1>4, <1>5

\* A request goes on to its next turn: everyone whose turn was over was asked,
\* nobody refused it, and it holds what the answer it heard made of it.
LEMMA GoesOn ==
    ASSUME NEW r \in Requests, NEW q, NEW a, NEW h, NEW s, NEW b,
           NEW vs, NEW items, NEW others, NEW done,
           RequestFine(r, q, a, h, vs, items, others, done),
           q.stage \in Asking, q.pc \in {"send", "wait"}, q.turn <= Turns(q.stage),
           AskedBefore(q.stage, q.turn + 1, h, vs),
           h.veto = FALSE, h.served = 0,
           NEW q2, Moved(q2, q.stage, q.turn + 1, s),
           Patched(q, q2, HeldNow(q, a), PageNow(q, a), FiltersNow(q, a)),
           q.op = "edit" => HeldNow(q, a) \in Item /\ HeldNow(q, a).owner = q.carried.owner
    PROVE  RequestFine(r, s, b, h, vs, items, others, done)
<1>1. /\ s.op = q.op /\ s.stage = q.stage /\ s.turn = q.turn + 1 /\ s.pc \in {"send", "done"}
      /\ s \in RequestState /\ s.carried = q2.carried /\ s.id = q.id /\ s.page = q2.page
      /\ s.filters = q2.filters /\ s.forbidden = q.forbidden /\ s.lost = q.lost
      /\ s.pc = "done" => s.stage \in Last /\ q.turn + 1 > Turns(s.stage) /\ s.outcome = Outcome(q2)
      /\ s.carried = HeldNow(q, a) /\ s.page = PageNow(q, a) /\ s.filters = FiltersNow(q, a)
  BY DEF Moved, Patched
<1>2. /\ q \in RequestState /\ PhaseFine(q, a, h, r) /\ AskedFine(q, a, h, vs)
      /\ LeftFine(q, a, h) /\ WrittenFine(q, h, r, done) /\ OwnerFine(q, r, items, others)
      /\ q.stage # "none" /\ q.stage # "post" /\ q.stage \in Hooks
  BY DEF RequestFine, Asking, Hooks
<1>3. q.turn \in Nat /\ Turns(q.stage) \in Nat
  BY <1>2, TurnFacts DEF RequestState
<1>4. PhaseFine(s, b, h, r)
  <2>1. s.stage \in StagesOf(s.op) /\ s.stage # "none" /\ s.pc \notin {"idle", "wait"}
    BY <1>1, <1>2 DEF PhaseFine
  <2>2. s.turn \in 1 .. Turns(s.stage) + 1
    BY <1>1, <1>3
  <2>3. s.pc = "done" => s.stage # "db"
    BY <1>1 DEF Last
  <2>4. s.pc = "done" => Over(s)
    BY <1>1 DEF Over
  <2>5. s.op = "list" /\ s.pc = "done" => s.outcome = (IF s.page = {} THEN 400 ELSE 200)
    BY <1>1 DEF Outcome, Patched, Moved
  <2>6. s.op = "query" => (s.stage # "none" <=> ~s.forbidden)
    BY <1>1, <1>2 DEF PhaseFine
  <2> QED BY <1>1, <2>1, <2>2, <2>3, <2>4, <2>5, <2>6 DEF PhaseFine, Told
<1>5. AskedFine(s, b, h, vs)
  <2>1. ~Told(s, b)
    BY <1>1 DEF Told
  <2>2. s.stage = "pre" => AskedBefore("auth", Turns("auth") + 1, h, vs)
    BY <1>1, <1>2 DEF AskedFine
  <2> QED BY <1>1, <1>2, <2>1, <2>2 DEF AskedFine
<1>6. VetoFine(s, b, h)
  BY DEF VetoFine
<1>7. LeftFine(s, b, h)
  <2>1. HeldNow(s, b) = HeldNow(q, a) /\ PageNow(s, b) = PageNow(q, a)
        /\ FiltersNow(s, b) = FiltersNow(q, a)
    BY <1>1 DEF HeldNow, PageNow, FiltersNow, Told
  <2> QED BY <1>1, <1>2, <2>1 DEF LeftFine
<1>8. WrittenFine(s, h, r, done) /\ ToldFine(s, h, r, vs)
  BY <1>1, <1>2 DEF WrittenFine, ToldFine
<1>9. OwnerFine(s, r, items, others)
  BY <1>1, <1>2 DEF OwnerFine
<1> QED BY <1>1, <1>4, <1>5, <1>6, <1>7, <1>8, <1>9 DEF RequestFine

\* A request is answered in the middle of the stages before the write, or of a
\* route: refused, failed, or served.
LEMMA StopsHere ==
    ASSUME NEW r \in Requests, NEW q, NEW a, NEW h, NEW s, NEW b,
           NEW vs, NEW items, NEW others, NEW done,
           RequestFine(r, q, a, h, vs, items, others, done),
           q.stage \in {"auth", "pre", "route"}, q.pc \in {"send", "wait"},
           NEW q2, Ended(q2, s), Patched(q, q2, HeldNow(q, a), q.page, q.filters),
           q.op = "edit" => HeldNow(q, a) \in Item /\ HeldNow(q, a).owner = q.carried.owner
    PROVE  RequestFine(r, s, b, h, vs, items, others, done)
<1>1. /\ s.op = q.op /\ s.stage = q.stage /\ s.turn = q.turn /\ s.pc = "done"
      /\ s \in RequestState /\ s.carried = q2.carried /\ s.id = q.id
      /\ s.forbidden = q.forbidden /\ q2.carried = HeldNow(q, a) /\ s.lost = q.lost
  BY DEF Ended, Patched
<1>2. /\ q \in RequestState /\ PhaseFine(q, a, h, r) /\ AskedFine(q, a, h, vs)
      /\ VetoFine(q, a, h)
      /\ LeftFine(q, a, h) /\ WrittenFine(q, h, r, done) /\ OwnerFine(q, r, items, others)
      /\ q.stage \in Asking
  BY DEF RequestFine, Asking
<1>3. q.op \notin {"list", "query"}
  BY <1>2, StagesAre DEF PhaseFine
<1>4. PhaseFine(s, b, h, r)
  BY <1>1, <1>2, <1>3 DEF PhaseFine, Told
<1>5. AskedFine(s, b, h, vs)
  BY <1>1, <1>2 DEF AskedFine, Told
<1>6. VetoFine(s, b, h)
  BY <1>1, <1>2 DEF VetoFine
<1>7. LeftFine(s, b, h)
  <2>1. HeldNow(s, b) = HeldNow(q, a)
    BY <1>1 DEF HeldNow, Told
  <2> QED BY <1>1, <1>2, <2>1 DEF LeftFine
<1>8. WrittenFine(s, h, r, done) /\ ToldFine(s, h, r, vs)
  BY <1>1, <1>2 DEF WrittenFine, ToldFine
<1>9. OwnerFine(s, r, items, others)
  BY <1>1, <1>2 DEF OwnerFine
<1>10. h.veto \in BOOLEAN
  BY DEF RequestFine
<1> QED BY <1>1, <1>4, <1>5, <1>6, <1>7, <1>8, <1>9, <1>10 DEF RequestFine

\* A stage that is over was over for everyone.
LEMMA AllWereAsked ==
    ASSUME NEW r, NEW q, NEW a, NEW h, NEW vs, NEW items, NEW others, NEW done,
           RequestFine(r, q, a, h, vs, items, others, done),
           q.stage \in Asking, Over(q)
    PROVE  AskedBefore(q.stage, Turns(q.stage) + 1, h, vs)
<1>1. q.turn \in 1 .. Turns(q.stage) + 1 /\ Turns(q.stage) \in Nat
  BY TurnFacts DEF RequestFine, PhaseFine, Asking, Hooks
<1>2. q.turn = Turns(q.stage) + 1
  BY <1>1 DEF Over
<1> QED BY <1>2 DEF RequestFine, AskedFine

\* From "auth" to "pre": the collection is there.
LEMMA AuthToPre ==
    ASSUME NEW r \in Requests, NEW q, NEW a, NEW h, NEW s, NEW b,
           NEW vs, NEW items, NEW others, NEW done,
           RequestFine(r, q, a, h, vs, items, others, done),
           q.stage = "auth", q.pc = "send", Over(q), q.op # "unknown",
           Moved(q, "pre", 1, s)
    PROVE  RequestFine(r, s, b, h, vs, items, others, done)
<1>1. /\ s.op = q.op /\ s.stage = "pre" /\ s.turn = 1 /\ s.pc = "send"
      /\ s \in RequestState /\ s.carried = q.carried /\ s.id = q.id /\ s.page = q.page
      /\ s.filters = q.filters /\ s.forbidden = q.forbidden /\ s.lost = q.lost
  BY DEF Moved, Last
<1>2. /\ q \in RequestState /\ PhaseFine(q, a, h, r) /\ AskedFine(q, a, h, vs)
      /\ VetoFine(q, a, h)
      /\ LeftFine(q, a, h) /\ WrittenFine(q, h, r, done) /\ OwnerFine(q, r, items, others)
  BY DEF RequestFine
<1>3. q.op \in {"edit", "del"}
  BY <1>2, StagesAre DEF PhaseFine
<1>4. Turns("pre") \in Nat
  BY TurnFacts DEF Hooks
<1>5. PhaseFine(s, b, h, r)
  <2>1. 1 \in 1 .. Turns(s.stage) + 1
    BY <1>1, <1>4
  <2>2. s.stage \in StagesOf(s.op)
    BY <1>1, <1>3, StagesAre
  <2> QED BY <1>1, <1>2, <1>3, <2>1, <2>2 DEF PhaseFine, Told
<1>6. AskedFine(s, b, h, vs)
  <2>1. AskedBefore("pre", 1, h, vs)
    BY DEF AskedBefore
  <2>2. AskedBefore("auth", Turns("auth") + 1, h, vs)
    BY AllWereAsked DEF Asking
  <2> QED BY <1>1, <2>1, <2>2 DEF AskedFine, Told
<1>7. VetoFine(s, b, h)
  BY <1>1, <1>2 DEF VetoFine, Told
<1>8. LeftFine(s, b, h)
  BY <1>1, <1>2 DEF LeftFine
<1>9. WrittenFine(s, h, r, done) /\ ToldFine(s, h, r, vs)
  BY <1>1, <1>2 DEF WrittenFine, ToldFine
<1>10. OwnerFine(s, r, items, others)
  BY <1>1, <1>2 DEF OwnerFine
<1>11. h.veto \in BOOLEAN
  BY DEF RequestFine
<1> QED BY <1>1, <1>5, <1>6, <1>7, <1>8, <1>9, <1>10, <1>11 DEF RequestFine

\* From "pre" to "post": it was written, if it is an edit.
LEMMA PreToPost ==
    ASSUME NEW r \in Requests, NEW q, NEW a, NEW h, NEW s, NEW b,
           NEW vs, NEW items, NEW others, NEW done,
           NEW items2, NEW others2, NEW done2,
           RequestFine(r, q, a, h, vs, items, others, done),
           q.stage = "pre", q.pc = "send", Over(q),
           Moved(q, "post", 1, s), q.op = "edit" => r \in done2
    PROVE  RequestFine(r, s, b, h, vs, items2, others2, done2)
<1>1. /\ s.op = q.op /\ s.stage = "post" /\ s.turn = 1 /\ s.pc \in {"send", "done"}
      /\ s \in RequestState /\ s.carried = q.carried /\ s.id = q.id /\ s.page = q.page
      /\ s.filters = q.filters /\ s.forbidden = q.forbidden /\ s.lost = q.lost
      /\ s.pc = "done" => 1 > Turns("post")
  BY DEF Moved
<1>2. /\ q \in RequestState /\ PhaseFine(q, a, h, r) /\ AskedFine(q, a, h, vs)
      /\ VetoFine(q, a, h)
      /\ LeftFine(q, a, h) /\ WrittenFine(q, h, r, done) /\ OwnerFine(q, r, items, others)
  BY DEF RequestFine
<1>3. q.op \in {"edit", "del"}
  BY <1>2, StagesAre DEF PhaseFine
<1>4. Turns("post") \in Nat
  BY TurnFacts DEF Hooks
<1>5. PhaseFine(s, b, h, r)
  <2>1. 1 \in 1 .. Turns(s.stage) + 1
    BY <1>1, <1>4
  <2>2. s.stage \in StagesOf(s.op)
    BY <1>1, <1>3, StagesAre
  <2>3. s.pc = "done" => Over(s)
    BY <1>1 DEF Over
  <2> QED BY <1>1, <1>2, <1>3, <2>1, <2>2, <2>3 DEF PhaseFine, Told
<1>6. AskedFine(s, b, h, vs)
  <2>1. AskedBefore("pre", Turns("pre") + 1, h, vs)
    BY AllWereAsked DEF Asking
  <2>2. AskedBefore("auth", Turns("auth") + 1, h, vs)
    BY <1>2 DEF AskedFine
  <2> QED BY <1>1, <2>1, <2>2 DEF AskedFine, Told, Asking
<1>7. VetoFine(s, b, h)
  BY <1>1, <1>2 DEF VetoFine, Told
<1>8. LeftFine(s, b, h)
  <2>1. HeldNow(s, b) = HeldNow(q, a)
    BY <1>1 DEF HeldNow, Told
  <2> QED BY <1>1, <1>2, <2>1 DEF LeftFine
<1>9. WrittenFine(s, h, r, done2) /\ ToldFine(s, h, r, vs)
  BY <1>1, <1>2 DEF WrittenFine, ToldFine
<1>10. OwnerFine(s, r, items2, others2)
  BY <1>1 DEF OwnerFine
<1>11. h.veto \in BOOLEAN
  BY DEF RequestFine
<1> QED BY <1>1, <1>5, <1>6, <1>7, <1>8, <1>9, <1>10, <1>11 DEF RequestFine

\* From "db" to "filter", with a page that no filter withheld, if they could be
\* read.
LEMMA DbToFilter ==
    ASSUME NEW r \in Requests, NEW q, NEW a, NEW h, NEW s, NEW b,
           NEW vs, NEW items, NEW others, NEW done,
           RequestFine(r, q, a, h, vs, items, others, done),
           q.stage = "db", q.pc = "send", Over(q),
           NEW q2, Moved(q2, "filter", 1, s),
           q2.op = q.op, q2.forbidden = q.forbidden, q2.lost = q.lost,
           ~q.lost => q2.page \subseteq {i \in Ids : \A f \in q.filters : i \in f}
    PROVE  RequestFine(r, s, b, h, vs, items, others, done)
<1>1. /\ s.op = q.op /\ s.stage = "filter" /\ s.turn = 1 /\ s.pc \in {"send", "done"}
      /\ s \in RequestState /\ s.page = q2.page /\ s.forbidden = q.forbidden
      /\ s.lost = q.lost
      /\ s.pc = "done" => 1 > Turns("filter")
  BY DEF Moved
<1>2. /\ q \in RequestState /\ PhaseFine(q, a, h, r) /\ AskedFine(q, a, h, vs)
      /\ VetoFine(q, a, h)
      /\ LeftFine(q, a, h) /\ WrittenFine(q, h, r, done)
  BY DEF RequestFine
<1>3. q.op = "query"
  BY <1>2, StagesAre DEF PhaseFine
<1>4. Turns("filter") \in Nat
  BY TurnFacts DEF Hooks
<1>5. PhaseFine(s, b, h, r)
  <2>1. 1 \in 1 .. Turns(s.stage) + 1
    BY <1>1, <1>4
  <2>2. s.stage \in StagesOf(s.op)
    BY <1>1, <1>3, StagesAre
  <2> QED BY <1>1, <1>2, <1>3, <2>1, <2>2 DEF PhaseFine, Told
<1>6. AskedFine(s, b, h, vs)
  <2>1. AskedBefore("filter", 1, h, vs)
    BY DEF AskedBefore
  <2> QED BY <1>1, <2>1 DEF AskedFine, Told
<1>7. VetoFine(s, b, h)
  BY <1>1, <1>2 DEF VetoFine, Told
<1>8. LeftFine(s, b, h)
  <2>1. PageNow(s, b) = q2.page
    BY <1>1 DEF PageNow, Told
  <2>2. FiltersNow(q, a) = q.filters
    BY DEF FiltersNow, Told
  <2> QED BY <1>1, <1>2, <1>3, <2>1, <2>2 DEF LeftFine
<1>9. WrittenFine(s, h, r, done) /\ ToldFine(s, h, r, vs)
  BY <1>1, <1>2 DEF WrittenFine, ToldFine
<1>10. OwnerFine(s, r, items, others)
  BY <1>1 DEF OwnerFine
<1>11. h.veto \in BOOLEAN
  BY DEF RequestFine
<1> QED BY <1>1, <1>5, <1>6, <1>7, <1>8, <1>9, <1>10, <1>11 DEF RequestFine

(* --------------------- the steps of a request by itself ------------------ *)

\* A request that heard an answer is as it should be.
LEMMA HeardFine ==
    ASSUME NEW r \in Requests, NEW q, NEW a, NEW h, NEW b,
           NEW vs, NEW items, NEW others, NEW done,
           RequestFine(r, q, a, h, vs, items, others, done),
           q.pc = "wait", a # Empty
    PROVE  /\ q.stage = "auth" => RequestFine(r, AfterAuth(q, a), b, h, vs, items, others, done)
           /\ q.stage = "pre" => RequestFine(r, AfterPreEdit(q, a), b, h, vs, items, others, done)
           /\ q.stage = "db" => RequestFine(r, AfterDbFilter(q, a), b, h, vs, items, others, done)
           /\ q.stage = "filter" =>
                RequestFine(r, AfterListFilter(q, a), b, h, vs, items, others, done)
           /\ q.stage = "route" => RequestFine(r, AfterRoute(q, a), b, h, vs, items, others, done)
           /\ q.stage = "rest" => RequestFine(r, AfterRest(q, a), b, h, vs, items, others, done)
<1> DEFINE Good(s) == RequestFine(r, s, b, h, vs, items, others, done)
<1>1. /\ q \in RequestState /\ PhaseFine(q, a, h, r) /\ AskedFine(q, a, h, vs)
      /\ VetoFine(q, a, h) /\ h.veto \in BOOLEAN
  BY DEF RequestFine
<1>2. /\ Told(q, a) /\ q.stage \in Asking /\ q.stage \in Hooks /\ q.turn <= Turns(q.stage)
      /\ a \in Answers(Question(q, r)) \cup {Dropped}
      /\ AskedBefore(q.stage, q.turn + 1, h, vs)
  BY <1>1 DEF Told, PhaseFine, AskedFine, Asking, Hooks
<1>3. /\ a.verdict \in {"ok", "no", "not implemented", "dropped"}
      /\ a.verdict = "no" => q.stage \in {"auth", "pre"}
      /\ q.stage = "pre" /\ a.verdict # "dropped" =>
           /\ a.carried \in Items
           /\ q.carried \in Item => a.carried \in Item /\ a.carried.owner = q.carried.owner
      /\ q.stage = "db" /\ a.verdict # "dropped" => a.carried \subseteq Ids
      /\ q.stage = "filter" /\ a.verdict # "dropped" => a.carried \subseteq q.page
  BY <1>1, <1>2, AnswersAre
<1>4. /\ h.veto => a.verdict = "no"
      /\ ~(q.stage = "route" /\ a.verdict = "ok") => h.served = 0
  BY <1>1, <1>2 DEF VetoFine, Told
<1>5. q.op = "edit" => q.carried \in Item
  BY <1>1, <1>2 DEF PhaseFine, Asking
<1>6. q.op = "edit" => HeldNow(q, a) \in Item /\ HeldNow(q, a).owner = q.carried.owner
  BY <1>3, <1>5 DEF HeldNow
<1>7. ASSUME NEW q2, Patched(q, q2, HeldNow(q, a), PageNow(q, a), FiltersNow(q, a)),
             a.verdict # "no", ~(q.stage = "route" /\ a.verdict = "ok")
      PROVE  Good(NextTurn(q2))
  <2>1. Moved(q2, q2.stage, q2.turn + 1, NextTurn(q2))
    BY <1>2, <1>7, NextTurnMoves DEF Patched
  <2>2. Moved(q2, q.stage, q.turn + 1, NextTurn(q2))
    BY <1>7, <2>1 DEF Patched
  <2>3. h.veto = FALSE /\ h.served = 0
    BY <1>1, <1>4, <1>7
  <2> QED BY <1>2, <1>6, <1>7, <2>2, <2>3, GoesOn
<1>8. ASSUME NEW q2, Patched(q, q2, HeldNow(q, a), q.page, q.filters),
             q.stage \in {"auth", "pre", "route"}, NEW outcome \in {200, 403}
      PROVE  Good(Answered(q2, outcome))
  <2>1. Ended(q2, Answered(q2, outcome))
    BY <1>8, AnsweredEnds DEF Patched
  <2> QED BY <1>6, <1>8, <2>1, StopsHere
<1>9. /\ Patched(q, q, q.carried, q.page, q.filters)
      /\ Patched(q, [q EXCEPT !.outcome = 200], q.carried, q.page, q.filters)
      /\ q.stage # "pre" => HeldNow(q, a) = q.carried
      /\ q.stage # "filter" => PageNow(q, a) = q.page
      /\ q.stage # "db" => FiltersNow(q, a) = q.filters
  BY <1>1, Patches DEF HeldNow, PageNow, FiltersNow
<1> HIDE DEF Good
<1>10. CASE q.stage = "auth"
  <2>1. Good(AfterAuth(q, a))
    BY <1>7, <1>8, <1>9, <1>10 DEF AfterAuth
  <2> QED BY <1>10, <2>1 DEF Good
<1>11. CASE q.stage = "pre"
  <2>1. Patched(q, Swapped(q, a), HeldNow(q, a), q.page, q.filters)
    <3>1. CASE a.verdict = "dropped"
      BY <1>9, <3>1 DEF Swapped, HeldNow
    <3>2. CASE a.verdict # "dropped"
      <4>1. Swapped(q, a) = [q EXCEPT !.carried = a.carried] /\ HeldNow(q, a) = a.carried
        BY <1>2, <1>11, <3>2 DEF Swapped, HeldNow
      <4> QED BY <1>1, <1>3, <1>11, <3>2, <4>1, Patches
    <3> QED BY <3>1, <3>2
  <2>2. Good(AfterPreEdit(q, a))
    BY <1>7, <1>8, <1>9, <1>11, <2>1 DEF AfterPreEdit
  <2> QED BY <1>11, <2>2 DEF Good
<1>12. CASE q.stage = "db"
  <2> DEFINE q2 == IF a.verdict = "ok" THEN [q EXCEPT !.filters = @ \cup {a.carried}] ELSE q
  <2>1. Patched(q, q2, q.carried, q.page, FiltersNow(q, a))
    <3>1. CASE a.verdict # "ok"
      BY <1>9, <3>1 DEF FiltersNow
    <3>2. CASE a.verdict = "ok"
      <4>1. q.filters \cup {a.carried} \in SUBSET SUBSET Ids
        BY <1>1, <1>3, <1>12, <3>2 DEF RequestState
      <4>2. FiltersNow(q, a) = q.filters \cup {a.carried}
        BY <1>2, <1>12, <3>2 DEF FiltersNow
      <4>3. q2 = [q EXCEPT !.filters = q.filters \cup {a.carried}]
        BY <3>2
      <4> HIDE DEF q2
      <4> QED BY <1>1, <4>1, <4>2, <4>3, Patches
    <3> QED BY <3>1, <3>2
  <2>2. AfterDbFilter(q, a) = NextTurn(q2) /\ a.verdict # "no"
    BY <1>3, <1>12 DEF AfterDbFilter
  <2> HIDE DEF q2
  <2>3. Good(AfterDbFilter(q, a))
    BY <1>7, <1>9, <1>12, <2>1, <2>2
  <2> QED BY <1>12, <2>3 DEF Good
<1>13. CASE q.stage = "filter"
  <2> DEFINE q2 == IF a.verdict = "dropped" THEN q ELSE [q EXCEPT !.page = a.carried]
  <2>1. Patched(q, q2, q.carried, PageNow(q, a), q.filters)
    <3>1. CASE a.verdict = "dropped"
      BY <1>9, <3>1 DEF PageNow
    <3>2. CASE a.verdict # "dropped"
      <4>1. a.carried \in SUBSET Ids
        BY <1>1, <1>3, <1>13, <3>2 DEF RequestState
      <4>2. PageNow(q, a) = a.carried
        BY <1>2, <1>13, <3>2 DEF PageNow
      <4>3. q2 = [q EXCEPT !.page = a.carried]
        BY <3>2
      <4> HIDE DEF q2
      <4> QED BY <1>1, <4>1, <4>2, <4>3, Patches
    <3> QED BY <3>1, <3>2
  <2>2. AfterListFilter(q, a) = NextTurn(q2) /\ a.verdict # "no"
    BY <1>3, <1>13 DEF AfterListFilter
  <2> HIDE DEF q2
  <2>3. Good(AfterListFilter(q, a))
    BY <1>7, <1>9, <1>13, <2>1, <2>2
  <2> QED BY <1>13, <2>3 DEF Good
<1>14. CASE q.stage = "route"
  <2>1. a.verdict # "no"
    BY <1>3, <1>14
  <2>2. Good(AfterRoute(q, a))
    BY <1>7, <1>8, <1>9, <1>14, <2>1 DEF AfterRoute
  <2> QED BY <1>14, <2>2 DEF Good
<1>15. CASE q.stage = "rest"
  <2> DEFINE q2 == IF a.verdict = "ok" THEN [q EXCEPT !.outcome = 200] ELSE q
  <2>1. Patched(q, q2, q.carried, q.page, q.filters)
    BY <1>9
  <2>2. AfterRest(q, a) = NextTurn(q2) /\ a.verdict # "no"
    BY <1>3, <1>15 DEF AfterRest
  <2> HIDE DEF q2
  <2>3. Good(AfterRest(q, a))
    BY <1>7, <1>9, <1>15, <2>1, <2>2
  <2> QED BY <1>15, <2>3 DEF Good
<1> QED BY <1>2, <1>10, <1>11, <1>12, <1>13, <1>14, <1>15 DEF Asking

\* An answer is heard.
LEMMA HearKeeps ==
    ASSUME ItemInv, NEW r \in Requests, Hear(r)
    PROVE  ItemInv'
<1> DEFINE q == req[r]  a == slot[r]
           s == CASE q.stage = "auth" -> AfterAuth(q, a)
                  [] q.stage = "pre" -> AfterPreEdit(q, a)
                  [] q.stage = "db" -> AfterDbFilter(q, a)
                  [] q.stage = "filter" -> AfterListFilter(q, a)
                  [] q.stage = "route" -> AfterRoute(q, a)
                  [] q.stage = "rest" -> AfterRest(q, a)
<1>1. RequestFine(r, q, a, said[r], plugin, store, disturbed, written)
  BY DEF ItemInv
<1>2. /\ q.pc = "wait" /\ a # Empty
      /\ req' = [req EXCEPT ![r] = s] /\ slot' = [slot EXCEPT ![r] = Empty]
      /\ UNCHANGED <<plugin, inbox, core, said, store, disturbed, written>>
  BY DEF Hear, Update
<1>3. q.stage \in Asking
  BY <1>1, <1>2 DEF RequestFine, PhaseFine
<1>4. RequestFine(r, s, Empty, said[r], plugin, store, disturbed, written)
  BY <1>1, <1>2, <1>3, HeardFine DEF Asking
<1> HIDE DEF s
<1>5. RequestFine(r, s, Empty, said[r], plugin, store', disturbed', written')
  BY <1>2, <1>4
<1>6. store' \in [Ids -> Items]
  BY <1>2 DEF ItemInv, Shapes
<1>7. q.stage # "post"
  BY <1>3 DEF Asking
<1> QED BY <1>2, <1>5, <1>6, <1>7, ARequestMoves

\* From "auth" on, once everyone was asked.
LEMMA AuthOverKeeps ==
    ASSUME ItemInv, NEW r \in Requests, AuthOver(r)
    PROVE  ItemInv'
<1> DEFINE q == req[r]  a == slot[r]
           s == IF q.op = "unknown" THEN Answered(q, 400) ELSE GoTo(q, "pre")
<1>1. RequestFine(r, q, a, said[r], plugin, store, disturbed, written)
  BY DEF ItemInv
<1>2. /\ q.pc = "send" /\ q.stage = "auth" /\ Over(q)
      /\ req' = [req EXCEPT ![r] = s]
      /\ UNCHANGED <<plugin, inbox, core, slot, said, store, disturbed, written>>
  BY DEF AuthOver, StageOver, Update, dispatchVars
<1>3. slot' = [slot EXCEPT ![r] = a]
  BY <1>2 DEF ItemInv, Shapes
<1>4. q \in RequestState
  BY <1>1 DEF RequestFine
<1>5. RequestFine(r, s, a, said[r], plugin, store, disturbed, written)
  <2>1. CASE q.op = "unknown"
    <3>1. Ended(q, s)
      BY <1>4, <2>1, AnsweredEnds
    <3>2. HeldNow(q, a) = q.carried
      BY <1>2 DEF HeldNow, Told
    <3>3. Patched(q, q, HeldNow(q, a), q.page, q.filters)
      BY <1>4, <3>2, Patches
    <3>4. q.op # "edit"
      BY <2>1
    <3> HIDE DEF s
    <3> QED BY <1>1, <1>2, <3>1, <3>3, <3>4, StopsHere
  <2>2. CASE q.op # "unknown"
    <3>1. Moved(q, "pre", 1, s)
      BY <1>4, <2>2, GoToMoves DEF Hooks
    <3> HIDE DEF s
    <3> QED BY <1>1, <1>2, <2>2, <3>1, AuthToPre
  <2> QED BY <2>1, <2>2
<1> HIDE DEF s
<1>6. RequestFine(r, s, a, said[r], plugin, store', disturbed', written')
  BY <1>2, <1>5
<1>7. store' \in [Ids -> Items]
  BY <1>2 DEF ItemInv, Shapes
<1> QED BY <1>2, <1>3, <1>6, <1>7, ARequestMoves

\* The write, which overtakes every other edit under way.
LEMMA PreEditOverKeeps ==
    ASSUME ItemInv, NEW r \in Requests, PreEditOver(r)
    PROVE  ItemInv'
<1> DEFINE q == req[r]  a == slot[r]  s == GoTo(q, "post")
           i == IF q.op = "edit" THEN q.carried ELSE Absent
<1>1. RequestFine(r, q, a, said[r], plugin, store, disturbed, written)
  BY DEF ItemInv
<1>2. /\ q.pc = "send" /\ q.stage = "pre" /\ Over(q)
      /\ req' = [req EXCEPT ![r] = s]
      /\ store' = [store EXCEPT ![q.id] = i]
      /\ disturbed' = disturbed \cup (Underway \ {r})
      /\ written' = written \cup {r}
      /\ UNCHANGED <<plugin, inbox, core, slot, said>>
  BY DEF PreEditOver, StageOver, Update, dispatchVars
<1>3. slot' = [slot EXCEPT ![r] = a]
  BY <1>2 DEF ItemInv, Shapes
<1>4. q \in RequestState /\ q.carried \in Items
  BY <1>1 DEF RequestFine, RequestState
<1>5. Moved(q, "post", 1, s)
  BY <1>4, GoToMoves DEF Hooks
<1>6. store' \in [Ids -> Items]
  <2>1. i \in Items
    BY <1>4 DEF Items
  <2> HIDE DEF i
  <2> QED BY <1>2, <2>1 DEF ItemInv, Shapes
<1> HIDE DEF s, i
<1>7. RequestFine(r, s, a, said[r], plugin, store', disturbed', written')
  <2>1. r \in written'
    BY <1>2
  <2> QED BY <1>1, <1>2, <1>5, <2>1, PreToPost
<1>8. ASSUME NEW x \in Requests \ {r}
      PROVE  /\ x \in written' <=> x \in written
             /\ req[x].op = "edit" /\ req[x].stage \in {"auth", "pre"} => x \in disturbed'
  BY <1>2 DEF Underway
<1> QED BY <1>2, <1>3, <1>6, <1>7, <1>8, ARequestMoves

\* The store cannot write.
LEMMA WriteFailsKeeps ==
    ASSUME ItemInv, NEW r \in Requests, WriteFails(r)
    PROVE  ItemInv'
<1> DEFINE q == req[r]  a == slot[r]
           s == IF q.op = "edit" THEN Answered(q, 500) ELSE GoTo(q, "post")
<1>1. RequestFine(r, q, a, said[r], plugin, store, disturbed, written)
  BY DEF ItemInv
<1>2. /\ q.pc = "send" /\ q.stage = "pre" /\ Over(q)
      /\ req' = [req EXCEPT ![r] = s]
      /\ UNCHANGED <<plugin, inbox, core, slot, said, store, disturbed, written>>
  BY DEF WriteFails, StageOver, Update, dispatchVars
<1>3. slot' = [slot EXCEPT ![r] = a]
  BY <1>2 DEF ItemInv, Shapes
<1>4. q \in RequestState
  BY <1>1 DEF RequestFine
<1>5. RequestFine(r, s, a, said[r], plugin, store, disturbed, written)
  <2>1. CASE q.op = "edit"
    <3>1. Ended(q, s)
      BY <1>4, <2>1, AnsweredEnds
    <3>2. HeldNow(q, a) = q.carried
      BY <1>2 DEF HeldNow, Told
    <3>3. Patched(q, q, HeldNow(q, a), q.page, q.filters)
      BY <1>4, <3>2, Patches
    <3>4. HeldNow(q, a) \in Item /\ HeldNow(q, a).owner = q.carried.owner
      BY <1>1, <1>2, <2>1, <3>2 DEF RequestFine, PhaseFine
    <3> HIDE DEF s
    <3> QED BY <1>1, <1>2, <3>1, <3>3, <3>4, StopsHere
  <2>2. CASE q.op # "edit"
    <3>1. Moved(q, "post", 1, s)
      BY <1>4, <2>2, GoToMoves DEF Hooks
    <3> HIDE DEF s
    <3> QED BY <1>1, <1>2, <2>2, <3>1, PreToPost
  <2> QED BY <2>1, <2>2
<1> HIDE DEF s
<1>6. RequestFine(r, s, a, said[r], plugin, store', disturbed', written')
  BY <1>2, <1>5
<1>7. store' \in [Ids -> Items]
  BY <1>2 DEF ItemInv, Shapes
<1> QED BY <1>2, <1>3, <1>6, <1>7, ARequestMoves

\* The store is read with all the filters, and the page is looked through.
LEMMA DbFiltersOverKeeps ==
    ASSUME ItemInv, NEW r \in Requests, DbFiltersOver(r)
    PROVE  ItemInv'
<1> DEFINE q == req[r]  a == slot[r]
           page == Matches(q)
           q2 == [q EXCEPT !.page = page]
           s == GoTo(q2, "filter")
<1>1. RequestFine(r, q, a, said[r], plugin, store, disturbed, written)
  BY DEF ItemInv
<1>2. /\ q.pc = "send" /\ q.stage = "db" /\ Over(q)
      /\ req' = [req EXCEPT ![r] = s]
      /\ UNCHANGED <<plugin, inbox, core, slot, said, store, disturbed, written>>
  BY DEF DbFiltersOver, StageOver, Update, dispatchVars
<1>3. slot' = [slot EXCEPT ![r] = a]
  BY <1>2 DEF ItemInv, Shapes
<1>4. q \in RequestState
  BY <1>1 DEF RequestFine
<1>5. /\ page \in SUBSET Ids
      /\ ~q.lost => page \subseteq {i \in Ids : \A f \in q.filters : i \in f}
  BY DEF Matches
<1> HIDE DEF page
<1>6. Patched(q, q2, q.carried, page, q.filters)
  BY <1>4, <1>5, Patches
<1> HIDE DEF q2
<1>7. Moved(q2, "filter", 1, s)
  BY <1>6, GoToMoves DEF Patched, Hooks
<1> HIDE DEF s
<1>8. RequestFine(r, s, a, said[r], plugin, store, disturbed, written)
  BY <1>1, <1>2, <1>5, <1>6, <1>7, DbToFilter DEF Patched
<1>9. RequestFine(r, s, a, said[r], plugin, store', disturbed', written')
  BY <1>2, <1>8
<1>10. store' \in [Ids -> Items]
  BY <1>2 DEF ItemInv, Shapes
<1> QED BY <1>2, <1>3, <1>9, <1>10, ARequestMoves

(* ----------------------------- sending messages -------------------------- *)

\* One more message in a mailbox that has room for it.
LEMMA PutFine ==
    ASSUME NEW v, NEW p, NEW qs, NEW as, PluginFine(v, p, qs, as),
           v.alive, Len(v.box) < MailboxCap, NEW m \in Messages,
           IsQuestion(m) =>
               /\ QuestionFine(m, p, qs[m.req], as[m.req])
               /\ \A n \in At(v) : ~(IsQuestion(n) /\ n.req = m.req),
           IsPost(m) => PostFine(m, p, qs[m.req])
    PROVE  PluginFine([v EXCEPT !.box = Append(@, m)], p, qs, as)
<1> DEFINE w == [v EXCEPT !.box = Append(@, m)]
<1>1. /\ w \in PluginState /\ w.alive = v.alive /\ w.serving = v.serving
      /\ w.box = Append(v.box, m) /\ Len(w.box) = Len(v.box) + 1
      /\ At(w) = At(v) \cup {m}
  <2>1. v \in PluginState
    BY DEF PluginFine
  <2>2. w = [v EXCEPT !.box = Append(@, m)]
    OBVIOUS
  <2> HIDE DEF w
  <2> QED BY <2>1, <2>2, PutAdds, ZenonT(40)
<1>2. v.box \in Seq(Messages) /\ Len(v.box) \in Nat
  BY DEF PluginFine, PluginState
<1>3. Len(w.box) <= MailboxCap
  BY <1>1, <1>2, DispatchAssumption
<1>4. /\ DOMAIN v.box = 1 .. Len(v.box) /\ DOMAIN w.box = 1 .. Len(v.box) + 1
      /\ \A i \in DOMAIN v.box : w.box[i] = v.box[i]
      /\ w.box[Len(v.box) + 1] = m
      /\ \A i \in DOMAIN w.box : i \in DOMAIN v.box \/ i = Len(v.box) + 1
  BY <1>1, <1>2
<1> HIDE DEF w
<1>5. MailFine(w, p, qs, as)
  BY <1>1 DEF PluginFine, MailFine
<1>6. \A i \in DOMAIN v.box : v.box[i] \in At(v)
  BY DEF At
<1>7. v.serving \in At(v)
  BY DEF At
<1>8. OnceEach(w)
  <2>1. OnceEach(v)
    BY DEF PluginFine
  <2>2. \A i \in DOMAIN v.box : IsQuestion(m) => ~(IsQuestion(v.box[i]) /\ v.box[i].req = m.req)
    BY <1>6
  <2>3. ASSUME NEW i \in DOMAIN w.box, NEW j \in DOMAIN w.box,
               IsQuestion(w.box[i]), IsQuestion(w.box[j]), w.box[i].req = w.box[j].req
        PROVE  i = j
    <3>1. CASE i \in DOMAIN v.box /\ j \in DOMAIN v.box
      BY <1>4, <2>1, <2>3, <3>1 DEF OnceEach
    <3>2. CASE i \notin DOMAIN v.box
      <4>1. i = Len(v.box) + 1 /\ w.box[i] = m
        BY <1>4, <3>2
      <4> QED BY <1>4, <2>2, <2>3, <4>1
    <3>3. CASE j \notin DOMAIN v.box
      <4>1. j = Len(v.box) + 1 /\ w.box[j] = m
        BY <1>4, <3>3
      <4> QED BY <1>4, <2>2, <2>3, <4>1
    <3> QED BY <3>1, <3>2, <3>3
  <2>4. ASSUME IsQuestion(w.serving), NEW i \in DOMAIN w.box
        PROVE  ~(IsQuestion(w.box[i]) /\ w.box[i].req = w.serving.req)
    <3>1. CASE i \in DOMAIN v.box
      BY <1>1, <1>4, <2>1, <2>4, <3>1 DEF OnceEach
    <3>2. CASE i = Len(v.box) + 1
      BY <1>1, <1>4, <1>7, <2>4, <3>2
    <3> QED BY <1>4, <3>1, <3>2
  <2> QED BY <2>3, <2>4 DEF OnceEach
<1> QED BY <1>1, <1>3, <1>5, <1>8 DEF PluginFine, w

\* A step of one request that sends a message to a plugin.
LEMMA ARequestSends ==
    ASSUME ItemInv, NEW r \in Requests, NEW s, NEW b,
           NEW p \in Plugins, NEW m \in Messages, plugin[p].alive, HasRoom(p),
           plugin' = Put(p, m),
           req' = [req EXCEPT ![r] = s],
           slot' = [slot EXCEPT ![r] = b],
           UNCHANGED <<inbox, core, said, store, disturbed, written>>,
           ~(req[r].pc = "wait" /\ slot[r] = Empty),
           req[r].stage = "post" => s.stage = "post" /\ s.turn >= req[r].turn,
           m.req = r,
           IsQuestion(m) => QuestionFine(m, p, s, b),
           IsPost(m) => PostFine(m, p, s),
           (\A c \in Plugins : plugin'[c].alive <=> plugin[c].alive) /\
           (\A c \in Plugins : At(plugin[c]) \subseteq At(plugin'[c])) /\
           m \in At(plugin'[p])
              => RequestFine(r, s, b, said[r], plugin', store, disturbed, written)
    PROVE  ItemInv'
<1>1. /\ req' = [x \in Requests |-> req'[x]] /\ req'[r] = s
      /\ slot' = [x \in Requests |-> slot'[x]] /\ slot'[r] = b
      /\ \A x \in Requests \ {r} : req'[x] = req[x] /\ slot'[x] = slot[x]
  BY DEF ItemInv, Shapes
<1> DEFINE v == plugin[p]  w == [v EXCEPT !.box = Append(@, m)]
<1>2. /\ plugin' = [c \in Plugins |-> plugin'[c]]
      /\ plugin'[p] = w
      /\ \A c \in Plugins \ {p} : plugin'[c] = plugin[c]
  BY DEF ItemInv, Shapes, Put
<1>3. /\ v \in PluginState /\ PluginFine(v, p, req, slot)
      /\ req[r] \in RequestState
  BY DEF ItemInv, PluginFine, RequestFine
<1>4. w.alive = v.alive /\ At(w) = At(v) \cup {m}
  BY <1>3, PutAdds
<1>5. /\ \A c \in Plugins : plugin'[c].alive <=> plugin[c].alive
      /\ \A c \in Plugins : At(plugin[c]) \subseteq At(plugin'[c])
      /\ m \in At(plugin'[p])
  <2> HIDE DEF w
  <2> QED BY <1>2, <1>4
<1>6. RequestFine(r, s, b, said[r], plugin', store, disturbed, written)
  BY <1>5
<1>7. Shapes' /\ CoreFine'
  BY <1>1, <1>2 DEF ItemInv, Shapes, CoreFine
<1>8. MayMove(r, req, slot, req', slot')
  <2>1. s \in RequestState
    BY <1>6 DEF RequestFine
  <2> QED BY <1>1, <1>3, <2>1 DEF MayMove
<1>9. ASSUME NEW c \in Plugins PROVE PluginFine(plugin[c], c, req', slot')
  <2>1. PluginFine(plugin[c], c, req, slot)
    BY DEF ItemInv
  <2> QED BY <1>8, <2>1, MailStays
<1>10. PluginFine(w, p, req', slot')
  <2>1. PluginFine(v, p, req', slot') /\ Len(v.box) < MailboxCap /\ v.alive
    BY <1>9 DEF HasRoom
  <2>2. \A n \in At(v) : ~(IsQuestion(n) /\ n.req = m.req)
    BY <1>3 DEF PluginFine, MailFine, QuestionFine
  <2>3. IsQuestion(m) => QuestionFine(m, p, req'[m.req], slot'[m.req])
    BY <1>1
  <2>4. IsPost(m) => PostFine(m, p, req'[m.req])
    BY <1>1
  <2> QED BY <2>1, <2>2, <2>3, <2>4, PutFine
<1>11. ASSUME NEW c \in Plugins PROVE PluginFine(plugin'[c], c, req', slot')
  <2> HIDE DEF w
  <2> QED BY <1>2, <1>9, <1>10
<1>12. ASSUME NEW x \in Requests
       PROVE  RequestFine(x, req'[x], slot'[x], said'[x], plugin', store', disturbed', written')
  <2>1. CASE x = r
    BY <1>1, <1>6, <2>1
  <2>2. CASE x # r
    <3>1. RequestFine(x, req[x], slot[x], said[x], plugin, store, disturbed, written)
      BY DEF ItemInv
    <3>2. RequestFine(x, req[x], slot[x], said[x], plugin', store, disturbed, written)
      BY <1>5, <3>1, OthersStay
    <3> QED BY <1>1, <2>2, <3>2
  <2> QED BY <2>1, <2>2
<1> QED BY <1>7, <1>11, <1>12 DEF ItemInv

\* The next plugin is asked, or passed over if it is gone.
LEMMA AskKeeps ==
    ASSUME ItemInv, NEW r \in Requests, Ask(r)
    PROVE  ItemInv'
<1> DEFINE q == req[r]  a == slot[r]  h == said[r]  p == PluginOf(q.turn)
<1>1. RequestFine(r, q, a, h, plugin, store, disturbed, written)
  BY DEF ItemInv
<1>2. /\ q.pc = "send" /\ q.stage # "post" /\ ~Over(q)
      /\ UNCHANGED <<inbox, core, said, store, disturbed, written>>
  BY DEF Ask
<1>3. /\ q \in RequestState /\ PhaseFine(q, a, h, r) /\ AskedFine(q, a, h, plugin)
      /\ VetoFine(q, a, h) /\ LeftFine(q, a, h) /\ h.veto \in BOOLEAN
      /\ WrittenFine(q, h, r, written) /\ OwnerFine(q, r, store, disturbed)
      /\ ToldFine(q, h, r, plugin)
  BY <1>1 DEF RequestFine
<1>4. q.stage \in Asking /\ q.stage \in Hooks /\ q.stage # "none"
  <2>1. q.stage # "none" /\ q.stage \in StagesOf(q.op)
    BY <1>2, <1>3 DEF PhaseFine
  <2> QED BY <1>2, <2>1, StagesAre DEF Hooks, Asking
<1>5. /\ q.turn \in Nat \ {0} /\ Turns(q.stage) \in Nat /\ q.turn <= Turns(q.stage)
      /\ p \in Plugins
  <2>1. Turns(q.stage) \in Nat /\ q.turn \in 1 .. Turns(q.stage) + 1
    BY <1>3, <1>4, TurnFacts DEF PhaseFine
  <2>2. q.turn <= Turns(q.stage)
    BY <1>2, <2>1 DEF Over
  <2> QED BY <2>1, <2>2, TurnFacts
<1>6. h.veto = FALSE /\ h.served = 0
  BY <1>2, <1>3 DEF VetoFine, Told
<1>7. store \in [Ids -> Items] /\ slot = [slot EXCEPT ![r] = a]
  BY DEF ItemInv, Shapes
<1>8. CASE ~plugin[p].alive
  <2> DEFINE s == NextTurn(q)
  <2>1. /\ req' = [req EXCEPT ![r] = s] /\ UNCHANGED <<plugin, slot>>
    BY <1>8 DEF Ask, Update
  <2>2. Moved(q, q.stage, q.turn + 1, s)
    BY <1>3, <1>4, NextTurnMoves
  <2>3. AskedBefore(q.stage, q.turn + 1, h, plugin)
    <3> SUFFICES ASSUME NEW k \in 1 .. q.turn, plugin[PluginOf(k)].alive
                 PROVE  <<q.stage, k>> \in h.asked
      BY <1>5 DEF AskedBefore
    <3>1. k \in 1 .. q.turn - 1
      BY <1>5, <1>8
    <3> QED BY <1>3, <1>4, <3>1 DEF AskedFine, AskedBefore
  <2>4. HeldNow(q, a) = q.carried /\ PageNow(q, a) = q.page /\ FiltersNow(q, a) = q.filters
    BY <1>2 DEF HeldNow, PageNow, FiltersNow, Told
  <2>5. Patched(q, q, HeldNow(q, a), PageNow(q, a), FiltersNow(q, a))
    BY <1>3, <2>4, Patches
  <2>6. q.op = "edit" => HeldNow(q, a) \in Item /\ HeldNow(q, a).owner = q.carried.owner
    BY <1>3, <1>4, <2>4 DEF PhaseFine
  <2> HIDE DEF s
  <2>7. RequestFine(r, s, a, h, plugin, store, disturbed, written)
    BY <1>1, <1>2, <1>4, <1>5, <1>6, <2>2, <2>3, <2>5, <2>6, GoesOn
  <2>8. RequestFine(r, s, a, h, plugin, store', disturbed', written')
    BY <1>2, <2>7
  <2>9. slot' = [slot EXCEPT ![r] = a] /\ store' \in [Ids -> Items]
    BY <1>2, <1>7, <2>1
  <2> QED BY <1>2, <2>1, <2>8, <2>9, ARequestMoves
<1>9. CASE plugin[p].alive
  <2> DEFINE s == [q EXCEPT !.pc = "wait"]  m == Question(q, r)
  <2>1. /\ HasRoom(p) /\ plugin' = Put(p, m)
        /\ slot' = [slot EXCEPT ![r] = Empty] /\ req' = [req EXCEPT ![r] = s]
    BY <1>9 DEF Ask, Update
  <2>2. s \in RequestState
    BY <1>3, Zenon DEF RequestState
  <2>3. /\ s.pc = "wait" /\ s.stage = q.stage /\ s.turn = q.turn /\ s.op = q.op
        /\ s.id = q.id /\ s.carried = q.carried /\ s.page = q.page
        /\ s.filters = q.filters /\ s.forbidden = q.forbidden /\ s.lost = q.lost
    BY <1>3 DEF RequestState
  <2>4. m \in Messages /\ m.req = r /\ IsQuestion(m) /\ ~IsPost(m)
    BY <1>3, <1>4, QuestionIs
  <2>5. Question(s, r) = m
    BY <2>3 DEF Question
  <2> HIDE DEF s, m
  <2>6. QuestionFine(m, p, s, Empty)
    BY <2>3, <2>4, <2>5 DEF QuestionFine
  <2>7. RequestFine(r, s, Empty, h, plugin, store, disturbed, written)
    <3>1. ~Told(s, Empty)
      BY DEF Told
    <3>2. PhaseFine(s, Empty, h, r)
      BY <1>3, <1>4, <1>5, <2>3, <3>1 DEF PhaseFine
    <3>3. AskedFine(s, Empty, h, plugin)
      BY <1>3, <2>3, <3>1 DEF AskedFine
    <3>4. VetoFine(s, Empty, h)
      BY <1>6 DEF VetoFine
    <3>5. HeldNow(s, Empty) = HeldNow(q, a) /\ PageNow(s, Empty) = PageNow(q, a)
          /\ FiltersNow(s, Empty) = FiltersNow(q, a)
      BY <1>2, <2>3 DEF HeldNow, PageNow, FiltersNow, Told
    <3>6. LeftFine(s, Empty, h)
      BY <1>3, <2>3, <3>5 DEF LeftFine
    <3>7. WrittenFine(s, h, r, written) /\ OwnerFine(s, r, store, disturbed)
          /\ ToldFine(s, h, r, plugin)
      BY <1>3, <2>3 DEF WrittenFine, OwnerFine, ToldFine
    <3> QED BY <1>3, <2>2, <3>2, <3>3, <3>4, <3>6, <3>7 DEF RequestFine
  <2>8. ASSUME \A c \in Plugins : plugin'[c].alive <=> plugin[c].alive,
               \A c \in Plugins : At(plugin[c]) \subseteq At(plugin'[c])
        PROVE  RequestFine(r, s, Empty, h, plugin', store, disturbed, written)
    BY <2>7, <2>8, OthersStay
  <2>9. p \in Plugins /\ q.stage # "post"
    BY <1>2, <1>5
  <2> HIDE DEF p
  <2> QED BY <1>2, <1>9, <2>1, <2>4, <2>6, <2>8, <2>9, ARequestSends
<1> QED BY <1>8, <1>9

\* The next plugin is told, or passed over if it is gone.
LEMMA TellKeeps ==
    ASSUME ItemInv, NEW r \in Requests, Tell(r)
    PROVE  ItemInv'
<1> DEFINE q == req[r]  a == slot[r]  h == said[r]  p == PluginOf(q.turn)
           s == NextTurn(q)  m == Message("post", r, q.turn, q.carried)
<1>1. RequestFine(r, q, a, h, plugin, store, disturbed, written)
  BY DEF ItemInv
<1>2. /\ q.pc = "send" /\ q.stage = "post" /\ ~Over(q)
      /\ IF plugin[p].alive THEN HasRoom(p) /\ plugin' = Put(p, m) ELSE UNCHANGED plugin
      /\ req' = [req EXCEPT ![r] = s]
      /\ UNCHANGED <<inbox, core, slot, said, store, disturbed, written>>
  BY DEF Tell, Update
<1>3. /\ q \in RequestState /\ PhaseFine(q, a, h, r) /\ AskedFine(q, a, h, plugin)
      /\ VetoFine(q, a, h) /\ LeftFine(q, a, h) /\ h.veto \in BOOLEAN
      /\ WrittenFine(q, h, r, written) /\ ToldFine(q, h, r, plugin)
  BY <1>1 DEF RequestFine
<1>4. /\ q.turn \in Nat \ {0} /\ Turns("post") \in Nat /\ q.turn <= Turns("post")
      /\ p \in Plugins
  <2>1. Turns("post") \in Nat /\ q.turn \in 1 .. Turns("post") + 1
    BY <1>2, <1>3, TurnFacts DEF PhaseFine, Hooks
  <2>2. q.turn <= Turns("post")
    BY <1>2, <2>1 DEF Over
  <2> QED BY <2>1, <2>2, TurnFacts
<1>5. store \in [Ids -> Items] /\ slot = [slot EXCEPT ![r] = a] /\ slot' = slot
  BY <1>2 DEF ItemInv, Shapes
<1>6. Moved(q, "post", q.turn + 1, s)
  BY <1>2, <1>3, NextTurnMoves DEF Hooks
<1> HIDE DEF s
<1>7. /\ s.op = q.op /\ s.stage = "post" /\ s.turn = q.turn + 1 /\ s.pc \in {"send", "done"}
      /\ s \in RequestState /\ s.carried = q.carried /\ s.id = q.id /\ s.page = q.page
      /\ s.filters = q.filters /\ s.forbidden = q.forbidden /\ s.lost = q.lost
      /\ s.pc = "done" => q.turn + 1 > Turns("post")
  BY <1>6 DEF Moved
\* As soon as the message lies there, or nobody does, the request is fine.
<1>8. ASSUME NEW vs,
             \A c \in Plugins : vs[c].alive <=> plugin[c].alive,
             \A c \in Plugins : At(plugin[c]) \subseteq At(vs[c]),
             vs[p].alive => m \in At(vs[p])
      PROVE  RequestFine(r, s, a, h, vs, store, disturbed, written)
  <2>1. /\ AskedFine(q, a, h, vs) /\ ToldFine(q, h, r, vs)
    <3>1. RequestFine(r, q, a, h, vs, store, disturbed, written)
      BY <1>1, <1>8, OthersStay
    <3> QED BY <3>1 DEF RequestFine
  <2>2. PhaseFine(s, a, h, r)
    <3>1. s.turn \in 1 .. Turns("post") + 1
      BY <1>4, <1>7
    <3>2. s.pc = "done" => Over(s)
      BY <1>7 DEF Over
    <3>3. s.stage \in StagesOf(s.op) /\ q.op \in {"edit", "del"}
      BY <1>2, <1>3, <1>7, StagesAre DEF PhaseFine
    <3> QED BY <1>2, <1>3, <1>7, <3>1, <3>2, <3>3 DEF PhaseFine, Told
  <2>3. AskedFine(s, a, h, vs)
    BY <1>2, <1>7, <2>1 DEF AskedFine, Told, Asking
  <2>4. VetoFine(s, a, h)
    BY <1>2, <1>3, <1>7 DEF VetoFine, Told
  <2>5. LeftFine(s, a, h)
    <3>1. HeldNow(s, a) = q.carried /\ HeldNow(q, a) = q.carried
      BY <1>2, <1>7 DEF HeldNow, Told
    <3> QED BY <1>2, <1>3, <1>7, <3>1 DEF LeftFine
  <2>6. WrittenFine(s, h, r, written) /\ OwnerFine(s, r, store, disturbed)
    BY <1>2, <1>3, <1>7 DEF WrittenFine, OwnerFine
  <2>7. ToldFine(s, h, r, vs)
    <3> SUFFICES ASSUME NEW n \in 1 .. q.turn, vs[PluginOf(n)].alive
                 PROVE  \/ <<"post", n>> \in h.asked
                        \/ \E x \in At(vs[PluginOf(n)]) :
                             IsPost(x) /\ x.req = r /\ x.turn = n
      BY <1>4, <1>7 DEF ToldFine
    <3>1. CASE n = q.turn
      <4>1. m \in At(vs[PluginOf(n)])
        BY <1>8, <3>1
      <4>2. IsPost(m) /\ m.req = r /\ m.turn = n
        BY <3>1 DEF IsPost, Message
      <4> QED BY <4>1, <4>2
    <3>2. CASE n \in 1 .. q.turn - 1
      BY <1>2, <2>1, <3>2 DEF ToldFine
    <3> QED BY <1>4, <3>1, <3>2
  <2> QED BY <1>3, <1>7, <2>2, <2>3, <2>4, <2>5, <2>6, <2>7 DEF RequestFine
<1>9. s.turn >= q.turn
  BY <1>4, <1>7
<1>10. CASE ~plugin[p].alive
  <2>1. plugin' = plugin
    BY <1>2, <1>10
  <2>2. RequestFine(r, s, a, h, plugin, store, disturbed, written)
    BY <1>8, <1>10
  <2>3. RequestFine(r, s, a, h, plugin, store', disturbed', written')
    BY <1>2, <2>2
  <2>4. slot' = [slot EXCEPT ![r] = a] /\ store' \in [Ids -> Items]
    BY <1>2, <1>5
  <2> QED BY <1>2, <1>7, <1>9, <2>1, <2>3, <2>4, ARequestMoves
<1>11. CASE plugin[p].alive
  <2>1. HasRoom(p) /\ plugin' = Put(p, m)
    BY <1>2, <1>11
  <2>2. m.req = r /\ m.turn = q.turn /\ IsPost(m) /\ ~IsQuestion(m)
    BY DEF Message, IsPost, IsQuestion, Asking
  <2>3. m \in Messages
    <3>1. q.carried \in Items /\ q.turn \in Nat
      BY <1>3 DEF RequestState
    <3> QED BY <3>1 DEF Messages, Message
  <2>4. PostFine(m, p, s)
    <3>1. q.turn \in 1 .. s.turn - 1 /\ q.turn \in 1 .. Turns("post")
      BY <1>4, <1>7
    <3> QED BY <1>7, <2>2, <3>1 DEF PostFine
  <2>5. slot' = [slot EXCEPT ![r] = a]
    BY <1>5
  <2> HIDE DEF m
  <2>6. /\ (\A c \in Plugins : plugin'[c].alive <=> plugin[c].alive) /\
           (\A c \in Plugins : At(plugin[c]) \subseteq At(plugin'[c])) /\
           m \in At(plugin'[p])
              => RequestFine(r, s, a, h, plugin', store, disturbed, written)
    BY <1>8
  <2> HIDE DEF p
  <2> QED BY <1>2, <1>4, <1>7, <1>9, <1>11, <2>1, <2>2, <2>3, <2>4, <2>5, <2>6, ARequestSends
<1> QED BY <1>10, <1>11

(* ------------------------- the plugins and the core ---------------------- *)

\* A step that moves messages about and loses no post, and may write an item.
LEMMA PluginsMove ==
    ASSUME ItemInv,
           UNCHANGED <<slot, req, said, written>>, CoreFine',
           store' \in [Ids -> Items],
           plugin' = [c \in Plugins |-> plugin'[c]],
           \A c \in Plugins : PluginFine(plugin'[c], c, req, slot),
           \A c \in Plugins : plugin'[c].alive => plugin[c].alive,
           \A c \in Plugins : \A m : m \in At(plugin[c]) /\ IsPost(m) => m \in At(plugin'[c]),
           \A x \in Requests :
               req[x].op = "edit" /\ req[x].stage \in {"auth", "pre"} /\ x \notin disturbed'
               => x \notin disturbed /\ store' = store
    PROVE  ItemInv'
<1>1. Shapes'
  BY DEF ItemInv, Shapes
<1>2. \A c \in Plugins : PluginFine(plugin'[c], c, req', slot')
  OBVIOUS
<1>3. ASSUME NEW x \in Requests
      PROVE  RequestFine(x, req'[x], slot'[x], said'[x], plugin', store', disturbed', written')
  <2>1. RequestFine(x, req[x], slot[x], said[x], plugin, store, disturbed, written)
    BY DEF ItemInv
  <2>2. RequestFine(x, req[x], slot[x], said[x], plugin', store', disturbed', written)
    BY <2>1, OthersStay
  <2> QED BY <2>2
<1> QED BY <1>1, <1>2, <1>3 DEF ItemInv

\* A call under way is nobody's mail.
LEMMA CallsAside ==
    ASSUME NEW v, NEW p, NEW qs, NEW as, PluginFine(v, p, qs, as), NEW c \in Calls
    PROVE  LET w == [v EXCEPT !.call = c] IN
           PluginFine(w, p, qs, as) /\ w.alive = v.alive /\ At(w) = At(v)
<1> DEFINE w == [v EXCEPT !.call = c]
<1>1. v \in PluginState
  BY DEF PluginFine
<1>2. w \in PluginState
  BY <1>1, Zenon DEF PluginState
<1>3. w.alive = v.alive /\ w.box = v.box /\ w.serving = v.serving
  BY <1>1 DEF PluginState
<1> HIDE DEF w
<1>4. At(w) = At(v)
  BY <1>3 DEF At
<1>5. PluginFine(w, p, qs, as)
  BY <1>2, <1>3, <1>4 DEF PluginFine, MailFine, OnceEach
<1> QED BY <1>3, <1>4, <1>5 DEF w

\* A plugin sends its call.
LEMMA SendCallKeeps ==
    ASSUME ItemInv, NEW p \in Plugins, NEW op \in {"get", "set", "del", "notify"},
           SendCall(p, op), UNCHANGED <<store, req, disturbed, written>>
    PROVE  ItemInv'
<1> DEFINE k == IF op = "notify" THEN "over" ELSE "waiting"
           v == plugin[p]  w == [v EXCEPT !.call = k]
<1>1. /\ plugin' = [plugin EXCEPT ![p].call = k]
      /\ inbox' = Append(inbox, [from |-> p, op |-> op]) /\ Len(inbox) < CoreCap
      /\ UNCHANGED <<core, slot, said>>
  BY DEF SendCall
<1>2. /\ plugin' = [c \in Plugins |-> plugin'[c]]
      /\ plugin'[p] = w
      /\ \A c \in Plugins \ {p} : plugin'[c] = plugin[c]
  BY <1>1 DEF ItemInv, Shapes
<1>3. k \in Calls
  BY DEF Calls
<1> HIDE DEF k
<1>4. \A c \in Plugins : PluginFine(plugin[c], c, req, slot)
  BY DEF ItemInv
<1>5. PluginFine(w, p, req, slot) /\ w.alive = v.alive /\ At(w) = At(v)
  BY <1>3, <1>4, CallsAside
<1> HIDE DEF w
<1>6. /\ \A c \in Plugins : PluginFine(plugin'[c], c, req, slot)
      /\ \A c \in Plugins : plugin'[c].alive => plugin[c].alive
      /\ \A c \in Plugins : At(plugin'[c]) = At(plugin[c])
  BY <1>2, <1>4, <1>5
<1>7. CoreFine'
  <2>1. [from |-> p, op |-> op] \in CoreCalls
    BY DEF CoreCalls
  <2>2. inbox \in Seq(CoreCalls) /\ core \in {None} \cup CoreCalls
    BY DEF ItemInv, CoreFine
  <2>3. inbox' \in Seq(CoreCalls) /\ Len(inbox') = Len(inbox) + 1 /\ Len(inbox) \in Nat
    BY <1>1, <2>1, <2>2
  <2>4. Len(inbox') <= CoreCap
    BY <1>1, <2>3, DispatchAssumption
  <2> QED BY <1>1, <2>2, <2>3, <2>4 DEF CoreFine
<1>8. store' \in [Ids -> Items]
  BY DEF ItemInv, Shapes
<1> QED BY <1>1, <1>2, <1>6, <1>7, <1>8, PluginsMove

\* A plugin takes the next message.
LEMMA ReceiveKeeps ==
    ASSUME ItemInv, NEW p \in Plugins, NEW calls \in BOOLEAN,
           Receive(p, calls), UNCHANGED <<store, req, disturbed, written>>
    PROVE  ItemInv'
<1> DEFINE k == IF calls THEN "sending" ELSE "none"
           v == plugin[p]
           w == [v EXCEPT !.serving = Head(v.box), !.box = Tail(@), !.call = k]
<1>1. /\ v.alive /\ v.serving = None /\ v.box # <<>>
      /\ plugin' = [plugin EXCEPT ![p].serving = Head(plugin[p].box),
                                  ![p].box = Tail(@), ![p].call = k]
      /\ UNCHANGED <<inbox, core, slot, said>>
  BY DEF Receive
<1>2. /\ plugin' = [c \in Plugins |-> plugin'[c]]
      /\ plugin'[p] = w
      /\ \A c \in Plugins \ {p} : plugin'[c] = plugin[c]
  BY <1>1 DEF ItemInv, Shapes
<1>3. k \in Calls
  BY DEF Calls
<1> HIDE DEF k
<1>4. \A c \in Plugins : PluginFine(plugin[c], c, req, slot)
  BY DEF ItemInv
<1>5. v \in PluginState /\ v.box \in Seq(Messages) /\ Len(v.box) \in Nat
  BY <1>4 DEF PluginFine, PluginState
<1>6. /\ w \in PluginState
      /\ w.alive = v.alive
      /\ Len(w.box) = Len(v.box) - 1
      /\ w.serving = v.box[1] /\ 1 \in DOMAIN v.box
      /\ DOMAIN w.box = 1 .. Len(v.box) - 1
      /\ \A i \in DOMAIN w.box : i + 1 \in DOMAIN v.box /\ w.box[i] = v.box[i + 1]
      /\ At(w) \subseteq At(v) /\ At(v) \subseteq At(w) \cup {None}
  <2>1. w = Taken(v, k)
    BY DEF Taken
  <2>2. v.box # <<>> /\ v.serving = None /\ v \in PluginState
    BY <1>1, <1>5
  <2> HIDE DEF w
  <2> QED BY <1>3, <2>1, <2>2, TakeMoves
<1> HIDE DEF w
<1>7. PluginFine(w, p, req, slot)
  <2>1. OnceEach(v) /\ MailFine(v, p, req, slot) /\ Len(v.box) <= MailboxCap
    BY <1>4 DEF PluginFine
  <2>2. Len(w.box) <= MailboxCap
    BY <1>5, <1>6, <2>1, DispatchAssumption
  <2>3. MailFine(w, p, req, slot)
    BY <1>6, <2>1 DEF MailFine
  <2>4. ASSUME NEW i \in DOMAIN w.box, NEW j \in DOMAIN w.box,
               IsQuestion(w.box[i]), IsQuestion(w.box[j]), w.box[i].req = w.box[j].req
        PROVE  i = j
    <3>1. /\ i + 1 \in DOMAIN v.box /\ j + 1 \in DOMAIN v.box
          /\ w.box[i] = v.box[i + 1] /\ w.box[j] = v.box[j + 1]
      BY <1>6
    <3>2. i + 1 = j + 1
      BY <2>1, <2>4, <3>1 DEF OnceEach
    <3> QED BY <1>5, <1>6, <3>2
  <2>5. ASSUME IsQuestion(w.serving), NEW i \in DOMAIN w.box
        PROVE  ~(IsQuestion(w.box[i]) /\ w.box[i].req = w.serving.req)
    <3>1. i + 1 # 1
      BY <1>5, <1>6
    <3> QED BY <1>6, <2>1, <2>5, <3>1 DEF OnceEach
  <2>6. OnceEach(w)
    BY <2>4, <2>5 DEF OnceEach
  <2> QED BY <1>1, <1>6, <2>2, <2>3, <2>6 DEF PluginFine
<1>8. /\ \A c \in Plugins : PluginFine(plugin'[c], c, req, slot)
      /\ \A c \in Plugins : plugin'[c].alive => plugin[c].alive
  BY <1>2, <1>4, <1>6, <1>7
<1>9. \A c \in Plugins : \A m : m \in At(plugin[c]) /\ IsPost(m) => m \in At(plugin'[c])
  <2>1. ~IsPost(None)
    BY DEF IsPost, None
  <2> QED BY <1>2, <1>6, <2>1
<1>10. CoreFine' /\ store' \in [Ids -> Items]
  BY <1>1 DEF ItemInv, CoreFine, Shapes
<1> QED BY <1>1, <1>2, <1>8, <1>9, <1>10, PluginsMove

\* The periodic thread tells those who live and have room.
LEMMA TickKeeps ==
    ASSUME ItemInv, Tick
    PROVE  ItemInv'
<1>1. /\ plugin' = [p \in Plugins |->
                      IF plugin[p].alive /\ HasRoom(p)
                        THEN [plugin[p] EXCEPT !.box = Append(@, Tidings)]
                        ELSE plugin[p]]
      /\ UNCHANGED <<inbox, core, slot, said, store, req, disturbed, written>>
  BY DEF Tick, call_periodic_job_hook, Tidings
<1>2. plugin' = [c \in Plugins |-> plugin'[c]]
  BY <1>1
<1>3. ASSUME NEW c \in Plugins
      PROVE  /\ PluginFine(plugin'[c], c, req, slot)
             /\ plugin'[c].alive => plugin[c].alive
             /\ At(plugin[c]) \subseteq At(plugin'[c])
  <2> DEFINE w == [plugin[c] EXCEPT !.box = Append(@, Tidings)]
  <2>1. PluginFine(plugin[c], c, req, slot)
    BY DEF ItemInv
  <2>2. Tidings \in Messages /\ ~IsQuestion(Tidings) /\ ~IsPost(Tidings)
    BY DEF Messages, Tidings, IsQuestion, IsPost, Asking
  <2>3. CASE plugin[c].alive /\ HasRoom(c)
    <3>1. plugin'[c] = w
      BY <1>1, <2>3
    <3>2. w.alive = plugin[c].alive /\ At(plugin[c]) \subseteq At(w)
      BY <2>1, <2>2, PutAdds DEF PluginFine
    <3>3. PluginFine(w, c, req, slot)
      BY <2>1, <2>2, <2>3, PutFine DEF HasRoom
    <3> QED BY <3>1, <3>2, <3>3
  <2>4. CASE ~(plugin[c].alive /\ HasRoom(c))
    <3>1. plugin'[c] = plugin[c]
      BY <1>1, <2>4
    <3> QED BY <2>1, <3>1
  <2> QED BY <2>3, <2>4
<1>4. CoreFine' /\ store' \in [Ids -> Items]
  BY <1>1 DEF ItemInv, CoreFine, Shapes
<1>5. \A c \in Plugins : \A m : m \in At(plugin[c]) /\ IsPost(m) => m \in At(plugin'[c])
  BY <1>3
<1> QED BY <1>1, <1>2, <1>3, <1>4, <1>5, PluginsMove

\* The core takes a call.
LEMMA CoreTakesKeeps ==
    ASSUME ItemInv, CoreTakes
    PROVE  ItemInv'
<1>1. /\ inbox # <<>> /\ core' = Head(inbox) /\ inbox' = Tail(inbox)
      /\ UNCHANGED <<plugin, slot, said, store, req, disturbed, written>>
  BY DEF CoreTakes, CoreTake
<1>2. CoreFine'
  <2>1. inbox \in Seq(CoreCalls) /\ Len(inbox) <= CoreCap
    BY DEF ItemInv, CoreFine
  <2>2. /\ Head(inbox) \in CoreCalls /\ Tail(inbox) \in Seq(CoreCalls)
        /\ Len(Tail(inbox)) = Len(inbox) - 1 /\ Len(inbox) \in Nat
    BY <1>1, <2>1
  <2>3. Len(Tail(inbox)) <= CoreCap
    BY <2>1, <2>2, DispatchAssumption
  <2> QED BY <1>1, <2>2, <2>3 DEF CoreFine
<1>3. store' \in [Ids -> Items] /\ plugin' = [c \in Plugins |-> plugin'[c]]
      /\ \A c \in Plugins : PluginFine(plugin'[c], c, req, slot)
  BY <1>1 DEF ItemInv, Shapes
<1> QED BY <1>1, <1>2, <1>3, PluginsMove

\* The core has done what it was called for, and answers.
LEMMA CoreServesKeeps ==
    ASSUME ItemInv, CoreServes
    PROVE  ItemInv'
<1> DEFINE p == core.from  v == plugin[p]
           k == IF v.call = "waiting" THEN "over" ELSE v.call
           w == [v EXCEPT !.call = k]
<1>1. /\ core # None /\ core' = None
      /\ plugin' = [plugin EXCEPT ![p].call = k]
      /\ UNCHANGED <<inbox, slot, said, req, written>>
  BY DEF CoreServes, CoreReply
<1>2. p \in Plugins
  BY <1>1 DEF ItemInv, CoreFine, CoreCalls
<1>3. \A c \in Plugins : PluginFine(plugin[c], c, req, slot)
  BY DEF ItemInv
<1>4. /\ plugin' = [c \in Plugins |-> plugin'[c]]
      /\ plugin'[p] = w
      /\ \A c \in Plugins \ {p} : plugin'[c] = plugin[c]
  BY <1>1, <1>2 DEF ItemInv, Shapes
<1>5. k \in Calls
  BY <1>2, <1>3 DEF PluginFine, PluginState, Calls
<1> HIDE DEF k
<1>6. PluginFine(w, p, req, slot) /\ w.alive = v.alive /\ At(w) = At(v)
  BY <1>2, <1>3, <1>5, CallsAside
<1> HIDE DEF w, p
<1>7. /\ \A c \in Plugins : PluginFine(plugin'[c], c, req, slot)
      /\ \A c \in Plugins : plugin'[c].alive => plugin[c].alive
      /\ \A c \in Plugins : At(plugin'[c]) = At(plugin[c])
  BY <1>3, <1>4, <1>6
<1>8. CoreFine'
  BY <1>1 DEF ItemInv, CoreFine
<1>9. store \in [Ids -> Items]
  BY DEF ItemInv, Shapes
<1>10. /\ store' \in [Ids -> Items]
       /\ (store' = store /\ disturbed' = disturbed) \/ disturbed' = disturbed \cup Underway
  <2>1. CASE core.op \in {"get", "notify"} /\ UNCHANGED <<store, disturbed>>
    BY <1>9, <2>1
  <2>2. ASSUME NEW id \in Ids, NEW x \in SentVals,
               store' = [store EXCEPT ![id] =
                          [val |-> x, owner |-> IF @ = Absent THEN NoUser ELSE @.owner]]
        PROVE  store' \in [Ids -> Items]
    <3> DEFINE o == IF store[id] = Absent THEN NoUser ELSE store[id].owner
    <3>1. o \in Users \cup {NoUser}
      BY <1>9 DEF Items, Item
    <3>2. x \in Vals
      BY ItemApiAssumption
    <3>3. [val |-> x, owner |-> o] \in Items
      BY <3>1, <3>2 DEF Items, Item
    <3>4. store' = [store EXCEPT ![id] = [val |-> x, owner |-> o]]
      BY <2>2
    <3> HIDE DEF o
    <3> QED BY <1>9, <3>3, <3>4
  <2>3. ASSUME NEW id \in Ids, store' = [store EXCEPT ![id] = Absent]
        PROVE  store' \in [Ids -> Items]
    BY <1>9, <2>3 DEF Items
  <2> QED BY <2>1, <2>2, <2>3 DEF CoreServes
<1>11. \A x \in Requests :
         req[x].op = "edit" /\ req[x].stage \in {"auth", "pre"} /\ x \notin disturbed'
         => x \notin disturbed /\ store' = store
  BY <1>10 DEF Underway
<1> QED BY <1>1, <1>4, <1>7, <1>8, <1>10, <1>11, PluginsMove

(* ------------------------------ the answers ------------------------------ *)

\* The question of a request that was answered.
LEMMA AnsweredFine ==
    ASSUME NEW r \in Requests, NEW q, NEW a, NEW h,
           NEW vs, NEW items, NEW others, NEW done,
           RequestFine(r, q, Empty, h, vs, items, others, done),
           q.pc = "wait", a \in Answers(Question(q, r)) \cup {Dropped}
    PROVE  RequestFine(r, q, a, Said(h, Question(q, r), a), vs, items, others, done)
<1> DEFINE m == Question(q, r)  g == Said(h, m, a)
<1>1. /\ q \in RequestState /\ PhaseFine(q, Empty, h, r) /\ AskedFine(q, Empty, h, vs)
      /\ VetoFine(q, Empty, h) /\ LeftFine(q, Empty, h) /\ h.veto \in BOOLEAN
      /\ WrittenFine(q, h, r, done) /\ ToldFine(q, h, r, vs) /\ OwnerFine(q, r, items, others)
  BY DEF RequestFine
<1>2. /\ q.stage \in Asking /\ q.stage # "none" /\ q.stage # "post"
      /\ ~Told(q, Empty)
  BY <1>1 DEF PhaseFine, Asking, Told
<1>3. /\ m.hook = q.stage /\ m.req = r /\ m.turn = q.turn
  BY <1>1, <1>2, QuestionIs
<1>4. /\ a # Empty
      /\ a.verdict \in {"ok", "no", "not implemented", "dropped"}
      /\ a.verdict = "no" => q.stage \in {"auth", "pre"}
      /\ q.stage = "db" /\ a.verdict # "dropped" =>
           a.carried \subseteq Ids /\ (a.verdict # "ok" => a.carried = Ids)
      /\ q.stage = "filter" /\ a.verdict # "dropped" => a.carried \subseteq q.page
  BY <1>1, <1>2, AnswersAre
<1>5. Told(q, a)
  BY <1>4 DEF Told
<1>6. h.veto = FALSE /\ h.served = 0
  BY <1>1, <1>2 DEF VetoFine
<1> DEFINE kept == IF q.stage \in {"pre", "db", "filter"} /\ a.verdict # "dropped"
                     THEN IF q.stage = "pre" THEN <<a.carried>>
                          ELSE IF h.left = <<>> THEN <<a.carried>>
                          ELSE <<h.left[1] \cap a.carried>>
                     ELSE h.left
           seen == IF q.stage = "filter" /\ a.verdict # "dropped"
                     THEN IF h.shown = <<>> THEN <<a.carried>>
                          ELSE <<h.shown[1] \cap a.carried>>
                     ELSE h.shown
<1>7. /\ g.asked = h.asked \cup {<<q.stage, q.turn>>}
      /\ g.veto = (q.stage \in {"auth", "pre"} /\ a.verdict = "no")
      /\ g.served = IF q.stage = "route" /\ a.verdict = "ok" THEN 1 ELSE 0
      /\ g.left = kept /\ g.shown = seen
  BY <1>3, <1>6 DEF Said
<1> HIDE DEF m, g
<1>8. PhaseFine(q, a, g, r)
  BY <1>1, <1>2 DEF PhaseFine
<1>9. AskedFine(q, a, g, vs)
  <2>1. \A hook, n : AskedBefore(hook, n, h, vs) => AskedBefore(hook, n, g, vs)
    BY <1>7 DEF AskedBefore
  <2>2. AskedBefore(q.stage, q.turn + 1, g, vs)
    <3>1. q.turn \in Nat
      BY <1>1 DEF RequestState
    <3>2. \A k \in 1 .. (q.turn + 1) - 1 : k \in 1 .. q.turn - 1 \/ k = q.turn
      BY <3>1
    <3>3. AskedBefore(q.stage, q.turn, h, vs)
      BY <1>1, <1>2 DEF AskedFine
    <3> QED BY <1>7, <3>2, <3>3 DEF AskedBefore
  <2> QED BY <1>1, <1>2, <2>1, <2>2 DEF AskedFine
<1>10. VetoFine(q, a, g) /\ g.veto \in BOOLEAN
  BY <1>4, <1>5, <1>7 DEF VetoFine
<1>11. LeftFine(q, a, g)
  <2>1. CASE a.verdict = "dropped" \/ q.stage \notin {"pre", "db", "filter"}
    <3>1. g.left = h.left /\ g.shown = h.shown
      BY <1>7, <2>1
    <3>2. /\ HeldNow(q, a) = HeldNow(q, Empty)
          /\ q.stage = "db" => FiltersNow(q, a) = FiltersNow(q, Empty)
          /\ q.stage = "filter" => PageNow(q, a) = PageNow(q, Empty)
      BY <1>2, <2>1 DEF HeldNow, FiltersNow, PageNow
    <3> QED BY <1>1, <3>1, <3>2 DEF LeftFine
  <2>2. CASE a.verdict # "dropped" /\ q.stage = "pre"
    <3>1. g.left = <<a.carried>> /\ HeldNow(q, a) = a.carried
      BY <1>5, <1>7, <2>2 DEF HeldNow
    <3>2. g.shown = <<>>
      BY <1>1, <1>7, <2>2 DEF LeftFine
    <3> QED BY <2>2, <3>1, <3>2 DEF LeftFine
  <2>3. CASE a.verdict # "dropped" /\ q.stage = "db"
    <3>1. q.op # "edit" /\ g.shown = <<>>
      BY <1>1, <1>7, <2>3, StagesAre DEF PhaseFine, LeftFine
    <3>2. {i \in Ids : \A f \in FiltersNow(q, a) : i \in f}
            \subseteq {i \in Ids : \A f \in FiltersNow(q, Empty) : i \in f} \cap a.carried
      BY <1>2, <1>4, <1>5, <2>3 DEF FiltersNow
    <3>3. CASE h.left = <<>>
      <4>1. g.left = <<a.carried>>
        BY <1>7, <2>3, <3>3
      <4> QED BY <2>3, <3>1, <3>2, <4>1 DEF LeftFine
    <3>4. CASE h.left # <<>>
      <4>1. g.left = <<h.left[1] \cap a.carried>>
        BY <1>7, <2>3, <3>4
      <4>2. {i \in Ids : \A f \in FiltersNow(q, Empty) : i \in f} \subseteq h.left[1]
        BY <1>1, <2>3, <3>4 DEF LeftFine
      <4> QED BY <2>3, <3>1, <3>2, <4>1, <4>2 DEF LeftFine
    <3> QED BY <3>3, <3>4
  <2>4. CASE a.verdict # "dropped" /\ q.stage = "filter"
    <3>1. q.op # "edit"
      BY <1>1, <2>4, StagesAre DEF PhaseFine
    <3>2. PageNow(q, a) = a.carried /\ PageNow(q, Empty) = q.page /\ a.carried \subseteq q.page
      BY <1>2, <1>4, <1>5, <2>4 DEF PageNow
    <3>3. g.left = <<g.left[1]>> /\ (~q.lost => a.carried \subseteq g.left[1])
      <4>1. CASE h.left = <<>>
        <5>1. g.left = <<a.carried>>
          BY <1>7, <2>4, <4>1
        <5> QED BY <5>1
      <4>2. CASE h.left # <<>>
        <5>1. g.left = <<h.left[1] \cap a.carried>>
          BY <1>7, <2>4, <4>2
        <5>2. ~q.lost => q.page \subseteq h.left[1]
          BY <1>1, <2>4, <3>2, <4>2 DEF LeftFine
        <5> QED BY <3>2, <5>1, <5>2
      <4> QED BY <4>1, <4>2
    <3>4. g.shown = <<g.shown[1]>> /\ a.carried \subseteq g.shown[1]
      <4>1. CASE h.shown = <<>>
        <5>1. g.shown = <<a.carried>>
          BY <1>7, <2>4, <4>1
        <5> QED BY <5>1
      <4>2. CASE h.shown # <<>>
        <5>1. g.shown = <<h.shown[1] \cap a.carried>>
          BY <1>7, <2>4, <4>2
        <5>2. q.page \subseteq h.shown[1]
          BY <1>1, <2>4, <3>2, <4>2 DEF LeftFine
        <5> QED BY <3>2, <5>1, <5>2
      <4> QED BY <4>1, <4>2
    <3> QED BY <2>4, <3>1, <3>2, <3>3, <3>4 DEF LeftFine
  <2> QED BY <2>1, <2>2, <2>3, <2>4
<1>12. WrittenFine(q, g, r, done)
  <2>1. \A n : <<"post", n>> \in g.asked => <<"post", n>> \in h.asked
    BY <1>2, <1>7
  <2> QED BY <1>1, <2>1 DEF WrittenFine
<1>13. ToldFine(q, g, r, vs)
  BY <1>2 DEF ToldFine
<1> QED BY <1>1, <1>8, <1>9, <1>10, <1>11, <1>12, <1>13 DEF RequestFine, m, g

\* A request whose question went down with its plugin.
LEMMA DroppedFine ==
    ASSUME NEW r \in Requests, NEW q, NEW h,
           NEW vs, NEW items, NEW others, NEW done,
           RequestFine(r, q, Empty, h, vs, items, others, done),
           q.pc = "wait", ~vs[PluginOf(q.turn)].alive
    PROVE  RequestFine(r, q, Dropped, h, vs, items, others, done)
<1>1. /\ q \in RequestState /\ PhaseFine(q, Empty, h, r) /\ AskedFine(q, Empty, h, vs)
      /\ VetoFine(q, Empty, h) /\ LeftFine(q, Empty, h) /\ h.veto \in BOOLEAN
      /\ WrittenFine(q, h, r, done) /\ ToldFine(q, h, r, vs) /\ OwnerFine(q, r, items, others)
  BY DEF RequestFine
<1>2. q.stage \in Asking /\ ~Told(q, Empty)
  BY <1>1 DEF PhaseFine, Told
<1>3. Dropped.verdict = "dropped"
  BY DEF Dropped
<1>4. PhaseFine(q, Dropped, h, r)
  BY <1>1 DEF PhaseFine
<1>5. AskedFine(q, Dropped, h, vs)
  <2>1. AskedBefore(q.stage, q.turn, h, vs)
    BY <1>1, <1>2 DEF AskedFine
  <2>2. q.turn \in Nat
    BY <1>1 DEF RequestState
  <2>3. \A k \in 1 .. (q.turn + 1) - 1 : k \in 1 .. q.turn - 1 \/ k = q.turn
    BY <2>2
  <2>4. AskedBefore(q.stage, q.turn + 1, h, vs)
    BY <2>1, <2>3 DEF AskedBefore
  <2> QED BY <1>1, <2>4 DEF AskedFine
<1>6. VetoFine(q, Dropped, h)
  BY <1>1, <1>2 DEF VetoFine
<1>7. HeldNow(q, Dropped) = HeldNow(q, Empty) /\ PageNow(q, Dropped) = PageNow(q, Empty)
      /\ FiltersNow(q, Dropped) = FiltersNow(q, Empty)
  BY <1>2, <1>3 DEF HeldNow, PageNow, FiltersNow
<1>8. LeftFine(q, Dropped, h)
  BY <1>1, <1>7 DEF LeftFine
<1> QED BY <1>1, <1>4, <1>5, <1>6, <1>8 DEF RequestFine

\* A post that was heard.
LEMMA PostHeard ==
    ASSUME NEW r \in Requests, NEW q, NEW a, NEW h, NEW m, NEW p \in Plugins, NEW b,
           NEW vs, NEW vs2, NEW items, NEW others, NEW done,
           RequestFine(r, q, a, h, vs, items, others, done),
           IsPost(m), PostFine(m, p, q),
           \A c \in Plugins : vs2[c].alive =>
               /\ vs[c].alive
               /\ \A n \in At(vs[c]) : IsPost(n) /\ n.req = r /\ n # m => n \in At(vs2[c])
    PROVE  RequestFine(r, q, a, Said(h, m, b), vs2, items, others, done)
<1> DEFINE g == Said(h, m, b)
<1>1. /\ q \in RequestState /\ PhaseFine(q, a, h, r) /\ AskedFine(q, a, h, vs)
      /\ VetoFine(q, a, h) /\ LeftFine(q, a, h) /\ h.veto \in BOOLEAN
      /\ WrittenFine(q, h, r, done) /\ ToldFine(q, h, r, vs) /\ OwnerFine(q, r, items, others)
  BY DEF RequestFine
<1>2. q.stage = "post" /\ m.turn \in 1 .. Turns("post") /\ m.hook = "post"
  BY DEF PostFine, IsPost
<1>3. /\ g.asked = h.asked \cup {<<"post", m.turn>>}
      /\ g.veto = h.veto /\ g.served = h.served /\ g.left = h.left
      /\ g.shown = h.shown
  BY <1>1, <1>2 DEF Said
<1> HIDE DEF g
<1>4. PhaseFine(q, a, g, r)
  BY <1>1, <1>2 DEF PhaseFine
<1>5. AskedFine(q, a, g, vs2)
  <2>1. \A hook, n : n \in Nat /\ AskedBefore(hook, n, h, vs) => AskedBefore(hook, n, g, vs2)
    BY <1>3, TurnFacts DEF AskedBefore
  <2>2. q.turn + 1 \in Nat /\ Turns("auth") + 1 \in Nat /\ Turns("pre") + 1 \in Nat
        /\ q.turn \in Nat
    BY <1>1, TurnFacts DEF Hooks, RequestState
  <2> QED BY <1>1, <2>1, <2>2 DEF AskedFine
<1>6. VetoFine(q, a, g) /\ LeftFine(q, a, g)
  BY <1>1, <1>3 DEF VetoFine, LeftFine
<1>7. WrittenFine(q, g, r, done)
  BY <1>1, <1>2, <1>3 DEF WrittenFine
<1>8. ToldFine(q, g, r, vs2)
  <2> SUFFICES ASSUME NEW n \in 1 .. q.turn - 1, vs2[PluginOf(n)].alive
               PROVE  \/ <<"post", n>> \in g.asked
                      \/ \E x \in At(vs2[PluginOf(n)]) :
                           IsPost(x) /\ x.req = r /\ x.turn = n
    BY DEF ToldFine
  <2>1. PluginOf(n) \in Plugins
    BY <1>1, TurnFacts DEF RequestState
  <2>2. vs[PluginOf(n)].alive
    BY <2>1
  <2>3. CASE <<"post", n>> \in h.asked
    BY <1>3, <2>3
  <2>4. ASSUME NEW x \in At(vs[PluginOf(n)]), IsPost(x), x.req = r, x.turn = n
        PROVE  \/ <<"post", n>> \in g.asked
               \/ \E y \in At(vs2[PluginOf(n)]) : IsPost(y) /\ y.req = r /\ y.turn = n
    <3>1. CASE x = m
      BY <1>3, <2>4, <3>1
    <3>2. CASE x # m
      <4>1. x \in At(vs2[PluginOf(n)])
        BY <2>1, <2>4, <3>2
      <4> QED BY <2>4, <4>1
    <3> QED BY <3>1, <3>2
  <2> QED BY <1>1, <1>2, <2>2, <2>3, <2>4 DEF ToldFine
<1> QED BY <1>1, <1>3, <1>4, <1>5, <1>6, <1>7, <1>8 DEF RequestFine, g

\* A plugin that is done with its message.
LEMMA DoneWith ==
    ASSUME NEW v, NEW p, NEW qs, NEW as, PluginFine(v, p, qs, as), NEW w,
           w = [v EXCEPT !.serving = None]
    PROVE  /\ PluginFine(w, p, qs, as)
           /\ w.alive = v.alive
           /\ At(w) \subseteq At(v) \cup {None}
           /\ At(v) \subseteq At(w) \cup {v.serving}
           /\ IsQuestion(v.serving) =>
                \A m \in At(w) : ~(IsQuestion(m) /\ m.req = v.serving.req)
<1>1. v \in PluginState
  BY DEF PluginFine
<1>2. w \in PluginState
  BY <1>1, Zenon DEF PluginState
<1>3. w.alive = v.alive /\ w.box = v.box /\ w.serving = None
  BY <1>1 DEF PluginState
<1>4. At(w) \subseteq At(v) \cup {None} /\ At(v) \subseteq At(w) \cup {v.serving}
  BY <1>3 DEF At
<1>5. ~IsQuestion(None) /\ ~IsPost(None)
  BY DEF IsQuestion, IsPost, None, Asking
<1>6. PluginFine(w, p, qs, as)
  <2>1. MailFine(w, p, qs, as)
    BY <1>4, <1>5 DEF PluginFine, MailFine
  <2>2. OnceEach(w)
    BY <1>3, <1>5 DEF PluginFine, OnceEach
  <2> QED BY <1>2, <1>3, <2>1, <2>2 DEF PluginFine
<1>7. IsQuestion(v.serving) => \A m \in At(w) : ~(IsQuestion(m) /\ m.req = v.serving.req)
  BY <1>3, <1>5 DEF PluginFine, OnceEach, At
<1> QED BY <1>3, <1>4, <1>6, <1>7

\* A plugin finishes its message, with an answer or without.
LEMMA FinishKeeps ==
    ASSUME ItemInv, NEW p \in Plugins, NEW a, Finish(p, a),
           UNCHANGED <<store, req, disturbed, written>>,
           IsQuestion(plugin[p].serving) => a \in Answers(plugin[p].serving) \cup {Dropped}
    PROVE  ItemInv'
<1> DEFINE v == plugin[p]  m == v.serving  w == [v EXCEPT !.serving = None]
<1>1. /\ v.alive /\ m # None
      /\ plugin' = [plugin EXCEPT ![p].serving = None]
      /\ slot' = IF m.hook \in Unanswered THEN slot ELSE [slot EXCEPT ![m.req] = a]
      /\ said' = IF m.hook = "tick" THEN said ELSE [said EXCEPT ![m.req] = Said(@, m, a)]
      /\ UNCHANGED <<inbox, core, store, req, disturbed, written>>
  BY DEF Finish
<1>2. /\ plugin' = [c \in Plugins |-> plugin'[c]]
      /\ plugin'[p] = w
      /\ \A c \in Plugins \ {p} : plugin'[c] = plugin[c]
  BY <1>1 DEF ItemInv, Shapes
<1>3. \A c \in Plugins : PluginFine(plugin[c], c, req, slot)
  BY DEF ItemInv
<1>4. /\ PluginFine(w, p, req, slot)
      /\ w.alive = v.alive
      /\ At(w) \subseteq At(v) \cup {None}
      /\ At(v) \subseteq At(w) \cup {m}
      /\ IsQuestion(m) => \A n \in At(w) : ~(IsQuestion(n) /\ n.req = m.req)
  BY <1>3, DoneWith
<1>5. m \in At(v) /\ v \in PluginState
  BY <1>3 DEF At, PluginFine
<1>6. /\ IsQuestion(m) \/ IsPost(m) => m.req \in Requests
      /\ IsQuestion(m) <=> m.hook \notin Unanswered
      /\ m = Tidings \/ IsQuestion(m) \/ IsPost(m)
  BY <1>1, <1>5, MailIs
<1>7. /\ IsQuestion(m) => QuestionFine(m, p, req[m.req], slot[m.req])
      /\ IsPost(m) => PostFine(m, p, req[m.req])
  BY <1>3, <1>5 DEF PluginFine, MailFine
<1>8. ~IsQuestion(None) /\ ~IsPost(None)
  BY DEF IsQuestion, IsPost, None, Asking
<1> HIDE DEF w
<1>9. /\ \A c \in Plugins : PluginFine(plugin'[c], c, req, slot)
      /\ \A c \in Plugins : plugin'[c].alive <=> plugin[c].alive
      /\ \A c \in Plugins : \A n : n \in At(plugin[c]) /\ n # m => n \in At(plugin'[c])
  BY <1>2, <1>3, <1>4
<1>10. CoreFine' /\ store' \in [Ids -> Items]
  BY <1>1 DEF ItemInv, CoreFine, Shapes
<1>11. CASE m = Tidings
  <2>1. m.hook = "tick" /\ ~IsPost(m)
    BY <1>11 DEF Tidings, IsPost
  <2>2. UNCHANGED <<slot, req, said, written>>
    BY <1>1, <2>1 DEF Unanswered
  <2>3. \A c \in Plugins : \A n : n \in At(plugin[c]) /\ IsPost(n) => n \in At(plugin'[c])
    BY <1>9, <2>1
  <2> HIDE DEF m, v
  <2> QED BY <1>1, <1>2, <1>9, <1>10, <2>2, <2>3, PluginsMove
<1>12. CASE IsPost(m)
  <2> DEFINE r == m.req
  <2>1. m.hook = "post" /\ r \in Requests
    BY <1>6, <1>12 DEF IsPost
  <2>2. slot' = slot /\ said' = [said EXCEPT ![r] = Said(@, m, a)]
    BY <1>1, <2>1 DEF Unanswered
  <2>3. /\ said' = [x \in Requests |-> said'[x]]
        /\ said'[r] = Said(said[r], m, a)
        /\ \A x \in Requests \ {r} : said'[x] = said[x]
    BY <2>1, <2>2 DEF ItemInv, Shapes
  <2>4. Shapes'
    BY <1>1, <1>2, <2>2, <2>3 DEF ItemInv, Shapes
  <2>5. ASSUME NEW x \in Requests
        PROVE  RequestFine(x, req[x], slot[x], said'[x], plugin', store, disturbed, written)
    <3>1. RequestFine(x, req[x], slot[x], said[x], plugin, store, disturbed, written)
      BY DEF ItemInv
    <3>2. CASE x = r
      <4>1. PostFine(m, p, req[x])
        BY <1>7, <1>12, <3>2
      <4>2. \A c \in Plugins : plugin'[c].alive =>
               /\ plugin[c].alive
               /\ \A n \in At(plugin[c]) : IsPost(n) /\ n.req = x /\ n # m => n \in At(plugin'[c])
        BY <1>9
      <4> HIDE DEF m, v
      <4>3. RequestFine(x, req[x], slot[x], Said(said[x], m, a), plugin', store, disturbed, written)
        BY <1>12, <3>1, <4>1, <4>2, PostHeard
      <4> QED BY <2>3, <3>2, <4>3
    <3>3. CASE x # r
      <4>1. \A c \in Plugins : plugin'[c].alive =>
               /\ plugin[c].alive
               /\ \A n \in At(plugin[c]) : IsPost(n) /\ n.req = x => n \in At(plugin'[c])
        BY <1>9, <3>3
      <4> HIDE DEF m, v
      <4>2. RequestFine(x, req[x], slot[x], said[x], plugin', store, disturbed, written)
        BY <3>1, <4>1, OthersStay
      <4> QED BY <2>3, <3>3, <4>2
    <3> QED BY <3>2, <3>3
  <2> HIDE DEF m, v, r
  <2>6. \A c \in Plugins : PluginFine(plugin'[c], c, req', slot')
    BY <1>1, <1>9, <2>2
  <2>7. \A x \in Requests :
          RequestFine(x, req'[x], slot'[x], said'[x], plugin', store', disturbed', written')
    BY <1>1, <2>2, <2>5
  <2> QED BY <1>10, <2>4, <2>6, <2>7 DEF ItemInv
<1>13. CASE IsQuestion(m)
  <2> DEFINE r == m.req
  <2>1. m.hook \notin Unanswered /\ m.hook # "tick" /\ r \in Requests /\ ~IsPost(m)
    BY <1>6, <1>13 DEF IsPost, Unanswered
  <2>2. slot' = [slot EXCEPT ![r] = a] /\ said' = [said EXCEPT ![r] = Said(@, m, a)]
    BY <1>1, <2>1
  <2>3. /\ said' = [x \in Requests |-> said'[x]] /\ slot' = [x \in Requests |-> slot'[x]]
        /\ said'[r] = Said(said[r], m, a) /\ slot'[r] = a
        /\ \A x \in Requests \ {r} : said'[x] = said[x] /\ slot'[x] = slot[x]
    BY <2>1, <2>2 DEF ItemInv, Shapes
  <2>4. Shapes'
    BY <1>1, <1>2, <2>3 DEF ItemInv, Shapes
  <2>5. req[r].pc = "wait" /\ slot[r] = Empty /\ m = Question(req[r], r)
        /\ p = PluginOf(req[r].turn)
    BY <1>7, <1>13 DEF QuestionFine
  <2>6. ASSUME NEW x \in Requests
        PROVE  RequestFine(x, req[x], slot'[x], said'[x], plugin', store, disturbed, written)
    <3>1. RequestFine(x, req[x], slot[x], said[x], plugin, store, disturbed, written)
      BY DEF ItemInv
    <3>2. \A c \in Plugins : plugin'[c].alive =>
             /\ plugin[c].alive
             /\ \A n \in At(plugin[c]) : IsPost(n) /\ n.req = x => n \in At(plugin'[c])
      BY <1>9, <2>1
    <3> HIDE DEF m, v
    <3>3. RequestFine(x, req[x], slot[x], said[x], plugin', store, disturbed, written)
      BY <3>1, <3>2, OthersStay
    <3>4. CASE x = r
      <4>1. a \in Answers(Question(req[r], r)) \cup {Dropped}
        BY <1>13, <2>5 DEF m, v
      <4>2. RequestFine(r, req[r], Empty, said[r], plugin', store, disturbed, written)
        BY <2>5, <3>3, <3>4
      <4> HIDE DEF r
      <4>3. RequestFine(r, req[r], a, Said(said[r], Question(req[r], r), a), plugin', store,
                        disturbed, written)
        BY <2>1, <2>5, <4>1, <4>2, AnsweredFine
      <4> QED BY <2>3, <2>5, <3>4, <4>3
    <3>5. CASE x # r
      BY <2>3, <3>3, <3>5
    <3> QED BY <3>4, <3>5
  <2>7. ASSUME NEW c \in Plugins PROVE PluginFine(plugin'[c], c, req, slot')
    <3>1. PluginFine(plugin'[c], c, req, slot) /\ plugin'[c] \in PluginState
      BY <1>9 DEF PluginFine
    <3>2. ASSUME NEW n \in At(plugin'[c]), IsQuestion(n) PROVE n.req \in Requests \ {r}
      <4>1. n.req \in Requests
        BY <3>1, <3>2, MailIs
      <4>2. CASE c = p
        BY <1>2, <1>4, <1>13, <3>2, <4>1, <4>2
      <4>3. CASE c # p
        <5>1. QuestionFine(n, c, req[n.req], slot[n.req])
          BY <3>1, <3>2 DEF PluginFine, MailFine
        <5>2. c = PluginOf(req[n.req].turn)
          BY <5>1 DEF QuestionFine
        <5> QED BY <2>5, <4>1, <4>3, <5>2
      <4> QED BY <4>2, <4>3
    <3>3. \A n \in At(plugin'[c]) : IsQuestion(n) => slot'[n.req] = slot[n.req]
      BY <2>3, <3>2
    <3>4. MailFine(plugin'[c], c, req, slot')
      BY <3>1, <3>3 DEF PluginFine, MailFine
    <3> QED BY <3>1, <3>4 DEF PluginFine
  <2> HIDE DEF m, v, r
  <2>8. \A c \in Plugins : PluginFine(plugin'[c], c, req', slot')
    BY <1>1, <2>7
  <2>9. \A x \in Requests :
          RequestFine(x, req'[x], slot'[x], said'[x], plugin', store', disturbed', written')
    BY <1>1, <2>6
  <2> QED BY <1>10, <2>4, <2>8, <2>9 DEF ItemInv
<1> QED BY <1>6, <1>11, <1>12, <1>13

\* A plugin ends, with all that lies there.
LEMMA EndKeeps ==
    ASSUME ItemInv, NEW p \in Plugins, End(p), UNCHANGED <<store, req, disturbed, written>>
    PROVE  ItemInv'
<1> DEFINE v == plugin[p]
           w == [v EXCEPT !.alive = FALSE, !.box = <<>>, !.serving = None, !.call = "none"]
<1>1. /\ v.alive
      /\ plugin' = [plugin EXCEPT ![p].alive = FALSE, ![p].box = <<>>,
                                  ![p].serving = None, ![p].call = "none"]
      /\ slot' = [r \in Requests |-> IF r \in WaitingOn(p) THEN Dropped ELSE slot[r]]
      /\ UNCHANGED <<inbox, core, said, store, req, disturbed, written>>
  BY DEF End
<1>2. /\ plugin' = [c \in Plugins |-> plugin'[c]]
      /\ plugin'[p] = w
      /\ \A c \in Plugins \ {p} : plugin'[c] = plugin[c]
  BY <1>1 DEF ItemInv, Shapes
<1>3. \A c \in Plugins : PluginFine(plugin[c], c, req, slot) /\ plugin[c] \in PluginState
  BY DEF ItemInv, PluginFine
<1>4. w \in PluginState
  <2>1. <<>> \in Seq(Messages) /\ FALSE \in BOOLEAN /\ "none" \in Calls
    BY DEF Calls
  <2> QED BY <1>3, <2>1, Zenon DEF PluginState
<1>5. w.alive = FALSE /\ w.box = <<>> /\ w.serving = None
  BY <1>3 DEF PluginState
<1> HIDE DEF w
<1>6. At(w) = {None} /\ ~IsQuestion(None) /\ ~IsPost(None)
  <2>1. DOMAIN w.box = {}
    BY <1>5
  <2>2. At(w) = {None}
    BY <1>5, <2>1 DEF At
  <2> QED BY <2>2 DEF IsQuestion, IsPost, None, Asking
<1>7. \A x : x \in WaitingOn(p) <=> \E m \in At(v) : IsQuestion(m) /\ m.req = x
  <2>1. \A m \in At(v) : IsQuestion(m) <=> m # None /\ m.hook \notin Unanswered
    BY <1>3, MailIs
  <2> QED BY <2>1 DEF WaitingOn, At
<1>8. ASSUME NEW x \in WaitingOn(p)
      PROVE  /\ x \in Requests /\ req[x].pc = "wait" /\ slot[x] = Empty
             /\ p = PluginOf(req[x].turn)
  <2>1. PICK m \in At(v) : IsQuestion(m) /\ m.req = x
    BY <1>7
  <2>2. x \in Requests
    BY <1>3, <2>1, MailIs
  <2>3. QuestionFine(m, p, req[x], slot[x])
    BY <1>3, <2>1 DEF PluginFine, MailFine
  <2> QED BY <2>2, <2>3 DEF QuestionFine
<1>9. ASSUME NEW c \in Plugins PROVE PluginFine(plugin'[c], c, req, slot')
  <2>1. CASE c = p
    <3>1. MailFine(w, p, req, slot')
      BY <1>6 DEF MailFine
    <3>2. OnceEach(w)
      BY <1>5, <1>6 DEF OnceEach
    <3>3. Len(w.box) <= MailboxCap
      BY <1>5, DispatchAssumption
    <3> QED BY <1>2, <1>4, <1>5, <2>1, <3>1, <3>2, <3>3 DEF PluginFine
  <2>2. CASE c # p
    <3>1. plugin'[c] = plugin[c]
      BY <1>2, <2>2
    <3>2. ASSUME NEW n \in At(plugin[c]), IsQuestion(n) PROVE slot'[n.req] = slot[n.req]
      <4>1. n.req \in Requests
        BY <1>3, <3>2, MailIs
      <4>2. QuestionFine(n, c, req[n.req], slot[n.req])
        BY <1>3, <3>2 DEF PluginFine, MailFine
      <4>3. c = PluginOf(req[n.req].turn)
        BY <4>2 DEF QuestionFine
      <4>4. n.req \notin WaitingOn(p)
        BY <1>8, <2>2, <4>3
      <4> QED BY <1>1, <4>1, <4>4
    <3>3. MailFine(plugin[c], c, req, slot')
      BY <1>3, <3>2 DEF PluginFine, MailFine
    <3> QED BY <1>3, <3>1, <3>3 DEF PluginFine
  <2> QED BY <2>1, <2>2
<1>10. ASSUME NEW x \in Requests
       PROVE  RequestFine(x, req[x], slot'[x], said[x], plugin', store, disturbed, written)
  <2>1. RequestFine(x, req[x], slot[x], said[x], plugin, store, disturbed, written)
    BY DEF ItemInv
  <2>2. \A c \in Plugins : plugin'[c].alive =>
           /\ plugin[c].alive
           /\ \A n \in At(plugin[c]) : IsPost(n) /\ n.req = x => n \in At(plugin'[c])
    BY <1>2, <1>5
  <2>3. RequestFine(x, req[x], slot[x], said[x], plugin', store, disturbed, written)
    BY <2>1, <2>2, OthersStay
  <2>4. CASE x \in WaitingOn(p)
    <3>1. slot'[x] = Dropped
      BY <1>1, <2>4
    <3>2. ~plugin'[PluginOf(req[x].turn)].alive
      BY <1>2, <1>5, <1>8, <2>4
    <3>3. RequestFine(x, req[x], Empty, said[x], plugin', store, disturbed, written)
      BY <1>8, <2>3, <2>4
    <3> QED BY <1>8, <2>4, <3>1, <3>2, <3>3, DroppedFine
  <2>5. CASE x \notin WaitingOn(p)
    <3>1. slot'[x] = slot[x]
      BY <1>1, <2>5
    <3> QED BY <2>3, <3>1
  <2> QED BY <2>4, <2>5
<1>11. Shapes' /\ CoreFine'
  BY <1>1, <1>2 DEF ItemInv, Shapes, CoreFine
<1>12. \A c \in Plugins : PluginFine(plugin'[c], c, req', slot')
  BY <1>1, <1>9
<1>13. \A x \in Requests :
         RequestFine(x, req'[x], slot'[x], said'[x], plugin', store', disturbed', written')
  BY <1>1, <1>10
<1> QED BY <1>11, <1>12, <1>13 DEF ItemInv

(* ------------------------------- beginnings ------------------------------ *)

\* q is a request of the given operation that begins, before it is answered or
\* sent anywhere.
Starts(q, op, id, carried, page, forbidden) ==
    /\ q \in RequestState
    /\ q.stage = "none"
    /\ q.op = op /\ q.id = id /\ q.carried = carried /\ q.page = page
    /\ q.forbidden = forbidden

\* The records that requests begin with.
LEMMA Starting ==
    ASSUME NEW op \in Ops
    PROVE  /\ Starts([Idle EXCEPT !.op = op], op, 0, Absent, {}, FALSE)
           /\ \A id \in Ids \cup {0} :
                Starts([Idle EXCEPT !.op = op, !.id = id], op, id, Absent, {}, FALSE)
           /\ \A id \in Ids, c \in Items :
                Starts([Idle EXCEPT !.op = op, !.id = id, !.carried = c], op, id, c, {}, FALSE)
           /\ \A id \in Ids, page \in SUBSET Ids :
                Starts([Idle EXCEPT !.op = op, !.id = id, !.page = page],
                       op, id, Absent, page, FALSE)
           /\ \A f \in BOOLEAN :
                Starts([Idle EXCEPT !.op = op, !.forbidden = f], op, 0, Absent, {}, f)
           /\ \A f, lost \in BOOLEAN, filters \in SUBSET SUBSET Ids :
                Starts([[Idle EXCEPT !.op = op, !.forbidden = f]
                          EXCEPT !.filters = filters, !.lost = lost],
                       op, 0, Absent, {}, f)
<1>1. /\ Idle \in RequestState
      /\ Idle.stage = "none" /\ Idle.id = 0 /\ Idle.carried = Absent /\ Idle.page = {}
      /\ Idle.forbidden = FALSE
  <2>1. "none" \in Outcomes /\ Absent \in Items
    BY DEF Outcomes, Items
  <2>2. Idle \in RequestState
    BY <2>1 DEF Idle, RequestState
  <2> QED BY <2>2 DEF Idle
<1>2. op \in Ops \cup {"none"}
  OBVIOUS
<1>3. Starts([Idle EXCEPT !.op = op], op, 0, Absent, {}, FALSE)
  <2>1. [Idle EXCEPT !.op = op] \in RequestState
    BY <1>1, <1>2, Zenon DEF RequestState
  <2> QED BY <1>1, <2>1 DEF Starts, RequestState
<1>4. ASSUME NEW id \in Ids \cup {0}
      PROVE  Starts([Idle EXCEPT !.op = op, !.id = id], op, id, Absent, {}, FALSE)
  <2>1. [Idle EXCEPT !.op = op, !.id = id] \in RequestState
    BY <1>1, <1>2, Zenon DEF RequestState
  <2> QED BY <1>1, <2>1 DEF Starts, RequestState
<1>5. ASSUME NEW id \in Ids, NEW c \in Items
      PROVE  Starts([Idle EXCEPT !.op = op, !.id = id, !.carried = c], op, id, c, {}, FALSE)
  <2>1. [Idle EXCEPT !.op = op, !.id = id, !.carried = c] \in RequestState
    BY <1>1, <1>2, Zenon DEF RequestState
  <2> QED BY <1>1, <2>1 DEF Starts, RequestState
<1>6. ASSUME NEW id \in Ids, NEW page \in SUBSET Ids
      PROVE  Starts([Idle EXCEPT !.op = op, !.id = id, !.page = page],
                    op, id, Absent, page, FALSE)
  <2>1. [Idle EXCEPT !.op = op, !.id = id, !.page = page] \in RequestState
    BY <1>1, <1>2, Zenon DEF RequestState
  <2> QED BY <1>1, <2>1 DEF Starts, RequestState
<1>7. ASSUME NEW f \in BOOLEAN
      PROVE  Starts([Idle EXCEPT !.op = op, !.forbidden = f], op, 0, Absent, {}, f)
  <2>1. [Idle EXCEPT !.op = op, !.forbidden = f] \in RequestState
    BY <1>1, <1>2, Zenon DEF RequestState
  <2> QED BY <1>1, <2>1 DEF Starts, RequestState
<1>8. ASSUME NEW f \in BOOLEAN, NEW lost \in BOOLEAN, NEW filters \in SUBSET SUBSET Ids
      PROVE  Starts([[Idle EXCEPT !.op = op, !.forbidden = f]
                       EXCEPT !.filters = filters, !.lost = lost],
                    op, 0, Absent, {}, f)
  <2> DEFINE q == [Idle EXCEPT !.op = op, !.forbidden = f]
             s == [q EXCEPT !.filters = filters, !.lost = lost]
  <2>1. Starts(q, op, 0, Absent, {}, f)
    BY <1>7
  <2> HIDE DEF q
  <2>2. s \in RequestState
    BY <2>1, Zenon DEF Starts, RequestState
  <2>3. Starts(s, op, 0, Absent, {}, f)
    BY <2>1, <2>2 DEF Starts, RequestState
  <2> QED BY <2>3 DEF q
<1> QED BY <1>3, <1>4, <1>5, <1>6, <1>7, <1>8

\* A request that nobody has served yet was told nothing and wrote nothing.
LEMMA IdleIs ==
    ASSUME ItemInv, NEW r \in Requests, req[r].pc = "idle"
    PROVE  req[r] = Idle /\ said[r] = NothingSaid /\ r \notin written
<1>1. PhaseFine(req[r], slot[r], said[r], r) /\ WrittenFine(req[r], said[r], r, written)
  BY DEF ItemInv, RequestFine
<1>2. req[r] = Idle
  BY <1>1 DEF PhaseFine
<1>3. req[r].stage = "none"
  BY <1>2 DEF Idle
<1> QED BY <1>1, <1>2, <1>3 DEF PhaseFine, WrittenFine

\* A request begins, and is in order.
LEMMA BeginningKeeps ==
    ASSUME ItemInv, NEW r \in Requests, req[r].pc = "idle", NEW s, Update(r, s),
           UNCHANGED <<store, disturbed, written, dispatchVars>>,
           RequestFine(r, s, slot[r], NothingSaid, plugin, store, disturbed, written)
    PROVE  ItemInv'
<1>1. /\ req' = [req EXCEPT ![r] = s]
      /\ UNCHANGED <<plugin, inbox, core, slot, said, store, disturbed, written>>
  BY DEF Update, dispatchVars
<1>2. slot' = [slot EXCEPT ![r] = slot[r]]
  BY <1>1 DEF ItemInv, Shapes
<1>3. req[r] = Idle /\ said[r] = NothingSaid
  BY IdleIs
<1>4. req[r].stage = "none"
  BY <1>3 DEF Idle
<1>5. RequestFine(r, s, slot[r], said[r], plugin, store', disturbed', written')
  BY <1>1, <1>3
<1>6. store' \in [Ids -> Items]
  BY <1>1 DEF ItemInv, Shapes
<1> QED BY <1>1, <1>2, <1>4, <1>5, <1>6, ARequestMoves

\* A request that is refused at once.
LEMMA RefusedKeeps ==
    ASSUME ItemInv, NEW r \in Requests, req[r].pc = "idle",
           UNCHANGED <<store, disturbed, written, dispatchVars>>,
           NEW q \in RequestState, q.stage = "none", q.page = {},
           q.op = "query" => q.forbidden,
           NEW outcome \in {400, 401, 403}, q.op = "list" => outcome = 400,
           Update(r, Answered(q, outcome))
    PROVE  ItemInv'
<1> DEFINE s == Answered(q, outcome)
<1>1. Ended(q, s) /\ s.outcome = outcome
  BY AnsweredEnds
<1>2. Update(r, s)
  OBVIOUS
<1> HIDE DEF s
<1>3. r \notin written
  BY IdleIs
<1>4. /\ s \in RequestState /\ s.stage = "none" /\ s.pc = "done" /\ s.page = {}
      /\ s.op = "list" => s.outcome = 400
      /\ s.op = "query" => s.forbidden
  BY <1>1 DEF Ended
<1>5. RequestFine(r, s, slot[r], NothingSaid, plugin, store, disturbed, written)
  BY <1>3, <1>4, BeginsRefused
<1> QED BY <1>2, <1>5, BeginningKeeps

\* A request that goes to the first turn of its first stage.
LEMMA StagedKeeps ==
    ASSUME ItemInv, NEW r \in Requests, req[r].pc = "idle",
           UNCHANGED <<store, disturbed, written, dispatchVars>>,
           NEW q \in RequestState, q.op \in Ops \ {"refused"},
           q.op = "list" => q.page # {},
           q.op = "query" => ~q.forbidden,
           q.op = "edit" => q.id \in Ids /\ q.carried \in Item /\
               (store[q.id] # Absent => q.carried.owner = store[q.id].owner),
           Update(r, GoTo(q, First(q.op)))
    PROVE  ItemInv'
<1> DEFINE s == GoTo(q, First(q.op))
<1>1. First(q.op) \in Hooks
  BY DEF First, Hooks
<1>2. Moved(q, First(q.op), 1, s)
  BY <1>1, GoToMoves
<1>3. Update(r, s)
  OBVIOUS
<1> HIDE DEF s
<1>4. r \notin written
  BY IdleIs
<1>5. RequestFine(r, s, slot[r], NothingSaid, plugin, store, disturbed, written)
  BY <1>2, <1>4, BeginsStage
<1> QED BY <1>3, <1>5, BeginningKeeps

\* An edit reads the record it will stamp.
LEMMA EditBegins ==
    ASSUME ItemInv, NEW r \in Requests, NEW id \in Ids, NEW user \in Users \cup {NoUser},
           NEW val \in Vals, itm_edit(r, id, user, val)
    PROVE  ItemInv'
<1>1. /\ req[r].pc = "idle"
      /\ UNCHANGED <<store, disturbed, written, dispatchVars>>
  BY DEF itm_edit, Begins
<1>2. Absent \in Items /\ store \in [Ids -> Items]
  BY DEF Items, ItemInv, Shapes
<1>3. CASE user = NoUser
  <2> DEFINE q == [Idle EXCEPT !.op = "edit"]
  <2>1. Starts(q, "edit", 0, Absent, {}, FALSE)
    BY Starting DEF Ops
  <2>2. q \in RequestState /\ q.stage = "none" /\ q.page = {} /\ q.op = "edit"
    BY <2>1 DEF Starts
  <2>4. Update(r, Answered(q, 403))
    BY <1>3 DEF itm_edit
  <2> HIDE DEF q
  <2> QED BY <1>1, <2>2, <2>4, RefusedKeeps
<1>4. CASE user # NoUser
  <2> DEFINE c == [val |-> val, owner |-> stamp(store[id], user)]
             q == [Idle EXCEPT !.op = "edit", !.id = id, !.carried = c]
  <2>1. stamp(store[id], user) \in Users \cup {NoUser}
    BY <1>2 DEF stamp, Items, Item
  <2>2. c \in Item
    BY <2>1 DEF Item
  <2>3. store[id] # Absent => c.owner = store[id].owner
    BY DEF stamp
  <2>4. Update(r, GoTo(q, "auth"))
    BY <1>4 DEF itm_edit
  <2> HIDE DEF c
  <2>5. Starts(q, "edit", id, c, {}, FALSE)
    BY <2>2, Starting DEF Ops, Items
  <2> HIDE DEF q
  <2>6. q \in RequestState /\ q.id = id /\ q.carried = c /\ q.op = "edit"
    BY <2>5 DEF Starts
  <2>7. First("edit") = "auth" /\ "edit" \in Ops
    BY DEF First, Ops
  <2>8. Update(r, GoTo(q, First(q.op)))
    BY <2>4, <2>6, <2>7
  <2> QED BY <1>1, <2>2, <2>3, <2>6, <2>7, <2>8, StagedKeeps
<1> QED BY <1>3, <1>4

\* The other requests that are asked about from the start.
LEMMA OthersBegin ==
    ASSUME ItemInv, NEW r \in Requests, req[r].pc = "idle",
           UNCHANGED <<store, disturbed, written, dispatchVars>>,
           NEW op \in Ops \ {"edit", "refused", "list", "query"},
           NEW id, NEW q, Starts(q, op, id, Absent, {}, FALSE),
           Update(r, GoTo(q, First(op)))
    PROVE  ItemInv'
<1>1. q \in RequestState /\ q.op = op
  BY DEF Starts
<1>2. Update(r, GoTo(q, First(q.op)))
  BY <1>1
<1> QED BY <1>1, <1>2, StagedKeeps

\* An id is read at once.
LEMMA IdBegins ==
    ASSUME ItemInv, NEW r \in Requests, NEW id \in Ids, itm_list_id(r, id)
    PROVE  ItemInv'
<1>1. /\ req[r].pc = "idle"
      /\ UNCHANGED <<store, disturbed, written, dispatchVars>>
  BY DEF itm_list_id, Begins
<1>2. CASE store[id] = Absent
  <2> DEFINE q == [Idle EXCEPT !.op = "list", !.id = id]
  <2>1. Starts(q, "list", id, Absent, {}, FALSE)
    BY Starting DEF Ops
  <2>2. Update(r, Answered(q, 400))
    BY <1>2 DEF itm_list_id
  <2> HIDE DEF q
  <2>3. q \in RequestState /\ q.stage = "none" /\ q.page = {} /\ q.op = "list"
    BY <2>1 DEF Starts
  <2> QED BY <1>1, <2>2, <2>3, RefusedKeeps
<1>3. CASE store[id] # Absent
  <2> DEFINE q == [Idle EXCEPT !.op = "list", !.id = id, !.page = {id}]
  <2>1. Starts(q, "list", id, Absent, {id}, FALSE)
    BY Starting DEF Ops
  <2>2. Update(r, GoTo(q, "filter"))
    BY <1>3 DEF itm_list_id
  <2> HIDE DEF q
  <2>3. q \in RequestState /\ q.page = {id} /\ q.op = "list"
    BY <2>1 DEF Starts
  <2>4. First("list") = "filter" /\ "list" \in Ops
    BY DEF First, Ops
  <2>5. Update(r, GoTo(q, First(q.op)))
    BY <2>2, <2>3, <2>4
  <2> QED BY <1>1, <2>3, <2>4, <2>5, StagedKeeps
<1> QED BY <1>2, <1>3

\* A query goes on if there is nothing harmful in it.
LEMMA QueryBegins ==
    ASSUME ItemInv, NEW r \in Requests, itm_list_query(r)
    PROVE  ItemInv'
<1>1. /\ req[r].pc = "idle"
      /\ UNCHANGED <<store, disturbed, written, dispatchVars>>
  BY DEF itm_list_query, Begins
<1>2. PICK filter \in ClientFilters, sort_key \in {"", "name", "password"} :
        LET q == [Idle EXCEPT !.op = "query",
                    !.forbidden = Forbidden(filter) \/ sort_key \in Credentials]
        IN \E matching \in IF filter \in {Scalar, Blank} THEN {Ids} ELSE SUBSET Ids,
              lost \in Unreadable(filter) :
             Update(r, IF /\ validate_client_filter(filter)
                          /\ sort_key = "" \/ field_is_allowed(sort_key)
               THEN GoTo([q EXCEPT !.filters = {matching}, !.lost = lost], "db")
               ELSE Answered(q, 400))
  BY DEF itm_list_query
<1> DEFINE f == Forbidden(filter) \/ sort_key \in Credentials
           ok == validate_client_filter(filter)
                   /\ (sort_key = "" \/ field_is_allowed(sort_key))
<1>3. ok <=> ~f
  <2>1. filter \in Documents \cup {Blank}
    BY ItemApiAssumption
  <2>2. sort_key \in {"", "name", "password"} =>
          (sort_key = "" \/ field_is_allowed(sort_key) <=> sort_key \notin Credentials)
    BY DEF field_is_allowed, Credentials, Operators, ALLOWED_COMBINATORS,
           ALLOWED_LEAF_OPS, ALLOWED_SET_OPS
  <2> QED BY <2>1, <2>2, FiltersAreChecked
<1>4. f \in BOOLEAN
  OBVIOUS
<1>5. PICK matching \in SUBSET Ids, lost \in BOOLEAN :
        Update(r, IF ok THEN GoTo([[Idle EXCEPT !.op = "query", !.forbidden = f]
                                     EXCEPT !.filters = {matching}, !.lost = lost], "db")
                        ELSE Answered([Idle EXCEPT !.op = "query", !.forbidden = f], 400))
  <2>1. Unreadable(filter) \subseteq BOOLEAN
    BY DEF Unreadable
  <2> QED BY <1>2, <2>1
<1> HIDE DEF f, ok
<1>6. CASE ok
  <2> DEFINE q == [[Idle EXCEPT !.op = "query", !.forbidden = f]
                     EXCEPT !.filters = {matching}, !.lost = lost]
  <2>1. Starts(q, "query", 0, Absent, {}, f)
    BY <1>4, Starting DEF Ops
  <2>2. Update(r, GoTo(q, "db"))
    BY <1>5, <1>6
  <2> HIDE DEF q
  <2>3. q \in RequestState /\ q.op = "query" /\ q.forbidden = f
    BY <2>1 DEF Starts
  <2>4. First("query") = "db" /\ "query" \in Ops
    BY DEF First, Ops
  <2>5. Update(r, GoTo(q, First(q.op)))
    BY <2>2, <2>3, <2>4
  <2>6. ~q.forbidden
    BY <1>3, <1>6, <2>3
  <2> QED BY <1>1, <2>3, <2>4, <2>5, <2>6, StagedKeeps
<1>7. CASE ~ok
  <2> DEFINE q == [Idle EXCEPT !.op = "query", !.forbidden = f]
  <2>1. Starts(q, "query", 0, Absent, {}, f)
    BY <1>4, Starting DEF Ops
  <2>2. Update(r, Answered(q, 400))
    BY <1>5, <1>7
  <2> HIDE DEF q
  <2>3. q \in RequestState /\ q.stage = "none" /\ q.page = {} /\ q.op = "query"
        /\ q.forbidden = f
    BY <2>1 DEF Starts
  <2>4. q.forbidden /\ q.op # "list"
    BY <1>3, <1>7, <2>3
  <2>5. 400 \in {400, 401, 403}
    OBVIOUS
  <2> QED BY <1>1, <2>2, <2>3, <2>4, <2>5, RefusedKeeps, ZenonT(40)
<1> QED BY <1>6, <1>7

\* Whatever a request begins with, it is in order.
LEMMA BeginKeeps ==
    ASSUME ItemInv, NEW r \in Requests, Begin(r)
    PROVE  ItemInv'
<1>1. ASSUME NEW id \in Ids, NEW u \in {Caller[r], NoUser}, NEW v \in SentVals,
             itm_edit(r, id, u, v)
      PROVE  ItemInv'
  <2>1. u \in Users \cup {NoUser} /\ v \in Vals
    BY ItemApiAssumption
  <2> QED BY <1>1, <2>1, EditBegins
<1>2. ASSUME NEW id \in Ids, itm_del(r, id) PROVE ItemInv'
  <2> DEFINE q == [Idle EXCEPT !.op = "del", !.id = id]
  <2>1. First("del") = "auth" /\ "del" \in Ops \ {"edit", "refused", "list", "query"}
    BY DEF First, Ops
  <2>2. Starts(q, "del", id, Absent, {}, FALSE)
    BY Starting DEF Ops
  <2>3. /\ req[r].pc = "idle" /\ Update(r, GoTo(q, First("del")))
        /\ UNCHANGED <<store, disturbed, written, dispatchVars>>
    BY <1>2, <2>1 DEF itm_del, Begins
  <2> HIDE DEF q
  <2> QED BY <2>1, <2>2, <2>3, OthersBegin
<1>3. ASSUME NEW id \in Ids, itm_list_id(r, id) PROVE ItemInv'
  BY <1>3, IdBegins
<1>4. ASSUME NEW op \in {"unknown", "route", "post_route", "rest"}, req[r].pc = "idle",
             UNCHANGED <<store, disturbed, written, dispatchVars>>,
             Update(r, GoTo([Idle EXCEPT !.op = op], First(op)))
      PROVE  ItemInv'
  <2> DEFINE q == [Idle EXCEPT !.op = op]
  <2>1. op \in Ops \ {"edit", "refused", "list", "query"}
    BY DEF Ops
  <2>2. Starts(q, op, 0, Absent, {}, FALSE)
    BY <2>1, Starting
  <2>3. Update(r, GoTo(q, First(op)))
    BY <1>4
  <2> HIDE DEF q
  <2> QED BY <1>4, <2>1, <2>2, <2>3, OthersBegin
<1>5. CASE UnknownCollection(r)
  <2>1. First("unknown") = "auth"
    BY DEF First
  <2> QED BY <1>4, <1>5, <2>1 DEF UnknownCollection, Begins
<1>6. CASE url_route(r)
  <2>1. First("route") = "route"
    BY DEF First
  <2> QED BY <1>4, <1>6, <2>1 DEF url_route, Begins
<1>7. ASSUME NEW op \in {"post_route", "rest"}, url_generic_rest_route(r, op) PROVE ItemInv'
  <2>1. First(op) = "rest"
    BY DEF First
  <2> QED BY <1>4, <1>7, <2>1 DEF url_generic_rest_route, Begins
<1>8. CASE RefusedAtOnce(r)
  <2> DEFINE q == [Idle EXCEPT !.op = "refused"]
  <2>1. Starts(q, "refused", 0, Absent, {}, FALSE)
    BY Starting DEF Ops
  <2>2. /\ req[r].pc = "idle"
        /\ UNCHANGED <<store, disturbed, written, dispatchVars>>
    BY <1>8 DEF RefusedAtOnce, Begins
  <2>3. PICK status \in {400, 401, 403} : Update(r, Answered(q, status))
    BY <1>8 DEF RefusedAtOnce
  <2> HIDE DEF q
  <2>4. q \in RequestState /\ q.stage = "none" /\ q.page = {} /\ q.op = "refused"
    BY <2>1 DEF Starts
  <2> QED BY <2>2, <2>3, <2>4, RefusedKeeps
<1>9. CASE itm_list_query(r)
  BY <1>9, QueryBegins
<1> QED BY <1>1, <1>2, <1>3, <1>5, <1>6, <1>7, <1>8, <1>9 DEF Begin

(* ------------------------ every step, and the theorems ------------------- *)

\* Nothing has been asked, said or written when the server starts.
LEMMA InitKeeps == Init => ItemInv
<1> SUFFICES ASSUME Init PROVE ItemInv
  OBVIOUS
<1>1. /\ plugin = [p \in Plugins |-> Fresh] /\ inbox = <<>> /\ core = None
      /\ slot = [r \in Requests |-> Empty] /\ said = [r \in Requests |-> NothingSaid]
      /\ req = [r \in Requests |-> Idle] /\ disturbed = {} /\ written = {}
      /\ store \in [Ids -> {Absent} \cup SomeItems]
  BY DEF Init, DispatchInit
<1>2. Shapes
  <2>1. SomeItems \subseteq Item
    <3>1. (CHOOSE u \in Users : TRUE) \in Users
      BY ItemApiAssumption, SMT
    <3> QED BY <3>1, ItemApiAssumption DEF SomeItems, Item
  <2>2. store \in [Ids -> Items]
    BY <1>1, <2>1 DEF Items
  <2> QED BY <1>1, <2>2 DEF Shapes
<1>3. CoreFine
  BY <1>1, DispatchAssumption DEF CoreFine
<1>4. ASSUME NEW p \in Plugins PROVE PluginFine(plugin[p], p, req, slot)
  <2>1. plugin[p] = Fresh
    BY <1>1
  <2>2. /\ Fresh.box = <<>> /\ Fresh.serving = None
        /\ Fresh \in PluginState
    BY DEF Fresh, PluginState, Calls
  <2>3. At(Fresh) = {None}
    BY <2>2 DEF At
  <2>4. ~IsQuestion(None) /\ ~IsPost(None)
    BY DEF None, IsQuestion, IsPost, Asking
  <2>5. MailFine(Fresh, p, req, slot) /\ OnceEach(Fresh)
    BY <2>2, <2>3, <2>4 DEF MailFine, OnceEach
  <2>6. Len(Fresh.box) <= MailboxCap
    BY <2>2, DispatchAssumption
  <2> QED BY <2>1, <2>2, <2>5, <2>6 DEF PluginFine
<1>5. ASSUME NEW r \in Requests
      PROVE  RequestFine(r, req[r], slot[r], said[r], plugin, store, disturbed, written)
  <2>1. req[r] = Idle /\ slot[r] = Empty /\ said[r] = NothingSaid
    BY <1>1
  <2>2. /\ NothingSaid.asked = {} /\ NothingSaid.veto = FALSE
        /\ NothingSaid.served = 0 /\ NothingSaid.left = <<>>
        /\ NothingSaid.shown = <<>>
    BY DEF NothingSaid
  <2>3. /\ Idle.op = "none" /\ Idle.pc = "idle" /\ Idle.stage = "none" /\ Idle.page = {}
    BY DEF Idle
  <2>4. Idle \in RequestState
    <3>1. "none" \in Outcomes /\ Absent \in Items
      BY DEF Outcomes, Items
    <3> QED BY <3>1 DEF Idle, RequestState
  <2>5. PhaseFine(Idle, Empty, NothingSaid, r)
    <3> HIDE DEF Idle
    <3> QED BY <2>3 DEF PhaseFine, Told
  <2>6. /\ AskedFine(Idle, Empty, NothingSaid, plugin)
        /\ VetoFine(Idle, Empty, NothingSaid)
        /\ LeftFine(Idle, Empty, NothingSaid)
        /\ WrittenFine(Idle, NothingSaid, r, written)
        /\ ToldFine(Idle, NothingSaid, r, plugin)
        /\ OwnerFine(Idle, r, store, disturbed)
    BY <1>1, <2>2, <2>3
    DEF AskedFine, Asking, Told, VetoFine, LeftFine, WrittenFine, ToldFine, OwnerFine
  <2> QED BY <2>1, <2>2, <2>4, <2>5, <2>6 DEF RequestFine
<1> QED BY <1>2, <1>3, <1>4, <1>5 DEF ItemInv

\* Nothing moves.
LEMMA IdleKeeps == ItemInv /\ UNCHANGED vars => ItemInv'
<1> SUFFICES ASSUME ItemInv, UNCHANGED vars PROVE ItemInv'
  OBVIOUS
<1>1. UNCHANGED <<plugin, inbox, core, slot, said, store, req, disturbed, written>>
  BY DEF vars
<1>2. Shapes' /\ CoreFine'
  BY <1>1 DEF ItemInv, Shapes, CoreFine
<1> QED BY <1>1, <1>2 DEF ItemInv

\* Every step keeps the requests and the plugins agreed.
LEMMA ItemStep == ItemInv /\ [Next]_vars => ItemInv'
<1> SUFFICES ASSUME ItemInv, [Next]_vars PROVE ItemInv'
  OBVIOUS
<1>1. ASSUME NEW r \in Requests, Begin(r) PROVE ItemInv'
  BY <1>1, BeginKeeps
<1>2. ASSUME NEW r \in Requests, Continue(r) PROVE ItemInv'
  <2>1. CASE Ask(r)
    BY <2>1, AskKeeps
  <2>2. CASE Tell(r)
    BY <2>2, TellKeeps
  <2>3. CASE Hear(r)
    BY <2>3, HearKeeps
  <2>4. CASE AuthOver(r)
    BY <2>4, AuthOverKeeps
  <2>5. CASE PreEditOver(r)
    BY <2>5, PreEditOverKeeps
  <2>6. CASE WriteFails(r)
    BY <2>6, WriteFailsKeeps
  <2>7. CASE DbFiltersOver(r)
    BY <2>7, DbFiltersOverKeeps
  <2> QED BY <1>2, <2>1, <2>2, <2>3, <2>4, <2>5, <2>6, <2>7 DEF Continue
<1>3. ASSUME NEW p \in Plugins, PluginFinishes(p) PROVE ItemInv'
  <2>1. PICK a \in Answers(plugin[p].serving) : Finish(p, a)
    BY <1>3 DEF PluginFinishes
  <2>2. UNCHANGED <<store, req, disturbed, written>>
    BY <1>3 DEF PluginFinishes
  <2> QED BY <2>1, <2>2, FinishKeeps
<1>4. ASSUME NEW p \in Plugins, PluginElse(p) PROVE ItemInv'
  <2>1. UNCHANGED <<store, req, disturbed, written>>
    BY <1>4 DEF PluginElse
  <2>2. ASSUME NEW calls \in BOOLEAN, Receive(p, calls) PROVE ItemInv'
    BY <2>1, <2>2, ReceiveKeeps
  <2>3. ASSUME NEW op \in {"get", "set", "del", "notify"}, SendCall(p, op) PROVE ItemInv'
    BY <2>1, <2>3, SendCallKeeps
  <2>4. CASE FinishSilently(p)
    <3>1. Finish(p, Dropped)
      BY <2>4 DEF FinishSilently
    <3> QED BY <2>1, <3>1, FinishKeeps
  <2>5. CASE End(p)
    BY <2>1, <2>5, EndKeeps
  <2> QED BY <1>4, <2>2, <2>3, <2>4, <2>5 DEF PluginElse
<1>5. CASE CoreTakes
  BY <1>5, CoreTakesKeeps
<1>6. CASE CoreServes
  BY <1>6, CoreServesKeeps
<1>7. CASE Tick
  BY <1>7, TickKeeps
<1>8. CASE UNCHANGED vars
  BY <1>8, IdleKeeps
<1> QED BY <1>1, <1>2, <1>3, <1>4, <1>5, <1>6, <1>7, <1>8 DEF Next

\* So they always are.
LEMMA RequestsAreInOrder == Spec => []ItemInv
<1>1. Init => ItemInv
  BY InitKeeps
<1>2. ItemInv /\ [Next]_vars => ItemInv'
  BY ItemStep
<1> QED BY <1>1, <1>2, PTL DEF Spec

\* Only requests write edits.
WritersAreRequests == written \subseteq Requests

\* Nobody else is noted as having written.
LEMMA WritersStep == WritersAreRequests /\ [Next]_vars => WritersAreRequests'
<1> SUFFICES ASSUME WritersAreRequests, [Next]_vars PROVE WritersAreRequests'
  OBVIOUS
<1>1. ASSUME NEW r \in Requests, Begin(r) PROVE written' = written
  BY <1>1
  DEF Begin, itm_edit, itm_del, itm_list_id, UnknownCollection, RefusedAtOnce,
      itm_list_query, url_route, url_generic_rest_route
<1>2. ASSUME NEW r \in Requests, Continue(r)
      PROVE  written' = written \/ written' = written \cup {r}
  BY <1>2 DEF Continue, Ask, Tell, Hear, AuthOver, PreEditOver, WriteFails, DbFiltersOver
<1>3. ASSUME NEW p \in Plugins, PluginFinishes(p) \/ PluginElse(p) PROVE written' = written
  BY <1>3 DEF PluginFinishes, PluginElse
<1>4. CoreTakes \/ CoreServes \/ Tick \/ UNCHANGED vars => written' = written
  BY DEF CoreTakes, CoreServes, Tick, vars
<1> QED BY <1>1, <1>2, <1>3, <1>4 DEF Next, WritersAreRequests

\* So it stays.
LEMMA WritersStay == Spec => []WritersAreRequests
<1>1. Init => WritersAreRequests
  BY DEF Init, WritersAreRequests
<1> QED BY <1>1, WritersStep, PTL DEF Spec

\* The shapes, as the run checks them.
LEMMA TypesHold == ItemInv => TypeOK
<1> SUFFICES ASSUME ItemInv PROVE TypeOK
  OBVIOUS
<1>1. Len(inbox) <= CoreCap
  BY DEF ItemInv, CoreFine
<1>2. ASSUME NEW p \in Plugins
      PROVE  /\ Len(plugin[p].box) <= MailboxCap
             /\ plugin[p].call \in {"none", "sending", "waiting", "over"}
             /\ ~plugin[p].alive => plugin[p].box = <<>> /\ plugin[p].serving = None
  <2>1. PluginFine(plugin[p], p, req, slot)
    BY DEF ItemInv
  <2> QED BY <2>1 DEF PluginFine, PluginState, Calls
<1>3. store \in [Ids -> {Absent} \cup Item]
  BY DEF ItemInv, Shapes, Items
<1>4. ASSUME NEW r \in Requests
      PROVE  /\ req[r].pc \in {"idle", "send", "wait", "done"}
             /\ req[r].stage \in Hooks \cup {"none"}
             /\ req[r].stage # "none" => req[r].turn \in 1..(Turns(req[r].stage) + 1)
             /\ req[r].page \subseteq Ids
             /\ req[r].carried \in {Absent} \cup Item
  <2>1. req[r] \in RequestState /\ PhaseFine(req[r], slot[r], said[r], r)
    BY DEF ItemInv, RequestFine
  <2>2. req[r].stage # "none" => req[r].turn \in 1..(Turns(req[r].stage) + 1)
    BY <2>1 DEF PhaseFine
  <2> QED BY <2>1, <2>2 DEF RequestState, Items
<1> QED BY <1>1, <1>2, <1>3, <1>4 DEF TypeOK

\* Everyone was asked in each of their turns before a stage is left behind.
LEMMA AskedInTurn ==
    ASSUME NEW p \in Plugins, NEW hook \in Hooks, NEW h, NEW vs, vs[p].alive,
           AskedBefore(hook, Turns(hook) + 1, h, vs)
    PROVE  \A n \in TurnsOf(p, hook) : <<hook, n>> \in h.asked
<1> SUFFICES ASSUME NEW n \in TurnsOf(p, hook) PROVE <<hook, n>> \in h.asked
  OBVIOUS
<1>1. n \in 1..Turns(hook) /\ PluginOf(n) = p /\ Turns(hook) \in Nat
  BY TurnFacts DEF TurnsOf
<1>2. n \in 1..(Turns(hook) + 1) - 1
  BY <1>1
<1> QED BY <1>1, <1>2 DEF AskedBefore

\* The order of the requests implies what a hook is for.
LEMMA HooksHold == ItemInv /\ WritersAreRequests => HooksAreHeard
<1> SUFFICES ASSUME ItemInv, WritersAreRequests PROVE HooksAreHeard
  OBVIOUS
<1>1. \A r \in Requests :
        RequestFine(r, req[r], slot[r], said[r], plugin, store, disturbed, written)
  BY DEF ItemInv
<1>2. VetoHolds
  BY <1>1 DEF RequestFine, VetoFine, VetoHolds
<1>3. EveryoneIsAsked
  <2> SUFFICES ASSUME NEW r \in Requests, NEW p \in Plugins, plugin[p].alive
               PROVE  /\ req[r].stage = "post" => \A hook \in {"auth", "pre"} :
                           \A n \in TurnsOf(p, hook) : <<hook, n>> \in said[r].asked
                      /\ req[r].stage = "rest" /\ req[r].pc = "done" =>
                           \A n \in TurnsOf(p, "rest") : <<"rest", n>> \in said[r].asked
    BY DEF EveryoneIsAsked
  <2>1. AskedFine(req[r], slot[r], said[r], plugin)
        /\ PhaseFine(req[r], slot[r], said[r], r)
    BY <1>1 DEF RequestFine
  <2>2. ASSUME req[r].stage = "post", NEW hook \in {"auth", "pre"}
        PROVE  \A n \in TurnsOf(p, hook) : <<hook, n>> \in said[r].asked
    <3>1. AskedBefore(hook, Turns(hook) + 1, said[r], plugin)
      BY <2>1, <2>2 DEF AskedFine
    <3>2. hook \in Hooks
      BY DEF Hooks
    <3> QED BY <3>1, <3>2, AskedInTurn
  <2>3. ASSUME req[r].stage = "rest", req[r].pc = "done"
        PROVE  \A n \in TurnsOf(p, "rest") : <<"rest", n>> \in said[r].asked
    <3>1. Over(req[r])
      BY <2>1, <2>3 DEF PhaseFine
    <3>2. AskedBefore("rest", Turns("rest") + 1, said[r], plugin)
      BY <1>1, <2>3, <3>1, AllWereAsked DEF Asking
    <3>3. "rest" \in Hooks
      BY DEF Hooks
    <3> QED BY <3>2, <3>3, AskedInTurn
  <2> QED BY <2>2, <2>3
<1>4. LastWordStands
  <2> SUFFICES ASSUME NEW r \in written, req[r].op = "edit", said[r].left # <<>>
               PROVE  said[r].left = <<req[r].carried>>
    BY DEF LastWordStands
  <2>1. r \in Requests
    BY DEF WritersAreRequests
  <2>2. /\ LeftFine(req[r], slot[r], said[r])
        /\ WrittenFine(req[r], said[r], r, written)
    BY <1>1, <2>1 DEF RequestFine
  <2>3. req[r].stage = "post"
    BY <2>2 DEF WrittenFine
  <2>4. HeldNow(req[r], slot[r]) = req[r].carried
    BY <2>3 DEF HeldNow
  <2> QED BY <2>2, <2>4 DEF LeftFine
<1>5. RoutesAreServedOnce
  <2> SUFFICES ASSUME NEW r \in Requests PROVE said[r].served <= 1
    BY DEF RoutesAreServedOnce
  <2>1. VetoFine(req[r], slot[r], said[r])
    BY <1>1 DEF RequestFine
  <2>2. said[r].served = 0 \/ said[r].served = 1
    BY <2>1 DEF VetoFine
  <2> QED BY <2>2
<1> QED BY <1>2, <1>3, <1>4, <1>5, TypesHold DEF HooksAreHeard

\* Whoever has a hook is asked before the write, in every one of their turns, and
\* refuses for good; an edit stores what the last of them left of it; and a GET
\* route is served once, whatever the plugins answer, forget or end over
\* (call_item_auth_hook_actor, call_item_pre_edit_hook_actor,
\* call_url_route_actor, itm_edit, itm_del).
THEOREM HooksAreObeyed == Spec => []HooksAreHeard
BY RequestsAreInOrder, WritersStay, HooksHold, PTL

\* The posts a plugin has of a request are those that were sent, in its turns.
LEMMA TidingsHold == ItemInv => EditsAreTold
<1> SUFFICES ASSUME ItemInv PROVE EditsAreTold
  OBVIOUS
<1>1. ASSUME NEW r \in Requests, NEW p \in Plugins, NEW n \in ToldTurns(r, p)
      PROVE  /\ req[r].stage = "post"
             /\ n \in 1..Turns("post") /\ (PluginOf(n) = p)
  <2>1. PluginFine(plugin[p], p, req, slot)
        /\ WrittenFine(req[r], said[r], r, written)
    BY DEF ItemInv, RequestFine
  <2>2. CASE n \in TurnsOf(p, "post") /\ <<"post", n>> \in said[r].asked
    BY <2>1, <2>2 DEF WrittenFine, TurnsOf
  <2>3. ASSUME NEW m \in At(plugin[p]), IsPost(m), m.req = r, m.turn = n
        PROVE  req[r].stage = "post" /\ n \in 1..Turns("post") /\ PluginOf(n) = p
    <3>1. PostFine(m, p, req[r])
      BY <2>1, <2>3 DEF PluginFine, MailFine
    <3> QED BY <2>3, <3>1 DEF PostFine
  <2> QED BY <2>2, <2>3 DEF ToldTurns, At, IsPost
<1>2. OnlyStoredEditsAreTold
  <2> SUFFICES ASSUME NEW r \in Requests, NEW p \in Plugins,
                      req[r].op = "edit", NEW n \in ToldTurns(r, p)
               PROVE  r \in written
    BY DEF OnlyStoredEditsAreTold
  <2>1. req[r].stage = "post"
    BY <1>1
  <2>2. WrittenFine(req[r], said[r], r, written)
    BY DEF ItemInv, RequestFine
  <2> QED BY <2>1, <2>2 DEF WrittenFine
<1>3. EveryoneIsTold
  <2> SUFFICES ASSUME NEW r \in Requests, req[r].stage = "post", req[r].pc = "done",
                      NEW p \in Plugins, plugin[p].alive
               PROVE  ToldTurns(r, p) = TurnsOf(p, "post")
    BY DEF EveryoneIsTold
  <2>1. \A n \in ToldTurns(r, p) : n \in TurnsOf(p, "post")
    BY <1>1 DEF TurnsOf
  <2>2. ASSUME NEW n \in TurnsOf(p, "post") PROVE n \in ToldTurns(r, p)
    <3>1. n \in 1..Turns("post") /\ PluginOf(n) = p /\ Turns("post") \in Nat
      BY TurnFacts DEF TurnsOf, Hooks
    <3>2. /\ PhaseFine(req[r], slot[r], said[r], r) /\ ToldFine(req[r], said[r], r, plugin)
          /\ req[r] \in RequestState
      BY DEF ItemInv, RequestFine
    <3>3. Over(req[r]) /\ req[r].turn \in Nat
      BY <3>2 DEF PhaseFine, RequestState
    <3>4. n \in 1..req[r].turn - 1
      BY <3>1, <3>3 DEF Over
    <3>5. \/ <<"post", n>> \in said[r].asked
          \/ \E m \in At(plugin[p]) : IsPost(m) /\ m.req = r /\ m.turn = n
      BY <3>1, <3>2, <3>4 DEF ToldFine
    <3>6. CASE <<"post", n>> \in said[r].asked
      BY <3>6 DEF ToldTurns
    <3>7. ASSUME NEW m \in At(plugin[p]), IsPost(m), m.req = r, m.turn = n
          PROVE  n \in ToldTurns(r, p)
      BY <3>7 DEF ToldTurns, At, IsPost
    <3> QED BY <3>5, <3>6, <3>7
  <2> QED BY <2>1, <2>2
<1> QED BY <1>2, <1>3 DEF EditsAreTold

\* When an edit or a delete is answered as done, every plugin that is still there
\* has been sent every post-edit hook, however full its mailbox was; and nobody
\* is sent one for an edit that the store refused (itm_edit, itm_del,
\* call_item_post_edit_hook_actor).
THEOREM PluginsHearOfEdits == Spec => []EditsAreTold
BY RequestsAreInOrder, TidingsHold, PTL

\* What a request is says what its page shows.
LEMMA PagesHold == ItemInv => ListsShowNoMore
<1> SUFFICES ASSUME ItemInv, NEW r \in Requests
             PROVE  /\ req[r].op \in {"list", "query"} /\ req[r].pc = "done" =>
                         /\ said[r].shown # <<>> => req[r].page \subseteq said[r].shown[1]
                         /\ ~req[r].lost /\ said[r].left # <<>> =>
                              req[r].page \subseteq said[r].left[1]
                         /\ req[r].op = "list" => (req[r].outcome = 200 <=> req[r].page # {})
                    /\ req[r].op = "query" => (req[r].stage # "none" <=> ~req[r].forbidden)
  BY DEF ListsShowNoMore, WithheldStaysWithheld, QueriesAreHarmless
<1>1. PhaseFine(req[r], slot[r], said[r], r) /\ LeftFine(req[r], slot[r], said[r])
  BY DEF ItemInv, RequestFine
<1>2. req[r].op = "query" => (req[r].stage # "none" <=> ~req[r].forbidden)
  BY <1>1 DEF PhaseFine
<1>3. ASSUME req[r].op \in {"list", "query"}, req[r].pc = "done"
      PROVE  /\ said[r].shown # <<>> => req[r].page \subseteq said[r].shown[1]
             /\ ~req[r].lost /\ said[r].left # <<>> =>
                  req[r].page \subseteq said[r].left[1]
  <2>1. PageNow(req[r], slot[r]) = req[r].page
    BY <1>3 DEF PageNow, Told
  <2>2. req[r].stage \in {"none", "filter"}
    BY <1>1, <1>3, StagesAre DEF PhaseFine
  <2>3. req[r].stage = "none" => said[r].left = <<>> /\ said[r].shown = <<>>
    BY <1>1 DEF PhaseFine, NothingSaid
  <2> QED BY <1>1, <2>1, <2>2, <2>3 DEF LeftFine
<1>4. req[r].op = "list" /\ req[r].pc = "done" => (req[r].outcome = 200 <=> req[r].page # {})
  BY <1>1 DEF PhaseFine
<1> QED BY <1>2, <1>3, <1>4

\* A page shows nothing that a list filter of a plugin withheld from it, nor,
\* unless the client's filter made the joined one unreadable, anything that a
\* plugin's database filter withheld; an item withheld from a request by id is
\* answered as if it did not exist, and a query is put to the store exactly when
\* nothing in it is forbidden, for any filter of any depth (itm_list, get_items, call_itm_list_db_filter_hook_actor,
\* call_itm_list_filter_hook_actor, validate_client_filter).
THEOREM PagesShowNoMore == Spec => []ListsShowNoMore
BY RequestsAreInOrder, PagesHold, PTL

\* A step that moves a record to another owner is a write of an edit that another
\* write overtook.
LEMMA OwnersStep ==
    ItemInv /\ [Next]_vars =>
      \A id \in Ids :
        store[id] # Absent /\ store'[id] # Absent /\ store[id].owner # store'[id].owner
        => \E r \in disturbed : req[r].stage = "pre" /\ req'[r].stage = "post"
<1> SUFFICES ASSUME ItemInv, [Next]_vars, NEW id \in Ids,
                    store[id] # Absent, store'[id] # Absent,
                    store[id].owner # store'[id].owner
             PROVE  \E r \in disturbed : req[r].stage = "pre" /\ req'[r].stage = "post"
  OBVIOUS
<1>1. store' # store
  OBVIOUS
<1>2. store \in [Ids -> Items]
  BY DEF ItemInv, Shapes
<1>3. CASE CoreServes
  <2>1. ASSUME NEW i \in Ids, NEW v \in SentVals,
               store' = [store EXCEPT ![i] =
                          [val |-> v, owner |-> IF @ = Absent THEN NoUser ELSE @.owner]]
        PROVE  FALSE
    <3>1. CASE i = id
      <4>1. store'[id].owner = store[id].owner
        BY <1>2, <2>1, <3>1
      <4> QED BY <4>1
    <3>2. CASE i # id
      BY <1>2, <2>1, <3>2
    <3> QED BY <3>1, <3>2
  <2>2. ASSUME NEW i \in Ids, store' = [store EXCEPT ![i] = Absent] PROVE FALSE
    BY <1>2, <2>2
  <2> QED BY <1>1, <1>3, <2>1, <2>2 DEF CoreServes
<1>4. ASSUME NEW r \in Requests, PreEditOver(r)
      PROVE  \E x \in disturbed : req[x].stage = "pre" /\ req'[x].stage = "post"
  <2> DEFINE q == req[r]
  <2>1. /\ q.stage = "pre" /\ req' = [req EXCEPT ![r] = GoTo(q, "post")]
        /\ store' = [store EXCEPT ![q.id] = IF q.op = "edit" THEN q.carried ELSE Absent]
    BY <1>4 DEF PreEditOver, StageOver, Update
  <2>2. q \in RequestState /\ OwnerFine(q, r, store, disturbed)
    BY DEF ItemInv, RequestFine
  <2>3. Moved(q, "post", 1, GoTo(q, "post"))
    BY <2>2, GoToMoves DEF Hooks
  <2>4. req'[r] = GoTo(q, "post")
    BY <2>1 DEF ItemInv, Shapes
  <2>5. req'[r].stage = "post"
    BY <2>3, <2>4 DEF Moved
  <2>6. q.id = id /\ q.op = "edit" /\ store'[id] = q.carried
    BY <1>2, <2>1
  <2>7. r \in disturbed
    BY <2>1, <2>2, <2>6 DEF OwnerFine
  <2> QED BY <2>1, <2>5, <2>7
<1>5. ASSUME NEW r \in Requests, Begin(r) PROVE store' = store
  BY <1>5
  DEF Begin, itm_edit, itm_del, itm_list_id, UnknownCollection, RefusedAtOnce,
      itm_list_query, url_route, url_generic_rest_route
<1>6. ASSUME NEW r \in Requests, Continue(r), ~PreEditOver(r) PROVE store' = store
  BY <1>6 DEF Continue, Ask, Tell, Hear, AuthOver, WriteFails, DbFiltersOver
<1>7. ASSUME NEW p \in Plugins, PluginFinishes(p) \/ PluginElse(p) PROVE store' = store
  BY <1>7 DEF PluginFinishes, PluginElse
<1>8. CoreTakes \/ Tick \/ UNCHANGED vars => store' = store
  BY DEF CoreTakes, Tick, vars
<1> QED BY <1>1, <1>3, <1>4, <1>5, <1>6, <1>7, <1>8 DEF Next

\* Only an edit that another write overtook, after it read the record to stamp
\* it, moves a record to another owner, in any number of requests and plugins
\* (owner::stamp, itm_edit, handle_message).
THEOREM OwnersAreKept == Spec => OwnersStay
<1>1. ItemInv /\ [Next]_vars =>
        [\A id \in Ids :
          (/\ store[id] # Absent /\ store'[id] # Absent
           /\ store[id].owner # store'[id].owner)
          => \E r \in disturbed : req[r].stage = "pre" /\ req'[r].stage = "post"]_vars
  BY OwnersStep
<1> QED BY <1>1, RequestsAreInOrder, PTL DEF Spec, OwnersStay
==============================================================================
