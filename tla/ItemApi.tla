------------------------------ MODULE ItemApi ------------------------------
(* The item API and the plugin routes (server/itm.rs, handler/route.rs,       *)
(* handler/route_call.rs) over the plugins of PluginDispatch.                 *)
(*                                                                            *)
(* A request asks the plugins one after the other, handler by handler: in     *)
(* turn n of a stage the plugin PluginOf(n).  itm_edit and itm_del go through *)
(* "auth" and "pre", write, and send "post" to everyone; itm_list collects    *)
(* "db" filters, reads, and threads the page through "filter"; a plugin route *)
(* that is a GET takes the first answer, one with a body (a POST, a REST      *)
(* route) goes to every plugin and takes the last.                            *)
EXTENDS PluginDispatch, ListFilter

CONSTANTS Ids,       \* identifiers of the items of one owned collection
          Users,     \* accounts; NoUser is a request without one
          NoUser,
          Vals,      \* contents of an item
          Handlers,  \* per stage, how many handlers the configuration names
          Together,  \* bound: the pairs of operations that may overlap
          Caller,    \* per request, the account it may come from
          SentVals,  \* contents that requests and plugins write
          ClientFilters  \* filters that clients send; Scalar is none

Ops == {"edit", "del", "unknown", "refused", "list", "query", "route",
        "post_route", "rest"}

ASSUME ItemApiAssumption ==
  /\ NoUser \notin Users /\ Users # {}
  /\ Handlers \in [Hooks -> Nat]
  /\ Together \subseteq Ops \X Ops
  /\ Caller \in [Requests -> Users]
  /\ SentVals \subseteq Vals
  /\ ClientFilters \subseteq Documents \cup {Blank}

VARIABLES store,     \* the items of the collection
          req,       \* per request: what it is doing
          disturbed, \* history: requests overlapped by someone else's write
          written    \* history: edits the store accepted

vars == <<plugin, inbox, core, slot, spent, said, store, req, disturbed,
          written>>

Absent == [val |-> "absent"]
Item == [val : Vals, owner : Users \cup {NoUser}]

Idle == [op |-> "none", pc |-> "idle", stage |-> "none", turn |-> 1,
         id |-> 0, carried |-> Absent,
         page |-> {}, filters |-> {}, lost |-> FALSE, forbidden |-> FALSE,
         outcome |-> "none"]

(* The plugin asked in turn n, and whether a stage is over by then.           *)
PluginOf(n) == ((n - 1) % NPlugins) + 1
Turns(stage) == Handlers[stage] * NPlugins
Over(q) == q.turn > Turns(q.stage)

Update(r, q) == req' = [req EXCEPT ![r] = q]
Answered(q, outcome) == [q EXCEPT !.pc = "done", !.outcome = outcome]

(* How a request that has asked everyone is answered.  A single id the hooks  *)
(* withheld is answered like one that does not exist; a route nobody          *)
(* implements is 404 to a GET and 200 to the others.                          *)
Outcome(q) ==
  CASE q.op = "list" /\ q.page = {} -> 400
    [] q.op = "route" -> 404
    [] OTHER -> 200

(* After the last turn of a stage that nothing follows, the answer.           *)
Settled(q) ==
  IF Over(q) /\ q.stage \in {"filter", "route", "rest", "post"}
    THEN Answered(q, Outcome(q)) ELSE q

NextTurn(q) == Settled([q EXCEPT !.turn = @ + 1, !.pc = "send"])
GoTo(q, stage) ==
  Settled([q EXCEPT !.stage = stage, !.turn = 1, !.pc = "send"])

(* A plausible bug: the record always belongs to whoever wrote it last.       *)
StampCaller(old, user) == user

(* owner::stamp: a new record belongs to the caller, a change keeps the       *)
(* owner it had.                                                              *)
stamp(old, user) == IF old = Absent THEN user ELSE old.owner

(* ------------------------------ beginnings ------------------------------ *)

Begins(r, op) ==
  /\ req[r].pc = "idle"
  /\ \A x \in Requests : req[x].pc # "idle" => <<req[x].op, op>> \in Together

(* itm_edit up to its hooks.  A malformed query, a hidden collection and an   *)
(* owned collection without a user end here.                                  *)
itm_edit(r, id, user, val) ==
  /\ Begins(r, "edit")
  /\ Update(r, IF user = NoUser
       THEN Answered([Idle EXCEPT !.op = "edit"], 403)
       ELSE GoTo([Idle EXCEPT !.op = "edit", !.id = id,
                    !.carried = [val |-> val,
                                 owner |-> stamp(store[id], user)]], "auth"))
  /\ UNCHANGED <<store, disturbed, written, dispatchVars>>

itm_del(r, id) ==
  /\ Begins(r, "del")
  /\ Update(r, GoTo([Idle EXCEPT !.op = "del", !.id = id], "auth"))
  /\ UNCHANGED <<store, disturbed, written, dispatchVars>>

(* An edit or a delete in a collection nobody declared: the auth hooks are    *)
(* asked before that is found out.                                            *)
UnknownCollection(r) ==
  /\ Begins(r, "unknown")
  /\ Update(r, GoTo([Idle EXCEPT !.op = "unknown"], "auth"))
  /\ UNCHANGED <<store, disturbed, written, dispatchVars>>

(* Refused before any hook: a malformed query, a collection hidden from the   *)
(* item API, no session on a server that is not public.                       *)
RefusedAtOnce(r) ==
  /\ Begins(r, "refused")
  /\ \E status \in {400, 401, 403} : 
       Update(r, Answered([Idle EXCEPT !.op = "refused"], status))
  /\ UNCHANGED <<store, disturbed, written, dispatchVars>>

(* itm_list.  A single id is read at once, a query first asks the plugins for *)
(* filters; a list of ids is read id by id (Listing).                         *)
itm_list_id(r, id) ==
  /\ Begins(r, "list")
  /\ Update(r, IF store[id] = Absent
       THEN Answered([Idle EXCEPT !.op = "list", !.id = id], 400)
       ELSE GoTo([Idle EXCEPT !.op = "list", !.id = id, !.page = {id}],
                 "filter"))
  /\ UNCHANGED <<store, disturbed, written, dispatchVars>>

(* Whether the store may fail to read the filters once they are joined,       *)
(* because of the client's: a blank one leaves a hole in the text, and a      *)
(* number in one may be beyond what a database document can hold.             *)
Unreadable(filter) ==
  CASE filter = Blank -> {TRUE}
    [] filter \in {Scalar, Object({})} -> {FALSE}
    [] OTHER -> BOOLEAN

(* A query goes on only if the client's own filter and sort key are allowed.  *)
(* What it matches is up to the items; no filter matches them all.            *)
itm_list_query(r) ==
  /\ Begins(r, "query")
  /\ \E filter \in ClientFilters, sort_key \in {"", "name", "password"} :
       LET q == [Idle EXCEPT !.op = "query",
                   !.forbidden = Forbidden(filter) \/ sort_key \in Credentials]
       IN \E matching \in IF filter \in {Scalar, Blank} THEN {Ids} ELSE SUBSET Ids,
             lost \in Unreadable(filter) :
            Update(r, IF /\ validate_client_filter(filter)
                         /\ sort_key = "" \/ field_is_allowed(sort_key)
              THEN GoTo([q EXCEPT !.filters = {matching}, !.lost = lost], "db")
              ELSE Answered(q, 400))
  /\ UNCHANGED <<store, disturbed, written, dispatchVars>>

(* url_route and its unprotected twin.                                        *)
url_route(r) ==
  /\ Begins(r, "route")
  /\ Update(r, GoTo([Idle EXCEPT !.op = "route"], "route"))
  /\ UNCHANGED <<store, disturbed, written, dispatchVars>>

(* url_post_route and its unprotected twin, once the body is read (Uploads),  *)
(* and url_generic_rest_route: the same dispatch.                             *)
url_generic_rest_route(r, op) ==
  /\ Begins(r, op)
  /\ Update(r, GoTo([Idle EXCEPT !.op = op], "rest"))
  /\ UNCHANGED <<store, disturbed, written, dispatchVars>>

(* ------------------------- asking the plugins --------------------------- *)

(* sender.send(msg).await with a reply channel: a plugin that is gone is      *)
(* passed over, a full mailbox is waited for.                                 *)
Question(q, r) == Message(q.stage, r, q.turn,
                          IF q.stage \in {"auth", "pre"} THEN q.carried
                                                        ELSE q.page)

Ask(r) ==
  LET q == req[r]  p == PluginOf(q.turn) IN
  /\ q.pc = "send" /\ ~Over(q) /\ q.stage # "post"
  /\ IF plugin[p].alive
       THEN /\ HasRoom(p)
            /\ plugin' = Put(p, Question(q, r))
            /\ slot' = [slot EXCEPT ![r] = Empty]
            /\ Update(r, [q EXCEPT !.pc = "wait"])
       ELSE /\ Update(r, NextTurn(q))
            /\ UNCHANGED <<plugin, slot>>
  /\ UNCHANGED <<inbox, core, spent, said, store, disturbed, written>>

(* A plausible bug: try_send, as for the periodic job.                        *)
TellIfRoom(r) ==
  LET q == req[r]  p == PluginOf(q.turn) IN
  /\ q.pc = "send" /\ ~Over(q) /\ q.stage = "post"
  /\ plugin' = IF plugin[p].alive /\ HasRoom(p)
                 THEN Put(p, Message("post", r, q.turn, q.carried))
                 ELSE plugin
  /\ Update(r, NextTurn(q))
  /\ UNCHANGED <<inbox, core, slot, spent, said, store, disturbed, written>>

(* call_item_post_edit_hook_actor: no reply channel, but room is waited for.  *)
Tell(r) ==
  LET q == req[r]  p == PluginOf(q.turn) IN
  /\ q.pc = "send" /\ ~Over(q) /\ q.stage = "post"
  /\ IF plugin[p].alive
       THEN /\ HasRoom(p)
            /\ plugin' = Put(p, Message("post", r, q.turn, q.carried))
       ELSE UNCHANGED plugin
  /\ Update(r, NextTurn(q))
  /\ UNCHANGED <<inbox, core, slot, spent, said, store, disturbed, written>>

(* A plausible bug: a veto only counts from the last plugin asked.            *)
AuthLastWins(q, a) ==
  IF a.verdict = "no" /\ q.turn = Turns("auth") THEN Answered(q, 403)
                                                ELSE NextTurn(q)

(* What an answer does to the request.  A dropped channel counts as nothing   *)
(* said.                                                                      *)
AfterAuth(q, a) ==
  IF a.verdict = "no" THEN Answered(q, 403) ELSE NextTurn(q)

Swapped(q, a) ==
  IF a.verdict # "dropped"
    THEN [q EXCEPT !.carried = a.carried] ELSE q

AfterPreEdit(q, a) ==
  IF a.verdict = "no" THEN Answered(Swapped(q, a), 200)
                      ELSE NextTurn(Swapped(q, a))

AfterDbFilter(q, a) ==
  NextTurn(IF a.verdict = "ok"
             THEN [q EXCEPT !.filters = @ \cup {a.carried}] ELSE q)

AfterListFilter(q, a) ==
  NextTurn(IF a.verdict = "dropped" THEN q
                                    ELSE [q EXCEPT !.page = a.carried])

AfterRoute(q, a) ==
  IF a.verdict = "ok" THEN Answered(q, 200) ELSE NextTurn(q)

AfterRest(q, a) ==
  NextTurn(IF a.verdict = "ok" THEN [q EXCEPT !.outcome = 200] ELSE q)

Hear(r) ==
  LET q == req[r]  a == slot[r] IN
  /\ q.pc = "wait"
  /\ a # Empty
  /\ slot' = [slot EXCEPT ![r] = Empty]
  /\ Update(r, CASE q.stage = "auth" -> AfterAuth(q, a)
                 [] q.stage = "pre" -> AfterPreEdit(q, a)
                 [] q.stage = "db" -> AfterDbFilter(q, a)
                 [] q.stage = "filter" -> AfterListFilter(q, a)
                 [] q.stage = "route" -> AfterRoute(q, a)
                 [] q.stage = "rest" -> AfterRest(q, a))
  /\ UNCHANGED <<plugin, inbox, core, spent, said, store, disturbed, written>>

(* -------------------------- between the stages -------------------------- *)

StageOver(r, stage) ==
  req[r].pc = "send" /\ req[r].stage = stage /\ Over(req[r])

(* The collection is looked up only now.                                      *)
AuthOver(r) ==
  /\ StageOver(r, "auth")
  /\ Update(r, IF req[r].op = "unknown"
                 THEN Answered(req[r], 400) ELSE GoTo(req[r], "pre"))
  /\ UNCHANGED <<store, disturbed, written, dispatchVars>>

(* The edits that are on their way when someone else writes.                  *)
Underway == {x \in Requests : req[x].op = "edit"
                              /\ req[x].stage \in {"auth", "pre"}}

(* set_item, or del_item, and on to the post-edit hooks.                      *)
PreEditOver(r) ==
  LET q == req[r] IN
  /\ StageOver(r, "pre")
  /\ store' = [store EXCEPT ![q.id] = IF q.op = "edit" THEN q.carried
                                                       ELSE Absent]
  /\ Update(r, GoTo(q, "post"))
  /\ disturbed' = disturbed \cup (Underway \ {r})
  /\ written' = written \cup {r}
  /\ UNCHANGED dispatchVars

(* A plausible bug: the failure is only logged, for edits too.                *)
WriteFailsQuietly(r) ==
  /\ StageOver(r, "pre")
  /\ Update(r, GoTo(req[r], "post"))
  /\ UNCHANGED <<store, disturbed, written, dispatchVars>>

(* The store could not write: an edit is answered 500, and nobody is told.    *)
(* A failed delete is only logged.                                            *)
WriteFails(r) ==
  LET q == req[r] IN
  /\ StageOver(r, "pre")
  /\ Update(r, IF q.op = "edit" THEN Answered(q, 500) ELSE GoTo(q, "post"))
  /\ UNCHANGED <<store, disturbed, written, dispatchVars>>

(* get_items with all the filters joined by $and.  If that text cannot be     *)
(* read it is no filter at all, and the plugins' filters go with it.          *)
Matches(q) ==
  {i \in Ids : store[i] # Absent /\ (q.lost \/ \A f \in q.filters : i \in f)}

DbFiltersOver(r) ==
  /\ StageOver(r, "db")
  /\ Update(r, GoTo([req[r] EXCEPT !.page = Matches(req[r])],
                    "filter"))
  /\ UNCHANGED <<store, disturbed, written, dispatchVars>>

(* -------------------------- plugins and the core ------------------------ *)

(* What a plugin may answer (external: the plugins are not in this            *)
(* repository).  It changes the contents of an item, not its owner; a list    *)
(* filter only withholds.                                                     *)
Answers(m) ==
  CASE m.hook = "auth" -> {Answer(v, m.carried) : v \in {"ok", "no"}}
    [] m.hook = "pre" ->
         {Answer("no", m.carried), Answer("not implemented", m.carried)} \cup
         {Answer("ok", c) : c \in
            IF m.carried = Absent THEN {Absent}
            ELSE {[m.carried EXCEPT !.val = x] : x \in Vals}}
    [] m.hook = "db" -> {Answer("not implemented", Ids)} \cup
                        {Answer("ok", f) : f \in SUBSET Ids}
    [] m.hook = "filter" -> {Answer("ok", f) : f \in SUBSET m.carried}
    [] m.hook \in {"route", "rest"} ->
         {Answer(v, m.carried) : v \in {"ok", "not implemented"}}
    [] m.hook = "post" -> {Answer("told", m.carried)}
    [] m.hook = "tick" -> {Answer("told", {})}

PluginFinishes(p) ==
  /\ plugin[p].serving # None
  /\ \E a \in Answers(plugin[p].serving) : Finish(p, a)
  /\ UNCHANGED <<spent, store, req, disturbed, written>>

PluginElse(p) ==
  /\ \/ \E calls \in BOOLEAN : Receive(p, calls)
     \/ \E op \in {"get", "set", "del", "notify"} : SendCall(p, op)
     \/ FinishSilently(p)
     \/ End(p)
  /\ UNCHANGED <<store, req, disturbed, written>>

(* handle_message: reads and notifications leave the items alone, DbSetItem   *)
(* and DbDelItem write; no hook is called.  A plugin that writes an item back *)
(* keeps its owner.                                                           *)
CoreServes ==
  /\ CoreReply
  /\ \/ /\ core.op \in {"get", "notify"}
        /\ UNCHANGED <<store, disturbed>>
     \/ /\ core.op = "set"
        /\ \E id \in Ids, v \in SentVals :
             store' = [store EXCEPT ![id] =
                         [val |-> v,
                          owner |-> IF @ = Absent THEN NoUser ELSE @.owner]]
        /\ disturbed' = disturbed \cup Underway
     \/ /\ core.op = "del"
        /\ \E id \in Ids : store' = [store EXCEPT ![id] = Absent]
        /\ disturbed' = disturbed \cup Underway
  /\ UNCHANGED <<req, written>>

CoreTakes == CoreTake /\ UNCHANGED <<store, req, disturbed, written>>
Tick == call_periodic_job_hook /\ UNCHANGED <<store, req, disturbed, written>>

(* An item there from the start belongs to some account.                      *)
SomeItems == [val : SentVals, owner : {CHOOSE u \in Users : TRUE}]

Init ==
  /\ DispatchInit
  /\ store \in [Ids -> {Absent} \cup SomeItems]
  /\ req = [r \in Requests |-> Idle]
  /\ disturbed = {}
  /\ written = {}

Begin(r) ==
  \/ \E id \in Ids, u \in {Caller[r], NoUser}, v \in SentVals :
       itm_edit(r, id, u, v)
  \/ \E id \in Ids : itm_del(r, id) \/ itm_list_id(r, id)
  \/ UnknownCollection(r)
  \/ RefusedAtOnce(r)
  \/ itm_list_query(r)
  \/ url_route(r)
  \/ \E op \in {"post_route", "rest"} : url_generic_rest_route(r, op)

Continue(r) ==
  \/ Ask(r)
  \/ Tell(r)
  \/ Hear(r)
  \/ AuthOver(r)
  \/ PreEditOver(r)
  \/ WriteFails(r)
  \/ DbFiltersOver(r)

Next ==
  \/ \E r \in Requests : Begin(r) \/ Continue(r)
  \/ \E p \in Plugins : PluginFinishes(p) \/ PluginElse(p)
  \/ CoreTakes \/ CoreServes
  \/ Tick

(* The runtime polls every task that can go on: a request's, the core's and   *)
(* a plugin's.  That a plugin which serves a message finishes it is assumed   *)
(* of the plugins; that they live, answer or refrain from calls is not.       *)
Fairness ==
  /\ \A r \in Requests : WF_vars(Continue(r))
  /\ \A p \in Plugins :
       /\ WF_vars(Receive(p, FALSE) /\ UNCHANGED <<store, req, disturbed, written>>)
       /\ WF_vars(PluginFinishes(p))
       /\ WF_vars(\E op \in {"get", "set", "del", "notify"} :
                    SendCall(p, op)
                    /\ UNCHANGED <<store, req, disturbed, written>>)
  /\ WF_vars(CoreTakes)
  /\ WF_vars(CoreServes)

Spec == Init /\ [][Next]_vars /\ Fairness

(* ------------------------------ properties ------------------------------ *)

(* Every request record, mailbox and reply channel has its shape: a mailbox   *)
(* and the inbox stay within their capacities, a request never runs past the  *)
(* turns of its stage, and a plugin that is gone holds no message.            *)
TypeOK ==
  /\ Len(inbox) <= CoreCap
  /\ \A p \in Plugins :
       /\ Len(plugin[p].box) <= MailboxCap
       /\ plugin[p].call \in {"none", "sending", "waiting", "over"}
       /\ ~plugin[p].alive => plugin[p].box = <<>> /\ plugin[p].serving = None
  /\ store \in [Ids -> {Absent} \cup Item]
  /\ \A r \in Requests :
       /\ req[r].pc \in {"idle", "send", "wait", "done"}
       /\ req[r].stage \in Hooks \cup {"none"}
       /\ req[r].stage # "none" => req[r].turn \in 1..(Turns(req[r].stage) + 1)
       /\ req[r].page \subseteq Ids
       /\ req[r].carried \in {Absent} \cup Item

(* A request that one plugin refused, whether in an auth hook or in a         *)
(* pre-edit hook, never writes, whatever the plugins asked after it say       *)
(* (call_item_auth_hook_actor, call_item_pre_edit_hook_actor).                *)
VetoHolds == \A r \in Requests : said[r].veto => req[r].stage # "post"

(* The turns of a stage that fall to plugin p.                                *)
TurnsOf(p, hook) == {n \in 1..Turns(hook) : PluginOf(n) = p}

(* By the time an edit or a delete writes, every plugin that is still there   *)
(* was asked by every handler of both stages; and by the time a POST or REST  *)
(* route is answered, whatever plugin answered it first.                      *)
EveryoneIsAsked ==
  \A r \in Requests, p \in Plugins : plugin[p].alive =>
    /\ req[r].stage = "post" => \A hook \in {"auth", "pre"} :
         \A n \in TurnsOf(p, hook) : <<hook, n>> \in said[r].asked
    /\ req[r].stage = "rest" /\ req[r].pc = "done" =>
         \A n \in TurnsOf(p, "rest") : <<"rest", n>> \in said[r].asked

(* The post-edit messages of request r that reached plugin p.                 *)
ToldTurns(r, p) ==
  {n \in TurnsOf(p, "post") : <<"post", n>> \in said[r].asked} \cup
  {m.turn : m \in {n \in {plugin[p].serving} \cup
                          {plugin[p].box[i] : i \in DOMAIN plugin[p].box} :
                    n.hook = "post" /\ n.req = r}}

(* When an edit is answered as done, every plugin that is still there has     *)
(* been sent every post-edit hook: a full mailbox delays the answer, it does  *)
(* not lose the hook.                                                         *)
EveryoneIsTold ==
  \A r \in Requests : req[r].stage = "post" /\ req[r].pc = "done" =>
    \A p \in Plugins : plugin[p].alive => ToldTurns(r, p) = TurnsOf(p, "post")

(* Nobody is told of an edit that is not in the store.                        *)
OnlyStoredEditsAreTold ==
  \A r \in Requests, p \in Plugins :
    req[r].op = "edit" /\ ToldTurns(r, p) # {} => r \in written

(* What an edit stores is what the last plugin that answered left of it: a    *)
(* change made by one plugin is not lost in the next.                         *)
LastWordStands ==
  \A r \in written : req[r].op = "edit" /\ said[r].left # <<>> =>
    said[r].left = <<req[r].carried>>

(* A page shows nothing that a plugin withheld in its list filter, whatever   *)
(* the client sent.  Nor anything withheld in a database filter, except where *)
(* the client's own filter made the joined one unreadable (`lost`): get_items *)
(* then reads without any, so that a blank filter, or a number too large in   *)
(* one, undoes what the plugins' database filters withheld.  An item asked    *)
(* for by id that was withheld is answered like one that does not exist.      *)
WithheldStaysWithheld ==
  \A r \in Requests : req[r].op \in {"list", "query"} /\ req[r].pc = "done" =>
    /\ said[r].shown # <<>> => req[r].page \subseteq said[r].shown[1]
    /\ ~req[r].lost /\ said[r].left # <<>> => req[r].page \subseteq said[r].left[1]
    /\ req[r].op = "list" => (req[r].outcome = 200 <=> req[r].page # {})

(* A query gets past the server exactly when it holds nothing that a client   *)
(* must not ask for, however deep it is hidden (validate_client_filter and    *)
(* field_is_allowed, against Forbidden).                                      *)
QueriesAreHarmless ==
  \A r \in Requests : req[r].op = "query" =>
    (req[r].stage # "none" <=> ~req[r].forbidden)

(* At most one plugin serves a GET route: the first to answer ends the        *)
(* dispatch, and what a later one would do is not done (call_url_route_actor).*)
RoutesAreServedOnce == \A r \in Requests : said[r].served <= 1

(* Only an edit that another write overtook, after it read the record to      *)
(* stamp it, moves a record to another owner.                                 *)
OwnersStay ==
  [][\A id \in Ids :
       (/\ store[id] # Absent /\ store'[id] # Absent
        /\ store[id].owner # store'[id].owner)
       => \E r \in disturbed : req[r].stage = "pre" /\ req'[r].stage = "post"
    ]_vars

(* Every request that begins is answered: nobody waits for ever on a full     *)
(* mailbox, on a plugin that ended, or on a plugin that waits for the core.   *)
RequestsAreAnswered ==
  \A r \in Requests : req[r].pc # "idle" ~> req[r].pc = "done"

(* What a hook is for: whoever has one is asked, is obeyed when it refuses,   *)
(* and has the change it made kept; and what is answered once is not put to   *)
(* others.                                                                    *)
HooksAreHeard ==
  TypeOK /\ VetoHolds /\ EveryoneIsAsked /\ LastWordStands /\ RoutesAreServedOnce

(* Plugins hear of every edit that was stored, and of no other.               *)
EditsAreTold == EveryoneIsTold /\ OnlyStoredEditsAreTold

(* A list shows neither what a plugin withheld nor what a client must not     *)
(* search for.                                                                *)
ListsShowNoMore == WithheldStaysWithheld /\ QueriesAreHarmless
=============================================================================
