--------------------------- MODULE PluginDispatch ---------------------------
(* How the server and its plugins talk (handler/route_call_actor.rs,          *)
(* state/core_task.rs, plugin_actor_demo.rs).                                 *)
(*                                                                            *)
(* Every plugin is a task with a bounded mailbox, which serves one message at *)
(* a time.  A hook that needs an answer carries a one-shot reply channel; the *)
(* sender waits for room in the mailbox, then for the answer, with no time    *)
(* limit.  A plugin may call the core while it serves a message: it waits for *)
(* room in the core's bounded inbox, then for the core's reply.  The core     *)
(* task serves one call at a time.  A plugin may end at any moment: its       *)
(* mailbox goes with it, and everyone waiting for it sees a dropped channel.  *)
EXTENDS Naturals, Sequences, FiniteSets

CONSTANTS NPlugins,     \* plugins, in the order of the registry
          Requests,     \* HTTP requests, each served by a task of its own
          MailboxCap,   \* capacity of a plugin's mailbox (64 in the demo)
          CoreCap,      \* capacity of the core's inbox (256)
          MaxEvents     \* bound: ticks of the periodic thread, calls of the
                        \* core, plugins that end and replies dropped, in all

ASSUME DispatchAssumption ==
  /\ NPlugins \in Nat \ {0}
  /\ MailboxCap \in Nat \ {0}
  /\ CoreCap \in Nat \ {0}
  /\ MaxEvents \in Nat

Plugins == 1..NPlugins

(* What a hook is about.  "auth", "pre", "db", "filter", "route" and "rest"   *)
(* are answered; "post" and "tick" are not.                                   *)
Hooks == {"auth", "pre", "db", "filter", "route", "rest", "post", "tick"}
Unanswered == {"post", "tick"}

VARIABLES plugin,  \* per plugin: alive, mailbox, message served, core call
          inbox,   \* the core's inbox: plugins and what they ask for
          core,    \* the call the core is serving, or none
          slot,    \* per request: the reply channel of its last question
          spent,   \* events so far
          said     \* history: what the plugins said to each request

dispatchVars == <<plugin, inbox, core, slot, spent, said>>

None == [hook |-> "none"]
Empty == [verdict |-> "empty"]
Dropped == [verdict |-> "dropped"]

(* A question of request r, in its turn n, about what it carries.             *)
Message(hook, r, n, carried) ==
  [hook |-> hook, req |-> r, turn |-> n, carried |-> carried]

(* An answer, with what the plugin makes of what it was shown.                *)
Answer(verdict, carried) == [verdict |-> verdict, carried |-> carried]

Fresh == [alive |-> TRUE, box |-> <<>>, serving |-> None,
          call |-> "none"]

HasRoom(p) == Len(plugin[p].box) < MailboxCap
Put(p, m) == [plugin EXCEPT ![p].box = Append(@, m)]

NothingSaid == [asked |-> {}, veto |-> FALSE, served |-> 0, left |-> <<>>,
                shown |-> <<>>]

Spend == spent < MaxEvents /\ spent' = spent + 1

DispatchInit ==
  /\ plugin = [p \in Plugins |-> Fresh]
  /\ inbox = <<>>
  /\ core = None
  /\ slot = [r \in Requests |-> Empty]
  /\ spent = 0
  /\ said = [r \in Requests |-> NothingSaid]

(* The periodic thread: try_send, so a full mailbox loses the tick.           *)
call_periodic_job_hook ==
  /\ Spend
  /\ plugin' = [p \in Plugins |->
       IF plugin[p].alive /\ HasRoom(p)
         THEN [plugin[p] EXCEPT !.box = Append(@, [hook |-> "tick"])]
         ELSE plugin[p]]
  /\ UNCHANGED <<inbox, core, slot, said>>

(* A plugin takes the next message out of its mailbox.  Serving it may take a *)
(* call of the core, at most one a message.                                   *)
Receive(p, calls) ==
  /\ plugin[p].alive
  /\ plugin[p].serving = None
  /\ plugin[p].box # <<>>
  /\ IF calls THEN Spend ELSE UNCHANGED spent
  /\ plugin' = [plugin EXCEPT ![p].serving = Head(plugin[p].box),
                              ![p].box = Tail(@),
                              ![p].call = IF calls THEN "sending" ELSE "none"]
  /\ UNCHANGED <<inbox, core, slot, said>>

(* It waits for room in the inbox.  The calls that carry no reply channel     *)
(* (GlobalsSetSettings, SendEmail, SyncWithGoogle) end there.                 *)
SendCall(p, op) ==
  /\ plugin[p].alive
  /\ plugin[p].call = "sending"
  /\ Len(inbox) < CoreCap
  /\ inbox' = Append(inbox, [from |-> p, op |-> op])
  /\ plugin' = [plugin EXCEPT ![p].call = IF op = "notify" THEN "over"
                                                           ELSE "waiting"]
  /\ UNCHANGED <<core, slot, spent, said>>

(* The core task takes one call at a time out of its inbox.                   *)
CoreTake ==
  /\ core = None
  /\ inbox # <<>>
  /\ core' = Head(inbox)
  /\ inbox' = Tail(inbox)
  /\ UNCHANGED <<plugin, slot, spent, said>>

(* A plausible change: the core runs the post-edit hooks of a plugin's write  *)
(* itself, and waits for room in every mailbox to do so.                      *)
CoreReplyNotifies ==
  /\ core # None
  /\ \A p \in Plugins : plugin[p].alive => HasRoom(p)
  /\ core' = None
  /\ plugin' = [p \in Plugins |->
       LET q == IF plugin[p].alive
                  THEN [plugin[p] EXCEPT !.box = Append(@, [hook |-> "tick"])]
                  ELSE plugin[p]
       IN IF p = core.from /\ q.call = "waiting"
            THEN [q EXCEPT !.call = "over"] ELSE q]
  /\ UNCHANGED <<inbox, slot, spent, said>>

(* It has done what the call asked and answers; a plugin that is gone does    *)
(* not hear it.                                                               *)
CoreReply ==
  /\ core # None
  /\ core' = None
  /\ plugin' = [plugin EXCEPT ![core.from].call =
                  IF @ = "waiting" THEN "over" ELSE @]
  /\ UNCHANGED <<inbox, slot, spent, said>>

(* History: the word a plugin has on message m.                               *)
Said(h, m, answer) ==
  [asked |-> h.asked \cup {<<m.hook, m.turn>>},
   veto |-> h.veto \/ (m.hook \in {"auth", "pre"} /\ answer.verdict = "no"),
   served |-> IF m.hook = "route" /\ answer.verdict = "ok" THEN h.served + 1
                                                           ELSE h.served,
   left |-> IF m.hook \in {"pre", "db", "filter"} /\ answer.verdict # "dropped"
              THEN IF m.hook = "pre" THEN <<answer.carried>>
                   ELSE IF h.left = <<>> THEN <<answer.carried>>
                   ELSE <<h.left[1] \cap answer.carried>>
              ELSE h.left,
   shown |-> IF m.hook = "filter" /\ answer.verdict # "dropped"
               THEN IF h.shown = <<>> THEN <<answer.carried>>
                    ELSE <<h.shown[1] \cap answer.carried>>
               ELSE h.shown]

(* The plugin is done with its message and answers it, if it has a reply      *)
(* channel.                                                                   *)
Finish(p, answer) ==
  LET m == plugin[p].serving IN
  /\ plugin[p].alive
  /\ m # None
  /\ plugin[p].call \in {"none", "over"}
  /\ plugin' = [plugin EXCEPT ![p].serving = None]
  /\ slot' = IF m.hook \in Unanswered THEN slot
                                      ELSE [slot EXCEPT ![m.req] = answer]
  /\ said' = IF m.hook = "tick" THEN said
               ELSE [said EXCEPT ![m.req] = Said(@, m, answer)]
  /\ UNCHANGED <<inbox, core>>

(* It forgets to answer: the reply channel is dropped with the message.       *)
FinishSilently(p) ==
  /\ plugin[p].serving # None
  /\ plugin[p].serving.hook \notin Unanswered
  /\ Spend
  /\ Finish(p, Dropped)

(* The requests whose question goes down with plugin p.                       *)
WaitingOn(p) ==
  {m.req : m \in {n \in {plugin[p].serving} \cup
                        {plugin[p].box[i] : i \in DOMAIN plugin[p].box} :
                  n # None /\ n.hook \notin Unanswered}}

(* The plugin's task ends (Shutdown, or a panic).                             *)
End(p) ==
  /\ plugin[p].alive
  /\ Spend
  /\ plugin' = [plugin EXCEPT ![p].alive = FALSE, ![p].box = <<>>,
                              ![p].serving = None, ![p].call = "none"]
  /\ slot' = [r \in Requests |->
                IF r \in WaitingOn(p) THEN Dropped ELSE slot[r]]
  /\ UNCHANGED <<inbox, core, said>>
=============================================================================
