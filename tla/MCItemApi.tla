----------------------------- MODULE MCItemApi -----------------------------
(* Two plugins, two requests, mailboxes of one place: a plugin that serves    *)
(* one message has room for one more, and the third sender waits.             *)
EXTENDS ItemApi

MCHandlers == [h \in Hooks |-> 1]

(* Two edits of the item, or a route that comes in while something else is    *)
(* being served.                                                              *)
MCTogether ==
  {<<"edit", "edit">>} \cup
  ({"edit", "del", "list", "query", "route", "rest"} \X {"route"})

(* Leaves good and bad, alone, inside one combinator, beside a good one, and  *)
(* at the deepest level and one below it.                                     *)
Leaves ==
  {Object({Entry(k, Scalar)}) : k \in {"name", "password", "engine.token", "$where", ""}}
  \cup {Object({Entry("name", v)}) : v \in
          {List(1, TRUE), Object({})} \cup
          {Object({Entry(op, operand)}) :
             op \in {"$gt", "$in", "$regex"},
             operand \in {Scalar, List(1, TRUE), List(2, TRUE), List(1, FALSE)}}}

Good == Object({Entry("name", Scalar)})
Both(key, f, g) == Object({Entry(key, Array(<<f, g>>))})
One(key, f) == Object({Entry(key, Array(<<f>>))})

MCDocumentFilters ==
  {Scalar, List(1, TRUE), Object({}), Object({Entry("$and", Scalar)}),
   Object({Entry("$and", Array(<<>>))}), Object({Entry("$or", Array(<<Scalar>>))}),
   Object({Entry("name", Scalar), Entry("password", Scalar)})}
  \cup Leaves
  \cup {Both("$or", f, Good) : f \in Leaves} \cup {Both("$and", Good, f) : f \in Leaves}
  \cup {One("$and", One("$or", f)) : f \in Leaves}
  \cup {One("$and", One("$or", One("$and", f))) : f \in Leaves}

MCFilters == MCDocumentFilters \cup {Blank}

(* All that the filters are made of.                                          *)
Parts(d) == {d} \cup (CASE d.kind = "array" -> {d.values[i] : i \in DOMAIN d.values}
                       [] d.kind = "object" -> {e.value : e \in d.entries}
                       [] OTHER -> {})
Opened(docs) == UNION {Parts(d) : d \in docs}
MCDocuments ==
  LET within[n \in 0..8] == IF n = 0 THEN MCDocumentFilters ELSE Opened(within[n - 1])
  IN within[8]

CONSTANTS u1, u2
MCCaller == [r \in Requests |->
               IF r = CHOOSE x \in Requests : TRUE THEN u1 ELSE u2]
=============================================================================
