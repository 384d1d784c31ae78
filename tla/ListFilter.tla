----------------------------- MODULE ListFilter -----------------------------
(* What a client may ask of the database when it lists a collection           *)
(* (server/list_filter.rs).                                                   *)
(*                                                                            *)
(* A filter is a JSON document.  A value is a scalar, a list (of how many,    *)
(* and whether they are scalars), an array of values, or an object: a set of  *)
(* entries with a key and a value each.  A field name is one that a client    *)
(* may use or one that is refused: it names a credential in some segment, is  *)
(* empty, or has a `$` inside.                                                *)
EXTENDS Naturals, Sequences

CONSTANTS MAX_DEPTH,         \* levels of combinators
          MAX_SET_OPERANDS,  \* values in a membership test
          Documents          \* the documents, with all that they are made of

Scalar == [kind |-> "scalar"]
Blank == [kind |-> "blank"]  \* white space: no document, yet not the empty text
List(size, plain) == [kind |-> "list", size |-> size, plain |-> plain]
Array(values) == [kind |-> "array", values |-> values]
Object(entries) == [kind |-> "object", entries |-> entries]
Entry(key, value) == [key |-> key, value |-> value]

IsDocument(d) ==
  \/ d = Scalar
  \/ d.kind = "list" /\ d = List(d.size, d.plain) /\ d.size \in Nat /\ d.plain \in BOOLEAN
  \/ d.kind = "array" /\ d = Array(d.values) /\ d.values \in Seq(Documents)
  \/ /\ d.kind = "object" /\ d = Object(d.entries)
     /\ \A e \in d.entries : e = Entry(e.key, e.value) /\ e.value \in Documents

ASSUME ListFilterAssumption ==
  /\ {MAX_DEPTH, MAX_SET_OPERANDS} \subseteq Nat
  /\ \A d \in Documents : IsDocument(d)

ALLOWED_COMBINATORS == {"$and", "$or"}
ALLOWED_LEAF_OPS == {"$eq", "$ne", "$gt", "$gte", "$lt", "$lte"}
ALLOWED_SET_OPS == {"$in", "$nin"}
Operators == ALLOWED_COMBINATORS \cup ALLOWED_LEAF_OPS \cup ALLOWED_SET_OPS
               \cup {"$regex", "$where"}
Credentials == {"password", "engine.token"}

field_is_allowed(name) == name \notin Credentials \cup Operators \cup {""}

(* validate_leaf_value: a scalar, or a comparison of allowed operators with   *)
(* operands of their kind.                                                    *)
validate_leaf_value(v) ==
  \/ v.kind = "scalar"
  \/ /\ v.kind = "object"
     /\ v.entries # {}
     /\ \A e \in v.entries :
          \/ /\ e.key \in ALLOWED_SET_OPS
             /\ e.value.kind = "list"
             /\ e.value.size <= MAX_SET_OPERANDS
             /\ e.value.plain
          \/ e.key \in ALLOWED_LEAF_OPS /\ e.value.kind = "scalar"

(* A plausible bug: the first branch of a combinator speaks for all.          *)
FirstBranch(v) == {v.values[1]}

Branches(v) == {v.values[i] : i \in DOMAIN v.values}

(* The outcome for a node with so many combinators around it.                 *)
validate_node[at \in Documents \X (0..MAX_DEPTH + 1)] ==
  LET node == at[1]  depth == at[2] IN
  IF /\ depth <= MAX_DEPTH
     /\ node.kind = "object"
     /\ \A e \in node.entries :
          IF e.key \in Operators
            THEN /\ e.key \in ALLOWED_COMBINATORS
                 /\ e.value.kind = "array"
                 /\ e.value.values # <<>>
                 /\ \A branch \in Branches(e.value) :
                      validate_node[<<branch, depth + 1>>] = "Ok"
            ELSE field_is_allowed(e.key) /\ validate_leaf_value(e.value)
    THEN "Ok" ELSE "Err"

(* The empty filter is no filter, and so, here, is a blank one.               *)
validate_client_filter(filter) ==
  filter \in {Scalar, Blank} \/ validate_node[<<filter, 0>>] = "Ok"

(* --------------------- the same, said another way ----------------------- *)

(* The nodes directly under the combinators of a node.                        *)
Under(node) ==
  UNION {{e.value.values[i] : i \in DOMAIN e.value.values} :
           e \in {x \in IF node.kind = "object" THEN node.entries ELSE {} :
                     x.key \in ALLOWED_COMBINATORS /\ x.value.kind = "array"}}

(* The nodes of a filter that have so many combinators around them.           *)
Inside(filter) ==
  LET level[n \in 0..MAX_DEPTH] ==
        IF n = 0 THEN {filter} ELSE UNION {Under(node) : node \in level[n - 1]}
  IN level

(* What a client must not write in a node: a credential; an operator that is  *)
(* not one of the interface's, or not where it belongs; a document that is    *)
(* nested too deep or names too many values.                                  *)
Harmful(node, level) ==
  \/ node.kind # "object"
  \/ \E entry \in node.entries :
    LET key == entry.key  v == entry.value
        comparison == v.kind = "object" /\ v.entries # {}
        operands(ops) == {e.value : e \in {x \in v.entries : x.key \in ops}} IN
    \/ key \in Credentials \cup {""}
    \/ key \in Operators \ ALLOWED_COMBINATORS
    \/ key \in ALLOWED_COMBINATORS /\
         (v.kind # "array" \/ v.values = <<>> \/ level = MAX_DEPTH)
    \/ /\ key \notin Operators \cup Credentials \cup {""}
       /\ v # Scalar
       /\ \/ ~comparison
          \/ \E e \in v.entries : e.key \notin ALLOWED_LEAF_OPS \cup ALLOWED_SET_OPS
          \/ operands(ALLOWED_LEAF_OPS) \ {Scalar} # {}
          \/ operands(ALLOWED_SET_OPS) \
               {List(n, TRUE) : n \in 0..MAX_SET_OPERANDS} # {}

(* A filter is forbidden for anything harmful in it, however deep.            *)
Forbidden(filter) ==
  /\ filter \notin {Scalar, Blank}
  /\ \E n \in 0..MAX_DEPTH : \E node \in Inside(filter)[n] : Harmful(node, n)
=============================================================================
