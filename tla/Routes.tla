------------------------------- MODULE Routes -------------------------------
(* The routes that plugins declare in internals.js, which three parsers read  *)
(* on their own account: run() to register them (lib.rs), the route cache to  *)
(* dispatch them (state/route_cache.rs), and the OpenAPI document to describe *)
(* them (server/openapi.rs).                                                  *)
(*                                                                            *)
(* A spec is "path:method:handler", or shorter when somebody got it wrong; a  *)
(* table of specs is a hash map, visited in an order of its own each time it  *)
(* is read.                                                                   *)
EXTENDS Naturals, Sequences, FiniteSets

CONSTANTS RouteSpecs,   \* specs a configuration may hold
          MaxSpecs,     \* bound: specs in one configuration
          CoreRoutes,   \* the server's own <<path, method>>
          PathOrder,    \* all paths, in the order of their spelling
          Normal        \* path -> the words of its normalised form

(* The tables, in the order in which run() registers them.                    *)
Tables == <<"extra_route", "extra_unprotected_route", "extra_rest_route">>

ASSUME RoutesAssumption ==
  /\ RouteSpecs \subseteq
       [table : {Tables[i] : i \in 1..3}, path : DOMAIN Normal,
        method : {"get", "post", "GET"}, handler : STRING, parts : 1..3]
  /\ MaxSpecs \in Nat
  /\ \A p \in DOMAIN Normal : Normal[p] \in Seq(Nat)
  /\ PathOrder \in Seq(DOMAIN Normal)

VARIABLES internals,   \* the specs of this deployment
          registered,  \* per table: path -> method
          route_cache  \* per table: path -> handler

routeVars == <<internals, registered, route_cache>>

NoRoutes == [t \in {Tables[i] : i \in 1..3} |-> <<>>]

RoutesInit(specs) ==
  /\ internals \in specs
  /\ registered = NoRoutes
  /\ route_cache = NoRoutes

Configurations == {S \in SUBSET RouteSpecs : Cardinality(S) <= MaxSpecs}

In(t, parts) == {s \in internals : s.table = t /\ s.parts >= parts}

(* The maps that inserting the specs may build: of two for one path, the one  *)
(* visited last stays.                                                        *)
Inserted(specs, part) ==
  {g \in [{s.path : s \in specs} -> {s[part] : s \in specs}] :
     \A p \in DOMAIN g : \E s \in specs : s.path = p /\ g[p] = s[part]}

(* run() takes the second part of every spec for granted.                     *)
Malformed == \E s \in internals : s.parts < 2

(* run() keeps one method for a path.                                         *)
Register(t) == Inserted(In(t, 2), "method")

(* RouteCache::from_internals keeps one handler for a path, and does not look *)
(* at the method.                                                             *)
from_internals(t) == Inserted(In(t, 3), "handler")

(* rebuild_route_cache, then the registration.                                *)
WireRoutes ==
  /\ ~Malformed
  /\ \E r1 \in Register(Tables[1]), r2 \in Register(Tables[2]),
        r3 \in Register(Tables[3]) :
       registered' = [t \in DOMAIN NoRoutes |->
         CASE t = Tables[1] -> r1 [] t = Tables[2] -> r2 [] OTHER -> r3]
  /\ \E c1 \in from_internals(Tables[1]), c2 \in from_internals(Tables[2]),
        c3 \in from_internals(Tables[3]) :
       route_cache' = [t \in DOMAIN NoRoutes |->
         CASE t = Tables[1] -> c1 [] t = Tables[2] -> c2 [] OTHER -> c3]
  /\ UNCHANGED internals

RoutesDie ==
  /\ registered' = NoRoutes
  /\ route_cache' = NoRoutes
  /\ UNCHANGED internals

(* What answers a request: the server's own routes are registered first, then *)
(* the tables in their order; a registered path whose handler is not in the   *)
(* cache is not found.                                                        *)
Registers(t, p, m) == p \in DOMAIN registered[t] /\ registered[t][p] = m

Served(p, m) ==
  LET hits == {i \in 1..3 : Registers(Tables[i], p, m)} IN
  IF <<p, m>> \in CoreRoutes \/ hits = {} THEN {}
  ELSE LET t == Tables[CHOOSE i \in hits : \A j \in hits : i <= j] IN
       IF p \in DOMAIN route_cache[t] THEN {<<t, route_cache[t][p]>>} ELSE {}

(* A plausible bug: the method is compared without its case.                  *)
PluginRoutesAnyCase ==
  {[s EXCEPT !.method = IF @ = "GET" THEN "get" ELSE @] :
     s \in {x \in internals : x.parts >= 3}}

(* plugin_routes: what the document takes out of internals.js.                *)
plugin_routes ==
  {s \in internals : s.parts >= 3 /\ s.method \in {"get", "post"}}

(* build_spec: of several routes for one path and method the last one put in  *)
(* stays, and the tables are gone through in order.                           *)
Documented(p, m) ==
  LET at(i) == {s \in plugin_routes :
                  s.table = Tables[i] /\ s.path = p /\ s.method = m}
      hits == {i \in 1..3 : at(i) # {}} IN
  IF hits = {} THEN {}
  ELSE LET last == CHOOSE i \in hits : \A j \in hits : i >= j IN
       {<<s.table, s.handler>> : s \in at(last)}

(* The operations of the document, in the order of its maps.                  *)
Operation(n) ==
  <<PathOrder[(n + 1) \div 2], IF n % 2 = 1 THEN "get" ELSE "post">>
Described(o) == o \in CoreRoutes \/ Documented(o[1], o[2]) # {}

(* The id of an operation: its method and normalised path, with the first     *)
(* suffix from 2 on that makes it new.                                        *)
FreeId(taken, o) ==
  LET plain == [method |-> o[2], words |-> Normal[o[1]]]
      suffixed(n) == [plain EXCEPT !.words = Append(@, n)]
      free == {n \in 2..Cardinality(taken) + 2 : suffixed(n) \notin taken} IN
  IF plain \notin taken THEN plain
                        ELSE suffixed(CHOOSE n \in free : \A k \in free : n <= k)

(* One turn of the loop: the operation gets an id that no other has.          *)
Enter(given, o) ==
  IF Described(o) THEN given \cup {<<o, FreeId({g[2] : g \in given}, o)>>}
                  ELSE given

(* The ids given after so many turns, each with its operation.                *)
IdsAfter[n \in 0..2 * Len(PathOrder)] ==
  IF n = 0 THEN {} ELSE Enter(IdsAfter[n - 1], Operation(n))

assign_operation_ids == IdsAfter[2 * Len(PathOrder)]

(* ------------------------------ properties ------------------------------ *)

(* A path that one table declares twice, or a route that two tables or the    *)
(* server itself declare too: one of them wins, not the same one everywhere.  *)
Contested(p, m) ==
  \/ <<p, m>> \in CoreRoutes
  \/ \E s, x \in internals :
       /\ s # x /\ s.path = p /\ x.path = p
       /\ s.table = x.table \/ (s.method = m /\ x.method = m)

(* The three parsers agree: what the document says about a route that is not  *)
(* contested is what a request for it gets, the same table and the same       *)
(* handler; what is not in the document is not served.                        *)
DocumentedIsServed ==
  registered # NoRoutes =>
    \A p \in DOMAIN Normal, m \in {"get", "post"} :
      ~Contested(p, m) => Documented(p, m) = Served(p, m)

(* No two operations of the document have one id, though paths may normalise  *)
(* to the same words, and the suffix that tells them apart may make another   *)
(* path's.                                                                    *)
OperationIdsAreUnique ==
  registered # NoRoutes =>
    \A x, y \in assign_operation_ids : x[2] = y[2] => x = y

(* The document tells the truth about the routes: each is where it says, and  *)
(* has a name of its own.                                                     *)
DocumentIsTrue == DocumentedIsServed /\ OperationIdsAreUnique
=============================================================================
