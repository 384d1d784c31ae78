------------------------------ MODULE MCSystem ------------------------------
(* Route specs that get in each other's way in all the ways the parsers tell  *)
(* apart: one path twice in a table, in two tables, over a route of the       *)
(* server's own, a method in capitals, a spec without a handler, and one      *)
(* without a method; and three paths whose ids collide.                       *)
EXTENDS System

Declared(table, path, method, handler, parts) ==
  [table |-> table, path |-> path, method |-> method, handler |-> handler,
   parts |-> parts]

MCRouteSpecs ==
  {Declared("extra_route", "/x.y", "get", "h1", 3),
   Declared("extra_unprotected_route", "/x.y.2", "get", "h2", 3),
   Declared("extra_route", "/x/y", "get", "h3", 3),
   Declared("extra_route", "/x/y", "post", "h4", 3),
   Declared("extra_rest_route", "/x/y", "get", "h5", 3),
   Declared("extra_rest_route", "/x/y", "post", "h6", 3),
   Declared("extra_route", "/login", "post", "h7", 3),
   Declared("extra_route", "/x", "GET", "h8", 3),
   Declared("extra_rest_route", "/x", "get", "h9", 2),
   Declared("extra_unprotected_route", "/x", "get", "h0", 1)}

MCCoreRoutes == {<<"/login", "post">>}
MCPathOrder == <<"/login", "/x", "/x.y", "/x.y.2", "/x/y">>

(* The words "login", "x" and "y" are 0, 7 and 8; a numeral is itself.        *)
MCNormal ==
  [p \in {"/login", "/x", "/x.y", "/x.y.2", "/x/y"} |->
     CASE p = "/login" -> <<0>>
       [] p = "/x" -> <<7>>
       [] p = "/x.y.2" -> <<7, 8, 2>>
       [] OTHER -> <<7, 8>>]
=============================================================================
