---------------------------- MODULE MCLocalStore ----------------------------
(* The request threads of LocalStore are interchangeable.                  *)
EXTENDS Listing

CONSTANTS t1, t2

SeedSets == {{}, {1}, {1, 2}}
ListSeedSets == {{1, 2}}

IdLists12 == {<<2, 1>>, <<1, 1>>}

Symmetry == Permutations({t1, t2})
=============================================================================
