------------------------------ MODULE MCAccess ------------------------------
(* Values for Access: three keys, two of which differ in their spelling only; *)
(* an address that has had two subjects, and one the provider does not vouch  *)
(* for.                                                                       *)
EXTENDS Access

MCKeys == {"ann", "Ann", "bob"}
MCFolded == [k \in MCKeys |-> IF k = "Ann" THEN "ann" ELSE k]
MCIdentities ==
  {[email |-> "ann", subject |-> "s1", verified |-> TRUE],
   [email |-> "ann", subject |-> "s2", verified |-> TRUE],
   [email |-> "bob", subject |-> "s2", verified |-> FALSE]}
Symmetry == Permutations(Requests) \cup Permutations(Calls)
MCOwn == [c \in Clients \ {Holder} |-> IF c = "c1" THEN 1 ELSE 2]
=============================================================================
