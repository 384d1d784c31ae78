---------------------------- MODULE MCMongoItems -----------------------------
(* Model values for processes and requests are interchangeable.             *)
EXTENDS MongoItems, TLC

Symmetry == Permutations(Procs) \cup Permutations(Tasks)
==============================================================================
