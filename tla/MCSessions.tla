------------------------------ MODULE MCSessions -----------------------------
(* Model values for requests are interchangeable.  A behaviour is followed  *)
(* for as long as some property still says something about it (what was     *)
(* disturbed once stays disturbed) and at most MaxDisturbed kinds of        *)
(* request have been, MaxReplaced while an edit replaces the record or has  *)
(* left a field out of it.  Edits bring the password, and the active flag   *)
(* on, off or not at all.                                                   *)
EXTENDS Sessions, TLC

CONSTANT pw1

MCItems == {[password |-> pw1]} \cup [password : {pw1}, active : Flags]

Symmetry == Permutations(Tasks)

MaxDisturbed == 2

MaxReplaced == 1

Replaced ==
    \/ "reset" \in disturbed
    \/ user.active = Absent
    \/ \E t \in Tasks : task[t].kind = "edit" /\ ~task[t].merge

StillOfInterest ==
    /\ Cardinality(disturbed) <= IF Replaced THEN MaxReplaced ELSE MaxDisturbed
    /\ \/ Alone({"logout", "edit", "reset"})
       \/ Alone({"guess"}) \/ Alone({"login"}) \/ Alone({"edit"})
==============================================================================
