---------------------------- MODULE DurableSecrets ----------------------------
(***************************************************************************)
(* What the secret store promises to a reader of its file: a map from ids  *)
(* to items in which no two items have the same name, changed by whole     *)
(* puts and removes.  A crash is not visible here at all.                  *)
(***************************************************************************)
VARIABLE secrets

UniqueNames(m) == \A i, j \in DOMAIN m : m[i].name = m[j].name => i = j

Init == UniqueNames(secrets)

\* One entry is written, new or over the one with its id; the others stay.
PutOne == \E i \in DOMAIN secrets' :
            /\ DOMAIN secrets' = DOMAIN secrets \cup {i}
            /\ secrets'[i].id = i
            /\ \A j \in DOMAIN secrets \ {i} : secrets'[j] = secrets[j]
            /\ UniqueNames(secrets')

RemoveOne == \E i \in DOMAIN secrets :
               secrets' = [j \in DOMAIN secrets \ {i} |-> secrets[j]]

Next == /\ secrets' # secrets
        /\ PutOne \/ RemoveOne

Spec == Init /\ [][Next]_secrets
==============================================================================
