----------------------------- MODULE MCSecretApi -----------------------------
(* Two ordinary accounts, an administrator, one adopted name with its       *)
(* reserved form, one name of somebody's own, and three ids of which the    *)
(* last is u64::MAX.                                                        *)
EXTENDS SecretApi, TLC

CONSTANTS ann, bob, root

Symmetry == Permutations({ann, bob})

MCNames == {"ldap", "global.ldap", "mine"}
MCLegacyNames == <<"ldap">>
MCGlobalName == [n \in MCNames |-> IF n = "ldap" THEN "global.ldap" ELSE n]
MCLegacyFiles ==
    {<<[name |-> "mine", val |-> Absent], [name |-> "ldap", val |-> "v1"]>>}
\* Every request claims to be the administrator's; `stamp` decides.  One
\* request with an empty name is enough: it is refused whatever else it says.
MCBodies == {b \in SentItem : /\ b.owner = root
                              /\ b.name = Empty => b.id = MaxId /\ b.val = Hidden}
==============================================================================
