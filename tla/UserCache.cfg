SPECIFICATION FairSpec
CONSTANTS
    Principals = {p1, p2}
    Lookups = {l1, l2}
    Writers = {w1, w2}
    MaxWrites = 2
INVARIANT LookupsSeeAckedWrites
PROPERTY EventuallyCoherent
