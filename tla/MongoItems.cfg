SPECIFICATION Spec
CONSTANTS
    Procs = {p1, p2}
    Tasks = {t1, t2}
    ClientIds = {1, 2}
    MaxSeq = 4
    MaxId = 6
    MaxOps = 3
    Faults = {"read", "write"}
SYMMETRY Symmetry
INVARIANT AckedItemsExist
PROPERTY AllocationsAreFresh
