SPECIFICATION Spec
CONSTANTS
    Procs = {p1}
    Tasks = {t1}
    ClientIds = {1}
    MaxSeq = 4
    MaxId = 6
    MaxOps = 3
    Faults = {"alloc"}
SYMMETRY Symmetry
PROPERTY TakenIdsAreNotHandedOut
