SPECIFICATION ListingSpec
CONSTANTS
    t1 = t1
    t2 = t2
    Tasks = {t1, t2}
    MaxId = 3
    ClientIds = {1, 2}
    MaxOps = 3
    Paths = {0, 1, 2, 3}
    Seeds <- SeedSets
    WritesFail = TRUE
    IdMins = {2, 3}
    IdMaxs = {1, 3}
    Skips = {1, 3}
    Limits = {1, 3}
    IdLists <- IdLists12
    ListSeeds <- ListSeedSets
SYMMETRY Symmetry
PROPERTY MergesKeepFields
PROPERTY AllocatedIdsAreFresh
INVARIANT StoreInv
INVARIANT ListsAreExact
