SPECIFICATION FairSpec
CONSTANTS
    d1 = d1
    d2 = d2
    k1 = k1
    k2 = k2
    k3 = k3
    i3 = i3
    Doc = {d1, d2}
    Key = {k1, k2}
    Owner <- MCOwner
    Vec = {v1}
    Meta = {m1}
    Identity = {i1}
    Dim <- MCDim
    NoDoc = NoDoc
    NoGeneration = NoGeneration
    Worker = Worker
    Caller = {}
    Reader = {r1}
    DeltaLimit = 1
    DeltaPercent = 50
    TombstonePercent = 50
    ExactThreshold = 1
    Budget = 4
    MaxRevision = 2
    MaxCalls = 0
    MaxSearches = 1
    MaxRestarts = 0
CHECK_DEADLOCK FALSE
INVARIANTS
    SearchConsistent
PROPERTIES
    MaintenanceConverges
