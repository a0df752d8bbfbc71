SPECIFICATION Spec
CONSTANTS
    d1 = d1
    d2 = d2
    k1 = k1
    k2 = k2
    k3 = k3
    i3 = i3
    Doc = {d1, d2}
    Key = {k1, k3}
    Owner <- MCOwner
    Vec = {v1}
    Meta = {m1}
    Identity = {i1, i3}
    Dim <- MCDim
    NoDoc = NoDoc
    NoGeneration = NoGeneration
    Worker = Worker
    Caller = {c1}
    Reader = {}
    DeltaLimit = 1
    DeltaPercent = 50
    TombstonePercent = 50
    ExactThreshold = 1
    Budget = 4
    MaxRevision = 2
    MaxCalls = 1
    MaxSearches = 0
    MaxRestarts = 1
CHECK_DEADLOCK FALSE
INVARIANTS
    DenseConsistent
    Restorable
PROPERTIES
    ImplementsBackend
