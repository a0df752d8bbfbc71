SPECIFICATION Spec
CONSTANTS
    Mark <- MCMark
    Fresh <- MCFresh
    NativeRows = {4}
    OwnerRows = {1, 2}
    M = 1
    EfConstruction = 4
    EfSearch = 1
    MaxLevel = 1
    Workers = 2
    ParallelMin = 3
    Searcher = {r1, r2}
    NoFile = NoFile
    NoIndex = NoIndex
    NoVec = NoVec
    Query = {4}
    Wanted = {1, 2}
    MaxBuilds = 1
    MaxSearches = 2
    MaxSaves = 1
\* The behaviour ends when every bound is used up.
CHECK_DEADLOCK FALSE
INVARIANTS
    
    FilteredComplete
    
    
    SealIsMemoization
