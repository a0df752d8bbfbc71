SPECIFICATION Spec
CONSTANTS
    Doc = {d1}
    Hash = {h1}
    NoDoc = NoDoc
    NoJob = NoJob
    Worker = {w1}
    Client = {c1}
    Main = main
    QueueCapacity = 1
    MaxTerminalJobs = 1
    AmpleBytes = FALSE
    CheckpointBy = {"onReady"}
    MaxJobs = 3
    MaxFaults = 1
    MaxCrashes = 1
\* The behaviour ends when every bound is used up.
CHECK_DEADLOCK FALSE
SYMMETRY CallersAndHashes
INVARIANTS
    
    ServesLatestReady
