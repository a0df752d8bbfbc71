SPECIFICATION Spec
CONSTANTS
    Doc = {d1}
    Hash = {h1}
    NoDoc = NoDoc
    NoJob = NoJob
    Worker = {w1}
    Client = {c1, c2}
    Main = main
    QueueCapacity = 1
    MaxTerminalJobs = 0
    AmpleBytes = TRUE
    CheckpointBy = {"onReady", "caller"}
    MaxJobs = 2
    MaxFaults = 0
    MaxCrashes = 0
\* The behaviour ends when every bound is used up.
CHECK_DEADLOCK FALSE
SYMMETRY CallersAndHashes
INVARIANTS
    DurableAck
