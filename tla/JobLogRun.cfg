SPECIFICATION Spec
CONSTANTS
    MaxJobs = 2
    Sizes = {1, 2}
    MaxTerminalJobs = 1
    MaxTerminalWords = 4
    NoRecord = NoRecord
    NoPosition = NoPosition
    MaxAppends = 3
    MaxTornWrites = 1
    MaxSyncFaults = 1
    MaxCrashes = 2
\* The behaviour ends when every bound is used up.
CHECK_DEADLOCK FALSE
INVARIANTS
    LogReadable
    PositionUsable
    LastIsNewest
PROPERTIES
    ImplementsRecordLog
