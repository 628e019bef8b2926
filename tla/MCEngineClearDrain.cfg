\* Immutable-memtable queue under weakly fair send tasks and flusher.
\* Expected: QueueDrains is violated.
CONSTANTS
    k1 = k1  k2 = k2  v1 = v1  v2 = v2
    Keys <- MCKeys
    Vals <- MCVals
    HEAD = HEAD
    TAIL = TAIL
    Tombstone = Tombstone
    Absent = Absent
    MemCapacity = 3
    MaxBufferWriteNumber = 2
    StrictClock = TRUE
    MaxLog = 5
    MaxCrashes = 0
    MaxClears = 1
    OpenWithConfig = FALSE
    MinTierSstables = 2
    TombstoneGrace = 0
    MaxCompactions = 0
SPECIFICATION FairSpec
PROPERTY ChannelDrains
CHECK_DEADLOCK FALSE
