\* Queue drain for a caller that only puts and deletes (no flush_all):
\* every spawned send carries the FIRST map entry.  Expected: violated.
CONSTANTS
    k1 = k1  k2 = k2  v1 = v1  v2 = v2
    Keys <- MCKeys
    Vals <- MCVals
    HEAD = HEAD
    TAIL = TAIL
    Tombstone = Tombstone
    Absent = Absent
    MemCapacity = 3
    MaxBufferWriteNumber = 2
    StrictClock = TRUE
    MaxLog = 8
    MaxCrashes = 0
    MaxClears = 0
    OpenWithConfig = FALSE
    MinTierSstables = 2
    TombstoneGrace = 0
    MaxCompactions = 0
SPECIFICATION NoForcedFlushSpec
PROPERTY QueueDrains
CHECK_DEADLOCK FALSE
