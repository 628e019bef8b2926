\* Write path, flusher and flush_all_memtables with a clock that gives
\* every write its own millisecond; no crash.  The engine refines KVStore.
CONSTANTS
    k1 = k1  k2 = k2  v1 = v1  v2 = v2
    Keys <- MCKeys
    Vals <- MCVals
    HEAD = HEAD
    TAIL = TAIL
    Tombstone = Tombstone
    Absent = Absent
    MemCapacity = 3
    MaxBufferWriteNumber = 2
    StrictClock = TRUE
    MaxLog = 5
    MaxCrashes = 0
    MaxClears = 0
    OpenWithConfig = FALSE
    MinTierSstables = 2
    TombstoneGrace = 0
    MaxCompactions = 0
SPECIFICATION Spec
INVARIANT TypeOK 
 
\* A library with no caller and an empty flush channel does nothing more.
CHECK_DEADLOCK FALSE
