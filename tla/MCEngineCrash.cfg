\* Write path, flusher, flush_all_memtables, one crash (possibly between
\* a write's value-log append and its memtable insert) and the reopen,
\* one clear and one compaction (grace 100 ms: tombstones are kept).
CONSTANTS
    k1 = k1  k2 = k2  v1 = v1  v2 = v2
    Keys <- MCKeys
    Vals <- MCVals
    HEAD = HEAD
    TAIL = TAIL
    Tombstone = Tombstone
    Absent = Absent
    MemCapacity = 3
    MaxBufferWriteNumber = 2
    StrictClock = TRUE
    MaxLog = 5
    MaxCrashes = 1
    MaxClears = 1
    OpenWithConfig = FALSE
    MinTierSstables = 2
    TombstoneGrace = 100
    MaxCompactions = 1
SPECIFICATION Spec
INVARIANT ReadDurable
SYMMETRY Symmetry
CHECK_DEADLOCK FALSE
