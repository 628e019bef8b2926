\* Writes may share a millisecond (Utc::now().timestamp_millis()): get's
\* scans of read-only memtables and SSTables keep the OLDEST entry among
\* equal created_at values.  Expected: ReadLatest is violated.
CONSTANTS
    k1 = k1  k2 = k2  v1 = v1  v2 = v2
    Keys <- MCKeys
    Vals <- MCVals
    HEAD = HEAD
    TAIL = TAIL
    Tombstone = Tombstone
    Absent = Absent
    MemCapacity = 3
    MaxBufferWriteNumber = 2
    StrictClock = FALSE
    MaxLog = 6
    MaxCrashes = 0
    MaxClears = 0
    OpenWithConfig = FALSE
    MinTierSstables = 2
    TombstoneGrace = 0
    MaxCompactions = 0
SPECIFICATION Spec
INVARIANT ReadLatest
SYMMETRY Symmetry
CHECK_DEADLOCK FALSE
