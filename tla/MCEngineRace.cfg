\* Write path, flusher and flush_all_memtables with MaxLog 7: five user
\* writes make three rollovers, so two detached sends are in flight at once
\* and race to the channel.  Strict clock, no crash.
CONSTANTS
    k1 = k1  k2 = k2  v1 = v1  v2 = v2
    Keys <- MCKeys
    Vals <- MCVals
    HEAD = HEAD
    TAIL = TAIL
    Tombstone = Tombstone
    Absent = Absent
    MemCapacity = 3
    MaxBufferWriteNumber = 2
    StrictClock = TRUE
    MaxLog = 7
    MaxCrashes = 0
    MaxClears = 0
    OpenWithConfig = FALSE
    MinTierSstables = 2
    TombstoneGrace = 0
    MaxCompactions = 0
SPECIFICATION Spec
INVARIANT HeadCoversFlushed ReadLatest
SYMMETRY Symmetry
CHECK_DEADLOCK FALSE
