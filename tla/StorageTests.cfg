\* The two tests of storage.rs that delete (compaction, deletion), five keys, against every
\* interleaving of the flusher and the detached sends; no tick of the
\* 20-day compaction loops falls inside a test, so only the test's own
\* run_compaction compacts.  The tombstone grace period has run out by the
\* time it runs (spec.md 8 scenario 2: "after run_compaction past grace").
\* Expected: TestsPass is violated.
CONSTANTS
    k1 = k1  k2 = k2  k3 = k3  k4 = k4  k5 = k5  v1 = v1  v2 = v2
    Keys <- TestKeys
    Vals <- MCVals
    TestKey = k1
    Boyode = v1
    UpdatedValue = v2
    Tests <- DeleteTests
    CompactionTicks = FALSE
    HEAD = HEAD
    TAIL = TAIL
    Tombstone = Tombstone
    Absent = Absent
    MemCapacity = 3
    MaxBufferWriteNumber = 2
    StrictClock = TRUE
    MaxLog = 14
    MaxCrashes = 0
    MaxClears = 0
    OpenWithConfig = FALSE
    MinTierSstables = 2
    TombstoneGrace = 0
    MaxCompactions = 2
INIT TestInit
NEXT TestNext
INVARIANT TestsPass
CHECK_DEADLOCK FALSE
