\* Three SSTables over a key space of three keys: every envelope of every
\* table, with sets that replace and removes.
CONSTANTS
    Paths = {p1, p2, p3}
    KeyCount = 3
SPECIFICATION Spec
\* Expected: RangeScanComplete is violated.
INVARIANT RangeScanComplete
