------------------------------ MODULE KeyRange ------------------------------
(***************************************************************************)
(* The per-SSTable key envelope of src/key_range/range.rs (KeyRange): a    *)
(* HashMap from SSTable path to (smallest_key, biggest_key, table), and    *)
(* the two filters that prune SSTables by key.                             *)
(*                                                                         *)
(* Keys are byte strings compared lexicographically (Ordering of slices);  *)
(* only their order matters to the filters, so a key is a position in a    *)
(* total order, 1..KeyCount.  The Table handle stands for its path.        *)
(***************************************************************************)
EXTENDS Naturals

CONSTANTS
    Paths,     \* SSTable data-file paths (model values)
    KeyCount   \* number of distinct keys, in key order 1..KeyCount

ASSUME KeyCount \in Nat \ {0}

KeySpace == 1..KeyCount

VARIABLE key_ranges

\* Range::new(smallest_key, biggest_key, sst).
Range(smallest, biggest) == [smallest_key |-> smallest, biggest_key |-> biggest]

\* KeyRange::new: an empty map.
Init == key_ranges = [p \in {} |-> Range(1, 1)]

\* set: HashMap::insert, replacing the envelope of a path already present.
Set(p, smallest, biggest) ==
    key_ranges' = [x \in DOMAIN key_ranges \cup {p} |->
                     IF x = p THEN Range(smallest, biggest) ELSE key_ranges[x]]

\* remove: HashMap::remove; a path not present leaves the map as it is.
Remove(p) == key_ranges' = [x \in DOMAIN key_ranges \ {p} |-> key_ranges[x]]

\* The set method does not check its arguments; its callers pass the
\* smallest and biggest key of the table they wrote, so smallest <= biggest.
Next ==
    \/ \E p \in Paths, s, b \in KeySpace : s <= b /\ Set(p, s, b)
    \/ \E p \in Paths : Remove(p)

Spec == Init /\ [][Next]_key_ranges

\* filter_sstables_by_biggest_key: the tables whose biggest key is Greater
\* or Equal to the probe.
FilterSstablesByBiggestKey(key) ==
    {p \in DOMAIN key_ranges : key_ranges[p].biggest_key >= key}

\* range_scan: the code's predicate is (smallest <= start) OR
\* (biggest >= end).
RangeScan(start_key, end_key) ==
    {p \in DOMAIN key_ranges : \/ key_ranges[p].smallest_key <= start_key
                               \/ key_ranges[p].biggest_key >= end_key}

-----------------------------------------------------------------------------
(* Reference definitions (spec.md 4.4).                                    *)

\* The envelope of a table intersects [lo, hi].
Intersects(r, lo, hi) == r.smallest_key <= hi /\ lo <= r.biggest_key

-----------------------------------------------------------------------------
(* Properties.                                                             *)

\* spec.md 4.4: range_scan(lo, hi) returns every SSTable whose envelope
\* intersects [lo, hi]; a table it leaves out is skipped by the range
\* query (and by compaction's overlap search) that relies on it.
RangeScanComplete ==
    \A lo, hi \in KeySpace : lo <= hi =>
        \A p \in DOMAIN key_ranges :
            Intersects(key_ranges[p], lo, hi) => p \in RangeScan(lo, hi)
=============================================================================
