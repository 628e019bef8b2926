------------------------------ MODULE Memtable ------------------------------
(***************************************************************************)
(* The in-memory table of src/memtable/inmemory.rs (InMemoryTable).        *)
(*                                                                         *)
(* An index is the crossbeam SkipMap from key to (val_offset, created_at,  *)
(* is_tombstone), modelled as a function whose domain is the set of keys   *)
(* present.  The Bloom filter that gates get/insert is left out: it never  *)
(* has false negatives for inserted keys and a false positive falls        *)
(* through to the index lookup, so it never changes what get returns.      *)
(*                                                                         *)
(* The byte-size counter is kept in units of one entry: every key of the   *)
(* model has the same length L, insert adds L + 4 + 8 + 1 bytes, and       *)
(* is_full(L) holds when size + L + 13 >= capacity, i.e. when              *)
(* (inserts + 1) * (L + 13) >= capacity.  MemCapacity is capacity / (L+13) *)
(* rounded up.                                                             *)
(***************************************************************************)
EXTENDS Naturals

CONSTANT MemCapacity   \* capacity of one memtable, in entries

ASSUME MemCapacity \in Nat \ {0, 1}

\* SkipMapValue: (val_offset, created_at, is_tombstone).
MemEntry(off, ts, tomb) == [off |-> off, ts |-> ts, tomb |-> tomb]

\* A new table (with_specified_capacity_and_rate): empty index, size 0.
EmptyIndex == [k \in {} |-> MemEntry(0, 0, FALSE)]

\* insert: index.insert overwrites any earlier entry of the key.  Both
\* branches of the code (Bloom hit or miss) add the entry's size, so the
\* size counts inserts, overwrites included (SizeAfterInsert).
Insert(idx, k, e) == [x \in DOMAIN idx \cup {k} |-> IF x = k THEN e ELSE idx[x]]

SizeAfterInsert(size) == size + 1

\* get: Some(entry) when the key is in the index.
Has(idx, k) == k \in DOMAIN idx

\* is_full(key_len): size + key_len + 13 >= capacity, in entry units.
IsFull(size) == size + 1 >= MemCapacity

\* clear: empty the shared index and reset size (a new Bloom filter).
Clear(idx) == EmptyIndex
=============================================================================
