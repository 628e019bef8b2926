------------------------------- MODULE Engine -------------------------------
(***************************************************************************)
(* The storage engine orchestrator of src/storage_engine/storage.rs: the   *)
(* write path (value log append, memtable insert, memtable rollover and    *)
(* hand-off of sealed memtables to the flusher), the read path (get), the  *)
(* forced flush (flush_all_memtables), and crash and reopen (the recovery  *)
(* branch of with_capacity_and_rate and recover_memtable).                 *)
(*                                                                         *)
(* The value log, the SSTable writer, the bucket map and the background    *)
(* flusher live outside src/; they are modelled from spec.md (sections     *)
(* 4.2, 4.3, 4.5 and 4.7) at the granularity the orchestrator sees them.   *)
(*                                                                         *)
(* User calls are atomic: put and delete take &mut self and every caller   *)
(* of the engine (the tests, tests/workload) holds the engine's RwLock for *)
(* the whole call.  The background flusher and the detached send tasks     *)
(* that rollover spawns run concurrently with them.                        *)
(***************************************************************************)
EXTENDS Naturals, Sequences, SequencesExt, Memtable

CONSTANTS
    Keys,                 \* user keys (model values)
    Vals,                 \* user values (model values)
    HEAD, TAIL,           \* the reserved sentinel keys HEAD_ENTRY_KEY, TAIL_ENTRY_KEY
    Tombstone, Absent,    \* what get reports for a deleted or unknown key
    MaxBufferWriteNumber, \* config.max_buffer_write_number
    StrictClock,          \* TRUE: no two writes share a millisecond
    MaxLog,               \* bound: records in the value log
    MaxCrashes,           \* bound: process crashes
    MaxClears,            \* bound: calls of clear
    OpenWithConfig,       \* TRUE: the caller opens with new_with_custom_config
    MinTierSstables,      \* SSTables a bucket needs before it is compacted
    TombstoneGrace,       \* milliseconds before compaction drops a tombstone
    MaxCompactions        \* bound: compactions

ASSUME /\ {HEAD, TAIL} \cap Keys = {} /\ HEAD # TAIL
       /\ Tombstone \notin Vals /\ Absent \notin Vals /\ Tombstone # Absent
       /\ MaxBufferWriteNumber \in Nat \ {0}
       /\ StrictClock \in BOOLEAN
       /\ MaxLog \in Nat /\ MaxCrashes \in Nat /\ MaxClears \in Nat
       /\ OpenWithConfig \in BOOLEAN
       /\ MinTierSstables \in Nat \ {0} /\ TombstoneGrace \in Nat /\ MaxCompactions \in Nat

VARIABLES
    vlog,        \* the value log file: a sequence of records; offset o is vlog[o+1]
    vhead,       \* ValueLog head (in memory)
    vtail,       \* ValueLog tail (in memory)
    mem,         \* memtable indexes by table identity; clones share the index Arc
    active,      \* identity of active_memtable's index
    activeSize,  \* active_memtable.size, in entries
    readOnly,    \* read_only_memtables: IndexMap in insertion order of [mid, tid]
    nextId,      \* source of fresh table identities and memtable ids
    pending,     \* detached tasks spawned to send a memtable on the flush channel
    chan,        \* the flush data channel (mpsc, capacity 100)
    shared,      \* the flusher still holds the same read_only_memtables Arc
    ssts,        \* SSTables on disk, in bloom_filters order: index snapshots
    now,         \* wall clock, milliseconds
    status,      \* "open", "crashed" (process gone) or "failed" (open refused)
    crashes,     \* crashes so far
    kv,          \* history: the value of each key after the acknowledged calls
    faPc,        \* where a running flush_all_memtables is: "idle", "active", "flushing"
    faTodo,      \* the read-only memtables flush_all_memtables has still to flush
    flusherOn,   \* a flusher task consumes the engine's flush channel
    clears,      \* calls of clear so far
    bkt,         \* bkt[i]: the bucket of SSTable ssts[i]
    compactions  \* compactions so far

vars == <<vlog, vhead, vtail, mem, active, activeSize, readOnly, nextId,
          pending, chan, shared, ssts, now, status, crashes, kv, faPc, faTodo, flusherOn, clears,
          bkt, compactions>>

-----------------------------------------------------------------------------
(* Value log (spec.md 4.2; src/ does not hold value_log.rs).               *)

VRecord(k, v, ts, tomb) == [key |-> k, val |-> v, ts |-> ts, tomb |-> tomb]

\* The bytes a delete writes as value (TOMB_STONE_MARKER); no user value.
TombMarker == Tombstone

\* append returns the offset of the record it wrote and makes it durable.
\* Mutant: the offset just past the record instead of its start.
NextOffsetPastEnd == Len(vlog) + 1

NextOffset == Len(vlog)

VlogAt(o) == vlog[o + 1]

\* The timestamps a write may sample from Utc::now().
NextTimes == IF StrictClock THEN {now + 1} ELSE {now, now + 1}

-----------------------------------------------------------------------------
(* Read path: get (storage.rs 246-360).                                    *)

NoHit == MemEntry(0, 0, FALSE)

Lookup(idx, k) == IF Has(idx, k) THEN idx[k] ELSE NoHit

\* The scans keep the first entry with the largest created_at: a later
\* entry replaces the current one only when strictly newer.
Newest(es) ==
    LET hits == {i \in DOMAIN es : es[i].ts > 0}
        top == Max({es[i].ts : i \in hits})
    IN IF hits = {} THEN NoHit ELSE es[Min({i \in hits : es[i].ts = top})]

\* Step 2: every read-only memtable, in IndexMap order (oldest first).
ReadOnlyHit(k) == Newest([i \in DOMAIN readOnly |-> Lookup(mem[readOnly[i].tid], k)])

\* Step 3: the SSTables whose key range and Bloom filter admit the key, in
\* bloom_filters order; the sparse index and block scan find the entry.
SstHit(k) == Newest([i \in DOMAIN ssts |-> Lookup(ssts[i], k)])

\* Step 5: val_log.get(offset); no record there is KeyNotFoundInValueLog.
FromValueLog(e) ==
    CASE e.off >= Len(vlog)    -> Absent
      [] VlogAt(e.off).tomb    -> Tombstone
      [] OTHER                 -> VlogAt(e.off).val

Resolve(e) == IF e.tomb THEN Tombstone ELSE FromValueLog(e)

\* Mutant: get goes from the active memtable straight to the SSTables.
GetSkipReadOnly(k) ==
    CASE Has(mem[active], k) -> Resolve(mem[active][k])
      [] SstHit(k).ts > 0        -> Resolve(SstHit(k))
      [] OTHER                   -> Absent

\* The lookup errors collapse to Tombstone (KeyFoundAsTombstone...) and
\* Absent (KeyNotFound..., NotFoundInDB).
Get(k) ==
    CASE Has(mem[active], k) -> Resolve(mem[active][k])
      [] ReadOnlyHit(k).ts > 0   -> Resolve(ReadOnlyHit(k))
      [] SstHit(k).ts > 0        -> Resolve(SstHit(k))
      [] OTHER                   -> Absent

-----------------------------------------------------------------------------
(* Write path.                                                             *)

HeadOffset(idx) == Max({idx[x].off : x \in DOMAIN idx})

Sealed(t) == [mid |-> nextId, tid |-> t]

\* Mutant: the task sends the newest sealed memtable (iter().last()).
SendNewest(ro) ==
    pending' = IF Len(ro) >= MaxBufferWriteNumber THEN Append(pending, ro[Len(ro)]) ELSE pending

\* When the queue reaches max_buffer_write_number, a detached task sends
\* the first (oldest) entry of the IndexMap to the flush channel.
SendOldest(ro) ==
    pending' = IF Len(ro) >= MaxBufferWriteNumber THEN Append(pending, Head(ro)) ELSE pending

WriteVars == <<vtail, chan, shared, ssts, status, crashes, faPc, faTodo, flusherOn, clears,
               bkt, compactions>>

\* put (storage.rs 164-243); update (432-435) is the same call.
Put(k, v) ==
    /\ status = "open"
    /\ faPc = "idle"
    /\ Len(vlog) < MaxLog
    /\ \E t \in NextTimes :
        LET e == MemEntry(NextOffset, t, FALSE)
            ro == Append(readOnly, Sealed(active))
            fresh == nextId + 1
        IN /\ vlog' = Append(vlog, VRecord(k, v, t, FALSE))
           /\ now' = t
           /\ kv' = [kv EXCEPT ![k] = v]
           /\ \/ /\ ~IsFull(activeSize)
                 /\ mem' = [mem EXCEPT ![active] = Insert(@, k, e)]
                 /\ activeSize' = SizeAfterInsert(activeSize)
                 /\ UNCHANGED <<vhead, readOnly, pending, active, nextId>>
              \/ /\ IsFull(activeSize)
                 \* rollover: HEAD sentinel, set_head, seal, send, new table
                 /\ vhead' = HeadOffset(mem[active])
                 /\ readOnly' = ro
                 /\ SendOldest(ro)
                 /\ mem' = [mem EXCEPT ![active] =
                              Insert(@, HEAD, MemEntry(HeadOffset(mem[active]), t, FALSE))]
                           @@ (fresh :> Insert(EmptyIndex, k, e))
                 /\ active' = fresh
                 /\ activeSize' = SizeAfterInsert(0)
                 /\ nextId' = nextId + 2
    /\ UNCHANGED WriteVars

\* update (storage.rs 432-435) is a call of put.
Update(k, v) == Put(k, v)

\* delete (storage.rs 362-430).  get first: a key get does not return a
\* value for makes delete fail with no change.  The rollover differs from
\* put's: it does not set the value log head, the HEAD sentinel carries
\* is_tombstone = true, and a new active memtable is allocated only when
\* the queue has reached max_buffer_write_number; otherwise the sealed
\* memtable stays active and receives this and later writes.
Delete(k) ==
    /\ status = "open"
    /\ faPc = "idle"
    /\ Len(vlog) < MaxLog
    /\ Get(k) \in Vals
    /\ \E t \in NextTimes :
        LET e == MemEntry(NextOffset, t, TRUE)
            ro == Append(readOnly, Sealed(active))
            withHead == Insert(mem[active], HEAD, MemEntry(HeadOffset(mem[active]), t, TRUE))
            fresh == nextId + 1
        IN /\ vlog' = Append(vlog, VRecord(k, TombMarker, t, TRUE))
           /\ now' = t
           /\ kv' = [kv EXCEPT ![k] = Tombstone]
           /\ \/ /\ ~IsFull(activeSize)
                 /\ mem' = [mem EXCEPT ![active] = Insert(@, k, e)]
                 /\ activeSize' = SizeAfterInsert(activeSize)
                 /\ UNCHANGED <<readOnly, pending, active, nextId>>
              \/ /\ IsFull(activeSize)
                 /\ Len(ro) >= MaxBufferWriteNumber
                 /\ readOnly' = ro
                 /\ SendOldest(ro)
                 /\ mem' = [mem EXCEPT ![active] = withHead] @@ (fresh :> Insert(EmptyIndex, k, e))
                 /\ active' = fresh
                 /\ activeSize' = SizeAfterInsert(0)
                 /\ nextId' = nextId + 2
              \/ /\ IsFull(activeSize)
                 /\ Len(ro) < MaxBufferWriteNumber
                 /\ readOnly' = ro
                 /\ mem' = [mem EXCEPT ![active] = Insert(withHead, k, e)]
                 /\ activeSize' = SizeAfterInsert(SizeAfterInsert(activeSize))
                 /\ nextId' = nextId + 1
                 /\ UNCHANGED <<pending, active>>
    /\ UNCHANGED vhead
    /\ UNCHANGED WriteVars

-----------------------------------------------------------------------------
(* Bucket map (spec.md 4.5; compaction/ is outside src/): size tiers.      *)

\* The size of an SSTable, in entries (every model key has one length).
SstSize(idx) == Cardinality(DOMAIN idx)

InBucket(ss, bk, b) == {i \in DOMAIN ss : bk[i] = b}

\* The SSTable size lies in [avg * 0.5, avg * 1.5], avg being the average
\* SSTable size of the bucket.
FitsBucket(ss, bk, b, s) ==
    LET n == Cardinality(InBucket(ss, bk, b))
        sum == MapThenSumSet(LAMBDA i : SstSize(ss[i]), InBucket(ss, bk, b))
    IN sum <= 2 * s * n /\ 2 * s * n <= 3 * sum

\* insert_to_appropriate_bucket: the first bucket, in creation order, whose
\* average fits the new SSTable; a new bucket when none does.
AppropriateBucket(ss, bk, idx) ==
    LET fit == {b \in ToSet(bk) : FitsBucket(ss, bk, b, SstSize(idx))}
    IN CASE fit # {}  -> Min(fit)
         [] bk = <<>> -> 1
         [] OTHER     -> Max(ToSet(bk)) + 1

-----------------------------------------------------------------------------
(* Background flushing.                                                    *)

\* flush_memtable (storage.rs 840-865): insert_to_appropriate_bucket
\* writes the memtable as an SSTable in a bucket, then its Bloom filter is
\* pushed on bloom_filters and its biggest key recorded.  The flusher
\* (spec.md 4.7) writes through the same bucket map.
FlushMemtable(idx) ==
    /\ ssts' = Append(ssts, idx)
    /\ bkt' = Append(bkt, AppropriateBucket(ssts, bkt, idx))

\* A detached send task completes (storage.rs 214-223): the tasks race, so
\* any of them may put its memtable on the channel next.
DeliverFlushData ==
    /\ status = "open"
    /\ \E i \in DOMAIN pending :
        /\ chan' = Append(chan, pending[i])
        /\ pending' = RemoveAt(pending, i)
    /\ UNCHANGED <<vlog, vhead, vtail, mem, active, activeSize, readOnly, nextId,
                   shared, ssts, now, status, crashes, kv, faPc, faTodo, flusherOn, clears,
                   bkt, compactions>>

\* The flusher (spec.md 4.7; flusher.rs is outside src/) takes one memtable
\* at a time: writes it as an SSTable in a bucket, registers its Bloom
\* filter and key range, then removes its id from the read-only map it was
\* given when the background tasks started.
FlushData ==
    /\ status = "open"
    /\ flusherOn
    /\ chan # <<>>
    /\ LET m == Head(chan) IN
        /\ FlushMemtable(mem[m.tid])
        /\ readOnly' = IF shared THEN SelectSeq(readOnly, LAMBDA r : r.mid # m.mid)
                                 ELSE readOnly
        /\ chan' = Tail(chan)
    /\ UNCHANGED <<vlog, vhead, vtail, mem, active, activeSize, nextId,
                   pending, shared, now, status, crashes, kv, faPc, faTodo, flusherOn, clears,
                   compactions>>

\* flush_all_memtables (storage.rs 809-838) holds &mut self, so no user
\* call runs until it returns, but it awaits file I/O between its steps and
\* the flusher and the send tasks run in between.
FAVars == <<vlog, vhead, vtail, active, nextId, pending, chan, now, status,
            crashes, kv, flusherOn, clears, compactions>>

\* Step 1 (811-813): flush the active memtable.  find_biggest_key fails on
\* an empty memtable after its SSTable has been registered, and the call
\* returns the error there.
FlushAllActive ==
    /\ status = "open"
    /\ faPc = "idle"
    /\ Len(ssts) < MaxLog
    /\ FlushMemtable(mem[active])
    /\ faPc' = IF mem[active] = EmptyIndex THEN "idle" ELSE "active"
    /\ UNCHANGED <<mem, activeSize, readOnly, shared, faTodo>> /\ UNCHANGED FAVars

\* Step 2 (815-822): the read-only memtables in the map at this moment.
FlushAllSnapshot ==
    /\ status = "open"
    /\ faPc = "active"
    /\ faPc' = "flushing"
    /\ faTodo' = [i \in DOMAIN readOnly |-> readOnly[i].tid]
    /\ UNCHANGED <<mem, activeSize, readOnly, shared, ssts, bkt>> /\ UNCHANGED FAVars

\* Step 3 (823-825): flush them one by one; sealed memtables are never
\* empty (they hold their HEAD sentinel or filled up on replay).
FlushAllReadOnly ==
    /\ status = "open"
    /\ faPc = "flushing"
    /\ faTodo # <<>>
    /\ FlushMemtable(mem[Head(faTodo)])
    /\ faTodo' = Tail(faTodo)
    /\ UNCHANGED <<mem, activeSize, readOnly, shared, faPc>> /\ UNCHANGED FAVars

\* Step 4 (827-837): the Bloom filters are sorted by hotness (all 1, a
\* stable sort: no change), the active memtable is cleared and a NEW empty
\* map is put in read_only_memtables: the flusher keeps the old one.
FlushAllFinish ==
    /\ status = "open"
    /\ faPc = "flushing"
    /\ faTodo = <<>>
    /\ mem' = [mem EXCEPT ![active] = Clear(@)]
    /\ activeSize' = 0
    /\ readOnly' = <<>>
    /\ shared' = FALSE
    /\ faPc' = "idle"
    /\ UNCHANGED <<ssts, bkt, faTodo>> /\ UNCHANGED FAVars

FlushAllMemtables == FlushAllActive \/ FlushAllSnapshot \/ FlushAllReadOnly \/ FlushAllFinish

-----------------------------------------------------------------------------
(* Compaction (spec.md 4.6; the Compactor is outside src/).                *)

\* The entries of key x in the SSTables at positions S.
Versions(S, x) == {ssts[i][x] : i \in {j \in S : x \in DOMAIN ssts[j]}}

\* The k-way merge: per key, the entry with the larger created_at.
MergeNewest(S) ==
    [x \in UNION {DOMAIN ssts[i] : i \in S} |->
        CHOOSE e \in Versions(S, x) : \A f \in Versions(S, x) : f.ts <= e.ts]

\* The merge output without the tombstones past the GC horizon
\* (created_at + grace < now).  TTL expiry is off (enable_ttl).
Compacted(S, t) ==
    LET m == MergeNewest(S)
    IN [x \in {y \in DOMAIN m : ~(m[y].tomb /\ m[y].ts + TombstoneGrace < t)} |-> m[x]]

\* A bucket holding at least min_tier SSTables is merged into one new
\* SSTable; adding it (to the bucket its size fits), updating the filters
\* and removing the inputs is one atomic step (spec.md 4.6, step 5).
CompactBucket ==
    /\ status = "open"
    /\ compactions < MaxCompactions
    /\ \E b \in ToSet(bkt), t \in NextTimes :
        LET S == InBucket(ssts, bkt, b)
            keep == SetToSortSeq(DOMAIN ssts \ S, <)
            ss == [j \in DOMAIN keep |-> ssts[keep[j]]]
            bk == [j \in DOMAIN keep |-> bkt[keep[j]]]
        IN /\ Cardinality(S) >= MinTierSstables
           /\ ssts' = Append(ss, Compacted(S, t))
           /\ bkt' = Append(bk, AppropriateBucket(ss, bk, Compacted(S, t)))
           /\ now' = t
    /\ compactions' = compactions + 1
    /\ UNCHANGED <<vlog, vhead, vtail, mem, active, activeSize, readOnly, nextId, pending,
                   chan, shared, status, crashes, kv, faPc, faTodo, flusherOn, clears>>

\* run_compaction (storage.rs 867-875), a user call: it holds &mut self.
RunCompaction == faPc = "idle" /\ CompactBucket

\* The periodic and the tombstone-notice compaction tasks that
\* trigger_background_tasks starts (storage.rs 136-139, 154-158) run
\* alongside user calls and the flusher.
BackgroundCompaction == flusherOn /\ CompactBucket

-----------------------------------------------------------------------------
(* Crash and reopen.                                                       *)

\* What a crash loses: memory, the spawned tasks and the channel; the value
\* log (flushed on every append) and the SSTables remain.
LoseMemory ==
    /\ status' = "crashed"
    /\ crashes' = crashes + 1
    /\ mem' = [t \in {} |-> EmptyIndex]
    /\ active' = 0
    /\ activeSize' = 0
    /\ readOnly' = <<>>
    /\ nextId' = 1
    /\ pending' = <<>>
    /\ chan' = <<>>
    /\ shared' = TRUE
    /\ vhead' = 0
    /\ vtail' = 0
    /\ faPc' = "idle"
    /\ faTodo' = <<>>

\* The process dies between two calls.
Crash ==
    /\ status = "open"
    /\ crashes < MaxCrashes
    /\ LoseMemory
    /\ UNCHANGED <<vlog, ssts, bkt, now, kv, flusherOn, clears, compactions>>

\* The process dies inside put or delete, after val_log.append returned
\* (storage.rs 171-175, 372-375) and before the memtable insert: the record
\* is durable, the call never returned, so kv is unchanged.
CrashMidWrite ==
    /\ status = "open"
    /\ faPc = "idle"
    /\ crashes < MaxCrashes
    /\ Len(vlog) < MaxLog
    /\ \E k \in Keys, t \in NextTimes :
        /\ \/ \E v \in Vals : vlog' = Append(vlog, VRecord(k, v, t, FALSE))
           \/ /\ Get(k) \in Vals
              /\ vlog' = Append(vlog, VRecord(k, TombMarker, t, TRUE))
        /\ now' = t
    /\ LoseMemory
    /\ UNCHANGED <<ssts, bkt, kv, flusherOn, clears, compactions>>

\* The head recovery takes from the SSTables (storage.rs 652-672): the HEAD
\* sentinel with the largest created_at, the first one on a tie.
RecoveryHead == Newest([i \in DOMAIN ssts |-> Lookup(ssts[i], HEAD)]).off

\* recover_memtable (storage.rs 747-807): replay the value log from the
\* head offset, skipping the record at the head, rolling over into
\* read-only memtables (without HEAD sentinels) when the table is full.
ReplayStep(acc, x) ==
    LET e == MemEntry(x.off, x.rec.ts, x.rec.tomb) IN
    IF IsFull(acc.size)
    THEN [act |-> Insert(EmptyIndex, x.rec.key, e), size |-> SizeAfterInsert(0),
          ro |-> Append(acc.ro, acc.act)]
    ELSE [act |-> Insert(acc.act, x.rec.key, e), size |-> SizeAfterInsert(acc.size),
          ro |-> acc.ro]

\* Mutants: the replay stops one record early / records the previous offset.
ReplayDropLast(from) ==
    FoldLeft(ReplayStep, [act |-> EmptyIndex, size |-> 0, ro |-> <<>>],
             [i \in 1..(Len(vlog) - from - 2) |-> [off |-> from + i, rec |-> VlogAt(from + i)]])

Replay(from) ==
    FoldLeft(ReplayStep, [act |-> EmptyIndex, size |-> 0, ro |-> <<>>],
             [i \in 1..(Len(vlog) - from - 1) |-> [off |-> from + i, rec |-> VlogAt(from + i)]])

\* Whether the opened engine has a flusher: StorageEngine::new (105-118)
\* calls trigger_background_tasks (134-161), which spawns
\* flush_data_collector on the channel's receiver; new_with_custom_config
\* (121-133) returns the engine without calling it.
StartTasks == ~OpenWithConfig

\* Opening a non-empty value log: the recovery branch of
\* with_capacity_and_rate (546-746).  StorageEngine::new (105-118) then
\* calls trigger_background_tasks (134-161), which starts a flusher on the
\* new map; new_with_custom_config (121-133) does not.
\* Every bucket directory is read at "sstable_{timestamp}" (a literal
\* path) with one next_entry, so at most one file is found and any bucket
\* makes the open fail with InvalidSSTableDirectoryError.  With no bucket,
\* the head stays 0; read_only_memtables.iter().next().unwrap() panics when
\* the replay produced no read-only memtable.
Reopen ==
    /\ status = "crashed"
    /\ \/ /\ ssts # <<>>
          /\ status' = "failed"
          /\ UNCHANGED <<vhead, vtail, mem, active, activeSize, readOnly, nextId>>
       \/ /\ ssts = <<>>
          /\ LET r == Replay(0)
                 n == Len(r.ro)
             IN \/ /\ n = 0
                   /\ status' = "failed"
                   /\ UNCHANGED <<vhead, vtail, mem, active, activeSize, readOnly, nextId>>
                \/ /\ n > 0
                   /\ status' = "open"
                   /\ mem' = [t \in 1..n + 1 |-> IF t <= n THEN r.ro[t] ELSE r.act]
                   /\ active' = n + 1
                   /\ activeSize' = r.size
                   /\ readOnly' = [i \in 1..n |-> [mid |-> n + 1 + i, tid |-> i]]
                   /\ nextId' = 2 * n + 2
                   /\ vhead' = RecoveryHead
                   /\ vtail' = RecoveryHead
    /\ flusherOn' = StartTasks
    /\ UNCHANGED <<vlog, pending, chan, shared, ssts, bkt, now, crashes, kv, faPc, faTodo,
                   clears, compactions>>

-----------------------------------------------------------------------------
(* A fresh open: with_capacity_and_rate on an empty value log (storage.rs  *)
(* 481-544): TAIL and HEAD records appended, both inserted in the active   *)
(* memtable, head and tail set.                                            *)

FreshLog(t) == <<VRecord(TAIL, <<>>, t, FALSE), VRecord(HEAD, <<>>, t, FALSE)>>

FreshIndex(t) == (TAIL :> MemEntry(0, t, FALSE)) @@ (HEAD :> MemEntry(1, t, FALSE))

\* StorageEngine::new or new_with_custom_config on an empty directory.
Init ==
    /\ now = 1
    /\ vlog = FreshLog(1)
    /\ vtail = 0
    /\ vhead = 1
    /\ mem = (1 :> FreshIndex(1))
    /\ active = 1
    /\ activeSize = 2
    /\ readOnly = <<>>
    /\ nextId = 2
    /\ pending = <<>>
    /\ chan = <<>>
    /\ shared = TRUE
    /\ ssts = <<>>
    /\ status = "open"
    /\ crashes = 0
    /\ kv = [k \in Keys |-> Absent]
    /\ faPc = "idle"
    /\ faTodo = <<>>
    /\ flusherOn = StartTasks
    /\ clears = 0
    /\ bkt = <<>>
    /\ compactions = 0

\* clear (storage.rs 437-451): the buckets and the value log are emptied
\* and the caller gets a NEW engine from with_capacity_and_rate on the
\* empty value log, which does not call trigger_background_tasks: no
\* flusher reads its channel.  The old engine's flusher, map and spawned
\* sends keep the old channel and Bloom filter list, which the new engine
\* never reads.
EngineClear ==
    /\ status = "open"
    /\ faPc = "idle"
    /\ clears < MaxClears
    /\ \E t \in NextTimes :
        /\ now' = t
        /\ vlog' = FreshLog(t)
        /\ mem' = (nextId :> FreshIndex(t))
    /\ active' = nextId
    /\ nextId' = nextId + 1
    /\ activeSize' = 2
    /\ vtail' = 0
    /\ vhead' = 1
    /\ readOnly' = <<>>
    /\ pending' = <<>>
    /\ chan' = <<>>
    /\ shared' = TRUE
    /\ ssts' = <<>>
    /\ bkt' = <<>>
    /\ kv' = [k \in Keys |-> Absent]
    /\ flusherOn' = FALSE
    /\ clears' = clears + 1
    /\ UNCHANGED <<status, crashes, faPc, faTodo, compactions>>

Next ==
    \/ \E k \in Keys : Delete(k) \/ \E v \in Vals : Put(k, v)
    \/ DeliverFlushData
    \/ FlushData
    \/ FlushAllMemtables
    \/ Crash
    \/ CrashMidWrite
    \/ EngineClear
    \/ RunCompaction
    \/ BackgroundCompaction
    \/ Reopen

Spec == Init /\ [][Next]_vars

\* The send tasks and the flusher loop are tokio tasks: once runnable they
\* are eventually polled.
FairSpec == Spec /\ WF_vars(DeliverFlushData) /\ WF_vars(FlushData)

-----------------------------------------------------------------------------
(* Properties.                                                             *)

IsIndex(idx) ==
    /\ DOMAIN idx \subseteq Keys \cup {HEAD, TAIL}
    /\ \A x \in DOMAIN idx : idx[x] \in [off : 0..Len(vlog) - 1, ts : 1..now, tomb : BOOLEAN]

\* Every variable has its type; every memtable and SSTable entry carries
\* an offset inside the value log and a timestamp already sampled.
TypeOK ==
    /\ vlog \in Seq([key : Keys \cup {HEAD, TAIL}, val : Vals \cup {TombMarker, <<>>},
                     ts : 1..now, tomb : BOOLEAN])
    /\ \A t \in DOMAIN mem : IsIndex(mem[t])
    /\ \A i \in DOMAIN ssts : IsIndex(ssts[i])
    /\ \A r \in ToSet(readOnly) \cup ToSet(pending) \cup ToSet(chan) : r.tid \in DOMAIN mem
    /\ status \in {"open", "crashed", "failed"}
    /\ status = "open" => active \in DOMAIN mem
    /\ shared \in BOOLEAN
    /\ kv \in [Keys -> Vals \cup {Tombstone, Absent}]
    /\ faPc \in {"idle", "active", "flushing"}
    /\ \A i \in DOMAIN faTodo : faTodo[i] \in DOMAIN mem
    /\ flusherOn \in BOOLEAN
    /\ bkt \in Seq(Nat) /\ Len(bkt) = Len(ssts)

\* Refinement: the engine, seen through get, is the key-value map of
\* KVStore.  Every put and delete changes get's answer for exactly its
\* key, as the abstract map does, and rollover, the detached sends, the
\* flusher and flush_all_memtables never change what get returns.
KV == INSTANCE KVStore WITH store <- [k \in Keys |-> Get(k)]

ReadLatest == status = "open" => \A k \in Keys : Get(k) = kv[k]

\* The value of a key according to the value log alone: its last record.
DurableIdx(k) == {i \in DOMAIN vlog : vlog[i].key = k}

LastDurable(k) ==
    IF DurableIdx(k) = {} THEN Absent
    ELSE IF vlog[Max(DurableIdx(k))].tomb THEN Tombstone
         ELSE vlog[Max(DurableIdx(k))].val

\* spec.md 4.8: the value-log append precedes the memtable insert "so a
\* crash before the memtable insert still produces a recoverable record".
\* While the engine is open, get returns what the last value-log record of
\* the key says: the last acknowledged write, or a write whose call was
\* cut short by a crash after its append, once recovery replayed it.
ReadDurable == status = "open" => \A k \in Keys : Get(k) = LastDurable(k)

\* The HEAD sentinel protocol (rollover in put, storage.rs 181-197, and the
\* head recovery picks, 652-672): recovery replays only the records after
\* the HEAD with the largest created_at among the SSTables, so the last
\* record of every key at or below that head must already be in an
\* SSTable.  A wrong head, or SSTables written out of seal order, loses
\* acknowledged writes on reopen.
IsLastWrite(o) == \A p \in o + 1..Len(vlog) - 1 : VlogAt(p).key # VlogAt(o).key

HeadCoversFlushed ==
    \A o \in 0..RecoveryHead :
        (VlogAt(o).key \in Keys /\ IsLastWrite(o)) =>
            \E i \in DOMAIN ssts : Has(ssts[i], VlogAt(o).key)
                                   /\ ssts[i][VlogAt(o).key].ts >= VlogAt(o).ts

\* spec.md 3 (Lifecycles): a memtable is mutated only while active and is
\* frozen once sealed; no step writes to a memtable that is in the
\* read-only map, which the flusher may be writing out.
SealedTables == {r.tid : r \in ToSet(readOnly)}

SealedImmutable ==
    [][\A t \in SealedTables : t \in DOMAIN mem' => mem'[t] = mem[t]]_vars

\* spec.md 9: sealed memtables go to the flusher through a queue of depth
\* max_buffer_write_number.  Whenever the read-only map reaches that
\* depth, the sends rollover spawns and the flusher bring it back below it.
QueueDrains ==
    Len(readOnly) >= MaxBufferWriteNumber ~> Len(readOnly) < MaxBufferWriteNumber

\* spec.md 5: a flush-data consumer runs alongside user calls.  Every
\* sealed memtable a send task puts on the flush channel is eventually
\* taken off it by the flusher.
ChannelDrains == chan # <<>> ~> chan = <<>>

\* spec.md 4.9 and scenario 5: reopening after a crash, with the files the
\* engine itself wrote, rebuilds the engine instead of failing.
RecoveryOpens == status # "failed"
=============================================================================
