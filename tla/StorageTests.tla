---------------------------- MODULE StorageTests ----------------------------
(***************************************************************************)
(* The tests of storage.rs (mod tests, 919-1484) as callers of the   *)
(* engine.  Each test is a program: a sequence of calls made one after the *)
(* other by the test body, each call atomic (the test takes the engine's   *)
(* RwLock for it), while the background tasks StorageEngine::new started   *)
(* (the flusher, the detached sends of rollover and the compaction loops)  *)
(* run in between.  A test's get is an assertion: it holds at every moment *)
(* the get may be taken while the program is at that step.                 *)
(*                                                                         *)
(* The thousands of random keys are Keys; the asserted key (random_strings *)
(* [0] after the sort, or "aunkanmi") is TestKey; "boyode" is Boyode and   *)
(* "updated_key" is UpdatedValue.  Spawned put tasks take the write lock   *)
(* one at a time, in any order.  The assertions on the kind of error       *)
(* (tombstone in memtable or in SSTable) are abstracted to "an error":     *)
(* get's error kinds collapse to Tombstone and Absent in Engine.           *)
(***************************************************************************)
EXTENDS MCEngine

CONSTANTS
    TestKey,          \* random_strings[0] after the sort, or "aunkanmi"
    Boyode,           \* "boyode"
    UpdatedValue,     \* "updated_key"
    Tests,            \* the tests run
    CompactionTicks,  \* TRUE: a tick of the compaction loops falls inside a test
    k3, k4, k5

TestKeys == {k1, k2, k3, k4, k5}

AllTests == {"create", "synchronous", "compaction", "update", "deletion"}

\* The tests that delete the key they assert on.
DeleteTests == {"compaction", "deletion"}

ASSUME TestKey \in Keys /\ {Boyode, UpdatedValue} \subseteq Vals
       /\ CompactionTicks \in BOOLEAN
       /\ Tests \subseteq {"create", "synchronous", "compaction", "update", "deletion"}

VARIABLES
    test,   \* the test being run
    step,   \* the position of its body's next call
    todo    \* the keys whose spawned put task has not run yet

tvars == <<test, step, todo>>

allVars == <<vars, tvars>>

Call(o) == [op |-> o]

\* A get of each key of K whose result the test asserts to be in S.
Expect(K, S) == [op |-> "get", keys |-> K, expect |-> S]

\* Err(_) of get, whatever its kind.
Errs == {Tombstone, Absent}

\* storage_engine_create_asynchronous (937-1009): spawned puts, each
\* asserting Ok(true); nothing is read back.
CreateTest == << Call("puts") >>

\* storage_engine_create_synchronous (1011-1067): every key put in turn,
\* run_compaction, then a get of every key asserting "boyode".
SynchronousTest == << Call("puts"), Call("compact"), Expect(Keys, {Boyode}) >>

\* storage_engine_compaction_asynchronous (1069-1243): spawned puts, four
\* gets of the key, delete, get, flush_all_memtables, active_memtable.clear(),
\* get, run_compaction, get.
CompactionTest ==
    << Call("puts"), Expect({TestKey}, {Boyode}), Call("delete"), Expect({TestKey}, Errs),
       Call("flushAll"), Call("clearActive"), Expect({TestKey}, Errs),
       Call("compact"), Expect({TestKey}, Errs) >>

\* storage_engine_update_asynchronous (1245-1358): every key put in turn,
\* then put again by spawned tasks; get, update, flush_all_memtables,
\* active_memtable.clear(), get, run_compaction, get.
UpdateTest ==
    << Call("puts"), Call("puts"), Expect({TestKey}, {Boyode}), Call("update"),
       Call("flushAll"), Call("clearActive"), Expect({TestKey}, {UpdatedValue}),
       Call("compact"), Expect({TestKey}, {UpdatedValue}) >>

\* storage_engine_deletion_asynchronous (1360-1484): spawned puts racing
\* the body's put of the key; get (an Ok must be "boyode", any error
\* passes), delete, flush_all_memtables, get, run_compaction, get.
DeletionTest ==
    << Call("puts"), Expect({TestKey}, (Vals \ {UpdatedValue}) \cup Errs), Call("delete"),
       Call("flushAll"), Expect({TestKey}, Errs), Call("compact"), Expect({TestKey}, Errs) >>

Program == [create |-> CreateTest, synchronous |-> SynchronousTest,
            compaction |-> CompactionTest, update |-> UpdateTest, deletion |-> DeletionTest]

Running == step <= Len(Program[test])

Cur == Program[test][step]

\* The body moves on to its next call; every puts call starts with all keys.
Advance == step' = step + 1 /\ todo' = Keys /\ UNCHANGED test

TestInit == Init /\ test \in Tests /\ step = 1 /\ todo = Keys

\* One spawned put task takes the write lock (for k in ...: put(k, "boyode"));
\* the call ends once every task has returned.
TestPuts ==
    /\ Running /\ Cur.op = "puts"
    /\ \/ \E k \in todo : Put(k, Boyode) /\ todo' = todo \ {k} /\ UNCHANGED <<test, step>>
       \/ todo = {} /\ Advance /\ UNCHANGED vars

TestGet == Running /\ Cur.op = "get" /\ Advance /\ UNCHANGED vars

TestDelete == Running /\ Cur.op = "delete" /\ Delete(TestKey) /\ Advance

TestUpdate == Running /\ Cur.op = "update" /\ Update(TestKey, UpdatedValue) /\ Advance

\* flush_all_memtables, step by step; its error is ignored (let _ = ...).
TestFlushAll ==
    /\ Running /\ Cur.op = "flushAll"
    /\ FlushAllMemtables
    /\ IF faPc' = "idle" THEN Advance ELSE UNCHANGED tvars

\* sg.write().await.active_memtable.clear() (1185, 1317): the test clears
\* the active memtable directly (inmemory.rs 226-234).
TestClearActive ==
    /\ Running /\ Cur.op = "clearActive"
    /\ mem' = [mem EXCEPT ![active] = Clear(@)]
    /\ activeSize' = 0
    /\ Advance
    /\ UNCHANGED <<vlog, vhead, vtail, active, readOnly, nextId, pending, chan, shared, ssts,
                   now, status, crashes, kv, faPc, faTodo, flusherOn, clears, bkt, compactions>>

\* run_compaction: a bucket that has reached min_tier is compacted; with
\* none the call returns Ok without a change.  Its result is only logged.
Qualifies == \E b \in ToSet(bkt) : Cardinality(InBucket(ssts, bkt, b)) >= MinTierSstables

TestCompact ==
    /\ Running /\ Cur.op = "compact"
    /\ \/ RunCompaction /\ Advance
       \/ ~Qualifies /\ Advance /\ UNCHANGED vars

\* The flusher and the detached sends run beside the test body.  The
\* periodic compaction and the tombstone-compaction checker run "at regular
\* intervals 20 days" (storage.rs 135, 154): CompactionTicks says whether
\* one of their runs falls inside the test's few seconds.
Background ==
    /\ \/ DeliverFlushData \/ FlushData
       \/ CompactionTicks /\ BackgroundCompaction
    /\ UNCHANGED tvars

TestNext ==
    \/ TestPuts \/ TestGet \/ TestDelete \/ TestUpdate
    \/ TestFlushAll \/ TestClearActive \/ TestCompact
    \/ Background

TestSpec == TestInit /\ [][TestNext]_allVars

-----------------------------------------------------------------------------
(* Properties.                                                             *)

\* The assertions of the tests: whenever a test body is at a get, get of
\* each key it reads returns what the test asserts (a value it names, or an
\* error after the delete: "Should not be found after compaction",
\* "Deleted key should be found as tumbstone"); and the delete finds the
\* key (Ok(true)).  Spec.md 8 scenario 2 is this sequence.
TestsPass ==
    Running =>
        /\ Cur.op = "get" => \A x \in Cur.keys : Get(x) \in Cur.expect
        /\ Cur.op = "delete" => Get(TestKey) \in Vals
=============================================================================
