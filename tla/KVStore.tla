------------------------------ MODULE KVStore ------------------------------
(***************************************************************************)
(* What the storage engine promises its callers (spec.md sections 3, 4.8   *)
(* and 8): a map from keys to the last value put, where a delete of a key  *)
(* that currently has a value leaves a tombstone (get reports the key as   *)
(* deleted) and a key never written is absent.  delete of a key that get   *)
(* does not find fails and changes nothing; clear empties the map.        *)
(***************************************************************************)
CONSTANTS Keys, Vals, Tombstone, Absent

ASSUME Tombstone \notin Vals /\ Absent \notin Vals /\ Tombstone # Absent

VARIABLE store

Results == Vals \cup {Tombstone, Absent}

Init == store = [k \in Keys |-> Absent]

Put(k, v) == store' = [store EXCEPT ![k] = v]

Delete(k) ==
    /\ store[k] \in Vals
    /\ store' = [store EXCEPT ![k] = Tombstone]

\* clear: every key is gone.
Clear == store' = [k \in Keys |-> Absent]

Next == Clear \/ \E k \in Keys : Delete(k) \/ \E v \in Vals : Put(k, v)

Spec == Init /\ [][Next]_store
=============================================================================
