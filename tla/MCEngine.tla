------------------------------ MODULE MCEngine ------------------------------
(* Instantiates Engine for TLC: two keys and two values as model values. *)
EXTENDS Engine, TLC

CONSTANTS k1, k2, v1, v2

MCKeys == {k1, k2}
MCVals == {v1, v2}

\* Keys and values are only compared for equality: permuting them maps
\* behaviours to behaviours.  Used only by runs without liveness.
Symmetry == Permutations(MCKeys) \cup Permutations(MCVals)

\* A caller that only puts and deletes and never forces a flush, as the
\* workload of src/tests/workload does: the queue is drained only by the
\* sends that rollover spawns and the flusher.
NoForcedFlushNext ==
    \/ \E k \in Keys : Delete(k) \/ \E v \in Vals : Put(k, v)
    \/ DeliverFlushData
    \/ FlushData
    \/ Crash
    \/ Reopen

NoForcedFlushSpec ==
    /\ Init /\ [][NoForcedFlushNext]_vars
    /\ WF_vars(DeliverFlushData) /\ WF_vars(FlushData)
=============================================================================
