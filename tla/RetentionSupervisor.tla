------------------------- MODULE RetentionSupervisor -------------------------
(***************************************************************************)
(* internal/retention (time axis): a tick reads the clock, lists the       *)
(* buckets outside retention, and for each one first checks that no shard  *)
(* of it is active or draining and then, in a transaction of its own,      *)
(* marks its sealed shards for cleaning.                                   *)
(***************************************************************************)
EXTENDS ShardStore, Routing

CONSTANT Retainer    \* retention ticks in progress (supervisor, RetentionTick)

VARIABLE evict       \* evict[w]: buckets left to check, and the one that passed

RetentionInit == evict = [w \in Retainer |-> [todo |-> {}, checked |-> NoBucket]]

RetentionList(w) ==
    /\ config # NoConfig
    /\ evict[w] = [todo |-> {}, checked |-> NoBucket]
    /\ BucketsOutsideRetention(now, DistinctBucketIDs) # {}
    /\ evict' = [evict EXCEPT ![w].todo = BucketsOutsideRetention(now, DistinctBucketIDs)]
    /\ UNCHANGED <<storeVars, now>>

RetentionCheck(w, b) ==
    /\ evict[w].checked = NoBucket
    /\ b \in evict[w].todo
    /\ evict' = [evict EXCEPT ![w] = [todo |-> @.todo \ {b},
                                      checked |-> IF HasActiveInBucket(b) THEN NoBucket ELSE b]]
    /\ UNCHANGED <<storeVars, now>>

RetentionMark(w) ==
    /\ evict[w].checked # NoBucket
    /\ MarkBucketCleaning(evict[w].checked)
    /\ evict' = [evict EXCEPT ![w].checked = NoBucket]
    /\ UNCHANGED now

(* No sealed shard is left, or a statement failed: next bucket. *)
RetentionSkip(w) ==
    /\ \/ /\ evict[w].checked # NoBucket
          /\ evict' = [evict EXCEPT ![w].checked = NoBucket]
       \/ /\ evict[w].checked = NoBucket
          /\ \E b \in evict[w].todo : evict' = [evict EXCEPT ![w].todo = @ \ {b}]
    /\ UNCHANGED <<storeVars, now>>

RetentionStep(w) ==
    \/ RetentionList(w)
    \/ \E b \in Bucket : RetentionCheck(w, b)
    \/ RetentionMark(w)
    \/ RetentionSkip(w)
=============================================================================
