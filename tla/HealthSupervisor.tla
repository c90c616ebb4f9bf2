--------------------------- MODULE HealthSupervisor ---------------------------
(***************************************************************************)
(* internal/health: every tick lists the stale actives and then rotates    *)
(* the bucket of each one in a transaction of its own.  A supervisor with  *)
(* an empty list waits for its ticker.                                     *)
(***************************************************************************)
EXTENDS ShardStore

CONSTANT Health      \* health supervisors (one per server process)

VARIABLE staleList   \* staleList[h]: the listed shards still to rotate, with their bucket

HealthInit == staleList = [h \in Health |-> {}]

HealthList(h) ==
    /\ staleList[h] = {}
    /\ staleList' = [staleList EXCEPT ![h] = {<<s, bucket_id[s]>> : s \in ListStaleActives}]
    /\ UNCHANGED storeVars

HealthRotate(h, x) ==
    /\ x \in staleList[h]
    /\ \E P \in PickStandby : SealRotate(x[2], P)
    /\ staleList' = [staleList EXCEPT ![h] = @ \ {x}]

(* ErrNotFound, ErrConflict or a failed statement: go on with the next one. *)
HealthSkip(h, x) ==
    /\ x \in staleList[h]
    /\ staleList' = [staleList EXCEPT ![h] = @ \ {x}]
    /\ UNCHANGED storeVars

HealthStep(h) ==
    \/ HealthList(h)
    \/ \E x \in Shard \X Bucket : HealthRotate(h, x) \/ HealthSkip(h, x)
=============================================================================
