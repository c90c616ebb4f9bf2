---------------------------- MODULE SealSupervisor ----------------------------
(***************************************************************************)
(* internal/seal: a tick first completes the drains that are ready or have *)
(* timed out, then begins a drain for every full active.  Both halves work *)
(* through a list read at their start, and both transactions name the      *)
(* bucket, not the listed shard.                                           *)
(***************************************************************************)
EXTENDS ShardStore

CONSTANT Sealer      \* seal supervisors (one per server process)

VARIABLE sealTick    \* sealTick[w]: the half of the tick and the listed shards left

Listed(S) == {<<s, bucket_id[s]>> : s \in {t \in S : bucket_id[t] # NoBucket}}

SealInit == sealTick = [w \in Sealer |-> [half |-> "begin", todo |-> {}]]

(* Variant: no drain timeout. *)
DrainReported(s) == drain_ready[s]

DrainFinished(s) == drain_ready[s] \/ drain_started_at[s] = "expired"

(* Variant: every draining shard is completed, ready or not. *)
SealListAllDraining(w) ==
    /\ config # NoConfig
    /\ sealTick[w] = [half |-> "begin", todo |-> {}]
    /\ sealTick' = [sealTick EXCEPT ![w] = [half |-> "complete", todo |-> Listed(ShardsDraining)]]
    /\ UNCHANGED storeVars

(* A tick starts with the list of draining shards; the ones that are not ready
   are passed over. *)
SealListDraining(w) ==
    /\ config # NoConfig
    /\ sealTick[w] = [half |-> "begin", todo |-> {}]
    /\ sealTick' = [sealTick EXCEPT ![w] =
            [half |-> "complete", todo |-> Listed({s \in ShardsDraining : DrainFinished(s)})]]
    /\ UNCHANGED storeVars

(* Variant: drains begin only while a standby is free. *)
SealListNeedWithStandby(w) ==
    /\ sealTick[w] = [half |-> "complete", todo |-> {}]
    /\ sealTick' = [sealTick EXCEPT ![w] =
            [half |-> "begin", todo |-> IF StandbyPool = {} THEN {} ELSE Listed(ShardsNeedingSeal)]]
    /\ UNCHANGED storeVars

SealListNeed(w) ==
    /\ sealTick[w] = [half |-> "complete", todo |-> {}]
    /\ sealTick' = [sealTick EXCEPT ![w] = [half |-> "begin", todo |-> Listed(ShardsNeedingSeal)]]
    /\ UNCHANGED storeVars

done(w, x) == sealTick' = [sealTick EXCEPT ![w].todo = @ \ {x}]

SealComplete(w, x, P) ==
    /\ sealTick[w].half = "complete"
    /\ x \in sealTick[w].todo
    /\ CompleteDrainSeal(x[2], P)
    /\ done(w, x)

SealBegin(w, x) ==
    /\ sealTick[w].half = "begin"
    /\ x \in sealTick[w].todo
    /\ BeginDrain(x[2])
    /\ done(w, x)

(* ErrNotFound, the unique index or a failed statement: logged, next shard. *)
SealSkip(w, x) ==
    /\ x \in sealTick[w].todo
    /\ done(w, x)
    /\ UNCHANGED storeVars

SealStep(w) ==
    \/ SealListDraining(w)
    \/ SealListNeed(w)
    \/ \E x \in Shard \X Bucket :
          \/ \E P \in PickStandby : SealComplete(w, x, P)
          \/ SealBegin(w, x)
          \/ SealSkip(w, x)
=============================================================================
