----------------------------- MODULE Coordinator -----------------------------
(***************************************************************************)
(* The coordinator at work (cmd/server): Resolve calls, the health, seal   *)
(* and retention supervisors, the operator's Admin calls and the agents'   *)
(* Internal calls, all over one metadata database.  Several processes of a *)
(* kind stand for concurrent calls or for several servers on one database. *)
(***************************************************************************)
EXTENDS Resolve, HealthSupervisor, SealSupervisor, RetentionSupervisor, FiniteSets

CONSTANTS
    Preregistered,   \* shards registered when the model starts
    RotatedBuckets,  \* buckets the operator calls SealRotate for
    Silent           \* shards whose agent never reports

(* On the time axis a bucket is its index. *)
ASSUME TimeBucketAssumption == Axis = "time" => Bucket \subseteq Int
ASSUME RotatedBucketsAssumption == RotatedBuckets \subseteq Bucket

vars == <<storeVars, now, rpc, staleList, sealTick, evict>>

(* A bootstrapped cluster with a pool of standbys and nothing written yet. *)
CoordInit ==
    /\ config \in Config
    /\ topology_version = 1 % VersionModulus
    /\ role = [s \in Shard |-> "data"]
    /\ state = [s \in Shard |-> IF s \in Preregistered THEN "standby" ELSE "absent"]
    /\ bucket_id = [s \in Shard |-> NoBucket]
    /\ fresh = [s \in Shard |-> s \in Preregistered]
    /\ full = [s \in Shard |-> FALSE]
    /\ drain_started_at = [s \in Shard |-> "null"]
    /\ drain_ready = [s \in Shard |-> FALSE]
    /\ now = 0
    /\ ResolveInit /\ HealthInit /\ SealInit /\ RetentionInit

(* InternalService: ReportStats, ReportDrainComplete, ReportCleaned.  A report
   may arrive at any time, also late or twice; the size it carries changes only
   while the shard is written, that is while it is active. *)
AgentCall(s) ==
    /\ s \notin Silent
    /\ \/ \E reachedMax \in BOOLEAN :
            /\ reachedMax = full[s] \/ state[s] = "active"
            /\ UpdateStats(s, reachedMax)
       \/ MarkDrainReady(s)
       \/ FinishCleaning(s)

(* AdminService: RegisterShard, SealRotate, PatchShardState. *)
AdminCall ==
    \/ \E s \in Shard, r \in Role : RegisterShard(s, r, "standby")
    \/ \E b \in RotatedBuckets, P \in PickStandby : SealRotate(b, P)
    \/ \E s \in Shard, newState \in PatchTargets : PatchState(s, newState)

TimePasses(s) == HeartbeatExpires(s) \/ DrainTimeoutExpires(s)

procVars == <<rpc, staleList, sealTick, evict>>

CoordNext ==
    \/ \E r \in Resolver : ResolveStep(r) /\ UNCHANGED <<staleList, sealTick, evict>>
    \/ \E h \in Health : HealthStep(h) /\ UNCHANGED <<now, rpc, sealTick, evict>>
    \/ \E w \in Sealer : SealStep(w) /\ UNCHANGED <<now, rpc, staleList, evict>>
    \/ \E w \in Retainer : RetentionStep(w) /\ UNCHANGED <<rpc, staleList, sealTick>>
    \/ AdminCall /\ UNCHANGED <<now, procVars>>
    \/ \E s \in Shard : AgentCall(s) /\ UNCHANGED <<now, procVars>>
    \/ \E s \in Shard : TimePasses(s) /\ UNCHANGED <<now, procVars>>
    \/ ClockTick /\ UNCHANGED <<storeVars, procVars>>

CoordSpec == CoordInit /\ [][CoordNext]_vars
-----------------------------------------------------------------------------
(* Fairness.  The supervisors' tickers keep firing, each tick works through its
   list, and a transaction that is possible again and again without a lock in its
   way does not fail for ever.  Nothing is assumed of agents, operators or
   clients. *)

UnlockedPick == IF StandbyPool = {} THEN {{}} ELSE PickStandby \ {{}}

SealFairness ==
    \A w \in Sealer :
        /\ WF_vars(SealListDraining(w) /\ UNCHANGED <<now, rpc, staleList, evict>>)
        /\ WF_vars(SealListNeed(w) /\ UNCHANGED <<now, rpc, staleList, evict>>)
        /\ WF_vars((\E x \in Shard \X Bucket : SealSkip(w, x)) /\ UNCHANGED <<now, rpc, staleList, evict>>)
        /\ \A x \in Shard \X Bucket :
            /\ SF_vars(SealBegin(w, x) /\ UNCHANGED <<now, rpc, staleList, evict>>)
            /\ SF_vars((\E P \in UnlockedPick : SealComplete(w, x, P)) /\ UNCHANGED <<now, rpc, staleList, evict>>)

HealthFairness ==
    \A h \in Health :
        /\ WF_vars(HealthList(h) /\ UNCHANGED <<now, rpc, sealTick, evict>>)
        /\ WF_vars((\E x \in Shard \X Bucket : HealthSkip(h, x)) /\ UNCHANGED <<now, rpc, sealTick, evict>>)
        /\ \A x \in Shard \X Bucket : SF_vars(HealthRotate(h, x) /\ UNCHANGED <<now, rpc, sealTick, evict>>)

RetentionFairness ==
    \A w \in Retainer :
        /\ WF_vars(RetentionList(w) /\ UNCHANGED <<rpc, staleList, sealTick>>)
        /\ WF_vars(RetentionSkip(w) /\ UNCHANGED <<rpc, staleList, sealTick>>)
        /\ \A b \in Bucket : SF_vars(RetentionCheck(w, b) /\ UNCHANGED <<rpc, staleList, sealTick>>)
        /\ SF_vars(RetentionMark(w) /\ UNCHANGED <<rpc, staleList, sealTick>>)

ClockFairness == \A s \in Shard : WF_vars(DrainTimeoutExpires(s) /\ UNCHANGED <<now, procVars>>)

FairCoordSpec == CoordSpec /\ SealFairness /\ HealthFairness /\ RetentionFairness /\ ClockFairness
-----------------------------------------------------------------------------
(* Properties *)

(* The tables, the calls in progress and the supervisors' lists are well typed; in
   particular a call ends with one of the status codes the handlers map errors to,
   and the lists name shards together with a bucket. *)
CoordTypeOK ==
    /\ StoreTypeOK
    /\ now \in Nat
    /\ rpc \in [Resolver -> Call]
    /\ staleList \in [Health -> SUBSET (Shard \X Bucket)]
    /\ sealTick \in [Sealer -> [half : {"complete", "begin"}, todo : SUBSET (Shard \X Bucket)]]
    /\ evict \in [Retainer -> [todo : SUBSET Bucket, checked : Bucket \cup {NoBucket}]]

(* The shards that HasActiveInBucket counts. *)
Holders(b) == InBucket(b, "active") \cup InBucket(b, "draining")

(* A bucket never has more shards active or draining than calls are served at once:
   AutoPromoteIfNoActive refuses a bucket that has one, and a call that saw none
   promotes one shard, however stale that is by then. *)
HoldersBoundedByCalls ==
    \A b \in Bucket : Cardinality(Holders(b)) <= Cardinality(Resolver)

(* A draining shard is sealed only after its agent reported that writes are
   revoked, or after the drain timeout, although the supervisor decides this from
   a list it read earlier and seals by bucket. *)
SealsOnlyFinishedDrains ==
    [][\A s \in Shard : state[s] = "draining" /\ state'[s] = "sealed" => DrainFinished(s)]_vars

(* The seal supervisor drains a shard only if it is full, or was when listed
   (architecture.md: "active (full) -> draining"). *)
SealDrainsFull ==
    [][\A w \in Sealer : \A x \in sealTick[w].todo : SealBegin(w, x) =>
        \A s \in Shard : state[s] = "active" /\ state'[s] = "draining" => full[s] \/ s = x[1]]_vars

(* The health supervisor seals a shard only if it is stale, or was when listed
   (architecture.md: "stale data active -> auto SealRotate"). *)
HealthSealsStale ==
    [][\A h \in Health : \A x \in staleList[h] : HealthRotate(h, x) =>
        \A s \in Shard : state[s] = "active" /\ state'[s] = "sealed" => ~fresh[s] \/ s = x[1]]_vars

(* A write is answered Unavailable only while its bucket has no fresh active
   shard (master-spec.md: auto-promote standby on miss; Unavailable if pool
   empty). *)
UnavailableIsTruthful ==
    [][\A r \in Resolver :
        rpc[r].pc # "idle" /\ rpc'[r].pc = "idle" /\ rpc'[r].code = "Unavailable" =>
            ActiveForBucket(rpc[r].bucket) = {}]_vars

(* Retention marks no shard of a bucket that has an active or draining shard
   (architecture.md: "Skips buckets that still have active or draining shards"). *)
RetentionSkipsBusy ==
    [][\A w \in Retainer : RetentionMark(w) => ~HasActiveInBucket(evict[w].checked)]_vars

(* A shard is sent to cleaning only when its bucket no longer accepts writes, by
   the same clock that routes them, although the list of buckets was computed
   some time before. *)
RetentionKeepsWindow ==
    [][\A s \in Shard : state[s] = "sealed" /\ state'[s] = "cleaning" =>
        ClassifyWrite(now, bucket_id[s]) = "bucket_evicted"]_vars

(* A draining shard is sealed in the end, by its agent's report or by the drain
   timeout (README: "Max wait in draining before force seal"). *)
DrainCompletes ==
    \A s \in Shard : state[s] = "draining" ~> state[s] # "draining"

(* A stale active does not stay: it is rotated out, or its agent comes back. *)
StaleActiveReplaced ==
    \A s \in Shard : s \in ListStaleActives ~> s \notin ListStaleActives

(* A full active does not stay: it is drained or sealed, or shrinks. *)
FullActiveLeaves ==
    \A s \in Shard : (s \in ShardsNeedingSeal /\ bucket_id[s] # NoBucket) ~> s \notin ShardsNeedingSeal

(* The sealed shards of a bucket that left the window are sent to cleaning, unless
   the bucket still has an active or draining shard. *)
EvictedIsCleaned ==
    \A s \in Shard, b \in Bucket :
        (s \in InBucket(b, "sealed") /\ ClassifyWrite(now, b) = "bucket_evicted")
            ~> (s \notin InBucket(b, "sealed") \/ HasActiveInBucket(b))
=============================================================================
