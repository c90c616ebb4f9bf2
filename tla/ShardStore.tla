------------------------------ MODULE ShardStore ------------------------------
(***************************************************************************)
(* The metadata database of the coordinator: the tables cluster_config and *)
(* shards (internal/store/migrations), the shard state machine             *)
(* (internal/fsm) and every transaction of internal/store/store.go that    *)
(* writes them.  One action is one committed transaction; a transaction    *)
(* that returns an error is rolled back and leaves the tables alone.       *)
(*                                                                         *)
(* StoreNext lets the transactions happen in any order with any argument.  *)
(* Every handler, supervisor and agent call of the system is a sequence of *)
(* these transactions, so what holds here holds for any number of servers  *)
(* and callers and any interleaving of their calls.                        *)
(*                                                                         *)
(* The table shards is kept column by column, each column a function of    *)
(* the shard; state[s] = "absent" means that s has no row.  Columns that   *)
(* no code reads back (sealed_at, updated_at) or that only repeat what the *)
(* row lock already guarantees (version) are left out.                     *)
(***************************************************************************)
EXTENDS Naturals

CONSTANTS
    Shard,           \* physical shards (shard_uuid)
    Bucket,          \* bucket ids
    NoBucket,        \* bucket_id IS NULL
    Config,          \* possible bootstrap configurations
    NoConfig,        \* cluster_config is empty
    PatchTargets,    \* states an operator asks PatchShardState for
    VersionModulus   \* topology_version is kept modulo this bound

ASSUME NoBucketAssumption == NoBucket \notin Bucket
ASSUME NoConfigAssumption == NoConfig \notin Config
ASSUME VersionModulusAssumption == VersionModulus \in Nat \ {0}

VARIABLES
    config,            \* the row of cluster_config, or NoConfig
    topology_version,  \* cluster_config.topology_version
    role,              \* shards.role
    state,             \* shards.state
    bucket_id,         \* shards.bucket_id
    fresh,             \* last_seen_at is within the heartbeat timeout
    full,              \* reported_bytes has reached max_bytes
    drain_started_at,  \* "null", "recent", or "expired": older than the timeout
    drain_ready        \* shards.drain_ready

clusterVars == <<config, topology_version>>
shardVars == <<role, state, bucket_id, fresh, full, drain_started_at, drain_ready>>
storeVars == <<clusterVars, shardVars>>
-----------------------------------------------------------------------------
(* internal/fsm *)

State == {"standby", "active", "draining", "sealed", "cleaning"}
Role == {"data", "error"}

dataTransitions ==
    { <<"standby", "active">>, <<"active", "draining">>, <<"active", "sealed">>,
      <<"draining", "sealed">>, <<"sealed", "cleaning">>, <<"cleaning", "standby">> }

(* Variant: the error shard follows the data shards' state machine. *)
CanTransitionAnyRole(r, from, to) == <<from, to>> \in dataTransitions

CanTransition(r, from, to) ==
    IF r = "error" THEN from = to \/ to = "active"
                   ELSE <<from, to>> \in dataTransitions

StartupStateAllowed(st) == st \in {"", "standby"}

(* The state of a new row: the error shard always starts active, a data shard
   as standby, whatever allowed startup state was asked for. *)
StartupState(r) == IF r = "error" THEN "active" ELSE "standby"
-----------------------------------------------------------------------------
(* Queries *)

Registered(s) == state[s] # "absent"

DataShards(st) == {s \in Shard : state[s] = st /\ role[s] = "data"}

InBucket(b, st) == {s \in DataShards(st) : bucket_id[s] = b}

(* Variant: the pool query forgets bucket_id IS NULL. *)
StandbyPoolAnyBucket == DataShards("standby")

StandbyPool == InBucket(NoBucket, "standby")

ErrorShards == {s \in Shard : Registered(s) /\ role[s] = "error"}

ActiveForBucket(b) == {s \in InBucket(b, "active") : fresh[s]}

StaleActiveForBucket(b) == {s \in InBucket(b, "active") : ~fresh[s]}

ListStaleActives == {s \in DataShards("active") : bucket_id[s] # NoBucket /\ ~fresh[s]}

ShardsForBucketRead(b) == InBucket(b, "sealed") \cup ActiveForBucket(b)

(* Variant: only 'active' counts, as before draining was introduced. *)
HasActiveOnly(b) == InBucket(b, "active") # {}

HasActiveInBucket(b) == InBucket(b, "active") \cup InBucket(b, "draining") # {}

DistinctBucketIDs == {b \in Bucket : \E s \in Shard : Registered(s) /\ role[s] = "data" /\ bucket_id[s] = b}

ShardsNeedingSeal == {s \in DataShards("active") : full[s]}

ShardsDraining == DataShards("draining")

(* SELECT ... ORDER BY id LIMIT 1 FOR UPDATE SKIP LOCKED over the pool: at most
   one row.  Any free standby can be the lowest one whose row is not locked, and
   all of them can be locked at once, because every heartbeat (UpdateStats) and
   every other promotion holds its row's lock until it commits. *)
PickStandby == {{}} \cup {{s} : s \in StandbyPool}

(* Variant: the unique index is missing. *)
IndexAdmitsAny(b, s) == TRUE

(* The unique index shards_one_active_per_bucket admits s as active in b. *)
IndexAdmits(b, s) == b # NoBucket => InBucket(b, "active") \subseteq {s}
-----------------------------------------------------------------------------
(* Transactions *)

(* UPDATE cluster_config SET topology_version = topology_version + 1 WHERE id = 1:
   no row, and so no effect, before bootstrap. *)
bumpTopologyVersion ==
    topology_version' = IF config = NoConfig THEN topology_version
                        ELSE (topology_version + 1) % VersionModulus

Bootstrap(c) ==
    /\ config = NoConfig
    /\ config' = c
    /\ topology_version' = 1 % VersionModulus
    /\ UNCHANGED shardVars

RegisterShard(s, r, startup) ==
    /\ r = "error" \/ StartupStateAllowed(startup)
    /\ r = "error" => ErrorShards = {}
    /\ role' = IF Registered(s) THEN role ELSE [role EXCEPT ![s] = r]
    /\ state' = IF Registered(s) THEN state ELSE [state EXCEPT ![s] = StartupState(r)]
    /\ fresh' = [fresh EXCEPT ![s] = TRUE]
    /\ bumpTopologyVersion
    /\ UNCHANGED <<config, bucket_id, full, drain_started_at, drain_ready>>

(* The rows of P (none or one) become active in b. *)
PromoteStandbyToActive(b, P) ==
    /\ P \in PickStandby \ {{}}
    /\ \A s \in P : IndexAdmits(b, s)
    /\ state' = [s \in Shard |-> IF s \in P THEN "active" ELSE state[s]]
    /\ bucket_id' = [s \in Shard |-> IF s \in P THEN b ELSE bucket_id[s]]
    /\ fresh' = [s \in Shard |-> s \in P \/ fresh[s]]
    /\ bumpTopologyVersion
    /\ UNCHANGED <<config, role, full, drain_started_at, drain_ready>>

(* Seals a and promotes the standby in P, if there is one, in the same
   transaction. *)
SealAndPromote(b, a, P) ==
    /\ P \in PickStandby
    /\ state' = [s \in Shard |-> IF s = a THEN "sealed"
                                 ELSE IF s \in P THEN "active" ELSE state[s]]
    /\ bucket_id' = [s \in Shard |-> IF s \in P THEN b ELSE bucket_id[s]]
    /\ fresh' = [s \in Shard |-> s \in P \/ fresh[s]]
    /\ bumpTopologyVersion
    /\ UNCHANGED <<config, role, full, drain_started_at>>

(* Variant: the rotation is rolled back when no standby is found. *)
SealRotateNeedsStandby(b, P) ==
    \E a \in InBucket(b, "active") :
        /\ P # {}
        /\ SealAndPromote(b, a, P)
        /\ UNCHANGED drain_ready

SealRotate(b, P) ==
    \E a \in InBucket(b, "active") :
        /\ SealAndPromote(b, a, P)
        /\ UNCHANGED drain_ready

UpdateStats(s, reachedMax) ==
    /\ Registered(s)
    /\ full' = [full EXCEPT ![s] = reachedMax]
    /\ fresh' = [fresh EXCEPT ![s] = TRUE]
    /\ UNCHANGED <<clusterVars, role, state, bucket_id, drain_started_at, drain_ready>>

(* Only the state column is written: the bucket and the drain columns keep
   whatever value they had. *)
PatchState(s, newState) ==
    /\ Registered(s)
    /\ CanTransition(role[s], state[s], newState)
    /\ newState = "active" /\ role[s] = "data" => IndexAdmits(bucket_id[s], s)
    /\ state' = [state EXCEPT ![s] = newState]
    /\ bumpTopologyVersion
    /\ UNCHANGED <<config, role, bucket_id, fresh, full, drain_started_at, drain_ready>>

(* Variant: the topology version is not bumped. *)
MarkBucketCleaningSilently(b) ==
    \E S \in (SUBSET InBucket(b, "sealed")) \ {{}} :
        /\ state' = [s \in Shard |-> IF s \in S THEN "cleaning" ELSE state[s]]
        /\ UNCHANGED <<clusterVars, role, bucket_id, fresh, full, drain_started_at, drain_ready>>

(* Rows sealed by a transaction that commits after the UPDATE has taken its snapshot
   are missed. *)
MarkBucketCleaning(b) ==
    \E S \in (SUBSET InBucket(b, "sealed")) \ {{}} :
        /\ state' = [s \in Shard |-> IF s \in S THEN "cleaning" ELSE state[s]]
        /\ bumpTopologyVersion
        /\ UNCHANGED <<config, role, bucket_id, fresh, full, drain_started_at, drain_ready>>

(* Variants: the bucket becomes '' instead of NULL; the state is not looked at, so
   that a late report recycles a shard in use; the bucket is kept; the drain
   columns are kept. *)
FinishCleaningEmptyId(s) ==
    /\ state[s] = "cleaning"
    /\ state' = [state EXCEPT ![s] = "standby"]
    /\ bucket_id' = [bucket_id EXCEPT ![s] = ""]
    /\ full' = [full EXCEPT ![s] = FALSE]
    /\ drain_started_at' = [drain_started_at EXCEPT ![s] = "null"]
    /\ drain_ready' = [drain_ready EXCEPT ![s] = FALSE]
    /\ bumpTopologyVersion
    /\ UNCHANGED <<config, role, fresh>>

FinishCleaningAnyState(s) ==
    /\ Registered(s)
    /\ state' = [state EXCEPT ![s] = "standby"]
    /\ bucket_id' = [bucket_id EXCEPT ![s] = NoBucket]
    /\ full' = [full EXCEPT ![s] = FALSE]
    /\ drain_started_at' = [drain_started_at EXCEPT ![s] = "null"]
    /\ drain_ready' = [drain_ready EXCEPT ![s] = FALSE]
    /\ bumpTopologyVersion
    /\ UNCHANGED <<config, role, fresh>>

FinishCleaningKeepsBucket(s) ==
    /\ state[s] = "cleaning"
    /\ state' = [state EXCEPT ![s] = "standby"]
    /\ UNCHANGED bucket_id
    /\ full' = [full EXCEPT ![s] = FALSE]
    /\ drain_started_at' = [drain_started_at EXCEPT ![s] = "null"]
    /\ drain_ready' = [drain_ready EXCEPT ![s] = FALSE]
    /\ bumpTopologyVersion
    /\ UNCHANGED <<config, role, fresh>>

FinishCleaningKeepsDrain(s) ==
    /\ state[s] = "cleaning"
    /\ state' = [state EXCEPT ![s] = "standby"]
    /\ bucket_id' = [bucket_id EXCEPT ![s] = NoBucket]
    /\ full' = [full EXCEPT ![s] = FALSE]
    /\ bumpTopologyVersion
    /\ UNCHANGED <<config, role, fresh, drain_started_at, drain_ready>>

FinishCleaning(s) ==
    /\ state[s] = "cleaning"
    /\ state' = [state EXCEPT ![s] = "standby"]
    /\ bucket_id' = [bucket_id EXCEPT ![s] = NoBucket]
    /\ full' = [full EXCEPT ![s] = FALSE]
    /\ drain_started_at' = [drain_started_at EXCEPT ![s] = "null"]
    /\ drain_ready' = [drain_ready EXCEPT ![s] = FALSE]
    /\ bumpTopologyVersion
    /\ UNCHANGED <<config, role, fresh>>

BeginDrain(b) ==
    /\ InBucket(b, "active") # {}
    /\ state' = [s \in Shard |-> IF s \in InBucket(b, "active") THEN "draining" ELSE state[s]]
    /\ drain_started_at' = [s \in Shard |-> IF s \in InBucket(b, "active") THEN "recent"
                                            ELSE drain_started_at[s]]
    /\ drain_ready' = [s \in Shard |-> s \notin InBucket(b, "active") /\ drain_ready[s]]
    /\ bumpTopologyVersion
    /\ UNCHANGED <<config, role, bucket_id, fresh, full>>

MarkDrainReady(s) ==
    /\ state[s] = "draining"
    /\ drain_ready' = [drain_ready EXCEPT ![s] = TRUE]
    /\ UNCHANGED <<clusterVars, role, state, bucket_id, fresh, full, drain_started_at>>

(* The unique index aborts the transaction when a standby is found for a bucket
   that already has an active shard. *)
CompleteDrainSeal(b, P) ==
    \E d \in InBucket(b, "draining") :
        /\ \A s \in P : IndexAdmits(b, s)
        /\ SealAndPromote(b, d, P)
        /\ drain_ready' = [drain_ready EXCEPT ![d] = FALSE]
-----------------------------------------------------------------------------
(* The passage of time.  The age of last_seen_at is only looked at while the row
   is active, the age of drain_started_at only while it is draining. *)

HeartbeatExpires(s) ==
    /\ state[s] = "active" /\ fresh[s]
    /\ fresh' = [fresh EXCEPT ![s] = FALSE]
    /\ UNCHANGED <<clusterVars, role, state, bucket_id, full, drain_started_at, drain_ready>>

DrainTimeoutExpires(s) ==
    /\ state[s] = "draining" /\ drain_started_at[s] = "recent"
    /\ drain_started_at' = [drain_started_at EXCEPT ![s] = "expired"]
    /\ UNCHANGED <<clusterVars, role, state, bucket_id, fresh, full, drain_ready>>
-----------------------------------------------------------------------------
StoreInit ==
    /\ config = NoConfig
    /\ topology_version = 0
    /\ role = [s \in Shard |-> "data"]
    /\ state = [s \in Shard |-> "absent"]
    /\ bucket_id = [s \in Shard |-> NoBucket]
    /\ fresh = [s \in Shard |-> FALSE]
    /\ full = [s \in Shard |-> FALSE]
    /\ drain_started_at = [s \in Shard |-> "null"]
    /\ drain_ready = [s \in Shard |-> FALSE]

BucketStep(b) ==
    \/ \E P \in PickStandby : PromoteStandbyToActive(b, P)
    \/ \E P \in PickStandby : SealRotate(b, P)
    \/ \E P \in PickStandby : CompleteDrainSeal(b, P)
    \/ BeginDrain(b)
    \/ MarkBucketCleaning(b)

ShardStep(s) ==
    \/ \E r \in Role, startup \in State \cup {""} : RegisterShard(s, r, startup)
    \/ \E reachedMax \in BOOLEAN : UpdateStats(s, reachedMax)
    \/ \E newState \in PatchTargets : PatchState(s, newState)
    \/ FinishCleaning(s)
    \/ MarkDrainReady(s)
    \/ HeartbeatExpires(s)
    \/ DrainTimeoutExpires(s)

StoreNext ==
    \/ \E c \in Config : Bootstrap(c)
    \/ \E b \in Bucket : BucketStep(b)
    \/ \E s \in Shard : ShardStep(s)

StoreSpec == StoreInit /\ [][StoreNext]_storeVars
-----------------------------------------------------------------------------
(* Properties *)

(* Every column holds a value its type and CHECK constraint allow. *)
StoreTypeOK ==
    /\ config \in Config \cup {NoConfig}
    /\ topology_version \in 0..(VersionModulus - 1)
    /\ role \in [Shard -> Role]
    /\ state \in [Shard -> State \cup {"absent"}]
    /\ bucket_id \in [Shard -> Bucket \cup {NoBucket}]
    /\ fresh \in [Shard -> BOOLEAN]
    /\ full \in [Shard -> BOOLEAN]
    /\ drain_started_at \in [Shard -> {"null", "recent", "expired"}]
    /\ drain_ready \in [Shard -> BOOLEAN]

(* At most one active data shard per bucket, across promotion, rotation, the end
   of a drain and operator patches (master-spec.md, invariant 2). *)
OneActivePerBucket ==
    \A b \in Bucket : \A s, t \in InBucket(b, "active") : s = t

(* There is at most one error shard, and it is always writable: no transaction
   takes it out of "active", gives it a bucket, drains or cleans it, although
   several of them select rows without looking at the role. *)
ErrorShardAlwaysWritable ==
    /\ \A s, t \in ErrorShards : s = t
    /\ \A s \in ErrorShards : state[s] = "active" /\ bucket_id[s] = NoBucket /\ ~drain_ready[s]

(* A data shard owns a bucket exactly while it is in the active..cleaning part of
   its life, so every standby is in the pool PickStandby draws from and every
   other shard is found by the queries that select by bucket. *)
BucketMatchesState ==
    \A s \in Shard : Registered(s) /\ role[s] = "data" =>
        (state[s] = "standby" <=> bucket_id[s] = NoBucket)

(* A shard that returns to the pool, or is promoted from it, carries nothing over
   from an earlier drain: otherwise its next drain could count as finished before
   the agent has revoked writes. *)
NoLeftoverDrain ==
    \A s \in Shard : state[s] \in {"standby", "active"} =>
        ~drain_ready[s] /\ drain_started_at[s] = "null"

(* Every change of state, whichever SQL statement makes it, is an edge of
   dataTransitions, and nothing but registration creates a row; the role of a
   row never changes. *)
LifecycleStep ==
    \A s \in Shard :
        /\ Registered(s) => role'[s] = role[s]
        /\ state'[s] # state[s] =>
              IF Registered(s) THEN CanTransition(role[s], state[s], state'[s])
                               ELSE state'[s] = StartupState(role'[s])
LifecycleRespected == [][LifecycleStep]_storeVars

(* No rebalancing: a shard gets a bucket only when it leaves the pool as active,
   keeps it until it has been cleaned, and gives it up only by returning to the
   pool; a shard never moves from one bucket to another. *)
NoRebalanceStep ==
    \A s \in Shard : bucket_id'[s] # bucket_id[s] =>
        \/ bucket_id[s] = NoBucket /\ state[s] = "standby" /\ state'[s] = "active"
        \/ bucket_id'[s] = NoBucket /\ state[s] = "cleaning" /\ state'[s] = "standby"
NoRebalance == [][NoRebalanceStep]_storeVars

(* Once the cluster is bootstrapped, whatever a client can route by (the rows,
   their role, state and bucket) never changes without a new topology_version:
   a cached topology whose version is current is itself current. *)
RoutingVersionedStep ==
    config # NoConfig /\ <<role, state, bucket_id>>' # <<role, state, bucket_id>> =>
        topology_version' = (topology_version + 1) % VersionModulus
RoutingVersioned == [][RoutingVersionedStep]_storeVars
=============================================================================
