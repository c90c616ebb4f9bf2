-------------------------- MODULE LocalResolveProofs --------------------------
(***************************************************************************)
(* For any shards, buckets and callers: to those who only read it, the     *)
(* store is a route table, and what the SDK resolves locally from a        *)
(* current topology is what the server's queries say, as long as the       *)
(* active shard of the bucket is alive.                                    *)
(***************************************************************************)
EXTENDS LocalResolve, ShardStoreProofs

(* The rows of the empty tables are the empty route table. *)
LEMMA RoutesInit == StoreInit => Routes!TableInit
BY DEF StoreInit, Routes!TableInit, topology, shardToProto

(* The rows that a transaction leaves behind are well typed. *)
LEMMA RowsTypedNext == StoreTypeOK' => topology.rows' \in [Shard -> Row]
BY DEF StoreTypeOK, topology, shardToProto, Row, State, Role

(* A transaction bootstraps, or bumps the version, or leaves alone what clients see:
   heartbeats, drain reports and the passage of time are no news. *)
LEMMA BumpOrNothingSeen ==
    StoreNext => \/ \E c \in Config : Bootstrap(c)
                 \/ bumpTopologyVersion /\ UNCHANGED config
                 \/ UNCHANGED <<config, topology_version, role, state, bucket_id>>
BY DEF StoreNext, BucketStep, ShardStep, PromoteStandbyToActive, SealRotate, SealAndPromote,
       CompleteDrainSeal, BeginDrain, MarkBucketCleaning, RegisterShard, UpdateStats, PatchState,
       FinishCleaning, MarkDrainReady, HeartbeatExpires, DrainTimeoutExpires, clusterVars

(* So every step of the store is a step of the route table or leaves it alone. *)
LEMMA RoutesStep ==
    StoreTypeOK' /\ [StoreNext]_storeVars => [Routes!TableNext]_(Routes!tableVars)
<1> SUFFICES ASSUME StoreTypeOK', [StoreNext]_storeVars
             PROVE  [Routes!TableNext]_(Routes!tableVars)
    OBVIOUS
<1>1. ASSUME NEW c \in Config, Bootstrap(c) PROVE Routes!Install(c)
    BY <1>1 DEF Bootstrap, shardVars, Routes!Install, topology, shardToProto
<1>2. ASSUME bumpTopologyVersion, UNCHANGED config PROVE Routes!Publish
    BY <1>2, RowsTypedNext DEF bumpTopologyVersion, Routes!Publish
<1>3. ASSUME UNCHANGED <<config, topology_version, role, state, bucket_id>>
      PROVE  UNCHANGED Routes!tableVars
    BY <1>3 DEF Routes!tableVars, topology, shardToProto
<1>4. CASE UNCHANGED storeVars
    BY <1>3, <1>4 DEF storeVars, clusterVars, shardVars
<1> QED
    BY <1>1, <1>2, <1>3, <1>4, BumpOrNothingSeen DEF Routes!TableNext

(* To those who read it, the store is a route table: no transaction of any caller
   changes a row that clients see without a new topology_version, and the
   configuration is installed once. *)
THEOREM StorePublishesRoutes == StoreSpec => PublishesRoutes
<1>1. StoreSpec => []StoreTypeOK
    BY StoreTyped
<1> QED
    BY <1>1, RoutesInit, RoutesStep, PTL DEF StoreSpec, PublishesRoutes, Routes!TableSpec

(* What the SDK selects from the rows is what the server's queries select. *)
LEMMA SelectsActive ==
    \A b \in Bucket : findActiveForBucket(topology, b) = InBucket(b, "active")
BY DEF findActiveForBucket, rowsOf, topology, shardToProto, InBucket, DataShards

(* A read selects the active and the sealed shards of the bucket. *)
LEMMA SelectsRead ==
    \A b \in Bucket :
        shardsForBucketRead(topology, b) = InBucket(b, "active") \cup InBucket(b, "sealed")
BY DEF shardsForBucketRead, rowsOf, topology, shardToProto, InBucket, DataShards

(* The error shard the client finds is the one registered. *)
LEMMA SelectsError == findErrorShard(topology) = ErrorShards
BY DEF findErrorShard, rowsOf, topology, shardToProto, ErrorShards, Registered

(* A scattered request goes to every active data shard. *)
LEMMA SelectsScatter == scatterEndpoints(topology) = DataShards("active")
BY DEF scatterEndpoints, rowsOf, topology, shardToProto, DataShards

(* On a current topology the answer follows from the store's invariants. *)
LEMMA LocalAgrees ==
    ASSUME StoreInv
    PROVE  LocalAgreesWithServer
<1> SUFFICES ASSUME config # NoConfig
             PROVE  LocalAgreesWithServer
    BY DEF LocalAgreesWithServer
<1>1. topology.config # NoConfig
    BY DEF topology
<1>2. ASSUME NEW b \in Bucket
      PROVE  LET target == tryResolveWriteLocal(topology, "bucket", b)
                 read == tryResolveReadLocal(topology, "bucket", b)
             IN /\ \A s, t \in target : s = t
                /\ target = {} <=> ActiveForBucket(b) = {} /\ StaleActiveForBucket(b) = {}
                /\ StaleActiveForBucket(b) = {} =>
                       target = ActiveForBucket(b) /\ read.shards = ShardsForBucketRead(b)
                /\ read.ok <=> read.shards # {}
    <2> DEFINE target == tryResolveWriteLocal(topology, "bucket", b)
               read == tryResolveReadLocal(topology, "bucket", b)
    <2>1. target = InBucket(b, "active")
        BY <1>1, SelectsActive DEF tryResolveWriteLocal
    <2>2. read.shards = InBucket(b, "active") \cup InBucket(b, "sealed")
        BY <1>1, SelectsRead DEF tryResolveReadLocal
    <2>3. read.ok <=> read.shards # {}
        BY <1>1 DEF tryResolveReadLocal
    <2>4. InBucket(b, "active") = ActiveForBucket(b) \cup StaleActiveForBucket(b)
        BY DEF ActiveForBucket, StaleActiveForBucket
    <2>5. ShardsForBucketRead(b) = InBucket(b, "sealed") \cup ActiveForBucket(b)
        BY DEF ShardsForBucketRead
    <2>6. \A s, t \in InBucket(b, "active") : s = t
        BY DEF StoreInv, OneActivePerBucket
    <2> HIDE DEF target, read
    <2>7. /\ \A s, t \in target : s = t
          /\ target = {} <=> ActiveForBucket(b) = {} /\ StaleActiveForBucket(b) = {}
          /\ StaleActiveForBucket(b) = {} =>
                 target = ActiveForBucket(b) /\ read.shards = ShardsForBucketRead(b)
          /\ read.ok <=> read.shards # {}
        BY <2>1, <2>2, <2>3, <2>4, <2>5, <2>6
    <2> QED
        BY <2>7 DEF target, read
<1>3. tryResolveWriteLocal(topology, "future_too_far", NoBucket) = ErrorShards
    BY <1>1, SelectsError DEF tryResolveWriteLocal
<1>4. \A s, t \in ErrorShards : s = t /\ s \in ErrorShards /\ state[s] = "active"
    BY DEF StoreInv, ErrorShardAlwaysWritable
<1> QED
    BY <1>2, <1>3, <1>4, SelectsScatter DEF LocalAgreesWithServer

(* The SDK's local resolve and the server's queries agree on a current topology for
   every bucket whose active shard is alive, for any shards, buckets and operators'
   patches. *)
THEOREM LocalResolveAgrees == StoreSpec => []LocalAgreesWithServer
BY LocalAgrees, StoreInvariant, PTL
=============================================================================
