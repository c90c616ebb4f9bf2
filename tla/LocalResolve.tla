----------------------------- MODULE LocalResolve -----------------------------
(***************************************************************************)
(* What clients see of the store, and what the SDK makes of it without     *)
(* asking the server: the rows of a topology (shardToProto in              *)
(* internal/grpcapi/server.go) and the local resolve of                    *)
(* pkg/client/local.go.  An answer is a set of shards; the empty set means *)
(* that the SDK falls back to the server.                                  *)
(***************************************************************************)
EXTENDS ShardStore

Row == [role : Role, state : State \cup {"absent"}, bucket_id : Bucket \cup {NoBucket}]

(* shardToProto keeps the role, state and bucket of a row; the time of the last
   heartbeat is not sent. *)
shardToProto(s) == [role |-> role[s], state |-> state[s], bucket_id |-> bucket_id[s]]

(* buildTopology, when nothing else happens meanwhile. *)
topology == [config |-> config, rows |-> [s \in Shard |-> shardToProto(s)]]

rowsOf(topo) == {s \in Shard : topo.rows[s].state # "absent"}

findErrorShard(topo) == {s \in rowsOf(topo) : topo.rows[s].role = "error"}

findActiveForBucket(topo, b) ==
    {s \in rowsOf(topo) : topo.rows[s] = [role |-> "data", state |-> "active", bucket_id |-> b]}

(* Variant: shards being cleaned are read too. *)
shardsForBucketReadAll(topo, b) ==
    {s \in rowsOf(topo) : topo.rows[s].role = "data" /\ topo.rows[s].bucket_id = b}

shardsForBucketRead(topo, b) ==
    {s \in rowsOf(topo) :
        /\ topo.rows[s].role = "data" /\ topo.rows[s].bucket_id = b
        /\ topo.rows[s].state \in {"active", "sealed"}}

(* route is what ClassifyWrite makes of the key. *)
tryResolveWriteLocal(topo, route, b) ==
    IF topo.config = NoConfig THEN {}
    ELSE IF route = "bucket" THEN findActiveForBucket(topo, b) ELSE findErrorShard(topo)

(* The answer, and whether it is one. *)
tryResolveReadLocal(topo, route, b) ==
    LET found == IF route = "bucket" THEN shardsForBucketRead(topo, b)
                 ELSE IF route = "bucket_evicted" THEN {} ELSE findErrorShard(topo)
    IN [ok |-> topo.config # NoConfig /\ (found # {} \/ route = "bucket_evicted"), shards |-> found]

(* ScatterQuery without endpoints. *)
scatterEndpoints(topo) ==
    {s \in rowsOf(topo) : topo.rows[s].role = "data" /\ topo.rows[s].state = "active"}
-----------------------------------------------------------------------------
(* Properties *)

(* The Go code of the SDK and the SQL of the server, run on the same rows, give the
   same answer for a bucket whose active shard is alive: the same shard for a write,
   the same shards for a read.  A write has at most one target and asks the server
   exactly when the bucket has no active row.  Keys outside the window go to the one
   error shard.  Every target of a scatter serves a bucket.  The two sides differ for
   a bucket whose active shard misses its heartbeats: the server excludes it (as the
   documents say), local.go cannot, for a topology does not carry the time of the
   heartbeat. *)
LocalAgreesWithServer ==
    config # NoConfig =>
        /\ \A b \in Bucket :
              LET target == tryResolveWriteLocal(topology, "bucket", b)
                  read == tryResolveReadLocal(topology, "bucket", b)
              IN /\ \A s, t \in target : s = t
                 /\ target = {} <=> ActiveForBucket(b) = {} /\ StaleActiveForBucket(b) = {}
                 /\ StaleActiveForBucket(b) = {} =>
                        target = ActiveForBucket(b) /\ read.shards = ShardsForBucketRead(b)
                 /\ read.ok <=> read.shards # {}
        /\ \A s, t \in tryResolveWriteLocal(topology, "future_too_far", NoBucket) :
              s = t /\ s \in ErrorShards /\ state[s] = "active"
        /\ scatterEndpoints(topology) = DataShards("active")

(* To those who read it, the store is a route table: rows, configuration and a
   version that moves with every change of a row once the cluster is bootstrapped. *)
Routes == INSTANCE RouteTable WITH
    Table <- [Shard -> Row],
    EmptyTable <- [s \in Shard |-> [role |-> "data", state |-> "absent", bucket_id |-> NoBucket]],
    table <- topology.rows,
    DbConfig <- Config, NoDbConfig <- NoConfig, DbModulus <- VersionModulus,
    dbConfig <- config, dbVersion <- topology_version
PublishesRoutes == Routes!TableSpec
=============================================================================
