-------------------------- MODULE ShardStoreProofs --------------------------
(***************************************************************************)
(* Proofs about ShardStore for any number of shards and buckets: the type  *)
(* invariant, the invariants of the shards table and the action properties *)
(* of its transactions.                                                    *)
(***************************************************************************)
EXTENDS ShardStore, TLAPS

(* Every transaction writes values of the columns' types. *)
LEMMA StoreTypeStep ==
    StoreTypeOK /\ [StoreNext]_storeVars => StoreTypeOK'
<1> SUFFICES ASSUME StoreTypeOK, [StoreNext]_storeVars
             PROVE  StoreTypeOK'
    OBVIOUS
<1> USE VersionModulusAssumption, NoBucketAssumption DEF StoreTypeOK, State, Role
<1>v. ASSUME bumpTopologyVersion PROVE topology_version' \in 0..(VersionModulus - 1)
    BY <1>v DEF bumpTopologyVersion
<1>0. CASE UNCHANGED storeVars
    BY <1>0 DEF storeVars, clusterVars, shardVars
<1>1. ASSUME NEW c \in Config, Bootstrap(c) PROVE StoreTypeOK'
    BY <1>1 DEF Bootstrap, shardVars
<1>2. ASSUME NEW b \in Bucket, NEW P \in PickStandby, PromoteStandbyToActive(b, P) PROVE StoreTypeOK'
    BY <1>2, <1>v DEF PromoteStandbyToActive
<1>3. ASSUME NEW b \in Bucket, NEW a, NEW P, SealAndPromote(b, a, P), drain_ready' \in [Shard -> BOOLEAN]
      PROVE StoreTypeOK'
    BY <1>3, <1>v DEF SealAndPromote
<1>4. ASSUME NEW b \in Bucket, NEW P \in PickStandby, SealRotate(b, P) PROVE StoreTypeOK'
    BY <1>4, <1>3 DEF SealRotate
<1>5. ASSUME NEW b \in Bucket, NEW P \in PickStandby, CompleteDrainSeal(b, P) PROVE StoreTypeOK'
    BY <1>5, <1>3 DEF CompleteDrainSeal
<1>6. ASSUME NEW b \in Bucket, BeginDrain(b) PROVE StoreTypeOK'
    BY <1>6, <1>v DEF BeginDrain
<1>7. ASSUME NEW b \in Bucket, MarkBucketCleaning(b) PROVE StoreTypeOK'
    BY <1>7, <1>v DEF MarkBucketCleaning
<1>8. ASSUME NEW s \in Shard, NEW r \in Role, NEW startup, RegisterShard(s, r, startup) PROVE StoreTypeOK'
    BY <1>8, <1>v DEF RegisterShard, StartupState
<1>9. ASSUME NEW s \in Shard, NEW reachedMax \in BOOLEAN, UpdateStats(s, reachedMax) PROVE StoreTypeOK'
    BY <1>9 DEF UpdateStats, clusterVars
<1>10. ASSUME NEW s \in Shard, NEW newState, PatchState(s, newState) PROVE StoreTypeOK'
    BY <1>10, <1>v DEF PatchState, CanTransition, dataTransitions
<1>11. ASSUME NEW s \in Shard, FinishCleaning(s) PROVE StoreTypeOK'
    BY <1>11, <1>v DEF FinishCleaning
<1>12. ASSUME NEW s \in Shard, MarkDrainReady(s) PROVE StoreTypeOK'
    BY <1>12 DEF MarkDrainReady, clusterVars
<1>13. ASSUME NEW s \in Shard, HeartbeatExpires(s) PROVE StoreTypeOK'
    BY <1>13 DEF HeartbeatExpires, clusterVars
<1>14. ASSUME NEW s \in Shard, DrainTimeoutExpires(s) PROVE StoreTypeOK'
    BY <1>14 DEF DrainTimeoutExpires, clusterVars
<1> QED
    BY <1>0, <1>1, <1>2, <1>4, <1>5, <1>6, <1>7, <1>8, <1>9, <1>10, <1>11, <1>12, <1>13, <1>14
    DEF StoreNext, BucketStep, ShardStep

(* The unique index, and the row lock a rotation holds on the active row it seals,
   keep at most one active data shard in a bucket. *)
LEMMA OneActiveStep ==
    StoreTypeOK /\ OneActivePerBucket /\ [StoreNext]_storeVars => OneActivePerBucket'
<1> SUFFICES ASSUME StoreTypeOK, OneActivePerBucket, [StoreNext]_storeVars
             PROVE  OneActivePerBucket'
    OBVIOUS
<1> USE NoBucketAssumption DEF StoreTypeOK, State, Role, OneActivePerBucket, InBucket, DataShards
<1>0. CASE UNCHANGED storeVars
    BY <1>0 DEF storeVars, clusterVars, shardVars
<1>1. ASSUME NEW c \in Config, Bootstrap(c) PROVE OneActivePerBucket'
    BY <1>1 DEF Bootstrap, shardVars
<1>2. ASSUME NEW b \in Bucket, NEW P \in PickStandby, PromoteStandbyToActive(b, P) PROVE OneActivePerBucket'
    BY <1>2 DEF PromoteStandbyToActive, PickStandby, StandbyPool, IndexAdmits
<1>3. ASSUME NEW b \in Bucket, NEW P \in PickStandby, SealRotate(b, P) PROVE OneActivePerBucket'
    BY <1>3 DEF SealRotate, SealAndPromote, PickStandby, StandbyPool
<1>4. ASSUME NEW b \in Bucket, NEW P \in PickStandby, CompleteDrainSeal(b, P) PROVE OneActivePerBucket'
    BY <1>4 DEF CompleteDrainSeal, SealAndPromote, PickStandby, StandbyPool, IndexAdmits
<1>5. ASSUME NEW b \in Bucket, BeginDrain(b) PROVE OneActivePerBucket'
    BY <1>5 DEF BeginDrain
<1>6. ASSUME NEW b \in Bucket, MarkBucketCleaning(b) PROVE OneActivePerBucket'
    BY <1>6 DEF MarkBucketCleaning
<1>7. ASSUME NEW s \in Shard, NEW r \in Role, NEW startup, RegisterShard(s, r, startup) PROVE OneActivePerBucket'
    BY <1>7 DEF RegisterShard, StartupState, Registered
<1>8. ASSUME NEW s \in Shard, NEW reachedMax \in BOOLEAN, UpdateStats(s, reachedMax) PROVE OneActivePerBucket'
    BY <1>8 DEF UpdateStats, clusterVars
<1>9. ASSUME NEW s \in Shard, NEW newState \in PatchTargets, PatchState(s, newState) PROVE OneActivePerBucket'
    BY <1>9 DEF PatchState, CanTransition, dataTransitions, Registered, IndexAdmits
<1>10. ASSUME NEW s \in Shard, FinishCleaning(s) PROVE OneActivePerBucket'
    BY <1>10 DEF FinishCleaning
<1>11. ASSUME NEW s \in Shard, MarkDrainReady(s) PROVE OneActivePerBucket'
    BY <1>11 DEF MarkDrainReady, clusterVars
<1>12. ASSUME NEW s \in Shard, HeartbeatExpires(s) PROVE OneActivePerBucket'
    BY <1>12 DEF HeartbeatExpires, clusterVars
<1>13. ASSUME NEW s \in Shard, DrainTimeoutExpires(s) PROVE OneActivePerBucket'
    BY <1>13 DEF DrainTimeoutExpires, clusterVars
<1> HIDE DEF StoreTypeOK, State, Role, OneActivePerBucket, InBucket, DataShards
<1> QED
    BY <1>0, <1>1, <1>2, <1>3, <1>4, <1>5, <1>6, <1>7, <1>8, <1>9, <1>10, <1>11, <1>12, <1>13
    DEF StoreNext, BucketStep, ShardStep

(* A row that does not exist yet has the columns' defaults, INSERT naming neither
   the bucket nor the drain columns, and the role of StoreInit. *)
DefaultsBeforeInsert ==
    \A s \in Shard : ~Registered(s) =>
        role[s] = "data" /\ bucket_id[s] = NoBucket /\ ~drain_ready[s] /\ drain_started_at[s] = "null"

(* Only rows that exist are updated. *)
LEMMA DefaultsStep ==
    StoreTypeOK /\ DefaultsBeforeInsert /\ [StoreNext]_storeVars => DefaultsBeforeInsert'
<1> SUFFICES ASSUME StoreTypeOK, DefaultsBeforeInsert, [StoreNext]_storeVars
             PROVE  DefaultsBeforeInsert'
    OBVIOUS
<1> USE NoBucketAssumption DEF StoreTypeOK, State, Role, DefaultsBeforeInsert, Registered, InBucket, DataShards
<1>0. CASE UNCHANGED storeVars
    BY <1>0 DEF storeVars, clusterVars, shardVars
<1>1. ASSUME NEW c \in Config, Bootstrap(c) PROVE DefaultsBeforeInsert'
    BY <1>1 DEF Bootstrap, shardVars
<1>2. ASSUME NEW b \in Bucket, NEW P \in PickStandby, PromoteStandbyToActive(b, P) PROVE DefaultsBeforeInsert'
    BY <1>2 DEF PromoteStandbyToActive, PickStandby, StandbyPool
<1>3. ASSUME NEW b \in Bucket, NEW P \in PickStandby, SealRotate(b, P) PROVE DefaultsBeforeInsert'
    BY <1>3 DEF SealRotate, SealAndPromote, PickStandby, StandbyPool
<1>4. ASSUME NEW b \in Bucket, NEW P \in PickStandby, CompleteDrainSeal(b, P) PROVE DefaultsBeforeInsert'
    BY <1>4 DEF CompleteDrainSeal, SealAndPromote, PickStandby, StandbyPool
<1>5. ASSUME NEW b \in Bucket, BeginDrain(b) PROVE DefaultsBeforeInsert'
    BY <1>5 DEF BeginDrain
<1>6. ASSUME NEW b \in Bucket, MarkBucketCleaning(b) PROVE DefaultsBeforeInsert'
    BY <1>6 DEF MarkBucketCleaning
<1>7. ASSUME NEW s \in Shard, NEW r \in Role, NEW startup, RegisterShard(s, r, startup) PROVE DefaultsBeforeInsert'
    BY <1>7 DEF RegisterShard, StartupState, Registered
<1>8. ASSUME NEW s \in Shard, NEW reachedMax \in BOOLEAN, UpdateStats(s, reachedMax) PROVE DefaultsBeforeInsert'
    BY <1>8 DEF UpdateStats, clusterVars
<1>9. ASSUME NEW s \in Shard, NEW newState \in PatchTargets, PatchState(s, newState) PROVE DefaultsBeforeInsert'
    BY <1>9 DEF PatchState, CanTransition, dataTransitions, Registered
<1>10. ASSUME NEW s \in Shard, FinishCleaning(s) PROVE DefaultsBeforeInsert'
    BY <1>10 DEF FinishCleaning
<1>11. ASSUME NEW s \in Shard, MarkDrainReady(s) PROVE DefaultsBeforeInsert'
    BY <1>11 DEF MarkDrainReady, clusterVars
<1>12. ASSUME NEW s \in Shard, HeartbeatExpires(s) PROVE DefaultsBeforeInsert'
    BY <1>12 DEF HeartbeatExpires, clusterVars
<1>13. ASSUME NEW s \in Shard, DrainTimeoutExpires(s) PROVE DefaultsBeforeInsert'
    BY <1>13 DEF DrainTimeoutExpires, clusterVars
<1> HIDE DEF StoreTypeOK, State, Role, DefaultsBeforeInsert, Registered, InBucket, DataShards
<1> QED
    BY <1>0, <1>1, <1>2, <1>3, <1>4, <1>5, <1>6, <1>7, <1>8, <1>9, <1>10, <1>11, <1>12, <1>13
    DEF StoreNext, BucketStep, ShardStep

(* No transaction takes the error shard out of "active" or gives it a bucket. *)
LEMMA ErrorShardStep ==
    StoreTypeOK /\ DefaultsBeforeInsert /\ ErrorShardAlwaysWritable /\ [StoreNext]_storeVars => ErrorShardAlwaysWritable'
<1> SUFFICES ASSUME StoreTypeOK, DefaultsBeforeInsert, ErrorShardAlwaysWritable, [StoreNext]_storeVars
             PROVE  ErrorShardAlwaysWritable'
    OBVIOUS
<1> USE NoBucketAssumption DEF StoreTypeOK, State, Role, DefaultsBeforeInsert, ErrorShardAlwaysWritable, ErrorShards, Registered, InBucket, DataShards
<1>0. CASE UNCHANGED storeVars
    BY <1>0 DEF storeVars, clusterVars, shardVars
<1>1. ASSUME NEW c \in Config, Bootstrap(c) PROVE ErrorShardAlwaysWritable'
    BY <1>1 DEF Bootstrap, shardVars
<1>2. ASSUME NEW b \in Bucket, NEW P \in PickStandby, PromoteStandbyToActive(b, P) PROVE ErrorShardAlwaysWritable'
    BY <1>2 DEF PromoteStandbyToActive, PickStandby, StandbyPool
<1>3. ASSUME NEW b \in Bucket, NEW P \in PickStandby, SealRotate(b, P) PROVE ErrorShardAlwaysWritable'
    BY <1>3 DEF SealRotate, SealAndPromote, PickStandby, StandbyPool
<1>4. ASSUME NEW b \in Bucket, NEW P \in PickStandby, CompleteDrainSeal(b, P) PROVE ErrorShardAlwaysWritable'
    BY <1>4 DEF CompleteDrainSeal, SealAndPromote, PickStandby, StandbyPool
<1>5. ASSUME NEW b \in Bucket, BeginDrain(b) PROVE ErrorShardAlwaysWritable'
    BY <1>5 DEF BeginDrain
<1>6. ASSUME NEW b \in Bucket, MarkBucketCleaning(b) PROVE ErrorShardAlwaysWritable'
    BY <1>6 DEF MarkBucketCleaning
<1>7. ASSUME NEW s \in Shard, NEW r \in Role, NEW startup, RegisterShard(s, r, startup) PROVE ErrorShardAlwaysWritable'
    BY <1>7 DEF RegisterShard, StartupState, Registered
<1>8. ASSUME NEW s \in Shard, NEW reachedMax \in BOOLEAN, UpdateStats(s, reachedMax) PROVE ErrorShardAlwaysWritable'
    BY <1>8 DEF UpdateStats, clusterVars
<1>9. ASSUME NEW s \in Shard, NEW newState \in PatchTargets, PatchState(s, newState) PROVE ErrorShardAlwaysWritable'
    BY <1>9 DEF PatchState, CanTransition, dataTransitions, Registered
<1>10. ASSUME NEW s \in Shard, FinishCleaning(s) PROVE ErrorShardAlwaysWritable'
    BY <1>10 DEF FinishCleaning
<1>11. ASSUME NEW s \in Shard, MarkDrainReady(s) PROVE ErrorShardAlwaysWritable'
    BY <1>11 DEF MarkDrainReady, clusterVars
<1>12. ASSUME NEW s \in Shard, HeartbeatExpires(s) PROVE ErrorShardAlwaysWritable'
    BY <1>12 DEF HeartbeatExpires, clusterVars
<1>13. ASSUME NEW s \in Shard, DrainTimeoutExpires(s) PROVE ErrorShardAlwaysWritable'
    BY <1>13 DEF DrainTimeoutExpires, clusterVars
<1> HIDE DEF StoreTypeOK, State, Role, DefaultsBeforeInsert, ErrorShardAlwaysWritable, ErrorShards, Registered, InBucket, DataShards
<1> QED
    BY <1>0, <1>1, <1>2, <1>3, <1>4, <1>5, <1>6, <1>7, <1>8, <1>9, <1>10, <1>11, <1>12, <1>13
    DEF StoreNext, BucketStep, ShardStep

(* Where operators patch no shard to standby or active, bucket and state agree. *)
LEMMA BucketMatchesStep ==
    PatchTargets \cap {"standby", "active"} = {} /\ StoreTypeOK /\ DefaultsBeforeInsert /\ BucketMatchesState /\ [StoreNext]_storeVars => BucketMatchesState'
<1> SUFFICES ASSUME PatchTargets \cap {"standby", "active"} = {}, StoreTypeOK, DefaultsBeforeInsert, BucketMatchesState, [StoreNext]_storeVars
             PROVE  BucketMatchesState'
    OBVIOUS
<1> USE NoBucketAssumption DEF StoreTypeOK, State, Role, DefaultsBeforeInsert, BucketMatchesState, Registered, InBucket, DataShards
<1>0. CASE UNCHANGED storeVars
    BY <1>0 DEF storeVars, clusterVars, shardVars
<1>1. ASSUME NEW c \in Config, Bootstrap(c) PROVE BucketMatchesState'
    BY <1>1 DEF Bootstrap, shardVars
<1>2. ASSUME NEW b \in Bucket, NEW P \in PickStandby, PromoteStandbyToActive(b, P) PROVE BucketMatchesState'
    BY <1>2 DEF PromoteStandbyToActive, PickStandby, StandbyPool
<1>3. ASSUME NEW b \in Bucket, NEW P \in PickStandby, SealRotate(b, P) PROVE BucketMatchesState'
    BY <1>3 DEF SealRotate, SealAndPromote, PickStandby, StandbyPool
<1>4. ASSUME NEW b \in Bucket, NEW P \in PickStandby, CompleteDrainSeal(b, P) PROVE BucketMatchesState'
    BY <1>4 DEF CompleteDrainSeal, SealAndPromote, PickStandby, StandbyPool
<1>5. ASSUME NEW b \in Bucket, BeginDrain(b) PROVE BucketMatchesState'
    BY <1>5 DEF BeginDrain
<1>6. ASSUME NEW b \in Bucket, MarkBucketCleaning(b) PROVE BucketMatchesState'
    BY <1>6 DEF MarkBucketCleaning
<1>7. ASSUME NEW s \in Shard, NEW r \in Role, NEW startup, RegisterShard(s, r, startup) PROVE BucketMatchesState'
    BY <1>7 DEF RegisterShard, StartupState, Registered
<1>8. ASSUME NEW s \in Shard, NEW reachedMax \in BOOLEAN, UpdateStats(s, reachedMax) PROVE BucketMatchesState'
    BY <1>8 DEF UpdateStats, clusterVars
<1>9. ASSUME NEW s \in Shard, NEW newState \in PatchTargets, PatchState(s, newState) PROVE BucketMatchesState'
    BY <1>9 DEF PatchState, CanTransition, dataTransitions, Registered
<1>10. ASSUME NEW s \in Shard, FinishCleaning(s) PROVE BucketMatchesState'
    BY <1>10 DEF FinishCleaning
<1>11. ASSUME NEW s \in Shard, MarkDrainReady(s) PROVE BucketMatchesState'
    BY <1>11 DEF MarkDrainReady, clusterVars
<1>12. ASSUME NEW s \in Shard, HeartbeatExpires(s) PROVE BucketMatchesState'
    BY <1>12 DEF HeartbeatExpires, clusterVars
<1>13. ASSUME NEW s \in Shard, DrainTimeoutExpires(s) PROVE BucketMatchesState'
    BY <1>13 DEF DrainTimeoutExpires, clusterVars
<1> HIDE DEF StoreTypeOK, State, Role, DefaultsBeforeInsert, BucketMatchesState, Registered, InBucket, DataShards
<1> QED
    BY <1>0, <1>1, <1>2, <1>3, <1>4, <1>5, <1>6, <1>7, <1>8, <1>9, <1>10, <1>11, <1>12, <1>13
    DEF StoreNext, BucketStep, ShardStep

(* Where operators patch no shard to standby or active, the pool is clean. *)
LEMMA NoLeftoverStep ==
    PatchTargets \cap {"standby", "active"} = {} /\ StoreTypeOK /\ DefaultsBeforeInsert /\ NoLeftoverDrain /\ [StoreNext]_storeVars => NoLeftoverDrain'
<1> SUFFICES ASSUME PatchTargets \cap {"standby", "active"} = {}, StoreTypeOK, DefaultsBeforeInsert, NoLeftoverDrain, [StoreNext]_storeVars
             PROVE  NoLeftoverDrain'
    OBVIOUS
<1> USE NoBucketAssumption DEF StoreTypeOK, State, Role, DefaultsBeforeInsert, NoLeftoverDrain, Registered, InBucket, DataShards
<1>0. CASE UNCHANGED storeVars
    BY <1>0 DEF storeVars, clusterVars, shardVars
<1>1. ASSUME NEW c \in Config, Bootstrap(c) PROVE NoLeftoverDrain'
    BY <1>1 DEF Bootstrap, shardVars
<1>2. ASSUME NEW b \in Bucket, NEW P \in PickStandby, PromoteStandbyToActive(b, P) PROVE NoLeftoverDrain'
    BY <1>2 DEF PromoteStandbyToActive, PickStandby, StandbyPool
<1>3. ASSUME NEW b \in Bucket, NEW P \in PickStandby, SealRotate(b, P) PROVE NoLeftoverDrain'
    BY <1>3 DEF SealRotate, SealAndPromote, PickStandby, StandbyPool
<1>4. ASSUME NEW b \in Bucket, NEW P \in PickStandby, CompleteDrainSeal(b, P) PROVE NoLeftoverDrain'
    BY <1>4 DEF CompleteDrainSeal, SealAndPromote, PickStandby, StandbyPool
<1>5. ASSUME NEW b \in Bucket, BeginDrain(b) PROVE NoLeftoverDrain'
    BY <1>5 DEF BeginDrain
<1>6. ASSUME NEW b \in Bucket, MarkBucketCleaning(b) PROVE NoLeftoverDrain'
    BY <1>6 DEF MarkBucketCleaning
<1>7. ASSUME NEW s \in Shard, NEW r \in Role, NEW startup, RegisterShard(s, r, startup) PROVE NoLeftoverDrain'
    BY <1>7 DEF RegisterShard, StartupState, Registered
<1>8. ASSUME NEW s \in Shard, NEW reachedMax \in BOOLEAN, UpdateStats(s, reachedMax) PROVE NoLeftoverDrain'
    BY <1>8 DEF UpdateStats, clusterVars
<1>9. ASSUME NEW s \in Shard, NEW newState \in PatchTargets, PatchState(s, newState) PROVE NoLeftoverDrain'
    BY <1>9 DEF PatchState, CanTransition, dataTransitions, Registered
<1>10. ASSUME NEW s \in Shard, FinishCleaning(s) PROVE NoLeftoverDrain'
    BY <1>10 DEF FinishCleaning
<1>11. ASSUME NEW s \in Shard, MarkDrainReady(s) PROVE NoLeftoverDrain'
    BY <1>11 DEF MarkDrainReady, clusterVars
<1>12. ASSUME NEW s \in Shard, HeartbeatExpires(s) PROVE NoLeftoverDrain'
    BY <1>12 DEF HeartbeatExpires, clusterVars
<1>13. ASSUME NEW s \in Shard, DrainTimeoutExpires(s) PROVE NoLeftoverDrain'
    BY <1>13 DEF DrainTimeoutExpires, clusterVars
<1> HIDE DEF StoreTypeOK, State, Role, DefaultsBeforeInsert, NoLeftoverDrain, Registered, InBucket, DataShards
<1> QED
    BY <1>0, <1>1, <1>2, <1>3, <1>4, <1>5, <1>6, <1>7, <1>8, <1>9, <1>10, <1>11, <1>12, <1>13
    DEF StoreNext, BucketStep, ShardStep

(* Every transaction moves rows along dataTransitions. *)
LEMMA LifecycleStepLemma ==
    StoreTypeOK /\ ErrorShardAlwaysWritable /\ [StoreNext]_storeVars => LifecycleStep
<1> SUFFICES ASSUME StoreTypeOK, ErrorShardAlwaysWritable, [StoreNext]_storeVars
             PROVE  LifecycleStep
    OBVIOUS
<1> USE NoBucketAssumption DEF StoreTypeOK, State, Role, ErrorShardAlwaysWritable, ErrorShards, LifecycleStep, Registered, CanTransition, dataTransitions, StartupState, InBucket, DataShards
<1>0. CASE UNCHANGED storeVars
    BY <1>0 DEF storeVars, clusterVars, shardVars
<1>1. ASSUME NEW c \in Config, Bootstrap(c) PROVE LifecycleStep
    BY <1>1 DEF Bootstrap, shardVars
<1>2. ASSUME NEW b \in Bucket, NEW P \in PickStandby, PromoteStandbyToActive(b, P) PROVE LifecycleStep
    BY <1>2 DEF PromoteStandbyToActive, PickStandby, StandbyPool
<1>3. ASSUME NEW b \in Bucket, NEW P \in PickStandby, SealRotate(b, P) PROVE LifecycleStep
    BY <1>3 DEF SealRotate, SealAndPromote, PickStandby, StandbyPool
<1>4. ASSUME NEW b \in Bucket, NEW P \in PickStandby, CompleteDrainSeal(b, P) PROVE LifecycleStep
    BY <1>4 DEF CompleteDrainSeal, SealAndPromote, PickStandby, StandbyPool
<1>5. ASSUME NEW b \in Bucket, BeginDrain(b) PROVE LifecycleStep
    BY <1>5 DEF BeginDrain
<1>6. ASSUME NEW b \in Bucket, MarkBucketCleaning(b) PROVE LifecycleStep
    BY <1>6 DEF MarkBucketCleaning
<1>7. ASSUME NEW s \in Shard, NEW r \in Role, NEW startup, RegisterShard(s, r, startup) PROVE LifecycleStep
    BY <1>7 DEF RegisterShard, StartupState, Registered
<1>8. ASSUME NEW s \in Shard, NEW reachedMax \in BOOLEAN, UpdateStats(s, reachedMax) PROVE LifecycleStep
    BY <1>8 DEF UpdateStats, clusterVars
<1>9. ASSUME NEW s \in Shard, NEW newState \in PatchTargets, PatchState(s, newState) PROVE LifecycleStep
    BY <1>9 DEF PatchState, CanTransition, dataTransitions, Registered
<1>10. ASSUME NEW s \in Shard, FinishCleaning(s) PROVE LifecycleStep
    BY <1>10 DEF FinishCleaning
<1>11. ASSUME NEW s \in Shard, MarkDrainReady(s) PROVE LifecycleStep
    BY <1>11 DEF MarkDrainReady, clusterVars
<1>12. ASSUME NEW s \in Shard, HeartbeatExpires(s) PROVE LifecycleStep
    BY <1>12 DEF HeartbeatExpires, clusterVars
<1>13. ASSUME NEW s \in Shard, DrainTimeoutExpires(s) PROVE LifecycleStep
    BY <1>13 DEF DrainTimeoutExpires, clusterVars
<1> HIDE DEF StoreTypeOK, State, Role, ErrorShardAlwaysWritable, ErrorShards, LifecycleStep, Registered, CanTransition, dataTransitions, StartupState, InBucket, DataShards
<1> QED
    BY <1>0, <1>1, <1>2, <1>3, <1>4, <1>5, <1>6, <1>7, <1>8, <1>9, <1>10, <1>11, <1>12, <1>13
    DEF StoreNext, BucketStep, ShardStep

(* A bucket is given only with a promotion and given up only by a cleaned shard. *)
LEMMA NoRebalanceLemma ==
    StoreTypeOK /\ [StoreNext]_storeVars => NoRebalanceStep
<1> SUFFICES ASSUME StoreTypeOK, [StoreNext]_storeVars
             PROVE  NoRebalanceStep
    OBVIOUS
<1> USE NoBucketAssumption DEF StoreTypeOK, State, Role, NoRebalanceStep, InBucket, DataShards
<1>0. CASE UNCHANGED storeVars
    BY <1>0 DEF storeVars, clusterVars, shardVars
<1>1. ASSUME NEW c \in Config, Bootstrap(c) PROVE NoRebalanceStep
    BY <1>1 DEF Bootstrap, shardVars
<1>2. ASSUME NEW b \in Bucket, NEW P \in PickStandby, PromoteStandbyToActive(b, P) PROVE NoRebalanceStep
    BY <1>2 DEF PromoteStandbyToActive, PickStandby, StandbyPool
<1>3. ASSUME NEW b \in Bucket, NEW P \in PickStandby, SealRotate(b, P) PROVE NoRebalanceStep
    BY <1>3 DEF SealRotate, SealAndPromote, PickStandby, StandbyPool
<1>4. ASSUME NEW b \in Bucket, NEW P \in PickStandby, CompleteDrainSeal(b, P) PROVE NoRebalanceStep
    BY <1>4 DEF CompleteDrainSeal, SealAndPromote, PickStandby, StandbyPool
<1>5. ASSUME NEW b \in Bucket, BeginDrain(b) PROVE NoRebalanceStep
    BY <1>5 DEF BeginDrain
<1>6. ASSUME NEW b \in Bucket, MarkBucketCleaning(b) PROVE NoRebalanceStep
    BY <1>6 DEF MarkBucketCleaning
<1>7. ASSUME NEW s \in Shard, NEW r \in Role, NEW startup, RegisterShard(s, r, startup) PROVE NoRebalanceStep
    BY <1>7 DEF RegisterShard, StartupState, Registered
<1>8. ASSUME NEW s \in Shard, NEW reachedMax \in BOOLEAN, UpdateStats(s, reachedMax) PROVE NoRebalanceStep
    BY <1>8 DEF UpdateStats, clusterVars
<1>9. ASSUME NEW s \in Shard, NEW newState \in PatchTargets, PatchState(s, newState) PROVE NoRebalanceStep
    BY <1>9 DEF PatchState, CanTransition, dataTransitions, Registered
<1>10. ASSUME NEW s \in Shard, FinishCleaning(s) PROVE NoRebalanceStep
    BY <1>10 DEF FinishCleaning
<1>11. ASSUME NEW s \in Shard, MarkDrainReady(s) PROVE NoRebalanceStep
    BY <1>11 DEF MarkDrainReady, clusterVars
<1>12. ASSUME NEW s \in Shard, HeartbeatExpires(s) PROVE NoRebalanceStep
    BY <1>12 DEF HeartbeatExpires, clusterVars
<1>13. ASSUME NEW s \in Shard, DrainTimeoutExpires(s) PROVE NoRebalanceStep
    BY <1>13 DEF DrainTimeoutExpires, clusterVars
<1> HIDE DEF StoreTypeOK, State, Role, NoRebalanceStep, InBucket, DataShards
<1> QED
    BY <1>0, <1>1, <1>2, <1>3, <1>4, <1>5, <1>6, <1>7, <1>8, <1>9, <1>10, <1>11, <1>12, <1>13
    DEF StoreNext, BucketStep, ShardStep

(* Every transaction that changes what clients route by bumps the version. *)
LEMMA RoutingVersionedLemma ==
    StoreTypeOK /\ [StoreNext]_storeVars => RoutingVersionedStep
<1> SUFFICES ASSUME StoreTypeOK, [StoreNext]_storeVars
             PROVE  RoutingVersionedStep
    OBVIOUS
<1> USE NoBucketAssumption DEF StoreTypeOK, State, Role, RoutingVersionedStep, bumpTopologyVersion, InBucket, DataShards
<1>0. CASE UNCHANGED storeVars
    BY <1>0 DEF storeVars, clusterVars, shardVars
<1>1. ASSUME NEW c \in Config, Bootstrap(c) PROVE RoutingVersionedStep
    BY <1>1 DEF Bootstrap, shardVars
<1>2. ASSUME NEW b \in Bucket, NEW P \in PickStandby, PromoteStandbyToActive(b, P) PROVE RoutingVersionedStep
    BY <1>2 DEF PromoteStandbyToActive, PickStandby, StandbyPool
<1>3. ASSUME NEW b \in Bucket, NEW P \in PickStandby, SealRotate(b, P) PROVE RoutingVersionedStep
    BY <1>3 DEF SealRotate, SealAndPromote, PickStandby, StandbyPool
<1>4. ASSUME NEW b \in Bucket, NEW P \in PickStandby, CompleteDrainSeal(b, P) PROVE RoutingVersionedStep
    BY <1>4 DEF CompleteDrainSeal, SealAndPromote, PickStandby, StandbyPool
<1>5. ASSUME NEW b \in Bucket, BeginDrain(b) PROVE RoutingVersionedStep
    BY <1>5 DEF BeginDrain
<1>6. ASSUME NEW b \in Bucket, MarkBucketCleaning(b) PROVE RoutingVersionedStep
    BY <1>6 DEF MarkBucketCleaning
<1>7. ASSUME NEW s \in Shard, NEW r \in Role, NEW startup, RegisterShard(s, r, startup) PROVE RoutingVersionedStep
    BY <1>7 DEF RegisterShard, StartupState, Registered
<1>8. ASSUME NEW s \in Shard, NEW reachedMax \in BOOLEAN, UpdateStats(s, reachedMax) PROVE RoutingVersionedStep
    BY <1>8 DEF UpdateStats, clusterVars
<1>9. ASSUME NEW s \in Shard, NEW newState \in PatchTargets, PatchState(s, newState) PROVE RoutingVersionedStep
    BY <1>9 DEF PatchState, CanTransition, dataTransitions, Registered
<1>10. ASSUME NEW s \in Shard, FinishCleaning(s) PROVE RoutingVersionedStep
    BY <1>10 DEF FinishCleaning
<1>11. ASSUME NEW s \in Shard, MarkDrainReady(s) PROVE RoutingVersionedStep
    BY <1>11 DEF MarkDrainReady, clusterVars
<1>12. ASSUME NEW s \in Shard, HeartbeatExpires(s) PROVE RoutingVersionedStep
    BY <1>12 DEF HeartbeatExpires, clusterVars
<1>13. ASSUME NEW s \in Shard, DrainTimeoutExpires(s) PROVE RoutingVersionedStep
    BY <1>13 DEF DrainTimeoutExpires, clusterVars
<1> HIDE DEF StoreTypeOK, State, Role, RoutingVersionedStep, bumpTopologyVersion, InBucket, DataShards
<1> QED
    BY <1>0, <1>1, <1>2, <1>3, <1>4, <1>5, <1>6, <1>7, <1>8, <1>9, <1>10, <1>11, <1>12, <1>13
    DEF StoreNext, BucketStep, ShardStep
-----------------------------------------------------------------------------
(* The inductive invariant of the metadata database. *)
StoreInv ==
    /\ StoreTypeOK
    /\ OneActivePerBucket
    /\ DefaultsBeforeInsert
    /\ ErrorShardAlwaysWritable

(* The empty tables a migrated database starts with satisfy the invariant. *)
LEMMA StoreInvInit == StoreInit => StoreInv
<1> SUFFICES ASSUME StoreInit PROVE StoreInv
    OBVIOUS
<1> USE DEF StoreInit
<1>1. StoreTypeOK
    BY VersionModulusAssumption DEF StoreTypeOK, State, Role
<1>2. OneActivePerBucket
    BY DEF OneActivePerBucket, InBucket, DataShards
<1>3. DefaultsBeforeInsert
    BY DEF DefaultsBeforeInsert
<1>4. ErrorShardAlwaysWritable
    BY DEF ErrorShardAlwaysWritable, ErrorShards, Registered
<1> QED
    BY <1>1, <1>2, <1>3, <1>4 DEF StoreInv

(* Every transaction, with any arguments, preserves the invariant. *)
LEMMA StoreInvStep == StoreInv /\ [StoreNext]_storeVars => StoreInv'
    BY StoreTypeStep, OneActiveStep, DefaultsStep, ErrorShardStep DEF StoreInv

(* The invariant holds of the metadata database under any callers. *)
THEOREM StoreInvariant == StoreSpec => []StoreInv
    BY StoreInvInit, StoreInvStep, PTL DEF StoreSpec

(* The columns always hold values of their types. *)
THEOREM StoreTyped == StoreSpec => []StoreTypeOK
<1>1. StoreInv => StoreTypeOK
    BY DEF StoreInv
<1> QED
    BY <1>1, StoreInvariant, PTL

(* A bucket never has two active data shards, for any number of shards, buckets
   and callers and with operators patching any state. *)
THEOREM OneActive == StoreSpec => []OneActivePerBucket
<1>1. StoreInv => OneActivePerBucket
    BY DEF StoreInv
<1> QED
    BY <1>1, StoreInvariant, PTL

(* There is never a second error shard, and the one there is stays writable. *)
THEOREM ErrorShardWritable == StoreSpec => []ErrorShardAlwaysWritable
<1>1. StoreInv => ErrorShardAlwaysWritable
    BY DEF StoreInv
<1> QED
    BY <1>1, StoreInvariant, PTL

(* Every state change of every transaction is an edge of the state machine. *)
THEOREM Lifecycle == StoreSpec => LifecycleRespected
<1>1. StoreInv /\ [StoreNext]_storeVars => [LifecycleStep]_storeVars
    BY LifecycleStepLemma DEF StoreInv
<1> QED
    BY <1>1, StoreInvariant, PTL DEF StoreSpec, LifecycleRespected

(* A shard never moves from one bucket to another. *)
THEOREM NeverRebalanced == StoreSpec => NoRebalance
<1>1. StoreInv /\ [StoreNext]_storeVars => [NoRebalanceStep]_storeVars
    BY NoRebalanceLemma DEF StoreInv
<1> QED
    BY <1>1, StoreInvariant, PTL DEF StoreSpec, NoRebalance

(* No routing change is committed without a new topology_version. *)
THEOREM EveryRoutingChangeVersioned == StoreSpec => RoutingVersioned
<1>1. StoreInv /\ [StoreNext]_storeVars => [RoutingVersionedStep]_storeVars
    BY RoutingVersionedLemma DEF StoreInv
<1> QED
    BY <1>1, StoreInvariant, PTL DEF StoreSpec, RoutingVersioned

(* As long as operators patch no shard to standby or active, a data shard owns a
   bucket exactly while it is out of the pool, and a pooled or active shard has
   no trace of an earlier drain. *)
THEOREM PoolConsistent ==
    ASSUME PatchTargets \cap {"standby", "active"} = {}
    PROVE  StoreSpec => [](BucketMatchesState /\ NoLeftoverDrain)
<1> DEFINE Inv == StoreInv /\ BucketMatchesState /\ NoLeftoverDrain
<1>1. StoreInit => Inv
    <2>1. StoreInit => BucketMatchesState /\ NoLeftoverDrain
        BY DEF StoreInit, BucketMatchesState, NoLeftoverDrain, Registered
    <2> QED
        BY <2>1, StoreInvInit
<1>2. Inv /\ [StoreNext]_storeVars => Inv'
    BY StoreInvStep, BucketMatchesStep, NoLeftoverStep DEF StoreInv
<1> QED
    BY <1>1, <1>2, PTL DEF StoreSpec
=============================================================================
