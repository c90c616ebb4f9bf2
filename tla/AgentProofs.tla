----------------------------- MODULE AgentProofs ------------------------------
(***************************************************************************)
(* What the agents do to data shards, for any number of shards, buckets    *)
(* and agents: no shard holds another bucket's rows, and drain_ready is    *)
(* true when it says so.  Operators are assumed not to patch a shard to    *)
(* standby or active.                                                      *)
(***************************************************************************)
EXTENDS Agent, ShardStoreProofs

NoPatchToPool == PatchTargets \cap {"standby", "active"} = {}

TickTypeOK == tick \in [Shard -> [at : TickPoint, full : BOOLEAN]]

(* Every step of the agents' specification is one transaction of the store, or none. *)
LEMMA AgentsImplementStore == TickTypeOK /\ [AgentNext]_agentVars => [StoreNext]_storeVars
<1> SUFFICES ASSUME TickTypeOK, [AgentNext]_agentVars
             PROVE  [StoreNext]_storeVars
    OBVIOUS
<1>1. CASE UNCHANGED agentVars
    BY <1>1 DEF agentVars
<1>2. CASE CoordinatorStep
    BY <1>2 DEF CoordinatorStep, StoreNext, ShardStep, State
<1>3. ASSUME NEW s \in Shard, AgentStep(s) PROVE [StoreNext]_storeVars
    <2>1. CASE ReportStats(s)
        <3>1. tick[s].full \in BOOLEAN
            BY DEF TickTypeOK
        <3> QED
            BY <2>1, <3>1 DEF ReportStats, StoreNext, ShardStep
    <2>2. CASE ReportDrainComplete(s)
        BY <2>2 DEF ReportDrainComplete, StoreNext, ShardStep
    <2>3. CASE ReportCleaned(s)
        BY <2>3 DEF ReportCleaned, StoreNext, ShardStep
    <2>4. CASE UNCHANGED storeVars
        BY <2>4
    <2> QED
        BY <1>3, <2>1, <2>2, <2>3, <2>4 DEF AgentStep, MeasureSize, ReportStatsReply, DrainShard, CleanDatabase, ReportIgnored
<1>4. ASSUME NEW s \in Shard, TickFails(s) \/ AppWrite(s) PROVE [StoreNext]_storeVars
    BY <1>4 DEF TickFails, AppWrite
<1> QED
    BY <1>1, <1>2, <1>3, <1>4 DEF AgentNext
-----------------------------------------------------------------------------
(* States from which a shard comes back only through FinishCleaning. *)
Retiring == {"draining", "sealed", "cleaning"}

(* What the coordinator and time can do to s: nothing leaves cleaning, nothing
   enters the pool but a new row, a bucket is given only to a pooled shard, and
   drain_ready does not survive into a new drain. *)
CoordinatorEffect(s) ==
    /\ state[s] \in Retiring => state'[s] \in Retiring
    /\ state[s] = "cleaning" => state'[s] = "cleaning"
    /\ state[s] \in {"sealed", "cleaning"} => state'[s] # "draining"
    /\ state'[s] \in {"absent", "standby"} => state[s] \in {"absent", "standby"}
    /\ bucket_id'[s] # bucket_id[s] => state[s] = "standby"
    /\ drain_ready'[s] => drain_ready[s] /\ (state'[s] = "draining" => state[s] = "draining")

(* Every transaction of the coordinator treats a shard in one of these ways. *)
LEMMA CoordinatorEffects ==
    ASSUME NoPatchToPool, StoreInv, NoLeftoverDrain, CoordinatorStep, NEW s \in Shard
    PROVE  CoordinatorEffect(s)
<1> USE DEF NoPatchToPool, StoreInv, StoreTypeOK, State, Role, Retiring, CoordinatorEffect, Registered, InBucket, DataShards
<1>1. ASSUME NEW c \in Config, Bootstrap(c) PROVE CoordinatorEffect(s)
    BY <1>1 DEF Bootstrap, shardVars
<1>2. ASSUME NEW b \in Bucket, NEW P \in PickStandby, PromoteStandbyToActive(b, P) PROVE CoordinatorEffect(s)
    BY <1>2 DEF PromoteStandbyToActive, PickStandby, StandbyPool
<1>3. ASSUME NEW b \in Bucket, NEW P \in PickStandby, SealRotate(b, P) PROVE CoordinatorEffect(s)
    BY <1>3 DEF SealRotate, SealAndPromote, PickStandby, StandbyPool
<1>4. ASSUME NEW b \in Bucket, NEW P \in PickStandby, CompleteDrainSeal(b, P) PROVE CoordinatorEffect(s)
    BY <1>4 DEF CompleteDrainSeal, SealAndPromote, PickStandby, StandbyPool
<1>5. ASSUME NEW b \in Bucket, BeginDrain(b) PROVE CoordinatorEffect(s)
    BY <1>5 DEF BeginDrain
<1>6. ASSUME NEW b \in Bucket, MarkBucketCleaning(b) PROVE CoordinatorEffect(s)
    BY <1>6 DEF MarkBucketCleaning
<1>7. ASSUME NEW t \in Shard, NEW r \in Role, RegisterShard(t, r, "standby") PROVE CoordinatorEffect(s)
    BY <1>7 DEF RegisterShard, StartupState
<1>8. ASSUME NEW t \in Shard, NEW newState \in PatchTargets, PatchState(t, newState) PROVE CoordinatorEffect(s)
    BY <1>8 DEF PatchState, CanTransition, dataTransitions, NoLeftoverDrain, ErrorShardAlwaysWritable, ErrorShards
<1>9. ASSUME NEW t \in Shard, HeartbeatExpires(t) \/ DrainTimeoutExpires(t) PROVE CoordinatorEffect(s)
    BY <1>9 DEF HeartbeatExpires, DrainTimeoutExpires
<1> HIDE DEF NoPatchToPool, StoreInv, StoreTypeOK, State, Role, Retiring, CoordinatorEffect, Registered, InBucket, DataShards
<1> QED
    BY <1>1, <1>2, <1>3, <1>4, <1>5, <1>6, <1>7, <1>8, <1>9 DEF CoordinatorStep, BucketStep
-----------------------------------------------------------------------------
(* The store below the agents. *)
BelowInv == StoreInv /\ BucketMatchesState /\ NoLeftoverDrain

DataTypeOK ==
    /\ mode \in DrainMode
    /\ TickTypeOK
    /\ rows \in [Shard -> SUBSET Bucket]
    /\ rights \in [Shard -> BOOLEAN]
    /\ drained \in [Shard -> BOOLEAN]

DrainedShard(s) == drained[s] /\ (mode = "revoke" => ~rights[s])

(* What the agent of s knows is still so: the branch it took two statements ago holds,
   because the shard cannot leave cleaning but by this agent's own report. *)
ShardInv(s) ==
    /\ tick[s].at \in {"clean", "clean_report"} => state[s] = "cleaning"
    /\ tick[s].at = "clean_report" => rows[s] = {}
    /\ tick[s].at \in {"drain", "drain_report"} => state[s] \in Retiring
    /\ tick[s].at = "drain_report" => DrainedShard(s)
    /\ drain_ready[s] => DrainedShard(s)
    /\ state[s] \in {"absent", "standby"} => rows[s] = {}
    /\ rows[s] \subseteq {bucket_id[s]}

AgentInv == BelowInv /\ DataTypeOK /\ \A s \in Shard : ShardInv(s)

(* No agent runs and no row is registered at first. *)
LEMMA AgentInvInit == AgentInit => AgentInv
<1> SUFFICES ASSUME AgentInit PROVE AgentInv
    OBVIOUS
<1>1. StoreInv
    BY StoreInvInit DEF AgentInit
<1>2. BucketMatchesState /\ NoLeftoverDrain
    BY DEF AgentInit, StoreInit, BucketMatchesState, NoLeftoverDrain, Registered
<1>3. DataTypeOK
    BY DEF AgentInit, DataTypeOK, TickTypeOK, TickPoint, NoTick
<1>4. \A s \in Shard : ShardInv(s)
    BY DEF AgentInit, StoreInit, NoTick, ShardInv
<1> QED
    BY <1>1, <1>2, <1>3, <1>4 DEF AgentInv, BelowInv

(* The agents' steps keep what the store guarantees. *)
LEMMA BelowStep ==
    NoPatchToPool /\ AgentInv /\ [AgentNext]_agentVars => BelowInv'
BY AgentsImplementStore, StoreInvStep, BucketMatchesStep, NoLeftoverStep
   DEF NoPatchToPool, AgentInv, BelowInv, DataTypeOK, StoreInv

(* A step of the coordinator keeps what each agent knows. *)
LEMMA CoordinatorKeeps ==
    ASSUME NoPatchToPool, AgentInv, CoordinatorStep, NEW s \in Shard
    PROVE  ShardInv(s)'
<1>1. CoordinatorEffect(s)
    BY CoordinatorEffects DEF AgentInv, BelowInv
<1>2. ShardInv(s) /\ DataTypeOK
    BY DEF AgentInv
<1>3. UNCHANGED <<mode, tick, rows, rights>>
    BY DEF CoordinatorStep
<1>4. drained'[s] = (drained[s] /\ ~(state[s] # "draining" /\ state'[s] = "draining"))
    BY DEF CoordinatorStep
<1>5. DrainedShard(s) /\ (state'[s] = "draining" => state[s] = "draining") => DrainedShard(s)'
    BY <1>3, <1>4 DEF DrainedShard
<1>6. tick[s].at = "drain_report" => DrainedShard(s)'
    BY <1>1, <1>2, <1>5 DEF ShardInv, CoordinatorEffect, Retiring
<1>7. drain_ready'[s] => DrainedShard(s)'
    BY <1>1, <1>2, <1>5 DEF ShardInv, CoordinatorEffect
<1>8. bucket_id'[s] # bucket_id[s] => rows[s] = {}
    BY <1>1, <1>2 DEF ShardInv, CoordinatorEffect
<1> QED
    BY <1>1, <1>2, <1>3, <1>6, <1>7, <1>8 DEF ShardInv, CoordinatorEffect

(* So does a step of any agent, or of the application, at its own shard s. *)
LEMMA AgentKeeps ==
    ASSUME AgentInv, NEW s \in Shard, AgentStep(s) \/ TickFails(s) \/ AppWrite(s), NEW t \in Shard
    PROVE  ShardInv(t)'
<1> USE DEF AgentInv, BelowInv, StoreInv, StoreTypeOK, DataTypeOK, TickTypeOK, ShardInv, DrainedShard, goto, tickEnds, NoTick, Retiring
<1>1. CASE MeasureSize(s)
    BY <1>1 DEF MeasureSize, storeVars, shardVars
<1>2. CASE ReportStats(s)
    BY <1>2 DEF ReportStats, UpdateStats
<1>3. CASE ReportStatsReply(s)
    BY <1>3 DEF ReportStatsReply, storeVars, shardVars
<1>4. CASE DrainShard(s)
    BY <1>4 DEF DrainShard, storeVars, shardVars
<1>5. CASE ReportDrainComplete(s)
    BY <1>5 DEF ReportDrainComplete, MarkDrainReady
<1>6. CASE CleanDatabase(s)
    BY <1>6 DEF CleanDatabase, storeVars, shardVars
<1>7. CASE ReportCleaned(s)
    BY <1>7 DEF ReportCleaned, FinishCleaning
<1>8. CASE ReportIgnored(s)
    BY <1>8 DEF ReportIgnored, storeVars, shardVars
<1>9. CASE TickFails(s)
    BY <1>9 DEF TickFails, storeVars, shardVars
<1>10. CASE AppWrite(s)
    BY <1>10 DEF AppWrite, storeVars, shardVars
<1> HIDE DEF AgentInv, BelowInv, StoreInv, StoreTypeOK, DataTypeOK, TickTypeOK, ShardInv, DrainedShard, goto, tickEnds, NoTick, Retiring
<1> QED
    BY <1>1, <1>2, <1>3, <1>4, <1>5, <1>6, <1>7, <1>8, <1>9, <1>10 DEF AgentStep

(* The application writes under a bucket the shard owns, so rows stay well typed. *)
LEMMA DataTypeStep ==
    ASSUME AgentInv, [AgentNext]_agentVars
    PROVE  DataTypeOK'
<1> USE DEF AgentInv, DataTypeOK, TickTypeOK, TickPoint, goto, tickEnds, NoTick
<1>1. CASE UNCHANGED agentVars
    BY <1>1 DEF agentVars, dataVars
<1>2. CASE CoordinatorStep
    BY <1>2 DEF CoordinatorStep
<1>3. ASSUME NEW s \in Shard, AgentStep(s) PROVE DataTypeOK'
    <2>1. CASE MeasureSize(s)
        BY <2>1 DEF MeasureSize
    <2>2. CASE ReportStats(s)
        BY <2>2 DEF ReportStats
    <2>3. CASE ReportStatsReply(s)
        BY <2>3 DEF ReportStatsReply
    <2>4. CASE DrainShard(s)
        BY <2>4 DEF DrainShard
    <2>5. CASE ReportDrainComplete(s)
        BY <2>5 DEF ReportDrainComplete
    <2>6. CASE CleanDatabase(s)
        BY <2>6 DEF CleanDatabase
    <2>7. CASE ReportCleaned(s)
        BY <2>7 DEF ReportCleaned
    <2>8. CASE ReportIgnored(s)
        BY <2>8 DEF ReportIgnored
    <2> QED
        BY <1>3, <2>1, <2>2, <2>3, <2>4, <2>5, <2>6, <2>7, <2>8 DEF AgentStep
<1>4. ASSUME NEW s \in Shard, TickFails(s) PROVE DataTypeOK'
    BY <1>4 DEF TickFails
<1>5. ASSUME NEW s \in Shard, AppWrite(s) PROVE DataTypeOK'
    <2>1. bucket_id[s] \in Bucket
        BY <1>5 DEF AppWrite, BelowInv, StoreInv, StoreTypeOK, BucketMatchesState, Registered
    <2> QED
        BY <1>5, <2>1 DEF AppWrite
<1> HIDE DEF AgentInv, DataTypeOK, TickTypeOK, TickPoint, goto, tickEnds, NoTick
<1> QED
    BY <1>1, <1>2, <1>3, <1>4, <1>5 DEF AgentNext

(* Every step of an agent, a writer or the coordinator keeps the invariant. *)
LEMMA AgentInvStep ==
    NoPatchToPool /\ AgentInv /\ [AgentNext]_agentVars => AgentInv'
<1> SUFFICES ASSUME NoPatchToPool, AgentInv, [AgentNext]_agentVars
             PROVE  AgentInv'
    OBVIOUS
<1>1. BelowInv' /\ DataTypeOK'
    BY BelowStep, DataTypeStep
<1>2. ASSUME NEW t \in Shard PROVE ShardInv(t)'
    <2>1. CASE UNCHANGED agentVars
        BY <2>1 DEF AgentInv, ShardInv, DrainedShard, agentVars, dataVars, storeVars, shardVars
    <2>2. CASE AgentNext
        BY <2>2, CoordinatorKeeps, AgentKeeps DEF AgentNext
    <2> QED
        BY <2>1, <2>2
<1> QED
    BY <1>1, <1>2 DEF AgentInv
-----------------------------------------------------------------------------
(* The invariant holds for any shards, buckets, agents, failures and drain mode. *)
THEOREM AgentInvariant ==
    ASSUME NoPatchToPool
    PROVE  AgentSpec => []AgentInv
<1>1. AgentInv /\ [AgentNext]_agentVars => AgentInv'
    BY AgentInvStep
<1> QED
    BY <1>1, AgentInvInit, PTL DEF AgentSpec

(* What the agents know, the rows and the rights stay well typed; in particular a
   shard that takes writes serves a bucket they can be filed under. *)
THEOREM AgentsTyped ==
    ASSUME NoPatchToPool
    PROVE  AgentSpec => []AgentTypeOK
<1>1. AgentInv => AgentTypeOK
    BY DEF AgentInv, BelowInv, StoreInv, DataTypeOK, TickTypeOK, AgentTypeOK
<1> QED
    BY <1>1, AgentInvariant, PTL

(* A shard holds the rows of its own bucket and a pooled shard none, however often
   CleanDatabase, ReportCleaned or the agent itself fail. *)
THEOREM AgentsKeepOwnRows ==
    ASSUME NoPatchToPool
    PROVE  AgentSpec => []OnlyOwnRows
<1>1. AgentInv => OnlyOwnRows
    BY DEF AgentInv, ShardInv, OnlyOwnRows
<1> QED
    BY <1>1, AgentInvariant, PTL

(* drain_ready is never left over from an earlier drain, and in revoke mode the
   application can no longer write when it is set. *)
THEOREM AgentsDrainReadyIsTrue ==
    ASSUME NoPatchToPool
    PROVE  AgentSpec => []DrainReadyIsTrue
<1>1. AgentInv => DrainReadyIsTrue
    BY DEF AgentInv, ShardInv, DrainedShard, DrainReadyIsTrue
<1> QED
    BY <1>1, AgentInvariant, PTL
=============================================================================
