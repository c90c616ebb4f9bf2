-------------------------- MODULE CoordinatorProofs --------------------------
(***************************************************************************)
(* Proofs about the whole coordinator, for any number of concurrent calls, *)
(* supervisors, shards and buckets: it changes the metadata database only  *)
(* by the transactions of ShardStore, so the invariant proved of the store *)
(* is the coordinator's, and retention cleans only what left the window.   *)
(***************************************************************************)
EXTENDS Coordinator, ShardStoreProofs

(* The transactions other than MarkBucketCleaning. *)
NotCleaning ==
    \/ \E b \in Bucket :
        \/ \E P \in PickStandby : PromoteStandbyToActive(b, P)
        \/ \E P \in PickStandby : SealRotate(b, P)
        \/ \E P \in PickStandby : CompleteDrainSeal(b, P)
        \/ BeginDrain(b)
    \/ \E s \in Shard : ShardStep(s)

(* A step of a Resolve call is a read, a rotation or a promotion. *)
LEMMA ResolveStoreStep ==
    ASSUME CoordTypeOK, NEW r \in Resolver, ResolveStep(r)
    PROVE  NotCleaning \/ UNCHANGED storeVars
<1>1. rpc[r].bucket \in Bucket
    BY DEF CoordTypeOK, Call
<1>2. CASE FailoverRotate(r)
    BY <1>1, <1>2 DEF FailoverRotate, NotCleaning
<1>3. CASE AutoPromote(r)
    BY <1>1, <1>3 DEF AutoPromote, NotCleaning
<1> QED
    BY <1>2, <1>3 DEF ResolveStep, ResolveStart, ResolveReadList, EnsureActiveRead,
        FailoverLost, AutoPromoteExhausted, ResolveFails

(* A step of the health supervisor is a listing, a rotation or a skip. *)
LEMMA HealthStoreStep ==
    ASSUME NEW h \in Health, HealthStep(h)
    PROVE  NotCleaning \/ UNCHANGED storeVars
<1>1. ASSUME NEW x \in Shard \X Bucket, HealthRotate(h, x) PROVE NotCleaning
    <2>1. x[2] \in Bucket
        OBVIOUS
    <2> QED
        BY <1>1, <2>1 DEF HealthRotate, NotCleaning
<1> QED
    BY <1>1 DEF HealthStep, HealthList, HealthSkip

(* A step of the seal supervisor is a listing, a skip, the start or the end of a
   drain. *)
LEMMA SealStoreStep ==
    ASSUME NEW w \in Sealer, SealStep(w)
    PROVE  NotCleaning \/ UNCHANGED storeVars
<1>1. ASSUME NEW x \in Shard \X Bucket, NEW P \in PickStandby, SealComplete(w, x, P) PROVE NotCleaning
    <2>1. x[2] \in Bucket
        OBVIOUS
    <2> QED
        BY <1>1, <2>1 DEF SealComplete, NotCleaning
<1>2. ASSUME NEW x \in Shard \X Bucket, SealBegin(w, x) PROVE NotCleaning
    <2>1. x[2] \in Bucket
        OBVIOUS
    <2> QED
        BY <1>2, <2>1 DEF SealBegin, NotCleaning
<1> QED
    BY <1>1, <1>2 DEF SealStep, SealListDraining, SealListNeed, SealSkip

(* An operator's or an agent's call, and the passage of time, are one transaction. *)
LEMMA CallStoreStep ==
    ASSUME AdminCall \/ \E s \in Shard : AgentCall(s) \/ TimePasses(s)
    PROVE  NotCleaning
<1>1. CASE AdminCall
    BY <1>1, RotatedBucketsAssumption DEF AdminCall, NotCleaning, ShardStep, State
<1>2. ASSUME NEW s \in Shard, AgentCall(s) PROVE NotCleaning
    BY <1>2 DEF AgentCall, NotCleaning, ShardStep
<1>3. ASSUME NEW s \in Shard, TimePasses(s) PROVE NotCleaning
    BY <1>3 DEF TimePasses, NotCleaning, ShardStep
<1> QED
    BY <1>1, <1>2, <1>3

(* Only a retention tick runs MarkBucketCleaning. *)
LEMMA CoordStoreStep ==
    ASSUME CoordTypeOK, [CoordNext]_vars
    PROVE  (\E w \in Retainer : RetentionMark(w)) \/ NotCleaning \/ UNCHANGED storeVars
<1>1. ASSUME NEW w \in Retainer, RetentionStep(w) PROVE RetentionMark(w) \/ UNCHANGED storeVars
    BY <1>1 DEF RetentionStep, RetentionList, RetentionCheck, RetentionSkip
<1>2. CASE UNCHANGED vars
    BY <1>2 DEF vars
<1> QED
    BY <1>1, <1>2, ResolveStoreStep, HealthStoreStep, SealStoreStep, CallStoreStep DEF CoordNext

(* Every step of the coordinator is a transaction of the store or leaves the
   tables alone. *)
LEMMA CoordImplementsStep == CoordTypeOK /\ [CoordNext]_vars => [StoreNext]_storeVars
<1> SUFFICES ASSUME CoordTypeOK, [CoordNext]_vars PROVE [StoreNext]_storeVars
    OBVIOUS
<1>1. ASSUME NEW w \in Retainer, RetentionMark(w) PROVE StoreNext
    <2>1. evict[w].checked \in Bucket
        BY <1>1 DEF RetentionMark, CoordTypeOK
    <2> QED
        BY <1>1, <2>1 DEF RetentionMark, StoreNext, BucketStep
<1>2. CASE NotCleaning
    BY <1>2 DEF NotCleaning, StoreNext, BucketStep
<1> QED
    BY <1>1, <1>2, CoordStoreStep
-----------------------------------------------------------------------------
(* The variables of the calls and supervisors keep their types. *)

(* A Resolve call keeps its bucket and ends with a known status code. *)
LEMMA ResolveTypeStep ==
    ASSUME CoordTypeOK, NEW r \in Resolver, ResolveStep(r)
    PROVE  rpc' \in [Resolver -> Call] /\ now' = now
<1>a. rpc \in [Resolver -> Call] /\ rpc[r] \in Call
    BY DEF CoordTypeOK
<1>b. ASSUME NEW c \in Call, NEW pc \in Pc PROVE [c EXCEPT !.pc = pc] \in Call
    BY DEF Call
<1>c. ASSUME NEW c \in Call, NEW code \in {"OK", "Unavailable", "Internal"}
      PROVE  [c EXCEPT !.pc = "idle", !.code = code] \in Call
    BY DEF Call, Pc
<1>1. ASSUME NEW pc \in Pc, goto(r, pc) PROVE rpc' \in [Resolver -> Call]
    BY <1>1, <1>a, <1>b DEF goto
<1>2. ASSUME NEW code \in {"OK", "Unavailable", "Internal"}, reply(r, code)
      PROVE  rpc' \in [Resolver -> Call]
    BY <1>2, <1>a, <1>c DEF reply
<1>3. ASSUME replyNotFound(r) PROVE rpc' \in [Resolver -> Call]
    BY <1>3, <1>2 DEF replyNotFound
<1>4. ASSUME NEW op \in ResolveOps, NEW b \in Bucket, ResolveStart(r, op, b)
      PROVE  rpc' \in [Resolver -> Call] /\ now' = now
    BY <1>4, <1>a, ResolveOpsAssumption DEF ResolveStart, Call, Pc
<1>5. CASE EnsureActiveRead(r)
    BY <1>5, <1>1, <1>2, <1>3 DEF Pc, EnsureActiveRead
<1>6. CASE ResolveReadList(r)
    BY <1>6, <1>1, <1>2 DEF ResolveReadList, Pc
<1>7. CASE FailoverRotate(r) \/ FailoverLost(r)
    BY <1>7, <1>1 DEF FailoverRotate, FailoverLost, Pc
<1>8. CASE AutoPromote(r) \/ AutoPromoteExhausted(r) \/ ResolveFails(r)
    BY <1>8, <1>2, <1>3 DEF AutoPromote, AutoPromoteExhausted, ResolveFails
<1> QED
    BY <1>4, <1>5, <1>6, <1>7, <1>8 DEF ResolveStep

(* The health supervisor lists shards with the bucket they were active in. *)
LEMMA HealthTypeStep ==
    ASSUME CoordTypeOK, NEW h \in Health, HealthStep(h)
    PROVE  staleList' \in [Health -> SUBSET (Shard \X Bucket)]
    BY DEF CoordTypeOK, StoreTypeOK, HealthStep, HealthList, HealthRotate, HealthSkip,
        ListStaleActives, DataShards

(* The seal supervisor lists shards with the bucket they drain or fill. *)
LEMMA SealTypeStep ==
    ASSUME CoordTypeOK, NEW w \in Sealer, SealStep(w)
    PROVE  sealTick' \in [Sealer -> [half : {"complete", "begin"}, todo : SUBSET (Shard \X Bucket)]]
<1> USE DEF CoordTypeOK
<1>1. ASSUME NEW S \in SUBSET Shard PROVE Listed(S) \in SUBSET (Shard \X Bucket)
    BY DEF Listed, StoreTypeOK
<1>2. CASE SealListDraining(w)
    BY <1>2, <1>1 DEF SealListDraining, ShardsDraining, DataShards
<1>3. CASE SealListNeed(w)
    BY <1>3, <1>1 DEF SealListNeed, ShardsNeedingSeal, DataShards
<1>4. ASSUME NEW x, done(w, x) PROVE sealTick' \in [Sealer -> [half : {"complete", "begin"}, todo : SUBSET (Shard \X Bucket)]]
    BY <1>4 DEF done
<1> HIDE DEF CoordTypeOK
<1> QED
    BY <1>2, <1>3, <1>4 DEF SealStep, SealComplete, SealBegin, SealSkip

(* A retention tick lists buckets. *)
LEMMA RetentionTypeStep ==
    ASSUME CoordTypeOK, NEW w \in Retainer, RetentionStep(w)
    PROVE  evict' \in [Retainer -> [todo : SUBSET Bucket, checked : Bucket \cup {NoBucket}]] /\ now' = now
<1> USE DEF CoordTypeOK
<1>1. CASE RetentionList(w)
    BY <1>1 DEF RetentionList, BucketsOutsideRetention, DistinctBucketIDs
<1>2. ASSUME NEW b \in Bucket, RetentionCheck(w, b)
      PROVE  evict' \in [Retainer -> [todo : SUBSET Bucket, checked : Bucket \cup {NoBucket}]] /\ now' = now
    BY <1>2 DEF RetentionCheck
<1>3. CASE RetentionMark(w)
    BY <1>3 DEF RetentionMark
<1>4. CASE RetentionSkip(w)
    BY <1>4 DEF RetentionSkip
<1> QED
    BY <1>1, <1>2, <1>3, <1>4 DEF RetentionStep

(* Every step of the coordinator keeps all types. *)
LEMMA CoordTypeStep == CoordTypeOK /\ [CoordNext]_vars => CoordTypeOK'
<1> SUFFICES ASSUME CoordTypeOK, [CoordNext]_vars PROVE CoordTypeOK'
    OBVIOUS
<1>1. StoreTypeOK'
    BY CoordImplementsStep, StoreTypeStep DEF CoordTypeOK
<1>2. CASE UNCHANGED vars
    BY <1>1, <1>2 DEF vars, CoordTypeOK
<1>3. ASSUME NEW r \in Resolver, ResolveStep(r), UNCHANGED <<staleList, sealTick, evict>>
      PROVE  CoordTypeOK'
    BY <1>1, <1>3, ResolveTypeStep DEF CoordTypeOK
<1>4. ASSUME NEW h \in Health, HealthStep(h), UNCHANGED <<now, rpc, sealTick, evict>>
      PROVE  CoordTypeOK'
    BY <1>1, <1>4, HealthTypeStep DEF CoordTypeOK
<1>5. ASSUME NEW w \in Sealer, SealStep(w), UNCHANGED <<now, rpc, staleList, evict>>
      PROVE  CoordTypeOK'
    BY <1>1, <1>5, SealTypeStep DEF CoordTypeOK
<1>6. ASSUME NEW w \in Retainer, RetentionStep(w), UNCHANGED <<rpc, staleList, sealTick>>
      PROVE  CoordTypeOK'
    BY <1>1, <1>6, RetentionTypeStep DEF CoordTypeOK
<1>7. CASE UNCHANGED <<now, procVars>>
    BY <1>1, <1>7 DEF procVars, CoordTypeOK
<1>8. CASE ClockTick /\ UNCHANGED <<storeVars, procVars>>
    BY <1>1, <1>8 DEF ClockTick, procVars, CoordTypeOK
<1> QED
    BY <1>2, <1>3, <1>4, <1>5, <1>6, <1>7, <1>8 DEF CoordNext

(* A bootstrapped cluster with a pool of standbys satisfies the store's invariant. *)
LEMMA CoordInvInit == CoordInit => CoordTypeOK /\ StoreInv
<1> SUFFICES ASSUME CoordInit PROVE CoordTypeOK /\ StoreInv
    OBVIOUS
<1> USE DEF CoordInit
<1>1. StoreTypeOK
    BY VersionModulusAssumption DEF StoreTypeOK, State, Role
<1>2. OneActivePerBucket /\ DefaultsBeforeInsert
    BY DEF OneActivePerBucket, DefaultsBeforeInsert, InBucket, DataShards
<1>3. ErrorShardAlwaysWritable
    BY DEF ErrorShardAlwaysWritable, ErrorShards
<1>4. rpc \in [Resolver -> Call]
    BY DEF ResolveInit
<1> QED
    BY <1>1, <1>2, <1>3, <1>4 DEF StoreInv, CoordTypeOK, HealthInit, SealInit, RetentionInit
-----------------------------------------------------------------------------
(* The coordinator's state is always well typed, for any number of callers. *)
THEOREM CoordTyped == CoordSpec => []CoordTypeOK
    BY CoordInvInit, CoordTypeStep, PTL DEF CoordSpec

(* Resolve calls, supervisors, operators and agents change the tables only by
   transactions of ShardStore. *)
LEMMA CoordTransactions == CoordSpec => [][StoreNext]_storeVars
    BY CoordTyped, CoordImplementsStep, PTL DEF CoordSpec

(* However calls and supervisors interleave, the coordinator keeps the store's
   invariant: one active shard per bucket and an error shard that is writable. *)
THEOREM CoordKeepsStoreInv == CoordSpec => []StoreInv
<1>1. CoordInit => StoreInv
    BY CoordInvInit
<1> QED
    BY <1>1, StoreInvStep, CoordTransactions, PTL DEF CoordSpec

(* While operators do not write states of the pool, the coordinator keeps bucket_id
   and state in step, and gives no shard to a bucket that still carries the marks of
   an earlier drain. *)
THEOREM CoordPoolConsistent ==
    ASSUME PatchTargets \cap {"standby", "active"} = {}
    PROVE  CoordSpec => [](BucketMatchesState /\ NoLeftoverDrain)
<1> DEFINE Inv == BucketMatchesState /\ NoLeftoverDrain
<1>1. CoordInit => Inv
    BY DEF CoordInit, BucketMatchesState, NoLeftoverDrain, Registered
<1>2. StoreInv /\ Inv /\ [StoreNext]_storeVars => Inv'
    BY BucketMatchesStep, NoLeftoverStep DEF StoreInv
<1> QED
    BY <1>1, <1>2, CoordKeepsStoreInv, CoordTransactions, PTL DEF CoordSpec
-----------------------------------------------------------------------------
(* The buckets a retention tick still has in hand are outside the window by the
   present clock: the clock only moves forward. *)
InHand(w) == evict[w].todo \cup ({evict[w].checked} \ {NoBucket})

ListedOutsideWindow ==
    \A w \in Retainer : \A b \in InHand(w) : Axis = "time" /\ b < oldestIdx(now)

(* The lists of retention ticks never go stale in the unsafe direction. *)
LEMMA ListedOutsideStep ==
    CoordTypeOK /\ ListedOutsideWindow /\ [CoordNext]_vars => ListedOutsideWindow'
<1> SUFFICES ASSUME CoordTypeOK, ListedOutsideWindow, [CoordNext]_vars
             PROVE  ListedOutsideWindow'
    OBVIOUS
<1>1. CASE UNCHANGED <<now, evict>>
    BY <1>1 DEF ListedOutsideWindow, InHand, oldestIdx
<1>2. CASE ClockTick /\ UNCHANGED evict
    <2>1. ASSUME NEW w \in Retainer, NEW b \in InHand(w) PROVE Axis = "time" /\ b < oldestIdx(now')
        <3>1. b \in Int /\ now \in Int /\ now' = now + 1 /\ RetentionDepth \in Int
            BY <1>2, TimeBucketAssumption, WindowAssumption DEF ClockTick, CoordTypeOK, InHand
        <3> QED
            BY <3>1, <2>1 DEF ListedOutsideWindow, oldestIdx
    <2> QED
        BY <1>2, <2>1 DEF ListedOutsideWindow, InHand, oldestIdx
<1>3. ASSUME NEW w \in Retainer, RetentionStep(w) PROVE ListedOutsideWindow'
    <2>1. now' = now
        BY <1>3, RetentionTypeStep
    <2>2. ASSUME NEW v \in Retainer, NEW b \in InHand(v)' PROVE Axis = "time" /\ b < oldestIdx(now)
        BY <1>3, <2>2 DEF RetentionStep, RetentionList, RetentionCheck, RetentionMark, RetentionSkip,
            BucketsOutsideRetention, ListedOutsideWindow, InHand, CoordTypeOK
    <2> QED
        BY <2>1, <2>2 DEF ListedOutsideWindow, oldestIdx
<1>4. ASSUME NEW r \in Resolver, ResolveStep(r), UNCHANGED evict PROVE ListedOutsideWindow'
    BY <1>1, <1>4, ResolveTypeStep
<1> QED
    BY <1>1, <1>2, <1>3, <1>4 DEF CoordNext, vars, procVars

(* No other transaction sends a sealed shard to cleaning, unless an operator does. *)
LEMMA OnlyRetentionCleans ==
    ASSUME "cleaning" \notin PatchTargets, StoreTypeOK, NotCleaning
    PROVE  \A s \in Shard : ~(state[s] = "sealed" /\ state'[s] = "cleaning")
<1> USE DEF StoreTypeOK
<1>1. ASSUME NEW b \in Bucket, NEW P \in PickStandby, PromoteStandbyToActive(b, P) \/ SealRotate(b, P) \/ CompleteDrainSeal(b, P)
      PROVE  \A s \in Shard : ~(state[s] = "sealed" /\ state'[s] = "cleaning")
    BY <1>1 DEF PromoteStandbyToActive, SealRotate, CompleteDrainSeal, SealAndPromote
<1>2. ASSUME NEW b \in Bucket, BeginDrain(b)
      PROVE  \A s \in Shard : ~(state[s] = "sealed" /\ state'[s] = "cleaning")
    BY <1>2 DEF BeginDrain
<1>3. ASSUME NEW s \in Shard, ShardStep(s)
      PROVE  \A t \in Shard : ~(state[t] = "sealed" /\ state'[t] = "cleaning")
    BY <1>3 DEF ShardStep, RegisterShard, StartupState, UpdateStats, PatchState, FinishCleaning,
        MarkDrainReady, HeartbeatExpires, DrainTimeoutExpires
<1> HIDE DEF StoreTypeOK
<1> QED
    BY <1>1, <1>2, <1>3 DEF NotCleaning

(* As long as operators patch no shard to cleaning, a shard is cleaned only when
   its bucket accepts no more writes, however long ago retention listed it. *)
THEOREM RetentionSafe ==
    ASSUME "cleaning" \notin PatchTargets
    PROVE  CoordSpec => RetentionKeepsWindow
<1> DEFINE Inv == CoordTypeOK /\ ListedOutsideWindow
<1> DEFINE Step == \A s \in Shard : state[s] = "sealed" /\ state'[s] = "cleaning" =>
                       ClassifyWrite(now, bucket_id[s]) = "bucket_evicted"
<1>1. CoordInit => Inv
    BY CoordInvInit DEF CoordInit, RetentionInit, ListedOutsideWindow, InHand
<1>2. Inv /\ [CoordNext]_vars => Inv'
    BY CoordTypeStep, ListedOutsideStep
<1>3. Inv /\ [CoordNext]_vars => [Step]_vars
    <2> SUFFICES ASSUME Inv, [CoordNext]_vars PROVE Step
        OBVIOUS
    <2>1. ASSUME NEW w \in Retainer, RetentionMark(w) PROVE Step
        <3>1. evict[w].checked \in InHand(w)
            BY <2>1 DEF RetentionMark, InHand
        <3>2. ASSUME NEW s \in Shard, state[s] = "sealed", state'[s] = "cleaning"
              PROVE  bucket_id[s] = evict[w].checked
            BY <2>1, <3>2 DEF RetentionMark, MarkBucketCleaning, InBucket, DataShards
        <3>3. ClassifyWrite(now, evict[w].checked) = "bucket_evicted"
            <4>1. Axis = "time" /\ evict[w].checked < oldestIdx(now)
                BY <3>1 DEF ListedOutsideWindow
            <4>2. evict[w].checked \in Int /\ oldestIdx(now) \in Int /\ now \in Int /\ oldestIdx(now) <= now
                BY <2>1, <4>1, TimeBucketAssumption, WindowAssumption DEF RetentionMark, CoordTypeOK, oldestIdx
            <4> QED
                BY <4>1, <4>2 DEF ClassifyWrite
        <3> QED
            BY <3>2, <3>3
    <2>2. CASE NotCleaning
        BY <2>2, OnlyRetentionCleans DEF CoordTypeOK
    <2>3. CASE UNCHANGED storeVars
        BY <2>3 DEF storeVars, shardVars
    <2> QED
        BY <2>1, <2>2, <2>3, CoordStoreStep
<1> QED
    BY <1>1, <1>2, <1>3, PTL DEF CoordSpec, RetentionKeepsWindow
=============================================================================
