----------------------------- MODULE HolderProofs -----------------------------
(***************************************************************************)
(* How many shards of a bucket may be active or draining at once, for any  *)
(* number of concurrent Resolve calls, supervisors, shards and buckets.    *)
(* AutoPromoteIfNoActive looks for such a shard and promotes in separate   *)
(* statements, so several calls may all have seen none; each of them can   *)
(* add one shard and no more.                                              *)
(***************************************************************************)
EXTENDS CoordinatorProofs, FiniteSetTheorems

(* The calls that have seen no active or draining shard of b and may still promote. *)
Pending(b) == {r \in Resolver : rpc[r].pc \in {"auto_stale", "promote"} /\ rpc[r].bucket = b}

(* Every shard that holds b, and every call that may add one, is counted against a
   call: the bound on the shards alone is not inductive. *)
Counted ==
    \A b \in Bucket :
        /\ IsFiniteSet(Holders(b))
        /\ Cardinality(Holders(b)) + Cardinality(Pending(b)) <= Cardinality(Resolver)

HolderInv == CoordTypeOK /\ StoreInv /\ Counted

(* A set inside a finite one. *)
LEMMA SmallerSet ==
    ASSUME NEW S, NEW T, IsFiniteSet(S), T \subseteq S
    PROVE  /\ IsFiniteSet(T) /\ Cardinality(T) \in Nat /\ Cardinality(S) \in Nat
           /\ Cardinality(T) <= Cardinality(S)
  BY FS_Subset, FS_CardinalityType

(* One element more is counted once. *)
LEMMA OneMore ==
    ASSUME NEW S, NEW x, NEW T, IsFiniteSet(S), T \subseteq S \cup {x}
    PROVE  IsFiniteSet(T) /\ Cardinality(T) \in Nat /\ Cardinality(T) <= Cardinality(S) + 1
<1>1. IsFiniteSet(S \cup {x}) /\ Cardinality(S \cup {x}) <= Cardinality(S) + 1 /\ Cardinality(S) \in Nat
  BY FS_AddElement, FS_CardinalityType
<1> QED
  BY <1>1, SmallerSet

(* Exchanging an element for at most one. *)
LEMMA Exchanged ==
    ASSUME NEW S, NEW a \in S, NEW P, NEW T, IsFiniteSet(S), \A p, q \in P : p = q, T \subseteq (S \ {a}) \cup P
    PROVE  IsFiniteSet(T) /\ Cardinality(T) \in Nat /\ Cardinality(T) <= Cardinality(S)
<1>1. IsFiniteSet(S \ {a}) /\ Cardinality(S \ {a}) = Cardinality(S) - 1 /\ Cardinality(S) \in Nat
  BY FS_RemoveElement, FS_CardinalityType
<1>2. CASE P = {}
  BY <1>1, <1>2, SmallerSet
<1>3. CASE P # {}
  <2>1. PICK p : p \in P
    BY <1>3
  <2>2. T \subseteq (S \ {a}) \cup {p}
    BY <2>1
  <2> QED
    BY <1>1, <2>2, OneMore
<1> QED
  BY <1>2, <1>3

(* The transactions that add no shard to a bucket. *)
Quiet ==
    \/ \E b \in Bucket :
        \/ \E P \in PickStandby : SealRotate(b, P)
        \/ \E P \in PickStandby : CompleteDrainSeal(b, P)
        \/ BeginDrain(b)
        \/ MarkBucketCleaning(b)
    \/ \E s \in Shard : ShardStep(s)

NoMoreHolders ==
    \A b \in Bucket : IsFiniteSet(Holders(b)) =>
        IsFiniteSet(Holders(b)') /\ Cardinality(Holders(b)') <= Cardinality(Holders(b))

(* A rotation, or the end of a drain, replaces a shard of the bucket by at most one. *)
LEMMA ReplaceHolder ==
    ASSUME StoreTypeOK, NEW b \in Bucket, NEW P, NEW a \in Holders(b), SealAndPromote(b, a, P)
    PROVE  NoMoreHolders
<1>0. P \in PickStandby /\ UNCHANGED role
  BY DEF SealAndPromote
<1>1. a \in Shard /\ bucket_id[a] = b /\ P \subseteq StandbyPool /\ \A p, q \in P : p = q
  BY <1>0 DEF Holders, InBucket, DataShards, PickStandby
<1>2. \A s \in Shard : /\ state'[s] = IF s = a THEN "sealed" ELSE IF s \in P THEN "active" ELSE state[s]
                       /\ bucket_id'[s] = IF s \in P THEN b ELSE bucket_id[s]
  BY DEF SealAndPromote
<1>3. ASSUME NEW c \in Bucket PROVE Holders(c)' \subseteq IF c = b THEN (Holders(b) \ {a}) \cup P ELSE Holders(c)
  <2> SUFFICES ASSUME NEW s \in Holders(c)'
               PROVE  s \in IF c = b THEN (Holders(b) \ {a}) \cup P ELSE Holders(c)
    OBVIOUS
  <2>1. s \in Shard /\ state'[s] \in {"active", "draining"} /\ role[s] = "data" /\ bucket_id'[s] = c
    BY <1>0 DEF Holders, InBucket, DataShards
  <2>2. s # a
    BY <1>2, <2>1
  <2>3. CASE s \in P
    BY <1>2, <2>1, <2>3
  <2>4. CASE s \notin P
    <3>1. s \in Holders(c)
      BY <1>2, <2>1, <2>2, <2>4 DEF Holders, InBucket, DataShards
    <3> QED
      BY <2>2, <3>1
  <2> QED
    BY <2>3, <2>4
<1>4. ASSUME NEW c \in Bucket, IsFiniteSet(Holders(c))
      PROVE  IsFiniteSet(Holders(c)') /\ Cardinality(Holders(c)') <= Cardinality(Holders(c))
  <2>1. CASE c = b
    <3>1. Holders(c)' \subseteq (Holders(c) \ {a}) \cup P /\ a \in Holders(c)
      BY <1>3, <2>1
    <3> QED
      BY <1>1, <1>4, <3>1, Exchanged, Zenon
  <2>2. CASE c # b
    <3>1. Holders(c)' \subseteq Holders(c)
      BY <1>3, <2>2
    <3> QED
      BY <1>4, <3>1, SmallerSet, Zenon
  <2> QED
    BY <2>1, <2>2
<1> QED
  BY <1>4, Zenon DEF NoMoreHolders

(* A transaction that gives no shard to a bucket, and makes none active or draining
   that was neither. *)
LEMMA FewerHolders ==
    ASSUME \A b \in Bucket : Holders(b)' \subseteq Holders(b)
    PROVE  NoMoreHolders
  BY SmallerSet, Zenon DEF NoMoreHolders

(* No transaction but PromoteStandbyToActive adds a shard to a bucket, unless an operator
   patches one to active. *)
LEMMA QuietStep ==
    ASSUME "active" \notin PatchTargets, StoreInv, Quiet
    PROVE  NoMoreHolders
<1>0. StoreTypeOK
  BY DEF StoreInv
<1>1. ASSUME NEW b \in Bucket, NEW P, SealRotate(b, P) PROVE NoMoreHolders
  BY <1>0, <1>1, ReplaceHolder DEF SealRotate, Holders
<1>2. ASSUME NEW b \in Bucket, NEW P, CompleteDrainSeal(b, P) PROVE NoMoreHolders
  BY <1>0, <1>2, ReplaceHolder DEF CompleteDrainSeal, Holders
<1>3. ASSUME NEW b \in Bucket, BeginDrain(b) PROVE NoMoreHolders
  <2>1. \A c \in Bucket : Holders(c)' \subseteq Holders(c)
    BY <1>0, <1>3 DEF BeginDrain, Holders, InBucket, DataShards, StoreTypeOK
  <2> QED
    BY <2>1, FewerHolders
<1>4. ASSUME NEW b \in Bucket, MarkBucketCleaning(b) PROVE NoMoreHolders
  <2>1. \A c \in Bucket : Holders(c)' \subseteq Holders(c)
    BY <1>0, <1>4 DEF MarkBucketCleaning, Holders, InBucket, DataShards, StoreTypeOK
  <2> QED
    BY <2>1, FewerHolders
<1>5. ASSUME NEW s \in Shard, ShardStep(s) PROVE NoMoreHolders
  <2> USE DEF Holders, InBucket, DataShards, StoreTypeOK
  <2>1. ASSUME NEW r \in Role, NEW startup, RegisterShard(s, r, startup)
        PROVE  \A c \in Bucket : Holders(c)' \subseteq Holders(c)
    BY <1>0, <2>1 DEF RegisterShard, StartupState, Role
  <2>2. ASSUME NEW newState \in PatchTargets, PatchState(s, newState)
        PROVE  \A c \in Bucket : Holders(c)' \subseteq Holders(c)
    <3>1. newState # "active"
      OBVIOUS
    <3>2. role[s] = "data" /\ newState = "draining" => state[s] = "active"
      BY <2>2 DEF PatchState, CanTransition, dataTransitions
    <3> QED
      BY <1>0, <2>2, <3>1, <3>2 DEF PatchState
  <2>3. ASSUME FinishCleaning(s) PROVE \A c \in Bucket : Holders(c)' \subseteq Holders(c)
    BY <1>0, <2>3 DEF FinishCleaning
  <2>4. ASSUME UNCHANGED <<role, state, bucket_id>>
        PROVE  \A c \in Bucket : Holders(c)' \subseteq Holders(c)
    BY <2>4
  <2> HIDE DEF Holders, InBucket, DataShards, StoreTypeOK
  <2> QED
    BY <1>5, <2>1, <2>2, <2>3, <2>4, FewerHolders
    DEF ShardStep, UpdateStats, MarkDrainReady, HeartbeatExpires, DrainTimeoutExpires
<1> QED
  BY <1>1, <1>2, <1>3, <1>4, <1>5 DEF Quiet

(* A promotion adds at most one shard, to its bucket. *)
LEMMA PromoteStep ==
    ASSUME StoreTypeOK, NEW b \in Bucket, NEW P, PromoteStandbyToActive(b, P)
    PROVE  \E p : \A c \in Bucket : Holders(c)' \subseteq IF c = b THEN Holders(c) \cup {p} ELSE Holders(c)
<1>0. P \in PickStandby /\ UNCHANGED role
  BY DEF PromoteStandbyToActive
<1>1. PICK p : P \subseteq {p}
  BY <1>0 DEF PickStandby
<1>2. \A s \in Shard : /\ state'[s] = IF s \in P THEN "active" ELSE state[s]
                       /\ bucket_id'[s] = IF s \in P THEN b ELSE bucket_id[s]
  BY DEF PromoteStandbyToActive
<1>3. ASSUME NEW c \in Bucket, NEW s \in Holders(c)' PROVE s \in IF c = b THEN Holders(c) \cup {p} ELSE Holders(c)
  <2>1. s \in Shard /\ state'[s] \in {"active", "draining"} /\ role[s] = "data" /\ bucket_id'[s] = c
    BY <1>0, <1>3 DEF Holders, InBucket, DataShards
  <2>2. CASE s \in P
    BY <1>1, <1>2, <2>1, <2>2
  <2>3. CASE s \notin P
    <3>1. s \in Holders(c)
      BY <1>2, <2>1, <2>3 DEF Holders, InBucket, DataShards
    <3> QED
      BY <3>1
  <2> QED
    BY <2>2, <2>3
<1> QED
  BY <1>3

(* Steps of anybody but a Resolve call are quiet. *)
LEMMA OthersAreQuiet ==
    ASSUME CoordTypeOK, [CoordNext]_vars, \A r \in Resolver : ~ResolveStep(r)
    PROVE  UNCHANGED rpc /\ (Quiet \/ UNCHANGED storeVars)
<1>1. ASSUME NEW h \in Health, HealthStep(h) PROVE Quiet \/ UNCHANGED storeVars
  <2>1. ASSUME NEW x \in Shard \X Bucket, HealthRotate(h, x) PROVE Quiet
    <3>1. x[2] \in Bucket
      OBVIOUS
    <3> QED
      BY <2>1, <3>1 DEF HealthRotate, Quiet
  <2> QED
    BY <1>1, <2>1 DEF HealthStep, HealthList, HealthSkip
<1>2. ASSUME NEW w \in Sealer, SealStep(w) PROVE Quiet \/ UNCHANGED storeVars
  <2>1. ASSUME NEW x \in Shard \X Bucket, NEW P \in PickStandby, SealComplete(w, x, P) \/ SealBegin(w, x)
        PROVE  Quiet
    <3>1. x[2] \in Bucket
      OBVIOUS
    <3> QED
      BY <2>1, <3>1 DEF SealComplete, SealBegin, Quiet
  <2>2. \E P : P \in PickStandby
    BY DEF PickStandby
  <2> QED
    BY <1>2, <2>1, <2>2 DEF SealStep, SealListDraining, SealListNeed, SealSkip
<1>3. ASSUME NEW w \in Retainer, RetentionStep(w) PROVE Quiet \/ UNCHANGED storeVars
  <2>1. CASE RetentionMark(w)
    <3>1. evict[w].checked \in Bucket
      BY <2>1 DEF RetentionMark, CoordTypeOK
    <3> QED
      BY <2>1, <3>1 DEF RetentionMark, Quiet
  <2> QED
    BY <1>3, <2>1 DEF RetentionStep, RetentionList, RetentionCheck, RetentionSkip
<1>4. ASSUME AdminCall PROVE Quiet
  BY <1>4, RotatedBucketsAssumption DEF AdminCall, Quiet, ShardStep, State
<1>5. ASSUME NEW s \in Shard, AgentCall(s) \/ TimePasses(s) PROVE Quiet
  BY <1>5 DEF AgentCall, TimePasses, Quiet, ShardStep
<1>6. ASSUME UNCHANGED vars PROVE UNCHANGED storeVars
  BY <1>6 DEF vars
<1>7. UNCHANGED rpc
  BY DEF CoordNext, procVars, vars
<1>8. Quiet \/ UNCHANGED storeVars
  BY <1>1, <1>2, <1>3, <1>4, <1>5, <1>6, Zenon DEF CoordNext
<1> QED
  BY <1>7, <1>8

(* The tables as seen by a Resolve call that does not write. *)
LEMMA SameHolders ==
    ASSUME UNCHANGED storeVars
    PROVE  \A b : Holders(b)' = Holders(b)
  BY DEF Holders, InBucket, DataShards, storeVars, shardVars

(* Counting goes on when no bucket has more shards and no call has become pending. *)
LEMMA CountedKept ==
    ASSUME Counted, IsFiniteSet(Resolver), NoMoreHolders, \A b \in Bucket : Pending(b)' \subseteq Pending(b)
    PROVE  Counted'
<1> SUFFICES ASSUME NEW b \in Bucket
             PROVE  /\ IsFiniteSet(Holders(b)')
                    /\ Cardinality(Holders(b)') + Cardinality(Pending(b)') <= Cardinality(Resolver)
  BY Zenon DEF Counted
<1>1. /\ IsFiniteSet(Holders(b)) /\ IsFiniteSet(Holders(b)') /\ Cardinality(Holders(b)') <= Cardinality(Holders(b))
      /\ Cardinality(Holders(b)) + Cardinality(Pending(b)) <= Cardinality(Resolver)
  BY DEF Counted, NoMoreHolders
<1>2. IsFiniteSet(Pending(b))
  BY SmallerSet DEF Pending
<1>3. Cardinality(Pending(b)') <= Cardinality(Pending(b)) /\ Cardinality(Pending(b)') \in Nat /\ Cardinality(Pending(b)) \in Nat
  BY <1>2, SmallerSet
<1>4. Cardinality(Holders(b)) \in Nat /\ Cardinality(Holders(b)') \in Nat /\ Cardinality(Resolver) \in Nat
  BY <1>1, FS_CardinalityType
<1> QED
  BY <1>1, <1>3, <1>4

(* A step of a Resolve call: it becomes pending only when the bucket has no shard, and
   its promotion ends that. *)
LEMMA ResolveKeepsCount ==
    ASSUME IsFiniteSet(Resolver), "active" \notin PatchTargets, HolderInv, NEW r \in Resolver, ResolveStep(r)
    PROVE  Counted'
<1>0. /\ CoordTypeOK /\ StoreInv /\ StoreTypeOK /\ Counted
      /\ rpc \in [Resolver -> Call] /\ rpc[r] \in Call /\ rpc[r].bucket \in Bucket
  BY DEF HolderInv, CoordTypeOK, Call
<1>g. ASSUME NEW pc, goto(r, pc) PROVE rpc'[r].pc = pc /\ rpc'[r].bucket = rpc[r].bucket
  BY <1>0, <1>g DEF goto, Call
<1>y. ASSUME NEW code, reply(r, code) PROVE rpc'[r].pc = "idle"
  BY <1>0, <1>y DEF reply, Call
<1>n. ASSUME replyNotFound(r) PROVE rpc'[r].pc = "idle"
  BY <1>n, <1>y DEF replyNotFound
<1>o. \A q \in Resolver \ {r} : rpc'[q] = rpc[q]
  BY <1>0 DEF ResolveStep, ResolveStart, ResolveReadList, EnsureActiveRead, FailoverRotate, FailoverLost,
      AutoPromote, AutoPromoteExhausted, ResolveFails, goto, reply, replyNotFound
<1>p. \A b \in Bucket : Pending(b)' \subseteq Pending(b) \cup {r}
  BY <1>o DEF Pending
<1>1. ASSUME rpc'[r].pc \notin {"auto_stale", "promote"} PROVE \A b \in Bucket : Pending(b)' \subseteq Pending(b) \ {r}
  BY <1>1, <1>o DEF Pending
<1>s. ASSUME UNCHANGED storeVars PROVE NoMoreHolders
  <2>1. \A b \in Bucket : Holders(b)' \subseteq Holders(b)
    BY <1>s, SameHolders
  <2> QED
    BY <2>1, FewerHolders
<1>k. ASSUME NoMoreHolders, rpc'[r].pc \notin {"auto_stale", "promote"} PROVE Counted'
  <2>1. \A b \in Bucket : Pending(b)' \subseteq Pending(b)
    BY <1>1, <1>k
  <2> QED
    BY <1>0, <1>k, <2>1, CountedKept
<1>2. CASE FailoverRotate(r)
  <2>1. Quiet
    BY <1>0, <1>2 DEF FailoverRotate, Quiet
  <2>2. rpc'[r].pc = "recheck"
    BY <1>2, <1>g DEF FailoverRotate
  <2> QED
    BY <1>0, <1>k, <2>1, <2>2, QuietStep
<1>3. CASE AutoPromote(r)
  <2> DEFINE a == rpc[r].bucket
  <2>1. r \in Pending(a) /\ \E P : PromoteStandbyToActive(a, P)
    BY <1>3 DEF AutoPromote, Pending
  <2>2. rpc'[r].pc = "idle"
    BY <1>3, <1>y DEF AutoPromote
  <2>3. PICK p : \A c \in Bucket : Holders(c)' \subseteq IF c = a THEN Holders(c) \cup {p} ELSE Holders(c)
    BY <1>0, <2>1, PromoteStep
  <2> SUFFICES ASSUME NEW b \in Bucket
               PROVE  /\ IsFiniteSet(Holders(b)')
                      /\ Cardinality(Holders(b)') + Cardinality(Pending(b)') <= Cardinality(Resolver)
    BY Zenon DEF Counted
  <2>4. /\ IsFiniteSet(Holders(b)) /\ IsFiniteSet(Pending(b)) /\ Pending(b)' \subseteq Pending(b) \ {r}
        /\ Cardinality(Holders(b)) + Cardinality(Pending(b)) <= Cardinality(Resolver)
    BY <1>0, <1>1, <2>2, SmallerSet DEF Counted, Pending
  <2>5. Cardinality(Holders(b)) \in Nat /\ Cardinality(Pending(b)) \in Nat /\ Cardinality(Resolver) \in Nat
    BY <2>4, FS_CardinalityType
  <2>6. CASE b = a
    <3>1. IsFiniteSet(Holders(b)') /\ Cardinality(Holders(b)') \in Nat /\ Cardinality(Holders(b)') <= Cardinality(Holders(b)) + 1
      <4>1. Holders(b)' \subseteq Holders(b) \cup {p}
        BY <2>3, <2>6
      <4> QED
        BY <2>4, <4>1, OneMore
    <3>2. IsFiniteSet(Pending(b) \ {r}) /\ Cardinality(Pending(b) \ {r}) = Cardinality(Pending(b)) - 1
      BY <2>1, <2>4, <2>6, FS_RemoveElement
    <3>3. Cardinality(Pending(b)') \in Nat /\ Cardinality(Pending(b)') <= Cardinality(Pending(b)) - 1
      BY <2>4, <3>2, SmallerSet
    <3> QED
      BY <2>4, <2>5, <3>1, <3>3
  <2>7. CASE b # a
    <3>1. Holders(b)' \subseteq Holders(b) /\ Pending(b)' \subseteq Pending(b)
      BY <2>3, <2>4, <2>7
    <3>2. /\ IsFiniteSet(Holders(b)') /\ Cardinality(Holders(b)') \in Nat /\ Cardinality(Pending(b)') \in Nat
          /\ Cardinality(Holders(b)') <= Cardinality(Holders(b)) /\ Cardinality(Pending(b)') <= Cardinality(Pending(b))
      BY <2>4, <3>1, SmallerSet
    <3> QED
      BY <2>4, <2>5, <3>2
  <2> QED
    BY <2>6, <2>7
<1>4. CASE EnsureActiveRead(r)
  <2>0. UNCHANGED storeVars /\ NoMoreHolders
    BY <1>4, <1>s DEF EnsureActiveRead
  <2>1. CASE rpc[r].pc = "auto_has"
    <3>1. CASE HasActiveInBucket(rpc[r].bucket)
      <4>1. replyNotFound(r)
        BY <1>4, <2>1, <3>1 DEF EnsureActiveRead
      <4> QED
        BY <1>k, <1>n, <2>0, <4>1
    <3>2. CASE ~HasActiveInBucket(rpc[r].bucket)
      <4>1. goto(r, "auto_stale")
        BY <1>4, <2>1, <3>2 DEF EnsureActiveRead
      <4>2. Holders(rpc[r].bucket) = {}
        BY <3>2 DEF HasActiveInBucket, Holders
      <4> SUFFICES ASSUME NEW b \in Bucket
                   PROVE  /\ IsFiniteSet(Holders(b)')
                          /\ Cardinality(Holders(b)') + Cardinality(Pending(b)') <= Cardinality(Resolver)
        BY Zenon DEF Counted
      <4>3. CASE b = rpc[r].bucket
        <5>0. Holders(b) = {}
          BY <4>2, <4>3
        <5>1. Holders(b)' = {} /\ Pending(b)' \subseteq Resolver
          BY <2>0, <5>0, SameHolders DEF Pending
        <5>2. IsFiniteSet({}) /\ Cardinality({}) = 0
          BY FS_EmptySet
        <5>3. Cardinality(Pending(b)') \in Nat /\ Cardinality(Pending(b)') <= Cardinality(Resolver)
          BY <5>1, SmallerSet
        <5> QED
          BY <5>1, <5>2, <5>3
      <4>4. CASE b # rpc[r].bucket
        <5>1. Holders(b)' = Holders(b) /\ Pending(b)' = Pending(b)
          BY <1>g, <1>o, <2>0, <2>1, <4>1, <4>4, SameHolders DEF Pending
        <5> QED
          BY <1>0, <5>1 DEF Counted
      <4> QED
        BY <4>3, <4>4
    <3> QED
      BY <3>1, <3>2
  <2>2. CASE rpc[r].pc = "auto_stale"
    <3>1. replyNotFound(r) \/ goto(r, "promote")
      BY <1>4, <2>2 DEF EnsureActiveRead
    <3>2. CASE replyNotFound(r)
      BY <1>k, <1>n, <2>0, <3>2
    <3>3. CASE goto(r, "promote")
      <4>1. \A b \in Bucket : Pending(b)' \subseteq Pending(b)
        BY <1>g, <1>o, <2>2, <3>3 DEF Pending
      <4> QED
        BY <1>0, <2>0, <4>1, CountedKept
    <3> QED
      BY <3>1, <3>2, <3>3
  <2>3. CASE rpc[r].pc \notin {"auto_has", "auto_stale"}
    <3>1. \/ \E code : reply(r, code)
          \/ replyNotFound(r)
          \/ \E pc \in {"stale", "rotate", "recheck", "auto_active", "final", "auto_has"} : goto(r, pc)
      BY <1>4, <2>3 DEF EnsureActiveRead
    <3>2. rpc'[r].pc \notin {"auto_stale", "promote"}
      BY <3>1, <1>y, <1>n, <1>g
    <3> QED
      BY <1>k, <2>0, <3>2
  <2> QED
    BY <2>1, <2>2, <2>3
<1>5. ASSUME NEW op \in ResolveOps, NEW b \in Bucket, ResolveStart(r, op, b) PROVE Counted'
  <2>1. rpc'[r].pc \in {"idle", "list", "active"} /\ UNCHANGED storeVars
    BY <1>0, <1>5 DEF ResolveStart
  <2> QED
    BY <1>k, <1>s, <2>1
<1>6. CASE ResolveReadList(r) \/ FailoverLost(r) \/ AutoPromoteExhausted(r) \/ ResolveFails(r)
  <2>1. /\ UNCHANGED storeVars
        /\ (\E code : reply(r, code)) \/ replyNotFound(r) \/ goto(r, "active") \/ goto(r, "recheck")
    BY <1>6 DEF ResolveReadList, FailoverLost, AutoPromoteExhausted, ResolveFails
  <2>2. rpc'[r].pc \in {"idle", "active", "recheck"}
    BY <2>1, <1>y, <1>n, <1>g
  <2> QED
    BY <1>k, <1>s, <2>1, <2>2
<1> QED
  BY <1>2, <1>3, <1>4, <1>5, <1>6 DEF ResolveStep

(* Every step keeps the count. *)
LEMMA HolderStep ==
    ASSUME IsFiniteSet(Resolver), "active" \notin PatchTargets, HolderInv, [CoordNext]_vars
    PROVE  HolderInv'
<1>0. CoordTypeOK /\ StoreInv /\ Counted
  BY DEF HolderInv
<1>1. CoordTypeOK' /\ StoreInv'
  BY <1>0, CoordTypeStep, CoordImplementsStep, StoreInvStep
<1>2. ASSUME NEW r \in Resolver, ResolveStep(r) PROVE Counted'
  BY <1>2, ResolveKeepsCount
<1>3. ASSUME \A r \in Resolver : ~ResolveStep(r) PROVE Counted'
  <2>1. UNCHANGED rpc /\ (Quiet \/ UNCHANGED storeVars)
    BY <1>0, <1>3, OthersAreQuiet
  <2>2. CASE Quiet
    <3>1. NoMoreHolders
      BY <1>0, <2>2, QuietStep
    <3>2. \A b \in Bucket : Pending(b)' \subseteq Pending(b)
      BY <2>1 DEF Pending
    <3> QED
      BY <1>0, <3>1, <3>2, CountedKept
  <2>3. CASE UNCHANGED storeVars
    <3>1. \A b \in Bucket : Holders(b)' = Holders(b) /\ Pending(b)' = Pending(b)
      BY <2>1, <2>3, SameHolders DEF Pending
    <3> QED
      BY <1>0, <3>1 DEF Counted
  <2> QED
    BY <2>1, <2>2, <2>3
<1> QED
  BY <1>1, <1>2, <1>3 DEF HolderInv

(* The coordinator starts with nothing written and no call in progress. *)
LEMMA HolderInit ==
    ASSUME IsFiniteSet(Resolver)
    PROVE  CoordInit => HolderInv
<1> SUFFICES ASSUME CoordInit PROVE HolderInv
  OBVIOUS
<1>1. CoordTypeOK /\ StoreInv
  BY CoordInvInit
<1>2. \A b \in Bucket : Holders(b) = {}
  BY NoBucketAssumption DEF CoordInit, Holders, InBucket, DataShards
<1>3. \A b \in Bucket : Pending(b) = {}
  BY DEF CoordInit, ResolveInit, Pending
<1>4. IsFiniteSet({}) /\ Cardinality({}) = 0 /\ Cardinality(Resolver) \in Nat
  BY FS_EmptySet, FS_CardinalityType
<1> QED
  BY <1>1, <1>2, <1>3, <1>4 DEF HolderInv, Counted
-----------------------------------------------------------------------------
(* With any number of concurrent Resolve calls, supervisors and servers, and operators
   who patch no shard to active, a bucket never has more shards active or draining
   than there are calls: what the calls have seen before they promote may be stale,
   but each adds at most one shard and every other transaction replaces what it
   takes. *)
THEOREM HoldersNeverExceedCalls ==
    ASSUME IsFiniteSet(Resolver), "active" \notin PatchTargets
    PROVE  CoordSpec => []HoldersBoundedByCalls
<1>1. CoordInit => HolderInv
  BY HolderInit
<1>2. HolderInv /\ [CoordNext]_vars => HolderInv'
  BY HolderStep
<1>3. HolderInv => HoldersBoundedByCalls
  <2> SUFFICES ASSUME Counted, NEW b \in Bucket PROVE Cardinality(Holders(b)) <= Cardinality(Resolver)
    BY Zenon DEF HolderInv, HoldersBoundedByCalls
  <2>1. /\ IsFiniteSet(Holders(b))
        /\ Cardinality(Holders(b)) + Cardinality(Pending(b)) <= Cardinality(Resolver)
    BY DEF Counted
  <2>2. Cardinality(Holders(b)) \in Nat /\ Cardinality(Resolver) \in Nat
    BY <2>1, FS_CardinalityType
  <2>3. Cardinality(Pending(b)) \in Nat
    BY SmallerSet DEF Pending
  <2> QED
    BY <2>1, <2>2, <2>3
<1> QED
  BY <1>1, <1>2, <1>3, PTL DEF CoordSpec
=============================================================================
