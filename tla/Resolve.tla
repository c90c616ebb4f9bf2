------------------------------- MODULE Resolve -------------------------------
(***************************************************************************)
(* internal/resolve: the Resolve.Write and Resolve.Read handlers.  A call  *)
(* is a sequence of separate statements and transactions on the metadata   *)
(* database; pc names the statement the call executes next, so other       *)
(* callers and the supervisors run between any two of them.                *)
(***************************************************************************)
EXTENDS ShardStore, Routing

CONSTANTS
    Resolver,        \* concurrently served Resolve calls
    ResolveOps       \* the calls clients make, out of "write" and "read"

ASSUME ResolveOpsAssumption == ResolveOps \subseteq {"write", "read"}

VARIABLE rpc         \* rpc[r]: the call in progress, or the last reply

Pc == {"idle", "list", "active", "stale", "rotate", "recheck", "auto_active",
       "auto_has", "auto_stale", "promote", "final"}

Call == [op : {"write", "read"}, bucket : Bucket, pc : Pc,
         code : {"", "OK", "Unavailable", "Internal"}]

ResolveInit == rpc \in [Resolver -> {c \in Call : c.op = "write" /\ c.pc = "idle" /\ c.code = ""}]

goto(r, pc) == rpc' = [rpc EXCEPT ![r].pc = pc]

reply(r, code) == rpc' = [rpc EXCEPT ![r].pc = "idle", ![r].code = code]

(* Variant: the store's error is passed on unmapped. *)
replyUnmapped(r) == reply(r, "NotFound")

(* grpcapi Write and Read: store.ErrNotFound becomes Unavailable for a write; a
   read maps every error to Internal. *)
replyNotFound(r) == reply(r, IF rpc[r].op = "write" THEN "Unavailable" ELSE "Internal")
-----------------------------------------------------------------------------
(* GetConfig, the clock and ClassifyWrite/ClassifyRead: a key of bucket b that is
   routed to a bucket goes on to the database; a read of an evicted bucket is
   answered empty; any other key goes to the error shard. *)
ResolveStart(r, op, b) ==
    /\ rpc[r].pc = "idle"
    /\ config # NoConfig
    /\ LET route == ClassifyWrite(now, b)
           call(pc, code) == [op |-> op, bucket |-> b, pc |-> pc, code |-> code]
       IN rpc' = [rpc EXCEPT ![r] =
            IF route = "bucket" THEN call(IF op = "read" THEN "list" ELSE "active", "")
            ELSE IF ErrorShards # {} \/ (op = "read" /\ route = "bucket_evicted") THEN call("idle", "OK")
            ELSE call("idle", IF op = "write" THEN "Unavailable" ELSE "Internal")]
    /\ UNCHANGED <<storeVars, now>>

(* ResolveRead: ShardsForBucketRead, then ensureActive if the bucket is empty. *)
ResolveReadList(r) ==
    /\ rpc[r].pc = "list"
    /\ IF ShardsForBucketRead(rpc[r].bucket) # {} THEN reply(r, "OK") ELSE goto(r, "active")
    /\ UNCHANGED <<storeVars, now>>

(* ensureActive and AutoPromoteIfNoActive: their reads, in order. *)
EnsureActiveRead(r) ==
    LET b == rpc[r].bucket IN
    /\ \/ /\ rpc[r].pc = "active"
          /\ IF ActiveForBucket(b) # {} THEN reply(r, "OK") ELSE goto(r, "stale")
       \/ /\ rpc[r].pc = "stale"
          /\ goto(r, IF StaleActiveForBucket(b) # {} THEN "rotate" ELSE "recheck")
       \/ /\ rpc[r].pc = "recheck"
          /\ IF ActiveForBucket(b) # {} THEN reply(r, "OK") ELSE goto(r, "auto_active")
       \/ /\ rpc[r].pc = "auto_active"
          /\ goto(r, IF ActiveForBucket(b) # {} THEN "final" ELSE "auto_has")
       \/ /\ rpc[r].pc = "auto_has"
          /\ IF HasActiveInBucket(b) THEN replyNotFound(r) ELSE goto(r, "auto_stale")
       \/ /\ rpc[r].pc = "auto_stale"
          /\ IF StaleActiveForBucket(b) # {} THEN replyNotFound(r) ELSE goto(r, "promote")
       \/ /\ rpc[r].pc = "final"
          /\ IF ActiveForBucket(b) # {} THEN reply(r, "OK") ELSE replyNotFound(r)
    /\ UNCHANGED <<storeVars, now>>

(* failoverStaleActive: SealRotate by bucket; ErrNotFound and ErrConflict (the
   row it waited for was sealed by somebody else) are swallowed. *)
FailoverRotate(r) ==
    /\ rpc[r].pc = "rotate"
    /\ \E P \in PickStandby : SealRotate(rpc[r].bucket, P)
    /\ goto(r, "recheck")
    /\ UNCHANGED now

FailoverLost(r) ==
    /\ rpc[r].pc = "rotate"
    /\ goto(r, "recheck")
    /\ UNCHANGED <<storeVars, now>>

(* PromoteStandbyToActive commits; reading the promoted row back may still
   fail.  Without an unlocked standby nothing is promoted. *)
AutoPromote(r) ==
    /\ rpc[r].pc = "promote"
    /\ \E P \in PickStandby : PromoteStandbyToActive(rpc[r].bucket, P)
    /\ \E code \in {"OK", "Internal"} : reply(r, code)
    /\ UNCHANGED now

AutoPromoteExhausted(r) ==
    /\ rpc[r].pc = "promote"
    /\ replyNotFound(r)
    /\ UNCHANGED <<storeVars, now>>

(* Any statement may fail (statement timeout, lost connection), and a promotion
   into a bucket that has an active shard violates the unique index. *)
ResolveFails(r) ==
    /\ rpc[r].pc # "idle"
    /\ reply(r, "Internal")
    /\ UNCHANGED <<storeVars, now>>

ResolveStep(r) ==
    \/ \E op \in ResolveOps, b \in Bucket : ResolveStart(r, op, b)
    \/ ResolveReadList(r)
    \/ EnsureActiveRead(r)
    \/ FailoverRotate(r)
    \/ FailoverLost(r)
    \/ AutoPromote(r)
    \/ AutoPromoteExhausted(r)
    \/ ResolveFails(r)
=============================================================================
