------------------------------- MODULE StoreTx --------------------------------
(***************************************************************************)
(* The store's transactions statement by statement, as Postgres runs them  *)
(* at READ COMMITTED: row locks that are waited for, FOR UPDATE SKIP       *)
(* LOCKED, waits on a unique index entry of a transaction in progress,     *)
(* rows looked at again once their lock is granted, and the lock on the    *)
(* row of cluster_config that bumpTopologyVersionTx takes last.  The       *)
(* variables of ShardStore are the committed tables; a transaction applies *)
(* its writes to them when it commits.                                     *)
(*                                                                         *)
(* Every transaction has the same plan, of which an operation leaves out   *)
(* what it does not need:                                                  *)
(*   scan     a statement reads the rows it is about, as committed         *)
(*   lock     it locks them one by one, skipping those that have changed,  *)
(*            and updates the ones in tx[t].hit                            *)
(*   pick     a standby is locked, or none is found                        *)
(*   enter    it becomes active, subject to the unique index               *)
(*   bump     cluster_config is locked                                     *)
(*   commit                                                                *)
(* A statement without ORDER BY locks its rows in any order.  The cluster  *)
(* is bootstrapped before the transactions start.                          *)
(***************************************************************************)
EXTENDS ShardStore

CONSTANT Tx    \* connections of the servers' pools

VARIABLE tx    \* per connection: the transaction in progress

txVars == <<storeVars, tx>>

RotateOps == {"SealRotate", "CompleteDrainSeal"}

(* b and s: the arguments; to: the new state of PatchState, or the role of
   RegisterShard; todo: rows still to be locked; held: rows locked; hit: rows
   updated; picked: the standby, locked too. *)
Idle == [op |-> "none", at |-> "idle", b |-> NoBucket, s |-> {}, to |-> "",
         todo |-> {}, held |-> {}, hit |-> {}, picked |-> {}]

Running(t) == tx[t].at # "idle"
becomes(t, x) == tx' = [tx EXCEPT ![t] = x]
goto(t, at) == becomes(t, [tx[t] EXCEPT !.at = at])

RowsOf(t) == tx[t].held \cup tx[t].picked
Locked(t, s) == \E u \in Tx \ {t} : s \in RowsOf(u)

(* Variant: a rotation bumps the version first. *)
HoldsConfigFirst(u) == tx[u].at = "commit" \/ tx[u].op \in RotateOps

(* u has run bumpTopologyVersionTx. *)
HoldsConfig(u) == tx[u].at = "commit"
ConfigLocked(t) == \E u \in Tx \ {t} : HoldsConfig(u)
-----------------------------------------------------------------------------
(* Begin *)

Start(t, x) ==
    /\ ~Running(t) /\ config # NoConfig
    /\ becomes(t, x)
    /\ UNCHANGED storeVars

BeginBucket(t) ==
    \E b \in Bucket, op \in RotateOps \cup {"PromoteStandbyToActive", "BeginDrain", "MarkBucketCleaning"} :
        Start(t, [Idle EXCEPT !.op = op, !.b = b,
                              !.at = IF op = "PromoteStandbyToActive" THEN "pick" ELSE "scan"])

BeginShard(t) ==
    \E s \in Shard :
        \/ \E newState \in PatchTargets :
              Start(t, [Idle EXCEPT !.op = "PatchState", !.at = "scan", !.s = {s}, !.to = newState])
        \/ Start(t, [Idle EXCEPT !.op = "FinishCleaning", !.at = "scan", !.s = {s}])
        \/ Start(t, [Idle EXCEPT !.op = "RegisterShard", !.at = "scan", !.s = {s}, !.to = "data"])
-----------------------------------------------------------------------------
(* Statements *)

(* The rows that the WHERE clause of the operation selects. *)
Matching(x) ==
    CASE x.op \in {"SealRotate", "BeginDrain"} -> InBucket(x.b, "active")
      [] x.op = "CompleteDrainSeal"            -> InBucket(x.b, "draining")
      [] x.op = "MarkBucketCleaning"           -> InBucket(x.b, "sealed")
      [] x.op = "FinishCleaning"               -> {s \in x.s : state[s] = "cleaning"}
      [] x.op = "PatchState"                   -> {s \in x.s : Registered(s)}
      [] x.op = "RegisterShard"                -> x.s

Scan(t) ==
    /\ tx[t].at = "scan"
    /\ becomes(t, [tx[t] EXCEPT !.at = "lock", !.todo = Matching(tx[t])])
    /\ UNCHANGED storeVars

(* The lock is granted, and the row is looked at again. *)
LockRow(t, s) ==
    /\ tx[t].at = "lock" /\ s \in tx[t].todo
    /\ ~Locked(t, s)
    /\ becomes(t, [tx[t] EXCEPT !.todo = @ \ {s}, !.held = @ \cup ({s} \cap Matching(tx[t]))])
    /\ UNCHANGED storeVars

(* All rows are locked: the operation updates them, or the first one that was
   returned.  PatchState validates the transition now that its row is locked, and
   enters the index if the row becomes active. *)
Update(t) ==
    /\ tx[t].at = "lock" /\ tx[t].todo = {} /\ tx[t].held # {}
    /\ tx[t].op = "PatchState" => \A s \in tx[t].held : CanTransition(role[s], state[s], tx[t].to)
    /\ \E hit \in IF tx[t].op \in RotateOps THEN {{s} : s \in tx[t].held} ELSE {tx[t].held} :
          becomes(t, [tx[t] EXCEPT !.hit = hit,
                                   !.at = IF tx[t].op \in RotateOps THEN "pick"
                                          ELSE IF tx[t].to = "active" THEN "enter" ELSE "bump"])
    /\ UNCHANGED storeVars

(* Variant: SELECT without FOR UPDATE. *)
PickUnlocked(t) ==
    /\ tx[t].at = "pick"
    /\ \E s \in StandbyPool : becomes(t, [tx[t] EXCEPT !.picked = {s}, !.at = "enter"])
    /\ UNCHANGED storeVars

(* ORDER BY id LIMIT 1 FOR UPDATE SKIP LOCKED: any standby whose row is not locked
   by another transaction can be the first one. *)
Pick(t) ==
    /\ tx[t].at = "pick"
    /\ \E s \in StandbyPool :
          /\ ~Locked(t, s)
          /\ becomes(t, [tx[t] EXCEPT !.picked = {s}, !.at = "enter"])
    /\ UNCHANGED storeVars

(* No row is left, or those that are have just been locked by heartbeats or changed
   under the statement. *)
PickNone(t) ==
    /\ tx[t].at = "pick" /\ tx[t].op \in RotateOps
    /\ goto(t, "bump")
    /\ UNCHANGED storeVars

(* The row that becomes active, and its bucket. *)
Entering(t) == IF tx[t].op = "PatchState" THEN tx[t].hit ELSE tx[t].picked
EntersBucket(t) == IF tx[t].op = "PatchState" THEN bucket_id[CHOOSE s \in tx[t].hit : TRUE] ELSE tx[t].b

(* u has an index entry for b that is not committed, or has removed one. *)
Entered(u, b) == tx[u].at \in {"bump", "commit"} /\ Entering(u) # {} /\ EntersBucket(u) = b
                 /\ (tx[u].op = "PatchState" => tx[u].to = "active")
Left(u, b) == tx[u].hit \cap InBucket(b, "active") # {}

IndexWait(t) == \E u \in Tx \ {t} : Entered(u, EntersBucket(t)) \/ Left(u, EntersBucket(t))

Enter(t) ==
    /\ tx[t].at = "enter"
    /\ EntersBucket(t) # NoBucket => ~IndexWait(t) /\ InBucket(EntersBucket(t), "active") \subseteq tx[t].hit
    /\ goto(t, "bump")
    /\ UNCHANGED storeVars

Bump(t) ==
    /\ tx[t].at = "bump"
    /\ ~ConfigLocked(t)
    /\ goto(t, "commit")
    /\ UNCHANGED storeVars

(* Nothing found, an illegal transition, a unique violation, a lost connection: the
   transaction is rolled back. *)
Rollback(t) ==
    /\ Running(t)
    /\ becomes(t, Idle)
    /\ UNCHANGED storeVars

NewState(x) ==
    CASE x.op \in RotateOps           -> "sealed"
      [] x.op = "BeginDrain"          -> "draining"
      [] x.op = "MarkBucketCleaning"  -> "cleaning"
      [] x.op = "FinishCleaning"      -> "standby"
      [] x.op = "PatchState"          -> x.to
      [] OTHER                        -> "standby"

Commit(t) ==
    LET x == tx[t]
        hit == IF x.op = "RegisterShard" THEN {s \in x.hit : ~Registered(s)} ELSE x.hit
    IN  /\ x.at = "commit"
        /\ state' = [s \in Shard |-> IF s \in hit THEN NewState(x)
                                     ELSE IF s \in x.picked THEN "active" ELSE state[s]]
        /\ bucket_id' = [s \in Shard |-> IF s \in x.picked THEN x.b
                                         ELSE IF s \in hit /\ x.op = "FinishCleaning" THEN NoBucket
                                         ELSE bucket_id[s]]
        /\ fresh' = [s \in Shard |-> fresh[s] \/ s \in x.picked \/ (s \in x.hit /\ x.op = "RegisterShard")]
        /\ full' = [s \in Shard |-> full[s] /\ ~(s \in hit /\ x.op = "FinishCleaning")]
        /\ drain_started_at' = [s \in Shard |->
               IF s \notin hit THEN drain_started_at[s]
               ELSE CASE x.op = "BeginDrain"     -> "recent"
                      [] x.op = "FinishCleaning" -> "null"
                      [] OTHER                   -> drain_started_at[s]]
        /\ drain_ready' = [s \in Shard |->
               drain_ready[s] /\ ~(s \in hit /\ x.op \in {"BeginDrain", "FinishCleaning", "CompleteDrainSeal"})]
        /\ bumpTopologyVersion
        /\ becomes(t, Idle)
        /\ UNCHANGED <<config, role>>

(* A single statement, committed at once when its row is free.  UpdateStats, the
   other one, writes columns that no transaction here looks at. *)
Autocommit(s) ==
    /\ \A u \in Tx : s \notin RowsOf(u)
    /\ MarkDrainReady(s)
    /\ UNCHANGED tx
-----------------------------------------------------------------------------
TxInit ==
    /\ StoreInit
    /\ tx = [t \in Tx |-> Idle]

Statement(t) ==
    \/ Scan(t) \/ (\E s \in Shard : LockRow(t, s)) \/ Update(t)
    \/ Pick(t) \/ PickNone(t) \/ Enter(t) \/ Bump(t) \/ Commit(t)

TxNext ==
    \/ (\E c \in Config : Bootstrap(c)) /\ UNCHANGED tx
    \/ \E t \in Tx : BeginBucket(t) \/ BeginShard(t) \/ Statement(t) \/ Rollback(t)
    \/ \E s \in Shard : Autocommit(s)

TxSpec == TxInit /\ [][TxNext]_txVars
-----------------------------------------------------------------------------
(* Properties *)

(* t may wait for u: for a row, for the fate of an index entry, for cluster_config. *)
WaitsFor(t, u) ==
    CASE tx[t].at = "lock"  -> tx[t].todo \cap RowsOf(u) # {}
      [] tx[t].at = "enter" -> EntersBucket(t) # NoBucket /\ (Entered(u, EntersBucket(t)) \/ Left(u, EntersBucket(t)))
      [] tx[t].at = "bump"  -> HoldsConfig(u)
      [] OTHER              -> FALSE

(* Everyone in S waits for another one in S, and is waited for. *)
Circle(S) ==
    \A t \in S : /\ \E u \in S \ {t} : WaitsFor(t, u)
                 /\ \E u \in S \ {t} : WaitsFor(u, t)

(* Postgres has to break a circle of waits only among the two statements that lock
   several rows in no particular order, and only before they have changed anything.
   SealRotate, promotions, patches and reports are never part of one: they lock a
   single row, index entries are waited for after rows, and the row of
   cluster_config comes last in every transaction. *)
OnlyRowScansDeadlock ==
    \A S \in SUBSET Tx : Circle(S) =>
        \A t \in S : tx[t].at = "lock" /\ tx[t].op \in {"CompleteDrainSeal", "MarkBucketCleaning"}

(* Whatever the interleaving of statements, a transaction that commits has the
   effect of one atomic transaction of ShardStore: nothing it read was stale.
   (StoreSpec, with the stuttering tested first.) *)
ImplementsStore == StoreInit /\ [][UNCHANGED storeVars \/ StoreNext]_storeVars
=============================================================================
