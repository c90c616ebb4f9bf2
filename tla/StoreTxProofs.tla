---------------------------- MODULE StoreTxProofs -----------------------------
(***************************************************************************)
(* The statements of StoreTx implement the atomic transactions of          *)
(* ShardStore, for any number of connections, shards and buckets.          *)
(*                                                                         *)
(* TxInv says why nothing a transaction has read is stale when it commits: *)
(* the rows it has locked still satisfy its WHERE clause, because another  *)
(* transaction writes only rows that it has locked itself, and once it has *)
(* entered the unique index no other transaction can enter for the bucket. *)
(***************************************************************************)
EXTENDS StoreTx, ShardStoreProofs

PickOps == RotateOps \cup {"PromoteStandbyToActive"}
BucketOps == PickOps \cup {"BeginDrain", "MarkBucketCleaning"}
ShardOps == {"PatchState", "FinishCleaning", "RegisterShard"}

TxRec ==
    [op : BucketOps \cup ShardOps \cup {"none"},
     at : {"idle", "scan", "lock", "pick", "enter", "bump", "commit"},
     b : Bucket \cup {NoBucket}, s : SUBSET Shard, to : PatchTargets \cup {"", "data"},
     todo : SUBSET Shard, held : SUBSET Shard, hit : SUBSET Shard, picked : SUBSET Shard]

(* What the operation and the statement it has reached say of the rows. *)
Arguments(x) ==
    /\ x.at # "idle" => x.op # "none"
    /\ x.op \in BucketOps => x.b \in Bucket
    /\ x.op \in ShardOps => \E s \in Shard : x.s = {s}
    /\ IF x.op = "PatchState" THEN x.to \in PatchTargets ELSE x.to # "active"

Progress(x) ==
    /\ x.at \in {"idle", "scan"} => x.held = {}
    /\ x.at \in {"idle", "scan", "lock"} => x.hit = {} /\ x.picked = {}
    /\ x.at = "pick" => x.op \in PickOps /\ x.picked = {}
    /\ x.at = "enter" => x.op \in PickOps \cup {"PatchState"}
    /\ x.at \in {"pick", "enter", "bump", "commit"} /\ x.op # "PromoteStandbyToActive" => x.hit # {}
    /\ x.at \in {"enter", "bump", "commit"} /\ x.op = "PromoteStandbyToActive" => x.picked # {}

RowSets(x) ==
    /\ x.hit \subseteq x.held
    /\ x.op = "PromoteStandbyToActive" => x.at \notin {"scan", "lock"} /\ x.held = {}
    /\ x.op \notin PickOps => x.picked = {}
    /\ x.op \in RotateOps => \A r, s \in x.hit : r = s
    /\ \A r, s \in x.picked : r = s

Shape(x) == Arguments(x) /\ Progress(x) /\ RowSets(x)

RowsOfTx(x) == x.held \cup x.picked
EnteringOf(x) == IF x.op = "PatchState" THEN x.hit ELSE x.picked
BucketOf(x) == IF x.op = "PatchState" THEN bucket_id[CHOOSE s \in x.hit : TRUE] ELSE x.b
HasEntered(x, b) ==
    /\ x.at \in {"bump", "commit"} /\ EnteringOf(x) # {} /\ BucketOf(x) = b
    /\ x.op = "PatchState" => x.to = "active"

(* The transition that PatchState has validated is still legal. *)
Validated(x) == x.op = "PatchState" => \A s \in x.hit : CanTransition(role[s], state[s], x.to)

(* The locked rows are still the ones the statement was about, and the bucket the
   transaction has entered has no other active row. *)
TxOK(x) ==
    /\ Shape(x)
    /\ x.held \subseteq Matching(x)
    /\ Validated(x)
    /\ x.picked \subseteq StandbyPool
    /\ \A b \in Bucket : HasEntered(x, b) => InBucket(b, "active") \subseteq x.hit

Apart(x, y) ==
    /\ RowsOfTx(x) \cap RowsOfTx(y) = {}
    /\ \A b \in Bucket : ~(HasEntered(x, b) /\ HasEntered(y, b))

TxInv ==
    /\ tx \in [Tx -> TxRec]
    /\ \A t \in Tx : TxOK(tx[t])
    /\ \A t, u \in Tx : t # u => Apart(tx[t], tx[u])

(* The bucket fields of a transaction are those of the rows it has locked, so that
   EntersBucket and Entered of StoreTx are the operators used here. *)
LEMMA SameIndexTerms ==
    ASSUME NEW t \in Tx, NEW b
    PROVE  /\ RowsOf(t) = RowsOfTx(tx[t])
           /\ EntersBucket(t) = BucketOf(tx[t])
           /\ Entering(t) = EnteringOf(tx[t])
           /\ Entered(t, b) <=> HasEntered(tx[t], b)
  BY DEF RowsOf, RowsOfTx, EntersBucket, BucketOf, Entering, EnteringOf, Entered, HasEntered

(* A step of t that leaves the tables alone keeps TxInv when the new record of t is
   well formed and apart from the other transactions. *)
LEMMA StatementKeeps ==
    ASSUME TxInv, NEW t \in Tx, NEW x \in TxRec, becomes(t, x), UNCHANGED storeVars,
           TxOK(x), \A u \in Tx \ {t} : Apart(x, tx[u])
    PROVE  TxInv'
<1>1. tx' \in [Tx -> TxRec] /\ tx'[t] = x /\ \A u \in Tx \ {t} : tx'[u] = tx[u]
  BY DEF TxInv, becomes
<1>2. \A y : Matching(y)' = Matching(y)
  BY DEF Matching, InBucket, DataShards, Registered, storeVars, shardVars, CanTransition
<1>3. StandbyPool' = StandbyPool /\ \A b : InBucket(b, "active")' = InBucket(b, "active")
  BY DEF StandbyPool, InBucket, DataShards, storeVars, shardVars
<1>4. \A y, b : HasEntered(y, b)' <=> HasEntered(y, b)
  BY DEF HasEntered, EnteringOf, BucketOf, storeVars, shardVars
<1>5. \A u \in Tx : TxOK(tx'[u])
  BY <1>1 DEF TxInv
<1>6. \A u \in Tx : TxOK(tx[u])'
  <2>1. \A y : Validated(y)' <=> Validated(y)
    BY DEF Validated, CanTransition, storeVars, shardVars
  <2> QED
    BY <1>2, <1>3, <1>4, <1>5, <2>1 DEF TxOK
<1>7. \A u, v \in Tx : u # v => Apart(tx'[u], tx'[v])
  <2>1. \A y, z : Apart(y, z) <=> Apart(z, y)
    BY DEF Apart
  <2> QED
    BY <1>1, <2>1 DEF TxInv
<1>8. \A u, v \in Tx : u # v => Apart(tx[u], tx[v])'
  BY <1>4, <1>7 DEF Apart
<1>9. QED
  BY <1>1, <1>6, <1>8 DEF TxInv

(* A record whose statement has not locked anything yet is well formed and apart from
   every other. *)
LEMMA NothingLocked ==
    ASSUME NEW x \in TxRec, Shape(x), x.at \in {"idle", "scan", "pick"},
           x.held = {}, x.hit = {}, x.picked = {}
    PROVE  TxOK(x) /\ \A y : Apart(x, y)
  BY Zenon DEF TxOK, Apart, RowsOfTx, HasEntered, Validated

(* A connection without a transaction. *)
LEMMA IdleShape == Idle \in TxRec /\ Shape(Idle)
  BY DEF Idle, TxRec, Shape, Arguments, Progress, RowSets, BucketOps, PickOps, RotateOps, ShardOps

(* The end of a transaction, by a rollback, releases its rows. *)
LEMMA RollbackKeeps ==
    ASSUME TxInv, NEW t \in Tx, Rollback(t)
    PROVE  TxInv'
<1>1. TxOK(Idle) /\ \A y : Apart(Idle, y)
  BY IdleShape, NothingLocked, Zenon DEF Idle
<1> QED
  BY <1>1, IdleShape, StatementKeeps DEF Rollback

(* A transaction starts with no row locked. *)
LEMMA BeginKeeps ==
    ASSUME TxInv, NEW t \in Tx, BeginBucket(t) \/ BeginShard(t)
    PROVE  TxInv'
<1>0. SUFFICES ASSUME NEW x \in TxRec, Start(t, x), Shape(x), x.at \in {"idle", "scan", "pick"},
                      x.held = {}, x.hit = {}, x.picked = {}
               PROVE  TxInv'
  <2>1. ASSUME NEW b \in Bucket,
               NEW op \in RotateOps \cup {"PromoteStandbyToActive", "BeginDrain", "MarkBucketCleaning"},
               Start(t, [Idle EXCEPT !.op = op, !.b = b,
                                     !.at = IF op = "PromoteStandbyToActive" THEN "pick" ELSE "scan"])
        PROVE  TxInv'
    <3> DEFINE x == [Idle EXCEPT !.op = op, !.b = b,
                                 !.at = IF op = "PromoteStandbyToActive" THEN "pick" ELSE "scan"]
    <3>1. x \in TxRec /\ x.held = {} /\ x.hit = {} /\ x.picked = {} /\ x.at \in {"scan", "pick"}
      BY <2>1, Zenon DEF TxRec, Idle, BucketOps, PickOps
    <3>2. x.op = op /\ x.b = b /\ x.to = "" /\ x.at = IF op = "PromoteStandbyToActive" THEN "pick" ELSE "scan"
      BY <2>1 DEF Idle
    <3>3. Shape(x)
      <4> HIDE DEF x
      <4> QED
        BY <3>1, <3>2, <2>1, Zenon DEF Shape, Arguments, Progress, RowSets, BucketOps, PickOps, RotateOps, ShardOps
    <3> QED
      BY <2>1, <3>1, <3>3, <1>0, Zenon
  <2>2. ASSUME NEW x \in TxRec, Start(t, x), x.at = "scan", x.held = {}, x.hit = {}, x.picked = {},
               x.op \in ShardOps, NEW s \in Shard, x.s = {s},
               x.op = "PatchState" => x.to \in PatchTargets,
               x.op # "PatchState" => x.to # "active"
        PROVE  TxInv'
    <3>1. Shape(x)
      BY <2>2 DEF Shape, Arguments, Progress, RowSets, BucketOps, PickOps, RotateOps, ShardOps
    <3> QED
      BY <2>2, <3>1, <1>0
  <2>3. ASSUME NEW s \in Shard, NEW to \in PatchTargets,
               Start(t, [Idle EXCEPT !.op = "PatchState", !.at = "scan", !.s = {s}, !.to = to])
        PROVE  TxInv'
    <3> DEFINE x == [Idle EXCEPT !.op = "PatchState", !.at = "scan", !.s = {s}, !.to = to]
    <3>1. x \in TxRec /\ x.held = {} /\ x.hit = {} /\ x.picked = {} /\ x.at = "scan"
      BY <2>3, Zenon DEF TxRec, Idle, ShardOps
    <3>2. x.op = "PatchState" /\ x.s = {s} /\ x.to = to
      BY DEF Idle
    <3>3. Start(t, x)
      BY <2>3
    <3> HIDE DEF x
    <3> QED
      BY <3>1, <3>2, <3>3, <2>2 DEF ShardOps
  <2>4. ASSUME NEW s \in Shard,
               Start(t, [Idle EXCEPT !.op = "FinishCleaning", !.at = "scan", !.s = {s}])
        PROVE  TxInv'
    <3> DEFINE x == [Idle EXCEPT !.op = "FinishCleaning", !.at = "scan", !.s = {s}]
    <3>1. x \in TxRec /\ x.held = {} /\ x.hit = {} /\ x.picked = {} /\ x.at = "scan"
      BY <2>4, Zenon DEF TxRec, Idle, ShardOps
    <3>2. x.op = "FinishCleaning" /\ x.s = {s} /\ x.to = ""
      BY DEF Idle
    <3>3. Start(t, x)
      BY <2>4
    <3> HIDE DEF x
    <3> QED
      BY <3>1, <3>2, <3>3, <2>2, Zenon DEF ShardOps
  <2>5. ASSUME NEW s \in Shard,
               Start(t, [Idle EXCEPT !.op = "RegisterShard", !.at = "scan", !.s = {s}, !.to = "data"])
        PROVE  TxInv'
    <3> DEFINE x == [Idle EXCEPT !.op = "RegisterShard", !.at = "scan", !.s = {s}, !.to = "data"]
    <3>1. x \in TxRec /\ x.held = {} /\ x.hit = {} /\ x.picked = {} /\ x.at = "scan"
      BY <2>5, Zenon DEF TxRec, Idle, ShardOps
    <3>2. x.op = "RegisterShard" /\ x.s = {s} /\ x.to = "data"
      BY DEF Idle
    <3>3. Start(t, x)
      BY <2>5
    <3> HIDE DEF x
    <3> QED
      BY <3>1, <3>2, <3>3, <2>2 DEF ShardOps
  <2> QED
    BY <2>1, <2>3, <2>4, <2>5, Zenon DEF BeginBucket, BeginShard
<1> QED
  BY <1>0, NothingLocked, StatementKeeps DEF Start

(* The rows a statement selects depend on the arguments only. *)
LEMMA SameArguments ==
    ASSUME NEW x, NEW y, x.op = y.op, x.b = y.b, x.s = y.s, x.to = y.to
    PROVE  Matching(x) = Matching(y)
  BY Zenon DEF Matching

(* A statement that locks nothing more, and enters no bucket, keeps the transaction
   apart from the others. *)
LEMMA StaysApart ==
    ASSUME NEW x, NEW y, NEW z, Apart(x, z), RowsOfTx(y) \subseteq RowsOfTx(x),
           \A b \in Bucket : HasEntered(y, b) => HasEntered(x, b)
    PROVE  Apart(y, z)
  BY DEF Apart

(* The WHERE clause of a statement selects rows of the table. *)
LEMMA MatchingRows ==
    ASSUME NEW x \in TxRec, x.op \notin {"none", "PromoteStandbyToActive"}
    PROVE  Matching(x) \subseteq Shard
  BY Zenon DEF Matching, TxRec, BucketOps, PickOps, RotateOps, ShardOps, InBucket, DataShards

(* The first read of a statement locks nothing. *)
LEMMA ScanKeeps ==
    ASSUME TxInv, NEW t \in Tx, Scan(t)
    PROVE  TxInv'
<1> DEFINE o == tx[t]
           x == [tx[t] EXCEPT !.at = "lock", !.todo = Matching(tx[t])]
<1>0. o \in TxRec /\ TxOK(o) /\ o.at = "scan" /\ \A u \in Tx \ {t} : Apart(o, tx[u])
  BY DEF TxInv, Scan
<1>1. Matching(o) \subseteq Shard
  BY <1>0, MatchingRows DEF TxOK, Shape, Arguments, RowSets
<1>2. x \in TxRec
  BY <1>0, <1>1, Zenon DEF TxRec
<1>3. /\ x.op = o.op /\ x.b = o.b /\ x.s = o.s /\ x.to = o.to
      /\ x.held = o.held /\ x.hit = o.hit /\ x.picked = o.picked /\ x.at = "lock"
  BY <1>0, Zenon DEF TxRec
<1>4. becomes(t, x) /\ UNCHANGED storeVars
  BY DEF Scan
<1> HIDE DEF o, x
<1>5. Shape(x)
  BY <1>0, <1>3 DEF TxOK, Shape, Arguments, Progress, RowSets
<1>v. Validated(x)
  BY <1>0, <1>3 DEF TxOK, Validated
<1>6. TxOK(x)
  BY <1>0, <1>v, <1>3, <1>5, SameArguments, Zenon DEF TxOK, HasEntered
<1>7. \A u \in Tx \ {t} : Apart(x, tx[u])
  BY <1>0, <1>3, StaysApart DEF RowsOfTx, HasEntered
<1> QED
  BY <1>2, <1>4, <1>6, <1>7, StatementKeeps

(* A row is locked when no other transaction has it, and kept if it still
   satisfies the WHERE clause. *)
LEMMA LockRowKeeps ==
    ASSUME TxInv, NEW t \in Tx, NEW s \in Shard, LockRow(t, s)
    PROVE  TxInv'
<1> DEFINE o == tx[t]
           x == [tx[t] EXCEPT !.todo = @ \ {s}, !.held = @ \cup ({s} \cap Matching(tx[t]))]
<1>0. o \in TxRec /\ TxOK(o) /\ o.at = "lock" /\ \A u \in Tx \ {t} : Apart(o, tx[u])
  BY DEF TxInv, LockRow
<1>2. x \in TxRec
  BY <1>0, Zenon DEF TxRec
<1>3. /\ x.op = o.op /\ x.b = o.b /\ x.s = o.s /\ x.to = o.to
      /\ x.held = o.held \cup ({s} \cap Matching(o)) /\ x.hit = o.hit /\ x.picked = o.picked /\ x.at = "lock"
  BY <1>0, Zenon DEF TxRec
<1>4. becomes(t, x) /\ UNCHANGED storeVars
  BY DEF LockRow
<1>a. \A u \in Tx \ {t} : s \notin RowsOfTx(tx[u])
  BY DEF LockRow, Locked, RowsOf, RowsOfTx
<1> HIDE DEF o, x
<1>5. Shape(x)
  BY <1>0, <1>3 DEF TxOK, Shape, Arguments, Progress, RowSets
<1>v. Validated(x)
  BY <1>0, <1>3 DEF TxOK, Validated
<1>6. TxOK(x)
  <2>1. x.held \subseteq Matching(x)
    BY <1>0, <1>3, SameArguments DEF TxOK
  <2> QED
    BY <1>0, <1>3, <1>5, <1>v, <2>1, Zenon DEF TxOK, HasEntered
<1>7. \A u \in Tx \ {t} : Apart(x, tx[u])
  <2>1. RowsOfTx(x) \subseteq RowsOfTx(o) \cup {s}
    BY <1>3 DEF RowsOfTx
  <2>2. \A b : ~HasEntered(x, b)
    BY <1>3 DEF HasEntered
  <2> QED
    BY <1>0, <1>a, <2>1, <2>2 DEF Apart
<1> QED
  BY <1>2, <1>4, <1>6, <1>7, StatementKeeps

(* The rows a statement updates are rows it has locked. *)
LEMMA UpdateKeeps ==
    ASSUME TxInv, NEW t \in Tx, Update(t)
    PROVE  TxInv'
<1> DEFINE o == tx[t]
<1>0. o \in TxRec /\ TxOK(o) /\ o.at = "lock" /\ \A u \in Tx \ {t} : Apart(o, tx[u])
  BY DEF TxInv, Update
<1>p. PICK hit \in IF o.op \in RotateOps THEN {{s} : s \in o.held} ELSE {o.held} :
         becomes(t, [tx[t] EXCEPT !.hit = hit,
                                  !.at = IF tx[t].op \in RotateOps THEN "pick"
                                         ELSE IF tx[t].to = "active" THEN "enter" ELSE "bump"])
  BY Zenon DEF Update
<1> DEFINE x == [tx[t] EXCEPT !.hit = hit,
                              !.at = IF tx[t].op \in RotateOps THEN "pick"
                                     ELSE IF tx[t].to = "active" THEN "enter" ELSE "bump"]
<1>1. o.held # {} /\ UNCHANGED storeVars
  BY DEF Update
<1>h. hit # {} /\ hit \subseteq o.held /\ (o.op \in RotateOps => \A r, s \in hit : r = s)
  BY <1>p, <1>1
<1>2. x \in TxRec
  BY <1>0, <1>h, Zenon DEF TxRec
<1>3. /\ x.op = o.op /\ x.b = o.b /\ x.s = o.s /\ x.to = o.to
      /\ x.held = o.held /\ x.hit = hit /\ x.picked = o.picked
      /\ x.at = IF o.op \in RotateOps THEN "pick" ELSE IF o.to = "active" THEN "enter" ELSE "bump"
  BY <1>0, Zenon DEF TxRec
<1>4. becomes(t, x)
  BY <1>p
<1>g. o.op = "PatchState" => \A s \in o.held : CanTransition(role[s], state[s], o.to)
  BY DEF Update
<1> HIDE DEF o, x
<1>5. Shape(x)
  <2>1. o.op \notin RotateOps => o.op \notin PickOps
    BY <1>0 DEF TxOK, Shape, RowSets, PickOps
  <2>2. Arguments(x)
    BY <1>0, <1>3 DEF TxOK, Shape, Arguments
  <2>3. Progress(x)
    BY <1>0, <1>h, <1>3, <2>1 DEF TxOK, Shape, Arguments, Progress, PickOps, RotateOps
  <2>4. RowSets(x)
    BY <1>0, <1>h, <1>3 DEF TxOK, Shape, RowSets
  <2> QED
    BY <2>2, <2>3, <2>4 DEF Shape
<1>e. \A b : ~HasEntered(x, b)
  BY <1>0, <1>3 DEF HasEntered, EnteringOf, TxOK, Shape, Progress
<1>v. Validated(x)
  BY <1>3, <1>g, <1>h DEF Validated
<1>6. TxOK(x)
  BY <1>0, <1>v, <1>3, <1>5, <1>e, SameArguments, Zenon DEF TxOK
<1>7. \A u \in Tx \ {t} : Apart(x, tx[u])
  BY <1>0, <1>3, <1>e, StaysApart DEF RowsOfTx
<1> QED
  BY <1>1, <1>2, <1>4, <1>6, <1>7, StatementKeeps

(* FOR UPDATE SKIP LOCKED takes a standby that no other transaction has locked. *)
LEMMA PickKeeps ==
    ASSUME TxInv, NEW t \in Tx, Pick(t)
    PROVE  TxInv'
<1> DEFINE o == tx[t]
<1>0. o \in TxRec /\ TxOK(o) /\ o.at = "pick" /\ \A u \in Tx \ {t} : Apart(o, tx[u])
  BY DEF TxInv, Pick
<1>p. PICK s \in StandbyPool : ~Locked(t, s) /\ becomes(t, [tx[t] EXCEPT !.picked = {s}, !.at = "enter"])
  BY Zenon DEF Pick
<1> DEFINE x == [tx[t] EXCEPT !.picked = {s}, !.at = "enter"]
<1>2. x \in TxRec
  BY <1>0, <1>p, Zenon DEF TxRec, StandbyPool, InBucket, DataShards
<1>3. /\ x.op = o.op /\ x.b = o.b /\ x.s = o.s /\ x.to = o.to
      /\ x.held = o.held /\ x.hit = o.hit /\ x.picked = {s} /\ x.at = "enter"
  BY <1>0, Zenon DEF TxRec
<1>4. becomes(t, x) /\ UNCHANGED storeVars
  BY <1>p DEF Pick
<1>a. \A u \in Tx \ {t} : s \notin RowsOfTx(tx[u])
  BY <1>p DEF Locked, RowsOf, RowsOfTx
<1> HIDE DEF o, x
<1>5. Shape(x)
  BY <1>0, <1>3 DEF TxOK, Shape, Arguments, Progress, RowSets
<1>v. Validated(x)
  BY <1>0, <1>3 DEF TxOK, Validated
<1>6. TxOK(x)
  <2>1. x.held \subseteq Matching(x)
    BY <1>0, <1>3, SameArguments DEF TxOK
  <2> QED
    BY <1>p, <1>3, <1>5, <1>v, <2>1, Zenon DEF TxOK, HasEntered
<1>7. \A u \in Tx \ {t} : Apart(x, tx[u])
  <2>1. RowsOfTx(x) \subseteq RowsOfTx(o) \cup {s}
    BY <1>3 DEF RowsOfTx
  <2>2. \A b : ~HasEntered(x, b)
    BY <1>3 DEF HasEntered
  <2> QED
    BY <1>0, <1>a, <2>1, <2>2 DEF Apart
<1> QED
  BY <1>2, <1>4, <1>6, <1>7, StatementKeeps

(* Moving to a later statement: the index entry, if the transaction makes one, is
   alone for its bucket. *)
LEMMA GotoKeeps ==
    ASSUME TxInv, NEW t \in Tx, NEW at \in {"bump", "commit"}, goto(t, at), UNCHANGED storeVars,
           tx[t].at \in {"pick", "enter", "bump"},
           tx[t].op = "PromoteStandbyToActive" => tx[t].picked # {},
           \A b \in Bucket : HasEntered([tx[t] EXCEPT !.at = at], b) =>
               /\ InBucket(b, "active") \subseteq tx[t].hit
               /\ \A u \in Tx \ {t} : ~HasEntered(tx[u], b)
    PROVE  TxInv'
<1> DEFINE o == tx[t]
           x == [tx[t] EXCEPT !.at = at]
<1>0. o \in TxRec /\ TxOK(o) /\ o.at \in {"pick", "enter", "bump"} /\ \A u \in Tx \ {t} : Apart(o, tx[u])
  BY DEF TxInv
<1>2. x \in TxRec
  BY <1>0, Zenon DEF TxRec
<1>3. /\ x.op = o.op /\ x.b = o.b /\ x.s = o.s /\ x.to = o.to
      /\ x.held = o.held /\ x.hit = o.hit /\ x.picked = o.picked /\ x.at = at
  BY <1>0, Zenon DEF TxRec
<1>4. becomes(t, x)
  BY DEF goto
<1>e. \A b \in Bucket : HasEntered(x, b) =>
         InBucket(b, "active") \subseteq x.hit /\ \A u \in Tx \ {t} : ~HasEntered(tx[u], b)
  BY <1>3, Zenon
<1>f. o.op = "PromoteStandbyToActive" => o.picked # {}
  OBVIOUS
<1> HIDE DEF o, x
<1>5. Shape(x)
  BY <1>0, <1>3, <1>f DEF TxOK, Shape, Arguments, Progress, RowSets
<1>v. Validated(x)
  BY <1>0, <1>3 DEF TxOK, Validated
<1>6. TxOK(x)
  BY <1>0, <1>v, <1>3, <1>5, <1>e, SameArguments, Zenon DEF TxOK
<1>7. \A u \in Tx \ {t} : Apart(x, tx[u])
  <2>1. RowsOfTx(x) = RowsOfTx(o)
    BY <1>3 DEF RowsOfTx
  <2> QED
    BY <1>0, <1>e, <2>1 DEF Apart
<1> QED
  BY <1>2, <1>4, <1>6, <1>7, StatementKeeps

(* The statements after the rows are locked. *)
LEMMA LaterKeeps ==
    ASSUME TxInv, NEW t \in Tx, PickNone(t) \/ Enter(t) \/ Bump(t)
    PROVE  TxInv'
<1>0. tx[t] \in TxRec /\ TxOK(tx[t]) /\ \A u \in Tx \ {t} : Apart(tx[t], tx[u])
  BY DEF TxInv
<1>x. ASSUME NEW at PROVE
         LET x == [tx[t] EXCEPT !.at = at]
         IN  x.op = tx[t].op /\ x.to = tx[t].to /\ x.b = tx[t].b /\ x.hit = tx[t].hit /\ x.picked = tx[t].picked
  BY <1>0, Zenon DEF TxRec
<1>b. ASSUME NEW at PROVE /\ BucketOf([tx[t] EXCEPT !.at = at]) = BucketOf(tx[t])
                          /\ EnteringOf([tx[t] EXCEPT !.at = at]) = EnteringOf(tx[t])
  BY <1>x DEF BucketOf, EnteringOf
<1>1. CASE PickNone(t)
  <2>1. tx[t].at = "pick" /\ tx[t].op \in RotateOps /\ goto(t, "bump") /\ UNCHANGED storeVars
    BY <1>1 DEF PickNone
  <2>2. EnteringOf(tx[t]) = {}
    BY <1>0, <2>1 DEF TxOK, Shape, Progress, EnteringOf, RotateOps
  <2>3. \A b : ~HasEntered([tx[t] EXCEPT !.at = "bump"], b)
    BY <1>b, <2>2, Zenon DEF HasEntered
  <2>4. tx[t].op # "PromoteStandbyToActive"
    BY <2>1 DEF RotateOps
  <2> QED
    BY <2>1, <2>3, <2>4, GotoKeeps, Zenon
<1>2. CASE Enter(t)
  <2>1. tx[t].at = "enter" /\ goto(t, "bump") /\ UNCHANGED storeVars
    BY <1>2 DEF Enter
  <2>2. ASSUME NEW b \in Bucket, HasEntered([tx[t] EXCEPT !.at = "bump"], b)
        PROVE  InBucket(b, "active") \subseteq tx[t].hit /\ \A u \in Tx \ {t} : ~HasEntered(tx[u], b)
    <3>1. b = EntersBucket(t)
      BY <2>2, <1>b, SameIndexTerms, Zenon DEF HasEntered
    <3>2. b # NoBucket
      BY NoBucketAssumption
    <3>3. InBucket(b, "active") \subseteq tx[t].hit /\ ~IndexWait(t)
      BY <1>2, <3>1, <3>2, Zenon DEF Enter
    <3> QED
      BY <3>1, <3>3, SameIndexTerms, Zenon DEF IndexWait
  <2>3. tx[t].op = "PromoteStandbyToActive" => tx[t].picked # {}
    BY <1>0, <2>1 DEF TxOK, Shape, Progress
  <2> QED
    BY <2>1, <2>2, <2>3, GotoKeeps, Zenon
<1>3. CASE Bump(t)
  <2>1. tx[t].at = "bump" /\ goto(t, "commit") /\ UNCHANGED storeVars
    BY <1>3 DEF Bump
  <2>2. ASSUME NEW b \in Bucket, HasEntered([tx[t] EXCEPT !.at = "commit"], b)
        PROVE  InBucket(b, "active") \subseteq tx[t].hit /\ \A u \in Tx \ {t} : ~HasEntered(tx[u], b)
    <3>1. HasEntered(tx[t], b)
      BY <2>1, <2>2, <1>b, <1>x, Zenon DEF HasEntered
    <3> QED
      BY <1>0, <3>1, Zenon DEF TxOK, Apart
  <2>3. tx[t].op = "PromoteStandbyToActive" => tx[t].picked # {}
    BY <1>0, <2>1 DEF TxOK, Shape, Progress
  <2> QED
    BY <2>1, <2>2, <2>3, GotoKeeps, Zenon
<1> QED
  BY <1>1, <1>2, <1>3

(* A commit writes only rows that the transaction has locked. *)
LEMMA CommitWrites ==
    ASSUME StoreTypeOK, TxInv, NEW t \in Tx, Commit(t)
    PROVE  /\ role' = role
           /\ \A s \in Shard \ RowsOfTx(tx[t]) : state'[s] = state[s] /\ bucket_id'[s] = bucket_id[s]
<1>1. tx[t].hit \subseteq tx[t].held
  BY DEF TxInv, TxOK, Shape, RowSets
<1> QED
  BY <1>1 DEF Commit, RowsOfTx

(* Only the row for which it has entered the index becomes active in a bucket. *)
LEMMA CommitEnters ==
    ASSUME StoreTypeOK, TxInv, NEW t \in Tx, Commit(t), NEW b \in Bucket, NEW s \in InBucket(b, "active")'
    PROVE  s \in InBucket(b, "active") \/ HasEntered(tx[t], b)
<1> DEFINE x == tx[t]
           hit == IF x.op = "RegisterShard" THEN {r \in x.hit : ~Registered(r)} ELSE x.hit
<1>0. x \in TxRec /\ TxOK(x) /\ x.at = "commit"
  BY DEF TxInv, Commit
<1>1. s \in Shard /\ state'[s] = "active" /\ role[s] = "data" /\ bucket_id'[s] = b
  BY DEF InBucket, DataShards, Commit
<1>2. state'[s] = IF s \in hit THEN NewState(x) ELSE IF s \in x.picked THEN "active" ELSE state[s]
  BY <1>1 DEF Commit
<1>3. bucket_id'[s] = IF s \in x.picked THEN x.b
                      ELSE IF s \in hit /\ x.op = "FinishCleaning" THEN NoBucket ELSE bucket_id[s]
  BY <1>1 DEF Commit
<1>h. hit \subseteq x.hit
  OBVIOUS
<1> HIDE DEF x, hit
<1>4. CASE s \in hit
  <2>1. NewState(x) = "active"
    BY <1>1, <1>2, <1>4
  <2>2. x.op = "PatchState" /\ x.to = "active"
    BY <1>0, <2>1, Zenon DEF NewState, TxRec, RotateOps
  <2>3. x.picked = {} /\ \A r \in x.hit : r = s
    <3>1. x.hit \subseteq Matching(x) /\ \E r \in Shard : x.s = {r}
      BY <1>0, <2>2 DEF TxOK, Shape, Arguments, RowSets, ShardOps
    <3>2. Matching(x) \subseteq x.s
      BY <2>2 DEF Matching, RotateOps
    <3>3. x.picked = {}
      BY <1>0, <2>2 DEF TxOK, Shape, RowSets, PickOps, RotateOps
    <3> QED
      BY <1>4, <1>h, <3>1, <3>2, <3>3
  <2>4. (CHOOSE r \in x.hit : TRUE) = s
    BY <2>3, <1>4, <1>h
  <2>5. bucket_id[s] = b
    BY <1>1, <1>3, <2>2, <2>3
  <2> QED
    BY <1>0, <1>4, <1>h, <2>2, <2>4, <2>5, Zenon DEF HasEntered, EnteringOf, BucketOf, x
<1>5. CASE s \notin hit /\ s \in x.picked
  <2>1. x.op \in PickOps /\ x.b = b
    BY <1>0, <1>1, <1>3, <1>5 DEF TxOK, Shape, RowSets
  <2> QED
    BY <1>0, <1>5, <2>1 DEF HasEntered, EnteringOf, BucketOf, PickOps, RotateOps, x
<1>6. CASE s \notin hit /\ s \notin x.picked
  BY <1>1, <1>2, <1>3, <1>6 DEF InBucket, DataShards
<1> QED
  BY <1>4, <1>5, <1>6

(* What another transaction has locked, and the bucket it has entered, are as they
   were before the commit. *)
LEMMA CommitKeepsOthers ==
    ASSUME StoreTypeOK, TxInv, NEW t \in Tx, Commit(t), NEW x \in TxRec, TxOK(x), Apart(x, tx[t])
    PROVE  /\ x.held \subseteq Matching(x)'
           /\ Validated(x)'
           /\ x.picked \subseteq StandbyPool'
           /\ \A b \in Bucket : HasEntered(x, b)' => HasEntered(x, b)
           /\ \A b \in Bucket : HasEntered(x, b)' => InBucket(b, "active")' \subseteq x.hit
<1>r. role' = role
  BY CommitWrites
<1>s. \A s \in RowsOfTx(x) : s \in Shard /\ state'[s] = state[s] /\ bucket_id'[s] = bucket_id[s]
  BY CommitWrites, Zenon DEF Apart, RowsOfTx, TxRec
<1>1. x.held \subseteq Matching(x)'
  <2> SUFFICES ASSUME NEW s \in x.held PROVE s \in Matching(x)'
    OBVIOUS
  <2>1. s \in Matching(x)
    BY DEF TxOK
  <2>2. s \in Shard /\ state'[s] = state[s] /\ bucket_id'[s] = bucket_id[s]
    BY <1>s DEF RowsOfTx
  <2>3. x.op \in RotateOps \cup {"BeginDrain", "MarkBucketCleaning"} \cup ShardOps
    BY Zenon DEF TxRec, BucketOps, PickOps, TxOK, Shape, RowSets, Arguments, Progress
  <2>4. \A b, st : s \in InBucket(b, st) <=> s \in InBucket(b, st)'
    BY <1>r, <2>2 DEF InBucket, DataShards
  <2>5. CASE x.op \in RotateOps \cup {"BeginDrain", "MarkBucketCleaning"}
    BY <2>1, <2>4, <2>5 DEF Matching, RotateOps
  <2>6. CASE x.op \in ShardOps
    BY <1>r, <2>1, <2>2, <2>6 DEF Matching, ShardOps, Registered
  <2> QED
    BY <2>3, <2>5, <2>6
<1>v. Validated(x)'
  <2>1. Validated(x) /\ x.hit \subseteq RowsOfTx(x)
    BY DEF TxOK, Shape, RowSets, RowsOfTx
  <2> QED
    BY <1>r, <1>s, <2>1 DEF Validated, CanTransition
<1>2. x.picked \subseteq StandbyPool'
  BY <1>r, <1>s DEF TxOK, StandbyPool, InBucket, DataShards, RowsOfTx
<1>3. \A b \in Bucket : HasEntered(x, b)' => HasEntered(x, b)
  <2>1. x.op = "PatchState" /\ x.hit # {} => (CHOOSE s \in x.hit : TRUE) \in RowsOfTx(x)
    BY DEF TxOK, Shape, RowSets, RowsOfTx
  <2>2. EnteringOf(x) # {} => BucketOf(x)' = BucketOf(x)
    BY <1>s, <2>1 DEF BucketOf, EnteringOf
  <2> QED
    BY <2>2 DEF HasEntered, EnteringOf
<1>4. ASSUME NEW b \in Bucket, HasEntered(x, b)', NEW s \in InBucket(b, "active")' PROVE s \in x.hit
  <2>1. HasEntered(x, b)
    BY <1>3, <1>4
  <2>2. ~HasEntered(tx[t], b)
    BY <2>1 DEF Apart
  <2>3. s \in InBucket(b, "active")
    BY <2>2, CommitEnters
  <2> QED
    BY <2>1, <2>3 DEF TxOK
<1> QED
  BY <1>1, <1>v, <1>2, <1>3, <1>4

(* A commit keeps the invariant of the transactions in progress. *)
LEMMA CommitKeeps ==
    ASSUME StoreTypeOK, TxInv, NEW t \in Tx, Commit(t)
    PROVE  TxInv'
<1>1. tx' \in [Tx -> TxRec] /\ tx'[t] = Idle /\ \A u \in Tx \ {t} : tx'[u] = tx[u]
  BY IdleShape DEF TxInv, Commit, becomes
<1>2. \A u \in Tx \ {t} : tx[u] \in TxRec /\ TxOK(tx[u]) /\ Apart(tx[u], tx[t])
  BY DEF TxInv
<1>3. ASSUME NEW u \in Tx PROVE TxOK(tx[u])'
  <2>1. CASE u = t
    <3>1. Shape(Idle) /\ Idle.held = {} /\ Idle.picked = {} /\ Idle.hit = {} /\ Idle.at = "idle"
      BY IdleShape, Zenon DEF Idle
    <3> QED
      BY <1>1, <2>1, <3>1 DEF TxOK, HasEntered, Validated
  <2>2. CASE u # t
    <3> DEFINE x == tx[u]
    <3>1. x \in TxRec /\ TxOK(x) /\ Apart(x, tx[t]) /\ tx'[u] = x
      BY <1>1, <1>2, <2>2
    <3>2. /\ x.held \subseteq Matching(tx[u])'
          /\ Validated(tx[u])'
          /\ x.picked \subseteq StandbyPool'
          /\ \A b \in Bucket : HasEntered(tx[u], b)' => InBucket(b, "active")' \subseteq x.hit
      BY <1>1, <1>2, <2>2, CommitKeepsOthers
    <3> QED
      BY <3>1, <3>2 DEF TxOK
  <2> QED
    BY <2>1, <2>2
<1>4. ASSUME NEW u \in Tx, NEW v \in Tx, u # v PROVE Apart(tx[u], tx[v])'
  <2>1. ASSUME NEW w \in Tx, NEW b \in Bucket, HasEntered(tx[w], b)' PROVE w # t /\ HasEntered(tx[w], b)
    <3>1. Idle.at = "idle"
      BY DEF Idle
    <3>2. w # t
      BY <1>1, <2>1, <3>1 DEF HasEntered
    <3> QED
      BY <1>1, <1>2, <2>1, <3>2, CommitKeepsOthers
  <2>2. RowsOfTx(tx'[u]) \cap RowsOfTx(tx'[v]) = {}
    <3>1. RowsOfTx(Idle) = {}
      BY DEF RowsOfTx, Idle
    <3>2. u # t /\ v # t => RowsOfTx(tx[u]) \cap RowsOfTx(tx[v]) = {}
      BY <1>4 DEF TxInv, Apart
    <3> QED
      BY <1>1, <3>1, <3>2
  <2>3. \A b \in Bucket : ~(HasEntered(tx[u], b)' /\ HasEntered(tx[v], b)')
    BY <1>4, <2>1 DEF TxInv, Apart
  <2> QED
    BY <2>2, <2>3 DEF Apart, RowsOfTx
<1> QED
  BY <1>1, <1>3, <1>4 DEF TxInv
-----------------------------------------------------------------------------
(* A row picked by FOR UPDATE SKIP LOCKED is what PickStandby returns. *)
LEMMA PickedRows ==
    ASSUME NEW x \in TxRec, TxOK(x)
    PROVE  x.picked \in PickStandby
<1>1. x.picked \subseteq StandbyPool /\ \A r, s \in x.picked : r = s
  BY DEF TxOK, Shape, RowSets
<1>2. CASE x.picked = {}
  BY <1>2 DEF PickStandby
<1>3. CASE x.picked # {}
  <2>1. PICK s \in x.picked : TRUE
    BY <1>3
  <2>2. x.picked = {s}
    BY <1>1, <2>1
  <2> QED
    BY <1>1, <2>1, <2>2 DEF PickStandby
<1> QED
  BY <1>2, <1>3

(* The columns a commit leaves alone, by operation. *)
LEMMA CommitColumns ==
    ASSUME StoreTypeOK, NEW t \in Tx, tx[t] \in TxRec, TxOK(tx[t]), Commit(t)
    PROVE  LET x == tx[t]
           IN  /\ x.op # "FinishCleaning" => full' = full
               /\ x.op \notin {"BeginDrain", "FinishCleaning"} => drain_started_at' = drain_started_at
               /\ x.op \notin {"BeginDrain", "FinishCleaning", "CompleteDrainSeal"} => drain_ready' = drain_ready
               /\ x.op # "RegisterShard" => fresh' = [s \in Shard |-> s \in x.picked \/ fresh[s]]
               /\ x.op \notin PickOps \cup {"RegisterShard"} => fresh' = fresh
               /\ x.op \notin PickOps \cup {"FinishCleaning"} => bucket_id' = bucket_id
               /\ bumpTopologyVersion /\ UNCHANGED <<config, role>>
<1> DEFINE x == tx[t]
           hit == IF x.op = "RegisterShard" THEN {s \in x.hit : ~Registered(s)} ELSE x.hit
<1>0. /\ full \in [Shard -> BOOLEAN] /\ drain_ready \in [Shard -> BOOLEAN] /\ fresh \in [Shard -> BOOLEAN]
      /\ drain_started_at \in [Shard -> {"null", "recent", "expired"}]
      /\ bucket_id \in [Shard -> Bucket \cup {NoBucket}]
  BY DEF StoreTypeOK
<1>1. full' = [s \in Shard |-> full[s] /\ ~(s \in hit /\ x.op = "FinishCleaning")]
  BY DEF Commit
<1>2. drain_started_at' = [s \in Shard |-> IF s \notin hit THEN drain_started_at[s]
                                           ELSE CASE x.op = "BeginDrain"     -> "recent"
                                                  [] x.op = "FinishCleaning" -> "null"
                                                  [] OTHER                   -> drain_started_at[s]]
  BY DEF Commit
<1>3. drain_ready' = [s \in Shard |->
         drain_ready[s] /\ ~(s \in hit /\ x.op \in {"BeginDrain", "FinishCleaning", "CompleteDrainSeal"})]
  BY DEF Commit
<1>4. fresh' = [s \in Shard |-> fresh[s] \/ s \in x.picked \/ (s \in x.hit /\ x.op = "RegisterShard")]
  BY DEF Commit
<1>5. bucket_id' = [s \in Shard |-> IF s \in x.picked THEN x.b
                                    ELSE IF s \in hit /\ x.op = "FinishCleaning" THEN NoBucket
                                    ELSE bucket_id[s]]
  BY DEF Commit
<1>6. bumpTopologyVersion /\ UNCHANGED <<config, role>>
  BY DEF Commit
<1>7. x.op \notin PickOps => x.picked = {}
  BY DEF TxOK, Shape, RowSets
<1> HIDE DEF x, hit
<1>8. x.op # "FinishCleaning" => full' = full
  <2>1. x.op # "FinishCleaning" => \A s \in Shard : full'[s] = full[s]
    BY <1>0, <1>1
  <2> QED
    BY <1>0, <1>1, <2>1
<1>9. x.op \notin {"BeginDrain", "FinishCleaning"} => drain_started_at' = drain_started_at
  BY <1>0, <1>2
<1>10. x.op \notin {"BeginDrain", "FinishCleaning", "CompleteDrainSeal"} => drain_ready' = drain_ready
  <2>1. x.op \notin {"BeginDrain", "FinishCleaning", "CompleteDrainSeal"} =>
           \A s \in Shard : drain_ready'[s] = drain_ready[s]
    BY <1>0, <1>3
  <2> QED
    BY <1>0, <1>3, <2>1
<1>11. x.op # "RegisterShard" => fresh' = [s \in Shard |-> s \in x.picked \/ fresh[s]]
  BY <1>0, <1>4
<1>12. x.op \notin PickOps \cup {"RegisterShard"} => fresh' = fresh
  <2>1. x.op \notin PickOps \cup {"RegisterShard"} => \A s \in Shard : fresh'[s] = fresh[s]
    BY <1>0, <1>4, <1>7
  <2> QED
    BY <1>0, <1>4, <2>1
<1>13. x.op \notin PickOps \cup {"FinishCleaning"} => bucket_id' = bucket_id
  BY <1>0, <1>5, <1>7
<1> QED
  BY <1>6, <1>8, <1>9, <1>10, <1>11, <1>12, <1>13 DEF x

(* The commit of SealRotate, CompleteDrainSeal or PromoteStandbyToActive is that
   transaction of ShardStore. *)
LEMMA CommitOfPick ==
    ASSUME StoreInv, TxInv, NEW t \in Tx, Commit(t), tx[t].op \in PickOps
    PROVE  BucketStep(tx[t].b)
<1> DEFINE x == tx[t]
           b == x.b
           P == x.picked
<1>0. x \in TxRec /\ TxOK(x) /\ x.at = "commit" /\ b \in Bucket /\ x.op # "RegisterShard"
  BY DEF TxInv, TxOK, Commit, Shape, Arguments, BucketOps, PickOps, RotateOps
<1>1. P \in PickStandby
  BY <1>0, PickedRows
<1>2. P # {} => InBucket(b, "active") \subseteq x.hit
  <2>1. P # {} => HasEntered(x, b)
    BY <1>0 DEF HasEntered, EnteringOf, BucketOf, PickOps, RotateOps
  <2> QED
    BY <1>0, <2>1 DEF TxOK
<1>3. /\ full' = full /\ drain_started_at' = drain_started_at
      /\ fresh' = [s \in Shard |-> s \in P \/ fresh[s]]
      /\ x.op # "CompleteDrainSeal" => drain_ready' = drain_ready
      /\ bumpTopologyVersion /\ UNCHANGED <<config, role>>
  BY <1>0, CommitColumns DEF PickOps, RotateOps, StoreInv
<1>4. /\ state' = [s \in Shard |-> IF s \in x.hit THEN NewState(x)
                                   ELSE IF s \in P THEN "active" ELSE state[s]]
      /\ bucket_id' = [s \in Shard |-> IF s \in P THEN b ELSE bucket_id[s]]
  BY <1>0 DEF Commit, PickOps, RotateOps
<1>5. x.op \in PickOps /\ x.hit \subseteq Matching(x)
  BY <1>0 DEF TxOK, Shape, RowSets
<1>d. drain_ready \in [Shard -> BOOLEAN]
  BY DEF StoreInv, StoreTypeOK
<1>e. drain_ready' = [s \in Shard |->
         drain_ready[s] /\ ~(s \in x.hit /\ x.op \in {"BeginDrain", "FinishCleaning", "CompleteDrainSeal"})]
  BY <1>0 DEF Commit
<1>g. /\ x.op \in RotateOps => x.hit # {} /\ \A r, s \in x.hit : r = s
      /\ x.op = "PromoteStandbyToActive" => x.hit = {} /\ x.picked # {}
  BY <1>0 DEF TxOK, Shape, RowSets, Progress, RotateOps
<1> HIDE DEF x, b, P
<1>6. CASE x.op = "PromoteStandbyToActive"
  <2>1. x.hit = {} /\ P # {}
    BY <1>6, <1>g DEF P
  <2>2. \A s \in P : IndexAdmits(b, s)
    BY <1>2, <2>1 DEF IndexAdmits
  <2>3. state' = [s \in Shard |-> IF s \in P THEN "active" ELSE state[s]]
    BY <1>4, <2>1
  <2>4. PromoteStandbyToActive(b, P)
    BY <1>1, <1>3, <1>4, <1>6, <2>1, <2>2, <2>3 DEF PromoteStandbyToActive
  <2> QED
    BY <1>1, <2>4 DEF BucketStep, b, x
<1>7. CASE x.op \in RotateOps
  <2>1. PICK a \in x.hit : x.hit = {a}
    BY <1>7, <1>g
  <2>2. a \in Matching(x)
    BY <1>5, <2>1
  <2>3. state' = [s \in Shard |-> IF s = a THEN "sealed" ELSE IF s \in P THEN "active" ELSE state[s]]
    <3>1. NewState(x) = "sealed"
      BY <1>7 DEF NewState, RotateOps
    <3> QED
      BY <1>4, <2>1, <3>1
  <2>4. SealAndPromote(b, a, P)
    BY <1>1, <1>3, <1>4, <2>3 DEF SealAndPromote
  <2>5. CASE x.op = "SealRotate"
    <3>1. a \in InBucket(b, "active")
      BY <2>2, <2>5 DEF Matching, b
    <3>2. SealRotate(b, P)
      BY <1>3, <2>4, <2>5, <3>1 DEF SealRotate
    <3> QED
      BY <1>1, <3>2 DEF BucketStep, b, x
  <2>6. CASE x.op = "CompleteDrainSeal"
    <3>1. a \in InBucket(b, "draining")
      BY <2>2, <2>6 DEF Matching, b
    <3>2. \A s \in P : IndexAdmits(b, s)
      BY <1>2, <2>1, <3>1 DEF IndexAdmits, InBucket, DataShards
    <3>3. drain_ready' = [drain_ready EXCEPT ![a] = FALSE]
      BY <1>d, <1>e, <2>1, <2>6, Zenon
    <3>4. CompleteDrainSeal(b, P)
      BY <2>4, <3>1, <3>2, <3>3, Zenon DEF CompleteDrainSeal
    <3> QED
      BY <1>1, <3>4 DEF BucketStep, b, x
  <2> QED
    BY <1>7, <2>5, <2>6 DEF RotateOps
<1> QED
  BY <1>5, <1>6, <1>7 DEF PickOps

(* The commit of BeginDrain locks the only active row of the bucket, that of
   MarkBucketCleaning the sealed rows it has seen. *)
LEMMA CommitOfBucket ==
    ASSUME StoreInv, TxInv, NEW t \in Tx, Commit(t), tx[t].op \in {"BeginDrain", "MarkBucketCleaning"}
    PROVE  BucketStep(tx[t].b)
<1> DEFINE x == tx[t]
           b == x.b
<1>0. /\ x \in TxRec /\ TxOK(x) /\ x.at = "commit" /\ b \in Bucket
      /\ x.op \notin PickOps \cup {"RegisterShard", "FinishCleaning"} /\ x.op \in {"BeginDrain", "MarkBucketCleaning"}
  BY DEF TxInv, TxOK, Commit, Shape, Arguments, BucketOps, PickOps, RotateOps
<1>1. x.hit # {} /\ x.hit \subseteq Matching(x) /\ x.picked = {}
  BY <1>0 DEF TxOK, Shape, RowSets, Progress
<1>2. /\ full' = full /\ fresh' = fresh /\ bucket_id' = bucket_id
      /\ x.op # "BeginDrain" => drain_ready' = drain_ready /\ drain_started_at' = drain_started_at
      /\ bumpTopologyVersion /\ UNCHANGED <<config, role>>
  BY <1>0, CommitColumns DEF StoreInv, PickOps, RotateOps
<1>3. state' = [s \in Shard |-> IF s \in x.hit THEN NewState(x) ELSE state[s]]
  BY <1>0, <1>1 DEF Commit
<1>4. drain_started_at' = [s \in Shard |-> IF s \notin x.hit THEN drain_started_at[s]
                                           ELSE CASE x.op = "BeginDrain"     -> "recent"
                                                  [] x.op = "FinishCleaning" -> "null"
                                                  [] OTHER                   -> drain_started_at[s]]
  BY <1>0 DEF Commit
<1>5. drain_ready' = [s \in Shard |->
         drain_ready[s] /\ ~(s \in x.hit /\ x.op \in {"BeginDrain", "FinishCleaning", "CompleteDrainSeal"})]
  BY <1>0 DEF Commit
<1>d. drain_ready \in [Shard -> BOOLEAN]
  BY DEF StoreInv, StoreTypeOK
<1> HIDE DEF x, b
<1>6. CASE x.op = "BeginDrain"
  <2>1. x.hit \subseteq InBucket(b, "active")
    <3>1. Matching(x) = InBucket(b, "active")
      BY <1>6 DEF Matching, b
    <3> QED
      BY <1>1, <3>1
  <2>2. x.hit = InBucket(b, "active")
    BY <1>0, <1>1, <2>1 DEF StoreInv, OneActivePerBucket
  <2>3. state' = [s \in Shard |-> IF s \in InBucket(b, "active") THEN "draining" ELSE state[s]]
    BY <1>3, <1>6, <2>2 DEF NewState, RotateOps
  <2>4. drain_started_at' = [s \in Shard |-> IF s \in InBucket(b, "active") THEN "recent" ELSE drain_started_at[s]]
    BY <1>4, <1>6, <2>2
  <2>5. drain_ready' = [s \in Shard |-> s \notin InBucket(b, "active") /\ drain_ready[s]]
    BY <1>d, <1>5, <1>6, <2>2
  <2>6. BeginDrain(b)
    BY <1>1, <1>2, <2>2, <2>3, <2>4, <2>5 DEF BeginDrain
  <2> QED
    BY <2>6 DEF BucketStep, b, x
<1>7. CASE x.op = "MarkBucketCleaning"
  <2>1. x.hit \in (SUBSET InBucket(b, "sealed")) \ {{}}
    <3>1. Matching(x) = InBucket(b, "sealed")
      BY <1>7 DEF Matching, b
    <3> QED
      BY <1>1, <3>1
  <2>2. state' = [s \in Shard |-> IF s \in x.hit THEN "cleaning" ELSE state[s]]
    BY <1>3, <1>7 DEF NewState, RotateOps
  <2>3. MarkBucketCleaning(b)
    BY <1>2, <1>7, <2>1, <2>2 DEF MarkBucketCleaning
  <2> QED
    BY <2>3 DEF BucketStep, b, x
<1> QED
  BY <1>0, <1>6, <1>7

(* The commit of PatchState, FinishCleaning or RegisterShard is that transaction of
   ShardStore on its one row. *)
LEMMA CommitOfShard ==
    ASSUME StoreInv, TxInv, NEW t \in Tx, Commit(t), tx[t].op \in ShardOps
    PROVE  \E s \in Shard : ShardStep(s)
<1> DEFINE x == tx[t]
<1>0. /\ x \in TxRec /\ TxOK(x) /\ x.at = "commit" /\ x.op \in ShardOps /\ x.op \notin PickOps
      /\ x.picked = {} /\ x.hit # {} /\ x.hit \subseteq Matching(x)
  BY DEF TxInv, TxOK, Commit, Shape, RowSets, Progress, PickOps, RotateOps, ShardOps
<1>1. PICK s \in Shard : x.s = {s}
  BY <1>0 DEF TxOK, Shape, Arguments
<1>2. Matching(x) \subseteq x.s
  BY <1>0 DEF Matching, ShardOps
<1>3. x.hit = {s} /\ s \in Matching(x)
  BY <1>0, <1>1, <1>2
<1>4. /\ x.op # "FinishCleaning" => full' = full /\ drain_started_at' = drain_started_at
                                    /\ drain_ready' = drain_ready /\ bucket_id' = bucket_id
      /\ x.op # "RegisterShard" => fresh' = fresh
      /\ bumpTopologyVersion /\ UNCHANGED <<config, role>>
  BY <1>0, CommitColumns DEF StoreInv, PickOps, RotateOps, ShardOps
<1>5. /\ role \in [Shard -> Role] /\ state \in [Shard -> State \cup {"absent"}]
      /\ bucket_id \in [Shard -> Bucket \cup {NoBucket}]
      /\ full \in [Shard -> BOOLEAN] /\ drain_ready \in [Shard -> BOOLEAN] /\ fresh \in [Shard -> BOOLEAN]
      /\ drain_started_at \in [Shard -> {"null", "recent", "expired"}]
  BY DEF StoreInv, StoreTypeOK
<1>6. CASE x.op = "PatchState"
  <2>1. x.to \in PatchTargets
    BY <1>0, <1>6 DEF TxOK, Shape, Arguments
  <2>2. Registered(s) /\ CanTransition(role[s], state[s], x.to)
    BY <1>0, <1>3, <1>6 DEF Matching, TxOK, Validated
  <2>3. x.to = "active" => IndexAdmits(bucket_id[s], s)
    <3> SUFFICES ASSUME x.to = "active", bucket_id[s] # NoBucket
                 PROVE  InBucket(bucket_id[s], "active") \subseteq {s}
      BY DEF IndexAdmits
    <3>1. (CHOOSE r \in x.hit : TRUE) = s
      BY <1>3
    <3>2. HasEntered(x, bucket_id[s])
      BY <1>0, <1>6, <3>1, Zenon DEF HasEntered, EnteringOf, BucketOf
    <3>3. bucket_id[s] \in Bucket
      BY <1>5
    <3> QED
      BY <1>0, <1>3, <3>2, <3>3 DEF TxOK
  <2>4. state' = [state EXCEPT ![s] = x.to]
    <3>1. NewState(x) = x.to
      BY <1>6 DEF NewState, RotateOps
    <3>2. state' = [r \in Shard |-> IF r \in x.hit THEN NewState(x)
                                    ELSE IF r \in x.picked THEN "active" ELSE state[r]]
      BY <1>6 DEF Commit
    <3> QED
      BY <1>0, <1>3, <1>5, <3>1, <3>2, Zenon
  <2>5. PatchState(s, x.to)
    BY <1>4, <1>6, <2>2, <2>3, <2>4 DEF PatchState
  <2> QED
    BY <2>1, <2>5, Zenon DEF ShardStep
<1>7. CASE x.op = "FinishCleaning"
  <2>0. x.op \notin RotateOps \cup {"BeginDrain", "MarkBucketCleaning", "PatchState", "RegisterShard"}
    BY <1>7 DEF RotateOps
  <2>1. state[s] = "cleaning"
    <3>1. Matching(x) = {r \in x.s : state[r] = "cleaning"}
      BY <1>7 DEF Matching
    <3> QED
      BY <1>3, <3>1
  <2>2. state' = [state EXCEPT ![s] = "standby"]
    <3>1. NewState(x) = "standby"
      BY <1>7 DEF NewState, RotateOps
    <3>2. state' = [r \in Shard |-> IF r \in x.hit THEN NewState(x)
                                    ELSE IF r \in x.picked THEN "active" ELSE state[r]]
      BY <1>7 DEF Commit
    <3> QED
      BY <1>0, <1>3, <1>5, <3>1, <3>2, Zenon
  <2>3. bucket_id' = [bucket_id EXCEPT ![s] = NoBucket]
    <3>1. bucket_id' = [r \in Shard |-> IF r \in x.picked THEN x.b
                                        ELSE IF r \in x.hit /\ x.op = "FinishCleaning" THEN NoBucket
                                        ELSE bucket_id[r]]
      BY <1>7 DEF Commit
    <3> QED
      BY <1>0, <1>3, <1>5, <1>7, <3>1, Zenon
  <2>4. full' = [full EXCEPT ![s] = FALSE]
    <3>1. full' = [r \in Shard |-> full[r] /\ ~(r \in x.hit /\ x.op = "FinishCleaning")]
      BY <1>7 DEF Commit
    <3> QED
      BY <1>3, <1>5, <1>7, <3>1, Zenon
  <2>5. drain_started_at' = [drain_started_at EXCEPT ![s] = "null"]
    <3>1. drain_started_at' = [r \in Shard |-> IF r \notin x.hit THEN drain_started_at[r]
                                               ELSE CASE x.op = "BeginDrain"     -> "recent"
                                                      [] x.op = "FinishCleaning" -> "null"
                                                      [] OTHER                   -> drain_started_at[r]]
      BY <1>7 DEF Commit
    <3> QED
      BY <1>3, <1>5, <1>7, <3>1, Zenon
  <2>6. drain_ready' = [drain_ready EXCEPT ![s] = FALSE]
    <3>1. drain_ready' = [r \in Shard |->
             drain_ready[r] /\ ~(r \in x.hit /\ x.op \in {"BeginDrain", "FinishCleaning", "CompleteDrainSeal"})]
      BY <1>7 DEF Commit
    <3> QED
      BY <1>3, <1>5, <1>7, <3>1, Zenon
  <2>7. FinishCleaning(s)
    BY <1>4, <1>7, <2>1, <2>2, <2>3, <2>4, <2>5, <2>6 DEF FinishCleaning
  <2> QED
    BY <2>7, Zenon DEF ShardStep
<1>8. CASE x.op = "RegisterShard"
  <2>1. NewState(x) = "standby"
    BY <1>8 DEF NewState, RotateOps
  <2>2. state' = [r \in Shard |-> IF r \in {q \in x.hit : ~Registered(q)} THEN NewState(x)
                                  ELSE IF r \in x.picked THEN "active" ELSE state[r]]
    BY <1>8 DEF Commit
  <2>3. state' = IF Registered(s) THEN state ELSE [state EXCEPT ![s] = StartupState("data")]
    <3>1. StartupState("data") = "standby"
      BY DEF StartupState
    <3>2. CASE Registered(s)
      <4>1. \A r \in Shard : state'[r] = state[r]
        BY <1>0, <1>3, <2>2, <3>2
      <4> QED
        BY <1>5, <2>2, <3>2, <4>1
    <3>3. CASE ~Registered(s)
      <4>1. \A r \in Shard : state'[r] = IF r = s THEN "standby" ELSE state[r]
        BY <1>0, <1>3, <2>1, <2>2, <3>3
      <4>2. state' = [r \in Shard |-> IF r = s THEN "standby" ELSE state[r]]
        BY <2>2, <4>1
      <4> HIDE DEF x
      <4> QED
        BY <1>5, <3>1, <3>3, <4>2, Zenon
    <3> QED
      BY <3>2, <3>3
  <2>4. role' = IF Registered(s) THEN role ELSE [role EXCEPT ![s] = "data"]
    <3>1. ~Registered(s) => role[s] = "data"
      <4>1. DefaultsBeforeInsert
        BY DEF StoreInv
      <4> QED
        BY <1>1, <4>1, Zenon DEF DefaultsBeforeInsert
    <3> QED
      BY <1>4, <1>5, <3>1
  <2>5. fresh' = [fresh EXCEPT ![s] = TRUE]
    <3>1. fresh' = [r \in Shard |-> fresh[r] \/ r \in x.picked \/ (r \in x.hit /\ x.op = "RegisterShard")]
      BY <1>8 DEF Commit
    <3> QED
      BY <1>0, <1>3, <1>5, <1>8, <3>1, Zenon
  <2>6. RegisterShard(s, "data", "")
    BY <1>4, <1>8, <2>3, <2>4, <2>5, Zenon DEF RegisterShard, StartupStateAllowed
  <2> QED
    BY <2>6, Zenon DEF ShardStep, Role
<1> QED
  BY <1>0, <1>6, <1>7, <1>8 DEF ShardOps
-----------------------------------------------------------------------------
(* No transaction is in progress at first. *)
LEMMA TxInvInit == TxInit => TxInv
<1> SUFFICES ASSUME TxInit PROVE TxInv
  OBVIOUS
<1>1. tx \in [Tx -> TxRec] /\ \A t \in Tx : tx[t] = Idle
  BY IdleShape DEF TxInit
<1>2. TxOK(Idle) /\ \A y : Apart(Idle, y)
  BY IdleShape, NothingLocked, Zenon DEF Idle
<1> QED
  BY <1>1, <1>2 DEF TxInv

(* What TxInv says depends on the rows' role, state and bucket only. *)
LEMMA OtherColumnsKeep ==
    ASSUME TxInv, UNCHANGED <<tx, role, state, bucket_id>>
    PROVE  TxInv'
<1>1. \A y : Matching(y)' = Matching(y)
  BY DEF Matching, InBucket, DataShards, Registered, CanTransition
<1>2. StandbyPool' = StandbyPool /\ \A b : InBucket(b, "active")' = InBucket(b, "active")
  BY DEF StandbyPool, InBucket, DataShards
<1>3. \A y, b : HasEntered(y, b)' <=> HasEntered(y, b)
  BY DEF HasEntered, EnteringOf, BucketOf
<1>4. \A u \in Tx : TxOK(tx[u])'
  <2>1. \A y : Validated(y)' <=> Validated(y)
    BY DEF Validated, CanTransition
  <2> QED
    BY <1>1, <1>2, <1>3, <2>1 DEF TxInv, TxOK
<1>5. \A u, v \in Tx : u # v => Apart(tx[u], tx[v])'
  BY <1>3 DEF TxInv, Apart
<1> QED
  BY <1>4, <1>5 DEF TxInv

(* Every statement maps to no step of ShardStore, and every commit to one. *)
LEMMA TxStepImplements ==
    ASSUME StoreInv, TxInv, [TxNext]_txVars
    PROVE  [StoreNext]_storeVars
<1>1. CASE UNCHANGED txVars
  BY <1>1 DEF txVars
<1>2. CASE (\E c \in Config : Bootstrap(c)) /\ UNCHANGED tx
  BY <1>2 DEF StoreNext
<1>3. ASSUME NEW t \in Tx, BeginBucket(t) \/ BeginShard(t) \/ Statement(t) \/ Rollback(t), ~Commit(t)
      PROVE  UNCHANGED storeVars
  BY <1>3, Zenon DEF BeginBucket, BeginShard, Start, Statement, Scan, LockRow, Update, Pick, PickNone, Enter, Bump,
                     Rollback
<1>4. ASSUME NEW t \in Tx, Commit(t) PROVE StoreNext
  <2>1. tx[t].op \in BucketOps \cup ShardOps /\ (tx[t].op \in BucketOps => tx[t].b \in Bucket)
    BY <1>4, Zenon DEF TxInv, TxOK, Shape, Arguments, TxRec, Commit
  <2>2. CASE tx[t].op \in BucketOps
    BY <1>4, <2>1, <2>2, CommitOfPick, CommitOfBucket DEF StoreNext, BucketOps
  <2>3. CASE tx[t].op \in ShardOps
    BY <1>4, <2>3, CommitOfShard DEF StoreNext
  <2> QED
    BY <2>1, <2>2, <2>3
<1>5. ASSUME NEW s \in Shard, Autocommit(s) PROVE StoreNext
  BY <1>5, Zenon DEF Autocommit, StoreNext, ShardStep
<1> QED
  BY <1>1, <1>2, <1>3, <1>4, <1>5 DEF TxNext

(* Every step keeps the invariant of the transactions in progress. *)
LEMMA TxInvStep ==
    ASSUME StoreInv, TxInv, [TxNext]_txVars
    PROVE  TxInv'
<1>1. CASE UNCHANGED txVars
  BY <1>1, OtherColumnsKeep DEF txVars, storeVars, shardVars
<1>2. ASSUME NEW c \in Config, Bootstrap(c), UNCHANGED tx PROVE TxInv'
  BY <1>2, OtherColumnsKeep DEF Bootstrap, shardVars
<1>3. ASSUME NEW s \in Shard, Autocommit(s) PROVE TxInv'
  BY <1>3, OtherColumnsKeep DEF Autocommit, MarkDrainReady
<1>4. ASSUME NEW t \in Tx, Commit(t) PROVE TxInv'
  BY <1>4, CommitKeeps DEF StoreInv
<1>5. ASSUME NEW t \in Tx, Statement(t) PROVE TxInv'
  BY <1>4, <1>5, ScanKeeps, LockRowKeeps, UpdateKeeps, PickKeeps, LaterKeeps DEF Statement
<1> QED
  BY <1>1, <1>2, <1>3, <1>5, BeginKeeps, RollbackKeeps DEF TxNext

(* The tables satisfy their invariant and the transactions in progress theirs. *)
THEOREM TxInvariant == TxSpec => [](StoreInv /\ TxInv)
<1>1. TxInit => StoreInv /\ TxInv
  BY TxInvInit, StoreInvInit DEF TxInit
<1>2. StoreInv /\ TxInv /\ [TxNext]_txVars => (StoreInv /\ TxInv)'
  BY TxStepImplements, TxInvStep, StoreInvStep
<1> QED
  BY <1>1, <1>2, PTL DEF TxSpec

(* For any number of connections, shards and buckets, transactions whose statements
   interleave at READ COMMITTED have the effect of the atomic transactions of
   internal/store: no row a transaction has read and locked is stale when it commits,
   no standby is promoted twice and no bucket gets two active shards. *)
THEOREM StatementsAreAtomic == TxSpec => ImplementsStore
<1>1. TxInit => StoreInit
  BY DEF TxInit
<1>2. StoreInv /\ TxInv /\ [TxNext]_txVars => [StoreNext]_storeVars
  BY TxStepImplements
<1>3. [StoreNext]_storeVars => [UNCHANGED storeVars \/ StoreNext]_storeVars
  OBVIOUS
<1> QED
  BY <1>1, <1>2, <1>3, TxInvariant, PTL DEF TxSpec, ImplementsStore
-----------------------------------------------------------------------------
(* Which transactions can wait for each other in a circle.  One that is past its rows
   waits only for one that is further, so all of a circle are locking rows.  Each of
   them holds a row that another one waits for and still has a row to lock: it is one
   of the statements that may select several rows. *)

ScanOps == {"CompleteDrainSeal", "MarkBucketCleaning"}

(* While a transaction locks its rows those it holds are not those it has still to
   lock, and there is a single one unless the statement may select several. *)
RowsApart(x) ==
    x.at = "lock" => /\ x.held \cap x.todo = {}
                     /\ x.op \notin ScanOps => \A r, s \in x.held \cup x.todo : r = s
TxRowsApart == \A t \in Tx : RowsApart(tx[t])

(* The statements that name a shard, or the active shard of a bucket, select at most
   one row. *)
LEMMA OneMatch ==
    ASSUME StoreInv, NEW x \in TxRec, TxOK(x), x.at = "scan", x.op \notin ScanOps
    PROVE  \A r, s \in Matching(x) : r = s
<1>1. CASE x.op \in {"SealRotate", "BeginDrain"}
  <2>1. Matching(x) = InBucket(x.b, "active") /\ x.b \in Bucket
    BY <1>1 DEF Matching, TxOK, Shape, Arguments, BucketOps, PickOps, RotateOps
  <2> QED
    BY <2>1 DEF StoreInv, OneActivePerBucket
<1>2. CASE x.op \in ShardOps
  <2>1. Matching(x) \subseteq x.s
    BY <1>2, Zenon DEF Matching, ShardOps
  <2>2. \E s \in Shard : x.s = {s}
    BY <1>2 DEF TxOK, Shape, Arguments
  <2> QED
    BY <2>1, <2>2
<1>3. x.op \in {"SealRotate", "BeginDrain"} \cup ShardOps
  <2>1. x.op \in BucketOps \cup ShardOps \cup {"none"}
    BY Zenon DEF TxRec
  <2>2. x.op # "none" /\ x.op # "PromoteStandbyToActive"
    BY DEF TxOK, Shape, Arguments, RowSets
  <2> QED
    BY <2>1, <2>2 DEF BucketOps, PickOps, RotateOps, ScanOps
<1> QED
  BY <1>1, <1>2, <1>3

(* Locking a row moves it from one set to the other, or drops it. *)
LEMMA RowsApartStep ==
    ASSUME StoreInv, TxInv, TxRowsApart, [TxNext]_txVars
    PROVE  TxRowsApart'
<1>k. ASSUME NEW t \in Tx, NEW x, becomes(t, x), RowsApart(x) PROVE TxRowsApart'
  <2>1. tx'[t] = x /\ \A u \in Tx \ {t} : tx'[u] = tx[u]
    BY <1>k DEF TxInv, becomes
  <2> QED
    BY <1>k, <2>1 DEF TxRowsApart, RowsApart
<1>n. ASSUME NEW t \in Tx, NEW x, becomes(t, x), x.at # "lock" PROVE TxRowsApart'
  BY <1>k, <1>n DEF RowsApart
<1>0. \A t \in Tx : tx[t] \in TxRec
  BY DEF TxInv
<1>1. ASSUME NEW t \in Tx, Scan(t) PROVE TxRowsApart'
  <2> DEFINE x == [tx[t] EXCEPT !.at = "lock", !.todo = Matching(tx[t])]
  <2>1. tx[t].at = "scan" /\ TxOK(tx[t])
    BY <1>1 DEF Scan, TxInv
  <2>2. x.held = {} /\ x.todo = Matching(tx[t]) /\ x.op = tx[t].op
    BY <1>0, <2>1, Zenon DEF TxOK, Shape, Progress, TxRec
  <2>3. becomes(t, x)
    BY <1>1 DEF Scan
  <2> HIDE DEF x
  <2> QED
    BY <1>k, <2>1, <2>2, <2>3, OneMatch, <1>0 DEF RowsApart
<1>2. ASSUME NEW t \in Tx, NEW s \in Shard, LockRow(t, s) PROVE TxRowsApart'
  <2> DEFINE x == [tx[t] EXCEPT !.todo = @ \ {s}, !.held = @ \cup ({s} \cap Matching(tx[t]))]
  <2>1. x.todo = tx[t].todo \ {s} /\ x.held \subseteq tx[t].held \cup {s} /\ x.op = tx[t].op
    BY <1>0, Zenon DEF TxRec
  <2>2. becomes(t, x) /\ tx[t].at = "lock" /\ s \in tx[t].todo
    BY <1>2 DEF LockRow
  <2> HIDE DEF x
  <2>3. RowsApart(tx[t])
    BY DEF TxRowsApart
  <2>4. RowsApart(x)
    BY <2>1, <2>2, <2>3 DEF RowsApart
  <2> QED
    BY <1>k, <2>2, <2>4
<1>3. ASSUME NEW t \in Tx, BeginBucket(t) \/ BeginShard(t) PROVE TxRowsApart'
  <2>1. ASSUME NEW x, Start(t, x), x.at # "lock" PROVE TxRowsApart'
    BY <1>n, <2>1 DEF Start
  <2>2. ASSUME BeginBucket(t) PROVE TxRowsApart'
    <3>1. PICK b \in Bucket, op \in RotateOps \cup {"PromoteStandbyToActive", "BeginDrain", "MarkBucketCleaning"} :
             Start(t, [Idle EXCEPT !.op = op, !.b = b,
                                   !.at = IF op = "PromoteStandbyToActive" THEN "pick" ELSE "scan"])
      BY <2>2, Zenon DEF BeginBucket
    <3> DEFINE x == [Idle EXCEPT !.op = op, !.b = b,
                                 !.at = IF op = "PromoteStandbyToActive" THEN "pick" ELSE "scan"]
    <3>2. x.at # "lock"
      BY DEF Idle
    <3> QED
      BY <2>1, <3>1, <3>2, Zenon
  <2>3. ASSUME BeginShard(t) PROVE TxRowsApart'
    <3>1. PICK s, op, to : Start(t, [Idle EXCEPT !.op = op, !.at = "scan", !.s = {s}, !.to = to])
                           \/ Start(t, [Idle EXCEPT !.op = op, !.at = "scan", !.s = {s}])
      BY <2>3, Zenon DEF BeginShard
    <3> DEFINE x == [Idle EXCEPT !.op = op, !.at = "scan", !.s = {s}, !.to = to]
               y == [Idle EXCEPT !.op = op, !.at = "scan", !.s = {s}]
    <3>2. x.at # "lock" /\ y.at # "lock"
      BY DEF Idle
    <3> QED
      BY <2>1, <3>1, <3>2, Zenon
  <2> QED
    BY <1>3, <2>2, <2>3
<1>4. ASSUME NEW t \in Tx, Update(t) \/ Pick(t) \/ PickNone(t) \/ Enter(t) \/ Bump(t) PROVE TxRowsApart'
  <2>0. tx[t] \in TxRec
    BY <1>0
  <2>1. ASSUME Update(t) PROVE TxRowsApart'
    <3>1. PICK hit : becomes(t, [tx[t] EXCEPT !.hit = hit,
                                              !.at = IF tx[t].op \in RotateOps THEN "pick"
                                                     ELSE IF tx[t].to = "active" THEN "enter" ELSE "bump"])
      BY <2>1, Zenon DEF Update
    <3> DEFINE x == [tx[t] EXCEPT !.hit = hit, !.at = IF tx[t].op \in RotateOps THEN "pick"
                                                       ELSE IF tx[t].to = "active" THEN "enter" ELSE "bump"]
    <3>2. becomes(t, x) /\ x.at # "lock"
      BY <2>0, <3>1, Zenon DEF TxRec
    <3> HIDE DEF x
    <3> QED
      BY <1>n, <3>2
  <2>2. ASSUME Pick(t) PROVE TxRowsApart'
    <3>1. PICK s : becomes(t, [tx[t] EXCEPT !.picked = {s}, !.at = "enter"])
      BY <2>2, Zenon DEF Pick
    <3> DEFINE x == [tx[t] EXCEPT !.picked = {s}, !.at = "enter"]
    <3>2. x.at # "lock"
      BY <2>0, Zenon DEF TxRec
    <3> QED
      BY <1>n, <3>1, <3>2, Zenon
  <2>3. ASSUME NEW at, at # "lock", goto(t, at) PROVE TxRowsApart'
    <3> DEFINE x == [tx[t] EXCEPT !.at = at]
    <3>1. x.at # "lock" /\ becomes(t, x)
      BY <2>0, <2>3, Zenon DEF TxRec, goto
    <3> QED
      BY <1>n, <3>1, Zenon
  <2> QED
    BY <1>4, <2>1, <2>2, <2>3 DEF PickNone, Enter, Bump
<1>5. ASSUME NEW t \in Tx, Commit(t) \/ Rollback(t) PROVE TxRowsApart'
  <2>1. becomes(t, Idle) /\ Idle.at # "lock"
    BY <1>5, Zenon DEF Commit, Rollback, Idle
  <2> QED
    BY <1>n, <2>1
<1>6. ASSUME UNCHANGED tx PROVE TxRowsApart'
  BY <1>6 DEF TxRowsApart, RowsApart
<1> QED
  BY <1>1, <1>2, <1>3, <1>4, <1>5, <1>6 DEF TxNext, Statement, Autocommit, txVars

(* The transaction that waits at the unique index waits for one that is further, or
   for the one that replaces the active shard of the bucket, of which there is one. *)
LEMMA EnterWaits ==
    ASSUME StoreInv, TxInv, NEW t \in Tx, NEW u \in Tx \ {t}, NEW v \in Tx \ {u},
           tx[t].at = "enter", tx[u].at = "enter", WaitsFor(t, u), WaitsFor(u, v)
    PROVE  tx[v].at \in {"bump", "commit"}
<1>1. Left(u, EntersBucket(t))
  BY DEF WaitsFor, Entered
<1>2. PICK r \in tx[u].hit : r \in InBucket(EntersBucket(t), "active")
  BY <1>1 DEF Left
<1>3. TxOK(tx[u]) /\ TxOK(tx[v]) /\ Apart(tx[u], tx[v])
  BY DEF TxInv
<1>4. tx[u].op \in PickOps \cup {"PatchState"}
  BY <1>3 DEF TxOK, Shape, Progress
<1>5. r \in tx[u].held /\ r \in Matching(tx[u])
  BY <1>2, <1>3 DEF TxOK, Shape, RowSets
<1>6. EntersBucket(u) = bucket_id[r]
  <2>1. CASE tx[u].op = "PatchState"
    <3>1. tx[u].hit = {r}
      <4>1. tx[u].hit \subseteq Matching(tx[u]) /\ Matching(tx[u]) \subseteq tx[u].s
        BY <1>3, <2>1 DEF TxOK, Shape, RowSets, Matching
      <4>2. \E s \in Shard : tx[u].s = {s}
        BY <1>3, <2>1 DEF TxOK, Shape, Arguments, ShardOps
      <4> QED
        BY <1>2, <4>1, <4>2
    <3> QED
      BY <2>1, <3>1 DEF EntersBucket
  <2>2. CASE tx[u].op = "SealRotate"
    BY <1>5, <2>2 DEF Matching, EntersBucket, InBucket
  <2>3. CASE tx[u].op = "CompleteDrainSeal"
    BY <1>2, <1>5, <2>3 DEF Matching, EntersBucket, InBucket
  <2>4. CASE tx[u].op = "PromoteStandbyToActive"
    BY <1>5, <1>3, <2>4 DEF TxOK, Shape, RowSets
  <2> QED
    BY <1>4, <2>1, <2>2, <2>3, <2>4 DEF PickOps, RotateOps
<1>7. r \in InBucket(EntersBucket(u), "active")
  BY <1>2, <1>6 DEF InBucket
<1>8. ASSUME Left(v, EntersBucket(u)) PROVE FALSE
  <2>1. PICK s \in tx[v].hit : s \in InBucket(EntersBucket(u), "active")
    BY <1>8 DEF Left
  <2>2. EntersBucket(u) \in Bucket
    BY <1>6, <1>7 DEF WaitsFor, StoreInv, StoreTypeOK, InBucket, DataShards
  <2>3. s = r
    BY <1>7, <2>1, <2>2 DEF StoreInv, OneActivePerBucket
  <2>4. s \in tx[v].held
    BY <1>3, <2>1 DEF TxOK, Shape, RowSets
  <2> QED
    BY <1>3, <1>5, <2>3, <2>4 DEF Apart, RowsOfTx
<1> QED
  BY <1>8 DEF WaitsFor, Entered

(* What a transaction waits for, by the statement it has reached. *)
LEMMA WaitPoints ==
    ASSUME TxInv, NEW t \in Tx, NEW u \in Tx \ {t}, WaitsFor(t, u)
    PROVE  /\ tx[t].at \in {"lock", "enter", "bump"}
           /\ tx[t].at = "bump" => tx[u].at = "commit"
           /\ tx[t].at = "enter" => tx[u].at \in {"pick", "enter", "bump", "commit"}
           /\ tx[t].at = "lock" => tx[t].todo \cap RowsOf(u) # {}
<1>1. TxOK(tx[u]) /\ tx[u] \in TxRec
  BY DEF TxInv
<1>2. ASSUME NEW b, Left(u, b) PROVE tx[u].at \in {"pick", "enter", "bump", "commit"}
  BY <1>1, <1>2, Zenon DEF Left, TxOK, Shape, Progress, TxRec
<1> QED
  BY <1>2 DEF WaitsFor, HoldsConfig, Entered

(* Each transaction of a circle is locking rows. *)
LEMMA CircleLocksRows ==
    ASSUME StoreInv, TxInv, NEW S \in SUBSET Tx, \A t \in S : \E u \in S \ {t} : WaitsFor(t, u),
           NEW t \in S
    PROVE  tx[t].at = "lock"
<1>1. \A u \in S : tx[u].at \in {"lock", "enter", "bump"}
  BY WaitPoints
<1>2. \A u \in S : tx[u].at # "bump"
  BY <1>1, WaitPoints
<1>3. ASSUME tx[t].at = "enter" PROVE FALSE
  <2>1. PICK u \in S \ {t} : WaitsFor(t, u)
    OBVIOUS
  <2>2. tx[u].at = "enter"
    BY <1>1, <1>2, <1>3, <2>1, WaitPoints
  <2>3. PICK v \in S \ {u} : WaitsFor(u, v)
    OBVIOUS
  <2> QED
    BY <1>1, <1>2, <1>3, <2>1, <2>2, <2>3, EnterWaits
<1> QED
  BY <1>1, <1>2, <1>3

(* In a circle of transactions that wait for each other, whatever their number, every
   one is a CompleteDrainSeal or a MarkBucketCleaning that is still locking its rows:
   the statements of internal/store lock rows before they wait at the unique index,
   cluster_config last (bumpTopologyVersionTx), and only these two lock several. *)
THEOREM DeadlocksAmongRowScans == TxSpec => []OnlyRowScansDeadlock
<1>1. TxInit => TxRowsApart
  <2>1. Idle.at # "lock"
    BY DEF Idle
  <2>2. TxInit => \A t \in Tx : tx[t] = Idle
    BY DEF TxInit
  <2> QED
    BY <2>1, <2>2, Zenon DEF TxRowsApart, RowsApart
<1>2. StoreInv /\ TxInv /\ TxRowsApart /\ [TxNext]_txVars => TxRowsApart'
  BY RowsApartStep
<1>3. StoreInv /\ TxInv /\ TxRowsApart => OnlyRowScansDeadlock
  <2> SUFFICES ASSUME StoreInv, TxInv, TxRowsApart, NEW S \in SUBSET Tx, Circle(S), NEW t \in S
               PROVE  tx[t].at = "lock" /\ tx[t].op \in ScanOps
    BY DEF OnlyRowScansDeadlock, ScanOps
  <2>1. \A u \in S : tx[u].at = "lock"
    BY CircleLocksRows DEF Circle
  <2>2. tx[t].todo # {}
    <3>1. PICK u \in S \ {t} : WaitsFor(t, u)
      BY DEF Circle
    <3> QED
      BY <2>1, <3>1, WaitPoints
  <2>3. tx[t].held # {}
    <3>1. PICK u \in S \ {t} : WaitsFor(u, t)
      BY DEF Circle
    <3>2. RowsOf(t) # {}
      BY <2>1, <3>1, WaitPoints
    <3>3. tx[t].picked = {}
      BY <2>1 DEF TxInv, TxOK, Shape, Progress
    <3> QED
      BY <3>2, <3>3 DEF RowsOf
  <2>4. RowsApart(tx[t])
    BY DEF TxRowsApart
  <2> QED
    BY <2>1, <2>2, <2>3, <2>4 DEF RowsApart
<1> QED
  BY <1>1, <1>2, <1>3, TxInvariant, PTL DEF TxSpec
=============================================================================
