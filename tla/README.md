# Shardman in TLA+

A TLA+ model of the shardman coordinator, with TLC runs on small instances and
TLAPS proofs for instances of any size. Paths are relative to the repository root.

## 1. The system

Shardman assigns Postgres shards to buckets and tells applications where to
write. It does not proxy SQL.

| Part | Code | State | Operations that change state |
|------|------|-------|------------------------------|
| Metadata store | `internal/store`, `internal/fsm`, migrations | tables `cluster_config` (one row, with `topology_version`) and `shards` | `Bootstrap`, `RegisterShard`, `PromoteStandbyToActive`, `SealRotate`, `UpdateStats`, `PatchState`, `MarkBucketCleaning`, `FinishCleaning`, `BeginDrain`, `MarkDrainReady`, `CompleteDrainSeal` |
| Resolve service | `internal/resolve`, `grpcapi` | a call in progress | `Write`, `Read`: routing, failover of a stale active, auto-promotion |
| Routing | `internal/bucket/routing.go` | the clock | `ClassifyWrite`, `BucketsOutsideRetention` |
| Bucket ids | `internal/bucket/bucket.go` | none | conversions key → id → index |
| Seal supervisor | `internal/seal` | the lists of the tick in progress | complete finished drains, then drain full actives |
| Health supervisor | `internal/health` | the list of stale actives | rotate each one's bucket |
| Retention supervisor | `internal/retention` | the list of evicted buckets | check, then mark for cleaning |
| Server | `cmd/server`, `internal/grpcapi` | composition of the above | Admin and Internal handlers |
| Agent | `cmd/agent`, `internal/agent` | the data shard | report size, revoke writes, truncate |
| Topology | `internal/topology`, `grpcapi` `Get`/`Watch` | subscribers' one-slot channels | notify, snapshot, stream |
| Client SDK | `pkg/client` | cached topology | refresh, watch, local resolve |

A data shard lives standby → active → draining → sealed → cleaning → standby.
All coordination goes through the metadata tables. Several servers may share
them, every supervisor works from a list it read earlier, and most decisions take
several statements, so the hard behaviours are interleavings: a promotion that
commits after the situation it was decided for has gone, a rotation or drain that
names a bucket and hits another shard than the listed one, a check and an update
in separate transactions, late or repeated agent reports, a drain timeout racing
the agent, operators patching single columns, an empty or fully locked pool.
`PROJECT.json` lists each such hazard at its source line with the properties that
watch it.

## 2. Modules

| Module | Models | Correspondence |
|--------|--------|----------------|
| `ShardStore` | the tables, the state machine and every writing transaction | one variable per column, a function of the shard; `state = "absent"` is a missing row; one action is one committed transaction |
| `StoreTx` | the same transactions statement by statement | `tx[t].at` names the next statement; row locks, `SKIP LOCKED`, index waits, the lock on `cluster_config`; writes reach the tables at commit |
| `Routing` | the write window and the retention bound | a time bucket is its index |
| `Resolve` | `Resolve.Write` / `Read` | `rpc[r].pc` names the next statement; every statement is a step |
| `SealSupervisor`, `HealthSupervisor`, `RetentionSupervisor` | the three ticks | the list still to be worked through, one transaction per entry |
| `Coordinator` | all of these over one store, with Admin and agent calls and time | the composition of `cmd/server`; agents' reports may come at any time |
| `Agent` | `agent.Tick` and the data shard, over the store | one step per call of a tick; `rows` are the buckets whose rows the database holds, `rights` whether the application may write; a failed tick, a crash and a restart all abandon the tick |
| `RouteTable` | what the database promises to readers | abstract: `table`, `dbConfig` and `dbVersion`, a version that moves with the table; `ShardStore` implements it with its own columns (`PublishesRoutes`) |
| `TopologyFeed` | `buildTopology`, `Broadcast`, `Watch`, over a `RouteTable` | each read of a snapshot is a step; a channel holds one version; `asOf` is history |
| `RouteCache` | a cache that never goes back | abstract |
| `ClientCache` | the SDK's cached topology: refresh and watch | implements `RouteCache` for clients that only watch |
| `LocalResolve` | `pkg/client/local.go` | an answer is a set of shards, compared with the server's queries |
| `BucketKeys` | `bucket.go` | operators; integers of `IntBits` bits that wrap, floats of `MantissaBits` exact bits, and Go's calendar in closed form (`YearStart`, `MonthStart`, `MonthOf`) |
| `KeyRouting` | a configuration from flags and request to the routing of keys on both sides | variables for the row, the clock and the key looked up |
| `ShardStoreProofs`, `StoreTxProofs`, `CoordinatorProofs`, `HolderProofs`, `AgentProofs`, `ClientCacheProofs`, `LocalResolveProofs`, `KeyRoutingProofs` | theorems about the module of that name; `HolderProofs` about how many shards of a bucket the coordinator keeps in service; `ClientCacheProofs` about `TopologyFeed` too, `KeyRoutingProofs` about `BucketKeys` | section 4 |
| `MCShardStore`, `MCParts`, `MCCoordinator`, `MCKeyRouting` | instances for TLC | |

How data is abstracted:

- `last_seen_at` is `fresh` or not, `reported_bytes` is `full` or not,
  `drain_started_at` is null, recent or older than the timeout. Time is the actions
  `HeartbeatExpires`, `DrainTimeoutExpires` and `ClockTick`. An age is only looked
  at while the row is active or draining, so it only expires there.
- `FOR UPDATE SKIP LOCKED` (`PickStandby`) may return any free standby or none.
  A heartbeat or another promotion holds the lock of its row until it commits.
- The partial unique index is `IndexAdmits`. A statement that violates it aborts
  its transaction, so the action is disabled and the caller takes its error path.
- A failed transaction leaves the tables alone. Callers have an explicit error
  step (`ResolveFails`, `FailoverLost`, `HealthSkip`, `SealSkip`, `RetentionSkip`).
- A report's size changes only while the shard is active: nobody writes to it
  otherwise.
- `topology_version` is kept modulo `VersionModulus`.
- A key is its kind and value, a bucket id the tuple of what the code formats.
  `xxhash64` is any function of the string. Out-of-range float conversions are a
  choice. `json.Number` is a kind of its own (only the hash axis accepts it), and
  "number" stands for the Go number types that `bucket.go` has no case for. Over the
  wire every number is a float. The seconds/milliseconds threshold is a constant
  scaled to `IntBits`. An id whose year the layouts cannot parse has no index
  (`HasIndex`), and its key is refused.
- The application writes to a shard while it is active, draining or sealed; a write
  so late that the shard is being cleaned or was recycled is left out.
- In `StoreTx` a statement without `ORDER BY` locks its rows in any order, the
  cluster is bootstrapped before transactions start, only data shards register, and
  `UpdateStats` is left out: it writes columns no transaction there looks at.
- `MarkBucketCleaning` marks some of the sealed rows: its `UPDATE` does not see a row
  sealed by a transaction that commits after the statement's snapshot.

`StoreNext` allows every transaction with every argument at any time. It is the
ground the rest of the coordinator builds on: every step of `Coordinator` is one of
its steps or leaves the tables alone (lemma `CoordTransactions`), so the invariants
of the store hold for any number of servers.

Definitions marked "Variant" are plausible slips in the code. Each one stands for
the definition after it and makes a property fail; no specification uses them.

## 3. Runs

Passing runs:

| Run | Instance | Shows |
|-----|----------|-------|
| `store_any_patch` | 2 shards, 2 buckets, all five patch targets | one active per bucket, one always writable error shard, every change an edge of the state machine, no shard moves between buckets, no routing change without a version bump; the SDK's local answers for a bucket whose active shard is alive are those of the server's queries, and readers see a `RouteTable` |
| – its statements | 2 shards, 1 bucket, 2 transactions, patches to standby and active | circles of lock waits only among the statements that lock several rows (`OnlyRowScansDeadlock`); each commit is one atomic transaction (`ImplementsStore`) |
| – its keys | 30-bit integers, 27-bit floats, hours around the epoch and two Februaries | accepted configurations are usable; client and server put a key of a supported type into the same bucket; numeric ids are floors; seconds and milliseconds agree; hash ids have one width; the window fits `MinShards`; indexes count buckets |
| – its refreshing client | 1 client, 1 refresh in flight, no notifier, 2 versions | a snapshot labelled with the current version shows the current rows |
| `coord_safety` | 3 shards, 1 bucket, two concurrent writers, a seal supervisor | late promotions leave no more active or draining shards in a bucket than there are calls |
| `coord_live` | 2 shards, 1 bucket, one writer, seal and health supervisors, operators who rotate | only finished drains are sealed; drains end, full actives are drained, stale actives are replaced |
| `coord_retention` | 2 shards, 2 time buckets, clock of 3, retention depth 1 | nothing that still accepts writes is cleaned, evicted shards are cleaned |
| `parts_live`, agent | 1 shard, 2 buckets, three drain modes | buckets match states, recycled shards carry no old drain, shards hold their own bucket's rows only, `drain_ready` is about the present drain; cleaning ends, drains are reported |
| `parts_live`, watch | 1 watching client, 2 notifiers, 2 versions, 1 event in flight | no wake-up is lost, a watched cache never goes back, it catches up while the stream lasts |

`store_any_patch` and `parts_live` each hold several parts that share no state. A
behaviour runs one of them while the others rest in an initial state, so the state
spaces add up instead of multiplying. The statements work on the same tables as the
store, so the store's properties are checked on them too.

Runs in which TLC refutes what a document says of the program:

| Run | Statement | What happens |
|-----|-----------|--------------|
| `health_double_failover` | `docs/architecture.md:96`: a stale active is rotated | A shard goes stale and is listed. A Resolve call rotates it. The supervisor then rotates the bucket again and seals the fresh replacement |
| `seal_drains_replacement` | `docs/architecture.md:80`: a full active drains | A full shard is listed and rotated out by an operator. The supervisor drains its empty replacement |
| `drain_sealed_early` | `docs/sharding-model.md:27`: draining lets agents revoke writes before sealing | A promotion decided before the drain leaves an active shard in the draining bucket. It fills and drains too. Completing the first drain may seal the second shard |
| `drain_blocked_by_index` | `README.md:64`: `DRAIN_TIMEOUT` is the longest drain | After the same late promotion, and with a standby free, each `CompleteDrainSeal` violates the unique index and rolls back |
| `patched_drain_no_timeout` | `README.md:64` | `PatchShardState` to draining sets no `drain_started_at`, and the supervisor ignores the timeout of such a row |
| `unavailable_race` | `docs/master-spec.md:56`: `Unavailable` if the pool is empty | The loser of a promotion race sees the winner's shard in `HasActiveInBucket` and reports an exhausted pool |
| `retention_race` | `docs/architecture.md:91`: retention skips busy buckets | A promotion decided before the clock moved commits between retention's check and its update |

`coord_live` has one Resolve call in flight on purpose: with two,
`SealsOnlyFinishedDrains` and `DrainCompletes` fail, as `drain_sealed_early` and
`drain_blocked_by_index` show. What goes wrong is measured by
`HoldersBoundedByCalls`: each call may put one more shard into service in a bucket,
and no other actor does. `coord_safety` has two calls, the bound is reached, and
three shards would be enough to exceed it. With one call a bucket has one shard in
service, and the drains are in order. Operators who patch shards to draining can
still stop a drain: see `patched_drain_no_timeout`.

Bounds. Two shards are enough for an active or draining one and its replacement; the
runs that need a free standby beside those have three. The clock of
`coord_retention` moves twice, so that it can move on while a tick works from its
list. There is no cap on the number of calls, rotations or ticks. `store_any_patch`,
`coord_retention` and `parts_live` recycle shards (sealed → cleaning → standby); in
`coord_safety` and `coord_live` a sealed shard stays sealed. With `PatchTargets =
{"cleaning"}` they recycle too: they then have 4.4 million states instead of 1.3
million and 157154 instead of 58708, all their properties hold, and each takes about
nine minutes, which is why these are not the runs. One bucket suffices where the
properties speak of one bucket and shards are the only shared resource;
`store_any_patch` and `coord_retention` have two. `VersionModulus` is 2 where a
property is about the version and 1 elsewhere. Deadlock is checked in every run.

Symmetry is used only in runs of safety properties, over what starts alike: shards,
buckets and connections in `store_any_patch`, shards and calls in `coord_safety` and
`drain_sealed_early`.

Fairness (`FairCoordSpec`). Tickers keep firing and ticks work through their lists
(weak fairness of the listing and skipping steps). A transaction that is possible
again and again does not fail for ever (strong fairness of each supervisor's
transaction, with a free standby not locked for ever). The drain clock advances.
Nothing is assumed of agents, operators or clients.

In `parts_live` the agent's ticker fires and a tick that is abandoned is one of many:
no call fails for ever (strong fairness of each call). The Watch handler and the
receiving goroutine run on, and the 15 s ticker of `RefreshMetrics` keeps notifying
(weak fairness). Nothing is assumed of the stream's life or of admin calls. A part at
rest has none of its fair actions enabled.

Also seen while modelling, and not the subject of a run: a recycled shard keeps its
revoked write rights, since nothing grants them again; once a Watch stream ends
nothing reopens it, and the cache stays as it is; a refresh may overwrite a newer
snapshot; local resolve returns an active shard whose heartbeat is late until it is
rotated out, since the rows of a topology carry no heartbeat, although
`docs/master-spec.md:58` and `docs/architecture.md:99` exclude it from resolve; `n -
width + 1` overflows near the smallest integer; negative fractions are truncated
towards zero before the floor; integers above 2^53 reach the server rounded; a key
of a Go number type without a case in `bucket.go`, such as `float32`, goes to the
error shard by local resolve and to its bucket by the server; an agent that has read
`cleaning` truncates the shard even if an operator has patched it back to standby,
and it was promoted, since; `CompleteDrainSeal` and `MarkBucketCleaning` lock
several rows without `ORDER BY`, so nothing but the plan Postgres chooses keeps two
of a kind on one bucket from a deadlock; the code's threshold 32_536_800_000 differs
from the 32503680000 of `docs/sharding-model.md:13`; a transaction whose bump ran
before `Bootstrap` committed leaves no trace in the version.

## 4. Proofs

For any sets of shards, buckets, connections and clients, any callers and any
interleaving:

| Theorem | States | Provided that |
|---------|--------|---------------|
| `StoreTyped` | the columns are well typed | |
| `OneActive` | at most one active data shard per bucket | |
| `ErrorShardWritable` | at most one error shard, always active | |
| `Lifecycle`, `NeverRebalanced`, `EveryRoutingChangeVersioned` | the three action properties of `store_any_patch` | |
| `PoolConsistent` | buckets match states and no drain marks are left over | operators patch nothing to standby or active |
| `StatementsAreAtomic` | `StoreTx` implements `ShardStore`: the statements of concurrent transactions add up to atomic transactions | |
| `DeadlocksAmongRowScans` | in `StoreTx`, only completions of drains and markings for cleaning that are still locking rows wait for each other in a circle | |
| `CoordTyped` | the coordinator is well typed | |
| `CoordKeepsStoreInv` | the store's invariant is the coordinator's | |
| `CoordPoolConsistent` | buckets match states and no drain marks are left over, in the whole coordinator | operators patch nothing to standby or active |
| `RetentionSafe` | cleaning reaches only evicted buckets | nothing is patched to cleaning |
| `HoldersNeverExceedCalls` | a bucket has at most as many active or draining shards as there are Resolve calls at a time | finitely many calls, nothing is patched to active |
| `AgentsTyped`, `AgentsKeepOwnRows`, `AgentsDrainReadyIsTrue` | the safety properties of the agent part of `parts_live` | operators patch nothing to standby or active |
| `StorePublishesRoutes` | `ShardStore` implements `RouteTable` | |
| `LocalResolveAgrees` | on a current topology the client's local answers are the server's | the bucket's active shard, if any, is alive |
| `ClientTyped`, `CacheIsCurrent`, `NoWakeupLost`, `WatchNeverGoesBack` | the safety properties of snapshots, notification and the watched cache | the last one for clients that only watch |
| `ConfigurationsUsable` | a stored configuration parses again, mode fits axis, a time axis has a window | |
| `ClientMatchesServer` | client and server route a key alike | `bucket.go` supports the key's type, and a float64 holds an integer key exactly |
| `NumericBucketsAreFloors` | a numeric bucket is the floor of key by width | the key is at least `MinInt + width - 1`, where nothing wraps |
| `HashIdsSortAsNumbers` | hash ids have the shortest length that holds the largest | up to nine digits |
| `TimeKeysShareBucket` | seconds, milliseconds, digits and RFC3339 agree | the number of seconds is one that is not taken for milliseconds, and in milliseconds one that is |
| `IndexesCountBuckets` | at a tick of the clock the index moves by one exactly when the id changes | the clock is in the years 0 to 9999 |
| `WindowFitsPool` | as many buckets take writes as `MinShards` provides for | the window lies in those years |

Each step lemma has one step per action. The inductive invariants, and what each
one adds to the property it is for:

- `StoreInv`: the types, `OneActivePerBucket`, `ErrorShardAlwaysWritable`, and
  `DefaultsBeforeInsert`. The last one is needed because registration writes neither
  the bucket nor the drain columns: a new shard is in order only if the missing row
  stands for the columns' defaults.
- `TxInv` describes a transaction in progress: the rows it holds are locked by it
  alone and still satisfy its WHERE clause, a patch that is past its row has been
  validated against the row's present state (`Validated`), and once it has entered
  the unique index for a bucket no other transaction can. Hence a commit maps to one
  step of `ShardStore` and every other statement to a stutter.
- `ListedOutsideWindow` (for `RetentionSafe`): every bucket a tick still has in hand
  is outside the window by the present clock. It is inductive because the clock only
  moves forward, and only a tick's own listing adds buckets.
- `HolderInv` (for `HoldersNeverExceedCalls`): the active and draining shards of a
  bucket, and the calls that have decided to promote one there and not done it yet,
  are together no more than all calls. A call decides only when it finds no holder,
  so the sum is then bounded by the calls. A promotion moves one from the second
  number to the first, and a rotation or the end of a drain exchanges one holder for
  another or loses one. Without the pending calls in the sum a promotion would break
  the bound: the call decided in an earlier statement and does not look again.
- `AgentInv` relates the rows and write rights of a shard, and the point its agent's
  tick has reached, to the shard's state in the tables. A tick acts on a state it
  read earlier, and only the agent itself ends the state in which that action is
  harmful.
- `FeedInv` and `WatchesInv` say how a snapshot in the making, a version in a channel
  and an event in flight relate to the history of the table (`asOf`). A snapshot is
  read in several statements, so its version may be older than its rows, never newer.
- `RowsApart` (for `DeadlocksAmongRowScans`) adds to `TxInv` that a transaction other
  than the two row scans has at most one row to lock and holds none while it waits for
  it. In a circle of waits every transaction is still locking rows
  (`CircleLocksRows`), since one that is past its rows waits only for one that is
  further. One that holds no row is not waited for, so only row scans are left.
- `KeyInv`: the stored configuration is one that passed `ValidateBootstrap` and
  `ParseSpec`, and a key that is looked up is one of its axis. The rest of
  `KeyRoutingProofs` is arithmetic: the calendar (a month starts within four days of
  its average place, so `MonthOf` looks at three candidates and exactly one fits), ids
  and indexes as inverses of each other, and division towards zero made a floor.

What a recursive definition computes is proved by least counterexample:
`LeastNatural` gives every non-empty set of numbers a least element, and
`DigitsRecursive` glues the finite approximations of `digits` together. The library's
induction rules are not used.

Assumptions on constants are the named `ASSUME`s: `NoBucket` and `NoConfig` are no
bucket and no configuration, a time axis has a retention depth of at least 1
(`ValidateBootstrap`) and integer buckets, operators rotate existing bucket ids,
Resolve calls are reads or writes, and a feed starts from a table of its type. In
`KeyRouting` the fields of requests and keys have the types of the code's fields
(`RequestAssumption`, `KeyAssumption`) and the clock is an hour of the years 0 to
9999, which are those whose ids `time.Parse` reads (`HourAssumption`,
`YearAssumption`). `RangeAssumption` says that the largest integer is a natural
number; it follows from `WidthAssumption`, but the provers do not compute with
powers of two. The provisos of the table above are hypotheses of the theorems or of
the properties themselves.

Every invariant and action property of the passing runs but one is the statement of
one of these theorems, under the provisos of the table. Only model-checked are
`SealsOnlyFinishedDrains` and the liveness properties (`DrainCompletes`,
`FullActiveLeaves`, `StaleActiveReplaced`, `EvictedIsCleaned`, `WatchConverges`,
`CleaningEnds`, `DrainReported`), whose fairness is outside the prover's reach.

## 5. Not modelled

- Authentication, metrics, tracing, the ops endpoints, the command line tool beyond
  `bootstrap`, environment parsing and generated stubs: no state the system reads
  back.
- `InvalidateConfigCache`: of the cached columns only `topology_version` ever changes,
  and it is always read from the table.
- `shard_events`, `sealed_at`, `updated_at`: nothing reads them. `version` repeats
  what the row locks already guarantee.
- The fan-out of `ScatterQuery` and the SDK's forwarding of Admin calls: no state.

## 6. Plan

1. Hash ids of more than nine digits, and what happens to numeric keys where the
   subtraction wraps.
2. `StoreTx` with error shards and registration before bootstrap.
3. An abstract bucket ledger (who may write to which bucket) that `ShardStore`
   implements.
