------------------------------ MODULE KeyRouting ------------------------------
(***************************************************************************)
(* A cluster configuration from the bootstrap request to the routing of    *)
(* keys: the command line (cmd/shardman), AdminService.Bootstrap with      *)
(* ValidateBootstrap and ParseSpec, the configuration as it is parsed      *)
(* again by the server and by the client SDK, and ClassifyWrite on both    *)
(* sides for the same key.  The client's own lookup passes the key as it   *)
(* is; on its way to the server it becomes a structpb value, in which      *)
(* every number is a float64.                                              *)
(***************************************************************************)
EXTENDS BucketKeys, FiniteSets

CONSTANTS
    Request,     \* bootstrap requests
    Flags,       \* command lines of shardman bootstrap
    Hours,       \* the clock: hours since 1970
    Key(_, _),   \* shard keys in use on an axis at an hour
    NoValue      \* an optional field that is not set

(* The numbers of a bucket_spec.  A body is the JSON object with all its fields,
   absent ones having Go's zero value. *)
IsBody(body) == {body.width, body.bucket_count} \subseteq Int64

ASSUME RequestAssumption ==
    /\ \A req \in Request : (req.spec = NoValue \/ IsBody(req.spec)) /\ {req.rd, req.mf} \subseteq {NoValue} \cup Int
    /\ \A f \in Flags : {f.width, f.buckets} \subseteq Int64 /\ {f.retention, f.future} \subseteq Int
ASSUME KeyAssumption == \A axis \in {"time", "numeric", "hash"}, h \in Hours : Key(axis, h) \subseteq ShardKey
ASSUME HourAssumption == Hours \subseteq Int
ASSUME YearAssumption == \A h \in Hours : timeID("month", 3600 * h)[1] \in 0..9999

VARIABLES
    cfg,         \* the row cluster_config, or NoValue
    hour,        \* wall clock
    key          \* the key being looked up, or NoValue

keyVars == <<cfg, hour, key>>
-----------------------------------------------------------------------------
(* Bootstrap *)

(* The parsed bucket_spec, or NoValue if it is refused. *)
ParseSpec(axis, body) ==
    IF body = NoValue THEN NoValue ELSE
    CASE axis = "time" /\ body.unit \in {"hour", "day", "month"} -> [axis |-> axis, unit |-> body.unit]
      [] axis = "numeric" /\ body.width > 0 -> [axis |-> axis, width |-> body.width]
      [] axis = "hash" /\ body.bucket_count > 0 /\ body.hash_algo \in {"", "xxhash64"} ->
             [axis |-> axis, bucket_count |-> body.bucket_count]
      [] OTHER -> NoValue

orZero(x) == IF x = NoValue THEN 0 ELSE x

(* Variant: a missing depth passes. *)
ValidateBootstrapLax(mode, axis, rd, mf) ==
    /\ mode \in {"range", "hash", ""}
    /\ IF mode = "hash" \/ axis = "hash"
       THEN mode \in {"hash", ""} /\ axis = "hash"
       ELSE /\ axis = "time" => orZero(rd) >= 0 /\ orZero(mf) >= 0
            /\ axis \in {"time", "numeric"}

ValidateBootstrap(mode, axis, rd, mf) ==
    /\ mode \in {"range", "hash", ""}
    /\ IF mode = "hash" \/ axis = "hash"
       THEN mode \in {"hash", ""} /\ axis = "hash"
       ELSE /\ axis = "time" => rd # NoValue /\ rd >= 1 /\ mf # NoValue /\ mf >= 0
            /\ axis \in {"time", "numeric"}

defaultMode(req) == IF req.mode # "" THEN req.mode ELSE IF req.axis = "hash" THEN "hash" ELSE "range"
defaultAxis(req) == IF defaultMode(req) = "hash" /\ req.axis = "" THEN "hash" ELSE req.axis

(* The row is inserted only if there is none (KeyNext). *)
BootstrapRequest(req) ==
    LET mode == defaultMode(req)  axis == defaultAxis(req)
    IN  /\ ValidateBootstrap(mode, axis, req.rd, req.mf)
        /\ ParseSpec(axis, req.spec) # NoValue
        /\ req.max_bytes > 0
        /\ cfg' = [mode |-> mode, axis |-> axis, spec |-> req.spec, rd |-> req.rd, mf |-> req.mf]
        /\ UNCHANGED <<hour, key>>

NoFields == [unit |-> "", width |-> 0, bucket_count |-> 0, hash_algo |-> ""]

(* The request that shardman bootstrap builds from its flags. *)
runBootstrap(f) ==
    [mode |-> IF f.axis = "hash" THEN "hash" ELSE "range",
     axis |-> f.axis,
     spec |-> CASE f.axis = "numeric" -> [NoFields EXCEPT !.width = f.width]
                [] f.axis = "hash" -> [NoFields EXCEPT !.bucket_count = f.buckets, !.hash_algo = "xxhash64"]
                [] OTHER -> [NoFields EXCEPT !.unit = f.unit],
     max_bytes |-> f.max_bytes,
     rd |-> IF f.axis = "time" THEN f.retention ELSE NoValue,
     mf |-> IF f.axis = "time" THEN f.future ELSE NoValue]
-----------------------------------------------------------------------------
(* Routing.  The configuration is parsed again by loadConfigFromDB and by the
   client (clusterConfigFromProto); an optional field left out counts as 0
   (retentionArgs). *)

Spec == ParseSpec(cfg.axis, cfg.spec)
retention == orZero(cfg.rd)
maxFuture == orZero(cfg.mf)

BucketRoute(id) == [routing |-> "bucket", bucket_id |-> id]
ErrorRoute(reason) == [routing |-> "error", reason |-> reason]

(* Variant: the window is one bucket longer than retention. *)
routeTimeLate(target, current) ==
    CASE target < current - retention                  -> ErrorRoute("bucket_evicted")
      [] target \in (current - retention)..current     -> BucketRoute(target)
      [] target > current /\ maxFuture = 0             -> ErrorRoute("future_disallowed")
      [] target \in (current + 1)..(current + maxFuture) -> BucketRoute(target)
      [] OTHER                                         -> ErrorRoute("future_too_far")

(* Where a time bucket goes, by its index and that of the current one. *)
routeTime(target, current) ==
    CASE target < current - retention + 1              -> ErrorRoute("bucket_evicted")
      [] target \in (current - retention + 1)..current -> BucketRoute(target)
      [] target > current /\ maxFuture = 0             -> ErrorRoute("future_disallowed")
      [] target \in (current + 1)..(current + maxFuture) -> BucketRoute(target)
      [] OTHER                                         -> ErrorRoute("future_too_far")

(* The routes a key may be given; a time bucket is named by its index. *)
ClassifyWrite(now, k) ==
    LET ids == ID(Spec, k)
    IN  IF ids = {} THEN {ErrorRoute("invalid_shard_key")}
        ELSE IF cfg.axis # "time" THEN {BucketRoute(id) : id \in ids}
        ELSE {IF HasIndex(Spec.unit, id)
              THEN routeTime(Index(Spec.unit, id), Index(Spec.unit, CurrentID(Spec, now)))
              ELSE ErrorRoute("invalid_shard_key") : id \in ids}

(* structpb.NewValue, AsInterface: numbers of every Go type arrive as a float64. *)
overWire(k) == IF k.kind \in {"int", "json", "number"} THEN [kind |-> "float", v |-> Float(k.v)] ELSE k

now == 3600 * hour
-----------------------------------------------------------------------------
KeyInit ==
    /\ cfg = NoValue
    /\ key = NoValue
    /\ hour \in {h \in Hours : h - 1 \notin Hours}

Lookup ==
    /\ cfg # NoValue /\ key = NoValue
    /\ key' \in Key(cfg.axis, hour)
    /\ UNCHANGED <<cfg, hour>>

Answered ==
    /\ key # NoValue
    /\ key' = NoValue
    /\ UNCHANGED <<cfg, hour>>

(* Time passes; only the time axis has a clock. *)
Tick ==
    /\ cfg # NoValue /\ key = NoValue
    /\ cfg.axis = "time"
    /\ hour + 1 \in Hours
    /\ hour' = hour + 1
    /\ UNCHANGED <<cfg, key>>

KeyNext ==
    \/ cfg = NoValue /\ \E req \in Request : BootstrapRequest(req)
    \/ cfg = NoValue /\ \E f \in Flags : BootstrapRequest(runBootstrap(f))
    \/ Lookup
    \/ Answered
    \/ Tick

KeySpec == KeyInit /\ [][KeyNext]_keyVars
-----------------------------------------------------------------------------
(* Properties *)

(* A configuration that Bootstrap accepts is one the server can load ever after:
   it parses, a hash cluster has the hash axis and no other has, and a time axis
   has a window that holds at least the current bucket. *)
AcceptedIsUsable ==
    cfg # NoValue =>
        /\ Spec # NoValue
        /\ (cfg.mode = "hash") <=> (cfg.axis = "hash")
        /\ cfg.axis = "time" => retention >= 1 /\ maxFuture >= 0 /\ NoValue \notin {cfg.rd, cfg.mf}

(* The key has a type that the functions of bucket.go have a case for. *)
Supported(k) == k.kind # "number" /\ (k.kind = "json" => cfg.axis = "hash")

(* The client's own lookup and the server's agree on every key of a type that
   bucket.go supports on the axis, as long as an integer is one that a float64 holds
   exactly.  A number of another Go type is an invalid key for the client's lookup,
   and a good one for the server, which receives a float64. *)
LocalMatchesServer ==
    key # NoValue /\ Supported(key) /\ (key.kind \in {"int", "json"} => Exact(key.v)) =>
        ClassifyWrite(now, key) = ClassifyWrite(now, overWire(key))

Floor(n, w) == n \div w

(* A numeric bucket is floor(key / width), negative keys included, unless the
   subtraction before the division wraps. *)
NumericIsFloor ==
    key # NoValue /\ cfg.axis = "numeric" /\ key.kind \in {"int", "digits"} /\ key.v >= MinInt + cfg.spec.width - 1 =>
        ClassifyWrite(now, key) = {BucketRoute(<<"n", Floor(key.v, cfg.spec.width)>>)}

(* An instant has one bucket, whether it is written in seconds, in milliseconds,
   as a number or as a string. *)
TimeKeysAgree ==
    key # NoValue /\ cfg.axis = "time" /\ key.kind = "int" =>
        /\ ID(Spec, [key EXCEPT !.kind = "digits"]) = ID(Spec, key)
        /\ key.v <= unixSecondsYear3000 => ID(Spec, [key EXCEPT !.kind = "rfc3339"]) = ID(Spec, key)
        /\ key.v \in ((unixSecondsYear3000 \div 1000) + 1)..unixSecondsYear3000 /\ key.v <= MaxInt \div 1000 =>
              ID(Spec, [key EXCEPT !.v = 1000 * key.v]) = ID(Spec, key)

(* The ids of a hash cluster have one length, the shortest that holds the largest
   of them, so that they sort and compare as numbers. *)
HashIdsAligned ==
    key # NoValue /\ cfg.axis = "hash" =>
        \A id \in ID(Spec, key) : \A w \in 1..9 :
            (w >= id[2]) <=> (cfg.spec.bucket_count - 1 < 10^w)

CurrentIndex == Index(Spec.unit, CurrentID(Spec, now))

(* The buckets from one before the window to one after it, and the instant at which
   a bucket starts. *)
Near == (CurrentIndex - retention)..(CurrentIndex + maxFuture + 1)
Instant(i) ==
    LET id == IDFromIndex(Spec.unit, i)
    IN  [kind |-> "rfc3339",
         v |-> ParseDate(Spec.unit, IF Spec.unit = "month" THEN <<id[1], id[2], 1>> ELSE id)]

(* A date that RFC3339 can express. *)
Dated(id) == id[1] >= 0 /\ id[1] <= 9999 /\ id[2] \in 1..12

(* At any time exactly retention_depth + max_future_buckets buckets are written to,
   which with the two extra shards is the pool that Bootstrap asks for; the window
   is the one that years of four digits can name. *)
WindowFitsMinShards ==
    cfg # NoValue /\ cfg.axis = "time" /\ key = NoValue /\ (\A i \in Near : Dated(IDFromIndex(Spec.unit, i))) =>
        LET Written == {i \in Near : ClassifyWrite(now, Instant(i)) = {BucketRoute(i)}}
        IN  Cardinality(Written) + 2 = MinShards(retention, maxFuture)

(* Bucket indexes count buckets: as the clock runs the index moves exactly when the
   id does, and then by one, across month ends, leap days and the epoch. *)
IndexCountsBuckets ==
    [][Tick =>
          CurrentIndex' - CurrentIndex = IF CurrentID(Spec, now)' = CurrentID(Spec, now) THEN 0 ELSE 1]_keyVars
=============================================================================
