------------------------------- MODULE Routing -------------------------------
(***************************************************************************)
(* internal/bucket/routing.go over bucket indexes (Spec.Index): how a key  *)
(* is routed relative to the current time bucket, and which buckets the    *)
(* retention ring has left behind.  A time bucket is its index; on the     *)
(* numeric and hash axes every valid key has a bucket and there is no      *)
(* clock.                                                                  *)
(***************************************************************************)
EXTENDS Integers

CONSTANTS
    Axis,            \* "time", "numeric" or "hash"
    RetentionDepth,  \* cluster_config.retention_depth
    MaxFuture,       \* cluster_config.max_future_buckets
    MaxNow           \* bound on the clock

ASSUME AxisAssumption == Axis \in {"time", "numeric", "hash"}

(* ValidateBootstrap: a time axis keeps at least the current bucket. *)
ASSUME WindowAssumption ==
    Axis = "time" => RetentionDepth \in Nat \ {0} /\ MaxFuture \in Nat /\ MaxNow \in Nat

VARIABLE now         \* index of the current time bucket (CurrentID)

oldestIdx(current) == current - RetentionDepth + 1

ClassifyWrite(current, target) ==
    IF Axis # "time" THEN "bucket"
    ELSE CASE target < oldestIdx(current)            -> "bucket_evicted"
           [] target \in oldestIdx(current)..current -> "bucket"
           [] target > current /\ MaxFuture = 0      -> "future_disallowed"
           [] target \in (current + 1)..(current + MaxFuture) -> "bucket"
           [] OTHER                                  -> "future_too_far"

(* Variants: the window's oldest bucket is evicted too; it is evicted one bucket
   late. *)
BucketsOutsideInclusive(current, known) ==
    IF Axis = "time" THEN {b \in known : b <= oldestIdx(current)} ELSE {}

BucketsOutsideLate(current, known) ==
    IF Axis = "time" THEN {b \in known : b < oldestIdx(current) - 1} ELSE {}

BucketsOutsideRetention(current, known) ==
    IF Axis = "time" THEN {b \in known : b < oldestIdx(current)} ELSE {}

ClockTick ==
    /\ Axis = "time"
    /\ now < MaxNow
    /\ now' = now + 1
=============================================================================
