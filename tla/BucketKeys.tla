------------------------------ MODULE BucketKeys ------------------------------
(***************************************************************************)
(* internal/bucket/bucket.go: from a shard key to a bucket_id, and from a  *)
(* time bucket_id to a comparable index and back.                          *)
(*                                                                         *)
(* Integers have IntBits bits and wrap; a float64 has MantissaBits exact   *)
(* bits.  A key is [kind, v]: a Go int or int64 ("int"), a float64, the    *)
(* float64 half way between v and v+1, an integer of a json.Number or of   *)
(* another Go number type ("number": int32, uint64, float32 ...), or a     *)
(* string: the decimal digits of v, a date or an RFC3339 instant v, or the *)
(* word v.  An instant is in Unix seconds.  A bucket_id is a tuple of what *)
(* the code formats into the string; civil dates are those of Go's time    *)
(* package.                                                                *)
(***************************************************************************)
EXTENDS Integers

CONSTANTS
    IntBits,               \* width of int64
    MantissaBits,          \* width of a float64's significand
    unixSecondsYear3000,   \* keys above are milliseconds
    Lower,                 \* strings.ToLower on the words in use
    Sum64(_)               \* xxhash64 of a string

ASSUME WidthAssumption == IntBits \in Nat /\ MantissaBits \in 1..(IntBits - 1)
ASSUME ThresholdAssumption == unixSecondsYear3000 \in Nat

MaxInt == 2^(IntBits - 1) - 1
MinInt == -(2^(IntBits - 1))
Int64 == MinInt..MaxInt

ASSUME RangeAssumption == MaxInt \in Nat

(* The keys in use: an integer fits an int64, and a float64 half way between two
   integers is far within its range. *)
ShardKey ==
    [kind : {"int", "digits", "half", "json", "number"}, v : Int64]
    \cup [kind : {"float", "date", "rfc3339"}, v : Int]
    \cup [kind : {"word"}, v : DOMAIN Lower]

(* Two's complement, for sums that leave the range by less than its size. *)
Wrap(x) == IF x > MaxInt THEN x - 2 * (MaxInt + 1) ELSE IF x < MinInt THEN x + 2 * (MaxInt + 1) ELSE x

(* Go's division truncates towards zero. *)
Quot(a, b) == IF a >= 0 THEN a \div b ELSE -((-a) \div b)
Rem(a, b) == a - b * Quot(a, b)
-----------------------------------------------------------------------------
(* Numbers as float64 *)

Abs(n) == IF n < 0 THEN -n ELSE n

(* The spacing of float64 values at n. *)
Ulp(n) == LET Enough(k) == Abs(n) <= 2^(MantissaBits + k)
          IN  2^(CHOOSE k \in 0..IntBits : Enough(k) /\ \A j \in 0..(k - 1) : ~Enough(j))

(* float64(n): round to nearest, ties to even. *)
Float(n) ==
    LET u == Ulp(n)  q == n \div u  r == n % u
    IN  u * (IF 2 * r > u \/ (2 * r = u /\ q % 2 = 1) THEN q + 1 ELSE q)

(* int64(f) of an integral float64: implementation-defined out of range. *)
Truncated(f) == IF f \in Int64 THEN {f} ELSE {MinInt, MaxInt}

Exact(n) == Float(n) = n
-----------------------------------------------------------------------------
(* Keys as numbers, strings and instants; an empty set is an error. *)

(* int64(v + 0.5) *)
TruncatedHalf(v) == IF v >= 0 THEN v ELSE v + 1

parseNumericKey(key) ==
    CASE key.kind \in {"int", "digits"} -> {key.v}
      [] key.kind = "float"             -> Truncated(key.v)
      [] key.kind = "half"              -> {TruncatedHalf(key.v)}
      [] OTHER                          -> {}

(* Variant: integral floats are formatted like the others. *)
stringifyKeyFloat(key) ==
    CASE key.kind \in {"int", "digits", "json"} -> {<<"integer", key.v>>}
      [] key.kind = "word"                      -> {<<"text", Lower[key.v]>>}
      [] key.kind = "number"                    -> {}
      [] OTHER                                  -> {<<key.kind, key.v>>}

stringifyKey(key) ==
    CASE key.kind \in {"int", "digits", "json"} -> {<<"integer", key.v>>}
      [] key.kind = "float" -> IF Truncated(key.v) = {key.v} THEN {<<"integer", key.v>>}
                               ELSE {<<"float", key.v>>, <<"integer", MinInt>>, <<"integer", MaxInt>>}
      [] key.kind = "word"                      -> {<<"text", Lower[key.v]>>}
      [] key.kind = "number"                    -> {}
      [] OTHER                                  -> {<<key.kind, key.v>>}

(* Variant: the threshold is taken for one in milliseconds. *)
UnixTimeLate(v) == IF v \div 1000 > unixSecondsYear3000 THEN v \div 1000 ELSE v

UnixTime(v) == IF v > unixSecondsYear3000 THEN v \div 1000 ELSE v

parseTimeKey(key) ==
    CASE key.kind \in {"int", "digits"}   -> {UnixTime(key.v)}
      [] key.kind = "float"               -> IF key.v > unixSecondsYear3000
                                             THEN {t \div 1000 : t \in Truncated(key.v)}
                                             ELSE Truncated(key.v)
      [] key.kind = "half"                -> IF key.v >= unixSecondsYear3000
                                             THEN {key.v \div 1000}
                                             ELSE {TruncatedHalf(key.v)}
      [] key.kind \in {"date", "rfc3339"} -> {key.v}
      [] OTHER                            -> {}
-----------------------------------------------------------------------------
(* The calendar *)

Leap(y) == y % 4 = 0 /\ (y % 100 # 0 \/ y % 400 = 0)

(* Days from 0000-01-01 to the first of January of year y, and from there to the
   first of its month m. *)
YearStart(y) == 365 * y + ((y + 3) \div 4) - ((y + 99) \div 100) + ((y + 399) \div 400)
MonthStart(y, m) ==
    <<0, 31, 59, 90, 120, 151, 181, 212, 243, 273, 304, 334>>[m] + (IF m > 2 /\ Leap(y) THEN 1 ELSE 0)

Epoch == YearStart(1970)

(* Days from 1970-01-01 to the first of month n; months are numbered from January
   of year 0. *)
FirstOfMonth(n) == YearStart(n \div 12) + MonthStart(n \div 12, (n % 12) + 1) - Epoch

(* The number of the month that day d falls into; 1600 months have 48699 days on
   average. *)
MonthOf(d) ==
    LET guess == (1600 * (d + Epoch)) \div 48699
    IN  CHOOSE n \in (guess - 1)..(guess + 1) : FirstOfMonth(n) <= d /\ d < FirstOfMonth(n + 1)

(* time.Parse on the layout of the unit; its years have four digits. *)
ParseDate(unit, id) ==
    86400 * (FirstOfMonth(12 * id[1] + id[2] - 1) + id[3] - 1) + (IF unit = "hour" THEN 3600 * id[4] ELSE 0)

(* The id has an index: years of hours and days are parsed by layout, those of months
   as a number without a sign. *)
HasIndex(unit, id) == id[1] >= 0 /\ (unit # "month" => id[1] <= 9999)
-----------------------------------------------------------------------------
(* Bucket identifiers *)

timeID(unit, t) ==
    LET d == t \div 86400  n == MonthOf(d)  y == n \div 12  m == (n % 12) + 1  day == d - FirstOfMonth(n) + 1
    IN  CASE unit = "hour"  -> <<y, m, day, (t \div 3600) % 24>>
          [] unit = "day"   -> <<y, m, day>>
          [] unit = "month" -> <<y, m>>

(* Variant: ids are parsed in a local time zone. *)
IndexLocal(unit, id) ==
    CASE unit = "hour"  -> Quot(ParseDate(unit, id) - 1800, 3600)
      [] unit = "day"   -> Quot(ParseDate(unit, id) - 1800, 86400)
      [] unit = "month" -> id[1] * 12 + id[2] - 1

Index(unit, id) ==
    CASE unit = "hour"  -> Quot(ParseDate(unit, id), 3600)
      [] unit = "day"   -> Quot(ParseDate(unit, id), 86400)
      [] unit = "month" -> id[1] * 12 + id[2] - 1

IDFromIndex(unit, idx) ==
    CASE unit = "hour"  -> timeID("hour", idx * 3600)
      [] unit = "day"   -> timeID("day", idx * 86400)
      [] unit = "month" -> <<Quot(idx, 12), Rem(idx, 12) + 1>>

(* Variant: negative keys are divided like the others. *)
numericIndexTruncated(n, width) == Quot(n, width)

numericIndex(n, width) ==
    IF n < 0 THEN Quot(Wrap(Wrap(n - width) + 1), width) ELSE Quot(n, width)

digits[n \in Nat] == IF n = 0 THEN 0 ELSE 1 + digits[n \div 10]

(* Variant: the digits of the number of buckets. *)
digitWidthOfCount(n) == IF n + 1 < 10 THEN 1 ELSE digits[n + 1]

digitWidth(n) == IF n < 10 THEN 1 ELSE digits[n]

(* h%0*d *)
hashID(h, count) == <<"h", digitWidth(count - 1), h % count>>

(* ID: the buckets a key may fall into, one unless the build decides; none is the
   error. *)
ID(spec, key) ==
    CASE spec.axis = "time"    -> {timeID(spec.unit, t) : t \in parseTimeKey(key)}
      [] spec.axis = "numeric" -> {<<"n", numericIndex(n, spec.width)>> : n \in parseNumericKey(key)}
      [] spec.axis = "hash"    -> {hashID(Sum64(s), spec.bucket_count) : s \in stringifyKey(key)}

CurrentID(spec, now) == timeID(spec.unit, now)

(* Physical shards for a time axis: the window, the error shard and a spare. *)
MinShards(retentionDepth, maxFuture) == retentionDepth + 1 + maxFuture + 1
=============================================================================
