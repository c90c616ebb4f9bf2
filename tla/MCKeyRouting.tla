----------------------------- MODULE MCKeyRouting -----------------------------
EXTENDS KeyRouting

MCLower == [w \in {"Key", "key"} |-> "key"]

(* Any function of the string will do. *)
MCSum64(s) == IF s[1] = "text" THEN 7 ELSE (s[2] % 1009) * 31 + (IF s[1] = "integer" THEN 5 ELSE 2)

Bodies ==
    {[NoFields EXCEPT !.unit = u] : u \in {"", "hour", "day", "month", "week"}}
    \cup {[NoFields EXCEPT !.width = w] : w \in {-1, 1, 3, 10}}
    \cup {[NoFields EXCEPT !.bucket_count = n, !.hash_algo = a] :
             n \in {1, 10, 11, 100, 101}, a \in {"", "xxhash64", "md5"}}

MCRequest ==
    [mode : {"", "range", "hash", "list"}, axis : {"", "time", "numeric", "hash", "uuid"},
     spec : Bodies \cup {NoValue}, max_bytes : {0, 1}, rd : {NoValue, 0, 1, 2}, mf : {NoValue, -1, 0, 1}]

(* The defaults, and what an operator changes. *)
MCFlags ==
    [axis : {"time", "numeric", "hash"}, unit : {"month", "week"}, width : {0, 10}, buckets : {256},
     retention : {0, 3}, future : {0, 2}, max_bytes : {1}]

(* Around the epoch and the first milliseconds, and at the end of a short February
   and of a leap one. *)
MCHours == (-30..60) \cup (1380..1452) \cup (18924..18984)

Around(x) == (x - 4)..(x + 4)

NumberKeys ==
    LET Values == (-12..12) \cup {n \in Around(MinInt) \cup Around(MaxInt) : n \in Int64}
                  \cup Around(2^MantissaBits) \cup Around(-(2^MantissaBits)) \cup {MinInt + 9, MinInt + 10}
    IN  [kind : {"int", "digits", "json", "number"}, v : Values]
        \cup [kind : {"float"}, v : {Float(n) : n \in Values}]
        \cup [kind : {"half"}, v : -4..4]
        \cup [kind : {"word"}, v : {"Key", "key"}]

TimeKeys(h) ==
    LET Instants == {3600 * (h + d) : d \in {0, 1, -1, 24, -24, -744, 1440, -1440}}
        Values == Instants \cup {1000 * t : t \in Instants \cap ((unixSecondsYear3000 \div 1000) + 1)..(MaxInt \div 1000)}
    IN  [kind : {"int", "float", "json", "number"}, v : Values]
        \cup [kind : {"half"}, v : {3600 * h - 1}]
        \cup [kind : {"word"}, v : {"Key"}]

MCKey(axis, h) == IF axis = "time" THEN TimeKeys(h) ELSE NumberKeys
=============================================================================
