--------------------------- MODULE ClientCacheProofs --------------------------
(***************************************************************************)
(* The topology feed and the clients' caches for any numbers of clients,   *)
(* fetches and notifiers, any tables and any length of stream.             *)
(***************************************************************************)
EXTENDS ClientCache, TLAPS

Builder == Subscriber \cup Fetch
Stream == [pc : {"off", "build", "select"}, ch : Nat, got : Nat,
           since : Nat, served : Nat, wire : Seq(Snapshot)]

(* The parts of ClientTypeOK. *)
BuildRec == [at : BuildPoint, snap : Snapshot]
Builds == [Builder -> BuildRec]
Streams == [Subscriber -> Stream]
Caches == [Client -> Snapshot]

(* The type invariant, field by field. *)
LEMMA TypeParts ==
    /\ ClientTypeOK <=>
          /\ table \in Table
          /\ dbConfig \in DbConfig \cup {NoDbConfig}
          /\ dbVersion \in 0..MaxVersion
          /\ configCache \in DbConfig \cup {NoDbConfig}
          /\ broadcast \in 0..MaxVersion
          /\ notifying \in [Notifier -> 0..MaxVersion]
          /\ build \in Builds /\ stream \in Streams /\ cache \in Caches
    /\ dbVersion \in 0..MaxVersion => dbVersion \in Nat
BY EmptyTableAssumption, MaxVersionAssumption DEF ClientTypeOK, Builder, BuildRec, Builds, Stream, Streams, Caches

(* The same of the next state. *)
LEMMA TypePartsNext ==
    ClientTypeOK' <=>
          /\ table' \in Table
          /\ dbConfig' \in DbConfig \cup {NoDbConfig}
          /\ dbVersion' \in 0..MaxVersion
          /\ configCache' \in DbConfig \cup {NoDbConfig}
          /\ broadcast' \in 0..MaxVersion
          /\ notifying' \in [Notifier -> 0..MaxVersion]
          /\ build' \in Builds /\ stream' \in Streams /\ cache' \in Caches
BY EmptyTableAssumption DEF ClientTypeOK, Builder, BuildRec, Builds, Stream, Streams, Caches

(* Types *)

(* What a client holds before its first event is typed. *)
LEMMA NoSnapshotType == NoSnapshot \in Snapshot
BY DEF NoSnapshot, Snapshot

(* A build that has not read anything is typed. *)
LEMMA BuildTypes ==
    /\ NoBuild \in BuildRec
    /\ NewBuild \in BuildRec
BY NoSnapshotType DEF NoBuild, NewBuild, BuildPoint, BuildRec

(* A stream that is not open is typed. *)
LEMMA NoStreamType == NoStream \in Stream
BY DEF NoStream, Stream

(* The version is far from its limit, so it is counted up. *)
LEMMA SmallMod == ASSUME NEW m \in Nat, NEW x \in Nat, x < m PROVE x % m = x
OBVIOUS

(* What a transaction does to the table and its version. *)
LEMMA ChangeMoves ==
    ASSUME ClientTypeOK, Change
    PROVE  /\ dbVersion' \in 0..MaxVersion
           /\ \/ /\ dbConfig = NoDbConfig /\ dbConfig' = NoDbConfig /\ dbVersion' = dbVersion
              \/ /\ dbConfig # NoDbConfig /\ dbConfig' = dbConfig /\ dbVersion' = dbVersion + 1
              \/ /\ dbConfig = NoDbConfig /\ dbConfig' \in DbConfig /\ dbVersion' = 1
                 /\ table' = table
           /\ table' \in Table
<1> USE MaxVersionAssumption, EmptyTableAssumption DEF ClientTypeOK, Change
<1>1. CASE Publish
    <2>1. CASE dbConfig = NoDbConfig
        BY <1>1, <2>1 DEF Publish
    <2>2. CASE dbConfig # NoDbConfig
        <3> DEFINE next == dbVersion + 1
        <3>1. next \in Nat /\ next \in 0..MaxVersion /\ next < DbModulus
            OBVIOUS
        <3>2. dbVersion' = next % DbModulus /\ table' \in Table /\ dbConfig' = dbConfig
            BY <1>1, <2>2 DEF Publish
        <3> HIDE DEF next
        <3>3. next % DbModulus = next
            BY <3>1, SmallMod, Zenon
        <3> QED
            BY <2>2, <3>1, <3>2, <3>3 DEF next
    <2> QED
        BY <2>1, <2>2
<1>2. ASSUME NEW c \in DbConfig, Install(c)
      PROVE  /\ dbConfig = NoDbConfig /\ dbConfig' \in DbConfig /\ dbVersion' = 1
             /\ dbVersion' \in 0..MaxVersion /\ table' = table
    <2>1. 1 % DbModulus = 1
        BY SmallMod, Zenon
    <2> QED
        BY <1>2, <2>1 DEF Install
<1> QED
    BY <1>1, <1>2 DEF TableNext
-----------------------------------------------------------------------------
(* Sequences *)

(* What sending an event does to the wire. *)
LEMMA AppendFacts ==
    ASSUME NEW S, NEW w \in Seq(S), NEW e \in S
    PROVE  /\ Append(w, e) \in Seq(S)
           /\ Len(Append(w, e)) = Len(w) + 1
           /\ \A i \in 1..Len(w) : Append(w, e)[i] = w[i]
           /\ Append(w, e)[Len(w) + 1] = e
OBVIOUS

(* What receiving the first event does to the wire. *)
LEMMA TailFacts ==
    ASSUME NEW S, NEW w \in Seq(S), w # <<>>
    PROVE  /\ Len(w) \in Nat /\ Len(w) >= 1
           /\ Head(w) = w[1] /\ Head(w) \in S
           /\ Tail(w) \in Seq(S)
           /\ Len(Tail(w)) = Len(w) - 1
           /\ \A i \in 1..Len(Tail(w)) : i + 1 \in 1..Len(w) /\ Tail(w)[i] = w[i + 1]
OBVIOUS

(* A wire is empty when it has no event. *)
LEMMA EmptyFacts ==
    ASSUME NEW S, NEW w \in Seq(S)
    PROVE  w = <<>> <=> Len(w) = 0
OBVIOUS

(* The event of a build is a snapshot. *)
LEMMA WatchEventType ==
    ASSUME ClientTypeOK, NEW c \in Subscriber
    PROVE  WatchEvent(c) \in Snapshot
<1>1. build[c].snap \in Snapshot /\ stream[c].got \in Nat
    BY DEF ClientTypeOK
<1>2. Later(build[c].snap.label, stream[c].got) \in Nat
    BY <1>1 DEF Later, Snapshot
<1> QED
    BY <1>1, <1>2 DEF WatchEvent, Snapshot

(* The server and the clients start with typed values. *)
LEMMA TypeInit == ClientInit => ClientTypeOK
<1> SUFFICES ASSUME ClientInit PROVE ClientTypeOK
    OBVIOUS
<1>1. build \in Builds /\ stream \in Streams /\ cache \in Caches
    BY NoSnapshotType, BuildTypes, NoStreamType DEF ClientInit, FeedInit, Builder, Builds, Streams, Caches
<1> QED
    BY <1>1, TypeParts, EmptyTableAssumption, MaxVersionAssumption DEF ClientInit, FeedInit, TableInit

(* The entries that the steps write are well typed. *)
LEMMA ReadTypes ==
    ASSUME ClientTypeOK, NEW p \in Builder
    PROVE  /\ [at |-> "config", snap |-> [build[p].snap EXCEPT !.label = dbVersion]] \in BuildRec
           /\ [at |-> "rows", snap |-> [build[p].snap EXCEPT !.config = CachedConfig]] \in BuildRec
           /\ [at |-> "done", snap |-> [build[p].snap EXCEPT !.rows = table, !.asOf = dbVersion]] \in BuildRec
<1>1. build[p].snap \in Snapshot /\ dbVersion \in Nat /\ table \in Table
    BY TypeParts DEF Builds, BuildRec
<1>2. CachedConfig \in DbConfig \cup {NoDbConfig}
    BY TypeParts DEF CachedConfig
<1> QED
    BY <1>1, <1>2, Zenon DEF BuildRec, BuildPoint, Snapshot

Woken(c) == [stream[c] EXCEPT !.pc = "build", !.got = stream[c].ch, !.ch = 0, !.since = 0, !.served = 0]
Sent(c) == [stream[c] EXCEPT !.pc = "select", !.served = WatchEvent(c).label, !.got = 0, !.since = 0,
                             !.wire = IF NothingNew(c) THEN stream[c].wire
                                      ELSE Append(stream[c].wire, WatchEvent(c))]
Received(c) == [stream[c] EXCEPT !.wire = Tail(stream[c].wire)]

(* Every step of a stream writes a typed one. *)
LEMMA StreamTypes ==
    ASSUME ClientTypeOK, NEW c \in Subscriber
    PROVE  /\ Woken(c) \in Stream
           /\ Sent(c) \in Stream
           /\ stream[c].wire # <<>> => Received(c) \in Stream
           /\ \A w \in {<<>>, stream[c].wire} : [NoStream EXCEPT !.wire = w] \in Stream
           /\ \A since \in Nat : [NoStream EXCEPT !.pc = "build", !.since = since] \in Stream
<1>1. stream[c] \in Stream
    BY TypeParts DEF Streams
<1>2. stream[c].wire \in Seq(Snapshot) /\ <<>> \in Seq(Snapshot)
    BY <1>1 DEF Stream
<1>3. WatchEvent(c) \in Snapshot /\ WatchEvent(c).label \in Nat
    BY WatchEventType DEF Snapshot
<1>4. Append(stream[c].wire, WatchEvent(c)) \in Seq(Snapshot)
    BY <1>2, <1>3, AppendFacts
<1>5. stream[c].wire # <<>> => Tail(stream[c].wire) \in Seq(Snapshot)
    BY <1>2, TailFacts
<1>6. Woken(c) \in Stream
    BY <1>1, Zenon DEF Woken, Stream
<1>7. Sent(c) \in Stream
    BY <1>1, <1>2, <1>3, <1>4, Zenon DEF Sent, Stream
<1>8. stream[c].wire # <<>> => Received(c) \in Stream
    BY <1>1, <1>5, Zenon DEF Received, Stream
<1>9. \A w \in {<<>>, stream[c].wire} : [NoStream EXCEPT !.wire = w] \in Stream
    BY <1>2, Zenon DEF NoStream, Stream
<1>10. \A since \in Nat : [NoStream EXCEPT !.pc = "build", !.since = since] \in Stream
    BY <1>2, Zenon DEF NoStream, Stream
<1> QED
    BY <1>6, <1>7, <1>8, <1>9, <1>10, Zenon
-----------------------------------------------------------------------------
(* The invariant of the feed *)

(* snap is a snapshot of a database that has come to version v: its label does not
   overstate its rows, and if nothing has been committed since, it is the database. *)
Good(snap, v, rows, conf) ==
    /\ snap.label <= snap.asOf /\ snap.asOf <= v
    /\ snap.label > 0 => snap.config = conf
    /\ snap.asOf = v /\ v > 0 => snap.rows = rows

(* What has been read so far of a snapshot that will be good. *)
GoodBuild(b, v, rows, conf) ==
    /\ b.at \in {"config", "rows"} => b.snap.label <= v
    /\ b.at = "rows" /\ b.snap.label > 0 => b.snap.config = conf
    /\ b.at = "done" => Good(b.snap, v, rows, conf)

Holds(snap) == Good(snap, dbVersion, table, dbConfig)

DbInv ==
    /\ dbConfig = NoDbConfig <=> dbVersion = 0
    /\ configCache \in {NoDbConfig, dbConfig}

(* Nothing is notified that was not committed, ... *)
NotifyInv ==
    /\ broadcast <= dbVersion
    /\ \A n \in Notifier : notifying[n] <= dbVersion

(* ... and a build that a notification has started reads a version that is no older. *)
Serves(st, b) ==
    st.pc = "build" /\ b.at \in {"config", "rows", "done"} => st.got <= b.snap.label

StreamInv(st, b, v, rows, conf) ==
    /\ st.ch <= v /\ st.got <= v
    /\ Serves(st, b)
    /\ \A i \in 1..Len(st.wire) : Good(st.wire[i], v, rows, conf)

FeedInv ==
    /\ ClientTypeOK
    /\ DbInv
    /\ NotifyInv
    /\ \A p \in Builder : GoodBuild(build[p], dbVersion, table, dbConfig)
    /\ \A c \in Subscriber : StreamInv(stream[c], build[c], dbVersion, table, dbConfig)
    /\ \A c \in Client : Holds(cache[c])

(* A good snapshot stays good while the database moves on. *)
LEMMA GoodStays ==
    ASSUME ClientTypeOK, DbInv, Change
    PROVE  /\ \A snap \in Snapshot : Holds(snap) => Good(snap, dbVersion', table', dbConfig')
           /\ \A b \in BuildRec : GoodBuild(b, dbVersion, table, dbConfig)
                                     => GoodBuild(b, dbVersion', table', dbConfig')
           /\ DbInv'
           /\ dbVersion' \in Nat /\ dbVersion <= dbVersion'
<1>1. dbVersion \in Nat /\ dbVersion' \in Nat
    BY ChangeMoves, TypeParts DEF ClientTypeOK
<1>2. dbConfig = NoDbConfig <=> dbVersion = 0
    BY DEF DbInv
<1>3. \/ dbConfig = NoDbConfig /\ dbConfig' = NoDbConfig /\ dbVersion' = dbVersion
      \/ dbConfig # NoDbConfig /\ dbConfig' = dbConfig /\ dbVersion' = dbVersion + 1
      \/ dbConfig = NoDbConfig /\ dbConfig' \in DbConfig /\ dbVersion' = 1 /\ table' = table
    BY ChangeMoves
<1>4. ASSUME NEW snap \in Snapshot, Holds(snap) PROVE Good(snap, dbVersion', table', dbConfig')
    BY <1>1, <1>2, <1>3, <1>4 DEF Holds, Good, Snapshot
<1>5. ASSUME NEW b \in BuildRec, GoodBuild(b, dbVersion, table, dbConfig)
      PROVE  GoodBuild(b, dbVersion', table', dbConfig')
    <2>1. b.snap \in Snapshot /\ b.snap.label \in Nat
        BY DEF BuildRec, Snapshot
    <2>2. b.at = "done" => Good(b.snap, dbVersion', table', dbConfig')
        BY <1>4, <1>5, <2>1 DEF GoodBuild, Holds
    <2> QED
        BY <1>1, <1>2, <1>3, <1>5, <2>1, <2>2 DEF GoodBuild
<1>6. DbInv'
    BY <1>1, <1>2, <1>3, NoDbConfigAssumption DEF DbInv, Change, feedVars
<1> QED
    BY <1>1, <1>2, <1>3, <1>4, <1>5, <1>6

(* Steps that leave the database alone keep the invariant if what they write is good. *)
LEMMA FeedKeeps ==
    ASSUME FeedInv, UNCHANGED tableVars,
           configCache' \in {NoDbConfig, dbConfig},
           broadcast' \in 0..MaxVersion, broadcast' <= dbVersion,
           notifying' \in [Notifier -> 0..MaxVersion],
           \A n \in Notifier : notifying'[n] <= dbVersion,
           build' \in Builds, stream' \in Streams, cache' \in Caches,
           \A p \in Builder : GoodBuild(build'[p], dbVersion, table, dbConfig),
           \A c \in Subscriber : StreamInv(stream'[c], build'[c], dbVersion, table, dbConfig),
           \A c \in Client : Holds(cache'[c])
    PROVE  FeedInv'
<1>1. table' = table /\ dbConfig' = dbConfig /\ dbVersion' = dbVersion
    BY DEF tableVars
<1>2. ClientTypeOK'
    BY <1>1, TypeParts, TypePartsNext DEF FeedInv
<1>3. DbInv' /\ NotifyInv'
    BY <1>1 DEF FeedInv, DbInv, NotifyInv
<1>4. \A c \in Client : Holds(cache[c])'
    BY <1>1 DEF Holds
<1> QED
    BY <1>1, <1>2, <1>3, <1>4 DEF FeedInv

(* A transaction that changes the table bumps its version, so what was read before it is
   of an older version. *)
LEMMA FeedChange ==
    ASSUME FeedInv, Change, UNCHANGED cache
    PROVE  FeedInv'
<1>1. UNCHANGED <<configCache, broadcast, notifying, build, stream, cache>>
    BY DEF Change, feedVars
<1>2. ClientTypeOK /\ DbInv /\ NotifyInv
    BY DEF FeedInv
<1>3. ClientTypeOK'
    BY <1>1, <1>2, ChangeMoves, TypeParts, TypePartsNext
<1>4. DbInv' /\ dbVersion \in Nat /\ dbVersion' \in Nat /\ dbVersion <= dbVersion'
    BY <1>2, GoodStays, TypeParts
<1>5. NotifyInv'
    BY <1>1, <1>2, <1>4, TypeParts, MaxVersionAssumption DEF NotifyInv
<1>6. \A p \in Builder : GoodBuild(build[p], dbVersion', table', dbConfig')
    BY <1>2, GoodStays, TypeParts DEF FeedInv, Builds
<1>7. \A c \in Client : Good(cache[c], dbVersion', table', dbConfig')
    BY <1>2, GoodStays, TypeParts DEF FeedInv, Caches
<1>8. ASSUME NEW c \in Subscriber
      PROVE  StreamInv(stream[c], build[c], dbVersion', table', dbConfig')
    <2>1. stream[c].ch \in Nat /\ stream[c].got \in Nat /\ stream[c].wire \in Seq(Snapshot)
        BY <1>2, TypeParts DEF Streams, Stream
    <2>2. StreamInv(stream[c], build[c], dbVersion, table, dbConfig)
        BY DEF FeedInv
    <2>3. \A i \in 1..Len(stream[c].wire) : stream[c].wire[i] \in Snapshot
        BY <2>1
    <2>4. \A i \in 1..Len(stream[c].wire) : Good(stream[c].wire[i], dbVersion', table', dbConfig')
        BY <1>2, <2>2, <2>3, GoodStays DEF StreamInv, Holds
    <2> QED
        BY <1>4, <2>1, <2>2, <2>4 DEF StreamInv
<1> QED
    BY <1>1, <1>3, <1>4, <1>5, <1>6, <1>7, <1>8 DEF FeedInv, Holds

(* What the invariant says of the state before a step. *)
LEMMA FeedFacts ==
    ASSUME FeedInv
    PROVE  /\ ClientTypeOK
           /\ build \in Builds /\ stream \in Streams /\ cache \in Caches
           /\ dbVersion \in Nat /\ dbVersion \in 0..MaxVersion
           /\ configCache \in {NoDbConfig, dbConfig} /\ CachedConfig = dbConfig
           /\ broadcast \in 0..MaxVersion /\ broadcast <= dbVersion
           /\ notifying \in [Notifier -> 0..MaxVersion]
           /\ \A n \in Notifier : notifying[n] <= dbVersion
           /\ \A p \in Builder : GoodBuild(build[p], dbVersion, table, dbConfig)
           /\ \A c \in Subscriber : StreamInv(stream[c], build[c], dbVersion, table, dbConfig)
           /\ \A c \in Client : Holds(cache[c])
BY TypeParts DEF FeedInv, DbInv, NotifyInv, CachedConfig

(* buildTopology: the label is read first, so it never overstates the rows. *)
LEMMA FeedBuild ==
    ASSUME FeedInv, NEW p \in Builder, buildTopology(p), UNCHANGED cache
    PROVE  FeedInv'
<1>1. build[p] \in BuildRec /\ build[p].snap \in Snapshot /\ build[p].snap.label \in Nat
    BY FeedFacts DEF Builds, BuildRec, Snapshot
<1>2. GoodBuild(build[p], dbVersion, table, dbConfig)
    BY FeedFacts
<1>3. ASSUME NEW r \in BuildRec, build' = [build EXCEPT ![p] = r],
             GoodBuild(r, dbVersion, table, dbConfig),
             p \in Subscriber => Serves(stream[p], r),
             configCache' \in {NoDbConfig, dbConfig},
             UNCHANGED <<tableVars, broadcast, notifying, stream>>
      PROVE  FeedInv'
    <2>1. build' \in Builds /\ build'[p] = r /\ \A q \in Builder \ {p} : build'[q] = build[q]
        <3>1. build \in Builds
            BY FeedFacts
        <3> QED
            BY <1>3, <3>1 DEF Builds
    <2>2. \A q \in Builder : GoodBuild(build'[q], dbVersion, table, dbConfig)
        BY <1>3, <2>1, FeedFacts
    <2>3. \A c \in Subscriber : StreamInv(stream[c], build'[c], dbVersion, table, dbConfig)
        BY <1>3, <2>1, FeedFacts DEF Builder, StreamInv
    <2> QED
        BY <1>3, <2>1, <2>2, <2>3, FeedFacts, FeedKeeps
<1>4. CASE ReadVersion(p)
    <2> DEFINE r == [at |-> "config", snap |-> [build[p].snap EXCEPT !.label = dbVersion]]
    <2>1. r \in BuildRec
        BY FeedFacts, ReadTypes, Zenon
    <2>2. GoodBuild(r, dbVersion, table, dbConfig) /\ r.snap.label = dbVersion
        BY <1>1, FeedFacts DEF GoodBuild, Snapshot
    <2>3. p \in Subscriber => Serves(stream[p], r)
        BY <2>2, FeedFacts DEF StreamInv, Serves
    <2>4. build' = [build EXCEPT ![p] = r] /\ UNCHANGED <<tableVars, configCache, broadcast, notifying, stream>>
        BY <1>4 DEF ReadVersion, reaches
    <2> HIDE DEF r
    <2> QED
        BY <1>3, <2>1, <2>2, <2>3, <2>4, FeedFacts, Zenon
<1>5. CASE ReadConfig(p)
    <2> DEFINE r == [at |-> "rows", snap |-> [build[p].snap EXCEPT !.config = CachedConfig]]
    <2>1. r \in BuildRec
        BY FeedFacts, ReadTypes, Zenon
    <2>2. r.snap.label = build[p].snap.label /\ r.snap.config = dbConfig /\ r.at = "rows"
        BY <1>1, FeedFacts DEF Snapshot
    <2>3. build[p].at = "config"
        BY <1>5 DEF ReadConfig
    <2>4. build' = [build EXCEPT ![p] = r] /\ configCache' = CachedConfig
          /\ UNCHANGED <<tableVars, broadcast, notifying, stream>>
        BY <1>5 DEF ReadConfig, reaches
    <2> HIDE DEF r
    <2>5. GoodBuild(r, dbVersion, table, dbConfig)
        BY <1>2, <2>2, <2>3 DEF GoodBuild
    <2>6. p \in Subscriber => Serves(stream[p], r)
        BY <2>2, <2>3, FeedFacts DEF StreamInv, Serves
    <2> QED
        BY <1>3, <2>1, <2>4, <2>5, <2>6, FeedFacts, Zenon
<1>6. CASE ReadRows(p)
    <2> DEFINE r == [at |-> "done", snap |-> [build[p].snap EXCEPT !.rows = table, !.asOf = dbVersion]]
    <2>1. r \in BuildRec
        BY FeedFacts, ReadTypes, Zenon
    <2>2. /\ r.snap.label = build[p].snap.label /\ r.snap.config = build[p].snap.config /\ r.at = "done"
          /\ r.snap.rows = table /\ r.snap.asOf = dbVersion
        BY <1>1, FeedFacts, Zenon DEF Snapshot
    <2>3. build[p].at = "rows"
        BY <1>6 DEF ReadRows
    <2>4. build' = [build EXCEPT ![p] = r] /\ UNCHANGED <<tableVars, configCache, broadcast, notifying, stream>>
        BY <1>6 DEF ReadRows, reaches
    <2> HIDE DEF r
    <2>5. GoodBuild(r, dbVersion, table, dbConfig)
        BY <1>2, <2>2, <2>3, FeedFacts DEF GoodBuild, Good
    <2>6. p \in Subscriber => Serves(stream[p], r)
        BY <2>2, <2>3, FeedFacts DEF StreamInv, Serves
    <2> QED
        BY <1>3, <2>1, <2>4, <2>5, <2>6, FeedFacts, Zenon
<1> QED
    BY <1>4, <1>5, <1>6 DEF buildTopology

(* A notification may start a build, but does not change what the build reads: the
   event that is sent carries the label that was read. *)
LEMMA EventIsBuild ==
    ASSUME FeedInv, NEW c \in Subscriber, stream[c].pc = "build", build[c].at = "done"
    PROVE  /\ WatchEvent(c) \in Snapshot
           /\ WatchEvent(c).label = build[c].snap.label
           /\ WatchEvent(c).asOf = build[c].snap.asOf
           /\ Holds(WatchEvent(c))
<1>1. build[c].snap \in Snapshot /\ build[c].snap.label \in Nat /\ stream[c].got \in Nat
    BY FeedFacts DEF Builds, BuildRec, Snapshot, Builder, Streams, Stream
<1>2. stream[c].got <= build[c].snap.label
    BY FeedFacts DEF StreamInv, Serves
<1>3. Later(build[c].snap.label, stream[c].got) = build[c].snap.label
    BY <1>1, <1>2 DEF Later
<1>4. /\ WatchEvent(c).label = build[c].snap.label /\ WatchEvent(c).asOf = build[c].snap.asOf
      /\ WatchEvent(c).config = build[c].snap.config /\ WatchEvent(c).rows = build[c].snap.rows
    BY <1>1, <1>3 DEF WatchEvent, Snapshot
<1>5. Good(build[c].snap, dbVersion, table, dbConfig)
    BY FeedFacts DEF GoodBuild, Builder
<1> QED
    BY <1>4, <1>5, FeedFacts, WatchEventType DEF Holds, Good

(* Steps of the notifiers. *)
LEMMA FeedNotify ==
    ASSUME FeedInv, NEW n \in Notifier, NotifyRead(n) \/ Notify(n), UNCHANGED cache
    PROVE  FeedInv'
<1>1. CASE NotifyRead(n)
    <2>1. /\ notifying' = [notifying EXCEPT ![n] = dbVersion]
          /\ UNCHANGED <<tableVars, configCache, broadcast, build, stream>>
        BY <1>1 DEF NotifyRead
    <2>2. /\ notifying' \in [Notifier -> 0..MaxVersion]
          /\ \A m \in Notifier : notifying'[m] <= dbVersion
        BY <2>1, FeedFacts
    <2> QED
        BY <2>1, <2>2, FeedFacts, FeedKeeps
<1>2. CASE Notify(n)
    <2> DEFINE note == notifying[n]
               entry(c) == IF Streaming(c) /\ stream[c].ch = 0
                           THEN [stream[c] EXCEPT !.ch = note] ELSE stream[c]
    <2>1. /\ broadcast' = note /\ notifying' = [notifying EXCEPT ![n] = 0]
          /\ stream' = [c \in Subscriber |-> entry(c)]
          /\ UNCHANGED <<tableVars, configCache, build>>
        BY <1>2 DEF Notify
    <2>2. note \in 0..MaxVersion /\ note \in Nat /\ note <= dbVersion
        BY FeedFacts
    <2> HIDE DEF note, entry
    <2>3. notifying' \in [Notifier -> 0..MaxVersion] /\ \A m \in Notifier : notifying'[m] <= dbVersion
        BY <2>1, FeedFacts, MaxVersionAssumption
    <2>4. ASSUME NEW c \in Subscriber
          PROVE  /\ stream'[c] \in Stream
                 /\ StreamInv(stream'[c], build[c], dbVersion, table, dbConfig)
        <3>1. stream[c] \in Stream /\ StreamInv(stream[c], build[c], dbVersion, table, dbConfig)
            BY FeedFacts DEF Streams
        <3>2. stream'[c] = stream[c] \/ stream'[c] = [stream[c] EXCEPT !.ch = note]
            BY <2>1 DEF entry
        <3>3. CASE stream'[c] = [stream[c] EXCEPT !.ch = note]
            <4>1. stream'[c] \in Stream
                BY <2>2, <3>1, <3>3 DEF Stream
            <4>2. /\ stream'[c].ch = note /\ stream'[c].got = stream[c].got /\ stream'[c].pc = stream[c].pc
                  /\ stream'[c].wire = stream[c].wire
                BY <3>1, <3>3 DEF Stream
            <4> QED
                BY <2>2, <3>1, <4>1, <4>2 DEF StreamInv, Serves
        <3> QED
            BY <3>1, <3>2, <3>3
    <2>5. stream' \in Streams
        BY <2>1, <2>4 DEF Streams
    <2> QED
        BY <2>1, <2>2, <2>3, <2>4, <2>5, FeedFacts, FeedKeeps
<1> QED
    BY <1>1, <1>2

(* Steps of a handler and of the goroutine behind it replace one stream and one build. *)
LEMMA FeedStream ==
    ASSUME FeedInv, NEW c \in Subscriber, NEW st \in Stream, NEW b \in BuildRec,
           stream' = [stream EXCEPT ![c] = st], build' = [build EXCEPT ![c] = b],
           GoodBuild(b, dbVersion, table, dbConfig),
           StreamInv(st, b, dbVersion, table, dbConfig),
           cache' \in Caches, \A d \in Client : Holds(cache'[d]),
           UNCHANGED <<tableVars, configCache, broadcast, notifying>>
    PROVE  FeedInv'
<1>1. build \in Builds /\ stream \in Streams /\ c \in Builder
    BY FeedFacts DEF Builder
<1>2. build' \in Builds /\ build'[c] = b /\ \A q \in Builder \ {c} : build'[q] = build[q]
    BY <1>1 DEF Builds
<1>3. stream' \in Streams /\ stream'[c] = st /\ \A d \in Subscriber \ {c} : stream'[d] = stream[d]
    BY <1>1 DEF Streams
<1>4. \A q \in Builder : GoodBuild(build'[q], dbVersion, table, dbConfig)
    BY <1>2, FeedFacts
<1>5. \A d \in Subscriber : StreamInv(stream'[d], build'[d], dbVersion, table, dbConfig)
    BY <1>2, <1>3, FeedFacts DEF Builder
<1> QED
    BY <1>2, <1>3, <1>4, <1>5, FeedFacts, FeedKeeps

(* A build that has not read anything claims nothing. *)
LEMMA EmptyBuildsGood ==
    /\ GoodBuild(NoBuild, dbVersion, table, dbConfig)
    /\ GoodBuild(NewBuild, dbVersion, table, dbConfig)
    /\ NoBuild.at = "idle" /\ NewBuild.at = "version"
BY DEF GoodBuild, NoBuild, NewBuild

(* The fields that the steps of a stream write. *)
LEMMA StreamFields ==
    ASSUME ClientTypeOK, NEW c \in Subscriber
    PROVE  /\ stream[c] \in Stream /\ stream[c].wire \in Seq(Snapshot)
           /\ stream[c].ch \in Nat /\ stream[c].got \in Nat /\ stream[c].since \in Nat
           /\ Woken(c).pc = "build" /\ Woken(c).ch = 0 /\ Woken(c).got = stream[c].ch
           /\ Woken(c).since = 0 /\ Woken(c).wire = stream[c].wire
           /\ Sent(c).pc = "select" /\ Sent(c).ch = stream[c].ch /\ Sent(c).got = 0
           /\ Sent(c).since = 0 /\ Sent(c).served = WatchEvent(c).label
           /\ Sent(c).wire = IF NothingNew(c) THEN stream[c].wire
                             ELSE Append(stream[c].wire, WatchEvent(c))
           /\ Received(c).pc = stream[c].pc /\ Received(c).ch = stream[c].ch
           /\ Received(c).got = stream[c].got /\ Received(c).since = stream[c].since
           /\ Received(c).served = stream[c].served
           /\ Received(c).wire = Tail(stream[c].wire)
<1>1. stream[c] \in Stream
    BY TypeParts DEF Streams
<1>2. /\ stream[c].wire \in Seq(Snapshot)
      /\ stream[c].ch \in Nat /\ stream[c].got \in Nat /\ stream[c].since \in Nat
    BY <1>1 DEF Stream
<1> QED
    BY <1>1, <1>2 DEF Woken, Sent, Received, Stream

(* The fields of a stream that is closed or newly opened. *)
LEMMA NewStreamFields ==
    ASSUME NEW w, NEW since
    PROVE  /\ [NoStream EXCEPT !.wire = w].pc = "off" /\ [NoStream EXCEPT !.wire = w].ch = 0
           /\ [NoStream EXCEPT !.wire = w].got = 0 /\ [NoStream EXCEPT !.wire = w].wire = w
           /\ [NoStream EXCEPT !.pc = "build", !.since = since].pc = "build"
           /\ [NoStream EXCEPT !.pc = "build", !.since = since].ch = 0
           /\ [NoStream EXCEPT !.pc = "build", !.since = since].got = 0
           /\ [NoStream EXCEPT !.pc = "build", !.since = since].since = since
           /\ [NoStream EXCEPT !.pc = "build", !.since = since].wire = <<>>
BY DEF NoStream

(* Every event on a stream holds, also after one was sent, and the one received. *)
LEMMA WireSteps ==
    ASSUME FeedInv, NEW c \in Subscriber
    PROVE  /\ \A i \in 1..Len(stream[c].wire) : Holds(stream[c].wire[i])
           /\ stream[c].pc = "build" /\ build[c].at = "done" =>
                 \A i \in 1..Len(Append(stream[c].wire, WatchEvent(c))) :
                    Holds(Append(stream[c].wire, WatchEvent(c))[i])
           /\ stream[c].wire # <<>> =>
                 /\ Holds(Head(stream[c].wire))
                 /\ \A i \in 1..Len(Tail(stream[c].wire)) : Holds(Tail(stream[c].wire)[i])
<1> DEFINE w == stream[c].wire
           e == WatchEvent(c)
<1>1. w \in Seq(Snapshot) /\ \A i \in 1..Len(w) : Holds(w[i])
    BY FeedFacts, StreamFields, Zenon DEF StreamInv, Holds
<1>2. stream[c].pc = "build" /\ build[c].at = "done" => e \in Snapshot /\ Holds(e)
    BY EventIsBuild
<1> HIDE DEF w, e
<1>3. ASSUME e \in Snapshot, Holds(e) PROVE \A i \in 1..Len(Append(w, e)) : Holds(Append(w, e)[i])
    <2>1. /\ Len(Append(w, e)) = Len(w) + 1 /\ Append(w, e)[Len(w) + 1] = e /\ Len(w) \in Nat
          /\ \A i \in 1..Len(w) : Append(w, e)[i] = w[i]
        BY <1>1, <1>3
    <2> QED
        BY <1>1, <1>3, <2>1
<1>4. ASSUME w # <<>> PROVE Holds(Head(w)) /\ \A i \in 1..Len(Tail(w)) : Holds(Tail(w)[i])
    <2>1. /\ Len(w) \in Nat /\ Len(w) >= 1 /\ Head(w) = w[1]
          /\ \A i \in 1..Len(Tail(w)) : i + 1 \in 1..Len(w) /\ Tail(w)[i] = w[i + 1]
        BY <1>1, <1>4, TailFacts
    <2> QED
        BY <1>1, <2>1
<1> QED
    BY <1>1, <1>2, <1>3, <1>4 DEF w, e

(* The steps of WatchTopology pass on what buildTopology has read. *)
LEMMA FeedWatch ==
    ASSUME FeedInv, NEW c \in Subscriber, UNCHANGED cache,
           WatchWake(c) \/ WatchSend(c) \/ WatchEnds(c) \/ WatchTopology(c)
    PROVE  FeedInv'
<1>1. /\ cache' \in Caches /\ \A d \in Client : Holds(cache'[d])
      /\ ClientTypeOK /\ StreamInv(stream[c], build[c], dbVersion, table, dbConfig)
      /\ \A i \in 1..Len(stream[c].wire) : Good(stream[c].wire[i], dbVersion, table, dbConfig)
    BY FeedFacts DEF StreamInv
<1>2. dbVersion \in Nat /\ NoBuild \in BuildRec /\ NewBuild \in BuildRec
    BY FeedFacts, BuildTypes
<1>3. CASE WatchWake(c)
    <2>1. /\ stream' = [stream EXCEPT ![c] = Woken(c)] /\ build' = [build EXCEPT ![c] = NewBuild]
          /\ UNCHANGED <<tableVars, configCache, broadcast, notifying>>
        BY <1>3 DEF WatchWake, Woken
    <2>2. StreamInv(Woken(c), NewBuild, dbVersion, table, dbConfig)
        <3>1. /\ Woken(c).ch = 0 /\ Woken(c).got = stream[c].ch /\ Woken(c).wire = stream[c].wire
              /\ NewBuild.at = "version" /\ stream[c].ch <= dbVersion
            BY <1>1, EmptyBuildsGood, StreamFields, Zenon DEF StreamInv
        <3>2. Serves(Woken(c), NewBuild)
            BY <3>1, Zenon DEF Serves
        <3>3. 0 <= dbVersion
            BY <1>2
        <3> QED
            BY <1>1, <3>1, <3>2, <3>3, Zenon DEF StreamInv
    <2> QED
        BY <1>1, <1>2, <2>1, <2>2, EmptyBuildsGood, StreamTypes, FeedStream, Zenon
<1>4. CASE WatchSend(c)
    <2>1. /\ stream' = [stream EXCEPT ![c] = Sent(c)] /\ build' = [build EXCEPT ![c] = NoBuild]
          /\ UNCHANGED <<tableVars, configCache, broadcast, notifying>>
          /\ stream[c].pc = "build" /\ build[c].at = "done"
        BY <1>4 DEF WatchSend, Sent
    <2>2. \A i \in 1..Len(Sent(c).wire) : Good(Sent(c).wire[i], dbVersion, table, dbConfig)
        <3>1. CASE NothingNew(c)
            BY <1>1, <3>1, StreamFields, Zenon
        <3>2. CASE ~NothingNew(c)
            BY <1>1, <2>1, <3>2, StreamFields, WireSteps, Zenon DEF Holds
        <3> QED
            BY <3>1, <3>2, Zenon
    <2>3. StreamInv(Sent(c), NoBuild, dbVersion, table, dbConfig)
        <3>1. /\ Sent(c).ch = stream[c].ch /\ Sent(c).got = 0 /\ NoBuild.at = "idle"
              /\ stream[c].ch <= dbVersion
            BY <1>1, EmptyBuildsGood, StreamFields, Zenon DEF StreamInv
        <3>2. Serves(Sent(c), NoBuild)
            BY <3>1, Zenon DEF Serves
        <3>3. 0 <= dbVersion
            BY <1>2
        <3> QED
            BY <2>2, <3>1, <3>2, <3>3, Zenon DEF StreamInv
    <2> QED
        BY <1>1, <1>2, <2>1, <2>3, EmptyBuildsGood, StreamTypes, FeedStream, Zenon
<1>5. CASE WatchEnds(c)
    <2>1. PICK w \in {<<>>, stream[c].wire} : stream' = [stream EXCEPT ![c] = [NoStream EXCEPT !.wire = w]]
        BY <1>5, Zenon DEF WatchEnds
    <2>2. build' = [build EXCEPT ![c] = NoBuild] /\ UNCHANGED <<tableVars, configCache, broadcast, notifying>>
        BY <1>5 DEF WatchEnds
    <2>3. \A i \in 1..Len(w) : Good(w[i], dbVersion, table, dbConfig)
        BY <1>1, <2>1
    <2>4. [NoStream EXCEPT !.wire = w] \in Stream
        BY <1>1, <2>1, StreamTypes, Zenon
    <2>5. StreamInv([NoStream EXCEPT !.wire = w], NoBuild, dbVersion, table, dbConfig)
        BY <1>2, <2>3, EmptyBuildsGood, NewStreamFields DEF StreamInv, Serves
    <2> QED
        BY <1>1, <1>2, <2>1, <2>2, <2>4, <2>5, EmptyBuildsGood, FeedStream, Zenon
<1>6. CASE WatchTopology(c)
    <2>1. PICK since \in {0, cache[c].label} : Watch(c, since)
        BY <1>6 DEF WatchTopology
    <2>2. since \in Nat
        BY <2>1, FeedFacts, ClientAssumption DEF Caches, Snapshot
    <2> DEFINE st == [NoStream EXCEPT !.pc = "build", !.since = since]
    <2>3. /\ stream' = [stream EXCEPT ![c] = st] /\ build' = [build EXCEPT ![c] = NewBuild]
          /\ UNCHANGED <<tableVars, configCache, broadcast, notifying>>
        BY <2>1 DEF Watch
    <2>4. st \in Stream
        BY <1>1, <2>2, StreamTypes, Zenon
    <2>5. st.ch = 0 /\ st.got = 0 /\ st.wire = <<>>
        BY NewStreamFields
    <2> HIDE DEF st
    <2>6. StreamInv(st, NewBuild, dbVersion, table, dbConfig)
        BY <1>2, <2>5, EmptyBuildsGood DEF StreamInv, Serves
    <2> QED
        BY <1>1, <1>2, <2>3, <2>4, <2>6, EmptyBuildsGood, FeedStream, Zenon
<1> QED
    BY <1>3, <1>4, <1>5, <1>6

(* A client holds what it has received. *)
LEMMA FeedRecv ==
    ASSUME FeedInv, NEW c \in Subscriber, Recv(c)
    PROVE  FeedInv'
<1>1. /\ stream' = [stream EXCEPT ![c] = Received(c)] /\ stream[c].wire # <<>>
      /\ cache' = [cache EXCEPT ![c] = Head(stream[c].wire)]
      /\ UNCHANGED <<tableVars, configCache, broadcast, notifying, build>>
    BY DEF Recv, Received
<1>2. Received(c) \in Stream /\ build[c] \in BuildRec /\ build' = [build EXCEPT ![c] = build[c]]
    <2>1. build \in Builds /\ ClientTypeOK
        BY FeedFacts
    <2>2. build[c] \in BuildRec /\ build = [build EXCEPT ![c] = build[c]]
        BY <2>1 DEF Builds, Builder
    <2> QED
        BY <1>1, <2>1, <2>2, StreamTypes, Zenon
<1>3. Head(stream[c].wire) \in Snapshot /\ Holds(Head(stream[c].wire))
    BY <1>1, FeedFacts, StreamFields, WireSteps, TailFacts, Zenon
<1>4. cache' \in Caches /\ \A d \in Client : Holds(cache'[d])
    BY <1>1, <1>3, FeedFacts, Zenon DEF Caches
<1>5. StreamInv(Received(c), build[c], dbVersion, table, dbConfig)
    BY <1>1, FeedFacts, StreamFields, WireSteps, Zenon DEF StreamInv, Serves, Holds
<1>6. GoodBuild(build[c], dbVersion, table, dbConfig)
    BY FeedFacts DEF Builder
<1> QED
    BY <1>1, <1>2, <1>4, <1>5, <1>6, FeedStream, Zenon

(* A client holds what GetTopology has returned. *)
LEMMA FeedRefresh ==
    ASSUME FeedInv, NEW f \in Fetch, RefreshCall(f) \/ RefreshReturn(f) \/ RefreshFails(f)
    PROVE  FeedInv'
<1>1. PICK b \in {NoBuild, NewBuild} : build' = [build EXCEPT ![f] = b]
    BY DEF RefreshCall, RefreshReturn, RefreshFails
<1>2. UNCHANGED <<tableVars, configCache, broadcast, notifying, stream>>
    BY DEF RefreshCall, RefreshReturn, RefreshFails
<1>3. b \in BuildRec /\ GoodBuild(b, dbVersion, table, dbConfig)
    BY <1>1, BuildTypes, EmptyBuildsGood
<1>4. build \in Builds /\ f \in Builder /\ f \notin Subscriber
    BY FeedFacts, FetchAssumption DEF Builder
<1>5. build' \in Builds /\ build'[f] = b /\ \A q \in Builder \ {f} : build'[q] = build[q]
    BY <1>1, <1>3, <1>4 DEF Builds
<1>6. \A q \in Builder : GoodBuild(build'[q], dbVersion, table, dbConfig)
    BY <1>3, <1>5, FeedFacts
<1>7. \A c \in Subscriber : StreamInv(stream'[c], build'[c], dbVersion, table, dbConfig)
    BY <1>2, <1>4, <1>5, FeedFacts DEF Builder
<1>8. cache' \in Caches /\ \A c \in Client : Holds(cache'[c])
    <2>1. CASE UNCHANGED cache
        BY <2>1, FeedFacts
    <2>2. CASE RefreshReturn(f)
        <3>1. cache' = [cache EXCEPT ![Owner[f]] = build[f].snap] /\ build[f].at = "done"
            BY <2>2 DEF RefreshReturn
        <3>2. build[f].snap \in Snapshot /\ Holds(build[f].snap)
            BY <1>4, <3>1, FeedFacts, Zenon DEF Builds, BuildRec, GoodBuild, Holds
        <3> QED
            BY <3>1, <3>2, FeedFacts, Zenon DEF Caches
    <2> QED
        BY <2>1, <2>2 DEF RefreshCall, RefreshFails
<1> QED
    BY <1>2, <1>5, <1>6, <1>7, <1>8, FeedFacts, FeedKeeps

(* Nothing has been read at first. *)
LEMMA FeedInvInit == ClientInit => FeedInv
<1> SUFFICES ASSUME ClientInit PROVE FeedInv
    OBVIOUS
<1>1. ClientTypeOK
    BY TypeInit
<1>2. DbInv /\ NotifyInv
    BY DEF ClientInit, FeedInit, TableInit, DbInv, NotifyInv
<1>3. \A p \in Builder : GoodBuild(build[p], dbVersion, table, dbConfig)
    BY DEF ClientInit, FeedInit, Builder, GoodBuild, NoBuild
<1>4. \A c \in Subscriber : StreamInv(stream[c], build[c], dbVersion, table, dbConfig)
    BY DEF ClientInit, FeedInit, TableInit, StreamInv, Serves, NoStream
<1>5. \A c \in Client : Holds(cache[c])
    BY DEF ClientInit, FeedInit, TableInit, Holds, Good, NoSnapshot
<1> QED
    BY <1>1, <1>2, <1>3, <1>4, <1>5 DEF FeedInv

(* Every step keeps what the snapshots say true. *)
LEMMA FeedInvStep == FeedInv /\ [ClientNext]_clientVars => FeedInv'
<1> SUFFICES ASSUME FeedInv, [ClientNext]_clientVars
             PROVE  FeedInv'
    OBVIOUS
<1>1. CASE UNCHANGED clientVars
    BY <1>1, FeedFacts, FeedKeeps DEF clientVars, feedVars
<1>2. CASE LoadConfig /\ UNCHANGED cache
    BY <1>2, FeedFacts, FeedKeeps DEF LoadConfig
<1> QED
    BY <1>1, <1>2, FeedChange, FeedBuild, FeedNotify, FeedWatch, FeedRecv, FeedRefresh
    DEF ClientNext, FeedStep, Builder, WatchTopology
-----------------------------------------------------------------------------
(* The invariant holds whatever the clients, fetches, notifiers and transactions do. *)
THEOREM FeedInvariant == ClientSpec => []FeedInv
BY FeedInvInit, FeedInvStep, PTL DEF ClientSpec

(* Snapshots, channels and caches stay well typed, and nothing is notified beyond
   the versions the database can have. *)
THEOREM ClientTyped == ClientSpec => []ClientTypeOK
<1>1. FeedInv => ClientTypeOK
    BY DEF FeedInv
<1> QED
    BY <1>1, FeedInvariant, PTL

(* A client that holds the database's version routes by the database's rows, and
   has its configuration, although both come from reads in separate statements
   and refreshes and watch events overwrite each other. *)
THEOREM CacheIsCurrent == ClientSpec => []CurrentMeansCurrent
<1>1. FeedInv => CurrentMeansCurrent
    <2> SUFFICES ASSUME FeedInv, NEW c \in Client
                 PROVE  Faithful(cache[c])
        BY DEF CurrentMeansCurrent
    <2>1. cache[c] \in Snapshot /\ Holds(cache[c]) /\ dbVersion \in Nat
        BY FeedFacts DEF Caches
    <2> QED
        BY <2>1 DEF Holds, Good, Snapshot, Faithful
<1> QED
    BY <1>1, FeedInvariant, PTL
-----------------------------------------------------------------------------
(* The invariant of a watch *)

Older(snap, newer) == snap.label <= newer.label /\ snap.asOf <= newer.asOf

Labelled(b) == b.at \in {"config", "rows", "done"}

(* A handler that will find its channel empty serves, or has served, what was last
   notified. *)
Awake(st, b, note) ==
    st.ch = 0 =>
        /\ st.pc = "build" /\ Labelled(b) => note <= b.snap.label
        /\ st.pc = "select" => note <= st.served

(* The cache k and the events in flight are in the order in which they were built,
   and the snapshot being built comes after them. *)
InOrder(k, w) ==
    /\ \A i \in 1..Len(w) : Older(k, w[i])
    /\ \A i, j \in 1..Len(w) : i <= j => Older(w[i], w[j])

Follows(b, snap) ==
    /\ Labelled(b) => snap.label <= b.snap.label
    /\ b.at = "done" => snap.asOf <= b.snap.asOf

(* What is held back from a client that asked for later versions, it has. *)
WatchInv(st, b, k) ==
    /\ st.pc = "build" /\ st.got = 0 /\ st.since > 0 => st.wire = <<>> /\ k.label = st.since
    /\ st.pc = "select" => IF st.wire = <<>> THEN st.served <= k.label
                           ELSE st.served <= st.wire[Len(st.wire)].label
    /\ InOrder(k, st.wire)
    /\ st.pc = "build" => Follows(b, k) /\ \A i \in 1..Len(st.wire) : Follows(b, st.wire[i])

WatchesInv ==
    /\ FeedInv
    /\ \A c \in Subscriber : Awake(stream[c], build[c], broadcast)
    /\ \A c \in WatchOnly : WatchInv(stream[c], build[c], cache[c])

(* No stream is open at first. *)
LEMMA WatchesInit == ClientInit => WatchesInv
<1> SUFFICES ASSUME ClientInit PROVE WatchesInv
    OBVIOUS
<1>1. \A c \in Subscriber : stream[c] = NoStream /\ cache[c] = NoSnapshot
    BY ClientAssumption DEF ClientInit, FeedInit
<1>2. \A c \in Subscriber : Awake(stream[c], build[c], broadcast)
    BY <1>1, SMTT(30) DEF Awake, NoStream
<1>3. ASSUME NEW c \in WatchOnly PROVE WatchInv(stream[c], build[c], cache[c])
    <2>1. stream[c].pc = "off" /\ stream[c].wire = <<>>
        BY <1>1 DEF WatchOnly, NoStream
    <2> QED
        BY <2>1, SMTT(30) DEF WatchInv, InOrder
<1> QED
    BY <1>2, <1>3, FeedInvInit DEF WatchesInv

(* What a build has still to read is no older than what the client has or will
   receive. *)
LEMMA NothingAhead ==
    ASSUME FeedInv, NEW c \in Subscriber
    PROVE  /\ cache[c].label \in Nat /\ cache[c].asOf \in Nat
           /\ cache[c].label <= dbVersion /\ cache[c].asOf <= dbVersion
           /\ \A i \in 1..Len(stream[c].wire) :
                 /\ stream[c].wire[i].label \in Nat /\ stream[c].wire[i].asOf \in Nat
                 /\ stream[c].wire[i].label <= dbVersion
                 /\ stream[c].wire[i].asOf <= dbVersion
<1>1. \A snap \in Snapshot : Holds(snap) =>
         /\ snap.label \in Nat /\ snap.asOf \in Nat
         /\ snap.label <= dbVersion /\ snap.asOf <= dbVersion
    BY FeedFacts DEF Holds, Good, Snapshot
<1>2. cache[c] \in Snapshot /\ Holds(cache[c])
    BY FeedFacts, ClientAssumption DEF Caches
<1>3. \A i \in 1..Len(stream[c].wire) : stream[c].wire[i] \in Snapshot /\ Holds(stream[c].wire[i])
    BY FeedFacts, StreamFields, WireSteps, SMTT(30)
<1> QED
    BY <1>1, <1>2, <1>3

(* The watch part of the invariant after a step, for one client. *)
WatchKept(c) ==
    /\ Awake(stream'[c], build'[c], broadcast')
    /\ c \in WatchOnly => WatchInv(stream'[c], build'[c], cache'[c])

(* A stream, its build and its cache that a step leaves alone. *)
LEMMA WatchSame ==
    ASSUME WatchesInv, NEW c \in Subscriber, stream'[c] = stream[c], build'[c] = build[c],
           broadcast' = broadcast, c \in WatchOnly => cache'[c] = cache[c]
    PROVE  WatchKept(c)
BY Zenon DEF WatchesInv, WatchKept

(* A build reads a version no older than the one the stream was woken for. *)
LEMMA WatchBuild ==
    ASSUME WatchesInv, NEW p \in Builder, buildTopology(p), UNCHANGED cache, NEW c \in Subscriber
    PROVE  WatchKept(c)
<1>1. FeedInv /\ build \in Builds /\ c \in Builder /\ UNCHANGED <<stream, broadcast>>
    BY FeedFacts DEF WatchesInv, Builder, buildTopology, ReadVersion, ReadConfig, ReadRows
<1>2. CASE c # p
    <2>1. build'[c] = build[c]
        BY <1>1, <1>2 DEF Builds, buildTopology, ReadVersion, ReadConfig, ReadRows, reaches
    <2> QED
        BY <1>1, <2>1, WatchSame, Zenon
<1>3. CASE c = p
    <2>1. build[c].snap \in Snapshot /\ build[c] \in BuildRec
        BY <1>1 DEF Builds, BuildRec
    <2>2. Awake(stream[c], build[c], broadcast) /\ (c \in WatchOnly => WatchInv(stream[c], build[c], cache[c]))
        BY DEF WatchesInv
    <2>3. CASE ReadVersion(c)
        <3>1. build'[c].at = "config" /\ build'[c].snap.label = dbVersion
            BY <1>1, <2>1, <2>3 DEF ReadVersion, reaches, Builds, Snapshot
        <3>2. broadcast <= dbVersion
            BY <1>1, FeedFacts, Zenon
        <3> QED
            BY <1>1, <2>2, <3>1, <3>2, NothingAhead, Zenon DEF WatchKept, Awake, WatchInv, Follows, Labelled
    <2>4. CASE ReadConfig(c)
        <3>1. build'[c].at = "rows" /\ build'[c].snap.label = build[c].snap.label /\ build[c].at = "config"
            BY <1>1, <2>1, <2>4 DEF ReadConfig, reaches, Builds, Snapshot
        <3> QED
            BY <1>1, <2>2, <3>1, Zenon DEF WatchKept, Awake, WatchInv, Follows, Labelled
    <2>5. CASE ReadRows(c)
        <3>1. /\ build'[c].at = "done" /\ build'[c].snap.label = build[c].snap.label /\ build[c].at = "rows"
              /\ build'[c].snap.asOf = dbVersion
            BY <1>1, <2>1, <2>5 DEF ReadRows, reaches, Builds, Snapshot
        <3> QED
            BY <1>1, <2>2, <3>1, NothingAhead, Zenon DEF WatchKept, Awake, WatchInv, Follows, Labelled
    <2> QED
        BY <1>3, <2>3, <2>4, <2>5 DEF buildTopology
<1> QED
    BY <1>2, <1>3

(* A notification reaches a channel or finds one full. *)
LEMMA WatchNotify ==
    ASSUME WatchesInv, NEW n \in Notifier, Notify(n), UNCHANGED cache, NEW c \in Subscriber
    PROVE  WatchKept(c)
<1>1. FeedInv /\ stream[c] \in Stream /\ notifying[n] # 0 /\ UNCHANGED build
    BY FeedFacts DEF WatchesInv, Streams, Notify
<1>2. CASE Streaming(c) /\ stream[c].ch = 0
    <2>1. stream'[c] = [stream[c] EXCEPT !.ch = notifying[n]]
        BY <1>2 DEF Notify
    <2>2. /\ stream'[c].ch # 0 /\ stream'[c].pc = stream[c].pc /\ stream'[c].got = stream[c].got
          /\ stream'[c].since = stream[c].since /\ stream'[c].served = stream[c].served
          /\ stream'[c].wire = stream[c].wire
        BY <1>1, <2>1 DEF Stream
    <2> QED
        BY <1>1, <2>2, Zenon DEF WatchKept, WatchesInv, Awake, WatchInv
<1>3. CASE ~(Streaming(c) /\ stream[c].ch = 0)
    <2>1. stream'[c] = stream[c]
        BY <1>3 DEF Notify
    <2> QED
        BY <1>1, <1>3, <2>1 DEF WatchKept, WatchesInv, Awake, Streaming
<1> QED
    BY <1>2, <1>3

(* The handler's own steps. *)
LEMMA WatchHandler ==
    ASSUME WatchesInv, NEW c \in Subscriber, UNCHANGED cache,
           WatchWake(c) \/ WatchSend(c) \/ WatchEnds(c) \/ WatchTopology(c), NEW d \in Subscriber
    PROVE  WatchKept(d)
<1>1. /\ FeedInv /\ ClientTypeOK /\ build \in Builds /\ stream \in Streams /\ c \in Builder
      /\ UNCHANGED broadcast
    BY FeedFacts DEF WatchesInv, Builder, WatchWake, WatchSend, WatchEnds, WatchTopology, Watch
<1>2. CASE d # c
    <2>1. build'[d] = build[d] /\ stream'[d] = stream[d]
        BY <1>1, <1>2 DEF Builds, Streams, Builder, WatchWake, WatchSend, WatchEnds, WatchTopology, Watch
    <2> QED
        BY <1>1, <2>1, WatchSame
<1>3. Awake(stream[c], build[c], broadcast) /\ (c \in WatchOnly => WatchInv(stream[c], build[c], cache[c]))
    BY DEF WatchesInv
<1>4. ASSUME WatchWake(c) PROVE WatchKept(c)
    <2>1. stream'[c] = Woken(c) /\ build'[c] = NewBuild
        BY <1>1, <1>4 DEF WatchWake, Woken, Streams, Builds
    <2>2. /\ stream'[c].pc = "build" /\ stream'[c].since = 0 /\ stream'[c].wire = stream[c].wire
          /\ build'[c].at = "version"
        BY <1>1, <2>1, StreamFields, EmptyBuildsGood, Zenon
    <2>3. Awake(stream'[c], build'[c], broadcast')
        BY <2>2 DEF Awake, Labelled
    <2>4. c \in WatchOnly => WatchInv(stream'[c], build'[c], cache'[c])
        <3>1. \A snap : Follows(build'[c], snap)
            BY <2>2, Zenon DEF Follows, Labelled
        <3>2. ~(stream'[c].since > 0)
            BY <2>2
        <3>3. c \in WatchOnly => InOrder(cache[c], stream'[c].wire)
            BY <1>3, <2>2, Zenon DEF WatchInv
        <3> QED
            BY <2>2, <3>1, <3>2, <3>3, Zenon DEF WatchInv
    <2> QED
        BY <2>3, <2>4 DEF WatchKept
<1>5. ASSUME WatchSend(c) PROVE WatchKept(c)
    <2> DEFINE w == stream[c].wire
               e == WatchEvent(c)
    <2>1. /\ stream'[c] = Sent(c) /\ build'[c] = NoBuild
          /\ stream[c].pc = "build" /\ build[c].at = "done"
        BY <1>1, <1>5 DEF WatchSend, Sent, Streams, Builds
    <2>2. e \in Snapshot /\ e.label = build[c].snap.label /\ e.asOf = build[c].snap.asOf
        BY <1>1, <2>1, EventIsBuild
    <2>3. Awake(stream'[c], build'[c], broadcast')
        BY <1>1, <1>3, <2>1, <2>2, StreamFields, Zenon DEF Awake, Labelled
    <2>4. ASSUME c \in WatchOnly PROVE WatchInv(stream'[c], build'[c], cache'[c])
        <3>1. w \in Seq(Snapshot) /\ InOrder(cache[c], w)
            BY <1>1, <1>3, <2>4, StreamFields, Zenon DEF WatchInv
        <3>2. CASE NothingNew(c)
            <4>1. w = <<>> /\ cache[c].label = stream[c].since
                BY <1>3, <2>1, <2>4, <3>2, Zenon DEF WatchInv, NothingNew
            <4>2. e.label <= cache[c].label
                BY <3>2, <4>1 DEF NothingNew
            <4> QED
                BY <1>1, <2>1, <3>1, <3>2, <4>1, <4>2, StreamFields, Zenon DEF WatchInv
        <3>3. CASE ~NothingNew(c)
            <4>1. Older(cache[c], e) /\ \A i \in 1..Len(w) : Older(w[i], e)
                BY <1>3, <2>1, <2>2, <2>4, Zenon DEF WatchInv, Follows, Labelled, Older
            <4>2. stream'[c].wire = Append(w, e) /\ stream'[c].pc = "select" /\ stream'[c].served = e.label
                BY <1>1, <2>1, <3>3, StreamFields, Zenon
            <4>3. e.label \in Nat /\ e.asOf \in Nat
                BY <2>2, Zenon DEF Snapshot
            <4> HIDE DEF w, e
            <4>4. /\ Len(w) \in Nat /\ Len(Append(w, e)) = Len(w) + 1 /\ Append(w, e)[Len(w) + 1] = e
                  /\ \A i \in 1..Len(w) : Append(w, e)[i] = w[i]
                BY <2>2, <3>1
            <4>5. Append(w, e) # <<>>
                BY <4>4
            <4>6. InOrder(cache[c], Append(w, e))
                <5>1. \A i \in 1..Len(Append(w, e)) :
                         \/ i \in 1..Len(w) /\ Append(w, e)[i] = w[i]
                         \/ i = Len(w) + 1 /\ Append(w, e)[i] = e
                    BY <4>4
                <5>2. Older(e, e)
                    BY <4>3 DEF Older
                <5>3. \A i \in 1..Len(w) : ~(Len(w) + 1 <= i)
                    BY <4>4
                <5> QED
                    BY <3>1, <4>1, <5>1, <5>2, <5>3, Zenon DEF InOrder
            <4> QED
                BY <4>2, <4>3, <4>4, <4>5, <4>6, SMTT(30) DEF WatchInv
        <3> QED
            BY <3>2, <3>3
    <2> QED
        BY <2>3, <2>4, Zenon DEF WatchKept
<1>6. ASSUME WatchEnds(c) PROVE WatchKept(c)
    <2>1. PICK w \in {<<>>, stream[c].wire} : stream' = [stream EXCEPT ![c] = [NoStream EXCEPT !.wire = w]]
        BY <1>6, Zenon DEF WatchEnds
    <2>2. stream'[c].pc = "off" /\ stream'[c].wire = w
        BY <1>1, <2>1, NewStreamFields DEF Streams
    <2>3. c \in WatchOnly => InOrder(cache[c], w)
        BY <1>3, <2>1 DEF WatchInv, InOrder
    <2> QED
        BY <2>2, <2>3, Zenon DEF WatchKept, Awake, WatchInv
<1>7. ASSUME WatchTopology(c) PROVE WatchKept(c)
    <2>1. PICK since \in {0, cache[c].label} : Watch(c, since)
        BY <1>7 DEF WatchTopology
    <2>2. stream'[c] = [NoStream EXCEPT !.pc = "build", !.since = since] /\ build'[c] = NewBuild
        BY <1>1, <2>1 DEF Watch, Streams, Builds
    <2>3. stream'[c].pc = "build" /\ stream'[c].since = since /\ stream'[c].wire = <<>>
        BY <2>2, NewStreamFields
    <2> QED
        BY <2>1, <2>2, <2>3, EmptyBuildsGood DEF WatchKept, Awake, WatchInv, InOrder, Follows, Labelled
<1> QED
    BY <1>2, <1>4, <1>5, <1>6, <1>7

(* Receiving the first event of the wire keeps the rest in order. *)
LEMMA WatchRecv ==
    ASSUME WatchesInv, NEW c \in Subscriber, Recv(c), NEW d \in Subscriber
    PROVE  WatchKept(d)
<1>1. /\ FeedInv /\ ClientTypeOK /\ stream \in Streams /\ cache \in Caches /\ c \in Client /\ d \in Client
      /\ UNCHANGED <<broadcast, build>> /\ stream[c].wire # <<>>
    BY FeedFacts, ClientAssumption DEF WatchesInv, Recv
<1>2. CASE d # c
    <2>1. stream'[d] = stream[d] /\ cache'[d] = cache[d]
        BY <1>1, <1>2 DEF Streams, Caches, Recv
    <2> QED
        BY <1>1, <2>1, WatchSame
<1>3. CASE d = c
    <2> DEFINE w == stream[c].wire
    <2>1. stream'[c] = Received(c) /\ cache'[c] = Head(w)
        BY <1>1 DEF Recv, Received, Streams, Caches
    <2>2. Awake(stream'[c], build'[c], broadcast')
        <3>1. /\ stream'[c].ch = stream[c].ch /\ stream'[c].pc = stream[c].pc
              /\ stream'[c].served = stream[c].served
            BY <1>1, <2>1, StreamFields, Zenon
        <3> QED
            BY <1>1, <3>1, Zenon DEF WatchesInv, Awake
    <2>3. ASSUME c \in WatchOnly PROVE WatchInv(stream'[c], build'[c], cache'[c])
        <3>1. WatchInv(stream[c], build[c], cache[c]) /\ w \in Seq(Snapshot) /\ InOrder(cache[c], w)
            BY <1>1, <2>3, StreamFields, Zenon DEF WatchesInv, WatchInv
        <3>2. /\ stream'[c].pc = stream[c].pc /\ stream'[c].got = stream[c].got
              /\ stream'[c].since = stream[c].since /\ stream'[c].served = stream[c].served
              /\ stream'[c].wire = Tail(w)
            BY <1>1, <2>1, StreamFields, Zenon
        <3>3. ~(stream[c].pc = "build" /\ stream[c].got = 0 /\ stream[c].since > 0)
            BY <1>1, <3>1, Zenon DEF WatchInv
        <3>4. stream[c].pc = "select" => stream[c].served <= w[Len(w)].label
            BY <1>1, <3>1, Zenon DEF WatchInv
        <3>5. stream[c].pc = "build" => \A i \in 1..Len(w) : Follows(build[c], w[i])
            BY <3>1, Zenon DEF WatchInv
        <3>6. w # <<>>
            BY <1>1
        <3> HIDE DEF w
        <3>7. /\ Len(w) \in Nat /\ Len(w) >= 1 /\ Head(w) = w[1] /\ Len(Tail(w)) = Len(w) - 1
              /\ Tail(w) \in Seq(Snapshot)
              /\ \A i \in 1..Len(Tail(w)) : i + 1 \in 1..Len(w) /\ Tail(w)[i] = w[i + 1]
            BY <3>1, <3>6, TailFacts, Zenon
        <3>8. InOrder(w[1], Tail(w))
            BY <3>1, <3>7 DEF InOrder
        <3>9. stream[c].pc = "select" => IF Tail(w) = <<>> THEN stream[c].served <= w[1].label
                                         ELSE stream[c].served <= Tail(w)[Len(Tail(w))].label
            <4>1. CASE Tail(w) = <<>>
                BY <3>4, <3>7, <4>1
            <4>2. CASE Tail(w) # <<>>
                <5>1. Len(Tail(w)) \in 1..Len(Tail(w)) /\ Len(Tail(w)) + 1 = Len(w)
                    BY <3>7, <4>2, EmptyFacts
                <5> QED
                    BY <3>4, <3>7, <4>2, <5>1
            <4> QED
                BY <4>1, <4>2
        <3>10. stream[c].pc = "build" => Follows(build[c], w[1]) /\ \A i \in 1..Len(Tail(w)) : Follows(build[c], Tail(w)[i])
            BY <3>5, <3>7
        <3> QED
            BY <1>1, <2>1, <3>2, <3>3, <3>7, <3>8, <3>9, <3>10, Zenon DEF WatchInv
    <2> QED
        BY <1>3, <2>2, <2>3 DEF WatchKept
<1> QED
    BY <1>2, <1>3

(* A refresh belongs to a client that does not only watch. *)
LEMMA WatchRefresh ==
    ASSUME WatchesInv, NEW f \in Fetch, RefreshCall(f) \/ RefreshReturn(f) \/ RefreshFails(f),
           NEW c \in Subscriber
    PROVE  WatchKept(c)
<1>1. /\ build \in Builds /\ cache \in Caches /\ c \in Builder /\ c # f /\ c \in Client
      /\ UNCHANGED <<broadcast, stream>>
    BY FeedFacts, ClientAssumption, FetchAssumption, Zenon
    DEF WatchesInv, Builder, RefreshCall, RefreshReturn, RefreshFails
<1>2. build'[c] = build[c]
    BY <1>1 DEF Builds, RefreshCall, RefreshReturn, RefreshFails
<1>3. c \in WatchOnly => cache'[c] = cache[c]
    BY <1>1 DEF Caches, WatchOnly, RefreshCall, RefreshReturn, RefreshFails
<1> QED
    BY <1>1, <1>2, <1>3, WatchSame

(* Every step keeps every stream in order and awake. *)
LEMMA WatchesStep == WatchesInv /\ [ClientNext]_clientVars => WatchesInv'
<1> SUFFICES ASSUME WatchesInv, [ClientNext]_clientVars
             PROVE  WatchesInv'
    OBVIOUS
<1>1. FeedInv'
    BY FeedInvStep DEF WatchesInv
<1>2. ASSUME NEW c \in Subscriber PROVE WatchKept(c)
    <2>1. CASE UNCHANGED clientVars
        BY <2>1, WatchSame DEF clientVars, feedVars
    <2>2. CASE (Change \/ LoadConfig \/ \E n \in Notifier : NotifyRead(n)) /\ UNCHANGED cache
        BY <2>2, WatchSame DEF Change, LoadConfig, NotifyRead, feedVars
    <2> QED
        BY <2>1, <2>2, WatchBuild, WatchNotify, WatchHandler, WatchRecv, WatchRefresh, Zenon
        DEF ClientNext, FeedStep, Builder, WatchTopology
<1> QED
    BY <1>1, <1>2 DEF WatchesInv, WatchKept, WatchOnly
-----------------------------------------------------------------------------
(* The invariant of the watches holds whatever is lost, delayed or dropped. *)
THEOREM WatchesInvariant == ClientSpec => []WatchesInv
BY WatchesInit, WatchesStep, PTL DEF ClientSpec

(* A handler that waits with an empty channel has served all that was notified, and
   its client, if it only watches, has received it: one slot per subscriber is
   enough although Notify drops what does not fit. *)
THEOREM NoWakeupLost == ClientSpec => []NoLostWakeup
<1>1. WatchesInv => NoLostWakeup
    <2> SUFFICES ASSUME WatchesInv, NEW c \in Subscriber, stream[c].pc = "select", stream[c].ch = 0
                 PROVE  /\ stream[c].served >= broadcast
                        /\ c \in WatchOnly /\ stream[c].wire = <<>> => cache[c].label >= broadcast
        BY DEF NoLostWakeup
    <2>1. /\ stream[c].served \in Nat /\ broadcast \in Nat
          /\ cache[c].label \in Nat
        BY FeedFacts, ClientAssumption, MaxVersionAssumption, SMTT(30) DEF WatchesInv, Streams, Stream, Caches, Snapshot
    <2>2. broadcast <= stream[c].served
        BY DEF WatchesInv, Awake
    <2>3. c \in WatchOnly /\ stream[c].wire = <<>> => stream[c].served <= cache[c].label
        BY Zenon DEF WatchesInv, WatchInv
    <2> QED
        BY <2>1, <2>2, <2>3
<1> QED
    BY <1>1, WatchesInvariant, PTL
-----------------------------------------------------------------------------
(* The refinement: what the clients that only watch hold *)

(* The clients of Watch start as RouteCache does. *)
LEMMA PromiseInit == ClientInit => Promise!CacheInit
BY ClientAssumption, Zenon DEF ClientInit, FeedInit, TableInit, WatchOnly, Promise!CacheInit

(* Receiving an event loads a snapshot that is no older and existed as a whole. *)
LEMMA RecvLoads ==
    ASSUME WatchesInv, NEW c \in WatchOnly, Recv(c)
    PROVE  Promise!Load(c)
<1>1. /\ FeedInv /\ ClientTypeOK /\ cache \in Caches /\ c \in Subscriber /\ c \in Client /\ WatchOnly \subseteq Client
      /\ dbVersion \in Nat /\ stream[c].wire # <<>> /\ UNCHANGED tableVars
    BY FeedFacts, ClientAssumption DEF WatchesInv, WatchOnly, Recv
<1> DEFINE e == Head(stream[c].wire)
           held == [d \in WatchOnly |-> cache[d]]
<1>2. cache' = [cache EXCEPT ![c] = e]
    BY DEF Recv
<1>3. e \in Snapshot /\ Holds(e) /\ e = stream[c].wire[1] /\ 1 \in 1..Len(stream[c].wire)
    <2>1. stream[c].wire \in Seq(Snapshot) /\ Holds(e)
        BY <1>1, StreamFields, WireSteps, Zenon
    <2>2. e \in Snapshot /\ e = stream[c].wire[1] /\ Len(stream[c].wire) \in Nat /\ Len(stream[c].wire) >= 1
        BY <1>1, <2>1, TailFacts, Zenon
    <2>3. 1 \in 1..Len(stream[c].wire)
        BY <2>2, SMTT(30)
    <2> QED
        BY <2>1, <2>2, <2>3, Zenon
<1>4. Older(cache[c], e) /\ cache[c] \in Snapshot
    BY <1>1, <1>3, Zenon DEF WatchesInv, WatchInv, InOrder, Caches
<1> HIDE DEF e
<1>5. cache'[c] = e /\ \A d \in WatchOnly \ {c} : cache'[d] = cache[d]
    BY <1>1, <1>2 DEF Caches
<1>6. held' = [held EXCEPT ![c] = held'[c]] /\ held'[c] = e /\ held[c] = cache[c]
    BY <1>5, Zenon
<1>7. /\ e.label >= cache[c].label /\ e.asOf >= cache[c].asOf
      /\ e.label <= e.asOf /\ e.asOf <= dbVersion
      /\ dbVersion # 0 /\ e.asOf = dbVersion => e.rows = table
    BY <1>1, <1>3, <1>4, SMTT(30) DEF Older, Holds, Good, Snapshot
<1>8. UNCHANGED <<table, dbVersion>>
    BY <1>1 DEF tableVars
<1> QED
    BY <1>6, <1>7, <1>8 DEF Promise!Load

(* Every step loads a newer snapshot into one cache, bumps the table or does neither. *)
LEMMA PromiseStep == WatchesInv /\ [ClientNext]_clientVars => [Promise!CacheNext]_(Promise!cacheVars)
<1> SUFFICES ASSUME WatchesInv, [ClientNext]_clientVars
             PROVE  [Promise!CacheNext]_(Promise!cacheVars)
    OBVIOUS
<1> DEFINE held == [c \in WatchOnly |-> cache[c]]
<1>1. FeedInv /\ ClientTypeOK /\ cache \in Caches /\ dbVersion \in Nat /\ WatchOnly \subseteq Client
    BY FeedFacts, ClientAssumption, Zenon DEF WatchesInv, WatchOnly
<1>2. ASSUME UNCHANGED tableVars, UNCHANGED held PROVE [Promise!CacheNext]_(Promise!cacheVars)
    BY <1>2 DEF Promise!cacheVars, tableVars
<1>3. CASE UNCHANGED clientVars
    BY <1>2, <1>3 DEF clientVars
<1>4. CASE Change /\ UNCHANGED cache
    <2>1. UNCHANGED held
        BY <1>4
    <2>2. /\ dbVersion' >= dbVersion
          /\ dbVersion # 0 /\ table' # table => dbVersion' > dbVersion
        BY <1>1, <1>4, ChangeMoves DEF FeedInv, DbInv
    <2> QED
        BY <2>1, <2>2 DEF Promise!Move, Promise!CacheNext
<1>5. CASE FeedStep /\ UNCHANGED cache /\ ~Change
    BY <1>2, <1>5, Zenon DEF FeedStep, LoadConfig, buildTopology, ReadVersion, ReadConfig, ReadRows, NotifyRead,
                      Notify, WatchWake, WatchSend, WatchEnds
<1>6. ASSUME NEW c \in Subscriber, WatchTopology(c) PROVE [Promise!CacheNext]_(Promise!cacheVars)
    BY <1>2, <1>6 DEF WatchTopology, Watch
<1>7. ASSUME NEW c \in Subscriber, Recv(c) PROVE [Promise!CacheNext]_(Promise!cacheVars)
    <2>1. CASE c \in WatchOnly
        BY <1>7, <2>1, RecvLoads DEF Promise!CacheNext
    <2>2. CASE c \notin WatchOnly
        <3>1. \A d \in WatchOnly : cache'[d] = cache[d]
            BY <1>1, <1>7, <2>2 DEF Recv, Caches
        <3> QED
            BY <1>2, <1>7, <3>1 DEF Recv
    <2> QED
        BY <2>1, <2>2
<1>8. ASSUME NEW f \in Fetch, RefreshCall(f) \/ RefreshReturn(f) \/ RefreshFails(f)
      PROVE  [Promise!CacheNext]_(Promise!cacheVars)
    <2>1. \A d \in WatchOnly : cache'[d] = cache[d]
        BY <1>1, <1>8 DEF RefreshCall, RefreshReturn, RefreshFails, Caches, WatchOnly
    <2>2. UNCHANGED tableVars
        BY <1>8, Zenon DEF RefreshCall, RefreshReturn, RefreshFails
    <2> QED
        BY <1>2, <2>1, <2>2
<1> QED
    BY <1>3, <1>4, <1>5, <1>6, <1>7, <1>8 DEF ClientNext

(* The cache of a client that only watches never goes back, across lost streams and
   new subscriptions, and always was the database's table at the time it says. *)
THEOREM WatchNeverGoesBack == ClientSpec => WatchMovesForward
BY PromiseInit, PromiseStep, WatchesInvariant, PTL DEF ClientSpec, WatchMovesForward, Promise!CacheSpec
=============================================================================
