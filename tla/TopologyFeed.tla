----------------------------- MODULE TopologyFeed -----------------------------
(***************************************************************************)
(* The server's side of the TopologyService: buildTopology, Get and Watch  *)
(* (internal/grpcapi/server.go), the broadcast with its one-slot channels  *)
(* (internal/topology/broadcast.go) and the configuration cache            *)
(* (internal/store/store.go), over a database that changes under them.     *)
(*                                                                         *)
(* A snapshot is put together from three reads in separate statements.     *)
(* asOf is a history field: the version the database had when the rows     *)
(* were read.  A stream is the Watch handler of one client; a fetch is one *)
(* call of Get.  Both run buildTopology as build[p].                       *)
(***************************************************************************)
EXTENDS RouteTable, Sequences

CONSTANTS
    Client,
    Subscriber,   \* clients that call Watch
    Fetch,        \* concurrent calls of Get
    Notifier,     \* concurrent callers of Broadcast.Notify
    NoTable,      \* rows not read yet
    MaxVersion,   \* bound on topology_version
    MaxWire       \* events in flight on a stream before Send blocks

ASSUME ClientAssumption == Subscriber \subseteq Client
ASSUME FetchAssumption == Fetch \cap Subscriber = {}
ASSUME NoDbConfigAssumption == NoDbConfig \notin DbConfig
ASSUME EmptyTableAssumption == EmptyTable \in Table
ASSUME MaxVersionAssumption ==
    MaxVersion \in Nat /\ DbModulus \in Nat /\ 1 < DbModulus /\ MaxVersion < DbModulus

VARIABLES
    configCache,   \* Store.configCache
    broadcast,     \* Broadcast.version: the version last notified
    notifying,     \* per notifier: the version it read and is about to notify, or 0
    build,         \* per caller of buildTopology: how far it is, and its snapshot
    stream         \* per subscriber: its Watch handler, channel and events in flight

feedVars == <<configCache, broadcast, notifying, build, stream>>

Snapshot ==
    [label : Nat, config : DbConfig \cup {NoDbConfig}, rows : Table \cup {NoTable}, asOf : Nat]

NoSnapshot == [label |-> 0, config |-> NoDbConfig, rows |-> NoTable, asOf |-> 0]

NoBuild == [at |-> "idle", snap |-> NoSnapshot]
NewBuild == [at |-> "version", snap |-> NoSnapshot]

(* ch = 0 is the empty channel, got the notified version that is being built for,
   or 0 in the build before the loop of Watch; served is the label of the last
   build, since the argument of the first one. *)
NoStream == [pc |-> "off", ch |-> 0, got |-> 0, since |-> 0, served |-> 0, wire |-> <<>>]

Streaming(c) == stream[c].pc \in {"build", "select"}

Later(v, w) == IF v < w THEN w ELSE v
-----------------------------------------------------------------------------
(* The database.  Its transactions commit at any moment; the version is far from
   its 64-bit limit. *)
Change ==
    /\ TableNext
    /\ dbVersion < MaxVersion
    /\ UNCHANGED feedVars

(* GetConfig by any other caller, or the end of Store.Bootstrap: the row, once
   there is one, is remembered; its absence is not. *)
LoadConfig ==
    /\ configCache = NoDbConfig
    /\ dbConfig # NoDbConfig
    /\ configCache' = dbConfig
    /\ UNCHANGED <<tableVars, broadcast, notifying, build, stream>>
-----------------------------------------------------------------------------
(* buildTopology *)

reaches(p, at, snap) == build' = [build EXCEPT ![p] = [at |-> at, snap |-> snap]]

ReadVersion(p) ==
    /\ build[p].at = "version"
    /\ reaches(p, "config", [build[p].snap EXCEPT !.label = dbVersion])
    /\ UNCHANGED <<tableVars, configCache, broadcast, notifying, stream>>

(* GetConfig: the cached configuration if there is one, else the row. *)
CachedConfig == IF configCache # NoDbConfig THEN configCache ELSE dbConfig

ReadConfig(p) ==
    /\ build[p].at = "config"
    /\ reaches(p, "rows", [build[p].snap EXCEPT !.config = CachedConfig])
    /\ configCache' = CachedConfig
    /\ UNCHANGED <<tableVars, broadcast, notifying, stream>>

ReadRows(p) ==
    /\ build[p].at = "rows"
    /\ reaches(p, "done", [build[p].snap EXCEPT !.rows = table, !.asOf = dbVersion])
    /\ UNCHANGED <<tableVars, configCache, broadcast, notifying, stream>>

(* Variant: the rows are listed first and labelled with a version read last. *)
ListFirst(p) ==
    /\ build[p].at = "version"
    /\ reaches(p, "config", [build[p].snap EXCEPT !.rows = table, !.asOf = dbVersion])
    /\ UNCHANGED <<tableVars, configCache, broadcast, notifying, stream>>

LabelLast(p) ==
    /\ build[p].at = "rows"
    /\ reaches(p, "done", [build[p].snap EXCEPT !.label = dbVersion])
    /\ UNCHANGED <<tableVars, configCache, broadcast, notifying, stream>>

buildTopologyRowsFirst(p) == ListFirst(p) \/ ReadConfig(p) \/ LabelLast(p)

buildTopology(p) == ReadVersion(p) \/ ReadConfig(p) \/ ReadRows(p)
-----------------------------------------------------------------------------
(* Broadcast *)

(* Variants: the version is counted up instead of read; only the first change, made
   through this server, is notified, and the ticker does not repeat it. *)
NotifyNext(n) ==
    /\ notifying[n] = 0
    /\ dbConfig # NoDbConfig
    /\ notifying' = [notifying EXCEPT ![n] = broadcast + 1]
    /\ UNCHANGED <<tableVars, configCache, broadcast, build, stream>>

NotifyReadOnce(n) ==
    /\ notifying[n] = 0
    /\ dbConfig # NoDbConfig /\ broadcast = 0
    /\ notifying' = [notifying EXCEPT ![n] = dbVersion]
    /\ UNCHANGED <<tableVars, configCache, broadcast, build, stream>>

(* notifyTopology and RefreshMetrics read the version and then broadcast it; other
   notifiers and transactions come in between.  Nothing is notified before
   bootstrap. *)
NotifyRead(n) ==
    /\ notifying[n] = 0
    /\ dbConfig # NoDbConfig
    /\ notifying' = [notifying EXCEPT ![n] = dbVersion]
    /\ UNCHANGED <<tableVars, configCache, broadcast, build, stream>>

(* Variant: only subscribers waiting in their select are notified. *)
NotifyWaiting(n) ==
    /\ notifying[n] # 0
    /\ broadcast' = notifying[n]
    /\ notifying' = [notifying EXCEPT ![n] = 0]
    /\ stream' = [c \in Subscriber |->
                     IF stream[c].pc = "select" /\ stream[c].ch = 0
                     THEN [stream[c] EXCEPT !.ch = notifying[n]] ELSE stream[c]]
    /\ UNCHANGED <<tableVars, configCache, build>>

(* A full channel drops the notification. *)
Notify(n) ==
    /\ notifying[n] # 0
    /\ broadcast' = notifying[n]
    /\ notifying' = [notifying EXCEPT ![n] = 0]
    /\ stream' = [c \in Subscriber |->
                     IF Streaming(c) /\ stream[c].ch = 0
                     THEN [stream[c] EXCEPT !.ch = notifying[n]] ELSE stream[c]]
    /\ UNCHANGED <<tableVars, configCache, build>>
-----------------------------------------------------------------------------
(* Watch *)

(* Subscribe, then start the first build. *)
Watch(c, since) ==
    /\ stream[c].pc = "off" /\ stream[c].wire = <<>>
    /\ stream' = [stream EXCEPT ![c] = [NoStream EXCEPT !.pc = "build", !.since = since]]
    /\ build' = [build EXCEPT ![c] = NewBuild]
    /\ UNCHANGED <<tableVars, configCache, broadcast, notifying>>

WatchWake(c) ==
    /\ stream[c].pc = "select" /\ stream[c].ch # 0
    /\ stream' = [stream EXCEPT ![c] = [@ EXCEPT !.pc = "build", !.got = stream[c].ch, !.ch = 0,
                                                 !.since = 0, !.served = 0]]
    /\ build' = [build EXCEPT ![c] = NewBuild]
    /\ UNCHANGED <<tableVars, configCache, broadcast, notifying>>

(* The event to send: labelled with the notified version if that is later. *)
WatchEvent(c) == [build[c].snap EXCEPT !.label = Later(build[c].snap.label, stream[c].got)]

(* Only the first build is held back, if the client asked for later versions. *)
NothingNew(c) == stream[c].got = 0 /\ stream[c].since > 0 /\ WatchEvent(c).label <= stream[c].since

WatchSend(c) ==
    /\ stream[c].pc = "build" /\ build[c].at = "done"
    /\ NothingNew(c) \/ Len(stream[c].wire) < MaxWire
    /\ stream' = [stream EXCEPT ![c] =
          [@ EXCEPT !.pc = "select", !.served = WatchEvent(c).label, !.got = 0, !.since = 0,
                    !.wire = IF NothingNew(c) THEN stream[c].wire
                             ELSE Append(stream[c].wire, WatchEvent(c))]]
    /\ build' = [build EXCEPT ![c] = NoBuild]
    /\ UNCHANGED <<tableVars, configCache, broadcast, notifying>>

(* The client goes away, a read or a send fails, or the server stops: the handler
   unsubscribes, and events in flight may be lost. *)
WatchEnds(c) ==
    /\ Streaming(c)
    /\ \E w \in {<<>>, stream[c].wire} :
          stream' = [stream EXCEPT ![c] = [NoStream EXCEPT !.wire = w]]
    /\ build' = [build EXCEPT ![c] = NoBuild]
    /\ UNCHANGED <<tableVars, configCache, broadcast, notifying>>
-----------------------------------------------------------------------------
FeedInit ==
    /\ TableInit
    /\ configCache = NoDbConfig
    /\ broadcast = 0
    /\ notifying = [n \in Notifier |-> 0]
    /\ build = [p \in Subscriber \cup Fetch |-> NoBuild]
    /\ stream = [c \in Subscriber |-> NoStream]

FeedStep ==
    \/ Change
    \/ LoadConfig
    \/ \E p \in Subscriber \cup Fetch : buildTopology(p)
    \/ \E n \in Notifier : NotifyRead(n) \/ Notify(n)
    \/ \E c \in Subscriber : WatchWake(c) \/ WatchSend(c) \/ WatchEnds(c)
=============================================================================
