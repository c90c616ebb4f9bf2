----------------------------- MODULE ClientCache ------------------------------
(***************************************************************************)
(* The topology cache of the client SDK (pkg/client/client.go) against the *)
(* server's topology feed: refreshTopology, which runs at Dial, after      *)
(* every admin call and whenever Resolve answers Unavailable, and the      *)
(* goroutine of WatchTopology.  Both overwrite the cache with whatever     *)
(* they have received.                                                     *)
(***************************************************************************)
EXTENDS TopologyFeed

CONSTANT Owner   \* the client whose refreshTopology issued a fetch

ASSUME OwnerAssumption == Owner \in [Fetch -> Client]

VARIABLE cache   \* per client: Client.topo with Client.topoVer as its label

clientVars == <<tableVars, feedVars, cache>>

(* Clients whose cache is written by their watch alone. *)
WatchOnly == {c \in Subscriber : \A f \in Fetch : Owner[f] # c}

(* WatchTopology opens the stream without since_version; another user of the API
   may ask for what is newer than it has. *)
WatchTopology(c) ==
    /\ \E since \in {0, cache[c].label} : Watch(c, since)
    /\ UNCHANGED cache

(* One turn of the goroutine.  After an error it returns: WatchEnds, and then
   nothing but a new WatchTopology. *)
Recv(c) ==
    /\ stream[c].wire # <<>>
    /\ cache' = [cache EXCEPT ![c] = Head(stream[c].wire)]
    /\ stream' = [stream EXCEPT ![c] = [@ EXCEPT !.wire = Tail(stream[c].wire)]]
    /\ UNCHANGED <<tableVars, configCache, broadcast, notifying, build>>

(* refreshTopology: call Get, ... *)
RefreshCall(f) ==
    /\ build[f].at = "idle"
    /\ build' = [build EXCEPT ![f] = NewBuild]
    /\ UNCHANGED <<tableVars, configCache, broadcast, notifying, stream, cache>>

(* ... and overwrite the cache with the answer, or ... *)
RefreshReturn(f) ==
    /\ build[f].at = "done"
    /\ cache' = [cache EXCEPT ![Owner[f]] = build[f].snap]
    /\ build' = [build EXCEPT ![f] = NoBuild]
    /\ UNCHANGED <<tableVars, configCache, broadcast, notifying, stream>>

(* ... ignore the error. *)
RefreshFails(f) ==
    /\ build[f].at # "idle"
    /\ build' = [build EXCEPT ![f] = NoBuild]
    /\ UNCHANGED <<tableVars, configCache, broadcast, notifying, stream, cache>>
-----------------------------------------------------------------------------
ClientInit == FeedInit /\ cache = [c \in Client |-> NoSnapshot]

ClientNext ==
    \/ FeedStep /\ UNCHANGED cache
    \/ \E c \in Subscriber : WatchTopology(c) \/ Recv(c)
    \/ \E f \in Fetch : RefreshCall(f) \/ RefreshReturn(f) \/ RefreshFails(f)

ClientSpec == ClientInit /\ [][ClientNext]_clientVars

(* The handlers and the goroutine run on, and the ticker of RefreshMetrics keeps
   notifying; nothing is assumed of admin calls, fetches or the stream's life. *)
FeedFairness ==
    /\ \A c \in Subscriber :
          /\ WF_clientVars((buildTopology(c) \/ WatchWake(c) \/ WatchSend(c)) /\ UNCHANGED cache)
          /\ WF_clientVars(Recv(c))
    /\ \A n \in Notifier : WF_clientVars((NotifyRead(n) \/ Notify(n)) /\ UNCHANGED cache)

FairClientSpec == ClientSpec /\ FeedFairness
-----------------------------------------------------------------------------
(* Properties *)

BuildPoint == {"idle", "version", "config", "rows", "done"}

(* Snapshots, channels and caches hold values of their types. *)
ClientTypeOK ==
    /\ table \in Table \cup {EmptyTable}
    /\ dbConfig \in DbConfig \cup {NoDbConfig}
    /\ dbVersion \in 0..MaxVersion
    /\ configCache \in DbConfig \cup {NoDbConfig}
    /\ broadcast \in 0..MaxVersion
    /\ notifying \in [Notifier -> 0..MaxVersion]
    /\ build \in [Subscriber \cup Fetch -> [at : BuildPoint, snap : Snapshot]]
    /\ stream \in [Subscriber -> [pc : {"off", "build", "select"}, ch : Nat, got : Nat,
                                  since : Nat, served : Nat, wire : Seq(Snapshot)]]
    /\ cache \in [Client -> Snapshot]

(* A snapshot whose label is the database's version is the database: the label is
   read before the rows, and no row changes without the version.  Whatever its
   label, a snapshot taken after bootstrap carries the configuration, although it
   comes from a cache filled earlier. *)
Faithful(snap) ==
    /\ snap.label > 0 => snap.config = dbConfig
    /\ snap.label = dbVersion /\ dbVersion > 0 => snap.rows = table

(* A client that holds the current version routes by the current rows, also when
   refreshes and watch events overwrite each other's result. *)
CurrentMeansCurrent == \A c \in Client : Faithful(cache[c])

(* No wake-up is lost although a full channel drops notifications and the handler
   does not listen while it builds: a handler that waits with an empty channel has
   served everything notified so far, and so has, once its stream is empty, the
   client behind it. *)
NoLostWakeup ==
    \A c \in Subscriber : stream[c].pc = "select" /\ stream[c].ch = 0 =>
        /\ stream[c].served >= broadcast
        /\ c \in WatchOnly /\ stream[c].wire = <<>> => cache[c].label >= broadcast

(* A client that only watches has a cache that never goes back, across the loss of
   the stream and a new subscription. *)
Promise == INSTANCE RouteCache WITH Holder <- WatchOnly, cache <- [c \in WatchOnly |-> cache[c]]
WatchMovesForward == Promise!CacheSpec

(* As long as its stream lasts, a watching client catches up with the database
   when changes pause, even those nobody notified when they were made (promotions,
   the seal and retention supervisors, other servers). *)
WatchConverges ==
    \A c \in WatchOnly : Streaming(c) ~> (~Streaming(c) \/ cache[c].label = dbVersion)
=============================================================================
