------------------------------ MODULE RouteCache ------------------------------
(***************************************************************************)
(* What cached topologies promise their holders.  The database moves on; a *)
(* cache is replaced from time to time by a snapshot that is no older than *)
(* the one it replaces, and that existed as a whole at some moment: asOf   *)
(* is the version the database had when its rows were read, and label, the *)
(* version it is filed under, never overstates it.                         *)
(***************************************************************************)
EXTENDS Naturals

CONSTANTS
    Holder,       \* the owners of a cache
    NoSnapshot    \* a cache before anything was loaded

VARIABLES table, dbVersion, cache

cacheVars == <<table, dbVersion, cache>>

(* The table changes; once there is a version, only together with it. *)
Move ==
    /\ dbVersion' >= dbVersion
    /\ dbVersion # 0 /\ table' # table => dbVersion' > dbVersion
    /\ UNCHANGED cache

(* c replaces its cache. *)
Load(c) ==
    /\ cache'[c].label >= cache[c].label
    /\ cache'[c].asOf >= cache[c].asOf
    /\ cache'[c].label <= cache'[c].asOf
    /\ cache'[c].asOf <= dbVersion
    /\ dbVersion # 0 /\ cache'[c].asOf = dbVersion => cache'[c].rows = table
    /\ cache' = [cache EXCEPT ![c] = cache'[c]]
    /\ UNCHANGED <<table, dbVersion>>

CacheInit == dbVersion = 0 /\ cache = [c \in Holder |-> NoSnapshot]

CacheNext == Move \/ \E c \in Holder : Load(c)

CacheSpec == CacheInit /\ [][CacheNext]_cacheVars
=============================================================================
