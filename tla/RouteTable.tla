------------------------------ MODULE RouteTable ------------------------------
(***************************************************************************)
(* What the metadata database promises to those who only read it: a table  *)
(* of rows to route by, a configuration that is installed once, and a      *)
(* version that moves whenever a committed transaction may have changed    *)
(* the table.  Before bootstrap there is no row to keep the version in, so *)
(* the table changes unnoticed.                                            *)
(*                                                                         *)
(* ShardStore implements this specification (PublishesRoutes); the         *)
(* topology feed and the client's cache are built on it.                   *)
(***************************************************************************)
EXTENDS Naturals

CONSTANTS
    Table,           \* possible contents of the table shards, as shown to clients
    EmptyTable,      \* no rows
    DbConfig,        \* possible bootstrap configurations
    NoDbConfig,      \* cluster_config is empty
    DbModulus        \* topology_version is kept modulo this bound

VARIABLES
    table,
    dbConfig,        \* the configuration in cluster_config, or NoDbConfig
    dbVersion        \* cluster_config.topology_version

tableVars == <<table, dbConfig, dbVersion>>

(* A committed transaction.  Several of them bump the version without changing a
   row that clients see. *)
Publish ==
    /\ table' \in Table
    /\ dbVersion' = IF dbConfig = NoDbConfig THEN dbVersion
                           ELSE (dbVersion + 1) % DbModulus
    /\ UNCHANGED dbConfig

Install(c) ==
    /\ dbConfig = NoDbConfig
    /\ dbConfig' = c
    /\ dbVersion' = 1 % DbModulus
    /\ UNCHANGED table

TableInit ==
    /\ table = EmptyTable
    /\ dbConfig = NoDbConfig
    /\ dbVersion = 0

TableNext ==
    \/ Publish
    \/ \E c \in DbConfig : Install(c)

TableSpec == TableInit /\ [][TableNext]_tableVars
=============================================================================
