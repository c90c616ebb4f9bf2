---------------------------- MODULE MCShardStore ----------------------------
(***************************************************************************)
(* The store and what is checked beside it, one part per behaviour while   *)
(* the others rest in an initial state:                                    *)
(*   store    any client's transactions, one action each (ShardStore)      *)
(*   a bucket two concurrent transactions, statement by statement          *)
(*            (StoreTx), over the same tables                              *)
(*   keys     bootstrap requests and the routing of keys (KeyRouting)      *)
(*   refresh  a client that watches and refreshes (ClientCache), over a    *)
(*            database of its own                                          *)
(***************************************************************************)
EXTENDS LocalResolve, StoreTx, MCKeyRouting, ClientCache, TLC

CONSTANTS c1, f1

VARIABLE part

MCOwner == [f \in {f1} |-> c1]

(* The transactions name one bucket, whichever it is. *)
Statements(b) == INSTANCE StoreTx WITH Bucket <- {b}, PatchTargets <- {"standby", "active"}

partVars == <<part, txVars, keyVars, clientVars>>

PartsInit ==
    /\ TxInit /\ KeyInit /\ ClientInit
    /\ part = "keys" \/ (part \in {"store", "refresh"} \cup Bucket /\ hour = CHOOSE h \in Hours : h - 1 \notin Hours)

PartsNext ==
    \/ part = "store" /\ StoreNext /\ UNCHANGED <<part, tx, keyVars, clientVars>>
    \/ (\E b \in Bucket : part = b /\ Statements(b)!TxNext) /\ UNCHANGED <<part, keyVars, clientVars>>
    \/ part = "keys" /\ KeyNext /\ UNCHANGED <<part, txVars, clientVars>>
    \/ part = "refresh" /\ ClientNext /\ UNCHANGED <<part, txVars, keyVars>>

PartsSpec == PartsInit /\ [][PartsNext]_partVars

Symmetry == Permutations(Shard) \cup Permutations(Bucket) \cup Permutations(Tx)
=============================================================================
