------------------------------- MODULE MCParts --------------------------------
(***************************************************************************)
(* The two parts that run on their own clocks beside the coordinator: a    *)
(* client that watches the topology (ClientCache, two notifiers) and an    *)
(* agent with its data shard (Agent).  They share no state, so nothing is  *)
(* learnt from interleaving them: a behaviour is a behaviour of one part,  *)
(* while the other rests in an initial state, in which none of its fair    *)
(* actions is enabled.                                                     *)
(***************************************************************************)
EXTENDS Agent, ClientCache

CONSTANT c1

VARIABLE part

NoOwner == [f \in Fetch |-> c1]

partVars == <<part, clientVars, agentVars>>

PartsInit ==
    /\ ClientInit /\ AgentInit
    /\ part = "agent" \/ (part = "watch" /\ mode = "skip")

PartsNext ==
    \/ part = "watch" /\ ClientNext /\ UNCHANGED <<part, agentVars>>
    \/ part = "agent" /\ AgentNext /\ UNCHANGED <<part, clientVars>>

PartsSpec == PartsInit /\ [][PartsNext]_partVars /\ FeedFairness /\ AgentFairness
=============================================================================
