-------------------------------- MODULE Agent ---------------------------------
(***************************************************************************)
(* The agents (internal/agent, cmd/agent) and the data shards they look    *)
(* after, over the metadata store: Tick with its three calls to the        *)
(* InternalService, the application's rows and write rights in the data    *)
(* shard's own database, and the coordinator moving shards at any moment.  *)
(*                                                                         *)
(* An agent keeps nothing between ticks, so a failed tick, a crash and a   *)
(* restart are one thing: the tick is abandoned where it stands and the    *)
(* next one starts afresh.  A lost reply is a report that was executed.    *)
(***************************************************************************)
EXTENDS ShardStore

(* The settings of DRAIN_MODE and APP_DB_ROLE: terminate, revoke (which stands for
   every other value), and revoke without a role. *)
DrainMode == {"terminate", "revoke", "skip"}

VARIABLES
    mode,      \* the agents' setting
    tick,      \* per agent: the next step of its Tick, and what it has learnt
    rows,      \* per shard: the buckets whose rows its database holds
    rights,    \* per shard: the application's role may write
    drained    \* history: DrainShard ran since the shard's drain began

dataVars == <<mode, tick, rows, rights, drained>>
agentVars == <<storeVars, dataVars>>

TickPoint == {"idle", "report", "reply", "drain", "drain_report", "clean", "clean_report"}
NoTick == [at |-> "idle", full |-> FALSE]

goto(s, at) == tick' = [tick EXCEPT ![s].at = at]
tickEnds(s) == tick' = [tick EXCEPT ![s] = NoTick]
-----------------------------------------------------------------------------
(* Tick *)

(* Connect and MeasureSize. *)
MeasureSize(s) ==
    /\ tick[s].at = "idle" /\ Registered(s)
    /\ \E reachedMax \in BOOLEAN :
          tick' = [tick EXCEPT ![s] = [at |-> "report", full |-> reachedMax]]
    /\ UNCHANGED <<storeVars, mode, rows, rights, drained>>

(* ReportStats, first half: the heartbeat. *)
ReportStats(s) ==
    /\ tick[s].at = "report"
    /\ UpdateStats(s, tick[s].full)
    /\ tick' = [tick EXCEPT ![s] = [at |-> "reply", full |-> FALSE]]
    /\ UNCHANGED <<mode, rows, rights, drained>>

(* ReportStats, second half: the row is read again for the reply, and Tick
   branches on its state. *)
ReportStatsReply(s) ==
    /\ tick[s].at = "reply"
    /\ goto(s, CASE state[s] = "draining" -> "drain"
                 [] state[s] = "cleaning" -> "clean"
                 [] OTHER                 -> "idle")
    /\ UNCHANGED <<storeVars, mode, rows, rights, drained>>

(* Variant: a missing APP_DB_ROLE is an error. *)
DrainShardNeedsRole(s) ==
    /\ tick[s].at = "drain" /\ mode # "skip"
    /\ rights' = [rights EXCEPT ![s] = rights[s] /\ mode # "revoke"]
    /\ drained' = [drained EXCEPT ![s] = TRUE]
    /\ goto(s, "drain_report")
    /\ UNCHANGED <<storeVars, mode, rows>>

DrainShard(s) ==
    /\ tick[s].at = "drain"
    /\ rights' = [rights EXCEPT ![s] = rights[s] /\ mode # "revoke"]
    /\ drained' = [drained EXCEPT ![s] = TRUE]
    /\ goto(s, "drain_report")
    /\ UNCHANGED <<storeVars, mode, rows>>

(* Variant: the agent reports the drain before it revokes. *)
ReportDrainCompleteFirst(s) ==
    /\ tick[s].at \in {"drain", "drain_report"}
    /\ MarkDrainReady(s)
    /\ IF tick[s].at = "drain" THEN UNCHANGED tick ELSE tickEnds(s)
    /\ UNCHANGED <<mode, rows, rights, drained>>

ReportDrainComplete(s) ==
    /\ tick[s].at = "drain_report"
    /\ MarkDrainReady(s)
    /\ tickEnds(s)
    /\ UNCHANGED <<mode, rows, rights, drained>>

(* Variants: the tables are not truncated; the truncation is not reported. *)
CleanDatabaseSkipped(s) ==
    /\ tick[s].at = "clean"
    /\ goto(s, "clean_report")
    /\ UNCHANGED <<storeVars, mode, rows, rights, drained>>

CleanDatabaseUnreported(s) ==
    /\ tick[s].at = "clean"
    /\ rows' = [rows EXCEPT ![s] = {}]
    /\ tickEnds(s)
    /\ UNCHANGED <<storeVars, mode, rights, drained>>

CleanDatabase(s) ==
    /\ tick[s].at = "clean"
    /\ rows' = [rows EXCEPT ![s] = {}]
    /\ goto(s, "clean_report")
    /\ UNCHANGED <<storeVars, mode, rights, drained>>

ReportCleaned(s) ==
    /\ tick[s].at = "clean_report"
    /\ FinishCleaning(s)
    /\ tickEnds(s)
    /\ UNCHANGED <<mode, rows, rights, drained>>

(* MarkDrainReady or FinishCleaning finds its row in another state and changes
   nothing; the first one is an error, the second is not. *)
ReportIgnored(s) ==
    /\ \/ tick[s].at = "drain_report" /\ state[s] # "draining"
       \/ tick[s].at = "clean_report" /\ state[s] # "cleaning"
    /\ tickEnds(s)
    /\ UNCHANGED <<storeVars, mode, rows, rights, drained>>

(* A statement or call fails, its reply is lost, or the agent dies. *)
TickFails(s) ==
    /\ tick[s].at # "idle"
    /\ tickEnds(s)
    /\ UNCHANGED <<storeVars, mode, rows, rights, drained>>

AgentStep(s) ==
    \/ MeasureSize(s)
    \/ ReportStats(s)
    \/ ReportStatsReply(s)
    \/ DrainShard(s)
    \/ ReportDrainComplete(s)
    \/ CleanDatabase(s)
    \/ ReportCleaned(s)
    \/ ReportIgnored(s)
-----------------------------------------------------------------------------
(* The application writes to the shard it resolved; it may be late, but
   not so late that the shard has been recycled meanwhile. *)
AppWrite(s) ==
    /\ role[s] = "data" /\ state[s] \in {"active", "draining", "sealed"}
    /\ rights[s]
    /\ rows' = [rows EXCEPT ![s] = @ \cup {bucket_id[s]}]
    /\ UNCHANGED <<storeVars, mode, tick, rights, drained>>

(* The coordinator: every transaction that is not an agent's report. *)
CoordinatorStep ==
    /\ \/ \E c \in Config : Bootstrap(c)
       \/ \E b \in Bucket : BucketStep(b)
       \/ \E s \in Shard, r \in Role : RegisterShard(s, r, "standby")
       \/ \E s \in Shard, newState \in PatchTargets : PatchState(s, newState)
       \/ \E s \in Shard : HeartbeatExpires(s) \/ DrainTimeoutExpires(s)
    /\ drained' = [s \in Shard |-> drained[s] /\ ~(state[s] # "draining" /\ state'[s] = "draining")]
    /\ UNCHANGED <<mode, tick, rows, rights>>

AgentInit ==
    /\ StoreInit
    /\ mode \in DrainMode
    /\ tick = [s \in Shard |-> NoTick]
    /\ rows = [s \in Shard |-> {}]
    /\ rights = [s \in Shard |-> TRUE]
    /\ drained = [s \in Shard |-> FALSE]

AgentNext ==
    \/ CoordinatorStep
    \/ \E s \in Shard : AgentStep(s) \/ TickFails(s) \/ AppWrite(s)

AgentSpec == AgentInit /\ [][AgentNext]_agentVars

(* The agents' tickers keep firing, errors are returned, and no step of a tick
   fails for ever. *)
AgentFairness ==
    \A s \in Shard :
        /\ WF_agentVars(MeasureSize(s))
        /\ WF_agentVars(ReportIgnored(s))
        /\ SF_agentVars(ReportStats(s))
        /\ SF_agentVars(ReportStatsReply(s))
        /\ SF_agentVars(DrainShard(s))
        /\ SF_agentVars(ReportDrainComplete(s))
        /\ SF_agentVars(CleanDatabase(s))
        /\ SF_agentVars(ReportCleaned(s))

FairAgentSpec == AgentSpec /\ AgentFairness
-----------------------------------------------------------------------------
(* Properties *)

(* Ticks, reports, rows and rights are well typed. *)
AgentTypeOK ==
    /\ StoreTypeOK
    /\ mode \in DrainMode
    /\ tick \in [Shard -> [at : TickPoint, full : BOOLEAN]]
    /\ rows \in [Shard -> SUBSET Bucket]
    /\ rights \in [Shard -> BOOLEAN]
    /\ drained \in [Shard -> BOOLEAN]

(* A data shard holds no rows but those of the bucket it serves, and a shard in
   the pool holds none: nobody reads another bucket's rows from a recycled
   shard, whatever the tick was doing when it failed. *)
OnlyOwnRows ==
    \A s \in Shard :
        /\ rows[s] \subseteq {bucket_id[s]}
        /\ Registered(s) /\ state[s] = "standby" => rows[s] = {}

(* drain_ready speaks of the drain in progress, not of an earlier one: the agent
   has run DrainShard since this drain began, and in revoke mode the application
   can no longer write. *)
DrainReadyIsTrue ==
    \A s \in Shard : drain_ready[s] => drained[s] /\ (mode = "revoke" => ~rights[s])

(* A shard sent to cleaning returns to the pool, also when ticks fail between the
   truncation and the report. *)
CleaningEnds ==
    \A s \in Shard : state[s] = "cleaning" ~> state[s] # "cleaning"

(* A draining shard is reported ready, unless the coordinator seals it first. *)
DrainReported ==
    \A s \in Shard : state[s] = "draining" ~> (drain_ready[s] \/ state[s] # "draining")
=============================================================================
