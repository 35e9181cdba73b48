------------------------------- MODULE MCServices -------------------------------
(***************************************************************************)
(* Services around the agents that share no state, one of them in each     *)
(* behaviour: GitProvider, AgentCache, DeviceManager, CronScheduler,       *)
(* Trackers, StuckDetector or Metrics.                                     *)
(***************************************************************************)
EXTENDS GitProvider, TLC

CONSTANTS Scenarios,          \* the parts
          c1, c2, Message, Device, Job, Enabled, Slots,
          NoAgent, NoDevice, Absent,
          CacheSize, IdleTTL, Sizes, MaxTime, MaxChanges,
          MaxCalls,                                     \* Trackers
          Turns, WindowSize, RepeatThreshold, MonologueThreshold, ContextThreshold, MaxTurns,
          Thread, Nobody, Conversation, Unregistered, MaxOperations      \* Metrics

VARIABLES scenario,
          routed, cache, cached, idle, state, cleaned, stopping, mpc, serving, reply,
          size, nodes, info, dat, target, same, cursor, changed, failed, offered, steady,
          now, up, next, file, loaded, started, orphaned, task, changes, last, excused,
          http, credentials, latest, calls,
          log, scan, scanned, pairs, report, turns,
          holder, steps, doing, operations, spent, total, timed, tokens, alerts, forgotten,
          value, mirror, backed, counted, labelled

agentVars == <<routed, cache, cached, idle, state, cleaned, stopping, mpc, serving, reply>>
nodeVars == <<size, nodes, info, dat, target, same, cursor, changed, failed, offered, steady>>
jobVars == <<now, up, next, file, loaded, started, orphaned, task, changes, last, excused>>
trackerVars == <<http, credentials, latest, calls>>
stuckVars == <<log, scan, scanned, pairs, report, turns>>
metricsVars == <<holder, steps, doing, operations, spent, total, timed, tokens, alerts,
                 forgotten, value, mirror, backed, counted, labelled>>
firstVars == <<gitVars, agentVars, nodeVars, jobVars>>
otherVars == <<trackerVars, stuckVars, metricsVars>>

EveryService == Rest \cup Library

\* Any operation, beside a completing sign-in or a second paced operation.
AnyAndSecond == (c1 :> PacedOps \cup UnpacedOps) @@ (c2 :> {"handle_callback", "create_pr"})

\* The first message has a session of its own, the others share one.
TwoSessions == [m \in Message |-> IF m = 1 THEN 1 ELSE 2]

ASSUME AgentsAssumption ==
    IsFiniteSet(Message) /\ CacheSize \in Nat \ {0} /\ IdleTTL \in Nat /\ NoAgent \notin Nat

A == INSTANCE AgentCache WITH pc <- mpc, SessionOf <- TwoSessions
D == INSTANCE DeviceManager WITH at <- dat, Broadcaster <- {0}, Talking <- {1}
J == INSTANCE CronScheduler

T == INSTANCE Trackers WITH last <- latest, made <- calls

\* An agent that acts and observes, is stopped between the two, fails, or outgrows the
\* context window; and a user who speaks.
AgentTurns ==
    LET act(what) == [kind |-> "action", what |-> what]
        observe(what) == [kind |-> "observation", what |-> what]
        user == [kind |-> "user", what |-> "says"]
    IN {<<act("a"), observe("done")>>, <<act("b"), observe("done"), user>>,
        <<act("a"), observe("failed")>>, <<act("a")>>, <<[kind |-> "error", what |-> "context"]>>}

P == INSTANCE StuckDetector WITH pc <- scan, i <- scanned

ASSUME StuckAssumption ==
    /\ Turns \subseteq Seq(P!Event)
    /\ WindowSize \in Nat \ {0} /\ RepeatThreshold \in Nat \ {0} /\ ContextThreshold \in Nat

\* A model in the table of prices, and a longer name that only begins with it; each has a
\* conversation.
OneModelEach == {<<CHOOSE c \in Conversation : TRUE, "small">>} \cup
                ((Conversation \ {CHOOSE c \in Conversation : TRUE}) \X {"mini"})

X == INSTANCE Metrics WITH
       Model <- {"small", "mini"}, todo <- steps, Talks <- OneModelEach,
       NameOf <- [m \in {"small", "mini"} |-> IF m = "small" THEN <<"4o">> ELSE <<"4o", "mini">>],
       Prices <- <<[prefix |-> <<"4o">>, price |-> 2]>>, DefaultPrice <- 3,
       Budget <- 2, Thresholds <- {50, 100},
       Kind <- [n \in {"seconds", "active", "own"} |->
                    CASE n = "seconds" -> "histogram" [] n = "active" -> "gauge" [] OTHER -> "counter"],
       Builtin <- {"seconds", "active"}

MCInit ==
    /\ scenario \in Scenarios
    /\ GitInit /\ A!Init /\ D!DeviceInit /\ J!CronInit
    /\ T!TrackersInit /\ P!StuckInit /\ X!MetricsInit
    \* two paced operations meet on one service, since all inherit the pacing
    /\ op[c2] = "create_pr" => service = CHOOSE s \in Services : TRUE
    \* the initial choices of the parts that take no step
    /\ scenario # "git" => service = CHOOSE s \in Services : TRUE
    /\ scenario # "git" => op[c1] = "get_repo" /\ op[c2] = "create_pr"
    /\ scenario # "agents" => routed
    /\ scenario # "devices" => size = CHOOSE n \in Sizes : TRUE
    /\ scenario # "jobs" => J!Jobs(file) = {}
    \* prometheus_client is there: without it there are no mirrors to follow
    /\ backed = {} <=> scenario # "metrics"
    /\ scenario # "trackers" => http = "none" /\ credentials = {}

FirstNext ==
    /\ \/ scenario = "git" /\ GitNext /\ UNCHANGED <<agentVars, nodeVars, jobVars>>
       \/ scenario = "agents" /\ A!Next /\ UNCHANGED <<gitVars, nodeVars, jobVars>>
       \/ scenario = "devices" /\ D!DeviceNext /\ UNCHANGED <<gitVars, agentVars, jobVars>>
       \/ scenario = "jobs" /\ J!CronNext /\ UNCHANGED <<gitVars, agentVars, nodeVars>>
    /\ UNCHANGED otherVars

OtherNext ==
    /\ \/ scenario = "trackers" /\ T!TrackersNext /\ UNCHANGED <<stuckVars, metricsVars>>
       \/ scenario = "stuck" /\ P!StuckNext /\ UNCHANGED <<trackerVars, metricsVars>>
       \/ scenario = "metrics" /\ X!MetricsNext /\ UNCHANGED <<trackerVars, stuckVars>>
    /\ UNCHANGED firstVars

MCSpec ==
    /\ MCInit /\ [][(FirstNext \/ OtherNext) /\ UNCHANGED scenario]_<<firstVars, otherVars, scenario>>
    /\ J!CronFairness
    /\ WF_stuckVars(scenario = "stuck" /\ P!AnalyzeStep)

AgentsAccounted == A!AgentsAccounted
CachedAgentServes == A!CachedAgentServes
BroadcastReaches == D!BroadcastReaches
RunsOncePerDue == J!RunsOncePerDue
\* What is reported of a git service, of Jira, Linear and Slack is what they did.
EveryReportAgrees == ReportsAgree /\ T!ReportedIsApplied
ReportedRight == P!ReportedRight
MetricsAgree == X!MetricsAgree /\ X!NoCircle
AnalyzeReturns == P!AnalyzeReturns
================================================================================
