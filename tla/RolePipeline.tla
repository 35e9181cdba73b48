------------------------------ MODULE RolePipeline ------------------------------
(***************************************************************************)
(* MultiAgentOrchestrator.run_pipeline(), app/agent/orchestrator.py: one   *)
(* task per role, each waiting for the roles it depends on.                *)
(*                                                                         *)
(* The bus of the roles (base_role.py) carries nothing in this order of    *)
(* steps: a role subscribes when it is constructed and drains its inbox    *)
(* before it first waits, and a message to a role that has not subscribed  *)
(* is dropped.  What a role works on is the text of its context.           *)
(***************************************************************************)
EXTENDS FiniteSets

CONSTANTS Role,          \* names of roles
          Known,         \* those with a class
          Pipelines      \* [members, keys, deps]: the arguments of the constructor

VARIABLES pipeline,      \* one of Pipelines
          phase,         \* where run_pipeline() is
          session,       \* the session's row
          stage,         \* where the task of each role is
          event,         \* events[role] is set
          results,       \* what each role has left in results
          stages,        \* pipeline_result.stages: <<role, status>>
          hooks          \* the tasks of callbacks that have not ended

pipelineVars == <<pipeline, phase, session, stage, event, results, stages, hooks>>

members == pipeline.members
DepsOf(r) == IF r \in pipeline.keys THEN pipeline.deps[r] ELSE {}

PipelineInit ==
    /\ pipeline \in Pipelines
    /\ phase = "idle" /\ session = "none"
    /\ stage = [r \in Role |-> "none"] /\ event = [r \in Role |-> FALSE]
    /\ results = [r \in Role |-> "none"] /\ stages = {} /\ hooks = {}

\* The roles whose in_degree never falls to zero: each waits for another of them or
\* for a role outside the pipeline.
Stuck ==
    UNION {S \in SUBSET members : \A r \in S : DepsOf(r) \cap (S \cup (Role \ members)) # {}}

\* _topological_sort() raises PipelineCycleError if any is stuck, and KeyError if a role
\* outside the pipeline depends on one that is not.
Sorts ==
    /\ Stuck = {}
    /\ \A r \in pipeline.keys \ members : DepsOf(r) \cap members = {}

\* Lines 96-118: the session is opened first and not closed when the sort fails.
RunPipeline ==
    /\ phase = "idle"
    /\ \/ phase' = "raised" /\ UNCHANGED <<session, stage>>
       \/ /\ session' = "open"
          /\ IF Sorts
             THEN /\ phase' = "running"
                  /\ stage' = [r \in Role |-> IF r \in members THEN "waiting" ELSE "none"]
             ELSE phase' = "raised" /\ UNCHANGED stage
    /\ UNCHANGED <<pipeline, event, results, stages, hooks>>

-----------------------------------------------------------------------------
\* gather() hands on the first exception and leaves the other tasks running.
TaskRaises(r, how) ==
    /\ stage' = [stage EXCEPT ![r] = how]
    /\ phase' = IF phase = "running" THEN "raised" ELSE phase

\* A mutant of Ready: one dependency is enough.
ReadyAny(r) ==
    LET inside == DepsOf(r) \cap members IN inside = {} \/ \E d \in inside : event[d]

Ready(r) == \A d \in DepsOf(r) \cap members : event[d]

\* Lines 126-139: with its dependencies done a role is built and started.  An unknown
\* name raises outside the try, and its event is never set.
Begin(r) ==
    /\ stage[r] = "waiting" /\ Ready(r)
    /\ hooks' = hooks \cup {<<r, "start">>}
    /\ IF r \in Known
       THEN stage' = [stage EXCEPT ![r] = "working"] /\ UNCHANGED phase
       ELSE TaskRaises(r, "unknown")
    /\ UNCHANGED <<pipeline, session, event, results, stages>>

\* Lines 139-147 and 157-162: the role returns a text or raises.
RoleEnds(r) ==
    /\ stage[r] = "working"
    /\ \/ /\ stage' = [stage EXCEPT ![r] = "saving"]
          /\ results' = [results EXCEPT ![r] = "output"]
       \/ /\ stage' = [stage EXCEPT ![r] = "failing"]
          /\ results' = [results EXCEPT ![r] = "error"]
    /\ UNCHANGED <<pipeline, phase, session, event, stages, hooks>>

\* Lines 147-155 and 171: the output is logged and the stage reported.  When the log
\* cannot be written the role counts as failed.
Saved(r) ==
    /\ stage[r] = "saving"
    /\ \/ /\ stage' = [stage EXCEPT ![r] = "completed"]
          /\ stages' = stages \cup {<<r, "completed">>}
          /\ hooks' = hooks \cup {<<r, "complete">>}
          /\ event' = [event EXCEPT ![r] = TRUE]
          /\ UNCHANGED results
       \/ /\ stage' = [stage EXCEPT ![r] = "failing"]
          /\ results' = [results EXCEPT ![r] = "error"]
          /\ UNCHANGED <<stages, hooks, event>>
    /\ UNCHANGED <<pipeline, phase, session>>

\* Lines 162-172: the error is logged and reported, and then the attribute
\* _on_stage_error, which no constructor sets, is read.
Failed(r) ==
    /\ stage[r] = "failing"
    /\ \/ TaskRaises(r, "crashed") /\ stages' = stages \cup {<<r, "error">>}
       \/ TaskRaises(r, "unlogged") /\ UNCHANGED stages
    /\ event' = [event EXCEPT ![r] = TRUE]
    /\ UNCHANGED <<pipeline, session, results, hooks>>

HookEnds ==
    /\ \E h \in hooks : hooks' = hooks \ {h}
    /\ UNCHANGED <<pipeline, phase, session, stage, event, results, stages>>

-----------------------------------------------------------------------------
\* A mutant of Gathered: gather(..., return_exceptions=True), which waits for every task
\* but does not look at what it returned.
GatheredAnyhow ==
    \A r \in members : stage[r] \notin {"waiting", "working", "saving", "failing"}

Gathered == \A r \in members : stage[r] = "completed"

AllDone ==
    /\ phase = "running" /\ Gathered
    /\ phase' = "closing"
    /\ UNCHANGED <<pipeline, session, stage, event, results, stages, hooks>>

\* Lines 177-185: the timeout cancels the tasks; one that is inside its try sets its event.
Timeout ==
    /\ phase = "running"
    /\ phase' = "closing_late"
    /\ stage' = [r \in Role |-> IF stage[r] \in {"waiting", "working", "saving", "failing"}
                                THEN "cancelled" ELSE stage[r]]
    /\ event' = [r \in Role |-> event[r] \/ stage[r] \in {"working", "saving", "failing"}]
    /\ UNCHANGED <<pipeline, session, results, stages, hooks>>

\* Lines 187-191.
CloseSession ==
    /\ phase \in {"closing", "closing_late"}
    /\ \/ phase' = "hooks" /\ session' = IF phase = "closing" THEN "finished" ELSE "timeout"
       \/ phase' = "raised" /\ UNCHANGED session
    /\ UNCHANGED <<pipeline, stage, event, results, stages, hooks>>

\* Lines 194-203: the callbacks are waited for, beyond the timeout.
Return ==
    /\ phase = "hooks" /\ hooks = {}
    /\ phase' = "returned"
    /\ UNCHANGED <<pipeline, session, stage, event, results, stages, hooks>>

RoleStep(r) == Begin(r) \/ RoleEnds(r) \/ Saved(r) \/ Failed(r)
Orchestrates == RunPipeline \/ AllDone \/ CloseSession \/ Return \/ HookEnds

PipelineNext == Orchestrates \/ Timeout \/ \E r \in Role : RoleStep(r)

\* Roles, callbacks and the database answer.
PipelineFairness ==
    WF_pipelineVars(Orchestrates) /\ \A r \in Role : WF_pipelineVars(RoleStep(r))

-----------------------------------------------------------------------------
PipelineTypeOK ==
    /\ phase \in {"idle", "running", "closing", "closing_late", "hooks", "returned", "raised"}
    /\ session \in {"none", "open", "finished", "timeout"}
    /\ stages \subseteq Role \X {"completed", "error"}

\* A role works only when each of its dependencies in the pipeline has left a result, and
\* a run that returns has closed its session: as finished only when every role has its
\* one report, completed; whatever the order in which roles, timeout and callbacks end.
PipelineKept ==
    /\ \A r \in Role : stage[r] = "working" =>
           \A d \in DepsOf(r) \cap members : results[d] # "none"
    /\ phase = "returned" =>
           /\ hooks = {}
           /\ session = "finished" => stages = members \X {"completed"}
           /\ session = "timeout" => stages \subseteq members \X {"completed"}
           /\ session \in {"finished", "timeout"}

\* The pipeline comes to an end whatever its roles do.
PipelineEnds == <>(phase \in {"returned", "raised"})

\* "If a single role crashes, the error is recorded and the pipeline continues with the
\* next role rather than dying entirely" (docs/ARCHITECTURE.md:132).
CrashSurvived == (\E r \in Role : stage[r] = "crashed") => phase # "raised"
================================================================================
