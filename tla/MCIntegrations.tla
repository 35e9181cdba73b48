---------------------------- MODULE MCIntegrations ----------------------------
(***************************************************************************)
(* Work that is handed in and done later, one kind in each behaviour:      *)
(* three deliveries that no handler is registered for, two of them the     *)
(* same event and one between them; the two with handlers; commands and    *)
(* direct requests for resolutions; the task queue over restarts; a run of *)
(* one agent; a plan of steps; a pipeline of roles, in a chain, joining,   *)
(* with a name of no class, with a dependency of or on a role left out,    *)
(* and in a circle.                                                        *)
(***************************************************************************)
EXTENDS Integrations, TLC

CONSTANTS Scenarios,                                                    \* the kinds
          d1, d2, d3,
          Task, Prompt, PromptOf, PriorityOf,                           \* TaskQueue
          t1, t2, p1, p2, None, Worker, Client, MaxSessions, MaxSteps, MaxFaults,
          StepLimit, ToolRetries, ReflectRetries, Replies,              \* AgentLoop
          product_manager, engineer, qa, stranger,                      \* RolePipeline
          Role, Known, Pipelines,
          MaxPlan                                                       \* PlanningFlow

VARIABLES scenario,
          kind, mode, injected, agentState, agentPc, steps, exhausted, grace, attempt,
          toolCalls, id, unanswered, says, approved, logging, cleaned,
          pipeline, phase, session, roleStage, event, results, stages, hooks,
          flowPc, plan, idx, flow, cache, flowLate,
          db, order, orphaned, faults, late, process, executor, inspected, recent, active, wpc,
          mine, exec, draft, cpc, copy, sessions

queueVars == <<db, order, orphaned, faults, late, process, executor, inspected, recent, active,
               wpc, mine, exec, draft, cpc, copy, sessions>>

Tasks == INSTANCE TaskQueue WITH
           Ops <- {"submit"}, Checkpointing <- TRUE, todo <- inspected

\* Two tasks of two prompts, the second more urgent.
TwoPrompts == (t1 :> p1) @@ (t2 :> p2)
TwoPriorities == (t1 :> 1) @@ (t2 :> 2)

\* The program starts one worker (cli.py, lines 508 and 644).
ASSUME OneWorker == \A v, w \in Worker : v = w
ASSUME TasksAssumption == MaxSteps \in Nat /\ None \notin Tasks!Entry

Agent == INSTANCE AgentLoop WITH
           MaxSteps <- StepLimit, MaxToolRetries <- ToolRetries,
           MaxReflectRetries <- ReflectRetries,
           state <- agentState, pc <- agentPc, calls <- toolCalls

\* No call, one to ask for, two of which one is refused, and a call after the end.
FourReplies == {<<>>, <<"bash">>, <<"bash rm", "memory">>, <<"terminate", "bash">>}

ASSUME RepliesAssumption == Replies \subseteq Seq(Agent!Kinds)

Given(roles, needs) == [members |-> roles, keys |-> DOMAIN needs, deps |-> needs]

Chain ==
    Given({product_manager, engineer, qa},
          (product_manager :> {}) @@ (engineer :> {product_manager}) @@ (qa :> {engineer}))
Joining ==
    Given({product_manager, engineer, qa},
          (product_manager :> {}) @@ (engineer :> {}) @@ (qa :> {product_manager, engineer}))
Misnamed ==
    Given({product_manager, stranger, qa},
          (product_manager :> {}) @@ (stranger :> {product_manager}) @@ (qa :> {stranger}))
Shortened == Given({product_manager}, (product_manager :> {}) @@ (engineer :> {product_manager}))
Dangling == Given({product_manager, engineer}, (product_manager :> {}) @@ (engineer :> {qa}))
Circle ==
    Given({product_manager, engineer},
          (product_manager :> {engineer}) @@ (engineer :> {product_manager}))

SixPipelines == {Chain, Joining, Misnamed, Shortened, Dangling, Circle}

ASSUME PipelinesAssumption == \A p \in Pipelines : p.members \subseteq Role
ASSUME PlanAssumption == MaxPlan \in Nat

Roles == INSTANCE RolePipeline WITH stage <- roleStage

Flow == INSTANCE PlanningFlow WITH pc <- flowPc, late <- flowLate

agentVars == <<kind, mode, injected, agentState, agentPc, steps, exhausted, grace, attempt,
               toolCalls, id, unanswered, says, approved, logging, cleaned>>
pipelineVars == <<pipeline, phase, session, roleStage, event, results, stages, hooks>>
flowVars == <<flowPc, plan, idx, flow, cache, flowLate>>
agentsVars == <<agentVars, pipelineVars, flowVars>>

AgentScenario == {"agent", "roles", "plan"}

AgentsInit ==
    /\ Agent!AgentInit /\ Roles!PipelineInit /\ Flow!FlowInit
    /\ scenario # "agent" => kind = "react" /\ mode = "build" /\ injected
    /\ scenario # "roles" => pipeline = CHOOSE p \in Pipelines : TRUE

AgentsNext ==
    \/ scenario = "agent" /\ Agent!AgentNext /\ UNCHANGED <<pipelineVars, flowVars>>
    \/ scenario = "roles" /\ Roles!PipelineNext /\ UNCHANGED <<agentVars, flowVars>>
    \/ scenario = "plan" /\ Flow!FlowNext /\ UNCHANGED <<agentVars, pipelineVars>>

-----------------------------------------------------------------------------
\* What the deliveries are: an event, another one, and the first again; or, of GitLab and
\* Azure DevOps, an event the fingerprint does not tell from the first.
Http(headers, body, signature) == [headers |-> headers, body |-> body, signature |-> signature]

Github(named, body) ==
    Http("x-github-event" :> named, body @@ ("repository.full_name" :> "r"), "right")
Opened(n) == Github("issues", ("action" :> "opened") @@ ("issue.number" :> n))
Commented(number) ==
    Github("issue_comment",
           ("action" :> "created") @@ ("issue.number" :> "1") @@ ("comment.id" :> number))
Pull(action) == Github("pull_request", ("action" :> action) @@ ("pull_request.number" :> "1"))
Gitlab(named, iid) ==
    Http("x-gitlab-event" :> named,
         ("object_attributes.action" :> "open") @@ ("object_attributes.iid" :> iid)
         @@ ("project.path_with_namespace" :> "r"), "right")
Azure(named, number) ==
    Http("x-azure-devops-event" :> named,
         ("resource.repository.name" :> "r") @@ ("resource.id" :> number), "right")
Bitbucket(key, body) ==
    Http(("x-event-key" :> key) @@ ("x-hook-uuid" :> "u"),
         body @@ ("repository.full_name" :> "r"), "right")
Forged == [Opened("1") EXCEPT !.signature = "wrong"]

Deliveries(a, b, c) == (d1 :> a) @@ (d2 :> b) @@ (d3 :> c)

Redelivered == Deliveries(Opened("1"), Pull("opened"), Opened("1"))
Unnumbered == Deliveries(Gitlab("Merge Request Hook", "1"), Gitlab("Note Hook", "2"),
                         Gitlab("Merge Request Hook", "3"))
AnyTraffic ==
    {Redelivered, Unnumbered,
     Deliveries(Commented("1"), Commented("2"), Commented("1")),
     Deliveries(Azure("workitem.updated", "1"), Azure("git.pullrequest.created", "2"),
                Azure("workitem.updated", "3")),
     Deliveries(Bitbucket(<<"repo", "push">>, "push.changes.type" :> "branch"),
                Bitbucket(<<"pullrequest", "created">>, <<>>),
                Bitbucket(<<"repo", "push">>, "push.changes.type" :> "branch")),
     Deliveries(Forged, Github("workflow_run", "action" :> "completed"), Opened("1")),
     Deliveries(Http(<<>>, <<>>, "none"), Gitlab("Push Hook", "1"),
                Http(<<>>, <<>>, "none"))}

MCInit ==
    /\ scenario \in Scenarios
    /\ Init /\ Tasks!Init /\ AgentsInit
    /\ scenario = "handlers" <=> handlers # <<>>
    /\ scenario # "front" =>
          ~secret /\ sent \in IF scenario = "handlers" THEN {Redelivered, Unnumbered}
                                                     ELSE {Redelivered}

IntegrationsNext ==
    /\ Next
    /\ scenario = "front" => handlers' = handlers
    /\ scenario = "handlers" => state'[d2] = "new"
    /\ scenario # "requests" => reply' = reply /\ \A r \in Direct \cup Command : stage'[r] = "new"
    /\ scenario = "requests" => UNCHANGED intakeVars

MCNext ==
    /\ \/ /\ scenario \in {"front", "handlers", "requests"}
          /\ IntegrationsNext /\ UNCHANGED <<queueVars, agentsVars>>
       \/ scenario = "tasks" /\ Tasks!Next /\ UNCHANGED <<vars, agentsVars>>
       \/ AgentsNext /\ UNCHANGED <<vars, queueVars>>
    /\ UNCHANGED scenario

\* Tasks!Fairness where there are tasks.
Manages == scenario = "tasks" /\ (Tasks!Boot \/ Tasks!ResumeOne \/ Tasks!StartWorkers \/ Tasks!Exit)
TasksFairness ==
    /\ WF_queueVars(Manages)
    /\ WF_queueVars(scenario = "tasks" /\ Tasks!LateWrite)
    /\ \A w \in Worker : /\ WF_queueVars(scenario = "tasks" /\ Tasks!WorkerStep(w))
                         /\ WF_queueVars(scenario = "tasks" /\ Tasks!ExecEnds(w))
    /\ \A c \in Client : WF_queueVars(scenario = "tasks" /\ Tasks!ClientStep(c))

\* The fairness of each part where that part is.
AgentsFairness ==
    /\ WF_agentVars(scenario = "agent" /\ Agent!Working)
    /\ WF_agentVars(scenario = "agent" /\ Agent!Logged)
    /\ WF_pipelineVars(scenario = "roles" /\ Roles!Orchestrates)
    /\ \A r \in Role :
           WF_pipelineVars(scenario = "roles" /\ Roles!RoleStep(r))
    /\ WF_flowVars(scenario = "plan" /\ Flow!FlowWorks)

MCSpec ==
    /\ MCInit /\ [][MCNext]_<<vars, queueVars, agentsVars, scenario>>
    /\ Fairness /\ TasksFairness /\ AgentsFairness

\* A run of one agent; and what a pipeline and a plan record of what has been done.
AgentKept == Agent!ToolsPermitted /\ Agent!CallsAnswered /\ Agent!ReturnedIsOver
PlansKept == Roles!PipelineKept /\ Flow!RecordsAgree
CrashSurvived == Roles!CrashSurvived

AgentsEnd ==
    /\ scenario = "agent" => Agent!RunEnds
    /\ scenario = "roles" => Roles!PipelineEnds
    /\ scenario = "plan" => Flow!FlowEnds

\* A running task has its worker or is orphaned, and a completed one stays completed.
TasksKept == []Tasks!RunningHasWorker /\ Tasks!CompletedStays
EverythingEnds ==
    /\ scenario \notin AgentScenario => EverythingSettles /\ Tasks!EveryTaskSettles
    /\ AgentsEnd
===============================================================================
