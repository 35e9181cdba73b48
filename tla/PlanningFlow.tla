------------------------------ MODULE PlanningFlow ------------------------------
(***************************************************************************)
(* One goal of PlanningFlow, app/flow/planning.py: the steps of a plan     *)
(* given to agents, retried once, recorded, and planned anew when one is   *)
(* blocked or scores low, under a timeout.                                 *)
(***************************************************************************)
EXTENDS Naturals, Sequences

CONSTANTS MaxPlan        \* bound: the steps of a plan, replanned ones included

VARIABLES pc,            \* where run_full() is
          plan,          \* plan.steps: [id, status, criteria, wants]
          idx,           \* step_idx, counted from one
          flow,          \* flow.steps: [id, status]
          cache,         \* _agent_cache: each agent "none", "idle" or "used"
          late           \* flow.timed_out

flowVars == <<pc, plan, idx, flow, cache, late>>

Agents == {"manus", "data_analysis"}

\* What _parse_plan() makes of an answer of the model: at least one step, their ids
\* counted from zero.
Parsed(steps) ==
    [i \in DOMAIN steps |-> [id |-> i - 1, status |-> "pending",
                             criteria |-> steps[i].criteria, wants |-> steps[i].wants]]

Plans(room) ==
    {Parsed(s) : s \in UNION {[1..n -> [criteria : BOOLEAN, wants : Agents]] : n \in 1..room}}

FlowInit ==
    /\ pc = "idle" /\ plan = <<>> /\ idx = 1 /\ flow = <<>>
    /\ cache = [a \in Agents |-> "none"] /\ late = FALSE

\* Lines 215-220: nothing is cleaned up when the first plan cannot be had.
CreatePlan ==
    /\ pc = "idle"
    /\ \/ pc' = "step" /\ plan' \in Plans(MaxPlan)
       \/ pc' = "raised" /\ UNCHANGED plan
    /\ UNCHANGED <<idx, flow, cache, late>>

\* _select_agent(): an agent is made once and kept.
Selected(a) == IF cache[a] = "none" THEN [cache EXCEPT ![a] = "idle"] ELSE cache

\* Lines 103-117.
NextStep ==
    /\ pc = "step"
    /\ IF idx > Len(plan)
       THEN pc' = "cleanup" /\ UNCHANGED <<plan, cache>>
       ELSE /\ pc' = "run"
            /\ plan' = [plan EXCEPT ![idx].status = "in_progress"]
            /\ cache' = Selected(plan[idx].wants)
    /\ UNCHANGED <<idx, flow, late>>

\* Lines 160-213 without the replan: the step is scored and recorded.
Settle(status, low) ==
    /\ plan' = [plan EXCEPT ![idx].status = status]
    /\ flow' = Append(flow, [id |-> plan[idx].id, status |-> status])
    /\ IF (status = "blocked" \/ (low /\ plan[idx].criteria)) /\ idx < Len(plan)
       THEN pc' = "replan" /\ UNCHANGED idx
       ELSE pc' = "step" /\ idx' = idx + 1

\* agent.run() of an agent, which is idle only before its first run.
Returns(a) == cache[a] = "idle" /\ cache' = [cache EXCEPT ![a] = "used"]

\* Lines 125-147.
Run ==
    /\ pc = "run"
    /\ LET a == plan[idx].wants IN
       \/ Returns(a) /\ \E low \in BOOLEAN : Settle("completed", low)
       \/ /\ cache' = [Selected("manus") EXCEPT ![a] = "used"]
          /\ pc' = "retry"
          /\ UNCHANGED <<plan, idx, flow>>
    /\ UNCHANGED late

\* Lines 143-157: the second attempt is always one of Manus.
Retry ==
    /\ pc = "retry"
    /\ \/ Returns("manus") /\ \E low \in BOOLEAN : Settle("completed", low)
       \/ cache' = [cache EXCEPT !["manus"] = "used"] /\ Settle("blocked", FALSE)
    /\ UNCHANGED late

\* A mutant of Renumbered: the new steps keep the ids they were parsed with.
AsParsed(steps, count) == steps

Renumbered(steps, count) == [i \in DOMAIN steps |-> [steps[i] EXCEPT !.id = @ + count]]

\* Lines 204-213.
Replan ==
    /\ pc = "replan"
    /\ \/ /\ \E new \in Plans(MaxPlan - idx) :
                plan' = SubSeq(plan, 1, idx) \o Renumbered(new, idx)
          /\ idx' = idx + 1 /\ pc' = "step"
       \/ pc' = "cleanup_raise" /\ UNCHANGED <<plan, idx>>
    /\ UNCHANGED <<flow, cache, late>>

\* Lines 233-235, at any await of the body.
Timeout ==
    /\ pc \in {"run", "retry", "replan"}
    /\ pc' = "cleanup" /\ late' = TRUE
    /\ UNCHANGED <<plan, idx, flow, cache>>

\* Lines 236-247 and 394-404.
Cleanup ==
    /\ pc \in {"cleanup", "cleanup_raise"}
    /\ pc' = IF pc = "cleanup" THEN "returned" ELSE "raised"
    /\ cache' = [a \in Agents |-> "none"]
    /\ UNCHANGED <<plan, idx, flow, late>>

FlowWorks == CreatePlan \/ NextStep \/ Run \/ Retry \/ Replan \/ Cleanup
FlowNext == FlowWorks \/ Timeout

\* The model and the agents answer.
FlowFairness == WF_flowVars(FlowWorks)

-----------------------------------------------------------------------------
FlowTypeOK ==
    /\ pc \in {"idle", "step", "run", "retry", "replan", "cleanup", "cleanup_raise",
               "returned", "raised"}
    /\ idx \in 1..MaxPlan + 1 /\ Len(plan) <= MaxPlan
    /\ cache \in [Agents -> {"none", "idle", "used"}]

\* Through every replan the records stay those of the plan's steps, in order and each with
\* an id of its own, a flow that was not cut off has recorded every step of its last plan,
\* and no agent outlives it.
RecordsAgree ==
    /\ \A i \in DOMAIN flow :
           /\ flow[i] = [id |-> plan[i].id, status |-> plan[i].status]
           /\ flow[i].id = i - 1 /\ flow[i].status \in {"completed", "blocked"}
    /\ pc = "returned" => \A a \in Agents : cache[a] = "none"
    /\ pc = "returned" /\ ~late => Len(flow) = Len(plan)

\* The flow ends, because a plan cannot grow beyond the bound.
FlowEnds == <>(pc \in {"returned", "raised"})
================================================================================
