------------------------------- MODULE AgentLoop -------------------------------
(***************************************************************************)
(* One run() of an agent, app/agent/base.py, with the steps of ReActAgent, *)
(* ToolCallAgent and Manus: the loop with its step limit and its token     *)
(* budget, the calls of tools with their permission, retries and           *)
(* corrections, and the clean-up.                                          *)
(*                                                                         *)
(* The memory is kept as far as a property needs it: the calls of the      *)
(* model that a step has yet to answer.  Hints, refreshes and warnings     *)
(* that only add a message are left out.                                   *)
(***************************************************************************)
EXTENDS Naturals, Sequences

CONSTANTS MaxSteps, MaxToolRetries, MaxReflectRetries,
          Replies        \* the tool calls one answer of the model may ask for

VARIABLES kind,          \* the class of the agent
          mode,          \* gate.mode
          injected,      \* a session was given to the constructor
          state,         \* AgentState
          pc,            \* where run() is
          steps,         \* _step_count
          exhausted,     \* budget.is_exhausted
          grace,         \* budget.grace_used
          attempt,       \* of the step (ReActAgent) or of the call
          calls,         \* the calls of the message still to be made, the first under way
          id,            \* tool_call_id: <<the call's place, the attempt that asked for it>>
          unanswered,    \* the calls asked and to be made, without a TOOL message
          says,          \* the last answer of the model says that the task is done
          approved,      \* gate._approved_this_session
          logging,       \* a write of log_tool_call() is under way
          cleaned        \* cleanup() is through

agentVars == <<kind, mode, injected, state, pc, steps, exhausted, grace, attempt, calls, id,
               unanswered, says, approved, logging, cleaned>>

runVars == <<kind, mode, injected>>
loopVars == <<steps, exhausted, grace>>
callVars == <<attempt, calls, id, unanswered, says>>

\* Calls as the gate tells them apart: a tool of _ALLOW_TOOLS, one of _ASK_TOOLS with
\* an ordinary and with a catastrophic command, one of no list, and terminate.
Asking == "bash"
Catastrophic == "bash rm"
Allowed == {"web_search", "terminate"}
Unlisted == "memory"
Kinds == {Asking, Catastrophic, Unlisted} \cup Allowed

AgentInit ==
    /\ kind \in {"react", "toolcall", "manus"}
    /\ mode \in {"build", "plan"}
    /\ injected \in BOOLEAN
    /\ state = "IDLE" /\ pc = "idle" /\ steps = 0 /\ exhausted = FALSE /\ grace = FALSE
    /\ attempt = 1 /\ calls = <<>> /\ id = <<0, 0>> /\ unanswered = {} /\ says = FALSE
    /\ approved = {} /\ logging = FALSE /\ cleaned = FALSE

Goto(p) == pc' = p

\* Lines 160-213 of base.py: an agent that is not idle is refused; nothing between the
\* RUNNING state and the session is inside the try.
Start ==
    /\ pc = "idle" /\ state = "IDLE"
    /\ state' = "RUNNING" /\ steps' = 0
    /\ Goto(IF injected THEN "top" ELSE "session")
    /\ UNCHANGED <<runVars, exhausted, grace, callVars, approved, logging, cleaned>>

CreateSession ==
    /\ pc = "session"
    /\ \E p \in {"top", "raised"} : Goto(p)
    /\ UNCHANGED <<runVars, state, loopVars, callVars, approved, logging, cleaned>>

-----------------------------------------------------------------------------
\* Lines 217-264: the head of the loop, and what follows the loop.
Top ==
    /\ pc = "top"
    /\ IF state # "RUNNING" \/ steps >= MaxSteps
       THEN /\ state' = IF state = "RUNNING" THEN "FINISHED" ELSE state
            /\ Goto("closing")
            /\ UNCHANGED <<loopVars, callVars>>
       ELSE IF exhausted /\ grace
       THEN /\ state' = "FINISHED" /\ Goto("closing")
            /\ UNCHANGED <<loopVars, callVars>>
       ELSE /\ grace' = exhausted
            /\ steps' = steps + 1
            /\ attempt' = 1
            /\ Goto("think")
            /\ UNCHANGED <<state, exhausted, calls, id, unanswered, says>>
    /\ UNCHANGED <<runVars, approved, logging, cleaned>>

\* Lines 270-273: an exception of a step.
StepRaises ==
    /\ state' = "ERROR" /\ Goto("closing")
    /\ UNCHANGED <<loopVars, callVars>>

\* An answer of the model may use up the budget.
Spend == exhausted' \in {exhausted, TRUE}

\* ReActAgent.step, lines 142-157 and 179-184 of react.py: a thought, which may say that
\* the task is done; the last attempt ends the run if there is any thought at all.
ReactThink ==
    /\ pc = "think" /\ kind = "react"
    /\ \/ StepRaises
       \/ /\ Spend /\ UNCHANGED <<steps, grace, callVars>>
          /\ \/ state' = "FINISHED" /\ Goto("top")
             \/ attempt < MaxReflectRetries /\ Goto("reflect") /\ UNCHANGED state
             \/ attempt = MaxReflectRetries /\ Goto("top") /\ UNCHANGED state
    /\ UNCHANGED <<runVars, approved, logging, cleaned>>

\* Lines 159-177: reflect() raises nothing, and what it cannot read is not solved.
Reflect ==
    /\ pc = "reflect"
    /\ Spend
    /\ \/ state' = "FINISHED" /\ Goto("top") /\ UNCHANGED attempt
       \/ attempt' = attempt + 1 /\ Goto("think") /\ UNCHANGED state
    /\ UNCHANGED <<runVars, steps, grace, calls, id, unanswered, says, approved, logging, cleaned>>

\* ToolCallAgent.think and the head of act, lines 102-140 of toolcall.py.
Think ==
    /\ pc = "think" /\ kind # "react"
    /\ \/ StepRaises
       \/ /\ Spend
          /\ calls' \in Replies /\ says' \in BOOLEAN
          /\ unanswered' = {<<i, 1>> : i \in DOMAIN calls'}
          /\ id' = <<1, 1>> /\ attempt' = 1
          /\ Goto(IF calls' = <<>> THEN "stepped" ELSE "check")
          /\ UNCHANGED <<state, steps, grace>>
    /\ UNCHANGED <<runVars, approved, logging, cleaned>>

-----------------------------------------------------------------------------
Call == Head(calls)

\* Lines 140-152: the call has returned, the message's next one follows.  A terminate
\* that succeeded ends the run, but not the calls after it.
CallReturns(succeeded) ==
    /\ state' = IF succeeded /\ Call = "terminate" THEN "FINISHED" ELSE state
    /\ calls' = Tail(calls)
    /\ id' = <<id[1] + 1, 1>> /\ attempt' = 1
    /\ Goto(IF Len(calls) = 1 THEN "stepped" ELSE "check")

\* memory.add(Message.tool(...)) for the call under way.
Answer == unanswered' = unanswered \ {id}

\* A mutant of Refused: the refused call gets no TOOL message.
RefusedInSilence == CallReturns(FALSE) /\ UNCHANGED unanswered

\* Lines 172-179.
Refused == CallReturns(FALSE) /\ Answer

\* check_tool() of gate.py.
Denied(call) == call = Catastrophic
MustAsk(call) ==
    \/ call = Asking /\ mode = "plan" /\ call \notin approved
    \/ call = Unlisted

\* A mutant of Check: only what the message asked for is checked, not a correction.
CheckFirstOnly ==
    /\ pc = "check"
    /\ \/ /\ attempt = 1 /\ Denied(Call)
          /\ Refused
       \/ /\ attempt = 1 /\ MustAsk(Call) /\ mode = "plan"
          /\ Goto("asking")
          /\ UNCHANGED <<state, attempt, calls, id, unanswered>>
       \/ /\ attempt > 1 \/ (~Denied(Call) /\ ~(MustAsk(Call) /\ mode = "plan"))
          /\ Goto("execute")
          /\ UNCHANGED <<state, attempt, calls, id, unanswered>>
    /\ UNCHANGED <<runVars, loopVars, says, approved, logging, cleaned>>

\* check_permission(), lines 329-346 of base.py, before every attempt.  What the gate
\* would ask about passes unasked in build mode.
Check ==
    /\ pc = "check"
    /\ \/ /\ Denied(Call)
          /\ Refused
       \/ /\ ~Denied(Call) /\ MustAsk(Call) /\ mode = "plan"
          /\ Goto("asking")
          /\ UNCHANGED <<state, attempt, calls, id, unanswered>>
       \/ /\ ~Denied(Call) /\ ~(MustAsk(Call) /\ mode = "plan")
          /\ Goto("execute")
          /\ UNCHANGED <<state, attempt, calls, id, unanswered>>
    /\ UNCHANGED <<runVars, loopVars, says, approved, logging, cleaned>>

\* request_approval(), lines 195-221 of gate.py: yes is kept for the session.
UserAnswers ==
    /\ pc = "asking"
    /\ \/ /\ approved' = approved \cup {Call}
          /\ Goto("execute")
          /\ UNCHANGED <<state, attempt, calls, id, unanswered>>
       \/ Refused /\ UNCHANGED approved
    /\ UNCHANGED <<runVars, loopVars, says, logging, cleaned>>

\* Lines 243-274 of toolcall.py: anything an attempt raises, be it the tool
\* or the model that should correct the call.  The same call is tried again.
Crash ==
    /\ logging' = TRUE
    /\ Answer
    /\ IF attempt < MaxToolRetries
       THEN attempt' = attempt + 1 /\ Goto("check") /\ UNCHANGED <<state, calls, id>>
       ELSE /\ calls' = Tail(calls) /\ id' = <<id[1] + 1, 1>> /\ attempt' = 1
            /\ Goto(IF Len(calls) = 1 THEN "stepped" ELSE "check")
            /\ UNCHANGED state

\* Lines 181-241: the tool runs, its result is logged and answers the call.  An error
\* that is not the last one is shown to the model.
Execute ==
    /\ pc = "execute"
    /\ \/ CallReturns(TRUE) /\ Answer /\ logging' = TRUE
       \/ /\ Answer /\ logging' = TRUE
          /\ IF attempt < MaxToolRetries
             THEN Goto("correct") /\ UNCHANGED <<state, attempt, calls, id>>
             ELSE CallReturns(FALSE)
       \/ Crash
    /\ UNCHANGED <<runVars, loopVars, says, approved, cleaned>>

\* Lines 210-239: the first call of the correction replaces the one that failed; its
\* other calls are never made.  Without one the error stands.
Correct ==
    /\ pc = "correct"
    /\ \/ /\ Spend /\ UNCHANGED <<steps, grace, logging>>
          /\ says' \in BOOLEAN
          /\ \E reply \in Replies :
               IF reply = <<>>
               THEN CallReturns(FALSE) /\ UNCHANGED unanswered
               ELSE /\ calls' = <<Head(reply)>> \o Tail(calls)
                    /\ attempt' = attempt + 1
                    /\ id' = <<id[1], attempt'>>
                    /\ unanswered' = unanswered \cup {id'}
                    /\ Goto("check")
                    /\ UNCHANGED state
       \/ Crash /\ UNCHANGED <<loopVars, says>>
    /\ UNCHANGED <<runVars, approved, cleaned>>

\* Lines 287-298 of toolcall.py: only ToolCallAgent reads its last answer.
StepReturns ==
    /\ pc = "stepped"
    /\ state' = IF kind = "toolcall" /\ says THEN "FINISHED" ELSE state
    /\ Goto("top")
    /\ UNCHANGED <<runVars, loopVars, callVars, approved, logging, cleaned>>

-----------------------------------------------------------------------------
\* A write of the log ends, well or not (lines 411-417 of base.py).
Logged ==
    /\ logging /\ logging' = FALSE
    /\ UNCHANGED <<runVars, state, pc, loopVars, callVars, approved, cleaned>>

\* The task that runs the agent is cancelled at an await: no except clause catches it,
\* and before the try nothing cleans up.
Cancel ==
    /\ pc \in {"session", "think", "reflect", "asking", "execute", "correct"}
    /\ Goto(IF pc = "session" THEN "raised" ELSE "cancelled")
    /\ UNCHANGED <<runVars, state, loopVars, callVars, approved, logging, cleaned>>

\* Lines 274-280: close_session(), which may raise.
CloseSession ==
    /\ pc \in {"closing", "cancelled"}
    /\ \/ Goto(IF pc = "closing" THEN "cleanup" ELSE "cleanup_raise")
       \/ ~injected /\ Goto("raised")
    /\ UNCHANGED <<runVars, state, loopVars, callVars, approved, logging, cleaned>>

\* A mutant of Cleanup: the database is closed while a log is being written.
CleanupAtOnce ==
    /\ pc \in {"cleanup", "cleanup_raise"}
    /\ cleaned' = TRUE
    /\ Goto(IF pc = "cleanup" THEN "returned" ELSE "raised")
    /\ UNCHANGED <<runVars, state, loopVars, callVars, approved, logging>>

\* Lines 281-289 and 420-424: the pending writes end, then the database is closed.
Cleanup ==
    /\ pc \in {"cleanup", "cleanup_raise"} /\ ~logging
    /\ cleaned' = TRUE
    /\ Goto(IF pc = "cleanup" THEN "returned" ELSE "raised")
    /\ UNCHANGED <<runVars, state, loopVars, callVars, approved, logging>>

Working ==
    \/ Start \/ CreateSession \/ Top \/ ReactThink \/ Reflect \/ Think \/ Check \/ Execute
    \/ Correct \/ StepReturns \/ CloseSession \/ Cleanup

AgentNext == Working \/ UserAnswers \/ Logged \/ Cancel

\* The model, the tools and the database answer; the user need not.
AgentFairness == WF_agentVars(Working) /\ WF_agentVars(Logged)

-----------------------------------------------------------------------------
AgentTypeOK ==
    /\ state \in {"IDLE", "RUNNING", "FINISHED", "ERROR"}
    /\ steps \in 0..MaxSteps /\ attempt \in 1..MaxToolRetries \cup 1..MaxReflectRetries
    /\ unanswered \subseteq (1..2) \X (1..MaxToolRetries)
    /\ approved \subseteq {Asking, Unlisted}

\* No tool runs that the gate denies and, in plan mode, none outside the list of allowed
\* ones without the user's consent to this call, first attempt or correction.
ToolsPermitted ==
    pc = "execute" =>
        /\ Call # Catastrophic
        /\ mode = "plan" => Call \in Allowed \cup approved

\* Between two questions of think() every call of the model that the step set out to
\* make has an answer in the memory, on every way out of _execute_with_retry().
CallsAnswered == pc \in {"stepped", "top"} => unanswered = {}

\* A run that returns is over: finished or in error, its writes done and its database closed.
ReturnedIsOver ==
    pc = "returned" => state \in {"FINISHED", "ERROR"} /\ cleaned /\ ~logging

\* A run ends, unless it waits for the user.
RunEnds == <>(pc \in {"returned", "raised"}) \/ <>[](pc = "asking")
================================================================================
