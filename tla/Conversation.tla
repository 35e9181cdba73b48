------------------------------ MODULE Conversation ------------------------------
(***************************************************************************)
(* The life of one conversation: run() and send_message() of               *)
(* app/conversation/base.py, the agent loop of local_conversation.py that  *)
(* they execute, and the interrupt() and resume() that other threads call  *)
(* meanwhile.  set_status() is atomic here (module ConversationState shows *)
(* for how many threads its lock provides that); every read of the status  *)
(* and of the token and every assignment is a step.  Only the current      *)
(* token is ever read again, so one flag stands for it.                    *)
(***************************************************************************)
EXTENDS Naturals, TLAPS

CONSTANTS Runner, Interrupter, Resumer,  \* the threads, with one call each
          MaxSteps                       \* max_steps

ASSUME ConversationAssumption ==
  /\ Runner \intersect Interrupter = {} /\ Runner \intersect Resumer = {}
  /\ Interrupter \intersect Resumer = {} /\ MaxSteps \in Nat

Thread == Runner \union Interrupter \union Resumer

VARIABLES agent,      \* whether the conversation has an agent
          status,     \* the ExecutionStatus
          cancelled,  \* _cancellation_token.is_cancelled
          recorded,   \* the kinds of the events in the event log
          pc,         \* what a thread does next
          steps,      \* step_count of a runner
          outcome,    \* how a call ended
          late        \* history: steps begun since the token was cancelled

vars == <<agent, status, cancelled, recorded, pc, steps, outcome, late>>

Status == {"IDLE", "RUNNING", "PAUSED", "FINISHED", "ERROR"}
Terminal == {"FINISHED", "ERROR"}
Event == {"message", "running", "final", "interrupt", "resume", "error"}
Outcome == {"none", "returned", "no agent", "cancelled", "raised", "refused"}

InLoop == {"testing", "checking", "beginning", "stepping"}
Place == InLoop \union
  {"idle", "delivering", "calling", "renewing", "starting", "prompting", "closing",
   "leaving", "finishing", "unwinding", "dropping", "failing", "faltering", "erring",
   "watching", "pausing", "noting", "refreshing", "resuming", "reporting", "done"}

\* _VALID_TRANSITIONS; setting the current status again changes nothing.
MayBecome(new) ==
  \/ new = status
  \/ status = "IDLE" /\ new = "RUNNING"
  \/ status = "RUNNING" /\ new \in {"FINISHED", "PAUSED", "ERROR", "IDLE"}
  \/ status = "PAUSED" /\ new \in {"RUNNING", "ERROR"}

Init ==
  /\ agent \in BOOLEAN
  /\ status = "IDLE" /\ cancelled = FALSE /\ recorded = {}
  /\ pc = [t \in Thread |-> "idle"]
  /\ steps = [r \in Runner |-> 0]
  /\ outcome = [t \in Thread |-> "none"]
  /\ late = [r \in Runner |-> 0]

Go(t, from, to) == pc[t] = from /\ pc' = [pc EXCEPT ![t] = to]

End(t, how) == outcome' = [outcome EXCEPT ![t] = how]

\* What _do_run() returned is what run() returns.
Returns(r) == End(r, IF outcome[r] = "none" THEN "returned" ELSE outcome[r])

\* A test of the status that decides where the thread goes on.
Test(t, from, condition, to, otherwise) ==
  /\ Go(t, from, IF condition THEN to ELSE otherwise)
  /\ UNCHANGED <<agent, status, cancelled, recorded, steps, outcome, late>>

\* set_status(new), to another place if it raises ValueError.
Set(t, from, new, to, refused) ==
  /\ Go(t, from, IF MayBecome(new) THEN to ELSE refused)
  /\ status' = IF MayBecome(new) THEN new ELSE status
  /\ UNCHANGED <<agent, cancelled, recorded, steps, late>>

Record(t, from, event, to) ==
  /\ Go(t, from, to)
  /\ recorded' = recorded \union {event}
  /\ UNCHANGED <<agent, status, cancelled, steps, late>>

\* _cancellation_token = CancellationToken()
Renew(t, from, to) ==
  /\ Go(t, from, to)
  /\ cancelled' = FALSE
  /\ late' = [r \in Runner |-> 0]
  /\ UNCHANGED <<agent, status, recorded, steps, outcome>>
-------------------------------------------------------------------------------
\* send_message() of a conversation that is over raises RuntimeError.
SendMessage(r) ==
  /\ Go(r, "idle", IF status \in Terminal THEN "done" ELSE "delivering")
  /\ IF status \in Terminal THEN End(r, "refused") ELSE UNCHANGED outcome
  /\ UNCHANGED <<agent, status, cancelled, recorded, steps, late>>

\* The setter of agent gives one to a conversation that has none.
SetAgent ==
  /\ ~agent /\ agent' = TRUE
  /\ UNCHANGED <<status, cancelled, recorded, pc, steps, outcome, late>>

\* _do_send_message(): the message is recorded and, if the conversation is idle and
\* has an agent, run.
Deliver(r) ==
  /\ Record(r, "delivering", "message",
            IF agent /\ status = "IDLE" THEN "calling" ELSE "done")
  /\ IF agent /\ status = "IDLE" THEN UNCHANGED outcome ELSE End(r, "returned")

\* run(), of a client or of _do_send_message()
EnterRun(r, from) ==
  /\ Go(r, from, IF status = "IDLE" THEN "renewing" ELSE "done")
  /\ IF status = "IDLE" THEN UNCHANGED outcome ELSE End(r, "refused")
  /\ UNCHANGED <<agent, status, cancelled, recorded, steps, late>>

Run(r) == EnterRun(r, "idle")

RunSent(r) == EnterRun(r, "calling")

NewToken(r) == Renew(r, "renewing", "starting")

Start(r) ==
  /\ Set(r, "starting", "RUNNING", "prompting", "done")
  /\ IF MayBecome("RUNNING") THEN UNCHANGED outcome ELSE End(r, "raised")

\* _do_run() records the prompt and the change of state; without an agent that is all,
\* and its answer says "no_agent" (lines 306-315).
Prompt(r) ==
  /\ Go(r, "prompting", IF agent THEN "testing" ELSE "leaving")
  /\ recorded' = recorded \union {"message", "running"}
  /\ IF agent THEN UNCHANGED outcome ELSE End(r, "no agent")
  /\ UNCHANGED <<agent, status, cancelled, steps, late>>

\* while is_running and step_count < max_steps
LoopTest(r) ==
  Test(r, "testing", status = "RUNNING" /\ steps[r] < MaxSteps, "checking", "closing")

\* A mutant of RaiseIfCancelled: the token is not looked at.
NoRaise(r) == Test(r, "checking", TRUE, "beginning", "unwinding")

\* raise_if_cancelled(); the handler records the interrupt.
RaiseIfCancelled(r) ==
  /\ Go(r, "checking", IF cancelled THEN "unwinding" ELSE "beginning")
  /\ recorded' = IF cancelled THEN recorded \union {"interrupt"} ELSE recorded
  /\ UNCHANGED <<agent, status, cancelled, steps, outcome, late>>

BeginStep(r) ==
  /\ Go(r, "beginning", "stepping")
  /\ steps' = [steps EXCEPT ![r] = @ + 1]
  /\ late' = [late EXCEPT ![r] = IF cancelled THEN @ + 1 ELSE @]
  /\ UNCHANGED <<agent, status, cancelled, recorded, outcome>>

\* await agent.step()
StepEnds(r) == Test(r, "stepping", TRUE, "testing", "testing")

StepFails(r) == Record(r, "stepping", "error", "failing") /\ UNCHANGED outcome

\* A mutant of CloseLoop: the final event is forgotten.
CloseLoopSilently(r) == Test(r, "closing", TRUE, "leaving", "leaving")

\* After the loop the final event is recorded if the conversation still runs.
CloseLoop(r) ==
  /\ Go(r, "closing", "leaving")
  /\ recorded' = IF status = "RUNNING" THEN recorded \union {"final"} ELSE recorded
  /\ UNCHANGED <<agent, status, cancelled, steps, outcome, late>>

\* Back in run(): finish, unless something else has changed the status.
Leave(r) ==
  /\ Go(r, "leaving", IF status = "RUNNING" THEN "finishing" ELSE "done")
  /\ IF status = "RUNNING" THEN UNCHANGED outcome ELSE Returns(r)
  /\ UNCHANGED <<agent, status, cancelled, recorded, steps, late>>

Finish(r) ==
  /\ Set(r, "finishing", "FINISHED", "done", "failing")
  /\ IF MayBecome("FINISHED") THEN Returns(r) ELSE UNCHANGED outcome

\* except CancelledError
Unwind(r) ==
  /\ Go(r, "unwinding", IF status = "RUNNING" THEN "dropping" ELSE "done")
  /\ IF status = "RUNNING" THEN UNCHANGED outcome ELSE End(r, "cancelled")
  /\ UNCHANGED <<agent, status, cancelled, recorded, steps, late>>

Drop(r) ==
  /\ Set(r, "dropping", "FINISHED", "done", "done")
  /\ End(r, IF MayBecome("FINISHED") THEN "cancelled" ELSE "raised")

\* except Exception, also for the ValueError of Finish: is_running or is_paused
Fail(r) == Test(r, "failing", status = "RUNNING", "erring", "faltering")

FailPaused(r) ==
  /\ Go(r, "faltering", IF status = "PAUSED" THEN "erring" ELSE "done")
  /\ IF status = "PAUSED" THEN UNCHANGED outcome ELSE End(r, "raised")
  /\ UNCHANGED <<agent, status, cancelled, recorded, steps, late>>

SetError(r) == Set(r, "erring", "ERROR", "done", "done") /\ End(r, "raised")
-------------------------------------------------------------------------------
\* interrupt()
Cancel(i) ==
  /\ Go(i, "idle", "watching")
  /\ cancelled' = TRUE
  /\ UNCHANGED <<agent, status, recorded, steps, outcome, late>>

Watch(i) == Test(i, "watching", status = "RUNNING", "pausing", "noting")

Pause(i) == Set(i, "pausing", "PAUSED", "noting", "noting") /\ UNCHANGED outcome

NoteInterrupt(i) == Record(i, "noting", "interrupt", "done") /\ End(i, "returned")

\* resume()
Resume(c) ==
  /\ Go(c, "idle", IF status = "PAUSED" THEN "refreshing" ELSE "done")
  /\ IF status = "PAUSED" THEN UNCHANGED outcome ELSE End(c, "refused")
  /\ UNCHANGED <<agent, status, cancelled, recorded, steps, late>>

FreshToken(c) == Renew(c, "refreshing", "resuming")

Continue(c) ==
  /\ Set(c, "resuming", "RUNNING", "reporting", "done")
  /\ IF MayBecome("RUNNING") THEN UNCHANGED outcome ELSE End(c, "raised")

NoteResume(c) == Record(c, "reporting", "resume", "done") /\ End(c, "returned")

Call(r) ==
  \/ Deliver(r) \/ RunSent(r) \/ NewToken(r) \/ Start(r) \/ Prompt(r)
  \/ LoopTest(r) \/ RaiseIfCancelled(r) \/ BeginStep(r) \/ StepEnds(r) \/ StepFails(r)
  \/ CloseLoop(r) \/ Leave(r) \/ Finish(r) \/ Unwind(r) \/ Drop(r) \/ Fail(r) \/ FailPaused(r)
  \/ SetError(r)

Interrupting(i) == Watch(i) \/ Pause(i) \/ NoteInterrupt(i)

Resuming(c) == FreshToken(c) \/ Continue(c) \/ NoteResume(c)

Next ==
  \/ SetAgent
  \/ \E r \in Runner : SendMessage(r) \/ Run(r) \/ Call(r)
  \/ \E i \in Interrupter : Cancel(i) \/ Interrupting(i)
  \/ \E c \in Resumer : Resume(c) \/ Resuming(c)

\* A call that was begun goes on; nobody has to call.
Fairness ==
  WF_vars(\/ \E r \in Runner : Call(r)
          \/ \E i \in Interrupter : Interrupting(i)
          \/ \E c \in Resumer : Resuming(c))

Spec == Init /\ [][Next]_vars /\ Fairness
-------------------------------------------------------------------------------
TypeOK ==
  /\ agent \in BOOLEAN /\ status \in Status /\ cancelled \in BOOLEAN /\ recorded \in SUBSET Event
  /\ pc \in [Thread -> Place] /\ steps \in [Runner -> 0..MaxSteps]
  /\ outcome \in [Thread -> Outcome] /\ late \in [Runner -> 0..MaxSteps]

\* interrupt(), "the agent loop should check the cancellation token periodically
\* and exit": after an interrupt a runner begins at most the one step for which
\* it had passed its check, until somebody installs a new token; whatever the
\* order of the interrupt, the run and a resume.
OneLateStep == \A r \in Runner : late[r] <= 1

\* The run found no agent, and its caller has been told.
Unserved(r) == pc[r] = "done" /\ outcome[r] = "no agent"

\* A conversation that is FINISHED without a final event was interrupted, and the
\* log says so or is about to, or was run without an agent, which the caller was told
\* and the log does not say: no order of runs, interrupts and resumes ends it in
\* another way without a trace (lines 252-259 and the end of the agent loop).
EndIsRecorded ==
  status = "FINISHED" =>
    \/ recorded \intersect {"final", "interrupt"} # {}
    \/ \E i \in Interrupter : pc[i] = "noting"
    \/ \E r \in Runner : Unserved(r)

\* Every call ends, with an outcome: again and again none is under way.
EveryCallEnds ==
  []<>(\A t \in Thread : pc[t] = "idle" \/ (pc[t] = "done" /\ outcome[t] # "none"))

\* A conversation leaves RUNNING (lines 226-227, "transitions to RUNNING and then to
\* FINISHED/ERROR upon completion"), unless somebody resumed it: resume() sets
\* RUNNING also when the loop has already left.
RunningEnds ==
  status = "RUNNING" ~> status # "RUNNING" \/ \E c \in Resumer : outcome[c] = "returned"

-------------------------------------------------------------------------------
(* An interrupt lets each runner begin at most one more step, for any      *)
(* number of threads that run, interrupt and resume a conversation.        *)

\* A late step can only be one whose check came before the interrupt: a runner
\* that has passed the check has begun none since.
LateInv ==
  /\ DOMAIN pc = Thread /\ late \in [Runner -> Nat] /\ cancelled \in BOOLEAN
  /\ \A r \in Runner :
       /\ late[r] <= 1
       /\ ~cancelled => late[r] = 0
       /\ pc[r] = "beginning" => late[r] = 0

LEMMA LateStep ==
  ASSUME LateInv, [Next]_vars
  PROVE  LateInv'
<1> USE ConversationAssumption DEF LateInv, Thread, Go
<1>1. ASSUME NEW r \in Runner, SendMessage(r) \/ Run(r) PROVE LateInv'
  BY <1>1 DEF SendMessage, Run, EnterRun
<1>2. ASSUME NEW r \in Runner,
             Deliver(r) \/ RunSent(r) \/ Prompt(r) \/ LoopTest(r) \/ StepEnds(r) \/ StepFails(r)
               \/ CloseLoop(r) \/ Leave(r) \/ Unwind(r) \/ Fail(r) \/ FailPaused(r)
      PROVE  LateInv'
  BY <1>2 DEF Deliver, RunSent, EnterRun, Prompt, LoopTest, StepEnds, StepFails, CloseLoop,
              Leave, Unwind, Fail, FailPaused, Test, Record
<1>3. ASSUME NEW r \in Runner, Start(r) \/ Finish(r) \/ Drop(r) \/ SetError(r) PROVE LateInv'
  BY <1>3 DEF Start, Finish, Drop, SetError, Set
<1>0. ASSUME SetAgent PROVE LateInv'
  BY <1>0 DEF SetAgent
<1>4. ASSUME NEW r \in Runner, RaiseIfCancelled(r) PROVE LateInv'
  BY <1>4 DEF RaiseIfCancelled
<1>5. ASSUME NEW r \in Runner, BeginStep(r) PROVE LateInv'
  BY <1>5 DEF BeginStep
<1>6. ASSUME NEW r \in Runner, NewToken(r) PROVE LateInv'
  <2>1. cancelled' \in BOOLEAN
    BY <1>6 DEF NewToken, Renew
  <2>2. late' = [s \in Runner |-> 0] /\ DOMAIN pc' = Thread
    BY <1>6 DEF NewToken, Renew
  <2> QED BY <2>1, <2>2
<1>7. ASSUME NEW i \in Interrupter, Cancel(i) \/ Interrupting(i) PROVE LateInv'
  BY <1>7 DEF Cancel, Interrupting, Watch, Pause, NoteInterrupt, Test, Set, Record
<1>8. ASSUME NEW c \in Resumer, Resume(c) \/ Resuming(c) PROVE LateInv'
  <2>1. CASE FreshToken(c)
    <3>1. cancelled' \in BOOLEAN
      BY <2>1 DEF FreshToken, Renew
    <3>2. late' = [s \in Runner |-> 0] /\ DOMAIN pc' = Thread
      BY <2>1 DEF FreshToken, Renew
    <3> QED BY <3>1, <3>2
  <2>2. CASE Resume(c) \/ Continue(c) \/ NoteResume(c)
    BY <2>2 DEF Resume, Continue, NoteResume, Set, Record
  <2> QED BY <1>8, <2>1, <2>2 DEF Resuming
<1>9. CASE UNCHANGED vars
  BY <1>9 DEF vars
<1> QED
  BY <1>0, <1>1, <1>2, <1>3, <1>4, <1>5, <1>6, <1>7, <1>8, <1>9 DEF Next, Call

\* After an interrupt, and until there is a new token, no runner begins a second
\* step: the cancellation is never missed for longer than the step at hand.
THEOREM InterruptStopsSoon == Spec => []OneLateStep
<1>1. Init => LateInv
  <2>1. ASSUME Init PROVE cancelled \in BOOLEAN
    BY <2>1 DEF Init
  <2>2. ASSUME Init PROVE late = [r \in Runner |-> 0] /\ DOMAIN pc = Thread
    BY <2>2 DEF Init
  <2> QED BY <2>1, <2>2 DEF LateInv
<1>2. LateInv /\ [Next]_vars => LateInv'
  BY LateStep
<1>3. LateInv => OneLateStep
  BY DEF LateInv, OneLateStep
<1> QED BY <1>1, <1>2, <1>3, PTL DEF Spec
-------------------------------------------------------------------------------
(* No conversation is FINISHED without a trace, whoever runs, interrupts   *)
(* and resumes it.                                                         *)

Noting == \E i \in Interrupter : pc[i] = "noting"
Traced == recorded \intersect {"final", "interrupt"} # {} \/ Noting
Told == \E r \in Runner : Unserved(r)

\* The places of a runner that has set RUNNING and has not left run().
Running == InLoop \union {"prompting", "closing", "leaving", "finishing"}

\* Who is paused or unwound has been interrupted, and a loop that was closed has
\* recorded its end, unless an error came first, which nothing replaces.
EndInv ==
  /\ DOMAIN pc = Thread /\ DOMAIN outcome = Thread
  /\ status \in {"IDLE", "RUNNING", "PAUSED", "FINISHED", "ERROR"}
  /\ status = "PAUSED" => Traced
  /\ status = "FINISHED" => Traced \/ Told
  /\ \A r \in Runner :
       /\ pc[r] \in Running => status # "IDLE"
       /\ pc[r] \in {"leaving", "finishing"} =>
            Traced \/ Told \/ status = "ERROR" \/ outcome[r] = "no agent"
       /\ pc[r] \in {"unwinding", "dropping"} => "interrupt" \in recorded

\* Events are never removed, and who leaves "noting" has recorded the interrupt.
LEMMA TraceStays ==
  ASSUME DOMAIN pc = Thread, [Next]_vars, Traced
  PROVE  Traced'
<1> USE ConversationAssumption DEF Traced, Noting, Thread, Go
<1>1. ASSUME NEW t \in Thread, NEW to, pc' = [pc EXCEPT ![t] = to], recorded \subseteq recorded',
             pc[t] = "noting" => "interrupt" \in recorded'
      PROVE  Traced'
  <2>1. CASE recorded \intersect {"final", "interrupt"} # {}
    BY <1>1, <2>1
  <2>2. ASSUME NEW i \in Interrupter, pc[i] = "noting" PROVE Traced'
    <3>1. CASE i = t
      BY <1>1, <2>2, <3>1
    <3>2. CASE i # t
      BY <1>1, <2>2, <3>2
    <3> QED BY <3>1, <3>2
  <2> QED BY <2>1, <2>2
<1>0. ASSUME SetAgent PROVE Traced'
  BY <1>0 DEF SetAgent
<1>2. ASSUME NEW r \in Runner, SendMessage(r) \/ Run(r) PROVE Traced'
  <2>1. \E to : pc' = [pc EXCEPT ![r] = to]
    BY <1>2 DEF SendMessage, Run, EnterRun
  <2>2. pc[r] # "noting" /\ recorded \subseteq recorded'
    BY <1>2 DEF SendMessage, Run, EnterRun
  <2> QED BY <1>1, <2>1, <2>2
<1>3. ASSUME NEW r \in Runner, Call(r) PROVE Traced'
  <2> USE DEF Call, Deliver, RunSent, End, Returns, EnterRun, NewToken, Renew, Start, Prompt, LoopTest,
              RaiseIfCancelled, BeginStep, StepEnds, StepFails, CloseLoop, Leave, Finish, Unwind,
              Drop, Fail, FailPaused, SetError, Test, Set, Record
  <2>1. \E to : pc' = [pc EXCEPT ![r] = to]
    BY <1>3
  <2>2. pc[r] # "noting" /\ recorded \subseteq recorded'
    BY <1>3
  <2> QED BY <1>1, <2>1, <2>2
<1>4. ASSUME NEW i \in Interrupter, Cancel(i) \/ Interrupting(i) PROVE Traced'
  <2> USE DEF Cancel, Interrupting, Watch, Pause, NoteInterrupt, Test, Set, Record
  <2>1. \E to : pc' = [pc EXCEPT ![i] = to]
    BY <1>4
  <2>2. recorded \subseteq recorded' /\ (pc[i] = "noting" => "interrupt" \in recorded')
    BY <1>4
  <2> QED BY <1>1, <2>1, <2>2
<1>5. ASSUME NEW c \in Resumer, Resume(c) \/ Resuming(c) PROVE Traced'
  <2> USE DEF Resume, Resuming, FreshToken, Continue, NoteResume, Renew, Set, Record
  <2>1. \E to : pc' = [pc EXCEPT ![c] = to]
    BY <1>5
  <2>2. pc[c] # "noting" /\ recorded \subseteq recorded'
    BY <1>5
  <2> QED BY <1>1, <2>1, <2>2
<1>6. CASE UNCHANGED vars
  BY <1>6 DEF vars
<1> QED BY <1>0, <1>2, <1>3, <1>4, <1>5, <1>6 DEF Next

\* Who is done makes no other call.
LEMMA ToldStays ==
  ASSUME DOMAIN pc = Thread, DOMAIN outcome = Thread, [Next]_vars, Told
  PROVE  Told'
<1> USE ConversationAssumption DEF Thread, Go
<1>0. PICK d \in Runner : Unserved(d)
  BY DEF Told
<1>1. ASSUME NEW t \in Thread, NEW to, NEW how, pc' = [pc EXCEPT ![t] = to], pc[t] # "done",
             outcome' = outcome \/ outcome' = [outcome EXCEPT ![t] = how]
      PROVE  Told'
  BY <1>0, <1>1 DEF Told, Unserved
<1>2. ASSUME NEW r \in Runner, SendMessage(r) \/ Run(r) \/ Call(r) PROVE Told'
  <2> USE DEF SendMessage, Run, Call, Deliver, RunSent, EnterRun, NewToken, Renew, Start, Prompt,
              LoopTest, RaiseIfCancelled, BeginStep, StepEnds, StepFails, CloseLoop, Leave,
              Finish, Unwind, Drop, Fail, FailPaused, SetError, Test, Set, Record, End, Returns
  <2>1. \E to : pc' = [pc EXCEPT ![r] = to]
    BY <1>2
  <2>2. pc[r] # "done"
    BY <1>2
  <2>3. outcome' = outcome \/ \E how : outcome' = [outcome EXCEPT ![r] = how]
    BY <1>2
  <2> QED BY <1>1, <2>1, <2>2, <2>3
<1>3. ASSUME NEW t \in Interrupter \union Resumer,
             (t \in Interrupter /\ (Cancel(t) \/ Interrupting(t)))
               \/ (t \in Resumer /\ (Resume(t) \/ Resuming(t)))
      PROVE  Told'
  <2> USE DEF Cancel, Interrupting, Watch, Pause, NoteInterrupt, Resume, Resuming, FreshToken,
              Continue, NoteResume, Renew, Test, Set, Record, End
  <2>1. \E to : pc' = [pc EXCEPT ![t] = to]
    BY <1>3
  <2>2. pc[t] # "done"
    BY <1>3
  <2>3. outcome' = outcome \/ \E how : outcome' = [outcome EXCEPT ![t] = how]
    BY <1>3
  <2> QED BY <1>1, <2>1, <2>2, <2>3
<1>4. CASE SetAgent \/ UNCHANGED vars
  BY <1>0, <1>4 DEF SetAgent, vars, Told, Unserved
<1> QED BY <1>2, <1>3, <1>4 DEF Next

LEMMA EndStep ==
  ASSUME EndInv, [Next]_vars
  PROVE  EndInv'
<1> USE ConversationAssumption DEF EndInv, Running, InLoop, Thread, Go
<1>1. (Traced => Traced') /\ (Told => Told')
  BY TraceStays, ToldStays
<1>0. ASSUME SetAgent PROVE EndInv'
  BY <1>0, <1>1 DEF SetAgent
<1>2. ASSUME NEW r \in Runner,
             SendMessage(r) \/ Run(r) \/ Deliver(r) \/ RunSent(r) \/ NewToken(r)
               \/ LoopTest(r) \/ BeginStep(r) \/ StepEnds(r) \/ StepFails(r) \/ Fail(r)
               \/ FailPaused(r)
      PROVE  EndInv'
  BY <1>1, <1>2
  DEF SendMessage, Run, EnterRun, Deliver, RunSent, NewToken, Renew, LoopTest,
      BeginStep, StepEnds, StepFails, Fail, FailPaused, Test, Record, End
<1>13. ASSUME NEW r \in Runner, Prompt(r) PROVE EndInv'
  BY <1>1, <1>13 DEF Prompt, End
<1>3. ASSUME NEW r \in Runner, Start(r) \/ SetError(r) PROVE EndInv'
  BY <1>1, <1>3 DEF Start, SetError, Set, MayBecome, End
<1>4. ASSUME NEW r \in Runner, RaiseIfCancelled(r) PROVE EndInv'
  BY <1>1, <1>4 DEF RaiseIfCancelled
<1>5. ASSUME NEW r \in Runner, CloseLoop(r) PROVE EndInv'
  <2>1. status = "RUNNING" => Traced'
    BY <1>5 DEF CloseLoop, Traced
  <2>2. Traced' \/ Told' \/ status = "ERROR"
    BY <1>1, <1>5, <2>1 DEF CloseLoop
  <2> QED BY <1>1, <1>5, <2>2 DEF CloseLoop
<1>6. ASSUME NEW r \in Runner, Leave(r) \/ Unwind(r) PROVE EndInv'
  BY <1>1, <1>6 DEF Leave, Unwind, Returns, End
<1>7. ASSUME NEW r \in Runner, Finish(r) PROVE EndInv'
  <2>1. CASE MayBecome("FINISHED")
    <3>1. Traced' \/ Told' \/ outcome[r] = "no agent"
      <4>1. pc[r] = "finishing" /\ status # "ERROR"
        BY <1>7, <2>1 DEF Finish, Set, MayBecome
      <4> QED BY <1>1, <4>1
    <3>2. outcome[r] = "no agent" => Told'
      BY <1>7, <2>1 DEF Finish, Set, Returns, End, Told, Unserved
    <3> QED BY <1>1, <1>7, <2>1, <3>1, <3>2 DEF Finish, Set, MayBecome, Returns, End
  <2>2. CASE ~MayBecome("FINISHED")
    BY <1>1, <1>7, <2>2 DEF Finish, Set
  <2> QED BY <2>1, <2>2
<1>8. ASSUME NEW r \in Runner, Drop(r) PROVE EndInv'
  <2>1. Traced
    BY <1>8 DEF Drop, Set, Traced
  <2> QED BY <1>1, <1>8, <2>1 DEF Drop, Set, MayBecome, End
<1>9. ASSUME NEW i \in Interrupter, Cancel(i) \/ Watch(i) \/ NoteInterrupt(i) PROVE EndInv'
  BY <1>1, <1>9 DEF Cancel, Watch, NoteInterrupt, Test, Record, End
<1>10. ASSUME NEW i \in Interrupter, Pause(i) PROVE EndInv'
  <2>1. Traced'
    BY <1>10 DEF Pause, Set, Traced, Noting
  <2> QED BY <1>1, <1>10, <2>1 DEF Pause, Set, MayBecome
<1>11. ASSUME NEW c \in Resumer, Resume(c) \/ Resuming(c) PROVE EndInv'
  BY <1>1, <1>11 DEF Resume, Resuming, FreshToken, Continue, NoteResume, Renew, Set, Record, MayBecome, End
<1>12. CASE UNCHANGED vars
  BY <1>1, <1>12 DEF vars
<1> QED
  BY <1>0, <1>2, <1>3, <1>4, <1>5, <1>6, <1>7, <1>8, <1>9, <1>10, <1>11, <1>12, <1>13
  DEF Next, Call, Interrupting

\* A conversation that is FINISHED has its final event or its interrupt in the log, or the
\* thread that interrupted it is about to write it there, or a run of it has told its
\* caller that there is no agent.
THEOREM FinishedIsRecorded == Spec => []EndIsRecorded
<1>1. Init => EndInv
  BY ConversationAssumption DEF Init, EndInv, Running, InLoop, Thread
<1>2. EndInv /\ [Next]_vars => EndInv'
  BY EndStep
<1>3. EndInv => EndIsRecorded
  BY DEF EndInv, EndIsRecorded, Traced, Noting, Told
<1> QED BY <1>1, <1>2, <1>3, PTL DEF Spec
===============================================================================
