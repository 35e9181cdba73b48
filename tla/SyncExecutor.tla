------------------------------ MODULE SyncExecutor ------------------------------
(***************************************************************************)
(* ParallelToolExecutor of app/parallel_executor/executor.py: execute()    *)
(* runs a batch of tool calls in a pool of threads of its own and answers  *)
(* in the order of the calls.  A call with a timeout runs in one thread    *)
(* more, which goes on after the timeout with the locks it has.            *)
(*                                                                         *)
(* The locks are those of ResourceSchedule, which module ResourceLocks     *)
(* implements: running and settled are its variables.                      *)
(***************************************************************************)
EXTENDS Integers, Sequences, FiniteSets, SequencesExt, Functions

CONSTANTS Batch,         \* [caller -> the calls of its execute(), in order]
          TimedCall,     \* the calls with a timeout
          MaxWorkers,    \* max_workers
          Conflict(_, _) \* the calls that declare a resource in conflicting ways

Caller == DOMAIN Batch
ToolCalls == UNION {Range(Batch[b]) : b \in Caller}
Of(c) == CHOOSE b \in Caller : c \in Range(Batch[b])

VARIABLES running,       \* the calls whose tool is being executed, with their locks
          settled,       \* the calls whose locked part is over
          outcome,       \* what a call's tool has come to, or "none"
          stage,         \* each call: "new", "queued", "begun" or "done"
          status,        \* the status in the result of a call
          answer,        \* what each execute() has returned, or raised
          active,        \* _active_count
          peak,          \* _max_active_seen
          overlapped     \* whether one execute() has begun during another

execVars == <<running, settled, outcome, stage, status, answer, active, peak, overlapped>>

Locks == INSTANCE ResourceSchedule WITH Call <- ToolCalls

Waiting == <<"waiting">>
Raised == <<"raised">>

ExecInit ==
    /\ Locks!Init
    /\ outcome = [c \in ToolCalls |-> "none"] /\ stage = [c \in ToolCalls |-> "new"]
    /\ status = [c \in ToolCalls |-> "none"]
    /\ answer = [b \in Caller |-> Waiting]
    /\ active = 0 /\ peak = 0 /\ overlapped = FALSE

Under(b) == answer[b] = Waiting /\ \E c \in Range(Batch[b]) : stage[c] # "new"
Oldest(c) ==
    \E i \in DOMAIN Batch[Of(c)] :
        /\ Batch[Of(c)][i] = c /\ stage[c] = "queued"
        /\ \A j \in 1..(i - 1) : stage[Batch[Of(c)][j]] # "queued"
UnderWay == {c \in ToolCalls : stage[c] = "begun"}
Busy(b) == Cardinality(UnderWay \intersect Range(Batch[b]))
-----------------------------------------------------------------------------
\* Lines 362-375: the counters are reset, whoever else uses them.
Execute(b) ==
    /\ \A c \in Range(Batch[b]) : stage[c] = "new"
    /\ stage' = [c \in ToolCalls |-> IF c \in Range(Batch[b]) THEN "queued" ELSE stage[c]]
    /\ active' = 0 /\ peak' = 0
    /\ overlapped' = (overlapped \/ \E other \in Caller : Under(other))
    /\ UNCHANGED <<running, settled, outcome, status, answer>>

\* A free thread of the batch's pool takes its oldest call: _execute_single() counts itself.
Begin(c) ==
    /\ Busy(Of(c)) < MaxWorkers /\ Oldest(c)
    /\ stage' = [stage EXCEPT ![c] = "begun"]
    /\ active' = active + 1
    /\ peak' = IF active + 1 > peak THEN active + 1 ELSE peak
    /\ UNCHANGED <<running, settled, outcome, status, answer, overlapped>>

pool == <<stage, status, answer, active, peak, overlapped>>

\* _run_with_locks(): the tool starts when its locks are there, and returns or raises;
\* a TimeoutError of its own is like the executor's, and something beyond Exception, such
\* as SystemExit, ends execute() itself.
LocksTaken(c) ==
    /\ stage[c] \in {"begun", "done"} /\ Locks!Start(c)
    /\ UNCHANGED <<outcome, pool>>

ToolEnds(c) ==
    /\ Locks!Complete(c)
    /\ \E how \in {"value", "error", "timeout", "exit"} : outcome' = [outcome EXCEPT ![c] = how]
    /\ UNCHANGED pool

\* acquire_resources() gives up what another call holds.
LocksGivenUp(c) ==
    /\ stage[c] \in {"begun", "done"}
    /\ \E d \in running : Conflict(c, d)
    /\ Locks!Abandon(c)
    /\ outcome' = [outcome EXCEPT ![c] = "error"]
    /\ UNCHANGED pool

\* Lines 441-472: the call has a result, and its future is done.
Concludes(c, how) ==
    /\ stage[c] = "begun"
    /\ stage' = [stage EXCEPT ![c] = "done"]
    /\ status' = [status EXCEPT ![c] = how]
    /\ active' = active - 1
    /\ UNCHANGED <<running, settled, outcome, answer, peak, overlapped>>

StatusOf == [value |-> "COMPLETED", error |-> "FAILED", timeout |-> "TIMED_OUT", exit |-> "EXIT"]

Seen(c) == outcome[c] # "none" /\ Concludes(c, StatusOf[outcome[c]])

\* Lines 498-505: the thread is left to itself.
TimesOut(c) == c \in TimedCall /\ outcome[c] = "none" /\ Concludes(c, "TIMED_OUT")

\* A mutant of Answered: the calls with an answer come first.
AnsweredFirst(b) ==
    LET answered(c) == status[c] # "TIMED_OUT"
        late(c) == status[c] = "TIMED_OUT"
        sorted == SelectSeq(Batch[b], answered) \o SelectSeq(Batch[b], late)
    IN [i \in DOMAIN sorted |-> status[sorted[i]]]

\* Lines 378-400: the results in the order of the calls.
Answered(b) == [i \in DOMAIN Batch[b] |-> status[Batch[b][i]]]

Return(b) ==
    /\ answer[b] = Waiting
    /\ \A c \in Range(Batch[b]) : stage[c] = "done"
    /\ answer' = [answer EXCEPT ![b] =
                      IF \E c \in Range(Batch[b]) : status[c] = "EXIT" THEN Raised ELSE Answered(b)]
    /\ UNCHANGED <<running, settled, outcome, stage, status, active, peak, overlapped>>

\* What the threads do by themselves; a tool with a timeout may hang.
Threads ==
    \/ \E b \in Caller : Return(b)
    \/ \E c \in ToolCalls : Begin(c) \/ Seen(c) \/ TimesOut(c) \/ LocksTaken(c) \/ LocksGivenUp(c)
    \/ \E c \in ToolCalls \ TimedCall : ToolEnds(c)

ExecNext ==
    \/ Threads
    \/ \E b \in Caller : Execute(b)
    \/ \E c \in TimedCall : ToolEnds(c)

-----------------------------------------------------------------------------
\* What execute() answers for a call is what its tool came to by itself, or a timeout
\* that the call has; a tool that ends after its timeout changes nothing.
AnswersTrue ==
    \A b \in Caller : answer[b] \notin {Waiting, Raised} =>
        /\ Len(answer[b]) = Len(Batch[b])
        /\ \A i \in DOMAIN Batch[b] :
               LET c == Batch[b][i] IN
               \/ outcome[c] # "none" /\ answer[b][i] = StatusOf[outcome[c]]
               \/ c \in TimedCall /\ answer[b][i] = "TIMED_OUT"

\* As long as no two execute() have overlapped, the counter is the number of calls under
\* way and the reported concurrency stays within the pool.
CountedRight ==
    ~overlapped => /\ active = Cardinality(UnderWay)
                   /\ peak \in active..MaxWorkers

\* execute() returns, though every tool with a timeout may hang with its locks for ever:
\* again and again no batch is under way.
ExecuteReturns == []<>(\A b \in Caller : ~Under(b))
================================================================================
