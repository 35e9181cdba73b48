--------------------------------- MODULE MCLocks --------------------------------
(***************************************************************************)
(* What keeps threads and tasks apart, one of them in each behaviour: a    *)
(* FIFOLock used by threads, an AsyncFIFOLock used by tasks, the status of *)
(* a ConversationState behind a FIFOLock of its own, the locking protocol  *)
(* of parallel tool calls, and the two executors that run batches of them, *)
(* as tasks and on pools of threads.                                       *)
(***************************************************************************)
EXTENDS ResourceLocks, TLC

SExt == INSTANCE SequencesExt

CONSTANTS Thread, NoThread, Timed,          \* FIFOLock
          Task, NoTask, Cancellable,        \* AsyncFIFOLock
          StatusThread, MaxCalls,           \* ConversationState
          c1, c2, c3, c4,                   \* ResourceLocks
          e1, e2, e3, k1, k2, None,         \* AsyncExecutor
          Parallel, ResourceOf, Worker, Writing, TimedCall, Sync, MaxConcurrency,
          b1, b2, b3, Batches, InTheWay(_, _), TimedThread, MaxWorkers   \* SyncExecutor

VARIABLES scenario,
          held, owner, waiters, signalled, tpc,
          aheld, awaiters, future, doomed, apc,
          sheld, sowner, swaiters, ssignalled, spc, status, target, old, stage, calls,
          todo, epc, result, queue, doing, over, ewriter, ereaders, running,
          brunning, bsettled, outcome, bstage, bstatus, answer, active, peak, overlapped

threadVars == <<held, owner, waiters, signalled, tpc>>
taskVars == <<aheld, awaiters, future, doomed, apc>>
statusVars == <<sheld, sowner, swaiters, ssignalled, spc, status, target, old, stage, calls>>
executorVars == <<todo, epc, result, queue, doing, over, ewriter, ereaders, running>>
batchVars == <<brunning, bsettled, outcome, bstage, bstatus, answer, active, peak, overlapped>>

\* sorted(declarations, key=lambda d: d.lock_key) of a frozenset.
ByKey(d, e) == d.key < e.key
Sorted(declared) == [c \in DOMAIN declared |-> SExt!SetToSortSeq(declared[c], ByKey)]

\* A writer of both keys, a writer of the second only, so that the first gets
\* stuck half-way, a mixed call, and a call that declares READ and WRITE of one
\* key, which no constructor of DeclaredResources prevents: it waits for itself.
SelfBlocking ==
  Sorted(c1 :> {Writes(1), Writes(2)} @@ c2 :> {Writes(2)}
           @@ c3 :> {Reads(1), Writes(2)} @@ c4 :> {Reads(1), Writes(1)})

\* Two calls that share a resource, and a third with one of its own.
ThreeCalls == <<e1, e2, e3>>
SharedResource == (e1 :> k1) @@ (e2 :> k1) @@ (e3 :> k2)

\* Two threads call execute() of one executor; the first call holds what the others need.
TwoBatches == <<<<b1, b2>>, <<b3>>>>
FirstInTheWay(c, d) == b1 \in {c, d} /\ c # d

Lock == INSTANCE FIFOLock WITH pc <- tpc
Async == INSTANCE AsyncFIFOLock WITH
           held <- aheld, waiters <- awaiters, pc <- apc
State == INSTANCE ConversationState WITH
           Thread <- StatusThread, held <- sheld, owner <- sowner, waiters <- swaiters,
           signalled <- ssignalled, pc <- spc
A == INSTANCE AsyncExecutor WITH
       pc <- epc, writer <- ewriter, readers <- ereaders, Timed <- TimedCall,
       Batch <- Parallel, KeyOf <- ResourceOf
S == INSTANCE SyncExecutor WITH
       Batch <- Batches, TimedCall <- TimedThread, Conflict <- InTheWay,
       running <- brunning, settled <- bsettled, stage <- bstage, status <- bstatus

ASSUME NoTaskAssumption == NoTask \notin Task
ASSUME NoneAssumption == None \notin Worker \union A!Job
ASSUME WorkersAssumption == MaxWorkers \in Nat \ {0}
\* Each call is in one batch, once.
ASSUME BatchesAssumption ==
  /\ \A b \in DOMAIN Batches : Batches[b] \in Seq(SExt!Range(Batches[b]))
  /\ \A b, d \in DOMAIN Batches :
       \A i \in DOMAIN Batches[b], j \in DOMAIN Batches[d] :
         Batches[b][i] = Batches[d][j] => b = d /\ i = j

MCInit ==
  /\ Lock!Init /\ Async!Init /\ State!Init /\ Init /\ A!Init
  /\ S!ExecInit
  /\ scenario \in {"threads", "tasks", "status", "calls", "executor", "batches"}

MCNext ==
  /\ \/ /\ scenario = "threads" /\ Lock!Next
        /\ UNCHANGED <<taskVars, statusVars, lockVars, executorVars, batchVars>>
     \/ /\ scenario = "tasks" /\ Async!Next
        /\ UNCHANGED <<threadVars, statusVars, lockVars, executorVars, batchVars>>
     \/ /\ scenario = "status" /\ State!Next
        /\ UNCHANGED <<threadVars, taskVars, lockVars, executorVars, batchVars>>
     \/ /\ scenario = "calls" /\ Next
        /\ UNCHANGED <<threadVars, taskVars, statusVars, executorVars, batchVars>>
     \/ /\ scenario = "executor" /\ A!Next
        /\ UNCHANGED <<threadVars, taskVars, statusVars, lockVars, batchVars>>
     \/ /\ scenario = "batches" /\ S!ExecNext
        /\ UNCHANGED <<threadVars, taskVars, statusVars, lockVars, executorVars>>
  /\ UNCHANGED scenario

\* The fairness of each part, where it runs.
Locks == scenario = "calls"
Executor == scenario = "executor"
Batching == scenario = "batches"
MCFairness ==
  /\ \A t \in Thread : WF_threadVars(scenario = "threads" /\ Lock!Progress(t))
  /\ \A t \in Task :
       WF_taskVars(scenario = "tasks" /\ (Async!Resume(t) \/ Async!Unwind(t) \/ Async!Release(t)))
  /\ \A t \in StatusThread : WF_statusVars(scenario = "status" /\ State!Progress(t))
  /\ \A c \in Call : WF_lockVars(Locks /\ Locking(c)) /\ WF_lockVars(Locks /\ Finish(c))
  /\ WF_executorVars(Executor /\ A!GoesOn)
  /\ WF_batchVars(Batching /\ S!Threads)

MCSpec ==
  /\ MCInit
  /\ [][MCNext]_<<threadVars, taskVars, statusVars, lockVars, executorVars, batchVars, scenario>>
  /\ MCFairness

NoAbandonedWaiter == Lock!NoAbandonedWaiter
LocksKept == A!Exclusion /\ A!ReadLocksReturned
BatchAnswered == S!AnswersTrue /\ S!CountedRight

\* Whoever waits without a timeout or a cancellation gets in, thread or task, every
\* set_status() ends, every tool call settles, and the executors answer for their batches.
EverybodyServed ==
  /\ Lock!EveryWaiterEnters /\ Async!EveryWaiterServed /\ State!EveryCallEnds
  /\ EveryCallSettles /\ (Executor => A!BatchReturns)
  /\ S!ExecuteReturns
ImplementsFairLock == Async!ImplementsFairLock
===============================================================================
