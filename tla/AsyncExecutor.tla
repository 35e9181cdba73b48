----------------------------- MODULE AsyncExecutor ------------------------------
(***************************************************************************)
(* AsyncParallelToolExecutor of app/parallel_executor/executor.py: one     *)
(* task per tool call, a semaphore around them, and the threads of the     *)
(* event loop's default pool, in which locks are taken and released and    *)
(* synchronous tools run.  asyncio.wait_for() may cancel a task at any     *)
(* await; a job that a thread has begun goes on all the same.              *)
(*                                                                         *)
(* A call declares one resource here.  A wait for a lock is given up at    *)
(* any moment, as after retry_count attempts (module ResourceLocks).       *)
(***************************************************************************)
EXTENDS Naturals, Sequences, FiniteSets, SequencesExt

CONSTANTS Batch,          \* the calls of execute(), in order, each once
          Worker,         \* the threads of the pool
          None,           \* no thread, no job
          KeyOf,          \* the resource of a call
          Writing,        \* the calls that declare it WRITE
          Timed,          \* the calls with a timeout
          Sync,           \* the calls of a synchronous tool
          MaxConcurrency  \* max_concurrency

Calls == Range(Batch)
Keys == {KeyOf[c] : c \in Calls}
Job == {"acquire", "tool", "release"} \X Calls

VARIABLES todo,     \* the tasks that wait for the semaphore
          pc,       \* where the task of a call is
          result,   \* the status of a call, once its outcome is known
          queue,    \* the jobs of the pool that no thread has begun
          doing,    \* the job of each thread
          over,     \* the jobs that are done
          writer,   \* _writer of each lock, a thread
          readers,  \* the calls for which each lock is read
          running   \* the calls whose tool is being executed

vars == <<todo, pc, result, queue, doing, over, writer, readers, running>>
locks == <<writer, readers>>
pool == <<queue, doing, over>>

Place == {"waiting", "acquiring", "working", "releasing", "done"}
Status == {"PENDING", "COMPLETED", "FAILED", "TIMED_OUT"}

Init ==
  /\ todo = Batch /\ queue = <<>>
  /\ pc = [c \in Calls |-> "waiting"] /\ result = [c \in Calls |-> "PENDING"]
  /\ doing = [w \in Worker |-> None] /\ over = {}
  /\ writer = [k \in Keys |-> None] /\ readers = [k \in Keys |-> {}]
  /\ running = {}

Go(c, from, to) == pc[c] = from /\ pc' = [pc EXCEPT ![c] = to]

\* loop.run_in_executor(None, ...)
Submit(job) == queue' = Append(queue, job) /\ UNCHANGED <<doing, over>>

\* Cancelling the future of a job takes it out of the queue, not from a thread.
Withdraw(job) ==
  IF job \in Range(queue) THEN RemoveAt(queue, CHOOSE i \in DOMAIN queue : queue[i] = job)
                          ELSE queue

JobDone(w) ==
  /\ doing' = [doing EXCEPT ![w] = None]
  /\ over' = over \union {doing[w]}
  /\ UNCHANGED queue
-------------------------------------------------------------------------------
\* _tracked_task(): the semaphore wakes its waiters in order; the acquisition is
\* left to the pool.
Enter(c) ==
  /\ todo # <<>> /\ c = Head(todo)
  /\ Cardinality({d \in Calls : pc[d] \notin {"waiting", "done"}}) < MaxConcurrency
  /\ todo' = Tail(todo)
  /\ Go(c, "waiting", "acquiring")
  /\ Submit(<<"acquire", c>>)
  /\ UNCHANGED <<result, locks, running>>

\* A thread of the pool begins the oldest job.
Begin(w) ==
  /\ queue # <<>> /\ doing[w] = None
  /\ doing' = [doing EXCEPT ![w] = Head(queue)]
  /\ queue' = Tail(queue)
  /\ running' = IF Head(queue)[1] = "tool" THEN running \union {Head(queue)[2]} ELSE running
  /\ UNCHANGED <<todo, pc, result, over, locks>>

\* acquire_resources_explicit(): acquire_read() or acquire_write()
Lock(w, c) ==
  LET k == KeyOf[c]
  IN  /\ doing[w] = <<"acquire", c>>
      /\ writer[k] = None
      /\ IF c \in Writing
           THEN readers[k] = {} /\ writer' = [writer EXCEPT ![k] = w] /\ UNCHANGED readers
           ELSE readers' = [readers EXCEPT ![k] = @ \union {c}] /\ UNCHANGED writer
      /\ JobDone(w)
      /\ UNCHANGED <<todo, pc, result, running>>

\* It raises DeadlockDetectedError, and so does the task if it still waits.
LockFails(w, c) ==
  /\ doing[w] = <<"acquire", c>>
  /\ writer[KeyOf[c]] # None \/ (c \in Writing /\ readers[KeyOf[c]] # {})
  /\ doing' = [doing EXCEPT ![w] = None]
  /\ IF pc[c] = "acquiring"
       THEN Go(c, "acquiring", "done") /\ result' = [result EXCEPT ![c] = "FAILED"]
       ELSE UNCHANGED <<pc, result>>
  /\ UNCHANGED <<todo, queue, over, locks, running>>

\* The task has its handle and calls the tool.
CallTool(c) ==
  /\ <<"acquire", c>> \in over
  /\ Go(c, "acquiring", "working")
  /\ IF c \in Sync THEN Submit(<<"tool", c>>) /\ UNCHANGED running
                   ELSE running' = running \union {c} /\ UNCHANGED pool
  /\ UNCHANGED <<todo, result, locks>>

\* The tool has returned or raised: the finally clause submits the release.
Conclude(c, status) ==
  /\ Go(c, "working", "releasing")
  /\ result' = [result EXCEPT ![c] = status]

Ended == {"COMPLETED", "FAILED"}

CoroutineEnds(c) ==
  /\ c \in running \ Sync
  /\ \E status \in Ended : Conclude(c, status)
  /\ running' = running \ {c}
  /\ Submit(<<"release", c>>)
  /\ UNCHANGED <<todo, locks>>

SyncToolEnds(w, c) ==
  /\ doing[w] = <<"tool", c>>
  /\ running' = running \ {c}
  /\ JobDone(w)
  /\ UNCHANGED <<todo, pc, result, locks>>

\* A mutant of SyncToolSeen: no finally clause.
SyncToolSeenNoFinally(c) ==
  /\ <<"tool", c>> \in over
  /\ \/ Conclude(c, "COMPLETED") /\ Submit(<<"release", c>>)
     \/ Go(c, "working", "done") /\ result' = [result EXCEPT ![c] = "FAILED"] /\ UNCHANGED pool
  /\ UNCHANGED <<todo, locks, running>>

SyncToolSeen(c) ==
  /\ <<"tool", c>> \in over
  /\ \E status \in Ended : Conclude(c, status)
  /\ Submit(<<"release", c>>)
  /\ UNCHANGED <<todo, locks, running>>

\* release_resources(): release_write() raises in a thread other than the one that
\* acquired the lock, and _release_all() swallows that.
Unlock(w, c) ==
  LET k == KeyOf[c]
  IN  /\ doing[w] = <<"release", c>>
      /\ writer' = IF c \in Writing /\ writer[k] = w THEN [writer EXCEPT ![k] = None] ELSE writer
      /\ readers' = [readers EXCEPT ![k] = @ \ {c}]
      /\ JobDone(w)
      /\ UNCHANGED <<todo, pc, result, running>>

Return(c) ==
  /\ <<"release", c>> \in over
  /\ Go(c, "releasing", "done")
  /\ UNCHANGED <<todo, result, pool, locks, running>>

\* wait_for() cancels the task where it waits.  Inside the tool that still runs
\* the finally clause.
TimeoutAcquiring(c) ==
  /\ c \in Timed
  /\ Go(c, "acquiring", "done")
  /\ result' = [result EXCEPT ![c] = "TIMED_OUT"]
  /\ queue' = Withdraw(<<"acquire", c>>)
  /\ UNCHANGED <<todo, doing, over, locks, running>>

TimeoutWorking(c) ==
  /\ c \in Timed
  /\ Conclude(c, "TIMED_OUT") /\ pc[c] = "working"
  /\ queue' = Append(Withdraw(<<"tool", c>>), <<"release", c>>)
  /\ running' = IF c \in Sync THEN running ELSE running \ {c}
  /\ UNCHANGED <<todo, doing, over, locks>>

TimeoutReleasing(c) ==
  /\ c \in Timed /\ result[c] # "TIMED_OUT"
  /\ Go(c, "releasing", "done")
  /\ result' = [result EXCEPT ![c] = "TIMED_OUT"]
  /\ queue' = Withdraw(<<"release", c>>)
  /\ UNCHANGED <<todo, doing, over, locks, running>>

Timeout(c) == TimeoutAcquiring(c) \/ TimeoutWorking(c) \/ TimeoutReleasing(c)

Acquiring(w) == \E c \in Calls : Lock(w, c) \/ LockFails(w, c)

Releasing(w) == \E c \in Calls : Unlock(w, c)

Next ==
  \/ \E c \in Calls : \/ Enter(c) \/ CallTool(c) \/ CoroutineEnds(c) \/ SyncToolSeen(c)
                     \/ Return(c) \/ Timeout(c)
  \/ \E w \in Worker : \/ Begin(w) \/ Acquiring(w) \/ Releasing(w)
                       \/ \E c \in Calls : SyncToolEnds(w, c)

\* The event loop and the threads go on and timeouts come; a tool may hang.
GoesOn ==
  \/ \E c \in Calls : \/ Enter(c) \/ CallTool(c) \/ SyncToolSeen(c) \/ Return(c)
                     \/ TimeoutAcquiring(c) \/ TimeoutWorking(c)
  \/ \E w \in Worker : Begin(w) \/ Acquiring(w) \/ Releasing(w)

-------------------------------------------------------------------------------
TypeOK ==
  /\ todo \in Seq(Calls) /\ pc \in [Calls -> Place] /\ result \in [Calls -> Status]
  /\ queue \in Seq(Job) /\ doing \in [Worker -> Job \union {None}] /\ over \subseteq Job
  /\ writer \in [Keys -> Worker \union {None}] /\ readers \in [Keys -> SUBSET Calls]
  /\ running \subseteq Calls

Conflicting(c, d) ==
  c # d /\ KeyOf[c] = KeyOf[d] /\ (c \in Writing \/ d \in Writing)

\* Lines 4-5: conflicting calls are serialised, with the one exception that the code
\* makes: the thread of a synchronous tool goes on after its timeout, when its task has
\* given the locks back.
Overstays(c) == c \in Sync /\ result[c] = "TIMED_OUT"
Exclusion == \A c, d \in running : Conflicting(c, d) => Overstays(c) \/ Overstays(d)

\* execute() returns although any tool may hang for ever, if all calls have a
\* timeout: neither a cancelled task nor a pool full of waiting threads keeps it.
BatchReturns == <>(\A c \in Calls : pc[c] = "done")

\* A call that completed or failed has given its READ lock back: whatever the pool
\* threads did meanwhile, its finally clause waits for the release (lines 752-757).
\* Only a timeout may leave a READ lock behind: a thread gets it after the task has
\* gone.  (A WRITE lock is not given back by a thread that did not acquire it.)
ReadLocksReturned ==
  \A c \in Calls : result[c] \in Ended /\ pc[c] = "done" => c \notin readers[KeyOf[c]]
===============================================================================
