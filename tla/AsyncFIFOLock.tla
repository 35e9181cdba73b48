---------------------------- MODULE AsyncFIFOLock -----------------------------
(***************************************************************************)
(* AsyncFIFOLock of app/conversation/fifo_lock.py: the same lock between   *)
(* the tasks of one event loop.  Code between two awaits is one action.    *)
(* Unlike FIFOLock, release() hands the lock over: _held stays TRUE and    *)
(* the future of the first waiter that is not done gets its result; the    *)
(* task runs again in a later iteration of the loop.  A cancellation can   *)
(* arrive at every await: it cancels a pending future, and after the       *)
(* hand-over it is raised in the task when that task runs again.           *)
(***************************************************************************)
EXTENDS Naturals, Sequences, SequencesExt

CONSTANTS Task,         \* the tasks that use the lock
          NoTask,       \* no task holds the lock (used by the refinement)
          Cancellable   \* the tasks that somebody may cancel

VARIABLES held,      \* _held
          waiters,   \* _waiters, each future standing for its task
          future,    \* the state of the future that a task created
          doomed,    \* tasks whose cancel() came after the hand-over
          pc         \* where each task is

vars == <<held, waiters, future, doomed, pc>>

Init ==
  /\ held = FALSE /\ waiters = <<>>
  /\ future = [t \in Task |-> "none"]
  /\ doomed = {}
  /\ pc = [t \in Task |-> "idle"]

Goto(t, step) == pc' = [pc EXCEPT ![t] = step]

\* Lines 199-202.
AcquireFast(t) ==
  /\ pc[t] = "idle" /\ ~held
  /\ held' = TRUE
  /\ Goto(t, "critical")
  /\ UNCHANGED <<waiters, future, doomed>>

\* Lines 204-210, up to the await.
AcquireSlow(t) ==
  /\ pc[t] = "idle" /\ held
  /\ waiters' = Append(waiters, t)
  /\ future' = [future EXCEPT ![t] = "pending"]
  /\ Goto(t, "waiting")
  /\ UNCHANGED <<held, doomed>>

\* Line 210: the await returns, the lock has been handed over.
Resume(t) ==
  /\ pc[t] = "waiting" /\ future[t] = "result" /\ t \notin doomed
  /\ Goto(t, "critical")
  /\ UNCHANGED <<held, waiters, future, doomed>>

\* Task.cancel() while the future is pending: the future is cancelled.
CancelPending(t) ==
  /\ t \in Cancellable
  /\ pc[t] = "waiting" /\ future[t] = "pending"
  /\ future' = [future EXCEPT ![t] = "cancelled"]
  /\ UNCHANGED <<held, waiters, doomed, pc>>

\* Task.cancel() after set_result() and before the task runs again.
CancelGranted(t) ==
  /\ t \in Cancellable \ doomed
  /\ pc[t] = "waiting" /\ future[t] = "result"
  /\ doomed' = doomed \union {t}
  /\ UNCHANGED <<held, waiters, future, pc>>

\* A mutant of Unwind: a task cancelled after the hand-over enters all the same.
UnwindEnters(t) ==
  /\ pc[t] = "waiting" /\ (future[t] = "cancelled" \/ t \in doomed)
  /\ Goto(t, "critical")
  /\ UNCHANGED <<held, waiters, future, doomed>>

\* Lines 211-216 and 238-249: CancelledError in acquire().  The future may
\* be in the queue still, or have been dequeued by a release.
Unwind(t) ==
  /\ pc[t] = "waiting" /\ (future[t] = "cancelled" \/ t \in doomed)
  /\ \/ ~Contains(waiters, t) /\ UNCHANGED waiters
     \/ \E i \in DOMAIN waiters :
          waiters[i] = t /\ waiters' = RemoveAt(waiters, i)
  /\ Goto(t, "dead")
  /\ UNCHANGED <<held, future, doomed>>

\* The positions of the waiters that can still be given the lock.
Pending == {i \in DOMAIN waiters : future[waiters[i]] = "pending"}

\* A mutant of Release: waiters are served from the wrong end.
ReleaseLast(t) ==
  /\ pc[t] = "critical" /\ held
  /\ IF Pending = {}
       THEN /\ held' = FALSE /\ waiters' = <<>>
            /\ future' = [future EXCEPT ![t] = "none"]
       ELSE \E i \in Pending :
              /\ held' = TRUE
              /\ \A j \in Pending : i >= j
              /\ waiters' = SubSeq(waiters, 1, i - 1)
              /\ future' = [future EXCEPT ![t] = "none", ![waiters[i]] = "result"]
  /\ Goto(t, "idle")
  /\ UNCHANGED doomed

\* Lines 225-236: pop up to and including the first future that is not done.
Release(t) ==
  /\ pc[t] = "critical" /\ held
  /\ IF Pending = {}
       THEN /\ held' = FALSE /\ waiters' = <<>>
            /\ future' = [future EXCEPT ![t] = "none"]
       ELSE \E i \in Pending :
              /\ held' = TRUE
              /\ \A j \in Pending : i <= j
              /\ waiters' = SubSeq(waiters, i + 1, Len(waiters))
              /\ future' = [future EXCEPT ![t] = "none", ![waiters[i]] = "result"]
  /\ Goto(t, "idle")
  /\ UNCHANGED doomed

Next ==
  \E t \in Task :
    \/ AcquireFast(t) \/ AcquireSlow(t) \/ Resume(t)
    \/ CancelPending(t) \/ CancelGranted(t) \/ Unwind(t)
    \/ Release(t)

(***************************************************************************)
(* The loop runs every task that is ready, and a task that holds the lock  *)
(* gets to the end of its async with block.                                *)
(***************************************************************************)
Fairness == \A t \in Task : WF_vars(Resume(t) \/ Unwind(t) \/ Release(t))

Spec == Init /\ [][Next]_vars
FairSpec == Spec /\ Fairness
-------------------------------------------------------------------------------
TypeOK ==
  /\ held \in BOOLEAN
  /\ waiters \in Seq(Task)
  /\ future \in [Task -> {"none", "pending", "result", "cancelled"}]
  /\ doomed \subseteq Task
  /\ pc \in [Task -> {"idle", "waiting", "critical", "dead"}]

\* A task owns the lock from the moment it is handed over, before it runs.
Owns(t) == pc[t] = "critical" \/ (pc[t] = "waiting" /\ future[t] = "result")

\* At most one task is inside or on its way in, and the lock is marked as held
\* for it, so its own release() does not raise (lines 225-236).
MutualExclusion ==
  /\ \A t, u \in Task : Owns(t) /\ Owns(u) => t = u
  /\ \A t \in Task : Owns(t) => held

\* The lock is held and no task will release it.
Lost == held /\ \A t \in Task : ~Owns(t)

\* Lines 12-13, with the only exception that cancellation makes: a waiting
\* task gets in, is cancelled, or the lock has been lost.
EveryWaiterServed ==
  \A t \in Task : (pc[t] = "waiting") ~> (pc[t] # "waiting" \/ Lost)

(***************************************************************************)
(* The lock refines FairLock: a granted task is the holder although it has *)
(* not run yet, cancelled futures are no longer in the queue.              *)
(***************************************************************************)
Holder ==
  IF \E t \in Task : pc[t] = "critical" \/ future[t] = "result"
    THEN CHOOSE t \in Task : pc[t] = "critical" \/ future[t] = "result"
    ELSE NoTask

Queue ==
  {p \in Task \X Task :
     \E i, j \in Pending : i <= j /\ waiters[i] = p[1] /\ waiters[j] = p[2]}

Fair == INSTANCE FairLock WITH
          Client <- Task, NoClient <- NoTask, holder <- Holder, queue <- Queue

\* First come, first served, and one holder at a time, across cancellations
\* (lines 174-176 and 219-236).
ImplementsFairLock == Fair!Spec
===============================================================================
