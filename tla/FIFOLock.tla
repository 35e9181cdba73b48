------------------------------- MODULE FIFOLock -------------------------------
(***************************************************************************)
(* FIFOLock of app/conversation/fifo_lock.py: the lock between threads     *)
(* that guards every mutation of a ConversationState.                      *)
(*                                                                         *)
(* Each block under the internal threading.Lock is one action.  A waiter   *)
(* is a threading.Event in _waiters; it stands here for the thread that    *)
(* created it, because a thread has at most one.  release() sets the event *)
(* of the first waiter and leaves the lock FREE: the waiter takes it in a  *)
(* later step, so another thread may pass in between.                      *)
(***************************************************************************)
EXTENDS Naturals, Sequences, SequencesExt

CONSTANTS Thread,     \* the threads that call acquire() and release()
          NoThread,   \* no owner
          Timed       \* the threads that pass a timeout to acquire()

VARIABLES held,       \* _held
          owner,      \* _owner
          waiters,    \* _waiters
          signalled,  \* the threads whose event is set
          pc          \* where each thread is

vars == <<held, owner, waiters, signalled, pc>>

Step == {"idle",      \* outside, or after acquire() returned False
         "waiting",   \* in event.wait()
         "expired",   \* event.wait() returned False, _lock not yet taken
         "granted",   \* dequeued and signalled, _lock not yet taken
         "critical",  \* acquire() returned True
         "raised"}    \* release() raised RuntimeError

Init ==
  /\ held = FALSE /\ owner = NoThread
  /\ waiters = <<>> /\ signalled = {}
  /\ pc = [t \in Thread |-> "idle"]

Goto(t, step) == pc' = [pc EXCEPT ![t] = step]

Own(t) == held' = TRUE /\ owner' = t

\* Lines 88-94: the fast path.
AcquireFast(t) ==
  /\ pc[t] = "idle" /\ ~held
  /\ Own(t) /\ Goto(t, "critical")
  /\ UNCHANGED <<waiters, signalled>>

\* Lines 95-97: the slow path enqueues a new event.
AcquireSlow(t) ==
  /\ pc[t] = "idle" /\ held
  /\ waiters' = Append(waiters, t)
  /\ Goto(t, "waiting")
  /\ UNCHANGED <<held, owner, signalled>>

\* Line 100: event.wait() returns True.
Wake(t) ==
  /\ pc[t] = "waiting" /\ t \in signalled
  /\ signalled' = signalled \ {t}
  /\ Goto(t, "granted")
  /\ UNCHANGED <<held, owner, waiters>>

\* Line 100: event.wait() returns False.
Expire(t) ==
  /\ pc[t] = "waiting" /\ t \in Timed /\ t \notin signalled
  /\ Goto(t, "expired")
  /\ UNCHANGED <<held, owner, waiters, signalled>>

\* Lines 102-106 and 111-112: the timed-out thread leaves the queue.
Withdraw(t) ==
  /\ pc[t] = "expired"
  /\ \E i \in DOMAIN waiters :
       waiters[i] = t /\ waiters' = RemoveAt(waiters, i)
  /\ Goto(t, "idle")
  /\ UNCHANGED <<held, owner, signalled>>

\* A mutant of TooLate: acquire() reports the timeout although it was signalled.
TooLateReturnsFalse(t) ==
  /\ pc[t] = "expired" /\ ~Contains(waiters, t)
  /\ signalled' = signalled \ {t}
  /\ Goto(t, "idle")
  /\ UNCHANGED <<held, owner, waiters>>

\* Lines 107-110: a release dequeued and signalled it after the timeout.
TooLate(t) ==
  /\ pc[t] = "expired" /\ ~Contains(waiters, t)
  /\ signalled' = signalled \ {t}
  /\ Goto(t, "granted")
  /\ UNCHANGED <<held, owner, waiters>>

\* Lines 114-118: the signalled waiter takes the lock, held or not.
Take(t) ==
  /\ pc[t] = "granted"
  /\ Own(t) /\ Goto(t, "critical")
  /\ UNCHANGED <<waiters, signalled>>

\* Lines 127-137.  The owner is not compared with the calling thread.
Release(t) ==
  /\ pc[t] = "critical" /\ held
  /\ held' = FALSE /\ owner' = NoThread
  /\ IF waiters = <<>>
       THEN UNCHANGED <<waiters, signalled>>
       ELSE /\ waiters' = Tail(waiters)
            /\ signalled' = signalled \union {Head(waiters)}
  /\ Goto(t, "idle")

\* Lines 128-129: another thread has already released the lock.
ReleaseRaises(t) ==
  /\ pc[t] = "critical" /\ ~held
  /\ Goto(t, "raised")
  /\ UNCHANGED <<held, owner, waiters, signalled>>

\* The caller handles the exception and goes on.
Recover(t) ==
  /\ pc[t] = "raised"
  /\ Goto(t, "idle")
  /\ UNCHANGED <<held, owner, waiters, signalled>>

\* Steps that a thread takes without waiting for anything but _lock.
Progress(t) ==
  Wake(t) \/ Withdraw(t) \/ TooLate(t) \/ Take(t) \/ Release(t) \/ ReleaseRaises(t)

Next ==
  \E t \in Thread :
    AcquireFast(t) \/ AcquireSlow(t) \/ Expire(t) \/ Recover(t) \/ Progress(t)

(***************************************************************************)
(* A running thread goes on running and the guarded regions are straight-  *)
(* line code that ends.  No fairness on calls of acquire() or on timeouts. *)
(***************************************************************************)
Fairness == \A t \in Thread : WF_vars(Progress(t))

Spec == Init /\ [][Next]_vars
FairSpec == Spec /\ Fairness
-------------------------------------------------------------------------------
TypeOK ==
  /\ held \in BOOLEAN
  /\ owner \in Thread \union {NoThread}
  /\ waiters \in Seq(Thread)
  /\ signalled \subseteq Thread
  /\ pc \in [Thread -> Step]

\* A wakeup that was given and not yet used: the event is set, or its thread is
\* about to take the lock.
GrantPending == \E t \in Thread : t \in signalled \/ pc[t] = "granted"

\* Nobody is left behind: while threads wait in the queue, either the recorded
\* owner is really inside and will release, or a wakeup is on its way.  It is
\* what keeps acquire() from blocking for ever although release() hands nothing
\* over and a timed-out waiter may be signalled too late (lines 105-110).
NoAbandonedWaiter ==
  waiters # <<>> => \/ held /\ owner \in Thread /\ pc[owner] = "critical"
                    \/ GrantPending

\* Starvation freedom, the promise of lines 12-13: a thread that waits without
\* a timeout is let in, whatever the others do and however often they pass it.
EveryWaiterEnters ==
  \A t \in Thread \ Timed : (pc[t] = "waiting") ~> (pc[t] = "critical")
===============================================================================
