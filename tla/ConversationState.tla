--------------------------- MODULE ConversationState ---------------------------
(***************************************************************************)
(* The status of app/conversation/state.py under its lock: set_status()    *)
(* and try_set_status() called from several threads, with the FIFOLock as  *)
(* it is.  The body of set_status() is two steps, the read of _status and  *)
(* the assignment, because the threads interleave between them unless the  *)
(* lock keeps them apart.                                                  *)
(***************************************************************************)
EXTENDS Naturals, Sequences

CONSTANTS Thread, NoThread,
          MaxCalls   \* bound: calls of set_status() that one thread makes

VARIABLES held, owner, waiters, signalled, pc,   \* FIFOLock
          status,    \* _status
          target,    \* new_status of the call in progress
          old,       \* old, line 231
          stage,     \* how far the call is
          calls      \* the calls started

vars == <<held, owner, waiters, signalled, pc, status, target, old, stage, calls>>

\* The state's lock is always taken without a timeout.
Lock == INSTANCE FIFOLock WITH Timed <- {}

ExecutionStatus == {"IDLE", "RUNNING", "PAUSED", "FINISHED", "ERROR"}
Terminal == {"FINISHED", "ERROR"}

Stage == {"out",       \* no call, or it returned or raised ValueError
          "acquiring", \* in __enter__
          "body",      \* at line 231
          "read",      \* at line 232
          "exit",      \* in __exit__
          "broken"}    \* __exit__ raised RuntimeError

\* _VALID_TRANSITIONS
Successors(s) ==
  CASE s = "IDLE"    -> {"RUNNING"}
    [] s = "RUNNING" -> {"FINISHED", "PAUSED", "ERROR", "IDLE"}
    [] s = "PAUSED"  -> {"RUNNING", "ERROR"}
    [] s \in Terminal -> {}

Init ==
  /\ Lock!Init
  /\ status = "IDLE"
  /\ target = [t \in Thread |-> "IDLE"]
  /\ old = [t \in Thread |-> "IDLE"]
  /\ stage = [t \in Thread |-> "out"]
  /\ calls = [t \in Thread |-> 0]

Reach(t, s) == stage' = [stage EXCEPT ![t] = s]

SetStatus(t, s) ==
  /\ stage[t] = "out" /\ calls[t] < MaxCalls
  /\ target' = [target EXCEPT ![t] = s]
  /\ calls' = [calls EXCEPT ![t] = @ + 1]
  /\ Reach(t, "acquiring")
  /\ UNCHANGED <<held, owner, waiters, signalled, pc, status, old>>

\* with self._lock: line 230.
Acquiring(t) ==
  /\ stage[t] = "acquiring"
  /\ \/ (Lock!AcquireSlow(t) \/ Lock!Wake(t)) /\ UNCHANGED stage
     \/ (Lock!AcquireFast(t) \/ Lock!Take(t)) /\ Reach(t, "body")
  /\ UNCHANGED <<status, target, old, calls>>

Read(t) ==
  /\ stage[t] = "body"
  /\ old' = [old EXCEPT ![t] = status]
  /\ Reach(t, "read")
  /\ UNCHANGED <<held, owner, waiters, signalled, pc, status, target, calls>>

\* Lines 232-254: the transition is validated against the status that was read;
\* an invalid one is a no-op or a ValueError.
Write(t) ==
  /\ stage[t] = "read"
  /\ status' = IF target[t] \in Successors(old[t]) THEN target[t] ELSE status
  /\ Reach(t, "exit")
  /\ UNCHANGED <<held, owner, waiters, signalled, pc, target, old, calls>>

\* The end of the with block, on every path.
Exit(t) ==
  /\ stage[t] = "exit"
  /\ \/ Lock!Release(t) /\ Reach(t, "out")
     \/ Lock!ReleaseRaises(t) /\ Reach(t, "broken")
  /\ UNCHANGED <<status, target, old, calls>>

Progress(t) == Acquiring(t) \/ Read(t) \/ Write(t) \/ Exit(t)

Next == \E t \in Thread : Progress(t) \/ \E s \in ExecutionStatus : SetStatus(t, s)

Spec == Init /\ [][Next]_vars
-------------------------------------------------------------------------------
TypeOK ==
  /\ Lock!TypeOK
  /\ status \in ExecutionStatus
  /\ target \in [Thread -> ExecutionStatus]
  /\ old \in [Thread -> ExecutionStatus]
  /\ stage \in [Thread -> Stage]
  /\ calls \in [Thread -> 0..MaxCalls]

\* Every call of set_status() ends, also the one whose transition is refused:
\* no exception path keeps the lock (lines 230-256).  Again and again none is
\* under way.
EveryCallEnds ==
  []<>(\A t \in Thread : stage[t] \in {"out", "broken"})
===============================================================================
