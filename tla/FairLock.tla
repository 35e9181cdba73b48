------------------------------- MODULE FairLock -------------------------------
(***************************************************************************)
(* What a fair lock promises: at most one holder, and a released lock goes *)
(* to the client that has waited longest.  It is the specification that    *)
(* the docstrings of app/conversation/fifo_lock.py state for both of its   *)
(* locks; AsyncFIFOLock implements it.                                     *)
(***************************************************************************)
CONSTANTS Client,    \* the threads or tasks that use the lock
          NoClient   \* the holder of a free lock

VARIABLES holder,    \* the client that has been granted the lock
          queue      \* the order of those that wait: <<c, d>> if c came first or c = d

vars == <<holder, queue>>

Init == holder = NoClient /\ queue = {}

Waiting == {c \in Client : <<c, c>> \in queue}
Without(c) == {p \in queue : c \notin {p[1], p[2]}}

\* A client finds the lock free, and nobody waiting.
Enter(c) ==
  /\ holder = NoClient /\ queue = {}
  /\ holder' = c
  /\ UNCHANGED queue

\* A client finds the lock taken.
Join(c) ==
  /\ holder \notin {c, NoClient} /\ c \notin Waiting
  /\ queue' = queue \union ((Waiting \union {c}) \X {c})
  /\ UNCHANGED holder

\* The lock is handed to the one that has waited longest, if there is one.
Leave(c) ==
  /\ holder = c
  /\ \/ queue = {} /\ holder' = NoClient /\ UNCHANGED queue
     \/ \E first \in Waiting :
          /\ \A d \in Waiting : <<first, d>> \in queue
          /\ holder' = first /\ queue' = Without(first)

\* A waiting client stops waiting (timeout, cancellation).
GiveUp(c) ==
  /\ c \in Waiting
  /\ queue' = Without(c)
  /\ UNCHANGED holder

Next == \E c \in Client : Enter(c) \/ Join(c) \/ Leave(c) \/ GiveUp(c)

Spec == Init /\ [][Next]_vars
===============================================================================
