--------------------------- MODULE ResourceSchedule ---------------------------
(***************************************************************************)
(* What the resource locks of app/parallel_executor promise to the tool    *)
(* calls, whatever the locking protocol: a call runs at most once, while   *)
(* no call that conflicts with it runs (DeclaredResources.conflicts_with   *)
(* and the first lines of resource_lock.py).                               *)
(***************************************************************************)
CONSTANTS Call,               \* the tool calls
          Conflict(_, _)      \* they declare the same key, one of them WRITE

VARIABLES running,            \* the calls whose tool is being executed
          settled             \* the calls that are over, run or given up

vars == <<running, settled>>

Init == running = {} /\ settled = {}

Start(c) ==
  /\ c \notin running \union settled
  /\ \A d \in running : ~Conflict(c, d)
  /\ running' = running \union {c}
  /\ UNCHANGED settled

Complete(c) ==
  /\ c \in running
  /\ running' = running \ {c}
  /\ settled' = settled \union {c}

Abandon(c) ==
  /\ c \notin running \union settled
  /\ settled' = settled \union {c}
  /\ UNCHANGED running

Next == \E c \in Call : Start(c) \/ Complete(c) \/ Abandon(c)

Spec == Init /\ [][Next]_vars
===============================================================================
