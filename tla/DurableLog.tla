------------------------------- MODULE DurableLog -------------------------------
(***************************************************************************)
(* What the docstring of app/events/event_log.py promises of a log: events *)
(* are only ever added at its end, whole batches at a time, and truncate() *)
(* keeps the most recent ones that are counted.  A crash changes nothing.  *)
(***************************************************************************)
EXTENDS Integers, Sequences

CONSTANT Event

VARIABLES log,
          uncounted  \* how many of the newest events a truncate() may overlook

Init == log = <<>>

\* The old content is a prefix of the new one.
AppendBatch ==
  /\ log' \in Seq(Event) /\ Len(log) <= Len(log')
  /\ SubSeq(log', 1, Len(log)) = log

Truncate ==
  \E last \in Len(log) - uncounted..Len(log) :
    \E kept \in 0..last : log' = SubSeq(log, last - kept + 1, last)

\* truncate(0) is asked for an empty log.
Empty == log' = <<>>

Next == AppendBatch \/ Truncate \/ Empty

Spec == Init /\ [][Next]_log
===============================================================================
