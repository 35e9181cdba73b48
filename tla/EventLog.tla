-------------------------------- MODULE EventLog --------------------------------
(***************************************************************************)
(* app/events/event_log.py: a log file, a companion file with the number   *)
(* of events, and the threads of one process that append, truncate and     *)
(* read.  A mutating operation holds _lock but changes the log file, the   *)
(* count in memory and the count file in three steps; readers take no lock *)
(* and read the count and then the file.  The process may die between any  *)
(* two steps; os.replace() makes each change of a file atomic.             *)
(*                                                                         *)
(* Events are numbered in the order in which they are written.             *)
(***************************************************************************)
EXTENDS Integers, Sequences

CONSTANTS Thread, NoThread,
          Nothing,      \* the result of a call that has not returned, or raised
          MaxEvents,    \* bound: events ever written
          MaxCrashes    \* bound: crashes of the process

ASSUME EventLogAssumption ==
  /\ NoThread \notin Thread /\ Nothing \notin Nat
  /\ MaxEvents \in Nat /\ MaxCrashes \in Nat

VARIABLES log,        \* the .jsonl file
          countFile,  \* the .count file
          count,      \* _count
          lock,       \* the holder of _lock
          pc, amount, \* where a thread is, how many events its call is about
          from,       \* the count that a reader has read
          result,     \* the number its last mutating call returned
          got,        \* the events its last get_last() returned
          written,    \* the number of events ever written
          up, crashes,
          taking,     \* the events that the truncate() at work has removed
          \* what calls that were cut short, by a crash or a failing write of the
          \* count file, have left uncounted since the last reindex():
          unfiled,    \* events added to the log file
          shed        \* events removed from it

vars == <<log, countFile, count, lock, pc, amount, from, result, got, written, up, crashes,
          taking, unfiled, shed>>
past == <<taking, unfiled, shed>>

Holding == {"appended", "counting", "emptied", "kept", "reindexed"}
Step == Holding \union {"idle", "reading"}

Minimum(a, b) == IF a < b THEN a ELSE b

\* _read_range(): the events from start to end that the file really has.
ReadRange(start, end) == SubSeq(log, start + 1, Minimum(end, Len(log)))

Init ==
  /\ log = <<>> /\ countFile = 0 /\ count = 0
  /\ lock = NoThread
  /\ pc = [t \in Thread |-> "idle"]
  /\ amount = [t \in Thread |-> 0] /\ from = [t \in Thread |-> 0]
  /\ result = [t \in Thread |-> Nothing] /\ got = [t \in Thread |-> <<>>]
  /\ written = 0 /\ up = TRUE /\ crashes = 0
  /\ taking = 0 /\ unfiled = 0 /\ shed = 0

Begin(t, n, step) ==
  /\ up /\ pc[t] = "idle" /\ lock = NoThread
  /\ lock' = t
  /\ amount' = [amount EXCEPT ![t] = n]
  /\ pc' = [pc EXCEPT ![t] = step]
  /\ UNCHANGED <<from, got, up, crashes, unfiled, shed>>

Return(t, value) ==
  /\ lock' = NoThread
  /\ pc' = [pc EXCEPT ![t] = "idle"]
  /\ amount' = [amount EXCEPT ![t] = 0]
  /\ result' = [result EXCEPT ![t] = value]
  /\ taking' = 0

\* The call of t ends before the count file tells of what it did to the log.
CutShort(t) ==
  /\ unfiled' = unfiled + IF pc[t] \in {"appended", "counting"} THEN amount[t] ELSE 0
  /\ shed' = shed + taking

\* _append_locked() and append_batch(): the log file gets all lines at once.
AppendLog(t) ==
  \E n \in 1..MaxEvents - written :
    /\ Begin(t, n, "appended")
    /\ log' = log \o [i \in 1..n |-> written + i]
    /\ written' = written + n
    /\ UNCHANGED <<countFile, count, result, taking>>

\* A mutant of AppendCount: a batch counts as one event.
AppendCountOne(t) ==
  /\ up /\ pc[t] = "appended"
  /\ count' = count + 1
  /\ pc' = [pc EXCEPT ![t] = "counting"]
  /\ UNCHANGED <<log, countFile, lock, amount, from, result, got, written, up, crashes, past>>

\* Lines 240 and 473.
AppendCount(t) ==
  /\ up /\ pc[t] = "appended"
  /\ count' = count + amount[t]
  /\ pc' = [pc EXCEPT ![t] = "counting"]
  /\ UNCHANGED <<log, countFile, lock, amount, from, result, got, written, up, crashes, past>>

\* _write_count_file(), and the call returns.
WriteCount(t) ==
  /\ up /\ pc[t] \in {"counting", "reindexed"}
  /\ countFile' = count
  /\ Return(t, amount[t])
  /\ IF pc[t] = "reindexed" THEN unfiled' = 0 /\ shed' = 0 ELSE UNCHANGED <<unfiled, shed>>
  /\ UNCHANGED <<log, count, from, got, written, up, crashes>>

\* _write_count_file() raises: the call fails although the log has changed.
WriteCountFails(t) ==
  /\ up /\ pc[t] \in {"counting", "reindexed", "emptied", "kept"}
  /\ count' = IF pc[t] \in {"emptied", "kept"} THEN amount[t] ELSE count
  /\ Return(t, Nothing) /\ CutShort(t)
  /\ UNCHANGED <<log, countFile, from, got, written, up, crashes>>

\* A mutant of TruncateLog: the oldest events are kept.
TruncateOldest(t) ==
  \E n \in 0..MaxEvents :
    /\ n < count
    /\ Begin(t, n, IF n = 0 THEN "emptied" ELSE "kept")
    /\ log' = ReadRange(0, n)
    /\ taking' = Len(log) - Len(log')
    /\ UNCHANGED <<countFile, count, result, written>>

\* truncate(), lines 416-435: the log file is replaced, unless there are no
\* more than n events.
TruncateLog(t) ==
  \E n \in 0..MaxEvents :
    /\ n < count
    /\ Begin(t, n, IF n = 0 THEN "emptied" ELSE "kept")
    /\ log' = IF n = 0 THEN <<>> ELSE ReadRange(count - n, count)
    /\ taking' = Len(log) - Len(log')
    /\ UNCHANGED <<countFile, count, result, written>>

\* Lines 421-424: the count is reset before it is returned as the number of
\* events removed.
TruncateAll(t) ==
  /\ up /\ pc[t] = "emptied"
  /\ count' = 0 /\ countFile' = 0
  /\ Return(t, count')
  /\ UNCHANGED <<log, from, got, written, up, crashes, unfiled, shed>>

\* Lines 437-440.
TruncateSome(t) ==
  /\ up /\ pc[t] = "kept"
  /\ count' = amount[t] /\ countFile' = amount[t]
  /\ Return(t, count - amount[t])
  /\ UNCHANGED <<log, from, got, written, up, crashes, unfiled, shed>>

\* reindex(), lines 397-398.
Reindex(t) ==
  /\ Begin(t, Len(log), "reindexed")
  /\ count' = Len(log)
  /\ UNCHANGED <<log, countFile, result, written, taking>>

\* get_last(n), up to the read of the file; no lock.
ReadCount(t) ==
  /\ up /\ pc[t] = "idle"
  /\ \E n \in 1..MaxEvents : amount' = [amount EXCEPT ![t] = n]
  /\ from' = [from EXCEPT ![t] = count]
  /\ pc' = [pc EXCEPT ![t] = "reading"]
  /\ UNCHANGED <<log, countFile, count, lock, result, got, written, up, crashes, past>>

\* A mutant of ReadFile: the range ends one event too late.
ReadFileOffByOne(t) ==
  /\ up /\ pc[t] = "reading"
  /\ LET start == from[t] - Minimum(from[t], amount[t])
     IN  got' = [got EXCEPT ![t] = ReadRange(start + 1, from[t] + 1)]
  /\ pc' = [pc EXCEPT ![t] = "idle"]
  /\ amount' = [amount EXCEPT ![t] = 0] /\ from' = [from EXCEPT ![t] = 0]
  /\ UNCHANGED <<log, countFile, count, lock, result, written, up, crashes, past>>

ReadFile(t) ==
  /\ up /\ pc[t] = "reading"
  /\ LET start == from[t] - Minimum(from[t], amount[t])
     IN  got' = [got EXCEPT ![t] = ReadRange(start, from[t])]
  /\ pc' = [pc EXCEPT ![t] = "idle"]
  /\ amount' = [amount EXCEPT ![t] = 0] /\ from' = [from EXCEPT ![t] = 0]
  /\ UNCHANGED <<log, countFile, count, lock, result, written, up, crashes, past>>

Crash ==
  /\ up /\ crashes < MaxCrashes
  /\ up' = FALSE /\ crashes' = crashes + 1
  /\ count' = 0 /\ lock' = NoThread
  /\ pc' = [t \in Thread |-> "idle"]
  /\ amount' = [t \in Thread |-> 0] /\ from' = [t \in Thread |-> 0]
  /\ result' = [t \in Thread |-> Nothing] /\ got' = [t \in Thread |-> <<>>]
  /\ taking' = 0
  /\ IF lock = NoThread THEN UNCHANGED <<unfiled, shed>> ELSE CutShort(lock)
  /\ UNCHANGED <<log, countFile, written>>

\* __init__(): the count file is believed.
Open ==
  /\ ~up /\ up' = TRUE
  /\ count' = countFile
  /\ UNCHANGED <<log, countFile, lock, pc, amount, from, result, got, written, crashes, past>>

\* The count file cannot be read, which _read_count_file() takes for no events
\* (lines 678-682).
OpenUnread ==
  /\ ~up /\ up' = TRUE
  /\ count' = 0
  /\ unfiled' = unfiled + countFile
  /\ UNCHANGED <<log, countFile, lock, pc, amount, from, result, got, written, crashes, taking, shed>>

Next ==
  \/ Crash \/ Open \/ OpenUnread
  \/ \E t \in Thread :
       \/ AppendLog(t) \/ AppendCount(t) \/ WriteCount(t) \/ WriteCountFails(t)
       \/ TruncateLog(t) \/ TruncateAll(t) \/ TruncateSome(t) \/ Reindex(t)
       \/ ReadCount(t) \/ ReadFile(t)

Spec == Init /\ [][Next]_vars
-------------------------------------------------------------------------------
TypeOK ==
  /\ log \in Seq(1..MaxEvents)
  /\ countFile \in 0..MaxEvents /\ count \in 0..MaxEvents
  /\ lock \in Thread \union {NoThread}
  /\ pc \in [Thread -> Step]
  /\ amount \in [Thread -> 0..MaxEvents] /\ from \in [Thread -> 0..MaxEvents]
  /\ result \in [Thread -> {Nothing} \union 0..MaxEvents]
  /\ got \in [Thread -> Seq(1..MaxEvents)]
  /\ written \in 0..MaxEvents /\ up \in BOOLEAN /\ crashes \in 0..MaxCrashes
  /\ taking \in Nat /\ unfiled \in Nat /\ shed \in Nat

Free == up /\ lock = NoThread

\* The mutex and the place of its holder agree.
HolderInside ==
  /\ \A t \in Thread : pc[t] \in Holding <=> lock = t
  /\ ~up => lock = NoThread

\* No count exceeds the events that were ever written.
CountsBounded ==
  /\ Len(log) <= written /\ countFile <= written /\ count <= written
  /\ \A t \in Thread :
       /\ pc[t] = "appended" => count + amount[t] <= written
       /\ pc[t] = "emptied" => amount[t] = 0
       /\ pc[t] \in {"emptied", "kept"} => amount[t] <= count

\* A count is the number of lines but for what was left uncounted.
Within(n, added, removed) ==
  /\ Len(log) <= n + unfiled + added
  /\ n <= Len(log) + shed + removed

\* The same of the two counts while an operation is at work: the file does not
\* yet tell of what the operation adds and removes, nor perhaps the memory.
CountCatchesUp ==
  /\ lock = NoThread => taking = 0 /\ Within(countFile, 0, 0) /\ (up => Within(count, 0, 0))
  /\ \A t \in Thread :
       /\ pc[t] = "appended" =>
            taking = 0 /\ Within(countFile, amount[t], 0) /\ Within(count + amount[t], 0, 0)
       /\ pc[t] = "counting" =>
            taking = 0 /\ Within(countFile, amount[t], 0) /\ Within(count, 0, 0)
       /\ pc[t] = "reindexed" => taking = 0 /\ Within(countFile, 0, 0) /\ Len(log) = count
       /\ pc[t] \in {"emptied", "kept"} =>
            Within(countFile, 0, taking) /\ Within(amount[t], 0, 0)

\* Whenever no operation is at work len() reports the number of lines of the
\* file, after any failure and any crash, except that each call that was cut
\* short may have left what it added uncounted or what it removed counted, until
\* reindex() is called (lines 19-24, 171-173 and 390-391).
CountAgrees ==
  Free => /\ Len(log) - unfiled <= count
          /\ count <= Len(log) + shed

\* Lines 19-24 and 403-406: truncate() keeps the most recent events, whatever
\* has happened to the log before.
NewestKept ==
  \A i \in 1..Len(log) : log[i] = written - Len(log) + i

\* What the docstring promises, DurableLog, for a log that has lost track of as
\* many events as `unfiled' says.
Promise == INSTANCE DurableLog WITH Event <- 1..MaxEvents, uncounted <- unfiled
ImplementsDurableLog == Promise!Spec

\* With no operation at work, the thread's read of the last events ends.
ReadsLast(t) == Free /\ pc[t] = "reading" /\ pc'[t] = "idle" /\ up' /\ from[t] = count

\* Line 322, "Retrieve the last n events", after crashes: asked for more events than were shed, in
\* a log that is not all uncounted, it returns some, and they end with the newest
\* but for those that are uncounted.
LastIsRecent ==
  [][\A t \in Thread :
       ReadsLast(t) /\ unfiled < Len(log) /\ shed < amount[t]
       => /\ got'[t] # <<>>
          /\ \E i \in Len(log) - unfiled..Len(log) : got'[t][Len(got'[t])] = log[i]]_vars

===============================================================================
