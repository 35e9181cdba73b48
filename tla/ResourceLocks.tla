---------------------------- MODULE ResourceLocks -----------------------------
(***************************************************************************)
(* app/parallel_executor/resource_lock.py: the readers-writer lock of each *)
(* resource key, and ResourceLockManager.acquire_resources(), which takes  *)
(* the locks of a tool call in the order of their keys, gives all of them  *)
(* back and starts again when one of them cannot be had in time, and gives *)
(* up after retry_count attempts.                                          *)
(*                                                                         *)
(* A call runs in a thread of its own, so Call stands for the threads too. *)
(* Each region under a lock's Condition is one action; waiting on the      *)
(* Condition and being notified are modelled, with time left out: a wait   *)
(* may reach its deadline at any moment.                                   *)
(***************************************************************************)
EXTENDS Integers, Sequences, FiniteSets

CONSTANTS Call,         \* the tool calls
          Key,          \* lock keys; strings in the code, only their order counts
          NoCall,       \* _writer is None
          Decls,        \* the sorted declarations of each call
          RetryCount    \* retry_count

Mode == {"READ", "WRITE"}
Declaration == [key : Key, mode : Mode]

ASSUME CallAssumption == IsFiniteSet(Call) /\ NoCall \notin Call
ASSUME KeyAssumption == Key \subseteq Int
ASSUME RetryAssumption == RetryCount \in Nat
\* sorted() of a frozenset: ascending keys, no declaration twice.
ASSUME DeclsAssumption ==
  /\ Decls \in [Call -> Seq(Declaration)]
  /\ \A c \in Call : \A i, j \in 1..Len(Decls[c]) :
       i < j => /\ Decls[c][i].key <= Decls[c][j].key
                /\ Decls[c][i] # Decls[c][j]

VARIABLES readers,   \* _readers of each lock
          writer,    \* _writer of each lock
          got,       \* len(acquired): the first got[c] of Decls[c] are locked
          attempt,   \* attempts of _acquire_all() started so far
          pc         \* where each call is

lockVars == <<readers, writer, got, attempt, pc>>

Step == {"idle",       \* acquire_resources() not called
         "retry",      \* releasing before the next attempt
         "acquiring",  \* at the top of the loop over the declarations
         "sleeping",   \* in _cond.wait() of the next lock
         "running",    \* in the with block
         "leaving",    \* releasing after the with block
         "failing",    \* releasing after the last attempt
         "done", "failed"}

Init ==
  /\ readers = [k \in Key |-> 0]
  /\ writer = [k \in Key |-> NoCall]
  /\ got = [c \in Call |-> 0]
  /\ attempt = [c \in Call |-> 0]
  /\ pc = [c \in Call |-> "idle"]

Goto(c, step) == pc' = [pc EXCEPT ![c] = step]

\* The declaration whose lock the call needs next.
Wanted(c) == Decls[c][got[c] + 1]

\* The condition of the wait loops of acquire_read() and acquire_write().
Free(d) ==
  /\ writer[d.key] = NoCall
  /\ d.mode = "WRITE" => readers[d.key] = 0

\* After an attempt failed: another one, or the end of the retry budget.
AfterFailure(n) == IF n < RetryCount THEN "retry" ELSE "failing"

\* Lines 291-304: nothing to lock, or the first attempt.
Begin(c) ==
  /\ pc[c] = "idle"
  /\ Goto(c, IF Decls[c] = <<>> THEN "running" ELSE AfterFailure(0))
  /\ UNCHANGED <<readers, writer, got, attempt>>

\* A mutant of StartAttempt: the list of acquired locks is cleared first.
StartAttemptForgets(c) ==
  /\ pc[c] = "retry"
  /\ got' = [got EXCEPT ![c] = 0]
  /\ attempt' = [attempt EXCEPT ![c] = @ + 1]
  /\ Goto(c, "acquiring")
  /\ UNCHANGED <<readers, writer>>

\* Lines 423-429: everything has been given back, try all the locks again.
StartAttempt(c) ==
  /\ pc[c] = "retry" /\ got[c] = 0
  /\ attempt' = [attempt EXCEPT ![c] = @ + 1]
  /\ Goto(c, "acquiring")
  /\ UNCHANGED <<readers, writer, got>>

\* A mutant of Grant: an off-by-one, the last lock is never asked for.
GrantAllButLast(c) ==
  /\ pc[c] = "acquiring" /\ Free(Wanted(c))
  /\ LET k == Wanted(c).key IN
       IF Wanted(c).mode = "READ"
         THEN readers' = [readers EXCEPT ![k] = @ + 1] /\ UNCHANGED writer
         ELSE writer' = [writer EXCEPT ![k] = c] /\ UNCHANGED readers
  /\ got' = [got EXCEPT ![c] = @ + 1]
  /\ Goto(c, IF got[c] + 2 >= Len(Decls[c]) THEN "running" ELSE "acquiring")
  /\ UNCHANGED attempt

\* Lines 84-94, 102-110 and 446-449: a lock is granted; with the last one the
\* with block begins.
Grant(c) ==
  /\ pc[c] = "acquiring" /\ Free(Wanted(c))
  /\ LET k == Wanted(c).key IN
       IF Wanted(c).mode = "READ"
         THEN readers' = [readers EXCEPT ![k] = @ + 1] /\ UNCHANGED writer
         ELSE writer' = [writer EXCEPT ![k] = c] /\ UNCHANGED readers
  /\ got' = [got EXCEPT ![c] = @ + 1]
  /\ Goto(c, IF got[c] + 1 = Len(Decls[c]) THEN "running" ELSE "acquiring")
  /\ UNCHANGED attempt

\* Lines 85-89 and 103-107: wait on the Condition.
Sleep(c) ==
  /\ pc[c] = "acquiring" /\ ~Free(Wanted(c))
  /\ Goto(c, "sleeping")
  /\ UNCHANGED <<readers, writer, got, attempt>>

\* Lines 87-90, 105-108 and 437-445: the deadline passes before or in the wait.
LockTimeout(c) ==
  /\ \/ pc[c] = "sleeping"
     \/ pc[c] = "acquiring" /\ ~Free(Wanted(c))
  /\ Goto(c, AfterFailure(attempt[c]))
  /\ UNCHANGED <<readers, writer, got, attempt>>

\* The with block ends, by a result or by an exception.
Finish(c) ==
  /\ pc[c] = "running"
  /\ Goto(c, "leaving")
  /\ UNCHANGED <<readers, writer, got, attempt>>

\* The calls that notify_all() on the lock of a key wakes.
Sleepers(k) == {c \in Call : pc[c] = "sleeping" /\ Wanted(c).key = k}
Wake(S) == pc' = [c \in Call |-> IF c \in S THEN "acquiring" ELSE pc[c]]

\* A mutant of ReleaseOne: the last reader does not notify.
ReleaseQuietly(c) ==
  /\ pc[c] \in {"retry", "leaving", "failing"} /\ got[c] > 0
  /\ got' = [got EXCEPT ![c] = @ - 1]
  /\ LET d == Decls[c][got[c]] IN
       \/ /\ d.mode = "READ" /\ readers[d.key] > 0
          /\ readers' = [readers EXCEPT ![d.key] = @ - 1]
          /\ UNCHANGED <<writer, pc>>
       \/ /\ d.mode = "WRITE" /\ writer[d.key] = c
          /\ writer' = [writer EXCEPT ![d.key] = NoCall]
          /\ UNCHANGED readers
          /\ Wake(Sleepers(d.key))
  /\ UNCHANGED attempt

\* Lines 484-496 with 116-130 and 134-147: _release_all() pops one lock.  An
\* error of the lock (nothing held, another owner) is swallowed.
ReleaseOne(c) ==
  /\ pc[c] \in {"retry", "leaving", "failing"} /\ got[c] > 0
  /\ got' = [got EXCEPT ![c] = @ - 1]
  /\ LET d == Decls[c][got[c]] IN
       IF d.mode = "READ"
         THEN /\ readers' = [readers EXCEPT ![d.key] = IF @ > 0 THEN @ - 1 ELSE @]
              /\ UNCHANGED writer
              /\ IF readers[d.key] = 1 THEN Wake(Sleepers(d.key)) ELSE UNCHANGED pc
         ELSE /\ writer' = [writer EXCEPT ![d.key] = IF @ = c THEN NoCall ELSE @]
              /\ UNCHANGED readers
              /\ IF writer[d.key] = c THEN Wake(Sleepers(d.key)) ELSE UNCHANGED pc
  /\ UNCHANGED attempt

\* The finally block is over: return, or raise DeadlockDetectedError.
Leave(c) ==
  /\ pc[c] \in {"leaving", "failing"} /\ got[c] = 0
  /\ Goto(c, IF pc[c] = "leaving" THEN "done" ELSE "failed")
  /\ UNCHANGED <<readers, writer, got, attempt>>

\* What a call's thread does by itself once it has begun, tool code apart.
Locking(c) ==
  \/ StartAttempt(c) \/ Grant(c) \/ Sleep(c) \/ LockTimeout(c)
  \/ ReleaseOne(c) \/ Leave(c)

Next == \E c \in Call : Begin(c) \/ Locking(c) \/ Finish(c)

(***************************************************************************)
(* Threads that can run do run, deadlines pass, tools come to an end.      *)
(***************************************************************************)
Fairness == \A c \in Call : WF_lockVars(Locking(c)) /\ WF_lockVars(Finish(c))

Spec == Init /\ [][Next]_lockVars
FairSpec == Spec /\ Fairness
-------------------------------------------------------------------------------
TypeOK ==
  /\ readers \in [Key -> Nat]
  /\ writer \in [Key -> Call \union {NoCall}]
  /\ got \in [Call -> Nat]
  /\ attempt \in [Call -> 0..RetryCount]
  /\ pc \in [Call -> Step]
  /\ \A c \in Call :
       /\ got[c] <= Len(Decls[c])
       /\ pc[c] \in {"acquiring", "sleeping"} => got[c] < Len(Decls[c])

\* The declarations whose locks a call has in its acquired list.
Holds(c, d) == \E i \in 1..got[c] : Decls[c][i] = d

Reads(k) == [key |-> k, mode |-> "READ"]
Writes(k) == [key |-> k, mode |-> "WRITE"]
ReaderCalls(k) == {c \in Call : Holds(c, Reads(k))}

\* The locks say what the acquired lists say: no lock is counted twice or
\* forgotten by a partial release, and the owner of a WRITE lock is the call
\* that lists it, so the errors that _release_all() swallows (lines 491-494)
\* never happen here.
LocksMatchHolders ==
  \A k \in Key :
    /\ readers[k] = Cardinality(ReaderCalls(k))
    /\ \A c \in Call : writer[k] = c <=> Holds(c, Writes(k))

\* Lines 11-13 and the invariant of line 63: a key is never written by one call
\* and read or written by another, in any phase of acquiring and releasing.
Exclusion ==
  \A c, d \in Call, k \in Key :
    Holds(c, Writes(k)) /\ (Holds(d, Writes(k)) \/ Holds(d, Reads(k))) => c = d

\* A call sleeps only while the lock it wants is taken: whoever frees the lock
\* wakes it (the notify_all() of lines 129-130 and 147 miss nobody, although
\* a reader notifies only when it is the last).
NoLostWakeup ==
  \A c \in Call : pc[c] = "sleeping" => ~Free(Wanted(c))

\* d holds a lock that keeps c waiting.
Blocks(d, c) ==
  \/ writer[Wanted(c).key] = d
  \/ Wanted(c).mode = "WRITE" /\ Holds(d, Reads(Wanted(c).key))

Waits(c) == pc[c] = "sleeping"

\* The call declares READ and WRITE of one key, and will wait for itself.
DeclaresTwice(c) ==
  \E i, j \in 1..Len(Decls[c]) : i < j /\ Decls[c][i].key = Decls[c][j].key

\* The promise of lines 17-18: along a chain of calls that wait for each other
\* the wanted keys ascend, so the chain cannot close to a cycle.  (A call that
\* declares a key twice is at the end of its chain: it waits for itself.)
WaitsAscend ==
  \A c, d \in Call :
    c # d /\ Waits(c) /\ Waits(d) /\ Blocks(d, c) /\ ~DeclaresTwice(d)
      => Wanted(c).key < Wanted(d).key

\* When every call has settled no lock is held: neither a failed attempt nor a
\* failed call leaves one behind (lines 303-308, 424-426).
NothingLeaked ==
  (\A c \in Call : pc[c] \in {"idle", "done", "failed"})
    => \A k \in Key : readers[k] = 0 /\ writer[k] = NoCall

\* Whatever timeouts pass and however calls cross, each of them ends, run or given
\* up (lines 423-455): again and again none is under way.
EveryCallSettles ==
  []<>(\A c \in Call : pc[c] \in {"idle", "done", "failed"})

(***************************************************************************)
(* The protocol refines ResourceSchedule: a call is running in the with    *)
(* block, and it settles when that block or the last attempt is over.      *)
(***************************************************************************)
Conflicting(c, d) ==
  \E i \in 1..Len(Decls[c]), j \in 1..Len(Decls[d]) :
    /\ Decls[c][i].key = Decls[d][j].key
    /\ "WRITE" \in {Decls[c][i].mode, Decls[d][j].mode}

Running == {c \in Call : pc[c] = "running"}
Settled == {c \in Call : pc[c] \in {"leaving", "failing", "done", "failed"}}

Schedule == INSTANCE ResourceSchedule WITH
              Conflict <- Conflicting, running <- Running, settled <- Settled

\* Conflicting tools are never executed at the same time, and each tool is
\* executed at most once although its locks may be taken several times.
ImplementsSchedule == Schedule!Spec
===============================================================================
