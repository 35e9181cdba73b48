------------------------------ MODULE Locks_proof -----------------------------
(***************************************************************************)
(* The safety of MCLocks' parts, for any threads, tasks, calls, keys,      *)
(* declarations, batches and budgets: FIFOLock, AsyncFIFOLock and that it  *)
(* is a fair lock, the locking protocol of parallel calls, and the two     *)
(* executors.                                                              *)
(***************************************************************************)
EXTENDS MCLocks, FiniteSetTheorems, SequenceTheorems, TLAPS

\* deque.remove() leaves a queue of the same elements.
LEMMA RemovedType ==
  ASSUME NEW D, NEW s \in Seq(D), NEW i \in 1..Len(s)
  PROVE  SubSeq(s, 1, i - 1) \o SubSeq(s, i + 1, Len(s)) \in Seq(D)
<1>1. SubSeq(s, 1, i - 1) \in Seq(D)
  BY SubSeqProperties
<1>2. SubSeq(s, i + 1, Len(s)) \in Seq(D)
  BY SubSeqProperties
<1> QED BY <1>1, <1>2, ConcatProperties

\* A queue is a function on 1..Len whose values are its elements.
LEMMA QueueType ==
  ASSUME NEW D, NEW s \in Seq(D)
  PROVE  /\ DOMAIN s = 1..Len(s)
         /\ Len(s) \in Nat
         /\ \A i \in DOMAIN s : s[i] \in D
OBVIOUS

\* popleft() of a queue that is not empty.
LEMMA HeadTailType ==
  ASSUME NEW D, NEW s \in Seq(D), s # <<>>
  PROVE  Head(s) \in D /\ Tail(s) \in Seq(D)
BY HeadTailProperties

-------------------------------------------------------------------------------
(* No waiter of FIFOLock is left behind, for any set of threads.            *)

\* The state variables keep their types.
THEOREM LockTypes == Lock!Spec => []Lock!TypeOK
<1> USE DEF Lock!Step, Lock!Goto, Lock!Own
<1>1. Lock!Init => Lock!TypeOK
  BY EmptySeq DEF Lock!Init, Lock!TypeOK
<1>2. Lock!TypeOK /\ [Lock!Next]_threadVars => Lock!TypeOK'
  <2> SUFFICES ASSUME Lock!TypeOK, [Lock!Next]_threadVars
               PROVE  Lock!TypeOK'
    OBVIOUS
  <2> USE DEF Lock!TypeOK
  <2>1. ASSUME NEW t \in Thread, Lock!AcquireFast(t) \/ Lock!Take(t) PROVE Lock!TypeOK'
    BY <2>1 DEF Lock!AcquireFast, Lock!Take
  <2>2. ASSUME NEW t \in Thread, Lock!AcquireSlow(t) PROVE Lock!TypeOK'
    BY <2>2, AppendProperties DEF Lock!AcquireSlow
  <2>3. ASSUME NEW t \in Thread, Lock!Wake(t) \/ Lock!Expire(t) \/ Lock!TooLate(t) PROVE Lock!TypeOK'
    BY <2>3 DEF Lock!Wake, Lock!Expire, Lock!TooLate
  <2>4. ASSUME NEW t \in Thread, Lock!Withdraw(t) PROVE Lock!TypeOK'
    <3>1. waiters' \in Seq(Thread)
      BY <2>4, RemovedType, QueueType DEF Lock!Withdraw, Lock!RemoveAt
    <3> QED BY <2>4, <3>1 DEF Lock!Withdraw
  <2>5. ASSUME NEW t \in Thread, Lock!Release(t) PROVE Lock!TypeOK'
    <3>1. waiters' \in Seq(Thread) /\ signalled' \subseteq Thread
      BY <2>5, HeadTailType DEF Lock!Release
    <3> QED BY <2>5, <3>1 DEF Lock!Release
  <2>6. ASSUME NEW t \in Thread, Lock!ReleaseRaises(t) \/ Lock!Recover(t) PROVE Lock!TypeOK'
    BY <2>6 DEF Lock!ReleaseRaises, Lock!Recover
  <2>7. CASE UNCHANGED threadVars
    BY <2>7 DEF threadVars
  <2> QED BY <2>1, <2>2, <2>3, <2>4, <2>5, <2>6, <2>7 DEF Lock!Next, Lock!Progress
<1> QED BY <1>1, <1>2, PTL DEF Lock!Spec, Lock!vars, threadVars

\* The strengthening that makes NoAbandonedWaiter inductive: the recorded owner
\* is inside.  (The converse fails: not everybody inside is the recorded owner.)
OwnerInside == held => owner \in Thread /\ tpc[owner] = "critical"
LockInv == OwnerInside /\ Lock!NoAbandonedWaiter

\* In every state some thread will serve the queue, unless the queue is empty.
THEOREM NobodyAbandoned == Lock!Spec => []Lock!NoAbandonedWaiter
<1> USE DEF Lock!Goto, Lock!Own
<1>1. Lock!Init => LockInv
  BY DEF Lock!Init, LockInv, OwnerInside, Lock!NoAbandonedWaiter
<1>2. Lock!TypeOK /\ LockInv /\ [Lock!Next]_threadVars => LockInv'
  <2> SUFFICES ASSUME Lock!TypeOK, LockInv, [Lock!Next]_threadVars
               PROVE  LockInv'
    OBVIOUS
  <2> USE DEF Lock!TypeOK, LockInv, OwnerInside, Lock!NoAbandonedWaiter, Lock!GrantPending
  <2>1. ASSUME NEW t \in Thread, Lock!AcquireFast(t) \/ Lock!Take(t) PROVE LockInv'
    BY <2>1 DEF Lock!AcquireFast, Lock!Take
  <2>2. ASSUME NEW t \in Thread, Lock!AcquireSlow(t) PROVE LockInv'
    BY <2>2 DEF Lock!AcquireSlow
  <2>3. ASSUME NEW t \in Thread, Lock!Wake(t) \/ Lock!Expire(t) \/ Lock!TooLate(t) PROVE LockInv'
    BY <2>3 DEF Lock!Wake, Lock!Expire, Lock!TooLate
  <2>4. ASSUME NEW t \in Thread, Lock!Withdraw(t) PROVE LockInv'
    <3>1. waiters # <<>>
      BY <2>4, QueueType DEF Lock!Withdraw
    <3> QED BY <2>4, <3>1 DEF Lock!Withdraw
  <2>5. ASSUME NEW t \in Thread, Lock!Release(t) PROVE LockInv'
    <3>1. CASE waiters = <<>>
      BY <2>5, <3>1 DEF Lock!Release
    <3>2. CASE waiters # <<>>
      BY <2>5, <3>2, HeadTailType DEF Lock!Release
    <3> QED BY <3>1, <3>2
  <2>6. ASSUME NEW t \in Thread, Lock!ReleaseRaises(t) \/ Lock!Recover(t) PROVE LockInv'
    BY <2>6 DEF Lock!ReleaseRaises, Lock!Recover
  <2>7. CASE UNCHANGED threadVars
    BY <2>7 DEF threadVars
  <2> QED BY <2>1, <2>2, <2>3, <2>4, <2>5, <2>6, <2>7 DEF Lock!Next, Lock!Progress
<1> QED BY <1>1, <1>2, LockTypes, PTL DEF Lock!Spec, Lock!vars, threadVars, LockInv

-------------------------------------------------------------------------------
(* Mutual exclusion of AsyncFIFOLock, for any set of tasks.                 *)

\* The state variables keep their types.
THEOREM AsyncTypes == Async!Spec => []Async!TypeOK
<1> USE DEF Async!Goto, Async!Owns
<1>1. Async!Init => Async!TypeOK
  BY EmptySeq DEF Async!Init, Async!TypeOK
<1>2. Async!TypeOK /\ [Async!Next]_taskVars => Async!TypeOK'
  <2> SUFFICES ASSUME Async!TypeOK, [Async!Next]_taskVars
               PROVE  Async!TypeOK'
    OBVIOUS
  <2> USE DEF Async!TypeOK
  <2>1. ASSUME NEW t \in Task, Async!AcquireFast(t) PROVE Async!TypeOK'
    BY <2>1 DEF Async!AcquireFast
  <2>2. ASSUME NEW t \in Task, Async!AcquireSlow(t) PROVE Async!TypeOK'
    BY <2>2, AppendProperties DEF Async!AcquireSlow
  <2>3. ASSUME NEW t \in Task, Async!Resume(t) PROVE Async!TypeOK'
    BY <2>3 DEF Async!Resume
  <2>4. ASSUME NEW t \in Task, Async!CancelPending(t) \/ Async!CancelGranted(t) PROVE Async!TypeOK'
    BY <2>4 DEF Async!CancelPending, Async!CancelGranted
  <2>5. ASSUME NEW t \in Task, Async!Unwind(t) PROVE Async!TypeOK'
    <3>1. CASE awaiters' = awaiters
      BY <2>5, <3>1 DEF Async!Unwind
    <3>2. CASE awaiters' # awaiters
      <4>1. PICK i \in DOMAIN awaiters : awaiters' = Async!RemoveAt(awaiters, i)
        BY <2>5, <3>2 DEF Async!Unwind
      <4>2. awaiters' \in Seq(Task)
        BY <4>1, RemovedType, QueueType DEF Async!RemoveAt
      <4> QED BY <2>5, <4>2 DEF Async!Unwind
    <3> QED BY <3>1, <3>2
  <2>6. ASSUME NEW t \in Task, Async!Release(t) PROVE Async!TypeOK'
    <3>1. CASE Async!Pending = {}
      BY <2>6, <3>1, EmptySeq DEF Async!Release
    <3>2. CASE Async!Pending # {}
      <4>1. PICK i \in Async!Pending :
              /\ aheld' = TRUE
              /\ awaiters' = SubSeq(awaiters, i + 1, Len(awaiters))
              /\ future' = [future EXCEPT ![t] = "none", ![awaiters[i]] = "result"]
        BY <2>6, <3>2 DEF Async!Release
      <4>2. i \in 1..Len(awaiters)
        BY QueueType DEF Async!Pending
      <4>3. awaiters' \in Seq(Task)
        BY <4>1, <4>2, SubSeqProperties
      <4> QED BY <2>6, <4>1, <4>3 DEF Async!Release
    <3> QED BY <3>1, <3>2
  <2>7. CASE UNCHANGED taskVars
    BY <2>7 DEF taskVars
  <2> QED BY <2>1, <2>2, <2>3, <2>4, <2>5, <2>6, <2>7 DEF Async!Next
<1> QED BY <1>1, <1>2, PTL DEF Async!Spec, Async!vars, taskVars

\* Nobody enters beside an owner: the fast path needs a free lock, and release()
\* hands the lock to a task that did not own it while the releaser lets go.
THEOREM OneOwner == Async!Spec => []Async!MutualExclusion
<1> USE DEF Async!Goto, Async!Owns
<1>1. Async!Init => Async!MutualExclusion
  BY DEF Async!Init, Async!MutualExclusion
<1>2. Async!TypeOK /\ Async!MutualExclusion /\ [Async!Next]_taskVars => Async!MutualExclusion'
  <2> SUFFICES ASSUME Async!TypeOK, Async!MutualExclusion, [Async!Next]_taskVars
               PROVE  Async!MutualExclusion'
    OBVIOUS
  <2> USE DEF Async!TypeOK, Async!MutualExclusion
  <2>1. ASSUME NEW t \in Task, Async!AcquireFast(t) PROVE Async!MutualExclusion'
    BY <2>1 DEF Async!AcquireFast
  <2>2. ASSUME NEW t \in Task, Async!AcquireSlow(t) PROVE Async!MutualExclusion'
    BY <2>2 DEF Async!AcquireSlow
  <2>3. ASSUME NEW t \in Task, Async!Resume(t) PROVE Async!MutualExclusion'
    BY <2>3 DEF Async!Resume
  <2>4. ASSUME NEW t \in Task, Async!CancelPending(t) \/ Async!CancelGranted(t)
        PROVE Async!MutualExclusion'
    BY <2>4 DEF Async!CancelPending, Async!CancelGranted
  <2>5. ASSUME NEW t \in Task, Async!Unwind(t) PROVE Async!MutualExclusion'
    BY <2>5 DEF Async!Unwind
  <2>6. ASSUME NEW t \in Task, Async!Release(t) PROVE Async!MutualExclusion'
    <3>1. \A u \in Task : Async!Owns(u) => u = t
      BY <2>6 DEF Async!Release
    <3>2. CASE Async!Pending = {}
      BY <2>6, <3>1, <3>2 DEF Async!Release
    <3>3. CASE Async!Pending # {}
      <4>1. PICK i \in Async!Pending :
              /\ aheld' = TRUE
              /\ future' = [future EXCEPT ![t] = "none", ![awaiters[i]] = "result"]
        BY <2>6, <3>3 DEF Async!Release
      <4>2. \A u \in Task : Async!Owns(u)' => u = awaiters[i]
        BY <2>6, <3>1, <4>1 DEF Async!Release
      <4> QED BY <4>1, <4>2
    <3> QED BY <3>2, <3>3
  <2>7. CASE UNCHANGED taskVars
    BY <2>7 DEF taskVars
  <2> QED BY <2>1, <2>2, <2>3, <2>4, <2>5, <2>6, <2>7 DEF Async!Next
<1> QED BY <1>1, <1>2, AsyncTypes, PTL DEF Async!Spec, Async!vars, taskVars

-------------------------------------------------------------------------------
(* AsyncFIFOLock is a fair lock.                                            *)

\* Who has been given the lock and has not given it back: the task inside, or one on its
\* way in, even if a cancellation stops it there.
Granted(t) == apc[t] = "critical" \/ future[t] = "result"

\* The queue holds each waiter once, and every one that can still be given the lock; a
\* lock that is held was given to one task, and a free one has no queue.
QueueInv ==
  /\ \A i, j \in DOMAIN awaiters : awaiters[i] = awaiters[j] => i = j
  /\ \A i \in DOMAIN awaiters : apc[awaiters[i]] = "waiting" /\ future[awaiters[i]] # "result"
  /\ \A t \in Task : future[t] = "pending" =>
        apc[t] = "waiting" /\ \E i \in DOMAIN awaiters : awaiters[i] = t
  /\ \A t \in Task : apc[t] = "idle" => future[t] = "none"
  /\ \A t \in doomed : future[t] = "result" /\ apc[t] \in {"waiting", "dead"}
  /\ \A t, u \in Task : Granted(t) /\ Granted(u) => t = u
  /\ aheld <=> \E t \in Task : Granted(t)
  /\ ~aheld => awaiters = <<>>

\* What is left of a queue when one of it, or the front of it, is taken out.
LEMMA WithoutOne ==
  ASSUME NEW D, NEW s \in Seq(D), NEW n \in 1..Len(s)
  PROVE  LET r == SubSeq(s, 1, n - 1) \o SubSeq(s, n + 1, Len(s)) IN
         /\ Len(r) = Len(s) - 1 /\ DOMAIN r = 1..(Len(s) - 1)
         /\ \A i \in 1..(n - 1) : r[i] = s[i]
         /\ \A i \in 1..(Len(s) - n) : r[(n - 1) + i] = s[n + i]
<1> DEFINE front == SubSeq(s, 1, n - 1)  back == SubSeq(s, n + 1, Len(s))
<1>1. /\ front \in Seq(D) /\ Len(front) = n - 1
      /\ \A i \in 1..(n - 1) : front[i] = s[i]
  BY SubSeqProperties
<1>2. /\ back \in Seq(D) /\ Len(back) = Len(s) - n
      /\ \A i \in 1..(Len(s) - n) : back[i] = s[n + i]
  BY SubSeqProperties
<1>3. n - 1 \in Nat /\ Len(s) - n \in Nat /\ (n - 1) + (Len(s) - n) = Len(s) - 1
  OBVIOUS
<1> HIDE DEF front, back
<1>4. /\ Len(front \o back) = Len(s) - 1 /\ DOMAIN (front \o back) = 1..(Len(s) - 1)
      /\ \A i \in 1..(n - 1) : (front \o back)[i] = front[i]
      /\ \A i \in 1..(Len(s) - n) : (front \o back)[(n - 1) + i] = back[i]
  <2>1. ASSUME NEW a \in Nat, NEW b \in Nat, Len(front) = a, Len(back) = b
        PROVE  /\ Len(front \o back) = a + b /\ DOMAIN (front \o back) = 1..(a + b)
               /\ \A i \in 1..a : (front \o back)[i] = front[i]
               /\ \A i \in 1..b : (front \o back)[a + i] = back[i]
    <3>1. front \in Seq(D) /\ back \in Seq(D)
      BY <1>1, <1>2
    <3>2. /\ front \o back \in Seq(D) /\ Len(front \o back) = a + b
          /\ \A i \in 1..(a + b) : (front \o back)[i] = IF i <= a THEN front[i] ELSE back[i - a]
      BY <2>1, <3>1, ConcatProperties
    <3>3. DOMAIN (front \o back) = 1..(a + b)
      BY <3>2, QueueType
    <3>4. ASSUME NEW i \in 1..b PROVE (front \o back)[a + i] = back[i]
      <4>1. a + i \in 1..(a + b) /\ ~(a + i <= a) /\ (a + i) - a = i
        OBVIOUS
      <4> QED BY <4>1, <3>2
    <3>5. ASSUME NEW i \in 1..a PROVE (front \o back)[i] = front[i]
      <4>1. i \in 1..(a + b) /\ i <= a
        OBVIOUS
      <4> QED BY <4>1, <3>2
    <3>6. Len(front \o back) = a + b
      BY <3>2
    <3> QED BY <3>3, <3>4, <3>5, <3>6
  <2> QED BY <1>1, <1>2, <1>3, <2>1
<1>5. /\ \A i \in 1..(n - 1) : (front \o back)[i] = s[i]
      /\ \A i \in 1..(Len(s) - n) : (front \o back)[(n - 1) + i] = s[n + i]
  BY <1>1, <1>2, <1>4
<1> QED BY <1>4, <1>5 DEF front, back

LEMMA WithoutFront ==
  ASSUME NEW D, NEW s \in Seq(D), NEW n \in 1..Len(s), NEW r, r = SubSeq(s, n + 1, Len(s))
  PROVE  /\ Len(r) = Len(s) - n /\ DOMAIN r = 1..(Len(s) - n)
         /\ \A i \in 1..(Len(s) - n) : r[i] = s[n + i]
BY SubSeqProperties

\* The positions of the queue hold tasks.
LEMMA QueueOfTasks ==
  ASSUME Async!TypeOK
  PROVE  /\ Len(awaiters) \in Nat /\ DOMAIN awaiters = 1..Len(awaiters)
         /\ \A i \in DOMAIN awaiters : awaiters[i] \in Task
  BY QueueType DEF Async!TypeOK

\* A task that unwinds is taken out of the queue if it is there; the others move up.
LEMMA TakenOut ==
  ASSUME Async!TypeOK, NEW i \in DOMAIN awaiters, awaiters' = Async!RemoveAt(awaiters, i)
  PROVE  /\ DOMAIN awaiters' = 1..(Len(awaiters) - 1)
         /\ \A k \in DOMAIN awaiters' : awaiters'[k] = awaiters[IF k < i THEN k ELSE k + 1]
         /\ \A m \in DOMAIN awaiters : m # i => awaiters[m] = awaiters'[IF m < i THEN m ELSE m - 1]
<1> DEFINE n == Len(awaiters)
<1>1. awaiters \in Seq(Task) /\ i \in 1..n /\ n \in Nat /\ DOMAIN awaiters = 1..n
  BY QueueType DEF Async!TypeOK
<1>2. awaiters' = SubSeq(awaiters, 1, i - 1) \o SubSeq(awaiters, i + 1, Len(awaiters))
  BY DEF Async!RemoveAt
<1>3. /\ DOMAIN awaiters' = 1..(n - 1)
      /\ \A k \in 1..(i - 1) : awaiters'[k] = awaiters[k]
      /\ \A k \in 1..(n - i) : awaiters'[(i - 1) + k] = awaiters[i + k]
  BY <1>1, <1>2, WithoutOne, Zenon
<1> HIDE DEF n
<1>4. ASSUME NEW k \in 1..(n - 1), k >= i PROVE awaiters'[k] = awaiters[k + 1]
  <2>1. k - (i - 1) \in 1..(n - i) /\ (i - 1) + (k - (i - 1)) = k /\ i + (k - (i - 1)) = k + 1
    BY <1>1, <1>4
  <2> QED BY <1>3, <2>1
<1>5. ASSUME NEW m \in 1..n, m > i PROVE awaiters[m] = awaiters'[m - 1]
  <2>1. m - 1 \in 1..(n - 1) /\ m - 1 >= i /\ (m - 1) + 1 = m
    BY <1>1, <1>5
  <2> QED BY <1>4, <2>1
<1>6. \A k \in 1..(n - 1) : k < i => k \in 1..(i - 1)
  BY <1>1
<1>7. \A m \in 1..n : m < i => m \in 1..(i - 1)
  BY <1>1
<1>8. \A k \in 1..(n - 1) : awaiters'[k] = awaiters[IF k < i THEN k ELSE k + 1]
  BY <1>1, <1>3, <1>4, <1>6
<1>9. \A m \in 1..n : m # i => awaiters[m] = awaiters'[IF m < i THEN m ELSE m - 1]
  BY <1>1, <1>3, <1>5, <1>7
<1> QED BY <1>1, <1>3, <1>8, <1>9 DEF n

\* A release drops the queue up to the task that it gives the lock.
LEMMA PoppedTo ==
  ASSUME Async!TypeOK, NEW i \in DOMAIN awaiters,
         awaiters' = SubSeq(awaiters, i + 1, Len(awaiters))
  PROVE  /\ DOMAIN awaiters' = 1..(Len(awaiters) - i)
         /\ \A k \in DOMAIN awaiters' : awaiters'[k] = awaiters[i + k]
         /\ \A m \in DOMAIN awaiters : m > i => awaiters[m] = awaiters'[m - i]
<1> DEFINE n == Len(awaiters)
<1>1. awaiters \in Seq(Task) /\ i \in 1..n /\ n \in Nat /\ DOMAIN awaiters = 1..n
  BY QueueType DEF Async!TypeOK
<1>2. /\ DOMAIN awaiters' = 1..(n - i)
      /\ \A k \in 1..(n - i) : awaiters'[k] = awaiters[i + k]
  BY <1>1, WithoutFront, Zenon
<1> HIDE DEF n
<1>3. ASSUME NEW m \in 1..n, m > i PROVE awaiters[m] = awaiters'[m - i]
  <2>1. m - i \in 1..(n - i) /\ i + (m - i) = m
    BY <1>1, <1>3
  <2> QED BY <1>2, <2>1
<1> QED BY <1>1, <1>2, <1>3 DEF n

LEMMA QueueInvStep ==
  ASSUME Async!TypeOK, QueueInv, [Async!Next]_taskVars
  PROVE  QueueInv'
<1> USE DEF QueueInv, Granted, Async!Goto
<1>0. /\ Len(awaiters) \in Nat /\ DOMAIN awaiters = 1..Len(awaiters)
      /\ \A i \in DOMAIN awaiters : awaiters[i] \in Task
  BY QueueOfTasks
<1>1. ASSUME NEW t \in Task, Async!AcquireFast(t) PROVE QueueInv'
  BY <1>0, <1>1 DEF Async!AcquireFast, Async!TypeOK
<1>2. ASSUME NEW t \in Task, Async!AcquireSlow(t) PROVE QueueInv'
  <2>1. /\ awaiters' = Append(awaiters, t) /\ awaiters \in Seq(Task)
        /\ Len(awaiters') = Len(awaiters) + 1
    BY <1>2 DEF Async!AcquireSlow, Async!TypeOK
  <2>2. /\ DOMAIN awaiters' = 1..(Len(awaiters) + 1)
        /\ \A i \in DOMAIN awaiters : awaiters'[i] = awaiters[i]
        /\ awaiters'[Len(awaiters) + 1] = t
    BY <1>0, <2>1, AppendProperties
  <2> QED BY <1>0, <1>2, <2>2 DEF Async!AcquireSlow, Async!TypeOK
<1>3. ASSUME NEW t \in Task, Async!Resume(t) PROVE QueueInv'
  BY <1>0, <1>3 DEF Async!Resume, Async!TypeOK
<1>4. ASSUME NEW t \in Task, Async!CancelPending(t) PROVE QueueInv'
  BY <1>0, <1>4 DEF Async!CancelPending, Async!TypeOK
<1>5. ASSUME NEW t \in Task, Async!CancelGranted(t) PROVE QueueInv'
  BY <1>0, <1>5 DEF Async!CancelGranted, Async!TypeOK
<1>6. ASSUME NEW t \in Task, Async!Unwind(t) PROVE QueueInv'
  <2>1. CASE awaiters' = awaiters /\ \A i \in DOMAIN awaiters : awaiters[i] # t
    BY <1>0, <1>6, <2>1 DEF Async!Unwind, Async!TypeOK
  <2>2. ASSUME NEW i \in DOMAIN awaiters, awaiters[i] = t, awaiters' = Async!RemoveAt(awaiters, i)
        PROVE  QueueInv'
    <3>1. /\ DOMAIN awaiters' = 1..(Len(awaiters) - 1)
          /\ \A k \in DOMAIN awaiters' : awaiters'[k] = awaiters[IF k < i THEN k ELSE k + 1]
          /\ \A m \in DOMAIN awaiters : m # i => awaiters[m] = awaiters'[IF m < i THEN m ELSE m - 1]
      BY <2>2, TakenOut
    <3>2. /\ future' = future /\ doomed' = doomed /\ aheld' = aheld
          /\ apc' = [apc EXCEPT ![t] = "dead"] /\ future[t] # "pending"
          /\ apc[t] = "waiting"
      BY <1>6 DEF Async!Unwind
    <3>3. \A k \in DOMAIN awaiters' : \E m \in DOMAIN awaiters :
             awaiters'[k] = awaiters[m] /\ m = (IF k < i THEN k ELSE k + 1) /\ m # i
      BY <1>0, <3>1
    <3>4. \A k, l \in DOMAIN awaiters' : awaiters'[k] = awaiters'[l] => k = l
      BY <1>0, <3>1, <3>3
    <3>5. \A k \in DOMAIN awaiters' : awaiters'[k] # t
      BY <2>2, <3>3
    <3>6. \A k \in DOMAIN awaiters' :
             apc'[awaiters'[k]] = "waiting" /\ future'[awaiters'[k]] # "result"
      BY <1>0, <3>2, <3>3, <3>5 DEF Async!TypeOK
    <3>7. ASSUME NEW u \in Task, future'[u] = "pending"
          PROVE  apc'[u] = "waiting" /\ \E k \in DOMAIN awaiters' : awaiters'[k] = u
      <4>1. u # t /\ apc'[u] = "waiting"
        BY <3>2, <3>7 DEF Async!TypeOK
      <4>2. PICK m \in DOMAIN awaiters : awaiters[m] = u
        BY <3>2, <3>7
      <4>3. m # i /\ (IF m < i THEN m ELSE m - 1) \in 1..(Len(awaiters) - 1)
        BY <1>0, <2>2, <4>1, <4>2
      <4> QED BY <3>1, <4>1, <4>2, <4>3
    <3>8. aheld' /\ \A u \in Task : (Granted(u))' <=> Granted(u)
      BY <1>0, <3>2 DEF Async!TypeOK
    <3>9. /\ \A u \in Task : apc'[u] = "idle" => future'[u] = "none"
          /\ \A u \in doomed' : future'[u] = "result" /\ apc'[u] \in {"waiting", "dead"}
      BY <3>2 DEF Async!TypeOK
    <3> QED BY <3>2, <3>4, <3>6, <3>7, <3>8, <3>9
  <2> QED BY <1>0, <1>6, <2>1, <2>2 DEF Async!Unwind, Async!Contains
<1>7. ASSUME NEW t \in Task, Async!Release(t) PROVE QueueInv'
  <2>1. CASE Async!Pending = {}
    BY <1>0, <1>7, <2>1 DEF Async!Release, Async!TypeOK, Async!Pending
  <2>2. ASSUME NEW i \in Async!Pending, \A j \in Async!Pending : i <= j, aheld' = TRUE,
               awaiters' = SubSeq(awaiters, i + 1, Len(awaiters)),
               future' = [future EXCEPT ![t] = "none", ![awaiters[i]] = "result"]
        PROVE  QueueInv'
    <3>1. i \in DOMAIN awaiters
      BY DEF Async!Pending
    <3>2. /\ DOMAIN awaiters' = 1..(Len(awaiters) - i)
          /\ \A k \in DOMAIN awaiters' : awaiters'[k] = awaiters[i + k]
          /\ \A m \in DOMAIN awaiters : m > i => awaiters[m] = awaiters'[m - i]
      BY <2>2, <3>1, PoppedTo
    <3>3. \A m \in DOMAIN awaiters : future[awaiters[m]] = "pending" => i <= m
      BY <2>2 DEF Async!Pending
    <3>4. /\ apc' = [apc EXCEPT ![t] = "idle"] /\ doomed' = doomed /\ apc[t] = "critical"
          /\ awaiters[i] \in Task /\ awaiters[i] # t /\ future[awaiters[i]] = "pending"
      BY <1>0, <1>7, <3>1 DEF Async!Release, Async!Pending
    <3>5. /\ future'[t] = "none" /\ future'[awaiters[i]] = "result" /\ apc'[awaiters[i]] = "waiting"
          /\ \A u \in Task \ {t, awaiters[i]} : future'[u] = future[u] /\ apc'[u] = apc[u]
          /\ apc'[t] = "idle"
      BY <2>2, <3>1, <3>4 DEF Async!TypeOK
    <3>6. \A k \in DOMAIN awaiters' : i + k \in DOMAIN awaiters /\ i + k # i
      BY <1>0, <3>1, <3>2
    <3>7. \A k, l \in DOMAIN awaiters' : awaiters'[k] = awaiters'[l] => k = l
      <4>1. \A k, l \in DOMAIN awaiters' : awaiters'[k] = awaiters'[l] => i + k = i + l
        BY <3>2, <3>6
      <4> QED BY <1>0, <3>1, <3>2, <4>1
    <3>8. \A k \in DOMAIN awaiters' : awaiters'[k] \in Task \ {t, awaiters[i]}
      BY <1>0, <3>1, <3>2, <3>4, <3>6
    <3>9. \A k \in DOMAIN awaiters' :
             apc'[awaiters'[k]] = "waiting" /\ future'[awaiters'[k]] # "result"
      <4> TAKE k \in DOMAIN awaiters'
      <4>1. /\ awaiters'[k] = awaiters[i + k] /\ i + k \in DOMAIN awaiters
            /\ awaiters'[k] \in Task \ {t, awaiters[i]}
        BY <3>2, <3>6, <3>8
      <4>2. apc[awaiters[i + k]] = "waiting" /\ future[awaiters[i + k]] # "result"
        BY <4>1
      <4> QED BY <3>5, <4>1, <4>2
    <3>10. ASSUME NEW u \in Task, future'[u] = "pending"
           PROVE  apc'[u] = "waiting" /\ \E k \in DOMAIN awaiters' : awaiters'[k] = u
      <4>1. u \notin {t, awaiters[i]} /\ future[u] = "pending" /\ apc'[u] = "waiting"
        BY <3>5, <3>10
      <4>2. PICK m \in DOMAIN awaiters : awaiters[m] = u
        BY <4>1
      <4>3. m > i
        BY <1>0, <3>1, <3>3, <4>1, <4>2
      <4>4. m - i \in DOMAIN awaiters'
        BY <1>0, <3>1, <3>2, <4>3
      <4> QED BY <3>2, <4>1, <4>2, <4>3, <4>4
    <3>11. \A u \in Task : (Granted(u))' <=> u = awaiters[i]
      <4>1. \A u \in Task : Granted(u) => u = t
        BY <3>4
      <4> QED BY <3>4, <3>5, <4>1
    <3>12. /\ \A u \in Task : apc'[u] = "idle" => future'[u] = "none"
           /\ \A u \in doomed' : future'[u] = "result" /\ apc'[u] \in {"waiting", "dead"}
      BY <3>4, <3>5 DEF Async!TypeOK
    <3>13. \A u, v \in Task : (Granted(u))' /\ (Granted(v))' => u = v
      BY <3>11
    <3>14. aheld' /\ \E u \in Task : (Granted(u))'
      BY <2>2, <3>4, <3>5
    <3> QED BY <3>7, <3>9, <3>10, <3>12, <3>13, <3>14
  <2> QED BY <1>7, <2>1, <2>2 DEF Async!Release
<1>8. CASE UNCHANGED taskVars
  BY <1>8 DEF taskVars
<1> QED BY <1>1, <1>2, <1>3, <1>4, <1>5, <1>6, <1>7, <1>8 DEF Async!Next

\* The holder of the abstract lock is the task that the lock was given to.
LEMMA HolderIs ==
  /\ \A t \in Task : Granted(t) /\ (\A u \in Task : Granted(u) => u = t) => Async!Holder = t
  /\ (\A u \in Task : ~Granted(u)) => Async!Holder = NoTask
BY Zenon DEF Async!Holder, Granted

LEMMA HolderFacts ==
  ASSUME QueueInv
  PROVE  /\ \A t \in Task : Granted(t) => Async!Holder = t
         /\ ~aheld => Async!Holder = NoTask
         /\ \A t \in Task : Async!Holder = t /\ NoTask \notin Task => Granted(t)
BY HolderIs DEF QueueInv

\* A pair of the abstract queue is a pair of pending positions.
LEMMA PairIn ==
  \A u, v : <<u, v>> \in Async!Queue <=>
    /\ u \in Task /\ v \in Task
    /\ \E i, j \in Async!Pending : i <= j /\ awaiters[i] = u /\ awaiters[j] = v
BY DEF Async!Queue

LEMMA PairAfter ==
  \A u, v : <<u, v>> \in Async!Queue' <=>
    /\ u \in Task /\ v \in Task
    /\ \E i, j \in Async!Pending' : i <= j /\ awaiters'[i] = u /\ awaiters'[j] = v
BY DEF Async!Queue

\* The abstract queue is known by its pairs of tasks.
LEMMA QueueBecomes ==
  ASSUME NEW Q \in SUBSET (Task \X Task),
         \A u, v \in Task : <<u, v>> \in Async!Queue' <=> <<u, v>> \in Q
  PROVE  Async!Queue' = Q
<1>1. Async!Queue' \subseteq Task \X Task
  BY DEF Async!Queue
<1> QED BY <1>1

LEMMA QueueInPairs == Async!Queue \in SUBSET (Task \X Task)
BY DEF Async!Queue

\* Who waits, in the abstract lock: the tasks whose future is pending.
LEMMA WaitingPend ==
  ASSUME Async!TypeOK, QueueInv
  PROVE  /\ Async!Fair!Waiting = {t \in Task : future[t] = "pending"}
         /\ \A t \in Task : future[t] = "pending" => \E i \in Async!Pending : awaiters[i] = t
<1>1. ASSUME NEW t \in Task, future[t] = "pending"
      PROVE  (\E i \in Async!Pending : awaiters[i] = t) /\ <<t, t>> \in Async!Queue
  <2>1. PICK i \in DOMAIN awaiters : awaiters[i] = t
    BY <1>1 DEF QueueInv
  <2>2. i \in Async!Pending /\ i <= i
    BY <1>1, <2>1, QueueOfTasks DEF Async!Pending
  <2> QED BY <2>1, <2>2, PairIn
<1>2. ASSUME NEW t \in Task, <<t, t>> \in Async!Queue PROVE future[t] = "pending"
  BY <1>2, PairIn DEF Async!Pending
<1> QED BY <1>1, <1>2 DEF Async!Fair!Waiting

\* A task that finds the lock free enters, and one that finds it held joins the queue.
LEMMA EnterRefines ==
  ASSUME Async!TypeOK, QueueInv, QueueInv', NoTask \notin Task,
         NEW t \in Task, Async!AcquireFast(t)
  PROVE  Async!Fair!Enter(t)
<1>1. Async!Holder = NoTask /\ awaiters = <<>>
  BY HolderFacts DEF Async!AcquireFast, QueueInv
<1>2. Async!Queue = {} /\ Async!Queue' = Async!Queue
  <2>1. Async!Pending = {} /\ Async!Pending' = {}
    BY <1>1 DEF Async!Pending, Async!AcquireFast
  <2> QED BY <2>1 DEF Async!Queue
<1>3. Async!Holder' = t
  <2>1. (Granted(t))' /\ \A u \in Task : (Granted(u))' => u = t
    BY DEF Async!AcquireFast, Async!Goto, Async!TypeOK, QueueInv, Granted
  <2> QED BY <2>1, Zenon DEF Async!Holder, Granted
<1> QED BY <1>1, <1>2, <1>3 DEF Async!Fair!Enter

LEMMA JoinRefines ==
  ASSUME Async!TypeOK, QueueInv, QueueInv', NoTask \notin Task,
         NEW t \in Task, Async!AcquireSlow(t)
  PROVE  Async!Fair!Join(t)
<1> DEFINE n == Len(awaiters)
<1>0. /\ n \in Nat /\ DOMAIN awaiters = 1..n
      /\ \A i \in DOMAIN awaiters : awaiters[i] \in Task
  BY QueueOfTasks
<1>1. future[t] = "none" /\ aheld
  BY DEF QueueInv, Async!AcquireSlow
<1>2. PICK h \in Task : Granted(h)
  BY <1>1 DEF QueueInv
<1>3. Async!Holder = h /\ h # t /\ h # NoTask
  BY <1>2, HolderFacts DEF Granted, Async!AcquireSlow, QueueInv
<1>4. Async!Holder' = Async!Holder
  <2>1. \A u \in Task : (Granted(u))' <=> Granted(u)
    BY DEF Granted, Async!AcquireSlow, Async!Goto, Async!TypeOK, QueueInv
  <2>2. (Granted(h))' /\ \A u \in Task : (Granted(u))' => u = h
    BY <1>2, <2>1 DEF QueueInv
  <2>3. Async!Holder' = h
    BY <2>2, Zenon DEF Async!Holder, Granted
  <2> QED BY <1>3, <2>3
<1>5. t \notin Async!Fair!Waiting
  BY <1>1, WaitingPend
<1>6. /\ DOMAIN awaiters' = 1..(n + 1)
      /\ \A i \in 1..n : awaiters'[i] = awaiters[i]
      /\ awaiters'[n + 1] = t
  <2>1. awaiters' = Append(awaiters, t) /\ awaiters \in Seq(Task)
    BY DEF Async!AcquireSlow, Async!TypeOK
  <2> QED BY <1>0, <2>1, AppendProperties
<1> HIDE DEF n
<1>7. Async!Pending' = Async!Pending \union {n + 1} /\ Async!Pending \subseteq 1..n
  <2>1. future' = [future EXCEPT ![t] = "pending"] /\ future \in [Task -> {"none", "pending", "result", "cancelled"}]
    BY DEF Async!AcquireSlow, Async!TypeOK
  <2>2. \A i \in 1..n : awaiters[i] # t
    BY <1>0 DEF QueueInv, Async!AcquireSlow
  <2>3. Async!Pending = {i \in 1..n : future[awaiters[i]] = "pending"}
    BY <1>0 DEF Async!Pending
  <2>4. Async!Pending' = {i \in 1..(n + 1) : future'[awaiters'[i]] = "pending"}
    BY <1>6 DEF Async!Pending
  <2>5. future'[awaiters'[n + 1]] = "pending"
    BY <1>6, <2>1
  <2>6. \A i \in 1..n : future'[awaiters'[i]] = future[awaiters[i]]
    BY <1>0, <1>6, <2>1, <2>2
  <2> QED BY <1>0, <2>3, <2>4, <2>5, <2>6
<1>8. Async!Queue' = Async!Queue \union ((Async!Fair!Waiting \union {t}) \X {t})
  <2> DEFINE Q == Async!Queue \union ((Async!Fair!Waiting \union {t}) \X {t})
  <2>1. Q \in SUBSET (Task \X Task)
    BY QueueInPairs, WaitingPend
  <2>2. ASSUME NEW u \in Task, NEW v \in Task, <<u, v>> \in Async!Queue'
        PROVE  <<u, v>> \in Q
    <3>1. PICK i, j \in Async!Pending' : i <= j /\ awaiters'[i] = u /\ awaiters'[j] = v
      BY <2>2, PairAfter
    <3>2. CASE j \in Async!Pending
      <4>1. i \in Async!Pending
        BY <1>0, <1>7, <3>1, <3>2
      <4>2. awaiters[i] = u /\ awaiters[j] = v
        BY <1>6, <1>7, <3>1, <3>2, <4>1
      <4> QED BY <3>1, <3>2, <4>1, <4>2, PairIn
    <3>3. CASE j = n + 1
      <4>1. v = t
        BY <1>6, <3>1, <3>3
      <4>2. i \in Async!Pending => u \in Async!Fair!Waiting
        BY <1>6, <1>7, <3>1, WaitingPend DEF Async!Pending
      <4>3. i = n + 1 => u = t
        BY <1>6, <3>1
      <4> QED BY <1>7, <4>1, <4>2, <4>3
    <3> QED BY <1>7, <3>2, <3>3
  <2>3. ASSUME NEW u \in Task, NEW v \in Task, <<u, v>> \in Q
        PROVE  <<u, v>> \in Async!Queue'
    <3>1. CASE <<u, v>> \in Async!Queue
      <4>1. PICK i, j \in Async!Pending : i <= j /\ awaiters[i] = u /\ awaiters[j] = v
        BY <3>1, PairIn
      <4>2. i \in Async!Pending' /\ j \in Async!Pending' /\ awaiters'[i] = u /\ awaiters'[j] = v
        BY <1>6, <1>7, <4>1
      <4> QED BY <4>1, <4>2, PairAfter
    <3>2. CASE u \in Async!Fair!Waiting /\ v = t
      <4>1. PICK i \in Async!Pending : awaiters[i] = u
        BY <3>2, WaitingPend
      <4>2. i \in Async!Pending' /\ n + 1 \in Async!Pending' /\ i <= n + 1 /\ awaiters'[i] = u
        BY <1>0, <1>6, <1>7, <4>1
      <4> QED BY <1>6, <3>2, <4>2, PairAfter
    <3>3. CASE u = t /\ v = t
      <4>1. n + 1 \in Async!Pending' /\ n + 1 <= n + 1
        BY <1>0, <1>7
      <4> QED BY <1>6, <3>3, <4>1, PairAfter
    <3> QED BY <2>3, <3>1, <3>2, <3>3
  <2> HIDE DEF Q
  <2>4. Async!Queue' = Q
    BY <2>1, <2>2, <2>3, QueueBecomes
  <2> QED BY <2>4 DEF Q
<1> QED BY <1>3, <1>4, <1>5, <1>8 DEF Async!Fair!Join

\* While the same tasks are granted the lock, its holder stays.
LEMMA HolderStays ==
  ASSUME QueueInv, \A u \in Task : (Granted(u))' <=> Granted(u)
  PROVE  Async!Holder' = Async!Holder
<1>1. CASE \E h \in Task : Granted(h)
  <2>1. PICK h \in Task : Granted(h)
    BY <1>1
  <2>2. (Granted(h))' /\ \A u \in Task : (Granted(u))' => u = h
    BY <2>1 DEF QueueInv
  <2>3. Async!Holder' = h
    BY <2>2, Zenon DEF Async!Holder, Granted
  <2> QED BY <2>1, <2>3, HolderFacts
<1>2. CASE \A u \in Task : ~Granted(u)
  <2>1. Async!Holder = NoTask
    BY <1>2, HolderIs
  <2>2. \A u \in Task : ~(Granted(u))'
    BY <1>2
  <2>3. Async!Holder' = NoTask
    BY <2>2, Zenon DEF Async!Holder, Granted
  <2> QED BY <2>1, <2>3
<1> QED BY <1>1, <1>2

\* A cancelled waiter is out of the queue before it runs.
LEMMA GiveUpRefines ==
  ASSUME Async!TypeOK, QueueInv, QueueInv', NEW t \in Task, Async!CancelPending(t)
  PROVE  Async!Fair!GiveUp(t)
<1>1. t \in Async!Fair!Waiting
  BY WaitingPend DEF Async!CancelPending
<1>2. Async!Holder' = Async!Holder
  <2>1. \A u \in Task : (Granted(u))' <=> Granted(u)
    BY DEF Granted, Async!CancelPending, Async!TypeOK
  <2> QED BY <2>1, HolderStays
<1>3. /\ Async!Pending' \subseteq Async!Pending /\ awaiters' = awaiters
      /\ \A i \in Async!Pending : i \in Async!Pending' <=> awaiters[i] # t
  BY QueueOfTasks DEF Async!CancelPending, Async!Pending, Async!TypeOK
<1>4. \A i \in Async!Pending' : awaiters[i] # t
  BY <1>3
<1>5. Async!Queue' = Async!Fair!Without(t)
  <2>1. Async!Fair!Without(t) \in SUBSET (Task \X Task)
    BY QueueInPairs DEF Async!Fair!Without
  <2>2. ASSUME NEW u \in Task, NEW v \in Task, <<u, v>> \in Async!Queue'
        PROVE  <<u, v>> \in Async!Fair!Without(t)
    <3>1. PICK i, j \in Async!Pending' : i <= j /\ awaiters[i] = u /\ awaiters[j] = v
      BY <1>3, <2>2, PairAfter
    <3>2. u # t /\ v # t /\ <<u, v>> \in Async!Queue
      BY <1>3, <1>4, <3>1, PairIn
    <3> QED BY <3>2 DEF Async!Fair!Without
  <2>3. ASSUME NEW u \in Task, NEW v \in Task, <<u, v>> \in Async!Fair!Without(t)
        PROVE  <<u, v>> \in Async!Queue'
    <3>1. <<u, v>> \in Async!Queue /\ u # t /\ v # t
      BY <2>3 DEF Async!Fair!Without
    <3>2. PICK i, j \in Async!Pending : i <= j /\ awaiters[i] = u /\ awaiters[j] = v
      BY <3>1, PairIn
    <3>3. i \in Async!Pending' /\ j \in Async!Pending'
      BY <1>3, <3>1, <3>2
    <3> QED BY <1>3, <3>2, <3>3, PairAfter
  <2> QED BY <2>1, <2>2, <2>3, QueueBecomes
<1> QED BY <1>1, <1>2, <1>5 DEF Async!Fair!GiveUp

\* A task that unwinds has left the abstract queue before, or never frees the lock.
LEMMA UnwindStutters ==
  ASSUME Async!TypeOK, QueueInv, QueueInv', NEW t \in Task, Async!Unwind(t)
  PROVE  Async!Holder' = Async!Holder /\ Async!Queue' = Async!Queue
<1>0. /\ Len(awaiters) \in Nat /\ DOMAIN awaiters = 1..Len(awaiters)
      /\ \A i \in DOMAIN awaiters : awaiters[i] \in Task
  BY QueueOfTasks
<1>1. future' = future /\ apc' = [apc EXCEPT ![t] = "dead"] /\ apc[t] = "waiting"
      /\ future[t] # "pending"
  BY DEF Async!Unwind, Async!Goto, QueueInv
<1>2. Async!Holder' = Async!Holder
  <2>1. \A u \in Task : (Granted(u))' <=> Granted(u)
    BY <1>1 DEF Granted, Async!TypeOK
  <2> QED BY <2>1, HolderStays
<1>3. CASE awaiters' = awaiters
  <2>1. Async!Pending' = Async!Pending
    BY <1>1, <1>3 DEF Async!Pending
  <2> QED BY <1>2, <1>3, <2>1 DEF Async!Queue
<1>4. ASSUME NEW n \in DOMAIN awaiters, awaiters[n] = t, awaiters' = Async!RemoveAt(awaiters, n)
      PROVE  Async!Queue' = Async!Queue
  <2> DEFINE from(k) == IF k < n THEN k ELSE k + 1
             to(m) == IF m < n THEN m ELSE m - 1
  <2>1. /\ DOMAIN awaiters' = 1..(Len(awaiters) - 1)
        /\ \A k \in DOMAIN awaiters' : awaiters'[k] = awaiters[from(k)]
        /\ \A m \in DOMAIN awaiters : m # n => awaiters[m] = awaiters'[to(m)]
    BY <1>4, TakenOut
  <2>2. /\ \A k \in DOMAIN awaiters' : from(k) \in DOMAIN awaiters
        /\ \A m \in DOMAIN awaiters : m # n => to(m) \in DOMAIN awaiters'
        /\ \A k, l \in DOMAIN awaiters' : k <= l => from(k) <= from(l)
        /\ \A k, l \in DOMAIN awaiters : k # n /\ l # n /\ k <= l => to(k) <= to(l)
    BY <1>0, <2>1
  <2>3. /\ Async!Pending = {i \in DOMAIN awaiters : future[awaiters[i]] = "pending"}
        /\ Async!Pending' = {i \in DOMAIN awaiters' : future[awaiters'[i]] = "pending"}
    BY <1>1 DEF Async!Pending
  <2>4. n \notin Async!Pending
    BY <1>1, <1>4 DEF Async!Pending
  <2> HIDE DEF from, to
  <2>5. \A k \in Async!Pending' : from(k) \in Async!Pending /\ awaiters'[k] = awaiters[from(k)]
    BY <2>1, <2>2, <2>3
  <2>6. \A m \in Async!Pending : to(m) \in Async!Pending' /\ awaiters[m] = awaiters'[to(m)]
    <3> TAKE m \in Async!Pending
    <3>1. m \in DOMAIN awaiters /\ m # n /\ future[awaiters[m]] = "pending"
      BY <2>3, <2>4
    <3>2. to(m) \in DOMAIN awaiters' /\ awaiters[m] = awaiters'[to(m)]
      BY <2>1, <2>2, <3>1
    <3> QED BY <2>3, <3>1, <3>2
  <2>7. ASSUME NEW u \in Task, NEW v \in Task, <<u, v>> \in Async!Queue'
        PROVE  <<u, v>> \in Async!Queue
    <3>1. PICK i, j \in Async!Pending' : i <= j /\ awaiters'[i] = u /\ awaiters'[j] = v
      BY <2>7, PairAfter
    <3>2. /\ from(i) \in Async!Pending /\ from(j) \in Async!Pending
          /\ awaiters[from(i)] = u /\ awaiters[from(j)] = v
      BY <2>5, <3>1
    <3>3. from(i) <= from(j)
      BY <2>2, <2>3, <3>1
    <3> QED BY <3>2, <3>3, PairIn
  <2>8. ASSUME NEW u \in Task, NEW v \in Task, <<u, v>> \in Async!Queue
        PROVE  <<u, v>> \in Async!Queue'
    <3>1. PICK i, j \in Async!Pending : i <= j /\ awaiters[i] = u /\ awaiters[j] = v
      BY <2>8, PairIn
    <3>2. /\ to(i) \in Async!Pending' /\ to(j) \in Async!Pending'
          /\ awaiters'[to(i)] = u /\ awaiters'[to(j)] = v
      BY <2>6, <3>1
    <3>3. to(i) <= to(j)
      BY <2>2, <2>3, <2>4, <3>1
    <3> QED BY <3>2, <3>3, PairAfter
  <2> QED BY <2>7, <2>8, QueueInPairs, QueueBecomes
<1> QED BY <1>2, <1>3, <1>4 DEF Async!Unwind

\* A release hands the lock to the task at the front of the abstract queue, or frees it.
LEMMA LeaveRefines ==
  ASSUME Async!TypeOK, QueueInv, QueueInv', NoTask \notin Task,
         NEW t \in Task, Async!Release(t)
  PROVE  Async!Fair!Leave(t)
<1>0. /\ Len(awaiters) \in Nat /\ DOMAIN awaiters = 1..Len(awaiters)
      /\ \A i \in DOMAIN awaiters : awaiters[i] \in Task
  BY QueueOfTasks
<1>1. Granted(t) /\ Async!Holder = t
  BY HolderFacts DEF Granted, Async!Release
<1>2. CASE Async!Pending = {}
  <2>1. aheld' = FALSE /\ awaiters' = <<>>
    BY <1>2 DEF Async!Release
  <2>2. \A u \in Task : ~(Granted(u))'
    BY <2>1 DEF QueueInv
  <2>3. Async!Holder' = NoTask
    BY <2>2, Zenon DEF Async!Holder, Granted
  <2>4. Async!Queue = {} /\ Async!Queue' = {}
    <3>1. Async!Pending' = {}
      BY <2>1 DEF Async!Pending
    <3> QED BY <1>2, <3>1 DEF Async!Queue
  <2> QED BY <1>1, <2>3, <2>4 DEF Async!Fair!Leave
<1>3. ASSUME NEW n \in Async!Pending, \A j \in Async!Pending : n <= j,
             awaiters' = SubSeq(awaiters, n + 1, Len(awaiters)),
             future' = [future EXCEPT ![t] = "none", ![awaiters[n]] = "result"]
      PROVE  Async!Fair!Leave(t)
  <2>0. PICK first \in Task : first = awaiters[n]
    BY <1>0, <1>3 DEF Async!Pending
  <2>1. /\ n \in DOMAIN awaiters /\ first \in Task /\ first # t
        /\ future[first] = "pending" /\ apc[t] = "critical"
    BY <1>0, <1>3, <2>0 DEF Async!Pending, Async!Release, QueueInv
  <2>2. /\ DOMAIN awaiters' = 1..(Len(awaiters) - n)
        /\ \A k \in DOMAIN awaiters' : awaiters'[k] = awaiters[n + k]
        /\ \A m \in DOMAIN awaiters : m > n => awaiters[m] = awaiters'[m - n]
    BY <1>3, <2>1, PoppedTo
  <2>3. \A m \in Async!Pending : m # n => awaiters[m] # first
    BY <2>0, <2>1 DEF QueueInv, Async!Pending
  <2>4. \A i \in DOMAIN awaiters : awaiters[i] # t
    BY <2>1 DEF QueueInv
  <2>5. \A u \in Task \ {t, first} : future'[u] = future[u]
    BY <1>3, <2>0, <2>1 DEF Async!TypeOK
  <2>6. \A k \in DOMAIN awaiters' : n + k \in DOMAIN awaiters /\ n + k # n
    BY <1>0, <2>1, <2>2
  <2>7. \A m \in DOMAIN awaiters : m # n => awaiters[m] # first
    BY <2>0, <2>1 DEF QueueInv
  <2>8. \A k \in DOMAIN awaiters' : k \in Async!Pending' <=> n + k \in Async!Pending
    <3> TAKE k \in DOMAIN awaiters'
    <3>1. n + k \in DOMAIN awaiters /\ awaiters'[k] = awaiters[n + k]
          /\ awaiters[n + k] \in Task \ {t, first}
      BY <1>0, <2>2, <2>4, <2>6, <2>7
    <3>2. future'[awaiters'[k]] = future[awaiters[n + k]]
      BY <2>5, <3>1
    <3> QED BY <3>1, <3>2 DEF Async!Pending
  <2>9. \A m \in Async!Pending : m # n =>
          m > n /\ m - n \in DOMAIN awaiters' /\ m - n \in Async!Pending'
          /\ awaiters'[m - n] = awaiters[m]
    <3> SUFFICES ASSUME NEW m \in Async!Pending, m # n
                 PROVE  m > n /\ m - n \in DOMAIN awaiters' /\ m - n \in Async!Pending'
                        /\ awaiters'[m - n] = awaiters[m]
      OBVIOUS
    <3>1. m \in DOMAIN awaiters /\ n <= m
      BY <1>3 DEF Async!Pending
    <3>2. m > n /\ m - n \in DOMAIN awaiters' /\ n + (m - n) = m
      BY <1>0, <2>1, <2>2, <3>1
    <3> QED BY <2>2, <2>8, <3>1, <3>2
  <2>10. Async!Holder' = first
    <3>1. (Granted(first))'
      BY <1>3, <2>0, <2>1 DEF Granted, Async!TypeOK
    <3>2. \A u \in Task : (Granted(u))' => u = first
      BY <2>1, <3>1 DEF QueueInv
    <3> QED BY <2>1, <3>1, <3>2, Zenon DEF Async!Holder, Granted
  <2>11. first \in Async!Fair!Waiting /\ \A d \in Async!Fair!Waiting : <<first, d>> \in Async!Queue
    <3>1. first \in Async!Fair!Waiting
      BY <2>1, WaitingPend
    <3>2. ASSUME NEW d \in Async!Fair!Waiting PROVE <<first, d>> \in Async!Queue
      <4>1. d \in Task /\ future[d] = "pending"
        BY <3>2, WaitingPend
      <4>2. PICK j \in Async!Pending : awaiters[j] = d
        BY <4>1, WaitingPend
      <4>3. n <= j /\ awaiters[n] = first
        BY <1>3, <2>0
      <4> QED BY <2>1, <4>1, <4>2, <4>3, PairIn
    <3> QED BY <3>1, <3>2
  <2>12. Async!Queue' = Async!Fair!Without(first)
    <3>1. Async!Fair!Without(first) \in SUBSET (Task \X Task)
      BY QueueInPairs DEF Async!Fair!Without
    <3>2. ASSUME NEW u \in Task, NEW v \in Task, <<u, v>> \in Async!Queue'
          PROVE  <<u, v>> \in Async!Fair!Without(first)
      <4>1. PICK i, j \in Async!Pending' : i <= j /\ awaiters'[i] = u /\ awaiters'[j] = v
        BY <3>2, PairAfter
      <4>2. i \in DOMAIN awaiters' /\ j \in DOMAIN awaiters'
        BY <4>1 DEF Async!Pending
      <4>3. /\ n + i \in Async!Pending /\ n + j \in Async!Pending
            /\ awaiters[n + i] = u /\ awaiters[n + j] = v
        BY <2>2, <2>8, <4>1, <4>2
      <4>4. n + i <= n + j /\ u # first /\ v # first
        BY <1>0, <2>1, <2>2, <2>3, <2>6, <4>1, <4>2, <4>3
      <4>5. <<u, v>> \in Async!Queue
        BY <4>3, <4>4, PairIn
      <4> QED BY <4>4, <4>5 DEF Async!Fair!Without
    <3>3. ASSUME NEW u \in Task, NEW v \in Task, <<u, v>> \in Async!Fair!Without(first)
          PROVE  <<u, v>> \in Async!Queue'
      <4>1. <<u, v>> \in Async!Queue /\ u # first /\ v # first
        BY <3>3 DEF Async!Fair!Without
      <4>2. PICK i, j \in Async!Pending : i <= j /\ awaiters[i] = u /\ awaiters[j] = v
        BY <4>1, PairIn
      <4>3. i # n /\ j # n
        BY <2>0, <4>1, <4>2
      <4>4. /\ i - n \in Async!Pending' /\ awaiters'[i - n] = u
            /\ j - n \in Async!Pending' /\ awaiters'[j - n] = v
        BY <2>9, <4>2, <4>3
      <4>5. i \in DOMAIN awaiters /\ j \in DOMAIN awaiters
        BY DEF Async!Pending
      <4>6. i - n <= j - n
        BY <1>0, <2>1, <4>2, <4>5
      <4> QED BY <4>4, <4>6, PairAfter
    <3> QED BY <3>1, <3>2, <3>3, QueueBecomes
  <2> QED BY <1>1, <2>10, <2>11, <2>12 DEF Async!Fair!Leave
<1> QED BY <1>2, <1>3 DEF Async!Release

\* Every step of the tasks is a step of the fair lock or does not show there.
LEMMA FairStep ==
  ASSUME Async!TypeOK, QueueInv, QueueInv', NoTask \notin Task, [Async!Next]_taskVars
  PROVE  [Async!Fair!Next]_(Async!Fair!vars)
<1>1. ASSUME NEW t \in Task, Async!Resume(t) \/ Async!CancelGranted(t)
      PROVE  UNCHANGED Async!Fair!vars
  <2>1. awaiters' = awaiters /\ future' = future
    BY <1>1 DEF Async!Resume, Async!CancelGranted
  <2>2. Async!Queue' = Async!Queue
    BY <2>1 DEF Async!Queue, Async!Pending
  <2>3. \A u \in Task : (Granted(u))' <=> Granted(u)
    BY <1>1 DEF Granted, Async!Resume, Async!CancelGranted, Async!Goto, Async!TypeOK
  <2> QED BY <2>2, <2>3, HolderStays DEF Async!Fair!vars
<1>2. CASE UNCHANGED taskVars
  <2>1. awaiters' = awaiters /\ future' = future /\ apc' = apc
    BY <1>2 DEF taskVars
  <2> QED BY <2>1 DEF Async!Fair!vars, Async!Queue, Async!Pending, Async!Holder
<1>3. ASSUME NEW t \in Task, Async!Unwind(t) PROVE UNCHANGED Async!Fair!vars
  BY <1>3, UnwindStutters DEF Async!Fair!vars
<1> QED BY <1>1, <1>2, <1>3, EnterRefines, JoinRefines, GiveUpRefines, LeaveRefines
        DEF Async!Next, Async!Fair!Next
-------------------------------------------------------------------------------
(* The locking protocol of ResourceLocks.  The inductive invariant says what *)
(* each phase of a call has locked, that the locks agree with it, and that   *)
(* nobody oversleeps.                                                        *)

\* What a phase implies about the acquired list and the attempts left.
PhaseOK ==
  \A c \in Call :
    /\ pc[c] = "retry" => attempt[c] < RetryCount /\ Len(Decls[c]) > 0
    /\ pc[c] = "idle" => attempt[c] = 0
    /\ pc[c] \in {"idle", "done", "failed"} => got[c] = 0
    /\ pc[c] = "running" => got[c] = Len(Decls[c])

\* The invariant that line 63 of resource_lock.py states.
WriterAlone == \A k \in Key : writer[k] # NoCall => readers[k] = 0

\* Declarations have a key and a mode, and calls list them in order.
LEMMA DeclsType ==
  ASSUME NEW c \in Call
  PROVE  /\ Len(Decls[c]) \in Nat
         /\ \A i \in 1..Len(Decls[c]) :
              /\ Decls[c][i] \in Declaration
              /\ Decls[c][i].key \in Key
              /\ Decls[c][i].mode \in Mode
              /\ Decls[c][i] = [key |-> Decls[c][i].key, mode |-> Decls[c][i].mode]
         /\ \A i, j \in 1..Len(Decls[c]) :
              i < j => Decls[c][i].key <= Decls[c][j].key /\ Decls[c][i] # Decls[c][j]
<1>1. Decls[c] \in Seq(Declaration)
  BY DeclsAssumption
<1>2. \A i \in 1..Len(Decls[c]) : Decls[c][i] \in Declaration
  BY <1>1
<1> QED BY <1>1, <1>2, DeclsAssumption DEF Declaration

\* What an acquiring call asks for is one of its declarations.
LEMMA WantedType ==
  ASSUME TypeOK, NEW c \in Call, pc[c] \in {"acquiring", "sleeping"}
  PROVE  /\ got[c] \in Nat
         /\ got[c] + 1 \in 1..Len(Decls[c])
         /\ Wanted(c).key \in Key
         /\ Wanted(c).mode \in {"READ", "WRITE"}
         /\ Wanted(c) = [key |-> Wanted(c).key, mode |-> Wanted(c).mode]
<1>1. got[c] \in Nat /\ got[c] < Len(Decls[c])
  BY DEF TypeOK
<1>2. got[c] + 1 \in 1..Len(Decls[c])
  BY <1>1, DeclsType
<1> QED BY <1>1, <1>2, DeclsType DEF Wanted, Mode

\* A grant takes one lock, as a reader or as the writer.
LEMMA GrantEffect ==
  ASSUME NEW c \in Call, Grant(c), Wanted(c).mode \in {"READ", "WRITE"}
  PROVE  \/ /\ Wanted(c).mode = "READ"
            /\ readers' = [readers EXCEPT ![Wanted(c).key] = @ + 1]
            /\ writer' = writer
         \/ /\ Wanted(c).mode = "WRITE"
            /\ writer' = [writer EXCEPT ![Wanted(c).key] = c]
            /\ readers' = readers
BY DEF Grant

\* What popping a declaration does to its lock, errors swallowed.
LEMMA ReleaseEffect ==
  ASSUME NEW c \in Call, ReleaseOne(c), NEW d, d = Decls[c][got[c]],
         d.mode \in {"READ", "WRITE"}
  PROVE  \/ /\ d.mode = "READ"
            /\ readers' = [readers EXCEPT
                              ![d.key] = IF @ > 0 THEN @ - 1 ELSE @]
            /\ writer' = writer
            /\ IF readers[d.key] = 1 THEN Wake(Sleepers(d.key)) ELSE pc' = pc
         \/ /\ d.mode = "WRITE"
            /\ writer' = [writer EXCEPT ![d.key] = IF @ = c THEN NoCall ELSE @]
            /\ readers' = readers
            /\ IF writer[d.key] = c THEN Wake(Sleepers(d.key)) ELSE pc' = pc
BY DEF ReleaseOne

\* The types and the phases are preserved together.
LEMMA TypeStep ==
  ASSUME TypeOK, PhaseOK, [Next]_lockVars
  PROVE  TypeOK' /\ PhaseOK'
<1> USE CallAssumption, RetryAssumption DEF TypeOK, PhaseOK, Step, Goto
<1>1. ASSUME NEW c \in Call, Begin(c) PROVE TypeOK' /\ PhaseOK'
  <2>1. Decls[c] # <<>> => Len(Decls[c]) > 0
    BY DeclsAssumption
  <2>2. Decls[c] = <<>> => Len(Decls[c]) = 0
    OBVIOUS
  <2> QED BY <1>1, <2>1, <2>2 DEF Begin, AfterFailure
<1>2. ASSUME NEW c \in Call, StartAttempt(c) PROVE TypeOK' /\ PhaseOK'
  BY <1>2, DeclsType DEF StartAttempt
<1>3. ASSUME NEW c \in Call, Grant(c) PROVE TypeOK' /\ PhaseOK'
  <2>1. /\ got[c] + 1 \in 1..Len(Decls[c]) /\ Len(Decls[c]) \in Nat
        /\ Wanted(c).key \in Key /\ Wanted(c).mode \in {"READ", "WRITE"}
    BY <1>3, WantedType, DeclsType DEF Grant
  <2>2. readers' \in [Key -> Nat] /\ writer' \in [Key -> Call \union {NoCall}]
    <3>1. CASE /\ readers' = [readers EXCEPT ![Wanted(c).key] = @ + 1]
               /\ writer' = writer
      BY <2>1, <3>1
    <3>2. CASE /\ writer' = [writer EXCEPT ![Wanted(c).key] = c]
               /\ readers' = readers
      BY <2>1, <3>2
    <3> QED BY <1>3, <2>1, <3>1, <3>2, GrantEffect
  <2>3. got' \in [Call -> Nat] /\ pc' \in [Call -> Step] /\ attempt' = attempt
    BY <1>3, <2>1 DEF Grant
  <2> QED BY <1>3, <2>1, <2>2, <2>3 DEF Grant
<1>4. ASSUME NEW c \in Call, Sleep(c) PROVE TypeOK' /\ PhaseOK'
  BY <1>4 DEF Sleep
<1>5. ASSUME NEW c \in Call, LockTimeout(c) PROVE TypeOK' /\ PhaseOK'
  <2>1. Len(Decls[c]) > 0 /\ Len(Decls[c]) \in Nat
    BY <1>5, WantedType, DeclsType DEF LockTimeout
  <2> QED BY <1>5, <2>1 DEF LockTimeout, AfterFailure
<1>6. ASSUME NEW c \in Call, Finish(c) PROVE TypeOK' /\ PhaseOK'
  BY <1>6 DEF Finish
<1>7. ASSUME NEW c \in Call, Leave(c) PROVE TypeOK' /\ PhaseOK'
  BY <1>7 DEF Leave
<1>8. ASSUME NEW c \in Call, ReleaseOne(c) PROVE TypeOK' /\ PhaseOK'
  <2>1. got[c] \in 1..Len(Decls[c]) /\ Len(Decls[c]) \in Nat
    BY <1>8, DeclsType DEF ReleaseOne
  <2>2. /\ Decls[c][got[c]].key \in Key
        /\ Decls[c][got[c]].mode \in {"READ", "WRITE"}
    BY <2>1, DeclsType DEF Mode
  <2>3. readers' \in [Key -> Nat] /\ writer' \in [Key -> Call \union {NoCall}]
    <3> DEFINE k == Decls[c][got[c]].key
    <3>1. CASE /\ readers' = [readers EXCEPT ![k] = IF @ > 0 THEN @ - 1 ELSE @]
               /\ writer' = writer
      <4>1. (IF readers[k] > 0 THEN readers[k] - 1 ELSE readers[k]) \in Nat
        BY <2>2
      <4> QED BY <2>2, <3>1, <4>1
    <3>2. CASE /\ writer' = [writer EXCEPT ![k] = IF @ = c THEN NoCall ELSE @]
               /\ readers' = readers
      BY <2>2, <3>2
    <3> QED BY <1>8, <2>2, <3>1, <3>2, ReleaseEffect
  <2>4. /\ got' = [got EXCEPT ![c] = @ - 1] /\ attempt' = attempt
        /\ pc' = pc \/ \E W : pc' = [e \in Call |-> IF e \in W THEN "acquiring" ELSE pc[e]]
                              /\ \A e \in W : pc[e] = "sleeping"
    BY <1>8 DEF ReleaseOne, Wake, Sleepers
  <2>5. pc' \in [Call -> Step] /\ got' \in [Call -> Nat] /\ pc'[c] = pc[c]
    BY <1>8, <2>1, <2>4 DEF ReleaseOne
  <2>6. \A e \in Call : \/ pc'[e] = pc[e]
                        \/ pc'[e] = "acquiring" /\ pc[e] = "sleeping"
    BY <2>4
  <2> QED BY <1>8, <2>1, <2>3, <2>4, <2>5, <2>6 DEF ReleaseOne
<1>9. CASE UNCHANGED lockVars
  BY <1>9 DEF lockVars
<1> QED BY <1>1, <1>2, <1>3, <1>4, <1>5, <1>6, <1>7, <1>8, <1>9 DEF Next, Locking

\* No lock has been taken at the start.
LEMMA InitTypes == Init => TypeOK /\ PhaseOK
BY RetryAssumption, DeclsType DEF Init, TypeOK, PhaseOK, Step

\* The state variables keep their types, and no index leaves its list.
THEOREM TypeCorrect == Spec => []TypeOK
<1> QED BY InitTypes, TypeStep, PTL DEF Spec

-------------------------------------------------------------------------------
\* The acquired list grows by the wanted declaration, which was not in it.
LEMMA GrantHolds ==
  ASSUME TypeOK, NEW c \in Call, Grant(c)
  PROVE  /\ \A e \in Call : \A d :
              Holds(e, d)' <=> Holds(e, d) \/ (e = c /\ d = Wanted(c))
         /\ ~Holds(c, Wanted(c))
<1>1. /\ got[c] \in Nat /\ got[c] + 1 \in 1..Len(Decls[c])
      /\ got' = [got EXCEPT ![c] = got[c] + 1] /\ got \in [Call -> Nat]
  BY WantedType DEF Grant, TypeOK
<1>2. ~Holds(c, Wanted(c))
  BY <1>1, DeclsType DEF Holds, Wanted
<1>3. ASSUME NEW d PROVE Holds(c, d)' <=> Holds(c, d) \/ d = Wanted(c)
  <2>1. got'[c] = got[c] + 1
    BY <1>1
  <2>2. 1..got'[c] = (1..got[c]) \union {got[c] + 1}
    BY <1>1, <2>1
  <2> QED BY <2>2 DEF Holds, Wanted
<1>4. ASSUME NEW e \in Call, e # c, NEW d PROVE Holds(e, d)' <=> Holds(e, d)
  <2>1. got'[e] = got[e]
    BY <1>1, <1>4
  <2> QED BY <2>1 DEF Holds
<1> QED BY <1>2, <1>3, <1>4

\* The acquired list shrinks by its last declaration, which was in it once.
LEMMA ReleaseHolds ==
  ASSUME TypeOK, NEW c \in Call, ReleaseOne(c)
  PROVE  /\ \A e \in Call : \A d :
              Holds(e, d)' <=> Holds(e, d) /\ ~(e = c /\ d = Decls[c][got[c]])
         /\ Holds(c, Decls[c][got[c]])
         /\ got[c] \in 1..Len(Decls[c])
<1>1. /\ got[c] \in 1..Len(Decls[c])
      /\ got' = [got EXCEPT ![c] = got[c] - 1] /\ got \in [Call -> Nat]
  BY DeclsType DEF ReleaseOne, TypeOK
<1>2. Holds(c, Decls[c][got[c]])
  BY <1>1, DeclsType DEF Holds
<1>3. ASSUME NEW d PROVE Holds(c, d)' <=> Holds(c, d) /\ d # Decls[c][got[c]]
  <2>1. got'[c] = got[c] - 1
    BY <1>1
  <2>2. 1..got[c] = (1..got'[c]) \union {got[c]} /\ got[c] \notin 1..got'[c]
    BY <1>1, <2>1, DeclsType
  <2>3. \A i \in 1..got'[c] : Decls[c][i] # Decls[c][got[c]]
    BY <1>1, <2>1, DeclsType
  <2> QED BY <2>2, <2>3 DEF Holds
<1>4. ASSUME NEW e \in Call, e # c, NEW d PROVE Holds(e, d)' <=> Holds(e, d)
  <2>1. got'[e] = got[e]
    BY <1>1, <1>4
  <2> QED BY <2>1 DEF Holds
<1> QED BY <1>1, <1>2, <1>3, <1>4

\* The effect of a grant, lock by lock.
LEMMA GrantAt ==
  ASSUME TypeOK, NEW c \in Call, Grant(c), NEW k \in Key
  PROVE  /\ readers'[k] = IF Wanted(c) = Reads(k) THEN readers[k] + 1 ELSE readers[k]
         /\ writer'[k] = IF Wanted(c) = Writes(k) THEN c ELSE writer[k]
<1> DEFINE w == Wanted(c)
<1>1. /\ w.key \in Key /\ w.mode \in {"READ", "WRITE"}
      /\ w = [key |-> w.key, mode |-> w.mode]
  BY WantedType DEF Grant
<1>2. /\ w = Reads(k) <=> w.key = k /\ w.mode = "READ"
      /\ w = Writes(k) <=> w.key = k /\ w.mode = "WRITE"
  BY <1>1 DEF Reads, Writes
<1>3. CASE /\ w.mode = "READ"
           /\ readers' = [readers EXCEPT ![w.key] = @ + 1]
           /\ writer' = writer
  <2>1. readers'[k] = IF w.key = k THEN readers[k] + 1 ELSE readers[k]
    BY <1>1, <1>3 DEF TypeOK
  <2> QED BY <1>2, <1>3, <2>1
<1>4. CASE /\ w.mode = "WRITE"
           /\ writer' = [writer EXCEPT ![w.key] = c]
           /\ readers' = readers
  <2>1. writer'[k] = IF w.key = k THEN c ELSE writer[k]
    BY <1>1, <1>4 DEF TypeOK
  <2> QED BY <1>2, <1>4, <2>1
<1> QED BY <1>1, <1>3, <1>4, GrantEffect

\* The effect of a release, lock by lock; whom it wakes.
LEMMA ReleaseAt ==
  ASSUME TypeOK, NEW c \in Call, ReleaseOne(c), NEW k \in Key
  PROVE  LET d == Decls[c][got[c]] IN
         /\ readers'[k] = IF d = Reads(k) /\ readers[k] > 0
                            THEN readers[k] - 1 ELSE readers[k]
         /\ writer'[k] = IF d = Writes(k) /\ writer[k] = c
                           THEN NoCall ELSE writer[k]
         /\ \/ readers'[k] = readers[k] /\ writer'[k] = writer[k]
            \/ readers'[k] > 0 /\ writer'[k] = writer[k]
            \/ Wake(Sleepers(k))
<1> DEFINE d == Decls[c][got[c]]
<1>1. /\ d.key \in Key /\ d.mode \in {"READ", "WRITE"}
      /\ d = [key |-> d.key, mode |-> d.mode]
  BY ReleaseHolds, DeclsType DEF Mode
<1>2. /\ d = Reads(k) <=> d.key = k /\ d.mode = "READ"
      /\ d = Writes(k) <=> d.key = k /\ d.mode = "WRITE"
  BY <1>1 DEF Reads, Writes
<1>0. readers[k] \in Nat
  BY DEF TypeOK
<1>3. CASE /\ d.mode = "READ"
           /\ readers' = [readers EXCEPT ![d.key] = IF @ > 0 THEN @ - 1 ELSE @]
           /\ writer' = writer
           /\ IF readers[d.key] = 1 THEN Wake(Sleepers(d.key)) ELSE pc' = pc
  <2>1. readers'[k] = IF d.key = k /\ readers[k] > 0 THEN readers[k] - 1 ELSE readers[k]
    BY <1>1, <1>3 DEF TypeOK
  <2>2. d.key = k /\ readers[k] = 1 => Wake(Sleepers(k))
    BY <1>3
  <2> QED BY <1>0, <1>2, <1>3, <2>1, <2>2
<1>4. CASE /\ d.mode = "WRITE"
           /\ writer' = [writer EXCEPT ![d.key] = IF @ = c THEN NoCall ELSE @]
           /\ readers' = readers
           /\ IF writer[d.key] = c THEN Wake(Sleepers(d.key)) ELSE pc' = pc
  <2>1. writer'[k] = IF d.key = k /\ writer[k] = c THEN NoCall ELSE writer[k]
    BY <1>1, <1>4 DEF TypeOK
  <2>2. d.key = k /\ writer[k] = c => Wake(Sleepers(k))
    BY <1>4
  <2> QED BY <1>2, <1>4, <2>1, <2>2
<1> QED BY <1>1, <1>3, <1>4, ReleaseEffect

\* The readers of a key are finitely many, so their number is a counter.
LEMMA ReaderCallsFinite ==
  ASSUME NEW k \in Key
  PROVE  IsFiniteSet(ReaderCalls(k)) /\ Cardinality(ReaderCalls(k)) \in Nat
<1>1. ReaderCalls(k) \subseteq Call
  BY DEF ReaderCalls
<1> QED BY <1>1, CallAssumption, FS_Subset, FS_CardinalityType

\* The lock of a key as the acquired lists see it.
LockMatches(k) ==
  /\ readers[k] = Cardinality(ReaderCalls(k))
  /\ \A c \in Call : writer[k] = c <=> Holds(c, Writes(k))

\* A lock keeps matching when it is left alone and no list gains or loses it.
LEMMA LockUntouched ==
  ASSUME NEW k \in Key, LockMatches(k),
         readers'[k] = readers[k], writer'[k] = writer[k],
         \A e \in Call : /\ Holds(e, Reads(k))' <=> Holds(e, Reads(k))
                         /\ Holds(e, Writes(k))' <=> Holds(e, Writes(k))
  PROVE  LockMatches(k)'
<1>1. ReaderCalls(k)' = ReaderCalls(k)
  BY DEF ReaderCalls
<1> QED BY <1>1 DEF LockMatches

\* A grant changes the lock and the list of the call alike.
LEMMA GrantMatches ==
  ASSUME TypeOK, LocksMatchHolders, NEW c \in Call, Grant(c), NEW k \in Key
  PROVE  LockMatches(k)'
<1> DEFINE w == Wanted(c)
<1>1. /\ w.key \in Key /\ w.mode \in {"READ", "WRITE"}
      /\ w = [key |-> w.key, mode |-> w.mode]
  BY WantedType DEF Grant
<1>2. LockMatches(k)
  BY DEF LocksMatchHolders, LockMatches
<1>7. w = Writes(k) => writer[k] = NoCall
  BY DEF Grant, Free, Writes
<1>3. CASE w.key # k
  <2>1. readers'[k] = readers[k] /\ writer'[k] = writer[k]
    BY <1>3, GrantAt DEF Reads, Writes
  <2>2. w # Reads(k) /\ w # Writes(k)
    BY <1>3 DEF Reads, Writes
  <2> QED BY <1>2, <2>1, <2>2, GrantHolds, LockUntouched
<1>4. CASE w = Reads(k)
  <2>1. readers'[k] = readers[k] + 1 /\ writer'[k] = writer[k]
    BY <1>4, GrantAt DEF Reads, Writes
  <2>2. ReaderCalls(k)' = ReaderCalls(k) \union {c} /\ c \notin ReaderCalls(k)
    BY <1>4, GrantHolds DEF ReaderCalls
  <2>3. Cardinality(ReaderCalls(k)') = Cardinality(ReaderCalls(k)) + 1
    BY <2>2, ReaderCallsFinite, FS_AddElement
  <2>4. w # Writes(k)
    BY <1>4 DEF Reads, Writes
  <2>5. \A e \in Call : Holds(e, Writes(k))' <=> Holds(e, Writes(k))
    BY <2>4, GrantHolds
  <2> QED BY <1>2, <2>1, <2>3, <2>5 DEF LockMatches
<1>5. CASE w = Writes(k)
  <2>1. readers'[k] = readers[k] /\ writer'[k] = c /\ writer[k] = NoCall
    BY <1>5, <1>7, GrantAt DEF Reads, Writes
  <2>2. w # Reads(k)
    BY <1>5 DEF Reads, Writes
  <2>3. ReaderCalls(k)' = ReaderCalls(k)
    BY <2>2, GrantHolds DEF ReaderCalls
  <2>4. \A e \in Call : ~Holds(e, Writes(k))
    BY <1>2, <2>1, CallAssumption DEF LockMatches
  <2>5. \A e \in Call : Holds(e, Writes(k))' <=> e = c
    BY <1>5, <2>4, GrantHolds
  <2> QED BY <1>2, <2>1, <2>3, <2>5 DEF LockMatches
<1>6. w.key # k \/ w = Reads(k) \/ w = Writes(k)
  BY <1>1 DEF Reads, Writes
<1> QED BY <1>3, <1>4, <1>5, <1>6

\* A release changes them alike, and none of the swallowed errors occurs.
LEMMA ReleaseMatches ==
  ASSUME TypeOK, LocksMatchHolders, NEW c \in Call, ReleaseOne(c), NEW k \in Key
  PROVE  LockMatches(k)'
<1> DEFINE d == Decls[c][got[c]]
<1>1. /\ d.key \in Key /\ d.mode \in {"READ", "WRITE"}
      /\ d = [key |-> d.key, mode |-> d.mode]
  BY ReleaseHolds, DeclsType DEF Mode
<1>2. LockMatches(k)
  BY DEF LocksMatchHolders, LockMatches
<1>7. /\ readers'[k] = IF d = Reads(k) /\ readers[k] > 0
                        THEN readers[k] - 1 ELSE readers[k]
      /\ writer'[k] = IF d = Writes(k) /\ writer[k] = c THEN NoCall ELSE writer[k]
  BY ReleaseAt
<1>8. Reads(k) # Writes(k) /\ Reads(k).key = k /\ Writes(k).key = k
  BY DEF Reads, Writes
<1>3. CASE d.key # k
  <2>1. readers'[k] = readers[k] /\ writer'[k] = writer[k]
    BY <1>3, <1>7, <1>8
  <2>2. d # Reads(k) /\ d # Writes(k)
    BY <1>3 DEF Reads, Writes
  <2> QED BY <1>2, <2>1, <2>2, ReleaseHolds, LockUntouched
<1>4. CASE d = Reads(k)
  <2>1. c \in ReaderCalls(k) /\ ReaderCalls(k)' = ReaderCalls(k) \ {c}
    BY <1>4, ReleaseHolds DEF ReaderCalls
  <2>2. Cardinality(ReaderCalls(k)') = Cardinality(ReaderCalls(k)) - 1
    BY <2>1, ReaderCallsFinite, FS_RemoveElement
  <2>3. Cardinality(ReaderCalls(k)) > 0
    BY <2>1, ReaderCallsFinite, FS_EmptySet
  <2>4. /\ readers'[k] = (IF readers[k] > 0 THEN readers[k] - 1 ELSE readers[k])
        /\ writer'[k] = writer[k]
    BY <1>4, <1>7, <1>8
  <2>5. d # Writes(k)
    BY <1>4 DEF Reads, Writes
  <2>6. \A e \in Call : Holds(e, Writes(k))' <=> Holds(e, Writes(k))
    BY <2>5, ReleaseHolds
  <2> QED BY <1>2, <2>2, <2>3, <2>4, <2>6 DEF LockMatches
<1>5. CASE d = Writes(k)
  <2>1. writer[k] = c
    BY <1>2, <1>5, ReleaseHolds DEF LockMatches
  <2>2. readers'[k] = readers[k] /\ writer'[k] = NoCall
    BY <1>5, <1>7, <1>8, <2>1
  <2>3. d # Reads(k)
    BY <1>5 DEF Reads, Writes
  <2>4. ReaderCalls(k)' = ReaderCalls(k)
    BY <2>3, ReleaseHolds DEF ReaderCalls
  <2>5. \A e \in Call : ~Holds(e, Writes(k))'
    BY <1>2, <1>5, <2>1, ReleaseHolds DEF LockMatches
  <2> QED BY <1>2, <2>2, <2>4, <2>5, CallAssumption DEF LockMatches
<1>6. d.key # k \/ d = Reads(k) \/ d = Writes(k)
  BY <1>1 DEF Reads, Writes
<1> QED BY <1>3, <1>4, <1>5, <1>6

\* The steps that neither lock nor unlock.
LEMMA OtherSteps ==
  ASSUME [Next]_lockVars, ~\E c \in Call : Grant(c) \/ ReleaseOne(c)
  PROVE  UNCHANGED <<readers, writer, got>>
BY DEF Next, Locking, Begin, StartAttempt, Sleep, LockTimeout, Finish, Leave, lockVars

\* The locks agree with the lists after every step.
LEMMA MatchStep ==
  ASSUME TypeOK, LocksMatchHolders, [Next]_lockVars
  PROVE  LocksMatchHolders'
<1> SUFFICES ASSUME NEW k \in Key PROVE LockMatches(k)'
  BY DEF LocksMatchHolders, LockMatches
<1>1. CASE \E c \in Call : Grant(c)
  BY <1>1, GrantMatches
<1>2. CASE \E c \in Call : ReleaseOne(c)
  BY <1>2, ReleaseMatches
<1>3. CASE ~\E c \in Call : Grant(c) \/ ReleaseOne(c)
  <2>1. UNCHANGED <<readers, writer, got>>
    BY <1>3, OtherSteps
  <2>2. \A e \in Call : \A d : Holds(e, d)' <=> Holds(e, d)
    BY <2>1 DEF Holds
  <2> QED BY <2>1, <2>2, LockUntouched DEF LocksMatchHolders, LockMatches
<1> QED BY <1>1, <1>2, <1>3

\* Nothing is held and nothing is counted at the start.
LEMMA InitMatches == Init => LocksMatchHolders
<1> SUFFICES ASSUME Init, NEW k \in Key PROVE LockMatches(k)
  BY DEF LocksMatchHolders, LockMatches
<1>1. \A e \in Call : \A d : ~Holds(e, d)
  BY DEF Init, Holds
<1>2. ReaderCalls(k) = {}
  BY <1>1 DEF ReaderCalls
<1> QED BY <1>1, <1>2, FS_EmptySet, CallAssumption DEF Init, LockMatches

\* In every state the counters and the owners are those of the acquired lists.
THEOREM LocksAgree == Spec => []LocksMatchHolders
<1> QED BY InitTypes, TypeStep, InitMatches, MatchStep, PTL DEF Spec

-------------------------------------------------------------------------------
\* A writer comes when nobody reads, a reader when nobody writes.
LEMMA WriterAloneStep ==
  ASSUME TypeOK, WriterAlone, [Next]_lockVars
  PROVE  WriterAlone'
<1> SUFFICES ASSUME NEW k \in Key, writer'[k] # NoCall PROVE readers'[k] = 0
  BY DEF WriterAlone
<1>1. ASSUME NEW c \in Call, Grant(c) PROVE readers'[k] = 0
  <2>1. Free(Wanted(c))
    BY <1>1 DEF Grant
  <2>2. /\ readers'[k] = IF Wanted(c) = Reads(k) THEN readers[k] + 1 ELSE readers[k]
        /\ writer'[k] = IF Wanted(c) = Writes(k) THEN c ELSE writer[k]
    BY <1>1, GrantAt
  <2>3. Wanted(c) = Reads(k) => writer[k] = NoCall /\ Wanted(c) # Writes(k)
    BY <2>1 DEF Free, Reads, Writes
  <2>4. Wanted(c) = Writes(k) => readers[k] = 0 /\ Wanted(c) # Reads(k)
    BY <2>1 DEF Free, Reads, Writes
  <2> QED BY <2>2, <2>3, <2>4 DEF WriterAlone
<1>2. ASSUME NEW c \in Call, ReleaseOne(c) PROVE readers'[k] = 0
  <2> DEFINE d == Decls[c][got[c]]
  <2>1. /\ readers'[k] = IF d = Reads(k) /\ readers[k] > 0
                           THEN readers[k] - 1 ELSE readers[k]
        /\ writer'[k] = IF d = Writes(k) /\ writer[k] = c THEN NoCall ELSE writer[k]
    BY <1>2, ReleaseAt
  <2> QED BY <2>1 DEF WriterAlone
<1>3. CASE ~\E c \in Call : Grant(c) \/ ReleaseOne(c)
  BY <1>3, OtherSteps DEF WriterAlone
<1> QED BY <1>1, <1>2, <1>3

\* What the locks and the lists together say about two calls.
LEMMA ExclusionFollows ==
  ASSUME TypeOK, LocksMatchHolders, WriterAlone
  PROVE  Exclusion
<1> SUFFICES ASSUME NEW c \in Call, NEW d \in Call, NEW k \in Key,
                    Holds(c, Writes(k)),
                    Holds(d, Writes(k)) \/ Holds(d, Reads(k))
             PROVE  c = d
  BY DEF Exclusion
<1>1. writer[k] = c
  BY DEF LocksMatchHolders
<1>2. CASE Holds(d, Writes(k))
  BY <1>1, <1>2 DEF LocksMatchHolders
<1>3. CASE Holds(d, Reads(k))
  <2>1. d \in ReaderCalls(k)
    BY <1>3 DEF ReaderCalls
  <2>2. Cardinality(ReaderCalls(k)) # 0
    BY <2>1, ReaderCallsFinite, FS_EmptySet
  <2>3. readers[k] = 0
    BY <1>1, CallAssumption DEF WriterAlone
  <2> QED BY <2>2, <2>3 DEF LocksMatchHolders
<1> QED BY <1>2, <1>3

\* The inductive invariant of the protocol.
IInv == TypeOK /\ PhaseOK /\ LocksMatchHolders /\ WriterAlone

LEMMA InvariantHolds == Spec => []IInv
<1>1. Init => IInv
  BY InitTypes, InitMatches DEF Init, IInv, WriterAlone
<1>2. IInv /\ [Next]_lockVars => IInv'
  BY TypeStep, MatchStep, WriterAloneStep DEF IInv
<1> QED BY <1>1, <1>2, PTL DEF Spec

\* A key is never written by one call and read or written by another.
THEOREM Excludes == Spec => []Exclusion
<1>1. IInv => Exclusion
  BY ExclusionFollows DEF IInv
<1> QED BY <1>1, InvariantHolds, PTL

\* Nobody sleeps on a lock that is free: granting never frees a lock, and the
\* release that frees one wakes everybody who waits for it.
LEMMA WakeupStep ==
  ASSUME TypeOK, NoLostWakeup, [Next]_lockVars
  PROVE  NoLostWakeup'
<1> SUFFICES ASSUME NEW e \in Call, pc'[e] = "sleeping"
             PROVE  ~Free(Wanted(e))'
  BY DEF NoLostWakeup
<1>1. ASSUME NEW c \in Call, Grant(c) PROVE ~Free(Wanted(e))'
  <2>1. e # c /\ pc[e] = "sleeping" /\ got'[e] = got[e]
    BY <1>1 DEF Grant, Goto, TypeOK
  <2>2. /\ Wanted(e)' = Wanted(e) /\ ~Free(Wanted(e))
        /\ Wanted(e).key \in Key
    BY <2>1, WantedType DEF Wanted, NoLostWakeup
  <2> DEFINE k == Wanted(e).key
  <2>3. /\ readers'[k] = IF Wanted(c) = Reads(k) THEN readers[k] + 1 ELSE readers[k]
        /\ writer'[k] = IF Wanted(c) = Writes(k) THEN c ELSE writer[k]
    BY <1>1, <2>2, GrantAt
  <2>4. readers[k] \in Nat
    BY <2>2 DEF TypeOK
  <2> QED BY <2>2, <2>3, <2>4, CallAssumption DEF Free
<1>2. ASSUME NEW c \in Call, ReleaseOne(c) PROVE ~Free(Wanted(e))'
  <2>1. pc[e] = "sleeping"
    BY <1>2 DEF ReleaseOne, Wake
  <2>2. e # c
    BY <1>2, <2>1 DEF ReleaseOne
  <2>3. got'[e] = got[e]
    BY <1>2, <2>2 DEF ReleaseOne, TypeOK
  <2>4. /\ Wanted(e)' = Wanted(e) /\ ~Free(Wanted(e))
        /\ Wanted(e).key \in Key
    BY <2>1, <2>3, WantedType DEF Wanted, NoLostWakeup
  <2> DEFINE k == Wanted(e).key
  <2>5. ~Wake(Sleepers(k))
    BY <2>1 DEF Wake, Sleepers
  <2>6. \/ readers'[k] = readers[k] /\ writer'[k] = writer[k]
        \/ readers'[k] > 0 /\ writer'[k] = writer[k]
    BY <1>2, <2>4, <2>5, ReleaseAt
  <2> QED BY <2>4, <2>6 DEF Free
<1>3. ASSUME NEW c \in Call, Sleep(c) PROVE ~Free(Wanted(e))'
  <2>1. UNCHANGED <<readers, writer, got>>
    BY <1>3 DEF Sleep
  <2>2. pc[e] = "sleeping" \/ e = c
    BY <1>3 DEF Sleep, Goto, TypeOK
  <2> QED BY <1>3, <2>1, <2>2 DEF Sleep, NoLostWakeup, Wanted, Free
<1>4. CASE ~\E c \in Call : Grant(c) \/ ReleaseOne(c) \/ Sleep(c)
  <2>1. UNCHANGED <<readers, writer, got>>
    BY <1>4, OtherSteps
  <2>2. pc[e] = "sleeping"
    BY <1>4 DEF Next, Locking, Begin, StartAttempt, LockTimeout, Finish, Leave,
                AfterFailure, Goto, TypeOK, lockVars
  <2> QED BY <2>1, <2>2 DEF NoLostWakeup, Wanted, Free
<1> QED BY <1>1, <1>2, <1>3, <1>4

THEOREM Wakes == Spec => []NoLostWakeup
<1>1. Init => NoLostWakeup
  BY DEF Init, NoLostWakeup
<1>2. IInv /\ NoLostWakeup /\ [Next]_lockVars => NoLostWakeup'
  BY WakeupStep DEF IInv
<1> QED BY <1>1, <1>2, InvariantHolds, PTL DEF Spec

-------------------------------------------------------------------------------
\* Whoever holds a lock of a key and still wants another wants a later key,
\* because the declarations are sorted.
LEMMA HeldBeforeWanted ==
  ASSUME TypeOK, NEW d \in Call, pc[d] = "sleeping", ~DeclaresTwice(d),
         NEW k \in Key, Holds(d, Reads(k)) \/ Holds(d, Writes(k))
  PROVE  k < Wanted(d).key
<1>1. PICK i \in 1..got[d] : Decls[d][i].key = k
  BY DEF Holds, Reads, Writes
<1>2. got[d] \in Nat /\ got[d] + 1 \in 1..Len(Decls[d]) /\ Len(Decls[d]) \in Nat
  BY WantedType, DeclsType
<1>3. i \in 1..Len(Decls[d]) /\ i < got[d] + 1
  BY <1>1, <1>2
<1>4. Decls[d][i].key <= Decls[d][got[d] + 1].key
  BY <1>2, <1>3, DeclsType
<1>5. Decls[d][i].key # Decls[d][got[d] + 1].key
  BY <1>2, <1>3 DEF DeclaresTwice
<1>6. Decls[d][i].key \in Int /\ Decls[d][got[d] + 1].key \in Int
  BY <1>2, <1>3, DeclsType, KeyAssumption
<1> QED BY <1>1, <1>4, <1>5, <1>6 DEF Wanted

\* Chains of waiting calls ascend, so no cycle of them is ever closed.
THEOREM WaitingAscends == Spec => []WaitsAscend
<1>1. IInv => WaitsAscend
  <2> SUFFICES ASSUME IInv, NEW c \in Call, NEW d \in Call,
                      Waits(c), Waits(d), Blocks(d, c), ~DeclaresTwice(d)
               PROVE  Wanted(c).key < Wanted(d).key
    BY DEF WaitsAscend
  <2>1. Wanted(c).key \in Key
    BY WantedType DEF IInv, Waits
  <2>2. Holds(d, Reads(Wanted(c).key)) \/ Holds(d, Writes(Wanted(c).key))
    BY <2>1 DEF Blocks, IInv, LocksMatchHolders
  <2> QED BY <2>1, <2>2, HeldBeforeWanted DEF IInv, Waits
<1> QED BY <1>1, InvariantHolds, PTL

\* When all calls are over, every lock is free again.
THEOREM LeaksNothing == Spec => []NothingLeaked
<1>1. IInv => NothingLeaked
  <2> SUFFICES ASSUME IInv, \A c \in Call : pc[c] \in {"idle", "done", "failed"},
                      NEW k \in Key
               PROVE  readers[k] = 0 /\ writer[k] = NoCall
    BY DEF NothingLeaked
  <2>1. \A c \in Call : \A d : ~Holds(c, d)
    BY DEF Holds, IInv, PhaseOK
  <2>2. ReaderCalls(k) = {}
    BY <2>1 DEF ReaderCalls
  <2>3. writer[k] \in Call \union {NoCall} /\ \A c \in Call : writer[k] # c
    BY <2>1 DEF IInv, TypeOK, LocksMatchHolders
  <2> QED BY <2>2, <2>3, FS_EmptySet DEF IInv, LocksMatchHolders
<1> QED BY <1>1, InvariantHolds, PTL

-------------------------------------------------------------------------------
\* Moving one call and leaving the others where they are.
LEMMA MoveOne ==
  ASSUME TypeOK, NEW c \in Call, NEW step, Goto(c, step)
  PROVE  /\ pc'[c] = step
         /\ \A e \in Call : e # c => pc'[e] = pc[e]
BY DEF Goto, TypeOK

\* The last grant starts the tool: no running call conflicts with it, because
\* both hold the locks of all their declarations.
LEMMA GrantStarts ==
  ASSUME IInv, IInv', Exclusion', NEW c \in Call, Grant(c), pc'[c] = "running",
         NEW d \in Running
  PROVE  ~Conflicting(c, d)
<1> SUFFICES ASSUME Conflicting(c, d) PROVE FALSE
  OBVIOUS
<1>1. d \in Call /\ pc[d] = "running" /\ pc[c] = "acquiring" /\ d # c
  BY DEF Running, Grant
<1>2. pc'[d] = "running"
  BY <1>1 DEF Grant, Goto, IInv, TypeOK
<1>3. got'[c] = Len(Decls[c]) /\ got'[d] = Len(Decls[d])
  BY <1>1, <1>2 DEF IInv, PhaseOK
<1>4. PICK i \in 1..Len(Decls[c]), j \in 1..Len(Decls[d]) :
        /\ Decls[c][i].key = Decls[d][j].key
        /\ "WRITE" \in {Decls[c][i].mode, Decls[d][j].mode}
  BY DEF Conflicting
<1> DEFINE k == Decls[c][i].key
<1>5. Holds(c, Decls[c][i])' /\ Holds(d, Decls[d][j])'
  BY <1>3 DEF Holds
<1>6. /\ k \in Key
      /\ Decls[c][i] = Reads(k) \/ Decls[c][i] = Writes(k)
      /\ Decls[d][j] = Reads(k) \/ Decls[d][j] = Writes(k)
      /\ Decls[c][i] = Writes(k) \/ Decls[d][j] = Writes(k)
  <2>1. /\ k \in Key /\ Decls[c][i].mode \in {"READ", "WRITE"}
        /\ Decls[c][i] = [key |-> k, mode |-> Decls[c][i].mode]
    BY DeclsType DEF Mode
  <2>2. /\ Decls[d][j].mode \in {"READ", "WRITE"}
        /\ Decls[d][j] = [key |-> k, mode |-> Decls[d][j].mode]
    BY <1>1, <1>4, DeclsType DEF Mode
  <2> QED BY <1>4, <2>1, <2>2 DEF Reads, Writes
<1>8. CASE Decls[c][i] = Writes(k)
  <2>1. Holds(c, Writes(k))' /\ (Holds(d, Writes(k))' \/ Holds(d, Reads(k))')
    BY <1>5, <1>6, <1>8
  <2> QED BY <1>1, <1>6, <2>1 DEF Exclusion
<1>9. CASE Decls[d][j] = Writes(k)
  <2>1. Holds(d, Writes(k))' /\ (Holds(c, Writes(k))' \/ Holds(c, Reads(k))')
    BY <1>5, <1>6, <1>9
  <2> QED BY <1>1, <1>6, <2>1 DEF Exclusion
<1> QED BY <1>6, <1>8, <1>9

\* Every step of the protocol is a step of the schedule or does not show there.
LEMMA StepRefines ==
  ASSUME IInv, IInv', Exclusion', [Next]_lockVars
  PROVE  [Schedule!Next]_(Schedule!vars)
<1> USE DEF Running, Settled, Schedule!vars
<1>0. TypeOK
  BY DEF IInv
<1>1. ASSUME NEW c \in Call, Begin(c) PROVE [Schedule!Next]_(Schedule!vars)
  <2>1. CASE Decls[c] = <<>>
    <3>1. Running' = Running \union {c} /\ Settled' = Settled
      BY <1>0, <1>1, <2>1, MoveOne DEF Begin
    <3>2. \A d \in Running : ~Conflicting(c, d)
      BY <2>1 DEF Conflicting
    <3>3. c \notin Running \union Settled
      BY <1>1 DEF Begin
    <3> QED BY <3>1, <3>2, <3>3 DEF Schedule!Next, Schedule!Start
  <2>2. CASE Decls[c] # <<>> /\ AfterFailure(0) = "failing"
    <3>1. Settled' = Settled \union {c} /\ Running' = Running
      BY <1>0, <1>1, <2>2, MoveOne DEF Begin
    <3>2. c \notin Running \union Settled
      BY <1>1 DEF Begin
    <3> QED BY <3>1, <3>2 DEF Schedule!Next, Schedule!Abandon
  <2>3. CASE Decls[c] # <<>> /\ AfterFailure(0) = "retry"
    <3>1. Settled' = Settled /\ Running' = Running
      BY <1>0, <1>1, <2>3, MoveOne DEF Begin
    <3> QED BY <3>1
  <2> QED BY <2>1, <2>2, <2>3 DEF AfterFailure
<1>2. ASSUME NEW c \in Call, Grant(c) PROVE [Schedule!Next]_(Schedule!vars)
  <2>1. CASE pc'[c] = "running"
    <3>1. Running' = Running \union {c} /\ Settled' = Settled
      BY <1>0, <1>2, <2>1, MoveOne DEF Grant
    <3>2. \A d \in Running : ~Conflicting(c, d)
      BY <1>2, <2>1, GrantStarts
    <3>3. c \notin Running \union Settled
      BY <1>2 DEF Grant
    <3> QED BY <3>1, <3>2, <3>3 DEF Schedule!Next, Schedule!Start
  <2>2. CASE pc'[c] # "running"
    <3>1. Settled' = Settled /\ Running' = Running
      BY <1>0, <1>2, <2>2, MoveOne DEF Grant
    <3> QED BY <3>1
  <2> QED BY <2>1, <2>2
<1>3. ASSUME NEW c \in Call, LockTimeout(c) PROVE [Schedule!Next]_(Schedule!vars)
  <2>1. CASE AfterFailure(attempt[c]) = "failing"
    <3>1. Settled' = Settled \union {c} /\ Running' = Running
      BY <1>0, <1>3, <2>1, MoveOne DEF LockTimeout
    <3>2. c \notin Running \union Settled
      BY <1>3 DEF LockTimeout
    <3> QED BY <3>1, <3>2 DEF Schedule!Next, Schedule!Abandon
  <2>2. CASE AfterFailure(attempt[c]) = "retry"
    <3>1. Settled' = Settled /\ Running' = Running
      BY <1>0, <1>3, <2>2, MoveOne DEF LockTimeout
    <3> QED BY <3>1
  <2> QED BY <2>1, <2>2 DEF AfterFailure
<1>4. ASSUME NEW c \in Call, Finish(c) PROVE [Schedule!Next]_(Schedule!vars)
  <2>1. Running' = Running \ {c} /\ Settled' = Settled \union {c} /\ c \in Running
    BY <1>0, <1>4, MoveOne DEF Finish
  <2> QED BY <2>1 DEF Schedule!Next, Schedule!Complete
<1>5. ASSUME NEW c \in Call, StartAttempt(c) \/ Sleep(c) \/ Leave(c)
      PROVE  [Schedule!Next]_(Schedule!vars)
  <2>1. Settled' = Settled /\ Running' = Running
    BY <1>0, <1>5, MoveOne DEF StartAttempt, Sleep, Leave
  <2> QED BY <2>1
<1>6. ASSUME NEW c \in Call, ReleaseOne(c) PROVE [Schedule!Next]_(Schedule!vars)
  <2>1. \A e \in Call : \/ pc'[e] = pc[e]
                        \/ pc'[e] = "acquiring" /\ pc[e] = "sleeping"
    BY <1>6 DEF ReleaseOne, Wake, Sleepers
  <2>2. Settled' = Settled /\ Running' = Running
    BY <2>1
  <2> QED BY <2>2
<1>7. CASE UNCHANGED lockVars
  BY <1>7 DEF lockVars
<1> QED BY <1>1, <1>2, <1>3, <1>4, <1>5, <1>6, <1>7 DEF Next, Locking

\* The protocol implements the abstract schedule of conflicting calls.
THEOREM Refines == Spec => ImplementsSchedule
<1>1. Init => Schedule!Init
  BY DEF Init, Schedule!Init, Running, Settled
<1>2. IInv /\ IInv' /\ Exclusion' /\ [Next]_lockVars => [Schedule!Next]_(Schedule!vars)
  BY StepRefines
<1> QED BY <1>1, <1>2, InvariantHolds, Excludes, PTL
        DEF Spec, ImplementsSchedule, Schedule!Spec

-------------------------------------------------------------------------------
(* The asynchronous executor.  A job is submitted once and is in one place,  *)
(* the pool knows of a call what its task has come to, and the locks are     *)
(* those of the calls whose acquisition is over and whose release is not.    *)

PoolTypes ==
  /\ epc \in [A!Calls -> A!Place] /\ result \in [A!Calls -> A!Status]
  /\ queue \in Seq(A!Job) /\ doing \in [Worker -> A!Job \union {None}] /\ over \subseteq A!Job
  /\ ewriter \in [A!Keys -> Worker \union {None}] /\ ereaders \in [A!Keys -> SUBSET A!Calls]
  /\ running \subseteq A!Calls

In(q, j) == \E i \in DOMAIN q : q[i] = j
Once(q) == \A i, j \in DOMAIN q : q[i] = q[j] => i = j

Queued(j) == In(queue, j)
Begun(j) == \E w \in Worker : doing[w] = j
Known(j) == Queued(j) \/ Begun(j) \/ j \in over

OneJob ==
  /\ Once(queue)
  /\ \A v, w \in Worker : doing[v] = doing[w] /\ doing[v] # None => v = w
  /\ \A j \in A!Job : Queued(j) => ~Begun(j) /\ j \notin over
  /\ \A j \in A!Job : Begun(j) => j \notin over

\* What has been submitted for a call, and what has become of it.
JobsAgree ==
  \A c \in A!Calls :
    /\ epc[c] = "waiting" => ~Known(<<"acquire", c>>)
    /\ epc[c] \in {"waiting", "acquiring"} => ~Known(<<"tool", c>>)
    /\ epc[c] \in {"waiting", "acquiring", "working"} => ~Known(<<"release", c>>)
    /\ epc[c] \in {"working", "releasing"} => <<"acquire", c>> \in over
    /\ Known(<<"tool", c>>) => c \in Sync
    /\ Known(<<"tool", c>>) \/ Known(<<"release", c>>) => <<"acquire", c>> \in over
    /\ Queued(<<"tool", c>>) => epc[c] = "working"
    /\ Begun(<<"tool", c>>) => epc[c] = "working" \/ result[c] = "TIMED_OUT"

\* A tool runs in its task, or in a thread, which may outlive the task.
RunningAgrees ==
  \A c \in running : IF c \in Sync THEN Begun(<<"tool", c>>) ELSE epc[c] = "working"

\* The calls that hold the lock of their resource, as far as the pool knows.
Holding(c) == <<"acquire", c>> \in over /\ <<"release", c>> \notin over

LocksAreHeld ==
  \A c \in A!Calls :
    /\ Holding(c) /\ c \in Writing =>
         /\ ewriter[ResourceOf[c]] # None /\ ereaders[ResourceOf[c]] = {}
         /\ \A d \in A!Calls :
              Holding(d) /\ d \in Writing /\ ResourceOf[d] = ResourceOf[c] => d = c
    /\ \A k \in A!Keys :
         c \in ereaders[k] <=> Holding(c) /\ c \notin Writing /\ ResourceOf[c] = k

\* A call that has ended by itself has given its lock back, or never gets it.
EndedReleased ==
  \A c \in A!Calls :
    epc[c] = "done" /\ result[c] \in A!Ended =>
      <<"release", c>> \in over \/ ~Known(<<"acquire", c>>)

PoolInv == PoolTypes /\ OneJob /\ JobsAgree /\ RunningAgrees /\ LocksAreHeld /\ EndedReleased

\* A job that was not in the queue comes to its end.
LEMMA Appended ==
  ASSUME NEW q \in Seq(A!Job), NEW j \in A!Job, Once(q), ~In(q, j)
  PROVE  /\ Append(q, j) \in Seq(A!Job) /\ Once(Append(q, j))
         /\ \A x : In(Append(q, j), x) <=> In(q, x) \/ x = j
<1>1. /\ Append(q, j) \in Seq(A!Job) /\ Len(Append(q, j)) = Len(q) + 1 /\ Len(q) \in Nat
      /\ \A i \in 1..Len(q) : Append(q, j)[i] = q[i]
      /\ Append(q, j)[Len(q) + 1] = j
      /\ DOMAIN q = 1..Len(q) /\ DOMAIN Append(q, j) = 1..(Len(q) + 1)
  BY AppendProperties
<1>2. \A i \in DOMAIN Append(q, j) : i \in DOMAIN q \/ i = Len(q) + 1
  BY <1>1
<1>3. Once(Append(q, j))
  BY <1>1, <1>2 DEF Once, In
<1>4. \A x : In(Append(q, j), x) <=> In(q, x) \/ x = j
  <2> TAKE x
  <2>1. In(Append(q, j), x) => In(q, x) \/ x = j
    BY <1>1, <1>2 DEF In
  <2>2. In(q, x) => In(Append(q, j), x)
    BY <1>1 DEF In
  <2>3. x = j => In(Append(q, j), x)
    BY <1>1 DEF In
  <2> QED BY <2>1, <2>2, <2>3
<1> QED BY <1>1, <1>3, <1>4

\* The oldest job leaves the queue.
LEMMA Popped ==
  ASSUME NEW q \in Seq(A!Job), q # <<>>, Once(q)
  PROVE  /\ Head(q) \in A!Job /\ In(q, Head(q))
         /\ Tail(q) \in Seq(A!Job) /\ Once(Tail(q))
         /\ \A x : In(Tail(q), x) <=> In(q, x) /\ x # Head(q)
<1>1. /\ Head(q) \in A!Job /\ Tail(q) \in Seq(A!Job) /\ Len(Tail(q)) = Len(q) - 1
      /\ Len(q) \in Nat \ {0} /\ Head(q) = q[1]
      /\ \A i \in 1..Len(Tail(q)) : Tail(q)[i] = q[i + 1]
      /\ DOMAIN q = 1..Len(q) /\ DOMAIN Tail(q) = 1..(Len(q) - 1)
  BY HeadTailProperties
<1>2. Once(Tail(q)) /\ In(q, Head(q))
  BY <1>1 DEF Once, In
<1>3. \A x : In(Tail(q), x) <=> In(q, x) /\ x # Head(q)
  <2> TAKE x
  <2>1. In(Tail(q), x) => In(q, x) /\ x # Head(q)
    BY <1>1 DEF Once, In
  <2>2. ASSUME In(q, x), x # Head(q) PROVE In(Tail(q), x)
    <3>1. PICK i \in 1..Len(q) : q[i] = x
      BY <1>1, <2>2 DEF In
    <3>2. i - 1 \in 1..(Len(q) - 1) /\ Tail(q)[i - 1] = x
      BY <1>1, <2>2, <3>1
    <3> QED BY <1>1, <3>2 DEF In
  <2> QED BY <2>1, <2>2
<1> QED BY <1>1, <1>2, <1>3

\* What is behind a position of a queue.
LEMMA SuffixType ==
  ASSUME NEW D, NEW s \in Seq(D), NEW n \in 1..Len(s)
  PROVE  /\ SubSeq(s, n + 1, Len(s)) \in Seq(D)
         /\ Len(SubSeq(s, n + 1, Len(s))) = Len(s) - n
         /\ \A i \in 1..(Len(s) - n) : SubSeq(s, n + 1, Len(s))[i] = s[n + i]
<1> DEFINE t == SubSeq(s, n + 1, Len(s))
<1>1. /\ t \in Seq(D)
      /\ Len(t) = IF n + 1 <= Len(s) THEN Len(s) - (n + 1) + 1 ELSE 0
      /\ \A i \in 1..(Len(s) - (n + 1) + 1) : t[i] = s[(n + 1) + i - 1]
  BY SubSeqProperties
<1> HIDE DEF t
<1>2. Len(t) = Len(s) - n
  BY <1>1
<1>3. ASSUME NEW i \in 1..(Len(s) - n) PROVE t[i] = s[n + i]
  <2>1. i \in 1..(Len(s) - (n + 1) + 1) /\ (n + 1) + i - 1 = n + i
    OBVIOUS
  <2> QED BY <1>1, <2>1
<1> QED BY <1>1, <1>2, <1>3 DEF t

\* A cancelled job leaves the queue, wherever it is in it.
LEMMA Withdrawn ==
  ASSUME queue \in Seq(A!Job), Once(queue), NEW j
  PROVE  /\ A!Withdraw(j) \in Seq(A!Job) /\ Once(A!Withdraw(j))
         /\ \A x : In(A!Withdraw(j), x) <=> In(queue, x) /\ x # j
<1>1. CASE ~In(queue, j)
  <2>1. A!Withdraw(j) = queue
    BY <1>1 DEF A!Withdraw, A!Range, In
  <2> QED BY <1>1, <2>1
<1>2. CASE In(queue, j)
  <2> DEFINE n == CHOOSE i \in DOMAIN queue : queue[i] = j
             r == A!Withdraw(j)
             left == SubSeq(queue, 1, n - 1)
             right == SubSeq(queue, n + 1, Len(queue))
  <2>1. n \in DOMAIN queue /\ queue[n] = j
    BY <1>2 DEF In
  <2>2. n \in 1..Len(queue) /\ Len(queue) \in Nat /\ DOMAIN queue = 1..Len(queue)
    BY <2>1
  <2>3. r = left \o right
    BY <1>2 DEF A!Withdraw, A!Range, A!RemoveAt, In
  <2> HIDE DEF n, r
  <2>4. left \in Seq(A!Job) /\ Len(left) = n - 1 /\ \A i \in 1..(n - 1) : left[i] = queue[i]
    BY <2>2, SubSeqProperties
  <2>5. /\ right \in Seq(A!Job) /\ Len(right) = Len(queue) - n
        /\ \A i \in 1..(Len(queue) - n) : right[i] = queue[n + i]
    BY <2>2, SuffixType
  <2> HIDE DEF left, right
  <2>6. /\ r \in Seq(A!Job) /\ Len(r) = Len(queue) - 1 /\ DOMAIN r = 1..(Len(queue) - 1)
        /\ \A i \in 1..(Len(queue) - 1) : r[i] = IF i < n THEN queue[i] ELSE queue[i + 1]
    <3>1. /\ r \in Seq(A!Job) /\ Len(r) = Len(left) + Len(right)
          /\ \A i \in 1..(Len(left) + Len(right)) :
               r[i] = IF i <= Len(left) THEN left[i] ELSE right[i - Len(left)]
      BY <2>3, <2>4, <2>5, ConcatProperties
    <3>2. Len(r) = Len(queue) - 1
      BY <2>2, <2>4, <2>5, <3>1
    <3>3. ASSUME NEW i \in 1..(Len(queue) - 1)
          PROVE  r[i] = IF i < n THEN queue[i] ELSE queue[i + 1]
      <4>1. CASE i < n
        <5>1. i <= Len(left) /\ i \in 1..(Len(left) + Len(right)) /\ i \in 1..(n - 1)
          BY <2>2, <2>4, <2>5, <4>1
        <5> QED BY <2>4, <3>1, <4>1, <5>1
      <4>2. CASE i >= n
        <5>1. i - (n - 1) \in 1..(Len(queue) - n) /\ n + (i - (n - 1)) = i + 1
          BY <2>2, <4>2
        <5>2. ~(i <= Len(left)) /\ i \in 1..(Len(left) + Len(right)) /\ Len(left) = n - 1
          BY <2>2, <2>4, <2>5, <4>2
        <5>3. r[i] = right[i - (n - 1)]
          BY <3>1, <5>2
        <5>4. right[i - (n - 1)] = queue[i + 1]
          BY <2>5, <5>1
        <5> QED BY <2>2, <4>2, <5>3, <5>4
      <4> QED BY <2>2, <4>1, <4>2
    <3> QED BY <3>1, <3>2, <3>3
  <2>7. Once(r)
    <3> DEFINE at(i) == IF i < n THEN i ELSE i + 1
    <3>1. \A i \in 1..(Len(queue) - 1) : at(i) \in 1..Len(queue) /\ r[i] = queue[at(i)]
      BY <2>2, <2>6
    <3>2. \A i, k \in 1..(Len(queue) - 1) : at(i) = at(k) => i = k
      BY <2>2
    <3>3. DOMAIN r = 1..(Len(queue) - 1) /\ DOMAIN queue = 1..Len(queue)
      BY <2>2, <2>6
    <3>4. ASSUME NEW i \in DOMAIN r, NEW k \in DOMAIN r, r[i] = r[k] PROVE i = k
      <4> HIDE DEF at
      <4>1. at(i) = at(k)
        BY <2>1, <3>1, <3>3, <3>4 DEF Once
      <4> QED BY <3>2, <3>3, <3>4, <4>1
    <3> QED BY <3>4 DEF Once
  <2>8. ASSUME NEW x PROVE In(r, x) <=> In(queue, x) /\ x # j
    <3>1. In(r, x) => In(queue, x) /\ x # j
      BY <2>1, <2>2, <2>6 DEF Once, In
    <3>2. ASSUME In(queue, x), x # j PROVE In(r, x)
      <4>1. PICK i \in 1..Len(queue) : queue[i] = x
        BY <2>2, <3>2 DEF In
      <4>2. CASE i < n
        BY <2>2, <2>6, <4>1, <4>2 DEF In
      <4>3. CASE i > n
        <5>1. i - 1 \in 1..(Len(queue) - 1) /\ r[i - 1] = x
          BY <2>2, <2>6, <4>1, <4>3
        <5> QED BY <2>6, <5>1 DEF In
      <4> QED BY <2>1, <2>2, <3>2, <4>1, <4>2, <4>3
    <3> QED BY <3>1, <3>2
  <2> QED BY <2>6, <2>7, <2>8 DEF r
<1> QED BY <1>1, <1>2

\* run_in_executor() of a job that was never submitted before.
LEMMA SubmitEffect ==
  ASSUME PoolTypes, OneJob, NEW j \in A!Job, ~Known(j), A!Submit(j), NoneAssumption
  PROVE  /\ queue' \in Seq(A!Job) /\ OneJob'
         /\ \A x : Queued(x)' <=> Queued(x) \/ x = j
         /\ \A x : Begun(x)' <=> Begun(x)
         /\ doing' = doing /\ over' = over
<1>1. queue' = Append(queue, j) /\ doing' = doing /\ over' = over
  BY DEF A!Submit
<1>2. /\ queue' \in Seq(A!Job) /\ Once(queue')
      /\ \A x : In(queue', x) <=> In(queue, x) \/ x = j
  BY <1>1, Appended DEF PoolTypes, OneJob, Known, Queued
<1>3. \A x : (Queued(x)' <=> Queued(x) \/ x = j) /\ (Begun(x)' <=> Begun(x))
  BY <1>1, <1>2 DEF Queued, Begun
<1>4. Once(queue)'
  BY <1>2 DEF Once
<1> QED BY <1>1, <1>2, <1>3, <1>4 DEF OneJob, Known

\* A thread is done with its job, whose outcome others can see.
LEMMA DoneEffect ==
  ASSUME PoolTypes, OneJob, NEW w \in Worker, doing[w] # None, A!JobDone(w), NoneAssumption
  PROVE  /\ queue' = queue /\ OneJob'
         /\ doing' \in [Worker -> A!Job \union {None}] /\ over' \subseteq A!Job
         /\ over' = over \union {doing[w]} /\ doing[w] \notin over
         /\ \A x : Queued(x)' <=> Queued(x)
         /\ \A x \in A!Job : Begun(x)' <=> Begun(x) /\ x # doing[w]
<1>1. /\ queue' = queue /\ doing' = [doing EXCEPT ![w] = None] /\ over' = over \union {doing[w]}
      /\ doing[w] \in A!Job
  BY DEF A!JobDone, PoolTypes
<1>2. \A x : Queued(x)' <=> Queued(x)
  BY <1>1 DEF Queued, In
<1>3. \A x \in A!Job : x # None
  BY NoneAssumption
<1>4. /\ DOMAIN doing' = Worker /\ DOMAIN doing = Worker
      /\ \A v \in Worker : doing'[v] = IF v = w THEN None ELSE doing[v]
  BY <1>1 DEF PoolTypes
<1>5. \A v \in Worker : doing[v] = doing[w] => v = w
  BY DEF OneJob
<1>6. \A x \in A!Job : Begun(x)' <=> Begun(x) /\ x # doing[w]
  BY <1>3, <1>4, <1>5 DEF Begun
<1>7. Begun(doing[w])
  BY DEF Begun
<1>8. doing[w] \notin over /\ ~Queued(doing[w])
  BY <1>1, <1>7 DEF OneJob
<1>9. OneJob'
  <2>1. Once(queue)'
    BY <1>1 DEF OneJob, Once
  <2>2. \A v, u \in Worker : doing'[v] = doing'[u] /\ doing'[v] # None => v = u
    BY <1>4 DEF OneJob
  <2> QED BY <1>1, <1>2, <1>6, <1>8, <2>1, <2>2 DEF OneJob
<1> QED BY <1>1, <1>2, <1>6, <1>8, <1>9 DEF PoolTypes

\* A thread gives its job up.
LEMMA DropEffect ==
  ASSUME PoolTypes, OneJob, NEW w \in Worker, doing[w] # None, NoneAssumption,
         doing' = [doing EXCEPT ![w] = None], queue' = queue, over' = over
  PROVE  /\ OneJob' /\ doing' \in [Worker -> A!Job \union {None}]
         /\ doing[w] \in A!Job /\ doing[w] \notin over /\ ~Queued(doing[w])
         /\ \A x : Queued(x)' <=> Queued(x)
         /\ \A x \in A!Job : Begun(x)' <=> Begun(x) /\ x # doing[w]
<1>1. doing[w] \in A!Job
  BY DEF PoolTypes
<1>2. \A x : Queued(x)' <=> Queued(x)
  BY DEF Queued, In
<1>3. \A x \in A!Job : x # None
  BY NoneAssumption
<1>4. /\ DOMAIN doing' = Worker /\ DOMAIN doing = Worker
      /\ \A v \in Worker : doing'[v] = IF v = w THEN None ELSE doing[v]
  BY DEF PoolTypes
<1>5. \A v \in Worker : doing[v] = doing[w] => v = w
  BY DEF OneJob
<1>6. \A x \in A!Job : Begun(x)' <=> Begun(x) /\ x # doing[w]
  BY <1>3, <1>4, <1>5 DEF Begun
<1>7. Begun(doing[w])
  BY DEF Begun
<1>8. doing[w] \notin over /\ ~Queued(doing[w])
  BY <1>1, <1>7 DEF OneJob
<1>9. OneJob'
  <2>1. Once(queue)'
    BY DEF OneJob, Once
  <2>2. \A v, u \in Worker : doing'[v] = doing'[u] /\ doing'[v] # None => v = u
    BY <1>4 DEF OneJob
  <2> QED BY <1>2, <1>6, <2>1, <2>2 DEF OneJob
<1> QED BY <1>1, <1>2, <1>6, <1>8, <1>9 DEF PoolTypes

\* A free thread takes the oldest job.
LEMMA BeginEffect ==
  ASSUME PoolTypes, OneJob, NEW w \in Worker, A!Begin(w), NoneAssumption
  PROVE  /\ Head(queue) \in A!Job /\ Queued(Head(queue))
         /\ queue' \in Seq(A!Job) /\ OneJob'
         /\ doing' \in [Worker -> A!Job \union {None}] /\ over' = over
         /\ \A x : Queued(x)' <=> Queued(x) /\ x # Head(queue)
         /\ \A x \in A!Job : Begun(x)' <=> Begun(x) \/ x = Head(queue)
<1>1. /\ queue # <<>> /\ doing[w] = None /\ doing' = [doing EXCEPT ![w] = Head(queue)]
      /\ queue' = Tail(queue) /\ over' = over
  BY DEF A!Begin
<1>2. /\ Head(queue) \in A!Job /\ In(queue, Head(queue)) /\ queue' \in Seq(A!Job) /\ Once(queue')
      /\ \A x : In(queue', x) <=> In(queue, x) /\ x # Head(queue)
  BY <1>1, Popped DEF PoolTypes, OneJob
<1> DEFINE j == Head(queue)
<1> HIDE DEF j
<1>3. \A x \in A!Job : x # None
  BY NoneAssumption
<1>4. /\ DOMAIN doing' = Worker /\ DOMAIN doing = Worker
      /\ \A v \in Worker : doing'[v] = IF v = w THEN j ELSE doing[v]
  BY <1>1 DEF PoolTypes, j
<1>5. \A x : Queued(x)' <=> Queued(x) /\ x # j
  BY <1>2 DEF Queued, j
<1>6. \A x \in A!Job : Begun(x)' <=> Begun(x) \/ x = j
  BY <1>1, <1>3, <1>4 DEF Begun
<1>7. Queued(j) /\ j \in A!Job
  BY <1>2 DEF Queued, j
<1>8. ~Begun(j) /\ j \notin over
  BY <1>7 DEF OneJob
<1>9. OneJob'
  <2>1. Once(queue)'
    BY <1>2 DEF Once
  <2>2. \A v, u \in Worker : doing'[v] = doing'[u] /\ doing'[v] # None => v = u
    BY <1>1, <1>3, <1>4, <1>7, <1>8 DEF OneJob, Begun
  <2> QED BY <1>1, <1>5, <1>6, <1>7, <1>8, <2>1, <2>2 DEF OneJob
<1>10. doing' \in [Worker -> A!Job \union {None}]
  BY <1>1, <1>2 DEF PoolTypes
<1> QED BY <1>1, <1>2, <1>5, <1>6, <1>7, <1>9, <1>10 DEF j

\* Jobs of different kinds or calls are different.
LEMMA JobFacts ==
  ASSUME NEW c \in A!Calls
  PROVE  /\ <<"acquire", c>> \in A!Job /\ <<"tool", c>> \in A!Job /\ <<"release", c>> \in A!Job
         /\ ResourceOf[c] \in A!Keys
         /\ \A d : /\ <<"acquire", c>> = <<"acquire", d>> => c = d
                   /\ <<"tool", c>> = <<"tool", d>> => c = d
                   /\ <<"release", c>> = <<"release", d>> => c = d
                   /\ <<"acquire", c>> # <<"tool", d>> /\ <<"acquire", c>> # <<"release", d>>
                   /\ <<"tool", c>> # <<"release", d>>
BY DEF A!Job, A!Keys

LEMMA EnterStep ==
  ASSUME PoolInv, NoneAssumption, NEW c \in A!Calls, A!Enter(c)
  PROVE  PoolInv'
<1> DEFINE j == <<"acquire", c>>
<1>1. /\ epc[c] = "waiting" /\ epc' = [epc EXCEPT ![c] = "acquiring"] /\ A!Submit(j)
      /\ result' = result /\ ewriter' = ewriter /\ ereaders' = ereaders /\ running' = running
  BY DEF A!Enter, A!Go, A!locks
<1>2. j \in A!Job /\ ~Known(j)
  BY <1>1, JobFacts DEF PoolInv, JobsAgree
<1>3. /\ queue' \in Seq(A!Job) /\ OneJob'
      /\ \A x : Queued(x)' <=> Queued(x) \/ x = j
      /\ \A x : Begun(x)' <=> Begun(x)
      /\ doing' = doing /\ over' = over
  BY <1>1, <1>2, SubmitEffect DEF PoolInv
<1> HIDE DEF j
<1>4. PoolTypes'
  BY <1>1, <1>3 DEF PoolInv, PoolTypes, A!Place
<1>5. \A d \in A!Calls : epc'[d] = IF d = c THEN "acquiring" ELSE epc[d]
  BY <1>1 DEF PoolInv, PoolTypes
<1>6. JobsAgree'
  <2> SUFFICES ASSUME NEW d \in A!Calls
               PROVE  JobsAgree!(d)'
    BY DEF JobsAgree
  <2>1. CASE d = c
    BY <1>1, <1>2, <1>3, <1>5, <2>1, JobFacts DEF PoolInv, JobsAgree, Known, j
  <2>2. CASE d # c
    BY <1>1, <1>2, <1>3, <1>5, <2>2, JobFacts DEF PoolInv, JobsAgree, Known, j
  <2> QED BY <2>1, <2>2
<1>7. RunningAgrees'
  BY <1>1, <1>3, <1>5 DEF PoolInv, PoolTypes, RunningAgrees
<1>8. LocksAreHeld'
  BY <1>1, <1>3 DEF PoolInv, LocksAreHeld, Holding
<1>9. EndedReleased'
  BY <1>1, <1>3, <1>5, JobFacts DEF PoolInv, EndedReleased, Known, j
<1> QED BY <1>3, <1>4, <1>6, <1>7, <1>8, <1>9 DEF PoolInv

LEMMA BeginStep ==
  ASSUME PoolInv, NoneAssumption, NEW w \in Worker, A!Begin(w)
  PROVE  PoolInv'
<1> DEFINE j == Head(queue)
<1>1. /\ epc' = epc /\ result' = result /\ ewriter' = ewriter /\ ereaders' = ereaders
      /\ running' = IF j[1] = "tool" THEN running \union {j[2]} ELSE running
  BY DEF A!Begin, A!locks
<1>2. /\ j \in A!Job /\ Queued(j)
      /\ queue' \in Seq(A!Job) /\ OneJob'
      /\ doing' \in [Worker -> A!Job \union {None}] /\ over' = over
      /\ \A x : Queued(x)' <=> Queued(x) /\ x # j
      /\ \A x \in A!Job : Begun(x)' <=> Begun(x) \/ x = j
  BY BeginEffect DEF PoolInv
<1> HIDE DEF j
<1>3. \A x \in A!Job : Known(x)' <=> Known(x)
  BY <1>2 DEF Known
<1>4. JobsAgree'
  <2> SUFFICES ASSUME NEW c \in A!Calls
               PROVE  JobsAgree!(c)'
    BY DEF JobsAgree
  <2> QED BY <1>1, <1>2, <1>3, JobFacts DEF PoolInv, JobsAgree, Known
<1>5. PoolTypes' /\ RunningAgrees'
  <2>1. PICK d \in A!Calls : j \in {<<"acquire", d>>, <<"tool", d>>, <<"release", d>>}
    BY <1>2 DEF A!Job
  <2>2. CASE j = <<"tool", d>>
    <3>1. running' = running \union {d} /\ d \in Sync
      BY <1>1, <1>2, <2>2 DEF PoolInv, JobsAgree, Known
    <3> QED BY <1>1, <1>2, <2>2, <3>1, JobFacts
            DEF PoolInv, PoolTypes, RunningAgrees
  <2>3. CASE j # <<"tool", d>>
    <3>1. running' = running
      BY <1>1, <2>1, <2>3
    <3> QED BY <1>1, <1>2, <3>1, JobFacts DEF PoolInv, PoolTypes, RunningAgrees
  <2> QED BY <2>2, <2>3
<1>6. LocksAreHeld' /\ EndedReleased'
  BY <1>1, <1>2, <1>3, JobFacts DEF PoolInv, LocksAreHeld, Holding, EndedReleased
<1> QED BY <1>2, <1>4, <1>5, <1>6 DEF PoolInv

\* A cancelled job leaves the queue, or is nowhere in it.
LEMMA WithdrawEffect ==
  ASSUME PoolTypes, OneJob, NEW j,
         queue' = A!Withdraw(j), doing' = doing, over' = over
  PROVE  /\ queue' \in Seq(A!Job) /\ OneJob'
         /\ \A x : Queued(x)' <=> Queued(x) /\ x # j
         /\ \A x : Begun(x)' <=> Begun(x)
<1>1. /\ queue' \in Seq(A!Job) /\ Once(queue')
      /\ \A x : In(queue', x) <=> In(queue, x) /\ x # j
  BY Withdrawn DEF PoolTypes, OneJob
<1>2. \A x : (Queued(x)' <=> Queued(x) /\ x # j) /\ (Begun(x)' <=> Begun(x))
  BY <1>1 DEF Queued, Begun
<1>3. Once(queue)'
  BY <1>1 DEF Once
<1> QED BY <1>1, <1>2, <1>3 DEF OneJob

LEMMA LockStep ==
  ASSUME PoolInv, NoneAssumption, NEW w \in Worker, NEW c \in A!Calls, A!Lock(w, c)
  PROVE  PoolInv'
<1> DEFINE j == <<"acquire", c>>
           k == ResourceOf[c]
<1>1. /\ doing[w] = j /\ ewriter[k] = None /\ A!JobDone(w)
      /\ epc' = epc /\ result' = result /\ running' = running
      /\ IF c \in Writing
           THEN /\ ereaders[k] = {} /\ ereaders' = ereaders
                /\ ewriter' = [ewriter EXCEPT ![k] = w]
           ELSE /\ ereaders' = [ereaders EXCEPT ![k] = @ \union {c}] /\ ewriter' = ewriter
  BY DEF A!Lock
<1>2. j \in A!Job /\ j # None /\ k \in A!Keys /\ w # None
  BY JobFacts, NoneAssumption
<1>3. /\ queue' = queue /\ OneJob'
      /\ doing' \in [Worker -> A!Job \union {None}] /\ over' \subseteq A!Job
      /\ over' = over \union {j} /\ j \notin over
      /\ \A x : Queued(x)' <=> Queued(x)
      /\ \A x \in A!Job : Begun(x)' <=> Begun(x) /\ x # j
  BY <1>1, <1>2, DoneEffect DEF PoolInv
<1>4. Begun(j)
  BY <1>1 DEF Begun
<1> HIDE DEF j
<1>5. \A x \in A!Job : Known(x)' <=> Known(x)
  BY <1>2, <1>3, <1>4 DEF Known
<1>6. PoolTypes'
  <2>1. ewriter' \in [A!Keys -> Worker \union {None}] /\ ereaders' \in [A!Keys -> SUBSET A!Calls]
    BY <1>1, <1>2 DEF PoolInv, PoolTypes
  <2> QED BY <1>1, <1>3, <2>1 DEF PoolInv, PoolTypes
<1>7. JobsAgree'
  <2> SUFFICES ASSUME NEW d \in A!Calls
               PROVE  JobsAgree!(d)'
    BY DEF JobsAgree
  <2> QED BY <1>1, <1>2, <1>3, <1>5, JobFacts DEF PoolInv, JobsAgree, j
<1>8. RunningAgrees'
  BY <1>1, <1>2, <1>3, JobFacts DEF PoolInv, PoolTypes, RunningAgrees, j
<1>9. EndedReleased'
  BY <1>1, <1>3, <1>5, JobFacts DEF PoolInv, EndedReleased
<1>10. ~Holding(c) /\ \A d \in A!Calls : Holding(d)' <=> Holding(d) \/ d = c
  <2>1. <<"release", c>> \notin over
    BY <1>3 DEF PoolInv, JobsAgree, Known, j
  <2> QED BY <1>2, <1>3, <2>1, JobFacts DEF Holding, j
<1>11. LocksAreHeld'
  <2> USE DEF LocksAreHeld
  <2>1. \A d \in A!Calls : Holding(d) /\ d \in Writing => ResourceOf[d] # k
    BY <1>1 DEF PoolInv
  <2>2. CASE c \in Writing
    <3>1. /\ \A e \in A!Keys : ewriter'[e] = IF e = k THEN w ELSE ewriter[e]
          /\ ereaders' = ereaders /\ ereaders[k] = {}
      BY <1>1, <1>2, <2>2 DEF PoolInv, PoolTypes
    <3> HIDE DEF k
    <3> SUFFICES ASSUME NEW d \in A!Calls
                 PROVE  LocksAreHeld!(d)'
      OBVIOUS
    <3>2. LocksAreHeld!(d)
      BY DEF PoolInv
    <3>3. CASE d = c
      BY <1>2, <1>10, <2>1, <2>2, <3>1, <3>2, <3>3, JobFacts DEF k
    <3>4. CASE d # c
      BY <1>2, <1>10, <2>1, <2>2, <3>1, <3>2, <3>4, JobFacts DEF k
    <3> QED BY <3>3, <3>4
  <2>3. CASE c \notin Writing
    <3>1. /\ \A e \in A!Keys : ereaders'[e] = IF e = k THEN ereaders[k] \union {c} ELSE ereaders[e]
          /\ ewriter' = ewriter
      BY <1>1, <1>2, <2>3 DEF PoolInv, PoolTypes
    <3> HIDE DEF k
    <3> SUFFICES ASSUME NEW d \in A!Calls
                 PROVE  LocksAreHeld!(d)'
      OBVIOUS
    <3>2. LocksAreHeld!(d)
      BY DEF PoolInv
    <3>3. CASE d = c
      BY <1>2, <1>10, <2>1, <2>3, <3>1, <3>2, <3>3, JobFacts DEF k
    <3>4. CASE d # c
      BY <1>2, <1>10, <2>1, <2>3, <3>1, <3>2, <3>4, JobFacts DEF k
    <3> QED BY <3>3, <3>4
  <2> QED BY <2>2, <2>3
<1> QED BY <1>3, <1>6, <1>7, <1>8, <1>9, <1>11 DEF PoolInv

LEMMA LockFailsStep ==
  ASSUME PoolInv, NoneAssumption, NEW w \in Worker, NEW c \in A!Calls, A!LockFails(w, c)
  PROVE  PoolInv'
<1> DEFINE j == <<"acquire", c>>
<1>1. /\ doing[w] = j /\ doing' = [doing EXCEPT ![w] = None] /\ queue' = queue /\ over' = over
      /\ ewriter' = ewriter /\ ereaders' = ereaders /\ running' = running
      /\ \/ /\ epc[c] = "acquiring" /\ epc' = [epc EXCEPT ![c] = "done"]
            /\ result' = [result EXCEPT ![c] = "FAILED"]
         \/ epc' = epc /\ result' = result
  BY DEF A!LockFails, A!Go, A!locks
<1>2. j \in A!Job /\ j # None
  BY JobFacts, NoneAssumption
<1>3. /\ OneJob' /\ doing' \in [Worker -> A!Job \union {None}]
      /\ j \notin over /\ ~Queued(j)
      /\ \A x : Queued(x)' <=> Queued(x)
      /\ \A x \in A!Job : Begun(x)' <=> Begun(x) /\ x # j
  BY <1>1, <1>2, DropEffect DEF PoolInv
<1> HIDE DEF j
<1>4. ~Known(j)' /\ \A x \in A!Job : Known(x)' => Known(x)
  BY <1>1, <1>2, <1>3 DEF Known
<1>5. /\ epc' \in [A!Calls -> A!Place] /\ result' \in [A!Calls -> A!Status]
      /\ \A d \in A!Calls : \/ epc'[d] = epc[d] /\ result'[d] = result[d]
                            \/ d = c /\ epc[c] = "acquiring" /\ epc'[c] = "done"
  <2>1. CASE epc' = epc /\ result' = result
    <3>1. epc' \in [A!Calls -> A!Place] /\ result' \in [A!Calls -> A!Status]
      BY <2>1 DEF PoolInv, PoolTypes
    <3>2. \A d \in A!Calls : epc'[d] = epc[d] /\ result'[d] = result[d]
      BY <2>1
    <3> QED BY <3>1, <3>2
  <2>2. CASE /\ epc[c] = "acquiring" /\ epc' = [epc EXCEPT ![c] = "done"]
             /\ result' = [result EXCEPT ![c] = "FAILED"]
    <3>1. epc' \in [A!Calls -> A!Place] /\ epc'[c] = "done"
      BY <2>2 DEF PoolInv, PoolTypes, A!Place
    <3>2. result' \in [A!Calls -> A!Status]
      BY <2>2 DEF PoolInv, PoolTypes, A!Status
    <3>3. \A d \in A!Calls : d # c => epc'[d] = epc[d] /\ result'[d] = result[d]
      BY <2>2 DEF PoolInv, PoolTypes
    <3> QED BY <2>2, <3>1, <3>2, <3>3
  <2> QED BY <1>1, <2>1, <2>2
<1>6. PoolTypes'
  BY <1>1, <1>3, <1>5 DEF PoolInv, PoolTypes
<1>7. JobsAgree'
  <2> SUFFICES ASSUME NEW d \in A!Calls
               PROVE  JobsAgree!(d)'
    BY DEF JobsAgree
  <2> QED BY <1>1, <1>3, <1>4, <1>5, JobFacts DEF PoolInv, JobsAgree, Known, j
<1>8. RunningAgrees'
  BY <1>1, <1>2, <1>3, <1>5, JobFacts DEF PoolInv, PoolTypes, RunningAgrees, j
<1>9. EndedReleased'
  BY <1>1, <1>4, <1>5, JobFacts DEF PoolInv, EndedReleased, j
<1>10. LocksAreHeld'
  BY <1>1 DEF PoolInv, LocksAreHeld, Holding
<1> QED BY <1>3, <1>6, <1>7, <1>8, <1>9, <1>10 DEF PoolInv

LEMMA CallToolStep ==
  ASSUME PoolInv, NoneAssumption, NEW c \in A!Calls, A!CallTool(c)
  PROVE  PoolInv'
<1> DEFINE j == <<"tool", c>>
<1>1. /\ <<"acquire", c>> \in over /\ epc[c] = "acquiring" /\ epc' = [epc EXCEPT ![c] = "working"]
      /\ result' = result /\ ewriter' = ewriter /\ ereaders' = ereaders
      /\ IF c \in Sync THEN A!Submit(j) /\ running' = running
         ELSE /\ running' = running \union {c}
              /\ queue' = queue /\ doing' = doing /\ over' = over
  BY DEF A!CallTool, A!Go, A!locks, A!pool
<1>2. j \in A!Job /\ ~Known(j) /\ ~Known(<<"release", c>>)
  BY <1>1, JobFacts DEF PoolInv, JobsAgree
<1>3. \A d \in A!Calls : epc'[d] = IF d = c THEN "working" ELSE epc[d]
  BY <1>1 DEF PoolInv, PoolTypes
<1> HIDE DEF j
<1>4. CASE c \in Sync
  <2>1. /\ queue' \in Seq(A!Job) /\ OneJob'
        /\ \A x : Queued(x)' <=> Queued(x) \/ x = j
        /\ \A x : Begun(x)' <=> Begun(x)
        /\ doing' = doing /\ over' = over
    BY <1>1, <1>2, <1>4, SubmitEffect DEF PoolInv
  <2>2. PoolTypes'
    BY <1>1, <1>4, <2>1 DEF PoolInv, PoolTypes, A!Place
  <2>3. JobsAgree'
    <3> SUFFICES ASSUME NEW d \in A!Calls
                 PROVE  JobsAgree!(d)'
      BY DEF JobsAgree
    <3>1. CASE d = c
      BY <1>1, <1>2, <1>3, <1>4, <2>1, <3>1, JobFacts DEF PoolInv, JobsAgree, Known, j
    <3>2. CASE d # c
      BY <1>1, <1>2, <1>3, <1>4, <2>1, <3>2, JobFacts DEF PoolInv, JobsAgree, Known, j
    <3> QED BY <3>1, <3>2
  <2>4. RunningAgrees'
    BY <1>1, <1>3, <1>4, <2>1 DEF PoolInv, PoolTypes, RunningAgrees
  <2>5. LocksAreHeld'
    BY <1>1, <2>1 DEF PoolInv, LocksAreHeld, Holding
  <2>6. EndedReleased'
    BY <1>1, <1>3, <2>1, JobFacts DEF PoolInv, EndedReleased, Known, j
  <2> QED BY <2>1, <2>2, <2>3, <2>4, <2>5, <2>6 DEF PoolInv
<1>5. CASE c \notin Sync
  <2>1. running' = running \union {c} /\ queue' = queue /\ doing' = doing /\ over' = over
    BY <1>1, <1>5
  <2>2. \A x : (Queued(x)' <=> Queued(x)) /\ (Begun(x)' <=> Begun(x)) /\ (Known(x)' <=> Known(x))
    BY <2>1 DEF Queued, Begun, Known, In
  <2>3. PoolTypes' /\ OneJob'
    BY <1>1, <2>1, <2>2 DEF PoolInv, PoolTypes, OneJob, Once, A!Place
  <2>4. JobsAgree'
    <3> SUFFICES ASSUME NEW d \in A!Calls
                 PROVE  JobsAgree!(d)'
      BY DEF JobsAgree
    <3> QED BY <1>1, <1>2, <1>3, <2>1, <2>2, JobFacts DEF PoolInv, JobsAgree, Known, j
  <2>5. RunningAgrees'
    BY <1>1, <1>3, <1>5, <2>1, <2>2 DEF PoolInv, PoolTypes, RunningAgrees
  <2>6. LocksAreHeld'
    BY <1>1, <2>1 DEF PoolInv, LocksAreHeld, Holding
  <2>7. EndedReleased'
    BY <1>1, <1>3, <2>1, <2>2 DEF PoolInv, EndedReleased
  <2> QED BY <2>3, <2>4, <2>5, <2>6, <2>7 DEF PoolInv
<1> QED BY <1>4, <1>5

LEMMA ConcludeStep ==
  ASSUME PoolInv, NoneAssumption, NEW c \in A!Calls, A!CoroutineEnds(c) \/ A!SyncToolSeen(c)
  PROVE  PoolInv'
<1> DEFINE j == <<"release", c>>
<1>1. /\ epc[c] = "working" /\ epc' = [epc EXCEPT ![c] = "releasing"] /\ A!Submit(j)
      /\ ewriter' = ewriter /\ ereaders' = ereaders
      /\ \E how \in A!Ended : result' = [result EXCEPT ![c] = how]
  BY DEF A!CoroutineEnds, A!SyncToolSeen, A!Conclude, A!Go, A!locks
<1>2. ~Queued(<<"tool", c>>) /\ ~Begun(<<"tool", c>>) /\ running' = running \ {c}
  <2>1. CASE A!CoroutineEnds(c)
    BY <2>1 DEF A!CoroutineEnds, PoolInv, JobsAgree, Known
  <2>2. CASE A!SyncToolSeen(c)
    <3>1. <<"tool", c>> \in over /\ running' = running
      BY <2>2 DEF A!SyncToolSeen
    <3>2. ~Queued(<<"tool", c>>) /\ ~Begun(<<"tool", c>>) /\ c \in Sync
      BY <3>1, JobFacts DEF PoolInv, OneJob, JobsAgree, Known
    <3> QED BY <3>1, <3>2 DEF PoolInv, RunningAgrees
  <2> QED BY <2>1, <2>2
<1>3. j \in A!Job /\ ~Known(j)
  BY <1>1, JobFacts DEF PoolInv, JobsAgree
<1>4. /\ queue' \in Seq(A!Job) /\ OneJob'
      /\ \A x : Queued(x)' <=> Queued(x) \/ x = j
      /\ \A x : Begun(x)' <=> Begun(x)
      /\ doing' = doing /\ over' = over
  BY <1>1, <1>3, SubmitEffect DEF PoolInv
<1> HIDE DEF j
<1>5. /\ result' \in [A!Calls -> A!Status] /\ result'[c] \in A!Ended
      /\ \A d \in A!Calls : d # c => result'[d] = result[d]
  <2>1. PICK how \in A!Ended : result' = [result EXCEPT ![c] = how]
    BY <1>1
  <2> QED BY <2>1 DEF PoolInv, PoolTypes, A!Ended, A!Status
<1>6. /\ epc' \in [A!Calls -> A!Place]
      /\ \A d \in A!Calls : epc'[d] = IF d = c THEN "releasing" ELSE epc[d]
  BY <1>1 DEF PoolInv, PoolTypes, A!Place
<1>7. PoolTypes'
  BY <1>1, <1>2, <1>4, <1>5, <1>6 DEF PoolInv, PoolTypes
<1>8. JobsAgree'
  <2> SUFFICES ASSUME NEW d \in A!Calls
               PROVE  JobsAgree!(d)'
    BY DEF JobsAgree
  <2>1. CASE d = c
    BY <1>1, <1>2, <1>3, <1>4, <1>6, <2>1, JobFacts DEF PoolInv, JobsAgree, Known, j
  <2>2. CASE d # c
    BY <1>1, <1>3, <1>4, <1>5, <1>6, <2>2, JobFacts DEF PoolInv, JobsAgree, Known, j
  <2> QED BY <2>1, <2>2
<1>9. RunningAgrees'
  BY <1>2, <1>4, <1>6 DEF PoolInv, PoolTypes, RunningAgrees
<1>10. LocksAreHeld'
  BY <1>1, <1>4 DEF PoolInv, LocksAreHeld, Holding
<1>11. EndedReleased'
  BY <1>4, <1>5, <1>6, JobFacts DEF PoolInv, EndedReleased, Known, j
<1> QED BY <1>4, <1>7, <1>8, <1>9, <1>10, <1>11 DEF PoolInv

LEMMA SyncToolEndsStep ==
  ASSUME PoolInv, NoneAssumption, NEW w \in Worker, NEW c \in A!Calls, A!SyncToolEnds(w, c)
  PROVE  PoolInv'
<1> DEFINE j == <<"tool", c>>
<1>1. /\ doing[w] = j /\ A!JobDone(w) /\ running' = running \ {c}
      /\ epc' = epc /\ result' = result /\ ewriter' = ewriter /\ ereaders' = ereaders
  BY DEF A!SyncToolEnds, A!locks
<1>2. j \in A!Job /\ j # None
  BY JobFacts, NoneAssumption
<1>3. /\ queue' = queue /\ OneJob'
      /\ doing' \in [Worker -> A!Job \union {None}] /\ over' \subseteq A!Job
      /\ over' = over \union {j} /\ j \notin over
      /\ \A x : Queued(x)' <=> Queued(x)
      /\ \A x \in A!Job : Begun(x)' <=> Begun(x) /\ x # j
  BY <1>1, <1>2, DoneEffect DEF PoolInv
<1>4. Begun(j)
  BY <1>1 DEF Begun
<1> HIDE DEF j
<1>5. \A x \in A!Job : Known(x)' <=> Known(x)
  BY <1>2, <1>3, <1>4 DEF Known
<1>6. PoolTypes'
  BY <1>1, <1>3 DEF PoolInv, PoolTypes
<1>7. JobsAgree'
  <2> SUFFICES ASSUME NEW d \in A!Calls
               PROVE  JobsAgree!(d)'
    BY DEF JobsAgree
  <2> QED BY <1>1, <1>2, <1>3, <1>5, JobFacts DEF PoolInv, JobsAgree, j
<1>8. RunningAgrees'
  BY <1>1, <1>2, <1>3, JobFacts DEF PoolInv, PoolTypes, RunningAgrees, j
<1>9. LocksAreHeld'
  BY <1>1, <1>3, JobFacts DEF PoolInv, LocksAreHeld, Holding, j
<1>10. EndedReleased'
  BY <1>1, <1>3, <1>5, JobFacts DEF PoolInv, EndedReleased
<1> QED BY <1>3, <1>6, <1>7, <1>8, <1>9, <1>10 DEF PoolInv

LEMMA UnlockStep ==
  ASSUME PoolInv, NoneAssumption, NEW w \in Worker, NEW c \in A!Calls, A!Unlock(w, c)
  PROVE  PoolInv'
<1> DEFINE j == <<"release", c>>
           k == ResourceOf[c]
<1>1. /\ doing[w] = j /\ A!JobDone(w)
      /\ epc' = epc /\ result' = result /\ running' = running
      /\ ewriter' = IF c \in Writing /\ ewriter[k] = w THEN [ewriter EXCEPT ![k] = None]
                    ELSE ewriter
      /\ ereaders' = [ereaders EXCEPT ![k] = @ \ {c}]
  BY DEF A!Unlock
<1>2. j \in A!Job /\ j # None /\ k \in A!Keys
  BY JobFacts, NoneAssumption
<1>3. /\ queue' = queue /\ OneJob'
      /\ doing' \in [Worker -> A!Job \union {None}] /\ over' \subseteq A!Job
      /\ over' = over \union {j} /\ j \notin over
      /\ \A x : Queued(x)' <=> Queued(x)
      /\ \A x \in A!Job : Begun(x)' <=> Begun(x) /\ x # j
  BY <1>1, <1>2, DoneEffect DEF PoolInv
<1>4. Begun(j)
  BY <1>1 DEF Begun
<1> HIDE DEF j, k
<1>5. \A x \in A!Job : Known(x)' <=> Known(x)
  BY <1>2, <1>3, <1>4 DEF Known
<1>6. /\ ewriter' \in [A!Keys -> Worker \union {None}]
      /\ \A e \in A!Keys : ewriter'[e] = IF e = k /\ c \in Writing /\ ewriter[k] = w
                                         THEN None ELSE ewriter[e]
  BY <1>1, <1>2 DEF PoolInv, PoolTypes
<1>7. /\ ereaders' \in [A!Keys -> SUBSET A!Calls]
      /\ \A e \in A!Keys : ereaders'[e] = IF e = k THEN ereaders[e] \ {c} ELSE ereaders[e]
  BY <1>1, <1>2 DEF PoolInv, PoolTypes
<1>8. PoolTypes'
  BY <1>1, <1>3, <1>6, <1>7 DEF PoolInv, PoolTypes
<1>9. JobsAgree'
  <2> SUFFICES ASSUME NEW d \in A!Calls
               PROVE  JobsAgree!(d)'
    BY DEF JobsAgree
  <2> QED BY <1>1, <1>2, <1>3, <1>5, JobFacts DEF PoolInv, JobsAgree, j
<1>10. RunningAgrees'
  BY <1>1, <1>2, <1>3, JobFacts DEF PoolInv, PoolTypes, RunningAgrees, j
<1>11. EndedReleased'
  BY <1>1, <1>3, <1>5, JobFacts DEF PoolInv, EndedReleased
<1>12. Holding(c) /\ \A d \in A!Calls : Holding(d)' <=> Holding(d) /\ d # c
  <2>1. <<"acquire", c>> \in over
    BY <1>4 DEF PoolInv, JobsAgree, Known, j
  <2> QED BY <1>2, <1>3, <2>1, JobFacts DEF Holding, j
<1>13. LocksAreHeld'
  <2> USE DEF LocksAreHeld
  <2>1. c \in Writing => \A d \in A!Calls : Holding(d) /\ d \in Writing /\ ResourceOf[d] = k => d = c
    BY <1>12 DEF PoolInv, k
  <2> SUFFICES ASSUME NEW d \in A!Calls
               PROVE  LocksAreHeld!(d)'
    OBVIOUS
  <2>2. LocksAreHeld!(d) /\ ResourceOf[d] \in A!Keys /\ k = ResourceOf[c]
    BY JobFacts DEF PoolInv, k
  <2>3. CASE d = c
    BY <1>2, <1>6, <1>7, <1>12, <2>1, <2>2, <2>3
  <2>4. CASE d # c
    BY <1>2, <1>6, <1>7, <1>12, <2>1, <2>2, <2>4
  <2> QED BY <2>3, <2>4
<1> QED BY <1>3, <1>8, <1>9, <1>10, <1>11, <1>13 DEF PoolInv

LEMMA ReturnStep ==
  ASSUME PoolInv, NEW c \in A!Calls, A!Return(c)
  PROVE  PoolInv'
<1>1. /\ <<"release", c>> \in over /\ epc[c] = "releasing" /\ epc' = [epc EXCEPT ![c] = "done"]
      /\ result' = result /\ ewriter' = ewriter /\ ereaders' = ereaders /\ running' = running
      /\ queue' = queue /\ doing' = doing /\ over' = over
  BY DEF A!Return, A!Go, A!locks, A!pool
<1>2. /\ epc' \in [A!Calls -> A!Place]
      /\ \A d \in A!Calls : epc'[d] = IF d = c THEN "done" ELSE epc[d]
  BY <1>1 DEF PoolInv, PoolTypes, A!Place
<1>3. \A x : (Queued(x)' <=> Queued(x)) /\ (Begun(x)' <=> Begun(x)) /\ (Known(x)' <=> Known(x))
  BY <1>1 DEF Queued, Begun, Known, In
<1>4. PoolTypes' /\ OneJob'
  BY <1>1, <1>2, <1>3 DEF PoolInv, PoolTypes, OneJob, Once
<1>5. JobsAgree' /\ RunningAgrees'
  BY <1>1, <1>2, <1>3 DEF PoolInv, PoolTypes, JobsAgree, RunningAgrees
<1>6. LocksAreHeld'
  BY <1>1 DEF PoolInv, LocksAreHeld, Holding
<1>7. EndedReleased'
  BY <1>1, <1>2, <1>3 DEF PoolInv, EndedReleased
<1> QED BY <1>4, <1>5, <1>6, <1>7 DEF PoolInv

LEMMA TimeoutStep ==
  ASSUME PoolInv, NoneAssumption, NEW c \in A!Calls, A!Timeout(c)
  PROVE  PoolInv'
<1> DEFINE late == result' = [result EXCEPT ![c] = "TIMED_OUT"]
<1>1. ewriter' = ewriter /\ ereaders' = ereaders /\ doing' = doing /\ over' = over /\ late
  BY DEF A!Timeout, A!TimeoutAcquiring, A!TimeoutWorking, A!TimeoutReleasing, A!Conclude, A!locks
<1>2. LocksAreHeld'
  BY <1>1 DEF PoolInv, LocksAreHeld, Holding
<1>3. /\ result' \in [A!Calls -> A!Status] /\ result'[c] = "TIMED_OUT"
      /\ \A d \in A!Calls : d # c => result'[d] = result[d]
  BY <1>1 DEF PoolInv, PoolTypes, A!Status
<1>4. CASE A!TimeoutAcquiring(c) \/ A!TimeoutReleasing(c)
  <2>1. PICK j \in {<<"acquire", c>>, <<"release", c>>} : queue' = A!Withdraw(j)
    BY <1>4 DEF A!TimeoutAcquiring, A!TimeoutReleasing
  <2>2. /\ queue' \in Seq(A!Job) /\ OneJob'
        /\ \A x : Queued(x)' <=> Queued(x) /\ x # j
        /\ \A x : Begun(x)' <=> Begun(x)
    BY <1>1, <2>1, WithdrawEffect DEF PoolInv
  <2>3. /\ epc[c] \in {"acquiring", "releasing"} /\ epc' = [epc EXCEPT ![c] = "done"]
        /\ running' = running
    BY <1>4 DEF A!TimeoutAcquiring, A!TimeoutReleasing, A!Go
  <2>4. /\ epc' \in [A!Calls -> A!Place]
        /\ \A d \in A!Calls : epc'[d] = IF d = c THEN "done" ELSE epc[d]
    BY <2>3 DEF PoolInv, PoolTypes, A!Place
  <2>5. \A x : Known(x)' => Known(x)
    BY <1>1, <2>2 DEF Known
  <2>6. PoolTypes'
    BY <1>1, <1>3, <2>2, <2>3, <2>4 DEF PoolInv, PoolTypes
  <2>7. JobsAgree'
    <3> SUFFICES ASSUME NEW d \in A!Calls
                 PROVE  JobsAgree!(d)'
      BY DEF JobsAgree
    <3>1. CASE d = c
      BY <1>1, <1>3, <2>2, <2>3, <2>4, <2>5, <3>1, JobFacts DEF PoolInv, JobsAgree
    <3>2. CASE d # c
      BY <1>1, <1>3, <2>2, <2>4, <2>5, <3>2, JobFacts DEF PoolInv, JobsAgree
    <3> QED BY <3>1, <3>2
  <2>8. RunningAgrees'
    BY <2>2, <2>3, <2>4 DEF PoolInv, PoolTypes, RunningAgrees
  <2>9. EndedReleased'
    BY <1>1, <1>3, <2>4, <2>5 DEF PoolInv, EndedReleased, A!Ended
  <2> QED BY <1>2, <2>2, <2>6, <2>7, <2>8, <2>9 DEF PoolInv
<1>5. CASE A!TimeoutWorking(c)
  <2> DEFINE j == <<"release", c>>
             q == A!Withdraw(<<"tool", c>>)
  <2>1. /\ epc[c] = "working" /\ epc' = [epc EXCEPT ![c] = "releasing"] /\ queue' = Append(q, j)
        /\ running' = IF c \in Sync THEN running ELSE running \ {c}
    BY <1>5 DEF A!TimeoutWorking, A!Conclude, A!Go
  <2>2. j \in A!Job /\ ~Known(j)
    BY <2>1, JobFacts DEF PoolInv, JobsAgree
  <2>3. /\ q \in Seq(A!Job) /\ Once(q)
        /\ \A x : In(q, x) <=> Queued(x) /\ x # <<"tool", c>>
    BY Withdrawn DEF PoolInv, PoolTypes, OneJob, Queued
  <2> HIDE DEF q, j
  <2>4. /\ queue' \in Seq(A!Job) /\ Once(queue')
        /\ \A x : In(queue', x) <=> (Queued(x) /\ x # <<"tool", c>>) \/ x = j
    BY <2>1, <2>2, <2>3, Appended DEF Known
  <2>5. \A x : /\ Queued(x)' <=> (Queued(x) /\ x # <<"tool", c>>) \/ x = j
               /\ Begun(x)' <=> Begun(x)
    BY <1>1, <2>4 DEF Queued, Begun
  <2>6. OneJob'
    <3>1. Once(queue)'
      BY <2>4 DEF Once
    <3> QED BY <1>1, <2>2, <2>5, <3>1 DEF PoolInv, OneJob, Known
  <2>7. /\ epc' \in [A!Calls -> A!Place]
        /\ \A d \in A!Calls : epc'[d] = IF d = c THEN "releasing" ELSE epc[d]
    BY <2>1 DEF PoolInv, PoolTypes, A!Place
  <2>8. PoolTypes'
    BY <1>1, <1>3, <2>1, <2>4, <2>7 DEF PoolInv, PoolTypes
  <2>9. JobsAgree'
    <3> SUFFICES ASSUME NEW d \in A!Calls
                 PROVE  JobsAgree!(d)'
      BY DEF JobsAgree
    <3>1. CASE d = c
      BY <1>1, <1>3, <2>1, <2>2, <2>5, <2>7, <3>1, JobFacts DEF PoolInv, JobsAgree, Known, j
    <3>2. CASE d # c
      BY <1>1, <1>3, <2>2, <2>5, <2>7, <3>2, JobFacts DEF PoolInv, JobsAgree, Known, j
    <3> QED BY <3>1, <3>2
  <2>10. RunningAgrees'
    BY <2>1, <2>5, <2>7 DEF PoolInv, PoolTypes, RunningAgrees
  <2>11. EndedReleased'
    BY <1>1, <1>3, <2>5, <2>7, JobFacts DEF PoolInv, EndedReleased, Known, j
  <2> QED BY <1>2, <2>6, <2>8, <2>9, <2>10, <2>11 DEF PoolInv
<1> QED BY <1>4, <1>5 DEF A!Timeout

LEMMA PoolStep ==
  ASSUME PoolInv, NoneAssumption, [A!Next]_executorVars
  PROVE  PoolInv'
<1>1. CASE UNCHANGED executorVars
  <2>1. \A x : (Queued(x)' <=> Queued(x)) /\ (Begun(x)' <=> Begun(x)) /\ (Known(x)' <=> Known(x))
    BY <1>1 DEF Queued, Begun, Known, In, executorVars
  <2> QED BY <1>1, <2>1 DEF executorVars, PoolInv, PoolTypes, OneJob, Once, JobsAgree,
                            RunningAgrees, LocksAreHeld, Holding, EndedReleased
<1> QED BY <1>1, EnterStep, BeginStep, LockStep, LockFailsStep, CallToolStep, ConcludeStep,
           SyncToolEndsStep, UnlockStep, ReturnStep, TimeoutStep
        DEF A!Next, A!Acquiring, A!Releasing

LEMMA PoolInit == A!Init /\ NoneAssumption => PoolInv
<1> SUFFICES ASSUME A!Init, NoneAssumption PROVE PoolInv
  OBVIOUS
<1>1. queue \in Seq(A!Job) /\ DOMAIN queue = {}
  BY EmptySeq DEF A!Init
<1>2. \A x \in A!Job : ~Known(x)
  BY <1>1, NoneAssumption DEF A!Init, Known, Queued, In, Begun
<1>3. PoolTypes /\ OneJob
  BY <1>1, <1>2 DEF A!Init, PoolTypes, OneJob, Once, Known, A!Place, A!Status
<1> QED BY <1>1, <1>2, <1>3, JobFacts
        DEF A!Init, PoolInv, JobsAgree, RunningAgrees, LocksAreHeld, Holding, EndedReleased, Known,
            A!Ended

\* Conflicting calls are kept apart unless one of them has outlived its timeout, and a
\* call that has ended by itself keeps no READ lock: the locks are taken for a call before its
\* tool starts and given back after it, whichever thread does it.
LEMMA LocksKeptFollows == PoolInv => LocksKept
<1> SUFFICES ASSUME PoolInv PROVE LocksKept
  OBVIOUS
<1> USE DEF PoolInv
<1>1. A!Exclusion
  <2> SUFFICES ASSUME NEW c \in running, NEW d \in running, A!Conflicting(c, d),
                      ~A!Overstays(c), ~A!Overstays(d)
               PROVE  FALSE
    BY DEF A!Exclusion
  <2>1. ASSUME NEW e \in running, ~A!Overstays(e) PROVE e \in A!Calls /\ Holding(e)
    BY <2>1 DEF PoolTypes, RunningAgrees, JobsAgree, A!Overstays, Holding, Known
  <2>2. /\ c \in A!Calls /\ d \in A!Calls /\ Holding(c) /\ Holding(d) /\ c # d
        /\ ResourceOf[c] = ResourceOf[d] /\ (c \in Writing \/ d \in Writing)
    BY <2>1 DEF A!Conflicting
  <2> QED BY <2>2, JobFacts DEF LocksAreHeld
<1>2. A!ReadLocksReturned
  BY JobFacts DEF A!ReadLocksReturned, EndedReleased, LocksAreHeld, Holding, Known
<1> QED BY <1>1, <1>2 DEF LocksKept

-------------------------------------------------------------------------------
(* The synchronous executor.  A call's outcome is set once, when its locked  *)
(* part is over; its status is that outcome or a timeout; and the counters   *)
(* are right while the calls under way belong to one execute().              *)

BatchTypes ==
  /\ brunning \subseteq S!ToolCalls /\ bsettled \subseteq S!ToolCalls
  /\ outcome \in [S!ToolCalls -> {"none", "value", "error", "timeout", "exit"}]
  /\ bstage \in [S!ToolCalls -> {"new", "queued", "begun", "done"}]
  /\ bstatus \in [S!ToolCalls -> {"none", "COMPLETED", "FAILED", "TIMED_OUT", "EXIT"}]
  /\ DOMAIN answer = S!Caller

OutcomesAgree ==
  /\ brunning \intersect bsettled = {}
  /\ \A c \in S!ToolCalls :
       /\ outcome[c] = "none" <=> c \notin bsettled
       /\ bstage[c] = "done" =>
            \/ outcome[c] # "none" /\ bstatus[c] = S!StatusOf[outcome[c]]
            \/ c \in TimedThread /\ bstatus[c] = "TIMED_OUT"

AnswersAgree ==
  \A b \in S!Caller : answer[b] # S!Waiting =>
    /\ \A c \in S!Range(Batches[b]) : bstage[c] = "done"
    /\ answer[b] # S!Raised => answer[b] = S!Answered(b)

OneUnder == \A b, d \in S!Caller : S!Under(b) /\ S!Under(d) => b = d
Counting ==
  /\ IsFiniteSet(S!UnderWay)
  /\ ~overlapped => OneUnder /\ active = Cardinality(S!UnderWay) /\ peak \in active..MaxWorkers

BatchInv == BatchTypes /\ OutcomesAgree /\ AnswersAgree /\ Counting

LEMMA SameCardinality == \A T : S!Cardinality(T) = Cardinality(T)
BY DEF S!Cardinality, Cardinality

\* A call belongs to one batch.
LEMMA CallOf ==
  ASSUME BatchesAssumption, NEW c \in S!ToolCalls
  PROVE  /\ S!Of(c) \in S!Caller /\ c \in S!Range(Batches[S!Of(c)])
         /\ \A b \in S!Caller : c \in S!Range(Batches[b]) => b = S!Of(c)
<1>1. PICK b \in S!Caller : c \in S!Range(Batches[b])
  BY DEF S!ToolCalls
<1>2. S!Of(c) \in S!Caller /\ c \in S!Range(Batches[S!Of(c)])
  BY <1>1 DEF S!Of
<1>3. \A d, e \in S!Caller : c \in S!Range(Batches[d]) /\ c \in S!Range(Batches[e]) => d = e
  BY BatchesAssumption DEF S!Caller, S!Range
<1> QED BY <1>2, <1>3

LEMMA BatchCalls == \A b \in S!Caller : S!Range(Batches[b]) \subseteq S!ToolCalls
BY DEF S!ToolCalls

LEMMA BatchInit == S!ExecInit /\ WorkersAssumption => BatchInv
<1> SUFFICES ASSUME S!ExecInit, WorkersAssumption PROVE BatchInv
  OBVIOUS
<1>1. S!UnderWay = {}
  BY DEF S!ExecInit, S!UnderWay
<1>2. Counting
  BY <1>1, FS_EmptySet, WorkersAssumption, BatchCalls DEF Counting, OneUnder, S!ExecInit, S!Under
<1>3. BatchTypes
  BY DEF S!ExecInit, S!Locks!Init, BatchTypes
<1>4. OutcomesAgree
  BY DEF S!ExecInit, S!Locks!Init, OutcomesAgree
<1>5. AnswersAgree
  BY DEF S!ExecInit, AnswersAgree
<1> QED BY <1>2, <1>3, <1>4, <1>5 DEF BatchInv

\* A call in the pool keeps its execute() under way.
LEMMA PoolUnder ==
  ASSUME BatchInv, BatchesAssumption, NEW c \in S!ToolCalls, bstage[c] \notin {"new", "done"}
  PROVE  S!Under(S!Of(c))
BY CallOf DEF BatchInv, AnswersAgree, S!Under

LEMMA ExecuteStep ==
  ASSUME BatchInv, BatchesAssumption, WorkersAssumption, NEW b \in S!Caller, S!Execute(b)
  PROVE  BatchInv'
<1>1. /\ \A c \in S!Range(Batches[b]) : bstage[c] = "new"
      /\ bstage' = [c \in S!ToolCalls |->
                      IF c \in S!Range(Batches[b]) THEN "queued" ELSE bstage[c]]
      /\ active' = 0 /\ peak' = 0
      /\ overlapped' = (overlapped \/ \E other \in S!Caller : S!Under(other))
      /\ UNCHANGED <<brunning, bsettled, outcome, bstatus, answer>>
  BY DEF S!Execute
<1>2. /\ bstage' \in [S!ToolCalls -> {"new", "queued", "begun", "done"}]
      /\ \A c \in S!ToolCalls : /\ bstage'[c] = "begun" <=> bstage[c] = "begun"
                                /\ bstage'[c] = "done" <=> bstage[c] = "done"
                                /\ c \notin S!Range(Batches[b]) => bstage'[c] = bstage[c]
  <2>1. \A c \in S!ToolCalls :
          bstage'[c] = IF c \in S!Range(Batches[b]) THEN "queued" ELSE bstage[c]
    BY <1>1
  <2>2. \A c \in S!ToolCalls : bstage[c] \in {"new", "queued", "begun", "done"}
    BY DEF BatchInv, BatchTypes
  <2>3. bstage' \in [S!ToolCalls -> {"new", "queued", "begun", "done"}]
    BY <1>1, <2>2
  <2> QED BY <1>1, <2>1, <2>3
<1>3. BatchTypes'
  BY <1>1, <1>2 DEF BatchInv, BatchTypes
<1>4. OutcomesAgree'
  BY <1>1, <1>2 DEF BatchInv, OutcomesAgree
<1>5. AnswersAgree'
  <2>1. \A d : S!Answered(d)' = S!Answered(d)
    BY <1>1 DEF S!Answered
  <2>2. \A d \in S!ToolCalls : bstage[d] = "done" => bstage'[d] = "done"
    BY <1>1, <1>2
  <2> QED BY <1>1, <2>1, <2>2, BatchCalls DEF BatchInv, AnswersAgree
<1>6. S!UnderWay' = S!UnderWay
  <2>1. \A c \in S!ToolCalls : bstage'[c] = "begun" <=> bstage[c] = "begun"
    BY <1>2
  <2> QED BY <2>1 DEF S!UnderWay
<1>7. Counting'
  <2> SUFFICES ASSUME ~overlapped'
               PROVE  OneUnder' /\ active' = Cardinality(S!UnderWay') /\ peak' \in active'..MaxWorkers
    BY <1>6 DEF BatchInv, Counting
  <2>1. \A d \in S!Caller : ~S!Under(d)
    BY <1>1
  <2>2. S!UnderWay = {}
    BY <2>1, PoolUnder, CallOf DEF S!UnderWay
  <2>3. \A d \in S!Caller : S!Under(d)' => d = b
    <3> SUFFICES ASSUME NEW d \in S!Caller, S!Under(d)', d # b PROVE FALSE
      OBVIOUS
    <3>1. PICK c \in S!Range(Batches[d]) : bstage'[c] # "new"
      BY DEF S!Under
    <3>2. bstage'[c] = bstage[c]
      <4>1. c \in S!ToolCalls
        BY <3>1, BatchCalls
      <4>2. c \notin S!Range(Batches[b])
        BY <3>1, <4>1, CallOf
      <4> QED BY <1>2, <4>1, <4>2
    <3> QED BY <1>1, <2>1, <3>1, <3>2 DEF S!Under
  <2> QED BY <1>1, <1>6, <2>2, <2>3, FS_EmptySet, WorkersAssumption DEF OneUnder
<1> QED BY <1>3, <1>4, <1>5, <1>7 DEF BatchInv

LEMMA BeginCallStep ==
  ASSUME BatchInv, BatchesAssumption, WorkersAssumption, NEW c \in S!ToolCalls, S!Begin(c)
  PROVE  BatchInv'
<1>1. /\ S!Busy(S!Of(c)) < MaxWorkers /\ bstage[c] = "queued"
      /\ bstage' = [bstage EXCEPT ![c] = "begun"]
      /\ active' = active + 1 /\ peak' = IF active + 1 > peak THEN active + 1 ELSE peak
      /\ UNCHANGED <<brunning, bsettled, outcome, bstatus, answer, overlapped>>
  BY DEF S!Begin, S!Oldest
<1>2. /\ bstage' \in [S!ToolCalls -> {"new", "queued", "begun", "done"}]
      /\ \A d \in S!ToolCalls : bstage'[d] = IF d = c THEN "begun" ELSE bstage[d]
  BY <1>1 DEF BatchInv, BatchTypes
<1>3. BatchTypes'
  BY <1>1, <1>2 DEF BatchInv, BatchTypes
<1>4. OutcomesAgree'
  BY <1>1, <1>2 DEF BatchInv, OutcomesAgree
<1>5. AnswersAgree'
  <2>1. \A d : S!Answered(d)' = S!Answered(d)
    BY <1>1 DEF S!Answered
  <2>2. \A d \in S!ToolCalls : bstage[d] = "done" => bstage'[d] = "done"
    BY <1>1, <1>2
  <2> QED BY <1>1, <2>1, <2>2, BatchCalls DEF BatchInv, AnswersAgree
<1>6. S!UnderWay' = S!UnderWay \union {c} /\ c \notin S!UnderWay
  BY <1>1, <1>2 DEF S!UnderWay
<1>7. /\ IsFiniteSet(S!UnderWay) /\ IsFiniteSet(S!UnderWay') /\ Cardinality(S!UnderWay) \in Nat
      /\ Cardinality(S!UnderWay') = Cardinality(S!UnderWay) + 1
  BY <1>6, FS_AddElement, FS_CardinalityType DEF BatchInv, Counting
<1>8. Counting'
  <2> SUFFICES ASSUME ~overlapped
               PROVE  OneUnder' /\ active' = Cardinality(S!UnderWay') /\ peak' \in active'..MaxWorkers
    BY <1>1, <1>7 DEF Counting
  <2>1. OneUnder /\ active = Cardinality(S!UnderWay) /\ peak \in active..MaxWorkers
    BY DEF BatchInv, Counting
  <2>2. S!Under(S!Of(c))
    BY <1>1, PoolUnder
  <2>3. S!UnderWay = S!UnderWay \intersect S!Range(Batches[S!Of(c)])
    <3>1. \A d \in S!UnderWay : S!Of(d) = S!Of(c)
      BY <2>1, <2>2, PoolUnder, CallOf DEF S!UnderWay, OneUnder
    <3> QED BY <3>1, CallOf, BatchCalls DEF S!UnderWay
  <2>4. Cardinality(S!UnderWay) < MaxWorkers
    <3>1. S!Busy(S!Of(c)) = Cardinality(S!UnderWay)
      BY <2>3, SameCardinality DEF S!Busy
    <3> QED BY <1>1, <3>1
  <2>5. OneUnder'
    <3>1. \A d \in S!Caller : S!Under(d)' => S!Under(d)
      BY <1>1, <1>2, <2>2, CallOf, BatchCalls DEF S!Under
    <3> QED BY <2>1, <3>1 DEF OneUnder
  <2> QED BY <1>1, <1>7, <2>1, <2>4, <2>5, WorkersAssumption
<1> QED BY <1>3, <1>4, <1>5, <1>8 DEF BatchInv

LEMMA ConcludesStep ==
  ASSUME BatchInv, BatchesAssumption, WorkersAssumption, NEW c \in S!ToolCalls,
         S!Seen(c) \/ S!TimesOut(c)
  PROVE  BatchInv'
<1>1. PICK how \in {"COMPLETED", "FAILED", "TIMED_OUT", "EXIT"} :
        /\ \/ outcome[c] # "none" /\ how = S!StatusOf[outcome[c]]
           \/ c \in TimedThread /\ how = "TIMED_OUT"
        /\ S!Concludes(c, how)
  <2>1. CASE S!Seen(c)
    <3>1. S!StatusOf[outcome[c]] \in {"COMPLETED", "FAILED", "TIMED_OUT", "EXIT"}
      BY <2>1 DEF S!Seen, S!StatusOf, BatchInv, BatchTypes
    <3> QED BY <2>1, <3>1 DEF S!Seen
  <2>2. CASE S!TimesOut(c)
    BY <2>2 DEF S!TimesOut
  <2> QED BY <2>1, <2>2
<1>2. /\ bstage[c] = "begun" /\ bstage' = [bstage EXCEPT ![c] = "done"]
      /\ bstatus' = [bstatus EXCEPT ![c] = how] /\ active' = active - 1
      /\ UNCHANGED <<brunning, bsettled, outcome, answer, peak, overlapped>>
  BY <1>1 DEF S!Concludes
<1>3. /\ bstage' \in [S!ToolCalls -> {"new", "queued", "begun", "done"}]
      /\ \A d \in S!ToolCalls : bstage'[d] = IF d = c THEN "done" ELSE bstage[d]
      /\ bstatus' \in [S!ToolCalls -> {"none", "COMPLETED", "FAILED", "TIMED_OUT", "EXIT"}]
      /\ \A d \in S!ToolCalls : bstatus'[d] = IF d = c THEN how ELSE bstatus[d]
  BY <1>2 DEF BatchInv, BatchTypes
<1>4. BatchTypes'
  BY <1>2, <1>3 DEF BatchInv, BatchTypes
<1>5. OutcomesAgree'
  BY <1>1, <1>2, <1>3 DEF BatchInv, OutcomesAgree
<1>6. AnswersAgree'
  <2> SUFFICES ASSUME NEW b \in S!Caller, answer[b] # S!Waiting
               PROVE  /\ \A d \in S!Range(Batches[b]) : bstage'[d] = "done"
                      /\ answer[b] # S!Raised => answer[b] = S!Answered(b)'
    BY <1>2 DEF AnswersAgree
  <2>1. /\ \A d \in S!Range(Batches[b]) : bstage[d] = "done"
        /\ answer[b] # S!Raised => answer[b] = S!Answered(b)
    BY DEF BatchInv, AnswersAgree
  <2>2. \A d \in S!Range(Batches[b]) : bstatus'[d] = bstatus[d] /\ bstage'[d] = "done"
    BY <1>2, <1>3, <2>1, BatchCalls
  <2>3. \A i \in DOMAIN Batches[b] : bstatus'[Batches[b][i]] = bstatus[Batches[b][i]]
    BY <2>2 DEF S!Range
  <2> QED BY <2>1, <2>2, <2>3 DEF S!Answered
<1>7. S!UnderWay' = S!UnderWay \ {c} /\ c \in S!UnderWay
  BY <1>2, <1>3 DEF S!UnderWay
<1>8. /\ IsFiniteSet(S!UnderWay) /\ IsFiniteSet(S!UnderWay') /\ Cardinality(S!UnderWay) \in Nat
      /\ Cardinality(S!UnderWay') = Cardinality(S!UnderWay) - 1
  BY <1>7, FS_RemoveElement, FS_CardinalityType DEF BatchInv, Counting
<1>9. Counting'
  <2>1. \A d \in S!Caller : S!Under(d)' => S!Under(d)
    BY <1>2, <1>3, BatchCalls DEF S!Under
  <2> QED BY <1>2, <1>8, <2>1, WorkersAssumption DEF BatchInv, Counting, OneUnder
<1> QED BY <1>4, <1>5, <1>6, <1>9 DEF BatchInv

LEMMA LockedPartStep ==
  ASSUME BatchInv, NEW c \in S!ToolCalls,
         S!LocksTaken(c) \/ S!ToolEnds(c) \/ S!LocksGivenUp(c)
  PROVE  BatchInv'
<1>1. UNCHANGED <<bstage, bstatus, answer, active, peak, overlapped>>
  BY DEF S!LocksTaken, S!ToolEnds, S!LocksGivenUp, S!pool
<1>2. AnswersAgree' /\ Counting'
  BY <1>1 DEF BatchInv, AnswersAgree, S!Answered, Counting, S!UnderWay, OneUnder, S!Under
<1>3. CASE S!LocksTaken(c)
  BY <1>1, <1>2, <1>3 DEF S!LocksTaken, S!Locks!Start, BatchInv, BatchTypes, OutcomesAgree
<1>4. CASE S!ToolEnds(c) \/ S!LocksGivenUp(c)
  <2>1. PICK how \in {"value", "error", "timeout", "exit"} : outcome' = [outcome EXCEPT ![c] = how]
    BY <1>4 DEF S!ToolEnds, S!LocksGivenUp
  <2>2. /\ bsettled' = bsettled \union {c} /\ c \notin bsettled
        /\ brunning' = brunning \ {c}
    BY <1>4 DEF S!ToolEnds, S!LocksGivenUp, S!Locks!Complete, S!Locks!Abandon, BatchInv,
                OutcomesAgree
  <2>3. /\ outcome' \in [S!ToolCalls -> {"none", "value", "error", "timeout", "exit"}]
        /\ \A d \in S!ToolCalls : outcome'[d] = IF d = c THEN how ELSE outcome[d]
    BY <2>1 DEF BatchInv, BatchTypes
  <2>4. BatchTypes'
    BY <1>1, <2>2, <2>3 DEF BatchInv, BatchTypes
  <2>5. OutcomesAgree'
    BY <1>1, <2>2, <2>3 DEF BatchInv, OutcomesAgree
  <2> QED BY <1>2, <2>4, <2>5 DEF BatchInv
<1> QED BY <1>3, <1>4

LEMMA ReturnBatchStep ==
  ASSUME BatchInv, NEW b \in S!Caller, S!Return(b)
  PROVE  BatchInv'
<1>1. /\ answer[b] = S!Waiting /\ \A c \in S!Range(Batches[b]) : bstage[c] = "done"
      /\ answer' = [answer EXCEPT ![b] = answer'[b]] /\ answer'[b] \in {S!Raised, S!Answered(b)}
      /\ UNCHANGED <<brunning, bsettled, outcome, bstage, bstatus, active, peak, overlapped>>
  BY DEF S!Return, BatchInv, BatchTypes
<1>2. DOMAIN answer' = S!Caller /\ \A d \in S!Caller : d # b => answer'[d] = answer[d]
  BY <1>1 DEF BatchInv, BatchTypes
<1>3. BatchTypes' /\ OutcomesAgree'
  BY <1>1, <1>2 DEF BatchInv, BatchTypes, OutcomesAgree
<1>4. AnswersAgree'
  <2>1. \A d : S!Answered(d)' = S!Answered(d)
    BY <1>1 DEF S!Answered
  <2> QED BY <1>1, <1>2, <2>1 DEF BatchInv, AnswersAgree
<1>5. Counting'
  <2>1. S!UnderWay' = S!UnderWay /\ \A d \in S!Caller : S!Under(d)' => S!Under(d)
    BY <1>1, <1>2 DEF S!UnderWay, S!Under
  <2> QED BY <1>1, <2>1 DEF BatchInv, Counting, OneUnder
<1> QED BY <1>3, <1>4, <1>5 DEF BatchInv

LEMMA BatchStep ==
  ASSUME BatchInv, BatchesAssumption, WorkersAssumption, [S!ExecNext]_batchVars
  PROVE  BatchInv'
<1>1. CASE UNCHANGED batchVars
  BY <1>1 DEF batchVars, BatchInv, BatchTypes, OutcomesAgree, AnswersAgree, S!Answered, Counting,
              S!UnderWay, OneUnder, S!Under
<1>2. CASE S!ExecNext
  <2>1. TimedThread \intersect S!ToolCalls \subseteq S!ToolCalls
    OBVIOUS
  <2>2. \A c \in TimedThread : S!ToolEnds(c) => c \in S!ToolCalls
    BY DEF S!ToolEnds, S!Locks!Complete, BatchInv, BatchTypes
  <2> QED BY <1>2, <2>2, ExecuteStep, BeginCallStep, ConcludesStep, LockedPartStep, ReturnBatchStep
          DEF S!ExecNext, S!Threads
<1> QED BY <1>1, <1>2

\* What execute() answers is the statuses of its calls, which are true; and the counters
\* are those of the one execute() under way.
LEMMA BatchAnsweredFollows ==
  ASSUME BatchInv, BatchesAssumption, WorkersAssumption
  PROVE  BatchAnswered
<1>1. S!AnswersTrue
  <2> SUFFICES ASSUME NEW b \in S!Caller, answer[b] \notin {S!Waiting, S!Raised}
               PROVE  /\ Len(answer[b]) = Len(Batches[b])
                      /\ \A i \in DOMAIN Batches[b] :
                           LET c == Batches[b][i] IN
                           \/ outcome[c] # "none" /\ answer[b][i] = S!StatusOf[outcome[c]]
                           \/ c \in TimedThread /\ answer[b][i] = "TIMED_OUT"
    BY DEF S!AnswersTrue
  <2>1. /\ \A c \in S!Range(Batches[b]) : bstage[c] = "done"
        /\ answer[b] = [i \in DOMAIN Batches[b] |-> bstatus[Batches[b][i]]]
    BY DEF BatchInv, AnswersAgree, S!Answered
  <2>2. Len(Batches[b]) \in Nat /\ DOMAIN Batches[b] = 1..Len(Batches[b])
    BY BatchesAssumption DEF S!Caller
  <2>3. Len(answer[b]) = Len(Batches[b])
    BY <2>1, <2>2
  <2>4. \A i \in DOMAIN Batches[b] :
          /\ Batches[b][i] \in S!Range(Batches[b]) /\ Batches[b][i] \in S!ToolCalls
          /\ answer[b][i] = bstatus[Batches[b][i]]
    BY <2>1, BatchCalls DEF S!Range
  <2>5. \A c \in S!Range(Batches[b]) :
          \/ outcome[c] # "none" /\ bstatus[c] = S!StatusOf[outcome[c]]
          \/ c \in TimedThread /\ bstatus[c] = "TIMED_OUT"
    BY <2>1, BatchCalls DEF BatchInv, OutcomesAgree
  <2> QED BY <2>3, <2>4, <2>5
<1>2. S!CountedRight
  BY SameCardinality DEF BatchInv, Counting, S!CountedRight
<1> QED BY <1>1, <1>2 DEF BatchAnswered

-------------------------------------------------------------------------------
(* The parts together: a behaviour runs one of them and leaves the others.  *)

LEMMA StepOfParts ==
  [MCNext]_<<threadVars, taskVars, statusVars, lockVars, executorVars, batchVars, scenario>> =>
    /\ [Lock!Next]_threadVars /\ [Async!Next]_taskVars
    /\ [A!Next]_executorVars /\ [S!ExecNext]_batchVars
BY DEF MCNext

\* A waiter of a FIFOLock is never left with nobody to wake it.
THEOREM NobodyWaitsInVain == MCSpec => []NoAbandonedWaiter
<1>1. MCSpec => Lock!Spec
  BY StepOfParts, PTL DEF MCSpec, MCInit, Lock!Spec, Lock!vars, threadVars
<1> QED BY <1>1, NobodyAbandoned, PTL DEF NoAbandonedWaiter

\* Calls whose tools run at the same time do not conflict, unless one of them has overstayed
\* its timeout, and every lock the executor has taken is given back.
THEOREM LocksAreKept == MCSpec => []LocksKept
<1>1. MCInit => PoolInv
  BY PoolInit, NoneAssumption DEF MCInit
<1>2. PoolInv /\ [A!Next]_executorVars => PoolInv'
  BY PoolStep, NoneAssumption
<1> QED BY <1>1, <1>2, StepOfParts, LocksKeptFollows, PTL DEF MCSpec

\* What execute() returns of each call is what its tool came to, or a timeout it has; and
\* its counters are right as long as no two execute() have overlapped.
THEOREM BatchesAnswered == MCSpec => []BatchAnswered
<1>1. MCInit => BatchInv
  BY BatchInit, WorkersAssumption DEF MCInit
<1>2. BatchInv /\ [S!ExecNext]_batchVars => BatchInv'
  BY BatchStep, BatchesAssumption, WorkersAssumption
<1>3. BatchInv => BatchAnswered
  BY BatchAnsweredFollows, BatchesAssumption, WorkersAssumption
<1> QED BY <1>1, <1>2, <1>3, StepOfParts, PTL DEF MCSpec
\* AsyncFIFOLock is a fair lock: the task that has waited longest is given the lock, and
\* a cancelled one has left the queue, whatever the cancellations.
THEOREM LockIsFair == MCSpec => ImplementsFairLock
<1>1. MCInit => Async!Init /\ QueueInv /\ Async!TypeOK
  <2>1. MCInit => Async!Init
    BY DEF MCInit
  <2>2. Async!Init => Async!TypeOK
    BY EmptySeq DEF Async!Init, Async!TypeOK
  <2>3. Async!Init => QueueInv
    <3>1. Async!Init => awaiters = <<>> /\ DOMAIN awaiters = {}
      BY DEF Async!Init
    <3> QED BY <3>1 DEF Async!Init, QueueInv, Granted
  <2> QED BY <2>1, <2>2, <2>3
<1>2. MCSpec => Async!Spec
  BY StepOfParts, PTL DEF MCSpec, MCInit, Async!Spec, Async!vars, taskVars
<1>3. MCSpec => []Async!TypeOK
  BY <1>2, AsyncTypes, PTL
<1>4. Async!TypeOK /\ QueueInv /\ [Async!Next]_taskVars => QueueInv'
  BY QueueInvStep
<1>5. MCInit => Async!Fair!Init
  <2>1. MCInit => QueueInv /\ ~aheld /\ awaiters = <<>>
    BY <1>1 DEF MCInit, Async!Init
  <2>2. awaiters = <<>> => Async!Queue = {}
    BY DEF Async!Queue, Async!Pending
  <2> QED BY <2>1, <2>2, HolderFacts DEF Async!Fair!Init
<1>6. /\ Async!TypeOK /\ QueueInv /\ QueueInv' /\ [Async!Next]_taskVars
      => [Async!Fair!Next]_(Async!Fair!vars)
  BY FairStep, NoTaskAssumption
<1> QED BY <1>1, <1>3, <1>4, <1>5, <1>6, StepOfParts, PTL
        DEF MCSpec, ImplementsFairLock, Async!ImplementsFairLock, Async!Fair!Spec

===============================================================================
