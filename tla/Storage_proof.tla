----------------------------- MODULE Storage_proof -----------------------------
(***************************************************************************)
(* What is kept outside the process, for any number of threads, events,    *)
(* calls, clients, names, webhooks and crashes: the event log loses track  *)
(* of no more events than the calls that were cut short, and keeps the     *)
(* promise of DurableLog but for those; the cache of webhooks agrees with  *)
(* their table; a secret that is cleared is gone; calls on one file do not *)
(* disturb each other.                                                     *)
(***************************************************************************)
EXTENDS MCStorage, FiniteSetTheorems, SequenceTheorems, TLAPS

-------------------------------------------------------------------------------
(* The event log.                                                             *)

\* _read_range() returns a sequence of the same events, of the expected length.
LEMMA RangeType ==
  ASSUME NEW D, NEW s \in Seq(D), NEW m \in Nat, NEW n \in Nat, m <= n
  PROVE  LET r == SubSeq(s, m + 1, Minimum(n, Len(s)))
         IN  /\ r \in Seq(D)
             /\ Len(r) <= Len(s)
             /\ n <= Len(s) => /\ Len(r) = n - m
                               /\ r = SubSeq(s, m + 1, n)
                               /\ \A i \in 1..n - m : r[i] = s[m + i]
<1> DEFINE e == Minimum(n, Len(s))
<1>1. e \in Nat /\ e <= Len(s) /\ e <= n /\ (n <= Len(s) => e = n)
  BY LenProperties DEF Minimum
<1> HIDE DEF e
<1>2. \A i \in m + 1..e : s[i] \in D
  BY <1>1, LenProperties
<1>3. /\ SubSeq(s, m + 1, e) \in Seq(D)
      /\ Len(SubSeq(s, m + 1, e)) = IF m + 1 <= e THEN e - m ELSE 0
      /\ \A i \in 1..e - m : SubSeq(s, m + 1, e)[i] = s[m + i]
  BY <1>1, <1>2, SubSeqProperties
<1>4. /\ Len(SubSeq(s, m + 1, e)) <= Len(s)
      /\ n <= Len(s) => Len(SubSeq(s, m + 1, e)) = n - m
  BY <1>1, <1>3, LenProperties
<1> QED BY <1>1, <1>3, <1>4 DEF e

\* Where the range lies inside the sequence.
LEMMA RangeInside ==
  ASSUME NEW D, NEW s \in Seq(D), NEW m \in Nat, NEW n \in Nat, m <= n, n <= Len(s)
  PROVE  LET r == SubSeq(s, m + 1, Minimum(n, Len(s)))
         IN  /\ Len(r) = n - m
             /\ r = SubSeq(s, m + 1, n)
             /\ \A i \in 1..n - m : r[i] = s[m + i]
BY RangeType

\* Appending a batch of numbered events.
LEMMA BatchType ==
  ASSUME log \in Seq(1..MaxEvents), NEW n \in Nat, written \in Nat,
         written + n <= MaxEvents, MaxEvents \in Nat
  PROVE  LET batch == [i \in 1..n |-> written + i]
         IN  /\ log \o batch \in Seq(1..MaxEvents)
             /\ Len(log \o batch) = Len(log) + n
             /\ \A i \in 1..Len(log) : (log \o batch)[i] = log[i]
             /\ \A i \in 1..n : (log \o batch)[Len(log) + i] = written + i
             /\ SubSeq(log \o batch, 1, Len(log)) = log
<1> DEFINE batch == [i \in 1..n |-> written + i]
<1>1. batch \in Seq(1..MaxEvents) /\ Len(batch) = n
  BY DEF batch
<1>2. log \o batch \in Seq(1..MaxEvents) /\ Len(log \o batch) = Len(log) + n
  BY <1>1, ConcatProperties
<1>3. \A i \in 1..Len(log) + n :
        (log \o batch)[i] = IF i <= Len(log) THEN log[i] ELSE batch[i - Len(log)]
  BY <1>1, ConcatProperties
<1>4. \A i \in 1..n : (log \o batch)[Len(log) + i] = written + i
  BY <1>3, LenProperties
<1>5. SubSeq(log \o batch, 1, Len(log)) = log
  <2>1. /\ SubSeq(log \o batch, 1, Len(log)) \in Seq(1..MaxEvents)
        /\ Len(SubSeq(log \o batch, 1, Len(log))) = Len(log)
        /\ \A i \in 1..Len(log) : SubSeq(log \o batch, 1, Len(log))[i] = log[i]
    BY <1>2, <1>3, LenProperties, SubSeqProperties
  <2> QED BY <2>1, SeqEqual
<1> QED BY <1>2, <1>3, <1>4, <1>5, LenProperties

\* The variables keep their types; the counts need a bound for that.
TypeInv == TypeOK /\ HolderInside /\ CountsBounded

THEOREM TypeCorrect == Spec => []TypeInv
<1> USE EventLogAssumption DEF Step, Holding
<1>1. Init => TypeInv
  BY EmptySeq DEF Init, TypeInv, TypeOK, HolderInside, CountsBounded
<1>2. TypeInv /\ [Next]_vars => TypeInv'
  <2> SUFFICES ASSUME TypeInv, [Next]_vars
               PROVE  TypeInv'
    OBVIOUS
  <2>0. TypeOK /\ HolderInside /\ CountsBounded
    BY DEF TypeInv
  <2>a. Len(log) \in Nat
    BY <2>0 DEF TypeOK
  <2> USE DEF TypeOK, HolderInside, CountsBounded
  <2>1. ASSUME NEW t \in Thread, AppendLog(t) PROVE TypeInv'
    <3>1. PICK n \in 1..MaxEvents - written :
            /\ Begin(t, n, "appended")
            /\ log' = log \o [i \in 1..n |-> written + i]
            /\ written' = written + n
            /\ UNCHANGED <<countFile, count, result, taking>>
      BY <2>1 DEF AppendLog
    <3>2. log' \in Seq(1..MaxEvents) /\ Len(log') = Len(log) + n
      BY <2>0, <3>1, BatchType
    <3>3. TypeOK'
      BY <2>0, <3>1, <3>2 DEF Begin
    <3>4. HolderInside'
      BY <2>0, <3>1 DEF Begin
    <3>5. CountsBounded'
      BY <2>0, <2>a, <3>1, <3>2 DEF Begin
    <3> QED BY <3>3, <3>4, <3>5 DEF TypeInv
  <2>2. ASSUME NEW t \in Thread, AppendCount(t) PROVE TypeInv'
    BY <2>0, <2>2 DEF AppendCount, TypeInv, past
  <2>3. ASSUME NEW t \in Thread, NEW c \in 0..MaxEvents, NEW f \in 0..MaxEvents,
               NEW r \in {Nothing} \union 0..MaxEvents,
               c <= written, f <= written, up, lock = t,
               count' = c, countFile' = f, Return(t, r),
               NEW a \in Nat, NEW b \in Nat, unfiled' = a, shed' = b,
               UNCHANGED <<log, from, got, written, up, crashes>>
        PROVE  TypeInv'
    <3>1. TypeOK'
      BY <2>0, <2>3 DEF Return
    <3>2. HolderInside'
      BY <2>0, <2>3 DEF Return
    <3>3. CountsBounded'
      BY <2>0, <2>3 DEF Return
    <3> QED BY <3>1, <3>2, <3>3 DEF TypeInv
  <2>4. ASSUME NEW t \in Thread,
               WriteCount(t) \/ WriteCountFails(t) \/ TruncateAll(t) \/ TruncateSome(t)
        PROVE  TypeInv'
    <3>0. up /\ lock = t /\ 0 <= written
      BY <2>0, <2>4 DEF WriteCount, WriteCountFails, TruncateAll, TruncateSome
    <3>1. CASE WriteCount(t)
      <4>1. unfiled' \in Nat /\ shed' \in Nat
        BY <2>0, <3>1 DEF WriteCount
      <4> QED BY <2>0, <2>3, <3>0, <3>1, <4>1 DEF WriteCount
    <3>2. CASE WriteCountFails(t)
      <4>1. unfiled' \in Nat /\ shed' \in Nat
        BY <2>0, <3>2 DEF WriteCountFails, CutShort
      <4>2. CASE pc[t] \in {"emptied", "kept"}
        <5>1. amount[t] \in 0..MaxEvents /\ amount[t] <= written
          BY <2>0, <4>2
        <5> QED BY <2>0, <2>3, <3>0, <3>2, <4>1, <4>2, <5>1 DEF WriteCountFails
      <4>3. CASE pc[t] \notin {"emptied", "kept"}
        BY <2>0, <2>3, <3>0, <3>2, <4>1, <4>3 DEF WriteCountFails
      <4> QED BY <4>2, <4>3
    <3>3. CASE TruncateAll(t)
      BY <2>0, <2>3, <3>0, <3>3, 0 \in 0..MaxEvents DEF TruncateAll
    <3>4. CASE TruncateSome(t)
      <4>1. /\ amount[t] \in 0..MaxEvents /\ amount[t] <= written
            /\ count - amount[t] \in 0..MaxEvents
        BY <2>0, <3>4 DEF TruncateSome
      <4> QED BY <2>0, <2>3, <3>0, <3>4, <4>1 DEF TruncateSome
    <3> QED BY <2>4, <3>1, <3>2, <3>3, <3>4
  <2>5. ASSUME NEW t \in Thread, TruncateLog(t) PROVE TypeInv'
    <3>1. PICK n \in 0..MaxEvents :
            /\ n < count
            /\ Begin(t, n, IF n = 0 THEN "emptied" ELSE "kept")
            /\ log' = IF n = 0 THEN <<>> ELSE ReadRange(count - n, count)
            /\ taking' = Len(log) - Len(log')
            /\ UNCHANGED <<countFile, count, result, written>>
      BY <2>5 DEF TruncateLog
    <3>2. log' \in Seq(1..MaxEvents) /\ Len(log') <= Len(log)
      <4>1. count - n \in Nat /\ count \in Nat /\ count - n <= count
        BY <2>0, <3>1
      <4>2. ReadRange(count - n, count) \in Seq(1..MaxEvents)
            /\ Len(ReadRange(count - n, count)) <= Len(log)
        BY <2>0, <4>1, RangeType DEF ReadRange
      <4>3. CASE n = 0
        BY <2>0, <2>a, <3>1, <4>3, EmptySeq
      <4>4. CASE n # 0
        BY <3>1, <4>2, <4>4
      <4> QED BY <4>3, <4>4
    <3>3. TypeOK'
      <4>1. taking' \in Nat
        BY <2>a, <3>1, <3>2, LenProperties
      <4> QED BY <2>0, <3>1, <3>2, <4>1 DEF Begin
    <3>4. HolderInside'
      BY <2>0, <3>1 DEF Begin
    <3>5. CountsBounded'
      <4>1. Len(log') \in Nat /\ Len(log') <= written
        BY <2>0, <2>a, <3>2, LenProperties
      <4> QED BY <2>0, <3>1, <4>1 DEF Begin
    <3> QED BY <3>3, <3>4, <3>5 DEF TypeInv
  <2>6. ASSUME NEW t \in Thread, Reindex(t) PROVE TypeInv'
    <3>1. Len(log) \in 0..MaxEvents
      BY <2>0, <2>a
    <3>2. TypeOK'
      BY <2>0, <2>6, <3>1 DEF Reindex, Begin
    <3>3. HolderInside'
      BY <2>0, <2>6 DEF Reindex, Begin
    <3>4. CountsBounded'
      BY <2>0, <2>6, <3>1 DEF Reindex, Begin
    <3> QED BY <3>2, <3>3, <3>4 DEF TypeInv
  <2>7. ASSUME NEW t \in Thread, ReadCount(t) PROVE TypeInv'
    BY <2>0, <2>7 DEF ReadCount, TypeInv, past
  <2>8. ASSUME NEW t \in Thread, ReadFile(t) PROVE TypeInv'
    <3> DEFINE start == from[t] - Minimum(from[t], amount[t])
    <3>1. start \in Nat /\ start <= from[t] /\ from[t] \in Nat
      BY <2>0 DEF Minimum
    <3>2. got' = [got EXCEPT ![t] = ReadRange(start, from[t])]
      BY <2>8 DEF ReadFile
    <3> HIDE DEF start
    <3>3. ReadRange(start, from[t]) \in Seq(1..MaxEvents)
      BY <2>0, <3>1, RangeType DEF ReadRange
    <3>4. /\ pc' = [pc EXCEPT ![t] = "idle"] /\ pc[t] = "reading"
          /\ amount' = [amount EXCEPT ![t] = 0] /\ from' = [from EXCEPT ![t] = 0]
          /\ UNCHANGED <<log, countFile, count, lock, result, written, up, crashes>>
          /\ UNCHANGED <<taking, unfiled, shed>>
      BY <2>8 DEF ReadFile, past
    <3>5. got' \in [Thread -> Seq(1..MaxEvents)]
      BY <2>0, <3>2, <3>3
    <3>6. TypeOK'
      <4>1. pc' \in [Thread -> Step] /\ amount' \in [Thread -> 0..MaxEvents]
            /\ from' \in [Thread -> 0..MaxEvents]
        BY <2>0, <3>4
      <4> QED BY <2>0, <3>4, <3>5, <4>1
    <3>7. HolderInside' /\ CountsBounded'
      BY <2>0, <3>4
    <3> QED BY <3>6, <3>7 DEF TypeInv
  <2>9. CASE Crash \/ Open \/ OpenUnread
    <3>1. Len(log) \in 0..MaxEvents
      BY <2>0, <2>a
    <3>2. CASE Crash
      <4>1. TypeOK'
        <5>1. <<>> \in Seq(1..MaxEvents)
          BY EmptySeq
        <5>2. got' \in [Thread -> Seq(1..MaxEvents)]
          BY <3>2, <5>1 DEF Crash
        <5>3. /\ pc' \in [Thread -> Step] /\ amount' \in [Thread -> 0..MaxEvents]
              /\ from' \in [Thread -> 0..MaxEvents]
              /\ result' \in [Thread -> {Nothing} \union 0..MaxEvents]
          BY <3>2 DEF Crash
        <5>0. /\ count' = 0 /\ lock' = NoThread /\ up' = FALSE
              /\ log' = log /\ countFile' = countFile /\ written' = written
          BY <3>2 DEF Crash
        <5>4. log' \in Seq(1..MaxEvents) /\ countFile' \in 0..MaxEvents
              /\ written' \in 0..MaxEvents
          BY <2>0, <5>0
        <5>6. count' \in 0..MaxEvents /\ lock' \in Thread \union {NoThread}
          BY <5>0
        <5>7. up' \in BOOLEAN
          BY <5>0
        <5>5. crashes' \in 0..MaxCrashes
          BY <2>0, <3>2 DEF Crash
        <5>8. taking' \in Nat /\ unfiled' \in Nat /\ shed' \in Nat
          <6>1. CASE lock = NoThread
            BY <2>0, <3>2, <6>1 DEF Crash
          <6>2. CASE lock # NoThread
            BY <2>0, <3>2, <6>2 DEF Crash, CutShort
          <6> QED BY <6>1, <6>2
        <5> QED BY <5>2, <5>3, <5>4, <5>5, <5>6, <5>7, <5>8
      <4>2. HolderInside' /\ CountsBounded'
        BY <2>0, <2>a, <3>2 DEF Crash
      <4> QED BY <4>1, <4>2 DEF TypeInv
    <3>3. CASE Open
      BY <2>0, <2>a, <3>3 DEF Open, past, TypeInv
    <3>4. CASE OpenUnread
      BY <2>0, <2>a, <3>4 DEF OpenUnread, TypeInv
    <3> QED BY <2>9, <3>2, <3>3, <3>4
  <2>10. CASE UNCHANGED vars
    BY <2>0, <2>10 DEF vars, TypeInv
  <2> QED BY <2>1, <2>2, <2>4, <2>5, <2>6, <2>7, <2>8, <2>9, <2>10 DEF Next
<1> QED BY <1>1, <1>2, PTL DEF Spec

\* How far the counts are from the file, step by step.
LEMMA CountAgreesFollows == TypeInv /\ CountCatchesUp => CountAgrees
<1> SUFFICES ASSUME TypeInv, CountCatchesUp, Free PROVE CountAgrees
  BY DEF CountAgrees
<1>1. Len(log) \in Nat /\ count \in Nat /\ unfiled \in Nat /\ shed \in Nat
  BY LenProperties, EventLogAssumption DEF TypeInv, TypeOK
<1>2. Len(log) <= count + unfiled + 0 /\ count <= Len(log) + shed + 0
  BY DEF CountCatchesUp, Within, Free
<1> QED BY <1>1, <1>2 DEF CountAgrees

\* What a truncation leaves of the file: the last n events that the count knows of,
\* fewer if the count is ahead of the file.
LEMMA TruncatedLog ==
  ASSUME TypeInv, NEW t \in Thread, TruncateLog(t)
  PROVE  \E n \in 0..MaxEvents :
           /\ n < count /\ Begin(t, n, IF n = 0 THEN "emptied" ELSE "kept")
           /\ Len(log') \in Nat /\ Len(log') <= Len(log) /\ Len(log') <= n
           /\ count <= Len(log) => Len(log') = n
           /\ n <= Len(log') + (count - Len(log)) \/ count <= Len(log)
           /\ log' = <<>> \/ log' = SubSeq(log, count - n + 1, Minimum(count, Len(log)))
           /\ taking' = Len(log) - Len(log')
<1>0. log \in Seq(1..MaxEvents) /\ Len(log) \in Nat /\ count \in Nat
  BY LenProperties, EventLogAssumption DEF TypeInv, TypeOK
<1>1. PICK n \in 0..MaxEvents :
        /\ n < count
        /\ Begin(t, n, IF n = 0 THEN "emptied" ELSE "kept")
        /\ log' = IF n = 0 THEN <<>> ELSE ReadRange(count - n, count)
        /\ taking' = Len(log) - Len(log')
  BY DEF TruncateLog
<1>2. PICK m \in Nat : m = count - n /\ m <= count /\ count - m = n
  BY <1>0, <1>1, EventLogAssumption
<1>3. PICK e \in Nat : e = Minimum(count, Len(log)) /\ e <= Len(log) /\ e <= count
  BY <1>0 DEF Minimum
<1>4. /\ SubSeq(log, m + 1, e) \in Seq(1..MaxEvents)
      /\ Len(SubSeq(log, m + 1, e)) = IF m + 1 <= e THEN e - m ELSE 0
  <2>1. \A i \in m + 1..e : log[i] \in 1..MaxEvents
    <3>1. \A i \in 1..Len(log) : log[i] \in 1..MaxEvents
      BY <1>0, LenProperties
    <3> QED BY <1>0, <1>2, <1>3, <3>1
  <2> QED BY <1>0, <1>2, <1>3, <2>1, SubSeqProperties
<1>5. CASE n = 0
  <2>1. log' = <<>> /\ Len(log') = 0
    BY <1>1, <1>5, EmptySeq
  <2> QED BY <1>0, <1>1, <1>5, <2>1
<1>6. CASE n # 0
  <2>1. log' = SubSeq(log, m + 1, e)
    BY <1>1, <1>2, <1>3, <1>6 DEF ReadRange
  <2>2. Len(log') = IF m + 1 <= e THEN e - m ELSE 0
    BY <1>4, <2>1
  <2>3. /\ Len(log') \in Nat /\ Len(log') <= Len(log) /\ Len(log') <= n
        /\ count <= Len(log) => Len(log') = n
        /\ n <= Len(log') + (count - Len(log)) \/ count <= Len(log)
    BY <1>0, <1>1, <1>2, <1>3, <2>2 DEF Minimum
  <2>4. log' = SubSeq(log, count - n + 1, Minimum(count, Len(log)))
    BY <1>2, <1>3, <2>1
  <2> QED BY <1>1, <2>3, <2>4
<1> QED BY <1>5, <1>6

LEMMA AgreementStep ==
  ASSUME TypeInv, CountCatchesUp, [Next]_vars
  PROVE  CountCatchesUp'
<1> USE EventLogAssumption DEF Holding
<1>0. /\ Len(log) \in Nat /\ log \in Seq(1..MaxEvents)
      /\ count \in Nat /\ countFile \in Nat /\ written \in Nat /\ HolderInside /\ up \in BOOLEAN
      /\ taking \in Nat /\ unfiled \in Nat /\ shed \in Nat
      /\ amount \in [Thread -> 0..MaxEvents] /\ pc \in [Thread -> Step]
      /\ \A t \in Thread : amount[t] \in Nat
      /\ lock \in Thread \union {NoThread}
      /\ CountCatchesUp /\ CountsBounded
  BY LenProperties DEF TypeInv, TypeOK
<1> USE DEF CountCatchesUp, Within
<1>1. ASSUME NEW t \in Thread, AppendLog(t) PROVE CountCatchesUp'
  <2>1. PICK n \in 1..MaxEvents - written :
          /\ Begin(t, n, "appended")
          /\ log' = log \o [i \in 1..n |-> written + i]
          /\ UNCHANGED <<count, countFile, taking>>
    BY <1>1 DEF AppendLog
  <2>2. Len(log') = Len(log) + n
    BY <1>0, <2>1, BatchType
  <2> QED BY <1>0, <2>1, <2>2 DEF Begin, HolderInside, Step
<1>2. ASSUME NEW t \in Thread, AppendCount(t) PROVE CountCatchesUp'
  <2>1. /\ lock = t /\ pc[t] = "appended" /\ count' = count + amount[t]
        /\ lock' = lock /\ pc' = [pc EXCEPT ![t] = "counting"] /\ amount' = amount
        /\ log' = log /\ countFile' = countFile /\ taking' = taking /\ unfiled' = unfiled
        /\ shed' = shed
    BY <1>0, <1>2 DEF AppendCount, HolderInside, past
  <2>2. /\ pc'[t] = "counting" /\ lock' # NoThread
        /\ \A u \in Thread \ {t} : pc'[u] \notin Holding
    BY <1>0, <2>1 DEF HolderInside
  <2>3. /\ taking' = 0 /\ amount'[t] = amount[t] /\ Len(log') = Len(log)
        /\ Len(log') <= countFile' + unfiled' + amount'[t]
        /\ countFile' <= Len(log') + shed' + 0
        /\ Len(log') <= count' + unfiled' + 0 /\ count' <= Len(log') + shed' + 0
    <3>1. /\ amount[t] \in Nat /\ Len(log) \in Nat /\ count \in Nat /\ countFile \in Nat
          /\ unfiled \in Nat /\ shed \in Nat
      BY <1>0
    <3>2. /\ taking = 0
          /\ Len(log) <= countFile + unfiled + amount[t] /\ countFile <= Len(log) + shed + 0
          /\ Len(log) <= count + amount[t] + unfiled + 0
          /\ count + amount[t] <= Len(log) + shed + 0
      BY <1>0, <2>1
    <3>3. /\ taking' = taking /\ amount'[t] = amount[t] /\ Len(log') = Len(log)
          /\ countFile' = countFile /\ unfiled' = unfiled /\ shed' = shed
          /\ count' = count + amount[t]
      BY <2>1
    <3> QED BY <3>1, <3>2, <3>3
  <2> QED BY <2>2, <2>3
<1>3. ASSUME NEW t \in Thread, WriteCount(t) PROVE CountCatchesUp'
  BY <1>0, <1>3 DEF WriteCount, Return, HolderInside, Step
<1>4. ASSUME NEW t \in Thread, WriteCountFails(t) PROVE CountCatchesUp'
  <2>0. lock = t /\ lock' = NoThread /\ pc[t] \in Holding /\ up /\ amount[t] \in Nat
    BY <1>0, <1>4 DEF WriteCountFails, Return, HolderInside
  <2>1. /\ Len(log') = Len(log) /\ countFile' = countFile /\ taking' = 0
        /\ \A u \in Thread : pc'[u] \notin Holding
    BY <1>0, <1>4, <2>0 DEF WriteCountFails, Return, HolderInside
  <2>2. CASE pc[t] = "counting"
    BY <1>0, <1>4, <2>0, <2>1, <2>2 DEF WriteCountFails, CutShort
  <2>3. CASE pc[t] = "reindexed"
    BY <1>0, <1>4, <2>0, <2>1, <2>3 DEF WriteCountFails, CutShort
  <2>4. CASE pc[t] \in {"emptied", "kept"}
    BY <1>0, <1>4, <2>0, <2>1, <2>4 DEF WriteCountFails, CutShort
  <2> QED BY <1>4, <2>2, <2>3, <2>4 DEF WriteCountFails
<1>5. ASSUME NEW t \in Thread, TruncateAll(t) \/ TruncateSome(t) PROVE CountCatchesUp'
  <2>1. /\ lock = t /\ up /\ pc[t] \in {"emptied", "kept"} /\ Len(log') = Len(log)
        /\ amount[t] \in Nat
        /\ lock' = NoThread /\ taking' = 0 /\ unfiled' = unfiled /\ shed' = shed
        /\ count' = amount[t] /\ countFile' = amount[t]
        /\ \A u \in Thread : pc'[u] \notin Holding
    BY <1>0, <1>5 DEF TruncateAll, TruncateSome, Return, HolderInside, CountsBounded
  <2> QED BY <1>0, <2>1
<1>6. ASSUME NEW t \in Thread, TruncateLog(t) PROVE CountCatchesUp'
  <2>1. PICK n \in 0..MaxEvents :
          /\ n < count /\ Begin(t, n, IF n = 0 THEN "emptied" ELSE "kept")
          /\ Len(log') \in Nat /\ Len(log') <= Len(log) /\ Len(log') <= n
          /\ count <= Len(log) => Len(log') = n
          /\ n <= Len(log') + (count - Len(log)) \/ count <= Len(log)
          /\ taking' = Len(log) - Len(log')
    BY <1>6, TruncatedLog
  <2>2. UNCHANGED <<countFile, count>>
    BY <1>6 DEF TruncateLog
  <2>3. lock = NoThread /\ up /\ lock' = t /\ unfiled' = unfiled /\ shed' = shed
    BY <2>1 DEF Begin
  <2>4. /\ pc'[t] \in {"emptied", "kept"} /\ amount'[t] = n
        /\ \A u \in Thread \ {t} : pc'[u] \notin Holding
    BY <1>0, <2>1 DEF Begin, HolderInside
  <2>5. /\ Len(log') <= countFile + unfiled /\ countFile <= Len(log') + shed + taking'
        /\ Len(log') <= n + unfiled /\ n <= Len(log') + shed
    BY <1>0, <2>1, <2>3
  <2> QED BY <1>0, <2>2, <2>3, <2>4, <2>5
<1>7. ASSUME NEW t \in Thread, Reindex(t) PROVE CountCatchesUp'
  BY <1>0, <1>7 DEF Reindex, Begin, HolderInside, Step
<1>8. ASSUME NEW t \in Thread, ReadCount(t) \/ ReadFile(t) PROVE CountCatchesUp'
  <2>1. /\ UNCHANGED <<log, count, countFile, lock, up, taking, unfiled, shed>>
        /\ pc[t] \in {"idle", "reading"}
        /\ \A u \in Thread \ {t} : pc'[u] = pc[u] /\ amount'[u] = amount[u]
        /\ pc'[t] \in {"idle", "reading"}
    BY <1>0, <1>8 DEF ReadCount, ReadFile, past
  <2> QED BY <1>0, <2>1
<1>9. CASE Crash
  <2>1. /\ Len(log') = Len(log) /\ countFile' = countFile /\ taking' = 0 /\ lock' = NoThread
        /\ up' = FALSE /\ \A u \in Thread : pc'[u] \notin Holding
    BY <1>9 DEF Crash
  <2>2. CASE lock = NoThread
    BY <1>0, <1>9, <2>1, <2>2 DEF Crash
  <2>3. CASE lock # NoThread
    <3>1. PICK t \in Thread : t = lock /\ pc[t] \in Holding
      BY <1>0, <2>3 DEF HolderInside
    <3>2. CutShort(t)
      BY <1>9, <2>3, <3>1 DEF Crash
    <3>3. Len(log) <= countFile + unfiled' /\ countFile <= Len(log) + shed'
      <4>1. CASE pc[t] \in {"appended", "counting"}
        BY <1>0, <3>1, <3>2, <4>1 DEF CutShort
      <4>2. CASE pc[t] \in {"emptied", "kept", "reindexed"}
        BY <1>0, <3>1, <3>2, <4>2 DEF CutShort
      <4> QED BY <3>1, <4>1, <4>2
    <3>4. unfiled' \in Nat /\ shed' \in Nat
      BY <1>0, <3>2 DEF CutShort
    <3> QED BY <1>0, <2>1, <3>3, <3>4
  <2> QED BY <2>2, <2>3
<1>10. CASE Open
  BY <1>0, <1>10 DEF Open, HolderInside, past
<1>11. CASE OpenUnread
  BY <1>0, <1>11 DEF OpenUnread, HolderInside
<1>12. CASE UNCHANGED vars
  BY <1>0, <1>12 DEF vars
<1> QED BY <1>1, <1>2, <1>3, <1>4, <1>5, <1>6, <1>7, <1>8, <1>9, <1>10, <1>11, <1>12 DEF Next

LEMMA AgreementStarts == Init => CountCatchesUp
BY EventLogAssumption, EmptySeq DEF Init, CountCatchesUp, Within

\* For any number of threads, and whatever crashes and fails between the three steps
\* of a change: an idle log miscounts its lines by no more than what the calls that
\* were cut short since the last reindex() have added or removed.
THEOREM CountsAgree == Spec => []CountAgrees
<1>1. TypeInv /\ CountCatchesUp /\ [Next]_vars => CountCatchesUp'
  BY AgreementStep
<1>2. TypeInv /\ CountCatchesUp => CountAgrees
  BY CountAgreesFollows
<1> QED BY <1>1, <1>2, AgreementStarts, TypeCorrect, PTL DEF Spec

\* No step but an append and a truncation touches the file.
LEMMA LogStays ==
  ASSUME [Next]_vars, \A t \in Thread : ~AppendLog(t) /\ ~TruncateLog(t)
  PROVE  log' = log /\ written' = written
BY DEF Next, vars, AppendCount, WriteCount, WriteCountFails, TruncateAll, TruncateSome,
       Reindex, Begin, ReadCount, ReadFile, Crash, Open, OpenUnread

\* A log keeps the promise of DurableLog through crashes, failing count files and
\* reopenings without reindex(): every change of the file adds a batch at its end or
\* keeps a run of its events that reaches to the newest counted one, and no more
\* events are uncounted than those of the appends that were cut short.
THEOREM Refines == Spec => ImplementsDurableLog
<1>1. Init => Promise!Init
  BY DEF Init, Promise!Init
<1>2. ASSUME TypeInv, CountCatchesUp, [Next]_vars
      PROVE  [Promise!Next]_log
  <2>0. /\ log \in Seq(1..MaxEvents) /\ Len(log) \in Nat /\ written \in Nat /\ MaxEvents \in Nat
        /\ count \in Nat /\ unfiled \in Nat
    BY <1>2, LenProperties, EventLogAssumption DEF TypeInv, TypeOK
  <2>1. ASSUME NEW t \in Thread, AppendLog(t) PROVE Promise!AppendBatch
    <3>1. PICK n \in 1..MaxEvents - written :
            log' = log \o [i \in 1..n |-> written + i]
      BY <2>1 DEF AppendLog
    <3>2. /\ log' \in Seq(1..MaxEvents) /\ Len(log') = Len(log) + n
          /\ SubSeq(log', 1, Len(log)) = log
      <4>1. n \in Nat /\ written + n <= MaxEvents
        BY <2>0, <3>1
      <4>2. LET batch == [i \in 1..n |-> written + i]
            IN  /\ log \o batch \in Seq(1..MaxEvents) /\ Len(log \o batch) = Len(log) + n
                /\ SubSeq(log \o batch, 1, Len(log)) = log
        BY <2>0, <4>1, BatchType
      <4> QED BY <3>1, <4>2
    <3> QED BY <2>0, <3>2 DEF Promise!AppendBatch
  <2>2. ASSUME NEW t \in Thread, TruncateLog(t) PROVE Promise!Truncate \/ Promise!Empty
    <3>1. PICK n \in 0..MaxEvents :
            /\ n < count /\ Begin(t, n, IF n = 0 THEN "emptied" ELSE "kept")
            /\ log' = <<>> \/ log' = SubSeq(log, count - n + 1, Minimum(count, Len(log)))
      BY <1>2, <2>2, TruncatedLog
    <3>2. Len(log) - unfiled <= count
      BY <1>2, <3>1, CountAgreesFollows DEF CountAgrees, Free, Begin
    <3> DEFINE last == Minimum(count, Len(log))
    <3>3. last \in Nat /\ last \in Len(log) - unfiled..Len(log) /\ last <= count
      BY <2>0, <3>2 DEF Minimum
    <3>4. CASE log' = <<>>
      BY <3>4 DEF Promise!Empty
    <3>5. CASE log' = SubSeq(log, count - n + 1, last)
      <4> HIDE DEF last
      <4>1. CASE count - n <= last
        <5>1. PICK kept \in 0..last : kept = last - (count - n)
          BY <2>0, <3>1, <3>3, <4>1
        <5>2. last - kept + 1 = count - n + 1
          BY <2>0, <3>1, <3>3, <5>1
        <5> QED BY <3>3, <3>5, <5>1, <5>2 DEF Promise!Truncate
      <4>2. CASE ~(count - n <= last)
        <5>1. log' = <<>>
          <6>1. PICK m \in Nat : m = count - n /\ m > last
            BY <2>0, <3>1, <3>3, <4>2
          <6>2. \A i \in m + 1..last : log[i] \in 1..MaxEvents
            BY <3>3, <6>1
          <6>3. SubSeq(log, m + 1, last) \in Seq(1..MaxEvents) /\ Len(SubSeq(log, m + 1, last)) = 0
            BY <2>0, <3>3, <6>1, <6>2, SubSeqProperties
          <6> QED BY <3>5, <6>1, <6>3, EmptySeq
        <5> QED BY <5>1 DEF Promise!Empty
      <4> QED BY <4>1, <4>2
    <3> QED BY <3>1, <3>4, <3>5
  <2>3. CASE \A t \in Thread : ~AppendLog(t) /\ ~TruncateLog(t)
    BY <1>2, <2>3, LogStays
  <2> QED BY <2>1, <2>2, <2>3 DEF Promise!Next
<1>3. TypeInv /\ CountCatchesUp /\ [Next]_vars => CountCatchesUp'
  BY AgreementStep
<1> QED BY <1>1, <1>2, <1>3, AgreementStarts, TypeCorrect, PTL
    DEF Spec, ImplementsDurableLog, Promise!Spec

\* Only ReadFile() ends a reading, and its range ends with the count it was given.
LEMMA ReadIsRecent ==
  ASSUME TypeInv, CountCatchesUp, [Next]_vars,
         NEW t \in Thread, ReadsLast(t), unfiled < Len(log), shed < amount[t]
  PROVE  /\ got'[t] # <<>>
         /\ \E i \in Len(log) - unfiled..Len(log) : got'[t][Len(got'[t])] = log[i]
<1> USE EventLogAssumption DEF Holding, Step
<1>0. /\ log \in Seq(1..MaxEvents) /\ Len(log) \in Nat
      /\ DOMAIN pc = Thread /\ DOMAIN got = Thread
      /\ amount[t] \in Nat /\ count \in Nat /\ unfiled \in Nat /\ shed \in Nat
      /\ from[t] = count /\ \A u \in Thread : pc[u] \notin Holding
      /\ Len(log) - unfiled <= count /\ count <= Len(log) + shed
  BY LenProperties, CountAgreesFollows
  DEF TypeInv, TypeOK, CountAgrees, HolderInside, Free, ReadsLast
<1>1. ReadFile(t)
  <2>0. pc[t] = "reading" /\ pc'[t] = "idle" /\ up /\ up'
    BY DEF ReadsLast, Free
  <2>1. ASSUME NEW u \in Thread, AppendLog(u) \/ TruncateLog(u) \/ Reindex(u) PROVE FALSE
    BY <1>0, <2>0, <2>1 DEF AppendLog, TruncateLog, Reindex, Begin
  <2>2. ASSUME NEW u \in Thread, AppendCount(u) \/ WriteCount(u) \/ WriteCountFails(u)
                                   \/ TruncateAll(u) \/ TruncateSome(u)
        PROVE  FALSE
    BY <1>0, <2>2 DEF AppendCount, WriteCount, WriteCountFails, TruncateAll, TruncateSome
  <2>3. ASSUME NEW u \in Thread, ReadCount(u) PROVE FALSE
    BY <1>0, <2>0, <2>3 DEF ReadCount
  <2>4. ASSUME NEW u \in Thread, ReadFile(u) PROVE u = t
    BY <1>0, <2>0, <2>4 DEF ReadFile
  <2>5. ~Crash /\ ~Open /\ ~OpenUnread /\ ~UNCHANGED vars
    BY <2>0 DEF Crash, Open, OpenUnread, vars
  <2> QED BY <2>1, <2>2, <2>3, <2>4, <2>5 DEF Next
<1> DEFINE m == count - Minimum(count, amount[t])
           e == Minimum(count, Len(log))
<1>2. m \in Nat /\ e \in Nat /\ m + 1 <= e /\ e <= Len(log) /\ Len(log) - unfiled <= e
  <2>1. 1 <= count /\ 1 <= Len(log) /\ 1 <= amount[t]
    BY <1>0
  <2>2. m \in Nat /\ m + 1 <= count /\ (count <= amount[t] => m = 0)
        /\ (amount[t] < count => m = count - amount[t])
    BY <1>0, <2>1 DEF Minimum
  <2>3. m + 1 <= Len(log)
    BY <1>0, <2>1, <2>2
  <2>4. e \in Nat /\ e <= Len(log) /\ (e = count \/ e = Len(log))
    BY <1>0 DEF Minimum
  <2> QED BY <1>0, <2>2, <2>3, <2>4
<1>3. got'[t] = SubSeq(log, m + 1, e)
  BY <1>0, <1>1 DEF ReadFile, ReadRange
<1> HIDE DEF m, e
<1>4. /\ got'[t] \in Seq(1..MaxEvents) /\ Len(got'[t]) = e - m
      /\ \A i \in 1..e - m : got'[t][i] = log[m + i]
  <2>1. m <= e /\ log \in Seq(1..MaxEvents)
    BY <1>0, <1>2
  <2>2. Minimum(e, Len(log)) = e
    BY <1>2 DEF Minimum
  <2>3. e <= Len(log) => /\ Len(SubSeq(log, m + 1, e)) = e - m
                         /\ \A i \in 1..e - m : SubSeq(log, m + 1, e)[i] = log[m + i]
    BY <1>2, <2>1, <2>2, RangeType
  <2>4. SubSeq(log, m + 1, e) \in Seq(1..MaxEvents)
    BY <1>2, <2>1, <2>2, RangeType
  <2> QED BY <1>2, <1>3, <2>3, <2>4
<1>5. e - m \in 1..e - m /\ m + (e - m) = e
  BY <1>2
<1>6. got'[t] # <<>>
  BY <1>2, <1>4, EmptySeq
<1>7. got'[t][Len(got'[t])] = log[e]
  BY <1>4, <1>5
<1>8. e \in Len(log) - unfiled..Len(log)
  BY <1>0, <1>2
<1> QED BY <1>6, <1>7, <1>8

\* What a reader gets of an idle log reaches to the newest event but for those that the
\* appends cut short have left uncounted, in a log that was never reindexed as well,
\* and is not empty when more is asked for than truncations cut short have removed.
THEOREM ReadsTheRecent == Spec => LastIsRecent
<1>1. TypeInv /\ CountCatchesUp /\ [Next]_vars => CountCatchesUp'
  BY AgreementStep
<1>2. TypeInv /\ CountCatchesUp /\ [Next]_vars =>
        [\A t \in Thread :
           ReadsLast(t) /\ unfiled < Len(log) /\ shed < amount[t]
           => /\ got'[t] # <<>>
              /\ \E i \in Len(log) - unfiled..Len(log) : got'[t][Len(got'[t])] = log[i]]_vars
  BY ReadIsRecent
<1> QED BY <1>1, <1>2, AgreementStarts, TypeCorrect, PTL DEF Spec, LastIsRecent

-------------------------------------------------------------------------------
(* The webhooks.  Between two handlers, and beside one, what is cached is     *)
(* what the table has, except for the hook the handler is about.              *)

Busy == {"caching", "popping", "counting"}
HookRow == [version : Nat, enabled : BOOLEAN, secret : BOOLEAN, count : Nat]
Held(h) == \E r \in Requested : hpc[r] \in {"caching", "popping"} /\ hook[r] = h

HookTypes ==
    /\ rows \in [Hook -> HookRow \cup {NoHook}]
    /\ fired \in [Hook -> Nat] /\ versions \in Nat /\ foreign \in [Hook -> BOOLEAN]
    /\ DOMAIN known = Hook /\ DOMAIN hpc = Requested /\ DOMAIN using = Requested
    /\ hook \in [Requested -> Hook]

CountsFired == \A h \in Hook : rows[h] # NoHook => rows[h].count = fired[h]
OneBusy == \A r, q \in Requested : hpc[r] \in Busy /\ hpc[q] \in Busy => r = q
CacheAgrees == \A h \in Hook : known[h] # NoHook /\ ~foreign[h] /\ ~Held(h) => known[h] = rows[h]
HandlersAgree ==
    \A r \in Requested :
        /\ hpc[r] = "caching" /\ ~foreign[hook[r]] => using[r] = rows[hook[r]]
        /\ hpc[r] = "counting" => known[hook[r]] # NoHook

HookInv == HookTypes /\ CountsFired /\ OneBusy /\ CacheAgrees /\ HandlersAgree

LEMMA HooksStart == W!StoreInit => HookInv
BY DEF W!StoreInit, HookInv, HookTypes, CountsFired, OneBusy, CacheAgrees, HandlersAgree, Busy

\* A request comes to another place of its handler, or to its answer.
LEMMA Moved ==
  ASSUME HookTypes, NEW r \in Requested, NEW place, W!Says(r, place)
  PROVE  /\ DOMAIN hpc' = Requested
         /\ \A q \in Requested : hpc'[q] = IF q = r THEN place ELSE hpc[q]
BY DEF HookTypes, W!Says

\* With nobody busy and one request that begins nothing it holds on to.
LEMMA NothingHeld ==
  ASSUME HookTypes, W!Free
  PROVE  \A h \in Hook : ~Held(h)
BY DEF Held, W!Free

LEMMA HookRegisterStep ==
  ASSUME HookInv, NEW r \in Requested, W!Register(r)
  PROVE  HookInv'
<1> USE DEF HookInv
<1>1. /\ W!Free /\ UNCHANGED <<known, hook>> /\ hook[r] \in Hook
  BY DEF W!Register, HookTypes
<1>2. \A q \in Requested : hpc[q] \notin Busy
  BY <1>1 DEF W!Free, Busy
<1>3. CASE W!Says(r, "refused") /\ UNCHANGED <<rows, using, versions, fired, foreign>>
  <2>1. /\ DOMAIN hpc' = Requested
        /\ \A q \in Requested : hpc'[q] = IF q = r THEN "refused" ELSE hpc[q]
    BY <1>3, Moved
  <2>2. \A q \in Requested : hpc'[q] \notin Busy
    BY <1>2, <2>1 DEF Busy
  <2>3. CacheAgrees'
    BY <1>1, <1>3, NothingHeld DEF CacheAgrees
  <2> QED BY <1>1, <1>3, <2>1, <2>2, <2>3 DEF HookTypes, CountsFired, OneBusy, HandlersAgree, Busy
<1>4. ASSUME NEW enabled \in BOOLEAN, NEW secured \in BOOLEAN,
             W!Inserts(hook[r], W!Config(enabled, secured)),
             using' = [using EXCEPT ![r] = W!Config(enabled, secured)],
             foreign' = [foreign EXCEPT ![hook[r]] = FALSE], W!Says(r, "caching")
      PROVE  HookInv'
  <2> DEFINE new == W!Config(enabled, secured)
  <2>1. /\ DOMAIN hpc' = Requested
        /\ \A q \in Requested : hpc'[q] = IF q = r THEN "caching" ELSE hpc[q]
    BY <1>4, Moved
  <2>2. new \in HookRow /\ new.count = 0
    BY DEF W!Config, HookRow, HookTypes
  <2> HIDE DEF new
  <2>3. /\ \A h \in Hook : rows'[h] = IF h = hook[r] THEN new ELSE rows[h]
        /\ \A h \in Hook : fired'[h] = IF h = hook[r] THEN 0 ELSE fired[h]
        /\ \A h \in Hook : foreign'[h] = IF h = hook[r] THEN FALSE ELSE foreign[h]
        /\ rows' \in [Hook -> HookRow \cup {NoHook}] /\ fired' \in [Hook -> Nat]
        /\ foreign' \in [Hook -> BOOLEAN] /\ versions' \in Nat
    BY <1>1, <1>4, <2>2 DEF HookTypes, W!Inserts, new
  <2>4. DOMAIN using' = Requested /\ using'[r] = new
    BY <1>4 DEF HookTypes, new
  <2>5. Held(hook[r])'
    BY <1>1, <2>1 DEF Held
  <2>6. CacheAgrees'
    <3>1. \A h \in Hook : ~Held(h)
      BY <1>1, NothingHeld
    <3> QED BY <1>1, <2>3, <2>5, <3>1 DEF CacheAgrees
  <2>7. HandlersAgree' /\ OneBusy'
    BY <1>1, <1>2, <2>1, <2>3, <2>4 DEF HandlersAgree, OneBusy, Busy
  <2>8. CountsFired'
    BY <2>2, <2>3 DEF CountsFired
  <2>9. HookTypes'
    BY <1>1, <2>1, <2>3, <2>4 DEF HookTypes
  <2> QED BY <2>6, <2>7, <2>8, <2>9
<1> QED BY <1>3, <1>4 DEF W!Register

LEMMA HookUnregisterStep ==
  ASSUME HookInv, NEW r \in Requested, W!Unregister(r)
  PROVE  HookInv'
<1> USE DEF HookInv
<1>1. W!Free /\ UNCHANGED <<known, hook, using>> /\ hook[r] \in Hook
  BY DEF W!Unregister, HookTypes
<1>2. \A q \in Requested : hpc[q] \notin Busy
  BY <1>1 DEF W!Free, Busy
<1>3. CASE W!Says(r, "not found") /\ UNCHANGED <<rows, versions, fired, foreign>>
  <2>1. /\ DOMAIN hpc' = Requested
        /\ \A q \in Requested : hpc'[q] = IF q = r THEN "not found" ELSE hpc[q]
    BY <1>3, Moved
  <2>2. CacheAgrees'
    BY <1>1, <1>3, NothingHeld DEF CacheAgrees
  <2> QED BY <1>1, <1>2, <1>3, <2>1, <2>2 DEF HookTypes, CountsFired, OneBusy, HandlersAgree, Busy
<1>4. CASE W!Deletes(hook[r]) /\ foreign' = [foreign EXCEPT ![hook[r]] = FALSE] /\ W!Says(r, "popping")
  <2>1. /\ DOMAIN hpc' = Requested
        /\ \A q \in Requested : hpc'[q] = IF q = r THEN "popping" ELSE hpc[q]
    BY <1>4, Moved
  <2>2. /\ \A h \in Hook : rows'[h] = IF h = hook[r] THEN NoHook ELSE rows[h]
        /\ \A h \in Hook : foreign'[h] = IF h = hook[r] THEN FALSE ELSE foreign[h]
        /\ rows' \in [Hook -> HookRow \cup {NoHook}] /\ foreign' \in [Hook -> BOOLEAN]
        /\ UNCHANGED <<fired, versions>>
    BY <1>1, <1>4 DEF HookTypes, W!Deletes
  <2>3. Held(hook[r])'
    BY <1>1, <2>1 DEF Held
  <2>4. CacheAgrees'
    <3>1. \A h \in Hook : ~Held(h)
      BY <1>1, NothingHeld
    <3> QED BY <1>1, <2>2, <2>3, <3>1 DEF CacheAgrees
  <2>5. HandlersAgree' /\ OneBusy'
    BY <1>1, <1>2, <2>1, <2>2 DEF HandlersAgree, OneBusy, Busy
  <2> QED BY <1>1, <2>1, <2>2, <2>4, <2>5 DEF HookTypes, CountsFired
<1> QED BY <1>3, <1>4 DEF W!Unregister

\* The handler lets go of its hook, with the cache as the table.
LEMMA HookReleaseStep ==
  ASSUME HookInv, NEW r \in Requested, W!RegisterCaches(r) \/ W!UnregisterPops(r)
  PROVE  HookInv'
<1> USE DEF HookInv
<1>1. /\ hpc[r] \in {"caching", "popping"} /\ hook[r] \in Hook
      /\ UNCHANGED <<rows, hook, using, versions, fired, foreign>>
      /\ known' = [known EXCEPT ![hook[r]] = IF hpc[r] = "caching" THEN using[r] ELSE NoHook]
      /\ \E place \in {"registered", "deleted"} : W!Says(r, place)
  BY DEF W!RegisterCaches, W!UnregisterPops, HookTypes
<1>2. PICK place \in {"registered", "deleted"} :
        /\ DOMAIN hpc' = Requested
        /\ \A q \in Requested : hpc'[q] = IF q = r THEN place ELSE hpc[q]
  BY <1>1, Moved
<1>3. /\ DOMAIN known' = Hook
      /\ \A h \in Hook : known'[h] = IF h = hook[r] THEN (IF hpc[r] = "caching" THEN using[r] ELSE NoHook)
                                                  ELSE known[h]
  BY <1>1 DEF HookTypes
<1>4. \A h \in Hook : Held(h) => h = hook[r]
  BY <1>1 DEF Held, OneBusy, Busy
<1>5. \A q \in Requested : hpc'[q] \notin Busy
  BY <1>1, <1>2 DEF OneBusy, Busy
<1>6. CacheAgrees'
  <2>1. ASSUME NEW h \in Hook, known'[h] # NoHook, ~foreign[h] PROVE known'[h] = rows[h]
    BY <1>1, <1>3, <1>4, <2>1 DEF CacheAgrees, HandlersAgree
  <2> QED BY <1>1, <2>1 DEF CacheAgrees
<1> QED BY <1>1, <1>2, <1>3, <1>5, <1>6 DEF HookTypes, CountsFired, OneBusy, HandlersAgree, Busy

\* get(): nothing is held, and what was not cached is now, as it is in the table.
LEMMA GotAgrees ==
  ASSUME HookInv, NEW r \in Requested, W!Free, W!Get(hook[r]), UNCHANGED <<rows, hook>>
  PROVE  /\ DOMAIN known' = Hook /\ known'[hook[r]] = W!Got(hook[r])
         /\ foreign' \in [Hook -> BOOLEAN]
         /\ \A h \in Hook : known'[h] # NoHook /\ ~foreign'[h] => known'[h] = rows[h]
<1> USE DEF HookInv
<1>1. hook[r] \in Hook /\ \A h \in Hook : ~Held(h)
  BY NothingHeld DEF HookTypes
<1>2. /\ DOMAIN known' = Hook
      /\ \A h \in Hook : known'[h] = IF h = hook[r] THEN W!Got(h) ELSE known[h]
  BY <1>1 DEF HookTypes, W!Get
<1>3. foreign' = [foreign EXCEPT ![hook[r]] = foreign[hook[r]] /\ known[hook[r]] # NoHook]
  BY DEF W!Get
<1>4. \A h \in Hook : foreign'[h] <=> foreign[h] /\ (h = hook[r] => known[h] # NoHook)
  BY <1>1, <1>3 DEF HookTypes
<1>5. foreign' \in [Hook -> BOOLEAN]
  BY <1>1, <1>3 DEF HookTypes
<1> QED BY <1>1, <1>2, <1>4, <1>5 DEF CacheAgrees, W!Got

LEMMA HookGetStep ==
  ASSUME HookInv, NEW r \in Requested, W!Sign(r) \/ W!Trigger(r)
  PROVE  HookInv'
<1> USE DEF HookInv
<1>1. /\ W!Free /\ W!Get(hook[r]) /\ UNCHANGED <<rows, hook, versions, fired>>
      /\ \E place : W!Says(r, place)
      /\ DOMAIN using' = Requested
  BY DEF W!Sign, W!Trigger, HookTypes
<1>2. PICK place : W!Says(r, place) /\ place \notin {"caching", "popping"}
                   /\ (place = "counting" => W!Got(hook[r]) # NoHook)
  <2>1. CASE W!Sign(r)
    <3> DEFINE p == IF W!Got(hook[r]) = NoHook THEN "not found"
                    ELSE IF W!Got(hook[r]).secret THEN "ok" ELSE "refused"
    <3>1. p \in {"not found", "ok", "refused"}
      OBVIOUS
    <3>2. W!Says(r, p)
      BY <2>1 DEF W!Sign
    <3> HIDE DEF p
    <3> QED BY <3>1, <3>2
  <2>2. CASE W!Trigger(r)
    <3> DEFINE p(signed) == CASE W!Got(hook[r]) = NoHook -> "not found"
                              [] ~W!Verified(W!Got(hook[r]), signed) -> "signature"
                              [] ~W!Got(hook[r]).enabled -> "disabled"
                              [] OTHER -> "counting"
    <3>1. PICK signed \in 0..versions : W!Says(r, p(signed))
      BY <2>2 DEF W!Trigger
    <3>2. /\ p(signed) \in {"not found", "signature", "disabled", "counting"}
          /\ p(signed) = "counting" => W!Got(hook[r]) # NoHook
      OBVIOUS
    <3> HIDE DEF p
    <3> QED BY <3>1, <3>2
  <2> QED BY <2>1, <2>2
<1>3. /\ DOMAIN hpc' = Requested
      /\ \A q \in Requested : hpc'[q] = IF q = r THEN place ELSE hpc[q]
  BY <1>2, Moved
<1>4. \A q \in Requested : hpc[q] \notin Busy
  BY <1>1 DEF W!Free, Busy
<1>5. /\ DOMAIN known' = Hook /\ known'[hook[r]] = W!Got(hook[r])
      /\ foreign' \in [Hook -> BOOLEAN]
      /\ \A h \in Hook : known'[h] # NoHook /\ ~foreign'[h] => known'[h] = rows[h]
  BY <1>1, GotAgrees
<1>6. CacheAgrees'
  BY <1>1, <1>5 DEF CacheAgrees
<1>7. HandlersAgree' /\ OneBusy'
  BY <1>1, <1>2, <1>3, <1>4, <1>5 DEF HandlersAgree, OneBusy, Busy
<1> QED BY <1>1, <1>3, <1>5, <1>6, <1>7 DEF HookTypes, CountsFired

LEMMA HookCountStep ==
  ASSUME HookInv, NEW r \in Requested, W!TriggerCounts(r)
  PROVE  HookInv'
<1> USE DEF HookInv
<1> DEFINE h == hook[r]
<1>1. /\ hpc[r] = "counting" /\ h \in Hook /\ UNCHANGED <<hook, versions, foreign>>
      /\ known[h] # NoHook /\ W!Says(r, "running")
  BY DEF W!TriggerCounts, HookTypes, HandlersAgree
<1>2. /\ DOMAIN hpc' = Requested
      /\ \A q \in Requested : hpc'[q] = IF q = r THEN "running" ELSE hpc[q]
  BY <1>1, Moved
<1>3. \A k \in Hook : ~Held(k)
  BY <1>1 DEF Held, OneBusy, Busy
<1>4. rows' = IF rows[h] = NoHook THEN rows ELSE [rows EXCEPT ![h] = [rows[h] EXCEPT !.count = rows[h].count + 1]]
  BY DEF W!TriggerCounts
<1>5. known' = [known EXCEPT ![h] = [known[h] EXCEPT !.count = known[h].count + 1]]
      /\ fired' = [fired EXCEPT ![h] = fired[h] + 1]
  BY DEF W!TriggerCounts
<1>6. DOMAIN known' = Hook /\ DOMAIN using' = Requested /\ fired' \in [Hook -> Nat]
  BY <1>1, <1>5 DEF HookTypes, W!TriggerCounts
<1>7. rows[h] # NoHook => /\ [rows[h] EXCEPT !.count = rows[h].count + 1] \in HookRow
                          /\ [rows[h] EXCEPT !.count = rows[h].count + 1].count = rows[h].count + 1
  <2>1. rows[h] \in HookRow \cup {NoHook}
    BY <1>1 DEF HookTypes
  <2> QED BY <2>1 DEF HookRow
<1> HIDE DEF h
<1>8. rows' \in [Hook -> HookRow \cup {NoHook}]
  BY <1>1, <1>4, <1>7 DEF HookTypes
<1>9. CountsFired'
  <2>1. ASSUME NEW k \in Hook, rows'[k] # NoHook PROVE rows'[k].count = fired'[k]
    BY <1>1, <1>4, <1>5, <1>7, <2>1 DEF HookTypes, CountsFired
  <2> QED BY <2>1 DEF CountsFired
<1>10. CacheAgrees'
  <2>1. ASSUME NEW k \in Hook, known'[k] # NoHook, ~foreign[k] PROVE known'[k] = rows'[k]
    <3>1. CASE k # h
      BY <1>1, <1>3, <1>4, <1>5, <2>1, <3>1 DEF HookTypes, CacheAgrees
    <3>2. CASE k = h
      <4>1. known[h] = rows[h]
        BY <1>1, <1>3, <2>1, <3>2 DEF CacheAgrees
      <4> QED BY <1>1, <1>4, <1>5, <3>2, <4>1 DEF HookTypes
    <3> QED BY <3>1, <3>2
  <2> QED BY <1>1, <2>1 DEF CacheAgrees
<1>11. HandlersAgree' /\ OneBusy'
  BY <1>1, <1>2 DEF HandlersAgree, OneBusy, Busy
<1> QED BY <1>1, <1>2, <1>6, <1>8, <1>9, <1>10, <1>11 DEF HookTypes

LEMMA HookOtherStep ==
  ASSUME HookInv,
         \/ \E r \in Requested : W!AgentAnswers(r) \/ W!ListAll(r)
         \/ W!Restart
         \/ UNCHANGED hookVars
  PROVE  HookInv'
<1> USE DEF HookInv
<1>1. ASSUME NEW r \in Requested, W!AgentAnswers(r) \/ W!ListAll(r) PROVE HookInv'
  <2>1. /\ W!Free /\ UNCHANGED <<rows, hook, using, versions, fired>>
        /\ \E place \in {"ok", "failed", "listed"} : W!Says(r, place)
        /\ \/ UNCHANGED <<known, foreign>>
           \/ known' = rows /\ foreign' = [h \in Hook |-> FALSE]
    BY <1>1 DEF W!AgentAnswers, W!ListAll, W!LoadCache
  <2>2. PICK place \in {"ok", "failed", "listed"} :
          /\ DOMAIN hpc' = Requested
          /\ \A q \in Requested : hpc'[q] = IF q = r THEN place ELSE hpc[q]
    BY <2>1, Moved
  <2>3. \A q \in Requested : hpc'[q] \notin Busy
    BY <2>1, <2>2 DEF W!Free, Busy
  <2>4. CacheAgrees' /\ DOMAIN known' = Hook /\ foreign' \in [Hook -> BOOLEAN]
    BY <2>1, NothingHeld DEF CacheAgrees, HookTypes
  <2> QED BY <2>1, <2>2, <2>3, <2>4 DEF HookTypes, CountsFired, OneBusy, HandlersAgree, Busy
<1>2. CASE W!Restart
  <2>1. /\ UNCHANGED <<rows, hook, using, versions, fired, foreign>>
        /\ known' = [h \in Hook |-> NoHook]
        /\ hpc' = [r \in Requested |-> IF hpc[r] \in {"new"} \cup W!Answers THEN hpc[r] ELSE "lost"]
    BY <1>2 DEF W!Restart
  <2>2. \A q \in Requested : hpc'[q] \notin Busy
    BY <2>1 DEF Busy, W!Answers
  <2> QED BY <2>1, <2>2 DEF HookTypes, CountsFired, OneBusy, HandlersAgree, CacheAgrees, Busy
<1>3. CASE UNCHANGED hookVars
  BY <1>3 DEF hookVars, HookTypes, CountsFired, OneBusy, HandlersAgree, CacheAgrees, Held
<1> QED BY <1>1, <1>2, <1>3

LEMMA CommandLineStep ==
  ASSUME HookInv, NEW h \in Hook, W!CommandLine(h)
  PROVE  HookInv'
<1> USE DEF HookInv
<1>1. UNCHANGED <<known, hpc, hook, using>> /\ foreign' = [foreign EXCEPT ![h] = TRUE]
  BY DEF W!CommandLine
<1>2. \A k : Held(k)' = Held(k)
  BY <1>1 DEF Held
<1>3. foreign' \in [Hook -> BOOLEAN] /\ foreign'[h]
      /\ \A k \in Hook : k # h => foreign'[k] = foreign[k]
  BY <1>1 DEF HookTypes
<1>4. PICK row \in HookRow \cup {NoHook} :
        /\ rows' = [rows EXCEPT ![h] = row]
        /\ \/ fired' = [fired EXCEPT ![h] = 0] /\ row.count = 0 /\ versions' = versions + 1
           \/ UNCHANGED <<fired, versions>> /\ row = NoHook
  <2>1. ASSUME NEW secured \in BOOLEAN, W!Inserts(h, W!Config(TRUE, secured))
        PROVE  /\ W!Config(TRUE, secured) \in HookRow /\ W!Config(TRUE, secured).count = 0
               /\ rows' = [rows EXCEPT ![h] = W!Config(TRUE, secured)]
               /\ fired' = [fired EXCEPT ![h] = 0] /\ versions' = versions + 1
    BY <2>1 DEF W!Inserts, W!Config, HookRow, HookTypes
  <2> QED BY <2>1 DEF W!CommandLine, W!Deletes
<1>5. rows' \in [Hook -> HookRow \cup {NoHook}] /\ fired' \in [Hook -> Nat] /\ versions' \in Nat
  BY <1>4 DEF HookTypes
<1>6. \A k \in Hook : rows'[k] = IF k = h THEN row ELSE rows[k]
  BY <1>4 DEF HookTypes
<1>7. CountsFired'
  BY <1>4, <1>6 DEF HookTypes, CountsFired
<1>8. CacheAgrees' /\ HandlersAgree'
  <2>1. \A r \in Requested : hook[r] \in Hook
    BY DEF HookTypes
  <2> QED BY <1>1, <1>2, <1>3, <1>6, <2>1 DEF CacheAgrees, HandlersAgree
<1> QED BY <1>1, <1>3, <1>5, <1>7, <1>8 DEF HookTypes, OneBusy

LEMMA HookStep ==
  ASSUME HookInv, [W!WebhookNext]_hookVars
  PROVE  HookInv'
BY HookRegisterStep, HookUnregisterStep, HookReleaseStep, HookGetStep, HookCountStep, HookOtherStep,
   CommandLineStep DEF W!WebhookNext, W!StoreStep

LEMMA HooksAgreeFollows == HookInv => HooksAgree
BY DEF HookInv, CountsFired, CacheAgrees, Held, W!Free, W!HooksAgree, HooksAgree

-------------------------------------------------------------------------------
(* The secrets.  No file and no cache holds a cleared value, nor does a       *)
(* resolve() that is about to keep one: a value is cleared only while no file *)
(* has it and no resolve() is under way.                                      *)

Live(v) == v \in Nat /\ v \notin cleared

SecretTypes ==
    /\ sets \in Nat /\ cleared \subseteq 1..sets
    /\ DOMAIN secret = S!File /\ DOMAIN registry = Name
    /\ DOMAIN spc = Client /\ DOMAIN loaded = Client /\ DOMAIN reply = Client /\ DOMAIN barred = Client
    /\ name \in [Client -> Name]
    /\ \A n \in Name : registry[n] # Absent => DOMAIN registry[n] = {"by", "value"}
    /\ \A c \in Client : spc[c] \in S!Resolving => DOMAIN loaded[c] = {"by", "value"}

StoreLive == \A f \in S!File : secret[f] # Absent => Live(secret[f].value) /\ secret[f].value \in 0..sets
RegistryLive ==
    \A n \in Name : registry[n] # Absent /\ registry[n].value # Absent => Live(registry[n].value)
LoadedLive ==
    \A c \in Client : /\ spc[c] = "keeping" => Live(loaded[c].value)
                      /\ spc[c] = "updating" => loaded[c] \in 0..sets
BarredGone == \A c \in Client : barred[c] \subseteq cleared
RepliesLive == \A c \in Client : spc[c] = "idle" => reply[c] \notin barred[c]

SecretInv == SecretTypes /\ StoreLive /\ RegistryLive /\ LoadedLive /\ BarredGone /\ RepliesLive

LEMMA SecretsStart ==
  ASSUME NoneAssumption, S!SecretInit
  PROVE  SecretInv
BY DEF NoneAssumption, S!SecretInit, SecretInv, SecretTypes, StoreLive, RegistryLive, LoadedLive,
       BarredGone, RepliesLive, S!Resolving

LEMMA NoneIsLive ==
  ASSUME NoneAssumption, SecretInv
  PROVE  \A c \in Client : None \notin barred[c] /\ None \notin cleared
<1>1. None \notin Nat
  BY DEF NoneAssumption
<1>2. sets \in Nat /\ cleared \subseteq 1..sets /\ \A c \in Client : barred[c] \subseteq cleared
  BY DEF SecretInv, SecretTypes, BarredGone
<1>3. None \notin 1..sets
  BY <1>1, <1>2
<1> QED BY <1>2, <1>3

\* A client begins a call; what has been cleared by then is barred from its answer.
LEMMA CallBegins ==
  ASSUME SecretInv, NEW c \in Client, NEW n \in Name, S!Calls(c, n)
  PROVE  /\ spc[c] = "idle" /\ name' \in [Client -> Name] /\ name'[c] = n
         /\ DOMAIN barred' = Client
         /\ \A d \in Client : barred'[d] = IF d = c THEN cleared ELSE barred[d]
BY DEF S!Calls, SecretInv, SecretTypes

\* And ends it with an answer.
LEMMA CallEnds ==
  ASSUME SecretInv, NEW c \in Client, NEW v, S!Answers(c, v),
         DOMAIN barred' = Client, v \notin barred'[c],
         \A d \in Client \ {c} : barred'[d] \subseteq barred[d]
  PROVE  /\ DOMAIN spc' = Client /\ DOMAIN reply' = Client
         /\ \A d \in Client : spc'[d] = IF d = c THEN "idle" ELSE spc[d]
         /\ RepliesLive'
BY DEF S!Answers, SecretInv, SecretTypes, RepliesLive

\* Calls of one step that return no value and clear none.
LEMMA PlainCall ==
  ASSUME NoneAssumption, SecretInv, NEW c \in Client, NEW n \in Name,
         S!Calls(c, n), S!Answers(c, None),
         sets' \in Nat, sets <= sets', UNCHANGED <<loaded, cleared>>,
         DOMAIN secret' = S!File, StoreLive',
         DOMAIN registry' = Name, RegistryLive',
         \A m \in Name : registry'[m] # Absent => DOMAIN registry'[m] = {"by", "value"}
  PROVE  SecretInv'
<1> USE DEF SecretInv
<1>1. /\ spc[c] = "idle" /\ name' \in [Client -> Name] /\ DOMAIN barred' = Client
      /\ \A d \in Client : barred'[d] = IF d = c THEN cleared ELSE barred[d]
  BY CallBegins
<1>2. /\ DOMAIN spc' = Client /\ DOMAIN reply' = Client
      /\ \A d \in Client : spc'[d] = IF d = c THEN "idle" ELSE spc[d]
      /\ RepliesLive'
  BY <1>1, NoneIsLive, CallEnds
<1>3. SecretTypes'
  BY <1>1, <1>2 DEF SecretTypes, S!Resolving, S!File
<1>4. LoadedLive' /\ BarredGone'
  BY <1>1, <1>2 DEF LoadedLive, BarredGone, SecretTypes, Live
<1> QED BY <1>2, <1>3, <1>4

\* An entry of a value that is not cleared comes into a file.
LEMMA StoresLive ==
  ASSUME SecretInv, NEW n \in Name, NEW v, S!Stores(n, v), sets' \in Nat, sets <= sets',
         cleared' \subseteq cleared, v \in 0..sets', v \notin cleared'
  PROVE  DOMAIN secret' = S!File /\ StoreLive'
<1>1. FileOf[n] \in S!File
  BY DEF S!File
<1> DEFINE new == [name |-> n, value |-> v, key |-> S!Key]
<1>2. /\ DOMAIN secret' = S!File
      /\ \A f \in S!File : secret'[f] = IF f = FileOf[n] THEN new ELSE secret[f]
  BY <1>1 DEF S!Stores, SecretInv, SecretTypes
<1>3. new.value = v
  OBVIOUS
<1> HIDE DEF new
<1> QED BY <1>2, <1>3 DEF SecretInv, SecretTypes, StoreLive, Live, S!File

LEMMA SetStep ==
  ASSUME NoneAssumption, SecretInv, NEW c \in Client, NEW n \in Name, NEW b \in BOOLEAN,
         S!Set(c, n, b)
  PROVE  SecretInv'
<1>1. /\ S!Calls(c, n) /\ S!Answers(c, None) /\ UNCHANGED <<registry, loaded, cleared>>
      /\ \/ UNCHANGED <<secret, sets>>
         \/ S!Stores(n, sets + 1) /\ sets' = sets + 1
         \/ S!Stores(n, 0) /\ sets' = sets
  BY DEF S!Set, S!Outside
<1>2. sets \in Nat /\ cleared \subseteq 1..sets
  BY DEF SecretInv, SecretTypes
<1>3. sets' \in Nat /\ sets <= sets'
  BY <1>1, <1>2
<1>4. DOMAIN secret' = S!File /\ StoreLive'
  <2>1. CASE UNCHANGED <<secret, sets>>
    BY <1>1, <2>1 DEF SecretInv, SecretTypes, StoreLive, Live
  <2>2. CASE S!Stores(n, sets + 1) /\ sets' = sets + 1
    BY <1>1, <1>2, <1>3, <2>2, StoresLive
  <2>3. CASE S!Stores(n, 0) /\ sets' = sets
    BY <1>1, <1>2, <1>3, <2>3, StoresLive
  <2> QED BY <1>1, <2>1, <2>2, <2>3
<1>5. /\ DOMAIN registry' = Name /\ RegistryLive'
      /\ \A m \in Name : registry'[m] # Absent => DOMAIN registry'[m] = {"by", "value"}
  BY <1>1 DEF SecretInv, SecretTypes, RegistryLive, Live
<1> QED BY <1>1, <1>3, <1>4, <1>5, PlainCall

LEMMA DeleteStep ==
  ASSUME NoneAssumption, SecretInv, NEW c \in Client, NEW n \in Name, S!Delete(c, n)
  PROVE  SecretInv'
<1>1. /\ S!Calls(c, n) /\ S!Answers(c, None) /\ UNCHANGED <<registry, loaded, cleared, sets>>
      /\ secret' = [secret EXCEPT ![FileOf[n]] = Absent]
  BY DEF S!Delete
<1>2. sets \in Nat
  BY DEF SecretInv, SecretTypes
<1>3. DOMAIN secret' = S!File /\ StoreLive'
  BY <1>1 DEF SecretInv, SecretTypes, StoreLive, Live
<1>4. /\ DOMAIN registry' = Name /\ RegistryLive'
      /\ \A m \in Name : registry'[m] # Absent => DOMAIN registry'[m] = {"by", "value"}
  BY <1>1 DEF SecretInv, SecretTypes, RegistryLive, Live
<1> QED BY <1>1, <1>2, <1>3, <1>4, PlainCall

LEMMA RegisterStep ==
  ASSUME NoneAssumption, SecretInv, NEW c \in Client,
         \/ \E n \in Name : S!Register(c, n) \/ S!Unregister(c, n)
         \/ S!RegisterFromStore(c)
  PROVE  SecretInv'
<1>1. /\ \E n \in Name : S!Calls(c, n)
      /\ S!Answers(c, None) /\ UNCHANGED <<secret, loaded, cleared, sets>>
  BY DEF S!Register, S!Unregister, S!RegisterFromStore
<1>2. /\ DOMAIN registry' = Name
      /\ \A m \in Name : \/ registry'[m] \in {registry[m], Absent}
                         \/ registry'[m] = [by |-> <<c, ops[c]>>, value |-> Absent]
  BY DEF S!Register, S!Unregister, S!RegisterFromStore, S!Registered, SecretInv, SecretTypes
<1>3. sets \in Nat
  BY DEF SecretInv, SecretTypes
<1>4. DOMAIN secret' = S!File /\ StoreLive'
  BY <1>1 DEF SecretInv, SecretTypes, StoreLive, Live
<1>5. RegistryLive' /\ \A m \in Name : registry'[m] # Absent => DOMAIN registry'[m] = {"by", "value"}
  BY <1>1, <1>2 DEF SecretInv, SecretTypes, RegistryLive, Live
<1> QED BY <1>1, <1>2, <1>3, <1>4, <1>5, PlainCall

LEMMA ClearStep ==
  ASSUME NoneAssumption, SecretInv, NEW c \in Client, S!ClearCache(c)
  PROVE  SecretInv'
<1> USE DEF SecretInv
<1>1. PICK n \in Name : S!Calls(c, n)
  BY DEF S!ClearCache
<1>2. /\ S!Answers(c, None) /\ UNCHANGED <<secret, loaded, sets>>
      /\ registry' = [m \in Name |-> IF registry[m] = Absent THEN Absent
                                     ELSE [registry[m] EXCEPT !.value = Absent]]
      /\ cleared' = IF \E d \in Client : spc[d] \in S!Resolving THEN cleared ELSE S!Gone
  BY DEF S!ClearCache
<1>3. /\ spc[c] = "idle" /\ name' \in [Client -> Name] /\ DOMAIN barred' = Client
      /\ \A d \in Client : barred'[d] = IF d = c THEN cleared ELSE barred[d]
  BY <1>1, CallBegins
<1>4. /\ DOMAIN spc' = Client /\ DOMAIN reply' = Client
      /\ \A d \in Client : spc'[d] = IF d = c THEN "idle" ELSE spc[d]
      /\ RepliesLive'
  BY <1>2, <1>3, NoneIsLive, CallEnds
<1>5. cleared \subseteq S!Gone /\ S!Gone \subseteq 1..sets
      /\ \A f \in S!File : secret[f] # Absent => secret[f].value \notin S!Gone
  BY DEF S!Gone, S!Stored, StoreLive, Live, SecretTypes
<1>6. \A m \in Name : registry'[m] # Absent => DOMAIN registry'[m] = {"by", "value"} /\ registry'[m].value = Absent
  BY <1>2 DEF SecretTypes
<1>7. SecretTypes'
  BY <1>2, <1>3, <1>4, <1>5, <1>6 DEF SecretTypes, S!Resolving, S!File
<1>8. StoreLive' /\ RegistryLive'
  BY <1>2, <1>5, <1>6 DEF StoreLive, RegistryLive, Live, S!File
<1>9. LoadedLive'
  BY <1>2, <1>3, <1>4 DEF LoadedLive, Live, S!Resolving
<1>10. BarredGone'
  BY <1>2, <1>3, <1>5 DEF BarredGone
<1> QED BY <1>4, <1>7, <1>8, <1>9, <1>10

\* A call goes on to its next step.
LEMMA UpdateReadsStep ==
  ASSUME NoneAssumption, SecretInv, NEW c \in Client, NEW n \in Name, NEW b \in BOOLEAN,
         S!UpdateReads(c, n, b)
  PROVE  SecretInv'
<1> USE DEF SecretInv
<1>1. /\ S!Calls(c, n) /\ UNCHANGED <<secret, registry, cleared>> /\ FileOf[n] \in S!File
      /\ sets \in Nat
  BY DEF S!UpdateReads, S!File, SecretTypes
<1>2. CASE S!Answers(c, None) /\ UNCHANGED <<loaded, sets>>
  <2>1. DOMAIN secret' = S!File /\ StoreLive' /\ DOMAIN registry' = Name /\ RegistryLive'
    BY <1>1, <1>2 DEF SecretTypes, StoreLive, RegistryLive, Live
  <2>2. \A m \in Name : registry'[m] # Absent => DOMAIN registry'[m] = {"by", "value"}
    BY <1>1 DEF SecretTypes
  <2> QED BY <1>1, <1>2, <2>1, <2>2, PlainCall
<1>3. CASE /\ spc' = [spc EXCEPT ![c] = "updating"] /\ UNCHANGED reply
           /\ secret[FileOf[n]] # Absent
           /\ loaded' = [loaded EXCEPT ![c] =
                           IF b /\ secret[FileOf[n]].value # S!Outside THEN sets + 1
                                                                       ELSE secret[FileOf[n]].value]
           /\ sets' = IF b THEN sets + 1 ELSE sets
  <2>1. /\ spc[c] = "idle" /\ name' \in [Client -> Name] /\ DOMAIN barred' = Client
        /\ \A d \in Client : barred'[d] = IF d = c THEN cleared ELSE barred[d]
    BY <1>1, CallBegins
  <2>2. sets' \in Nat /\ sets <= sets' /\ secret[FileOf[n]].value \in 0..sets
    BY <1>1, <1>3 DEF StoreLive
  <2>3. /\ DOMAIN spc' = Client /\ DOMAIN loaded' = Client
        /\ \A d \in Client : spc'[d] = IF d = c THEN "updating" ELSE spc[d]
        /\ \A d \in Client : d # c => loaded'[d] = loaded[d]
        /\ loaded'[c] \in 0..sets'
    BY <1>1, <1>3, <2>2 DEF SecretTypes
  <2>4. SecretTypes'
    BY <1>1, <1>3, <2>1, <2>2, <2>3 DEF SecretTypes, S!Resolving, S!File
  <2>5. StoreLive' /\ RegistryLive'
    BY <1>1, <2>2 DEF StoreLive, RegistryLive, Live, S!File
  <2>6. LoadedLive'
    BY <1>1, <2>2, <2>3 DEF LoadedLive, Live
  <2>7. BarredGone' /\ RepliesLive'
    BY <1>1, <1>3, <2>1, <2>3 DEF BarredGone, RepliesLive
  <2> QED BY <2>4, <2>5, <2>6, <2>7
<1> QED BY <1>1, <1>2, <1>3 DEF S!UpdateReads

LEMMA UpdateWritesStep ==
  ASSUME NoneAssumption, SecretInv, NEW c \in Client, S!UpdateWrites(c)
  PROVE  SecretInv'
<1> USE DEF SecretInv
<1>1. /\ spc[c] = "updating" /\ S!Stores(name[c], loaded[c]) /\ S!Answers(c, None)
      /\ loaded' = [loaded EXCEPT ![c] = Absent]
      /\ cleared' = cleared \ {loaded[c]}
      /\ barred' = [d \in Client |-> barred[d] \ {loaded[c]}]
      /\ UNCHANGED <<registry, name, sets>> /\ name[c] \in Name /\ loaded[c] \in 0..sets
      /\ sets \in Nat
  BY DEF S!UpdateWrites, SecretTypes, LoadedLive
<1>2. DOMAIN secret' = S!File /\ StoreLive'
  BY <1>1, StoresLive
<1>3. /\ DOMAIN spc' = Client /\ DOMAIN reply' = Client
      /\ \A d \in Client : spc'[d] = IF d = c THEN "idle" ELSE spc[d]
      /\ RepliesLive'
  <2>1. /\ None \notin barred'[c] /\ DOMAIN barred' = Client
        /\ \A d \in Client \ {c} : barred'[d] \subseteq barred[d]
    BY <1>1, NoneIsLive
  <2> QED BY <1>1, <2>1, CallEnds
<1>4. SecretTypes'
  BY <1>1, <1>2, <1>3 DEF SecretTypes, S!Resolving, S!File
<1>5. RegistryLive' /\ LoadedLive' /\ BarredGone'
  BY <1>1, <1>3 DEF RegistryLive, LoadedLive, BarredGone, Live, SecretTypes
<1> QED BY <1>2, <1>3, <1>4, <1>5

LEMMA ResolveStep ==
  ASSUME NoneAssumption, SecretInv, NEW c \in Client, NEW n \in Name, S!Resolve(c, n)
  PROVE  SecretInv'
<1> USE DEF SecretInv
<1>1. /\ S!Calls(c, n) /\ UNCHANGED <<secret, registry, sets, cleared>> /\ sets \in Nat
  BY DEF S!Resolve, SecretTypes
<1>2. /\ spc[c] = "idle" /\ name' \in [Client -> Name] /\ DOMAIN barred' = Client
      /\ \A d \in Client : barred'[d] = IF d = c THEN cleared ELSE barred[d]
  BY <1>1, CallBegins
<1>3. StoreLive' /\ RegistryLive' /\ BarredGone'
  BY <1>1, <1>2 DEF StoreLive, RegistryLive, BarredGone, Live, S!File
<1>4. ASSUME NEW v, v \notin cleared, S!Answers(c, v), UNCHANGED loaded
      PROVE  SecretInv'
  <2>1. /\ DOMAIN spc' = Client /\ DOMAIN reply' = Client
        /\ \A d \in Client : spc'[d] = IF d = c THEN "idle" ELSE spc[d]
        /\ RepliesLive'
    BY <1>2, <1>4, CallEnds
  <2>2. SecretTypes' /\ LoadedLive'
    BY <1>1, <1>2, <1>4, <2>1 DEF SecretTypes, LoadedLive, S!Resolving, S!File, Live
  <2> QED BY <1>3, <2>1, <2>2
<1>5. CASE /\ registry[n] # Absent /\ spc' = [spc EXCEPT ![c] = "reading"]
           /\ loaded' = [loaded EXCEPT ![c] = registry[n]] /\ UNCHANGED reply
  <2>1. /\ DOMAIN spc' = Client /\ DOMAIN loaded' = Client
        /\ \A d \in Client : spc'[d] = IF d = c THEN "reading" ELSE spc[d]
        /\ \A d \in Client : loaded'[d] = IF d = c THEN registry[n] ELSE loaded[d]
    BY <1>5 DEF SecretTypes
  <2>2. SecretTypes'
    BY <1>1, <1>2, <1>5, <2>1 DEF SecretTypes, S!Resolving, S!File
  <2>3. LoadedLive' /\ RepliesLive'
    BY <1>1, <1>2, <1>5, <2>1 DEF LoadedLive, RepliesLive, Live
  <2> QED BY <1>3, <2>2, <2>3
<1>6. \/ S!Answers(c, None) /\ UNCHANGED loaded
      \/ /\ registry[n] # Absent /\ registry[n].value # Absent
         /\ S!Answers(c, registry[n].value) /\ UNCHANGED loaded
      \/ /\ registry[n] # Absent /\ spc' = [spc EXCEPT ![c] = "reading"]
         /\ loaded' = [loaded EXCEPT ![c] = registry[n]] /\ UNCHANGED reply
  BY DEF S!Resolve
<1>7. registry[n] # Absent /\ registry[n].value # Absent => registry[n].value \notin cleared
  BY DEF RegistryLive, Live
<1> QED BY <1>4, <1>5, <1>6, <1>7, NoneIsLive

LEMMA ResolveReadsStep ==
  ASSUME NoneAssumption, SecretInv, NEW c \in Client, S!ResolveReads(c)
  PROVE  SecretInv'
<1> USE DEF SecretInv
<1>1. /\ spc[c] = "reading" /\ UNCHANGED <<secret, registry, name, sets, cleared, barred>>
      /\ name[c] \in Name /\ FileOf[name[c]] \in S!File
      /\ DOMAIN loaded[c] = {"by", "value"}
  BY DEF S!ResolveReads, SecretTypes, S!File, S!Resolving
<1>2. StoreLive' /\ RegistryLive' /\ BarredGone'
  BY <1>1 DEF StoreLive, RegistryLive, BarredGone, Live, S!File
<1>3. CASE /\ secret[FileOf[name[c]]] # Absent /\ spc' = [spc EXCEPT ![c] = "keeping"]
           /\ loaded' = [loaded EXCEPT ![c].value = secret[FileOf[name[c]]].value]
           /\ UNCHANGED reply
  <2> DEFINE v == secret[FileOf[name[c]]].value
  <2>1. Live(v)
    BY <1>1, <1>3 DEF StoreLive
  <2>2. loaded' = [loaded EXCEPT ![c] = [loaded[c] EXCEPT !.value = v]]
    BY <1>3
  <2> HIDE DEF v
  <2>3. /\ DOMAIN spc' = Client /\ DOMAIN loaded' = Client
        /\ \A d \in Client : spc'[d] = IF d = c THEN "keeping" ELSE spc[d]
        /\ \A d \in Client : d # c => loaded'[d] = loaded[d]
        /\ loaded'[c].value = v /\ DOMAIN loaded'[c] = {"by", "value"}
    BY <1>1, <1>3, <2>2 DEF SecretTypes
  <2>4. SecretTypes'
    BY <1>1, <1>3, <2>3 DEF SecretTypes, S!Resolving, S!File
  <2>5. LoadedLive' /\ RepliesLive'
    BY <1>1, <1>3, <2>1, <2>3 DEF LoadedLive, RepliesLive, Live
  <2> QED BY <1>2, <2>4, <2>5
<1>4. CASE S!Answers(c, None) /\ loaded' = [loaded EXCEPT ![c] = Absent]
  <2>1. /\ DOMAIN spc' = Client /\ DOMAIN reply' = Client
        /\ \A d \in Client : spc'[d] = IF d = c THEN "idle" ELSE spc[d]
        /\ RepliesLive'
    <3>1. /\ DOMAIN barred' = Client /\ None \notin barred'[c]
          /\ \A d \in Client \ {c} : barred'[d] \subseteq barred[d]
      BY <1>1, NoneIsLive DEF SecretTypes
    <3> QED BY <1>4, <3>1, CallEnds
  <2>2. SecretTypes' /\ LoadedLive'
    BY <1>1, <1>4, <2>1 DEF SecretTypes, LoadedLive, S!Resolving, S!File, Live
  <2> QED BY <1>2, <2>1, <2>2
<1> QED BY <1>3, <1>4 DEF S!ResolveReads, S!Readable

LEMMA ResolveKeepsStep ==
  ASSUME NoneAssumption, SecretInv, NEW c \in Client, S!ResolveKeeps(c)
  PROVE  SecretInv'
<1> USE DEF SecretInv
<1>1. /\ spc[c] = "keeping" /\ UNCHANGED <<secret, name, sets, cleared, barred>>
      /\ S!Answers(c, loaded[c].value) /\ loaded' = [loaded EXCEPT ![c] = Absent]
      /\ Live(loaded[c].value) /\ DOMAIN loaded[c] = {"by", "value"} /\ name[c] \in Name
  BY DEF S!ResolveKeeps, SecretTypes, LoadedLive, S!Resolving
<1>2. /\ DOMAIN registry' = Name
      /\ \A m \in Name : registry'[m] \in {registry[m], loaded[c]}
  <2>1. registry' = [registry EXCEPT ![name[c]] =
                       IF registry[name[c]] # Absent /\ registry[name[c]].by = loaded[c].by
                       THEN loaded[c] ELSE registry[name[c]]]
    BY DEF S!ResolveKeeps
  <2> QED BY <2>1 DEF SecretTypes
<1>3. /\ DOMAIN spc' = Client /\ DOMAIN reply' = Client
      /\ \A d \in Client : spc'[d] = IF d = c THEN "idle" ELSE spc[d]
      /\ RepliesLive'
  <2>1. /\ DOMAIN barred' = Client /\ loaded[c].value \notin barred'[c]
        /\ \A d \in Client \ {c} : barred'[d] \subseteq barred[d]
    BY <1>1 DEF SecretTypes, BarredGone, Live
  <2> QED BY <1>1, <2>1, CallEnds
<1>4. StoreLive' /\ BarredGone' /\ RegistryLive'
  BY <1>1, <1>2 DEF StoreLive, RegistryLive, BarredGone, Live, S!File
<1>5. SecretTypes' /\ LoadedLive'
  BY <1>1, <1>2, <1>3 DEF SecretTypes, LoadedLive, S!Resolving, S!File, Live
<1> QED BY <1>3, <1>4, <1>5

LEMMA SecretRestartStep ==
  ASSUME NoneAssumption, SecretInv, S!Restart
  PROVE  SecretInv'
<1> USE DEF SecretInv
<1>1. /\ spc' = [c \in Client |-> "idle"] /\ loaded' = [c \in Client |-> Absent]
      /\ reply' = [c \in Client |-> None]
      /\ UNCHANGED <<secret, name, cleared, barred>>
  BY DEF S!Restart
<1>2. PICK n \in Name, aside \in {{}, {sets + 1}} :
        /\ sets' = sets + S!Cardinality(aside)
        /\ DOMAIN registry' = Name
        /\ \A m \in Name : \/ registry'[m] = [by |-> <<None, restarts>>, value |-> Absent]
                           \/ registry'[m] = Absent
  BY DEF S!Restart, S!Registered
<1>3. sets' \in Nat /\ sets <= sets'
  <2>1. S!Cardinality(aside) = Cardinality(aside)
    BY DEF S!Cardinality, Cardinality
  <2>2. Cardinality(aside) \in Nat
    <3>1. IsFiniteSet({}) /\ IsFiniteSet({sets + 1})
      BY FS_EmptySet, FS_Singleton
    <3> QED BY <3>1, FS_CardinalityType
  <2> QED BY <1>2, <2>1, <2>2 DEF SecretTypes
<1>4. SecretTypes'
  BY <1>1, <1>2, <1>3 DEF SecretTypes, S!Resolving, S!File
<1>5. StoreLive' /\ RegistryLive' /\ LoadedLive'
  BY <1>1, <1>2, <1>3 DEF SecretTypes, StoreLive, RegistryLive, LoadedLive, Live, S!File
<1>6. BarredGone' /\ RepliesLive'
  BY <1>1, NoneIsLive DEF BarredGone, RepliesLive
<1> QED BY <1>4, <1>5, <1>6

LEMMA SecretStep ==
  ASSUME NoneAssumption, SecretInv, [S!SecretNext]_secretVars
  PROVE  SecretInv'
<1>1. CASE UNCHANGED secretVars
  BY <1>1 DEF secretVars, SecretInv, SecretTypes, StoreLive, RegistryLive, LoadedLive, BarredGone,
              RepliesLive, Live, S!File
<1> QED BY <1>1, SetStep, DeleteStep, RegisterStep, ClearStep, UpdateReadsStep, UpdateWritesStep,
           ResolveStep, ResolveReadsStep, ResolveKeepsStep, SecretRestartStep DEF S!SecretNext

LEMMA ClearedIsGoneFollows == SecretInv => ClearedIsGone
BY DEF SecretInv, RepliesLive, S!ClearedIsGone, ClearedIsGone

-------------------------------------------------------------------------------
(* The file stores.  What follows what in the plans of the operations.        *)

Near == {"memory", "local"}

\* The steps a store on this machine takes with its lock held.
Inside(b) ==
    {"vacant", "present", "get", "put", "remove", "temp", "fill", "replace", "sidecar", "unside",
     "unlock"} \cup IF b = "local" THEN {"chunk"} ELSE {}

\* The steps that only a test for the file being absent comes before.
Creates(b) == {"temp", "fill", "replace", "put"} \cup IF b = "local" THEN {"chunk"} ELSE {}

Follows(b, o, s, t) ==
    /\ b \in Near /\ t \in Inside(b) => s = "lock" \/ s \in Inside(b) \ {"unlock"}
    /\ t = "replace" => s \in {"fill", "chunk"} /\ b = "local"
    /\ t = "fill" \/ (t = "chunk" /\ b = "local") => s = "temp"
    /\ b \in Near /\ o \in F!Creating /\ t \in Creates(b) =>
           s = "vacant" \/ s \in {"temp", "fill"} \cup IF b = "local" THEN {"chunk"} ELSE {}
    /\ b = "local" => (s = "replace" <=> t = "sidecar") /\ (s = "remove" <=> t = "unside")

PlanShape(b, o, p) ==
    /\ Len(p) \in Nat \ {0}
    /\ p[1] \notin {"replace", "fill", "remove", "sidecar", "unside"}
    /\ b \in Near => p[1] \notin Inside(b) /\ (o \in F!Creating => p[1] \notin Creates(b))
    /\ b = "local" => p[Len(p)] \notin {"replace", "remove"}
    /\ b = "local" => \A i \in 1..Len(p) : p[i] # "put"
    /\ \A i \in 1..Len(p) - 1 : Follows(b, o, p[i], p[i + 1])
    /\ b \in Near /\ o \in F!Creating => \E i \in 1..Len(p) : p[i] \in {"put", "replace"}

LEMMA MemoryShape ==
  ASSUME NEW o \in F!Operation
  PROVE  PlanShape("memory", o, F!MemoryPlans[o])
<1>1. ASSUME o \in {"write"}, NEW p, p = F!MemoryPlans[o] PROVE PlanShape("memory", o, p)
  <2>1. o \in {"write"} /\ p = <<"lock", "put", "unlock">>
    BY <1>1 DEF F!MemoryPlans
  <2> QED BY <2>1 DEF Follows, Inside, Creates, Near, F!Creating, PlanShape
<1>2. ASSUME o \in {"create"}, NEW p, p = F!MemoryPlans[o] PROVE PlanShape("memory", o, p)
  <2>1. o \in {"create"} /\ p = <<"lock", "vacant", "put", "unlock">>
    BY <1>2 DEF F!MemoryPlans
  <2> QED BY <2>1 DEF Follows, Inside, Creates, Near, F!Creating, PlanShape
<1>3. ASSUME o \in {"stream"}, NEW p, p = F!MemoryPlans[o] PROVE PlanShape("memory", o, p)
  <2>1. o \in {"stream"} /\ p = <<"chunk", "lock", "put", "unlock">>
    BY <1>3 DEF F!MemoryPlans
  <2> QED BY <2>1 DEF Follows, Inside, Creates, Near, F!Creating, PlanShape
<1>4. ASSUME o \in {"createStream"}, NEW p, p = F!MemoryPlans[o] PROVE PlanShape("memory", o, p)
  <2>1. o \in {"createStream"} /\ p = <<"chunk", "lock", "vacant", "put", "unlock">>
    BY <1>4 DEF F!MemoryPlans
  <2> QED BY <2>1 DEF Follows, Inside, Creates, Near, F!Creating, PlanShape
<1>5. ASSUME o \in {"read", "readStream"}, NEW p, p = F!MemoryPlans[o] PROVE PlanShape("memory", o, p)
  <2>1. o \in {"read", "readStream"} /\ p = <<"lock", "get", "unlock">>
    BY <1>5 DEF F!MemoryPlans
  <2> QED BY <2>1 DEF Follows, Inside, Creates, Near, F!Creating, PlanShape
<1>6. ASSUME o \in {"delete"}, NEW p, p = F!MemoryPlans[o] PROVE PlanShape("memory", o, p)
  <2>1. o \in {"delete"} /\ p = <<"lock", "present", "remove", "unlock">>
    BY <1>6 DEF F!MemoryPlans
  <2> QED BY <2>1 DEF Follows, Inside, Creates, Near, F!Creating, PlanShape
<1>7. ASSUME o \in {"stat"}, NEW p, p = F!MemoryPlans[o] PROVE PlanShape("memory", o, p)
  <2>1. o \in {"stat"} /\ p = <<"lock", "present", "unlock">>
    BY <1>7 DEF F!MemoryPlans
  <2> QED BY <2>1 DEF Follows, Inside, Creates, Near, F!Creating, PlanShape
<1> QED BY <1>1, <1>2, <1>3, <1>4, <1>5, <1>6, <1>7 DEF F!Operation, F!Streaming, F!Creating

LEMMA LocalShape ==
  ASSUME NEW o \in F!Operation
  PROVE  PlanShape("local", o, F!LocalPlans[o])
<1>1. ASSUME o \in {"write"}, NEW p, p = F!LocalPlans[o] PROVE PlanShape("local", o, p)
  <2>1. o \in {"write"} /\ p = <<"lock", "temp", "fill", "replace", "sidecar", "unlock">>
    BY <1>1 DEF F!LocalPlans, F!LocalWrite, F!LocalStream, F!LocalRead, F!LocalDelete, F!LocalStat,
           F!LocalReadStream
  <2>2. Len(p) = 6 /\ p[1] = "lock" /\ p[2] = "temp" /\ p[3] = "fill" /\ p[4] = "replace"
       /\ p[5] = "sidecar" /\ p[6] = "unlock"
    BY <2>1
  <2>3. Follows("local", o, "lock", "temp") /\ Follows("local", o, "temp", "fill")
    BY <2>1 DEF Follows, Inside, Creates, Near, F!Creating
  <2>4. Follows("local", o, "fill", "replace") /\ Follows("local", o, "replace", "sidecar")
    BY <2>1 DEF Follows, Inside, Creates, Near, F!Creating
  <2>5. Follows("local", o, "sidecar", "unlock")
    BY <2>1 DEF Follows, Inside, Creates, Near, F!Creating
  <2>6. \A i \in 1..6 - 1 : Follows("local", o, p[i], p[i + 1])
    <3>1. \A i \in 1..6 - 1 : i \in {1, 2, 3, 4, 5}
      OBVIOUS
    <3>2. \A i \in {1, 2, 3, 4, 5} : Follows("local", o, p[i], p[i + 1])
      BY <2>2, <2>3, <2>4, <2>5
    <3> QED BY <3>1, <3>2
  <2>7. p[1] \notin Inside("local") /\ p[1] \notin Creates("local")
    BY <2>2 DEF Inside, Creates
  <2>8. \A i \in 1..6 : p[i] # "put"
    <3>1. \A i \in 1..6 : i \in {1, 2, 3, 4, 5, 6}
      OBVIOUS
    <3> QED BY <2>2, <3>1
  <2>9. \E i \in 1..6 : p[i] \in {"put", "replace"}
    BY <2>2
  <2>10. Len(p) = 6 /\ p[1] = "lock" /\ p[6] = "unlock"
    BY <2>2
  <2> QED BY <2>6, <2>7, <2>8, <2>9, <2>10 DEF PlanShape
<1>2. ASSUME o \in {"create"}, NEW p, p = F!LocalPlans[o] PROVE PlanShape("local", o, p)
  <2>1. o \in {"create"} /\ p = <<"lock", "vacant", "temp", "fill", "replace", "sidecar", "unlock">>
    BY <1>2 DEF F!LocalPlans, F!LocalWrite, F!LocalStream, F!LocalRead, F!LocalDelete, F!LocalStat,
           F!LocalReadStream
  <2>2. Len(p) = 7 /\ p[1] = "lock" /\ p[2] = "vacant" /\ p[3] = "temp" /\ p[4] = "fill"
       /\ p[5] = "replace" /\ p[6] = "sidecar" /\ p[7] = "unlock"
    BY <2>1
  <2>3. Follows("local", o, "lock", "vacant") /\ Follows("local", o, "vacant", "temp")
    BY <2>1 DEF Follows, Inside, Creates, Near, F!Creating
  <2>4. Follows("local", o, "temp", "fill") /\ Follows("local", o, "fill", "replace")
    BY <2>1 DEF Follows, Inside, Creates, Near, F!Creating
  <2>5. Follows("local", o, "replace", "sidecar") /\ Follows("local", o, "sidecar", "unlock")
    BY <2>1 DEF Follows, Inside, Creates, Near, F!Creating
  <2>6. \A i \in 1..7 - 1 : Follows("local", o, p[i], p[i + 1])
    <3>1. \A i \in 1..7 - 1 : i \in {1, 2, 3, 4, 5, 6}
      OBVIOUS
    <3>2. \A i \in {1, 2, 3, 4, 5, 6} : Follows("local", o, p[i], p[i + 1])
      BY <2>2, <2>3, <2>4, <2>5
    <3> QED BY <3>1, <3>2
  <2>7. p[1] \notin Inside("local") /\ p[1] \notin Creates("local")
    BY <2>2 DEF Inside, Creates
  <2>8. \A i \in 1..7 : p[i] # "put"
    <3>1. \A i \in 1..7 : i \in {1, 2, 3, 4, 5, 6, 7}
      OBVIOUS
    <3> QED BY <2>2, <3>1
  <2>9. \E i \in 1..7 : p[i] \in {"put", "replace"}
    BY <2>2
  <2>10. Len(p) = 7 /\ p[1] = "lock" /\ p[7] = "unlock"
    BY <2>2
  <2> QED BY <2>6, <2>7, <2>8, <2>9, <2>10 DEF PlanShape
<1>3. ASSUME o \in {"stream"}, NEW p, p = F!LocalPlans[o] PROVE PlanShape("local", o, p)
  <2>1. o \in {"stream"} /\ p = <<"lock", "temp", "chunk", "replace", "sidecar", "unlock">>
    BY <1>3 DEF F!LocalPlans, F!LocalWrite, F!LocalStream, F!LocalRead, F!LocalDelete, F!LocalStat,
           F!LocalReadStream
  <2>2. Len(p) = 6 /\ p[1] = "lock" /\ p[2] = "temp" /\ p[3] = "chunk" /\ p[4] = "replace"
       /\ p[5] = "sidecar" /\ p[6] = "unlock"
    BY <2>1
  <2>3. Follows("local", o, "lock", "temp") /\ Follows("local", o, "temp", "chunk")
    BY <2>1 DEF Follows, Inside, Creates, Near, F!Creating
  <2>4. Follows("local", o, "chunk", "replace") /\ Follows("local", o, "replace", "sidecar")
    BY <2>1 DEF Follows, Inside, Creates, Near, F!Creating
  <2>5. Follows("local", o, "sidecar", "unlock")
    BY <2>1 DEF Follows, Inside, Creates, Near, F!Creating
  <2>6. \A i \in 1..6 - 1 : Follows("local", o, p[i], p[i + 1])
    <3>1. \A i \in 1..6 - 1 : i \in {1, 2, 3, 4, 5}
      OBVIOUS
    <3>2. \A i \in {1, 2, 3, 4, 5} : Follows("local", o, p[i], p[i + 1])
      BY <2>2, <2>3, <2>4, <2>5
    <3> QED BY <3>1, <3>2
  <2>7. p[1] \notin Inside("local") /\ p[1] \notin Creates("local")
    BY <2>2 DEF Inside, Creates
  <2>8. \A i \in 1..6 : p[i] # "put"
    <3>1. \A i \in 1..6 : i \in {1, 2, 3, 4, 5, 6}
      OBVIOUS
    <3> QED BY <2>2, <3>1
  <2>9. \E i \in 1..6 : p[i] \in {"put", "replace"}
    BY <2>2
  <2>10. Len(p) = 6 /\ p[1] = "lock" /\ p[6] = "unlock"
    BY <2>2
  <2> QED BY <2>6, <2>7, <2>8, <2>9, <2>10 DEF PlanShape
<1>4. ASSUME o \in {"createStream"}, NEW p, p = F!LocalPlans[o] PROVE PlanShape("local", o, p)
  <2>1. o \in {"createStream"} /\ p = <<"lock", "vacant", "temp", "chunk", "replace", "sidecar", "unlock">>
    BY <1>4 DEF F!LocalPlans, F!LocalWrite, F!LocalStream, F!LocalRead, F!LocalDelete, F!LocalStat,
           F!LocalReadStream
  <2>2. Len(p) = 7 /\ p[1] = "lock" /\ p[2] = "vacant" /\ p[3] = "temp" /\ p[4] = "chunk"
       /\ p[5] = "replace" /\ p[6] = "sidecar" /\ p[7] = "unlock"
    BY <2>1
  <2>3. Follows("local", o, "lock", "vacant") /\ Follows("local", o, "vacant", "temp")
    BY <2>1 DEF Follows, Inside, Creates, Near, F!Creating
  <2>4. Follows("local", o, "temp", "chunk") /\ Follows("local", o, "chunk", "replace")
    BY <2>1 DEF Follows, Inside, Creates, Near, F!Creating
  <2>5. Follows("local", o, "replace", "sidecar") /\ Follows("local", o, "sidecar", "unlock")
    BY <2>1 DEF Follows, Inside, Creates, Near, F!Creating
  <2>6. \A i \in 1..7 - 1 : Follows("local", o, p[i], p[i + 1])
    <3>1. \A i \in 1..7 - 1 : i \in {1, 2, 3, 4, 5, 6}
      OBVIOUS
    <3>2. \A i \in {1, 2, 3, 4, 5, 6} : Follows("local", o, p[i], p[i + 1])
      BY <2>2, <2>3, <2>4, <2>5
    <3> QED BY <3>1, <3>2
  <2>7. p[1] \notin Inside("local") /\ p[1] \notin Creates("local")
    BY <2>2 DEF Inside, Creates
  <2>8. \A i \in 1..7 : p[i] # "put"
    <3>1. \A i \in 1..7 : i \in {1, 2, 3, 4, 5, 6, 7}
      OBVIOUS
    <3> QED BY <2>2, <3>1
  <2>9. \E i \in 1..7 : p[i] \in {"put", "replace"}
    BY <2>2
  <2>10. Len(p) = 7 /\ p[1] = "lock" /\ p[7] = "unlock"
    BY <2>2
  <2> QED BY <2>6, <2>7, <2>8, <2>9, <2>10 DEF PlanShape
<1>5. ASSUME o \in {"read"}, NEW p, p = F!LocalPlans[o] PROVE PlanShape("local", o, p)
  <2>1. o \in {"read"} /\ p = <<"lock", "get", "unlock">>
    BY <1>5 DEF F!LocalPlans, F!LocalWrite, F!LocalStream, F!LocalRead, F!LocalDelete, F!LocalStat,
           F!LocalReadStream
  <2> QED BY <2>1 DEF Follows, Inside, Creates, Near, F!Creating, PlanShape
<1>6. ASSUME o \in {"delete"}, NEW p, p = F!LocalPlans[o] PROVE PlanShape("local", o, p)
  <2>1. o \in {"delete"} /\ p = <<"lock", "present", "remove", "unside", "unlock">>
    BY <1>6 DEF F!LocalPlans, F!LocalWrite, F!LocalStream, F!LocalRead, F!LocalDelete, F!LocalStat,
           F!LocalReadStream
  <2> QED BY <2>1 DEF Follows, Inside, Creates, Near, F!Creating, PlanShape
<1>7. ASSUME o \in {"stat"}, NEW p, p = F!LocalPlans[o] PROVE PlanShape("local", o, p)
  <2>1. o \in {"stat"} /\ p = <<"lock", "present", "unlock">>
    BY <1>7 DEF F!LocalPlans, F!LocalWrite, F!LocalStream, F!LocalRead, F!LocalDelete, F!LocalStat,
           F!LocalReadStream
  <2> QED BY <2>1 DEF Follows, Inside, Creates, Near, F!Creating, PlanShape
<1>8. ASSUME o \in {"readStream"}, NEW p, p = F!LocalPlans[o] PROVE PlanShape("local", o, p)
  <2>1. o \in {"readStream"} /\ p = <<"lock", "present", "unlock", "open", "next">>
    BY <1>8 DEF F!LocalPlans, F!LocalWrite, F!LocalStream, F!LocalRead, F!LocalDelete, F!LocalStat,
           F!LocalReadStream
  <2> QED BY <2>1 DEF Follows, Inside, Creates, Near, F!Creating, PlanShape
<1> QED BY <1>1, <1>2, <1>3, <1>4, <1>5, <1>6, <1>7, <1>8 DEF F!Operation, F!Streaming, F!Creating

LEMMA BucketShape ==
  ASSUME NEW b \in {"s3", "gcs"}, NEW o \in F!Operation
  PROVE  PlanShape(b, o, F!S3Plans[o])
<1>1. ASSUME o \in {"write"}, NEW p, p = F!S3Plans[o] PROVE PlanShape(b, o, p)
  <2>1. o \in {"write"} /\ p = <<"put", "present">>
    BY <1>1 DEF F!S3Plans, F!S3Write, F!S3Stream, F!S3Read, F!S3Delete, F!S3Stat
  <2> QED BY <2>1 DEF Follows, Inside, Creates, Near, F!Creating, PlanShape
<1>2. ASSUME o \in {"create"}, NEW p, p = F!S3Plans[o] PROVE PlanShape(b, o, p)
  <2>1. o \in {"create"} /\ p = <<"vacant", "put", "present">>
    BY <1>2 DEF F!S3Plans, F!S3Write, F!S3Stream, F!S3Read, F!S3Delete, F!S3Stat
  <2> QED BY <2>1 DEF Follows, Inside, Creates, Near, F!Creating, PlanShape
<1>3. ASSUME o \in {"read", "readStream"}, NEW p, p = F!S3Plans[o] PROVE PlanShape(b, o, p)
  <2>1. o \in {"read", "readStream"} /\ p = <<"get">>
    BY <1>3 DEF F!S3Plans, F!S3Write, F!S3Stream, F!S3Read, F!S3Delete, F!S3Stat
  <2> QED BY <2>1 DEF Follows, Inside, Creates, Near, F!Creating, PlanShape
<1>4. ASSUME o \in {"delete"}, NEW p, p = F!S3Plans[o] PROVE PlanShape(b, o, p)
  <2>1. o \in {"delete"} /\ p = <<"present", "remove">>
    BY <1>4 DEF F!S3Plans, F!S3Write, F!S3Stream, F!S3Read, F!S3Delete, F!S3Stat
  <2> QED BY <2>1 DEF Follows, Inside, Creates, Near, F!Creating, PlanShape
<1>5. ASSUME o \in {"stat"}, NEW p, p = F!S3Plans[o] PROVE PlanShape(b, o, p)
  <2>1. o \in {"stat"} /\ p = <<"present">>
    BY <1>5 DEF F!S3Plans, F!S3Write, F!S3Stream, F!S3Read, F!S3Delete, F!S3Stat
  <2> QED BY <2>1 DEF Follows, Inside, Creates, Near, F!Creating, PlanShape
<1>6. ASSUME o \in {"stream"}, NEW p, p = F!S3Plans[o] PROVE PlanShape(b, o, p)
  <2>1. o \in {"stream"} /\ p = <<"chunk", "put", "present">>
    BY <1>6 DEF F!S3Plans, F!S3Write, F!S3Stream, F!S3Read, F!S3Delete, F!S3Stat
  <2> QED BY <2>1 DEF Follows, Inside, Creates, Near, F!Creating, PlanShape
<1>7. ASSUME o \in {"createStream"}, NEW p, p = F!S3Plans[o] PROVE PlanShape(b, o, p)
  <2>1. o \in {"createStream"} /\ p = <<"vacant", "chunk", "vacant", "put", "present">>
    BY <1>7 DEF F!S3Plans, F!S3Write, F!S3Stream, F!S3Read, F!S3Delete, F!S3Stat
  <2> QED BY <2>1 DEF Follows, Inside, Creates, Near, F!Creating, PlanShape
<1> QED BY <1>1, <1>2, <1>3, <1>4, <1>5, <1>6, <1>7 DEF F!Operation, F!Streaming, F!Creating

LEMMA Shapes ==
  ASSUME NEW b \in F!Backend, NEW o \in F!Operation
  PROVE  PlanShape(b, o, F!Plans[b][o])
<1>1. F!GcsPlans = F!S3Plans
  BY DEF F!GcsPlans, F!S3Plans, F!GcsWrite, F!GcsStream, F!GcsRead, F!GcsDelete, F!GcsStat
<1>2. /\ F!Plans["memory"] = F!MemoryPlans /\ F!Plans["local"] = F!LocalPlans
      /\ F!Plans["s3"] = F!S3Plans /\ F!Plans["gcs"] = F!S3Plans
  BY <1>1 DEF F!Plans
<1> QED BY <1>2, MemoryShape, LocalShape, BucketShape DEF F!Backend

\* What each variable of the stores may hold.
Content == {Absent} \cup [by : Call, whole : BOOLEAN]
Wholes == {Absent} \cup {F!Whole(c) : c \in Call}
Answer == {None, "ok", "exists", "absent", "error", "cancelled", "died"}
Inward(c) == fpc[c] = "in"

FileTypes ==
    /\ backend \in F!Backend /\ op \in [Call -> F!Operation]
    /\ fpc \in [Call -> {"idle", "in", "done"}] /\ at \in [Call -> Nat \ {0}]
    /\ answer \in [Call -> Answer] /\ temp \in [Call -> Content]
    /\ opened \in [Call -> Wholes] /\ read \in [Call -> Wholes] /\ file \in Wholes
    /\ holder \in Call \cup {None} /\ removed \in Nat

\* Where a call is in its plan.
Placement(c) ==
    /\ fpc[c] = "idle" => at[c] = 1
    /\ Inward(c) => at[c] <= Len(F!Plan(c))

\* What a step of c leaves of the other calls.
Apart(c) ==
    /\ backend' = backend /\ op' = op
    /\ fpc' \in [Call -> {"idle", "in", "done"}] /\ answer' \in [Call -> Answer]
    /\ DOMAIN at' = Call /\ temp' \in [Call -> Content]
    /\ \A d \in Call : d # c => /\ fpc'[d] = fpc[d] /\ at'[d] = at[d]
                               /\ answer'[d] = answer[d] /\ temp'[d] = temp[d]

Advances(c) ==
    /\ at'[c] = at[c] + 1
    /\ \/ at[c] < Len(F!Plan(c)) /\ fpc'[c] = "in" /\ answer'[c] = answer[c]
       \/ /\ at[c] = Len(F!Plan(c)) \/ answer[c] = "cancelled"
          /\ fpc'[c] = "done"

Quits(c) ==
    /\ at'[c] = at[c] /\ fpc'[c] = "done"
    /\ answer'[c] # "ok" \/ answer'[c] = answer[c]
    /\ holder' = IF holder = c THEN None ELSE holder

\* What a step that goes on does, by its kind.
Turns(c, s) ==
    /\ s = "lock" => holder = None /\ holder' = c
    /\ s = "unlock" => holder' = None
    /\ s \notin {"lock", "unlock"} => holder' = holder
    /\ s = "vacant" => file = Absent
    /\ s = "put" => file' = F!Whole(c)
    /\ s = "replace" => file' = temp[c]
    /\ s = "remove" => file' = Absent /\ removed' = removed + 1
    /\ s \notin {"put", "replace", "remove"} => file' = file
    /\ s # "remove" => removed' = removed

Fills(c, s) ==
    /\ s = "temp" => temp'[c] = F!Part(c)
    /\ s = "fill" => temp'[c] = F!Whole(c)
    /\ s = "chunk" => temp'[c] = IF temp[c] = Absent THEN Absent ELSE F!Whole(c)
    /\ s = "replace" => temp'[c] = Absent

Sides(c, s) ==
    /\ s = "sidecar" => (side' = c /\ ~unsided') \/ unsided'
    /\ s = "unside" => side' = Absent /\ unsided' = unsided
    /\ s \notin {"sidecar", "unside"} => side' = side /\ unsided' = unsided

Stops(c) ==
    /\ Quits(c)
    /\ UNCHANGED <<file, removed, side>>
    /\ \/ F!Step(c) \notin {"sidecar", "unside"} /\ UNCHANGED unsided
       \/ F!Step(c) = "unside" /\ unsided'

Moves(c) ==
    /\ Inward(c) /\ Apart(c)
    /\ \/ /\ Advances(c) /\ Turns(c, F!Step(c)) /\ Fills(c, F!Step(c)) /\ Sides(c, F!Step(c))
       \/ Stops(c)

LEMMA ContentTypes ==
  ASSUME NEW c \in Call
  PROVE  /\ F!Whole(c) \in Wholes /\ F!Whole(c) \in Content /\ F!Part(c) \in Content
         /\ Absent \in Wholes /\ Absent \in Content /\ F!Whole(c) # Absent /\ F!Part(c) # Absent
         /\ F!Whole(c).by = c /\ F!Whole(c).whole = TRUE
<1>1. F!Whole(c) \in [by : Call, whole : BOOLEAN] /\ F!Part(c) \in [by : Call, whole : BOOLEAN]
  BY DEF F!Whole, F!Part
<1>2. F!Whole(c).by = c /\ F!Whole(c).whole = TRUE
  BY DEF F!Whole
<1>3. F!Whole(c) # Absent /\ F!Part(c) # Absent
  BY <1>1, NoneAssumption
<1> HIDE DEF F!Whole, F!Part
<1> QED BY <1>1, <1>2, <1>3 DEF Content, Wholes

LEMMA AllContent == Wholes \subseteq Content
BY ContentTypes DEF Wholes, Content

\* Goes() and Leaves().
LEMMA GoesEffect ==
  ASSUME FileTypes, NEW c \in Call, Inward(c), F!Goes(c), Placement(c),
         backend' = backend, op' = op, temp' \in [Call -> Content],
         \A d \in Call : d # c => temp'[d] = temp[d]
  PROVE  Apart(c) /\ Advances(c)
<1>1. /\ at \in [Call -> Nat \ {0}] /\ fpc \in [Call -> {"idle", "in", "done"}]
      /\ answer \in [Call -> Answer] /\ fpc[c] = "in" /\ at[c] <= Len(F!Plan(c))
  BY DEF FileTypes, Inward, Placement
<1>2. at' = [at EXCEPT ![c] = at[c] + 1]
  BY DEF F!Goes
<1>3. CASE F!LastStep(c)
  <2>1. /\ fpc' = [fpc EXCEPT ![c] = "done"]
        /\ answer' = [answer EXCEPT ![c] = IF answer[c] = None THEN "ok" ELSE answer[c]]
    BY <1>3 DEF F!Goes
  <2>2. answer' \in [Call -> Answer]
    BY <1>1, <2>1 DEF Answer
  <2>3. at[c] = Len(F!Plan(c)) \/ answer[c] = "cancelled"
    BY <1>3 DEF F!LastStep
  <2> QED BY <1>1, <1>2, <2>1, <2>2, <2>3 DEF Apart, Advances
<1>4. CASE ~F!LastStep(c)
  <2>1. fpc' = fpc /\ answer' = answer
    BY <1>4 DEF F!Goes
  <2>2. at[c] # Len(F!Plan(c))
    BY <1>4 DEF F!LastStep
  <2>3. Len(F!Plan(c)) \in Nat /\ at[c] < Len(F!Plan(c))
    <3>1. PlanShape(backend, op[c], F!Plan(c))
      BY Shapes DEF FileTypes, F!Plan
    <3>2. Len(F!Plan(c)) \in Nat \ {0}
      BY <3>1 DEF PlanShape
    <3>3. at[c] \in Nat /\ at[c] <= Len(F!Plan(c))
      BY <1>1
    <3> QED BY <2>2, <3>2, <3>3
  <2> QED BY <1>1, <1>2, <2>1, <2>3 DEF Apart, Advances
<1> QED BY <1>3, <1>4

LEMMA LeavesEffect ==
  ASSUME FileTypes, NEW c \in Call, NEW v \in Answer \ {"ok"}, F!Leaves(c, v),
         temp' \in [Call -> Content], backend' = backend, op' = op,
         \A d \in Call : d # c => temp'[d] = temp[d]
  PROVE  Apart(c) /\ Quits(c)
<1>1. /\ at \in [Call -> Nat \ {0}] /\ fpc \in [Call -> {"idle", "in", "done"}]
      /\ answer \in [Call -> Answer]
  BY DEF FileTypes
<1>2. /\ at' = at /\ fpc' = [fpc EXCEPT ![c] = "done"]
      /\ answer' = [answer EXCEPT ![c] = IF answer[c] = None THEN v ELSE answer[c]]
      /\ holder' = IF holder = c THEN None ELSE holder
  BY DEF F!Leaves
<1>3. answer' \in [Call -> Answer]
  BY <1>1, <1>2
<1> QED BY <1>1, <1>2, <1>3 DEF Apart, Quits

\* Every step of a plan, and the cancelling of a call that awaits, is one of these moves.
LEMMA StepMoves ==
  ASSUME FileTypes, NEW c \in Call, Placement(c), F!Steps(c)
  PROVE  Moves(c)
<1>0. /\ temp \in [Call -> Content] /\ DOMAIN temp = Call
      /\ F!Whole(c) \in Content /\ F!Part(c) \in Content /\ Absent \in Content
  BY ContentTypes DEF FileTypes
<1> USE DEF F!Ready
<1>1. CASE F!Lock(c)
  <2>1. Inward(c) /\ F!Step(c) = "lock"
    BY <1>1 DEF F!Lock, Inward
  <2>2. backend' = backend /\ op' = op /\ temp' \in [Call -> Content]
        /\ \A d \in Call : d # c => temp'[d] = temp[d]
    BY <1>1, <1>0 DEF F!Lock
  <2>3. F!Goes(c)
    BY <1>1 DEF F!Lock
  <2>4. Apart(c) /\ Advances(c)
    BY <2>1, <2>2, <2>3, GoesEffect
  <2>5. Turns(c, F!Step(c)) /\ Fills(c, F!Step(c)) /\ Sides(c, F!Step(c))
    BY <1>1, <1>0, <2>1 DEF F!Lock, Turns, Fills, Sides
  <2> QED BY <2>1, <2>4, <2>5 DEF Moves
<1>2. CASE F!Unlock(c)
  <2>1. Inward(c) /\ F!Step(c) = "unlock"
    BY <1>2 DEF F!Unlock, Inward
  <2>2. backend' = backend /\ op' = op /\ temp' \in [Call -> Content]
        /\ \A d \in Call : d # c => temp'[d] = temp[d]
    BY <1>2, <1>0 DEF F!Unlock
  <2>3. F!Goes(c)
    BY <1>2 DEF F!Unlock
  <2>4. Apart(c) /\ Advances(c)
    BY <2>1, <2>2, <2>3, GoesEffect
  <2>5. Turns(c, F!Step(c)) /\ Fills(c, F!Step(c)) /\ Sides(c, F!Step(c))
    BY <1>2, <1>0, <2>1 DEF F!Unlock, Turns, Fills, Sides
  <2> QED BY <2>1, <2>4, <2>5 DEF Moves
<1>3. CASE F!Test(c)
  <2>1. Inward(c) /\ F!Step(c) \in {"vacant", "present"}
    BY <1>3 DEF F!Test, Inward
  <2>2. backend' = backend /\ op' = op /\ temp' \in [Call -> Content]
        /\ \A d \in Call : d # c => temp'[d] = temp[d]
    BY <1>3, <1>0 DEF F!Test
  <2>3. CASE F!Goes(c) /\ Turns(c, F!Step(c)) /\ Fills(c, F!Step(c)) /\ Sides(c, F!Step(c))
    <3>1. Apart(c) /\ Advances(c)
      BY <2>1, <2>2, <2>3, GoesEffect
    <3> QED BY <2>1, <2>3, <3>1 DEF Moves
  <2>4. CASE (F!Leaves(c, "exists") \/ F!Leaves(c, "absent")) /\ UNCHANGED <<file, removed, side, unsided>>
    <3>1. Apart(c) /\ Quits(c)
      BY <2>2, <2>4, LeavesEffect DEF Answer
    <3> QED BY <2>1, <2>4, <3>1 DEF Moves, Stops
  <2> QED BY <1>3, <1>0, <2>1, <2>3, <2>4 DEF F!Test, Turns, Fills, Sides
<1>4. CASE F!Get(c)
  <2>1. Inward(c) /\ F!Step(c) = "get"
    BY <1>4 DEF F!Get, Inward
  <2>2. backend' = backend /\ op' = op /\ temp' \in [Call -> Content]
        /\ \A d \in Call : d # c => temp'[d] = temp[d]
    BY <1>4, <1>0 DEF F!Get
  <2>3. CASE F!Goes(c) /\ Turns(c, F!Step(c)) /\ Fills(c, F!Step(c)) /\ Sides(c, F!Step(c))
    <3>1. Apart(c) /\ Advances(c)
      BY <2>1, <2>2, <2>3, GoesEffect
    <3> QED BY <2>1, <2>3, <3>1 DEF Moves
  <2>4. CASE (F!Leaves(c, "absent") \/ F!Leaves(c, "error")) /\ UNCHANGED <<file, removed, side, unsided>>
    <3>1. Apart(c) /\ Quits(c)
      BY <2>2, <2>4, LeavesEffect DEF Answer
    <3> QED BY <2>1, <2>4, <3>1 DEF Moves, Stops
  <2> QED BY <1>4, <1>0, <2>1, <2>3, <2>4 DEF F!Get, F!DiskFails, Turns, Fills, Sides
<1>5. CASE F!Put(c)
  <2>1. Inward(c) /\ F!Step(c) = "put"
    BY <1>5 DEF F!Put, Inward
  <2>2. backend' = backend /\ op' = op /\ temp' \in [Call -> Content]
        /\ \A d \in Call : d # c => temp'[d] = temp[d]
    BY <1>5, <1>0 DEF F!Put
  <2>3. F!Goes(c)
    BY <1>5 DEF F!Put
  <2>4. Apart(c) /\ Advances(c)
    BY <2>1, <2>2, <2>3, GoesEffect
  <2>5. Turns(c, F!Step(c)) /\ Fills(c, F!Step(c)) /\ Sides(c, F!Step(c))
    BY <1>5, <1>0, <2>1 DEF F!Put, Turns, Fills, Sides
  <2> QED BY <2>1, <2>4, <2>5 DEF Moves
<1>6. CASE F!Take(c)
  <2>1. Inward(c) /\ F!Step(c) = "remove"
    BY <1>6 DEF F!Take, Inward
  <2>2. backend' = backend /\ op' = op /\ temp' \in [Call -> Content]
        /\ \A d \in Call : d # c => temp'[d] = temp[d]
    BY <1>6, <1>0 DEF F!Take
  <2>3. CASE F!Goes(c) /\ Turns(c, F!Step(c)) /\ Fills(c, F!Step(c)) /\ Sides(c, F!Step(c))
    <3>1. Apart(c) /\ Advances(c)
      BY <2>1, <2>2, <2>3, GoesEffect
    <3> QED BY <2>1, <2>3, <3>1 DEF Moves
  <2>4. CASE (F!Leaves(c, "error")) /\ UNCHANGED <<file, removed, side, unsided>>
    <3>1. Apart(c) /\ Quits(c)
      BY <2>2, <2>4, LeavesEffect DEF Answer
    <3> QED BY <2>1, <2>4, <3>1 DEF Moves, Stops
  <2> QED BY <1>6, <1>0, <2>1, <2>3, <2>4 DEF F!Take, F!DiskFails, Turns, Fills, Sides
<1>7. CASE F!Temp(c)
  <2>1. Inward(c) /\ F!Step(c) = "temp"
    BY <1>7 DEF F!Temp, Inward
  <2>2. backend' = backend /\ op' = op /\ temp' \in [Call -> Content]
        /\ \A d \in Call : d # c => temp'[d] = temp[d]
    BY <1>7, <1>0 DEF F!Temp
  <2>3. CASE F!Goes(c) /\ Turns(c, F!Step(c)) /\ Fills(c, F!Step(c)) /\ Sides(c, F!Step(c))
    <3>1. Apart(c) /\ Advances(c)
      BY <2>1, <2>2, <2>3, GoesEffect
    <3> QED BY <2>1, <2>3, <3>1 DEF Moves
  <2>4. CASE (F!Leaves(c, "error")) /\ UNCHANGED <<file, removed, side, unsided>>
    <3>1. Apart(c) /\ Quits(c)
      BY <2>2, <2>4, LeavesEffect DEF Answer
    <3> QED BY <2>1, <2>4, <3>1 DEF Moves, Stops
  <2> QED BY <1>7, <1>0, <2>1, <2>3, <2>4 DEF F!Temp, F!DiskFails, Turns, Fills, Sides
<1>8. CASE F!Fill(c)
  <2>1. Inward(c) /\ F!Step(c) = "fill"
    BY <1>8 DEF F!Fill, Inward
  <2>2. backend' = backend /\ op' = op /\ temp' \in [Call -> Content]
        /\ \A d \in Call : d # c => temp'[d] = temp[d]
    BY <1>8, <1>0 DEF F!Fill
  <2>3. CASE F!Goes(c) /\ Turns(c, F!Step(c)) /\ Fills(c, F!Step(c)) /\ Sides(c, F!Step(c))
    <3>1. Apart(c) /\ Advances(c)
      BY <2>1, <2>2, <2>3, GoesEffect
    <3> QED BY <2>1, <2>3, <3>1 DEF Moves
  <2>4. CASE (F!Leaves(c, "error")) /\ UNCHANGED <<file, removed, side, unsided>>
    <3>1. Apart(c) /\ Quits(c)
      BY <2>2, <2>4, LeavesEffect DEF Answer
    <3> QED BY <2>1, <2>4, <3>1 DEF Moves, Stops
  <2> QED BY <1>8, <1>0, <2>1, <2>3, <2>4 DEF F!Fill, Turns, Fills, Sides
<1>9. CASE F!Replace(c)
  <2>1. Inward(c) /\ F!Step(c) = "replace"
    BY <1>9 DEF F!Replace, Inward
  <2>2. backend' = backend /\ op' = op /\ temp' \in [Call -> Content]
        /\ \A d \in Call : d # c => temp'[d] = temp[d]
    BY <1>9, <1>0 DEF F!Replace
  <2>3. CASE F!Goes(c) /\ Turns(c, F!Step(c)) /\ Fills(c, F!Step(c)) /\ Sides(c, F!Step(c))
    <3>1. Apart(c) /\ Advances(c)
      BY <2>1, <2>2, <2>3, GoesEffect
    <3> QED BY <2>1, <2>3, <3>1 DEF Moves
  <2>4. CASE (F!Leaves(c, "error")) /\ UNCHANGED <<file, removed, side, unsided>>
    <3>1. Apart(c) /\ Quits(c)
      BY <2>2, <2>4, LeavesEffect DEF Answer
    <3> QED BY <2>1, <2>4, <3>1 DEF Moves, Stops
  <2> QED BY <1>9, <1>0, <2>1, <2>3, <2>4 DEF F!Replace, F!DiskFails, Turns, Fills, Sides
<1>10. CASE F!Sidecar(c)
  <2>1. Inward(c) /\ F!Step(c) = "sidecar"
    BY <1>10 DEF F!Sidecar, Inward
  <2>2. backend' = backend /\ op' = op /\ temp' \in [Call -> Content]
        /\ \A d \in Call : d # c => temp'[d] = temp[d]
    BY <1>10, <1>0 DEF F!Sidecar
  <2>3. F!Goes(c)
    BY <1>10 DEF F!Sidecar
  <2>4. Apart(c) /\ Advances(c)
    BY <2>1, <2>2, <2>3, GoesEffect
  <2>5. Turns(c, F!Step(c)) /\ Fills(c, F!Step(c)) /\ Sides(c, F!Step(c))
    BY <1>10, <1>0, <2>1 DEF F!Sidecar, Turns, Fills, Sides
  <2> QED BY <2>1, <2>4, <2>5 DEF Moves
<1>11. CASE F!Unside(c)
  <2>1. Inward(c) /\ F!Step(c) = "unside"
    BY <1>11 DEF F!Unside, Inward
  <2>2. backend' = backend /\ op' = op /\ temp' \in [Call -> Content]
        /\ \A d \in Call : d # c => temp'[d] = temp[d]
    BY <1>11, <1>0 DEF F!Unside
  <2>3. CASE F!Goes(c) /\ Turns(c, F!Step(c)) /\ Fills(c, F!Step(c)) /\ Sides(c, F!Step(c))
    <3>1. Apart(c) /\ Advances(c)
      BY <2>1, <2>2, <2>3, GoesEffect
    <3> QED BY <2>1, <2>3, <3>1 DEF Moves
  <2>4. CASE (F!Leaves(c, "error")) /\ UNCHANGED <<file, removed, side>> /\ unsided' = TRUE
    <3>1. Apart(c) /\ Quits(c)
      BY <2>2, <2>4, LeavesEffect DEF Answer
    <3> QED BY <2>1, <2>4, <3>1 DEF Moves, Stops
  <2> QED BY <1>11, <1>0, <2>1, <2>3, <2>4 DEF F!Unside, F!DiskFails, Turns, Fills, Sides
<1>12. CASE F!Chunk(c)
  <2>1. Inward(c) /\ F!Step(c) = "chunk"
    BY <1>12 DEF F!Chunk, Inward
  <2>2. backend' = backend /\ op' = op /\ temp' \in [Call -> Content]
        /\ \A d \in Call : d # c => temp'[d] = temp[d]
    BY <1>12, <1>0 DEF F!Chunk
  <2>3. CASE F!Goes(c) /\ Turns(c, F!Step(c)) /\ Fills(c, F!Step(c)) /\ Sides(c, F!Step(c))
    <3>1. Apart(c) /\ Advances(c)
      BY <2>1, <2>2, <2>3, GoesEffect
    <3> QED BY <2>1, <2>3, <3>1 DEF Moves
  <2>4. CASE (F!Leaves(c, "error")) /\ UNCHANGED <<file, removed, side, unsided>>
    <3>1. Apart(c) /\ Quits(c)
      BY <2>2, <2>4, LeavesEffect DEF Answer
    <3> QED BY <2>1, <2>4, <3>1 DEF Moves, Stops
  <2> QED BY <1>12, <1>0, <2>1, <2>3, <2>4 DEF F!Chunk, Turns, Fills, Sides
<1>13. CASE F!OpenFile(c)
  <2>1. Inward(c) /\ F!Step(c) = "open"
    BY <1>13 DEF F!OpenFile, Inward
  <2>2. backend' = backend /\ op' = op /\ temp' \in [Call -> Content]
        /\ \A d \in Call : d # c => temp'[d] = temp[d]
    BY <1>13, <1>0 DEF F!OpenFile
  <2>3. CASE F!Goes(c) /\ Turns(c, F!Step(c)) /\ Fills(c, F!Step(c)) /\ Sides(c, F!Step(c))
    <3>1. Apart(c) /\ Advances(c)
      BY <2>1, <2>2, <2>3, GoesEffect
    <3> QED BY <2>1, <2>3, <3>1 DEF Moves
  <2>4. CASE (F!Leaves(c, "error")) /\ UNCHANGED <<file, removed, side, unsided>>
    <3>1. Apart(c) /\ Quits(c)
      BY <2>2, <2>4, LeavesEffect DEF Answer
    <3> QED BY <2>1, <2>4, <3>1 DEF Moves, Stops
  <2> QED BY <1>13, <1>0, <2>1, <2>3, <2>4 DEF F!OpenFile, Turns, Fills, Sides
<1>14. CASE F!ReadChunks(c)
  <2>1. Inward(c) /\ F!Step(c) = "next"
    BY <1>14 DEF F!ReadChunks, Inward
  <2>2. backend' = backend /\ op' = op /\ temp' \in [Call -> Content]
        /\ \A d \in Call : d # c => temp'[d] = temp[d]
    BY <1>14, <1>0 DEF F!ReadChunks
  <2>3. CASE F!Goes(c) /\ Turns(c, F!Step(c)) /\ Fills(c, F!Step(c)) /\ Sides(c, F!Step(c))
    <3>1. Apart(c) /\ Advances(c)
      BY <2>1, <2>2, <2>3, GoesEffect
    <3> QED BY <2>1, <2>3, <3>1 DEF Moves
  <2>4. CASE (F!Leaves(c, "error")) /\ UNCHANGED <<file, removed, side, unsided>>
    <3>1. Apart(c) /\ Quits(c)
      BY <2>2, <2>4, LeavesEffect DEF Answer
    <3> QED BY <2>1, <2>4, <3>1 DEF Moves, Stops
  <2> QED BY <1>14, <1>0, <2>1, <2>3, <2>4 DEF F!ReadChunks, F!DiskFails, Turns, Fills, Sides
<1> QED BY <1>1, <1>2, <1>3, <1>4, <1>5, <1>6, <1>7, <1>8, <1>9, <1>10, <1>11, <1>12,
           <1>13, <1>14 DEF F!Steps

LEMMA CancelMoves ==
  ASSUME FileTypes, NEW c \in Call, backend \in Near, F!CancelCall(c)
  PROVE  Moves(c)
<1>1. ~F!Remote
  BY DEF Near, F!Remote
<1>2. /\ Inward(c) /\ F!Step(c) \in {"chunk", "next"} /\ F!Leaves(c, "cancelled")
      /\ UNCHANGED <<backend, op, file, side, temp, removed, unsided>>
  BY <1>1 DEF F!CancelCall, F!Awaits, Inward
<1>3. Apart(c) /\ Quits(c)
  BY <1>2, LeavesEffect DEF Answer, FileTypes
<1> QED BY <1>2, <1>3 DEF Moves, Stops

\* A call that goes on takes the step that follows in its plan.
LEMMA Landing ==
  ASSUME FileTypes, NEW c \in Call, Moves(c), Placement(c), fpc'[c] = "in"
  PROVE  /\ Advances(c) /\ at[c] < Len(F!Plan(c)) /\ answer'[c] = answer[c]
         /\ Turns(c, F!Step(c)) /\ Fills(c, F!Step(c)) /\ Sides(c, F!Step(c))
         /\ Follows(backend, op[c], F!Step(c), F!Step(c)')
<1>1. /\ Inward(c) /\ Apart(c) /\ Advances(c) /\ at[c] < Len(F!Plan(c)) /\ answer'[c] = answer[c]
      /\ Turns(c, F!Step(c)) /\ Fills(c, F!Step(c)) /\ Sides(c, F!Step(c))
  BY DEF Moves, Stops, Quits, Advances
<1>2. PlanShape(backend, op[c], F!Plan(c))
  BY Shapes DEF FileTypes, F!Plan
<1>3. at[c] \in 1..Len(F!Plan(c)) - 1
  BY <1>1, <1>2 DEF FileTypes, PlanShape
<1>4. F!Step(c)' = F!Plan(c)[at[c] + 1] /\ F!Step(c) = F!Plan(c)[at[c]]
  BY <1>1 DEF Apart, Advances, F!Step, F!Plan
<1>5. Follows(backend, op[c], F!Plan(c)[at[c]], F!Plan(c)[at[c] + 1])
  BY <1>2, <1>3 DEF PlanShape
<1> QED BY <1>1, <1>4, <1>5

\* The others stay where they are.
LEMMA OthersStay ==
  ASSUME NEW c \in Call, Apart(c), NEW d \in Call, d # c
  PROVE  /\ F!Step(d)' = F!Step(d) /\ F!Plan(d)' = F!Plan(d) /\ (Inward(d)' <=> Inward(d))
         /\ fpc'[d] = fpc[d] /\ at'[d] = at[d] /\ answer'[d] = answer[d] /\ temp'[d] = temp[d]
         /\ op'[d] = op[d]
BY DEF Apart, F!Step, F!Plan, Inward

\* A call that takes a step of the kinds between its lock and its release holds the lock.
HoldsLock(c) == backend \in Near /\ Inward(c) /\ F!Step(c) \in Inside(backend) => holder = c

LEMMA HoldsOn ==
  ASSUME FileTypes, NEW c \in Call, Moves(c), \A d \in Call : Placement(d) /\ HoldsLock(d)
  PROVE  \A d \in Call : HoldsLock(d)'
<1> SUFFICES ASSUME NEW d \in Call, backend' \in Near, Inward(d)', F!Step(d)' \in Inside(backend')
             PROVE  holder' = d
  BY DEF HoldsLock
<1>1. Apart(c) /\ backend' = backend /\ Inward(c)
  BY DEF Moves, Apart
<1>2. CASE d = c
  <2>1. /\ Turns(c, F!Step(c)) /\ Follows(backend, op[c], F!Step(c), F!Step(c)')
    BY <1>2, Landing DEF Inward
  <2>2. F!Step(c) = "lock" \/ F!Step(c) \in Inside(backend) \ {"unlock"}
    BY <1>1, <1>2, <2>1 DEF Follows
  <2>3. CASE F!Step(c) = "lock"
    BY <2>1, <2>3, <1>2 DEF Turns
  <2>4. CASE F!Step(c) \in Inside(backend) \ {"unlock"}
    <3>1. holder = c
      BY <1>1, <2>4 DEF HoldsLock
    <3>2. F!Step(c) # "lock"
      BY <2>4 DEF Inside
    <3> QED BY <1>2, <2>1, <2>4, <3>1, <3>2 DEF Turns
  <2> QED BY <2>2, <2>3, <2>4
<1>3. CASE d # c
  <2>1. holder = d
    BY <1>1, <1>3, OthersStay DEF HoldsLock
  <2>2. d # None
    BY CallsAssumption
  <2>3. CASE Stops(c)
    BY <1>3, <2>1, <2>3 DEF Stops, Quits
  <2>4. CASE Turns(c, F!Step(c))
    <3>1. F!Step(c) # "lock"
      BY <2>1, <2>2, <2>4 DEF Turns
    <3>2. F!Step(c) # "unlock"
      <4>1. "unlock" \in Inside(backend)
        BY DEF Inside
      <4> QED BY <1>1, <1>3, <2>1, <4>1 DEF HoldsLock
    <3> QED BY <2>1, <2>4, <3>1, <3>2 DEF Turns
  <2> QED BY <2>3, <2>4 DEF Moves
<1> QED BY <1>2, <1>3

\* Whoever is about to change the file on this machine has the lock.
LEMMA ChangerHolds ==
  ASSUME NEW c \in Call, Moves(c), HoldsLock(c), backend \in Near,
         file' # file \/ removed' # removed
  PROVE  holder = c
<1>1. F!Step(c) \in {"put", "replace", "remove"} /\ Inward(c)
  BY DEF Moves, Stops, Turns
<1>2. F!Step(c) \in Inside(backend)
  BY <1>1 DEF Inside
<1> QED BY <1>1, <1>2 DEF HoldsLock

\* The temporary file of a local write holds what has been written to it.
Filled(c) ==
    backend = "local" /\ Inward(c) =>
        /\ F!Step(c) = "replace" => temp[c] = F!Whole(c)
        /\ F!Step(c) \in {"fill", "chunk"} => temp[c] = F!Part(c)

LEMMA FilledStays ==
  ASSUME FileTypes, NEW c \in Call, Moves(c), \A d \in Call : Placement(d) /\ Filled(d)
  PROVE  \A d \in Call : Filled(d)'
<1> SUFFICES ASSUME NEW d \in Call, backend' = "local", Inward(d)'
             PROVE  /\ F!Step(d)' = "replace" => temp'[d] = F!Whole(d)
                    /\ F!Step(d)' \in {"fill", "chunk"} => temp'[d] = F!Part(d)
  BY DEF Filled, F!Whole, F!Part
<1>1. Apart(c) /\ backend = "local" /\ Inward(c)
  BY DEF Moves, Apart
<1>2. CASE d = c
  <2>1. /\ Fills(c, F!Step(c)) /\ Follows("local", op[c], F!Step(c), F!Step(c)')
    BY <1>1, <1>2, Landing DEF Inward
  <2>2. F!Step(c)' = "replace" => F!Step(c) \in {"fill", "chunk"}
    BY <2>1 DEF Follows
  <2>3. F!Step(c)' \in {"fill", "chunk"} => F!Step(c) = "temp"
    BY <2>1 DEF Follows
  <2>4. F!Step(c) = "chunk" => temp[c] = F!Part(c) /\ temp[c] # Absent
    BY <1>1, ContentTypes DEF Filled
  <2> QED BY <1>2, <2>1, <2>2, <2>3, <2>4 DEF Fills
<1>3. CASE d # c
  BY <1>1, <1>3, OthersStay DEF Filled
<1> QED BY <1>2, <1>3

\* What is put in the place of the file was written whole.
LEMMA FileStaysWhole ==
  ASSUME FileTypes, NEW c \in Call, Moves(c), Placement(c), Filled(c)
  PROVE  file' \in Wholes
<1>1. file \in Wholes /\ F!Whole(c) \in Wholes /\ Absent \in Wholes
  BY ContentTypes DEF FileTypes
<1>2. CASE F!Step(c) = "replace"
  <2>1. PlanShape(backend, op[c], F!Plan(c)) /\ at[c] \in Nat \ {0} /\ Inward(c)
    BY Shapes DEF FileTypes, F!Plan, Moves
  <2>2. at[c] # 1
    BY <1>2, <2>1 DEF PlanShape, F!Step
  <2>3. Len(F!Plan(c)) \in Nat /\ at[c] - 1 \in 1..Len(F!Plan(c)) - 1 /\ at[c] - 1 + 1 = at[c]
    BY <2>1, <2>2 DEF PlanShape, Placement
  <2>4. Follows(backend, op[c], F!Plan(c)[at[c] - 1], F!Plan(c)[at[c]])
    BY <2>1, <2>3 DEF PlanShape
  <2>5. backend = "local"
    BY <1>2, <2>4 DEF Follows, F!Step
  <2> QED BY <1>1, <1>2, <2>1, <2>5 DEF Filled, Moves, Turns, Stops
<1>3. CASE F!Step(c) # "replace"
  BY <1>1, <1>3 DEF Moves, Turns, Stops
<1> QED BY <1>2, <1>3

\* Between the test and the write of a call that must not overwrite there is no file.
Untaken(c) ==
    backend \in Near /\ op[c] \in F!Creating /\ Inward(c) /\ F!Step(c) \in Creates(backend) =>
        file = Absent

LEMMA CreatesInside == \A b \in Near : Creates(b) \subseteq Inside(b)
BY DEF Creates, Inside, Near

LEMMA UntakenStays ==
  ASSUME FileTypes, NEW c \in Call, Moves(c),
         \A d \in Call : Placement(d) /\ HoldsLock(d) /\ Untaken(d)
  PROVE  \A d \in Call : Untaken(d)'
<1> SUFFICES ASSUME NEW d \in Call, backend' \in Near, op'[d] \in F!Creating, Inward(d)',
                    F!Step(d)' \in Creates(backend')
             PROVE  file' = Absent
  BY DEF Untaken
<1>1. Apart(c) /\ backend' = backend /\ op' = op /\ Inward(c)
  BY DEF Moves, Apart
<1>2. CASE d = c
  <2>1. Turns(c, F!Step(c)) /\ Follows(backend, op[c], F!Step(c), F!Step(c)')
    BY <1>2, Landing DEF Inward
  <2>2. F!Step(c) = "vacant" \/ F!Step(c) \in {"temp", "fill"} \cup
                                             IF backend = "local" THEN {"chunk"} ELSE {}
    BY <1>1, <1>2, <2>1 DEF Follows
  <2>3. CASE F!Step(c) = "vacant"
    BY <2>1, <2>3 DEF Turns
  <2>4. CASE F!Step(c) # "vacant"
    <3>1. F!Step(c) \in Creates(backend) /\ F!Step(c) \in {"temp", "fill", "chunk"}
      BY <2>2, <2>4 DEF Creates
    <3>2. file = Absent
      BY <1>1, <1>2, <3>1 DEF Untaken
    <3> QED BY <2>1, <3>1, <3>2 DEF Turns
  <2> QED BY <2>3, <2>4
<1>3. CASE d # c
  <2>1. F!Step(d) \in Creates(backend) /\ Inward(d) /\ op[d] \in F!Creating
    BY <1>1, <1>3, OthersStay
  <2>2. file = Absent /\ holder = d
    BY <1>1, <2>1, CreatesInside DEF Untaken, HoldsLock
  <2> QED BY <1>1, <1>3, <2>2, ChangerHolds
<1> QED BY <1>2, <1>3

\* Only the local store renames.
LEMMA ReplaceIsLocal ==
  ASSUME FileTypes, NEW c \in Call, Inward(c), Placement(c), F!Step(c) = "replace"
  PROVE  backend = "local"
<1>1. PlanShape(backend, op[c], F!Plan(c)) /\ at[c] \in Nat \ {0}
  BY Shapes DEF FileTypes, F!Plan
<1>2. at[c] # 1
  BY <1>1 DEF PlanShape, F!Step
<1>3. Len(F!Plan(c)) \in Nat /\ at[c] - 1 \in 1..Len(F!Plan(c)) - 1 /\ at[c] - 1 + 1 = at[c]
  BY <1>1, <1>2 DEF PlanShape, Placement
<1>4. Follows(backend, op[c], F!Plan(c)[at[c] - 1], F!Plan(c)[at[c]])
  BY <1>1, <1>3 DEF PlanShape
<1> QED BY <1>4 DEF Follows, F!Step

\* What a call has answered: a store on this machine has "ok" only from the end of a plan.
Answers(c) ==
    backend \in Near => /\ fpc[c] # "done" => answer[c] = None
                        /\ answer[c] = "ok" => at[c] = Len(F!Plan(c)) + 1

LEMMA AnswersStay ==
  ASSUME FileTypes, NEW c \in Call, Moves(c), \A d \in Call : Answers(d) /\ Placement(d)
  PROVE  \A d \in Call : Answers(d)' /\ Placement(d)'
<1> SUFFICES ASSUME NEW d \in Call PROVE Answers(d)' /\ Placement(d)'
  OBVIOUS
<1>1. Apart(c) /\ Inward(c) /\ F!Plan(c)' = F!Plan(c) /\ (backend' \in Near <=> backend \in Near)
  BY DEF Moves, Apart, F!Plan
<1>0. Len(F!Plan(c)) \in Nat /\ at[c] \in Nat
  BY Shapes DEF FileTypes, F!Plan, PlanShape
<1>2. CASE d = c
  <2>1. CASE Stops(c)
    <3>1. fpc'[c] = "done"
      BY <2>1 DEF Stops, Quits
    <3>2. backend \in Near => answer[c] # "ok"
      BY <1>1, NoneAssumption DEF Answers, Inward
    <3>3. backend \in Near => answer'[c] # "ok"
      BY <2>1, <3>2 DEF Stops, Quits
    <3> QED BY <1>1, <1>2, <3>1, <3>3 DEF Answers, Placement, Inward
  <2>2. CASE Advances(c)
    <3>1. CASE at[c] < Len(F!Plan(c)) /\ fpc'[c] = "in" /\ answer'[c] = answer[c]
      <4>1. at'[c] <= Len(F!Plan(c))'
        BY <1>0, <1>1, <2>2, <3>1 DEF Advances
      <4>2. backend \in Near => answer'[c] = None
        BY <1>1, <3>1 DEF Answers, Inward
      <4> QED BY <1>1, <1>2, <3>1, <4>1, <4>2, NoneAssumption DEF Answers, Placement, Inward
    <3>2. CASE (at[c] = Len(F!Plan(c)) \/ answer[c] = "cancelled") /\ fpc'[c] = "done"
      <4>1. backend \in Near => at[c] = Len(F!Plan(c))
        BY <1>1, <3>2, NoneAssumption DEF Answers, Inward
      <4>2. backend \in Near => at'[c] = Len(F!Plan(c))' + 1
        BY <1>1, <2>2, <4>1 DEF Advances
      <4> QED BY <1>1, <1>2, <3>2, <4>2 DEF Answers, Placement, Inward
    <3> QED BY <2>2, <3>1, <3>2 DEF Advances
  <2> QED BY <2>1, <2>2 DEF Moves
<1>3. CASE d # c
  BY <1>1, <1>3, OthersStay DEF Answers, Placement
<1> QED BY <1>2, <1>3

\* A sidecar is written for the file, or removed, just after the file.
Beside(c) ==
    backend = "local" /\ Inward(c) =>
        /\ F!Step(c) = "sidecar" => file = F!Whole(c)
        /\ F!Step(c) = "unside" => file = Absent

LEMMA BesideStays ==
  ASSUME FileTypes, NEW c \in Call, Moves(c),
         \A d \in Call : Placement(d) /\ HoldsLock(d) /\ Filled(d) /\ Beside(d)
  PROVE  \A d \in Call : Beside(d)'
<1> SUFFICES ASSUME NEW d \in Call, backend' = "local", Inward(d)'
             PROVE  /\ F!Step(d)' = "sidecar" => file' = F!Whole(d)
                    /\ F!Step(d)' = "unside" => file' = Absent
  BY DEF Beside, F!Whole
<1>1. Apart(c) /\ backend = "local" /\ Inward(c) /\ backend \in Near
  BY DEF Moves, Apart, Near
<1>2. CASE d = c
  <2>1. Turns(c, F!Step(c)) /\ Follows("local", op[c], F!Step(c), F!Step(c)')
    BY <1>1, <1>2, Landing DEF Inward
  <2>2. /\ F!Step(c)' = "sidecar" => F!Step(c) = "replace"
        /\ F!Step(c)' = "unside" => F!Step(c) = "remove"
    BY <2>1 DEF Follows
  <2>3. F!Step(c) = "replace" => temp[c] = F!Whole(c)
    BY <1>1 DEF Filled
  <2> QED BY <1>2, <2>1, <2>2, <2>3 DEF Turns
<1>3. CASE d # c
  <2>1. CASE F!Step(d)' \in {"sidecar", "unside"}
    <3>1. F!Step(d) = F!Step(d)' /\ Inward(d) /\ F!Step(d) \in Inside(backend)
      BY <1>3, <1>1, <2>1, OthersStay DEF Inside
    <3>2. holder = d
      BY <1>1, <3>1 DEF HoldsLock
    <3>3. file' = file
      BY <1>1, <1>3, <3>2, ChangerHolds
    <3> QED BY <1>1, <3>1, <3>3 DEF Beside
  <2> QED BY <2>1
<1> QED BY <1>2, <1>3

\* The sidecar is the file's, unless a call is about to see to it.
Owner == IF file = Absent THEN Absent ELSE file.by
Seen(c) == Inward(c) /\ F!Step(c) \in {"sidecar", "unside"}
SideFollows == backend = "local" /\ ~unsided => side = Owner \/ \E c \in Call : Seen(c)

LEMMA SideStays ==
  ASSUME FileTypes, NEW c \in Call, Moves(c), SideFollows,
         \A d \in Call : Placement(d) /\ Beside(d) /\ Answers(d)
  PROVE  SideFollows'
<1> SUFFICES ASSUME backend' = "local", ~unsided'
             PROVE  side' = Owner' \/ \E d \in Call : Seen(d)'
  BY DEF SideFollows
<1>1. Apart(c) /\ backend = "local" /\ Inward(c) /\ backend \in Near
  BY DEF Moves, Apart, Near
<1>2. CASE Stops(c)
  <2>1. ~unsided /\ side' = side /\ file' = file /\ ~Seen(c)
    BY <1>2 DEF Stops, Seen
  <2>2. CASE side = Owner
    BY <2>1, <2>2 DEF Owner
  <2>3. CASE \E d \in Call : Seen(d)
    <3>1. PICK d \in Call : Seen(d)
      BY <2>3
    <3>2. d # c
      BY <2>1, <3>1
    <3> QED BY <1>1, <3>1, <3>2, OthersStay DEF Seen
  <2> QED BY <1>1, <2>1, <2>2, <2>3 DEF SideFollows
<1>3. CASE Advances(c) /\ Turns(c, F!Step(c)) /\ Sides(c, F!Step(c))
  <2>1. CASE F!Step(c) = "sidecar"
    <3>1. side' = c
      BY <1>3, <2>1 DEF Sides
    <3>2. file = F!Whole(c) /\ file' = file
      BY <1>1, <1>3, <2>1 DEF Beside, Turns
    <3> QED BY <3>1, <3>2, ContentTypes DEF Owner
  <2>2. CASE F!Step(c) = "unside"
    <3>1. side' = Absent
      BY <1>3, <2>2 DEF Sides
    <3>2. file = Absent /\ file' = file
      BY <1>1, <1>3, <2>2 DEF Beside, Turns
    <3> QED BY <3>1, <3>2 DEF Owner
  <2>3. CASE F!Step(c) \in {"replace", "remove"}
    <3>1. PlanShape(backend, op[c], F!Plan(c)) /\ at[c] \in Nat \ {0}
      BY Shapes DEF FileTypes, F!Plan
    <3>2. at[c] # Len(F!Plan(c))
      BY <1>1, <2>3, <3>1 DEF PlanShape, F!Step
    <3>3. answer[c] # "cancelled"
      BY <1>1, NoneAssumption DEF Answers, Inward
    <3>4. fpc'[c] = "in"
      BY <1>3, <3>2, <3>3 DEF Advances
    <3>5. Follows("local", op[c], F!Step(c), F!Step(c)')
      BY <1>1, <3>4, Landing
    <3>6. F!Step(c)' \in {"sidecar", "unside"}
      BY <2>3, <3>5 DEF Follows
    <3> QED BY <3>4, <3>6 DEF Seen, Inward
  <2>4. CASE F!Step(c) \notin {"sidecar", "unside", "replace", "remove"}
    <3>1. F!Step(c) # "put"
      <4>1. PlanShape(backend, op[c], F!Plan(c)) /\ at[c] \in Nat \ {0}
        BY Shapes DEF FileTypes, F!Plan
      <4>2. Len(F!Plan(c)) \in Nat /\ at[c] <= Len(F!Plan(c))
        BY <1>1, <4>1 DEF PlanShape, Placement
      <4>3. at[c] \in 1..Len(F!Plan(c))
        BY <4>1, <4>2
      <4> QED BY <1>1, <4>1, <4>3 DEF PlanShape, F!Step
    <3>2. ~unsided /\ side' = side /\ file' = file /\ ~Seen(c)
      BY <1>3, <2>4, <3>1 DEF Turns, Sides, Seen
    <3>3. CASE side = Owner
      BY <3>2, <3>3 DEF Owner
    <3>4. CASE \E d \in Call : Seen(d)
      <4>1. PICK d \in Call : Seen(d)
        BY <3>4
      <4>2. d # c
        BY <3>2, <4>1
      <4> QED BY <1>1, <4>1, <4>2, OthersStay DEF Seen
    <3> QED BY <1>1, <3>2, <3>3, <3>4 DEF SideFollows
  <2> QED BY <2>1, <2>2, <2>3, <2>4
<1> QED BY <1>2, <1>3 DEF Moves

\* The calls that must not overwrite and have put their file in place.
Past(c) == \E i \in 1..Len(F!Plan(c)) : i < at[c] /\ F!Plan(c)[i] \in {"put", "replace"}
Placed == {c \in Call : op[c] \in F!Creating /\ Past(c)}
Count == IF file = Absent THEN removed ELSE removed + 1
PlacedFew == backend \in Near => Cardinality(Placed) <= Count

LEMMA PastMoves ==
  ASSUME FileTypes, NEW c \in Call, Moves(c), Placement(c)
  PROVE  /\ Past(c)' =>
                \/ Past(c)
                \/ Advances(c) /\ Turns(c, F!Step(c)) /\ F!Step(c) \in {"put", "replace"}
         /\ \A d \in Call : d # c => (Past(d)' <=> Past(d))
<1>1. Apart(c) /\ Inward(c) /\ op' = op
  BY DEF Moves, Apart
<1>2. \A d \in Call : F!Plan(d)' = F!Plan(d)
  BY <1>1 DEF Apart, F!Plan
<1>3. ASSUME NEW d \in Call, d # c PROVE Past(d)' <=> Past(d)
  BY <1>1, <1>2, <1>3 DEF Past, Apart
<1>4. ASSUME Past(c)', ~Past(c)
      PROVE  Advances(c) /\ Turns(c, F!Step(c)) /\ F!Step(c) \in {"put", "replace"}
  <2>1. PICK i \in 1..Len(F!Plan(c)) : i < at'[c] /\ F!Plan(c)[i] \in {"put", "replace"}
    BY <1>2, <1>4 DEF Past
  <2>2. ~(i < at[c])
    BY <1>4, <2>1 DEF Past
  <2>3. at[c] \in Nat /\ at'[c] # at[c]
    BY <2>1, <2>2 DEF FileTypes
  <2>4. Advances(c) /\ Turns(c, F!Step(c))
    BY <2>3 DEF Moves, Stops, Quits
  <2>5. Len(F!Plan(c)) \in Nat
    BY Shapes DEF FileTypes, F!Plan, PlanShape
  <2>6. i = at[c]
    BY <2>1, <2>2, <2>3, <2>4, <2>5 DEF Advances
  <2> QED BY <2>1, <2>4, <2>6 DEF F!Step
<1> QED BY <1>3, <1>4

LEMMA PlacedStays ==
  ASSUME FileTypes, NEW c \in Call, Moves(c), Placement(c), Untaken(c), Filled(c), PlacedFew
  PROVE  PlacedFew'
<1> SUFFICES ASSUME backend' \in Near PROVE Cardinality(Placed') <= Count'
  BY DEF PlacedFew
<1>1. Apart(c) /\ Inward(c) /\ op' = op /\ backend \in Near
  BY DEF Moves, Apart
<1>2. /\ IsFiniteSet(Placed) /\ IsFiniteSet(Placed') /\ Cardinality(Placed) \in Nat
      /\ Cardinality(Placed') \in Nat /\ removed \in Nat /\ Cardinality(Placed) <= Count
  <2>1. Placed \subseteq Call /\ Placed' \subseteq Call
    BY DEF Placed
  <2> QED BY <1>1, <2>1, CallsAssumption, FS_Subset, FS_CardinalityType DEF FileTypes, PlacedFew
<1>3. CASE Placed' \subseteq Placed
  <2>1. Cardinality(Placed') <= Cardinality(Placed)
    BY <1>2, <1>3, FS_Subset
  <2>2. Count <= Count' /\ Count' \in Nat /\ Count \in Nat
    <3>1. CASE F!Step(c) = "remove"
      BY <1>2, <3>1 DEF Moves, Stops, Turns, Count
    <3>2. CASE F!Step(c) # "remove"
      <4>1. file' = file \/ file' # Absent
        <5>1. F!Whole(c) # Absent
          BY ContentTypes
        <5>2. F!Step(c) = "replace" => temp[c] # Absent
          <6>1. F!Step(c) = "replace" => backend = "local"
            BY <1>1, ReplaceIsLocal
          <6> QED BY <1>1, <5>1, <6>1 DEF Filled
        <5> QED BY <3>2, <5>1, <5>2 DEF Moves, Stops, Turns
      <4>2. removed' = removed
        BY <3>2 DEF Moves, Stops, Turns
      <4> QED BY <1>2, <4>1, <4>2 DEF Count
    <3> QED BY <3>1, <3>2
  <2> QED BY <1>2, <2>1, <2>2
<1>4. CASE ~(Placed' \subseteq Placed)
  <2>1. c \in Placed' /\ c \notin Placed /\ Placed' \subseteq Placed \cup {c}
    BY <1>1, <1>4, PastMoves DEF Placed
  <2>2. /\ Advances(c) /\ Turns(c, F!Step(c)) /\ F!Step(c) \in {"put", "replace"}
        /\ op[c] \in F!Creating
    BY <1>1, <2>1, PastMoves DEF Placed
  <2>3. F!Step(c) \in Creates(backend)
    BY <2>2 DEF Creates
  <2>4. file = Absent
    BY <1>1, <2>2, <2>3 DEF Untaken
  <2>5. file' # Absent /\ removed' = removed
    <3>1. F!Whole(c) # Absent
      BY ContentTypes
    <3>2. F!Step(c) = "replace" => temp[c] # Absent
      BY <1>1, <3>1, ReplaceIsLocal DEF Filled
    <3> QED BY <2>2, <3>1, <3>2 DEF Turns
  <2>6. Cardinality(Placed') <= Cardinality(Placed) + 1
    <3>1. IsFiniteSet(Placed \cup {c}) /\ Cardinality(Placed \cup {c}) = Cardinality(Placed) + 1
      BY <1>2, <2>1, FS_AddElement
    <3> QED BY <2>1, <3>1, FS_Subset
  <2> QED BY <1>2, <2>4, <2>5, <2>6 DEF Count
<1> QED BY <1>3, <1>4

\* The types, step by step.
LEMMA TypesOfMove ==
  ASSUME FileTypes, NEW c \in Call, F!Steps(c), Moves(c), Placement(c), Filled(c)
  PROVE  FileTypes'
<1>1. file' \in Wholes /\ Apart(c) /\ Inward(c) /\ removed \in Nat /\ file \in Wholes
  BY FileStaysWhole DEF Moves, FileTypes
<1>2. at' \in [Call -> Nat \ {0}]
  <2>1. \A d \in Call : at'[d] \in Nat \ {0}
    <3>1. at'[c] = at[c] + 1 \/ at'[c] = at[c]
      BY <1>1 DEF Moves, Stops, Quits, Advances
    <3>2. at'[c] \in Nat \ {0}
      BY <3>1 DEF FileTypes
    <3> QED BY <1>1, <3>2 DEF Apart, FileTypes
  <2>2. at' = [at EXCEPT ![c] = @ + 1] \/ at' = at
    BY DEF F!Steps, F!Lock, F!Unlock, F!Test, F!Get, F!Put, F!Take, F!Temp, F!Fill, F!Replace,
           F!Sidecar, F!Unside, F!Chunk, F!OpenFile, F!ReadChunks, F!Goes, F!Leaves, F!DiskFails
  <2> QED BY <2>1, <2>2 DEF FileTypes
<1>3. opened' \in [Call -> Wholes] /\ read' \in [Call -> Wholes]
  <2>1. opened \in [Call -> Wholes] /\ read \in [Call -> Wholes]
    BY DEF FileTypes
  <2>2. opened' = opened \/ opened' = [opened EXCEPT ![c] = file]
    BY DEF F!Steps, F!Lock, F!Unlock, F!Test, F!Get, F!Put, F!Take, F!Temp, F!Fill, F!Replace,
           F!Sidecar, F!Unside, F!Chunk, F!OpenFile, F!ReadChunks
  <2>3. read' = read \/ read' = [read EXCEPT ![c] = file] \/ read' = [read EXCEPT ![c] = opened[c]]
    BY DEF F!Steps, F!Lock, F!Unlock, F!Test, F!Get, F!Put, F!Take, F!Temp, F!Fill, F!Replace,
           F!Sidecar, F!Unside, F!Chunk, F!OpenFile, F!ReadChunks
  <2> QED BY <1>1, <2>1, <2>2, <2>3
<1>4. holder' \in Call \cup {None} /\ removed' \in Nat
  <2>1. holder' \in {holder, c, None}
    BY DEF Moves, Stops, Quits, Turns
  <2>2. removed' \in {removed, removed + 1}
    BY DEF Moves, Stops, Turns
  <2> QED BY <1>1, <2>1, <2>2 DEF FileTypes
<1> QED BY <1>1, <1>2, <1>3, <1>4 DEF FileTypes, Apart

\* All that is kept true of the calls on a store.
FileInv ==
    /\ FileTypes
    /\ \A c \in Call : /\ Placement(c) /\ HoldsLock(c) /\ Filled(c) /\ Untaken(c) /\ Beside(c)
                       /\ Answers(c)
    /\ SideFollows /\ PlacedFew

LEMMA FilesStart == ASSUME F!StoreInit PROVE FileInv
<1>1. /\ backend \in F!Backend /\ op \in [Call -> F!Operation]
      /\ at = [c \in Call |-> 1] /\ fpc = [c \in Call |-> "idle"]
  <2>1. \A c \in Call : OpsOf[c] \subseteq F!Operation
    BY StoresAssumption
  <2> QED BY <2>1, StoresAssumption DEF F!StoreInit
<1>2. FileTypes
  <2>1. Absent \in Wholes /\ Absent \in Content
    BY DEF Wholes, Content
  <2> QED BY <1>1, <2>1 DEF F!StoreInit, FileTypes, Answer
<1>3. ASSUME NEW c \in Call
      PROVE  /\ Placement(c) /\ HoldsLock(c) /\ Filled(c) /\ Untaken(c) /\ Beside(c)
             /\ Answers(c)
  <2>1. fpc[c] = "idle" /\ ~Inward(c) /\ at[c] = 1 /\ answer[c] = None
    BY <1>1 DEF F!StoreInit, Inward
  <2> QED BY <2>1, NoneAssumption DEF Placement, HoldsLock, Filled, Untaken, Beside, Answers
<1>4. SideFollows
  BY DEF F!StoreInit, SideFollows, Owner
<1>5. PlacedFew
  <2>1. Placed = {}
    BY <1>1 DEF Placed, Past
  <2> QED BY <2>1, FS_EmptySet DEF F!StoreInit, PlacedFew, Count
<1> QED BY <1>2, <1>3, <1>4, <1>5 DEF FileInv

\* A step of a plan, or a call on this machine that is cancelled.
LEMMA MovesKeep ==
  ASSUME FileInv, NEW c \in Call, Moves(c), FileTypes'
  PROVE  FileInv'
<1>1. /\ \A d \in Call : HoldsLock(d)' /\ Filled(d)' /\ Untaken(d)' /\ Beside(d)'
  BY HoldsOn, FilledStays, UntakenStays, BesideStays DEF FileInv
<1>2. \A d \in Call : Answers(d)' /\ Placement(d)'
  BY AnswersStay DEF FileInv
<1>3. SideFollows' /\ PlacedFew'
  BY SideStays, PlacedStays DEF FileInv
<1> QED BY <1>1, <1>2, <1>3 DEF FileInv

\* Of a step that leaves the file, the lock and the places of the others alone.
LEMMA PlacedAlike ==
  ASSUME backend' = backend, op' = op, at' = at
  PROVE  Placed' = Placed
BY DEF Placed, Past, F!Plan

LEMMA BeginKeeps ==
  ASSUME FileInv, NEW c \in Call, F!Begin(c)
  PROVE  FileInv'
<1>1. /\ fpc[c] = "idle" /\ fpc' = [fpc EXCEPT ![c] = "in"] /\ FileTypes
      /\ UNCHANGED <<backend, op, at, holder, file, side, temp, opened, answer, read, removed,
                     unsided>>
  BY DEF F!Begin, FileInv
<1>2. FileTypes'
  BY <1>1 DEF FileTypes
<1>3. /\ \A d \in Call : F!Plan(d)' = F!Plan(d) /\ F!Step(d)' = F!Step(d)
      /\ \A d \in Call : d # c => (Inward(d)' <=> Inward(d)) /\ fpc'[d] = fpc[d]
  BY <1>1 DEF F!Plan, F!Step, Inward, FileTypes
<1>4. at[c] = 1 /\ PlanShape(backend, op[c], F!Plan(c)) /\ F!Step(c) = F!Plan(c)[1]
  BY <1>1, Shapes DEF FileInv, FileTypes, Placement, F!Plan, F!Step
<1>5. /\ F!Step(c) \notin {"replace", "fill", "remove", "sidecar", "unside"}
      /\ backend \in Near => F!Step(c) \notin Inside(backend)
      /\ backend \in Near /\ op[c] \in F!Creating => F!Step(c) \notin Creates(backend)
      /\ 1 <= Len(F!Plan(c))
  BY <1>4 DEF PlanShape
<1>6. ASSUME NEW d \in Call
      PROVE  /\ Placement(d)' /\ HoldsLock(d)' /\ Filled(d)' /\ Untaken(d)' /\ Beside(d)'
             /\ Answers(d)'
  <2>0. /\ Placement(d) /\ HoldsLock(d) /\ Filled(d) /\ Untaken(d) /\ Beside(d) /\ Answers(d)
    BY DEF FileInv
  <2>1. CASE d # c
    BY <1>1, <1>3, <2>0, <2>1 DEF Placement, HoldsLock, Filled, Untaken, Beside, Answers,
           F!Whole, F!Part
  <2>2. CASE d = c
    <3>1. backend = "local" => F!Step(c) # "chunk"
      BY <1>5 DEF Near, Inside
    <3>2. Placement(c)' /\ Answers(c)'
      BY <1>1, <1>3, <1>4, <1>5, <2>0, <2>2 DEF Placement, Answers, Inward, FileTypes
    <3>3. HoldsLock(c)' /\ Filled(c)' /\ Untaken(c)' /\ Beside(c)'
      BY <1>1, <1>3, <1>5, <3>1 DEF HoldsLock, Filled, Untaken, Beside
    <3> QED BY <2>2, <3>2, <3>3
  <2> QED BY <2>1, <2>2
<1>7. SideFollows'
  <2>1. \A d \in Call : Seen(d) => Seen(d)'
    BY <1>1, <1>3 DEF Seen, Inward
  <2> QED BY <1>1, <2>1 DEF FileInv, SideFollows, Owner
<1>8. PlacedFew'
  BY <1>1, PlacedAlike DEF FileInv, PlacedFew, Count
<1> QED BY <1>2, <1>6, <1>7, <1>8 DEF FileInv

\* The process dies.
LEMMA DieKeeps ==
  ASSUME FileInv, F!Die
  PROVE  FileInv'
<1>1. /\ fpc' = [c \in Call |-> IF fpc[c] = "in" THEN "done" ELSE fpc[c]]
      /\ answer' = [c \in Call |-> IF fpc[c] = "in" THEN "died" ELSE answer[c]]
      /\ holder' = None /\ FileTypes
      /\ UNCHANGED <<backend, op, at, file, side, temp, opened, read, removed>>
  BY DEF F!Die, FileInv
<1>2. FileTypes'
  BY <1>1 DEF FileTypes, Answer
<1>3. \A d \in Call : F!Plan(d)' = F!Plan(d) /\ F!Step(d)' = F!Step(d) /\ ~Inward(d)'
  BY <1>1 DEF F!Plan, F!Step, Inward, FileTypes
<1>6. ASSUME NEW d \in Call
      PROVE  /\ Placement(d)' /\ HoldsLock(d)' /\ Filled(d)' /\ Untaken(d)' /\ Beside(d)'
             /\ Answers(d)'
  <2>0. Placement(d) /\ Answers(d)
    BY DEF FileInv
  <2>1. HoldsLock(d)' /\ Filled(d)' /\ Untaken(d)' /\ Beside(d)'
    BY <1>3 DEF HoldsLock, Filled, Untaken, Beside
  <2>2. /\ fpc[d] \in {"idle", "in", "done"} /\ fpc'[d] = (IF fpc[d] = "in" THEN "done" ELSE fpc[d])
        /\ answer'[d] = (IF fpc[d] = "in" THEN "died" ELSE answer[d]) /\ at'[d] = at[d]
    BY <1>1 DEF FileTypes
  <2>3. Placement(d)' /\ Answers(d)'
    BY <1>1, <1>3, <2>0, <2>2 DEF Placement, Answers
  <2> QED BY <2>1, <2>3
<1>7. SideFollows'
  <2> SUFFICES ASSUME backend' = "local", ~unsided' PROVE side' = Owner'
    BY DEF SideFollows
  <2>1. ~unsided /\ \A d \in Call : ~Seen(d)
    BY DEF F!Die, Seen, Inward
  <2>2. side = Owner
    BY <1>1, <2>1 DEF FileInv, SideFollows
  <2> QED BY <1>1, <2>2 DEF Owner
<1>8. PlacedFew'
  BY <1>1, PlacedAlike DEF FileInv, PlacedFew, Count
<1> QED BY <1>2, <1>6, <1>7, <1>8 DEF FileInv

\* A request to a bucket fails, or its coroutine is cancelled: only the types, and
\* where the call is, matter there.
LEMMA BucketKeeps ==
  ASSUME FileInv, backend \notin Near, backend' = backend, FileTypes', \A d \in Call : Placement(d)'
  PROVE  FileInv'
<1>1. backend # "local" /\ backend' # "local" /\ backend' \notin Near
  BY DEF Near
<1>2. SideFollows' /\ PlacedFew'
  BY <1>1 DEF SideFollows, PlacedFew
<1>3. \A d \in Call : HoldsLock(d)' /\ Filled(d)' /\ Untaken(d)' /\ Beside(d)' /\ Answers(d)'
  BY <1>1 DEF HoldsLock, Filled, Untaken, Beside, Answers
<1> QED BY <1>2, <1>3 DEF FileInv

LEMMA RequestKeeps ==
  ASSUME FileInv, NEW c \in Call, NEW error, F!RequestFails(c, error)
  PROVE  FileInv'
<1>1. /\ Inward(c) /\ backend \notin Near /\ FileTypes /\ Placement(c)
      /\ UNCHANGED <<backend, op, temp, opened, read>>
  BY DEF F!RequestFails, F!Remote, Near, FileInv, Inward
<1>2. file' \in Wholes /\ removed' \in Nat
  <2>1. file' \in {file, F!Whole(c), Absent} /\ removed' \in {removed, removed + 1}
    BY DEF F!RequestFails
  <2>2. file \in Wholes /\ F!Whole(c) \in Wholes /\ Absent \in Wholes /\ removed \in Nat
    BY <1>1, ContentTypes DEF FileTypes
  <2> QED BY <2>1, <2>2
<1>3. CASE F!Leaves(c, "error")
  <2>1. Apart(c) /\ Quits(c)
    BY <1>1, <1>3, LeavesEffect DEF Answer, FileTypes
  <2>2. at' = at /\ holder' \in {holder, None}
    BY <1>3 DEF F!Leaves
  <2>3. FileTypes'
    BY <1>1, <1>2, <2>1, <2>2 DEF FileTypes, Apart
  <2>4. \A d \in Call : Placement(d)'
    <3>1. \A d \in Call : d # c => Placement(d)'
      BY <2>1, OthersStay DEF FileInv, Placement
    <3>2. Placement(c)'
      BY <2>1 DEF Quits, Placement, Inward
    <3> QED BY <3>1, <3>2
  <2> QED BY <1>1, <2>3, <2>4, BucketKeeps
<1>4. CASE at' = [at EXCEPT ![c] = F!From(c)] /\ UNCHANGED <<fpc, answer, holder, busy>>
  <2>1. PlanShape(backend, op[c], F!Plan(c)) /\ at \in [Call -> Nat \ {0}] /\ Len(F!Plan(c)) \in Nat
    BY <1>1, Shapes DEF FileTypes, F!Plan, PlanShape
  <2>2. F!From(c) \in Nat \ {0} /\ F!From(c) <= Len(F!Plan(c))
    <3>1. F!Step(c) = "remove" => at[c] # 1
      BY <2>1 DEF PlanShape, F!Step
    <3>2. at[c] \in Nat \ {0} /\ at[c] <= Len(F!Plan(c))
      BY <1>1, <2>1 DEF Placement
    <3> QED BY <2>1, <3>1, <3>2 DEF F!From
  <2>3. at' \in [Call -> Nat \ {0}] /\ at'[c] = F!From(c) /\ \A d \in Call : d # c => at'[d] = at[d]
    BY <1>4, <2>1, <2>2
  <2>4. FileTypes'
    BY <1>1, <1>2, <1>4, <2>3 DEF FileTypes
  <2>5. \A d \in Call : F!Plan(d)' = F!Plan(d) /\ fpc'[d] = fpc[d]
    BY <1>1, <1>4 DEF F!Plan
  <2>6. \A d \in Call : Placement(d)'
    <3>1. \A d \in Call : d # c => Placement(d)'
      BY <2>3, <2>5 DEF FileInv, Placement, Inward
    <3>2. Placement(c)'
      BY <1>1, <2>2, <2>3, <2>5 DEF Placement, Inward
    <3> QED BY <3>1, <3>2
  <2> QED BY <1>1, <2>4, <2>6, BucketKeeps
<1> QED BY <1>3, <1>4 DEF F!RequestFails

LEMMA CancelKeeps ==
  ASSUME FileInv, NEW c \in Call, F!CancelCall(c)
  PROVE  FileInv'
<1>1. /\ Inward(c) /\ FileTypes /\ UNCHANGED <<backend, op, file, temp, opened, read, removed>>
  BY DEF F!CancelCall, FileInv, Inward
<1>2. CASE F!Leaves(c, "cancelled")
  <2>1. Apart(c) /\ Quits(c)
    BY <1>1, <1>2, LeavesEffect DEF Answer, FileTypes
  <2>2. at' = at /\ holder' \in {holder, None}
    BY <1>2 DEF F!Leaves
  <2>3. FileTypes'
    BY <1>1, <2>1, <2>2 DEF FileTypes, Apart
  <2>4. \A d \in Call : Placement(d)'
    <3>1. \A d \in Call : d # c => Placement(d)'
      BY <2>1, OthersStay DEF FileInv, Placement
    <3>2. Placement(c)'
      BY <2>1 DEF Quits, Placement, Inward
    <3> QED BY <3>1, <3>2
  <2>5. CASE backend \in Near
    BY <1>1, <2>3, <2>5, CancelMoves, MovesKeep
  <2> QED BY <1>1, <2>3, <2>4, <2>5, BucketKeeps
<1>3. CASE /\ answer' = [answer EXCEPT ![c] = "cancelled"] /\ F!Remote
           /\ UNCHANGED <<fpc, at, holder, busy>>
  <2>1. FileTypes'
    BY <1>1, <1>3 DEF FileTypes, Answer
  <2>2. \A d \in Call : Placement(d)'
    BY <1>1, <1>3 DEF FileInv, Placement, F!Plan, Inward
  <2>3. backend \notin Near
    BY <1>3 DEF F!Remote, Near
  <2> QED BY <1>1, <2>1, <2>2, <2>3, BucketKeeps
<1> QED BY <1>2, <1>3 DEF F!CancelCall

LEMMA FileStep ==
  ASSUME FileInv, [F!StoreNext]_fileVars
  PROVE  FileInv'
<1>1. ASSUME NEW c \in Call, F!Steps(c) PROVE FileInv'
  <2>1. FileTypes /\ Placement(c) /\ Filled(c)
    BY DEF FileInv
  <2>2. Moves(c)
    BY <1>1, <2>1, StepMoves
  <2>3. FileTypes'
    BY <1>1, <2>1, <2>2, TypesOfMove
  <2> QED BY <2>2, <2>3, MovesKeep
<1>2. CASE UNCHANGED fileVars
  <2>1. UNCHANGED <<backend, op, fpc, at, holder, file, side, temp, opened, answer, read,
                    removed, unsided>>
    BY <1>2 DEF fileVars
  <2>2. FileTypes'
    BY <2>1 DEF FileInv, FileTypes
  <2>3. \A d \in Call : /\ Placement(d)' /\ HoldsLock(d)' /\ Filled(d)' /\ Untaken(d)'
                        /\ Beside(d)' /\ Answers(d)'
    BY <2>1 DEF FileInv, Placement, HoldsLock, Filled, Untaken, Beside, Answers, F!Plan, F!Step,
                F!Whole, F!Part, Inward
  <2>4. SideFollows'
    BY <2>1 DEF FileInv, SideFollows, Owner, Seen, Inward, F!Step, F!Plan
  <2>5. PlacedFew'
    BY <2>1, PlacedAlike DEF FileInv, PlacedFew, Count
  <2> QED BY <2>2, <2>3, <2>4, <2>5 DEF FileInv
<1> QED BY <1>1, <1>2, BeginKeeps, DieKeeps, RequestKeeps, CancelKeeps DEF F!StoreNext

LEMMA SameCardinality == \A X : F!Cardinality(X) = Cardinality(X)
BY DEF F!Cardinality, Cardinality

\* Reads are whole, creators are few, the sidecar at rest is the file's.
LEMMA FilesKeptFollows == FileInv => FilesKept
<1> SUFFICES ASSUME FileInv PROVE F!ReadsWhole /\ F!CreatedOnce /\ F!SidecarAgrees
  BY DEF FilesKept, F!FilesKept
<1>0. FileTypes
  BY DEF FileInv
<1>1. F!ReadsWhole
  <2> SUFFICES ASSUME NEW c \in Call, read[c] # Absent PROVE read[c].whole
    BY DEF F!ReadsWhole
  <2>1. read[c] \in Wholes
    BY <1>0 DEF FileTypes
  <2>2. PICK d \in Call : read[c] = F!Whole(d)
    BY <2>1 DEF Wholes
  <2> QED BY <2>2, ContentTypes
<1>2. F!CreatedOnce
  <2> DEFINE Won == {c \in Call : op[c] \in F!Creating /\ answer[c] = "ok"}
  <2> SUFFICES ASSUME backend \in Near PROVE Cardinality(Won) <= 1 + removed
    BY <1>0, SameCardinality DEF F!CreatedOnce, F!Remote, Near, FileTypes, F!Backend
  <2>1. Won \subseteq Placed
    <3> SUFFICES ASSUME NEW c \in Call, op[c] \in F!Creating, answer[c] = "ok" PROVE Past(c)
      BY DEF Placed
    <3>1. PlanShape(backend, op[c], F!Plan(c))
      BY <1>0, Shapes DEF FileTypes, F!Plan
    <3>2. PICK i \in 1..Len(F!Plan(c)) : F!Plan(c)[i] \in {"put", "replace"}
      BY <3>1 DEF PlanShape
    <3>3. at[c] = Len(F!Plan(c)) + 1 /\ Len(F!Plan(c)) \in Nat
      BY <3>1 DEF FileInv, Answers, PlanShape
    <3> QED BY <3>2, <3>3 DEF Past
  <2>2. IsFiniteSet(Placed) /\ Cardinality(Placed) \in Nat /\ Cardinality(Placed) <= Count
    <3>1. Placed \subseteq Call
      BY DEF Placed
    <3> QED BY <3>1, CallsAssumption, FS_Subset, FS_CardinalityType DEF FileInv, PlacedFew
  <2>3. IsFiniteSet(Won) /\ Cardinality(Won) \in Nat /\ Cardinality(Won) <= Cardinality(Placed)
    BY <2>1, <2>2, FS_Subset, FS_CardinalityType
  <2> HIDE DEF Won
  <2> QED BY <1>0, <2>2, <2>3 DEF Count, FileTypes
<1>3. F!SidecarAgrees
  <2> SUFFICES ASSUME backend = "local", holder = None, ~unsided PROVE side = Owner
    BY DEF F!SidecarAgrees, Owner
  <2>1. \A c \in Call : ~Seen(c)
    <3> SUFFICES ASSUME NEW c \in Call, Seen(c) PROVE FALSE
      OBVIOUS
    <3>1. F!Step(c) \in Inside(backend) /\ Inward(c) /\ backend \in Near
      BY DEF Seen, Inside, Near
    <3>2. holder = c
      BY <3>1 DEF FileInv, HoldsLock
    <3> QED BY <3>2, CallsAssumption
  <2> QED BY <2>1 DEF FileInv, SideFollows
<1> QED BY <1>1, <1>2, <1>3

-------------------------------------------------------------------------------
(* The parts of the storage together.                                         *)

LEMMA StepOfParts ==
  [MCNext]_<<vars, queueVars, fileVars, secretVars, hookVars, scenario>> =>
      /\ [F!StoreNext]_fileVars /\ [S!SecretNext]_secretVars /\ [W!WebhookNext]_hookVars
BY DEF MCNext

LEMMA PartsStart == MCInit => F!StoreInit /\ S!SecretInit /\ W!StoreInit
BY DEF MCInit

\* The server's cache of webhooks agrees with its table, whatever requests and the
\* command line do to both (server/webhooks.py).
THEOREM HooksStayTrue == MCSpec => []HooksAgree
<1>1. MCInit => HookInv
  BY PartsStart, HooksStart
<1>2. HookInv /\ [MCNext]_<<vars, queueVars, fileVars, secretVars, hookVars, scenario>> => HookInv'
  BY StepOfParts, HookStep
<1> QED BY <1>1, <1>2, HooksAgreeFollows, PTL DEF MCSpec

\* No client sees a value of a secret whose removal has been answered before it asked
\* (secrets/registry.py, secrets_store.py).
THEOREM ClearedStaysGone == MCSpec => []ClearedIsGone
<1>1. MCInit => SecretInv
  BY PartsStart, SecretsStart, NoneAssumption
<1>2. SecretInv /\ [MCNext]_<<vars, queueVars, fileVars, secretVars, hookVars, scenario>> => SecretInv'
  BY StepOfParts, SecretStep, NoneAssumption
<1> QED BY <1>1, <1>2, ClearedIsGoneFollows, PTL DEF MCSpec

\* Any number of calls for one path leave the file whole, let one creator win for
\* each removal and the sidecar belong to the file (file_store/).
THEOREM FilesAreKept == MCSpec => []FilesKept
<1>1. MCInit => FileInv
  BY PartsStart, FilesStart
<1>2. FileInv /\ [MCNext]_<<vars, queueVars, fileVars, secretVars, hookVars, scenario>> => FileInv'
  BY StepOfParts, FileStep
<1> QED BY <1>1, <1>2, FilesKeptFollows, PTL DEF MCSpec
================================================================================
