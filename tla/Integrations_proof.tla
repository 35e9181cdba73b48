--------------------------- MODULE Integrations_proof ---------------------------
(***************************************************************************)
(* What the runs of MCIntegrations check, proved for every value of the    *)
(* constants: of the webhook intake, of the issue resolver, of one agent's *)
(* run, of a pipeline of roles, of a plan and of the task queue.  The      *)
(* parts share no variable, so each has an inductive invariant of its own. *)
(***************************************************************************)
EXTENDS MCIntegrations, FiniteSetTheorems, SequenceTheorems, TLAPS
-------------------------------------------------------------------------------
(* The intake.  Each fingerprint has been let through once, and once more    *)
(* for each time the store forgot it; while the store has it, it is not let  *)
(* through.                                                                  *)

Outcome == {"new", "rejected", "raised", "duplicate"} \cup InFlight \cup Settled

IntakeTypes ==
    /\ state \in [Delivery -> Outcome]
    /\ seen \in Seq(Fingerprint) /\ expired \in 0..Len(seen)
    /\ queue \in Seq(Delivery)
    /\ round \in [Delivery -> 0..MaxRetries]
    /\ forgotten \in [Fingerprint -> Nat]

AcceptedAs(f) == {d \in Accepted : FingerprintOf(sent[d]) = f}
InStore(f) == f \in Range(seen)

\* What is in the queue was accepted.
QueueAccepted == \A i \in DOMAIN queue : state[queue[i]] \in InFlight \cup Settled

LetThrough ==
    \A f \in Fingerprint :
        Cardinality(AcceptedAs(f)) <= forgotten[f] + (IF InStore(f) THEN 1 ELSE 0)

IntakeInv == IntakeTypes /\ QueueAccepted /\ LetThrough

LEMMA AcceptedFinite ==
  ASSUME NEW f
  PROVE  /\ IsFiniteSet(AcceptedAs(f)) /\ Cardinality(AcceptedAs(f)) \in Nat
         /\ IsFiniteSet(AcceptedAs(f)') /\ Cardinality(AcceptedAs(f)') \in Nat
BY DeliveryAssumption, FS_Subset, FS_CardinalityType DEF AcceptedAs, Accepted

\* Steps in which the deliveries that are accepted and the store stay as they are.
LEMMA SameAccepted ==
  ASSUME LetThrough, Accepted' = Accepted, UNCHANGED <<trafficVars, seen, forgotten>>
  PROVE  LetThrough'
<1>1. \A f : AcceptedAs(f)' = AcceptedAs(f) /\ InStore(f)' = InStore(f)
  BY DEF AcceptedAs, trafficVars, InStore
<1>2. Fingerprint' = Fingerprint /\ forgotten' = forgotten
  BY DEF Fingerprint, trafficVars, Normalizes, EventType
<1> QED BY <1>1, <1>2 DEF LetThrough

LEMMA IntakeStarts == IntakeInit => IntakeInv
<1> SUFFICES ASSUME IntakeInit PROVE IntakeInv
  OBVIOUS
<1>1. IntakeTypes
  BY EmptySeq, SizesAssumption DEF IntakeInit, IntakeTypes, Outcome
<1>2. QueueAccepted
  BY DEF IntakeInit, QueueAccepted
<1>3. LetThrough
  <2>1. \A f : AcceptedAs(f) = {}
    BY DEF IntakeInit, AcceptedAs, Accepted, InFlight, Settled
  <2>2. \A f \in Fingerprint : Cardinality(AcceptedAs(f)) = 0 /\ forgotten[f] = 0
    BY <2>1, FS_EmptySet DEF IntakeInit
  <2> QED BY <2>2 DEF LetThrough
<1> QED BY <1>1, <1>2, <1>3 DEF IntakeInv

-------------------------------------------------------------------------------
\* The entries inside the window are some of the store's.
LEMMA FreshEntries ==
  ASSUME IntakeTypes
  PROVE  Fresh \in Seq(Fingerprint) /\ Range(Fresh) \subseteq Range(seen)
<1>1. Len(seen) \in Nat /\ expired \in 0..Len(seen) /\ seen \in Seq(Fingerprint)
  BY DEF IntakeTypes
<1> DEFINE s == SubSeq(seen, expired + 1, Len(seen))
<1>2. /\ s \in Seq(Fingerprint)
      /\ Len(s) = IF expired + 1 <= Len(seen) THEN Len(seen) - (expired + 1) + 1 ELSE 0
      /\ \A i \in 1..(Len(seen) - (expired + 1) + 1) : s[i] = seen[(expired + 1) + i - 1]
  BY <1>1, SubSeqProperties
<1> HIDE DEF s
<1>3. \A i \in 1..Len(s) : s[i] = seen[expired + i] /\ expired + i \in 1..Len(seen)
  BY <1>1, <1>2
<1>4. DOMAIN s = 1..Len(s) /\ DOMAIN seen = 1..Len(seen)
  BY <1>1, <1>2
<1>5. Range(s) \subseteq Range(seen)
  BY <1>3, <1>4 DEF Range
<1> QED BY <1>2, <1>5 DEF Fresh, s

\* A recorded fingerprint is in the store, with nothing that was not there.
LEMMA RecordedEntries ==
  ASSUME IntakeTypes, NEW f \in Fingerprint
  PROVE  /\ Recorded(f) \in Seq(Fingerprint)
         /\ f \in Range(Recorded(f)) /\ Range(Recorded(f)) \subseteq Range(Fresh) \cup {f}
<1> DEFINE s == Append(Fresh, f)
<1>1. /\ s \in Seq(Fingerprint) /\ Len(s) = Len(Fresh) + 1 /\ s[Len(Fresh) + 1] = f
      /\ Len(Fresh) \in Nat /\ \A i \in 1..Len(Fresh) : s[i] = Fresh[i]
  BY FreshEntries, AppendProperties
<1> HIDE DEF s
<1>2. DOMAIN s = 1..Len(s) /\ DOMAIN Fresh = 1..Len(Fresh)
  BY <1>1, FreshEntries
<1>3. f \in Range(s) /\ Range(s) \subseteq Range(Fresh) \cup {f}
  BY <1>1, <1>2 DEF Range
<1>4. CASE Len(s) > MaxSeen
  <2>1. Len(s) >= 2 /\ s # <<>>
    BY <1>1, <1>4, SizesAssumption, EmptySeq
  <2>2. /\ Tail(s) \in Seq(Fingerprint) /\ Len(Tail(s)) = Len(s) - 1
        /\ \A i \in 1..Len(Tail(s)) : Tail(s)[i] = s[i + 1]
    BY <1>1, <2>1, HeadTailProperties
  <2>3. DOMAIN Tail(s) = 1..(Len(s) - 1)
    BY <2>2
  <2>4. Len(s) - 1 \in DOMAIN Tail(s) /\ Tail(s)[Len(s) - 1] = f
    BY <1>1, <2>1, <2>2, <2>3
  <2>5. Range(Tail(s)) \subseteq Range(s)
    BY <1>1, <1>2, <2>2, <2>3 DEF Range
  <2>6. f \in Range(Tail(s))
    BY <2>4 DEF Range
  <2>7. Recorded(f) = Tail(s)
    BY <1>4 DEF Recorded, s
  <2> QED BY <1>3, <2>2, <2>5, <2>6, <2>7
<1>5. CASE ~(Len(s) > MaxSeen)
  BY <1>1, <1>3, <1>5 DEF Recorded, s
<1> QED BY <1>4, <1>5

-------------------------------------------------------------------------------
LEMMA TrafficStays ==
  ASSUME UNCHANGED trafficVars
  PROVE  /\ Fingerprint' = Fingerprint
         /\ \A d : FingerprintOf(sent[d])' = FingerprintOf(sent[d])
BY DEF trafficVars, Fingerprint, Normalizes, EventType

\* What a delivery becomes that is not queued.
LEMMA TurnedAway ==
  ASSUME IntakeInv, NEW d \in Delivery, state[d] = "new",
         NEW how \in {"rejected", "raised", "duplicate"},
         state' = [state EXCEPT ![d] = how], UNCHANGED queue
  PROVE  Accepted' = Accepted /\ QueueAccepted' /\ state' \in [Delivery -> Outcome]
<1>1. state' \in [Delivery -> Outcome] /\ \A e \in Delivery : state'[e] = IF e = d THEN how ELSE state[e]
  BY DEF IntakeInv, IntakeTypes, Outcome
<1>2. state[d] \notin InFlight \cup Settled /\ how \notin InFlight \cup Settled
  BY DEF InFlight, Settled
<1>3. Accepted' = Accepted
  BY <1>1, <1>2 DEF Accepted
<1>4. \A i \in DOMAIN queue : queue[i] \in Delivery
  BY DEF IntakeInv, IntakeTypes
<1> QED BY <1>1, <1>2, <1>3, <1>4 DEF IntakeInv, QueueAccepted

\* The store after a request with fingerprint f, which has entered it or was there.
LEMMA Remembered ==
  ASSUME IntakeInv, UNCHANGED trafficVars, NEW s \in Seq(Fingerprint), Remember(s),
         NEW f \in Fingerprint, f \in Range(s), Range(s) \subseteq Range(Fresh) \cup {f}
  PROVE  /\ seen' \in Seq(Fingerprint)' /\ expired' \in 0..Len(seen') /\ forgotten' \in [Fingerprint' -> Nat]
         /\ \A g \in Fingerprint :
              LET was == forgotten[g] + (IF InStore(g) THEN 1 ELSE 0)
                  is == forgotten'[g] + (IF InStore(g)' THEN 1 ELSE 0)
              IN  /\ was <= is
                  /\ g = f /\ f \notin Range(Fresh) => was + 1 <= is
<1>1. /\ seen' = s /\ expired' = 0
      /\ forgotten' = [g \in Fingerprint |-> forgotten[g] + IF Leaves(g, s) THEN 1 ELSE 0]
  BY DEF Remember
<1>2. \A g \in Fingerprint : forgotten[g] \in Nat
  BY DEF IntakeInv, IntakeTypes
<1>3. forgotten' \in [Fingerprint -> Nat]
  BY <1>1, <1>2
<1>4. \A g \in Fingerprint :
        /\ forgotten'[g] = forgotten[g] + (IF Leaves(g, s) THEN 1 ELSE 0)
        /\ InStore(g)' <=> g \in Range(s)
  BY <1>1 DEF InStore
<1>5. Range(Fresh) \subseteq Range(seen)
  BY FreshEntries DEF IntakeInv
<1>6. Len(s) \in Nat
  OBVIOUS
<1>7. ASSUME NEW g \in Fingerprint
      PROVE  LET was == forgotten[g] + (IF InStore(g) THEN 1 ELSE 0)
                 is == forgotten'[g] + (IF InStore(g)' THEN 1 ELSE 0)
             IN  was <= is /\ (g = f /\ f \notin Range(Fresh) => was + 1 <= is)
  <2>1. CASE g \in Range(s)
    <3>1. InStore(g)' /\ forgotten'[g] >= forgotten[g] /\ forgotten'[g] \in Nat
      BY <1>2, <1>3, <1>4, <2>1
    <3>2. g = f /\ f \notin Range(Fresh) /\ InStore(g) => forgotten'[g] = forgotten[g] + 1
      BY <1>4 DEF Leaves, InStore
    <3> QED BY <1>2, <3>1, <3>2
  <2>2. CASE g \notin Range(s)
    <3>1. g # f /\ ~InStore(g)' /\ (InStore(g) => forgotten'[g] = forgotten[g] + 1)
      BY <1>4, <2>2 DEF Leaves, InStore
    <3>2. forgotten'[g] >= forgotten[g]
      BY <1>2, <1>4
    <3> QED BY <1>2, <1>3, <3>1, <3>2
  <2> QED BY <2>1, <2>2
<1> QED BY <1>1, <1>3, <1>6, <1>7, TrafficStays

LEMMA HandleStep ==
  ASSUME IntakeInv, NEW d \in Delivery, Handle(d)
  PROVE  IntakeInv'
<1>0. state[d] = "new" /\ UNCHANGED <<trafficVars, running, handlers, round, todo, failing, stops>>
  BY DEF Handle
<1>1. CASE Refused(d)
  <2>1. /\ Accepted' = Accepted /\ QueueAccepted' /\ state' \in [Delivery -> Outcome]
        /\ UNCHANGED <<seen, expired, forgotten, queue>>
    BY <1>0, <1>1, TurnedAway DEF Refused
  <2> QED BY <1>0, <2>1, SameAccepted, TrafficStays DEF IntakeInv, IntakeTypes
<1>2. CASE Normalizes(sent[d]) /\ Duplicate(d)
  <2> DEFINE f == FingerprintOf(sent[d])
  <2>1. f \in Fingerprint
    BY <1>2 DEF Fingerprint
  <2>2. /\ f \in Range(Fresh) /\ Remember(Fresh) /\ UNCHANGED queue
        /\ Accepted' = Accepted /\ QueueAccepted' /\ state' \in [Delivery -> Outcome]
    BY <1>0, <1>2, TurnedAway DEF Duplicate
  <2>3. Fresh \in Seq(Fingerprint) /\ Range(Fresh) \subseteq Range(Fresh) \cup {f}
    BY FreshEntries DEF IntakeInv
  <2> HIDE DEF f
  <2>4. /\ seen' \in Seq(Fingerprint)' /\ expired' \in 0..Len(seen') /\ forgotten' \in [Fingerprint' -> Nat]
        /\ \A g \in Fingerprint : forgotten[g] + (IF InStore(g) THEN 1 ELSE 0) <=
                                  forgotten'[g] + (IF InStore(g)' THEN 1 ELSE 0)
    BY <1>0, <2>1, <2>2, <2>3, Remembered
  <2>5. \A g : AcceptedAs(g)' = AcceptedAs(g)
    BY <2>2, <1>0, TrafficStays DEF AcceptedAs
  <2>6. LetThrough'
    <3> SUFFICES ASSUME NEW g \in Fingerprint
                 PROVE  Cardinality(AcceptedAs(g)') <= forgotten'[g] + (IF InStore(g)' THEN 1 ELSE 0)
      BY <1>0, TrafficStays DEF LetThrough
    <3>1. Cardinality(AcceptedAs(g)) <= forgotten[g] + (IF InStore(g) THEN 1 ELSE 0)
      BY DEF IntakeInv, LetThrough
    <3>2. forgotten[g] \in Nat /\ forgotten'[g] \in Nat
      BY <2>4, <1>0, TrafficStays DEF IntakeInv, IntakeTypes
    <3> QED BY <2>4, <2>5, <3>1, <3>2, AcceptedFinite
  <2> QED BY <1>0, <2>2, <2>4, <2>6, TrafficStays DEF IntakeInv, IntakeTypes
<1>3. CASE Normalizes(sent[d]) /\ Enqueue(d)
  <2> DEFINE f == FingerprintOf(sent[d])
  <2>1. f \in Fingerprint /\ f \notin Range(Fresh) /\ Remember(Recorded(f))
    BY <1>3 DEF Fingerprint, Enqueue
  <2>2. /\ Recorded(f) \in Seq(Fingerprint)
        /\ f \in Range(Recorded(f)) /\ Range(Recorded(f)) \subseteq Range(Fresh) \cup {f}
    BY <2>1, RecordedEntries DEF IntakeInv
  <2>3. Accepted' \subseteq Accepted \cup {d} /\ QueueAccepted' /\ state' \in [Delivery -> Outcome]
        /\ queue' \in Seq(Delivery)
    <3>1. CASE state' = [state EXCEPT ![d] = "rejected"] /\ UNCHANGED queue
      BY <1>0, <3>1, TurnedAway DEF IntakeInv, IntakeTypes
    <3>2. CASE state' = [state EXCEPT ![d] = "queued"] /\ queue' = Append(queue, d)
      <4>1. /\ state' \in [Delivery -> Outcome]
            /\ \A e \in Delivery : state'[e] = IF e = d THEN "queued" ELSE state[e]
        BY <3>2 DEF IntakeInv, IntakeTypes, Outcome, InFlight
      <4>2. /\ queue' \in Seq(Delivery) /\ DOMAIN queue' = 1..(Len(queue) + 1) /\ Len(queue) \in Nat
            /\ queue'[Len(queue) + 1] = d /\ \A i \in 1..Len(queue) : queue'[i] = queue[i]
            /\ DOMAIN queue = 1..Len(queue)
        BY <3>2, AppendProperties DEF IntakeInv, IntakeTypes
      <4>3. \A i \in 1..Len(queue) : queue[i] \in Delivery
        BY <4>2 DEF IntakeInv, IntakeTypes
      <4>4. QueueAccepted'
        BY <4>1, <4>2, <4>3 DEF IntakeInv, QueueAccepted, InFlight
      <4> QED BY <4>1, <4>2, <4>4 DEF Accepted
    <3> QED BY <1>3, <3>1, <3>2 DEF Enqueue
  <2> HIDE DEF f
  <2>4. /\ seen' \in Seq(Fingerprint)' /\ expired' \in 0..Len(seen') /\ forgotten' \in [Fingerprint' -> Nat]
        /\ \A g \in Fingerprint :
             LET was == forgotten[g] + (IF InStore(g) THEN 1 ELSE 0)
                 is == forgotten'[g] + (IF InStore(g)' THEN 1 ELSE 0)
             IN  /\ was <= is
                 /\ g = f /\ f \notin Range(Fresh) => was + 1 <= is
    BY <1>0, <2>1, <2>2, Remembered
  <2>5. LetThrough'
    <3> SUFFICES ASSUME NEW g \in Fingerprint
                 PROVE  Cardinality(AcceptedAs(g)') <= forgotten'[g] + (IF InStore(g)' THEN 1 ELSE 0)
      BY <1>0, TrafficStays DEF LetThrough
    <3>1. Cardinality(AcceptedAs(g)) <= forgotten[g] + (IF InStore(g) THEN 1 ELSE 0)
      BY DEF IntakeInv, LetThrough
    <3>2. forgotten[g] \in Nat /\ forgotten'[g] \in Nat
      BY <2>4, <1>0, TrafficStays DEF IntakeInv, IntakeTypes
    <3>3. CASE g = f
      <4>1. AcceptedAs(g)' \subseteq AcceptedAs(g) \cup {d}
        BY <2>3, <1>0, TrafficStays DEF AcceptedAs
      <4>2. Cardinality(AcceptedAs(g)') <= Cardinality(AcceptedAs(g)) + 1
        <5>1. /\ IsFiniteSet(AcceptedAs(g) \cup {d})
              /\ Cardinality(AcceptedAs(g) \cup {d}) \in Nat
              /\ Cardinality(AcceptedAs(g) \cup {d}) <= Cardinality(AcceptedAs(g)) + 1
          <6> DEFINE T == AcceptedAs(g)
          <6>1. IsFiniteSet(T) /\ Cardinality(T) \in Nat
            BY AcceptedFinite
          <6> HIDE DEF T
          <6>2. IsFiniteSet(T \cup {d}) /\ (Cardinality(T \cup {d}) = IF d \in T THEN Cardinality(T) ELSE Cardinality(T) + 1)
            BY <6>1, FS_AddElement
          <6>3. Cardinality(T \cup {d}) \in Nat /\ Cardinality(T \cup {d}) <= Cardinality(T) + 1
            BY <6>1, <6>2
          <6> QED BY <6>2, <6>3 DEF T
        <5>2. Cardinality(AcceptedAs(g)') <= Cardinality(AcceptedAs(g) \cup {d})
          BY <4>1, <5>1, FS_Subset
        <5> QED BY <5>1, <5>2, AcceptedFinite
      <4> QED BY <2>1, <2>4, <3>1, <3>2, <3>3, <4>2, AcceptedFinite
    <3>4. CASE g # f
      <4>1. AcceptedAs(g)' \subseteq AcceptedAs(g)
        BY <2>3, <1>0, <3>4, TrafficStays DEF AcceptedAs, f
      <4>2. Cardinality(AcceptedAs(g)') <= Cardinality(AcceptedAs(g))
        BY <4>1, AcceptedFinite, FS_Subset
      <4> QED BY <2>4, <3>1, <3>2, <4>2, AcceptedFinite
    <3> QED BY <3>3, <3>4
  <2> QED BY <1>0, <2>3, <2>4, <2>5, TrafficStays DEF IntakeInv, IntakeTypes
<1> QED BY <1>1, <1>2, <1>3 DEF Handle

\* A delivery that is accepted goes on.
LEMMA Moves ==
  ASSUME IntakeInv, NEW d \in Delivery, state[d] \in InFlight \cup Settled,
         NEW s \in InFlight \cup Settled, state' = [state EXCEPT ![d] = s]
  PROVE  /\ Accepted' = Accepted /\ state' \in [Delivery -> Outcome]
         /\ \A e \in Delivery : state[e] \in InFlight \cup Settled => state'[e] \in InFlight \cup Settled
<1>1. /\ state' \in [Delivery -> Outcome]
      /\ \A e \in Delivery : state'[e] = IF e = d THEN s ELSE state[e]
  BY DEF IntakeInv, IntakeTypes, Outcome
<1> QED BY <1>1 DEF Accepted

LEMMA TakeStep ==
  ASSUME IntakeInv, Take
  PROVE  IntakeInv'
<1>1. /\ queue # <<>> /\ queue' = Tail(queue) /\ state' = [state EXCEPT ![Head(queue)] = "spawned"]
      /\ UNCHANGED <<trafficVars, seen, expired, round, forgotten>>
  BY DEF Take
<1>2. /\ queue' \in Seq(Delivery) /\ Head(queue) = queue[1] /\ Len(queue) \in Nat
      /\ DOMAIN queue = 1..Len(queue) /\ 1 \in DOMAIN queue /\ DOMAIN queue' = 1..(Len(queue) - 1)
      /\ \A i \in 1..(Len(queue) - 1) : queue'[i] = queue[i + 1] /\ i + 1 \in DOMAIN queue
  BY <1>1, HeadTailProperties, LenProperties, EmptySeq DEF IntakeInv, IntakeTypes
<1>3. \A i \in DOMAIN queue : queue[i] \in Delivery /\ state[queue[i]] \in InFlight \cup Settled
  BY <1>2 DEF IntakeInv, IntakeTypes, QueueAccepted
<1>4. /\ Accepted' = Accepted /\ state' \in [Delivery -> Outcome]
      /\ \A e \in Delivery : state[e] \in InFlight \cup Settled => state'[e] \in InFlight \cup Settled
  BY <1>1, <1>2, <1>3, Moves DEF InFlight
<1>5. QueueAccepted'
  BY <1>2, <1>3, <1>4 DEF QueueAccepted
<1>6. LetThrough'
  BY <1>1, <1>4, SameAccepted DEF IntakeInv
<1> QED BY <1>1, <1>2, <1>4, <1>5, <1>6, TrafficStays DEF IntakeInv, IntakeTypes

LEMMA TaskStep ==
  ASSUME IntakeInv, NEW d \in Delivery, BeginRound(d) \/ \E ok \in BOOLEAN : HandlerEnds(d, ok)
  PROVE  IntakeInv'
<1>1. /\ state[d] \in InFlight \cup Settled
      /\ \E s \in InFlight \cup Settled : state' = [state EXCEPT ![d] = s]
      /\ UNCHANGED <<trafficVars, seen, expired, queue, forgotten>>
  <2>1. CASE BeginRound(d)
    BY <2>1 DEF BeginRound, InFlight, Settled
  <2>2. CASE \E ok \in BOOLEAN : HandlerEnds(d, ok)
    BY <2>2 DEF HandlerEnds, HandlerReturns, InFlight, Settled
  <2> QED BY <2>1, <2>2
<1>2. round' \in [Delivery -> 0..MaxRetries]
  <2>1. CASE BeginRound(d)
    BY <2>1 DEF BeginRound, IntakeInv, IntakeTypes
  <2>2. CASE \E ok \in BOOLEAN : HandlerEnds(d, ok)
    <3>1. round[d] \in 0..MaxRetries
      BY DEF IntakeInv, IntakeTypes
    <3>2. PICK ok \in BOOLEAN : HandlerReturns(d, ok, round[d] < MaxRetries)
      BY <2>2 DEF HandlerEnds
    <3> DEFINE n == IF Len(todo[d]) = 1 /\ ~ok /\ round[d] < MaxRetries
                    THEN round[d] + 1 ELSE round[d]
    <3>3. round' = [round EXCEPT ![d] = n]
      BY <3>2 DEF HandlerReturns
    <3>4. n \in 0..MaxRetries
      BY <3>1, SizesAssumption
    <3> HIDE DEF n
    <3> QED BY <3>3, <3>4 DEF IntakeInv, IntakeTypes
  <2> QED BY <2>1, <2>2
<1>3. /\ Accepted' = Accepted /\ state' \in [Delivery -> Outcome]
      /\ \A e \in Delivery : state[e] \in InFlight \cup Settled => state'[e] \in InFlight \cup Settled
  BY <1>1, Moves
<1>4. QueueAccepted'
  <2>1. \A i \in DOMAIN queue : queue[i] \in Delivery
    BY DEF IntakeInv, IntakeTypes
  <2> QED BY <1>1, <1>3, <2>1 DEF IntakeInv, QueueAccepted
<1>5. LetThrough'
  BY <1>1, <1>3, SameAccepted DEF IntakeInv
<1> QED BY <1>1, <1>2, <1>3, <1>4, <1>5, TrafficStays DEF IntakeInv, IntakeTypes

LEMMA OtherIntakeStep ==
  ASSUME IntakeInv,
         \/ WindowPasses \/ StartProcessing \/ StopProcessing \/ (\E h \in Handler : Register(h))
         \/ UNCHANGED intakeVars
  PROVE  IntakeInv'
<1>1. UNCHANGED <<trafficVars, state, seen, queue, round, forgotten>>
  BY DEF WindowPasses, StartProcessing, StopProcessing, Register, intakeVars
<1>2. expired' \in 0..Len(seen)
  BY DEF WindowPasses, StartProcessing, StopProcessing, Register, intakeVars, IntakeInv, IntakeTypes
<1>3. Accepted' = Accepted /\ QueueAccepted'
  BY <1>1 DEF Accepted, IntakeInv, QueueAccepted
<1> QED BY <1>1, <1>2, <1>3, SameAccepted, TrafficStays DEF IntakeInv, IntakeTypes

LEMMA IntakeStep ==
  ASSUME IntakeInv, [Next]_vars
  PROVE  IntakeInv'
<1>1. \/ \E d \in Delivery : Handle(d) \/ BeginRound(d) \/ \E ok \in BOOLEAN : HandlerEnds(d, ok)
      \/ Take \/ WindowPasses \/ StartProcessing \/ StopProcessing \/ (\E h \in Handler : Register(h))
      \/ UNCHANGED intakeVars
  BY DEF Next, Intake, PlainHandlerEnds, HandlerResolves, ResolverHandlerEnds, CommandStarts,
         CommandReplies, ResolverSteps, vars
<1> QED BY <1>1, HandleStep, TakeStep, TaskStep, OtherIntakeStep

\* Of the deliveries with one fingerprint at most one is processed for each time the store
\* has had to forget it.
THEOREM ProcessesOnce == Spec => []ProcessedOnce
<1>1. Init => IntakeInv
  BY IntakeStarts DEF Init
<1>2. IntakeInv => ProcessedOnce
  <2> SUFFICES ASSUME IntakeInv, NEW f \in Fingerprint
               PROVE  Cardinality({d \in Accepted : FingerprintOf(sent[d]) = f}) <= 1 + forgotten[f]
    BY DEF ProcessedOnce
  <2>1. /\ Cardinality(AcceptedAs(f)) <= forgotten[f] + (IF InStore(f) THEN 1 ELSE 0)
        /\ forgotten[f] \in Nat /\ Cardinality(AcceptedAs(f)) \in Nat
    BY AcceptedFinite DEF IntakeInv, IntakeTypes, LetThrough
  <2> QED BY <2>1 DEF AcceptedAs
<1> QED BY <1>1, <1>2, IntakeStep, PTL DEF Spec

-------------------------------------------------------------------------------
(* Resolutions.  A permit is in its semaphore or with an active resolution,  *)
(* and until the model's answer has been looked at a resolution has done     *)
(* nothing that a cancellation would come too late for.                      *)

HeldOf(s) == {r \in Active : ResolverOf[r] = s}

ResolverTypes ==
    /\ stage \in [Request -> Stage] /\ permits \in [Resolver -> Nat]
    /\ registered \subseteq Active /\ cancelled \subseteq registered
    /\ DOMAIN result = Request
    /\ IsFiniteSet(Active)

NothingDone ==
    \A r \in Request :
        stage[r] \in {"new", "prompt", "llm"} => r \notin applied \cup commented /\ result[r] = "none"

ResolverInv == ResolverTypes /\ NothingDone /\ PermitsReturned

\* One resolution that moves, together with what else its step changes.
Moving(r) ==
    \/ Resolve(r) \/ Cancel(r) \/ TaskCancelled(r) \/ Proceed(r)

LEMMA RequestFacts ==
  /\ \A r \in Request : ResolverOf[r] \in Resolver
  /\ Direct \subseteq Request /\ Command \subseteq Request
  /\ IntakeInv => \A d \in Delivery : RequestOf(d) \in Request
BY DEF Request, ResolverOf, Resolver, Hook, RequestOf, IntakeInv, IntakeTypes

\* What a step of a resolution does to its stage and to the permits.
LEMMA MovingEffect ==
  ASSUME ResolverInv, NEW r \in Request, Moving(r)
  PROVE  \/ /\ stage[r] = "new" /\ permits[ResolverOf[r]] > 0
            /\ stage' = [stage EXCEPT ![r] = "prompt"]
            /\ permits' = [permits EXCEPT ![ResolverOf[r]] = @ - 1]
            /\ registered' = registered \cup {r} /\ UNCHANGED <<cancelled, result>>
         \/ /\ stage[r] = "new" /\ stage' = [stage EXCEPT ![r] = "done"]
            /\ result' = [result EXCEPT ![r] = "FAILED"]
            /\ UNCHANGED <<permits, registered, cancelled>>
         \/ /\ r \in registered /\ cancelled' = cancelled \cup {r}
            /\ UNCHANGED <<stage, permits, registered, result>>
         \/ /\ \/ stage[r] = "prompt" /\ stage' = [stage EXCEPT ![r] = "llm"]
               \/ stage[r] = "llm" /\ stage' = [stage EXCEPT ![r] = "comment"]
            /\ r \notin cancelled
            /\ UNCHANGED <<permits, registered, cancelled, result>>
         \/ /\ r \in Active /\ stage' = [stage EXCEPT ![r] = "done"]
            /\ permits' = [permits EXCEPT ![ResolverOf[r]] = @ + 1]
            /\ registered' = registered \ {r} /\ cancelled' = cancelled \ {r}
            /\ \E s \in Terminal \cup {"RUNNING"} :
                 /\ result' = [result EXCEPT ![r] = s]
                 /\ s = "COMPLETED" => stage[r] = "comment"
<1>1. CASE Resolve(r)
  BY <1>1 DEF Resolve
<1>2. CASE Cancel(r)
  BY <1>2 DEF Cancel
<1>3. CASE TaskCancelled(r)
  <2>1. /\ r \in Active /\ Finish(r, "RUNNING")
        /\ "RUNNING" \in Terminal \cup {"RUNNING"} /\ "RUNNING" # "COMPLETED"
    BY <1>3 DEF TaskCancelled
  <2> QED BY <2>1 DEF Finish
<1>4. CASE PromptBuilt(r) \/ RenderRaises(r)
  BY <1>4 DEF PromptBuilt, RenderRaises, Finish, Active, Terminal
<1>5. CASE LlmAnswers(r) \/ LlmTimesOut(r) \/ LlmRaises(r)
  BY <1>5 DEF LlmAnswers, LlmTimesOut, LlmRaises, Finish, Active, Terminal
<1>6. CASE CommentEnds(r)
  BY <1>6 DEF CommentEnds, Finish, Active, Terminal
<1> QED BY <1>1, <1>2, <1>3, <1>4, <1>5, <1>6 DEF Moving, Proceed

\* And to the changes and the comment: only a step that leaves "llm" uncancelled or the
\* stage "comment" touches them, and only for its own request.
LEMMA MovingDoes ==
  ASSUME ResolverInv, NEW r \in Request, Moving(r)
  PROVE  /\ applied' \subseteq applied \cup {r} /\ commented' \subseteq commented \cup {r}
         /\ \/ UNCHANGED <<applied, commented>>
            \/ stage[r] = "llm" /\ stage'[r] = "comment" /\ r \notin cancelled
            \/ stage[r] = "comment" /\ stage'[r] = "done"
<1>0. r \in DOMAIN stage
  BY DEF ResolverInv, ResolverTypes
<1>1. CASE Resolve(r) \/ Cancel(r) \/ PromptBuilt(r) \/ RenderRaises(r) \/ LlmTimesOut(r) \/ LlmRaises(r)
  BY <1>1 DEF Resolve, Cancel, PromptBuilt, RenderRaises, LlmTimesOut, LlmRaises
<1>2. CASE TaskCancelled(r)
  BY <1>0, <1>2 DEF TaskCancelled, Posted, Finish
<1>3. CASE LlmAnswers(r)
  BY <1>0, <1>3 DEF LlmAnswers, Changes, Finish
<1>4. CASE CommentEnds(r)
  BY <1>0, <1>4 DEF CommentEnds, Posted, Finish
<1> QED BY <1>1, <1>2, <1>3, <1>4 DEF Moving, Proceed

\* Taking a permit and giving it back.
LEMMA HeldMore ==
  ASSUME ResolverInv, NEW r \in Request, r \notin Active, Active' = Active \cup {r}
  PROVE  /\ IsFiniteSet(Active')
         /\ \A s \in Resolver :
              Cardinality(HeldOf(s)') = Cardinality(HeldOf(s)) + (IF s = ResolverOf[r] THEN 1 ELSE 0)
<1>1. IsFiniteSet(Active') /\ IsFiniteSet(Active)
  BY FS_AddElement DEF ResolverInv, ResolverTypes
<1>2. ASSUME NEW s \in Resolver
      PROVE  Cardinality(HeldOf(s)') = Cardinality(HeldOf(s)) + (IF s = ResolverOf[r] THEN 1 ELSE 0)
  <2>1. IsFiniteSet(HeldOf(s)) /\ Cardinality(HeldOf(s)) \in Nat
    BY <1>1, FS_Subset, FS_CardinalityType DEF HeldOf
  <2>2. CASE s = ResolverOf[r]
    <3>1. HeldOf(s)' = HeldOf(s) \cup {r} /\ r \notin HeldOf(s)
      BY <2>2 DEF HeldOf
    <3> QED BY <2>1, <2>2, <3>1, FS_AddElement
  <2>3. CASE s # ResolverOf[r]
    <3>1. HeldOf(s)' = HeldOf(s)
      BY <2>3 DEF HeldOf
    <3> QED BY <2>1, <2>3, <3>1
  <2> QED BY <2>2, <2>3
<1> QED BY <1>1, <1>2

LEMMA HeldLess ==
  ASSUME ResolverInv, NEW r \in Active, Active' = Active \ {r}
  PROVE  /\ IsFiniteSet(Active')
         /\ \A s \in Resolver :
              Cardinality(HeldOf(s)') = Cardinality(HeldOf(s)) - (IF s = ResolverOf[r] THEN 1 ELSE 0)
<1>1. IsFiniteSet(Active') /\ IsFiniteSet(Active)
  BY FS_RemoveElement DEF ResolverInv, ResolverTypes
<1>2. ASSUME NEW s \in Resolver
      PROVE  Cardinality(HeldOf(s)') = Cardinality(HeldOf(s)) - (IF s = ResolverOf[r] THEN 1 ELSE 0)
  <2>1. IsFiniteSet(HeldOf(s)) /\ Cardinality(HeldOf(s)) \in Nat
    BY <1>1, FS_Subset, FS_CardinalityType DEF HeldOf
  <2>2. CASE s = ResolverOf[r]
    <3>1. HeldOf(s)' = HeldOf(s) \ {r} /\ r \in HeldOf(s)
      BY <2>2 DEF HeldOf
    <3> QED BY <2>1, <2>2, <3>1, FS_RemoveElement
  <2>3. CASE s # ResolverOf[r]
    <3>1. HeldOf(s)' = HeldOf(s)
      BY <2>3 DEF HeldOf
    <3> QED BY <2>1, <2>3, <3>1
  <2> QED BY <2>2, <2>3
<1> QED BY <1>1, <1>2

LEMMA ResolverStarts == ResolverInit => ResolverInv
<1> SUFFICES ASSUME ResolverInit PROVE ResolverInv
  OBVIOUS
<1>1. Active = {}
  BY DEF ResolverInit, Active
<1>2. \A s \in Resolver : HeldOf(s) = {} /\ Cardinality(HeldOf(s)) = 0
  BY <1>1, FS_EmptySet DEF HeldOf
<1>3. PermitsReturned
  BY <1>2, PermitsAssumption DEF ResolverInit, PermitsReturned, HeldOf
<1> QED BY <1>1, <1>3, FS_EmptySet, PermitsAssumption
        DEF ResolverInit, ResolverInv, ResolverTypes, Stage, NothingDone

LEMMA MovingStep ==
  ASSUME ResolverInv, NEW r \in Request, Moving(r)
  PROVE  ResolverInv'
<1>0. /\ \A q \in Request : stage[q] \in Stage
      /\ ResolverOf[r] \in Resolver /\ permits \in [Resolver -> Nat] /\ DOMAIN stage = Request
  BY RequestFacts DEF ResolverInv, ResolverTypes
<1>1. ASSUME NEW s \in Stage, stage' = [stage EXCEPT ![r] = s]
      PROVE  /\ stage' \in [Request -> Stage]
             /\ \A q \in Request : stage'[q] = IF q = r THEN s ELSE stage[q]
             /\ s \in {"prompt", "llm", "comment"} => Active' = Active \cup {r}
             /\ s \notin {"prompt", "llm", "comment"} => Active' = Active \ {r}
  <2>1. /\ stage' \in [Request -> Stage]
        /\ \A q \in Request : stage'[q] = IF q = r THEN s ELSE stage[q]
    BY <1>1 DEF ResolverInv, ResolverTypes
  <2> QED BY <2>1 DEF Active
<1>2. DOMAIN result' = Request
  BY MovingEffect DEF ResolverInv, ResolverTypes
<1>3. NothingDone'
  <2> SUFFICES ASSUME NEW q \in Request, stage'[q] \in {"new", "prompt", "llm"}
               PROVE  q \notin applied' \cup commented' /\ result'[q] = "none"
    BY DEF NothingDone
  <2>1. CASE q # r
    <3>1. stage'[q] = stage[q] /\ result'[q] = result[q]
      BY <2>1, <1>0, <1>2, MovingEffect
    <3> QED BY <2>1, <3>1, MovingDoes DEF ResolverInv, NothingDone
  <2>2. CASE q = r
    <3>1. stage[r] \in {"new", "prompt", "llm"} /\ UNCHANGED result
      BY <2>2, <1>0, MovingEffect DEF Active
    <3> QED BY <2>2, <3>1, MovingDoes DEF ResolverInv, NothingDone
  <2> QED BY <2>1, <2>2
<1>4. ASSUME Active' = Active, UNCHANGED permits PROVE PermitsReturned' /\ IsFiniteSet(Active')
  <2>1. \A s : HeldOf(s)' = HeldOf(s)
    BY <1>4 DEF HeldOf
  <2> QED BY <1>4, <2>1 DEF ResolverInv, ResolverTypes, PermitsReturned, HeldOf
<1>5. \A s \in Resolver : /\ permits[s] \in Nat /\ Cardinality(HeldOf(s)) \in Nat
                          /\ permits[s] + Cardinality(HeldOf(s)) = MaxConcurrent
  <2>1. \A s : IsFiniteSet(HeldOf(s))
    BY FS_Subset DEF HeldOf, ResolverInv, ResolverTypes
  <2> QED BY <2>1, <1>0, FS_CardinalityType DEF ResolverInv, PermitsReturned, HeldOf
<1>6. CASE /\ stage[r] = "new" /\ permits[ResolverOf[r]] > 0
           /\ stage' = [stage EXCEPT ![r] = "prompt"]
           /\ permits' = [permits EXCEPT ![ResolverOf[r]] = @ - 1]
           /\ registered' = registered \cup {r} /\ UNCHANGED <<cancelled, result>>
  <2>1. stage' \in [Request -> Stage] /\ Active' = Active \cup {r} /\ r \notin Active
    BY <1>1, <1>6 DEF Stage, Active
  <2>2. /\ permits' \in [Resolver -> Nat]
        /\ \A s \in Resolver : permits'[s] = permits[s] - (IF s = ResolverOf[r] THEN 1 ELSE 0)
    BY <1>0, <1>5, <1>6
  <2>3. IsFiniteSet(Active') /\ PermitsReturned'
    <3>1. \A s \in Resolver : permits'[s] + Cardinality(HeldOf(s)') = MaxConcurrent
      BY <2>1, <2>2, <1>5, HeldMore
    <3> QED BY <3>1, <2>1, HeldMore DEF PermitsReturned, HeldOf
  <2> QED BY <1>2, <1>3, <1>6, <2>1, <2>2, <2>3 DEF ResolverInv, ResolverTypes
<1>7. CASE /\ stage[r] = "new" /\ stage' = [stage EXCEPT ![r] = "done"]
           /\ result' = [result EXCEPT ![r] = "FAILED"]
           /\ UNCHANGED <<permits, registered, cancelled>>
  <2>1. stage' \in [Request -> Stage] /\ Active' = Active
    BY <1>1, <1>7 DEF Stage, Active
  <2> QED BY <1>2, <1>3, <1>4, <1>7, <2>1 DEF ResolverInv, ResolverTypes
<1>8. CASE /\ r \in registered /\ cancelled' = cancelled \cup {r}
           /\ UNCHANGED <<stage, permits, registered, result>>
  <2>1. Active' = Active
    BY <1>8 DEF Active
  <2> QED BY <1>2, <1>3, <1>4, <1>8, <2>1 DEF ResolverInv, ResolverTypes
<1>9. CASE /\ \/ stage[r] = "prompt" /\ stage' = [stage EXCEPT ![r] = "llm"]
              \/ stage[r] = "llm" /\ stage' = [stage EXCEPT ![r] = "comment"]
           /\ UNCHANGED <<permits, registered, cancelled, result>>
  <2>1. stage' \in [Request -> Stage] /\ Active' = Active
    BY <1>1, <1>9 DEF Stage, Active
  <2> QED BY <1>2, <1>3, <1>4, <1>9, <2>1 DEF ResolverInv, ResolverTypes
<1>10. CASE /\ r \in Active /\ stage' = [stage EXCEPT ![r] = "done"]
            /\ permits' = [permits EXCEPT ![ResolverOf[r]] = @ + 1]
            /\ registered' = registered \ {r} /\ cancelled' = cancelled \ {r}
  <2>1. stage' \in [Request -> Stage] /\ Active' = Active \ {r}
    BY <1>1, <1>10 DEF Stage
  <2>2. /\ permits' \in [Resolver -> Nat]
        /\ \A s \in Resolver : permits'[s] = permits[s] + (IF s = ResolverOf[r] THEN 1 ELSE 0)
    BY <1>0, <1>10
  <2>3. IsFiniteSet(Active') /\ PermitsReturned'
    <3>1. \A s \in Resolver : permits'[s] + Cardinality(HeldOf(s)') = MaxConcurrent
      BY <2>1, <2>2, <1>5, <1>10, HeldLess
    <3> QED BY <3>1, <2>1, <1>10, HeldLess DEF PermitsReturned, HeldOf
  <2> QED BY <1>2, <1>3, <1>10, <2>1, <2>2, <2>3 DEF ResolverInv, ResolverTypes
<1> QED BY MovingEffect, <1>6, <1>7, <1>8, <1>9, <1>10

LEMMA ResolverStep ==
  ASSUME IntakeInv, [Next]_vars
  PROVE  (\E r \in Request : Moving(r)) \/ UNCHANGED resolverVars
<1>1. CASE Intake /\ UNCHANGED <<resolverVars, reply>>
  BY <1>1
<1>2. ASSUME NEW d \in Delivery, PlainHandlerEnds(d) \/ HandlerResolves(d) \/ ResolverHandlerEnds(d)
      PROVE  (\E r \in Request : Moving(r)) \/ UNCHANGED resolverVars
  BY <1>2, RequestFacts DEF PlainHandlerEnds, HandlerResolves, ResolverHandlerEnds, Moving
<1>3. ASSUME NEW c \in Command, CommandStarts(c) \/ CommandReplies(c)
      PROVE  (\E r \in Request : Moving(r)) \/ UNCHANGED resolverVars
  BY <1>3, RequestFacts DEF CommandStarts, CommandReplies, Moving
<1>4. CASE ResolverSteps
  BY <1>4, RequestFacts DEF ResolverSteps, Moving
<1>5. CASE UNCHANGED vars
  BY <1>5 DEF vars
<1> QED BY <1>1, <1>2, <1>3, <1>4, <1>5 DEF Next

LEMMA ResolverUnmoved ==
  ASSUME ResolverInv, UNCHANGED resolverVars
  PROVE  ResolverInv'
<1>1. Active' = Active /\ \A s : HeldOf(s)' = HeldOf(s)
  BY DEF resolverVars, Active, HeldOf
<1> QED BY <1>1 DEF resolverVars, ResolverInv, ResolverTypes, NothingDone, PermitsReturned, HeldOf

\* A resolution that was cancelled in time: it has yet to look, or it is over with nothing done.
Obeying(r) ==
    /\ r \notin applied \cup commented
    /\ \/ r \in cancelled /\ stage[r] \in {"prompt", "llm"}
       \/ stage[r] = "done" /\ result[r] # "COMPLETED"

LEMMA ObeyingStep ==
  ASSUME ResolverInv, NEW q \in Request, Obeying(q), NEW r \in Request, Moving(r)
  PROVE  Obeying(q)'
<1>0. DOMAIN stage = Request /\ DOMAIN result = Request
  BY DEF ResolverInv, ResolverTypes
<1>1. CASE q # r
  <2>1. stage'[q] = stage[q] /\ result'[q] = result[q] /\ (q \in cancelled => q \in cancelled')
    BY <1>0, <1>1, MovingEffect
  <2>2. q \notin applied' \cup commented'
    BY <1>1, MovingDoes DEF Obeying
  <2> QED BY <2>1, <2>2 DEF Obeying
<1>2. CASE q = r
  <2>1. stage[r] \in {"prompt", "llm"} /\ r \in cancelled
    BY <1>2, MovingEffect DEF Obeying, Active, ResolverInv, ResolverTypes
  <2>2. r \notin applied' \cup commented'
    BY <1>2, <2>1, MovingDoes DEF Obeying
  <2>3. \/ UNCHANGED stage /\ r \in cancelled'
        \/ stage'[r] = "done" /\ result'[r] # "COMPLETED"
    BY <1>0, <2>1, MovingEffect
  <2> QED BY <1>2, <2>1, <2>2, <2>3 DEF Obeying
<1> QED BY <1>1, <1>2

\* Permits always come back, and a cancellation made before the model's answer has been
\* looked at is obeyed, for any number of resolutions in any order.
THEOREM ResolvesProperly == Spec => ResolutionsKept
<1>1. Init => IntakeInv /\ ResolverInv
  BY IntakeStarts, ResolverStarts DEF Init
<1>2. IntakeInv /\ ResolverInv /\ [Next]_vars => IntakeInv' /\ ResolverInv'
  BY IntakeStep, ResolverStep, MovingStep, ResolverUnmoved
<1>3. ResolverInv => PermitsReturned
  BY DEF ResolverInv
<1>4. ASSUME NEW r \in Request
      PROVE  Spec => [](r \in cancelled /\ stage[r] \in {"prompt", "llm"}
                          => [](r \notin applied \cup commented /\ result[r] # "COMPLETED"))
  <2>1. ResolverInv /\ r \in cancelled /\ stage[r] \in {"prompt", "llm"} => Obeying(r)
    BY DEF ResolverInv, NothingDone, Obeying
  <2>2. IntakeInv /\ ResolverInv /\ Obeying(r) /\ [Next]_vars => Obeying(r)'
    BY ResolverStep, ObeyingStep DEF Obeying, resolverVars
  <2>3. ResolverInv /\ Obeying(r) => r \notin applied \cup commented /\ result[r] # "COMPLETED"
    BY DEF ResolverInv, NothingDone, Obeying
  <2> QED BY <1>1, <1>2, <2>1, <2>2, <2>3, PTL DEF Spec
<1>5. Spec => CancelObeyed
  BY <1>4 DEF CancelObeyed
<1> QED BY <1>1, <1>2, <1>3, <1>5, PTL DEF Spec, ResolutionsKept

-------------------------------------------------------------------------------
(* An agent's run.  While a message's calls are made, those that are still   *)
(* to come have no answer yet, and only the one under way may have one or    *)
(* none.                                                                     *)

Place == {"idle", "session", "top", "think", "reflect", "check", "asking", "execute", "correct",
          "stepped", "closing", "cancelled", "cleanup", "cleanup_raise", "returned", "raised"}
OnCall == agentPc \in {"check", "asking", "execute", "correct"}

AgentTypes ==
    /\ agentState \in {"IDLE", "RUNNING", "FINISHED", "ERROR"} /\ agentPc \in Place
    /\ toolCalls \in Seq(Agent!Kinds) /\ id \in Nat \X Nat /\ attempt \in Nat
    /\ unanswered \subseteq Nat \X Nat

\* The calls that come after the one under way are those without an answer.
RestUnanswered ==
    \A i, a \in Nat :
        <<i, a>> \in unanswered /\ <<i, a>> # id <=>
            a = 1 /\ id[1] < i /\ i < id[1] + Len(toolCalls)

CallsInv ==
    /\ OnCall => toolCalls # <<>> /\ RestUnanswered
    /\ agentPc = "correct" => id \notin unanswered
    /\ agentPc \in {"idle", "session", "top", "think", "reflect", "stepped"} => unanswered = {}

GateInv ==
    /\ agentPc = "asking" => Agent!Call # Agent!Catastrophic
    /\ Agent!ToolsPermitted

OverInv ==
    /\ agentPc \in {"closing", "cleanup", "returned"} => agentState \in {"FINISHED", "ERROR"}
    /\ agentPc \notin {"idle", "raised"} => agentState # "IDLE"
    /\ agentPc = "returned" => cleaned /\ ~logging

AgentInv == AgentTypes /\ CallsInv /\ GateInv /\ OverInv

LEMMA AgentStarts == Agent!AgentInit => AgentInv
<1> SUFFICES ASSUME Agent!AgentInit PROVE AgentInv
  OBVIOUS
<1> USE DEF Agent!AgentInit
<1>1. AgentTypes
  BY EmptySeq DEF AgentTypes, Place
<1> QED BY <1>1 DEF AgentInv, CallsInv, OnCall, GateInv, Agent!ToolsPermitted, OverInv

\* The next call of the message is under way, or there is none.
LEMMA NextCall ==
  ASSUME AgentTypes, toolCalls # <<>>, RestUnanswered, unanswered' = unanswered \ {id},
         toolCalls' = Tail(toolCalls), id' = <<id[1] + 1, 1>>
  PROVE  /\ toolCalls' \in Seq(Agent!Kinds) /\ id' \in Nat \X Nat /\ unanswered' \subseteq Nat \X Nat
         /\ Len(toolCalls) = 1 => unanswered' = {}
         /\ Len(toolCalls) # 1 => toolCalls' # <<>> /\ RestUnanswered'
<1>1. /\ Len(toolCalls) \in Nat \ {0} /\ toolCalls' \in Seq(Agent!Kinds)
      /\ Len(toolCalls') = Len(toolCalls) - 1
  BY HeadTailProperties, LenProperties, EmptySeq DEF AgentTypes
<1>2. id[1] \in Nat /\ id' \in Nat \X Nat /\ id'[1] = id[1] + 1 /\ unanswered' \subseteq Nat \X Nat
  BY DEF AgentTypes
<1>3. \A i, a \in Nat :
        <<i, a>> \in unanswered' <=> a = 1 /\ id[1] < i /\ i < id[1] + Len(toolCalls)
  BY DEF RestUnanswered
<1>4. Len(toolCalls) = 1 => unanswered' = {}
  <2> SUFFICES ASSUME Len(toolCalls) = 1, NEW x \in unanswered' PROVE FALSE
    OBVIOUS
  <2>1. PICK i \in Nat, a \in Nat : x = <<i, a>>
    BY <1>2
  <2> QED BY <1>2, <1>3, <2>1
<1>5. RestUnanswered'
  <2> SUFFICES ASSUME NEW i \in Nat, NEW a \in Nat
               PROVE  <<i, a>> \in unanswered' /\ <<i, a>> # id' <=>
                        a = 1 /\ id'[1] < i /\ i < id'[1] + Len(toolCalls')
    BY DEF RestUnanswered
  <2>1. <<i, a>> = id' <=> i = id[1] + 1 /\ a = 1
    OBVIOUS
  <2> QED BY <1>1, <1>2, <1>3, <2>1
<1>6. Len(toolCalls) # 1 => toolCalls' # <<>>
  <2>1. toolCalls' = <<>> => Len(toolCalls') = 0
    OBVIOUS
  <2> QED BY <1>1, <2>1
<1> QED BY <1>1, <1>2, <1>4, <1>5, <1>6

\* The call under way has its answer and goes on.
LEMMA SameCall ==
  ASSUME RestUnanswered, unanswered' = unanswered \ {id}, UNCHANGED <<toolCalls, id>>
  PROVE  RestUnanswered' /\ id' \notin unanswered'
BY DEF RestUnanswered

LEMMA ThinkStep ==
  ASSUME AgentInv, RepliesAssumption, Agent!Think
  PROVE  AgentInv'
<1>1. CASE Agent!StepRaises
  BY <1>1 DEF Agent!Think, Agent!StepRaises, Agent!Goto, Agent!callVars, Agent!loopVars, Agent!runVars,
              AgentInv, AgentTypes, CallsInv, OnCall, GateInv, Agent!ToolsPermitted, OverInv, Place
<1>2. CASE ~Agent!StepRaises
  <2>1. /\ toolCalls' \in Replies /\ unanswered' = {<<i, 1>> : i \in DOMAIN toolCalls'}
        /\ id' = <<1, 1>> /\ attempt' = 1
        /\ agentPc' = IF toolCalls' = <<>> THEN "stepped" ELSE "check"
        /\ UNCHANGED <<agentState, mode, approved, logging, cleaned>>
        /\ agentPc = "think"
    BY <1>2 DEF Agent!Think, Agent!Goto, Agent!runVars
  <2>2. toolCalls' \in Seq(Agent!Kinds) /\ Len(toolCalls') \in Nat /\ DOMAIN toolCalls' = 1..Len(toolCalls')
    BY <2>1, RepliesAssumption
  <2>3. AgentTypes'
    BY <2>1, <2>2 DEF AgentInv, AgentTypes, Place
  <2>4. \A i, a \in Nat : <<i, a>> \in unanswered' <=> a = 1 /\ i \in 1..Len(toolCalls')
    BY <2>1, <2>2
  <2>5. RestUnanswered'
    <3> SUFFICES ASSUME NEW i \in Nat, NEW a \in Nat
                 PROVE  <<i, a>> \in unanswered' /\ <<i, a>> # id' <=>
                          a = 1 /\ id'[1] < i /\ i < id'[1] + Len(toolCalls')
      BY DEF RestUnanswered
    <3>1. (<<i, a>> = id' <=> i = 1 /\ a = 1) /\ id'[1] = 1
      BY <2>1
    <3> QED BY <2>2, <2>4, <3>1
  <2>6. toolCalls' = <<>> => unanswered' = {}
    BY <2>1
  <2> QED BY <2>1, <2>3, <2>5, <2>6
          DEF AgentInv, CallsInv, OnCall, GateInv, Agent!ToolsPermitted, OverInv
<1> QED BY <1>1, <1>2

\* A call of the message is over: the next one follows, or the step has been made.
CallOver ==
    /\ unanswered' = unanswered \ {id} /\ toolCalls' = Tail(toolCalls) /\ id' = <<id[1] + 1, 1>>
    /\ attempt' = 1 /\ agentPc' = IF Len(toolCalls) = 1 THEN "stepped" ELSE "check"
    /\ agentState' \in {agentState, "FINISHED"}

LEMMA CallOverStep ==
  ASSUME AgentInv, OnCall, CallOver
  PROVE  AgentInv'
<1>1. /\ toolCalls' \in Seq(Agent!Kinds) /\ id' \in Nat \X Nat /\ unanswered' \subseteq Nat \X Nat
      /\ Len(toolCalls) = 1 => unanswered' = {}
      /\ Len(toolCalls) # 1 => toolCalls' # <<>> /\ RestUnanswered'
  BY NextCall DEF AgentInv, CallsInv, CallOver
<1>2. agentPc' \in {"stepped", "check"} /\ (agentPc' = "stepped" <=> Len(toolCalls) = 1)
  BY DEF CallOver
<1>3. agentState # "IDLE"
  BY DEF AgentInv, OverInv, OnCall
<1>4. AgentTypes'
  BY <1>1, <1>2 DEF AgentInv, AgentTypes, CallOver, Place
<1> QED BY <1>1, <1>2, <1>3, <1>4
        DEF CallOver, AgentInv, CallsInv, OnCall, GateInv, Agent!ToolsPermitted, OverInv

\* The call is answered and tried again, or corrected.
CallAgain ==
    /\ unanswered' = unanswered \ {id} /\ UNCHANGED <<agentState, toolCalls, id>>
    /\ attempt' \in Nat /\ agentPc' \in {"check", "correct"}

LEMMA CallAgainStep ==
  ASSUME AgentInv, OnCall, CallAgain
  PROVE  AgentInv'
<1>1. toolCalls' # <<>> /\ RestUnanswered' /\ id' \notin unanswered'
  BY SameCall DEF AgentInv, CallsInv, CallAgain
<1>2. AgentTypes'
  BY DEF AgentInv, AgentTypes, CallAgain, Place
<1> QED BY <1>1, <1>2
        DEF CallAgain, AgentInv, CallsInv, OnCall, GateInv, Agent!ToolsPermitted, OverInv

LEMMA CrashStep ==
  ASSUME AgentInv, OnCall, Agent!Crash
  PROVE  AgentInv'
<1>1. CallOver \/ CallAgain
  <2>1. CASE attempt < ToolRetries
    BY <2>1 DEF Agent!Crash, Agent!Answer, Agent!Goto, CallAgain, AgentInv, AgentTypes
  <2>2. CASE ~(attempt < ToolRetries)
    BY <2>2 DEF Agent!Crash, Agent!Answer, Agent!Goto, CallOver
  <2> QED BY <2>1, <2>2
<1> QED BY <1>1, CallOverStep, CallAgainStep

LEMMA RefusedEffect ==
  ASSUME Agent!Refused
  PROVE  CallOver
BY DEF Agent!Refused, Agent!CallReturns, Agent!Answer, Agent!Goto, CallOver

\* The call has been let through, or the user is asked.
LEMMA LetThroughStep ==
  ASSUME AgentInv, agentPc \in {"check", "asking"}, UNCHANGED <<agentState, attempt, toolCalls, id, unanswered>>,
         agentPc' \in {"asking", "execute"}, Agent!Call # Agent!Catastrophic,
         agentPc' = "execute" /\ mode' = "plan" => Agent!Call \in Agent!Allowed \cup approved'
  PROVE  AgentInv'
<1>1. AgentTypes'
  BY DEF AgentInv, AgentTypes, Place
<1>2. CallsInv'
  BY DEF AgentInv, CallsInv, OnCall, RestUnanswered
<1>3. GateInv'
  BY DEF GateInv, Agent!ToolsPermitted, Agent!Call
<1>4. OverInv'
  BY DEF AgentInv, OverInv
<1> QED BY <1>1, <1>2, <1>3, <1>4 DEF AgentInv

LEMMA CallKind ==
  ASSUME AgentInv, OnCall
  PROVE  Agent!Call \in {Agent!Asking, Agent!Catastrophic, Agent!Unlisted} \cup Agent!Allowed
<1>1. toolCalls \in Seq(Agent!Kinds) /\ toolCalls # <<>>
  BY DEF AgentInv, AgentTypes, CallsInv
<1>2. Head(toolCalls) \in Agent!Kinds
  BY <1>1, HeadTailProperties
<1> QED BY <1>2 DEF Agent!Call, Agent!Kinds

LEMMA CheckStep ==
  ASSUME AgentInv, Agent!Check
  PROVE  AgentInv'
<1>0. OnCall /\ agentPc = "check" /\ UNCHANGED <<mode, approved>>
  BY DEF Agent!Check, OnCall, Agent!runVars
<1>1. CASE Agent!Denied(Agent!Call) /\ Agent!Refused
  BY <1>0, <1>1, RefusedEffect, CallOverStep
<1>2. CASE /\ ~Agent!Denied(Agent!Call) /\ Agent!MustAsk(Agent!Call) /\ mode = "plan"
           /\ Agent!Goto("asking") /\ UNCHANGED <<agentState, attempt, toolCalls, id, unanswered>>
  BY <1>0, <1>2, LetThroughStep DEF Agent!Denied, Agent!Goto
<1>3. CASE /\ ~Agent!Denied(Agent!Call) /\ ~(Agent!MustAsk(Agent!Call) /\ mode = "plan")
           /\ Agent!Goto("execute") /\ UNCHANGED <<agentState, attempt, toolCalls, id, unanswered>>
  <2>1. mode = "plan" => Agent!Call \in Agent!Allowed \cup approved
    BY <1>0, <1>3, CallKind DEF Agent!Denied, Agent!MustAsk
  <2> QED BY <1>0, <1>3, <2>1, LetThroughStep DEF Agent!Denied, Agent!Goto
<1> QED BY <1>1, <1>2, <1>3 DEF Agent!Check

LEMMA UserStep ==
  ASSUME AgentInv, Agent!UserAnswers
  PROVE  AgentInv'
<1>0. OnCall /\ agentPc = "asking" /\ UNCHANGED mode
  BY DEF Agent!UserAnswers, OnCall, Agent!runVars
<1>1. CASE Agent!Refused
  BY <1>0, <1>1, RefusedEffect, CallOverStep
<1>2. CASE /\ approved' = approved \cup {Agent!Call} /\ Agent!Goto("execute")
           /\ UNCHANGED <<agentState, attempt, toolCalls, id, unanswered>>
  BY <1>0, <1>2, LetThroughStep DEF Agent!Goto, AgentInv, GateInv
<1> QED BY <1>1, <1>2 DEF Agent!UserAnswers

LEMMA ExecuteCallStep ==
  ASSUME AgentInv, Agent!Execute
  PROVE  AgentInv'
<1>0. OnCall
  BY DEF Agent!Execute, OnCall
<1>1. CASE Agent!CallReturns(TRUE) /\ Agent!Answer
  <2>1. CallOver
    BY <1>1 DEF Agent!CallReturns, Agent!Answer, Agent!Goto, CallOver
  <2> QED BY <1>0, <2>1, CallOverStep
<1>2. CASE /\ Agent!Answer
           /\ IF attempt < ToolRetries
              THEN Agent!Goto("correct") /\ UNCHANGED <<agentState, attempt, toolCalls, id>>
              ELSE Agent!CallReturns(FALSE)
  <2>1. CallOver \/ CallAgain
    BY <1>2 DEF Agent!CallReturns, Agent!Answer, Agent!Goto, CallOver, CallAgain, AgentInv, AgentTypes
  <2> QED BY <1>0, <2>1, CallOverStep, CallAgainStep
<1>3. CASE Agent!Crash
  BY <1>0, <1>3, CrashStep
<1> QED BY <1>1, <1>2, <1>3 DEF Agent!Execute

LEMMA CorrectStep ==
  ASSUME AgentInv, RepliesAssumption, Agent!Correct
  PROVE  AgentInv'
<1>0. OnCall /\ agentPc = "correct" /\ UNCHANGED mode
  BY DEF Agent!Correct, OnCall, Agent!runVars
<1>1. CASE Agent!CallReturns(FALSE) /\ UNCHANGED unanswered
  <2>1. unanswered = unanswered \ {id}
    BY <1>0 DEF AgentInv, CallsInv
  <2>2. CallOver
    BY <1>1, <2>1 DEF Agent!CallReturns, Agent!Goto, CallOver
  <2> QED BY <1>0, <2>2, CallOverStep
<1>2. ASSUME NEW reply_ \in Replies, reply_ # <<>>,
             toolCalls' = <<Head(reply_)>> \o Tail(toolCalls), attempt' = attempt + 1,
             id' = <<id[1], attempt'>>, unanswered' = unanswered \cup {id'},
             agentPc' = "check", UNCHANGED agentState
      PROVE  AgentInv'
  <2>1. toolCalls \in Seq(Agent!Kinds) /\ toolCalls # <<>> /\ RestUnanswered /\ id \notin unanswered
    BY <1>0 DEF AgentInv, AgentTypes, CallsInv
  <2>2. Head(reply_) \in Agent!Kinds
    BY <1>2, RepliesAssumption, HeadTailProperties
  <2>3. Tail(toolCalls) \in Seq(Agent!Kinds) /\ Len(Tail(toolCalls)) = Len(toolCalls) - 1 /\ Len(toolCalls) \in Nat
    BY <2>1, HeadTailProperties, LenProperties
  <2>4. <<Head(reply_)>> \in Seq(Agent!Kinds) /\ Len(<<Head(reply_)>>) = 1
    BY <2>2
  <2>5. toolCalls' \in Seq(Agent!Kinds) /\ Len(toolCalls') = Len(toolCalls)
    BY <1>2, <2>3, <2>4, ConcatProperties
  <2>6. toolCalls' # <<>>
    BY <2>1, <2>5, EmptySeq
  <2>7. id[1] \in Nat /\ id[2] \in Nat /\ id = <<id[1], id[2]>> /\ attempt' \in Nat /\ id' \in Nat \X Nat
        /\ id'[1] = id[1]
    BY <1>2 DEF AgentInv, AgentTypes
  <2>8. AgentTypes'
    BY <1>2, <2>5, <2>7 DEF AgentInv, AgentTypes, Place
  <2>9. RestUnanswered'
    <3> SUFFICES ASSUME NEW i \in Nat, NEW a \in Nat
                 PROVE  <<i, a>> \in unanswered' /\ <<i, a>> # id' <=>
                          a = 1 /\ id'[1] < i /\ i < id'[1] + Len(toolCalls')
      BY DEF RestUnanswered
    <3>1. <<i, a>> \in unanswered <=> a = 1 /\ id[1] < i /\ i < id[1] + Len(toolCalls)
      BY <2>1 DEF RestUnanswered
    <3>2. <<i, a>> = id' => i = id[1]
      BY <1>2
    <3> QED BY <1>2, <2>5, <2>7, <3>1, <3>2
  <2>10. CallsInv'
    BY <1>2, <2>6, <2>9 DEF CallsInv
  <2>11. GateInv'
    BY <1>2 DEF GateInv, Agent!ToolsPermitted
  <2>12. OverInv'
    BY <1>0, <1>2 DEF AgentInv, OverInv
  <2> QED BY <2>8, <2>10, <2>11, <2>12 DEF AgentInv
<1>3. CASE Agent!Crash
  BY <1>0, <1>3, CrashStep
<1> QED BY <1>1, <1>2, <1>3 DEF Agent!Correct, Agent!Goto

\* Steps outside a message's calls.
LEMMA OutsideStep ==
  ASSUME AgentInv,
         \/ Agent!Start \/ Agent!CreateSession \/ Agent!Top \/ Agent!ReactThink \/ Agent!Reflect
         \/ Agent!StepReturns \/ Agent!Logged \/ Agent!Cancel \/ Agent!CloseSession \/ Agent!Cleanup
         \/ UNCHANGED agentVars
  PROVE  AgentInv'
<1> USE DEF Agent!runVars, Agent!loopVars, Agent!callVars, Agent!Goto, Agent!StepRaises,
            AgentInv, AgentTypes, CallsInv, OnCall, RestUnanswered, GateInv, Agent!ToolsPermitted,
            Agent!Call, OverInv, Place
<1>1. CASE Agent!Start \/ Agent!CreateSession
  BY <1>1 DEF Agent!Start, Agent!CreateSession
<1>2. CASE Agent!Top
  BY <1>2 DEF Agent!Top
<1>3. CASE Agent!ReactThink \/ Agent!Reflect
  BY <1>3 DEF Agent!ReactThink, Agent!Reflect
<1>4. CASE Agent!StepReturns \/ Agent!Logged
  BY <1>4 DEF Agent!StepReturns, Agent!Logged
<1>5. CASE Agent!Cancel \/ Agent!CloseSession \/ Agent!Cleanup
  BY <1>5 DEF Agent!Cancel, Agent!CloseSession, Agent!Cleanup
<1>6. CASE UNCHANGED agentVars
  BY <1>6 DEF agentVars
<1> QED BY <1>1, <1>2, <1>3, <1>4, <1>5, <1>6

LEMMA AgentStep ==
  ASSUME AgentInv, RepliesAssumption, [Agent!AgentNext]_agentVars
  PROVE  AgentInv'
BY ThinkStep, CheckStep, UserStep, ExecuteCallStep, CorrectStep, OutsideStep
   DEF Agent!AgentNext, Agent!Working

LEMMA AgentKeptFollows == AgentInv => AgentKept
BY DEF AgentInv, CallsInv, GateInv, OverInv, AgentKept, Agent!CallsAnswered, Agent!ReturnedIsOver

-------------------------------------------------------------------------------
(* A pipeline of roles.  An event is set with a result in place as long as    *)
(* anybody waits for it, and what is reported is what the tasks came to.      *)

Unfinished == {"waiting", "working", "saving", "failing"}

PipelineTypes ==
    /\ pipeline \in Pipelines
    /\ phase \in {"idle", "running", "closing", "closing_late", "hooks", "returned", "raised"}
    /\ session \in {"none", "open", "finished", "timeout"}
    /\ roleStage \in [Role -> Unfinished \cup {"none", "completed", "unknown", "crashed", "unlogged",
                                               "cancelled"}]
    /\ event \in [Role -> BOOLEAN] /\ results \in [Role -> {"none", "output", "error"}]

\* A set event has its result, as long as one role waits: the timeout, which sets the
\* events of roles without a result, leaves no role waiting.
EventsAgree ==
    /\ \A r \in Role : roleStage[r] \in {"saving", "failing"} => results[r] # "none"
    /\ (\E r \in Role : roleStage[r] = "waiting") =>
           \A d \in Role : event[d] => results[d] # "none"
    /\ \A r \in Role : roleStage[r] = "working" =>
           \A d \in Roles!DepsOf(r) \cap Roles!members : results[d] # "none"

PhaseAgrees ==
    /\ \A r \in Role : roleStage[r] # "none" => r \in Roles!members
    /\ \A r \in Role : roleStage[r] \in Unfinished => phase \in {"running", "raised"}
    /\ phase = "idle" => \A r \in Role : roleStage[r] = "none" /\ ~event[r]
    /\ phase = "closing" \/ session = "finished" => Roles!Gathered
    /\ phase \in {"hooks", "returned"} => session \in {"finished", "timeout"}
    /\ phase = "returned" => hooks = {}

StagesAgree ==
    /\ phase # "raised" => stages \subseteq Roles!members \X {"completed"}
    /\ \A r \in Role : roleStage[r] = "completed" => <<r, "completed">> \in stages

PipelineInv == PipelineTypes /\ EventsAgree /\ PhaseAgrees /\ StagesAgree

LEMMA PipelineStarts == Roles!PipelineInit => PipelineInv
BY DEF Roles!PipelineInit, PipelineInv, PipelineTypes, EventsAgree, PhaseAgrees, StagesAgree,
       Unfinished

\* The pipeline's own definition stays.
LEMMA SameMembers ==
  ASSUME UNCHANGED pipeline
  PROVE  Roles!members' = Roles!members /\ \A r : Roles!DepsOf(r)' = Roles!DepsOf(r)
BY DEF Roles!members, Roles!DepsOf

LEMMA MembersAreRoles ==
  ASSUME PipelinesAssumption, PipelineInv
  PROVE  Roles!members \subseteq Role
BY DEF PipelineInv, PipelineTypes, PipelinesAssumption, Roles!members

LEMMA RunPipelineStep ==
  ASSUME PipelineInv, PipelinesAssumption, Roles!RunPipeline
  PROVE  PipelineInv'
<1> USE DEF PipelineInv, PipelineTypes, PhaseAgrees, Unfinished
<1>1. UNCHANGED <<pipeline, event, results, stages, hooks>> /\ phase = "idle"
  BY DEF Roles!RunPipeline
<1>2. \A r \in Role : roleStage[r] = "none" /\ ~event[r]
  BY <1>1
<1>3. \/ phase' = "raised" /\ UNCHANGED roleStage
      \/ /\ phase' = "running"
         /\ roleStage' = [r \in Role |-> IF r \in Roles!members THEN "waiting" ELSE "none"]
  BY DEF Roles!RunPipeline
<1>4. session' \in {session, "open"}
  BY DEF Roles!RunPipeline
<1>5. PipelineTypes'
  BY <1>1, <1>3, <1>4
<1>6. EventsAgree'
  BY <1>1, <1>2, <1>3 DEF EventsAgree
<1>7. PhaseAgrees'
  <2>1. session' = "finished" => \A r \in Roles!members : FALSE
    BY <1>2, <1>4, MembersAreRoles DEF Roles!Gathered
  <2> QED BY <1>1, <1>2, <1>3, <2>1, SameMembers DEF Roles!Gathered
<1>8. StagesAgree'
  BY <1>1, <1>2, <1>3, SameMembers DEF StagesAgree
<1> QED BY <1>5, <1>6, <1>7, <1>8

\* One role's task goes from one stage to another, a gathering that fails raises.
Advances(r, s) ==
    /\ roleStage[r] \in Unfinished
    /\ s \in {"working", "saving", "failing", "completed", "unknown", "crashed", "unlogged"}
    /\ roleStage' = [roleStage EXCEPT ![r] = s]
    /\ phase' \in {phase, "raised"}
    /\ UNCHANGED <<pipeline, session>>

LEMMA RoleMoves ==
  ASSUME PipelineInv, NEW r \in Role, NEW s, Advances(r, s)
  PROVE  /\ PhaseAgrees'
         /\ \A q \in Role : roleStage'[q] = IF q = r THEN s ELSE roleStage[q]
<1> USE DEF PipelineInv, PipelineTypes, PhaseAgrees, Unfinished, Advances
<1>1. \A q \in Role : roleStage'[q] = IF q = r THEN s ELSE roleStage[q]
  OBVIOUS
<1>2. r \in Roles!members /\ phase \in {"running", "raised"}
  OBVIOUS
<1>3. session' # "finished"
  BY <1>2 DEF Roles!Gathered
<1> QED BY <1>1, <1>2, <1>3, SameMembers DEF Roles!Gathered

LEMMA BeginRoleStep ==
  ASSUME PipelineInv, PipelinesAssumption, NEW r \in Role, Roles!Begin(r)
  PROVE  PipelineInv'
<1>1. /\ roleStage[r] = "waiting" /\ Roles!Ready(r) /\ UNCHANGED <<pipeline, session, event, results, stages>>
      /\ \/ roleStage' = [roleStage EXCEPT ![r] = "working"] /\ UNCHANGED phase
         \/ /\ roleStage' = [roleStage EXCEPT ![r] = "unknown"]
            /\ phase' = IF phase = "running" THEN "raised" ELSE phase
  BY DEF Roles!Begin, Roles!TaskRaises
<1>2. phase \in {"running", "raised"}
  BY <1>1 DEF PipelineInv, PhaseAgrees, Unfinished
<1>3. PICK s \in {"working", "unknown"} :
        roleStage' = [roleStage EXCEPT ![r] = s] /\ (phase' = phase \/ phase' = "raised")
        /\ (s = "unknown" => phase' = "raised")
  BY <1>1, <1>2
<1>4. PhaseAgrees' /\ \A q \in Role : roleStage'[q] = IF q = r THEN s ELSE roleStage[q]
  <2>1. Advances(r, s)
    BY <1>1, <1>3 DEF Advances, Unfinished
  <2> QED BY <2>1, RoleMoves
<1>5. PipelineTypes'
  BY <1>1, <1>2, <1>3 DEF PipelineInv, PipelineTypes, Unfinished
<1>6. EventsAgree'
  <2>1. \A d \in Roles!DepsOf(r) \cap Roles!members : results[d] # "none"
    BY <1>1, MembersAreRoles DEF PipelineInv, EventsAgree, Roles!Ready
  <2> QED BY <1>1, <1>3, <1>4, <2>1, SameMembers DEF PipelineInv, EventsAgree
<1>7. StagesAgree'
  BY <1>1, <1>3, <1>4, SameMembers DEF PipelineInv, StagesAgree
<1> QED BY <1>4, <1>5, <1>6, <1>7 DEF PipelineInv

LEMMA RoleEndsStep ==
  ASSUME PipelineInv, PipelinesAssumption, NEW r \in Role, Roles!RoleEnds(r)
  PROVE  PipelineInv'
<1>1. PICK s \in {"saving", "failing"}, v \in {"output", "error"} :
        /\ roleStage[r] = "working" /\ roleStage' = [roleStage EXCEPT ![r] = s]
        /\ results' = [results EXCEPT ![r] = v]
        /\ UNCHANGED <<pipeline, phase, session, event, stages, hooks>>
  BY DEF Roles!RoleEnds
<1>2. PhaseAgrees' /\ \A q \in Role : roleStage'[q] = IF q = r THEN s ELSE roleStage[q]
  <2>1. Advances(r, s)
    BY <1>1 DEF Advances, Unfinished
  <2> QED BY <2>1, RoleMoves
<1>3. \A q \in Role : results'[q] = IF q = r THEN v ELSE results[q]
  BY <1>1 DEF PipelineInv, PipelineTypes
<1>4. PipelineTypes'
  BY <1>1 DEF PipelineInv, PipelineTypes, Unfinished
<1>5. EventsAgree'
  BY <1>1, <1>2, <1>3, SameMembers, MembersAreRoles DEF PipelineInv, EventsAgree
<1>6. StagesAgree'
  BY <1>1, <1>2, SameMembers DEF PipelineInv, StagesAgree
<1> QED BY <1>2, <1>4, <1>5, <1>6 DEF PipelineInv

LEMMA SavedStep ==
  ASSUME PipelineInv, PipelinesAssumption, NEW r \in Role, Roles!Saved(r)
  PROVE  PipelineInv'
<1>1. /\ roleStage[r] = "saving" /\ results[r] # "none" /\ UNCHANGED <<pipeline, phase, session>>
      /\ r \in Roles!members
      /\ \/ /\ roleStage' = [roleStage EXCEPT ![r] = "completed"]
            /\ stages' = stages \cup {<<r, "completed">>}
            /\ event' = [event EXCEPT ![r] = TRUE] /\ UNCHANGED results
         \/ /\ roleStage' = [roleStage EXCEPT ![r] = "failing"]
            /\ results' = [results EXCEPT ![r] = "error"] /\ UNCHANGED <<stages, event>>
  BY DEF Roles!Saved, PipelineInv, EventsAgree, PhaseAgrees
<1>2. PICK s \in {"completed", "failing"} :
        /\ roleStage' = [roleStage EXCEPT ![r] = s]
        /\ s = "completed" => <<r, "completed">> \in stages'
  BY <1>1
<1>3. PhaseAgrees' /\ \A q \in Role : roleStage'[q] = IF q = r THEN s ELSE roleStage[q]
  <2>1. Advances(r, s)
    BY <1>1, <1>2 DEF Advances, Unfinished
  <2> QED BY <2>1, RoleMoves
<1>4. \A q \in Role : /\ results[q] # "none" => results'[q] # "none"
                      /\ event'[q] => event[q] \/ q = r
  BY <1>1 DEF PipelineInv, PipelineTypes
<1>5. results'[r] # "none"
  BY <1>1 DEF PipelineInv, PipelineTypes
<1>6. PipelineTypes'
  BY <1>1, <1>2 DEF PipelineInv, PipelineTypes, Unfinished
<1>7. EventsAgree'
  BY <1>1, <1>2, <1>3, <1>4, <1>5, SameMembers, MembersAreRoles DEF PipelineInv, EventsAgree
<1>8. StagesAgree'
  BY <1>1, <1>2, <1>3, SameMembers DEF PipelineInv, StagesAgree
<1> QED BY <1>3, <1>6, <1>7, <1>8 DEF PipelineInv

LEMMA FailedStep ==
  ASSUME PipelineInv, PipelinesAssumption, NEW r \in Role, Roles!Failed(r)
  PROVE  PipelineInv'
<1>1. /\ roleStage[r] = "failing" /\ results[r] # "none" /\ phase \in {"running", "raised"}
      /\ event' = [event EXCEPT ![r] = TRUE] /\ UNCHANGED <<pipeline, session, results, hooks>>
  BY DEF Roles!Failed, PipelineInv, EventsAgree, PhaseAgrees, Unfinished
<1>2. PICK s \in {"crashed", "unlogged"} : roleStage' = [roleStage EXCEPT ![r] = s]
  BY DEF Roles!Failed, Roles!TaskRaises
<1>3. phase' = "raised" /\ stages \subseteq stages'
  BY <1>1 DEF Roles!Failed, Roles!TaskRaises
<1>4. PhaseAgrees' /\ \A q \in Role : roleStage'[q] = IF q = r THEN s ELSE roleStage[q]
  <2>1. Advances(r, s)
    BY <1>1, <1>2, <1>3 DEF Advances, Unfinished
  <2> QED BY <2>1, RoleMoves
<1>5. \A q \in Role : event'[q] => event[q] \/ q = r
  BY <1>1 DEF PipelineInv, PipelineTypes
<1>6. PipelineTypes'
  BY <1>1, <1>2, <1>3 DEF PipelineInv, PipelineTypes, Unfinished
<1>7. EventsAgree'
  BY <1>1, <1>2, <1>4, <1>5, SameMembers, MembersAreRoles DEF PipelineInv, EventsAgree
<1>8. StagesAgree'
  BY <1>2, <1>3, <1>4 DEF PipelineInv, StagesAgree
<1> QED BY <1>4, <1>6, <1>7, <1>8 DEF PipelineInv

LEMMA TimeoutPipelineStep ==
  ASSUME PipelineInv, PipelinesAssumption, Roles!Timeout
  PROVE  PipelineInv'
<1>1. /\ phase = "running" /\ phase' = "closing_late" /\ UNCHANGED <<pipeline, session, results, stages, hooks>>
      /\ roleStage' = [r \in Role |-> IF roleStage[r] \in Unfinished THEN "cancelled" ELSE roleStage[r]]
      /\ event' = [r \in Role |-> event[r] \/ roleStage[r] \in {"working", "saving", "failing"}]
  BY DEF Roles!Timeout, Unfinished
<1>2. \A r \in Role : roleStage'[r] = IF roleStage[r] \in Unfinished THEN "cancelled" ELSE roleStage[r]
  BY <1>1
<1>3. \A r \in Role : roleStage'[r] \notin Unfinished
  BY <1>2 DEF Unfinished
<1>4. PipelineTypes'
  BY <1>1 DEF PipelineInv, PipelineTypes, Unfinished
<1>5. EventsAgree'
  BY <1>3 DEF EventsAgree, Unfinished
<1>6. PhaseAgrees'
  <2>1. session = "finished" => Roles!Gathered'
    BY <1>1, <1>2, SameMembers, MembersAreRoles DEF PipelineInv, PhaseAgrees, Roles!Gathered, Unfinished
  <2> QED BY <1>1, <1>2, <1>3, <2>1, SameMembers DEF PipelineInv, PhaseAgrees, Unfinished
<1>7. StagesAgree'
  BY <1>1, <1>2, SameMembers DEF PipelineInv, StagesAgree, Unfinished
<1> QED BY <1>4, <1>5, <1>6, <1>7 DEF PipelineInv

LEMMA OrchestratorStep ==
  ASSUME PipelineInv, PipelinesAssumption,
         \/ Roles!AllDone \/ Roles!CloseSession \/ Roles!Return \/ Roles!HookEnds
         \/ UNCHANGED pipelineVars
  PROVE  PipelineInv'
<1>1. UNCHANGED <<pipeline, roleStage, event, results, stages>>
  BY DEF Roles!AllDone, Roles!CloseSession, Roles!Return, Roles!HookEnds, pipelineVars
<1>2. Roles!Gathered' = Roles!Gathered
  BY <1>1, SameMembers DEF Roles!Gathered
<1>3. EventsAgree'
  BY <1>1, SameMembers DEF PipelineInv, EventsAgree
<1>4. CASE Roles!AllDone
  <2>1. \A r \in Role : roleStage[r] \notin Unfinished
    BY <1>4 DEF Roles!AllDone, Roles!Gathered, PipelineInv, PhaseAgrees, Unfinished
  <2>2. PhaseAgrees'
    BY <1>1, <1>2, <1>4, <2>1, SameMembers DEF Roles!AllDone, PipelineInv, PhaseAgrees
  <2> QED BY <1>1, <1>3, <1>4, <2>2, SameMembers DEF Roles!AllDone, PipelineInv, PipelineTypes, StagesAgree
<1>5. CASE Roles!CloseSession
  <2>1. \A r \in Role : roleStage[r] \notin Unfinished
    BY <1>5 DEF Roles!CloseSession, PipelineInv, PhaseAgrees
  <2>2. PhaseAgrees'
    BY <1>1, <1>2, <1>5, <2>1, SameMembers DEF Roles!CloseSession, PipelineInv, PhaseAgrees
  <2> QED BY <1>1, <1>3, <1>5, <2>2, SameMembers DEF Roles!CloseSession, PipelineInv, PipelineTypes, StagesAgree
<1>6. CASE Roles!Return
  <2>1. PhaseAgrees'
    BY <1>1, <1>2, <1>6, SameMembers DEF Roles!Return, PipelineInv, PhaseAgrees
  <2> QED BY <1>1, <1>3, <1>6, <2>1, SameMembers DEF Roles!Return, PipelineInv, PipelineTypes, StagesAgree
<1>7. CASE Roles!HookEnds \/ UNCHANGED pipelineVars
  <2>1. UNCHANGED <<phase, session>> /\ hooks' \subseteq hooks
    BY <1>7 DEF Roles!HookEnds, pipelineVars
  <2>2. PhaseAgrees'
    BY <1>1, <1>2, <2>1, SameMembers DEF PipelineInv, PhaseAgrees
  <2> QED BY <1>1, <1>3, <2>1, <2>2, SameMembers DEF PipelineInv, PipelineTypes, StagesAgree
<1> QED BY <1>4, <1>5, <1>6, <1>7

LEMMA PipelineStep ==
  ASSUME PipelineInv, PipelinesAssumption, [Roles!PipelineNext]_pipelineVars
  PROVE  PipelineInv'
BY RunPipelineStep, BeginRoleStep, RoleEndsStep, SavedStep, FailedStep, TimeoutPipelineStep, OrchestratorStep
   DEF Roles!PipelineNext, Roles!Orchestrates, Roles!RoleStep

LEMMA PipelineKeptFollows ==
  ASSUME PipelineInv, PipelinesAssumption
  PROVE  Roles!PipelineKept
<1>1. \A r \in Role : roleStage[r] = "working" =>
        \A d \in Roles!DepsOf(r) \cap Roles!members : results[d] # "none"
  BY DEF PipelineInv, EventsAgree
<1>2. ASSUME phase = "returned"
      PROVE  /\ hooks = {} /\ stages \subseteq Roles!members \X {"completed"}
             /\ session \in {"finished", "timeout"}
             /\ session = "finished" => Roles!members \X {"completed"} \subseteq stages
  <2>1. hooks = {} /\ stages \subseteq Roles!members \X {"completed"} /\ session \in {"finished", "timeout"}
    BY <1>2 DEF PipelineInv, PhaseAgrees, StagesAgree
  <2>2. ASSUME session = "finished", NEW r \in Roles!members PROVE <<r, "completed">> \in stages
    BY <2>2, MembersAreRoles DEF PipelineInv, PhaseAgrees, StagesAgree, Roles!Gathered
  <2> QED BY <2>1, <2>2
<1> QED BY <1>1, <1>2 DEF Roles!PipelineKept

-------------------------------------------------------------------------------
(* A plan of steps.  The steps of the plan are numbered from zero through     *)
(* every replan, the records are those of its first steps, and how many there *)
(* are follows from where run_full() is.                                      *)

PlanStep == [id : Nat, status : {"pending", "in_progress", "completed", "blocked"},
             criteria : BOOLEAN, wants : Flow!Agents]
StepRecord == [id : Nat, status : {"completed", "blocked"}]

FlowTypes ==
    /\ flowPc \in {"idle", "step", "run", "retry", "replan", "cleanup", "cleanup_raise",
                   "returned", "raised"}
    /\ plan \in Seq(PlanStep) /\ idx \in Nat \ {0} /\ flow \in Seq(StepRecord)
    /\ cache \in [Flow!Agents -> {"none", "idle", "used"}] /\ flowLate \in BOOLEAN

RecordsMatch ==
    /\ \A i \in 1..Len(plan) : plan[i].id = i - 1
    /\ Len(flow) <= Len(plan)
    /\ \A i \in 1..Len(flow) : flow[i].id = plan[i].id /\ flow[i].status = plan[i].status

RecordsReach ==
    /\ flowPc = "idle" => idx = 1 /\ Len(flow) = 0
    /\ flowPc \in {"step", "run", "retry"} => Len(flow) = idx - 1
    /\ flowPc \in {"run", "retry"} => idx <= Len(plan)
    /\ flowPc = "replan" => Len(flow) = idx /\ idx < Len(plan)
    /\ flowPc \in {"cleanup", "returned"} /\ ~flowLate => Len(flow) = Len(plan)
    /\ flowPc = "returned" => \A a \in Flow!Agents : cache[a] = "none"

FlowInv == FlowTypes /\ RecordsMatch /\ RecordsReach

LEMMA FlowStarts == Flow!FlowInit => FlowInv
<1> SUFFICES ASSUME Flow!FlowInit PROVE FlowInv
  OBVIOUS
<1>1. /\ flowPc = "idle" /\ plan = <<>> /\ flow = <<>> /\ idx = 1 /\ flowLate = FALSE
      /\ cache = [a \in Flow!Agents |-> "none"]
  BY DEF Flow!FlowInit
<1>2. /\ plan \in Seq(PlanStep) /\ flow \in Seq(StepRecord) /\ Len(plan) = 0 /\ Len(flow) = 0
  BY <1>1, EmptySeq
<1>3. idx \in Nat \ {0}
  BY <1>1
<1>4. flowLate \in BOOLEAN
  BY <1>1
<1>5. cache \in [Flow!Agents -> {"none", "idle", "used"}]
  BY <1>1
<1>6. FlowTypes
  BY <1>1, <1>2, <1>3, <1>4, <1>5 DEF FlowTypes
<1> QED BY <1>1, <1>2, <1>6 DEF FlowInv, RecordsMatch, RecordsReach

\* What the model's answer is parsed into: pending steps, numbered from zero.
LEMMA ParsedPlans ==
  ASSUME NEW room \in Int, NEW p \in Flow!Plans(room)
  PROVE  p \in Seq(PlanStep) /\ \A i \in 1..Len(p) : p[i].id = i - 1
<1>1. PICK n \in 1..room :
        \E s \in [1..n -> [criteria : BOOLEAN, wants : Flow!Agents]] : p = Flow!Parsed(s)
  BY DEF Flow!Plans
<1>a. PICK s \in [1..n -> [criteria : BOOLEAN, wants : Flow!Agents]] : p = Flow!Parsed(s)
  BY <1>1
<1>2. p = [i \in 1..n |-> [id |-> i - 1, status |-> "pending",
                           criteria |-> s[i].criteria, wants |-> s[i].wants]]
  BY <1>a DEF Flow!Parsed
<1>3. n \in Nat /\ \A i \in 1..n : p[i] \in PlanStep
  BY <1>2 DEF PlanStep
<1>4. p \in Seq(PlanStep) /\ Len(p) = n
  BY <1>2, <1>3, SeqDef
<1> QED BY <1>2, <1>4

\* The rest of a plan is taken off after its first k steps and a new one put in its place.
Replaced(q, p, k, n) == q = SubSeq(p, 1, k) \o Flow!Renumbered(n, k)

LEMMA ReplacedRest ==
  ASSUME NEW p \in Seq(PlanStep), NEW k \in 1..Len(p), NEW n \in Seq(PlanStep),
         \A i \in 1..Len(p) : p[i].id = i - 1,
         \A i \in 1..Len(n) : n[i].id = i - 1,
         NEW q, Replaced(q, p, k, n)
  PROVE  /\ q \in Seq(PlanStep) /\ Len(q) >= k
         /\ \A i \in 1..k : q[i] = p[i]
         /\ \A i \in 1..Len(q) : q[i].id = i - 1
<1> DEFINE h == SubSeq(p, 1, k)
           t == Flow!Renumbered(n, k)
<1>1. h \in Seq(PlanStep) /\ Len(h) = k /\ \A i \in 1..k : h[i] = p[i]
  BY SubSeqProperties
<1>2. t = [i \in 1..Len(n) |-> [n[i] EXCEPT !.id = @ + k]]
  BY DEF Flow!Renumbered
<1>3. \A i \in 1..Len(n) : n[i] \in PlanStep
  OBVIOUS
<1>4. ASSUME NEW i \in 1..Len(n) PROVE t[i] \in PlanStep /\ t[i].id = i - 1 + k
  <2>1. t[i] = [n[i] EXCEPT !.id = n[i].id + k] /\ n[i] \in PlanStep /\ n[i].id = i - 1
    BY <1>2, <1>3
  <2>2. n[i].id + k \in Nat /\ n[i].id + k = i - 1 + k
    BY <2>1
  <2> HIDE DEF t
  <2> QED BY <2>1, <2>2 DEF PlanStep
<1>5. t \in Seq(PlanStep) /\ Len(t) = Len(n)
  BY <1>2, <1>4, SeqDef
<1> HIDE DEF h, t
<1>6. q = h \o t
  BY DEF h, t, Replaced
<1>7. /\ q \in Seq(PlanStep) /\ Len(q) = k + Len(n) /\ Len(n) \in Nat
      /\ \A i \in 1..k + Len(n) : q[i] = IF i <= k THEN h[i] ELSE t[i - k]
  <2>1. /\ h \o t \in Seq(PlanStep) /\ Len(h \o t) = Len(h) + Len(t)
        /\ \A i \in 1..Len(h) + Len(t) : (h \o t)[i] = IF i <= Len(h) THEN h[i] ELSE t[i - Len(h)]
    <3>1. h \in Seq(PlanStep) /\ t \in Seq(PlanStep)
      BY <1>1, <1>5
    <3> QED BY <3>1, ConcatProperties
  <2>2. Len(h) = k /\ Len(t) = Len(n) /\ Len(n) \in Nat
    BY <1>1, <1>5
  <2> QED BY <1>6, <2>1, <2>2
<1>8. ASSUME NEW i \in 1..Len(q) PROVE q[i].id = i - 1
  <2>1. CASE i <= k
    <3>1. i \in 1..k /\ i \in 1..Len(p) /\ i \in 1..k + Len(n)
      BY <1>7, <2>1
    <3> QED BY <1>1, <1>7, <2>1, <3>1
  <2>2. CASE i > k
    <3>1. i - k \in 1..Len(n) /\ i \in 1..k + Len(n)
      BY <1>7, <2>2
    <3>2. q[i] = t[i - k] /\ t[i - k].id = i - k - 1 + k
      BY <1>4, <1>7, <2>2, <3>1
    <3> QED BY <1>7, <3>1, <3>2
  <2> QED BY <2>1, <2>2
<1>9. \A i \in 1..k : q[i] = h[i]
  BY <1>7
<1>10. Len(q) >= k
  BY <1>7
<1> QED BY <1>1, <1>7, <1>8, <1>9, <1>10

\* A step of the plan takes a status.
Marked(s) == plan' = [plan EXCEPT ![idx].status = s]

LEMMA TakesStatus ==
  ASSUME FlowInv, idx <= Len(plan), NEW s \in {"in_progress", "completed", "blocked"}, Marked(s)
  PROVE  /\ plan' \in Seq(PlanStep) /\ Len(plan') = Len(plan)
         /\ plan'[idx].status = s
         /\ \A i \in 1..Len(plan) : plan'[i].id = i - 1 /\ (i # idx => plan'[i] = plan[i])
<1>1. \A i \in 1..Len(plan) : plan[i] \in PlanStep /\ plan[i].id = i - 1
  BY DEF FlowInv, FlowTypes, RecordsMatch
<1>2. idx \in 1..Len(plan) /\ plan \in Seq(PlanStep)
  BY DEF FlowInv, FlowTypes
<1>3. plan' = [plan EXCEPT ![idx] = [plan[idx] EXCEPT !.status = s]]
  BY DEF Marked
<1>4. [plan[idx] EXCEPT !.status = s] \in PlanStep
  BY <1>1, <1>2 DEF PlanStep
<1>5. [plan[idx] EXCEPT !.status = s].status = s /\ [plan[idx] EXCEPT !.status = s].id = idx - 1
  BY <1>1, <1>2 DEF PlanStep
<1>6. plan' \in Seq(PlanStep) /\ Len(plan') = Len(plan)
      /\ \A i \in 1..Len(plan) : plan'[i] = IF i = idx THEN [plan[idx] EXCEPT !.status = s] ELSE plan[i]
  BY <1>2, <1>3, <1>4, ExceptSeq
<1> QED BY <1>1, <1>2, <1>5, <1>6

\* A step is recorded with the status it takes.
LEMMA SettlesWell ==
  ASSUME FlowInv, flowPc \in {"run", "retry"}, NEW s \in {"completed", "blocked"},
         NEW low \in BOOLEAN, Flow!Settle(s, low), UNCHANGED flowLate,
         cache' \in [Flow!Agents -> {"none", "idle", "used"}]
  PROVE  FlowInv'
<1>1. idx \in 1..Len(plan) /\ Len(flow) = idx - 1 /\ flow \in Seq(StepRecord)
  BY DEF FlowInv, FlowTypes, RecordsReach
<1>2. /\ Marked(s)
      /\ flow' = Append(flow, [id |-> plan[idx].id, status |-> s])
      /\ \/ flowPc' = "replan" /\ idx' = idx /\ idx < Len(plan)
         \/ flowPc' = "step" /\ idx' = idx + 1
  BY DEF Flow!Settle, Marked
<1>3. /\ plan' \in Seq(PlanStep) /\ Len(plan') = Len(plan) /\ plan'[idx].status = s
      /\ \A i \in 1..Len(plan) : plan'[i].id = i - 1 /\ (i # idx => plan'[i] = plan[i])
  <2>1. idx <= Len(plan) /\ s \in {"in_progress", "completed", "blocked"}
    BY <1>1
  <2> QED BY <1>2, <2>1, TakesStatus
<1>4. plan[idx].id = idx - 1
  BY <1>1 DEF FlowInv, RecordsMatch
<1>5. [id |-> plan[idx].id, status |-> s] \in StepRecord
  BY <1>1, <1>4 DEF StepRecord
<1>6. /\ flow' \in Seq(StepRecord) /\ Len(flow') = idx
      /\ \A i \in 1..idx - 1 : flow'[i] = flow[i]
      /\ flow'[idx].id = idx - 1 /\ flow'[idx].status = s
  BY <1>1, <1>2, <1>4, <1>5, AppendProperties
<1>7. FlowTypes'
  BY <1>1, <1>2, <1>3, <1>6 DEF FlowInv, FlowTypes
<1>8. RecordsMatch'
  <2>1. ASSUME NEW i \in 1..idx PROVE flow'[i].id = plan'[i].id /\ flow'[i].status = plan'[i].status
    <3>1. CASE i = idx
      BY <1>3, <1>4, <1>6, <3>1, <1>1
    <3>2. CASE i # idx
      <4>1. i \in 1..Len(flow) /\ i \in 1..idx - 1 /\ i \in 1..Len(plan)
        BY <1>1, <3>2
      <4>2. plan'[i] = plan[i] /\ flow'[i] = flow[i]
        BY <1>3, <1>6, <3>2, <4>1
      <4> QED BY <4>1, <4>2 DEF FlowInv, RecordsMatch
    <3> QED BY <3>1, <3>2
  <2> QED BY <1>1, <1>3, <1>6, <2>1 DEF RecordsMatch
<1>9. RecordsReach'
  BY <1>1, <1>2, <1>3, <1>6 DEF RecordsReach
<1> QED BY <1>7, <1>8, <1>9 DEF FlowInv

LEMMA CreatePlanStep ==
  ASSUME FlowInv, PlanAssumption, Flow!CreatePlan
  PROVE  FlowInv'
<1>1. /\ flowPc = "idle" /\ UNCHANGED <<idx, flow, cache, flowLate>>
      /\ \/ flowPc' = "step" /\ plan' \in Flow!Plans(MaxPlan)
         \/ flowPc' = "raised" /\ UNCHANGED plan
  BY DEF Flow!CreatePlan
<1>2. plan' \in Seq(PlanStep) /\ \A i \in 1..Len(plan') : plan'[i].id = i - 1
  BY <1>1, ParsedPlans DEF PlanAssumption, FlowInv, FlowTypes, RecordsMatch
<1>3. Len(flow) = 0 /\ idx = 1
  BY <1>1 DEF FlowInv, RecordsReach
<1> QED BY <1>1, <1>2, <1>3 DEF FlowInv, FlowTypes, RecordsMatch, RecordsReach

LEMMA NextPlanStep ==
  ASSUME FlowInv, Flow!NextStep
  PROVE  FlowInv'
<1>1. /\ flowPc = "step" /\ UNCHANGED <<idx, flow, flowLate>> /\ Len(flow) = idx - 1
      /\ idx \in Nat \ {0} /\ Len(plan) \in Nat /\ Len(flow) <= Len(plan)
  BY DEF Flow!NextStep, FlowInv, FlowTypes, RecordsReach, RecordsMatch
<1>2. CASE idx > Len(plan)
  <2>1. flowPc' = "cleanup" /\ UNCHANGED <<plan, cache>>
    BY <1>2 DEF Flow!NextStep
  <2> QED BY <1>1, <1>2, <2>1 DEF FlowInv, FlowTypes, RecordsMatch, RecordsReach
<1>3. CASE ~(idx > Len(plan))
  <2>1. /\ flowPc' = "run" /\ Marked("in_progress")
        /\ cache' = Flow!Selected(plan[idx].wants) /\ idx <= Len(plan)
    BY <1>1, <1>3 DEF Flow!NextStep, Marked
  <2>2. /\ plan' \in Seq(PlanStep) /\ Len(plan') = Len(plan)
        /\ \A i \in 1..Len(plan) : plan'[i].id = i - 1 /\ (i # idx => plan'[i] = plan[i])
    BY <2>1, TakesStatus
  <2>3. cache' \in [Flow!Agents -> {"none", "idle", "used"}]
    BY <2>1 DEF Flow!Selected, FlowInv, FlowTypes
  <2>4. RecordsMatch'
    <3>1. ASSUME NEW i \in 1..Len(flow) PROVE plan'[i] = plan[i]
      BY <1>1, <2>2
    <3> QED BY <1>1, <2>2, <3>1 DEF FlowInv, RecordsMatch
  <2> QED BY <1>1, <2>1, <2>2, <2>3, <2>4 DEF FlowInv, FlowTypes, RecordsReach
<1> QED BY <1>2, <1>3

LEMMA ReplanStep ==
  ASSUME FlowInv, PlanAssumption, Flow!Replan
  PROVE  FlowInv'
<1>1. /\ flowPc = "replan" /\ UNCHANGED <<flow, cache, flowLate>>
      /\ Len(flow) = idx /\ idx \in 1..Len(plan)
  BY DEF Flow!Replan, FlowInv, FlowTypes, RecordsReach
<1>2. CASE flowPc' = "cleanup_raise" /\ UNCHANGED <<plan, idx>>
  BY <1>1, <1>2 DEF FlowInv, FlowTypes, RecordsMatch, RecordsReach
<1>3. ASSUME NEW n \in Flow!Plans(MaxPlan - idx), idx' = idx + 1, flowPc' = "step",
             plan' = SubSeq(plan, 1, idx) \o Flow!Renumbered(n, idx)
      PROVE  FlowInv'
  <2>1. n \in Seq(PlanStep) /\ \A i \in 1..Len(n) : n[i].id = i - 1
    BY <1>1, ParsedPlans DEF PlanAssumption
  <2>2. plan \in Seq(PlanStep) /\ \A i \in 1..Len(plan) : plan[i].id = i - 1
    BY DEF FlowInv, FlowTypes, RecordsMatch
  <2>3. /\ plan' \in Seq(PlanStep) /\ Len(plan') >= idx
        /\ \A i \in 1..idx : plan'[i] = plan[i]
        /\ \A i \in 1..Len(plan') : plan'[i].id = i - 1
    <3>1. Replaced(plan', plan, idx, n)
      BY <1>3 DEF Replaced
    <3>2. idx \in 1..Len(plan)
      BY <1>1
    <3> DEFINE now == plan'
    <3>3. Replaced(now, plan, idx, n)
      BY <3>1
    <3> HIDE DEF now
    <3>4. /\ now \in Seq(PlanStep) /\ Len(now) >= idx
          /\ \A i \in 1..idx : now[i] = plan[i]
          /\ \A i \in 1..Len(now) : now[i].id = i - 1
      BY <2>1, <2>2, <3>2, <3>3, ReplacedRest
    <3> QED BY <3>4 DEF now
  <2>4. RecordsMatch'
    BY <1>1, <2>3 DEF FlowInv, RecordsMatch
  <2>5. FlowTypes'
    BY <1>1, <1>3, <2>3 DEF FlowInv, FlowTypes
  <2>6. RecordsReach'
    BY <1>1, <1>3 DEF RecordsReach
  <2> QED BY <2>4, <2>5, <2>6 DEF FlowInv
<1> QED BY <1>2, <1>3 DEF Flow!Replan

LEMMA RunOrRetryStep ==
  ASSUME FlowInv, Flow!Run \/ Flow!Retry
  PROVE  FlowInv'
<1>1. idx \in 1..Len(plan) /\ plan[idx].wants \in Flow!Agents /\ flowPc \in {"run", "retry"}
      /\ cache \in [Flow!Agents -> {"none", "idle", "used"}] /\ UNCHANGED flowLate
      /\ "manus" \in Flow!Agents
  <2>1. flowPc \in {"run", "retry"} /\ UNCHANGED flowLate
    BY DEF Flow!Run, Flow!Retry
  <2>2. idx \in 1..Len(plan) /\ plan \in Seq(PlanStep)
    BY <2>1 DEF FlowInv, FlowTypes, RecordsReach
  <2>3. plan[idx] \in PlanStep
    BY <2>2
  <2> QED BY <2>1, <2>2, <2>3 DEF PlanStep, FlowInv, FlowTypes, Flow!Agents
<1>2. ASSUME NEW a \in Flow!Agents, NEW low \in BOOLEAN, Flow!Returns(a), Flow!Settle("completed", low)
      PROVE  FlowInv'
  BY <1>1, <1>2, SettlesWell DEF Flow!Returns
<1>3. CASE cache' = [cache EXCEPT !["manus"] = "used"] /\ Flow!Settle("blocked", FALSE)
  BY <1>1, <1>3, SettlesWell
<1>4. CASE /\ flowPc = "run" /\ flowPc' = "retry" /\ UNCHANGED <<plan, idx, flow>>
           /\ cache' = [Flow!Selected("manus") EXCEPT ![plan[idx].wants] = "used"]
  <2>1. cache' \in [Flow!Agents -> {"none", "idle", "used"}]
    BY <1>1, <1>4 DEF Flow!Selected
  <2> QED BY <1>1, <1>4, <2>1 DEF FlowInv, FlowTypes, RecordsMatch, RecordsReach
<1> QED BY <1>1, <1>2, <1>3, <1>4 DEF Flow!Run, Flow!Retry

LEMMA FlowStep ==
  ASSUME FlowInv, PlanAssumption, [Flow!FlowNext]_flowVars
  PROVE  FlowInv'
<1>1. CASE Flow!Timeout
  BY <1>1 DEF Flow!Timeout, FlowInv, FlowTypes, RecordsMatch, RecordsReach
<1>2. CASE Flow!Cleanup
  <2>1. /\ flowPc \in {"cleanup", "cleanup_raise"} /\ UNCHANGED <<plan, idx, flow, flowLate>>
        /\ flowPc' = IF flowPc = "cleanup" THEN "returned" ELSE "raised"
        /\ cache' = [a \in Flow!Agents |-> "none"]
    BY <1>2 DEF Flow!Cleanup
  <2> QED BY <2>1 DEF FlowInv, FlowTypes, RecordsMatch, RecordsReach
<1>3. CASE UNCHANGED flowVars
  BY <1>3 DEF flowVars, FlowInv, FlowTypes, RecordsMatch, RecordsReach
<1> QED BY <1>1, <1>2, <1>3, CreatePlanStep, NextPlanStep, ReplanStep, RunOrRetryStep
        DEF Flow!FlowNext, Flow!FlowWorks

LEMMA RecordsAgreeFollows ==
  ASSUME FlowInv
  PROVE  Flow!RecordsAgree
<1>1. flow \in Seq(StepRecord) /\ DOMAIN flow = 1..Len(flow)
  BY DEF FlowInv, FlowTypes
<1>2. ASSUME NEW i \in DOMAIN flow
      PROVE  /\ flow[i] = [id |-> plan[i].id, status |-> plan[i].status]
             /\ flow[i].id = i - 1 /\ flow[i].status \in {"completed", "blocked"}
  <2>1. flow[i] \in StepRecord
    BY <1>1
  <2>2. i \in 1..Len(plan) /\ flow[i].id = plan[i].id /\ flow[i].status = plan[i].status /\ plan[i].id = i - 1
    BY <1>1 DEF FlowInv, FlowTypes, RecordsMatch
  <2> QED BY <2>1, <2>2 DEF StepRecord
<1> QED BY <1>2 DEF Flow!RecordsAgree, FlowInv, RecordsReach

-------------------------------------------------------------------------------
(* The task queue.  Before it is up, no write is under way and every task     *)
(* that the table calls running has still to be looked at; when it is up, no  *)
(* write is left behind and a running task is the worker's or orphaned; when  *)
(* it stops, at most one write is left, and of no task that is completed.     *)

Holds(c) == copy[c] # None

\* What a client will insert is new, and nobody else has it.
ClientsFresh ==
    \A c \in Client :
        /\ cpc[c] \in {"idle", "lookup", "insert", "typeerror"}
        /\ Holds(c) <=> cpc[c] \in {"lookup", "insert"}
        /\ Holds(c) => \E t \in Task : copy[c] = Tasks!New(t) /\ ~Tasks!Saved(t)
        /\ \A d \in Client \ {c} : Holds(c) /\ Holds(d) => copy[c].id # copy[d].id

TableKept ==
    /\ db \in [Task -> Tasks!Entry \cup {None}]
    /\ \A t \in Task : Tasks!Saved(t) => db[t].id = t

Quiet ==
    /\ late = {}
    /\ \A w \in Worker : wpc[w] = "off" /\ exec[w] = "none"
    /\ \A c \in Client : cpc[c] = "idle" /\ copy[c] = None

Resuming ==
    /\ inspected \subseteq Tasks!Entry
    /\ \A e \in inspected : db[e.id] = e
    /\ \A t \in Task : Tasks!Status(t) = "running" => db[t] \in inspected

\* What a worker has in its hands is in the table, and not completed.
Keeps(w) ==
    /\ mine[w] \in Tasks!Entry
    /\ Tasks!Saved(mine[w].id) /\ Tasks!Status(mine[w].id) # "completed"

Working ==
    /\ late = {}
    /\ \A w \in Worker :
         /\ wpc[w] \in {"poll", "picked", "awaiting", "saving"}
         /\ wpc[w] # "poll" => Keeps(w)
         /\ wpc[w] = "picked" => mine[w].status = "running"
         /\ wpc[w] = "saving" => mine[w].status # "running"
         /\ wpc[w] # "awaiting" => exec[w] = "none"
         /\ exec[w] # "cancelled"
         /\ exec[w] = "saving" =>
              draft[w] \in Tasks!Entry /\ draft[w].id = mine[w].id /\ draft[w].status = "running"
         /\ wpc[w] = "awaiting" => Tasks!Status(mine[w].id) = "running"
    /\ \A t \in Task : Tasks!Status(t) = "running" =>
         \/ t \in orphaned
         \/ \E w \in Worker : wpc[w] \in {"awaiting", "saving"} /\ mine[w].id = t

Stopping ==
    /\ late \subseteq Tasks!Entry
    /\ \A e, f \in late : e = f
    /\ \A e \in late : Tasks!Saved(e.id) /\ Tasks!Status(e.id) # "completed"
    /\ \A w \in Worker :
         /\ wpc[w] \in {"off", "awaiting", "saving"}
         /\ wpc[w] = "awaiting" <=> exec[w] = "cancelled"
         /\ exec[w] \in {"none", "cancelled"}
         /\ wpc[w] # "off" => Keeps(w) /\ \A e \in late : e.status = "running"
         /\ wpc[w] = "saving" => mine[w].status = "paused"

TaskInv ==
    /\ TableKept /\ ClientsFresh
    /\ process \in {"down", "resuming", "up", "stopping"}
    /\ process \in {"down", "resuming"} => Quiet
    /\ process = "resuming" => Resuming
    /\ process = "up" => Working
    /\ process = "stopping" => Stopping
    /\ DOMAIN wpc = Worker /\ DOMAIN exec = Worker /\ DOMAIN mine = Worker /\ DOMAIN draft = Worker
    /\ DOMAIN cpc = Client /\ DOMAIN copy = Client

CompletedKept == \A t \in Task : Tasks!Status(t) = "completed" => db'[t] = db[t]

\* A write of an entry, and what it leaves alone.
Writes(e) == db' = [db EXCEPT ![e.id] = e]

\* A write that raises may be there or not.
MayWrite(e) == Writes(e) \/ UNCHANGED db

LEMMA SaveWrites == ASSUME NEW e, Tasks!Save(e) PROVE Writes(e) /\ Tasks!Leave({})
BY DEF Tasks!Save, Tasks!Write, Writes

LEMMA RaiseWrites ==
  ASSUME NEW e, NEW S, Tasks!SaveRaises(e, S) PROVE MayWrite(e) /\ Tasks!Leave(S)
BY DEF Tasks!SaveRaises, Tasks!Write, Writes, MayWrite

\* What is running and orphaned stays orphaned.
LEMMA LeftAlone ==
  ASSUME NEW S, Tasks!Leave(S), NEW u \in orphaned \cup S, Tasks!Status(u)' = "running"
  PROVE  u \in orphaned'
BY DEF Tasks!Leave

LEMMA WriteKeeps ==
  ASSUME TableKept, TasksAssumption, NEW e \in Tasks!Entry, Writes(e)
  PROVE  /\ TableKept'
         /\ e.id \in Task /\ db'[e.id] = e /\ Tasks!Saved(e.id)' /\ Tasks!Status(e.id)' = e.status
         /\ \A t \in Task : t # e.id =>
              db'[t] = db[t] /\ Tasks!Saved(t)' = Tasks!Saved(t) /\ Tasks!Status(t)' = Tasks!Status(t)
         /\ Tasks!Status(e.id) # "completed" => CompletedKept
<1>1. e.id \in Task /\ e # None
  BY DEF TasksAssumption, Tasks!Entry
<1>2. db'[e.id] = e /\ \A t \in Task : t # e.id => db'[t] = db[t]
  BY <1>1 DEF TableKept, Writes
<1>3. TableKept'
  <2>1. db' \in [Task -> Tasks!Entry \cup {None}]
    BY <1>1 DEF TableKept, Writes
  <2> QED BY <1>1, <1>2, <2>1 DEF TableKept, Tasks!Saved
<1> QED BY <1>1, <1>2, <1>3 DEF Tasks!Saved, Tasks!Status, CompletedKept

LEMMA MayKeep ==
  ASSUME TableKept, TasksAssumption, NEW e \in Tasks!Entry, MayWrite(e),
         Tasks!Status(e.id) # "completed"
  PROVE  /\ TableKept' /\ CompletedKept /\ e.id \in Task
         /\ Tasks!Saved(e.id) => Tasks!Saved(e.id)'
         /\ Tasks!Status(e.id)' \in {e.status, Tasks!Status(e.id)}
         /\ \A t \in Task : t # e.id =>
              db'[t] = db[t] /\ Tasks!Saved(t)' = Tasks!Saved(t) /\ Tasks!Status(t)' = Tasks!Status(t)
<1>1. CASE Writes(e)
  BY <1>1, WriteKeeps
<1>2. CASE UNCHANGED db
  BY <1>2 DEF Tasks!Entry, Tasks!TaskStatus, TableKept, Tasks!Saved, Tasks!Status, CompletedKept
<1> QED BY <1>1, <1>2 DEF MayWrite

\* What is written of a task already in the table is no client's.
LEMMA ClientsUntouched ==
  ASSUME ClientsFresh, TableKept, TasksAssumption, NEW e \in Tasks!Entry, MayWrite(e),
         Tasks!Saved(e.id), UNCHANGED <<cpc, copy>>
  PROVE  ClientsFresh'
<1>1. /\ \A t \in Task : ~Tasks!Saved(t) => ~Tasks!Saved(t)'
      /\ \A t : Tasks!New(t)' = Tasks!New(t)
  <2>1. CASE Writes(e)
    BY <2>1, WriteKeeps DEF Tasks!New
  <2>2. CASE UNCHANGED db
    BY <2>2 DEF Tasks!New, Tasks!Saved
  <2> QED BY <2>1, <2>2 DEF MayWrite
<1>2. \A c : Holds(c)' = Holds(c)
  BY DEF Holds
<1> QED BY <1>1, <1>2 DEF ClientsFresh

LEMMA QueueStarts == Tasks!Init => TaskInv
BY DEF Tasks!Init, Tasks!All, TaskInv, TableKept, ClientsFresh, Holds, Quiet, Tasks!Saved

\* The process begins, looks at what was interrupted, and ends.
LEMMA BootStep ==
  ASSUME TaskInv, TasksAssumption, Tasks!Boot
  PROVE  TaskInv' /\ CompletedKept
<1>1. /\ process = "down" /\ process' = "resuming"
      /\ inspected' = {db[t] : t \in {u \in Task : Tasks!Saved(u)}}
      /\ UNCHANGED <<db, late, wpc, mine, exec, draft, cpc, copy>>
  BY DEF Tasks!Boot, Tasks!dbVars, Tasks!workerVars, Tasks!clientVars
<1>2. TableKept' /\ ClientsFresh' /\ Quiet' /\ CompletedKept
  BY <1>1 DEF TaskInv, TableKept, ClientsFresh, Quiet, Holds, Tasks!Saved, Tasks!New, CompletedKept
<1>3. Resuming'
  <2>1. \A t \in Task : Tasks!Saved(t) => db[t] \in Tasks!Entry /\ db[t].id = t /\ db[t] \in inspected'
    BY <1>1 DEF TaskInv, TableKept, Tasks!Saved
  <2>2. \A t \in Task : Tasks!Status(t)' = Tasks!Status(t)
    BY <1>1 DEF Tasks!Status, Tasks!Saved
  <2>3. \A t \in Task : Tasks!Status(t) = "running" => Tasks!Saved(t)
    BY DEF Tasks!Status
  <2> QED BY <1>1, <2>1, <2>2, <2>3 DEF Resuming
<1> QED BY <1>1, <1>2, <1>3 DEF TaskInv

LEMMA RequeuedWell ==
  ASSUME NEW e \in Tasks!Entry, e.status \in {"running", "paused"}, SizesAssumption
  PROVE  /\ Tasks!Requeued(e) \in Tasks!Entry /\ Tasks!Requeued(e).id = e.id
         /\ Tasks!Requeued(e).status # "running"
<1>1. e.retry \in 0..MaxRetries + 1 /\ MaxRetries \in Nat
  BY DEF Tasks!Entry, SizesAssumption
<1>2. CASE e.status = "paused"
  BY <1>1, <1>2 DEF Tasks!Requeued, Tasks!Entry, Tasks!TaskStatus
<1>3. CASE e.status = "running" /\ e.retry < MaxRetries
  <2>1. Tasks!Requeued(e) = [e EXCEPT !.status = "queued", !.retry = e.retry + 1]
    BY <1>1, <1>3 DEF Tasks!Requeued
  <2>2. e.retry + 1 \in 0..MaxRetries + 1
    BY <1>1, <1>3
  <2> QED BY <2>1, <2>2 DEF Tasks!Entry, Tasks!TaskStatus
<1>4. CASE e.status = "running" /\ e.retry >= MaxRetries
  <2>1. Tasks!Requeued(e) = [e EXCEPT !.status = "failed", !.retry = MaxRetries + 1]
    BY <1>1, <1>4 DEF Tasks!Requeued
  <2>2. MaxRetries + 1 \in 0..MaxRetries + 1
    BY <1>1
  <2> QED BY <2>1, <2>2 DEF Tasks!Entry, Tasks!TaskStatus
<1> QED BY <1>1, <1>2, <1>3, <1>4

LEMMA ResumeStep ==
  ASSUME TaskInv, TasksAssumption, SizesAssumption, Tasks!ResumeOne
  PROVE  TaskInv' /\ CompletedKept
<1>1. PICK e \in inspected :
        /\ inspected' = inspected \ {e}
        /\ IF e.status \in {"running", "paused"} THEN Tasks!Save(Tasks!Requeued(e))
                                                 ELSE UNCHANGED db
  BY DEF Tasks!ResumeOne, Tasks!dbVars
<1>2. /\ process = "resuming" /\ process' = "resuming"
      /\ UNCHANGED <<late, wpc, mine, exec, draft, cpc, copy>>
  BY DEF Tasks!ResumeOne, Tasks!workerVars, Tasks!clientVars
<1>3. TableKept /\ ClientsFresh /\ Quiet /\ Resuming
  BY <1>2 DEF TaskInv
<1>4. Quiet'
  BY <1>2, <1>3 DEF Quiet
<1>5. ClientsFresh'
  BY <1>2, <1>3, <1>4 DEF Quiet, ClientsFresh, Holds
<1>6. CASE e.status \notin {"running", "paused"}
  <2>1. UNCHANGED db
    BY <1>1, <1>6
  <2>2. TableKept' /\ CompletedKept
    BY <2>1, <1>3 DEF TableKept, CompletedKept, Tasks!Saved
  <2>3. Resuming'
    BY <1>1, <1>3, <1>6, <2>1 DEF Resuming, Tasks!Status, Tasks!Saved
  <2> QED BY <1>2, <1>4, <1>5, <2>2, <2>3 DEF TaskInv
<1>7. CASE e.status \in {"running", "paused"}
  <2> DEFINE r == Tasks!Requeued(e)
  <2>1. e \in Tasks!Entry /\ db[e.id] = e /\ e.id \in Task
    BY <1>3 DEF Resuming, Tasks!Entry
  <2>2. r \in Tasks!Entry /\ r.id = e.id /\ r.status # "running"
    BY <2>1, <1>7, RequeuedWell
  <2>3. Writes(r)
    BY <1>1, <1>7, SaveWrites
  <2>4. Tasks!Saved(e.id) /\ Tasks!Status(e.id) # "completed"
    BY <2>1, <1>7 DEF Tasks!Saved, Tasks!Status, TasksAssumption
  <2> HIDE DEF r
  <2>5. /\ TableKept' /\ CompletedKept /\ Tasks!Status(e.id)' # "running"
        /\ \A t \in Task : t # e.id => db'[t] = db[t] /\ Tasks!Status(t)' = Tasks!Status(t)
    BY <1>3, <2>1, <2>2, <2>3, <2>4, WriteKeeps
  <2>6. Resuming'
    <3>1. ASSUME NEW f \in inspected' PROVE f \in Tasks!Entry /\ db'[f.id] = f
      <4>1. f \in Tasks!Entry /\ db[f.id] = f /\ f # e /\ f.id \in Task
        BY <1>1, <1>3, <3>1 DEF Resuming, Tasks!Entry
      <4> QED BY <4>1, <2>1, <2>5
    <3>2. ASSUME NEW t \in Task, Tasks!Status(t)' = "running" PROVE db'[t] \in inspected'
      <4>1. t # e.id /\ db'[t] = db[t] /\ Tasks!Status(t) = "running"
        BY <2>5, <3>2
      <4>2. db[t].id = t
        BY <4>1, <1>3 DEF TableKept, Tasks!Status
      <4> QED BY <1>1, <1>3, <4>1, <4>2 DEF Resuming
    <3>3. Tasks!Entry' = Tasks!Entry
      BY DEF Tasks!Entry, Tasks!TaskStatus
    <3> QED BY <3>1, <3>2, <3>3 DEF Resuming
  <2> QED BY <1>2, <1>4, <1>5, <2>5, <2>6 DEF TaskInv
<1> QED BY <1>6, <1>7

LEMMA StartStep ==
  ASSUME TaskInv, Tasks!StartWorkers
  PROVE  TaskInv' /\ CompletedKept
<1>1. /\ process = "resuming" /\ inspected = {} /\ process' = "up"
      /\ wpc' = [w \in Worker |-> "poll"]
      /\ UNCHANGED <<db, late, mine, exec, draft, cpc, copy>>
  BY DEF Tasks!StartWorkers, Tasks!dbVars, Tasks!clientVars
<1>2. TableKept' /\ ClientsFresh' /\ CompletedKept
  BY <1>1 DEF TaskInv, TableKept, ClientsFresh, Holds, Tasks!Saved, Tasks!New, CompletedKept
<1>3. Working'
  BY <1>1 DEF TaskInv, Quiet, Resuming, Working, Tasks!Status, Tasks!Saved
<1> QED BY <1>1, <1>2, <1>3 DEF TaskInv

\* There is one worker, so one write is left at most.
LEMMA StopStep ==
  ASSUME TaskInv, OneWorker, Tasks!StopWorkers
  PROVE  TaskInv' /\ CompletedKept
<1> DEFINE pending == {mine[w] : w \in {v \in Worker : wpc[v] \in {"picked", "saving"}}}
                        \cup {draft[w] : w \in {v \in Worker : exec[v] = "saving"}}
<1>1. /\ process = "up" /\ process' = "stopping"
      /\ wpc' = [w \in Worker |-> IF wpc[w] = "awaiting" THEN "awaiting" ELSE "off"]
      /\ exec' = [w \in Worker |-> IF wpc[w] = "awaiting" THEN "cancelled" ELSE "none"]
      /\ \E s \in SUBSET pending : late' = late \cup s
      /\ UNCHANGED <<db, mine, draft, cpc, copy>>
  BY DEF Tasks!StopWorkers, Tasks!dbVars, Tasks!clientVars
<1>2. TableKept' /\ ClientsFresh' /\ CompletedKept
  BY <1>1 DEF TaskInv, TableKept, ClientsFresh, Holds, Tasks!Saved, Tasks!New, CompletedKept
<1>3. Working
  BY <1>1 DEF TaskInv
<1>4. late' \subseteq pending
  BY <1>1, <1>3 DEF Working
<1>5. ASSUME NEW e \in pending
      PROVE  /\ e \in Tasks!Entry /\ Tasks!Saved(e.id) /\ Tasks!Status(e.id) # "completed"
             /\ \A w \in Worker : wpc[w] = "awaiting" => e.status = "running"
             /\ \A f \in pending : e = f
  <2>1. PICK w \in Worker : \/ wpc[w] \in {"picked", "saving"} /\ e = mine[w]
                            \/ exec[w] = "saving" /\ e = draft[w]
    BY <1>5
  <2>2. ASSUME NEW f \in pending
        PROVE  \/ wpc[w] \in {"picked", "saving"} /\ f = mine[w]
               \/ exec[w] = "saving" /\ f = draft[w]
    BY <2>1, OneWorker
  <2>3. wpc[w] \in {"picked", "saving"} => exec[w] # "saving"
    BY <1>3 DEF Working
  <2>4. \A f \in pending : e = f
    BY <2>1, <2>2, <2>3
  <2>5. e \in Tasks!Entry /\ Tasks!Saved(e.id) /\ Tasks!Status(e.id) # "completed"
    BY <1>3, <2>1 DEF Working, Keeps
  <2>6. ASSUME NEW v \in Worker, wpc[v] = "awaiting" PROVE e.status = "running"
    <3>1. v = w
      BY OneWorker
    <3> QED BY <1>3, <2>1, <2>6, <3>1 DEF Working
  <2> QED BY <2>4, <2>5, <2>6
<1> HIDE DEF pending
<1>6. Stopping'
  <2>1. \A t : Tasks!Saved(t)' = Tasks!Saved(t) /\ Tasks!Status(t)' = Tasks!Status(t)
    BY <1>1 DEF Tasks!Saved, Tasks!Status
  <2>2. /\ late' \subseteq Tasks!Entry /\ \A e, f \in late' : e = f
        /\ \A e \in late' : Tasks!Saved(e.id)' /\ Tasks!Status(e.id)' # "completed"
    BY <1>4, <1>5, <2>1
  <2>3. ASSUME NEW w \in Worker
        PROVE  /\ wpc'[w] \in {"off", "awaiting", "saving"}
               /\ wpc'[w] = "awaiting" <=> exec'[w] = "cancelled"
               /\ exec'[w] \in {"none", "cancelled"}
               /\ wpc'[w] # "off" => Keeps(w)' /\ \A e \in late' : e.status = "running"
               /\ wpc'[w] # "saving"
    <3>1. wpc[w] = "awaiting" => Keeps(w)'
      BY <1>1, <1>3, <2>1 DEF Working, Keeps, Tasks!Entry, Tasks!TaskStatus
    <3> QED BY <1>1, <1>4, <1>5, <3>1
  <2>4. Tasks!Entry' = Tasks!Entry
    BY DEF Tasks!Entry, Tasks!TaskStatus
  <2> QED BY <2>2, <2>3, <2>4 DEF Stopping
<1> QED BY <1>1, <1>2, <1>6 DEF TaskInv

LEMMA EndStep ==
  ASSUME TaskInv, Tasks!Exit \/ Tasks!Crash
  PROVE  TaskInv' /\ CompletedKept
<1>1. /\ process' = "down" /\ late' = {} /\ UNCHANGED db
      /\ wpc' = [w \in Worker |-> "off"] /\ mine' = [w \in Worker |-> None]
      /\ exec' = [w \in Worker |-> "none"] /\ draft' = [w \in Worker |-> None]
      /\ cpc' = [c \in Client |-> "idle"] /\ copy' = [c \in Client |-> None]
  BY DEF Tasks!Exit, Tasks!Crash, Tasks!Forget, Tasks!All, Tasks!dbVars
<1> QED BY <1>1 DEF TaskInv, TableKept, ClientsFresh, Holds, Quiet, Tasks!Saved, CompletedKept

\* A worker's entry stays its own unless it is completed by the write.
LEMMA KeepsEntry ==
  ASSUME TableKept, TasksAssumption, NEW e \in Tasks!Entry, MayWrite(e), NEW w \in Worker,
         Keeps(w), mine'[w] = mine[w], e.id = mine[w].id => e.status # "completed"
  PROVE  Keeps(w)'
<1>1. mine[w] \in Tasks!Entry /\ mine[w].id \in Task
  BY DEF Keeps, Tasks!Entry
<1>2. Tasks!Saved(mine[w].id)' /\ Tasks!Status(mine[w].id)' # "completed"
  <2>1. CASE Writes(e)
    BY <2>1, <1>1, WriteKeeps DEF Keeps
  <2>2. CASE UNCHANGED db
    BY <2>2 DEF Keeps, Tasks!Saved, Tasks!Status
  <2> QED BY <2>1, <2>2 DEF MayWrite
<1>3. Tasks!Entry' = Tasks!Entry
  BY DEF Tasks!Entry, Tasks!TaskStatus
<1> QED BY <1>1, <1>2, <1>3 DEF Keeps, Tasks!Saved, Tasks!Status

LEMMA LateStep ==
  ASSUME TaskInv, TasksAssumption, Tasks!LateWrite
  PROVE  TaskInv' /\ CompletedKept
<1>1. PICK e \in late : Tasks!Save(e) /\ late' = late \ {e}
  BY DEF Tasks!LateWrite
<1>2. UNCHANGED <<process, wpc, mine, exec, draft, cpc, copy>>
  BY DEF Tasks!LateWrite, Tasks!procVars, Tasks!workerVars, Tasks!clientVars
<1>3. process = "stopping" /\ TableKept /\ ClientsFresh /\ Stopping
  BY <1>1 DEF TaskInv, Quiet, Working
<1>4. /\ e \in Tasks!Entry /\ MayWrite(e) /\ Tasks!Saved(e.id) /\ Tasks!Status(e.id) # "completed"
      /\ late' = {}
  BY <1>1, <1>3, SaveWrites DEF Stopping, MayWrite
<1>5. TableKept' /\ CompletedKept /\ ClientsFresh'
  BY <1>2, <1>3, <1>4, MayKeep, ClientsUntouched
<1>6. Stopping'
  <2>1. ASSUME NEW w \in Worker, wpc[w] # "off" PROVE Keeps(w)'
    <3>1. Keeps(w) /\ e.status = "running"
      BY <1>1, <1>3, <2>1 DEF Stopping
    <3> QED BY <1>2, <1>3, <1>4, <3>1, KeepsEntry
  <2>2. \A w \in Worker :
          /\ wpc[w] \in {"off", "awaiting", "saving"}
          /\ wpc[w] = "awaiting" <=> exec[w] = "cancelled"
          /\ exec[w] \in {"none", "cancelled"}
          /\ wpc[w] = "saving" => mine[w].status = "paused"
    BY <1>3 DEF Stopping
  <2> QED BY <1>2, <1>4, <2>1, <2>2 DEF Stopping
<1> QED BY <1>2, <1>3, <1>5, <1>6 DEF TaskInv

\* The worker.
LEMMA PickStep ==
  ASSUME TaskInv, TasksAssumption, OneWorker, NEW w \in Worker, Tasks!Pick(w)
  PROVE  TaskInv' /\ CompletedKept
<1>1. PICK t \in Task : Tasks!First(t) /\ mine' = [mine EXCEPT ![w] = [db[t] EXCEPT !.status = "running"]]
  BY DEF Tasks!Pick
<1>2. /\ process = "up" /\ wpc[w] = "poll" /\ wpc' = [wpc EXCEPT ![w] = "picked"]
      /\ UNCHANGED <<process, db, orphaned, late, exec, draft, cpc, copy>>
  BY DEF Tasks!Pick, Tasks!procVars, Tasks!dbVars, Tasks!clientVars
<1>3. TableKept /\ ClientsFresh /\ Working /\ DOMAIN wpc = Worker /\ DOMAIN mine = Worker
  BY <1>2 DEF TaskInv
<1>4. TableKept' /\ ClientsFresh' /\ CompletedKept
  BY <1>2, <1>3 DEF TableKept, ClientsFresh, Holds, Tasks!Saved, Tasks!New, CompletedKept
<1>5. /\ Tasks!Saved(t) /\ Tasks!Status(t) = "queued"
      /\ db[t] \in Tasks!Entry /\ db[t].id = t
  BY <1>1, <1>3 DEF Tasks!First, Tasks!Queued, Tasks!Status, Tasks!Saved, TableKept
<1>6. mine'[w] \in Tasks!Entry /\ mine'[w].id = t /\ mine'[w].status = "running"
  BY <1>1, <1>3, <1>5 DEF Tasks!Entry, Tasks!TaskStatus
<1>7. \A u : Tasks!Saved(u)' = Tasks!Saved(u) /\ Tasks!Status(u)' = Tasks!Status(u)
  BY <1>2 DEF Tasks!Saved, Tasks!Status
<1>8. Keeps(w)'
  BY <1>5, <1>6, <1>7 DEF Keeps, Tasks!Entry, Tasks!TaskStatus
<1>9. \A u \in Task : Tasks!Status(u) = "running" => u \in orphaned
  BY <1>2, <1>3, OneWorker DEF Working
<1>10. Working'
  <2>1. ASSUME NEW v \in Worker
        PROVE  v = w /\ wpc'[v] = "picked" /\ exec[v] = "none"
    BY <1>2, <1>3, OneWorker DEF Working
  <2> QED BY <1>2, <1>3, <1>6, <1>7, <1>8, <1>9, <2>1 DEF Working
<1> QED BY <1>1, <1>2, <1>4, <1>10 DEF TaskInv

\* The worker that begins a task has no other: what else is running is orphaned.  It
\* writes the task as running and keeps it, or leaves it.
LEMMA BeginStep ==
  ASSUME TaskInv, TasksAssumption, OneWorker, NEW w \in Worker, Tasks!Begin(w)
  PROVE  TaskInv' /\ CompletedKept
<1>1. /\ wpc[w] = "picked"
      /\ UNCHANGED <<process, late, draft, cpc, copy>>
      /\ \/ /\ Tasks!Save(mine[w])
            /\ wpc' = [wpc EXCEPT ![w] = "awaiting"] /\ exec' = [exec EXCEPT ![w] = "going"]
            /\ UNCHANGED mine
         \/ /\ \/ Tasks!Write(mine[w]) /\ Tasks!Leave({mine[w].id})
               \/ Tasks!SaveRaises(mine[w], {mine[w].id})
            /\ wpc' = [wpc EXCEPT ![w] = "poll"] /\ mine' = [mine EXCEPT ![w] = None]
            /\ UNCHANGED exec
  BY DEF Tasks!Begin, Tasks!procVars, Tasks!clientVars
<1>2. process = "up" /\ TableKept /\ ClientsFresh /\ Working
  BY <1>1 DEF TaskInv, Quiet, Stopping
<1>3. /\ Keeps(w) /\ mine[w].status = "running"
      /\ DOMAIN wpc = Worker /\ DOMAIN exec = Worker /\ DOMAIN mine = Worker
  BY <1>1, <1>2 DEF Working, TaskInv
<1>4. PICK m \in Tasks!Entry : m = mine[w] /\ Tasks!Saved(m.id) /\ Tasks!Status(m.id) # "completed"
  BY <1>3 DEF Keeps
<1>5. MayWrite(m)
  BY <1>1, <1>4, SaveWrites, RaiseWrites DEF Tasks!Write, Writes, MayWrite
<1>6. TableKept' /\ CompletedKept /\ ClientsFresh' /\ m.id \in Task
  BY <1>1, <1>2, <1>4, <1>5, MayKeep, ClientsUntouched
<1>7. \E S : Tasks!Leave(S)
  BY <1>1, SaveWrites, RaiseWrites
<1>8. ASSUME NEW u \in Task, u # m.id, Tasks!Status(u)' = "running" PROVE u \in orphaned'
  <2>1. Tasks!Status(u) = "running"
    BY <1>2, <1>4, <1>5, <1>8, MayKeep
  <2>2. u \in orphaned
    BY <1>1, <1>2, <2>1, OneWorker DEF Working
  <2> QED BY <1>7, <1>8, <2>2, LeftAlone
<1>9. CASE /\ Tasks!Save(mine[w])
           /\ wpc' = [wpc EXCEPT ![w] = "awaiting"] /\ exec' = [exec EXCEPT ![w] = "going"]
           /\ UNCHANGED mine
  <2>1. Keeps(w)' /\ Tasks!Status(m.id)' = "running"
    <3>1. Writes(m) /\ m.status = "running"
      BY <1>3, <1>4, <1>9, SaveWrites
    <3>2. Tasks!Status(m.id)' = "running"
      BY <1>2, <3>1, WriteKeeps
    <3>3. Keeps(w)'
      BY <1>2, <1>3, <1>4, <1>5, <1>9, <3>1, KeepsEntry
    <3> QED BY <3>2, <3>3
  <2>2. \A v \in Worker : v = w /\ wpc'[v] = "awaiting" /\ exec'[v] = "going"
    BY <1>3, <1>9, OneWorker
  <2>3. Working'
    BY <1>1, <1>2, <1>4, <1>8, <1>9, <2>1, <2>2 DEF Working
  <2> QED BY <1>1, <1>2, <1>3, <1>6, <1>9, <2>3 DEF TaskInv
<1>10. CASE /\ \/ Tasks!Write(mine[w]) /\ Tasks!Leave({mine[w].id})
               \/ Tasks!SaveRaises(mine[w], {mine[w].id})
            /\ wpc' = [wpc EXCEPT ![w] = "poll"] /\ mine' = [mine EXCEPT ![w] = None]
            /\ UNCHANGED exec
  <2>1. Tasks!Leave({m.id})
    BY <1>4, <1>10, RaiseWrites
  <2>2. \A u \in Task : Tasks!Status(u)' = "running" => u \in orphaned'
    BY <1>8, <2>1, LeftAlone
  <2>3. \A v \in Worker : wpc'[v] = "poll" /\ exec'[v] = "none"
    BY <1>1, <1>2, <1>3, <1>10, OneWorker DEF Working
  <2>4. Working'
    BY <1>1, <1>2, <2>2, <2>3 DEF Working
  <2> QED BY <1>1, <1>2, <1>3, <1>6, <1>10, <2>4 DEF TaskInv
<1> QED BY <1>1, <1>9, <1>10

LEMMA ExecEndsStep ==
  ASSUME TaskInv, NEW w \in Worker, Tasks!ExecEnds(w)
  PROVE  TaskInv' /\ CompletedKept
<1>1. /\ exec[w] = "going"
      /\ \E r \in {"returned", "raised"} : exec' = [exec EXCEPT ![w] = r]
      /\ UNCHANGED <<process, db, orphaned, late, wpc, mine, draft, cpc, copy>>
  BY DEF Tasks!ExecEnds, Tasks!procVars, Tasks!dbVars, Tasks!clientVars
<1>2. process = "up" /\ Working
  BY <1>1 DEF TaskInv, Quiet, Stopping
<1>3. TableKept' /\ ClientsFresh' /\ CompletedKept
  BY <1>1 DEF TaskInv, TableKept, ClientsFresh, Holds, Tasks!Saved, Tasks!New, CompletedKept
<1>4. Working'
  <2>1. wpc[w] = "awaiting"
    BY <1>1, <1>2 DEF Working
  <2>2. \A u : Tasks!Saved(u)' = Tasks!Saved(u) /\ Tasks!Status(u)' = Tasks!Status(u)
    BY <1>1 DEF Tasks!Saved, Tasks!Status
  <2>3. \A v \in Worker : Keeps(v)' <=> Keeps(v)
    BY <1>1, <2>2 DEF Keeps, Tasks!Entry, Tasks!TaskStatus
  <2> QED BY <1>1, <1>2, <2>1, <2>2, <2>3 DEF Working, TaskInv, Tasks!Entry, Tasks!TaskStatus
<1> QED BY <1>1, <1>2, <1>3, <1>4 DEF TaskInv

LEMMA LoadStep ==
  ASSUME TaskInv, TasksAssumption, SizesAssumption, NEW w \in Worker, Tasks!CheckpointLoad(w)
  PROVE  TaskInv' /\ CompletedKept
<1>1. /\ exec[w] = "going" /\ db[mine[w].id].ckpt < MaxSteps
      /\ draft' = [draft EXCEPT ![w] = [db[mine[w].id] EXCEPT !.ckpt = @ + 1]]
      /\ exec' = [exec EXCEPT ![w] = "saving"]
      /\ UNCHANGED <<process, db, orphaned, late, wpc, mine, cpc, copy>>
  BY DEF Tasks!CheckpointLoad, Tasks!procVars, Tasks!dbVars, Tasks!clientVars
<1>2. process = "up" /\ Working /\ TableKept
  BY <1>1 DEF TaskInv, Quiet, Stopping
<1>3. TableKept' /\ ClientsFresh' /\ CompletedKept
  BY <1>1 DEF TaskInv, TableKept, ClientsFresh, Holds, Tasks!Saved, Tasks!New, CompletedKept
<1>4. /\ wpc[w] = "awaiting" /\ Keeps(w) /\ Tasks!Status(mine[w].id) = "running"
      /\ DOMAIN exec = Worker /\ DOMAIN draft = Worker
  BY <1>1, <1>2 DEF Working, TaskInv
<1>5. draft'[w] \in Tasks!Entry /\ draft'[w].id = mine[w].id /\ draft'[w].status = "running"
  <2>1. mine[w].id \in Task
    BY <1>4 DEF Keeps, Tasks!Entry
  <2>2. db[mine[w].id] \in Tasks!Entry /\ db[mine[w].id].id = mine[w].id /\ db[mine[w].id].status = "running"
    BY <1>2, <1>4, <2>1 DEF Keeps, TableKept, Tasks!Saved, Tasks!Status
  <2>3. db[mine[w].id].ckpt + 1 \in 0..MaxSteps
    BY <1>1, <2>2 DEF Tasks!Entry, TasksAssumption
  <2> QED BY <1>1, <1>4, <2>2, <2>3 DEF Tasks!Entry, Tasks!TaskStatus
<1>6. Working'
  <2>1. \A u : Tasks!Saved(u)' = Tasks!Saved(u) /\ Tasks!Status(u)' = Tasks!Status(u)
    BY <1>1 DEF Tasks!Saved, Tasks!Status
  <2>2. /\ Tasks!Entry' = Tasks!Entry
        /\ \A v \in Worker : Keeps(v)' <=> Keeps(v)
    BY <1>1, <2>1 DEF Keeps, Tasks!Entry, Tasks!TaskStatus
  <2>3. \A v \in Worker \ {w} : exec'[v] = exec[v] /\ draft'[v] = draft[v]
    BY <1>1, <1>4
  <2>4. exec'[w] = "saving"
    BY <1>1, <1>4
  <2> QED BY <1>1, <1>2, <1>4, <1>5, <2>1, <2>2, <2>3, <2>4 DEF Working
<1> QED BY <1>1, <1>2, <1>3, <1>6 DEF TaskInv

LEMMA CheckpointStep ==
  ASSUME TaskInv, TasksAssumption, OneWorker, NEW w \in Worker, Tasks!CheckpointSave(w)
  PROVE  TaskInv' /\ CompletedKept
<1>1. /\ exec[w] = "saving" /\ exec' = [exec EXCEPT ![w] = "going"]
      /\ draft' = [draft EXCEPT ![w] = None]
      /\ UNCHANGED <<process, late, wpc, mine, cpc, copy>>
  BY DEF Tasks!CheckpointSave, Tasks!procVars, Tasks!clientVars
<1>2. process = "up" /\ TableKept /\ ClientsFresh /\ Working
  BY <1>1 DEF TaskInv, Quiet, Stopping
<1>3. /\ wpc[w] = "awaiting" /\ Keeps(w) /\ DOMAIN exec = Worker
      /\ draft[w] \in Tasks!Entry /\ draft[w].id = mine[w].id /\ draft[w].status = "running"
  BY <1>1, <1>2 DEF Working, TaskInv
<1>4. /\ MayWrite(draft[w]) /\ Tasks!Leave({})
      /\ Tasks!Saved(draft[w].id) /\ Tasks!Status(draft[w].id) = "running"
  BY <1>1, <1>2, <1>3, SaveWrites, RaiseWrites DEF Keeps, Working, Tasks!CheckpointSave, MayWrite
<1>5. TableKept' /\ CompletedKept /\ ClientsFresh'
  BY <1>1, <1>2, <1>3, <1>4, MayKeep, ClientsUntouched
<1>6. Keeps(w)' /\ Tasks!Status(mine[w].id)' = "running" /\ mine[w].id \in Task
  BY <1>1, <1>2, <1>3, <1>4, KeepsEntry, MayKeep
<1>7. Working'
  <2>1. \A v \in Worker : v = w /\ wpc'[v] = "awaiting" /\ exec'[v] = "going"
    BY <1>1, <1>3, OneWorker
  <2>2. ASSUME NEW u \in Task, Tasks!Status(u)' = "running", u # mine[w].id PROVE u \in orphaned'
    <3>1. Tasks!Status(u) = "running"
      BY <1>2, <1>3, <1>4, <2>2, MayKeep
    <3>2. u \in orphaned
      BY <1>2, <2>2, <3>1, OneWorker DEF Working
    <3> QED BY <1>4, <2>2, <3>2, LeftAlone
  <2> QED BY <1>1, <1>2, <1>6, <2>1, <2>2 DEF Working
<1> QED BY <1>1, <1>2, <1>5, <1>7 DEF TaskInv

LEMMA CollectStep ==
  ASSUME TaskInv, OneWorker, NEW w \in Worker, Tasks!Collect(w)
  PROVE  TaskInv' /\ CompletedKept
<1>1. /\ wpc[w] = "awaiting" /\ exec[w] \in {"returned", "raised", "cancelled"}
      /\ mine' = [mine EXCEPT ![w].status = Tasks!Outcome(w)]
      /\ wpc' = [wpc EXCEPT ![w] = "saving"] /\ exec' = [exec EXCEPT ![w] = "none"]
      /\ draft' = [draft EXCEPT ![w] = None]
      /\ UNCHANGED <<process, db, orphaned, late, cpc, copy>>
  BY DEF Tasks!Collect, Tasks!procVars, Tasks!dbVars, Tasks!clientVars
<1>2. /\ process \in {"up", "stopping"}
      /\ DOMAIN wpc = Worker /\ DOMAIN mine = Worker /\ DOMAIN exec = Worker
  BY <1>1 DEF TaskInv, Quiet
<1>3. TableKept' /\ ClientsFresh' /\ CompletedKept
  BY <1>1 DEF TaskInv, TableKept, ClientsFresh, Holds, Tasks!Saved, Tasks!New, CompletedKept
<1>4. /\ Tasks!Outcome(w) \in {"completed", "failed", "paused"}
      /\ exec[w] = "cancelled" => Tasks!Outcome(w) = "paused"
  BY <1>1 DEF Tasks!Outcome
<1>5. Keeps(w)
  BY <1>1, <1>2 DEF TaskInv, Working, Stopping
<1>6. mine'[w] \in Tasks!Entry /\ mine'[w].id = mine[w].id /\ mine'[w].status = Tasks!Outcome(w)
  BY <1>1, <1>2, <1>4, <1>5 DEF Keeps, Tasks!Entry, Tasks!TaskStatus
<1>7. \A u : Tasks!Saved(u)' = Tasks!Saved(u) /\ Tasks!Status(u)' = Tasks!Status(u)
  BY <1>1 DEF Tasks!Saved, Tasks!Status
<1>8. Keeps(w)'
  BY <1>5, <1>6, <1>7 DEF Keeps, Tasks!Entry, Tasks!TaskStatus
<1>9. \A v \in Worker : v = w /\ wpc'[v] = "saving" /\ exec'[v] = "none"
  BY <1>1, <1>2, OneWorker
<1>10. ASSUME process = "up" PROVE Working'
  <2>1. Working
    BY <1>10 DEF TaskInv
  <2> QED BY <1>1, <1>4, <1>6, <1>7, <1>8, <1>9, <2>1 DEF Working
<1>11. ASSUME process = "stopping" PROVE Stopping'
  <2>1. Stopping
    BY <1>11 DEF TaskInv
  <2>2. exec[w] = "cancelled" /\ \A e \in late : e.status = "running"
    BY <1>1, <2>1 DEF Stopping
  <2>3. Tasks!Entry' = Tasks!Entry
    BY DEF Tasks!Entry, Tasks!TaskStatus
  <2> QED BY <1>1, <1>4, <1>6, <1>7, <1>8, <1>9, <2>1, <2>2, <2>3 DEF Stopping
<1> QED BY <1>1, <1>2, <1>3, <1>10, <1>11 DEF TaskInv

LEMMA FinishStep ==
  ASSUME TaskInv, TasksAssumption, OneWorker, NEW w \in Worker, Tasks!Finish(w)
  PROVE  TaskInv' /\ CompletedKept
<1>1. /\ wpc[w] = "saving" /\ mine' = [mine EXCEPT ![w] = None]
      /\ wpc' = [wpc EXCEPT ![w] = IF process = "up" THEN "poll" ELSE "off"]
      /\ UNCHANGED <<process, late, exec, draft, cpc, copy>>
  BY DEF Tasks!Finish, Tasks!procVars, Tasks!clientVars
<1>2. process \in {"up", "stopping"} /\ TableKept /\ ClientsFresh /\ DOMAIN wpc = Worker
  BY <1>1 DEF TaskInv, Quiet
<1>3. Keeps(w) /\ exec[w] = "none"
  BY <1>1, <1>2 DEF TaskInv, Working, Stopping
<1>4. PICK m \in Tasks!Entry :
        m = mine[w] /\ Tasks!Saved(m.id) /\ Tasks!Status(m.id) # "completed"
  BY <1>3 DEF Keeps
<1>4a. \/ Writes(m) /\ Tasks!Leave({})
       \/ MayWrite(m) /\ Tasks!Leave({m.id})
  BY <1>4, SaveWrites, RaiseWrites DEF Tasks!Finish
<1>5. TableKept' /\ CompletedKept /\ ClientsFresh'
  BY <1>1, <1>2, <1>4, <1>4a, MayKeep, ClientsUntouched DEF MayWrite
<1>6. /\ m.id \in Task /\ Tasks!Saved(m.id)'
      /\ Tasks!Status(m.id)' \in {m.status, Tasks!Status(m.id)}
      /\ \A u \in Task : u # m.id =>
           Tasks!Saved(u)' = Tasks!Saved(u) /\ Tasks!Status(u)' = Tasks!Status(u)
  BY <1>2, <1>4, <1>4a, MayKeep DEF MayWrite
<1>7. ASSUME process = "up" PROVE Working'
  <2>1. Working /\ m.status # "running"
    BY <1>1, <1>4, <1>7 DEF TaskInv, Working
  <2>2. ASSUME NEW u \in Task, Tasks!Status(u)' = "running" PROVE u \in orphaned'
    <3>1. CASE u = m.id
      <4>1. Writes(m) => Tasks!Status(m.id)' = m.status
        BY <1>2, WriteKeeps
      <4>2. Tasks!Leave({m.id})
        BY <1>4a, <2>1, <2>2, <3>1, <4>1
      <4> QED BY <2>2, <3>1, <4>2, LeftAlone
    <3>2. CASE u # m.id
      <4>1. Tasks!Status(u) = "running"
        BY <1>6, <2>2, <3>2
      <4>2. u \in orphaned
        BY <1>4, <2>1, <3>2, <4>1, OneWorker DEF Working
      <4> QED BY <1>4a, <2>2, <4>2, LeftAlone
    <3> QED BY <3>1, <3>2
  <2>3. \A v \in Worker : wpc'[v] = "poll" /\ exec'[v] = "none"
    BY <1>1, <1>2, <1>3, <1>7, OneWorker
  <2> QED BY <1>1, <2>1, <2>2, <2>3 DEF Working
<1>8. ASSUME process = "stopping" PROVE Stopping'
  <2>1. Stopping /\ m.status = "paused"
    BY <1>1, <1>4, <1>8 DEF TaskInv, Stopping
  <2>2. ASSUME NEW e \in late PROVE Tasks!Saved(e.id)' /\ Tasks!Status(e.id)' # "completed"
    <3>1. e.id \in Task /\ Tasks!Saved(e.id) /\ Tasks!Status(e.id) # "completed"
      BY <2>1 DEF Stopping, Tasks!Entry
    <3> QED BY <1>6, <2>1, <3>1
  <2>3. \A v \in Worker : wpc'[v] = "off" /\ exec'[v] = "none"
    BY <1>1, <1>2, <1>3, <1>8, OneWorker
  <2>4. Tasks!Entry' = Tasks!Entry
    BY DEF Tasks!Entry, Tasks!TaskStatus
  <2>5. late' = late /\ late \subseteq Tasks!Entry /\ \A e, f \in late : e = f
    BY <1>1, <2>1 DEF Stopping
  <2> QED BY <2>2, <2>3, <2>4, <2>5 DEF Stopping
<1>9. DOMAIN mine' = Worker /\ DOMAIN wpc' = Worker /\ UNCHANGED <<process, exec, draft, cpc, copy>>
  BY <1>1 DEF TaskInv
<1> QED BY <1>2, <1>5, <1>7, <1>8, <1>9 DEF TaskInv

\* The clients.
LEMMA SubmitStep ==
  ASSUME TaskInv, TasksAssumption, NEW c \in Client, NEW t \in Task, Tasks!SubmitCall(c, t)
  PROVE  TaskInv' /\ CompletedKept
<1>1. /\ process = "up" /\ cpc[c] \in {"idle", "typeerror"} /\ ~Tasks!Saved(t)
      /\ \A d \in Client : Holds(d) => copy[d].id # t
      /\ UNCHANGED <<process, db, orphaned, late, wpc, mine, exec, draft>>
  BY DEF Tasks!SubmitCall, Tasks!Free, Holds, Tasks!procVars, Tasks!dbVars, Tasks!workerVars
<1>2. \/ /\ \E p \in {"lookup", "insert"} : cpc' = [cpc EXCEPT ![c] = p]
         /\ copy' = [copy EXCEPT ![c] = Tasks!New(t)]
      \/ cpc' = [cpc EXCEPT ![c] = "typeerror"] /\ UNCHANGED copy
  BY DEF Tasks!SubmitCall, Tasks!Goto
<1>3. TableKept /\ ClientsFresh /\ Working /\ DOMAIN cpc = Client /\ DOMAIN copy = Client
  BY <1>1 DEF TaskInv
<1>4. \A u : Tasks!Saved(u)' = Tasks!Saved(u) /\ Tasks!Status(u)' = Tasks!Status(u)
             /\ Tasks!New(u)' = Tasks!New(u)
  BY <1>1 DEF Tasks!Saved, Tasks!Status, Tasks!New
<1>5. TableKept' /\ CompletedKept
  BY <1>1, <1>3 DEF TableKept, CompletedKept, Tasks!Saved
<1>6. Working'
  <2>1. Tasks!Entry' = Tasks!Entry /\ \A w \in Worker : Keeps(w)' = Keeps(w)
    BY <1>1, <1>4 DEF Keeps, Tasks!Entry, Tasks!TaskStatus
  <2> QED BY <1>1, <1>3, <1>4, <2>1 DEF Working
<1>7. ClientsFresh'
  <2>1. CASE cpc' = [cpc EXCEPT ![c] = "typeerror"] /\ UNCHANGED copy
    BY <1>1, <1>3, <1>4, <2>1 DEF ClientsFresh, Holds
  <2>2. CASE /\ \E p \in {"lookup", "insert"} : cpc' = [cpc EXCEPT ![c] = p]
             /\ copy' = [copy EXCEPT ![c] = Tasks!New(t)]
    <3>1. Tasks!New(t).id = t /\ Tasks!New(t) # None
      <4>1. ~Holds(c)
        BY <1>1, <1>3 DEF ClientsFresh
      <4>2. Tasks!New(t).id = t
        BY DEF Tasks!New
      <4>3. Tasks!New(t) \in Tasks!Entry
        BY SizesAssumption, TasksAssumption DEF Tasks!New, Tasks!Entry, Tasks!TaskStatus
      <4> QED BY <4>2, <4>3, TasksAssumption DEF TasksAssumption
    <3>2. /\ copy'[c] = Tasks!New(t) /\ cpc'[c] \in {"lookup", "insert"} /\ Holds(c)'
          /\ \A d \in Client \ {c} : copy'[d] = copy[d] /\ cpc'[d] = cpc[d] /\ Holds(d)' = Holds(d)
      BY <1>3, <2>2, <3>1 DEF Holds
    <3>3. ASSUME NEW a \in Client
          PROVE  /\ cpc'[a] \in {"idle", "lookup", "insert", "typeerror"}
                 /\ Holds(a)' <=> cpc'[a] \in {"lookup", "insert"}
                 /\ Holds(a)' => \E u \in Task : copy'[a] = Tasks!New(u)' /\ ~Tasks!Saved(u)'
                 /\ \A d \in Client \ {a} : Holds(a)' /\ Holds(d)' => copy'[a].id # copy'[d].id
      <4>1. CASE a = c
        BY <1>1, <1>4, <3>1, <3>2, <4>1
      <4>2. CASE a # c
        BY <1>1, <1>3, <1>4, <3>1, <3>2, <4>2 DEF ClientsFresh
      <4> QED BY <4>1, <4>2
    <3> QED BY <3>3 DEF ClientsFresh
  <2> QED BY <1>2, <2>1, <2>2
<1> QED BY <1>1, <1>2, <1>3, <1>5, <1>6, <1>7 DEF TaskInv

LEMMA LookupStep ==
  ASSUME TaskInv, NEW c \in Client, Tasks!SubmitLookup(c)
  PROVE  TaskInv' /\ CompletedKept
<1>1. /\ cpc[c] = "lookup" /\ copy' = [copy EXCEPT ![c] = None]
      /\ \E p \in {"idle", "typeerror"} : cpc' = [cpc EXCEPT ![c] = p]
      /\ UNCHANGED <<process, db, orphaned, late, wpc, mine, exec, draft>>
  BY DEF Tasks!SubmitLookup, Tasks!Goto, Tasks!procVars, Tasks!dbVars, Tasks!workerVars
<1>2. TableKept /\ ClientsFresh /\ process \in {"up", "stopping"}
      /\ DOMAIN cpc = Client /\ DOMAIN copy = Client
  BY <1>1 DEF TaskInv, Quiet
<1>3. /\ \A u : Tasks!Saved(u)' = Tasks!Saved(u) /\ Tasks!Status(u)' = Tasks!Status(u)
                /\ Tasks!New(u)' = Tasks!New(u)
      /\ Tasks!Entry' = Tasks!Entry
  BY <1>1 DEF Tasks!Saved, Tasks!Status, Tasks!New, Tasks!Entry, Tasks!TaskStatus
<1>4. TableKept' /\ CompletedKept
  BY <1>1, <1>2 DEF TableKept, CompletedKept, Tasks!Saved, Tasks!Entry, Tasks!TaskStatus
<1>5. \A w \in Worker : Keeps(w)' = Keeps(w)
  BY <1>1, <1>3 DEF Keeps
<1>6. (Working => Working') /\ (Stopping => Stopping')
  BY <1>1, <1>3, <1>5 DEF Working, Stopping
<1>7. ClientsFresh'
  <2>1. /\ copy'[c] = None /\ cpc'[c] \in {"idle", "typeerror"}
        /\ \A d \in Client \ {c} : copy'[d] = copy[d] /\ cpc'[d] = cpc[d]
    BY <1>1, <1>2
  <2> QED BY <1>2, <1>3, <2>1 DEF ClientsFresh, Holds
<1> QED BY <1>1, <1>2, <1>4, <1>6, <1>7 DEF TaskInv

\* What a client inserts is no worker's and not left of a stop.
LEMMA InsertStep ==
  ASSUME TaskInv, TasksAssumption, SizesAssumption, NEW c \in Client, Tasks!SubmitInsert(c)
  PROVE  TaskInv' /\ CompletedKept
<1>1. /\ cpc[c] = "insert" /\ copy' = [copy EXCEPT ![c] = None]
      /\ cpc' = [cpc EXCEPT ![c] = "idle"]
      /\ UNCHANGED <<process, late, wpc, mine, exec, draft>>
  BY DEF Tasks!SubmitInsert, Tasks!Goto, Tasks!procVars, Tasks!workerVars
<1>2. TableKept /\ ClientsFresh /\ process \in {"up", "stopping"}
      /\ DOMAIN cpc = Client /\ DOMAIN copy = Client
  BY <1>1 DEF TaskInv, Quiet
<1>3. PICK t \in Task : copy[c] = Tasks!New(t) /\ ~Tasks!Saved(t)
  BY <1>1, <1>2 DEF ClientsFresh
<1>4. PICK e \in Tasks!Entry : e = copy[c] /\ e.id = t /\ e.status = "queued"
  BY <1>3, SizesAssumption, TasksAssumption DEF Tasks!New, Tasks!Entry, Tasks!TaskStatus
<1>5. /\ MayWrite(e) /\ Tasks!Leave({})
      /\ Tasks!Status(e.id) = "absent" /\ ~Tasks!Saved(e.id)
  BY <1>3, <1>4, SaveWrites, RaiseWrites DEF Tasks!SubmitInsert, Tasks!Status, MayWrite
<1>6. /\ TableKept' /\ CompletedKept /\ e.id \in Task
      /\ Tasks!Status(e.id)' \in {"queued", "absent"}
      /\ \A u \in Task : u # e.id =>
           Tasks!Saved(u)' = Tasks!Saved(u) /\ Tasks!Status(u)' = Tasks!Status(u)
  BY <1>2, <1>4, <1>5, MayKeep
<1>7. /\ Tasks!Entry' = Tasks!Entry /\ \A u : Tasks!New(u)' = Tasks!New(u)
  BY DEF Tasks!New, Tasks!Entry, Tasks!TaskStatus
<1>8. ASSUME NEW w \in Worker, Keeps(w)
      PROVE  /\ Keeps(w)' /\ mine[w].id \in Task /\ mine[w].id # e.id
             /\ Tasks!Status(mine[w].id)' = Tasks!Status(mine[w].id)
  <2>1. mine[w] \in Tasks!Entry /\ mine[w].id \in Task
    BY <1>8 DEF Keeps, Tasks!Entry
  <2>2. mine[w].id # e.id /\ mine'[w] = mine[w]
    BY <1>1, <1>5, <1>8 DEF Keeps
  <2>3. Keeps(w)'
    BY <1>2, <1>4, <1>5, <1>8, <2>2, KeepsEntry
  <2>4. db'[mine[w].id] = db[mine[w].id]
    BY <1>2, <1>4, <1>5, <2>1, <2>2, MayKeep
  <2> QED BY <1>1, <2>1, <2>2, <2>3, <2>4 DEF Tasks!Status, Tasks!Saved
<1>9. ASSUME Working PROVE Working'
  <2>1. \A u \in Task : Tasks!Status(u)' = "running" => Tasks!Status(u) = "running"
    BY <1>6
  <2>2. \A u \in orphaned : Tasks!Status(u)' = "running" => u \in orphaned'
    BY <1>5, LeftAlone
  <2> QED BY <1>1, <1>7, <1>8, <1>9, <2>1, <2>2 DEF Working
<1>10. ASSUME Stopping PROVE Stopping'
  <2>1. ASSUME NEW f \in late PROVE Tasks!Saved(f.id)' /\ Tasks!Status(f.id)' # "completed"
    <3>1. f.id \in Task /\ Tasks!Saved(f.id) /\ Tasks!Status(f.id) # "completed"
      BY <1>10 DEF Stopping, Tasks!Entry
    <3> QED BY <1>5, <1>6, <3>1
  <2> QED BY <1>1, <1>7, <1>8, <1>10, <2>1 DEF Stopping
<1>11. ClientsFresh'
  <2>1. /\ copy'[c] = None /\ cpc'[c] = "idle"
        /\ \A d \in Client \ {c} : copy'[d] = copy[d] /\ cpc'[d] = cpc[d]
    BY <1>1, <1>2
  <2>2. ASSUME NEW d \in Client \ {c}, Holds(d)
        PROVE  \E u \in Task : copy[d] = Tasks!New(u) /\ ~Tasks!Saved(u)'
    <3>1. Holds(c) /\ copy[d].id # copy[c].id
      BY <1>1, <1>2, <2>2 DEF ClientsFresh
    <3>2. PICK u \in Task : copy[d] = Tasks!New(u) /\ ~Tasks!Saved(u)
      BY <1>2, <2>2 DEF ClientsFresh
    <3>3. u # e.id
      BY <1>4, <3>1, <3>2 DEF Tasks!New
    <3> QED BY <1>6, <3>2, <3>3
  <2> QED BY <1>2, <1>7, <2>1, <2>2 DEF ClientsFresh, Holds
<1> QED BY <1>1, <1>2, <1>6, <1>9, <1>10, <1>11 DEF TaskInv

LEMMA QueueStep ==
  ASSUME TaskInv, TasksAssumption, SizesAssumption, OneWorker, [Tasks!Next]_queueVars
  PROVE  TaskInv' /\ CompletedKept
<1>1. CASE UNCHANGED queueVars
  BY <1>1 DEF queueVars, TaskInv, TableKept, ClientsFresh, Holds, Quiet, Resuming, Working, Stopping,
       Keeps, Tasks!Saved, Tasks!Status, Tasks!New, Tasks!Entry, Tasks!TaskStatus, CompletedKept
<1>2. ASSUME NEW w \in Worker, Tasks!WorkerStep(w) PROVE TaskInv' /\ CompletedKept
  BY <1>2, PickStep, BeginStep, ExecEndsStep, LoadStep, CheckpointStep, CollectStep, FinishStep
     DEF Tasks!WorkerStep
<1>3. ASSUME NEW c \in Client, Tasks!ClientStep(c) PROVE TaskInv' /\ CompletedKept
  <2>1. ~Tasks!CancelSave(c) /\ ~Tasks!RetrySave(c)
    BY DEF TaskInv, ClientsFresh, Tasks!CancelSave, Tasks!RetrySave
  <2> QED BY <1>3, <2>1, LookupStep, InsertStep DEF Tasks!ClientStep
<1>4. ASSUME NEW c \in Client, Tasks!ClientCall(c) PROVE TaskInv' /\ CompletedKept
  <2>1. \A t : ~Tasks!CancelLoad(c, t) /\ ~Tasks!RetryLoad(c, t)
    BY DEF Tasks!CancelLoad, Tasks!RetryLoad
  <2> QED BY <1>4, <2>1, SubmitStep DEF Tasks!ClientCall
<1> QED BY <1>1, <1>2, <1>3, <1>4, BootStep, ResumeStep, StartStep, StopStep, EndStep, LateStep
        DEF Tasks!Next

-------------------------------------------------------------------------------
(* The parts together: a step of one is a step of the model, and the others   *)
(* stand still.                                                               *)

LEMMA StepOfParts ==
  [MCNext]_<<vars, queueVars, agentsVars, scenario>> =>
    /\ [Next]_vars /\ [Agent!AgentNext]_agentVars
    /\ [Roles!PipelineNext]_pipelineVars /\ [Flow!FlowNext]_flowVars
    /\ [Tasks!Next]_queueVars
BY DEF MCNext, IntegrationsNext, AgentsNext, agentsVars

LEMMA PartsStart == MCInit => /\ Init /\ Agent!AgentInit /\ Roles!PipelineInit /\ Flow!FlowInit
                              /\ Tasks!Init
BY DEF MCInit, AgentsInit

\* So what holds of the intake and the resolver holds of the model.
LEMMA IsSpec == MCSpec => Spec
BY StepOfParts, PartsStart, PTL DEF MCSpec, Spec

\* A run of an agent uses no tool without permission, answers the calls of a message it
\* has done with, and is over when it returns: for any limits of steps and retries, and
\* whatever the model replies.
THEOREM RunsKept == MCSpec => []AgentKept
<1>1. MCInit => AgentInv
  BY PartsStart, AgentStarts
<1>2. AgentInv /\ [MCNext]_<<vars, queueVars, agentsVars, scenario>> => AgentInv'
  BY StepOfParts, AgentStep, RepliesAssumption
<1> QED BY <1>1, <1>2, AgentKeptFollows, PTL DEF MCSpec

\* What a pipeline and a plan report agrees with what their roles and steps came to: for
\* any roles, whatever depends on what, and for plans of any length.
THEOREM ReportsKept == MCSpec => []PlansKept
<1>1. MCInit => PipelineInv /\ FlowInv
  BY PartsStart, PipelineStarts, FlowStarts
<1>2. PipelineInv /\ FlowInv /\ [MCNext]_<<vars, queueVars, agentsVars, scenario>>
        => PipelineInv' /\ FlowInv'
  BY StepOfParts, PipelineStep, FlowStep, PipelinesAssumption, PlanAssumption
<1>3. PipelineInv /\ FlowInv => PlansKept
  BY PipelineKeptFollows, RecordsAgreeFollows, PipelinesAssumption DEF PlansKept
<1> QED BY <1>1, <1>2, <1>3, PTL DEF MCSpec

\* While the queue is up a task that the table calls running is in the worker's hands, or
\* the worker has left it for want of an executor or because a write raised, and a
\* completed one stays so, over any number of stops, crashes, restarts and writes that
\* raise: for any tasks, retries and clients that submit them.
THEOREM QueueKept == MCSpec => TasksKept
<1>1. MCInit => TaskInv
  BY QueueStarts, PartsStart
<1>2. TaskInv /\ [MCNext]_<<vars, queueVars, agentsVars, scenario>> => TaskInv' /\ CompletedKept
  BY StepOfParts, QueueStep, TasksAssumption, SizesAssumption, OneWorker
<1>3. TaskInv => Tasks!RunningHasWorker
  BY DEF TaskInv, Working, Tasks!RunningHasWorker
<1>4. CompletedKept => [\A t \in Task : Tasks!Status(t) = "completed" => db'[t] = db[t]]_(Tasks!vars)
  BY DEF CompletedKept
<1> QED BY <1>1, <1>2, <1>3, <1>4, PTL DEF MCSpec, TasksKept, Tasks!CompletedStays
================================================================================
