------------------------------- MODULE LLM_proof -------------------------------
(***************************************************************************)
(* Proofs about the parts around the language model, for every chain of    *)
(* models, every set of calls and every size of a stream's buffer.  A      *)
(* behaviour of MCSpec is one of each part, whatever its scenario.         *)
(***************************************************************************)
EXTENDS MCLLM, SequenceTheorems, FunctionTheorems

\* Every part either does one of its own steps or stands still.
LEMMA Parts ==
  ASSUME [MCNext]_<<vars, partVars, scenario>>
  PROVE  /\ [Next]_vars
         /\ [F!Next]_fallbackVars
         /\ [S!Next]_streamVars
BY DEF MCNext, partVars

(* Streams.  The deltas are in the reader's hands, thrown away, or waiting. *)

Waiting(s, e) == {i \in 1..Len(s) : s[i] = e}
Count(s, e) == Cardinality(Waiting(s, e))
Item == S!Event \cup {"None"}

LEMMA WaitingFinite ==
  ASSUME NEW s \in Seq(Item), NEW e
  PROVE  IsFiniteSet(Waiting(s, e)) /\ Count(s, e) \in Nat
<1>1. Waiting(s, e) \subseteq 1..Len(s) /\ IsFiniteSet(1..Len(s))
  BY LenProperties, FS_Interval DEF Waiting
<1>2. IsFiniteSet(Waiting(s, e))
  BY <1>1, FS_Subset
<1> QED BY <1>2, FS_CardinalityType DEF Count

\* One more at the end counts if it is an e.
LEMMA CountAppend ==
  ASSUME NEW s \in Seq(Item), NEW e, NEW x \in Item
  PROVE  Count(Append(s, x), e) = Count(s, e) + (IF x = e THEN 1 ELSE 0)
<1> DEFINE t == Append(s, x)
<1>1. /\ Len(s) \in Nat /\ Len(t) = Len(s) + 1 /\ t[Len(s) + 1] = x
      /\ \A i \in 1..Len(s) : t[i] = s[i]
  BY AppendProperties, LenProperties
<1>2. CASE x = e
  <2>1. Waiting(t, e) = Waiting(s, e) \cup {Len(s) + 1} /\ Len(s) + 1 \notin Waiting(s, e)
    BY <1>1, <1>2 DEF Waiting
  <2> QED BY <1>2, <2>1, WaitingFinite, FS_AddElement DEF Count
<1>3. CASE x # e
  <2>1. Waiting(t, e) = Waiting(s, e)
    BY <1>1, <1>3 DEF Waiting
  <2> QED BY <1>3, <2>1, WaitingFinite DEF Count
<1> QED BY <1>2, <1>3

\* One less in front: the others are counted one place further on.
LEMMA CountTail ==
  ASSUME NEW s \in Seq(Item), s # <<>>, NEW e
  PROVE  Count(Tail(s), e) = Count(s, e) - (IF Head(s) = e THEN 1 ELSE 0)
<1> DEFINE t == Tail(s)
           f == [i \in Waiting(t, e) |-> i + 1]
           rest == Waiting(s, e) \ {1}
<1>1. /\ Len(s) \in Nat /\ Len(s) # 0 /\ Len(t) = Len(s) - 1 /\ t \in Seq(Item)
      /\ Head(s) = s[1] /\ \A i \in 1..Len(t) : t[i] = s[i + 1]
  BY HeadTailProperties, LenProperties, EmptySeq
<1>2. f \in Bijection(Waiting(t, e), rest)
  <2>1. f \in [Waiting(t, e) -> rest]
    BY <1>1 DEF Waiting
  <2>2. \A i, j \in Waiting(t, e) : f[i] = f[j] => i = j
    BY <1>1 DEF Waiting
  <2>3. \A j \in rest : \E i \in Waiting(t, e) : f[i] = j
    <3> TAKE j \in rest
    <3>1. j - 1 \in Waiting(t, e) /\ f[j - 1] = j
      BY <1>1 DEF Waiting
    <3> QED BY <3>1
  <2> QED BY <2>1, <2>2, <2>3, Fun_IsBij
<1>3. Cardinality(rest) = Cardinality(Waiting(t, e))
  <2>1. IsFiniteSet(Waiting(t, e))
    BY <1>1, WaitingFinite
  <2>2. ExistsBijection(Waiting(t, e), rest)
    BY <1>2, Zenon DEF ExistsBijection
  <2> QED BY <2>1, <2>2, FS_Bijection
<1>4. CASE Head(s) = e
  <2>1. 1 \in Waiting(s, e)
    BY <1>1, <1>4 DEF Waiting
  <2>2. Cardinality(rest) = Cardinality(Waiting(s, e)) - 1
    BY <2>1, WaitingFinite, FS_RemoveElement
  <2> QED BY <1>3, <1>4, <2>2 DEF Count
<1>5. CASE Head(s) # e
  <2>1. rest = Waiting(s, e)
    BY <1>1, <1>5 DEF Waiting
  <2>2. Count(Tail(s), e) = Count(s, e)
    BY <1>3, <2>1 DEF Count
  <2>3. Count(s, e) \in Nat
    BY WaitingFinite
  <2> QED BY <1>5, <2>2, <2>3
<1> QED BY <1>4, <1>5

StreamTypes ==
  /\ sync \in BOOLEAN
  /\ buffer \in Seq(Item)
  /\ applied \in Nat /\ dropped \in Nat
  /\ received \in [S!Event -> Nat]

\* What a generator without a queue never does, and what the task of the other does
\* only once it has begun and not yet ended.
StreamKinds ==
  /\ sync => /\ buffer = <<>> /\ ~cancelled
             /\ consumer \in {"new", "holding", "closed", "raised"}
             /\ producer \in {"none", "reading", "error", "done", "ended"}
  /\ cancelled => producer # "ended"
  /\ consumer = "new" => producer = "none" /\ ~cancelled

\* DONE is given once, by whoever then has nothing but None to give.
Over == producer \in IF sync THEN {"done", "ended"} ELSE {"last", "ended"}
DoneOnce ==
  /\ received["done"] \in {0, 1}
  /\ received["done"] > 0 => Over /\ \A i \in 1..Len(buffer) : buffer[i] = "None"
  /\ \A i \in 1..Len(buffer) :
       /\ buffer[i] \in {"done", "None"} => Over
       /\ buffer[i] = "done" => \A j \in (i + 1)..Len(buffer) : buffer[j] = "None"

NothingLost == applied = received["delta"] + dropped + Count(buffer, "delta")

StreamInv == StreamTypes /\ StreamKinds /\ DoneOnce /\ NothingLost

LEMMA NothingWaits == Count(<<>>, "delta") = 0
<1>1. Waiting(<<>>, "delta") = {}
  BY EmptySeq DEF Waiting
<1> QED BY <1>1, FS_EmptySet DEF Count

\* A step that leaves the queue, the result and what was received alone.
LEMMA StreamMoves ==
  ASSUME StreamInv, UNCHANGED <<sync, buffer, applied, dropped, received>>,
         Over => Over', StreamKinds'
  PROVE  StreamInv'
BY DEF StreamInv, StreamTypes, DoneOnce, NothingLost

\* The producer puts x into the queue.
LEMMA StreamPuts ==
  ASSUME StreamInv, ~Over, NEW x \in Item, buffer' = Append(buffer, x),
         UNCHANGED <<sync, dropped, received>>,
         applied' = applied + (IF x = "delta" THEN 1 ELSE 0),
         x \in {"done", "None"} => Over', StreamKinds'
  PROVE  StreamInv'
<1> USE DEF StreamInv, StreamTypes
<1>1. /\ buffer' \in Seq(Item) /\ Len(buffer') = Len(buffer) + 1 /\ Len(buffer) \in Nat
      /\ buffer'[Len(buffer) + 1] = x
      /\ \A i \in 1..Len(buffer) : buffer'[i] = buffer[i]
  BY AppendProperties, LenProperties
<1>2. received["done"] = 0 /\ \A i \in 1..Len(buffer) : buffer[i] \notin {"done", "None"}
  BY DEF DoneOnce
<1>3. DoneOnce'
  BY <1>1, <1>2 DEF DoneOnce
<1>4. NothingLost'
  <2>1. received["delta"] \in Nat /\ Count(buffer, "delta") \in Nat
    BY WaitingFinite DEF S!Event
  <2>2. Count(buffer', "delta") = Count(buffer, "delta") + (IF x = "delta" THEN 1 ELSE 0)
    BY CountAppend
  <2> QED BY <2>1, <2>2 DEF NothingLost
<1>5. StreamTypes'
  BY <1>1
<1> QED BY <1>3, <1>4, <1>5

\* None is put once DONE was: nothing before it has changed.
LEMMA NoneFollows ==
  ASSUME StreamInv, Over, buffer' = Append(buffer, "None"),
         UNCHANGED <<sync, applied, dropped, received>>, Over', StreamKinds'
  PROVE  StreamInv'
<1> USE DEF StreamInv, StreamTypes
<1>1. /\ buffer' \in Seq(Item) /\ Len(buffer') = Len(buffer) + 1 /\ Len(buffer) \in Nat
      /\ buffer'[Len(buffer) + 1] = "None"
      /\ \A i \in 1..Len(buffer) : buffer'[i] = buffer[i]
  BY AppendProperties, LenProperties DEF Item
<1>2. DoneOnce'
  BY <1>1 DEF DoneOnce
<1>3. Count(buffer', "delta") = Count(buffer, "delta") /\ Count(buffer, "delta") \in Nat
  <2>1. "None" \in Item
    BY DEF Item
  <2>2. Count(buffer', "delta") = Count(buffer, "delta") + (IF "None" = "delta" THEN 1 ELSE 0)
    BY <2>1, CountAppend
  <2>3. Count(buffer, "delta") \in Nat
    BY WaitingFinite
  <2> QED BY <2>2, <2>3
<1>4. NothingLost'
  BY <1>3 DEF NothingLost
<1> QED BY <1>1, <1>2, <1>4

\* The first of the queue is taken out: thrown away, or given to the reader.
LEMMA StreamTakes ==
  ASSUME StreamInv, buffer # <<>>, buffer' = Tail(buffer),
         UNCHANGED <<sync, applied>>, Over => Over', StreamKinds',
         \/ /\ dropped' = dropped + (IF Head(buffer) = "delta" THEN 1 ELSE 0)
            /\ UNCHANGED received /\ ~Over
         \/ /\ Head(buffer) = "None" /\ UNCHANGED <<dropped, received>>
         \/ /\ Head(buffer) # "None" /\ UNCHANGED dropped
            /\ received' = [received EXCEPT ![Head(buffer)] = @ + 1]
  PROVE  StreamInv'
<1> USE DEF StreamInv, StreamTypes, S!Event, Item
<1> DEFINE h == Head(buffer)
<1>1. /\ buffer' \in Seq(Item) /\ Len(buffer') = Len(buffer) - 1 /\ Len(buffer) \in Nat \ {0}
      /\ h = buffer[1] /\ h \in Item
      /\ \A i \in 1..Len(buffer') : buffer'[i] = buffer[i + 1]
  BY HeadTailProperties, LenProperties, EmptySeq
<1>2. /\ Count(buffer, "delta") \in Nat
      /\ Count(buffer', "delta") = Count(buffer, "delta") - (IF h = "delta" THEN 1 ELSE 0)
  BY WaitingFinite, CountTail
<1> HIDE DEF h
<1>3. StreamTypes'
  BY <1>1 DEF h
<1>4. NothingLost'
  <2>1. /\ received["delta"] \in Nat
        /\ received["delta"]' + dropped' =
             received["delta"] + dropped + (IF h = "delta" THEN 1 ELSE 0)
    BY DEF h
  <2> QED BY <1>2, <2>1 DEF NothingLost
<1>5. DoneOnce'
  <2>1. \A i \in 1..Len(buffer') : /\ buffer'[i] \in {"done", "None"} => Over'
                                  /\ buffer'[i] = "done" =>
                                       \A j \in (i + 1)..Len(buffer') : buffer'[j] = "None"
    BY <1>1 DEF DoneOnce
  <2>2. CASE h = "done"
    <3>1. Over /\ received["done"] = 0 /\ \A i \in 1..Len(buffer') : buffer'[i] = "None"
      <4>1. 1 \in 1..Len(buffer) /\ buffer[1] = "done"
        BY <1>1, <2>2
      <4>2. Over /\ \A j \in 2..Len(buffer) : buffer[j] = "None"
        BY <4>1 DEF DoneOnce
      <4>3. received["done"] = 0
        BY <4>1 DEF DoneOnce
      <4> QED BY <1>1, <4>2, <4>3
    <3>2. received'["done"] = 1
      BY <2>2, <3>1, <1>1 DEF h, DoneOnce
    <3> QED BY <2>1, <3>1, <3>2 DEF DoneOnce
  <2>3. CASE h # "done"
    <3>1. received'["done"] = received["done"]
      BY <2>3, <1>1 DEF h
    <3> QED BY <1>1, <2>1, <3>1 DEF DoneOnce
  <2> QED BY <2>2, <2>3
<1> QED BY <1>3, <1>4, <1>5

LEMMA StreamStep ==
  ASSUME StreamInv, [S!Next]_streamVars
  PROVE  StreamInv'
<1> USE DEF StreamInv
<1>1. ASSUME S!Producing, UNCHANGED S!kindVars PROVE StreamInv'
  <2>0. /\ applied \in Nat /\ applied + 0 = applied
        /\ "start" \in Item /\ "delta" \in Item /\ "error" \in Item /\ "done" \in Item
    BY DEF StreamTypes, Item, S!Event
  <2>1. CASE S!Start
    <3>1. /\ ~Over /\ StreamKinds' /\ buffer' = Append(buffer, "start")
          /\ UNCHANGED <<sync, dropped, received>> /\ ("start" = "done" => Over')
      BY <1>1, <2>1 DEF S!Start, S!Producing, S!kindVars, Over, StreamKinds
    <3>2. applied' = applied + (IF "start" = "delta" THEN 1 ELSE 0)
      BY <2>0, <2>1 DEF S!Start
    <3> QED BY <2>0, <3>1, <3>2, StreamPuts
  <2>2. CASE S!Chunk \/ S!StreamFails \/ S!NextChunk \/ S!Drained
    BY <1>1, <2>2, StreamMoves
       DEF S!Chunk, S!StreamFails, S!NextChunk, S!Drained, S!Producing, S!kindVars, Over, StreamKinds
  <2>3. CASE S!Backpressure
    <3>1. StreamKinds' /\ ~Over /\ ~Over'
      BY <1>1, <2>3 DEF S!Backpressure, S!Producing, S!kindVars, Over, StreamKinds
    <3>2. CASE UNCHANGED <<buffer, dropped>>
      BY <1>1, <2>3, <3>1, <3>2, StreamMoves DEF S!Backpressure, S!kindVars
    <3>3. CASE ~UNCHANGED <<buffer, dropped>>
      <4>1. /\ buffer # <<>> /\ buffer' = Tail(buffer)
            /\ dropped' = dropped + (IF Head(buffer) = "delta" THEN 1 ELSE 0)
            /\ UNCHANGED <<applied, received>>
        BY <2>3, <3>3 DEF S!Backpressure
      <4> QED BY <1>1, <3>1, <4>1, StreamTakes DEF S!kindVars
    <3> QED BY <3>2, <3>3
  <2>4. CASE S!Put
    <3>1. /\ ~Over /\ StreamKinds' /\ buffer' = Append(buffer, "delta")
          /\ UNCHANGED <<sync, dropped, received>> /\ ("delta" = "done" => Over')
      BY <1>1, <2>4 DEF S!Put, S!Producing, S!kindVars, Over, StreamKinds
    <3>2. applied' = applied + (IF "delta" = "delta" THEN 1 ELSE 0)
      BY <2>0, <2>4 DEF S!Put
    <3> QED BY <2>0, <3>1, <3>2, StreamPuts
  <2>5. CASE S!PutError
    <3>1. /\ ~Over /\ StreamKinds' /\ buffer' = Append(buffer, "error")
          /\ UNCHANGED <<sync, dropped, received>> /\ ("error" = "done" => Over')
      BY <1>1, <2>5 DEF S!PutError, S!Producing, S!kindVars, Over, StreamKinds
    <3>2. applied' = applied + (IF "error" = "delta" THEN 1 ELSE 0)
      BY <2>0, <2>5 DEF S!PutError
    <3> QED BY <2>0, <3>1, <3>2, StreamPuts
  <2>6. CASE S!PutDone
    <3>1. /\ ~Over /\ StreamKinds' /\ buffer' = Append(buffer, "done")
          /\ UNCHANGED <<sync, dropped, received>> /\ ("done" = "done" => Over')
      BY <1>1, <2>6 DEF S!PutDone, S!Producing, S!kindVars, Over, StreamKinds
    <3>2. applied' = applied + (IF "done" = "delta" THEN 1 ELSE 0)
      BY <2>0, <2>6 DEF S!PutDone
    <3> QED BY <2>0, <3>1, <3>2, StreamPuts
  <2>7. CASE S!PutNone
    BY <1>1, <2>7, NoneFollows DEF S!PutNone, S!Producing, S!kindVars, Over, StreamKinds
  <2> QED BY <1>1, <2>1, <2>2, <2>3, <2>4, <2>5, <2>6, <2>7 DEF S!Producing
<1>2. ASSUME S!Unwind \/ S!Iterate \/ S!Continue \/ S!Close \/ S!Closed, UNCHANGED S!kindVars
      PROVE  StreamInv'
  BY <1>2, StreamMoves
     DEF S!Unwind, S!Iterate, S!Continue, S!Close, S!Closed, S!kindVars, Over, StreamKinds, StreamTypes
<1>3. ASSUME S!Receive, UNCHANGED S!kindVars PROVE StreamInv'
  <2>1. StreamKinds' /\ (Over => Over')
    BY <1>3 DEF S!Receive, S!kindVars, Over, StreamKinds, StreamTypes
  <2> QED BY <1>3, <2>1, StreamTakes DEF S!Receive, S!kindVars
<1>4. ASSUME S!SyncStart \/ S!SyncReads \/ S!SyncClose, UNCHANGED S!kindVars PROVE StreamInv'
  <2>1. sync /\ buffer = <<>> /\ ~cancelled
    BY <1>4 DEF S!SyncStart, S!SyncReads, S!SyncClose, S!SyncChunk, S!SyncDelta, S!SyncFails,
                S!SyncDone, S!SyncEnds, S!Holding, StreamKinds
  <2>2. CASE S!SyncStart \/ S!SyncDelta \/ S!SyncFails \/ S!SyncDone
    <3>1. StreamKinds' /\ ~Over /\ buffer' = <<>>
      BY <1>4, <2>1, <2>2 DEF S!SyncStart, S!SyncDelta, S!SyncFails, S!SyncDone, S!Yield, S!Holding,
                              S!kindVars, Over, StreamKinds
    <3>2. StreamTypes' /\ Count(buffer', "delta") = Count(buffer, "delta")
      BY <1>4, <2>1, <2>2, <3>1, EmptySeq
         DEF S!SyncStart, S!SyncDelta, S!SyncFails, S!SyncDone, S!Yield, S!kindVars, StreamTypes,
             S!Event
    <3>3. Count(buffer, "delta") = 0
      BY <2>1, NothingWaits
    <3>4. NothingLost'
      <4>1. applied = received["delta"] + dropped
        BY <3>3 DEF StreamInv, NothingLost, StreamTypes, S!Event
      <4>2. applied' = received'["delta"] + dropped'
        BY <2>2, <4>1 DEF S!SyncStart, S!SyncDelta, S!SyncFails, S!SyncDone, S!Yield, StreamInv,
                          StreamTypes, S!Event
      <4> QED BY <3>2, <3>3, <4>2 DEF NothingLost, StreamTypes, S!Event
    <3>5. DoneOnce'
      BY <1>4, <2>1, <2>2, <3>1 DEF S!SyncStart, S!SyncDelta, S!SyncFails, S!SyncDone, S!Yield,
           S!kindVars, DoneOnce, Over, StreamTypes, S!Event
    <3> QED BY <3>1, <3>2, <3>4, <3>5
  <2>3. CASE S!SyncChunk \/ S!SyncEnds \/ S!SyncClose
    BY <1>4, <2>1, <2>3, StreamMoves
       DEF S!SyncChunk, S!SyncEnds, S!SyncClose, S!Holding, S!kindVars, Over, StreamKinds
  <2> QED BY <1>4, <2>2, <2>3 DEF S!SyncReads
<1>5. CASE UNCHANGED streamVars
  BY <1>5, StreamMoves DEF streamVars, Over, StreamKinds
<1> QED BY <1>1, <1>2, <1>3, <1>4, <1>5 DEF S!Next, S!vars, streamVars, S!kindVars

\* DONE comes once and last, and the result sent along with it holds every delta that
\* was received or dropped, whatever the size of the queue and the pace of its two ends
\* (lines 329-411 and 574-589), or without a queue (734-783).
THEOREM DoneEnds == MCSpec => []DoneIsFinal
<1>1. MCInit => StreamInv
  <2> SUFFICES ASSUME MCInit PROVE StreamInv
    OBVIOUS
  <2>1. S!Init
    BY DEF MCInit
  <2>2. buffer = <<>> /\ <<>> \in Seq(Item) /\ Len(<<>>) = 0
    BY <2>1, EmptySeq DEF S!Init
  <2>3. StreamTypes /\ StreamKinds /\ DoneOnce
    BY <2>1, <2>2 DEF S!Init, StreamTypes, StreamKinds, DoneOnce, S!Event
  <2>4. NothingLost
    BY <2>1, <2>2, NothingWaits DEF S!Init, NothingLost, S!Event
  <2> QED BY <2>3, <2>4 DEF StreamInv
<1>2. StreamInv /\ [MCNext]_<<vars, partVars, scenario>> => StreamInv'
  BY Parts, StreamStep
<1>3. StreamInv => DoneIsFinal
  <2> SUFFICES ASSUME StreamInv, received["done"] > 0 PROVE S!DoneIsFinal
    BY DEF DoneIsFinal, S!DoneIsFinal
  <2>1. received["done"] = 1 /\ \A i \in 1..Len(buffer) : buffer[i] = "None"
    BY DEF StreamInv, DoneOnce
  <2>2. Waiting(buffer, "delta") = {}
    BY <2>1 DEF Waiting
  <2>3. Count(buffer, "delta") = 0
    BY <2>2, FS_EmptySet DEF Count
  <2>4. applied = received["delta"] + dropped
    BY <2>3 DEF StreamInv, NothingLost, StreamTypes, S!Event
  <2>5. DOMAIN buffer = 1..Len(buffer)
    BY DEF StreamInv, StreamTypes
  <2> QED BY <2>1, <2>4, <2>5 DEF S!DoneIsFinal
<1> QED BY <1>1, <1>2, <1>3, PTL DEF MCSpec
-------------------------------------------------------------------------------
(* The fallback chain.                                                          *)

Position == 1..Len(Chain)

FallbackTypes ==
  /\ fpc \in [Call -> {"new", "turning", "calling", "sleeping", "done"}]
  /\ at \in [Call -> Nat]
  /\ DOMAIN last = Call /\ DOMAIN outcome = Call /\ DOMAIN asked = Call
  /\ DOMAIN retries = Call
  /\ state \in [Call -> Nat] /\ gen \in [F!Model -> Nat]

Active(c) == fpc[c] \in {"calling", "sleeping"}

\* A call has asked every model before the one of its turn; one that ends with a rate
\* limit or a full context has asked them all.
TriedInv ==
  \A c \in Call :
    /\ asked[c] \subseteq F!Model
    /\ Active(c) => at[c] \in Position /\ \A k \in 1..at[c] : Chain[k] \in asked[c]
    /\ fpc[c] = "turning" =>
         at[c] \in 1..(Len(Chain) + 1) /\ \A k \in 1..(at[c] - 1) : Chain[k] \in asked[c]
    /\ outcome[c] # "none" => fpc[c] = "done"
    /\ F!GoesOn(c, last[c]) /\ outcome[c] \notin {"none", "ok"} => asked[c] = F!Model

LEMMA ChainType == Len(Chain) \in Nat /\ F!Model = {Chain[i] : i \in Position}
BY ChainAssumption, LenProperties DEF F!Model, Position

\* The classification chain of lines 82-155, 176-214 and 459-475 keeps what the triggers
\* know of a rate limit and of a full context; the built-in clients but one raise them as
\* they are.
LEMMA LimitsFallBack ==
  ASSUME NEW c, NEW e, F!GoesOn(c, e), NEW seen \in F!Seen(c, e)
  PROVE  F!ShouldFallback(seen)
<1> USE DEF F!ShouldFallback, F!Seen, F!Raised, F!DoChatRaises, F!ClassifyError, F!Triggers, F!GoesOn
<1>1. F!MapProviderException("RATE_LIMIT") = "RateLimitError"
  BY DEF F!MapProviderException
<1>2. F!MapProviderException("CONTEXT_WINDOW") = "TokenLimitExceeded"
  BY DEF F!MapProviderException, F!Retryable
<1>3. CASE e = "RATE_LIMIT"
  BY <1>1, <1>3
<1>4. CASE e = "CONTEXT_WINDOW"
  BY <1>2, <1>4
<1> QED BY <1>3, <1>4

LEMMA Earliest ==
  ASSUME NEW T \in SUBSET Nat, T # {}
  PROVE  \E m \in T : \A k \in T : m <= k
<1>1. PICK m \in T : \A n \in T : <<n, m>> \notin OpToRel(<, Nat)
  BY WFMin, NatLessThanWellFounded, Zenon
<1>2. \A n \in T : ~(n < m)
  BY <1>1, Zenon DEF OpToRel
<1> QED BY <1>2

\* The next model that is not in cooldown comes after models that are.
LEMMA NextFree ==
  ASSUME NEW i \in 1..(Len(Chain) + 1), NEW busy, NEW j, j = F!FirstFree(i, busy)
  PROVE  \/ j = 0 /\ \A k \in i..Len(Chain) : Chain[k] \in busy
         \/ j \in i..Len(Chain) /\ Chain[j] \notin busy
<1> DEFINE free == {k \in i..Len(Chain) : Chain[k] \notin busy}
<1>1. CASE free = {}
  BY <1>1 DEF F!FirstFree
<1>2. CASE free # {}
  <2>1. free \in SUBSET Nat
    BY ChainType
  <2>2. \E m \in free : \A k \in free : m <= k
    BY <1>2, <2>1, Earliest
  <2>3. j = CHOOSE m \in free : \A k \in free : m <= k
    BY <1>2 DEF F!FirstFree
  <2>4. j \in free
    BY <2>2, <2>3
  <2> QED BY <2>4
<1> QED BY <1>1, <1>2

\* A call goes along the chain from position i on, having asked what comes before.
LEMMA TurnTries ==
  ASSUME FallbackTypes, TriedInv, NEW c \in Call, NEW i \in 1..(Len(Chain) + 1), NEW busy, NEW error,
         F!Turn(c, i, busy, error) \/ F!ThreadTurns(c, i),
         \A k \in 1..(i - 1) : Chain[k] \in asked[c], outcome[c] = "none", error # "none",
         client' = client, \A d \in Call \ {c} : last'[d] = last[d]
  PROVE  TriedInv'
<1> USE ChainType DEF FallbackTypes, Position
<1>1. CASE F!ThreadTurns(c, i)
  BY <1>1 DEF F!ThreadTurns, TriedInv, Active, F!GoesOn, F!BuiltIn
<1>2. CASE F!Turn(c, i, busy, error)
  <2> DEFINE j == F!FirstFree(i, busy)
             more == {Chain[k] : k \in i..(IF j = 0 THEN Len(Chain) ELSE j)}
  <2>1. \/ j = 0
        \/ j \in i..Len(Chain)
    BY NextFree
  <2>2. asked' = [asked EXCEPT ![c] = @ \cup more]
    BY <1>2 DEF F!Turn
  <2>3. asked'[c] \subseteq F!Model
    BY <2>1, <2>2 DEF TriedInv
  <2>4. CASE j = 0
    <3>1. asked'[c] = F!Model
      <4>1. asked'[c] = asked[c] \cup {Chain[n] : n \in i..Len(Chain)}
        BY <2>2, <2>4
      <4> HIDE DEF j, more
      <4>2. ASSUME NEW k \in 1..Len(Chain) PROVE Chain[k] \in asked'[c]
        <5>1. CASE k < i
          <6>1. k \in 1..(i - 1)
            BY <5>1
          <6> QED BY <4>1, <6>1
        <5>2. CASE i <= k
          <6>1. k \in i..Len(Chain)
            BY <5>2
          <6> QED BY <4>1, <6>1
        <5> QED BY <5>1, <5>2
      <4> QED BY <2>3, <4>2
    <3>2. fpc' = [fpc EXCEPT ![c] = "done"] /\ outcome' = [outcome EXCEPT ![c] = error] /\ at' = at
      BY <1>2, <2>4 DEF F!Turn
    <3> QED BY <2>2, <3>1, <3>2 DEF TriedInv, Active, F!GoesOn, F!BuiltIn
  <2>5. CASE j # 0
    <3>1. fpc' = [fpc EXCEPT ![c] = "calling"] /\ at' = [at EXCEPT ![c] = j] /\ outcome' = outcome
      BY <1>2, <2>5 DEF F!Turn
    <3>2. ASSUME NEW k \in 1..j PROVE Chain[k] \in asked'[c]
      <4>1. j \in Nat /\ asked'[c] = asked[c] \cup {Chain[n] : n \in i..j}
        BY <2>1, <2>2, <2>5
      <4> HIDE DEF j, more
      <4>2. CASE k < i
        <5>1. k \in 1..(i - 1)
          BY <4>1, <4>2
        <5> QED BY <4>1, <5>1
      <4>3. CASE i <= k
        <5>1. k \in i..j
          BY <4>1, <4>3
        <5> QED BY <4>1, <5>1
      <4> QED BY <4>1, <4>2, <4>3
    <3> QED BY <2>1, <2>2, <2>3, <2>5, <3>1, <3>2 DEF TriedInv, Active, F!GoesOn, F!BuiltIn
  <2> QED BY <2>4, <2>5
<1> QED BY <1>1, <1>2

\* The types, and what GivesUp() does with the call itself.
LEMMA GivesUpTries ==
  ASSUME FallbackTypes, TriedInv, NEW c \in Call, NEW e, F!GivesUp(c, e), Active(c),
         last'[c] = e, client' = client, \A d \in Call \ {c} : last'[d] = last[d]
  PROVE  TriedInv'
<1> USE ChainType DEF FallbackTypes, Position
<1> DEFINE error == F!Raised(c, e)
<1>1. /\ at[c] \in Position /\ outcome[c] = "none"
      /\ \A k \in 1..at[c] : Chain[k] \in asked[c]
  BY DEF TriedInv, Active
<1>2. error # "none"
  BY DEF F!Raised, F!DoChatRaises, F!MapProviderException
<1>0. PICK seen \in F!Seen(c, e) :
        IF F!ShouldFallback(seen)
        THEN \E busy : F!GoesAlong(c, at[c] + 1, busy, error)
        ELSE /\ fpc' = [fpc EXCEPT ![c] = "done"] /\ outcome' = [outcome EXCEPT ![c] = error]
             /\ UNCHANGED <<at, asked>>
  BY DEF F!GivesUp
<1>3. CASE F!ShouldFallback(seen)
  <2>1. PICK busy : F!GoesAlong(c, at[c] + 1, busy, error)
    BY <1>0, <1>3
  <2>2. F!Turn(c, at[c] + 1, busy, error) \/ F!ThreadTurns(c, at[c] + 1)
    BY <2>1 DEF F!GoesAlong
  <2>3. at[c] + 1 \in 1..(Len(Chain) + 1) /\ \A k \in 1..((at[c] + 1) - 1) : Chain[k] \in asked[c]
    BY <1>1
  <2> HIDE DEF error
  <2> QED BY <1>1, <1>2, <2>2, <2>3, TurnTries
<1>4. CASE ~F!ShouldFallback(seen)
  <2>1. ~F!GoesOn(c, e)
    BY <1>4, LimitsFallBack
  <2>2. /\ fpc' = [fpc EXCEPT ![c] = "done"] /\ outcome' = [outcome EXCEPT ![c] = error]
        /\ UNCHANGED <<at, asked>>
    BY <1>0, <1>4
  <2> QED BY <1>1, <2>1, <2>2 DEF TriedInv, Active, F!GoesOn, F!BuiltIn
<1> QED BY <1>3, <1>4

LEMMA OneMore ==
  ASSUME NEW D, NEW f \in [D -> Nat], NEW d \in D
  PROVE  [f EXCEPT ![d] = f[d] + 1] \in [D -> Nat]
OBVIOUS

LEMMA FallbackTypeStep ==
  ASSUME FallbackTypes, TriedInv, [F!Next]_fallbackVars
  PROVE  FallbackTypes'
<1> USE ChainType DEF FallbackTypes, Position
<1> DEFINE Moved ==
      /\ fpc' \in [Call -> {"new", "turning", "calling", "sleeping", "done"}]
      /\ at' \in [Call -> Nat] /\ DOMAIN outcome' = Call /\ DOMAIN asked' = Call
      /\ DOMAIN retries' = Call /\ state' \in [Call -> Nat]
<1>1. ASSUME NEW c \in Call, NEW i \in Nat, i # 0, i <= Len(Chain) + 1, NEW busy, NEW error,
             F!GoesAlong(c, i, busy, error)
      PROVE  Moved
  <2>1. CASE F!ThreadTurns(c, i)
    BY <1>1, <2>1 DEF F!ThreadTurns
  <2>2. CASE F!Turn(c, i, busy, error)
    <3> DEFINE j == F!FirstFree(i, busy)
    <3>1. j = 0 \/ j \in Position
      <4>1. i \in 1..(Len(Chain) + 1)
        BY <1>1
      <4> HIDE DEF j
      <4>2. \A free : free = j => free = 0 \/ free \in i..Len(Chain)
        BY <4>1, NextFree DEF j
      <4> QED BY <4>1, <4>2
    <3>2. DOMAIN asked' = Call
      BY <2>2 DEF F!Turn
    <3>3. CASE j = 0
      BY <2>2, <3>2, <3>3 DEF F!Turn
    <3>4. CASE j # 0
      <4>1. gen[Chain[j]] \in Nat /\ j \in Nat
        BY <3>1, <3>4
      <4>2. /\ fpc' = [fpc EXCEPT ![c] = "calling"] /\ at' = [at EXCEPT ![c] = j]
            /\ retries' = [retries EXCEPT ![c] = 0]
            /\ state' = [state EXCEPT ![c] = gen[Chain[j]]] /\ outcome' = outcome
        BY <2>2, <3>4 DEF F!Turn
      <4> QED BY <3>2, <4>1, <4>2
    <3> QED BY <3>3, <3>4
  <2> QED BY <1>1, <2>1, <2>2 DEF F!GoesAlong
<1>2. ASSUME NEW c \in Call, NEW e, F!GivesUp(c, e), Active(c), gen' = gen, DOMAIN last' = Call
      PROVE  FallbackTypes'
  <2> DEFINE error == F!Raised(c, e)
  <2>1. at[c] \in Position
    BY <1>2 DEF TriedInv
  <2>2. CASE \E busy : F!GoesAlong(c, at[c] + 1, busy, error)
    <3>1. PICK busy : F!GoesAlong(c, at[c] + 1, busy, error)
      BY <2>2
    <3>2. at[c] + 1 \in Nat /\ at[c] + 1 # 0 /\ at[c] + 1 <= Len(Chain) + 1
      BY <2>1
    <3> HIDE DEF error, Moved
    <3>3. Moved
      BY <1>1, <3>1, <3>2
    <3> QED BY <1>2, <3>3 DEF Moved
  <2>3. CASE /\ fpc' = [fpc EXCEPT ![c] = "done"] /\ outcome' = [outcome EXCEPT ![c] = error]
             /\ UNCHANGED <<at, retries, state, asked>>
    BY <1>2, <2>3
  <2> QED BY <1>2, <2>2, <2>3 DEF F!GivesUp
<1>3. ASSUME NEW c \in Call, F!Chat(c) PROVE FallbackTypes'
  <2>1. F!GoesAlong(c, 1, fcooled, "NonRetryableError") /\ UNCHANGED <<last, gen>>
    BY <1>3 DEF F!Chat
  <2>2. 1 \in Nat /\ 1 # 0 /\ 1 <= Len(Chain) + 1
    OBVIOUS
  <2> HIDE DEF Moved
  <2>3. Moved
    BY <1>1, <2>1, <2>2
  <2> QED BY <2>1, <2>3 DEF Moved
<1>4. ASSUME NEW c \in Call, F!Succeeds(c) PROVE FallbackTypes'
  BY <1>4 DEF F!Succeeds
<1>5. ASSUME NEW c \in Call, F!Wakes(c) PROVE FallbackTypes'
  <2>1. CASE F!GivesUp(c, last[c])
    BY <1>2, <1>5, <2>1 DEF F!Wakes, Active
  <2>2. CASE ~F!GivesUp(c, last[c])
    BY <1>5, <2>2 DEF F!Wakes
  <2> QED BY <2>1, <2>2
<1>6. ASSUME NEW c \in Call, F!ThreadLooks(c) PROVE FallbackTypes'
  <2>1. at[c] \in 1..(Len(Chain) + 1) /\ at[c] + 1 \in Nat
    BY <1>6 DEF F!ThreadLooks, TriedInv
  <2>2. at[c] <= Len(Chain) => gen[Chain[at[c]]] \in Nat
    BY <2>1
  <2>3. CASE at[c] > Len(Chain)
    BY <1>6, <2>1, <2>3 DEF F!ThreadLooks
  <2>4. CASE at[c] <= Len(Chain)
    <3>1. DOMAIN asked' = Call /\ outcome' = outcome /\ UNCHANGED <<last, gen>>
      BY <1>6, <2>1, <2>4 DEF F!ThreadLooks
    <3>2. CASE at' = [at EXCEPT ![c] = @ + 1] /\ UNCHANGED <<fpc, retries, state>>
      BY <2>1, <3>1, <3>2
    <3>3. CASE /\ fpc' = [fpc EXCEPT ![c] = "calling"] /\ at' = at
               /\ retries' = [retries EXCEPT ![c] = 0]
               /\ state' = [state EXCEPT ![c] = gen[Chain[at[c]]]]
      BY <2>2, <2>4, <3>1, <3>3
    <3> QED BY <1>6, <2>1, <2>4, <3>2, <3>3 DEF F!ThreadLooks
  <2> QED BY <2>1, <2>3, <2>4
<1>7. ASSUME NEW c \in Call, NEW e \in Errors, F!RequestFails(c, e) PROVE FallbackTypes'
  <2>1. fpc[c] = "calling" /\ DOMAIN last' = Call /\ gen' = gen
    BY <1>7 DEF F!RequestFails
  <2>2. CASE F!GivesUp(c, e)
    BY <1>2, <2>1, <2>2 DEF Active
  <2>3. CASE ~F!GivesUp(c, e)
    BY <1>7, <2>1, <2>3 DEF F!RequestFails
  <2> QED BY <2>2, <2>3
<1>8. ASSUME NEW m \in F!Model, F!ResetModel(m) \/ F!Recovers(m) PROVE FallbackTypes'
  <2>1. UNCHANGED <<fpc, at, last, retries, state, outcome, asked>>
    BY <1>8 DEF F!ResetModel, F!Recovers
  <2>2. gen' \in [F!Model -> Nat]
    <3> DEFINE more == [gen EXCEPT ![m] = gen[m] + 1]
    <3>1. more \in [F!Model -> Nat]
      BY OneMore
    <3>2. gen' = more \/ gen' = gen
      BY <1>8 DEF F!ResetModel, F!Recovers
    <3> QED BY <3>1, <3>2
  <2> QED BY <2>1, <2>2
<1>9. CASE UNCHANGED fallbackVars
  BY <1>9 DEF fallbackVars
<1> QED BY <1>3, <1>4, <1>5, <1>6, <1>7, <1>8, <1>9 DEF F!Next, F!Progress, F!vars, fallbackVars

LEMMA TriedStep ==
  ASSUME FallbackTypes, TriedInv, [F!Next]_fallbackVars
  PROVE  TriedInv'
<1> USE ChainType DEF FallbackTypes, Position
<1>0. client' = client
  BY DEF fallbackVars, F!Next, F!Progress, F!Chat, F!Succeeds, F!Wakes, F!ThreadLooks, F!RequestFails,
         F!ResetModel, F!Recovers
<1>1. ASSUME NEW c \in Call, F!Chat(c) PROVE TriedInv'
  <2>1. /\ F!Turn(c, 1, fcooled, "NonRetryableError") \/ F!ThreadTurns(c, 1)
        /\ fpc[c] = "new" /\ last' = last
    BY <1>1 DEF F!Chat, F!GoesAlong
  <2>2. outcome[c] = "none" /\ 1 \in 1..(Len(Chain) + 1)
    BY <2>1 DEF TriedInv
  <2>3. \A k \in 1..(1 - 1) : Chain[k] \in asked[c]
    OBVIOUS
  <2> QED BY <1>0, <2>1, <2>2, <2>3, TurnTries
<1>2. ASSUME NEW c \in Call, F!Succeeds(c) PROVE TriedInv'
  BY <1>0, <1>2 DEF F!Succeeds, TriedInv, Active, F!GoesOn, F!BuiltIn
<1>3. ASSUME NEW c \in Call, F!Wakes(c) PROVE TriedInv'
  <2>1. CASE F!GivesUp(c, last[c])
    <3>1. Active(c) /\ last' = last
      BY <1>3 DEF F!Wakes, Active
    <3> QED BY <1>0, <2>1, <3>1, GivesUpTries
  <2>2. CASE ~F!GivesUp(c, last[c])
    BY <1>0, <1>3, <2>2 DEF F!Wakes, TriedInv, Active, F!GoesOn, F!BuiltIn
  <2> QED BY <2>1, <2>2
<1>4. ASSUME NEW c \in Call, F!ThreadLooks(c) PROVE TriedInv'
  <2> DEFINE m == Chain[at[c]]
  <2>1. /\ fpc[c] = "turning" /\ last' = last /\ at[c] \in 1..(Len(Chain) + 1)
        /\ \A k \in 1..(at[c] - 1) : Chain[k] \in asked[c]
        /\ asked[c] \subseteq F!Model /\ outcome[c] = "none"
    BY <1>4 DEF F!ThreadLooks, TriedInv
  <2>2. CASE at[c] > Len(Chain)
    <3>1. asked[c] = F!Model
      BY <2>1, <2>2
    <3>2. /\ fpc' = [fpc EXCEPT ![c] = "done"] /\ UNCHANGED <<at, asked>>
          /\ outcome' = [outcome EXCEPT ![c] = F!ThreadError(c)]
      BY <1>4, <2>2 DEF F!ThreadLooks
    <3> QED BY <1>0, <2>1, <3>1, <3>2 DEF TriedInv, Active, F!GoesOn, F!BuiltIn
  <2>3. CASE at[c] <= Len(Chain)
    <3>1. /\ asked' = [asked EXCEPT ![c] = @ \cup {m}] /\ outcome' = outcome
          /\ \/ at' = [at EXCEPT ![c] = @ + 1] /\ fpc' = fpc
             \/ at' = at /\ fpc' = [fpc EXCEPT ![c] = "calling"]
      BY <1>4, <2>1, <2>3 DEF F!ThreadLooks
    <3>2. m \in F!Model
      BY <2>1, <2>3
    <3>3. asked'[c] = asked[c] \cup {m}
      BY <3>1
    <3>4. ASSUME NEW k \in 1..at[c] PROVE Chain[k] \in asked'[c]
      <4>1. CASE k = at[c]
        BY <3>3, <4>1
      <4>2. CASE k # at[c]
        <5>1. k \in 1..(at[c] - 1)
          BY <2>1, <4>2
        <5> QED BY <2>1, <3>3, <5>1
      <4> QED BY <4>1, <4>2
    <3> QED BY <1>0, <2>1, <2>3, <3>1, <3>2, <3>4 DEF TriedInv, Active, F!GoesOn, F!BuiltIn
  <2> QED BY <2>1, <2>2, <2>3
<1>5. ASSUME NEW c \in Call, NEW e \in Errors, F!RequestFails(c, e) PROVE TriedInv'
  <2>1. Active(c) /\ last' = [last EXCEPT ![c] = e] /\ fpc[c] = "calling"
    BY <1>5 DEF F!RequestFails, Active
  <2>2. CASE F!GivesUp(c, e)
    BY <1>0, <2>1, <2>2, GivesUpTries
  <2>3. CASE ~F!GivesUp(c, e)
    BY <1>0, <1>5, <2>1, <2>3 DEF F!RequestFails, TriedInv, Active, F!GoesOn, F!BuiltIn
  <2> QED BY <2>2, <2>3
<1>6. ASSUME NEW m \in F!Model, F!ResetModel(m) \/ F!Recovers(m) PROVE TriedInv'
  BY <1>0, <1>6 DEF F!ResetModel, F!Recovers, TriedInv, Active, F!GoesOn, F!BuiltIn
<1>7. CASE UNCHANGED fallbackVars
  BY <1>0, <1>7 DEF fallbackVars, TriedInv, Active, F!GoesOn, F!BuiltIn
<1> QED BY <1>1, <1>2, <1>3, <1>4, <1>5, <1>6, <1>7 DEF F!Next, F!Progress, F!vars, fallbackVars

LEMMA FallbackInit ==
  ASSUME MCInit
  PROVE  FallbackTypes /\ TriedInv
BY DEF MCInit, F!Init, FallbackTypes, TriedInv, Active

\* A call that fails with a rate limit or a full context has gone along the whole chain,
\* for every chain and any number of calls, in the event loop and in threads (376-463 and
\* 487-563), with litellm and, but for a rate limit of UniversalClient, without.
THEOREM TriesAll == MCSpec => []ChainTried
<1>1. FallbackTypes /\ TriedInv /\ [MCNext]_<<vars, partVars, scenario>> => (FallbackTypes /\ TriedInv)'
  BY Parts, FallbackTypeStep, TriedStep
<1>2. TriedInv => ChainTried
  BY DEF TriedInv, ChainTried, F!ChainTried, F!Failed
<1> QED BY FallbackInit, <1>1, <1>2, PTL DEF MCSpec
-------------------------------------------------------------------------------
(* Cooldowns of models.                                                         *)

\* A resting model is set aside or excused, and whoever can still clear its state, being
\* in its hands, was asking it when it failed.
CoolInv ==
  /\ DOMAIN fholders = F!Model
  /\ fresting \subseteq fcooled \cup fexcused
  /\ \A c \in Call : Active(c) =>
       /\ state[c] <= gen[Chain[at[c]]]
       /\ state[c] = gen[Chain[at[c]]] /\ Chain[at[c]] \in fresting =>
            c \in fholders[Chain[at[c]]] \/ Chain[at[c]] \in fexcused

\* What CooldownObserved says of one step.
Observes ==
  \A c \in Call :
    fpc'[c] = "calling" /\ (fpc[c] \in {"new", "turning"} \/ at'[c] # at[c])
      => Chain[at'[c]] \notin fresting' \ fexcused'

\* A call that starts to ask a model asks one that is not set aside.
StartsWell(c, busy) ==
  /\ fpc'[c] # "sleeping"
  /\ fpc'[c] = "calling" => /\ at'[c] \in Position /\ Chain[at'[c]] \notin busy
                            /\ state'[c] = gen[Chain[at'[c]]]
OthersStay(c) ==
  \A d \in Call \ {c} : /\ fpc'[d] = fpc[d] /\ at'[d] = at[d] /\ state'[d] = state[d]

LEMMA AlongStarts ==
  ASSUME FallbackTypes, NEW c \in Call, NEW i \in 1..(Len(Chain) + 1), NEW busy, NEW error,
         F!GoesAlong(c, i, busy, error)
  PROVE  StartsWell(c, busy) /\ OthersStay(c)
<1> USE ChainType DEF FallbackTypes, Position, StartsWell, OthersStay
<1>1. CASE F!ThreadTurns(c, i)
  BY <1>1 DEF F!ThreadTurns
<1>2. CASE F!Turn(c, i, busy, error)
  <2> DEFINE j == F!FirstFree(i, busy)
  <2>1. j = 0 \/ (j \in Position /\ Chain[j] \notin busy)
    BY NextFree
  <2>2. CASE j = 0
    BY <1>2, <2>2 DEF F!Turn
  <2>3. CASE j # 0
    <3>1. /\ fpc' = [fpc EXCEPT ![c] = "calling"] /\ at' = [at EXCEPT ![c] = j]
          /\ state' = [state EXCEPT ![c] = gen[Chain[j]]]
      BY <1>2, <2>3 DEF F!Turn
    <3> QED BY <2>1, <2>3, <3>1
  <2> QED BY <2>2, <2>3
<1> QED BY <1>1, <1>2 DEF F!GoesAlong

\* A call that turns to a model while nothing else happens.
LEMMA StartCools ==
  ASSUME FallbackTypes, CoolInv, NEW c \in Call, StartsWell(c, fcooled), OthersStay(c),
         UNCHANGED <<gen, fcooled, fresting, fholders, fexcused>>
  PROVE  CoolInv' /\ Observes
<1> USE DEF StartsWell, OthersStay
<1>1. fpc'[c] = "calling" => Chain[at'[c]] \notin fresting \ fexcused
  BY DEF CoolInv
<1>2. Observes
  BY <1>1 DEF Observes
<1>3. ASSUME NEW d \in Call, Active(d)'
      PROVE  /\ state'[d] <= gen[Chain[at'[d]]]
             /\ state'[d] = gen[Chain[at'[d]]] /\ Chain[at'[d]] \in fresting =>
                  d \in fholders[Chain[at'[d]]] \/ Chain[at'[d]] \in fexcused
  <2>1. CASE d = c
    <3>1. state'[c] = gen[Chain[at'[c]]] /\ Chain[at'[c]] \in F!Model
      BY <1>3, <2>1, ChainType DEF Active
    <3>2. gen[Chain[at'[c]]] \in Nat
      BY <3>1 DEF FallbackTypes
    <3> QED BY <1>1, <1>3, <2>1, <3>1, <3>2 DEF Active
  <2>2. CASE d # c
    BY <1>3, <2>2 DEF CoolInv, Active
  <2> QED BY <2>1, <2>2
<1> QED BY <1>2, <1>3 DEF CoolInv

LEMMA GivesUpCools ==
  ASSUME FallbackTypes, TriedInv, CoolInv, NEW c \in Call, NEW e, F!GivesUp(c, e), Active(c), gen' = gen
  PROVE  CoolInv' /\ Observes
<1> DEFINE m == Chain[at[c]]
           error == F!Raised(c, e)
           fresh == state[c] = gen[m]
           busy == IF fresh THEN fcooled \cup {m} ELSE fcooled
           users == {d \in Call \ {c} : fpc[d] \in {"calling", "sleeping"} /\ Chain[at[d]] = m}
<1>1. at[c] \in Position /\ m \in F!Model /\ at[c] + 1 \in 1..(Len(Chain) + 1)
  BY ChainType DEF TriedInv, Position
<1>2. /\ fcooled' = busy
      /\ fresting' = IF fresh THEN fresting \cup {m} ELSE fresting
      /\ fexcused' = IF fresh THEN fexcused \ {m} ELSE fexcused
      /\ fholders' = IF fresh THEN [fholders EXCEPT ![m] = users] ELSE fholders
  BY DEF F!GivesUp
<1>3. StartsWell(c, busy) /\ OthersStay(c)
  <2>1. CASE F!GoesAlong(c, at[c] + 1, busy, error)
    <3> HIDE DEF error, busy
    <3> QED BY <1>1, <2>1, AlongStarts
  <2>2. CASE fpc' = [fpc EXCEPT ![c] = "done"] /\ UNCHANGED <<at, state>>
    BY <2>2 DEF StartsWell, OthersStay, FallbackTypes
  <2> QED BY <2>1, <2>2 DEF F!GivesUp
<1>4. fresting' \subseteq fcooled' \cup fexcused' /\ DOMAIN fholders' = F!Model
  BY <1>2 DEF CoolInv
<1>5. fpc'[c] = "calling" => Chain[at'[c]] \notin fresting' \ fexcused'
  BY <1>2, <1>3, <1>4 DEF StartsWell
<1>6. Observes
  BY <1>3, <1>5 DEF Observes, OthersStay
<1>7. ASSUME NEW d \in Call, Active(d)'
      PROVE  /\ state'[d] <= gen[Chain[at'[d]]]
             /\ state'[d] = gen[Chain[at'[d]]] /\ Chain[at'[d]] \in fresting' =>
                  d \in fholders'[Chain[at'[d]]] \/ Chain[at'[d]] \in fexcused'
  <2>1. CASE d = c
    <3>1. state'[c] = gen[Chain[at'[c]]] /\ Chain[at'[c]] \in F!Model /\ fpc'[c] = "calling"
      BY <1>3, <1>7, <2>1, ChainType DEF Active, StartsWell
    <3>2. gen[Chain[at'[c]]] \in Nat
      BY <3>1 DEF FallbackTypes
    <3> QED BY <1>5, <2>1, <3>1, <3>2
  <2>2. CASE d # c
    <3>1. /\ Active(d) /\ state'[d] = state[d] /\ at'[d] = at[d]
          /\ state[d] <= gen[Chain[at[d]]]
          /\ state[d] = gen[Chain[at[d]]] /\ Chain[at[d]] \in fresting =>
               d \in fholders[Chain[at[d]]] \/ Chain[at[d]] \in fexcused
      BY <1>3, <1>7, <2>2 DEF OthersStay, CoolInv, Active
    <3>2. CASE fresh /\ Chain[at[d]] = m
      <4>1. d \in users
        BY <2>2, <3>1, <3>2 DEF Active
      <4>2. fholders'[m] = users
        BY <1>1, <1>2, <3>2 DEF CoolInv
      <4> QED BY <3>1, <3>2, <4>1, <4>2
    <3>3. CASE ~(fresh /\ Chain[at[d]] = m)
      <4>1. \/ fholders'[Chain[at[d]]] = fholders[Chain[at[d]]]
            \/ Chain[at[d]] \notin F!Model
        BY <1>2, <3>3 DEF CoolInv
      <4>2. Chain[at[d]] \in F!Model
        BY <3>1, ChainType DEF TriedInv, Position
      <4> QED BY <1>2, <3>1, <3>3, <4>1, <4>2
    <3> QED BY <3>2, <3>3
  <2> QED BY <2>1, <2>2
<1> QED BY <1>4, <1>6, <1>7 DEF CoolInv

LEMMA CoolStep ==
  ASSUME FallbackTypes, TriedInv, CoolInv, [F!Next]_fallbackVars
  PROVE  CoolInv' /\ (Observes \/ UNCHANGED fallbackVars)
<1>1. ASSUME NEW c \in Call, F!Chat(c) PROVE CoolInv' /\ Observes
  <2>1. /\ F!GoesAlong(c, 1, fcooled, "NonRetryableError")
        /\ UNCHANGED <<gen, fcooled, fresting, fholders, fexcused>>
    BY <1>1 DEF F!Chat
  <2>2. 1 \in 1..(Len(Chain) + 1)
    BY ChainType
  <2> QED BY <2>1, <2>2, AlongStarts, StartCools
<1>2. ASSUME NEW c \in Call, F!ThreadLooks(c) PROVE CoolInv' /\ Observes
  <2>1. UNCHANGED <<gen, fcooled, fresting, fholders, fexcused>>
    BY <1>2 DEF F!ThreadLooks
  <2>2. StartsWell(c, fcooled) /\ OthersStay(c)
    BY <1>2, ChainType DEF F!ThreadLooks, StartsWell, OthersStay, FallbackTypes, TriedInv, Position
  <2> QED BY <2>1, <2>2, StartCools
<1>3. ASSUME NEW c \in Call, F!Succeeds(c) PROVE CoolInv' /\ Observes
  <2> DEFINE m == Chain[at[c]]
  <2>1. /\ fpc[c] = "calling" /\ fpc' = [fpc EXCEPT ![c] = "done"]
        /\ UNCHANGED <<at, state, gen, fresting, fholders>>
        /\ fcooled' = IF state[c] = gen[m] THEN fcooled \ {m} ELSE fcooled
        /\ fexcused' = IF m \in fresting /\ c \in fholders[m] THEN fexcused \cup {m} ELSE fexcused
    BY <1>3 DEF F!Succeeds
  <2>2. state[c] = gen[m] /\ m \in fresting => m \in fexcused'
    BY <2>1 DEF CoolInv, Active
  <2>3. fresting' \subseteq fcooled' \cup fexcused' /\ fexcused \subseteq fexcused'
    BY <2>1, <2>2 DEF CoolInv
  <2>4. \A d \in Call : Active(d)' => Active(d)
    BY <2>1 DEF Active, FallbackTypes
  <2>5. Observes
    BY <2>1 DEF Observes, FallbackTypes
  <2> QED BY <2>1, <2>3, <2>4, <2>5 DEF CoolInv
<1>4. ASSUME NEW c \in Call, F!Wakes(c) PROVE CoolInv' /\ Observes
  <2>1. CASE F!GivesUp(c, last[c])
    BY <1>4, <2>1, GivesUpCools DEF F!Wakes, Active
  <2>2. CASE ~F!GivesUp(c, last[c])
    <3>1. /\ fpc[c] = "sleeping" /\ fpc' = [fpc EXCEPT ![c] = "calling"]
          /\ UNCHANGED <<at, state, gen, fcooled, fresting, fholders, fexcused>>
      BY <1>4, <2>2 DEF F!Wakes
    <3> QED BY <3>1 DEF CoolInv, Observes, Active, FallbackTypes
  <2> QED BY <2>1, <2>2
<1>5. ASSUME NEW c \in Call, NEW e \in Errors, F!RequestFails(c, e) PROVE CoolInv' /\ Observes
  <2>1. fpc[c] = "calling" /\ gen' = gen
    BY <1>5 DEF F!RequestFails
  <2>2. CASE F!GivesUp(c, e)
    BY <2>1, <2>2, GivesUpCools DEF Active
  <2>3. CASE ~F!GivesUp(c, e)
    <3>1. /\ fpc' = [fpc EXCEPT ![c] = "sleeping"]
          /\ UNCHANGED <<at, state, gen, fcooled, fresting, fholders, fexcused>>
      BY <1>5, <2>1, <2>3 DEF F!RequestFails
    <3> QED BY <2>1, <3>1 DEF CoolInv, Observes, Active, FallbackTypes
  <2> QED BY <2>2, <2>3
<1>6. ASSUME NEW m \in F!Model, F!ResetModel(m) \/ F!Recovers(m) PROVE CoolInv' /\ Observes
  <2>1. /\ UNCHANGED <<fpc, at, state, fholders, fexcused>>
        /\ fcooled' = fcooled \ {m} /\ fresting' = fresting \ {m}
        /\ gen' = [gen EXCEPT ![m] = @ + 1] \/ gen' = gen
    BY <1>6 DEF F!ResetModel, F!Recovers
  <2>2. Observes
    BY <2>1 DEF Observes, FallbackTypes
  <2>3. ASSUME NEW d \in Call, Active(d)
        PROVE  /\ state[d] <= gen'[Chain[at[d]]]
               /\ state[d] = gen'[Chain[at[d]]] /\ Chain[at[d]] \in fresting' =>
                    d \in fholders[Chain[at[d]]] \/ Chain[at[d]] \in fexcused
    <3>1. Chain[at[d]] \in F!Model
      BY <2>3, ChainType DEF TriedInv, Position
    <3>2. gen[Chain[at[d]]] \in Nat /\ state[d] \in Nat
      BY <3>1 DEF FallbackTypes
    <3>3. CASE Chain[at[d]] = m
      <4>1. gen'[m] = gen[m] \/ gen'[m] = gen[m] + 1
        BY <2>1 DEF FallbackTypes
      <4> QED BY <2>1, <2>3, <3>2, <3>3, <4>1 DEF CoolInv
    <3>4. CASE Chain[at[d]] # m
      <4>1. gen'[Chain[at[d]]] = gen[Chain[at[d]]]
        BY <2>1, <3>1, <3>4 DEF FallbackTypes
      <4> QED BY <2>1, <2>3, <3>4, <4>1 DEF CoolInv
    <3> QED BY <3>3, <3>4
  <2>4. \A d \in Call : Active(d)' = Active(d)
    BY <2>1 DEF Active
  <2>5. fresting' \subseteq fcooled' \cup fexcused' /\ DOMAIN fholders' = F!Model
    BY <2>1 DEF CoolInv
  <2> QED BY <2>1, <2>2, <2>3, <2>4, <2>5 DEF CoolInv
<1>7. CASE UNCHANGED fallbackVars
  BY <1>7 DEF fallbackVars, CoolInv, Active
<1> QED BY <1>1, <1>2, <1>3, <1>4, <1>5, <1>6, <1>7 DEF F!Next, F!Progress, F!vars, fallbackVars

\* No key and no model is used in its cooldown, unless a call that was using it when it
\* failed has succeeded since, or, of a key, the pool does not know of the limit or has no
\* key to give and the backend takes its own: neither reset_model() nor a late failure or success of a
\* call with an old ModelState opens a way round it (fallback.py:95-115, 322-332, 398-400,
\* 425-428, and the same in threads).
THEOREM CooldownsRest == MCSpec => CooldownsObserved
<1> DEFINE FInv == FallbackTypes /\ TriedInv /\ CoolInv
<1>1. MCInit => FInv
  BY FallbackInit DEF MCInit, F!Init, CoolInv, Active
<1>2. FInv /\ [MCNext]_<<vars, partVars, scenario>> => FInv'
  BY Parts, FallbackTypeStep, TriedStep, CoolStep
<1>3. FInv /\ [MCNext]_<<vars, partVars, scenario>> => [Observes]_F!vars
  BY Parts, CoolStep DEF fallbackVars, F!vars
<1>4. MCSpec => F!CooldownObserved
  BY <1>1, <1>2, <1>3, PTL DEF MCSpec, F!CooldownObserved, Observes
<1>5. MCSpec => Spec
  <2>1. MCInit => Init
    BY DEF MCInit
  <2>2. [MCNext]_<<vars, partVars, scenario>> => [Next]_vars
    BY Parts
  <2> QED BY <2>1, <2>2, PTL DEF MCSpec, Spec
<1>6. MCSpec => CooldownObserved
  BY <1>5, KeysRest, PTL
<1> QED BY <1>4, <1>6, PTL DEF CooldownsObserved
===============================================================================
