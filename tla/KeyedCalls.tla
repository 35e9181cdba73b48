------------------------------- MODULE KeyedCalls -------------------------------
(***************************************************************************)
(* app/llm/llm.py: concurrent LLM.ask() calls of one client, which share a *)
(* CredentialPool (credential_pool.py) and a TokenBudget (token_tracker.py)*)
(*                                                                         *)
(* A step is what runs between two awaits that suspend: the pool's lock is *)
(* never held across one, so that taking a key and sending the request are *)
(* one step, and so are the answer, the note about the key and the record  *)
(* of the tokens.  Usage is counted in answers that report a usage.        *)
(*                                                                         *)
(* A backend has a key of its own besides the one it is given.  The three  *)
(* kinds: UniversalClient sends with the key given, if there is one, and   *)
(* reports a 429 as RateLimitError; AnthropicClient sends with it too, but *)
(* its 429 is an error like any other; OpenAIClient ignores it.            *)
(***************************************************************************)
EXTENDS Naturals, FiniteSets, SequencesExt, FiniteSetTheorems, TLAPS

CONSTANTS Caller,
          Keys,          \* _creds: the keys in the order of their priority
          NoKey,
          Own,           \* the backend's own key: of the pool (cfg.llm.api_key), or NoKey
          Backends,      \* the kinds of backend
          MaxRetries,    \* _max_retries
          MaxTokens,     \* max_tokens, in answers
          DeepThinker,   \* is_deep_thinker
          MaxCalls       \* bound: calls of one caller

ASSUME CallsAssumption ==
    /\ IsFiniteSet(Caller)
    /\ Keys \in Seq(Range(Keys)) /\ NoKey \notin Range(Keys)
    /\ Own \in Range(Keys) \union {NoKey}
    /\ Backends \subseteq {"universal", "anthropic", "openai"}
    /\ MaxTokens \in Nat \ {0}

VARIABLES backend,   \* which it is
          pc,        \* where each caller is
          attempt,   \* the attempt its call is in
          key,       \* cred, or NoKey when the pool has none to give
          cooled,    \* the keys whose exhausted_until is to come
          usage,     \* _usage
          graceUsed, \* _grace_used
          calls,     \* MaxCalls spent
          resting,   \* history: keys limited less than a cooldown ago
          holders,   \* history: who was using a key when it was limited
          excused    \* history: resting keys of which the pool does not know better

vars == <<backend, pc, attempt, key, cooled, usage, graceUsed, calls, resting, holders, excused>>

Init ==
    /\ backend \in Backends
    /\ pc = [c \in Caller |-> "idle"]
    /\ attempt = [c \in Caller |-> 0]
    /\ key = [c \in Caller |-> NoKey]
    /\ cooled = {}
    /\ usage = 0 /\ graceUsed = FALSE
    /\ calls = [c \in Caller |-> 0]
    /\ resting = {} /\ excused = {}
    /\ holders = [k \in Range(Keys) |-> {}]

\* A mutant of Get: the key of the best priority, cooled or not.
GetBest == Head(Keys)

\* CredentialPool.get(): the best available key.
Get ==
    LET available == {i \in 1..Len(Keys) : Keys[i] \notin cooled} IN
    IF available = {} THEN NoKey ELSE Keys[Min(available)]

\* The key of c's request: the one given, or the backend's own.
Used(c) == IF key[c] = NoKey \/ backend = "openai" THEN Own ELSE key[c]

\* A request of c is sent with the key of the moment.
Send(c) ==
    /\ pc' = [pc EXCEPT ![c] = "calling"]
    /\ attempt' = [attempt EXCEPT ![c] = @ + 1]
    /\ key' = [key EXCEPT ![c] = Get]

Return(c) ==
    /\ pc' = [pc EXCEPT ![c] = "idle"]
    /\ attempt' = [attempt EXCEPT ![c] = 0]
    /\ key' = [key EXCEPT ![c] = NoKey]

\* is_exhausted and use_grace().
Exhausted == usage >= MaxTokens

\* A mutant of Grace: the grace call is not written down.
GraceForgotten == ~graceUsed /\ UNCHANGED graceUsed

Grace == ~graceUsed /\ graceUsed' = TRUE

\* The call begins, unless the budget is used up and the grace call too.
Ask(c) ==
    /\ pc[c] = "idle" /\ calls[c] < MaxCalls
    /\ calls' = [calls EXCEPT ![c] = @ + 1]
    /\ \/ ~Exhausted /\ Send(c) /\ UNCHANGED graceUsed
       \/ Exhausted /\ Grace /\ Send(c)
       \/ Exhausted /\ graceUsed /\ UNCHANGED <<pc, attempt, key, graceUsed>>
    /\ UNCHANGED <<backend, cooled, usage, resting, holders, excused>>

\* The answer is there: the key's cooldown is cleared and the usage recorded, if
\* the answer has one.
Answered(c) ==
    /\ pc[c] = "calling"
    /\ cooled' = cooled \ {key[c]}
    /\ excused' = IF key[c] \in resting /\ c \in holders[key[c]]
                  THEN excused \union {key[c]} ELSE excused
    /\ usage' \in {usage, usage + 1}
    /\ Return(c)
    /\ UNCHANGED <<backend, graceUsed, calls, resting, holders>>

\* Whether an error of kind e ends the call in attempt n.
Ends(e, n) ==
    \/ e = "tokens"
    \/ e = "timeout" /\ (DeepThinker \/ n = MaxRetries)
    \/ e = "other" /\ (n >= 2 \/ n = MaxRetries)
    \/ e = "transient" /\ n = MaxRetries

\* The key used is limited.  The pool is told of a RateLimitError of a key it gave.
Rests(c) ==
    LET k == Used(c) IN
    /\ resting' = resting \union ({k} \ {NoKey})
    /\ IF backend = "universal" /\ key[c] # NoKey
       THEN /\ cooled' = cooled \union {k}
            /\ excused' = excused \ {k}
            /\ holders' = [holders EXCEPT ![k] = {d \in Caller \ {c} : key[d] = k}]
       ELSE /\ excused' = excused \union {k}
            /\ UNCHANGED <<cooled, holders>>

\* An answer of status 429: the call sleeps, of a RateLimitError also after its last
\* attempt; of the other backends it is an error like any other.
Limited(c) ==
    /\ pc[c] = "calling"
    /\ Rests(c)
    /\ IF backend # "universal" /\ Ends("other", attempt[c])
       THEN Return(c)
       ELSE pc' = [pc EXCEPT ![c] = "sleeping"] /\ UNCHANGED <<attempt, key>>
    /\ UNCHANGED <<backend, usage, graceUsed, calls>>

\* Any other error ends the call or is slept over.
Fails(c) ==
    /\ pc[c] = "calling"
    /\ \E e \in {"tokens", "timeout", "transient", "other"} :
          IF Ends(e, attempt[c])
          THEN Return(c)
          ELSE pc' = [pc EXCEPT ![c] = "sleeping"] /\ UNCHANGED <<attempt, key>>
    /\ UNCHANGED <<backend, cooled, usage, graceUsed, calls, resting, holders, excused>>

\* The caller is cancelled at either await: the key's state stays as it is.
Cancelled(c) ==
    /\ pc[c] # "idle"
    /\ Return(c)
    /\ UNCHANGED <<backend, cooled, usage, graceUsed, calls, resting, holders, excused>>

\* The sleep is over: the next attempt, or the RuntimeError behind the loop.
Wakes(c) ==
    /\ pc[c] = "sleeping"
    /\ IF attempt[c] < MaxRetries THEN Send(c) ELSE Return(c)
    /\ UNCHANGED <<backend, cooled, usage, graceUsed, calls, resting, holders, excused>>

\* A cooldown is over; the pool's may be over before that of a later limit it was not
\* told of.
Recovers(k) ==
    /\ k \in resting
    /\ cooled' = cooled \ {k}
    /\ resting' = resting \ {k} \/ (k \in excused /\ UNCHANGED resting)
    /\ UNCHANGED <<backend, pc, attempt, key, usage, graceUsed, calls, holders, excused>>

Progress(c) == Answered(c) \/ Limited(c) \/ Fails(c) \/ Wakes(c)

Next ==
    \/ \E c \in Caller : Ask(c) \/ Progress(c) \/ Cancelled(c)
    \/ \E k \in Range(Keys) : Recovers(k)

\* A request has a timeout and a sleep ends.
Fairness == \A c \in Caller : WF_vars(Progress(c))

Spec == Init /\ [][Next]_vars

-----------------------------------------------------------------------------
\* A key that was rate limited less than a cooldown ago is used by no request.  It is
\* excused after a limit that nobody told the pool of (no RateLimitError, or a key the
\* pool had not given), and when a call that was already using it has succeeded with
\* it since.  The other exception is the backend's own key, while every key of the
\* pool is set aside (credential_pool.py, lines 67-73; llm.py, lines 211 and 649-659).
CooldownObserved ==
    [][\A c \in Caller :
          Send(c) /\ Used(c)' \in resting \ excused =>
              key'[c] = NoKey /\ Used(c)' = Own /\ Range(Keys) \subseteq cooled]_vars

\* However calls overlap, the budget is overrun by no more than one answer of each
\* caller, since all of them may be let in before the first one reports, and by
\* the grace call.
OverrunBounded == usage <= MaxTokens + Cardinality(Caller)

\* Calls return: again and again none is under way.
EveryCallReturns == []<>(\A c \in Caller : pc[c] = "idle")

--------------------------------------------------------------------------------
\* Calls that share a token budget and a pool of keys: the budget is
\* overrun by a bounded amount, and a key rests while it has to, for any
\* number of callers, keys and retries.

Busy == {c \in Caller : pc[c] # "idle"}

TypeInv ==
  /\ pc \in [Caller -> {"idle", "calling", "sleeping"}]
  /\ usage \in Nat
  /\ graceUsed \in BOOLEAN

\* Every call that is out may still add one answer; the grace call lets one more in.
BudgetInv ==
  usage + Cardinality(Busy) < MaxTokens + Cardinality(Caller) + (IF graceUsed THEN 1 ELSE 0)

LEMMA BusyFinite == IsFiniteSet(Busy) /\ Cardinality(Busy) \in Nat /\ Cardinality(Busy) <= Cardinality(Caller)
                    /\ Cardinality(Caller) \in Nat
  BY CallsAssumption, FS_Subset, FS_CardinalityType DEF Busy

\* What a caller that enters or leaves does to the number of those that are busy.
LEMMA Enters ==
  ASSUME TypeInv, NEW c \in Caller, pc[c] = "idle", pc' = [pc EXCEPT ![c] = "calling"]
  PROVE  Cardinality(Busy') = Cardinality(Busy) + 1
<1>1. Busy' = Busy \cup {c} /\ c \notin Busy
  BY DEF Busy, TypeInv
<1> QED BY <1>1, BusyFinite, FS_AddElement

LEMMA Leaves ==
  ASSUME TypeInv, NEW c \in Caller, pc[c] # "idle", pc' = [pc EXCEPT ![c] = "idle"]
  PROVE  Cardinality(Busy') = Cardinality(Busy) - 1
<1>1. Busy' = Busy \ {c} /\ c \in Busy
  BY DEF Busy, TypeInv
<1> QED BY <1>1, BusyFinite, FS_RemoveElement

LEMMA Stays ==
  ASSUME TypeInv, NEW c \in Caller, NEW w \in {"calling", "sleeping"},
         pc[c] # "idle", pc' = [pc EXCEPT ![c] = w]
  PROVE  Busy' = Busy
  BY DEF Busy, TypeInv

LEMMA TypeStep ==
  ASSUME TypeInv, [Next]_vars
  PROVE  TypeInv'
<1> USE DEF TypeInv
<1>1. ASSUME NEW c \in Caller, Ask(c) PROVE TypeInv'
  BY <1>1 DEF Ask, Send, Grace
<1>2. ASSUME NEW c \in Caller, Answered(c) PROVE TypeInv'
  BY <1>2 DEF Answered, Return
<1>3. ASSUME NEW c \in Caller, Limited(c) PROVE TypeInv'
  BY <1>3 DEF Limited, Return
<1>4. ASSUME NEW c \in Caller, Fails(c) \/ Wakes(c) \/ Cancelled(c) PROVE TypeInv'
  BY <1>4 DEF Fails, Wakes, Cancelled, Return, Send
<1>5. ASSUME NEW k, Recovers(k) PROVE TypeInv'
  BY <1>5 DEF Recovers
<1>6. CASE UNCHANGED vars
  BY <1>6 DEF vars
<1> QED BY <1>1, <1>2, <1>3, <1>4, <1>5, <1>6 DEF Next, Progress

LEMMA BudgetStep ==
  ASSUME TypeInv, BudgetInv, [Next]_vars
  PROVE  BudgetInv'
<1> USE CallsAssumption
<1> DEFINE N == Cardinality(Caller)
<1>0. /\ Cardinality(Busy) \in Nat /\ Cardinality(Busy) <= N /\ N \in Nat
      /\ Cardinality(Busy') \in Nat /\ Cardinality(Busy') <= N
  <2>1. IsFiniteSet(Busy') /\ Cardinality(Busy') \in Nat /\ Cardinality(Busy') <= N
    BY FS_Subset, FS_CardinalityType DEF Busy
  <2> QED BY <2>1, BusyFinite
<1> HIDE DEF N
<1>1. ASSUME NEW c \in Caller, Ask(c) PROVE BudgetInv'
  <2>1. CASE ~Exhausted /\ Send(c) /\ UNCHANGED graceUsed
    <3>1. usage' = usage /\ usage < MaxTokens
      BY <1>1, <2>1 DEF Ask, Exhausted, TypeInv
    <3> QED BY <1>0, <2>1, <3>1 DEF BudgetInv, TypeInv, N
  <2>2. CASE Exhausted /\ Grace /\ Send(c)
    <3>1. usage' = usage /\ ~graceUsed /\ graceUsed'
      BY <1>1, <2>2 DEF Ask, Grace
    <3>2. Cardinality(Busy') = Cardinality(Busy) + 1
      BY <1>1, <2>2, Enters DEF Ask, Send
    <3> QED BY <1>0, <3>1, <3>2 DEF BudgetInv, TypeInv, N
  <2>3. CASE UNCHANGED <<pc, graceUsed>>
    BY <1>1, <2>3 DEF Ask, BudgetInv, Busy
  <2> QED BY <1>1, <2>1, <2>2, <2>3 DEF Ask
<1>2. ASSUME NEW c \in Caller, Answered(c) PROVE BudgetInv'
  <2>1. usage' \in {usage, usage + 1} /\ graceUsed' = graceUsed
    BY <1>2 DEF Answered
  <2>2. Cardinality(Busy') = Cardinality(Busy) - 1
    BY <1>2, Leaves DEF Answered, Return
  <2> QED BY <1>0, <2>1, <2>2 DEF BudgetInv, TypeInv, N
<1>3. ASSUME NEW c \in Caller, Limited(c) PROVE BudgetInv'
  <2>1. usage' = usage /\ graceUsed' = graceUsed /\ pc[c] # "idle"
    BY <1>3 DEF Limited
  <2>2. pc' = [pc EXCEPT ![c] = "idle"] \/ pc' = [pc EXCEPT ![c] = "sleeping"]
    BY <1>3 DEF Limited, Return
  <2>3. Cardinality(Busy') <= Cardinality(Busy)
    BY <1>0, <2>1, <2>2, Leaves, Stays DEF N
  <2> QED BY <1>0, <2>1, <2>3 DEF BudgetInv, TypeInv, N
<1>4. ASSUME NEW c \in Caller, Fails(c) \/ Wakes(c) \/ Cancelled(c) PROVE BudgetInv'
  <2>1. usage' = usage /\ graceUsed' = graceUsed /\ pc[c] # "idle"
    BY <1>4 DEF Fails, Wakes, Cancelled
  <2>2. \/ pc' = [pc EXCEPT ![c] = "idle"]
        \/ pc' = [pc EXCEPT ![c] = "sleeping"]
        \/ pc' = [pc EXCEPT ![c] = "calling"]
    BY <1>4 DEF Fails, Wakes, Cancelled, Return, Send
  <2>3. Cardinality(Busy') <= Cardinality(Busy)
    BY <1>0, <2>1, <2>2, Leaves, Stays DEF N
  <2> QED BY <1>0, <2>1, <2>3 DEF BudgetInv, TypeInv, N
<1>5. ASSUME NEW k, Recovers(k) PROVE BudgetInv'
  BY <1>5 DEF Recovers, BudgetInv, Busy
<1>6. CASE UNCHANGED vars
  BY <1>6 DEF vars, BudgetInv, Busy
<1> QED BY <1>1, <1>2, <1>3, <1>4, <1>5, <1>6 DEF Next, Progress

\* However calls of any number of callers overlap, the usage never exceeds the
\* budget by more than one answer each, the grace call included: use_grace() and
\* is_exhausted are tested before the request, the usage added after it.
THEOREM BudgetHolds == Spec => []OverrunBounded
<1>1. Init => TypeInv /\ BudgetInv
  <2> SUFFICES ASSUME Init PROVE TypeInv /\ BudgetInv
    OBVIOUS
  <2>1. TypeInv
    BY DEF Init, TypeInv
  <2>2. Busy = {}
    BY DEF Init, Busy
  <2>3. Cardinality(Busy) = 0
    BY <2>2, FS_EmptySet
  <2>4. usage = 0 /\ graceUsed = FALSE
    BY DEF Init
  <2> QED BY <2>1, <2>3, <2>4, BusyFinite, CallsAssumption DEF BudgetInv
<1>2. TypeInv /\ BudgetInv /\ [Next]_vars => TypeInv' /\ BudgetInv'
  BY TypeStep, BudgetStep
<1>3. TypeInv /\ BudgetInv => OverrunBounded
  BY BusyFinite, CallsAssumption DEF TypeInv, BudgetInv, OverrunBounded
<1> QED BY <1>1, <1>2, <1>3, PTL DEF Spec
-----------------------------------------------------------------------------
\* A resting key is set aside or excused, always excused where the pool is not told, and
\* whoever can still clear its state was using it when it was limited.
RestInv ==
  /\ resting \subseteq cooled \cup excused
  /\ backend # "universal" => resting \subseteq excused
  /\ \A c \in Caller :
       pc[c] = "calling" /\ key[c] \in resting => c \in holders[key[c]] \/ key[c] \in excused

KeyInv ==
  /\ pc \in [Caller -> {"idle", "calling", "sleeping"}]
  /\ key \in [Caller -> Range(Keys) \cup {NoKey}]
  /\ resting \subseteq Range(Keys)
  /\ DOMAIN holders = Range(Keys)

LEMMA Least ==
  ASSUME NEW S \in SUBSET Nat, S # {}
  PROVE  Min(S) \in S
<1>1. PICK m \in S : \A n \in S : <<n, m>> \notin OpToRel(<, Nat)
  BY WFMin, NatLessThanWellFounded, Zenon
<1>2. \A n \in S : ~(n < m)
  BY <1>1, Zenon DEF OpToRel
<1>3. \A n \in S : m =< n
  BY <1>2
<1> QED BY <1>3 DEF Min

\* The pool gives one of its keys that is not set aside, if it has one.
LEMMA GetGives ==
  /\ Get \in Range(Keys) \cup {NoKey}
  /\ Get # NoKey => Get \notin cooled
  /\ Get = NoKey => Range(Keys) \subseteq cooled
<1> DEFINE available == {i \in 1..Len(Keys) : Keys[i] \notin cooled}
<1>1. CASE available = {}
  <2>1. Get = NoKey
    BY <1>1 DEF Get
  <2>2. \A k \in Range(Keys) : \E i \in 1..Len(Keys) : k = Keys[i]
    BY CallsAssumption DEF Range
  <2> QED BY <1>1, <2>1, <2>2
<1>2. CASE available # {}
  <2>1. Min(available) \in available
    BY <1>2, Least
  <2>2. Get = Keys[Min(available)]
    BY <1>2 DEF Get
  <2>3. \A i \in 1..Len(Keys) : Keys[i] \in Range(Keys)
    BY CallsAssumption
  <2> QED BY <2>1, <2>2, <2>3, CallsAssumption
<1> QED BY <1>1, <1>2

LEMMA KeyStep ==
  ASSUME KeyInv, [Next]_vars
  PROVE  KeyInv'
<1> USE DEF KeyInv
<1>1. ASSUME NEW c \in Caller, Ask(c) PROVE KeyInv'
  BY <1>1, GetGives DEF Ask, Send
<1>2. ASSUME NEW c \in Caller, Answered(c) PROVE KeyInv'
  BY <1>2 DEF Answered, Return
<1>3. ASSUME NEW c \in Caller, Limited(c) PROVE KeyInv'
  BY <1>3, CallsAssumption DEF Limited, Rests, Used, Return
<1>4. ASSUME NEW c \in Caller, Fails(c) \/ Wakes(c) \/ Cancelled(c) PROVE KeyInv'
  BY <1>4, GetGives DEF Fails, Wakes, Cancelled, Return, Send
<1>5. ASSUME NEW k, Recovers(k) PROVE KeyInv'
  BY <1>5 DEF Recovers
<1>6. CASE UNCHANGED vars
  BY <1>6 DEF vars
<1> QED BY <1>1, <1>2, <1>3, <1>4, <1>5, <1>6 DEF Next, Progress

\* A request that is sent now uses no key that rests without an excuse, but for the
\* backend's own when the pool has none.
LEMMA SendRests ==
  ASSUME KeyInv, RestInv, NEW c \in Caller, Send(c), UNCHANGED backend
  PROVE  /\ key' = [key EXCEPT ![c] = Get] /\ pc' = [pc EXCEPT ![c] = "calling"]
         /\ Get \in resting => Get \in excused
         /\ Used(c)' \in resting \ excused =>
              key'[c] = NoKey /\ Used(c)' = Own /\ Range(Keys) \subseteq cooled
<1>1. Get \in resting => Get # NoKey
  BY CallsAssumption DEF KeyInv
<1>2. key' = [key EXCEPT ![c] = Get] /\ pc' = [pc EXCEPT ![c] = "calling"]
  BY DEF Send
<1>3. Get \in resting => Get \in excused
  BY <1>1, GetGives DEF RestInv
<1>4. key'[c] = Get
  BY <1>2 DEF KeyInv
<1>5. Used(c)' = IF Get = NoKey \/ backend = "openai" THEN Own ELSE Get
  BY <1>4 DEF Used
<1>6. ASSUME Used(c)' \in resting \ excused PROVE Get = NoKey
  <2>1. backend # "openai"
    BY <1>6 DEF RestInv
  <2> QED BY <1>3, <1>5, <1>6, <2>1
<1> QED BY <1>2, <1>3, <1>4, <1>5, <1>6, GetGives

LEMMA RestStep ==
  ASSUME KeyInv, RestInv, [Next]_vars
  PROVE  RestInv'
<1>1. ASSUME NEW c \in Caller, Send(c), UNCHANGED <<backend, cooled, resting, holders, excused>>
      PROVE  RestInv'
  BY <1>1, SendRests DEF RestInv, KeyInv
<1>2. ASSUME NEW c \in Caller, Return(c), UNCHANGED <<backend, cooled, resting, holders, excused>>
      PROVE  RestInv'
  BY <1>2 DEF RestInv, KeyInv, Return
<1>3. ASSUME NEW c \in Caller, Ask(c) PROVE RestInv'
  <2>1. CASE Send(c)
    BY <1>1, <1>3, <2>1 DEF Ask
  <2>2. CASE UNCHANGED <<pc, key>>
    BY <1>3, <2>2 DEF Ask, RestInv
  <2> QED BY <1>3, <2>1, <2>2 DEF Ask
<1>4. ASSUME NEW c \in Caller, Answered(c) PROVE RestInv'
  <2>1. /\ pc[c] = "calling" /\ UNCHANGED <<backend, resting, holders>>
        /\ pc' = [pc EXCEPT ![c] = "idle"] /\ key' = [key EXCEPT ![c] = NoKey]
        /\ cooled' = cooled \ {key[c]} /\ excused \subseteq excused'
    BY <1>4 DEF Answered, Return
  <2>2. key[c] \in resting => key[c] \in excused'
    BY <1>4, <2>1 DEF Answered, RestInv
  <2> QED BY <2>1, <2>2 DEF RestInv, KeyInv
<1>5. ASSUME NEW c \in Caller, Limited(c) PROVE RestInv'
  <2>1. ASSUME NEW d \in Caller, pc'[d] = "calling"
        PROVE  d # c /\ pc[d] = "calling" /\ key'[d] = key[d]
    BY <1>5, <2>1 DEF Limited, Return, KeyInv
  <2>2. CASE backend = "universal" /\ key[c] # NoKey
    <3>1. Used(c) = key[c] /\ key[c] \in DOMAIN holders
      BY <2>2 DEF Used, KeyInv
    <3>2. /\ cooled' = cooled \cup {key[c]} /\ resting' = resting \cup ({key[c]} \ {NoKey})
          /\ excused' = excused \ {key[c]} /\ backend' = backend
          /\ holders' = [holders EXCEPT ![key[c]] = {d \in Caller \ {c} : key[d] = key[c]}]
      BY <1>5, <2>2, <3>1 DEF Limited, Rests
    <3>3. resting' \subseteq cooled' \cup excused'
      BY <3>2 DEF RestInv
    <3>4. ASSUME NEW d \in Caller, pc'[d] = "calling", key'[d] \in resting'
          PROVE  d \in holders'[key'[d]] \/ key'[d] \in excused'
      <4>1. d # c /\ pc[d] = "calling" /\ key'[d] = key[d]
        BY <2>1, <3>4
      <4>2. CASE key[d] = key[c]
        BY <3>1, <3>2, <4>1, <4>2
      <4>3. CASE key[d] # key[c]
        BY <3>2, <3>4, <4>1, <4>3 DEF RestInv
      <4> QED BY <4>2, <4>3
    <3> QED BY <2>2, <3>2, <3>3, <3>4 DEF RestInv
  <2>3. CASE ~(backend = "universal" /\ key[c] # NoKey)
    <3>1. /\ resting' = resting \cup ({Used(c)} \ {NoKey}) /\ excused' = excused \cup {Used(c)}
          /\ UNCHANGED <<cooled, holders, backend>>
      BY <1>5, <2>3 DEF Limited, Rests
    <3>2. resting' \subseteq cooled' \cup excused'
      BY <3>1 DEF RestInv
    <3>3. backend' # "universal" => resting' \subseteq excused'
      BY <3>1 DEF RestInv
    <3>4. ASSUME NEW d \in Caller, pc'[d] = "calling", key'[d] \in resting'
          PROVE  d \in holders'[key'[d]] \/ key'[d] \in excused'
      <4>1. pc[d] = "calling" /\ key'[d] = key[d]
        BY <2>1, <3>4
      <4>2. CASE key[d] = Used(c)
        BY <3>1, <4>1, <4>2
      <4>3. CASE key[d] # Used(c)
        BY <3>1, <3>4, <4>1, <4>3 DEF RestInv
      <4> QED BY <4>2, <4>3
    <3> QED BY <3>2, <3>3, <3>4 DEF RestInv
  <2> QED BY <2>2, <2>3
<1>6. ASSUME NEW c \in Caller, Fails(c) PROVE RestInv'
  <2>1. CASE Return(c)
    BY <1>2, <1>6, <2>1 DEF Fails
  <2>2. CASE pc' = [pc EXCEPT ![c] = "sleeping"] /\ key' = key
    BY <1>6, <2>2 DEF Fails, RestInv, KeyInv
  <2> QED BY <1>6, <2>1, <2>2 DEF Fails
<1>7. ASSUME NEW c \in Caller, Wakes(c) \/ Cancelled(c) PROVE RestInv'
  BY <1>1, <1>2, <1>7 DEF Wakes, Cancelled
<1>8. ASSUME NEW k, Recovers(k) PROVE RestInv'
  BY <1>8 DEF Recovers, RestInv
<1>9. CASE UNCHANGED vars
  BY <1>9 DEF vars, RestInv
<1> QED BY <1>3, <1>4, <1>5, <1>6, <1>7, <1>8, <1>9 DEF Next, Progress

\* No request uses a key that was rate limited less than a cooldown ago, unless the pool
\* does not know it, or has no key to give and the backend falls back on its own:
\* mark_success() of a call that took the key before clears nothing else.
THEOREM KeysRest == Spec => CooldownObserved
<1> DEFINE Given == \A c \in Caller :
                      Send(c) /\ Used(c)' \in resting \ excused =>
                          key'[c] = NoKey /\ Used(c)' = Own /\ Range(Keys) \subseteq cooled
<1>1. Init => KeyInv /\ RestInv
  BY CallsAssumption DEF Init, KeyInv, RestInv
<1>2. KeyInv /\ RestInv /\ [Next]_vars => KeyInv' /\ RestInv'
  BY KeyStep, RestStep
<1>3. KeyInv /\ RestInv /\ UNCHANGED backend => Given
  BY SendRests
<1>4. [Next]_vars => UNCHANGED backend
  BY DEF Next, vars, Ask, Progress, Answered, Limited, Fails, Wakes, Cancelled, Recovers
<1>5. KeyInv /\ RestInv /\ [Next]_vars => [Given]_vars
  BY <1>3, <1>4
<1> QED BY <1>1, <1>2, <1>5, PTL DEF Spec, CooldownObserved
================================================================================
