------------------------------ MODULE ModelFallback ------------------------------
(***************************************************************************)
(* app/llm/litellm_client.py: chat() with a fallback chain.  For each call *)
(* FallbackStrategy.execute() (fallback.py) goes along the chain, past the *)
(* models in cooldown; for each model RetryExecutor.execute() (retry.py)   *)
(* repeats the request; what it raises in the end has been mapped to an    *)
(* exception class, mapped again by _do_chat() and classified by the       *)
(* strategy, which goes on with the next model or raises.  Without litellm *)
(* a request is a whole LLM._call_with_retry() (KeyedCalls) of the one     *)
(* built-in client, whatever the model, and its error is not mapped.       *)
(*                                                                         *)
(* A step is what runs between two awaits.  execute_sync(), with           *)
(* SyncRetryExecutor below it, does the same in threads, where the table   *)
(* may change between two models of the chain.                             *)
(***************************************************************************)
EXTENDS Naturals, FiniteSets, Sequences

CONSTANTS Call,
          Threaded,     \* the calls by execute_sync()
          Chain,        \* FallbackConfig.chain
          Clients,      \* who may send: "litellm", or without it "universal" or "sdk"
          MaxRetries,   \* RetryConfig.max_retries
          Errors,       \* bound: the categories, for classify_error(), of the errors that occur
          MaxResets     \* bound: calls of reset_model()

VARIABLES client,      \* who sends
          pc, at,      \* where each call is; the model of its turn
          retries,
          last,        \* the category of its last error, or "none"
          state,       \* the ModelState a call has in its hands: its generation
          gen,         \* the generation of each model's ModelState in the table
          cooled,      \* the models whose state is in cooldown
          outcome,     \* what chat() returned or raised
          asked,       \* history: the models a call has asked or found in cooldown
          resting, holders, excused   \* history, as in KeyedCalls

vars == <<client, pc, at, retries, last, state, gen, cooled, outcome, asked, resting, holders,
          excused>>

Model == {Chain[i] : i \in DOMAIN Chain}

\* _RETRYABLE_CATEGORIES; the other categories are "CONTEXT_WINDOW", "AUTH", "QUOTA",
\* "BAD_REQUEST", "CONTENT_FILTER" and "UNKNOWN".
Retryable == {"RATE_LIMIT", "SERVICE_UNAVAILABLE", "SERVER_ERROR", "TIMEOUT", "CONNECTION"}

\* map_provider_exception(): the class raised for an error of a category.
MapProviderException(category) ==
    CASE category = "RATE_LIMIT" -> "RateLimitError"
      [] category = "CONTEXT_WINDOW" -> "TokenLimitExceeded"
      [] category = "AUTH" -> "LLMAuthError"
      [] category \in Retryable \ {"RATE_LIMIT"} -> "RetryableError"
      [] OTHER -> "NonRetryableError"

\* classify_error() of such an exception.
ClassifyError(class) ==
    CASE class = "TokenLimitExceeded" -> "CONTEXT_WINDOW"
      [] class = "RateLimitError" -> "RATE_LIMIT"
      [] class = "LLMAuthError" -> "AUTH"
      [] class = "NonRetryableError" -> "UNKNOWN"
      [] class = "RetryableError" -> "SERVER_ERROR"

\* DEFAULT_FALLBACK_TRIGGERS
Triggers == {"RATE_LIMIT", "SERVICE_UNAVAILABLE", "CONTEXT_WINDOW", "QUOTA"}

\* _do_chat(): the exception is mapped once more, a rate limit and a retryable
\* error are replaced by the result.
DoChatRaises(class) ==
    LET mapped == MapProviderException(ClassifyError(class)) IN
    IF mapped \in {"RateLimitError", "RetryableError"} THEN mapped ELSE class

BuiltIn(c) == client # "litellm" /\ c \notin Threaded

\* What chat() raises for an error of the category.
Raised(c, category) ==
    IF BuiltIn(c) THEN "ClientError" ELSE DoChatRaises(MapProviderException(category))

\* The categories the strategy may see in it.  UniversalClient's RateLimitErrors end in
\* the RuntimeError of _call_with_retry(), which shows the text of an earlier error only.
Seen(c, category) ==
    IF ~BuiltIn(c) THEN {ClassifyError(Raised(c, category))}
    ELSE IF client = "universal" /\ category = "RATE_LIMIT" THEN {"UNKNOWN"} \union Errors
    ELSE {category}

\* A mutant of ShouldFallback: a full context is no reason to try another model.
ShouldFallbackOnLimits(category) == category = "RATE_LIMIT"

ShouldFallback(category) == category \in Triggers

Init ==
    /\ client \in Clients
    /\ pc = [c \in Call |-> "new"]
    /\ at = [c \in Call |-> 1]
    /\ retries = [c \in Call |-> 0]
    /\ last = [c \in Call |-> "none"]
    /\ state = [c \in Call |-> 0]
    /\ gen = [m \in Model |-> 0]
    /\ cooled = {}
    /\ outcome = [c \in Call |-> "none"]
    /\ asked = [c \in Call |-> {}]
    /\ resting = {} /\ excused = {}
    /\ holders = [m \in Model |-> {}]

\* The first model from position i on that is not in cooldown, or 0.
FirstFree(i, busy) ==
    LET free == {j \in i..Len(Chain) : Chain[j] \notin busy} IN
    IF free = {} THEN 0 ELSE CHOOSE j \in free : \A k \in free : j <= k

\* The turn of the models from i on: the first one that is not in cooldown is
\* asked; behind the end of the chain the call raises error.
Turn(c, i, busy, error) ==
    LET j == FirstFree(i, busy) IN
    /\ asked' = [asked EXCEPT ![c] = @ \union
                   {Chain[k] : k \in i..(IF j = 0 THEN Len(Chain) ELSE j)}]
    /\ IF j = 0
       THEN /\ pc' = [pc EXCEPT ![c] = "done"]
            /\ outcome' = [outcome EXCEPT ![c] = error]
            /\ UNCHANGED <<at, retries, state>>
       ELSE /\ pc' = [pc EXCEPT ![c] = "calling"]
            /\ at' = [at EXCEPT ![c] = j]
            /\ retries' = [retries EXCEPT ![c] = 0]
            /\ state' = [state EXCEPT ![c] = gen[Chain[j]]]
            /\ UNCHANGED outcome

\* execute_sync(), lines 545-555: the thread turns to position i; whether that model is in
\* cooldown it sees in a step of its own.
ThreadTurns(c, i) ==
    /\ pc' = [pc EXCEPT ![c] = "turning"]
    /\ at' = [at EXCEPT ![c] = i]
    /\ UNCHANGED <<retries, state, asked, outcome>>

GoesAlong(c, i, busy, error) ==
    IF c \in Threaded THEN ThreadTurns(c, i) ELSE Turn(c, i, busy, error)

\* execute_sync(), lines 557-563: what it raises behind the end of the chain.
ThreadError(c) ==
    IF last[c] = "none" THEN "NonRetryableError" ELSE MapProviderException(last[c])

\* execute_sync(), lines 473-501: the model is asked, passed over, or the chain is over.
ThreadLooks(c) ==
    /\ pc[c] = "turning"
    /\ IF at[c] > Len(Chain)
       THEN /\ pc' = [pc EXCEPT ![c] = "done"]
            /\ outcome' = [outcome EXCEPT ![c] = ThreadError(c)]
            /\ UNCHANGED <<at, retries, state, asked>>
       ELSE /\ asked' = [asked EXCEPT ![c] = @ \union {Chain[at[c]]}]
            /\ IF Chain[at[c]] \in cooled
               THEN at' = [at EXCEPT ![c] = @ + 1] /\ UNCHANGED <<pc, retries, state>>
               ELSE /\ pc' = [pc EXCEPT ![c] = "calling"]
                    /\ retries' = [retries EXCEPT ![c] = 0]
                    /\ state' = [state EXCEPT ![c] = gen[Chain[at[c]]]]
                    /\ UNCHANGED at
            /\ UNCHANGED outcome
    /\ UNCHANGED <<client, last, gen, cooled, resting, holders, excused>>

Chat(c) ==
    /\ pc[c] = "new"
    /\ GoesAlong(c, 1, cooled, "NonRetryableError")
    /\ UNCHANGED <<client, last, gen, cooled, resting, holders, excused>>

\* The model answers: its cooldown, which a call beside this one may have set
\* meanwhile, is cleared.
Succeeds(c) ==
    LET m == Chain[at[c]] IN
    /\ pc[c] = "calling"
    /\ cooled' = IF state[c] = gen[m] THEN cooled \ {m} ELSE cooled
    /\ excused' = IF m \in resting /\ c \in holders[m] THEN excused \union {m} ELSE excused
    /\ pc' = [pc EXCEPT ![c] = "done"]
    /\ outcome' = [outcome EXCEPT ![c] = "ok"]
    /\ UNCHANGED <<client, at, retries, last, state, gen, asked, resting, holders>>

\* The executor gives up on an error of the category: the model is set aside, on
\* the state the call has in its hands, and the strategy goes on or raises.
GivesUp(c, category) ==
    LET m == Chain[at[c]]
        error == Raised(c, category)
        fresh == state[c] = gen[m]
        busy == IF fresh THEN cooled \union {m} ELSE cooled
    IN /\ cooled' = busy
       /\ resting' = IF fresh THEN resting \union {m} ELSE resting
       /\ excused' = IF fresh THEN excused \ {m} ELSE excused
       /\ holders' = IF fresh
                     THEN [holders EXCEPT ![m] = {d \in Call \ {c} : pc[d] \in {"calling", "sleeping"}
                                                                      /\ Chain[at[d]] = m}]
                     ELSE holders
       /\ \E seen \in Seen(c, category) :
             IF ShouldFallback(seen)
             THEN GoesAlong(c, at[c] + 1, busy, error)
             ELSE /\ pc' = [pc EXCEPT ![c] = "done"]
                  /\ outcome' = [outcome EXCEPT ![c] = error]
                  /\ UNCHANGED <<at, retries, state, asked>>

\* A request fails: it is repeated after a sleep, or given up.  The built-in client has
\* repeated it itself.
RequestFails(c, category) ==
    /\ pc[c] = "calling"
    /\ last' = [last EXCEPT ![c] = category]
    /\ IF category \in Retryable /\ retries[c] < MaxRetries /\ ~BuiltIn(c)
       THEN /\ pc' = [pc EXCEPT ![c] = "sleeping"]
            /\ retries' = [retries EXCEPT ![c] = @ + 1]
            /\ UNCHANGED <<at, state, cooled, outcome, asked, resting, holders, excused>>
       ELSE GivesUp(c, category)
    /\ UNCHANGED <<client, gen>>

\* The sleep is over: the request is repeated, or the retry budget is used up.
Wakes(c) ==
    /\ pc[c] = "sleeping"
    /\ \/ /\ pc' = [pc EXCEPT ![c] = "calling"]
          /\ UNCHANGED <<at, retries, state, cooled, outcome, asked, resting, holders, excused>>
       \/ GivesUp(c, last[c])
    /\ UNCHANGED <<client, last, gen>>

\* reset_model(): the table gets a new ModelState; calls under way keep the old one.
ResetModel(m) ==
    /\ gen[m] < MaxResets
    /\ gen' = [gen EXCEPT ![m] = @ + 1]
    /\ cooled' = cooled \ {m} /\ resting' = resting \ {m}
    /\ UNCHANGED <<client, pc, at, retries, last, state, outcome, asked, holders, excused>>

\* A cooldown is over.
Recovers(m) ==
    /\ m \in resting
    /\ cooled' = cooled \ {m} /\ resting' = resting \ {m}
    /\ UNCHANGED <<client, pc, at, retries, last, state, gen, outcome, asked, holders, excused>>

Progress(c) ==
    Succeeds(c) \/ Wakes(c) \/ ThreadLooks(c) \/ \E category \in Errors : RequestFails(c, category)

Next ==
    \/ \E c \in Call : Chat(c) \/ Progress(c)
    \/ \E m \in Model : ResetModel(m) \/ Recovers(m)

\* Requests have timeouts and sleeps end.
Fairness == \A c \in Call : WF_vars(Progress(c))

-----------------------------------------------------------------------------
\* Errors that the strategy sees for what they are.
GoesOn(c, category) ==
    \/ category = "CONTEXT_WINDOW"
    \/ category = "RATE_LIMIT" /\ ~(BuiltIn(c) /\ client = "universal")

Failed(c) == outcome[c] \notin {"none", "ok"}

\* A call that fails in the end with a rate limit or a full context, whatever became
\* of that error on its way through the executor and the client, has gone along
\* the whole chain: no other call's success, failure or reset, and no earlier error
\* of another kind, makes it leave out a model that was not in cooldown.  Excepted is the
\* rate limit of the built-in UniversalClient, which ends as a RuntimeError (llm.py, line
\* 724).
ChainTried == \A c \in Call : Failed(c) /\ GoesOn(c, last[c]) => asked[c] = Model

\* No call turns to a model in cooldown, unless a call that was asking it when it
\* failed has had an answer since.
CooldownObserved ==
    [][\A c \in Call :
          pc'[c] = "calling" /\ (pc[c] \in {"new", "turning"} \/ at'[c] # at[c])
            => Chain[at'[c]] \notin resting' \ excused']_vars

\* Calls return: again and again none is under way.
EveryCallReturns == []<>(\A c \in Call : pc[c] \in {"new", "done"})
================================================================================
