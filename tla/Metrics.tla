--------------------------------- MODULE Metrics ---------------------------------
(***************************************************************************)
(* The collectors of app/llm/metrics.py (LLMMetrics and its latency        *)
(* histograms) and of app/observability/metrics.py (the registered         *)
(* counters, histograms and gauges with their Prometheus mirrors), used by *)
(* several threads.  An operation is the sequence of what it does between  *)
(* taking and giving back threading.Locks, which are not reentrant.        *)
(***************************************************************************)
EXTENDS Integers, Sequences, FiniteSets, SequencesExt, FiniteSetsExt

CONSTANTS Thread, Nobody,
          Conversation, Model,
          NameOf,            \* [model -> its name, a sequence of parts]
          Prices,            \* PRICING_TABLE: a sequence of [prefix, price], see PriceOf
          DefaultPrice,
          Budget, Thresholds,  \* of check_budget(): in units of cost, and in percent
          Kind,              \* [metric's name -> "counter", "histogram" or "gauge"]
          Builtin,           \* the names in _BUILTIN_METRICS
          Unregistered,
          Talks,             \* bound: <<conversation, model>>, which models it calls
          MaxOperations      \* bound: operations of all threads

VARIABLES holder,            \* who holds each lock
          todo,              \* what is left of each thread's operation
          doing,             \* the name of its operation
          operations,        \* MaxOperations spent
          spent, total,      \* _conversations and the _global_ totals: [calls, cost, errors]
          timed,             \* each LatencyHistogram's _count, "all" the global one's
          tokens,            \* calls in _model_token_counts
          alerts,            \* _alerts: <<conversation, threshold>>
          forgotten,         \* what clear_conversation() took away
          value, mirror,     \* each metric's value and its Prometheus mirror's
          backed,            \* the metrics that have a mirror
          counted, labelled  \* the increments of each metric since it was first there, and
                             \* those that came with the labels it was made with

metricsVars == <<holder, todo, doing, operations, spent, total, timed, tokens, alerts, forgotten,
                 value, mirror, backed, counted, labelled>>
llmVars == <<spent, total, timed, tokens, alerts, forgotten>>
platformVars == <<value, mirror, backed, counted, labelled>>

Metric == DOMAIN Kind
Lock == {"metrics", "registry", "all"} \cup Model \cup Metric
Nothing == [calls |-> 0, cost |-> 0, errors |-> 0]

MetricsInit ==
    /\ holder = [l \in Lock |-> Nobody]
    /\ todo = [t \in Thread |-> <<>>] /\ doing = [t \in Thread |-> "none"] /\ operations = 0
    /\ spent = [c \in Conversation |-> Nothing] /\ total = Nothing /\ forgotten = Nothing
    /\ timed = [h \in {"all"} \cup Model |-> 0] /\ tokens = [m \in Model |-> 0]
    /\ alerts = <<>>
    /\ value = [n \in Metric |-> IF n \in Builtin THEN 0 ELSE Unregistered]
    /\ mirror = [n \in Metric |-> 0]
    /\ backed \in {{}, Builtin}        \* whether prometheus_client could be imported
    /\ counted = [n \in Metric |-> 0] /\ labelled = [n \in Metric |-> 0]

-----------------------------------------------------------------------------
\* get_model_pricing(): the exact name, else the first name of the table that the model's
\* begins with.
PriceOf(m) ==
    LET exact == {k \in DOMAIN Prices : Prices[k].prefix = NameOf[m]}
        prefixes == {k \in DOMAIN Prices : IsPrefix(Prices[k].prefix, NameOf[m])}
    IN IF exact \cup prefixes = {} THEN DefaultPrice
       ELSE Prices[IF exact # {} THEN Min(exact) ELSE Min(prefixes)].price

\* calculate_cost(): nothing without tokens, which an error has none of.
CostOf(m, error) == IF error THEN 0 ELSE PriceOf(m)

Plus(a, b) ==
    [calls |-> a.calls + b.calls, cost |-> a.cost + b.cost, errors |-> a.errors + b.errors]
Charge(s) ==
    [calls |-> 1, cost |-> CostOf(s.model, s.error), errors |-> IF s.error THEN 1 ELSE 0]

-----------------------------------------------------------------------------
(* Operations: what each does, step by step.                               *)

Step(what, on) == <<[step |-> what, on |-> on]>>
Of(what, call) == <<[step |-> what, call |-> call]>>
Checking(c, asks) == <<[step |-> "alert", of |-> c, asks |-> asks]>>
Locked(lock, body) == Step("acquire", lock) \o body \o Step("release", lock)

\* LatencyHistogram.record(), percentile(), mean and count.
Record(h) == Locked(h, Step("time", h))
Read(h) == Locked(h, <<>>)

\* LatencyHistogram.to_dict(): mean and the percentiles take the lock again.
LatencyDict(h) == Locked(h, Read(h) \o Read(h))

\* record_call() and record_usage_dict().
RecordCall(call) ==
    Locked("metrics",
           Of("conversation", call) \o Of("total", call) \o Of("latency", call)
               \o Of("tokens", call))

\* check_budget() with a callback of the caller's: one that asks the metrics waits for the
\* lock that is held around it.
CheckBudget(c, asks) == Locked("metrics", Checking(c, asks))

\* The reading operations, and the exports.
Get == Locked("metrics", <<>>)
Summary == Locked("metrics", Read("all") \o Read("all"))
ToPrometheus == Locked("metrics", Step("prometheus", "models"))
ToDict == Locked("metrics", LatencyDict("all") \o Step("dict", "models"))

ClearConversation(c) == Locked("metrics", Step("forget", c))
ClearAll == Locked("metrics", Step("clear", "all"))

\* Counter.inc(), Histogram.observe() and its timer, Gauge.set(), inc() and dec(), with
\* the labels the metric was made with or not: the Prometheus mirror follows after the lock.
With(what, n, fits) == <<[step |-> what, on |-> n, fits |-> fits]>>
CounterInc(n, fits) == Locked(n, With("add", n, fits)) \o With("mirror", n, fits)
HistogramObserve(n, fits) == Locked(n, With("add", n, fits)) \o With("mirror", n, fits)
GaugeSet(n, fits) == Locked(n, With("set", n, fits)) \o With("mirror", n, fits)
GaugeInc(n, fits) == Locked(n, With("add", n, fits)) \o With("mirror", n, fits)

\* inc_counter(), observe_histogram(), set_gauge(): the metric is looked up without a lock.
Use(n, fits) ==
    Step("find", n) \o CASE Kind[n] = "counter" -> CounterInc(n, fits)
                          [] Kind[n] = "histogram" -> HistogramObserve(n, fits)
                          [] OTHER -> GaugeSet(n, fits)

\* A mutant of Register: the name is tested before the lock is taken.
RegisterTestsFirst(n) == Step("test", n) \o Locked("registry", Step("put", n))

\* register_counter(), register_histogram(), register_gauge().
Register(n) == Locked("registry", Step("test", n) \o Step("put", n))

\* get_all() of a counter and of a gauge, and of a histogram, which calls get() for each of
\* its label sets; get_metrics().
CounterGetAll(n) == Locked(n, <<>>)
GaugeGetAll(n) == Locked(n, <<>>)
HistogramGetAll(n) == Locked(n, Step("labels", n))
GetAll(n) ==
    CASE Kind[n] = "counter" -> CounterGetAll(n)
      [] Kind[n] = "histogram" -> HistogramGetAll(n)
      [] OTHER -> GaugeGetAll(n)
GetMetrics == Step("metrics", "all")

Recording ==
    {call \in [conversation : Conversation, model : Model, slow : BOOLEAN, error : BOOLEAN] :
        <<call.conversation, call.model>> \in Talks /\ (call.error => ~call.slow)}

\* The operations that take a lock while they hold it.
Relocking == {"to_dict", "get_metrics", "asking_callback"}

Begin(t, name, steps) ==
    /\ todo[t] = <<>> /\ operations < MaxOperations
    /\ operations' = operations + 1
    /\ todo' = [todo EXCEPT ![t] = steps] /\ doing' = [doing EXCEPT ![t] = name]
    /\ UNCHANGED <<holder, llmVars, platformVars>>

BeginAny(t) ==
    \/ \E call \in Recording : Begin(t, "record_call", RecordCall(call))
    \/ \E c \in Conversation : \/ Begin(t, "check_budget", CheckBudget(c, FALSE))
                               \/ Begin(t, "asking_callback", CheckBudget(c, TRUE))
                               \/ Begin(t, "clear_conversation", ClearConversation(c))
    \/ Begin(t, "get", Get) \/ Begin(t, "summary", Summary)
    \/ Begin(t, "to_prometheus", ToPrometheus) \/ Begin(t, "clear_all", ClearAll)
    \/ Begin(t, "to_dict", ToDict)
    \/ \E n \in Metric, fits \in BOOLEAN :
          \/ Begin(t, "use", Use(n, fits))
          \/ Kind[n] = "gauge" /\ Begin(t, "inc", GaugeInc(n, fits))
    \/ \E n \in Metric : Begin(t, "register", Register(n))
    \/ Begin(t, "get_metrics", GetMetrics)

-----------------------------------------------------------------------------
(* Steps.                                                                  *)

At(t, what) == todo[t] # <<>> /\ Head(todo[t]).step = what
On(t) == Head(todo[t]).on
CallOf(t) == Head(todo[t]).call
Go(t, before) ==
    /\ todo' = [todo EXCEPT ![t] = before \o Tail(@)]
    /\ UNCHANGED <<doing, operations>>

Acquire(t) ==
    /\ At(t, "acquire") /\ holder[On(t)] = Nobody
    /\ holder' = [holder EXCEPT ![On(t)] = t]
    /\ Go(t, <<>>) /\ UNCHANGED <<llmVars, platformVars>>

Release(t) ==
    /\ At(t, "release")
    /\ holder' = [holder EXCEPT ![On(t)] = Nobody]
    /\ Go(t, <<>>) /\ UNCHANGED <<llmVars, platformVars>>

\* record_call(), lines 426-467.
Count(t) ==
    /\ \/ /\ At(t, "conversation")
          /\ spent' = [spent EXCEPT ![CallOf(t).conversation] = Plus(@, Charge(CallOf(t)))]
          /\ Go(t, <<>>) /\ UNCHANGED <<total, timed, tokens>>
       \/ /\ At(t, "total") /\ total' = Plus(total, Charge(CallOf(t)))
          /\ Go(t, <<>>) /\ UNCHANGED <<spent, timed, tokens>>
       \/ /\ At(t, "latency")
          /\ Go(t, IF CallOf(t).slow THEN Record("all") \o Record(CallOf(t).model) ELSE <<>>)
          /\ UNCHANGED <<spent, total, timed, tokens>>
       \/ /\ At(t, "time") /\ timed' = [timed EXCEPT ![On(t)] = @ + 1]
          /\ Go(t, <<>>) /\ UNCHANGED <<spent, total, tokens>>
       \/ /\ At(t, "tokens") /\ tokens' = [tokens EXCEPT ![CallOf(t).model] = @ + 1]
          /\ Go(t, <<>>) /\ UNCHANGED <<spent, total, timed>>
    /\ UNCHANGED <<holder, alerts, forgotten, platformVars>>

\* check_budget(), lines 537-573: the next threshold that has been reached and not alerted;
\* what the callback raises is logged.
Reached(c) == {p \in Thresholds : spent[c].cost * 100 >= p * Budget /\ spent[c].calls > 0}
Alert(t) ==
    /\ At(t, "alert")
    /\ LET c == Head(todo[t]).of
           new == {p \in Reached(c) : ~Contains(alerts, <<c, p>>)}
       IN IF new = {} THEN Go(t, <<>>) /\ UNCHANGED alerts
          ELSE /\ alerts' = Append(alerts, <<c, Min(new)>>)
               /\ Go(t, (IF Head(todo[t]).asks THEN Get ELSE <<>>) \o <<Head(todo[t])>>)
    /\ UNCHANGED <<holder, spent, total, timed, tokens, forgotten, platformVars>>

Forget(t) ==
    /\ \/ /\ At(t, "forget")
          /\ forgotten' = Plus(forgotten, spent[On(t)])
          /\ spent' = [spent EXCEPT ![On(t)] = Nothing]
          /\ UNCHANGED <<total, timed, tokens, alerts>>
       \/ /\ At(t, "clear")
          /\ spent' = [c \in Conversation |-> Nothing] /\ total' = Nothing /\ forgotten' = Nothing
          /\ timed' = [h \in DOMAIN timed |-> 0] /\ tokens' = [m \in Model |-> 0] /\ alerts' = <<>>
    /\ Go(t, <<>>) /\ UNCHANGED <<holder, platformVars>>

\* The loops over the models with latencies, over the labels of a histogram and over the
\* metrics.
Loop(of, Body(_)) == FlattenSeq([k \in 1..Cardinality(of) |-> Body(SetToSeq(of)[k])])
Loops(t) ==
    LET Timed == {m \in Model : timed[m] > 0} IN
    /\ \/ At(t, "prometheus") /\ Go(t, Loop(Timed, Read))
       \/ At(t, "dict") /\ Go(t, Loop(Timed, LatencyDict))
       \/ At(t, "labels") /\ Go(t, IF value[On(t)] > 0 THEN Read(On(t)) ELSE <<>>)
       \/ At(t, "metrics") /\ Go(t, Loop({n \in Metric : value[n] # Unregistered}, GetAll))
    /\ UNCHANGED <<holder, llmVars, platformVars>>

\* An unknown name raises; a gauge is set to a number of the moment.  Where there is no
\* mirror it is not asked, and what it raises, at labels that are not its own, is dropped.
Uses(t) ==
    /\ \/ /\ At(t, "find")
          /\ IF value[On(t)] = Unregistered
             THEN todo' = [todo EXCEPT ![t] = <<>>] /\ UNCHANGED <<doing, operations>>
             ELSE Go(t, <<>>)
          /\ UNCHANGED <<value, mirror, counted, labelled>>
       \/ /\ At(t, "add")
          /\ value' = [value EXCEPT ![On(t)] = @ + 1]
          /\ counted' = [counted EXCEPT ![On(t)] = @ + 1]
          /\ labelled' = [labelled EXCEPT ![On(t)] = IF Head(todo[t]).fits THEN @ + 1 ELSE @]
          /\ Go(t, <<>>) /\ UNCHANGED mirror
       \/ /\ At(t, "set")
          /\ value' = [value EXCEPT ![On(t)] = operations]
          /\ Go(t, <<>>) /\ UNCHANGED <<mirror, counted, labelled>>
       \/ /\ At(t, "mirror")
          /\ mirror' = [mirror EXCEPT ![On(t)] =
                           IF On(t) \in backed /\ Head(todo[t]).fits THEN @ + 1 ELSE @]
          /\ Go(t, <<>>) /\ UNCHANGED <<value, counted, labelled>>
    /\ UNCHANGED <<holder, backed, llmVars>>

\* A name in use raises ValueError, out of the lock.  prometheus_client may refuse a name,
\* and the new metric has no mirror.
Registers(t) ==
    /\ \/ /\ At(t, "test")
          /\ IF value[On(t)] # Unregistered
             THEN /\ todo' = [todo EXCEPT ![t] = Step("release", "registry")]
                  /\ UNCHANGED <<doing, operations>>
             ELSE Go(t, <<>>)
          /\ UNCHANGED <<value, backed>>
       \/ /\ At(t, "put") /\ value' = [value EXCEPT ![On(t)] = 0] /\ Go(t, <<>>)
          /\ backed' = backed \/ (backed # {} /\ backed' = backed \cup {On(t)})
    /\ UNCHANGED <<holder, llmVars, mirror, counted, labelled>>

MetricsStep(t) ==
    \/ Acquire(t) \/ Release(t) \/ Count(t) \/ Alert(t) \/ Forget(t) \/ Loops(t) \/ Uses(t)
    \/ Registers(t)

MetricsNext == \E t \in Thread : BeginAny(t) \/ MetricsStep(t)

-----------------------------------------------------------------------------
UnderWay(t, n) == \E k \in DOMAIN todo[t] : todo[t][k].step = "mirror" /\ todo[t][k].on = n

\* Whoever gets LLMMetrics' lock finds the totals to be those of the conversations, present
\* and cleared, the calls' tokens and latencies to be those of the calls, and each threshold
\* alerted at most once, the lower ones first.  A metric shows all that was counted in it
\* since it was registered, however many threads register it; where nobody is under way to
\* it, a mirror that could be made shows all that came with the labels of the metric, and
\* no more.
MetricsAgree ==
    /\ holder["metrics"] = Nobody =>
          /\ total = Plus(forgotten, FoldFunction(Plus, Nothing, spent))
          /\ total.calls = FoldFunction(+, 0, tokens)
          /\ timed["all"] = FoldFunctionOnSet(+, 0, timed, Model)
          /\ \A j, k \in DOMAIN alerts :
                 j < k /\ alerts[j][1] = alerts[k][1] =>
                     alerts[j][2] < alerts[k][2]
    /\ \A n \in Metric :
          Kind[n] # "gauge" /\ value[n] # Unregistered =>
              /\ value[n] = counted[n]
              /\ n \in backed /\ (\A t \in Thread : ~UnderWay(t, n)) => mirror[n] = labelled[n]

\* No threads wait in a circle for each other's locks, except where one takes a lock twice.
NoCircle ==
    LET Waits(t) == At(t, "acquire") /\ holder[On(t)] # Nobody IN
    \A circle \in SUBSET Thread \ {{}} :
        (\A t \in circle : Waits(t) /\ holder[On(t)] \in circle) =>
            \E t \in circle : doing[t] \in Relocking
================================================================================
