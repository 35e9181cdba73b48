------------------------------ MODULE ContextView ------------------------------
(***************************************************************************)
(* app/context: the View an agent's model sees, the four properties that   *)
(* keep it well formed, and the condensers that shorten it.                *)
(*                                                                         *)
(* An event is [id, role, calls, answers, text, tool, summary]: the ids of *)
(* the tool calls an assistant event makes, the one a tool event answers,  *)
(* whether there is content, the name of the tool, and whether a condenser *)
(* put it there.  Ids of events and calls are never used twice.  Tokens    *)
(* are abstracted: how many events a token budget takes is a choice.       *)
(***************************************************************************)
EXTENDS Naturals, FiniteSets, SequencesExt

CONSTANTS KeepFirst,     \* keep_first
          LoopLength,    \* min_loop_length
          NoCall         \* tool_call_id is None

Indices(v, P(_)) == {i \in DOMAIN v : P(v[i])}
Ids(v) == {v[i].id : i \in DOMAIN v}
Without(v, ids) == SelectSeq(v, LAMBDA e : e.id \notin ids)

IsTool(e) == e.role = "tool"
HasCalls(e) == e.calls # {}
IsPlain(e) == ~IsTool(e) /\ ~HasCalls(e)

Declared(v) == UNION {v[i].calls : i \in DOMAIN v}
Answered(v) == {v[i].answers : i \in Indices(v, IsTool)}

-----------------------------------------------------------------------------
(* view_properties.py: check(), enforce() and safe_indices() of the four   *)
(* properties.  No index is safe at the front.                             *)

Behind(v) == DOMAIN v \ {1}

\* The assistant event that makes the call a tool event answers, if it comes before.
Parents(v, i) == {j \in 1..(i - 1) : v[i].answers \in v[j].calls}

BatchCheck(v) == \A i \in Indices(v, IsTool) : Parents(v, i) # {}

\* Tool events that nobody asked for go, and assistant events nobody answered.
BatchEnforce(v) ==
    SelectSeq(v, LAMBDA e : /\ IsTool(e) => e.answers \in Declared(v)
                            /\ HasCalls(e) => e.calls \cap Answered(v) # {})

BatchSafe(v) ==
    {i \in Behind(v) : IsTool(v[i]) => Parents(v, i) \ {1} # {}}

\* The first answer to each call.
First(v) == {i \in Indices(v, IsTool) : \A j \in 1..(i - 1) : IsTool(v[j]) => v[j].answers # v[i].answers}

UniqueCheck(v) == First(v) = Indices(v, IsTool)
UniqueEnforce(v) == Without(v, {v[i].id : i \in Indices(v, IsTool) \ First(v)})
UniqueSafe(v) == Behind(v) \ First(v)

MatchCheck(v) == Declared(v) = Answered(v)

\* A mutant of MatchEnforce: calls without an answer stay in their event.
MatchEnforceUntrimmed(v) ==
    SelectSeq(v, LAMBDA e : /\ IsTool(e) => e.answers \in Declared(v)
                            /\ HasCalls(e) => e.calls \cap Answered(v) # {} \/ e.text)

\* Each assistant event keeps the calls that were answered; without any it becomes
\* a plain one, or goes if it has no content.
MatchEnforce(v) ==
    LET answered == Answered(v)
        Matched(e) == [e EXCEPT !.calls = @ \cap answered]
        Stays(e) == /\ IsTool(e) => e.answers \in Declared(v)
                    /\ HasCalls(e) => e.calls \cap answered # {} \/ e.text
        kept == SelectSeq(v, Stays)
    IN [i \in DOMAIN kept |-> Matched(kept[i])]

MatchSafe(v) ==
    {i \in Behind(v) :
        \/ IsPlain(v[i])
        \/ \E j \in Behind(v) : v[j].answers \in v[i].calls
        \/ IsTool(v[i]) /\ \E j \in Behind(v) : v[i].answers \in v[j].calls}

\* _detect_loops(): runs of answers of one tool with the assistant events between
\* them, as sequences of indices.
Loops(v) ==
    LET Close(s) == IF Len(s.run) >= 2 * LoopLength THEN Append(s.found, s.run) ELSE s.found
        Follow(s, i) ==
            CASE IsTool(v[i]) /\ v[i].tool = s.tool ->
                   [s EXCEPT !.run = IF s.run # <<>> /\ Last(s.run) # i - 1
                                     THEN @ \o <<i - 1, i>> ELSE Append(@, i)]
              [] IsTool(v[i]) /\ v[i].tool # s.tool ->
                   [found |-> Close(s), tool |-> v[i].tool,
                    run |-> IF i > 1 /\ v[i - 1].role = "assistant" THEN <<i - 1, i>> ELSE <<i>>]
              [] v[i].role = "assistant" -> s
              [] v[i].role \in {"system", "user"} ->
                   [found |-> Close(s), tool |-> NoCall, run |-> <<>>]
    IN Close(FoldLeft(Follow, [found |-> <<>>, tool |-> NoCall, run |-> <<>>],
                      [i \in DOMAIN v |-> i]))

LoopCheck(v) ==
    \A loop \in Range(Loops(v)) :
        Cardinality({v[i].tool : i \in {j \in Range(loop) : IsTool(v[j])}}) <= 1
LoopEnforce(v) == v
LoopSafe(v) == Behind(v)

-----------------------------------------------------------------------------
(* view.py.                                                                *)

Valid(v) == BatchCheck(v) /\ UniqueCheck(v) /\ MatchCheck(v) /\ LoopCheck(v)

\* enforce_properties(), in the order of DEFAULT_PROPERTIES.
Enforce(v) == LoopEnforce(MatchEnforce(UniqueEnforce(BatchEnforce(v))))

\* manipulation_indices.
Manipulable(v) ==
    {i \in BatchSafe(v) \cap UniqueSafe(v) \cap MatchSafe(v) \cap LoopSafe(v) : i > KeepFirst}

\* remove_event_ids().
Removed(v, ids) == Enforce(Without(v, ids))

-----------------------------------------------------------------------------
(* condenser: what each condenser forgets of a view, as an action          *)
(* [forgotten, summary].  max is its max_events.                           *)

IdsAt(v, S) == {v[i].id : i \in S}
Candidates(v, max) == {i \in Manipulable(v) : i + max <= Len(v)}
ShouldCondense(v, max) == Len(v) > max + KeepFirst

\* RollingCondenser.condense().
Rolling(v, max) ==
    [forgotten |-> IF ShouldCondense(v, max) THEN IdsAt(v, Candidates(v, max)) ELSE {},
     summary |-> FALSE]

\* LLMSummarizingCondenser.condense() without a token limit.  There is always a
\* summary: what goes wrong in _call_condenser_llm() it answers with an extract.
Summarizing(v, max) ==
    LET ids == IdsAt(v, Candidates(v, max)) IN [forgotten |-> ids, summary |-> ids # {}]

\* With one, for a view above it: the oldest manipulable events, as many as it takes.
ByTokens(v) ==
    {[forgotten |-> IdsAt(v, {i \in Manipulable(v) : i <= last}), summary |-> TRUE]
        : last \in Manipulable(v)}

\* What is left when that fails: _hard_reset_fallback().
HardReset(v, max) ==
    [forgotten |-> IdsAt(v, Candidates(v, Min({max, Len(v) - KeepFirst}))), summary |-> FALSE]

SummaryEvent(id) ==
    [id |-> id, role |-> "user", calls |-> {}, answers |-> NoCall, text |-> TRUE,
     tool |-> NoCall, summary |-> TRUE]

\* apply(): the events go, the summary becomes the last event.
Applied(v, action, id) ==
    IF action.forgotten = {} /\ ~action.summary THEN v
    ELSE LET rest == Removed(v, action.forgotten)
         IN Enforce(IF action.summary THEN Append(rest, SummaryEvent(id)) ELSE rest)

\* What the stages of a pipeline have forgotten together.
Merged(before, now) == before \cup now

\* PipelineCondenser.condense(): each stage sees what the stages before have left;
\* the result forgets what any of them forgot, with the last summary.
Pipelined(v, stages, stopOnFirst, id) ==
    LET Stage(s, i) ==
            LET action == IF stages[i].rolling THEN Rolling(s.view, stages[i].max)
                          ELSE Summarizing(s.view, stages[i].max)
            IN IF s.stopped \/ ~ShouldCondense(s.view, stages[i].max) \/ action.forgotten = {}
               THEN s
               ELSE [view |-> Applied(s.view, action, id + i),
                     forgotten |-> Merged(s.forgotten, action.forgotten),
                     summary |-> s.summary \/ action.summary,
                     stopped |-> stopOnFirst]
    IN FoldLeft(Stage, [view |-> v, forgotten |-> {}, summary |-> FALSE, stopped |-> FALSE],
                [i \in DOMAIN stages |-> i])

-----------------------------------------------------------------------------
(***************************************************************************)
(* A view in use (app/context): events are added while tools run, and a    *)
(* condenser decides on one state of the view and is applied to a later    *)
(* one.                                                                    *)
(***************************************************************************)

CONSTANTS Window,      \* max_events of the single condensers
          Stages,      \* pipelines: sequences of [rolling, max]
          Tools,       \* names of tools
          MaxAdded,    \* bound: events ever added
          MaxApplied   \* bound: condensations

VARIABLES view,      \* _events
          pending,   \* the calls whose tools still run
          next,      \* the next event id
          plan,      \* the action a condenser has returned
          applied    \* MaxApplied spent

contextVars == <<view, pending, next, plan, applied>>

NoPlan == [forgotten |-> {}, summary |-> FALSE]
Event(role, calls, answers, text, tool) ==
    [id |-> next, role |-> role, calls |-> calls, answers |-> answers, text |-> text,
     tool |-> tool, summary |-> FALSE]

Init ==
    /\ next = 1 /\ pending = {}
    /\ view = <<[id |-> 0, role |-> "system", calls |-> {}, answers |-> NoCall,
                 text |-> TRUE, tool |-> NoCall, summary |-> FALSE]>>
    /\ plan = NoPlan /\ applied = 0

\* View.add(); a plan is made of the view before it.
Add(e) ==
    /\ next <= MaxAdded
    /\ view' = Append(view, e) /\ next' = next + 1
    /\ UNCHANGED <<plan, applied>>

AddUser == Add(Event("user", {}, NoCall, TRUE, NoCall)) /\ UNCHANGED pending

\* The model answers with text, with up to two calls, or both.
AddAssistant ==
    \E n \in 0..2, text \in BOOLEAN :
        LET calls == {<<next, k>> : k \in 1..n} IN
        /\ text \/ n > 0
        /\ Add(Event("assistant", calls, NoCall, text, NoCall))
        /\ pending' = pending \cup calls

\* A tool is done.
AddAnswer ==
    \E c \in pending, tool \in Tools :
        /\ Add(Event("tool", {}, c, TRUE, tool))
        /\ pending' = pending \ {c}

Plan(result) == [forgotten |-> result.forgotten, summary |-> result.summary]

\* A condenser looks at the view.
Condense ==
    /\ plan = NoPlan /\ applied < MaxApplied
    /\ plan' \in {Rolling(view, Window), Summarizing(view, Window), HardReset(view, Window)}
                 \cup ByTokens(view)
                 \cup {Plan(Pipelined(view, stages, stop, next)) :
                         stages \in Stages, stop \in BOOLEAN}
    /\ plan'.forgotten # {}
    /\ UNCHANGED <<view, pending, next, applied>>

\* Its action is applied to the view as it is then.
Apply ==
    /\ plan # NoPlan
    /\ view' = Applied(view, plan, next)
    /\ next' = next + 1 /\ applied' = applied + 1
    /\ plan' = NoPlan
    /\ UNCHANGED pending

Next == AddUser \/ AddAssistant \/ AddAnswer \/ Condense \/ Apply

Spec == Init /\ [][Next]_contextVars

-----------------------------------------------------------------------------
Lost(e) == e.id \notin Ids(view')

\* A condensed view is valid, whatever was under way when it was condensed and
\* whatever came in since; and nothing is lost but what the condenser chose, an answer
\* whose call is lost or was, and a call that nobody has answered yet.
CondensedWell ==
    [][plan # NoPlan /\ plan' = NoPlan =>
         /\ Valid(view)'
         /\ \A i \in DOMAIN view :
              LET e == view[i] IN
              Lost(e) /\ e.id \notin plan.forgotten =>
                \/ IsTool(e) /\ \A j \in DOMAIN view :
                                   e.answers \in view[j].calls => Lost(view[j])
                \/ HasCalls(e) /\ e.calls \cap Answered(view) = {}]_contextVars

\* Applying the merged action of a pipeline leaves what its stages left one after the
\* other, but for the summaries they made.
PipelineAgrees ==
    \A stages \in Stages, stop \in BOOLEAN :
        LET Real(v) == SelectSeq(v, LAMBDA e : e.id < next)
            result == Pipelined(view, stages, stop, next)
        IN Real(Applied(view, Plan(result), next)) = Real(result.view)
================================================================================
