------------------------------ MODULE StuckDetector ------------------------------
(***************************************************************************)
(* StuckDetector of app/conversation/stuck_detector.py and the nudges that *)
(* LocalConversation adds to its log: analyze() looks at the newest events *)
(* for five patterns in turn, two of them by a scan that pairs an action   *)
(* with the observation after it.                                          *)
(*                                                                         *)
(* Fingerprints are the members of small sets; an event of an error is     *)
(* one about the context window.                                           *)
(***************************************************************************)
EXTENDS Naturals, Sequences, FiniteSets, SequencesExt

CONSTANTS Turns,               \* what an agent or its user adds to the log at a time
          WindowSize, RepeatThreshold, MonologueThreshold, ContextThreshold,
          MaxTurns             \* bound: turns and nudges in a log

VARIABLES log,                 \* the events of the conversation
          pc,                  \* "idle", "answers" or "errors", the two scans, or "answered"
          i,                   \* the event the scan is at
          pairs,               \* the newest RepeatThreshold pairs of the scan
          report,              \* the pattern reported, or "none"
          turns                \* MaxTurns spent

stuckVars == <<log, pc, i, pairs, report, turns>>

Window == SubSeq(log, IF Len(log) > WindowSize THEN Len(log) - WindowSize + 1 ELSE 1, Len(log))

Action(what) == [kind |-> "action", what |-> what]
Observation(what) == [kind |-> "observation", what |-> what]
User == [kind |-> "user", what |-> "says"]
Overflow == [kind |-> "error", what |-> "context"]

\* What may be in a log.
Event == {User} \cup UNION {Range(t) : t \in Turns}

\* Observations that carry success = False.
IsFailed(e) == e = Observation("failed")

StuckInit ==
    /\ log = <<>> /\ pc = "idle" /\ i = 1 /\ pairs = <<>> /\ report = "none" /\ turns = 0

-----------------------------------------------------------------------------
\* The conversation goes on.
Grow ==
    /\ pc = "idle" /\ turns < MaxTurns /\ turns' = turns + 1
    /\ \E t \in Turns : log' = log \o t
    /\ UNCHANGED <<pc, i, pairs, report>>

\* check_stuck() at the top of a step, lines 245-251.
Analyze ==
    /\ pc = "idle" /\ log # <<>> /\ turns <= MaxTurns
    /\ pc' = "answers" /\ i' = 1 /\ pairs' = <<>> /\ report' = "none"
    /\ UNCHANGED <<log, turns>>

\* The first observation or action after the event the scan is at, or 0.
After(w) ==
    SelectInSubSeq(w, i + 1, Len(w), LAMBDA e : e.kind \in {"action", "observation"})

Kept(p) ==
    LET all == Append(pairs, p)
    IN SubSeq(all, IF Len(all) > RepeatThreshold THEN 2 ELSE 1, Len(all))

\* A mutant of Scans: a broken pair is left behind.
ScansOn(w, failures) ==
    LET e == w[i]  j == After(w)
        other == IF j > 0 /\ w[j].kind = "observation" THEN w[j] ELSE User
    IN /\ i' = IF e.kind = "action" /\ j > 0 /\ w[j].kind = "observation" THEN j + 1 ELSE i + 1
       /\ pairs' = IF e.kind = "action" /\ (failures => IsFailed(other)) THEN Kept(<<e, e>>) ELSE pairs

\* One round of the while loop, for all pairs or for failures only: an action is paired
\* with the next observation, or with none at the end of the window; an action before one
\* leaves the scan where it is.
Scans(w, failures) ==
    LET e == w[i]  j == After(w)
        other == IF j > 0 /\ w[j].kind = "observation" THEN w[j] ELSE User
    IN /\ i' = IF e.kind # "action" \/ j = 0 THEN i + 1
               ELSE IF w[j].kind = "observation" THEN j + 1 ELSE i
       /\ pairs' = IF e.kind = "action" /\ (failures => IsFailed(other)) THEN Kept(<<e, other>>) ELSE pairs

Repeats == Len(pairs) = RepeatThreshold /\ \A k \in DOMAIN pairs : pairs[k] = pairs[1]

\* _check_repeating_action_observation(), lines 290-334.
ScanAnswers ==
    /\ pc = "answers" /\ i <= Len(Window)
    /\ Scans(Window, FALSE)
    /\ UNCHANGED <<log, pc, report, turns>>

AnswersScanned ==
    /\ pc = "answers" /\ i > Len(Window)
    /\ IF Repeats THEN pc' = "answered" /\ report' = "repeating" ELSE pc' = "errors" /\ UNCHANGED report
    /\ i' = 1 /\ pairs' = <<>>
    /\ UNCHANGED <<log, turns>>

\* _check_repeating_action_error(), lines 349-397: only pairs that failed are kept.
ScanErrors ==
    /\ pc = "errors" /\ i <= Len(Window)
    /\ Scans(Window, TRUE)
    /\ UNCHANGED <<log, pc, report, turns>>

\* _check_agent_monologue(): the longest stretch without the user, errors apart.
Stretch[n \in Nat] ==
    IF n = 0 \/ Window[n] = User THEN 0
    ELSE Stretch[n - 1] + (IF Window[n].kind = "error" THEN 0 ELSE 1)
Monologue == \E n \in DOMAIN Window : Stretch[n] >= MonologueThreshold

\* _check_alternating_action_observation(): the newest actions are a, b, a, b, ...
Alternating ==
    LET acts == SelectSeq(Window, LAMBDA e : e.kind = "action")
        n == Len(acts) - 2 * RepeatThreshold
    IN /\ n >= 0 /\ acts[n + 1] # acts[n + 2]
       /\ \A k \in 1..(2 * RepeatThreshold) : acts[n + k] = acts[(n + 1) + ((k - 1) % 2)]

\* _check_context_window_error_loop().
Overflowing == Cardinality({k \in DOMAIN Window : Window[k] = Overflow}) >= ContextThreshold

\* The rest of analyze(), lines 256-275: the first pattern found.
Answer ==
    /\ pc = "errors" /\ i > Len(Window)
    /\ report' = IF Repeats THEN "failing" ELSE IF Monologue THEN "monologue"
                 ELSE IF Alternating THEN "alternating" ELSE IF Overflowing THEN "overflow" ELSE "none"
    /\ pc' = "answered" /\ i' = 1 /\ pairs' = <<>>
    /\ UNCHANGED <<log, turns>>

\* local_conversation.py:407-424: a report becomes a message with the role of the user.
Nudge ==
    /\ pc = "answered" /\ pc' = "idle"
    /\ log' = IF report # "none" THEN Append(log, User) ELSE log
    /\ turns' = IF report # "none" THEN turns + 1 ELSE turns
    /\ report' = "none"
    /\ UNCHANGED <<i, pairs>>

AnalyzeStep == ScanAnswers \/ AnswersScanned \/ ScanErrors \/ Answer

StuckNext == Grow \/ Analyze \/ AnalyzeStep \/ Nudge

-----------------------------------------------------------------------------
ActionsIn(w) == {k \in DOMAIN w : w[k].kind = "action"}

\* The observation that comes first after an action of the window, or none.
ObservedAfter(w, k) ==
    {w[j] : j \in {j \in DOMAIN w : /\ j > k /\ w[j].kind = "observation"
                                   /\ \A m \in (k + 1)..(j - 1) : w[m].kind # "observation"}}

\* The newest of a set of actions had all the same answer.
SameAnswers(w, acts) ==
    \E newest \in SUBSET acts :
        /\ Cardinality(newest) = RepeatThreshold
        /\ \A k \in newest, m \in acts \ newest : m < k
        /\ \A k, m \in newest : w[k] = w[m] /\ ObservedAfter(w, k) = ObservedAfter(w, m)

\* The pattern that a report names is in the window, and no pattern of more weight.
ReportedRight ==
    LET w == Window
        repeating == SameAnswers(w, ActionsIn(w))
        failing == SameAnswers(w, {k \in ActionsIn(w) : \E e \in ObservedAfter(w, k) : IsFailed(e)})
    IN pc = "answered" =>
           /\ report = "repeating" <=> repeating
           /\ report = "failing" <=> failing /\ ~repeating
           /\ report = "none" => ~Overflowing

\* Class StuckDetector, line 231: "Analyze *events* for stuck patterns. ... Returns: A
\* StuckReport with the detection result."
AnalyzeReturns == pc = "answers" ~> pc = "answered"
================================================================================
