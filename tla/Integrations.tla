------------------------------ MODULE Integrations ------------------------------
(***************************************************************************)
(* app/integrations/webhook_handler.py, app/integrations/resolver.py and   *)
(* what starts a resolution.                                               *)
(*                                                                         *)
(* WebhookHandler: handle() verifies and normalizes a delivery, looks its  *)
(* fingerprint up in the deduplication store, which records it, and queues *)
(* it; a background loop starts a task per queued event, which runs every  *)
(* registered handler and runs all of them again, after a delay, when the  *)
(* last one has failed.  A delivery is one HTTP request: its headers, what *)
(* its body has at the paths that the code looks at, and whether it        *)
(* carries the right signature or token.  Two deliveries with the same     *)
(* fingerprint are a provider's redelivery, or two events the fingerprint  *)
(* does not tell apart.                                                    *)
(*                                                                         *)
(* IssueResolver: a resolution registers a cancellation event, takes a     *)
(* permit of its resolver's semaphore without waiting, gathers context and *)
(* builds the prompt, calls the language model under a timeout, prepares   *)
(* the changes and posts a comment; a finally clause records the result,   *)
(* forgets the event and gives the permit back.  A step of the model is    *)
(* what runs between two awaits.                                           *)
(*                                                                         *)
(* It is started by WebhookHandler with resolver_webhook_handler() among   *)
(* its handlers, by the Slack commands /resolve and /review, and by users  *)
(* of the shared issue_resolver.  The webhook handler and the commands     *)
(* make an IssueResolver per request, so that its semaphore never turns    *)
(* them away; only direct requests meet each other's permits and can be    *)
(* cancelled by their request id.                                          *)
(***************************************************************************)
EXTENDS Naturals, Sequences, FiniteSets, SequencesExt

CONSTANTS Delivery, Handler,
          Traffic,         \* what may be sent: functions from Delivery to requests
          MaxRetries,      \* _max_retries
          MaxQueue,        \* _max_queue_size
          MaxSeen,         \* DeduplicationStore._max
          MaxStops         \* bound: calls of stop_processing(), off() and on()

ASSUME DeliveryAssumption == IsFiniteSet(Delivery)
ASSUME SizesAssumption == MaxRetries \in Nat /\ MaxSeen \in Nat \ {0}

VARIABLES sent,       \* the request of each delivery
          secret,     \* whether the handler has a _secret
          state,      \* what became of each delivery
          seen,       \* DeduplicationStore._seen, oldest first
          expired,    \* how many of its oldest entries are out of the window
          queue,      \* _queue
          running,    \* _running, and with it the loop's task
          handlers,   \* the handlers registered for the event type
          round,      \* retry_count of each delivery
          todo,       \* the handlers its round has still to run
          failing,    \* last_error is not None
          stops,      \* MaxStops spent
          forgotten   \* how often each fingerprint has left the store

trafficVars == <<sent, secret>>
intakeVars == <<trafficVars, state, seen, expired, queue, running, handlers, round, todo,
                failing, stops, forgotten>>

-----------------------------------------------------------------------------
(* What a request says: EventNormalizer, SignatureVerifier, WebhookEvent.  *)

\* The headers that tell a provider, in the order they are looked for.
Detectors ==
    <<[provider |-> "github", needs |-> {"x-github-event"}],
      [provider |-> "gitlab", needs |-> {"x-gitlab-event"}],
      [provider |-> "azure_devops", needs |-> {"x-azure-devops-event"}],
      [provider |-> "bitbucket", needs |-> {"x-event-key", "x-hook-uuid"}]>>

\* detect_provider()
ProviderOf(m) ==
    LET fits == SelectSeq(Detectors, LAMBDA p : p.needs \subseteq DOMAIN m.headers) IN
    IF fits = <<>> THEN "unknown" ELSE Head(fits).provider

\* verify(): everything passes without a secret, and with one nobody unknown.
Verified(m) == secret => ProviderOf(m) # "unknown" /\ m.signature = "right"

WebhookEventType ==
    {"push", "pull_request", "issues", "issue_comment", "pull_request_review", "check_run",
     "release", "member", "unknown"}

GitlabEventType(raw) ==
    CASE raw \in {"Push Hook", "Tag Push Hook"} -> "push"
      [] raw = "Merge Request Hook" -> "pull_request"
      [] raw = "Issue Hook" -> "issues"
      [] raw = "Note Hook" -> "issue_comment"
      [] OTHER -> "unknown"

AzureEventType(raw) ==
    CASE raw = "git.push" -> "push"
      [] raw \in {"git.pullrequest.created", "git.pullrequest.updated"} -> "pull_request"
      [] raw \in {"workitem.created", "workitem.updated"} -> "issues"
      [] OTHER -> "unknown"

\* An x-event-key is written here as the pair of its parts.
BitbucketEventType(raw) ==
    CASE raw = <<"repo", "push">> -> "push"
      [] raw[1] = "pullrequest" -> "pull_request"
      [] raw[1] = "issue" -> "issues"
      [] raw[1] = "issue_comment" -> "issue_comment"
      [] OTHER -> "unknown"

EventType(m) ==
    LET p == ProviderOf(m) IN
    CASE p = "github" -> m.headers["x-github-event"]
      [] p = "gitlab" -> GitlabEventType(m.headers["x-gitlab-event"])
      [] p = "azure_devops" -> AzureEventType(m.headers["x-azure-devops-event"])
      [] p = "bitbucket" -> BitbucketEventType(m.headers["x-event-key"])
      [] OTHER -> "unknown"

\* normalize() raises for a kind of event of GitHub's that has no member, line 318.
Normalizes(m) == EventType(m) \in WebhookEventType

\* What the body has at the first of some paths that it has, or "".
At(m, paths) ==
    LET there == SelectSeq(paths, LAMBDA p : p \in DOMAIN m.body) IN
    IF there = <<>> THEN "" ELSE m.body[Head(there)]

\* event.action and event.repo_id, lines 317-360.
Action(m) ==
    LET p == ProviderOf(m) IN
    At(m, CASE p \in {"github", "azure_devops"} -> <<"action">>
            [] p = "gitlab" -> <<"object_attributes.action">>
            [] p = "bitbucket" -> <<"push.changes.type">>
            [] OTHER -> <<>>)

RepoId(m) ==
    LET p == ProviderOf(m) IN
    At(m, CASE p \in {"github", "bitbucket"} -> <<"repository.full_name">>
            [] p = "gitlab" -> <<"project.path_with_namespace">>
            [] p = "azure_devops" -> <<"resource.repository.name">>
            [] OTHER -> <<>>)

PullNumber(m) ==
    At(m, <<"pull_request.number", "pull_request.iid", "merge_request.number",
            "merge_request.iid">>)
IssueNumber(m) == At(m, <<"issue.number">>)

\* _compute_fingerprint(): the parts that are hashed.
FingerprintOf(m) ==
    LET type == EventType(m) IN
    <<ProviderOf(m), type, Action(m), RepoId(m)>>
    \o CASE type = "push" -> <<At(m, <<"after">>)>>
         [] type \in {"pull_request", "pull_request_review"} -> <<PullNumber(m), Action(m)>>
         [] type = "issues" -> <<IssueNumber(m), Action(m)>>
         [] type = "issue_comment" -> <<IssueNumber(m), Action(m), At(m, <<"comment.id">>)>>
         [] OTHER -> <<>>

Fingerprint == {FingerprintOf(sent[d]) : d \in {d \in Delivery : Normalizes(sent[d])}}

-----------------------------------------------------------------------------
InFlight == {"queued", "spawned", "calling", "sleeping"}
Settled == {"completed", "failed"}
Accepted == {d \in Delivery : state[d] \in InFlight \cup Settled}

IntakeInit ==
    /\ sent \in Traffic /\ secret \in BOOLEAN
    /\ state = [d \in Delivery |-> "new"]
    /\ seen = <<>> /\ expired = 0
    /\ queue = <<>>
    /\ running = FALSE
    /\ handlers \in {<<>>, SetToSeq(Handler)}
    /\ round = [d \in Delivery |-> 0]
    /\ todo = [d \in Delivery |-> <<>>]
    /\ failing = [d \in Delivery |-> FALSE]
    /\ stops = 0
    /\ forgotten = [f \in Fingerprint |-> 0]

-----------------------------------------------------------------------------
(* The front: handle().                                                    *)

\* Lines 426-437: the entries inside the window, oldest first.
Fresh == SubSeq(seen, expired + 1, Len(seen))

\* A mutant of Recorded: over its capacity the store drops what it has just taken.
RecordedDropsNewest(f) ==
    LET s == Append(Fresh, f) IN
    IF Len(s) > MaxSeen THEN Front(s) ELSE s

\* Lines 444-450: f is recorded, and the oldest entries leave while there are
\* too many.
Recorded(f) ==
    LET s == Append(Fresh, f) IN
    IF Len(s) > MaxSeen THEN Tail(s) ELSE s

\* f leaves the store by age, or for want of room in s.
Leaves(f, s) == f \in Range(seen) /\ (f \notin Range(Fresh) \/ f \notin Range(s))

Remember(s) ==
    /\ seen' = s
    /\ expired' = 0
    /\ forgotten' = [f \in Fingerprint |-> forgotten[f] + IF Leaves(f, s) THEN 1 ELSE 0]

\* handle(), lines 558-638.  The fingerprint is recorded before the queue is tried: an
\* event that finds the queue full is rejected, and its redelivery will be a
\* duplicate.
Refused(d) ==
    /\ ~(Verified(sent[d]) /\ Normalizes(sent[d]))
    /\ state' = [state EXCEPT ![d] = IF Verified(sent[d]) THEN "raised" ELSE "rejected"]
    /\ UNCHANGED <<seen, expired, forgotten, queue>>

Duplicate(d) ==
    /\ FingerprintOf(sent[d]) \in Range(Fresh)
    /\ Remember(Fresh)
    /\ state' = [state EXCEPT ![d] = "duplicate"]
    /\ UNCHANGED queue

Enqueue(d) ==
    /\ FingerprintOf(sent[d]) \notin Range(Fresh)
    /\ Remember(Recorded(FingerprintOf(sent[d])))
    /\ IF Len(queue) < MaxQueue
       THEN state' = [state EXCEPT ![d] = "queued"] /\ queue' = Append(queue, d)
       ELSE state' = [state EXCEPT ![d] = "rejected"] /\ UNCHANGED queue

Handle(d) ==
    /\ state[d] = "new"
    /\ UNCHANGED <<trafficVars, running, handlers, round, todo, failing, stops>>
    /\ \/ Refused(d)
       \/ Verified(sent[d]) /\ Normalizes(sent[d]) /\ (Duplicate(d) \/ Enqueue(d))

\* Time passes: more of the oldest entries fall out of the window.
WindowPasses ==
    /\ expired < Len(seen)
    /\ expired' \in (expired + 1)..Len(seen)
    /\ UNCHANGED <<trafficVars, state, seen, queue, running, handlers, round, todo, failing,
                   stops, forgotten>>

-----------------------------------------------------------------------------
(* The loop: start_processing(), stop_processing(), _process_loop().       *)

\* Lines 642-650.
StartProcessing ==
    /\ ~running
    /\ running' = TRUE
    /\ UNCHANGED <<trafficVars, state, seen, expired, queue, handlers, round, todo, failing,
                   stops, forgotten>>

\* Lines 652-661: the loop is cancelled in its wait for the queue, which keeps
\* what it holds; the tasks already started go on.
StopProcessing ==
    /\ running
    /\ stops < MaxStops
    /\ running' = FALSE
    /\ stops' = stops + 1
    /\ UNCHANGED <<trafficVars, state, seen, expired, queue, handlers, round, todo, failing,
                   forgotten>>

\* A mutant of Take: the event is taken and its task never started.
TakeLost ==
    /\ running
    /\ queue # <<>>
    /\ queue' = Tail(queue)
    /\ UNCHANGED <<trafficVars, state, seen, expired, running, handlers, round, todo, failing,
                   stops, forgotten>>

\* Lines 663-672: one event is taken and given a task of its own.
Take ==
    /\ running
    /\ queue # <<>>
    /\ queue' = Tail(queue)
    /\ state' = [state EXCEPT ![Head(queue)] = "spawned"]
    /\ UNCHANGED <<trafficVars, seen, expired, running, handlers, round, todo, failing, stops,
                   forgotten>>

-----------------------------------------------------------------------------
(* The handlers: on(), off(), _process_event().                            *)

\* Lines 524-554.
Register(h) ==
    /\ stops < MaxStops
    /\ stops' = stops + 1
    /\ handlers' = IF h \in Range(handlers) THEN Remove(handlers, h)
                                            ELSE Append(handlers, h)
    /\ UNCHANGED <<trafficVars, state, seen, expired, queue, running, round, todo, failing,
                   forgotten>>

\* Lines 681-709, 740-741: a task begins, or begins again after its delay, with
\* the handlers of this moment; without handlers the event is done.
BeginRound(d) ==
    /\ state[d] \in {"spawned", "sleeping"}
    /\ todo' = [todo EXCEPT ![d] = handlers]
    /\ failing' = [failing EXCEPT ![d] = FALSE]
    /\ state' = [state EXCEPT ![d] = IF handlers = <<>> THEN "completed" ELSE "calling"]
    /\ UNCHANGED <<trafficVars, seen, expired, queue, running, handlers, round, stops, forgotten>>

\* Lines 711-759: the next handler returns (ok) or raises.  A later handler
\* that returns erases the error of an earlier one.  After the last one, the
\* event is completed, or tried again, or failed.
HandlerReturns(d, ok, again) ==
    LET last == Len(todo[d]) = 1 IN
    /\ state[d] = "calling"
    /\ todo' = [todo EXCEPT ![d] = Tail(@)]
    /\ failing' = [failing EXCEPT ![d] = ~ok]
    /\ state' = [state EXCEPT ![d] = IF ~last THEN "calling"
                                     ELSE IF ok THEN "completed"
                                     ELSE IF again THEN "sleeping" ELSE "failed"]
    /\ round' = [round EXCEPT ![d] = IF last /\ ~ok /\ again THEN @ + 1 ELSE @]
    /\ UNCHANGED <<trafficVars, seen, expired, queue, running, handlers, stops, forgotten>>

HandlerEnds(d, ok) == HandlerReturns(d, ok, round[d] < MaxRetries)

-----------------------------------------------------------------------------
IntakeTypeOK ==
    /\ sent \in Traffic /\ secret \in BOOLEAN
    /\ state \in [Delivery -> {"new", "rejected", "raised", "duplicate"}
                              \cup InFlight \cup Settled]
    /\ expired \in 0..Len(seen) /\ Len(seen) <= MaxSeen
    /\ Range(queue) \subseteq Delivery /\ Len(queue) <= MaxQueue
    /\ running \in BOOLEAN
    /\ Range(handlers) \subseteq Handler
    /\ round \in [Delivery -> 0..MaxRetries]
    /\ failing \in [Delivery -> BOOLEAN]
    /\ \A f \in Fingerprint : forgotten[f] \in Nat

\* Of the deliveries with one fingerprint at most one is processed for each time
\* the store has had to forget it, by age or for want of room: a provider that
\* delivers twice does not have its handlers run twice.
ProcessedOnce ==
    \A f \in Fingerprint :
        Cardinality({d \in Accepted : FingerprintOf(sent[d]) = f}) <= 1 + forgotten[f]

\* A delivery whose caller was told that it was queued is completed or failed in
\* the end, unless the loop is left stopped.
QueuedSettles ==
    \A d \in Delivery :
        <>[]running => (state[d] = "queued" ~> state[d] \in Settled)

-----------------------------------------------------------------------------
(* The resolver and what starts it.                                        *)

CONSTANTS Resolving,      \* the handlers that are resolver_webhook_handler
          Direct,         \* the requests given to the shared resolver
          Command,        \* the /resolve and /review commands
          Shared,         \* the shared resolver
          AutoApply,      \* the requests with auto_apply
          MaxConcurrent   \* max_concurrent

ASSUME PermitsAssumption == MaxConcurrent \in Nat

\* The request a webhook handler makes in one round of one delivery.
Hook == Delivery \X (0..MaxRetries)
Request == Hook \cup Direct \cup Command
ResolverOf == [r \in Request |-> IF r \in Direct THEN Shared ELSE r]
Resolver == {Shared} \cup Hook \cup Command

VARIABLES stage,       \* where resolve() is
          permits,     \* _semaphore of each resolver
          registered,  \* the keys of _cancellation_events
          cancelled,   \* the events that are set
          result,      \* _results: the status recorded, or "none"
          applied,     \* the requests whose result lists changes
          commented,   \* the requests whose comment reached the provider
          reply        \* what the command has answered to Slack

resolverVars == <<stage, permits, registered, cancelled, result, applied, commented>>
vars == <<intakeVars, resolverVars, reply>>

-----------------------------------------------------------------------------
(* IssueResolver: resolve() and cancel().                                  *)

Stage == {"new", "prompt", "llm", "comment", "done"}
Terminal == {"COMPLETED", "FAILED", "TIMED_OUT", "CANCELLED"}

\* The resolutions that hold a permit.
Active == {r \in Request : stage[r] \in {"prompt", "llm", "comment"}}

ResolverInit ==
    /\ stage = [r \in Request |-> "new"]
    /\ permits = [s \in Resolver |-> MaxConcurrent]
    /\ registered = {}
    /\ cancelled = {}
    /\ result = [r \in Request |-> "none"]
    /\ applied = {} /\ commented = {}

\* Lines 475-488, the finally clause of a resolution that ends with status s.
Finish(r, s) ==
    /\ stage' = [stage EXCEPT ![r] = "done"]
    /\ result' = [result EXCEPT ![r] = s]
    /\ registered' = registered \ {r}
    /\ cancelled' = cancelled \ {r}
    /\ permits' = [permits EXCEPT ![ResolverOf[r]] = @ + 1]

\* Lines 341-371: register, try the semaphore, start or be turned away.  The
\* event is registered before the permit is known, and dropped with it.
Resolve(r) ==
    /\ stage[r] = "new"
    /\ UNCHANGED <<cancelled, applied, commented>>
    /\ \/ /\ permits[ResolverOf[r]] > 0
          /\ permits' = [permits EXCEPT ![ResolverOf[r]] = @ - 1]
          /\ stage' = [stage EXCEPT ![r] = "prompt"]
          /\ registered' = registered \cup {r}
          /\ UNCHANGED result
       \/ /\ permits[ResolverOf[r]] = 0
          /\ stage' = [stage EXCEPT ![r] = "done"]
          /\ result' = [result EXCEPT ![r] = "FAILED"]
          /\ UNCHANGED <<permits, registered>>

\* Lines 374-392: the prompt is there (what goes wrong while the context is
\* gathered is swallowed, lines 515-583) and the cancellation is looked at
\* before the model is called.
PromptBuilt(r) ==
    /\ stage[r] = "prompt"
    /\ UNCHANGED <<applied, commented>>
    /\ \/ /\ r \in cancelled
          /\ Finish(r, "CANCELLED")
       \/ /\ r \notin cancelled
          /\ stage' = [stage EXCEPT ![r] = "llm"]
          /\ UNCHANGED <<permits, registered, cancelled, result>>

\* _parse_llm_response() finds changes in an answer or none, and _apply_changes() lists
\* those of a request with auto_apply; it changes no file.
Changes(r) == {applied} \cup {applied \cup {r} : q \in AutoApply \cap {r}}

\* A mutant of LlmAnswers: the answer is used without the second look at the cancellation.
LlmAnswersUnchecked(r) ==
    /\ stage[r] = "llm"
    /\ stage' = [stage EXCEPT ![r] = "comment"]
    /\ applied' \in Changes(r)
    /\ UNCHANGED <<permits, registered, cancelled, result, commented>>

\* Lines 394-422: the model has answered; the cancellation is looked at again, the
\* changes are listed and the comment is built, which says that the resolution is
\* RUNNING (line 777).
LlmAnswers(r) ==
    /\ stage[r] = "llm"
    /\ UNCHANGED commented
    /\ \/ /\ r \in cancelled
          /\ Finish(r, "CANCELLED")
          /\ UNCHANGED applied
       \/ /\ r \notin cancelled
          /\ stage' = [stage EXCEPT ![r] = "comment"]
          /\ applied' \in Changes(r)
          /\ UNCHANGED <<permits, registered, cancelled, result>>

\* Lines 587-610, 445-453: wait_for() gives up.
LlmTimesOut(r) ==
    /\ stage[r] = "llm"
    /\ Finish(r, "TIMED_OUT")
    /\ UNCHANGED <<applied, commented>>

\* _call_llm(): whatever the model's library raises is a ResolverError.
LlmRaises(r) ==
    /\ stage[r] = "llm"
    /\ Finish(r, "FAILED")
    /\ UNCHANGED <<applied, commented>>

\* Lines 509-513: the prompt cannot be rendered.
RenderRaises(r) ==
    /\ stage[r] = "prompt"
    /\ Finish(r, "FAILED")
    /\ UNCHANGED <<applied, commented>>

\* The request for the comment reaches the provider or not.
Posted(r) == {commented, commented \cup {r}}

\* Lines 422-443, 805-831: the comment is posted or not; either way the
\* resolution is COMPLETED.  Nobody looks at the cancellation any more.
CommentEnds(r) ==
    /\ stage[r] = "comment"
    /\ commented' \in Posted(r)
    /\ Finish(r, "COMPLETED")
    /\ UNCHANGED applied

\* The task of the caller is cancelled at an await: CancelledError passes the
\* except clauses, and the finally clause records the status RUNNING.
TaskCancelled(r) ==
    /\ r \in Active
    /\ commented' \in IF stage[r] = "comment" THEN Posted(r) ELSE {commented}
    /\ Finish(r, "RUNNING")
    /\ UNCHANGED applied

\* Lines 308-319: cancel() sets the event of a registered resolution.
Cancel(r) ==
    /\ r \in registered
    /\ cancelled' = cancelled \cup {r}
    /\ UNCHANGED <<stage, permits, registered, result, applied, commented>>

Proceed(r) ==
    \/ PromptBuilt(r) \/ RenderRaises(r)
    \/ LlmAnswers(r) \/ LlmTimesOut(r) \/ LlmRaises(r)
    \/ CommentEnds(r)

-----------------------------------------------------------------------------
(* What starts a resolution, and the whole.                                *)

Init == IntakeInit /\ ResolverInit /\ reply = [c \in Command |-> "none"]

\* The request of the round a delivery is in.
RequestOf(d) == <<d, round[d]>>

\* Lines 829-857, and ResolutionRequest.__post_init__() (resolver.py:110-124): the events
\* a request can be made of, those about an issue or a pull request with a number.
Resolvable(m) ==
    \/ EventType(m) \in {"issues", "issue_comment"} /\ IssueNumber(m) # ""
    \/ /\ EventType(m) \in {"pull_request", "pull_request_review"}
       /\ At(m, <<"pull_request.number", "merge_request.iid">>) # ""

InResolver(d) == state[d] = "calling" /\ Head(todo[d]) \in Resolving

\* Every step of the intake but the end of a handler.
Intake ==
    \/ \E d \in Delivery : Handle(d) \/ BeginRound(d)
    \/ WindowPasses \/ StartProcessing \/ StopProcessing \/ Take
    \/ \E h \in Handler : Register(h)

\* A handler that is not the resolver returns or raises.
PlainHandlerEnds(d) ==
    /\ ~InResolver(d)
    /\ \E ok \in BOOLEAN : HandlerEnds(d, ok)
    /\ UNCHANGED <<resolverVars, reply>>

\* Lines 813-884: the resolver handler makes a request and a resolver for it.
HandlerResolves(d) ==
    /\ InResolver(d) /\ Resolvable(sent[d])
    /\ Resolve(RequestOf(d))
    /\ UNCHANGED <<intakeVars, reply>>

\* Lines 884-908: whatever became of the resolution, and where no request could be
\* made, the handler returns a ProcessingResult and raises nothing: _process_event()
\* sees a success.
ResolverHandlerEnds(d) ==
    /\ InResolver(d)
    /\ Resolvable(sent[d]) => stage[RequestOf(d)] = "done"
    /\ HandlerEnds(d, TRUE)
    /\ UNCHANGED <<resolverVars, reply>>

\* Slack: handle_resolve_command() and handle_review_command() parse the
\* reference, resolve it with a resolver of their own and answer with the
\* outcome; a reference that is not understood is answered at once.
CommandStarts(c) ==
    /\ reply[c] = "none"
    /\ \/ Resolve(c) /\ UNCHANGED reply
       \/ stage[c] = "new" /\ reply' = [reply EXCEPT ![c] = "usage"] /\ UNCHANGED resolverVars
    /\ UNCHANGED intakeVars

CommandReplies(c) ==
    /\ reply[c] = "none"
    /\ stage[c] = "done"
    /\ reply' = [reply EXCEPT ![c] = IF result[c] = "COMPLETED" THEN "completed" ELSE "failed"]
    /\ UNCHANGED <<intakeVars, resolverVars>>

ResolverSteps ==
    /\ \/ \E r \in Direct : Resolve(r) \/ Cancel(r) \/ TaskCancelled(r)
       \/ \E r \in Request : Proceed(r)
    /\ UNCHANGED <<intakeVars, reply>>

Next ==
    \/ Intake /\ UNCHANGED <<resolverVars, reply>>
    \/ \E d \in Delivery : PlainHandlerEnds(d) \/ HandlerResolves(d) \/ ResolverHandlerEnds(d)
    \/ \E c \in Command : CommandStarts(c) \/ CommandReplies(c)
    \/ ResolverSteps

Spec == Init /\ [][Next]_vars

\* The loop and the tasks are scheduled, a handler returns, the language model
\* is under wait_for() and the provider's requests have timeouts of their own.
Fairness ==
    /\ WF_vars(Take /\ UNCHANGED <<resolverVars, reply>>)
    /\ \A d \in Delivery :
          /\ WF_vars(BeginRound(d) /\ UNCHANGED <<resolverVars, reply>>)
          /\ WF_vars(PlainHandlerEnds(d))
          /\ WF_vars(HandlerResolves(d)) /\ WF_vars(ResolverHandlerEnds(d))
    /\ \A r \in Request : WF_vars(Proceed(r) /\ UNCHANGED <<intakeVars, reply>>)
    /\ \A c \in Command : WF_vars(CommandReplies(c))

FairSpec == Spec /\ Fairness

-----------------------------------------------------------------------------
ResolverTypeOK ==
    /\ stage \in [Request -> Stage]
    /\ permits \in [Resolver -> 0..MaxConcurrent]
    /\ registered \subseteq Request
    /\ cancelled \subseteq registered
    /\ result \in [Request -> Terminal \cup {"none", "RUNNING"}]
    /\ applied \subseteq AutoApply /\ commented \subseteq Request

\* Every permit is in the semaphore or with a resolution on its way, on every
\* path out of resolve(): a path that forgot the release would, MaxConcurrent
\* failures later, turn every request away.
PermitsReturned ==
    \A s \in Resolver :
        permits[s] + Cardinality({r \in Active : ResolverOf[r] = s}) = MaxConcurrent

\* A cancellation made before the model has answered is obeyed, however the
\* rest of the resolution goes: its comment is never posted, it lists no changes and it
\* never counts as completed.
CancelObeyed ==
    \A r \in Request :
        [](r \in cancelled /\ stage[r] \in {"prompt", "llm"}
            => [](r \notin applied \cup commented /\ result[r] # "COMPLETED"))

TypeOK ==
    /\ IntakeTypeOK
    /\ ResolverTypeOK
    /\ reply \in [Command -> {"none", "usage", "completed", "failed"}]

\* No way out of a resolution keeps its permit, and a cancellation in time is obeyed.
ResolutionsKept == []PermitsReturned /\ CancelObeyed

\* What was taken on ends: a delivery whose caller was told that it was queued is
\* completed or failed, unless the loop is left stopped; a resolution ends whatever
\* its model or provider does, and the command that waits for it answers: again and
\* again none is under way.
EverythingSettles ==
    /\ QueuedSettles
    /\ []<>(\A r \in Request : stage[r] \in {"new", "done"})
    /\ []<>(\A c \in Command : stage[c] = "new" \/ reply[c] # "none")
================================================================================
