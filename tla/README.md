# A TLA+ model of ManusClaw

ManusClaw is a Python framework for language-model agents. Most of its 300
files are prompts, protocol clients and user interfaces; the part that is hard
to get right is smaller: the places where threads, coroutines, processes,
services and timeouts meet. This directory holds TLA+ modules that model those
places, TLC configurations that check them on small instances, and TLAPS proofs
of what holds for every instance. Every definition is written from the code
under `src/`; `PROJECT.json` names, for each one, the lines it stands for.

Run a check with `tlc -config <run>.cfg <MC module>.tla` and the proofs of a
module with `tlapm <Module>.tla`.

Contents: 1 inventory, 2 how the modules fit together, 3 the modules,
4 the runs, their bounds and fairness, 5 the proofs, 6 what is not modelled,
7 known deviations of the code.

## 1. Inventory

The paths are below `src/app/`. `PROJECT.json` lists every part with its
status and the reason for what is left out.

| Part (source) | State it keeps | What is hard | Correct means |
|---|---|---|---|
| Conversation locks (`conversation/fifo_lock.py`) | held flag, owner, queue of events or futures | a timeout races a wakeup, a cancellation a hand-over | nobody is left waiting; the asyncio lock has one owner, in order |
| Status (`conversation/state.py`) | one `ExecutionStatus` | read, validate, write under a lock that is not exclusive | each call ends and the lock is given back |
| Resource locks (`parallel_executor/declared_resources.py`, `resource_lock.py`) | a readers-writer lock per key | several keys, partial acquisition, retries | no cycle, no lost wakeup, no leak, exclusion |
| Executors (`parallel_executor/executor.py`) | semaphore, pool jobs, threads | `wait_for` cancels at each await while threads go on; a bounded pool | conflicting tools exclude each other, a batch is answered call by call |
| Conversation (`conversation/base.py`, `local_conversation.py`, `cancellation_token.py`) | status, token, event log | every operation tests the status and acts later | an interrupt is obeyed within a step, an end leaves a trace |
| Remote conversation (`conversation/remote_conversation.py`) | one connection used by run, client and reconnect loop | a dial, a listener and a retry replace each other's socket | a lost connection is tried again, a run ends |
| Stuck detector (`conversation/stuck_detector.py`) | none but the log | two scans with their own index | it returns and reports what is there |
| Hooks (`hooks/`) | table and index by event | the table changes while an event goes round | a hook that stays subscribed hears each event |
| Event log (`events/event_log.py`) | a file, a count file, a count in memory | three writes an operation, readers without the lock, a crash | the log is a run of what was appended, the count misses no more than calls that were cut short |
| Task queue (`task_queue.py`) | a table, workers, checkpoints | read-modify-write over awaits, writes that raise, a death between two | tasks end over restarts, boundedly often, once completed never again |
| File stores (`file_store/`) | files or objects and sidecars | temporary files, repeated requests, `overwrite=False` | reads are whole, one creator wins |
| Secrets (`secrets/`, `security/cipher.py`) | encrypted files, a cache, lazy sources | `resolve()` in flight while the cache is cleared | a cleared value is not served again |
| Webhooks of the server (`server/webhooks.py`, `webhook_router.py`) | a table, a cache of it | another process changes the table | the cache is the table's, triggers are counted |
| Web sockets and runs (`server/main.py`) | one socket a session, a bounded table of chats and canvases | closing what is evicted while others come | whoever is connected is told |
| Canvas (`canvas/`) | components and the pages that show them | a broadcast over a list that changes | a page that stays shows what was drawn |
| Integrations (`integrations/webhook_handler.py`, `resolver.py`, `slack.py`, `jira.py`, `linear.py`) | a deduplication store, a bounded queue, permits, threads | redelivery, retries of handlers, cancellation | an event is processed once, permits come back |
| Git providers (`git_providers/`) | a lock, a pace, a token, per service | threads and tasks share them; requests partly fail | requests keep their distance, reports are true |
| Agents (`agent/base.py`, `react.py`, `toolcall.py`, `manus.py`, `permissions/gate.py`) | agent state, open tool calls, grants | retries, corrections and cancellation inside a step | nothing unpermitted runs, each call is answered |
| Orchestrator and roles (`agent/orchestrator.py`, `agent/roles/`) | events and results per role | a role fails, a graph is not what it should be | order by dependency, a true report |
| Planning flow (`flow/planning.py`) | a plan and records of its steps | retry, replanning, timeout | records are those of the plan, the flow ends |
| LLM client (`llm/llm.py`, `credential_pool.py`, `token_tracker.py`) | keys in cooldown, tokens used | concurrent calls share them | keys rest, the budget is overrun boundedly |
| Model fallback (`llm/litellm_client.py`, `fallback.py`, `retry.py`) | models in cooldown | classification, retries, resets | a call fails only when its chain is used up |
| Streaming (`llm/streaming.py`) | a bounded buffer, a producer task | close and cancellation, backpressure | DONE comes once and last |
| Context (`context/`) | a view of the events | condensing between a call and its answer | the view is valid, nothing is lost in vain |
| Gateway and registry (`messaging/gateway.py`, `agent/router.py`) | caches of agents | eviction over awaits | an agent is cached, serving, or gone for a reason |
| Devices (`nodes/`) | a table by registration | a broadcast iterates while it changes | each registered device is reached |
| Cron (`cron.py`) | jobs in memory and in a file | overlapping runs, a second process | a job runs once when it is due |
| Metrics (`llm/metrics.py`, `observability/metrics.py`) | counters under several locks, their mirrors | threads, callbacks, mirrors that are missing or refuse | counters add up, mirrors follow where they can, locks are not asked for twice |

How they interact: the **agent** calls the LLM client and runs its tools
through the **executors**, which take **resource locks**; a **conversation**
drives agents, writes the **event log**, emits **hooks** and asks the **stuck
detector**; the **task queue**, the **planning flow**, the **orchestrator** and
**cron** start agents; the **gateway**, the **server**, **Slack** and the
**webhook intake** bring work in from outside, the **resolver** answers it
through **git providers**. Most of these meetings are calls. Where two parts
share state, one module models both: `Integrations` has intake and resolver,
`ConversationState` instantiates `FIFOLock`, `SyncExecutor` stands on
`ResourceSchedule`, `KeyedCalls` has client, pool and budget together,
`AgentCache` has gateway, registry and `BaseAgent.run()`.

## 2. How the modules fit together

Abstract specifications, and what implements them:

* `FairLock` (one holder, first come first served): `AsyncFIFOLock`;
* `ResourceSchedule` (a tool call runs once and never beside one it conflicts
  with): `ResourceLocks`; `SyncExecutor` uses it as its locks;
* `DurableLog` (a log grows at its end and shrinks at its front): `EventLog`.

Each component has a module; six MC modules put components that one run checks
together beside one another:

| MC module | Extends | Instances |
|---|---|---|
| `MCLocks` | `ResourceLocks` | `FIFOLock`, `AsyncFIFOLock`, `ConversationState`, `AsyncExecutor`, `SyncExecutor` |
| `MCConversation` | `Conversation` | `RemoteConversation`, `SlackThreads`, `Hooks`, `Canvas`, `Sockets` |
| `MCStorage` | `EventLog` | `TaskQueue`, `FileStores`, `Secrets`, `WebhookStore` |
| `MCIntegrations` | `Integrations` | `TaskQueue`, `AgentLoop`, `RolePipeline`, `PlanningFlow` |
| `MCLLM` | `KeyedCalls` | `ModelFallback`, `ResponseStream`, `ContextView` |
| `MCServices` | `GitProvider` | `AgentCache`, `DeviceManager`, `CronScheduler`, `Trackers`, `StuckDetector`, `Metrics` |

The parts of an MC module share no state. A variable `scenario` is chosen in
the initial state and says which of them a behaviour is about: `MCNext` takes a
step of that part and leaves the variables of the others alone, and each
fairness condition is about the part where it runs. One run so explores the
sum, not the product, of its parts, and finds what each of them does in full.
The constant `Scenarios` leaves parts out where a run is about one of them.

The theorems of a composition are about `MCSpec`, so what is proved is what the
run checks; a lemma per part says that a step of any other part leaves it
alone. Proofs are in `Locks_proof`, `Storage_proof`, `Integrations_proof`,
`LLM_proof` and `Services_proof`, and at the end of `Conversation`, `KeyedCalls`
and `MCConversation`. No module uses RECURSIVE operators: recursion is written as
a function or with the folds of the community modules.

`MetricsAgree`, `CondensedWell` and everything under fairness are model-checked and
not proved; section 5 says why.

## 3. The modules

The variables are named after the attributes they stand for, and each says so
where it is declared. A step is what runs between two places where something
else can run: two regions under a lock for threads, two awaits for coroutines,
two statements on a shared file or table for processes.

Some lists and dictionaries of the code, from the middle of which something may be
taken, are modelled as an *order*: the set of pairs `<<a, b>>` with `a` before or
equal to `b`. Taking an element out is then a restriction of a set, which the
provers reason about, and not a filtered sequence, which they do not.

### Locks and parallel tools (`MCLocks`)

`FIFOLock` has one action per block under the internal `threading.Lock`:
`AcquireFast`, `AcquireSlow`, the end of `event.wait()` (`Wake`, `Expire`), the
timed-out thread's second look (`Withdraw`, `TooLate`), `Take`, `Release`,
`ReleaseRaises`. `release()` leaves the lock free and only signals: that is how
the code is, and why mutual exclusion is not claimed of it. `AsyncFIFOLock` has
one action per stretch between awaits; `doomed` are the tasks cancelled after
the hand-over. It implements `FairLock`: the holder is the task inside or the
one granted, the queue (an order of tasks) is the waiters whose future is pending.

`ConversationState` is `set_status()` as a call: the lock (`FIFOLock` as it is),
the read, the assignment, the release. `Write` computes from what was read.

`ResourceLocks`: for each key `readers` and `writer`, for each call how many locks
of its sorted `Decls` it has (`got`), its `attempt` and `pc`. Keys are integers,
the code only compares them; a deadline may pass whenever a lock is not free.
`AsyncExecutor` adds the semaphore, the pool's jobs (`queue`, `doing`, `over`),
`wait_for()` at each await, and locks that belong to *threads*, as in the code: a
WRITE lock is only given back by the thread that took it. Declarations of
several resources are the subject of `ResourceLocks`; here a call has one.
`SyncExecutor` is `execute()` with its pool and the further thread of a call with
a timeout, and the counters of concurrency.

### Conversations and followers (`MCConversation`)

`Conversation`: callers of `run()` and `send_message()` (`Runner`), `interrupt()`,
`resume()`; every read of the status or token, every `set_status()` and every
recorded event is a step. `agent` says whether the conversation has an agent, which
`LocalConversation` need not and may be given later (`SetAgent`): a run without one
tells its caller and records no end. `late` is a history variable for `OneLateStep`.

`RemoteConversation`: `arun()`, a client and the reconnect loop share `_ws` and
all may be in `connect()` (`dialing`); a listener reads the socket that was
current when it started; `sockets` and `wire` are the connections ever opened and
what is on its way on them. The server is external: it takes commands and answers
with updates on every open socket. The server in this repository speaks another
protocol (`server/main.py`), so it is not used as the model of it.

`SlackThreads`: a message of an active conversation is recorded and goes to the
handlers one after the other; others leave nothing behind. Meanwhile handlers come, conversations end and the integration is started and
stopped. `Hooks`: the table, its insertion order and the index by event, the names
an emission has still to run (all three orders); emissions step from hook to hook,
each may fail, hang or modify. `Canvas`: one session's components, pages and the
tool calls that draw; the list of connections is an order of sockets, and a
broadcast is an index into it as it is when the index is used. `Sockets`: the
`ConnectionManager` (one socket a session), the bounded table of chats and canvases
(an order of sessions) with its evictions, runs streamed to sockets and in the
background; a send is two steps, around its await.

### What is kept outside the process (`MCStorage`)

`EventLog`: the log file, the count file and the count in memory change in
separate steps under `lock`; `ReadCount` and `ReadFile` are `get_last()`, which
takes none; `WriteCountFails` and `Crash` are the failures. `Open` believes the count
file, as `__init__()` does, and `OpenUnread` is a count file that cannot be read.
`Reindex` is there, but the only owner in the repository,
`local_conversation.py:128`, never calls it and no property relies on it:
`unfiled` and `shed` record what calls that were cut short have left uncounted or
have left counted, and the properties say how much of the log may be lost from
sight by that. That `truncate()` keeps the newest events, as its docstring says
without such a reserve, is refuted by the run `EventLog_truncate`.

`TaskQueue` (also in `MCIntegrations`): each database access is a step, and a
worker (`mine`), a checkpoint (`draft`), a client (`copy`) and the restart
(`todo`) keep the copies they loaded, stale or not. A write may raise
(`SaveRaises`), with its row in the open transaction or not; the worker then drops
what it had (`task_queue.py:393-395`), and so it does without an executor (387-389):
`orphaned` are the tasks left RUNNING in the table by that. `late` holds writes whose
coroutine was cancelled; `Boot`, `ResumeOne`, `StartWorkers`, `StopWorkers`,
`Exit` and `Crash` are the life of the process. In `MCIntegrations` there is the
one worker that `cli.py` starts (`OneWorker`) and clients only submit: a
cancellation or a retry that has loaded a task may save its copy after the task
has ended, so `TasksKept` is not claimed for them; they are in `MCStorage`.

`FileStores`: what an operation does on each store is a *plan*, a sequence of
steps (`LocalPlans`, `S3Plans`, `GcsPlans`, `MemoryPlans`) that calls walk
through. Each access of the local store to the disk may raise, the removal of the
sidecar after that of its file too. Memory and disk hold a `threading.Lock` and their event loop between
awaits (`busy`); S3 and GCS send each request from a pool thread and may repeat
it. A content is the call that wrote it and whether it is whole.
`Secrets`: files, the registry's cache, `resolve()` and `update_secret()` in
several steps; `cleared` and `barred` record what a cleared cache must not serve.
`WebhookStore`: the table, the server's cache, handlers between awaits, the
command line as another process (`foreign`), restarts.

### Work that is handed in (`MCIntegrations`)

`Integrations`: a delivery is its headers, what its body has at the paths the
code reads, and whether it is signed right; verification, normalization of four
providers, the fingerprint, the deduplication store (oldest first), the queue,
the loop and the retries; beside them `IssueResolver.resolve()` on every
path, its permits and cancellation events, and what starts it: a webhook
handler, the Slack commands, direct requests; `Integrations!Spec` is the two
together. `AgentLoop` is one `run()` of `BaseAgent` with the steps of the
classes below it. `RolePipeline` is `run_pipeline()` with its tasks, events and
callbacks; `PlanningFlow` is one goal from plan to result.

### The language model (`MCLLM`)

`KeyedCalls`: concurrent `ask()` calls with the credential pool and the token
budget. The three kinds of `Backends` differ in whose key a request is sent with,
the one the pool gives or their `Own`, which is one of the pool's, and in whether a
429 reaches the pool. `ModelFallback`: `chat()` along its chain, with both mappings
of an exception, the classification and the cooldowns; calls in `Threaded` go through
`execute_sync()`. `Clients` says who sends: litellm, or without it the one built-in
client, whose errors are not mapped and of which the strategy sees a RuntimeError
where it was a rate limit of `UniversalClient`. `ResponseStream`: the producer task, the bounded buffer, close
and cancellation, and `SyncStreamProcessor`, whose generator reads the stream
itself. `ContextView`: the view with its four properties as operators, the
condensers and pipelines of them, and events that arrive between a decision and
its application. `resting`, `holders` and `excused` are history variables of the
cooldowns: who was using a key or model when it was limited.

### Services (`MCServices`)

`GitProvider`: a plan for each operation of each service, over its client library
and over REST: the sequence of its requests, each a record of what follows an
answer (the next request, the end, the rest of a block left out, a result that
cannot be made of it) and what follows an error; the lock, the pacing and the
token. A table says how each service, and each operation of the two client
libraries, reads an error. Every request of a loop is one of the plan, `MaxPulls`
rounds at most. `AgentCache`: the gateway with the registry or with its own cache, whose keys are
an order.
`DeviceManager`: registration, heartbeats and a broadcast that iterates over the
live table as CPython does. `CronScheduler`: the loop, the tasks of jobs with
their saves, restarts, and the command line as a second process on the file.
`Trackers`: what each operation of Jira, Linear and Slack reports of each answer,
over each HTTP library. `StuckDetector`: the window and both scans index by
index. `Metrics`: an operation is the sequence of locks it takes and what it does
under them, then its mirror in Prometheus: `backed` are the metrics that have one,
`fits` says whether the labels of a use are the metric's.

## 4. The runs

Six runs pass, one for each MC module; six show a disagreement between the code
and its documentation.

| Run | Distinct states | Properties |
|---|---|---|
| `Locks` | 113,163 | `NoAbandonedWaiter`: while threads wait for a FIFOLock its owner is inside or a wakeup is under way. `NoLostWakeup`, `WaitsAscend`: nobody sleeps on a free resource lock, waiting chains ascend. `LocksKept`: conflicting tools of the asynchronous executor exclude each other (a synchronous one that outlives its timeout excepted) and READ locks come back. `BatchAnswered`: what `execute()` answers for a call is what that call came to. `EverybodyServed`: waiters get in, calls end, batches return. `ImplementsFairLock`, `ImplementsSchedule`. |
| `Conversation` | 330,143 | `EndIsRecorded`: a conversation does not end without a trace in its log, unless it was run without an agent, of which the caller was told. `OneLateStep`: an interrupted loop begins at most one more step. `EverybodyHears`: handlers, hooks, pages and sockets hear what is meant for them. `NothingHangs`: calls, runs and RUNNING end, a lost connection is looked after. `GivesUpLast`: the reconnect loop gives up only after all attempts since it was last connected. |
| `Storage` | 689,600 | Of the event log, opened again after a crash without `reindex()`: `CountAgrees`: the count misses no more than what calls that were cut short added or removed. `LastIsRecent`: `get_last()` reaches to the newest event but for these. `ImplementsDurableLog`: the log grows at its end and shrinks to a run of events that reaches to the newest but for these. `FilesKept`: reads are whole, one creator for each removal, the sidecar is the file's unless the call that should have written or removed it failed. `ClearedIsGone`: no secret is served that was gone when the cache was cleared. `HooksAgree`: the cache is the table's and each trigger is counted. `EveryoneGoesOn`: workers come back, store calls are answered. |
| `Integrations` | 85,703 | `ProcessedOnce`: an event is processed once for each time the store had to forget it. `ResolutionsKept`: permits are in use for resolutions under way and no other, a cancellation made in time is obeyed. `AgentKept`: no tool runs unpermitted, no call of a step goes unanswered, a run that returns is over. `PlansKept`: roles work after what they depend on, reports are true, records are those of the plan. `TasksKept`: a running task has its worker, or was orphaned by it for one of two reasons, a completed one stays. `EverythingEnds`: of the queue, a queued task settles or is orphaned, and the next process takes an orphan up. |
| `LLM` | 410,144 | `CooldownsObserved`: no key or model is used in its cooldown without a named excuse. `OverrunBounded`: the budget is overrun by at most one answer a caller. `ChainTried`: a call fails in the end only when every model was tried, resting, or its error asks for no other; but for the rate limit of the built-in `UniversalClient`. `DoneIsFinal`: DONE comes once and last, with everything received or dropped. `CondensedWell`: a condensed view is valid and has lost nothing it need not lose. `EverythingEnds`. |
| `Services` | 1,087,822 | `RequestsPaced`; `EveryReportAgrees`: what is reported of a git service or a tracker is what was done. `AgentsAccounted`: an agent is cached, serving, or lost for a named reason. `ReportedRight`: a detector that answers reports repeated actions and repeated failures if they are there and only then; it says nothing of the other three patterns, nor of a scan that hangs (`Stuck_actions`). `MetricsAgree`: totals are those of the conversations, thresholds alert once, no increment is lost, a mirror that could be made shows all that came with the labels of its metric, and no operation but the known ones asks for a lock it has. `BroadcastReaches`: every device registered throughout is reached. `RunsOncePerDue`: a job runs once when it is due. |
| `Files_stream` | violation | `StoreAnswers` with both calls on one event loop (`file_store/local.py:291`) |
| `Remote_buffered` | violation | `BufferedAreSent` (`remote_conversation.py:461`) |
| `AgentCache_repeat` | violation | `CachedAgentServes` (`agent/base.py:161`) |
| `Pipeline_error` | violation | `CrashSurvived` (`agent/orchestrator.py:170`) |
| `Stuck_actions` | violation | `AnalyzeReturns` (`conversation/stuck_detector.py:303`) |
| `EventLog_truncate` | violation | `NewestKept` (`events/event_log.py:427`) |

Each property of a passing run has a mutant in `PROJECT.json`: a definition
changed the way a plausible bug would change the code, with which TLC finds the
property violated. The mutated forms stand just before the definitions they
replace, under "A mutant of".

A type invariant is stated in each module; those that theorems need are proved
with them, the others document the variables.

### Bounds and why they are enough

* *Locks.* A race needs a holder, a signalled waiter and a newcomer, order needs
  two more in the queue: four threads or tasks, two of them with a timeout or
  cancellable. Status: three threads, one call each, overlap in the lock.
* *Resource locks.* Two keys make a cycle possible; four calls are a writer of
  both, a writer between, a mixed one, and one that declares READ and WRITE of
  one key and so blocks itself; two attempts for one retry.
* *Executors.* Two pool threads are fewer than the jobs. `e1` (writing) and the
  synchronous `e2` share a resource, `e3` has its own. The pool must have more
  threads than tools that hang, otherwise `execute()` waits for ever (section 7).
  Batches: two callers, three calls, one in the way of the others.
* *Conversation.* Two runners race for IDLE, an interrupt and a resume may come
  between any two steps, one of two iterations is before and one after. Remote:
  two sockets, two reconnect attempts and two requests let one of each be stale.
* *Followers.* Two Slack messages, two handlers, one of them added late, three
  switches; two hook names, three changes; two pages with a socket each and two
  calls that may overlap; four sockets of chat and canvas over three session ids
  in a table of two, or two plain ones beside a chat.
* *Event log.* Two threads, two events, so that one may be cut short beside one that
  was counted, one crash; the proofs cover every bound.
* *Files.* Any operation beside any writing one on every store, one failed and
  repeated request, one death. *Secrets.* Two clients, three calls, two values,
  one restart with a key that is lost. *Webhooks.* Three requests, one change by
  the command line, one restart.
* *Task queue.* Two tasks of different priority; three lives of the process let
  a task be interrupted once more than `MaxRetries`; the last one neither dies
  nor stops (`Integrations`, with one checkpoint). Beside a client that cancels and
  retries, two lives and no checkpoint (`Storage`). One write raises. One worker, as the command
  line starts it (`cli.py`).
* *Integrations.* Two of three deliveries are the same event; queue and store of
  one overflow; one retry; one resolver with one permit is asked twice.
* *Agents.* Two steps, two tries of a tool and of a reflection, four replies of
  the model (no call, one, two, a last answer); six pipelines: a chain, a join,
  an unknown name, a dependency of and on a role left out, a circle; plans of up
  to three steps.
* *LLM.* Two callers, two keys, two retries; any of three backends; two calls along two
  models with five kinds of error and any of three clients, one reset; a buffer of two, two chunks, two deltas each; five
  events added, a window of two, two condensations.
* *Services.* Two calls of any operation, a second one beside a sign-in, an
  interval of two ticks, one pull request to look into; three messages of two sessions and a cache of two; three
  devices; two jobs over two due times, one change; two calls of trackers with
  every answer; four turns of the stuck agent, with thresholds as small as the
  patterns allow; two threads with three operations on the metrics of two conversations,
  each with a model of its own, a built-in histogram and gauge and a counter that is
  registered meanwhile, with their mirrors.

`CHECK_DEADLOCK FALSE` stands because every part really stops: its calls are
over or its bounds are used up.

### Fairness and its justification

Weak fairness is assumed of steps that a thread, an event loop or the operating
system makes by itself: a running thread goes on, a ready task is run, a pool
thread takes the next job, a timeout that was set passes, the process that is
down is started again. It is never assumed of callers (nobody has to call,
interrupt, cancel, resume or stop), of crashes, or of errors. A holder leaves a
FIFOLock: its region is a few assignments. In `ResourceLocks` a tool ends, since
a lock's release waits for it; in both executors a tool may hang, and only
timeouts end its call. In `Conversation` an agent's step returns or raises. A
language model, a service or a handler that is called under a timeout may hang.
The executors, the local `Conversation` and the file stores have one fairness
condition for all that their threads do by themselves: while anything can be done,
something is; each of their calls is short, so that is enough. A remote
conversation has one for each of its tasks: run, client, reconnect loop, listener.
`PlanningFlow` ends because plans are bounded in the model; in the code only its
timeout bounds replanning (section 7). Each condition is about the steps of the
part it names, where that part runs.

That calls end is stated as `[]<>` of "none is under way" where the model bounds
them: it says as much as a leads-to for each call, and is one property to check.

## 5. The proofs

All theorems hold for every value of the constants that satisfies the named
assumptions (distinct names of values, natural bounds, finite sets of calls and
messages, ascending `Decls`, duplicate-free batches, lists of known roles), which
TLC evaluates in the runs. Those of `_proof` modules and of `MCConversation` are
about the composition `MCSpec`, of which they use the initial states and the steps,
never the fairness.

| Module | Theorem | States | Argument |
|---|---|---|---|
| `Locks_proof` | `LockTypes`, `NobodyAbandoned`, `NobodyWaitsInVain` | `NoAbandonedWaiter` | Not inductive: a release must come from whom the queue relies on. `OwnerInside` (if the lock is held, its recorded owner is inside) closes it. The converse is false here and not needed. |
| | `AsyncTypes`, `OneOwner` | one owner of an AsyncFIFOLock | the granted and the running task counted together as the owner, whatever is cancelled |
| | `TypeCorrect`, `LocksAgree`, `Excludes`, `Wakes`, `WaitingAscends`, `LeaksNothing` | `NoLostWakeup`, `WaitsAscend` | `IInv`: types, `PhaseOK` (how far a call is in each phase), `LocksMatchHolders` (a key's counter is the number of calls whose acquired prefix reads it, a statement about cardinalities), `WriterAlone`; the order of `Decls` gives the ascending chains, and with them the absence of a cycle |
| | `Refines` | `ImplementsSchedule` | step by step: `Grant` of the last lock is the schedule's start, the end of a tool its end, the rest stutters |
| | `LockIsFair` | `ImplementsFairLock` | `QueueInv`: a task waits in at most one place, and an owner is the granted or the running task. Step by step on the pairs of the abstract queue: to be appended, to be granted and to be cancelled while waiting are the steps of `FairLock`, all else stutters. |
| | `LocksAreKept` | `LocksKept` | `PoolInv`: a job is in one of the queue, a thread, the finished ones; what the pool knows of a call fits where the call is; locks are those of calls whose acquisition is over and whose release is not |
| | `BatchesAnswered` | `BatchAnswered` | `BatchInv`: a status is that of the call's outcome or a timeout it has; the counters are the calls in a pool thread, unless two batches overlapped |
| `Conversation` | `InterruptStopsSoon` | `OneLateStep` | `LateInv`: a loop that has passed its check and not begun its step has begun none since the cancellation |
| | `FinishedIsRecorded` | `EndIsRecorded` | `EndInv`: who found no agent has told its caller; who is paused or unwinds has been interrupted, and a loop that was closed has its final event unless an error came first, which nothing replaces (`_VALID_TRANSITIONS`) |
| `Storage_proof` | `TypeCorrect`, `CountsAgree`, `ReadsTheRecent` | `CountAgrees`, `LastIsRecent` | `CountCatchesUp`: how far each of the two counts is from the file at each place inside an operation, after any crashes and without `reindex()`, in terms of what is at work and what was cut short |
| | `Refines` | `ImplementsDurableLog` | the write of the file is the abstract step, of a truncation by the same bounds on the count it computes with; the counts stutter |
| | `FilesAreKept` | `FilesKept` | `FileInv`: what follows what in the plans of every store (`PlanShape`); a call between its lock and its unlock holds the lock; its temporary file holds what it wrote; no file appears between a local creator's test and its write; a sidecar is written or removed right after its file, or the failure is recorded; creators past their write are at most the removals and the file that is there |
| | `ClearedStaysGone` | `ClearedIsGone` | `SecretInv`: no file, cached value or `resolve()` about to keep one holds a cleared value |
| | `HooksStayTrue` | `HooksAgree` | `HookInv`: cache and table agree except for the hook a handler is in the middle of |
| `Integrations_proof` | `ProcessesOnce` | `ProcessedOnce` | `IntakeInv`: deliveries let through per fingerprint are at most those forgotten and the one in the store; one in flight is in one place |
| | `ResolvesProperly` | `ResolutionsKept` | `ResolverInv`: permits and active resolutions add up (cardinalities); an event is registered while its resolution is active, and who sees it set does not apply changes |
| | `RunsKept` | `AgentKept` | `AgentInv`: the calls unanswered are the rest of the message under way, whose first is permitted before it runs |
| | `ReportsKept` | `PlansKept` | `PipelineInv`: set events have results, reported stages are those of ended tasks; `FlowInv`: steps are numbered, and the length of the records follows from where `run_full()` is |
| | `QueueKept` | `TasksKept` | `TaskInv`, a state of its own for each state of the process: before it is up, no write is under way and what the table calls running has still to be looked at (`Resuming`); when it is up, no write is left behind, and what runs is the worker's or orphaned (`Working`); when it stops, one write is left at most, of a task that is not completed (`Stopping`); what a client will insert is not in the table (`ClientsFresh`) |
| `LLM_proof` | `CooldownsRest` | `CooldownsObserved` | `CoolInv`: what rests is in cooldown or excused, for each model's current state |
| | `TriesAll` | `ChainTried` | `TriedInv`: what lies before the place in the chain was asked or found resting |
| | `DoneEnds` | `DoneIsFinal` | `StreamInv` counts every delta in exactly one place: to be put, buffered, received, dropped |
| `KeyedCalls` | `BudgetHolds`, `KeysRest` | `OverrunBounded` | usage and busy callers together stay below the bound; a resting key is cooled or excused, and a pool without a key to give has set all aside |
| `MCConversation` | `LoopGivesUpLast` | `GivesUpLast` | `AttemptsInv`: up to `disconnect()` each attempt counted was tried, but for one that found a connection, after which the loop rests until that is lost |
| | `AllHear` | `EverybodyHears` | `FollowersInv`, one conjunct for each kind of follower. `HeardInv`: where the table of sockets and the sends under way may point, and whom an open socket shares its place with. `TableInv`: the lists are those of the sessions in the bounded table, whose sockets are open or to be evicted. `SlackInv`: what a message has still to be heard by is the rest of the handlers from its place on. `HookInv`: a hook that stays has been heard or is ahead, in the order of the priorities (`Emitted`), and the decision is what the heard ones amount to (`Concluded`). `CanvasInv` (`Current`): where a page differs from the session, a broadcast that touches it has the page still ahead, and one that would undo a newer change comes before it. |
| `Services_proof` | `Paces`, `OneToken` | `RequestsPaced` | `OwnerInv` (only the owner is past the lock), `PaceInv` (the pause asked for covers the gap), `TokenInv` |
| | `ReportsAreTrue` | `EveryReportAgrees` | `ReportInv`, `TrackerInv`: what is left of a call's plan, and what its last request came to, fit what it will report |
| | `BroadcastsReach` | `BroadcastReaches` | `BroadcastInv`: a node that stayed has been offered the message or is ahead of the iteration (`Waits`) |
| | `RunsNoDueTwice` | the safety half of `RunsOncePerDue` | `JobInv`: in memory and in the file a job is due after its last run, and a task that waits to begin is for a job that is due, but for the named excuses |
| | `AgentsKept` | `AgentsAccounted` | `IsCache` (agents and times are those of the keys, no agent has two), kept by each step of a lookup; `AgentInv`: an agent is cached or was dropped, and a busy one serves one message |
| | `ReportsTheStuck` | `ReportedRight` | `StuckInv`: a scan has the newest pairs of the actions it has come by, each with the observation first after it, or is held up for ever by an action before another one (`HeldUp`); two sets of newest actions of one size are the same |

Only model-checked:

* everything under fairness (`EverybodyServed`, `NothingHangs`, `EveryoneGoesOn`,
  `EverythingEnds`, and that each due time is run in the end, the other half of
  `RunsOncePerDue`) and, in the violation runs, what is refuted anyway: liveness
  and ENABLED are beyond the proof system's backends;
* `CondensedWell` (properties of views computed along a sequence) and
  `MetricsAgree` (totals that are sums over conversations and models, operations
  that are flattened sequences): filters, folds and flattening are recursive, and
  what they come to needs inductions over sequences and sets, whose theorems in the
  library take an operator as parameter.

## 6. What is not modelled

*Inside the modelled parts*: progress callbacks, statistics, formatting and
logging; `fork()`, `close()`, titles and tool preloading of conversations;
`acquire` with declarations computed by tools; searches and metadata of the
event log; `cleanup_completed()` of the task queue; `list()` and `ensure` of
buckets; the latency router and `profile_rotation.py`; the role's own retries
and the text of prompts and plans; the parsing of cron expressions; route rules;
the provider router; block layouts and verification of Slack's signatures;
percentiles and bucket boundaries; routes of the server that only read.

*Whole parts*: conversion of LLM messages (`llm/message.py`,
`non_native_tool_calling.py`) and event types, pure functions of one value;
security classifiers, patterns; sandbox, SSH, MCP, tools, automation, desktop
and voice, each one I/O operation; SQL schema and memory; tracing and health
checks; command line, configuration, skills and session tools. A tool, a step of
an agent, a model and a service appear in the modules as something that
answers, fails or hangs.

*External*: asyncio's and Python's locks, pools and timeouts, CPython's iteration
over a dictionary, the remote server, language models, git and tracker services,
S3 and GCS are modelled from how the code uses them.

## 7. Known deviations of the code

Where the code does something else than a docstring, a comment or an obvious
intention says. The first six are runs of their own; the others were seen as
counterexamples of properties that were weakened for them, or read off the code
while it was modelled, and are the reason for the exceptions some properties make.

| Where | What happens |
|---|---|
| `file_store/local.py:291` | `write_stream()` keeps a `threading.Lock` over `async for`: a second call on the same loop blocks the loop, and with it the stream, for ever (run `Files_stream`) |
| `conversation/remote_conversation.py:461` | a message sent without a connection is buffered and never sent (run `Remote_buffered`) |
| `agent/base.py:161` | `run()` wants IDLE and nothing sets it again: a cached agent answers one message (run `AgentCache_repeat`) |
| `agent/orchestrator.py:170` | the handler of a failed role reads `_on_stage_error`, which does not exist (run `Pipeline_error`) |
| `conversation/stuck_detector.py:303` | the scan of a log with two actions in a row never ends (run `Stuck_actions`) |
| `events/event_log.py:427` | with such a count `truncate()` drops the newest events (run `EventLog_truncate`; line 404) |

### Locks, executors

| Where | What happens |
|---|---|
| `conversation/fifo_lock.py:130`, `:89` | the thread lock is free between a release and the waiter's wakeup, and newcomers do not look at the queue: neither exclusive nor first come, first served (lines 77-79, 52-54) |
| `conversation/fifo_lock.py:245` | a task cancelled after the hand-over does not pass the asyncio lock on: it stays held (lines 212-214) |
| `conversation/state.py:230-231` | with two threads inside the lock a terminal status is overwritten by what another decided before (`state.py:57`) |
| `conversation/state.py:268` | `try_set_status()`, "without raising", catches only ValueError: the lock's RuntimeError passes |
| `parallel_executor/executor.py:753` | released in another pool thread, a WRITE lock stays held: `release_write()` raises and `_release_all()` swallows it (`resource_lock.py:140-145`) |
| `parallel_executor/executor.py:749`, `:498` | a synchronous tool outlives its timeout; in the asynchronous executor its lock is given to others meanwhile, in the synchronous one its thread keeps it |
| `parallel_executor/executor.py:736` | a call that times out while its acquisition waits in a thread leaves that thread to take the locks for nobody |
| `parallel_executor/executor.py:363` | overlapping `execute()` calls of one executor share and reset the counters of concurrency; `CountedRight` excepts them |
| `parallel_executor/executor.py` | as many hanging synchronous tools as pool threads make the asynchronous `execute()` wait for its releases for ever; a tool's own TimeoutError is reported TIMED_OUT; what is not an Exception ends `execute()` itself |
| `parallel_executor/executor.py:257-258` | `_build_scheduling_groups()` groups calls that do *not* conflict (lines 12-13 say the opposite); statistics only |
| `parallel_executor/declared_resources.py:227-266` | READ and WRITE of one key in one declaration: the call blocks itself until its retries are used up |

### Conversations

| Where | What happens |
|---|---|
| `conversation/base.py:240` | two callers of `run()` both find IDLE: two loops in one conversation (line 226) |
| `conversation/base.py:246` | `resume()` and `run()` replace the token while others hold the old one |
| `conversation/base.py:252` | an interrupt between test and assignment turns a success into ERROR |
| `conversation/base.py:357` | `resume()` sets RUNNING and starts no loop: if the old one has left, RUNNING stays. `RunningEnds` excepts it |
| `conversation/base.py:384` | `fork()` copies state that a running loop changes meanwhile |
| `local_conversation.py:402` | an interrupted run whose loop sees PAUSED first returns instead of raising CancelledError (`base.py:238`) |
| `conversation/remote_conversation.py` | two `connect()` at once: the second socket has no listener, the first leaks, a failing dial resets the other's; a `connect()` that completes after `disconnect()` leaves CONNECTED, and the last `_ws = None` may forget a newer socket |
| `conversation/remote_conversation.py:271-280` | a clean close by the server ends the listener with the state CONNECTED; only the `except` branch reconnects |
| `conversation/remote_conversation.py` | an attempt may be spent on a wake-up while connected; after giving up, a failed `connect()` starts a loop with none left; updates during a disconnection are lost and the run ends by its timeout; a run that could not be sent ends FINISHED; a late FINISHED after a local interrupt is lost, and `resume()` stays RUNNING |
| `conversation/stuck_detector.py` | successes between failures are skipped, so fail, success, fail counts as repeated; a monologue masks an alternation; the nudge repeats while the pattern is in the window |
| `hooks/manager.py` | a hook replaced or registered after `initialize()` is never set up; one replaced during an emission is run even if it does not subscribe; `shutdown()` during an emission drops the rest; enabling waits for a rebuild; modified content is not passed on |

| `local_conversation.py:306-315` | without an agent a run ends FINISHED with no final event in the log; only its answer says `no_agent` |
| `integrations/slack.py:817-835` | a message of a thread without an active conversation is heard by no handler |

### Persistence

| Where | What happens |
|---|---|
| `events/event_log.py:132` | a stale count is believed when a log is opened and nothing calls `reindex()`: `get_last()` ends before the newest event for as long as the log lives (line 322) |
| `events/event_log.py:678-682` | a count file that cannot be read counts as no events |
| `events/event_log.py:240`, `:437-440` | when the count file cannot be written the call raises although the log has changed |
| `events/event_log.py:424` | `truncate(0)` resets the count before returning it: it returns 0 (lines 412-413) |
| `events/event_log.py:332` | `get_last()` racing a truncation can return fewer events than exist (line 322) |
| `task_queue.py:198` | `submit()` subtracts a task id from a time: once a task is remembered, submitting another prompt raises TypeError |
| `task_queue.py:265`, `:366`, `:376-386` | a cancellation saved between a worker's load and save is overwritten (line 258) |
| `task_queue.py:387-395` | a save of the worker that raises is dropped with the outcome, and a worker without an executor takes a task and leaves it: the task stays RUNNING until the next start of the program (`orphaned`); a row whose commit failed is in the transaction that the next commit makes final |
| `task_queue.py:386` | the worker's final save removes the checkpoint its execution had saved (line 129) |
| `task_queue.py:207` | two overlapping submissions of one prompt are both inserted (lines 181-183) |
| `task_queue.py:358` | with several workers two can load the same queued row (line 128); the command line starts one |
| `file_store/s3.py`, `gcs.py` | `overwrite=False` is a test and a write; the last `get_metadata()` of a write raises FileNotFound when the object is deleted meanwhile; two deletes of one object both return True in S3; a cancelled await leaves the pool thread writing and retrying; the metadata patch in GCS is a second request |
| `file_store/s3.py` | retries go by the name of the exception class: throttling and 5xx answers (ClientError) are never retried |
| `file_store/local.py` | `.tmp_stream_` leftovers of a death are listed; a sidecar may stay stale, and outlives its file when its removal fails (lines 213-221); the metadata a write returns is read outside the lock |
| `secrets/registry.py:367` | a `resolve()` in flight at `clear_cache()` keeps the old value in the cleared cache; `ClearedIsGone` excepts it |
| `secrets/store.py` | `.tmp_secret_*.json` leftovers are listed though `exists()` denies them; names that differ in `/` and `_` share a file; without a key in the environment nothing is readable after a restart; the lock is one process's |
| `secrets/router.py` | an update without a value reads and then writes |
| `server/webhooks.py` | `unregister()` leaves the cache when another process has deleted the row; `list_all()` is incomplete after a `get()`; the server does not see the command line's changes; registering anew resets the count; a death after the count loses the run |

### Server, messaging, services

| Where | What happens |
|---|---|
| `server/main.py:120-123`, `:362-363` | a later socket of a session takes the place of the first, whose disconnect empties it; an exception other than WebSocketDisconnect leaves the entry |
| `server/main.py:447` | chat and canvas share one bounded table; an insertion during an eviction can replace a list; prompts of a chat stream through the other manager, so `step_start`, `step_output` and `agent_done` reach no chat |
| `canvas/server.py` | the CanvasServer of the web server is not the tool's (`tool.py`: "shared with the web server"), sockets are never registered with it and its router is mounted nowhere; a broadcast over the live list passes a page over; sends may arrive out of order; a sync removes nothing; `max_sessions` is not enforced |
| `agent/router.py`, `messaging/gateway.py` | the registry evicts before it looks up, so a full one loses an agent on each message; agents made during `cleanup_all()` are dropped without cleanup; without a router `stop_all()` cleans nothing; evicted agents are cleaned up while they run |
| `nodes/manager.py` | "OrderedDict mutated" leaves a broadcast, whose failed nodes stay registered; an old failed send marks a re-registered device disconnected; a heartbeat marks one connected whose socket is dead |
| `cron.py` | command line and scheduler overwrite each other's saves; the file is not written atomically; a failed save runs the job again after a restart; long runs overlap; an exception skips the remaining outputs; a removed job's task still runs; `--trigger` in another process has no effect (line 508) |
| `llm/metrics.py:248-258`, `:632-654`; `observability/metrics.py:264-269` | `to_dict()` and `get_all()` ask for a lock they hold and hang; a budget callback that asks the metrics hangs. `MetricsAgree` excepts these operations |
| `observability/metrics.py:234` | what a mirror raises is dropped, so a use without labels, as in the module's example, is not in Prometheus (line 35) |
| `observability/metrics.py` | the module's other example passes `inc_counter()` a keyword that it does not take (line 32); a gauge's mirror may keep the older of two sets; `get_model_pricing()` takes the first prefix in table order; alerts outlive `clear_conversation()` |
| `integrations/slack.py` | an ended conversation is returned again and records nothing; `is_active` and `add_message` are two regions; async handlers in a synchronous App; `stop()` leaves the socket's thread; over aiohttp a lost answer raises, over urllib it is `ok: False` |
| `integrations/jira.py:754` | over aiohttp a refused transition is reported as made (line 744) |
| `integrations/jira.py`, `linear.py` | Jira's `update_issue()` reports over aiohttp success whatever the answer, as `transition_issue()` does; `create_issue()` makes an issue without a key of an error; Linear reads an issue out of a comment's data |
| `git_providers/bitbucket/service.py:190` | `Issue` has no field `assignee`: what reads an issue raises TypeError, `create_issue()` after it was made (README line 423) |
| `git_providers/base.py:234` | nothing is retried, `_retry_with_backoff` is used nowhere (lines 128-129) |
| `git_providers/` | `FileContent` has no field `repository`, so every `search_code()` that finds something raises TypeError; GitLab's second way to the repositories asks for a path that is not filled in (`gitlab/service.py:337`); async paced operations wait twice; only the first request of an operation is paced; rate limits and network errors of PyGithub and python-gitlab are partly final; pages are ignored by `search_code` (GitHub) and three Azure lists; the router's cache key is 8 characters of the token (`provider.py:170`); a failing check is suggested twice |

### Integrations, agents, language model

| Where | What happens |
|---|---|
| `integrations/webhook_handler.py` | an event refused by a full queue stays in the deduplication store, so its redelivery is dropped; fingerprints of Azure, GitLab and Bitbucket events collide (their numbers are looked up under GitHub's keys) and their issues find no resolver; an unknown GitHub type raises from `handle()`; a later handler's success hides an earlier failure; a retry runs all handlers again |
| `integrations/resolver.py:617` | the LLM has no `completion` method: every resolution of this program ends FAILED; the model keeps the path of an answer |
| `integrations/resolver.py` | the resolver's handler never raises, so it is never retried; a resolver per event or command leaves `max_concurrent` without effect; a cancelled task records RUNNING; `clear_results()` removes nothing (no `started_at`); the comment always says RUNNING (line 777) |
| `agent/base.py`, `toolcall.py` | a crashed attempt adds a TOOL answer and tries again under the same id, so answers are doubled; a correcting model call that raises runs the failing call again; other messages come between the answers of one message (`schema.py:115-118`); only the first call of a correction is run; `_trim()` may cut pairs; `terminate` does not stop the message's other calls; a failed step returns "Agent error: ..." as its text, so flows and roles count it as completed |
| `agent/base.py` | a grace call is one step more; a cancellation leaves RUNNING; a failing `create_session()` does too; a `close_session()` that raises skips the clean-up; a failed reflection counts as not solved |
| `permissions/gate.py` | outside plan mode the ASK tier passes silently; approvals of unlisted tools are not remembered |
| `agent/orchestrator.py` | a dependency outside the pipeline raises KeyError or is reported as a cycle and leaves the session open; an unknown role raises before its event can be set, so those that depend on it wait for ever; a failing log makes a completed role an error; callbacks are gathered without a timeout; the verdict "error" is unreachable; the bus delivers nothing (`base_role.py:68-74`) |
| `flow/planning.py:14-15` | blocked steps are retried "with a different agent", but Manus is retried with the same; agents are never IDLE again, so each cached one completes one step a flow; only the timeout bounds replanning; exceptions of planning pass |
| `llm/litellm_client.py:474` | an unavailable service is classified as a server error and a used-up quota as unknown: the next model is not tried (`fallback.py:12`) |
| `llm/llm.py:649` | when the pool has no key to give, the backend's own is used, which is the pool's first and set aside (`credential_pool.py:47`) |
| `llm/litellm_client.py:427-433`, `llm/llm.py:724` | without litellm every model of the chain is asked of the same built-in client, and a rate limit of `UniversalClient` ends the call as a RuntimeError, with no further model tried; `ChainTried` excepts it |
| `llm/llm.py:264-265` | `OpenAIClient` ignores the key that the pool gives; its limits, as those of `AnthropicClient`, do not reach the pool |
| `llm/fallback.py:107-110`, `llm/credential_pool.py:41` | a success begun before a failure ends its cooldown; `CooldownsObserved` names the excuse |
| `llm/llm.py`, `litellm_client.py` | a rate-limited last attempt sleeps and raises without a cause; a call that holds a model's state over `reset_model()` loses its failure |
| `llm/streaming.py:399`, `:411`, `:585-587` | closing a stream whose buffer is full hangs (line 13); the high watermark of 800 is above the default buffer of 100; fragments of tool calls without an id are dropped |
| `llm/streaming.py:774-775` | the synchronous generator yields DONE in its `finally`: closing it early raises RuntimeError and `on_done` is never called; `execute_sync()` and the synchronous classes have no callers |
| `context/view_properties.py:17-19` | loops "whole": the loop property restricts nothing; a response is never removable alone; batch enforcement may drop answers in the last window; ids used twice leave a call unanswered in a valid view |
| `context/condenser/` | the library has no caller in the conversation; the summarizing condenser's call of the model is a TypeError that is caught, so it extracts (README says otherwise, line 319); a pipeline keeps its last summary only; condensing drops a pending call |
