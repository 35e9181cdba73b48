------------------------------- MODULE TaskQueue -------------------------------
(***************************************************************************)
(* app/task_queue.py: a queue of tasks in SQLite, the workers of one       *)
(* process that run them, the coroutines that submit, cancel and retry     *)
(* them, and the process that stops, dies and starts again.                *)
(*                                                                         *)
(* Everything runs on one event loop, so a coroutine is atomic between two *)
(* awaits.  Every database access is "await to_thread": it is a step of    *)
(* its own, and what the coroutine loaded before it may be stale.  A write *)
(* whose coroutine is cancelled may still be carried out by the thread     *)
(* (late), and one may raise: the database is locked, the disk is full, or *)
(* the connection belongs to another thread of the pool.  The database     *)
(* survives a crash, everything else does not.                             *)
(***************************************************************************)
EXTENDS Naturals, SequencesExt

CONSTANTS Task, Prompt, Worker, Client,
          PromptOf, PriorityOf,   \* what a task is submitted with
          MaxRetries,             \* max_retries of every task
          Ops,                    \* the operations Clients use
          Checkpointing,          \* whether executors call save_checkpoint()
          None,
          MaxSessions,            \* bound: how often the process is started
          MaxSteps,               \* bound: checkpoints of one task
          MaxFaults               \* bound: writes that raise

\* PromptOf \in [Task -> Prompt], PriorityOf \in [Task -> Nat], and the bounds and
\* MaxRetries are natural numbers.

VARIABLES
  db,       \* the table: the saved TaskEntry of each task, or None
  order,    \* the saved tasks by updated_at, the oldest first
  faults,   \* how many writes have raised
  orphaned, \* the tasks that the table calls running and their worker has left
  late,     \* writes whose coroutine is gone and that a thread still makes
  process,  \* what the process is doing
  executor, \* whether this process has set one
  todo,     \* the entries resume_interrupted() has still to look at
  recent,   \* _recent_prompts
  active,   \* _active_tasks: the worker whose asyncio task is registered
  wpc, mine,      \* each worker: where it is, its TaskEntry
  exec, draft,    \* its asyncio task, the entry loaded by save_checkpoint()
  cpc, copy,      \* each client: where it is, the entry it loaded
  sessions

dbVars == <<db, order, orphaned, faults>>
workerVars == <<wpc, mine, exec, draft, active>>
clientVars == <<cpc, copy, recent>>
procVars == <<process, todo, sessions, executor>>
vars == <<dbVars, late, procVars, workerVars, clientVars>>

TaskStatus == {"queued", "running", "paused", "completed", "failed", "cancelled"}
Settled == {"completed", "failed", "cancelled"}

Entry == [id : Task, status : TaskStatus, retry : 0..MaxRetries + 1, ckpt : 0..MaxSteps]

New(t) == [id |-> t, status |-> "queued", retry |-> 0, ckpt |-> 0]

Saved(t) == db[t] # None
Status(t) == IF Saved(t) THEN db[t].status ELSE "absent"

\* INSERT OR REPLACE, with a new updated_at.
Write(e) ==
  /\ db' = [db EXCEPT ![e.id] = e]
  /\ order' = Append(SelectSeq(order, LAMBDA t : t # e.id), e.id)

\* With this step the worker of the tasks of S turns to other work.
Leave(S) == orphaned' = {t \in orphaned \union S : Status(t)' = "running"}

\* _save()
Save(e) == Write(e) /\ Leave({}) /\ UNCHANGED faults

\* _save() raises.  When it is the commit that fails, the row is in the transaction
\* that stays open: the queue sees it, and the next commit makes it final.
SaveRaises(e, S) ==
  /\ faults < MaxFaults /\ faults' = faults + 1
  /\ Write(e) \/ UNCHANGED <<db, order>>
  /\ Leave(S)

\* The coroutine that awaits this write is cancelled: the thread has not begun
\* and never will, or it finishes later.
Abandon(e) == late' \in {late, late \union {e}}

LateWrite ==
  /\ \E e \in late : Save(e) /\ late' = late \ {e}
  /\ UNCHANGED <<procVars, workerVars, clientVars>>

All(S, v) == [x \in S |-> v]

Init ==
  /\ db = [t \in Task |-> None] /\ order = <<>> /\ late = {}
  /\ orphaned = {} /\ faults = 0
  /\ process = "down" /\ todo = {} /\ sessions = 0 /\ executor = FALSE
  /\ wpc = All(Worker, "off") /\ mine = All(Worker, None)
  /\ exec = All(Worker, "none") /\ draft = All(Worker, None)
  /\ cpc = All(Client, "idle") /\ copy = All(Client, None)
  /\ active = All(Task, None) /\ recent = All(Prompt, None)
-------------------------------------------------------------------------------
(* The process                                                             *)

\* The position of t in the order of updates.
Age(t) == CHOOSE i \in DOMAIN order : order[i] = t

\* A new process: resume_interrupted() reads all tasks.
Boot ==
  /\ process = "down" /\ sessions < MaxSessions
  /\ process' = "resuming" /\ sessions' = sessions + 1
  /\ todo' = {db[t] : t \in {u \in Task : Saved(u)}}
  /\ UNCHANGED <<dbVars, late, executor, workerVars, clientVars>>

\* Lines 421-436: what becomes of a task that was interrupted.
Requeued(e) ==
  CASE e.status = "running" /\ e.retry < MaxRetries ->
         [e EXCEPT !.status = "queued", !.retry = @ + 1]
    [] e.status = "running" /\ e.retry >= MaxRetries ->
         [e EXCEPT !.status = "failed", !.retry = MaxRetries + 1]
    [] e.status = "paused" -> [e EXCEPT !.status = "queued"]
    [] OTHER -> e

\* The entries are taken newest update first.  Nothing else writes meanwhile, so
\* those that are left have the order in which they were read.  A write that raises
\* ends the program: that is a Crash.
ResumeOne ==
  /\ process = "resuming"
  /\ \E e \in todo :
       /\ \A f \in todo \ {e} : Age(f.id) < Age(e.id)
       /\ IF e.status \in {"running", "paused"} THEN Save(Requeued(e)) ELSE UNCHANGED dbVars
       /\ todo' = todo \ {e}
  /\ UNCHANGED <<late, process, sessions, executor, workerVars, clientVars>>

\* start_workers(), after set_executor() or without it.
StartWorkers ==
  /\ process = "resuming" /\ todo = {}
  /\ process' = "up" /\ executor' \in BOOLEAN
  /\ wpc' = [w \in Worker |-> "poll"]
  /\ UNCHANGED <<dbVars, late, todo, sessions, mine, exec, draft, active, clientVars>>

\* Lines 336-338 cancel every worker.  One that polls or sleeps ends; one that
\* saves leaves its write behind; one that awaits its task passes the
\* cancellation on to it, which may be inside a write of its own.  A task that
\* has just ended does not help: the cancelled await raises all the same.
\* The last process of a behaviour is not stopped.
StopWorkers ==
  /\ process = "up" /\ sessions < MaxSessions
  /\ process' = "stopping"
  /\ wpc' = [w \in Worker |-> IF wpc[w] = "awaiting" THEN "awaiting" ELSE "off"]
  /\ exec' = [w \in Worker |-> IF wpc[w] = "awaiting" THEN "cancelled" ELSE "none"]
  /\ LET pending == {mine[w] : w \in {v \in Worker : wpc[v] \in {"picked", "saving"}}}
                      \union {draft[w] : w \in {v \in Worker : exec[v] = "saving"}}
     IN  \E s \in SUBSET pending : late' = late \union s
  /\ UNCHANGED <<dbVars, todo, sessions, executor, mine, draft, active, clientVars>>

\* The memory of the process is gone.
Forget ==
  /\ process' = "down" /\ todo' = {} /\ executor' = FALSE
  /\ wpc' = All(Worker, "off") /\ mine' = All(Worker, None)
  /\ exec' = All(Worker, "none") /\ draft' = All(Worker, None)
  /\ cpc' = All(Client, "idle") /\ copy' = All(Client, None)
  /\ active' = All(Task, None) /\ recent' = All(Prompt, None)

\* The workers have ended (line 341) and lines 344-351 have found nothing to do;
\* asyncio.run() waits for the threads, so late writes come first.
Exit ==
  /\ process = "stopping" /\ late = {}
  /\ \A w \in Worker : wpc[w] = "off"
  /\ Forget
  /\ UNCHANGED <<dbVars, late, sessions>>

\* The process dies.  The last one of a behaviour does not.
Crash ==
  /\ process # "down" /\ sessions < MaxSessions
  /\ Forget /\ late' = {}
  /\ UNCHANGED <<dbVars, sessions>>
-------------------------------------------------------------------------------
(* A worker                                                                *)

Queued == {t \in Task : Status(t) = "queued"}

\* _next_queued_task(): highest priority first, then the oldest update.
First(t) ==
  /\ t \in Queued
  /\ \A u \in Queued \ {t} :
       \/ PriorityOf[t] > PriorityOf[u]
       \/ PriorityOf[t] = PriorityOf[u] /\ Age(t) < Age(u)

\* A mutant of Pick: the query does not filter on the status.
PickAny(w) ==
  /\ wpc[w] = "poll" /\ process = "up"
  /\ \E t \in Task : Saved(t) /\ mine' = [mine EXCEPT ![w] = [db[t] EXCEPT !.status = "running"]]
  /\ wpc' = [wpc EXCEPT ![w] = "picked"]
  /\ UNCHANGED <<dbVars, late, procVars, exec, draft, active, clientVars>>

\* Lines 358-365.
Pick(w) ==
  /\ wpc[w] = "poll" /\ process = "up"
  /\ \E t \in Task :
       First(t) /\ mine' = [mine EXCEPT ![w] = [db[t] EXCEPT !.status = "running"]]
  /\ wpc' = [wpc EXCEPT ![w] = "picked"]
  /\ UNCHANGED <<dbVars, late, procVars, exec, draft, active, clientVars>>

\* Lines 366-372: save RUNNING, create the asyncio task and await it.  Without an
\* executor (lines 387-389), and when the save raises (lines 393-395), the worker
\* sleeps and looks for the next task.
Begin(w) ==
  /\ wpc[w] = "picked"
  /\ \/ /\ executor /\ Save(mine[w])
        /\ wpc' = [wpc EXCEPT ![w] = "awaiting"]
        /\ exec' = [exec EXCEPT ![w] = "going"]
        /\ active' = [active EXCEPT ![mine[w].id] = w]
        /\ UNCHANGED mine
     \/ /\ \/ ~executor /\ Write(mine[w]) /\ Leave({mine[w].id}) /\ UNCHANGED faults
           \/ SaveRaises(mine[w], {mine[w].id})
        /\ wpc' = [wpc EXCEPT ![w] = "poll"]
        /\ mine' = [mine EXCEPT ![w] = None]
        /\ UNCHANGED <<exec, active>>
  /\ UNCHANGED <<late, procVars, draft, clientVars>>

\* The executor returns or raises.
ExecEnds(w) ==
  /\ exec[w] = "going"
  /\ \E r \in {"returned", "raised"} : exec' = [exec EXCEPT ![w] = r]
  /\ UNCHANGED <<dbVars, late, procVars, wpc, mine, draft, active, clientVars>>

\* save_checkpoint() called by the executor: load, then save.
CheckpointLoad(w) ==
  /\ Checkpointing /\ exec[w] = "going"
  /\ db[mine[w].id].ckpt < MaxSteps
  /\ draft' = [draft EXCEPT ![w] = [db[mine[w].id] EXCEPT !.ckpt = @ + 1]]
  /\ exec' = [exec EXCEPT ![w] = "saving"]
  /\ UNCHANGED <<dbVars, late, procVars, wpc, mine, active, clientVars>>

\* An error is the executor's to handle.
CheckpointSave(w) ==
  /\ exec[w] = "saving"
  /\ Save(draft[w]) \/ SaveRaises(draft[w], {})
  /\ exec' = [exec EXCEPT ![w] = "going"]
  /\ draft' = [draft EXCEPT ![w] = None]
  /\ UNCHANGED <<late, procVars, wpc, mine, active, clientVars>>

Outcome(w) ==
  CASE exec[w] = "returned"  -> "completed"
    [] exec[w] = "raised"    -> "failed"
    [] exec[w] = "cancelled" -> "paused"

\* A mutant of Collect: a CancelledError is taken for the worker's own.
CollectBreaks(w) ==
  /\ wpc[w] = "awaiting" /\ exec[w] \in {"returned", "raised", "cancelled"}
  /\ mine' = [mine EXCEPT ![w].status = Outcome(w)]
  /\ wpc' = [wpc EXCEPT ![w] = IF exec[w] = "cancelled" THEN "off" ELSE "saving"]
  /\ exec' = [exec EXCEPT ![w] = "none"]
  /\ draft' = [draft EXCEPT ![w] = None]
  /\ active' = [active EXCEPT ![mine[w].id] = None]
  /\ UNCHANGED <<dbVars, late, procVars, clientVars>>

\* Lines 373-385: the await returns or raises, the task leaves _active_tasks.
Collect(w) ==
  /\ wpc[w] = "awaiting" /\ exec[w] \in {"returned", "raised", "cancelled"}
  /\ mine' = [mine EXCEPT ![w].status = Outcome(w)]
  /\ wpc' = [wpc EXCEPT ![w] = "saving"]
  /\ exec' = [exec EXCEPT ![w] = "none"]
  /\ draft' = [draft EXCEPT ![w] = None]
  /\ active' = [active EXCEPT ![mine[w].id] = None]
  /\ UNCHANGED <<dbVars, late, procVars, clientVars>>

\* Line 386, and line 356 for the next round.  When the save raises, lines 393-395
\* swallow the error and the outcome is lost with it.
Finish(w) ==
  /\ wpc[w] = "saving"
  /\ Save(mine[w]) \/ SaveRaises(mine[w], {mine[w].id})
  /\ mine' = [mine EXCEPT ![w] = None]
  /\ wpc' = [wpc EXCEPT ![w] = IF process = "up" THEN "poll" ELSE "off"]
  /\ UNCHANGED <<late, procVars, exec, draft, active, clientVars>>
-------------------------------------------------------------------------------
(* A coroutine that calls the queue                                        *)

Goto(c, step) == cpc' = [cpc EXCEPT ![c] = step]

Free(c) == cpc[c] \in {"idle", "typeerror"}

\* submit() up to its first await.  A prompt that is not known makes line 198
\* evaluate now - v for every remembered task id v, which raises TypeError.
SubmitCall(c, t) ==
  /\ "submit" \in Ops /\ process = "up" /\ Free(c)
  /\ ~Saved(t) /\ t \notin {copy[d].id : d \in {e \in Client : copy[e] # None}}
  /\ IF recent[PromptOf[t]] # None
       THEN Goto(c, "lookup") /\ copy' = [copy EXCEPT ![c] = New(t)]
       ELSE IF \E p \in Prompt : recent[p] # None
              THEN Goto(c, "typeerror") /\ UNCHANGED copy
              ELSE Goto(c, "insert") /\ copy' = [copy EXCEPT ![c] = New(t)]
  /\ UNCHANGED <<dbVars, late, procVars, workerVars, recent>>

\* Lines 191-194: the task known for the prompt is returned if it is still
\* queued; otherwise line 198 raises.
SubmitLookup(c) ==
  /\ cpc[c] = "lookup"
  /\ Goto(c, IF Status(recent[PromptOf[copy[c].id]]) = "queued" THEN "idle" ELSE "typeerror")
  /\ copy' = [copy EXCEPT ![c] = None]
  /\ UNCHANGED <<dbVars, late, procVars, workerVars, recent>>

\* Lines 207-210.  Here and below the caller gets the error of a write.
SubmitInsert(c) ==
  /\ cpc[c] = "insert"
  /\ \/ Save(copy[c]) /\ recent' = [recent EXCEPT ![PromptOf[copy[c].id]] = copy[c].id]
     \/ SaveRaises(copy[c], {}) /\ UNCHANGED recent
  /\ copy' = [copy EXCEPT ![c] = None]
  /\ Goto(c, "idle")
  /\ UNCHANGED <<late, procVars, workerVars>>

\* cancel_task(), lines 259-264.
CancelLoad(c, t) ==
  /\ "cancel" \in Ops /\ process = "up" /\ Free(c)
  /\ Status(t) \in {"queued", "running", "paused"}
  /\ copy' = [copy EXCEPT ![c] = [db[t] EXCEPT !.status = "cancelled"]]
  /\ Goto(c, "cancelling")
  /\ UNCHANGED <<dbVars, late, procVars, workerVars, recent>>

\* Lines 265-269.  An asyncio task that is done ignores cancel(); one that is
\* in a write of save_checkpoint() leaves the write to its thread.
CancelSave(c) ==
  /\ cpc[c] = "cancelling"
  /\ \/ /\ Save(copy[c])
        /\ LET w == active[copy[c].id]
           IN  IF w # None /\ exec[w] \in {"going", "saving"}
                 THEN /\ exec' = [exec EXCEPT ![w] = "cancelled"]
                      /\ IF exec[w] = "saving" THEN Abandon(draft[w]) ELSE UNCHANGED late
                 ELSE UNCHANGED <<exec, late>>
     \/ SaveRaises(copy[c], {}) /\ UNCHANGED <<exec, late>>
  /\ copy' = [copy EXCEPT ![c] = None]
  /\ Goto(c, "idle")
  /\ UNCHANGED <<procVars, wpc, mine, draft, active, recent>>

\* retry_task(), lines 274-280.  The bound keeps retry_count small: the code
\* does not compare it with max_retries here.
RetryLoad(c, t) ==
  /\ "retry" \in Ops /\ process = "up" /\ Free(c)
  /\ Status(t) \in {"failed", "cancelled"} /\ db[t].retry <= MaxRetries
  /\ copy' = [copy EXCEPT ![c] = [db[t] EXCEPT !.status = "queued", !.retry = @ + 1]]
  /\ Goto(c, "retrying")
  /\ UNCHANGED <<dbVars, late, procVars, workerVars, recent>>

RetrySave(c) ==
  /\ cpc[c] = "retrying"
  /\ Save(copy[c]) \/ SaveRaises(copy[c], {})
  /\ copy' = [copy EXCEPT ![c] = None]
  /\ Goto(c, "idle")
  /\ UNCHANGED <<late, procVars, workerVars, recent>>

WorkerStep(w) ==
  \/ Pick(w) \/ Begin(w) \/ ExecEnds(w) \/ CheckpointLoad(w) \/ CheckpointSave(w)
  \/ Collect(w) \/ Finish(w)

ClientStep(c) == SubmitLookup(c) \/ SubmitInsert(c) \/ CancelSave(c) \/ RetrySave(c)

ClientCall(c) == \E t \in Task : SubmitCall(c, t) \/ CancelLoad(c, t) \/ RetryLoad(c, t)

Next ==
  \/ Boot \/ ResumeOne \/ StartWorkers \/ StopWorkers \/ Exit \/ Crash \/ LateWrite
  \/ \E w \in Worker : WorkerStep(w)
  \/ \E c \in Client : ClientStep(c) \/ ClientCall(c)

Spec == Init /\ [][Next]_vars

(***************************************************************************)
(* The event loop and the threads of its pool keep running, the user       *)
(* starts the program again, an executor ends.  Nobody has to call the     *)
(* queue, to stop it or to crash.                                          *)
(***************************************************************************)
Fairness ==
  /\ WF_vars(Boot \/ ResumeOne \/ StartWorkers \/ Exit)
  /\ WF_vars(LateWrite)
  /\ \A w \in Worker : WF_vars(WorkerStep(w)) /\ WF_vars(ExecEnds(w))
  /\ \A c \in Client : WF_vars(ClientStep(c))

FairSpec == Spec /\ Fairness
-------------------------------------------------------------------------------
TypeOK ==
  /\ db \in [Task -> Entry \union {None}]
  /\ order \in Seq(Task) /\ ToSet(order) = {t \in Task : Saved(t)} /\ IsInjective(order)
  /\ late \subseteq Entry /\ orphaned \subseteq Task /\ faults \in 0..MaxFaults
  /\ process \in {"down", "resuming", "up", "stopping"}
  /\ todo \subseteq Entry
  /\ recent \in [Prompt -> Task \union {None}]
  /\ active \in [Task -> Worker \union {None}]
  /\ wpc \in [Worker -> {"off", "poll", "picked", "awaiting", "saving"}]
  /\ mine \in [Worker -> Entry \union {None}]
  /\ exec \in [Worker -> {"none", "going", "saving", "returned", "raised", "cancelled"}]
  /\ draft \in [Worker -> Entry \union {None}]
  /\ cpc \in [Client -> {"idle", "lookup", "insert", "cancelling", "retrying", "typeerror"}]
  /\ copy \in [Client -> Entry \union {None}]
  /\ sessions \in 0..MaxSessions

\* While the queue works, a task that the table calls running is in the hands
\* of a worker that will save its outcome, or its worker has left it so because a
\* write raised or there is no executor (lines 387-395).  Nothing else leaves a task
\* to be found by the next resume_interrupted() (lines 358-386 and 421-441).
RunningHasWorker ==
  process = "up" =>
    \A t \in Task : Status(t) = "running" =>
      \/ t \in orphaned
      \/ \E w \in Worker : wpc[w] \in {"awaiting", "saving"} /\ mine[w].id = t

\* A finished task stays finished: no stale copy and no restart queues or runs
\* it again (lines 366, 386 and 421).
CompletedStays ==
  [][\A t \in Task : Status(t) = "completed" => db'[t] = db[t]]_vars

\* Every queued task is settled in the end, over any number of stops, crashes
\* and restarts (lines 1-11, "survives terminal close, restart"), or is orphaned;
\* and an orphan of one process is queued again by the next.
EveryTaskSettles ==
  \A t \in Task :
    /\ (Status(t) = "queued") ~> (Status(t) \in Settled \/ t \in orphaned)
    /\ (t \in orphaned /\ process = "down") ~>
         (Status(t) \in Settled \/ (process = "up" /\ t \notin orphaned))

\* An execution ends, also one that cancel_task() interrupts, and its worker
\* looks for the next task (lines 371-391).
WorkersGoOn ==
  \A w \in Worker : (wpc[w] = "awaiting") ~> (wpc[w] = "poll" \/ process # "up")
===============================================================================
