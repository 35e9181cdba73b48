----------------------------- MODULE CronScheduler ------------------------------
(***************************************************************************)
(* app/cron.py: the scheduler loop, which every 30 seconds starts a task   *)
(* for each job that is due, the tasks, the YAML file in which every run   *)
(* and every change of the jobs is saved whole, and the command line,      *)
(* another process that loads the file, changes it and saves it back.      *)
(*                                                                         *)
(* Time is counted in due times: update_next_run() sets a job due at the   *)
(* next one, and the loop looks more often than that.                      *)
(***************************************************************************)
EXTENDS Naturals

CONSTANTS Job, Absent,
          Enabled,       \* the jobs with enabled set
          MaxTime,       \* bound: due times
          MaxChanges,    \* bound: crashes and changes of the jobs
          Slots          \* bound: tasks that run at the same time

VARIABLES now,
          up,            \* the scheduler process: "down", "looping" or "stopped"
          next,          \* next_run of each job in memory, Absent for no job
          file,          \* the same in the file
          loaded,        \* what the command line has loaded, or Absent
          started,       \* the jobs with a task that has not begun to run
          orphaned,      \* those whose CronJob has left the table since
          task,          \* what each running task does, and for which job
          changes,
          last,          \* history: when a job was last run
          excused        \* history: jobs that may be due again at that time

cronVars == <<now, up, next, file, loaded, started, orphaned, task, changes, last, excused>>

Stage == {"agent", "callback", "primary", "outputs", "webhook", "handler", "cleanup"}
Free == [job |-> Absent, stage |-> "cleanup"]
Jobs(table) == {j \in Job : table[j] # Absent}
Due(j) == j \in Jobs(next) \intersect Enabled /\ next[j] <= now

CronInit ==
  /\ now = 0 /\ up = "down" /\ changes = 0
  /\ next = [j \in Job |-> Absent] /\ loaded = Absent
  /\ \E jobs \in SUBSET Job : file = [j \in Job |-> IF j \in jobs THEN 1 ELSE Absent]
  /\ started = {} /\ orphaned = {} /\ task = [s \in Slots |-> Free]
  /\ last = [j \in Job |-> 0] /\ excused = {}

Changing == changes < MaxChanges /\ changes' = changes + 1

Tick ==
  /\ now < MaxTime /\ now' = now + 1
  /\ UNCHANGED <<up, next, file, loaded, started, orphaned, task, changes, last, excused>>

\* The process starts and _load_jobs() reads the file.
Start ==
  /\ up = "down"
  /\ up' = "looping" /\ next' = file
  /\ UNCHANGED <<now, file, loaded, started, orphaned, task, changes, last, excused>>

\* One turn of the loop: lines 240-247.  The tasks of the turn before have begun
\* long before it.
StartDue ==
  /\ up = "looping" /\ started = {}
  /\ started' = {j \in Job : Due(j)} /\ started' # {}
  /\ UNCHANGED <<now, up, next, file, loaded, orphaned, task, changes, last, excused>>

\* _save_jobs() writes the table, or fails and logs a warning.
Save(j, table) ==
  \/ file' = table /\ excused' = excused \ ({j} \ orphaned)
  \/ UNCHANGED file /\ excused' = excused \union {j}

Runs(j) ==
  /\ \E s \in Slots :
       /\ task[s] = Free
       /\ task' = [task EXCEPT ![s] = [job |-> j, stage |-> "agent"]]
  /\ started' = started \ {j} /\ orphaned' = orphaned \ {j}
  /\ last' = [last EXCEPT ![j] = IF j \in orphaned THEN @ ELSE now]
  /\ UNCHANGED <<now, up, loaded, changes>>

\* A mutant of Begin: the next run is computed when the agent is done.
BeginWithoutNext(j) ==
  /\ j \in started
  /\ Save(j, next) /\ UNCHANGED next
  /\ Runs(j)

\* The first step of _run_job(): lines 251-260.  The job may have been removed or
\* replaced since it was found due; then only its own object gets a new next_run.
Begin(j) ==
  /\ j \in started
  /\ next' = IF j \in orphaned THEN next ELSE [next EXCEPT ![j] = now + 1]
  /\ Save(j, next')
  /\ Runs(j)

\* The stage that follows when one ends well, and when it raises: an exception of
\* the agent, of the callback or of the primary output skips everything else.
After(stage, raised) ==
  CASE stage = "agent"    -> IF raised THEN "cleanup" ELSE "callback"
    [] stage = "callback" -> IF raised THEN "cleanup" ELSE "primary"
    [] stage = "primary"  -> IF raised THEN "cleanup" ELSE "outputs"
    [] stage = "outputs"  -> "webhook"
    [] stage = "webhook"  -> "handler"
    [] stage = "handler"  -> "cleanup"

\* Lines 260-302.
Continue(s) ==
  /\ task[s] # Free /\ task[s].stage # "cleanup"
  /\ \E raised \in BOOLEAN :
       task' = [task EXCEPT ![s].stage = After(@, raised)]
  /\ UNCHANGED <<now, up, next, file, loaded, started, orphaned, changes, last, excused>>

\* The finally clause, lines 306-318.
Ends(s) ==
  /\ task[s] # Free /\ task[s].stage = "cleanup"
  /\ task' = [task EXCEPT ![s] = Free]
  /\ UNCHANGED <<now, up, next, file, loaded, started, orphaned, changes, last, excused>>

-------------------------------------------------------------------------------
\* add_job(), also of an id that exists, and remove_job(), on any table of jobs.
Added(table, j) == [table EXCEPT ![j] = now + 1]
Removed(table, j) == [table EXCEPT ![j] = Absent]

\* The scheduler's own process adds or removes a job, or triggers one: it is due at
\* once, and the change is not saved.
Change(j) ==
  /\ up = "looping" /\ Changing
  /\ next' \in {Added(next, j), Removed(next, j)}
  /\ Save(j, next')
  /\ orphaned' = orphaned \union ({j} \intersect started)
  /\ UNCHANGED <<now, up, loaded, started, task, last>>

Trigger(j) ==
  /\ up = "looping" /\ Changing
  /\ next[j] # Absent /\ next' = [next EXCEPT ![j] = now]
  /\ excused' = excused \union {j}
  /\ UNCHANGED <<now, up, file, loaded, started, orphaned, task, last>>

\* The command line in a process of its own.  What it triggers is forgotten when
\* the process exits.
CommandLoads ==
  /\ loaded = Absent /\ changes < MaxChanges
  /\ loaded' = file
  /\ UNCHANGED <<now, up, next, file, started, orphaned, task, changes, last, excused>>

\* A job whose run has been saved since is written back as it was before.
CommandSaves(j) ==
  /\ loaded # Absent /\ Changing
  /\ file' \in {Added(loaded, j), Removed(loaded, j), file}
  /\ loaded' = Absent
  /\ excused' = excused \union {k \in Jobs(file') : file'[k] # file[k] /\ file'[k] <= last[k]}
  /\ UNCHANGED <<now, up, next, started, orphaned, task, last>>

\* stop(): the loop is left at its next turn, and asyncio.run() cancels the tasks.
Stop ==
  /\ up = "looping"
  /\ up' = "stopped"
  /\ UNCHANGED <<now, next, file, loaded, started, orphaned, task, changes, last, excused>>

Gone ==
  /\ up' = "down" /\ next' = [j \in Job |-> Absent]
  /\ started' = {} /\ orphaned' = {} /\ task' = [s \in Slots |-> Free]

Exit ==
  /\ up = "stopped" /\ started = {}
  /\ Gone
  /\ UNCHANGED <<now, file, loaded, changes, last, excused>>

\* The process dies.  write_text() empties the file before it writes it, so when
\* a save is interrupted the file holds no job.
Crash ==
  /\ up # "down" /\ Changing
  /\ Gone
  /\ \/ UNCHANGED file
     \/ started # {} /\ file' = [j \in Job |-> Absent]
  /\ UNCHANGED <<now, loaded, last, excused>>

CronNext ==
  \/ Tick \/ Start \/ StartDue \/ CommandLoads \/ Stop \/ Exit \/ Crash
  \/ \E j \in Job : Begin(j) \/ Change(j) \/ Trigger(j) \/ CommandSaves(j)
  \/ \E s \in Slots : Continue(s) \/ Ends(s)

\* The loop turns, its tasks begin and what they await ends.
CronFairness ==
  /\ WF_cronVars(StartDue) /\ \A j \in Job : WF_cronVars(Begin(j))
  /\ \A s \in Slots : WF_cronVars(Continue(s) \/ Ends(s))
-------------------------------------------------------------------------------
\* No due time is run twice, across restarts and slow runs, unless the job was
\* triggered, its run could not be saved or the command line wrote an older table
\* over the scheduler's.
NoneTwice ==
  [][\A j \in started \ (started' \union orphaned) :
       up' # "down" => last[j] < now \/ j \in excused]_cronVars

\* While the scheduler is up every due job is run.
EveryDueRuns ==
  \A j \in Job : (up = "looping" /\ Due(j)) ~> (up # "looping" \/ ~Due(j))

\* Each due time of a job is run exactly once (lines 77-88 and 237-260).
RunsOncePerDue == NoneTwice /\ EveryDueRuns
================================================================================
