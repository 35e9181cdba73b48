------------------------------- MODULE MCStorage -------------------------------
(***************************************************************************)
(* What is kept outside the process, one part of it in each behaviour: the *)
(* event log of two threads; the task queue with clients that cancel and   *)
(* retry; two calls for one path of a file store; the secrets; the table   *)
(* of webhooks.                                                            *)
(***************************************************************************)
EXTENDS EventLog, FiniteSets, TLC

CONSTANTS Scenarios,          \* the parts
          None, Absent,
          MaxSessions, MaxSteps, MaxFaults,                           \* TaskQueue
          Call, OpsOf, LoopOf, Backends, MaxTries, MaxDeaths,         \* FileStores
          Client, Name, FileOf, EnvKey, MaxSets, MaxOps, MaxRestarts, \* Secrets
          Hook, NoHook, Requested, MaxForeign                         \* WebhookStore

ASSUME CallsAssumption == IsFiniteSet(Call) /\ None \notin Call
ASSUME NoneAssumption == None \notin Nat /\ None \notin {"ok", "cancelled"} /\ Absent \notin [by : Call, whole : BOOLEAN]

VARIABLES scenario,
          db, order, orphaned, faults, late, process, executor, todo, recent, active, wpc, mine, exec, draft, cpc, copy,
          sessions,
          backend, op, fpc, at, busy, holder, file, side, temp, opened, tries, answer, read,
          removed, unsided, deaths,
          secret, orphans, registry, spc, name, loaded, reply, ops, sets, restarts, cleared,
          barred,
          rows, known, hpc, hook, using, listed, versions, fired, foreign, changes, starts

queueVars == <<db, order, orphaned, faults, late, process, executor, todo, recent, active, wpc,
               mine, exec, draft, cpc, copy, sessions>>
fileVars == <<backend, op, fpc, at, busy, holder, file, side, temp, opened, tries, answer,
              read, removed, unsided, deaths>>
secretVars == <<secret, orphans, registry, spc, name, loaded, reply, ops, sets, restarts,
                cleared, barred>>
hookVars == <<rows, known, hpc, hook, using, listed, versions, fired, foreign, changes, starts>>

\* Two tasks with the same prompt, the second more urgent.
Q == INSTANCE TaskQueue WITH
       Task <- {1, 2}, Prompt <- {1}, Worker <- {1}, Client <- {1},
       PromptOf <- [t \in {1, 2} |-> 1], PriorityOf <- [t \in {1, 2} |-> t],
       MaxRetries <- 0, Ops <- {"submit", "cancel", "retry"}, Checkpointing <- TRUE

\* A writer beside any call.
AnyAndWriter ==
    [c \in Call |-> {"write", "create", "stream", "createStream"} \cup IF c = 1 THEN {} ELSE {"delete", "read", "readStream", "stat"}]
F == INSTANCE FileStores WITH pc <- fpc, got <- read

OwnLoops == [c \in Call |-> c]
OneLoop == [c \in Call |-> 1]

ASSUME StoresAssumption == Backends \subseteq F!Backend /\ \A c \in Call : OpsOf[c] \subseteq F!Operation

\* All names come to one file name.
OneFile == [n \in Name |-> 1]
S == INSTANCE Secrets WITH pc <- spc

W == INSTANCE WebhookStore WITH
       Request <- Requested, cache <- known, pc <- hpc, restarts <- starts

MCInit ==
    /\ Init /\ Q!Init /\ F!StoreInit /\ S!SecretInit /\ W!StoreInit
    /\ scenario \in Scenarios
    \* the initial choices of the parts that take no step
    /\ scenario # "files" => /\ backend = CHOOSE b \in Backends : TRUE
                             /\ op = [c \in Call |-> "write"]
    /\ scenario # "secrets" => name = [c \in Client |-> CHOOSE n \in Name : TRUE]

MCNext ==
    /\ \/ scenario = "log" /\ Next /\ UNCHANGED <<queueVars, fileVars, secretVars, hookVars>>
       \/ scenario = "tasks" /\ Q!Next /\ UNCHANGED <<vars, fileVars, secretVars, hookVars>>
       \/ scenario = "files" /\ F!StoreNext /\ UNCHANGED <<vars, queueVars, secretVars, hookVars>>
       \/ scenario = "secrets" /\ S!SecretNext /\ UNCHANGED <<vars, queueVars, fileVars, hookVars>>
       \/ scenario = "hooks" /\ W!WebhookNext /\ UNCHANGED <<vars, queueVars, fileVars, secretVars>>
    /\ UNCHANGED scenario

\* Each part's, where it is the one that runs.
QueueFairness ==
    /\ WF_queueVars(scenario = "tasks" /\ (Q!Boot \/ Q!ResumeOne \/ Q!StartWorkers \/ Q!Exit))
    /\ WF_queueVars(scenario = "tasks" /\ Q!LateWrite)
    /\ WF_queueVars(scenario = "tasks" /\ Q!WorkerStep(1))
    /\ WF_queueVars(scenario = "tasks" /\ Q!ExecEnds(1))
    /\ WF_queueVars(scenario = "tasks" /\ Q!ClientStep(1))
\* While a step of a call is possible, one is made: a stream comes to its end,
\* a request is answered.
FileFairness == WF_fileVars(scenario = "files" /\ \E c \in Call : F!Steps(c))

MCSpec ==
    /\ MCInit /\ [][MCNext]_<<vars, queueVars, fileVars, secretVars, hookVars, scenario>>
    /\ QueueFairness /\ FileFairness

FilesKept == F!FilesKept
StoreAnswers == F!StoreAnswers
\* Workers come back for the next task, and every store call is answered.
EveryoneGoesOn == Q!WorkersGoOn /\ StoreAnswers
ClearedIsGone == S!ClearedIsGone
HooksAgree == W!HooksAgree
================================================================================
