------------------------------- MODULE FileStores -------------------------------
(***************************************************************************)
(* app/file_store: the stores in memory, on the local disk, in S3 and in   *)
(* Google Cloud Storage, as calls for one path.  What an operation does is *)
(* a sequence of steps.  The first two stores do them under a              *)
(* threading.Lock and on the caller's event loop, which nothing else can   *)
(* use between two awaits; the others send each request from a thread of   *)
(* the pool and may repeat it.  The process may die between two steps; the *)
(* disk and the bucket stay.                                               *)
(*                                                                         *)
(* A content is the call that wrote it and whether all of it is there.     *)
(***************************************************************************)
EXTENDS Naturals, Sequences, FiniteSets

CONSTANTS Call, Absent, None,
          Backends,       \* some of Backend
          OpsOf,          \* [Call -> the operations a call may be]
          LoopOf,         \* [Call -> the event loop, and thread, it runs on]
          MaxTries,       \* max_retries
          MaxDeaths       \* bound: deaths of the process

VARIABLES backend, op,
          pc, at,         \* where the call is; the step it takes next
          busy,           \* the call each loop is busy with
          holder,         \* _lock
          file, side,     \* the file, and the call whose sidecar lies beside it
          temp,           \* the temporary file of each call
          opened,         \* the file a reader has open
          tries,          \* attempts that failed
          answer, got,
          removed,        \* how often the file has been removed
          unsided,        \* the sidecar's write or removal failed, or the process died before
          deaths

fileVars == <<backend, op, pc, at, busy, holder, file, side, temp, opened, tries, answer,
              got, removed, unsided, deaths>>

Backend == {"memory", "local", "s3", "gcs"}
Creating == {"create", "createStream"}
Streaming == {"stream", "createStream"}
Operation ==
    {"write", "read", "readStream", "delete", "stat"} \cup Creating \cup Streaming

-----------------------------------------------------------------------------
(* The steps of each operation of each store.                              *)

\* "create" and "createStream" are overwrite=False; "stat" stands for exists(),
\* get_url() and get_metadata().
MemoryPlans ==
    [write |-> <<"lock", "put", "unlock">>,
     create |-> <<"lock", "vacant", "put", "unlock">>,
     stream |-> <<"chunk", "lock", "put", "unlock">>,
     createStream |-> <<"chunk", "lock", "vacant", "put", "unlock">>,
     read |-> <<"lock", "get", "unlock">>, readStream |-> <<"lock", "get", "unlock">>,
     delete |-> <<"lock", "present", "remove", "unlock">>,
     stat |-> <<"lock", "present", "unlock">>]

\* A mutant of LocalWrite: the file is tested before the lock is taken.
LocalWriteTestsFirst ==
    [write |-> <<"lock", "temp", "fill", "replace", "sidecar", "unlock">>,
     create |-> <<"vacant", "lock", "temp", "fill", "replace", "sidecar", "unlock">>]

LocalWrite ==
    [write |-> <<"lock", "temp", "fill", "replace", "sidecar", "unlock">>,
     create |-> <<"lock", "vacant", "temp", "fill", "replace", "sidecar", "unlock">>]

\* Lines 291-323: the stream is awaited with the lock held.
LocalStream ==
    [stream |-> <<"lock", "temp", "chunk", "replace", "sidecar", "unlock">>,
     createStream |-> <<"lock", "vacant", "temp", "chunk", "replace", "sidecar", "unlock">>]

LocalRead == [read |-> <<"lock", "get", "unlock">>]
LocalDelete == [delete |-> <<"lock", "present", "remove", "unside", "unlock">>]
LocalStat == [stat |-> <<"lock", "present", "unlock">>]
LocalReadStream == [readStream |-> <<"lock", "present", "unlock", "open", "next">>]

LocalPlans ==
    [write |-> LocalWrite.write, create |-> LocalWrite.create,
     stream |-> LocalStream.stream, createStream |-> LocalStream.createStream,
     read |-> LocalRead.read, readStream |-> LocalReadStream.readStream,
     delete |-> LocalDelete.delete, stat |-> LocalStat.stat]

\* A write ends with get_metadata(); the test before a write or a removal is a
\* request of its own.
S3Write == [write |-> <<"put", "present">>, create |-> <<"vacant", "put", "present">>]
S3Read == [read |-> <<"get">>, readStream |-> <<"get">>]
S3Delete == [delete |-> <<"present", "remove">>]
S3Stat == [stat |-> <<"present">>]
S3Stream ==
    [stream |-> <<"chunk", "put", "present">>,
     createStream |-> <<"vacant", "chunk", "vacant", "put", "present">>]
S3Plans ==
    [write |-> S3Write.write, create |-> S3Write.create,
     stream |-> S3Stream.stream, createStream |-> S3Stream.createStream,
     read |-> S3Read.read, readStream |-> S3Read.readStream,
     delete |-> S3Delete.delete, stat |-> S3Stat.stat]

\* The same steps; read() looks before it downloads, and finds the same.
GcsWrite == S3Write
GcsRead == S3Read
GcsDelete == S3Delete
GcsStat == S3Stat
GcsStream == S3Stream
GcsPlans ==
    [write |-> GcsWrite.write, create |-> GcsWrite.create,
     stream |-> GcsStream.stream, createStream |-> GcsStream.createStream,
     read |-> GcsRead.read, readStream |-> GcsRead.readStream,
     delete |-> GcsDelete.delete, stat |-> GcsStat.stat]

Plans ==
    [memory |-> MemoryPlans, local |-> LocalPlans, s3 |-> S3Plans, gcs |-> GcsPlans]

\* FileStoreFactory.create() and get_default_file_store(): one store for all.
StoreInit ==
    /\ backend \in Backends
    /\ op \in {f \in [Call -> UNION {OpsOf[c] : c \in Call}] : \A c \in Call : f[c] \in OpsOf[c]}
    /\ pc = [c \in Call |-> "idle"] /\ at = [c \in Call |-> 1]
    /\ busy = [l \in {LoopOf[c] : c \in Call} |-> None]
    /\ holder = None
    /\ file = Absent /\ side = Absent
    /\ temp = [c \in Call |-> Absent] /\ opened = [c \in Call |-> Absent]
    /\ tries = [c \in Call |-> 0]
    /\ answer = [c \in Call |-> None] /\ got = [c \in Call |-> Absent]
    /\ removed = 0 /\ unsided = FALSE /\ deaths = 0

Remote == backend \in {"s3", "gcs"}
Plan(c) == Plans[backend][op[c]]
Step(c) == Plan(c)[at[c]]
Whole(c) == [by |-> c, whole |-> TRUE]
Part(c) == [by |-> c, whole |-> FALSE]

\* The loop of c runs c until its next await: a chunk of the stream or of the
\* reader, a request, or the end.
Awaits(step) == Remote \/ step \in {"chunk", "next"}
MyTurn(c) == busy[LoopOf[c]] \in {None, c}
Occupy(c, step) ==
    busy' = [busy EXCEPT ![LoopOf[c]] = IF Awaits(step) THEN None ELSE c]

\* A thread of the pool whose coroutine is gone does what it was asked and no
\* more; gcs.py asks it to look and remove in one.
LastStep(c) ==
    \/ at[c] = Len(Plan(c))
    \/ answer[c] = "cancelled" /\ ~(backend = "gcs" /\ op[c] = "delete")

Goes(c) ==
    /\ at' = [at EXCEPT ![c] = @ + 1]
    /\ IF LastStep(c)
         THEN /\ pc' = [pc EXCEPT ![c] = "done"]
              /\ answer' = [answer EXCEPT ![c] = IF @ = None THEN "ok" ELSE @]
              /\ busy' = [busy EXCEPT ![LoopOf[c]] = None]
         ELSE /\ Occupy(c, Plan(c)[at[c] + 1])
              /\ UNCHANGED <<pc, answer>>

\* The call leaves with an answer, through the end of its with statement.
Leaves(c, value) ==
    /\ pc' = [pc EXCEPT ![c] = "done"]
    /\ answer' = [answer EXCEPT ![c] = IF @ = None THEN value ELSE @]
    /\ holder' = IF holder = c THEN None ELSE holder
    /\ busy' = [busy EXCEPT ![LoopOf[c]] = IF @ = c THEN None ELSE @]
    /\ UNCHANGED at

-----------------------------------------------------------------------------
Begin(c) ==
    /\ pc[c] = "idle"
    /\ busy[LoopOf[c]] = None
    /\ pc' = [pc EXCEPT ![c] = "in"]
    /\ Occupy(c, Plan(c)[1])
    /\ UNCHANGED <<backend, op, at, holder, file, side, temp, opened, tries, answer, got,
                   removed, unsided, deaths>>

Ready(c, step) == pc[c] = "in" /\ Step(c) = step /\ MyTurn(c)

\* threading.Lock: the whole thread waits, and with it its loop.
Lock(c) ==
    /\ Ready(c, "lock")
    /\ holder = None
    /\ holder' = c
    /\ Goes(c)
    /\ UNCHANGED <<backend, op, file, side, temp, opened, tries, got, removed, unsided,
                   deaths>>

Unlock(c) ==
    /\ Ready(c, "unlock")
    /\ holder' = None
    /\ Goes(c)
    /\ UNCHANGED <<backend, op, file, side, temp, opened, tries, got, removed, unsided,
                   deaths>>

\* Tests of the file.
Test(c) ==
    /\ \/ Ready(c, "vacant") /\ IF file = Absent THEN Goes(c) /\ UNCHANGED holder
                                                 ELSE Leaves(c, "exists")
       \/ Ready(c, "present") /\ IF file # Absent THEN Goes(c) /\ UNCHANGED holder
                                                  ELSE Leaves(c, "absent")
    /\ UNCHANGED <<backend, op, file, side, temp, opened, tries, got, removed, unsided,
                   deaths>>

\* What the local store asks of the disk may fail; the other stores' failures
\* are those of the requests below.
DiskFails(c) == backend = "local" /\ Leaves(c, "error")

Get(c) ==
    /\ Ready(c, "get")
    /\ \/ /\ got' = [got EXCEPT ![c] = file]
          /\ IF file # Absent THEN Goes(c) /\ UNCHANGED holder ELSE Leaves(c, "absent")
       \/ DiskFails(c) /\ UNCHANGED got
    /\ UNCHANGED <<backend, op, file, side, temp, opened, tries, removed, unsided, deaths>>

Put(c) ==
    /\ Ready(c, "put")
    /\ file' = Whole(c)
    /\ Goes(c)
    /\ UNCHANGED <<backend, op, holder, side, temp, opened, tries, got, removed, unsided,
                   deaths>>

Take(c) ==
    /\ Ready(c, "remove")
    /\ \/ /\ file # Absent \/ backend # "gcs"
          /\ file' = Absent
          /\ removed' = removed + 1
          /\ Goes(c) /\ UNCHANGED holder
       \/ /\ file = Absent /\ backend = "gcs" /\ Leaves(c, "error")
          /\ UNCHANGED <<file, removed>>
       \/ DiskFails(c) /\ UNCHANGED <<file, removed>>
    /\ UNCHANGED <<backend, op, side, temp, opened, tries, got, unsided, deaths>>

\* mkstemp(), the data, os.replace(): local.py, lines 156-164 and 298-306.
Temp(c) ==
    /\ Ready(c, "temp")
    /\ \/ temp' = [temp EXCEPT ![c] = Part(c)] /\ Goes(c) /\ UNCHANGED holder
       \/ DiskFails(c) /\ UNCHANGED temp
    /\ UNCHANGED <<backend, op, file, side, opened, tries, got, removed, unsided,
                   deaths>>

Fill(c) ==
    /\ Ready(c, "fill")
    /\ \/ temp' = [temp EXCEPT ![c] = Whole(c)] /\ Goes(c) /\ UNCHANGED holder
       \/ temp' = [temp EXCEPT ![c] = Absent] /\ Leaves(c, "error")     \* lines 165-168
    /\ UNCHANGED <<backend, op, file, side, opened, tries, got, removed, unsided, deaths>>

Replace(c) ==
    /\ Ready(c, "replace")
    /\ temp' = [temp EXCEPT ![c] = Absent]
    /\ \/ file' = temp[c] /\ Goes(c) /\ UNCHANGED holder
       \/ DiskFails(c) /\ UNCHANGED file
    /\ UNCHANGED <<backend, op, side, opened, tries, got, removed, unsided, deaths>>

\* _write_sidecar(): its OSError is swallowed.
Sidecar(c) ==
    /\ Ready(c, "sidecar")
    /\ \/ side' = c /\ unsided' = FALSE
       \/ unsided' = TRUE /\ UNCHANGED side
    /\ Goes(c)
    /\ UNCHANGED <<backend, op, holder, file, temp, opened, tries, got, removed, deaths>>

\* The file is gone when the removal of its sidecar fails: delete() raises.
Unside(c) ==
    /\ Ready(c, "unside")
    /\ \/ side' = Absent /\ Goes(c) /\ UNCHANGED <<holder, unsided>>
       \/ side # Absent /\ DiskFails(c) /\ unsided' = TRUE /\ UNCHANGED side
    /\ UNCHANGED <<backend, op, file, temp, opened, tries, got, removed, deaths>>

\* The stream has been read to its end, or raises: then the temporary file, if
\* there is one, is removed.
Chunk(c) ==
    /\ Ready(c, "chunk")
    /\ \/ temp' = [temp EXCEPT ![c] = IF @ = Absent THEN @ ELSE Whole(c)]
          /\ Goes(c) /\ UNCHANGED holder
       \/ temp' = [temp EXCEPT ![c] = Absent] /\ Leaves(c, "error")
    /\ UNCHANGED <<backend, op, file, side, opened, tries, got, removed, unsided, deaths>>

\* A reader by chunks keeps the file it has opened; it may be gone by then.
OpenFile(c) ==
    /\ Ready(c, "open")
    /\ opened' = [opened EXCEPT ![c] = file]
    /\ IF file # Absent THEN Goes(c) /\ UNCHANGED holder ELSE Leaves(c, "error")
    /\ UNCHANGED <<backend, op, file, side, temp, tries, got, removed, unsided, deaths>>

ReadChunks(c) ==
    /\ Ready(c, "next")
    /\ \/ got' = [got EXCEPT ![c] = opened[c]] /\ Goes(c) /\ UNCHANGED holder
       \/ DiskFails(c) /\ UNCHANGED got
    /\ UNCHANGED <<backend, op, file, side, temp, opened, tries, removed, unsided,
                   deaths>>

-----------------------------------------------------------------------------
(* The requests to a bucket.                                               *)

\* _retry_with_backoff() goes round the transfers.  Of the exceptions whose name
\* says connection or timeout both stores try again, of a throttling or a 503
\* only the second: the first's is a ClientError like any other.
Repeated(c) == Step(c) \in {"put", "get", "remove"}
Transient(error) == error = "connection" \/ (error = "busy" /\ backend = "gcs")

\* gcs.py: a removal tried again looks again.
From(c) == IF backend = "gcs" /\ Step(c) = "remove" THEN at[c] - 1 ELSE at[c]

\* The request fails; it may have been carried out and its answer lost.
RequestFails(c, error) ==
    /\ pc[c] = "in" /\ Remote /\ Step(c) # "chunk"
    /\ \/ UNCHANGED <<file, removed>>
       \/ error = "connection" /\ Step(c) = "put"
          /\ file' = Whole(c) /\ UNCHANGED removed
       \/ error = "connection" /\ Step(c) = "remove" /\ file # Absent
          /\ file' = Absent /\ removed' = removed + 1
    /\ IF Repeated(c) /\ Transient(error) /\ tries[c] < MaxTries
         THEN /\ tries' = [tries EXCEPT ![c] = @ + 1]
              /\ at' = [at EXCEPT ![c] = From(c)]
              /\ UNCHANGED <<pc, answer, holder, busy>>
         ELSE Leaves(c, "error") /\ UNCHANGED tries
    /\ UNCHANGED <<backend, op, side, temp, opened, got, unsided, deaths>>

\* The coroutine is cancelled where it awaits.  A stream into a local file leaves
\* its temporary file behind, since CancelledError is no Exception (line 307).
CancelCall(c) ==
    /\ pc[c] = "in" /\ answer[c] = None
    /\ Awaits(Step(c)) /\ busy[LoopOf[c]] = None
    /\ IF Remote /\ Step(c) # "chunk"
         THEN /\ answer' = [answer EXCEPT ![c] = "cancelled"]
              /\ UNCHANGED <<pc, at, holder, busy>>
         ELSE Leaves(c, "cancelled")
    /\ UNCHANGED <<backend, op, file, side, temp, opened, tries, got, removed, unsided,
                   deaths>>

\* The process dies and another is started; a store in memory has nothing to
\* come back to.
Die ==
    /\ deaths < MaxDeaths
    /\ backend # "memory"
    /\ deaths' = deaths + 1
    /\ pc' = [c \in Call |-> IF pc[c] = "in" THEN "done" ELSE pc[c]]
    /\ answer' = [c \in Call |-> IF pc[c] = "in" THEN "died" ELSE answer[c]]
    /\ busy' = [l \in DOMAIN busy |-> None]
    /\ holder' = None
    /\ unsided' = (unsided \/ \E c \in Call : pc[c] = "in" /\ Step(c) \in {"sidecar", "unside"})
    /\ UNCHANGED <<backend, op, at, file, side, temp, opened, tries, got, removed>>

Steps(c) ==
    \/ Lock(c) \/ Unlock(c) \/ Test(c) \/ Get(c) \/ Put(c) \/ Take(c) \/ Temp(c) \/ Fill(c)
    \/ Replace(c) \/ Sidecar(c) \/ Unside(c) \/ Chunk(c) \/ OpenFile(c) \/ ReadChunks(c)

StoreNext ==
    \/ \E c \in Call : \/ Begin(c) \/ Steps(c) \/ CancelCall(c)
                       \/ \E error \in {"connection", "busy", "other"} : RequestFails(c, error)
    \/ Die

-----------------------------------------------------------------------------
StoreTypeOK ==
    /\ op \in [Call -> UNION {OpsOf[c] : c \in Call}]
    /\ pc \in [Call -> {"idle", "in", "done"}]
    /\ holder \in Call \cup {None}
    /\ file = Absent \/ file.by \in Call
    /\ tries \in [Call -> 0..MaxTries]
    /\ removed \in Nat /\ deaths \in 0..MaxDeaths

\* What a read returns was written whole, whenever a writer failed, was cancelled
\* or died (local.py, line 10: "Atomic writes (temp file + rename)").
ReadsWhole == \A c \in Call : got[c] # Absent => got[c].whole

\* Where the test and the write are under the lock, of the calls that ask not to
\* overwrite one at most succeeds for each time the file has been removed.
CreatedOnce ==
    ~Remote => Cardinality({c \in Call : op[c] \in Creating /\ answer[c] = "ok"}) <= 1 + removed

\* At rest the sidecar is that of the file, and there is none without a file, unless
\* the last call that should have written or removed it failed to or died before: a
\* sidecar that was left behind is replaced with the next file.
SidecarAgrees ==
    backend = "local" /\ holder = None /\ ~unsided =>
        side = IF file = Absent THEN Absent ELSE file.by

\* Calls for one path do not disturb each other: reads are whole, one creator wins,
\* and the sidecar belongs to the file.
FilesKept == ReadsWhole /\ CreatedOnce /\ SidecarAgrees

\* Every call on a store returns (base.py: "All methods are asynchronous"): again and
\* again none is under way.
StoreAnswers == []<>(\A c \in Call : pc[c] \in {"idle", "done"})
=================================================================================
