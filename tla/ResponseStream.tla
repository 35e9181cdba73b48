----------------------------- MODULE ResponseStream -----------------------------
(***************************************************************************)
(* app/llm/streaming.py: AsyncStreamProcessor and stream_sse().  A producer*)
(* task reads the model's stream and puts its deltas in a bounded queue;   *)
(* the consumer's generator takes them out.  In its finally clause the     *)
(* producer puts DONE and then None, which ends the generator; a generator *)
(* that is closed earlier cancels the producer and waits for it.           *)
(*                                                                         *)
(* A delta is "delta" whatever it carries; a tool call's fragments without *)
(* an id count in total_deltas only, like the others here.                 *)
(*                                                                         *)
(* SyncStreamProcessor has no queue: its generator itself reads the stream,*)
(* and "producer" is where the generator is.                               *)
(***************************************************************************)
EXTENDS Naturals, Sequences

CONSTANTS BufferSize,              \* buffer_size
          HighWatermark, LowWatermark,
          MaxChunks, MaxDeltas     \* bounds: chunks of the stream, deltas of a chunk

VARIABLES dropOldest,  \* drop_oldest_on_overflow: it stays what it is
          sync,        \* whether it is a SyncStreamProcessor
          producer,    \* where _process_stream() is
          chunks,      \* chunks read so far
          todo,        \* deltas of the chunk still to be put
          cancelled,   \* task.cancel() was called
          buffer,      \* _buffer
          applied,     \* _result.total_deltas
          dropped,     \* deltas thrown away by the backpressure
          consumer,    \* where __aiter__() is
          received     \* the events the consumer was given, counted by kind

kindVars == <<dropOldest, sync>>
vars == <<kindVars, producer, chunks, todo, cancelled, buffer, applied, dropped, consumer,
          received>>

Event == {"start", "delta", "error", "done"}

Init ==
    /\ dropOldest \in BOOLEAN /\ sync \in BOOLEAN
    /\ producer = "none"
    /\ chunks = 0 /\ todo = 0
    /\ cancelled = FALSE
    /\ buffer = <<>>
    /\ applied = 0 /\ dropped = 0
    /\ consumer = "new"
    /\ received = [e \in Event |-> 0]

Full == Len(buffer) >= BufferSize

-----------------------------------------------------------------------------
(* The producer.                                                           *)

\* START is put into the empty queue.
Start ==
    /\ producer = "started"
    /\ buffer' = Append(buffer, "start")
    /\ producer' = "reading"
    /\ UNCHANGED <<chunks, todo, cancelled, applied, dropped, consumer, received>>

\* The stream gives a chunk, ends, or the client is found to be gone.
Chunk ==
    /\ producer = "reading"
    /\ \/ /\ chunks < MaxChunks
          /\ chunks' = chunks + 1
          /\ todo' \in 0..MaxDeltas
          /\ producer' = "sending"
       \/ producer' = "done" /\ UNCHANGED <<chunks, todo>>
    /\ UNCHANGED <<cancelled, buffer, applied, dropped, consumer, received>>

\* The stream fails: ERROR will be put before DONE.
StreamFails ==
    /\ producer = "reading"
    /\ producer' = "error"
    /\ UNCHANGED <<chunks, todo, cancelled, buffer, applied, dropped, consumer, received>>

\* A chunk is done.
NextChunk ==
    /\ producer = "sending" /\ todo = 0
    /\ producer' = "reading"
    /\ UNCHANGED <<chunks, todo, cancelled, buffer, applied, dropped, consumer, received>>

\* The watermark: the oldest event is dropped, or the producer sleeps until the
\* queue has drained.
Backpressure ==
    /\ producer = "sending" /\ todo > 0
    /\ IF Len(buffer) < HighWatermark
       THEN producer' = "putting" /\ UNCHANGED <<buffer, dropped>>
       ELSE IF dropOldest
       THEN /\ producer' = "putting"
            /\ IF buffer = <<>>
               THEN UNCHANGED <<buffer, dropped>>
               ELSE /\ buffer' = Tail(buffer)
                    /\ dropped' = dropped + (IF Head(buffer) = "delta" THEN 1 ELSE 0)
       ELSE producer' = "draining" /\ UNCHANGED <<buffer, dropped>>
    /\ UNCHANGED <<chunks, todo, cancelled, applied, consumer, received>>

Drained ==
    /\ producer = "draining"
    /\ Len(buffer) <= LowWatermark
    /\ producer' = "putting"
    /\ UNCHANGED <<chunks, todo, cancelled, buffer, applied, dropped, consumer, received>>

\* The delta is put, when there is room, and applied to the result.
Put ==
    /\ producer = "putting" /\ ~Full
    /\ buffer' = Append(buffer, "delta")
    /\ applied' = applied + 1
    /\ todo' = todo - 1
    /\ producer' = "sending"
    /\ UNCHANGED <<chunks, cancelled, dropped, consumer, received>>

\* A mutant of PutError: the handler puts a DONE of its own.
PutErrorAndDone ==
    /\ producer = "error" /\ ~Full
    /\ buffer' = buffer \o <<"error", "done">>
    /\ producer' = "done"
    /\ UNCHANGED <<chunks, todo, cancelled, applied, dropped, consumer, received>>

PutError ==
    /\ producer = "error" /\ ~Full
    /\ buffer' = Append(buffer, "error")
    /\ producer' = "done"
    /\ UNCHANGED <<chunks, todo, cancelled, applied, dropped, consumer, received>>

\* The finally clause.
PutDone ==
    /\ producer = "done" /\ ~Full
    /\ buffer' = Append(buffer, "done")
    /\ producer' = "last"
    /\ UNCHANGED <<chunks, todo, cancelled, applied, dropped, consumer, received>>

PutNone ==
    /\ producer = "last" /\ ~Full
    /\ buffer' = Append(buffer, "None")
    /\ producer' = "ended"
    /\ UNCHANGED <<chunks, todo, cancelled, applied, dropped, consumer, received>>

\* CancelledError reaches the producer: in the body it leads to the finally
\* clause, before its first step and in the finally clause it ends the task.
Unwind ==
    /\ cancelled
    /\ producer' = IF producer \in {"started", "done", "last"} THEN "ended" ELSE "done"
    /\ cancelled' = FALSE
    /\ UNCHANGED <<chunks, todo, buffer, applied, dropped, consumer, received>>

-----------------------------------------------------------------------------
(* The consumer.                                                           *)

Iterate ==
    /\ consumer = "new" /\ ~sync
    /\ producer' = "started"
    /\ consumer' = "getting"
    /\ UNCHANGED <<chunks, todo, cancelled, buffer, applied, dropped, received>>

\* An event is yielded, or None ends the loop.
Receive ==
    /\ consumer = "getting" /\ buffer # <<>>
    /\ buffer' = Tail(buffer)
    /\ IF Head(buffer) = "None"
       THEN consumer' = "closed" /\ UNCHANGED received
       ELSE /\ consumer' = "holding"
            /\ received' = [received EXCEPT ![Head(buffer)] = @ + 1]
    /\ UNCHANGED <<producer, chunks, todo, cancelled, applied, dropped>>

Continue ==
    /\ consumer = "holding" /\ ~sync
    /\ consumer' = "getting"
    /\ UNCHANGED <<producer, chunks, todo, cancelled, buffer, applied, dropped, received>>

\* A mutant of Close: the producer is awaited without being cancelled.
CloseOnly ==
    /\ consumer \in {"getting", "holding"} /\ ~sync
    /\ consumer' = IF producer = "ended" THEN "closed" ELSE "closing"
    /\ UNCHANGED <<producer, chunks, todo, cancelled, buffer, applied, dropped, received>>

\* The consumer is closed where it has yielded, or cancelled where it waits: the
\* task is cancelled and awaited.
Close ==
    /\ consumer \in {"getting", "holding"} /\ ~sync
    /\ consumer' = IF producer = "ended" THEN "closed" ELSE "closing"
    /\ cancelled' = (producer # "ended")
    /\ UNCHANGED <<producer, chunks, todo, buffer, applied, dropped, received>>

Closed ==
    /\ consumer = "closing" /\ producer = "ended"
    /\ consumer' = "closed"
    /\ UNCHANGED <<producer, chunks, todo, cancelled, buffer, applied, dropped, received>>

-----------------------------------------------------------------------------
(* SyncStreamProcessor.__iter__(): next() runs its generator to a yield.    *)

Holding == sync /\ consumer = "holding"
Yield(event) ==
    /\ consumer' = "holding"
    /\ received' = [received EXCEPT ![event] = @ + 1]
    /\ UNCHANGED <<cancelled, buffer, dropped>>

\* Lines 734-741: START is yielded.
SyncStart ==
    /\ sync /\ consumer = "new"
    /\ producer' = "reading"
    /\ Yield("start")
    /\ UNCHANGED <<chunks, todo, applied>>

\* Lines 743-745 and 785-815: next() reads a chunk, which may give no delta.
SyncChunk ==
    /\ Holding /\ producer = "reading" /\ todo = 0
    /\ chunks < MaxChunks
    /\ chunks' = chunks + 1
    /\ todo' \in 0..MaxDeltas
    /\ UNCHANGED <<producer, cancelled, buffer, applied, dropped, consumer, received>>

\* Lines 746-760: a delta is applied to the result and yielded.
SyncDelta ==
    /\ Holding /\ producer = "reading" /\ todo > 0
    /\ todo' = todo - 1
    /\ applied' = applied + 1
    /\ Yield("delta")
    /\ UNCHANGED <<producer, chunks>>

\* Lines 762-767: the stream fails.
SyncFails ==
    /\ Holding /\ producer = "reading" /\ todo = 0
    /\ producer' = "error"
    /\ Yield("error")
    /\ UNCHANGED <<chunks, todo, applied>>

\* Lines 774-775: the stream has ended, or the error has been taken.
SyncDone ==
    /\ Holding /\ todo = 0 /\ producer \in {"reading", "error"}
    /\ producer' = "done"
    /\ Yield("done")
    /\ UNCHANGED <<chunks, todo, applied>>

\* Lines 776-783: the generator returns.
SyncEnds ==
    /\ Holding /\ producer = "done"
    /\ producer' = "ended" /\ consumer' = "closed"
    /\ UNCHANGED <<chunks, todo, cancelled, buffer, applied, dropped, received>>

\* The reader breaks off: GeneratorExit is raised at the yield.  The finally clause
\* yields once more, which Python answers with a RuntimeError, unless DONE was out
\* already; neither way on_done is called.
SyncClose ==
    /\ Holding
    /\ consumer' = IF producer = "done" THEN "closed" ELSE "raised"
    /\ producer' = "ended"
    /\ UNCHANGED <<chunks, todo, cancelled, buffer, applied, dropped, received>>

SyncReads == SyncChunk \/ SyncDelta \/ SyncFails \/ SyncDone \/ SyncEnds

-----------------------------------------------------------------------------
Producing ==
    ~cancelled /\ ~sync /\ (Start \/ Chunk \/ StreamFails \/ NextChunk \/ Backpressure \/ Drained
                   \/ Put \/ PutError \/ PutDone \/ PutNone)

Next ==
    /\ \/ Producing \/ Unwind \/ Iterate \/ Receive \/ Continue \/ Close \/ Closed
       \/ SyncStart \/ SyncReads \/ SyncClose
    /\ UNCHANGED kindVars

\* The tasks are scheduled, the stream gives its chunks or times out, and the
\* reader of the events goes on.
Fairness ==
    /\ WF_vars((Producing \/ Unwind) /\ UNCHANGED kindVars)
    /\ WF_vars((Receive \/ Continue \/ Closed \/ SyncReads) /\ UNCHANGED kindVars)

Spec == Init /\ [][Next]_vars

-----------------------------------------------------------------------------
\* DONE comes once and last, after the ERROR if there was one, and when the consumer
\* has it the result stream_sse() sends along is complete: it holds the deltas that
\* were received and those that were dropped, however far apart producer and
\* consumer run.
DoneIsFinal ==
    received["done"] > 0 =>
        /\ received["done"] = 1
        /\ \A i \in DOMAIN buffer : buffer[i] = "None"
        /\ applied = received["delta"] + dropped

\* A producer that was cancelled has to put DONE and None into a queue from which
\* nobody takes.
Stuck == consumer = "closing" /\ producer \in {"done", "last"} /\ Full

\* A consumer that goes on reading gets to the end; one that closes comes back,
\* unless the queue had no room for the last two events, or the generator is not
\* asynchronous and raises.
EveryStreamEnds ==
    consumer # "new" ~> (consumer \in {"closed", "raised"} \/ Stuck)
================================================================================
