--------------------------------- MODULE MCLLM ---------------------------------
(***************************************************************************)
(* The parts around the language model that share no state, one of them    *)
(* in each behaviour: KeyedCalls, ModelFallback, ResponseStream or, for    *)
(* what the model is shown, ContextView.                                   *)
(***************************************************************************)
EXTENDS KeyedCalls

CONSTANTS Call, Threaded, Chain, Clients, Errors, MaxResets,
          BufferSize, HighWatermark, LowWatermark, MaxChunks, MaxDeltas,
          KeepFirst, LoopLength, NoCall, Window, Tools, MaxAdded, MaxApplied

\* The chain is a list of the names of models.
ASSUME ChainAssumption == Chain \in Seq(STRING)

VARIABLES scenario,
          client, fpc, at, retries, last, state, gen, fcooled, outcome, asked, fresting, fholders,
          fexcused,
          dropOldest, sync, producer, chunks, todo, cancelled, buffer, applied, dropped,
          consumer, received,
          view, pending, next, plan, applications

fallbackVars == <<client, fpc, at, retries, last, state, gen, fcooled, outcome, asked, fresting,
                  fholders, fexcused>>
streamVars == <<dropOldest, sync, producer, chunks, todo, cancelled, buffer, applied, dropped,
                consumer, received>>
viewVars == <<view, pending, next, plan, applications>>
partVars == <<fallbackVars, streamVars, viewVars>>

F == INSTANCE ModelFallback WITH
       pc <- fpc, cooled <- fcooled, resting <- fresting, holders <- fholders,
       excused <- fexcused, MaxRetries <- 1
S == INSTANCE ResponseStream

TwoStages ==
  {<<[rolling |-> TRUE, max |-> 3], [rolling |-> FALSE, max |-> 2]>>,
   <<[rolling |-> FALSE, max |-> 3], [rolling |-> TRUE, max |-> 1]>>,
   <<[rolling |-> FALSE, max |-> 2], [rolling |-> FALSE, max |-> 2]>>}

V == INSTANCE ContextView WITH applied <- applications, Stages <- TwoStages

TwoKeys == <<"k1", "k2">>
TwoModels == <<"m1", "m2">>

MCInit ==
    /\ Init /\ F!Init /\ S!Init /\ V!Init
    /\ scenario \in {"keys", "fallback", "stream", "view"}
    /\ scenario # "keys" => backend = "openai"
    /\ scenario # "fallback" => client = "litellm"
    /\ scenario # "stream" => dropOldest /\ ~sync

MCNext ==
    /\ \/ scenario = "keys" /\ Next /\ UNCHANGED partVars
       \/ scenario = "fallback" /\ F!Next /\ UNCHANGED <<vars, streamVars, viewVars>>
       \/ scenario = "stream" /\ S!Next /\ UNCHANGED <<vars, fallbackVars, viewVars>>
       \/ scenario = "view" /\ V!Next /\ UNCHANGED <<vars, fallbackVars, streamVars>>
    /\ UNCHANGED scenario

MCSpec ==
    /\ MCInit /\ [][MCNext]_<<vars, partVars, scenario>>
    /\ Fairness /\ F!Fairness /\ S!Fairness

\* No key and no model is used in its cooldown without a named excuse.
CooldownsObserved == CooldownObserved /\ F!CooldownObserved

ChainTried == F!ChainTried

DoneIsFinal == S!DoneIsFinal

\* What a condenser makes of a view, and the pipeline of what its stages make.
CondensedWell == V!CondensedWell /\ []V!PipelineAgrees

\* Calls with keys and calls along the chain return, and streams end.
EverythingEnds == EveryCallReturns /\ F!EveryCallReturns /\ S!EveryStreamEnds
================================================================================
