------------------------------- MODULE AgentCache -------------------------------
(***************************************************************************)
(* The agents of the messaging gateway.  app/messaging/gateway.py answers  *)
(* a message with the agent of its session, which it takes from the        *)
(* registry of app/agent/router.py or, without a router, from a cache of   *)
(* its own; both drop idle agents and make room when they are full, and    *)
(* start cleanup() of what they drop.  BaseAgent.run() of app/agent/base.py *)
(* is what a message does with its agent.                                  *)
(*                                                                         *)
(* A session stands for the key that the route rules give to a message.    *)
(* Code between two awaits is one action; time is counted in ticks.        *)
(***************************************************************************)
EXTENDS Naturals, Sequences, FiniteSets

CONSTANTS Message, SessionOf,   \* the messages, and the session of each
          NoAgent,
          CacheSize, IdleTTL

VARIABLES routed,      \* whether the gateway has a router
          cache,       \* the order of the keys of _cache or _agent_cache, an
                       \* OrderedDict: <<s, t>> if s is before t or s = t
          cached,      \* the agent of each key
          idle,        \* ticks since _last_active, NoAgent for a key without it
          state,       \* the AgentState of each agent made
          cleaned,     \* the agents whose cleanup() was started by the cache
          stopping,    \* how far stop_all() is: the agents it has still to clean
          pc, serving, \* where a message is, and the agent that serves it
          reply        \* what its sender is told

cacheVars == <<routed, cache, cached, idle, state, cleaned, stopping, pc, serving, reply>>

Session == {SessionOf[m] : m \in Message}

Init ==
  /\ routed \in BOOLEAN
  /\ cache = {}
  /\ cached = [s \in Session |-> NoAgent] /\ idle = [s \in Session |-> NoAgent]
  /\ state = <<>> /\ cleaned = {} /\ stopping = "no"
  /\ pc = [m \in Message |-> "sent"]
  /\ serving = [m \in Message |-> NoAgent] /\ reply = [m \in Message |-> "none"]

Tick ==
  /\ idle' = [s \in Session |-> IF idle[s] \in 0..IdleTTL THEN idle[s] + 1 ELSE idle[s]]
  /\ UNCHANGED <<routed, cache, cached, state, cleaned, stopping, pc, serving, reply>>

-------------------------------------------------------------------------------
Keys(order) == {s \in Session : <<s, s>> \in order}

\* The order without some keys, and with one put at its end.
Without(order, keys) == {p \in order : p[1] \notin keys /\ p[2] \notin keys}
AtEnd(order, s) == LET rest == Without(order, {s}) IN rest \union ((Keys(rest) \union {s}) \X {s})

\* A cache as one value, so that the steps of one lookup can follow each other.
Contents == [order |-> cache, agent |-> cached, idle |-> idle, gone |-> cleaned]

\* Keys are popped from both dictionaries and cleanup() of their agents started.
Evict(c, keys) ==
  [order |-> Without(c.order, keys),
   agent |-> [s \in Session |-> IF s \in keys THEN NoAgent ELSE c.agent[s]],
   idle  |-> [s \in Session |-> IF s \in keys THEN NoAgent ELSE c.idle[s]],
   gone  |-> c.gone \union {c.agent[s] : s \in keys}]

\* _evict_idle(): what was last asked for more than the TTL ago.
EvictIdle(c) == Evict(c, {s \in Session : c.idle[s] \in Nat /\ c.idle[s] > IdleTTL})

\* The front of the cache, if what is left is to be one key short of its size.
Front(c) ==
  {keys \in SUBSET Keys(c.order) :
     /\ Cardinality(Keys(c.order) \ keys) = CacheSize - 1
     /\ \A s \in keys, t \in Keys(c.order) \ keys : <<s, t>> \in c.order}

\* A mutant of EvictFull: the time of last use is forgotten to be dropped too.
EvictFullKeepsTime(c) ==
  IF Cardinality(Keys(c.order)) < CacheSize THEN {c}
  ELSE {[Evict(c, keys) EXCEPT !.idle = c.idle] : keys \in Front(c)}

\* _evict_lru(): from the front until there is room for one more, before the key
\* is looked up, so that a full cache loses an agent on every message.  There is
\* one such front.
EvictFull(c) ==
  IF Cardinality(Keys(c.order)) < CacheSize THEN {c}
  ELSE {Evict(c, keys) : keys \in Front(c)}

\* A new agent for s goes to the end of the cache.
Insert(c, s, a) ==
  [order |-> AtEnd(c.order, s), agent |-> [c.agent EXCEPT ![s] = a],
   idle |-> [c.idle EXCEPT ![s] = 0], gone |-> c.gone]

\* A cached agent is asked for again; only the registry moves it to the end.
Touch(c, s) ==
  [order |-> IF routed THEN AtEnd(c.order, s) ELSE c.order, agent |-> c.agent,
   idle |-> [c.idle EXCEPT ![s] = 0], gone |-> c.gone]

-------------------------------------------------------------------------------
\* _default_handler() up to its first await: the agent is looked up or made, in
\* the registry (get, then put, which makes room once more) or in the gateway,
\* and run() refuses unless the agent is IDLE.
LookedUp(s, new) ==
  UNION {IF found.agent[s] # NoAgent THEN {Touch(found, s)}
         ELSE {Insert(c, s, new) : c \in IF routed THEN EvictFull(EvictIdle(found)) ELSE {found}} :
         found \in EvictFull(EvictIdle(Contents))}

Handle(m) ==
  LET s == SessionOf[m]
      new == Len(state) + 1
  IN
  /\ pc[m] = "sent" /\ stopping # "stopped"
  /\ \E after \in LookedUp(s, new) :
       LET a == after.agent[s]
           known == IF a = new THEN Append(state, "IDLE") ELSE state
       IN
       /\ cache' = after.order /\ cached' = after.agent
       /\ idle' = after.idle /\ cleaned' = after.gone
       /\ serving' = [serving EXCEPT ![m] = a]
       /\ IF known[a] = "IDLE"
            THEN /\ state' = [known EXCEPT ![a] = "RUNNING"]
                 /\ pc' = [pc EXCEPT ![m] = "opening"]
                 /\ UNCHANGED reply
            ELSE /\ state' = known
                 /\ pc' = [pc EXCEPT ![m] = "replying"]
                 /\ reply' = [reply EXCEPT ![m] =
                                IF known[a] = "RUNNING" THEN "busy" ELSE "not idle"]
  /\ UNCHANGED <<routed, stopping>>

\* run() opens its session in the database, or raises with the state RUNNING.
Open(m) ==
  /\ pc[m] = "opening"
  /\ \/ pc' = [pc EXCEPT ![m] = "running"] /\ UNCHANGED reply
     \/ pc' = [pc EXCEPT ![m] = "replying"] /\ reply' = [reply EXCEPT ![m] = "error"]
  /\ UNCHANGED <<routed, cache, cached, idle, state, cleaned, stopping, serving>>

\* The loop of run() ends: terminated or out of steps or tokens, or by an
\* exception, which becomes text of the result.
RunEnds(m) ==
  /\ pc[m] = "running"
  /\ \E end \in {"FINISHED", "ERROR"} : state' = [state EXCEPT ![serving[m]] = end]
  /\ pc' = [pc EXCEPT ![m] = "closing"]
  /\ UNCHANGED <<routed, cache, cached, idle, cleaned, stopping, serving, reply>>

\* The finally clause of run() awaits close_session() and cleanup(); either may
\* raise, and then the result is lost.
Closed(m) ==
  /\ pc[m] = "closing"
  /\ \E r \in {"result", "error"} : reply' = [reply EXCEPT ![m] = r]
  /\ pc' = [pc EXCEPT ![m] = "replying"]
  /\ UNCHANGED <<routed, cache, cached, idle, state, cleaned, stopping, serving>>

\* send() to the adapter of the platform.
Reply(m) ==
  /\ pc[m] = "replying"
  /\ pc' = [pc EXCEPT ![m] = "answered"]
  /\ UNCHANGED <<routed, cache, cached, idle, state, cleaned, stopping, serving, reply>>

\* stop_all(): with a router, cleanup_all() awaits the cleanup of the agents that
\* are cached now, one after the other.
Stop ==
  /\ stopping = "no"
  /\ stopping' = IF routed THEN "cleaning" ELSE "stopped"
  /\ cleaned' = IF routed THEN cleaned \union ({cached[s] : s \in Session} \ {NoAgent})
                ELSE cleaned
  /\ UNCHANGED <<routed, cache, cached, idle, state, pc, serving, reply>>

\* Then the registry is emptied, of agents made in the meantime too.
Stopped ==
  /\ stopping = "cleaning"
  /\ stopping' = "stopped"
  /\ cache' = {}
  /\ cached' = [s \in Session |-> NoAgent] /\ idle' = [s \in Session |-> NoAgent]
  /\ UNCHANGED <<routed, state, cleaned, pc, serving, reply>>

Next ==
  \/ Tick \/ Stop \/ Stopped
  \/ \E m \in Message : Handle(m) \/ Open(m) \/ RunEnds(m) \/ Closed(m) \/ Reply(m)

Spec == Init /\ [][Next]_cacheVars
-------------------------------------------------------------------------------
\* Whatever is evicted while messages are being answered, the cache keeps within
\* its size and in step with its times of last use, every agent made is either
\* cached for one session or was sent to cleanup, and none serves two messages at
\* a time (router.py 134-220, gateway.py 115-151).
AgentsAccounted ==
  /\ Cardinality(Keys(cache)) <= CacheSize
  /\ Keys(cache) = {s \in Session : idle[s] # NoAgent}
  /\ stopping = "no" => \A a \in DOMAIN state :
       Cardinality({s \in Keys(cache) : cached[s] = a}) = IF a \in cleaned THEN 0 ELSE 1
  /\ \A m, n \in Message : {pc[m], pc[n]} \subseteq {"opening", "running", "closing"}
       => serving[m] # serving[n] \/ m = n

\* "Caches up to 128 active agent instances" (gateway.py:50): the agent of a
\* session serves its next message when it is done with the one before.
CachedAgentServes == \A m \in Message : reply[m] # "not idle"
================================================================================
