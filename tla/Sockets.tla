--------------------------------- MODULE Sockets ---------------------------------
(***************************************************************************)
(* The web sockets of app/server/main.py: plain ones, which the            *)
(* ConnectionManager keeps one a session, and those of the chat and the    *)
(* canvas, which share a table of bounded size, with the runs of agents    *)
(* that are started on them or in the background.                          *)
(*                                                                         *)
(* A send or a close may suspend; what lies between two of them is a step. *)
(***************************************************************************)
EXTENDS Naturals, Sequences, FiniteSets

CONSTANTS Kinds,             \* the kinds of the sockets that come, in their order: "plain", "chat", "canvas"
          MaxIds,            \* bound: session ids, numbered as they come
          MaxSessions,       \* _MAX_CANVAS_SESSIONS
          NoSocket,
          MaxPrompts         \* bound: prompts

VARIABLES ids,               \* session ids so far
          at,                \* each socket: "new", "evicting", "serving", "running", "over" or "refused"
          kind, session,     \* each socket: its kind and its session
          closed,            \* the sockets that fail from now on
          active,            \* ConnectionManager.active
          sending,           \* the runs that are inside a send, see Run, with the socket it goes to
          registry,          \* the keys of canvas_chat_manager: <<v, w>> if v is older than w or v = w
          conns,             \* its lists, in the order of their sockets' numbers
          evicted,           \* each socket: the sockets it still has to close
          background,        \* _background_tasks: the sessions of their runs
          prompts,           \* MaxPrompts spent
          deaf,              \* the open plain sockets that have missed a message of their own run
          overwritten        \* the sockets whose list another one has replaced

socketVars == <<ids, at, kind, session, closed, active, sending, registry, conns, evicted, background,
                prompts, deaf, overwritten>>

tableVars == <<registry, conns, evicted, overwritten>>

Session == 1..MaxIds
WebSocket == DOMAIN kind

\* A run is known by the socket that it was started on, or by its session in the background.
Run == [on : {"socket"}, of : WebSocket] \cup [on : {"background"}, of : Session]

SocketsInit ==
    /\ ids = 0 /\ kind \in Kinds
    /\ at = [s \in WebSocket |-> "new"]
    /\ session = [s \in WebSocket |-> 1]
    /\ closed = {} /\ active = [v \in Session |-> NoSocket] /\ sending = [r \in Run |-> NoSocket]
    /\ registry = {} /\ conns = [v \in Session |-> {}]
    /\ evicted = [s \in WebSocket |-> {}] /\ background = {}
    /\ prompts = 0 /\ deaf = {} /\ overwritten = {}

Arrives(s, kinds, v) ==
    /\ kind[s] \in kinds
    /\ at[s] = "new" /\ \A t \in WebSocket : t < s => at[t] # "new"
    /\ v <= ids + 1 /\ ids' = IF v <= ids THEN ids ELSE v
    /\ session' = [session EXCEPT ![s] = v]

\* _auth_ws() and lines 317-324.
Refuse(s) ==
    /\ at[s] = "new" /\ \A t \in WebSocket : t < s => at[t] # "new"
    /\ at' = [at EXCEPT ![s] = "refused"]
    /\ UNCHANGED <<ids, session, closed, active, sending, tableVars, background, prompts, deaf>>

\* ConnectionManager.connect(): a later socket of the session takes its place.
Connect(s, v) ==
    /\ Arrives(s, {"plain"}, v)
    /\ at' = [at EXCEPT ![s] = "serving"]
    /\ active' = [active EXCEPT ![v] = s]
    /\ UNCHANGED <<closed, sending, tableVars, background, prompts, deaf>>

\* The end of websocket_endpoint(): a disconnect empties the place of the session, whoever
\* holds it; a message that is no object raises past that.
Disconnect(s) ==
    /\ kind[s] = "plain" /\ at[s] = "serving"
    /\ at' = [at EXCEPT ![s] = "over"] /\ closed' = closed \cup {s}
    /\ active' \in {active, [active EXCEPT ![session[s]] = NoSocket]}
    /\ UNCHANGED <<ids, session, sending, tableVars, background, prompts, deaf>>

\* A client goes away, which its handler does not see before it receives or sends.
Vanish(s) ==
    /\ at[s] \in {"serving", "running"} /\ s \notin closed
    /\ closed' = closed \cup {s}
    /\ UNCHANGED <<ids, at, session, active, sending, tableVars, background, prompts, deaf>>

-----------------------------------------------------------------------------
OnSocket(s) == [on |-> "socket", of |-> s]
InBackground(v) == [on |-> "background", of |-> v]

\* ConnectionManager.send() up to its await, lines 125-129: whoever is in the place of the
\* session is sent to, if there is somebody.
Send(r, v) == sending[r] = NoSocket /\ sending' = [sending EXCEPT ![r] = active[v]]

\* The rest, lines 129-131: a send that fails empties the place, whoever has it by now.
SendEnds(r, v) ==
    /\ sending[r] # NoSocket /\ sending' = [sending EXCEPT ![r] = NoSocket]
    /\ \/ UNCHANGED active
       \/ sending[r] \in closed /\ active' = [active EXCEPT ![v] = NoSocket]

Hears(s) == active[session[s]] = s

\* A prompt on a plain socket or on one of the chat.
Prompt(s) ==
    /\ kind[s] \in {"plain", "chat"} /\ at[s] = "serving" /\ s \notin closed
    /\ prompts < MaxPrompts /\ prompts' = prompts + 1
    /\ at' = [at EXCEPT ![s] = "running"]
    /\ UNCHANGED <<ids, session, closed, active, sending, tableVars, background, deaf>>

\* StreamingManus.run(): a message before or after a step, lines 180-197, or the last one,
\* lines 203-216, goes to whoever is in the place of the session.
Step(s) ==
    /\ at[s] = "running"
    /\ Send(OnSocket(s), session[s])
    /\ deaf' = IF kind[s] = "plain" /\ s \notin closed /\ ~Hears(s) THEN deaf \cup {s} ELSE deaf
    /\ \/ UNCHANGED at
       \/ active[session[s]] = NoSocket /\ at' = [at EXCEPT ![s] = "serving"]
    /\ UNCHANGED <<ids, session, closed, active, tableVars, background, prompts>>

\* The run goes on after a message that was sent, or it was the last one.
StepEnds(s) ==
    /\ at[s] = "running"
    /\ SendEnds(OnSocket(s), session[s])
    /\ at' \in {at, [at EXCEPT ![s] = "serving"]}
    /\ UNCHANGED <<ids, session, closed, tableVars, background, prompts, deaf>>

\* run_agent(): a run in a session of its own, which a socket may join.
RunAgent(v) ==
    /\ v = ids + 1 /\ ids' = v
    /\ prompts < MaxPrompts /\ prompts' = prompts + 1
    /\ background' = background \cup {v}
    /\ UNCHANGED <<at, session, closed, active, sending, tableVars, deaf>>

BackgroundStep(v) ==
    /\ v \in background
    /\ Send(InBackground(v), v)
    /\ \/ UNCHANGED background
       \/ active[v] = NoSocket /\ background' = background \ {v}
    /\ UNCHANGED <<ids, at, session, closed, active, tableVars, prompts, deaf>>

BackgroundEnds(v) ==
    /\ v \in background
    /\ SendEnds(InBackground(v), v)
    /\ background' \in {background, background \ {v}}
    /\ UNCHANGED <<ids, at, session, closed, tableVars, prompts, deaf>>

\* _lifespan(): when the sockets are closed, the background runs are cancelled and awaited.
Shutdown ==
    /\ background # {} /\ background' = {}
    /\ \A s \in WebSocket : at[s] \in {"new", "over", "refused"}
    /\ at' = [s \in WebSocket |-> IF at[s] = "new" THEN "refused" ELSE at[s]]
    /\ sending' = [r \in Run |-> NoSocket]
    /\ UNCHANGED <<ids, session, closed, active, tableVars, prompts, deaf>>

-----------------------------------------------------------------------------
Sessions(order) == {v \in Session : <<v, v>> \in order}

\* The order of the keys with a new one at its end, and without one.
AtEnd(order, v) == order \cup ((Sessions(order) \cup {v}) \X {v})
Without(order, v) == {p \in order : p[1] # v /\ p[2] # v}

\* Lines 447-448, 532-533: the list of a session that has come in the meantime is replaced.
Insert(s, v) ==
    /\ at' = [at EXCEPT ![s] = "serving"] /\ evicted' = [evicted EXCEPT ![s] = {}]
    /\ registry' = IF v \in Sessions(registry) THEN registry ELSE AtEnd(registry, v)
    /\ conns' = [conns EXCEPT ![v] = {s}]
    /\ overwritten' = overwritten \cup conns[v]
    /\ UNCHANGED closed

\* Lines 440-446, 525-531: while the table is full, its oldest session goes and its sockets
\* are closed, one await after the other.
MakeRoom(s, v) ==
    IF Cardinality(Sessions(registry)) < MaxSessions THEN Insert(s, v)
    ELSE \E u \in Sessions(registry) : \E first \in conns[u] :
           /\ \A w \in Sessions(registry) : <<u, w>> \in registry
           /\ \A t \in conns[u] : first <= t
           /\ registry' = Without(registry, u) /\ conns' = [conns EXCEPT ![u] = {}]
           /\ closed' = closed \cup {first}
           /\ evicted' = [evicted EXCEPT ![s] = conns[u] \ {first}]
           /\ at' = [at EXCEPT ![s] = "evicting"]
           /\ UNCHANGED overwritten

\* chat_websocket_endpoint() and canvas_websocket_endpoint(), lines 438-448 and 523-533.
Register(s, v) ==
    /\ Arrives(s, {"chat", "canvas"}, v)
    /\ IF v \notin Sessions(registry) THEN MakeRoom(s, v)
       ELSE /\ at' = [at EXCEPT ![s] = "serving"]
            /\ conns' = [conns EXCEPT ![v] = conns[v] \cup {s}]
            /\ UNCHANGED <<closed, registry, evicted, overwritten>>
    /\ UNCHANGED <<active, sending, background, prompts, deaf>>

Evict(s) ==
    /\ at[s] = "evicting"
    /\ IF evicted[s] = {} THEN MakeRoom(s, session[s])
       ELSE /\ \E first \in evicted[s] :
                 /\ \A t \in evicted[s] : first <= t
                 /\ closed' = closed \cup {first}
                 /\ evicted' = [evicted EXCEPT ![s] = evicted[s] \ {first}]
            /\ UNCHANGED <<at, registry, conns, overwritten>>
    /\ UNCHANGED <<ids, session, active, sending, background, prompts, deaf>>

\* The end of both, lines 494-501 and 585-592.
Unregister(s) ==
    /\ at[s] = "serving"
    /\ at' = [at EXCEPT ![s] = "over"] /\ closed' = closed \cup {s}
    /\ LET stay == conns[session[s]] \ {s}
       IN /\ conns' = [conns EXCEPT ![session[s]] = stay]
          /\ registry' = IF stay = {} THEN Without(registry, session[s]) ELSE registry
    /\ UNCHANGED <<ids, session, active, sending, evicted, overwritten, background, prompts, deaf>>

\* What a client sends beside its prompts changes nothing, and what cannot be read ends it.
LeaveChat(s) == kind[s] = "chat" /\ Unregister(s)
LeaveCanvas(s) == kind[s] = "canvas" /\ Unregister(s)

SocketsNext ==
    /\ \/ \E s \in WebSocket : \/ Refuse(s) \/ Disconnect(s) \/ Vanish(s) \/ Prompt(s)
                               \/ Step(s) \/ StepEnds(s) \/ Evict(s)
                               \/ LeaveChat(s) \/ LeaveCanvas(s)
       \/ \E s \in WebSocket, v \in Session : Connect(s, v) \/ Register(s, v)
       \/ \E v \in Session : RunAgent(v) \/ BackgroundStep(v) \/ BackgroundEnds(v)
       \/ Shutdown
    /\ UNCHANGED kind

\* An open plain socket hears every message of its own runs, unless another socket has come
\* under its session (main.py:120 and 363: one place a session, emptied by whoever leaves).
RunsHeard ==
    \A s \in deaf : \E t \in WebSocket \ {s} :
        kind[t] = "plain" /\ session[t] = session[s] /\ at[t] \in {"serving", "running", "over"}

\* The table never holds more sessions than it may, none of its sessions is empty, its
\* sockets are not over, and it has every open one that is served, whatever was evicted
\* meanwhile, unless a socket of the same session replaced the list (main.py:447).
TableRight ==
    /\ Cardinality(Sessions(registry)) <= MaxSessions
    /\ \A v \in Session :
         /\ conns[v] # {} <=> v \in Sessions(registry)
         /\ \A s \in conns[v] : session[s] = v /\ at[s] # "over"
    /\ \A s \in WebSocket \ (closed \cup overwritten) :
         kind[s] \in {"chat", "canvas"} /\ at[s] \in {"serving", "running"} =>
           s \in conns[session[s]] \/ \E t \in WebSocket : s \in evicted[t]
================================================================================
