----------------------------- MODULE MCConversation -----------------------------
(***************************************************************************)
(* Conversations and those who follow them, one part in each behaviour: a  *)
(* local conversation, the connection of a remote one, the threads of      *)
(* Slack, the hooks, a canvas and its pages, or the server's web sockets.  *)
(***************************************************************************)
EXTENDS Conversation, Sequences, FiniteSetTheorems

CONSTANTS Scenarios,                                    \* the parts
          MaxAttempts, MaxSockets, MaxRequests,         \* RemoteConversation
          SlackMessage, SlackHandler, Asked, MaxSwitches,
          NoHook, MaxHookChanges,                       \* Hooks
          Artist, Page, CanvasSocket, Component, MaxDrawn,   \* Canvas
          MaxIds, MaxSessions, NoSocket, MaxPrompts     \* Sockets

VARIABLES scenario,
          rstatus, rcancelled, conn, ws, sockets, wire, listener, heard, reconnect, attempts,
          dialing, run, closing, outbox, message, server, left, tried,
          running, socket, handlers, conversation, kept, hearing, through, missed, known,
          asked, switches,
          hooks, order, index, ready, initialized, setting, phase, todo, results, decision,
          content, hookChanges, steady,
          components, conns, link, shown, seen, casting, drawn, behind,
          ids, standing, kind, session, closed, active, sending, registry, clients, evicted, background, prompts,
          deaf, overwritten

remoteVars == <<rstatus, rcancelled, conn, ws, sockets, wire, listener, heard, reconnect,
                attempts, dialing, run, closing, outbox, message, server, left, tried>>
slackVars == <<running, socket, handlers, conversation, kept, hearing, through, missed, known,
               asked, switches>>
hookVars == <<hooks, order, index, ready, initialized, setting, phase, todo, results, decision,
              content, hookChanges, steady>>
canvasVars == <<components, conns, link, shown, seen, casting, drawn, behind>>
socketVars == <<ids, standing, kind, session, closed, active, sending, registry, clients, evicted, background,
                prompts, deaf, overwritten>>
conversationVars == <<vars, remoteVars>>
followerVars == <<slackVars, hookVars, canvasVars, socketVars>>

Remote == INSTANCE RemoteConversation WITH status <- rstatus, cancelled <- rcancelled

Slack == INSTANCE SlackThreads WITH
           ThreadOf <- [m \in SlackMessage |-> m], recorded <- kept, at <- hearing

\* Beside the hooks that come with the application, one that rewrites and one that never
\* answers and fails closed; a file that names a class of nobody, and one hook switched off.
Own(open, answers) ==
    [priority |-> 100, on |-> {"pre_tool_use"}, open |-> open, answers |-> answers]
InFile(name, class, priority, enabled) ==
    [name |-> name, class |-> class, priority |-> priority, enabled |-> enabled]

HookNames == {"security", "own"}
Emissions == {1}
EventOf == [e \in Emissions |-> "pre_tool_use"]

Hook == INSTANCE Hooks WITH
          HookName <- HookNames, Emission <- Emissions,
          HookKind <- {Own(TRUE, {"modify", "other"}), Own(FALSE, {"raise", "hang"})},
          Definitions <- <<InFile("security", "security", NoHook, TRUE),
                           InFile("own", "missing", NoHook, TRUE), InFile("own", "audit", 5, FALSE)>>,
          heard <- results

\* Two pages, whose sockets have even and odd numbers.
PageOf == [s \in CanvasSocket |-> 1 + (s % 2)]

Drawing == INSTANCE Canvas WITH content <- components

\* Enough sockets to make room twice while another comes; two plain ones beside a chat.
Web == INSTANCE Sockets WITH
         at <- standing, conns <- clients,
         Kinds <- {<<"canvas", "canvas", "canvas", "canvas">>, <<"plain", "plain", "chat">>}

MCInit ==
    /\ scenario \in Scenarios
    /\ Init /\ Remote!Init /\ Slack!SlackInit /\ Hook!HooksInit /\ Drawing!CanvasInit
    /\ Web!SocketsInit
    /\ scenario # "local" => agent
    /\ scenario # "sockets" => kind = <<"plain", "plain", "chat">>

ConversationNext ==
    /\ \/ scenario = "local" /\ Next /\ UNCHANGED remoteVars
       \/ scenario = "remote" /\ Remote!Next /\ UNCHANGED vars
    /\ UNCHANGED followerVars

FollowerNext ==
    /\ \/ scenario = "slack" /\ Slack!SlackNext /\ UNCHANGED <<hookVars, canvasVars, socketVars>>
       \/ scenario = "hooks" /\ Hook!HooksNext /\ UNCHANGED <<slackVars, canvasVars, socketVars>>
       \/ scenario = "canvas" /\ Drawing!CanvasNext /\ UNCHANGED <<slackVars, hookVars, socketVars>>
       \/ scenario = "sockets" /\ Web!SocketsNext /\ UNCHANGED <<slackVars, hookVars, canvasVars>>
    /\ UNCHANGED conversationVars

MCSpec ==
    /\ MCInit
    /\ [][(ConversationNext \/ FollowerNext) /\ UNCHANGED scenario]_<<conversationVars, followerVars, scenario>>
    /\ Fairness /\ Remote!Fairness

\* Every call of a local conversation ends, and arun() of a remote one; a conversation
\* stops running; a lost connection is looked after.
NothingHangs ==
    EveryCallEnds /\ RunningEnds /\ Remote!EveryRunEnds /\ Remote!Reconnects

GivesUpLast == Remote!GivesUpLast
BufferedAreSent == Remote!BufferedAreSent

\* Slack's handlers of a thread, the hooks of an event, the pages of a canvas, and the
\* sockets of the server.
EverybodyHears ==
    Slack!HeardByAll /\ Hook!EveryHookHeard /\ Drawing!PagesAgree /\ Web!RunsHeard /\ Web!TableRight
-------------------------------------------------------------------------------
(* The reconnect loop gives up last, whatever dials beside it.             *)

ASSUME RemoteAssumption == MaxAttempts \in Nat

\* The attempts of the loop that are over.
Spent == IF reconnect = "sleeping" THEN attempts - 1 ELSE attempts

\* Before disconnect() every attempt that was counted was tried, but for one that found a
\* connection, and after that one the loop is at rest until the connection is lost.
AttemptsInv ==
    /\ attempts \in Nat /\ tried \in Nat
    /\ "reconnect" \in dialing => reconnect = "dialing"
    /\ "disconnect" \in left => Spent <= tried + 1
    /\ "disconnect" \in left /\ conn = "connected" /\ reconnect # "none" => Spent <= tried

LEMMA AttemptsStep ==
    ASSUME AttemptsInv, [Remote!Next]_remoteVars
    PROVE  AttemptsInv'
<1> USE DEF AttemptsInv, Spent
<1>1. ASSUME NEW who \in {"run", "client", "reconnect"}, Remote!Dialed(who) PROVE AttemptsInv'
  BY <1>1 DEF Remote!Dialed
<1>2. ASSUME NEW who \in {"run", "client", "reconnect"}, Remote!DialFails(who) PROVE AttemptsInv'
  BY <1>2 DEF Remote!DialFails, Remote!StartReconnect
<1>3. ASSUME Remote!Connect \/ Remote!Run PROVE AttemptsInv'
  BY <1>3 DEF Remote!Connect, Remote!Run, Remote!Call
<1>4. ASSUME Remote!Loop PROVE AttemptsInv'
  BY <1>4 DEF Remote!Loop, Remote!clientVars
<1>5. ASSUME Remote!Attempt PROVE AttemptsInv'
  BY <1>5 DEF Remote!Attempt, Remote!clientVars
<1>6. ASSUME Remote!ListenerEnds PROVE AttemptsInv'
  BY <1>6 DEF Remote!ListenerEnds, Remote!StartReconnect, Remote!clientVars
<1>7. ASSUME Remote!Disconnect \/ Remote!Disconnected PROVE AttemptsInv'
  BY <1>7 DEF Remote!Disconnect, Remote!Disconnected, Remote!Call, Remote!clientVars
<1>8. ASSUME UNCHANGED <<left, conn, reconnect, attempts, dialing, tried>> PROVE AttemptsInv'
  BY <1>8
<1>9. ASSUME Remote!SendAndWait \/ Remote!Send \/ Remote!Interrupt \/ Remote!Resume
      PROVE  AttemptsInv'
  BY <1>9
  DEF Remote!SendAndWait, Remote!Send, Remote!Interrupt, Remote!Resume, Remote!Call,
      Remote!taskVars
<1>10. ASSUME \/ Remote!Listen \/ Remote!Receive \/ Remote!Command \/ Remote!RunSends
              \/ Remote!RunWakes \/ Remote!ServerEnds \/ Remote!Drop \/ UNCHANGED remoteVars
      PROVE  AttemptsInv'
  <2>1. UNCHANGED <<left, conn, reconnect, attempts, dialing, tried>>
    BY <1>10
    DEF Remote!Listen, Remote!Receive, Remote!Command, Remote!RunSends, Remote!RunWakes,
        Remote!ServerEnds, Remote!Drop, Remote!clientVars, Remote!taskVars, remoteVars
  <2> QED BY <1>8, <2>1
<1> QED BY <1>1, <1>2, <1>3, <1>4, <1>5, <1>6, <1>7, <1>9, <1>10 DEF Remote!Next, Remote!DialEnds

\* The loop is left for good by the last attempt, by a connection or by disconnect().
LEMMA LoopEnds ==
    ASSUME AttemptsInv, [Remote!Next]_remoteVars, reconnect = "looping", reconnect' = "none",
           "disconnect" \in left'
    PROVE  tried >= MaxAttempts - 1
<1> USE DEF AttemptsInv, Spent
<1>1. CASE Remote!Loop
  BY <1>1, RemoteAssumption DEF Remote!Loop, Remote!clientVars
<1>2. ASSUME NEW who \in {"run", "client", "reconnect"}, Remote!DialEnds(who) PROVE FALSE
  BY <1>2 DEF Remote!DialEnds, Remote!Dialed, Remote!DialFails, Remote!StartReconnect
<1>3. ASSUME Remote!Disconnect PROVE FALSE
  BY <1>3 DEF Remote!Disconnect, Remote!Call
<1>4. ASSUME \/ Remote!Connect \/ Remote!Run \/ Remote!Attempt \/ Remote!ListenerEnds
             \/ Remote!Disconnected \/ Remote!Listen \/ Remote!Receive \/ Remote!SendAndWait
             \/ Remote!Send \/ Remote!Command \/ Remote!Interrupt \/ Remote!Resume
             \/ Remote!RunSends \/ Remote!RunWakes \/ Remote!ServerEnds \/ Remote!Drop
             \/ UNCHANGED remoteVars
      PROVE  FALSE
  BY <1>4
  DEF Remote!Connect, Remote!Run, Remote!Attempt, Remote!ListenerEnds, Remote!StartReconnect,
      Remote!Disconnected, Remote!Listen, Remote!Receive, Remote!SendAndWait, Remote!Send,
      Remote!Command, Remote!Interrupt, Remote!Resume, Remote!RunSends, Remote!RunWakes,
      Remote!ServerEnds, Remote!Drop, Remote!taskVars, remoteVars
<1> QED BY <1>1, <1>2, <1>3, <1>4 DEF Remote!Next

\* The reconnect loop of a remote conversation gives up only after all its attempts since
\* the last connection but one (_reconnect_loop()), for any number of attempts, sockets
\* and calls, whoever else dials, and beside whatever else shares the behaviour.
THEOREM LoopGivesUpLast == MCSpec => GivesUpLast
<1>1. MCInit => AttemptsInv
  BY DEF MCInit, Remote!Init, AttemptsInv, Spent
<1>2. ASSUME [(ConversationNext \/ FollowerNext) /\ UNCHANGED scenario]_<<conversationVars, followerVars, scenario>>
      PROVE  [Remote!Next]_remoteVars
  BY <1>2 DEF ConversationNext, FollowerNext, conversationVars
<1>3. AttemptsInv /\ [Remote!Next]_remoteVars => AttemptsInv'
  BY AttemptsStep
<1>4. AttemptsInv /\ [Remote!Next]_remoteVars
        => [reconnect = "looping" /\ reconnect' = "none" /\ "disconnect" \in left'
              => tried >= MaxAttempts - 1]_Remote!remoteVars
  BY LoopEnds
<1> QED BY <1>1, <1>2, <1>3, <1>4, PTL DEF MCSpec, GivesUpLast, Remote!GivesUpLast
-------------------------------------------------------------------------------
(* The sockets of the server.                                              *)

ASSUME SocketsAssumption == MaxIds \in Nat \ {0} /\ MaxSessions \in Nat

\* A plain socket has come under a session, and another one than s under that of s.
Came(t, v) == kind[t] = "plain" /\ session[t] = v /\ standing[t] \in {"serving", "running", "over"}
Other(s) == \E t \in Web!WebSocket \ {s} : Came(t, session[s])

\* Where a send may go, and who an open socket has to share its place with.
HeardInv ==
    /\ standing \in [Web!WebSocket -> {"new", "evicting", "serving", "running", "over", "refused"}]
    /\ session \in [Web!WebSocket -> Web!Session]
    /\ DOMAIN active = Web!Session /\ DOMAIN sending = Web!Run
    /\ \A v \in Web!Session : active[v] = NoSocket \/ (active[v] \in Web!WebSocket /\ Came(active[v], v))
    /\ \A s \in Web!WebSocket : LET t == sending[Web!OnSocket(s)] IN
         t = NoSocket \/ (standing[s] = "running" /\ t \in Web!WebSocket /\ Came(t, session[s]))
    /\ \A v \in Web!Session : LET t == sending[Web!InBackground(v)] IN
         t = NoSocket \/ (t \in Web!WebSocket /\ Came(t, v))
    /\ \A s \in Web!WebSocket \ closed :
         kind[s] = "plain" /\ standing[s] \in {"serving", "running"} => active[session[s]] = s \/ Other(s)
    /\ \A s \in deaf : s \in Web!WebSocket /\ standing[s] # "new" /\ Other(s)
    /\ \A s \in Web!WebSocket : standing[s] = "evicting" => kind[s] # "plain"

\* The runs are told apart by what they are on.
LEMMA RunsDiffer ==
    /\ \A s \in Web!WebSocket : Web!OnSocket(s) \in Web!Run
    /\ \A v \in Web!Session : Web!InBackground(v) \in Web!Run
    /\ \A s, t : Web!OnSocket(s) = Web!OnSocket(t) => s = t
    /\ \A v, w : Web!InBackground(v) = Web!InBackground(w) => v = w
    /\ \A s, v : Web!OnSocket(s) # Web!InBackground(v)
BY DEF Web!Run, Web!OnSocket, Web!InBackground

\* What every step keeps of the sockets: who has come has come for good.
Keeps ==
    /\ kind' = kind
    /\ standing' \in [Web!WebSocket -> {"new", "evicting", "serving", "running", "over", "refused"}]
    /\ session' \in [Web!WebSocket -> Web!Session]
    /\ \A t \in Web!WebSocket : standing[t] # "new" => standing'[t] # "new" /\ session'[t] = session[t]
    /\ \A t \in Web!WebSocket : kind[t] = "plain" /\ standing[t] \in {"serving", "running", "over"} =>
           standing'[t] \in {"serving", "running", "over"}
    /\ \A t \in Web!WebSocket : standing'[t] = "evicting" => kind[t] # "plain"

LEMMA CameStays ==
    ASSUME Keeps
    PROVE  /\ Web!WebSocket' = Web!WebSocket /\ Web!Run' = Web!Run
           /\ \A v : \A t \in Web!WebSocket : Came(t, v) => Came(t, v)'
           /\ \A s \in Web!WebSocket : standing[s] # "new" /\ Other(s) => Other(s)'
<1>0. Web!WebSocket' = Web!WebSocket /\ Web!Run' = Web!Run
  BY DEF Keeps, Web!WebSocket, Web!Run
<1>1. ASSUME NEW v, NEW t \in Web!WebSocket, Came(t, v) PROVE Came(t, v)'
  BY <1>1 DEF Came, Keeps
<1>2. ASSUME NEW s \in Web!WebSocket, standing[s] # "new", Other(s) PROVE Other(s)'
  <2>1. PICK t \in Web!WebSocket \ {s} : Came(t, session[s])
    BY <1>2 DEF Other
  <2>2. Came(t, session[s])' /\ session'[s] = session[s]
    BY <1>1, <1>2, <2>1 DEF Came, Keeps
  <2> QED BY <1>0, <2>1, <2>2 DEF Other
<1> QED BY <1>0, <1>1, <1>2

\* A step that leaves the places and the sends alone, and opens no plain socket.
LEMMA QuietStep ==
    ASSUME HeardInv, Keeps, active' = active, sending' = sending, deaf' = deaf, closed \subseteq closed',
           \A t \in Web!WebSocket : standing[t] = "running" => standing'[t] = "running",
           \A t \in Web!WebSocket : kind[t] = "plain" /\ standing'[t] \in {"serving", "running"}
              => standing[t] \in {"serving", "running"}
    PROVE  HeardInv'
<1>1. /\ Web!WebSocket' = Web!WebSocket /\ Web!Run' = Web!Run
      /\ \A v : \A t \in Web!WebSocket : Came(t, v) => Came(t, v)'
      /\ \A s \in Web!WebSocket : standing[s] # "new" /\ Other(s) => Other(s)'
  BY CameStays
<1>2. /\ DOMAIN active' = Web!Session /\ DOMAIN sending' = Web!Run'
      /\ \A v \in Web!Session : active'[v] = NoSocket \/ (active'[v] \in Web!WebSocket /\ Came(active[v], v)')
  BY <1>1 DEF HeardInv
<1>3. ASSUME NEW s \in Web!WebSocket, NEW t, t = sending[Web!OnSocket(s)], t # NoSocket
      PROVE  standing'[s] = "running" /\ t \in Web!WebSocket /\ Came(t, session[s])'
  <2>1. standing[s] = "running" /\ t \in Web!WebSocket /\ Came(t, session[s])
    BY <1>3 DEF HeardInv
  <2>2. session'[s] = session[s] /\ standing'[s] = "running"
    BY <2>1 DEF Keeps
  <2>3. PICK v : v = session[s]
    OBVIOUS
  <2>4. Came(t, v)'
    BY <1>1, <2>1, <2>3
  <2> QED BY <2>1, <2>2, <2>3, <2>4 DEF Came
<1>4. ASSUME NEW v \in Web!Session, NEW t, t = sending[Web!InBackground(v)], t # NoSocket
      PROVE  t \in Web!WebSocket /\ Came(t, v)'
  BY <1>1, <1>4 DEF HeardInv
<1>5. ASSUME NEW s \in Web!WebSocket \ closed', kind[s] = "plain", standing'[s] \in {"serving", "running"}
      PROVE  active[session[s]] = s \/ Other(s)'
  BY <1>1, <1>5 DEF HeardInv
<1>6. \A s \in deaf : s \in Web!WebSocket /\ standing'[s] # "new" /\ Other(s)'
  BY <1>1 DEF HeardInv, Keeps
<1>7. \A s \in Web!WebSocket : standing[s] # "new" => session'[s] = session[s]
  BY DEF Keeps
<1> QED BY <1>1, <1>2, <1>3, <1>4, <1>5, <1>6, <1>7 DEF HeardInv, Keeps

\* What making room changes of where a socket is.
LEMMA RoomMade ==
    ASSUME NEW s, NEW v, Web!MakeRoom(s, v)
    PROVE  /\ standing' \in {[standing EXCEPT ![s] = "serving"], [standing EXCEPT ![s] = "evicting"]}
           /\ closed \subseteq closed'
BY DEF Web!MakeRoom, Web!Insert

LEMMA SocketsKeep ==
    ASSUME HeardInv, Web!SocketsNext
    PROVE  Keeps
<1> DEFINE States == {"new", "evicting", "serving", "running", "over", "refused"}
<1>1. /\ standing \in [Web!WebSocket -> States] /\ session \in [Web!WebSocket -> Web!Session]
      /\ kind' = kind /\ \A t \in Web!WebSocket : standing[t] = "evicting" => kind[t] # "plain"
  BY DEF HeardInv, Web!SocketsNext
<1>2. ASSUME NEW s \in Web!WebSocket, session' = session, NEW new \in States,
             standing' \in {standing, [standing EXCEPT ![s] = new]}, new # "new",
             standing[s] \in {"serving", "running", "over"} => new \in {"serving", "running", "over"},
             new = "evicting" => standing[s] = "evicting"
      PROVE  Keeps
  BY <1>1, <1>2 DEF Keeps
<1>3. ASSUME NEW s \in Web!WebSocket, NEW v \in Web!Session, session' = [session EXCEPT ![s] = v],
             NEW new \in States \ {"new"}, standing' = [standing EXCEPT ![s] = new], standing[s] = "new",
             new = "evicting" => kind[s] # "plain"
      PROVE  Keeps
  BY <1>1, <1>3 DEF Keeps
<1>4. ASSUME NEW s \in Web!WebSocket, Web!Refuse(s) PROVE Keeps
  BY <1>2, <1>4 DEF Web!Refuse
<1>5. ASSUME NEW s \in Web!WebSocket, Web!Disconnect(s) PROVE Keeps
  BY <1>2, <1>5 DEF Web!Disconnect
<1>6. ASSUME NEW s \in Web!WebSocket, Web!Vanish(s) PROVE Keeps
  BY <1>1, <1>6 DEF Web!Vanish, Keeps
<1>7. ASSUME NEW s \in Web!WebSocket, Web!Prompt(s) PROVE Keeps
  BY <1>2, <1>7 DEF Web!Prompt
<1>8. ASSUME NEW s \in Web!WebSocket, Web!Step(s) PROVE Keeps
  BY <1>2, <1>8 DEF Web!Step
<1>9. ASSUME NEW s \in Web!WebSocket, Web!StepEnds(s) PROVE Keeps
  BY <1>2, <1>9 DEF Web!StepEnds
<1>10. ASSUME NEW s \in Web!WebSocket, Web!Evict(s) PROVE Keeps
  <2>1. session' = session /\ standing[s] = "evicting"
    BY <1>10 DEF Web!Evict
  <2>2. standing' \in {standing, [standing EXCEPT ![s] = "serving"], [standing EXCEPT ![s] = "evicting"]}
    BY <1>10, RoomMade DEF Web!Evict
  <2> QED BY <1>2, <2>1, <2>2
<1>11. ASSUME NEW s \in Web!WebSocket, Web!LeaveChat(s) \/ Web!LeaveCanvas(s) PROVE Keeps
  BY <1>2, <1>11 DEF Web!LeaveChat, Web!LeaveCanvas, Web!Unregister
<1>12. ASSUME NEW s \in Web!WebSocket, NEW v \in Web!Session, Web!Connect(s, v) PROVE Keeps
  BY <1>3, <1>12 DEF Web!Connect, Web!Arrives
<1>13. ASSUME NEW s \in Web!WebSocket, NEW v \in Web!Session, Web!Register(s, v) PROVE Keeps
  <2>1. session' = [session EXCEPT ![s] = v] /\ standing[s] = "new" /\ kind[s] # "plain"
    BY <1>13 DEF Web!Register, Web!Arrives
  <2>2. standing' \in {[standing EXCEPT ![s] = "serving"], [standing EXCEPT ![s] = "evicting"]}
    BY <1>13, RoomMade DEF Web!Register
  <2> QED BY <1>3, <2>1, <2>2
<1>14. ASSUME NEW v \in Web!Session, Web!RunAgent(v) \/ Web!BackgroundStep(v) \/ Web!BackgroundEnds(v)
       PROVE  Keeps
  BY <1>1, <1>14 DEF Web!RunAgent, Web!BackgroundStep, Web!BackgroundEnds, Keeps
<1>15. ASSUME Web!Shutdown PROVE Keeps
  BY <1>1, <1>15 DEF Web!Shutdown, Keeps
<1> QED
  BY <1>4, <1>5, <1>6, <1>7, <1>8, <1>9, <1>10, <1>11, <1>12, <1>13, <1>14, <1>15 DEF Web!SocketsNext

LEMMA HeardStep ==
    ASSUME HeardInv, [Web!SocketsNext]_socketVars
    PROVE  HeardInv'
<1>1. CASE UNCHANGED socketVars
  BY <1>1, QuietStep DEF socketVars, Keeps, HeardInv
<1> SUFFICES ASSUME Web!SocketsNext PROVE HeardInv'
  BY <1>1
<1>2. Keeps
  BY SocketsKeep
<1>3. /\ Web!WebSocket' = Web!WebSocket /\ Web!Run' = Web!Run
      /\ \A v : \A t \in Web!WebSocket : Came(t, v) => Came(t, v)'
      /\ \A s \in Web!WebSocket : standing[s] # "new" /\ Other(s) => Other(s)'
  BY <1>2, CameStays
\* Where nobody is sent to and no place changes but by being emptied of who is closed.
<1>4. ASSUME NEW u \in Web!Session, active' \in {active, [active EXCEPT ![u] = NoSocket]},
             closed \subseteq closed',
             \A t \in Web!WebSocket : kind[t] = "plain" /\ standing'[t] \in {"serving", "running"}
                => standing[t] \in {"serving", "running"},
             NEW gone \in closed', active' # active => gone \in Web!WebSocket /\ Came(gone, u)'
      PROVE  /\ DOMAIN active' = Web!Session
             /\ \A v \in Web!Session : active'[v] = NoSocket \/ (active'[v] \in Web!WebSocket /\ Came(active[v], v)')
             /\ \A s \in Web!WebSocket \ closed' :
                  kind[s] = "plain" /\ standing'[s] \in {"serving", "running"}
                     => active'[session'[s]] = s \/ Other(s)'
  <2>1. DOMAIN active' = Web!Session
    BY <1>4 DEF HeardInv
  <2>2. ASSUME NEW v \in Web!Session, NEW t, t = active'[v], t # NoSocket
        PROVE  t \in Web!WebSocket /\ Came(t, v)'
    <3>1. t = active[v]
      BY <1>4, <2>2 DEF HeardInv
    <3> QED BY <1>3, <2>2, <3>1 DEF HeardInv
  <2>3. ASSUME NEW s \in Web!WebSocket \ closed', kind[s] = "plain", standing'[s] \in {"serving", "running"}
        PROVE  active'[session'[s]] = s \/ Other(s)'
    <3>1. standing[s] \in {"serving", "running"} /\ session'[s] = session[s] /\ s \notin closed
      BY <1>2, <1>4, <2>3 DEF Keeps
    <3>2. active[session[s]] = s \/ Other(s)
      BY <2>3, <3>1 DEF HeardInv
    <3>3. CASE Other(s)
      BY <1>3, <3>1, <3>3
    <3>4. CASE active[session[s]] = s /\ session[s] # u
      BY <1>4, <3>1, <3>4 DEF HeardInv
    <3>5. CASE active[session[s]] = s /\ session[s] = u /\ active' # active
      <4>1. gone \in Web!WebSocket /\ gone # s /\ Came(gone, u)'
        BY <1>4, <2>3, <3>5
      <4>2. Came(gone, session[s])'
        BY <3>1, <3>5, <4>1 DEF Came
      <4> QED BY <1>3, <4>1, <4>2 DEF Other
    <3> QED BY <3>1, <3>2, <3>3, <3>4, <3>5
  <2> QED BY <2>1, <2>2, <2>3
<1>5. \A s \in Web!WebSocket : standing[s] # "new" => session'[s] = session[s]
  BY <1>2 DEF Keeps
\* The sends that are not touched go on to where they went.
<1>6. ASSUME NEW s \in Web!WebSocket, sending'[Web!OnSocket(s)] \in {sending[Web!OnSocket(s)], NoSocket},
             standing'[s] = standing[s] \/ sending'[Web!OnSocket(s)] = NoSocket,
             NEW t, t = sending'[Web!OnSocket(s)], t # NoSocket
      PROVE  standing'[s] = "running" /\ t \in Web!WebSocket /\ Came(t, session[s])'
  <2>1. standing[s] = "running" /\ t \in Web!WebSocket /\ Came(t, session[s])
    BY <1>6 DEF HeardInv
  <2>2. session'[s] = session[s] /\ standing'[s] = "running"
    BY <1>5, <1>6, <2>1
  <2>3. PICK v : v = session[s]
    OBVIOUS
  <2>4. Came(t, v)'
    BY <1>3, <2>1, <2>3
  <2> QED BY <2>1, <2>2, <2>3, <2>4 DEF Came
<1>7. ASSUME NEW v \in Web!Session, sending'[Web!InBackground(v)] \in {sending[Web!InBackground(v)], NoSocket},
             NEW t, t = sending'[Web!InBackground(v)], t # NoSocket
      PROVE  t \in Web!WebSocket /\ Came(t, v)'
  BY <1>3, <1>7 DEF HeardInv
<1>8. ASSUME deaf' = deaf
      PROVE  \A s \in deaf' : s \in Web!WebSocket /\ standing'[s] # "new" /\ Other(s)'
  BY <1>2, <1>3, <1>8 DEF HeardInv, Keeps
<1>9. ASSUME /\ DOMAIN active' = Web!Session /\ DOMAIN sending' = Web!Run
             /\ \A v \in Web!Session : active'[v] = NoSocket \/ (active'[v] \in Web!WebSocket /\ Came(active[v], v)')
             /\ \A s \in Web!WebSocket : \A t : t = sending'[Web!OnSocket(s)] /\ t # NoSocket =>
                  standing'[s] = "running" /\ t \in Web!WebSocket /\ Came(t, session[s])'
             /\ \A v \in Web!Session : \A t : t = sending'[Web!InBackground(v)] /\ t # NoSocket =>
                  t \in Web!WebSocket /\ Came(t, v)'
             /\ \A s \in Web!WebSocket \ closed' :
                  kind[s] = "plain" /\ standing'[s] \in {"serving", "running"}
                     => active'[session'[s]] = s \/ Other(s)'
             /\ \A s \in deaf' : s \in Web!WebSocket /\ standing'[s] # "new" /\ Other(s)'
      PROVE  HeardInv'
  BY <1>2, <1>3, <1>9 DEF HeardInv, Keeps
<1>10. ASSUME NEW s \in Web!WebSocket, Web!Disconnect(s) PROVE HeardInv'
  <2>1. /\ kind[s] = "plain" /\ standing[s] = "serving" /\ standing' = [standing EXCEPT ![s] = "over"]
        /\ closed' = closed \cup {s} /\ active' \in {active, [active EXCEPT ![session[s]] = NoSocket]}
        /\ session' = session /\ sending' = sending /\ deaf' = deaf
    BY <1>10 DEF Web!Disconnect
  <2>2. session[s] \in Web!Session /\ standing'[s] = "over" /\ Came(s, session[s])'
    BY <1>2, <2>1 DEF HeardInv, Keeps, Came
  <2>3. \A t \in Web!WebSocket : kind[t] = "plain" /\ standing'[t] \in {"serving", "running"}
                => standing[t] \in {"serving", "running"}
    BY <2>1 DEF HeardInv
  <2>4. PICK u : u = session[s]
    OBVIOUS
  <2>5. /\ DOMAIN active' = Web!Session
        /\ \A v \in Web!Session : active'[v] = NoSocket \/ (active'[v] \in Web!WebSocket /\ Came(active[v], v)')
        /\ \A t \in Web!WebSocket \ closed' :
             kind[t] = "plain" /\ standing'[t] \in {"serving", "running"} => active'[session'[t]] = t \/ Other(t)'
    <3>1. u \in Web!Session /\ Came(s, u)' /\ s \in closed'
      BY <2>1, <2>2, <2>4 DEF Came
    <3> QED BY <1>4, <2>1, <2>3, <2>4, <3>1
  <2>6. \A t \in Web!WebSocket : sending[Web!OnSocket(t)] # NoSocket => standing'[t] = standing[t]
    BY <2>1 DEF HeardInv
  <2>7. ASSUME NEW t \in Web!WebSocket, NEW x, x = sending'[Web!OnSocket(t)], x # NoSocket
        PROVE  standing'[t] = "running" /\ x \in Web!WebSocket /\ Came(x, session[t])'
    BY <1>6, <2>1, <2>6, <2>7
  <2>8. ASSUME NEW v \in Web!Session, NEW x, x = sending'[Web!InBackground(v)], x # NoSocket
        PROVE  x \in Web!WebSocket /\ Came(x, v)'
    BY <1>7, <2>1, <2>8
  <2>9. DOMAIN sending' = Web!Run
    BY <2>1 DEF HeardInv
  <2> QED BY <1>8, <1>9, <2>1, <2>5, <2>7, <2>8, <2>9
<1>11. ASSUME NEW s \in Web!WebSocket, NEW v \in Web!Session, Web!Connect(s, v) PROVE HeardInv'
  <2>1. /\ kind[s] = "plain" /\ standing[s] = "new" /\ standing' = [standing EXCEPT ![s] = "serving"]
        /\ session' = [session EXCEPT ![s] = v] /\ active' = [active EXCEPT ![v] = s]
        /\ closed' = closed /\ sending' = sending /\ deaf' = deaf
    BY <1>11 DEF Web!Connect, Web!Arrives
  <2>2. standing'[s] = "serving" /\ session'[s] = v /\ Came(s, v)'
    BY <1>2, <2>1 DEF HeardInv, Keeps, Came
  <2>3. \A t \in Web!WebSocket \ {s} : standing'[t] = standing[t] /\ session'[t] = session[t]
    BY <2>1 DEF HeardInv
  <2>4. DOMAIN active' = Web!Session /\ active'[v] = s /\ \A w \in Web!Session \ {v} : active'[w] = active[w]
    BY <2>1 DEF HeardInv
  <2>5. ASSUME NEW w \in Web!Session, NEW x, x = active'[w], x # NoSocket
        PROVE  x \in Web!WebSocket /\ Came(x, w)'
    BY <1>3, <2>2, <2>4, <2>5 DEF HeardInv
  <2>6. ASSUME NEW t \in Web!WebSocket \ closed', kind[t] = "plain", standing'[t] \in {"serving", "running"}
        PROVE  active'[session'[t]] = t \/ Other(t)'
    <3>1. CASE t = s
      BY <2>2, <2>4, <3>1
    <3>2. CASE t # s
      <4>1. /\ standing[t] \in {"serving", "running"} /\ session'[t] = session[t] /\ session[t] \in Web!Session
            /\ active[session[t]] = t \/ Other(t)
        BY <2>1, <2>3, <2>6, <3>2 DEF HeardInv
      <4>2. CASE Other(t)
        BY <1>3, <4>1, <4>2
      <4>3. CASE session[t] # v
        BY <4>1, <2>4, <4>2, <4>3
      <4>4. CASE session[t] = v
        <5>1. Came(s, session[t])'
          BY <2>2, <4>1, <4>4 DEF Came
        <5> QED BY <1>3, <3>2, <5>1 DEF Other
      <4> QED BY <4>3, <4>4
    <3> QED BY <3>1, <3>2
  <2>7. \A t \in Web!WebSocket : sending[Web!OnSocket(t)] # NoSocket => standing'[t] = standing[t]
    BY <2>1, <2>3 DEF HeardInv
  <2>8. ASSUME NEW t \in Web!WebSocket, NEW x, x = sending'[Web!OnSocket(t)], x # NoSocket
        PROVE  standing'[t] = "running" /\ x \in Web!WebSocket /\ Came(x, session[t])'
    BY <1>6, <2>1, <2>7, <2>8
  <2>9. ASSUME NEW w \in Web!Session, NEW x, x = sending'[Web!InBackground(w)], x # NoSocket
        PROVE  x \in Web!WebSocket /\ Came(x, w)'
    BY <1>7, <2>1, <2>9
  <2>10. DOMAIN sending' = Web!Run
    BY <2>1 DEF HeardInv
  <2>11. \A w \in Web!Session : active'[w] = NoSocket \/ (active'[w] \in Web!WebSocket /\ Came(active[w], w)')
    BY <2>5
  <2> QED BY <1>8, <1>9, <2>1, <2>4, <2>11, <2>6, <2>8, <2>9, <2>10
\* What stays of the places, when none is touched.
<1>12. ASSUME active' = active, closed' = closed,
              \A t \in Web!WebSocket : kind[t] = "plain" /\ standing'[t] \in {"serving", "running"}
                 => standing[t] \in {"serving", "running"}
       PROVE  /\ DOMAIN active' = Web!Session
              /\ \A v \in Web!Session : active'[v] = NoSocket \/ (active'[v] \in Web!WebSocket /\ Came(active[v], v)')
              /\ \A t \in Web!WebSocket \ closed' :
                   kind[t] = "plain" /\ standing'[t] \in {"serving", "running"} => active'[session'[t]] = t \/ Other(t)'
  <2>1. DOMAIN active' = Web!Session
    BY <1>12 DEF HeardInv
  <2>2. ASSUME NEW v \in Web!Session, NEW x, x = active'[v], x # NoSocket
        PROVE  x \in Web!WebSocket /\ Came(x, v)'
    BY <1>3, <1>12, <2>2 DEF HeardInv
  <2>3. ASSUME NEW t \in Web!WebSocket \ closed', kind[t] = "plain", standing'[t] \in {"serving", "running"}
        PROVE  active'[session'[t]] = t \/ Other(t)'
    <3>1. standing[t] \in {"serving", "running"} /\ session'[t] = session[t] /\ t \notin closed
      BY <1>5, <1>12, <2>3
    <3>2. active[session[t]] = t \/ Other(t)
      BY <2>3, <3>1 DEF HeardInv
    <3> QED BY <1>3, <1>12, <3>1, <3>2
  <2> QED BY <2>1, <2>2, <2>3
<1>13. ASSUME NEW s \in Web!WebSocket, Web!Step(s) PROVE HeardInv'
  <2>1. /\ standing[s] = "running" /\ sending[Web!OnSocket(s)] = NoSocket
        /\ sending' = [sending EXCEPT ![Web!OnSocket(s)] = active[session[s]]]
        /\ standing' = standing \/ (active[session[s]] = NoSocket /\ standing' = [standing EXCEPT ![s] = "serving"])
        /\ active' = active /\ closed' = closed /\ session' = session
    BY <1>13 DEF Web!Step, Web!Send
  <2>2. /\ DOMAIN sending' = Web!Run /\ sending'[Web!OnSocket(s)] = active[session[s]]
        /\ \A t \in Web!WebSocket \ {s} : sending'[Web!OnSocket(t)] = sending[Web!OnSocket(t)]
        /\ \A v \in Web!Session : sending'[Web!InBackground(v)] = sending[Web!InBackground(v)]
    BY <2>1, RunsDiffer DEF HeardInv
  <2>3. /\ \A t \in Web!WebSocket \ {s} : standing'[t] = standing[t]
        /\ \A t \in Web!WebSocket : kind[t] = "plain" /\ standing'[t] \in {"serving", "running"}
              => standing[t] \in {"serving", "running"}
    BY <2>1 DEF HeardInv
  <2>4. ASSUME NEW t \in Web!WebSocket, NEW x, x = sending'[Web!OnSocket(t)], x # NoSocket
        PROVE  standing'[t] = "running" /\ x \in Web!WebSocket /\ Came(x, session[t])'
    <3>1. CASE t # s
      BY <1>6, <2>2, <2>3, <2>4, <3>1
    <3>2. CASE t = s
      <4>1. session[s] \in Web!Session /\ x = active[session[s]] /\ standing'[s] = "running"
        BY <2>1, <2>2, <2>4, <3>2 DEF HeardInv
      <4>2. PICK v \in Web!Session : v = session[s] /\ v = session'[s]
        BY <2>1, <4>1
      <4>3. x \in Web!WebSocket /\ Came(x, v)
        BY <2>4, <4>1, <4>2 DEF HeardInv
      <4>4. Came(x, v)'
        BY <1>3, <4>3
      <4> QED BY <3>2, <4>1, <4>2, <4>3, <4>4 DEF Came
    <3> QED BY <3>1, <3>2
  <2>5. ASSUME NEW w \in Web!Session, NEW x, x = sending'[Web!InBackground(w)], x # NoSocket
        PROVE  x \in Web!WebSocket /\ Came(x, w)'
    BY <1>7, <2>2, <2>5
  <2>6. \A t \in deaf' : t \in Web!WebSocket /\ standing'[t] # "new" /\ Other(t)'
    <3>1. \A t \in deaf' : t \in deaf \/ (t = s /\ kind[s] = "plain" /\ s \notin closed /\ active[session[s]] # s)
      BY <1>13 DEF Web!Step, Web!Hears
    <3>2. \A t \in deaf' : t \in Web!WebSocket /\ standing[t] # "new" /\ Other(t)
      BY <2>1, <3>1 DEF HeardInv
    <3> QED BY <1>2, <1>3, <3>2 DEF Keeps
  <2> QED BY <1>9, <1>12, <2>1, <2>2, <2>3, <2>4, <2>5, <2>6
<1>14. ASSUME NEW s \in Web!WebSocket, Web!StepEnds(s) PROVE HeardInv'
  <2>1. /\ standing[s] = "running" /\ sending[Web!OnSocket(s)] # NoSocket
        /\ sending' = [sending EXCEPT ![Web!OnSocket(s)] = NoSocket]
        /\ standing' \in {standing, [standing EXCEPT ![s] = "serving"]}
        /\ \/ active' = active
           \/ sending[Web!OnSocket(s)] \in closed /\ active' = [active EXCEPT ![session[s]] = NoSocket]
        /\ closed' = closed /\ session' = session /\ deaf' = deaf
    BY <1>14 DEF Web!StepEnds, Web!SendEnds
  <2>2. /\ DOMAIN sending' = Web!Run /\ sending'[Web!OnSocket(s)] = NoSocket
        /\ \A t \in Web!WebSocket \ {s} : sending'[Web!OnSocket(t)] = sending[Web!OnSocket(t)]
        /\ \A v \in Web!Session : sending'[Web!InBackground(v)] = sending[Web!InBackground(v)]
    BY <2>1, RunsDiffer DEF HeardInv
  <2>3. /\ \A t \in Web!WebSocket \ {s} : standing'[t] = standing[t]
        /\ \A t \in Web!WebSocket : kind[t] = "plain" /\ standing'[t] \in {"serving", "running"}
              => standing[t] \in {"serving", "running"}
    BY <2>1 DEF HeardInv
  <2>4. ASSUME NEW t \in Web!WebSocket, NEW x, x = sending'[Web!OnSocket(t)], x # NoSocket
        PROVE  standing'[t] = "running" /\ x \in Web!WebSocket /\ Came(x, session[t])'
    BY <1>6, <2>2, <2>3, <2>4
  <2>5. ASSUME NEW w \in Web!Session, NEW x, x = sending'[Web!InBackground(w)], x # NoSocket
        PROVE  x \in Web!WebSocket /\ Came(x, w)'
    BY <1>7, <2>2, <2>5
  <2>6. PICK gone, u : gone = sending[Web!OnSocket(s)] /\ u = session[s]
    OBVIOUS
  <2>7. u \in Web!Session /\ gone \in Web!WebSocket /\ Came(gone, u)
    BY <2>1, <2>6 DEF HeardInv
  <2>8. CASE active' = active
    BY <1>8, <1>9, <1>12, <2>1, <2>2, <2>3, <2>4, <2>5, <2>8
  <2>9. CASE gone \in closed /\ active' = [active EXCEPT ![u] = NoSocket]
    <3>1. Came(gone, u)'
      BY <1>3, <2>7
    <3>2. /\ DOMAIN active' = Web!Session
          /\ \A v \in Web!Session : active'[v] = NoSocket \/ (active'[v] \in Web!WebSocket /\ Came(active[v], v)')
          /\ \A t \in Web!WebSocket \ closed' :
               kind[t] = "plain" /\ standing'[t] \in {"serving", "running"} => active'[session'[t]] = t \/ Other(t)'
      BY <1>4, <2>1, <2>3, <2>7, <2>9, <3>1
    <3> QED BY <1>8, <1>9, <2>1, <2>2, <2>4, <2>5, <3>2
  <2> QED BY <2>1, <2>6, <2>8, <2>9
<1>15. ASSUME NEW v \in Web!Session, Web!BackgroundStep(v) PROVE HeardInv'
  <2>1. /\ sending' = [sending EXCEPT ![Web!InBackground(v)] = active[v]]
        /\ standing' = standing /\ active' = active /\ closed' = closed /\ session' = session /\ deaf' = deaf
    BY <1>15 DEF Web!BackgroundStep, Web!Send
  <2>2. /\ DOMAIN sending' = Web!Run /\ sending'[Web!InBackground(v)] = active[v]
        /\ \A t \in Web!WebSocket : sending'[Web!OnSocket(t)] = sending[Web!OnSocket(t)]
        /\ \A w \in Web!Session \ {v} : sending'[Web!InBackground(w)] = sending[Web!InBackground(w)]
    BY <2>1, RunsDiffer DEF HeardInv
  <2>3. ASSUME NEW t \in Web!WebSocket, NEW x, x = sending'[Web!OnSocket(t)], x # NoSocket
        PROVE  standing'[t] = "running" /\ x \in Web!WebSocket /\ Came(x, session[t])'
    BY <1>6, <2>1, <2>2, <2>3
  <2>4. ASSUME NEW w \in Web!Session, NEW x, x = sending'[Web!InBackground(w)], x # NoSocket
        PROVE  x \in Web!WebSocket /\ Came(x, w)'
    <3>1. CASE w # v
      BY <1>7, <2>2, <2>4, <3>1
    <3>2. CASE w = v
      <4>1. x \in Web!WebSocket /\ Came(x, v)
        BY <2>2, <2>4, <3>2 DEF HeardInv
      <4> QED BY <1>3, <3>2, <4>1
    <3> QED BY <3>1, <3>2
  <2> QED BY <1>8, <1>9, <1>12, <2>1, <2>2, <2>3, <2>4
<1>16. ASSUME NEW v \in Web!Session, Web!BackgroundEnds(v) PROVE HeardInv'
  <2>1. /\ sending[Web!InBackground(v)] # NoSocket
        /\ sending' = [sending EXCEPT ![Web!InBackground(v)] = NoSocket]
        /\ standing' = standing
        /\ \/ active' = active
           \/ sending[Web!InBackground(v)] \in closed /\ active' = [active EXCEPT ![v] = NoSocket]
        /\ closed' = closed /\ session' = session /\ deaf' = deaf
    BY <1>16 DEF Web!BackgroundEnds, Web!SendEnds
  <2>2. /\ DOMAIN sending' = Web!Run /\ sending'[Web!InBackground(v)] = NoSocket
        /\ \A t \in Web!WebSocket : sending'[Web!OnSocket(t)] = sending[Web!OnSocket(t)]
        /\ \A w \in Web!Session \ {v} : sending'[Web!InBackground(w)] = sending[Web!InBackground(w)]
    BY <2>1, RunsDiffer DEF HeardInv
  <2>3. ASSUME NEW t \in Web!WebSocket, NEW x, x = sending'[Web!OnSocket(t)], x # NoSocket
        PROVE  standing'[t] = "running" /\ x \in Web!WebSocket /\ Came(x, session[t])'
    BY <1>6, <2>1, <2>2, <2>3
  <2>4. ASSUME NEW w \in Web!Session, NEW x, x = sending'[Web!InBackground(w)], x # NoSocket
        PROVE  x \in Web!WebSocket /\ Came(x, w)'
    BY <1>7, <2>2, <2>4
  <2>5. PICK gone : gone = sending[Web!InBackground(v)]
    OBVIOUS
  <2>6. gone \in Web!WebSocket /\ Came(gone, v)
    BY <2>1, <2>5 DEF HeardInv
  <2>7. CASE active' = active
    BY <1>8, <1>9, <1>12, <2>1, <2>2, <2>3, <2>4, <2>7
  <2>8. CASE gone \in closed /\ active' = [active EXCEPT ![v] = NoSocket]
    <3>1. Came(gone, v)'
      BY <1>3, <2>6
    <3>2. /\ DOMAIN active' = Web!Session
          /\ \A w \in Web!Session : active'[w] = NoSocket \/ (active'[w] \in Web!WebSocket /\ Came(active[w], w)')
          /\ \A t \in Web!WebSocket \ closed' :
               kind[t] = "plain" /\ standing'[t] \in {"serving", "running"} => active'[session'[t]] = t \/ Other(t)'
      BY <1>4, <2>1, <2>6, <2>8, <3>1
    <3> QED BY <1>8, <1>9, <2>1, <2>2, <2>3, <2>4, <3>2
  <2> QED BY <2>1, <2>5, <2>7, <2>8
<1>17. ASSUME Web!Shutdown PROVE HeardInv'
  <2>1. /\ standing' = [t \in Web!WebSocket |-> IF standing[t] = "new" THEN "refused" ELSE standing[t]]
        /\ sending' = [r \in Web!Run |-> NoSocket]
        /\ active' = active /\ closed' = closed /\ session' = session /\ deaf' = deaf
    BY <1>17 DEF Web!Shutdown
  <2>2. /\ DOMAIN sending' = Web!Run
        /\ \A t \in Web!WebSocket : sending'[Web!OnSocket(t)] = NoSocket
        /\ \A w \in Web!Session : sending'[Web!InBackground(w)] = NoSocket
    BY <2>1, RunsDiffer
  <2>3. \A t \in Web!WebSocket : kind[t] = "plain" /\ standing'[t] \in {"serving", "running"}
           => standing[t] \in {"serving", "running"}
    BY <2>1
  <2> QED BY <1>8, <1>9, <1>12, <2>1, <2>2, <2>3
<1>18. ASSUME NEW s \in Web!WebSocket, NEW new, standing' \in {standing, [standing EXCEPT ![s] = new]},
              standing[s] # "running", kind[s] # "plain",
              active' = active, sending' = sending, deaf' = deaf, closed \subseteq closed'
       PROVE  HeardInv'
  <2>1. /\ \A t \in Web!WebSocket : standing[t] = "running" => standing'[t] = "running"
        /\ \A t \in Web!WebSocket : kind[t] = "plain" /\ standing'[t] \in {"serving", "running"}
              => standing[t] \in {"serving", "running"}
    BY <1>18 DEF HeardInv
  <2> QED BY <1>2, <1>18, <2>1, QuietStep
<1>19. ASSUME NEW s \in Web!WebSocket, Web!Refuse(s) PROVE HeardInv'
  <2>1. /\ standing[s] = "new" /\ standing' = [standing EXCEPT ![s] = "refused"]
        /\ active' = active /\ sending' = sending /\ deaf' = deaf /\ closed \subseteq closed'
    BY <1>19 DEF Web!Refuse
  <2>2. /\ \A t \in Web!WebSocket : standing[t] = "running" => standing'[t] = "running"
        /\ \A t \in Web!WebSocket : kind[t] = "plain" /\ standing'[t] \in {"serving", "running"}
              => standing[t] \in {"serving", "running"}
    BY <2>1 DEF HeardInv
  <2> QED BY <1>2, <2>1, <2>2, QuietStep
<1>20. ASSUME NEW s \in Web!WebSocket, Web!Vanish(s) PROVE HeardInv'
  BY <1>2, <1>20, QuietStep DEF Web!Vanish
<1>21. ASSUME NEW s \in Web!WebSocket, Web!Prompt(s) PROVE HeardInv'
  <2>1. /\ standing[s] = "serving" /\ standing' = [standing EXCEPT ![s] = "running"]
        /\ active' = active /\ sending' = sending /\ deaf' = deaf /\ closed \subseteq closed'
    BY <1>21 DEF Web!Prompt
  <2>2. /\ \A t \in Web!WebSocket : standing[t] = "running" => standing'[t] = "running"
        /\ \A t \in Web!WebSocket : kind[t] = "plain" /\ standing'[t] \in {"serving", "running"}
              => standing[t] \in {"serving", "running"}
    BY <2>1 DEF HeardInv
  <2> QED BY <1>2, <2>1, <2>2, QuietStep
<1>22. ASSUME NEW s \in Web!WebSocket, Web!LeaveChat(s) \/ Web!LeaveCanvas(s) PROVE HeardInv'
  BY <1>18, <1>22 DEF Web!LeaveChat, Web!LeaveCanvas, Web!Unregister
<1>23. ASSUME NEW v \in Web!Session, Web!RunAgent(v) PROVE HeardInv'
  BY <1>2, <1>23, QuietStep DEF Web!RunAgent
<1>24. ASSUME NEW s \in Web!WebSocket, Web!Evict(s) PROVE HeardInv'
  <2>0. standing[s] = "evicting" /\ active' = active /\ sending' = sending /\ deaf' = deaf
    BY <1>24 DEF Web!Evict
  <2>1. closed \subseteq closed' /\ standing' \in {standing, [standing EXCEPT ![s] = "serving"], [standing EXCEPT ![s] = "evicting"]}
    BY <1>24, RoomMade DEF Web!Evict
  <2>2. kind[s] # "plain"
    BY <2>0 DEF HeardInv
  <2> QED BY <1>18, <2>0, <2>1, <2>2
<1>25. ASSUME NEW s \in Web!WebSocket, NEW v \in Web!Session, Web!Register(s, v) PROVE HeardInv'
  <2>0. /\ standing[s] = "new" /\ kind[s] # "plain"
        /\ active' = active /\ sending' = sending /\ deaf' = deaf
    BY <1>25 DEF Web!Register, Web!Arrives
  <2>1. closed \subseteq closed' /\ standing' \in {[standing EXCEPT ![s] = "serving"], [standing EXCEPT ![s] = "evicting"]}
    BY <1>25, RoomMade DEF Web!Register
  <2> QED BY <1>18, <2>0, <2>1
<1> QED
  BY <1>10, <1>11, <1>13, <1>14, <1>15, <1>16, <1>17, <1>19, <1>20, <1>21, <1>22, <1>23, <1>24, <1>25
  DEF Web!SocketsNext

\* The table of chats and canvases: who is in it, and where the open sockets are that are
\* served, while their lists are taken apart.
TableInv ==
    /\ clients \in [Web!Session -> SUBSET Web!WebSocket]
    /\ evicted \in [Web!WebSocket -> SUBSET Web!WebSocket]
    /\ Cardinality(Web!Sessions(registry)) <= MaxSessions
    /\ \A v \in Web!Session : clients[v] # {} <=> v \in Web!Sessions(registry)
    /\ \A v \in Web!Session : \A s \in clients[v] :
         session[s] = v /\ kind[s] # "plain" /\ standing[s] \in {"serving", "running"}
    /\ \A s \in Web!WebSocket \ (closed \cup overwritten) :
         kind[s] \in {"chat", "canvas"} /\ standing[s] \in {"serving", "running"} =>
           s \in clients[session[s]] \/ \E t \in Web!WebSocket : s \in evicted[t]
    /\ \A t \in Web!WebSocket : standing[t] # "evicting" => evicted[t] = {}

LEMMA SessionsOfOrder ==
    /\ \A keys : \A v \in Web!Session : Web!Sessions(Web!AtEnd(keys, v)) = Web!Sessions(keys) \cup {v}
    /\ \A keys, v : Web!Sessions(Web!Without(keys, v)) = Web!Sessions(keys) \ {v}
BY DEF Web!Sessions, Web!AtEnd, Web!Without

LEMMA SameSize == \A S : Web!Cardinality(S) = Cardinality(S)
BY DEF Web!Cardinality, Cardinality

LEMMA SessionsCounted ==
    ASSUME NEW S \in SUBSET Web!Session, NEW v \in Web!Session
    PROVE  /\ Cardinality(S) \in Nat
           /\ Cardinality(S \cup {v}) <= Cardinality(S) + 1
           /\ Cardinality(S \ {v}) <= Cardinality(S)
<1>1. IsFiniteSet(Web!Session)
  BY SocketsAssumption, FS_Interval DEF Web!Session
<1>2. IsFiniteSet(S)
  BY <1>1, FS_Subset
<1>3. IsFiniteSet(S \ {v}) /\ Cardinality(S \ {v}) <= Cardinality(S)
  BY <1>2, FS_Subset
<1>4. Cardinality(S) \in Nat
  BY <1>2, FS_CardinalityType
<1>5. Cardinality(S \cup {v}) = IF v \in S THEN Cardinality(S) ELSE Cardinality(S) + 1
  BY <1>2, FS_AddElement
<1> QED BY <1>3, <1>4, <1>5

\* A step that leaves the table alone, and takes no socket of it out of service.
LEMMA TableKept ==
    ASSUME TableInv, Keeps, UNCHANGED <<registry, clients, evicted, overwritten>>, closed \subseteq closed',
           \A t \in Web!WebSocket : standing[t] = "evicting" => standing'[t] = "evicting",
           \A t \in Web!WebSocket : kind[t] # "plain" =>
              (standing[t] \in {"serving", "running"} <=> standing'[t] \in {"serving", "running"})
    PROVE  TableInv'
<1>1. Web!WebSocket' = Web!WebSocket /\ Web!Session' = Web!Session /\ kind' = kind
  BY CameStays DEF Keeps, Web!Session
<1>2. ASSUME NEW v \in Web!Session, NEW s \in clients[v]
      PROVE  session'[s] = v /\ kind[s] # "plain" /\ standing'[s] \in {"serving", "running"}
  BY DEF TableInv, Keeps
<1>3. ASSUME NEW s \in Web!WebSocket \ (closed' \cup overwritten), kind[s] \in {"chat", "canvas"},
             standing'[s] \in {"serving", "running"}
      PROVE  s \in clients[session'[s]] \/ \E t \in Web!WebSocket : s \in evicted[t]
  BY <1>3 DEF TableInv, Keeps
<1>4. ASSUME NEW t \in Web!WebSocket, standing'[t] # "evicting" PROVE evicted[t] = {}
  BY <1>4 DEF TableInv
<1>5. registry' = registry /\ clients' = clients /\ evicted' = evicted /\ overwritten' = overwritten
  OBVIOUS
<1>6. /\ clients \in [Web!Session -> SUBSET Web!WebSocket]
      /\ evicted \in [Web!WebSocket -> SUBSET Web!WebSocket]
      /\ Cardinality(Web!Sessions(registry)) <= MaxSessions
      /\ \A v \in Web!Session : clients[v] # {} <=> v \in Web!Sessions(registry)
  BY DEF TableInv
<1>7. Web!Sessions(registry)' = Web!Sessions(registry)
  BY <1>5 DEF Web!Sessions
<1> QED BY <1>1, <1>2, <1>3, <1>4, <1>5, <1>6, <1>7 DEF TableInv

\* What an arrival or an eviction changes of the table, for a socket that is not in it yet.
LEMMA TableChanged ==
    ASSUME TableInv, Keeps, NEW s \in Web!WebSocket, NEW v \in Web!Session, session'[s] = v,
           \A t \in Web!WebSocket \ {s} : standing'[t] = standing[t] /\ session'[t] = session[t],
           kind[s] # "plain", standing[s] \in {"new", "evicting"}, evicted[s] = {},
           Web!MakeRoom(s, v)
    PROVE  TableInv'
<1>1. Web!WebSocket' = Web!WebSocket /\ Web!Session' = Web!Session /\ kind' = kind
  BY CameStays DEF Keeps, Web!Session
<1>2. \A u \in Web!Session : s \notin clients[u]
  BY DEF TableInv
<1>3. Web!Sessions(registry) \in SUBSET Web!Session /\ MaxSessions \in Nat
  BY SocketsAssumption DEF Web!Sessions
<1>4. Web!Sessions(registry)' = Web!Sessions(registry')
  BY <1>1 DEF Web!Sessions
<1>5. ASSUME Cardinality(Web!Sessions(registry)) < MaxSessions, Web!Insert(s, v) PROVE TableInv'
  <2>1. /\ standing'[s] = "serving" /\ evicted' = [evicted EXCEPT ![s] = {}]
        /\ clients' = [clients EXCEPT ![v] = {s}] /\ overwritten' = overwritten \cup clients[v]
        /\ closed' = closed
        /\ registry' = IF v \in Web!Sessions(registry) THEN registry ELSE Web!AtEnd(registry, v)
    BY <1>5 DEF Web!Insert, HeardInv, Keeps
  <2>2. Web!Sessions(registry') = Web!Sessions(registry) \cup {v}
    BY <2>1, SessionsOfOrder
  <2>3. Cardinality(Web!Sessions(registry')) <= MaxSessions
    <3>1. /\ Cardinality(Web!Sessions(registry) \cup {v}) <= Cardinality(Web!Sessions(registry)) + 1
          /\ Cardinality(Web!Sessions(registry)) \in Nat
          /\ Cardinality(Web!Sessions(registry) \cup {v}) \in Nat
      BY <1>3, SessionsCounted
    <3> QED BY <1>3, <1>5, <2>2, <3>1
  <2>4. /\ clients' \in [Web!Session -> SUBSET Web!WebSocket] /\ evicted' = evicted
        /\ evicted' \in [Web!WebSocket -> SUBSET Web!WebSocket]
        /\ clients'[v] = {s} /\ \A u \in Web!Session \ {v} : clients'[u] = clients[u]
    BY <2>1 DEF TableInv
  <2>5. \A u \in Web!Session : clients'[u] # {} <=> u \in Web!Sessions(registry')
    BY <2>2, <2>4 DEF TableInv
  <2>6. ASSUME NEW u \in Web!Session, NEW t \in clients'[u]
        PROVE  session'[t] = u /\ kind[t] # "plain" /\ standing'[t] \in {"serving", "running"}
    BY <1>2, <2>1, <2>4 DEF TableInv
  <2>7. ASSUME NEW t \in Web!WebSocket \ (closed' \cup overwritten'), kind[t] \in {"chat", "canvas"},
               standing'[t] \in {"serving", "running"}
        PROVE  t \in clients'[session'[t]] \/ \E x \in Web!WebSocket : t \in evicted'[x]
    <3>1. CASE t = s
      BY <2>4, <3>1
    <3>2. CASE t # s
      <4>1. standing[t] \in {"serving", "running"} /\ session'[t] = session[t] /\ t \notin closed \cup overwritten
        BY <2>1, <2>7, <3>2
      <4>2. (t \in clients[session[t]] /\ session[t] \in Web!Session) \/ \E x \in Web!WebSocket : t \in evicted[x]
        BY <2>7, <4>1 DEF TableInv, Keeps
      <4> QED BY <2>1, <2>4, <2>7, <4>1, <4>2
    <3> QED BY <3>1, <3>2
  <2>8. ASSUME NEW t \in Web!WebSocket, standing'[t] # "evicting" PROVE evicted'[t] = {}
    BY <2>4, <2>8 DEF TableInv
  <2> QED BY <1>1, <1>4, <2>3, <2>4, <2>5, <2>6, <2>7, <2>8 DEF TableInv
<1>6. ASSUME NEW u \in Web!Session, NEW first \in clients[u],
             registry' = Web!Without(registry, u), clients' = [clients EXCEPT ![u] = {}],
             closed' = closed \cup {first}, evicted' = [evicted EXCEPT ![s] = clients[u] \ {first}],
             standing' = [standing EXCEPT ![s] = "evicting"], overwritten' = overwritten
      PROVE  TableInv'
  <2>1. Web!Sessions(registry') = Web!Sessions(registry) \ {u}
    BY <1>6, SessionsOfOrder
  <2>2. Cardinality(Web!Sessions(registry')) <= MaxSessions
    <3>1. Cardinality(Web!Sessions(registry')) <= Cardinality(Web!Sessions(registry))
      BY <1>3, <2>1, SessionsCounted
    <3>2. Cardinality(Web!Sessions(registry)) \in Nat /\ Cardinality(Web!Sessions(registry) \ {u}) \in Nat
      BY <1>3, SessionsCounted
    <3> QED BY <1>3, <2>1, <3>1, <3>2 DEF TableInv
  <2>3. /\ clients' \in [Web!Session -> SUBSET Web!WebSocket]
        /\ evicted' \in [Web!WebSocket -> SUBSET Web!WebSocket]
        /\ clients'[u] = {} /\ \A w \in Web!Session \ {u} : clients'[w] = clients[w]
        /\ evicted'[s] = clients[u] \ {first} /\ \A t \in Web!WebSocket \ {s} : evicted'[t] = evicted[t]
    BY <1>6 DEF TableInv
  <2>4. \A w \in Web!Session : clients'[w] # {} <=> w \in Web!Sessions(registry')
    BY <2>1, <2>3 DEF TableInv
  <2>5. ASSUME NEW w \in Web!Session, NEW t \in clients'[w]
        PROVE  session'[t] = w /\ kind[t] # "plain" /\ standing'[t] \in {"serving", "running"}
    BY <1>2, <2>3 DEF TableInv
  <2>6. standing'[s] = "evicting"
    BY <1>6 DEF Keeps
  <2>7. ASSUME NEW t \in Web!WebSocket \ (closed' \cup overwritten'), kind[t] \in {"chat", "canvas"},
               standing'[t] \in {"serving", "running"}
        PROVE  t \in clients'[session'[t]] \/ \E x \in Web!WebSocket : t \in evicted'[x]
    <3>1. t # s /\ t # first
      BY <1>6, <2>6, <2>7
    <3>2. standing[t] \in {"serving", "running"} /\ session'[t] = session[t] /\ t \notin closed \cup overwritten
      BY <1>6, <2>7, <3>1
    <3>3. (t \in clients[session[t]] /\ session[t] \in Web!Session) \/ \E x \in Web!WebSocket : t \in evicted[x]
      BY <2>7, <3>2 DEF TableInv, Keeps
    <3>4. CASE t \in clients[session[t]] /\ session[t] \in Web!Session
      BY <2>3, <3>1, <3>2, <3>4
    <3>5. CASE \E x \in Web!WebSocket : t \in evicted[x]
      BY <2>3, <3>5
    <3> QED BY <3>3, <3>4, <3>5
  <2>8. ASSUME NEW t \in Web!WebSocket, standing'[t] # "evicting" PROVE evicted'[t] = {}
    BY <2>3, <2>6, <2>8 DEF TableInv
  <2> QED BY <1>1, <1>4, <2>2, <2>3, <2>4, <2>5, <2>7, <2>8 DEF TableInv
<1>7. CASE Cardinality(Web!Sessions(registry)) < MaxSessions
  BY <1>5, <1>7, SameSize DEF Web!MakeRoom
<1>8. CASE ~(Cardinality(Web!Sessions(registry)) < MaxSessions)
  <2>1. PICK u \in Web!Sessions(registry) : \E first \in clients[u] :
           /\ registry' = Web!Without(registry, u) /\ clients' = [clients EXCEPT ![u] = {}]
           /\ closed' = closed \cup {first} /\ evicted' = [evicted EXCEPT ![s] = clients[u] \ {first}]
           /\ standing' = [standing EXCEPT ![s] = "evicting"] /\ overwritten' = overwritten
    BY <1>8, SameSize DEF Web!MakeRoom
  <2> QED BY <1>3, <1>6, <2>1
<1> QED BY <1>7, <1>8

LEMMA TableStep ==
    ASSUME TableInv, HeardInv, [Web!SocketsNext]_socketVars
    PROVE  TableInv'
<1>1. CASE UNCHANGED socketVars
  BY <1>1, TableKept DEF socketVars, Keeps, HeardInv
<1> SUFFICES ASSUME Web!SocketsNext PROVE TableInv'
  BY <1>1
<1>2. Keeps
  BY SocketsKeep
<1>3. /\ standing \in [Web!WebSocket -> {"new", "evicting", "serving", "running", "over", "refused"}]
      /\ session \in [Web!WebSocket -> Web!Session]
      /\ standing' \in [Web!WebSocket -> {"new", "evicting", "serving", "running", "over", "refused"}]
      /\ Web!WebSocket' = Web!WebSocket /\ Web!Session' = Web!Session /\ kind' = kind
  BY <1>2, CameStays DEF HeardInv, Keeps, Web!Session
<1>4. ASSUME UNCHANGED <<registry, clients, evicted, overwritten>>, closed \subseteq closed', NEW s \in Web!WebSocket,
             \/ kind[s] = "plain" /\ standing[s] # "evicting" /\ \E new : standing' = [standing EXCEPT ![s] = new]
             \/ standing[s] = "new" /\ standing' = [standing EXCEPT ![s] = "refused"]
             \/ standing[s] = "serving" /\ standing' = [standing EXCEPT ![s] = "running"]
             \/ standing[s] = "running" /\ standing' \in {standing, [standing EXCEPT ![s] = "serving"]}
      PROVE  TableInv'
  <2>1. /\ \A t \in Web!WebSocket : standing[t] = "evicting" => standing'[t] = "evicting"
        /\ \A t \in Web!WebSocket : kind[t] # "plain" =>
              (standing[t] \in {"serving", "running"} <=> standing'[t] \in {"serving", "running"})
    BY <1>3, <1>4
  <2> QED BY <1>2, <1>4, <2>1, TableKept
<1>5. ASSUME NEW s \in Web!WebSocket, Web!Refuse(s) PROVE TableInv'
  <2>1. UNCHANGED <<registry, clients, evicted, overwritten>> /\ closed \subseteq closed'
    BY <1>5 DEF Web!Refuse, Web!tableVars
  <2>2. standing[s] = "new" /\ standing' = [standing EXCEPT ![s] = "refused"]
    BY <1>5 DEF Web!Refuse
  <2> QED BY <1>4, <2>1, <2>2
<1>6. ASSUME NEW s \in Web!WebSocket, Web!Disconnect(s) PROVE TableInv'
  <2>1. UNCHANGED <<registry, clients, evicted, overwritten>> /\ closed \subseteq closed'
    BY <1>6 DEF Web!Disconnect, Web!tableVars
  <2>2. kind[s] = "plain" /\ standing[s] # "evicting" /\ \E new : standing' = [standing EXCEPT ![s] = new]
    BY <1>6 DEF Web!Disconnect
  <2> QED BY <1>4, <2>1, <2>2
<1>7. ASSUME NEW s \in Web!WebSocket, Web!Prompt(s) PROVE TableInv'
  <2>1. UNCHANGED <<registry, clients, evicted, overwritten>> /\ closed \subseteq closed'
    BY <1>7 DEF Web!Prompt, Web!tableVars
  <2>2. standing[s] = "serving" /\ standing' = [standing EXCEPT ![s] = "running"]
    BY <1>7 DEF Web!Prompt
  <2> QED BY <1>4, <2>1, <2>2
<1>8. ASSUME NEW s \in Web!WebSocket, Web!Step(s) \/ Web!StepEnds(s) PROVE TableInv'
  <2>1. UNCHANGED <<registry, clients, evicted, overwritten>> /\ closed \subseteq closed'
    BY <1>8 DEF Web!Step, Web!StepEnds, Web!tableVars
  <2>2. standing[s] = "running" /\ standing' \in {standing, [standing EXCEPT ![s] = "serving"]}
    BY <1>8 DEF Web!Step, Web!StepEnds
  <2> QED BY <1>4, <2>1, <2>2
<1>9. ASSUME NEW s \in Web!WebSocket, NEW v \in Web!Session, Web!Connect(s, v) PROVE TableInv'
  <2>1. UNCHANGED <<registry, clients, evicted, overwritten>> /\ closed \subseteq closed'
    BY <1>9 DEF Web!Connect, Web!Arrives, Web!tableVars
  <2>2. kind[s] = "plain" /\ standing[s] # "evicting" /\ \E new : standing' = [standing EXCEPT ![s] = new]
    BY <1>9 DEF Web!Connect, Web!Arrives
  <2> QED BY <1>4, <2>1, <2>2
<1>10. ASSUME UNCHANGED <<registry, clients, evicted, overwritten, standing>>, closed \subseteq closed'
       PROVE  TableInv'
  BY <1>2, <1>10, TableKept
<1>11. ASSUME NEW s \in Web!WebSocket, Web!Vanish(s) PROVE TableInv'
  BY <1>10, <1>11 DEF Web!Vanish, Web!tableVars
<1>12. ASSUME NEW v \in Web!Session, Web!RunAgent(v) \/ Web!BackgroundStep(v) \/ Web!BackgroundEnds(v)
       PROVE  TableInv'
  BY <1>10, <1>12 DEF Web!RunAgent, Web!BackgroundStep, Web!BackgroundEnds, Web!tableVars
<1>13. ASSUME Web!Shutdown PROVE TableInv'
  <2>1. /\ standing' = [t \in Web!WebSocket |-> IF standing[t] = "new" THEN "refused" ELSE standing[t]]
        /\ UNCHANGED <<registry, clients, evicted, overwritten, closed>>
    BY <1>13 DEF Web!Shutdown, Web!tableVars
  <2>2. /\ \A t \in Web!WebSocket : standing[t] = "evicting" => standing'[t] = "evicting"
        /\ \A t \in Web!WebSocket : kind[t] # "plain" =>
              (standing[t] \in {"serving", "running"} <=> standing'[t] \in {"serving", "running"})
    BY <2>1
  <2> QED BY <1>2, <2>1, <2>2, TableKept
<1>14. ASSUME NEW s \in Web!WebSocket, NEW v \in Web!Session, Web!Register(s, v) PROVE TableInv'
  <2>1. /\ kind[s] \in {"chat", "canvas"} /\ standing[s] = "new" /\ session' = [session EXCEPT ![s] = v]
        /\ evicted[s] = {}
    BY <1>14 DEF Web!Register, Web!Arrives, TableInv
  <2>2. session'[s] = v /\ \A t \in Web!WebSocket \ {s} : session'[t] = session[t]
    BY <1>3, <2>1
  <2>3. CASE v \notin Web!Sessions(registry)
    <3>1. Web!MakeRoom(s, v)
      BY <1>14, <2>3 DEF Web!Register
    <3>2. \A t \in Web!WebSocket \ {s} : standing'[t] = standing[t]
      BY <1>3, <3>1, RoomMade
    <3> QED BY <1>2, <2>1, <2>2, <3>1, <3>2, TableChanged
  <2>4. CASE v \in Web!Sessions(registry)
    <3>1. /\ standing' = [standing EXCEPT ![s] = "serving"]
          /\ clients' = [clients EXCEPT ![v] = clients[v] \cup {s}]
          /\ UNCHANGED <<closed, registry, evicted, overwritten>>
      BY <1>14, <2>4 DEF Web!Register
    <3>2. standing'[s] = "serving" /\ \A t \in Web!WebSocket \ {s} : standing'[t] = standing[t]
      BY <1>3, <3>1
    <3>3. /\ clients' \in [Web!Session -> SUBSET Web!WebSocket]
          /\ clients'[v] = clients[v] \cup {s} /\ \A u \in Web!Session \ {v} : clients'[u] = clients[u]
      BY <3>1 DEF TableInv
    <3>4. \A u \in Web!Session : clients'[u] # {} <=> u \in Web!Sessions(registry)
      BY <2>4, <3>3 DEF TableInv
    <3>5. ASSUME NEW u \in Web!Session, NEW t \in clients'[u]
          PROVE  session'[t] = u /\ kind[t] # "plain" /\ standing'[t] \in {"serving", "running"}
      <4>1. CASE t = s
        <5>1. s \notin clients[u]
          BY <2>1 DEF TableInv
        <5> QED BY <2>1, <2>2, <3>2, <3>3, <3>5, <4>1, <5>1
      <4>2. CASE t # s
        <5>1. t \in clients[u]
          BY <3>3, <4>2
        <5> QED BY <2>2, <3>2, <4>2, <5>1 DEF TableInv
      <4> QED BY <4>1, <4>2
    <3>6. ASSUME NEW t \in Web!WebSocket \ (closed \cup overwritten), kind[t] \in {"chat", "canvas"},
                 standing'[t] \in {"serving", "running"}
          PROVE  t \in clients'[session'[t]] \/ \E x \in Web!WebSocket : t \in evicted[x]
      <4>1. CASE t = s
        BY <2>2, <3>3, <4>1
      <4>2. CASE t # s
        <5>1. standing[t] \in {"serving", "running"} /\ session'[t] = session[t] /\ session[t] \in Web!Session
          BY <1>3, <2>2, <3>2, <3>6, <4>2
        <5> QED BY <3>3, <3>6, <5>1 DEF TableInv
      <4> QED BY <4>1, <4>2
    <3>7. ASSUME NEW t \in Web!WebSocket, standing'[t] # "evicting" PROVE evicted[t] = {}
      BY <2>1, <3>2, <3>7 DEF TableInv
    <3>8. Web!Sessions(registry)' = Web!Sessions(registry)
      BY <3>1 DEF Web!Sessions
    <3>9. evicted \in [Web!WebSocket -> SUBSET Web!WebSocket] /\ Cardinality(Web!Sessions(registry)) <= MaxSessions
      BY DEF TableInv
    <3> QED BY <1>3, <3>1, <3>3, <3>4, <3>5, <3>6, <3>7, <3>8, <3>9 DEF TableInv
  <2> QED BY <2>3, <2>4
<1>15. ASSUME NEW s \in Web!WebSocket, Web!Evict(s) PROVE TableInv'
  <2>1. standing[s] = "evicting" /\ session' = session /\ kind[s] # "plain" /\ session[s] \in Web!Session
    BY <1>15 DEF Web!Evict, HeardInv
  <2>2. CASE evicted[s] = {}
    <3>1. Web!MakeRoom(s, session[s])
      BY <1>15, <2>2 DEF Web!Evict
    <3>2. \A t \in Web!WebSocket \ {s} : standing'[t] = standing[t]
      BY <1>3, <3>1, RoomMade
    <3>3. PICK v \in Web!Session : v = session[s]
      BY <2>1
    <3> QED BY <1>2, <2>1, <2>2, <3>1, <3>2, <3>3, TableChanged
  <2>3. CASE evicted[s] # {}
    <3>1. PICK first \in evicted[s] :
             closed' = closed \cup {first} /\ evicted' = [evicted EXCEPT ![s] = evicted[s] \ {first}]
      BY <1>15, <2>3 DEF Web!Evict
    <3>2. UNCHANGED <<standing, registry, clients, overwritten>>
      BY <1>15, <2>3 DEF Web!Evict
    <3>3. /\ evicted' \in [Web!WebSocket -> SUBSET Web!WebSocket]
          /\ evicted'[s] = evicted[s] \ {first} /\ \A t \in Web!WebSocket \ {s} : evicted'[t] = evicted[t]
      BY <3>1 DEF TableInv
    <3>4. ASSUME NEW t \in Web!WebSocket \ (closed' \cup overwritten), kind[t] \in {"chat", "canvas"},
                 standing[t] \in {"serving", "running"}
          PROVE  t \in clients[session[t]] \/ \E x \in Web!WebSocket : t \in evicted'[x]
      BY <3>1, <3>3, <3>4 DEF TableInv
    <3>5. ASSUME NEW t \in Web!WebSocket, standing[t] # "evicting" PROVE evicted'[t] = {}
      BY <2>1, <3>3, <3>5 DEF TableInv
    <3>6. Web!Sessions(registry)' = Web!Sessions(registry)
      BY <3>2 DEF Web!Sessions
    <3>7. /\ clients \in [Web!Session -> SUBSET Web!WebSocket]
          /\ Cardinality(Web!Sessions(registry)) <= MaxSessions
          /\ \A u \in Web!Session : clients[u] # {} <=> u \in Web!Sessions(registry)
          /\ \A u \in Web!Session : \A t \in clients[u] :
               session[t] = u /\ kind[t] # "plain" /\ standing[t] \in {"serving", "running"}
      BY DEF TableInv
    <3> QED BY <1>3, <2>1, <3>2, <3>3, <3>4, <3>5, <3>6, <3>7 DEF TableInv
  <2> QED BY <2>2, <2>3
<1>16. ASSUME NEW s \in Web!WebSocket, Web!LeaveChat(s) \/ Web!LeaveCanvas(s) PROVE TableInv'
  <2>1. PICK v \in Web!Session : v = session[s]
    BY <1>3
  <2>2. /\ standing[s] = "serving" /\ standing' = [standing EXCEPT ![s] = "over"] /\ closed' = closed \cup {s}
        /\ clients' = [clients EXCEPT ![v] = clients[v] \ {s}]
        /\ registry' = IF clients[v] \ {s} = {} THEN Web!Without(registry, v) ELSE registry
        /\ UNCHANGED <<session, evicted, overwritten>>
    BY <1>16, <2>1 DEF Web!LeaveChat, Web!LeaveCanvas, Web!Unregister
  <2>3. /\ clients' \in [Web!Session -> SUBSET Web!WebSocket]
        /\ clients'[v] = clients[v] \ {s} /\ \A u \in Web!Session \ {v} : clients'[u] = clients[u]
        /\ standing'[s] = "over" /\ \A t \in Web!WebSocket \ {s} : standing'[t] = standing[t]
    BY <1>3, <2>2 DEF TableInv
  <2>4. Web!Sessions(registry') = IF clients[v] \ {s} = {} THEN Web!Sessions(registry) \ {v}
                                  ELSE Web!Sessions(registry)
    BY <2>2, SessionsOfOrder
  <2>5. Cardinality(Web!Sessions(registry')) <= MaxSessions
    <3>1. Web!Sessions(registry) \in SUBSET Web!Session /\ MaxSessions \in Nat
      BY SocketsAssumption DEF Web!Sessions
    <3>2. /\ Cardinality(Web!Sessions(registry) \ {v}) <= Cardinality(Web!Sessions(registry))
          /\ Cardinality(Web!Sessions(registry)) \in Nat /\ Cardinality(Web!Sessions(registry) \ {v}) \in Nat
      BY <3>1, SessionsCounted
    <3> QED BY <2>4, <3>1, <3>2 DEF TableInv
  <2>6. \A u \in Web!Session : clients'[u] # {} <=> u \in Web!Sessions(registry')
    BY <2>3, <2>4 DEF TableInv
  <2>7. ASSUME NEW u \in Web!Session, NEW t \in clients'[u]
        PROVE  session[t] = u /\ kind[t] # "plain" /\ standing'[t] \in {"serving", "running"}
    <3>1. t # s /\ t \in clients[u]
      BY <2>1, <2>3 DEF TableInv
    <3> QED BY <2>3, <3>1 DEF TableInv
  <2>8. ASSUME NEW t \in Web!WebSocket \ (closed' \cup overwritten), kind[t] \in {"chat", "canvas"},
               standing'[t] \in {"serving", "running"}
        PROVE  t \in clients'[session[t]] \/ \E x \in Web!WebSocket : t \in evicted[x]
    <3>1. t # s /\ standing[t] \in {"serving", "running"} /\ t \notin closed \cup overwritten
      BY <2>2, <2>3, <2>8
    <3>2. (t \in clients[session[t]] /\ session[t] \in Web!Session) \/ \E x \in Web!WebSocket : t \in evicted[x]
      BY <1>3, <2>8, <3>1 DEF TableInv
    <3> QED BY <2>3, <3>1, <3>2
  <2>9. ASSUME NEW t \in Web!WebSocket, standing'[t] # "evicting" PROVE evicted[t] = {}
    BY <2>2, <2>3, <2>9 DEF TableInv
  <2>10. Web!Sessions(registry)' = Web!Sessions(registry')
    BY DEF Web!Sessions, Web!Session
  <2>11. evicted \in [Web!WebSocket -> SUBSET Web!WebSocket]
    BY DEF TableInv
  <2> QED BY <1>3, <2>2, <2>3, <2>5, <2>6, <2>7, <2>8, <2>9, <2>10, <2>11 DEF TableInv
<1> QED
  BY <1>5, <1>6, <1>7, <1>8, <1>9, <1>11, <1>12, <1>13, <1>14, <1>15, <1>16 DEF Web!SocketsNext

LEMMA SocketsRight ==
    ASSUME HeardInv, TableInv
    PROVE  Web!RunsHeard /\ Web!TableRight
<1>1. Web!RunsHeard
  BY DEF HeardInv, Other, Came, Web!RunsHeard
<1>2. Web!TableRight
  BY SameSize DEF TableInv, Web!TableRight
<1> QED BY <1>1, <1>2

LEMMA SocketsStart ==
    ASSUME MCInit
    PROVE  HeardInv /\ TableInv
<1> USE DEF MCInit, Web!SocketsInit
<1>1. HeardInv
  BY SocketsAssumption, RunsDiffer DEF HeardInv, Web!Session, Other, Came
<1>2. TableInv
  <2>1. Web!Sessions(registry) = {}
    BY DEF Web!Sessions
  <2>2. Cardinality(Web!Sessions(registry)) = 0
    BY <2>1, FS_EmptySet
  <2> QED BY <2>1, <2>2, SocketsAssumption DEF TableInv
<1> QED BY <1>1, <1>2

-------------------------------------------------------------------------------
(* The threads of Slack.                                                   *)

\* What a message has yet to be heard by is the handlers from its place on, up to those
\* there were when it came.
Ahead(rest, place, list) ==
    /\ place <= Len(list) /\ place + Len(rest) <= Len(list) + 1
    /\ \A i \in 1..Len(rest), j \in 1..Len(list) : j + 1 = place + i => rest[i] = list[j]

SlackInv ==
    /\ handlers \in Seq(SlackHandler) /\ hearing \in [SlackMessage -> Nat]
    /\ missed \in [SlackMessage -> Seq(SlackHandler)]
    /\ \A m \in SlackMessage : m \in through => hearing[m] > 0 /\ missed[m] = <<>>
    /\ \A m \in SlackMessage : m \notin through /\ hearing[m] > 0 => Ahead(missed[m], hearing[m], handlers)
    /\ kept \in [Slack!SlackThread -> Seq(SlackMessage)]
    /\ \A t \in Slack!SlackThread : \A i \in DOMAIN kept[t] : kept[t][i] = t /\ hearing[kept[t][i]] > 0
    /\ \A t \in Slack!SlackThread : \A i, j \in DOMAIN kept[t] : kept[t][i] = kept[t][j] => i = j
    /\ \A m \in SlackMessage : hearing[m] > 0 => kept[m] # <<>>

LEMMA SlackStep ==
    ASSUME SlackInv, [Slack!SlackNext]_slackVars
    PROVE  SlackInv'
<1>1. ASSUME UNCHANGED <<handlers, hearing, missed, through, kept>> PROVE SlackInv'
  BY <1>1 DEF SlackInv, Ahead, Slack!SlackThread
<1>2. CASE \/ UNCHANGED slackVars \/ Slack!Start \/ Slack!Stop
           \/ \E t \in Slack!SlackThread : Slack!GetOrCreate(t) \/ Slack!EndConversation(t)
           \/ \E a \in Asked : Slack!OnName(a) \/ Slack!Ask(a) \/ Slack!AskedReturns(a)
  <2>1. UNCHANGED <<handlers, hearing, missed, through, kept>>
    BY <1>2 DEF slackVars, Slack!Start, Slack!Stop, Slack!GetOrCreate, Slack!EndConversation,
         Slack!OnName, Slack!Ask, Slack!AskedReturns, Slack!threadVars
  <2> QED BY <1>1, <2>1
<1>3. Slack!SlackThread = SlackMessage /\ Slack!SlackThread' = Slack!SlackThread
  BY DEF Slack!SlackThread
<1>4. ASSUME NEW h \in SlackHandler, Slack!OnEvent(h) PROVE SlackInv'
  <2>1. /\ handlers' = Append(handlers, h) /\ UNCHANGED <<hearing, missed, through, kept>>
    BY <1>4 DEF Slack!OnEvent, Slack!threadVars
  <2>2. /\ handlers' \in Seq(SlackHandler) /\ Len(handlers') = Len(handlers) + 1
        /\ \A i \in 1..Len(handlers) : handlers'[i] = handlers[i]
    BY <2>1 DEF SlackInv
  <2>3. ASSUME NEW m \in SlackMessage, m \notin through, hearing[m] > 0 PROVE Ahead(missed'[m], hearing'[m], handlers')
    <3>1. Ahead(missed[m], hearing[m], handlers) /\ hearing[m] \in Nat /\ Len(missed[m]) \in Nat /\ Len(handlers) \in Nat
      BY <2>3 DEF SlackInv
    <3>2. /\ hearing[m] <= Len(handlers) /\ hearing[m] + Len(missed[m]) <= Len(handlers) + 1
          /\ \A i \in 1..Len(missed[m]), j \in 1..Len(handlers) :
                j + 1 = hearing[m] + i => missed[m][i] = handlers[j]
      BY <3>1 DEF Ahead
    <3>3. ASSUME NEW i \in 1..Len(missed[m]), NEW j \in 1..Len(handlers'), j + 1 = hearing[m] + i
          PROVE  missed[m][i] = handlers'[j]
      <4>1. Len(handlers') \in Nat
        BY <2>2, <3>1
      <4>2. j \in 1..Len(handlers)
        BY <3>1, <3>2, <3>3, <4>1
      <4>3. missed[m][i] = handlers[j]
        BY <3>2, <3>3, <4>2
      <4> QED BY <2>2, <4>2, <4>3
    <3>4. hearing[m] <= Len(handlers') /\ hearing[m] + Len(missed[m]) <= Len(handlers') + 1
      BY <2>2, <3>1, <3>2
    <3> QED BY <2>1, <3>3, <3>4 DEF Ahead
  <2> QED BY <1>3, <2>1, <2>2, <2>3 DEF SlackInv
<1>5. ASSUME NEW m \in SlackMessage, Slack!Arrive(m) PROVE SlackInv'
  <2>1. /\ hearing[m] = 0 /\ hearing' = [hearing EXCEPT ![m] = 1] /\ missed' = [missed EXCEPT ![m] = handlers]
        /\ kept' = [kept EXCEPT ![m] = Append(kept[m], m)]
        /\ through' = IF handlers = <<>> THEN through \cup {m} ELSE through
        /\ handlers' = handlers
    BY <1>5 DEF Slack!Arrive
  <2>2. /\ hearing' \in [SlackMessage -> Nat] /\ missed' \in [SlackMessage -> Seq(SlackHandler)]
        /\ hearing'[m] = 1 /\ missed'[m] = handlers
        /\ \A n \in SlackMessage \ {m} : hearing'[n] = hearing[n] /\ missed'[n] = missed[n]
    BY <2>1 DEF SlackInv
  <2>3. ASSUME NEW n \in SlackMessage, n \in through' PROVE hearing'[n] > 0 /\ missed'[n] = <<>>
    BY <2>1, <2>2, <2>3 DEF SlackInv
  <2>4. ASSUME NEW n \in SlackMessage, n \notin through', hearing'[n] > 0 PROVE Ahead(missed'[n], hearing'[n], handlers')
    <3>1. CASE n = m
      <4>1. handlers # <<>> /\ handlers \in Seq(SlackHandler)
        BY <2>1, <2>4, <3>1 DEF SlackInv
      <4>2. Len(handlers) \in Nat /\ Len(handlers) # 0
        BY <4>1
      <4>3. /\ hearing'[m] <= Len(handlers') /\ hearing'[m] + Len(missed'[m]) <= Len(handlers') + 1
            /\ \A i \in 1..Len(missed'[m]), j \in 1..Len(handlers') : j + 1 = hearing'[m] + i => i = j
        BY <2>1, <2>2, <4>2
      <4>4. Ahead(missed'[m], hearing'[m], handlers')
        BY <2>1, <2>2, <4>3 DEF Ahead
      <4> QED BY <3>1, <4>4
    <3>2. CASE n # m
      BY <2>1, <2>2, <2>4, <3>2 DEF SlackInv, Ahead
    <3> QED BY <3>1, <3>2
  <2>5. \A t \in SlackMessage : \A i \in DOMAIN kept[t] : kept[t][i] = t /\ kept[t][i] # m
    BY <1>3, <2>1 DEF SlackInv
  <2>6. ASSUME NEW t \in SlackMessage
        PROVE  /\ kept'[t] \in Seq(SlackMessage)
               /\ \A i \in DOMAIN kept'[t] : kept'[t][i] = t /\ hearing'[kept'[t][i]] > 0
               /\ \A i, j \in DOMAIN kept'[t] : kept'[t][i] = kept'[t][j] => i = j
               /\ hearing'[t] > 0 => kept'[t] # <<>>
    <3>1. /\ kept[t] \in Seq(SlackMessage) /\ \A i \in DOMAIN kept[t] : kept[t][i] = t /\ hearing[kept[t][i]] > 0
          /\ \A i, j \in DOMAIN kept[t] : kept[t][i] = kept[t][j] => i = j
          /\ hearing[t] > 0 => kept[t] # <<>>
      BY <1>3 DEF SlackInv
    <3>2. CASE t # m /\ kept'[t] = kept[t]
      BY <2>2, <2>5, <3>1, <3>2
    <3>3. CASE t = m /\ kept'[t] = Append(kept[t], m)
      <4>1. \A i \in DOMAIN kept[t] : FALSE
        BY <2>5, <3>3
      <4>2. kept[t] = <<>>
        BY <3>1, <4>1
      <4>3. kept'[t] = <<m>>
        BY <3>3, <4>2
      <4> QED BY <2>2, <3>3, <4>3
    <3>4. (t # m /\ kept'[t] = kept[t]) \/ (t = m /\ kept'[t] = Append(kept[t], m))
      BY <1>3, <2>1 DEF SlackInv
    <3> QED BY <3>2, <3>3, <3>4
  <2>7. kept' \in [SlackMessage -> Seq(SlackMessage)]
    BY <1>3, <2>1, <2>6 DEF SlackInv
  <2> QED BY <1>3, <2>1, <2>2, <2>3, <2>4, <2>6, <2>7 DEF SlackInv
<1>6. ASSUME NEW m \in SlackMessage, Slack!HandlerReturns(m) PROVE SlackInv'
  <2>1. /\ hearing[m] > 0 /\ m \notin through /\ handlers' = handlers /\ kept' = kept
        /\ missed' = [missed EXCEPT ![m] = IF missed[m] # <<>> /\ Head(missed[m]) = handlers[hearing[m]]
                                           THEN Tail(missed[m]) ELSE missed[m]]
        /\ IF hearing[m] = Len(handlers) THEN through' = through \cup {m} /\ hearing' = hearing
           ELSE hearing' = [hearing EXCEPT ![m] = hearing[m] + 1] /\ through' = through
    BY <1>6 DEF Slack!HandlerReturns, Slack!Hears, Slack!GoesOn
  <2>2. /\ Ahead(missed[m], hearing[m], handlers) /\ hearing[m] \in Nat /\ missed[m] \in Seq(SlackHandler) /\ handlers \in Seq(SlackHandler)
    BY <2>1 DEF SlackInv
  <2>3. /\ missed'[m] \in Seq(SlackHandler)
        /\ missed[m] # <<>> => /\ Len(missed'[m]) = Len(missed[m]) - 1
                               /\ \A i \in 1..Len(missed'[m]) : missed'[m][i] = missed[m][i + 1]
        /\ missed[m] = <<>> => missed'[m] = <<>>
    <3>1. missed'[m] = IF missed[m] # <<>> /\ Head(missed[m]) = handlers[hearing[m]]
                       THEN Tail(missed[m]) ELSE missed[m]
      BY <2>1 DEF SlackInv
    <3>2. CASE missed[m] = <<>>
      BY <2>2, <3>1, <3>2
    <3>3. CASE missed[m] # <<>>
      <4>1. 1 \in 1..Len(missed[m]) /\ Head(missed[m]) = missed[m][1]
        BY <2>2, <3>3
      <4>2. missed[m][1] = handlers[hearing[m]]
        <5>1. hearing[m] \in 1..Len(handlers) /\ hearing[m] + 1 = hearing[m] + 1
          BY <2>1, <2>2 DEF Ahead
        <5> QED BY <2>2, <4>1, <5>1 DEF Ahead
      <4>3. missed'[m] = Tail(missed[m])
        BY <3>1, <3>3, <4>1, <4>2
      <4> QED BY <2>2, <3>3, <4>3
    <3> QED BY <3>2, <3>3
  <2>4. /\ hearing' \in [SlackMessage -> Nat] /\ missed' \in [SlackMessage -> Seq(SlackHandler)]
        /\ hearing'[m] = IF hearing[m] = Len(handlers) THEN hearing[m] ELSE hearing[m] + 1
        /\ \A n \in SlackMessage \ {m} : hearing'[n] = hearing[n] /\ missed'[n] = missed[n]
    <3>1. hearing \in [SlackMessage -> Nat] /\ missed \in [SlackMessage -> Seq(SlackHandler)]
      BY DEF SlackInv
    <3>2. hearing' = [hearing EXCEPT ![m] = hearing'[m]] /\ hearing'[m] \in Nat
          /\ hearing'[m] = IF hearing[m] = Len(handlers) THEN hearing[m] ELSE hearing[m] + 1
      BY <2>1, <2>2, <3>1
    <3>3. PICK rest : missed' = [missed EXCEPT ![m] = rest] /\ rest \in Seq(SlackHandler)
      BY <2>1, <2>3, <3>1
    <3>4. hearing' \in [SlackMessage -> Nat] /\ \A n \in SlackMessage \ {m} : hearing'[n] = hearing[n]
      BY <3>1, <3>2
    <3>5. missed' \in [SlackMessage -> Seq(SlackHandler)] /\ \A n \in SlackMessage \ {m} : missed'[n] = missed[n]
      BY <3>1, <3>3
    <3> QED BY <3>2, <3>4, <3>5
  <2>5. ASSUME NEW n \in SlackMessage, n \in through' PROVE hearing'[n] > 0 /\ missed'[n] = <<>>
    <3>1. CASE n # m
      BY <2>1, <2>4, <2>5, <3>1 DEF SlackInv
    <3>2. CASE n = m
      <4>1. hearing[m] = Len(handlers)
        BY <2>1, <2>5, <3>2
      <4>2. Len(missed[m]) <= 1 /\ Len(missed[m]) \in Nat
        BY <2>2, <4>1 DEF Ahead
      <4>3. missed'[m] = <<>>
        BY <2>2, <2>3, <4>2
      <4> QED BY <2>1, <2>4, <3>2, <4>1, <4>3
    <3> QED BY <3>1, <3>2
  <2>6. ASSUME NEW n \in SlackMessage, n \notin through', hearing'[n] > 0 PROVE Ahead(missed'[n], hearing'[n], handlers')
    <3>1. CASE n # m
      BY <2>1, <2>4, <2>6, <3>1 DEF SlackInv, Ahead
    <3>2. CASE n = m
      <4>1. hearing[m] # Len(handlers) /\ hearing'[m] = hearing[m] + 1
        BY <2>1, <2>4, <2>6, <3>2
      <4>2. hearing[m] <= Len(handlers) /\ Len(handlers) \in Nat /\ Len(missed[m]) \in Nat
        BY <2>2 DEF Ahead
      <4>3. CASE missed[m] = <<>>
        <5>1. missed'[m] = <<>>
          BY <2>3, <4>3
        <5>2. hearing'[n] <= Len(handlers') /\ hearing'[n] + Len(missed'[n]) <= Len(handlers') + 1
          <6>1. Len(missed'[m]) = 0 /\ handlers' = handlers /\ hearing[m] \in Nat
            BY <2>1, <2>2, <5>1
          <6>2. PICK h, l : h = hearing[m] /\ l = Len(handlers) /\ h \in Nat /\ l \in Nat /\ h <= l /\ h # l
            BY <2>2, <4>1, <4>2
          <6>3. h + 1 <= l /\ h + 1 + 0 <= l + 1
            BY <6>2
          <6> QED BY <3>2, <4>1, <6>1, <6>2, <6>3
        <5>3. \A i \in 1..Len(missed'[n]) : FALSE
          BY <3>2, <5>1
        <5> QED BY <5>2, <5>3 DEF Ahead
      <4>4. CASE missed[m] # <<>>
        <5>1. Len(missed'[m]) = Len(missed[m]) - 1 /\ Len(missed[m]) > 0
          BY <2>2, <2>3, <4>4
        <5>2. ASSUME NEW i \in 1..Len(missed'[m]), NEW j \in 1..Len(handlers), j + 1 = hearing'[m] + i
              PROVE  missed'[m][i] = handlers[j]
          <6>1. i + 1 \in 1..Len(missed[m]) /\ missed'[m][i] = missed[m][i + 1] /\ j + 1 = hearing[m] + (i + 1)
            <7>1. Len(missed'[m]) \in Nat /\ i \in 1..Len(missed'[m]) /\ Len(missed[m]) = Len(missed'[m]) + 1
              BY <2>3, <4>2, <5>1
            <7>2. i + 1 \in 1..Len(missed[m])
              BY <7>1
            <7>3. missed'[m][i] = missed[m][i + 1]
              BY <2>3, <4>4, <7>1
            <7>4. j + 1 = hearing[m] + (i + 1)
              BY <2>2, <4>1, <4>2, <5>2, <7>1
            <7> QED BY <7>2, <7>3, <7>4
          <6> QED BY <2>2, <6>1 DEF Ahead
        <5> QED BY <2>1, <2>2, <3>2, <4>1, <4>2, <5>1, <5>2 DEF Ahead
      <4> QED BY <4>3, <4>4
    <3> QED BY <3>1, <3>2
  <2>7. \A n \in SlackMessage : hearing[n] > 0 => hearing'[n] > 0
    BY <2>1, <2>4 DEF SlackInv
  <2>8. /\ kept \in [Slack!SlackThread -> Seq(SlackMessage)]
        /\ \A t \in Slack!SlackThread : \A i \in DOMAIN kept[t] : kept[t][i] = t /\ hearing'[kept[t][i]] > 0
        /\ \A t \in Slack!SlackThread : \A i, j \in DOMAIN kept[t] : kept[t][i] = kept[t][j] => i = j
    BY <1>3, <2>7 DEF SlackInv
  <2>9. /\ handlers' \in Seq(SlackHandler) /\ kept' = kept
        /\ \A n \in SlackMessage : hearing'[n] > 0 => kept[n] # <<>>
    <3>1. hearing[m] > 0 /\ handlers' = handlers /\ kept' = kept
      BY <2>1, <2>2
    <3>2. ASSUME NEW n \in SlackMessage, hearing'[n] > 0 PROVE hearing[n] > 0
      BY <2>4, <3>1, <3>2
    <3> QED BY <3>1, <3>2 DEF SlackInv
  <2>10. /\ kept' \in [Slack!SlackThread' -> Seq(SlackMessage)]
         /\ \A t \in Slack!SlackThread' : \A i \in DOMAIN kept'[t] : kept'[t][i] = t /\ hearing'[kept'[t][i]] > 0
         /\ \A t \in Slack!SlackThread' : \A i, j \in DOMAIN kept'[t] : kept'[t][i] = kept'[t][j] => i = j
         /\ \A n \in SlackMessage : hearing'[n] > 0 => kept'[n] # <<>>
    BY <1>3, <2>8, <2>9
  <2>11. \A n \in SlackMessage : n \in through' => hearing'[n] > 0 /\ missed'[n] = <<>>
    BY <2>5
  <2>12. \A n \in SlackMessage : n \notin through' /\ hearing'[n] > 0 => Ahead(missed'[n], hearing'[n], handlers')
    BY <2>6
  <2> QED BY <2>4, <2>9, <2>10, <2>11, <2>12 DEF SlackInv
<1> QED BY <1>2, <1>4, <1>5, <1>6 DEF Slack!SlackNext

LEMMA SlackHeard ==
    ASSUME SlackInv
    PROVE  Slack!HeardByAll
<1>1. ASSUME NEW m \in SlackMessage, hearing[m] > 0 PROVE \E i \in DOMAIN kept[m] : kept[m][i] = m
  <2>1. kept[m] \in Seq(SlackMessage) /\ kept[m] # <<>> /\ \A i \in DOMAIN kept[m] : kept[m][i] = m
    BY <1>1 DEF SlackInv, Slack!SlackThread
  <2>2. 1 \in DOMAIN kept[m]
    BY <2>1
  <2> QED BY <2>1, <2>2
<1>2. \A m \in SlackMessage : [n \in SlackMessage |-> n][m] = m
  OBVIOUS
<1> QED BY <1>1, <1>2 DEF SlackInv, Slack!HeardByAll, Slack!SlackThread

LEMMA SlackStart ==
    ASSUME MCInit
    PROVE  SlackInv
BY DEF MCInit, Slack!SlackInit, SlackInv, Slack!SlackThread

-------------------------------------------------------------------------------
(* The hooks.                                                              *)

Said == [name : HookNames, verdict : {"allow", "deny", "modify"}]

\* Of two hooks of a table the first has to be heard no later.
NoLater(table, a, b) == table[a].kind.priority <= table[b].kind.priority

\* An emission has heard, or has yet to hear, every hook that stayed; those it has heard
\* come before those it has yet to hear.
Emitted(said, ahead, stay, table) ==
    /\ said \in Seq(Said)
    /\ stay \subseteq {said[k].name : k \in DOMAIN said} \cup Hook!Names(ahead)
    /\ \A n \in stay : table[n] # NoHook /\ table[n].enabled
    /\ \A k \in DOMAIN said : said[k].name \notin Hook!Names(ahead)
    /\ \A a, b \in stay : <<a, b>> \in ahead => NoLater(table, a, b)
    /\ \A k \in DOMAIN said : \A b \in stay :
         said[k].name \in stay /\ b \in Hook!Names(ahead) => NoLater(table, said[k].name, b)
    /\ \A k, m \in DOMAIN said : k < m =>
         /\ said[k].name # said[m].name
         /\ said[k].name \in stay /\ said[m].name \in stay => NoLater(table, said[k].name, said[m].name)

\* What an emission makes of what it has heard.
Concluded(said, verdict, what) ==
    /\ verdict \in {"allow", "deny", "modify"}
    /\ verdict = "deny" <=> \E k \in DOMAIN said : said[k].verdict = "deny"
    /\ verdict = "modify" => \E k \in DOMAIN said : said[k].verdict = "modify"
    /\ \A k \in DOMAIN said :
         /\ said[k].verdict = "modify"
         /\ \A m \in DOMAIN said : said[m].verdict = "modify" => m <= k
         => what = said[k].name

HookInv ==
    /\ DOMAIN hooks = HookNames /\ DOMAIN index = Hook!EventType
    /\ \A f \in {phase, todo, results, decision, content, steady} : DOMAIN f = Emissions
    /\ \A t \in Hook!EventType : \A a, b \in HookNames : <<a, b>> \in index[t] => NoLater(hooks, a, b)
    /\ \A e \in Emissions : phase[e] = "new" => results[e] = <<>> /\ steady[e] = {}
    /\ \A e \in Emissions : phase[e] = "returned" => todo[e] = {}
    /\ \A e \in Emissions : Emitted(results[e], todo[e], steady[e], hooks)
    /\ \A e \in Emissions : Concluded(results[e], decision[e], content[e])

\* The index is in the order of the priorities.
LEMMA IndexOrdered ==
    ASSUME NEW table, NEW names, NEW t, NEW a, NEW b, <<a, b>> \in Hook!Rebuilt(table, names, t)
    PROVE  NoLater(table, a, b)
BY DEF Hook!Rebuilt, NoLater

LEMMA NamesLeft ==
    ASSUME NEW names, NEW n
    PROVE  /\ Hook!Names(Hook!Without(names, n)) = Hook!Names(names) \ {n}
           /\ Hook!Without(names, n) \subseteq names
BY DEF Hook!Names, Hook!Without

\* Hooks that are changed have not stayed.
LEMMA FewerStay ==
    ASSUME NEW said, NEW ahead, NEW stay, NEW table, Emitted(said, ahead, stay, table),
           NEW stay2 \in SUBSET stay, NEW table2, \A n \in stay2 : table2[n] = table[n]
    PROVE  Emitted(said, ahead, stay2, table2)
<1>1. \A a, b \in stay2 : NoLater(table, a, b) => NoLater(table2, a, b)
  BY DEF NoLater
<1> QED BY <1>1 DEF Emitted

\* The next name is passed over without a hook that stayed.
LEMMA PassedOver ==
    ASSUME NEW said, NEW ahead, NEW stay, NEW table, Emitted(said, ahead, stay, table),
           NEW n, n \notin stay
    PROVE  Emitted(said, Hook!Without(ahead, n), stay, table)
BY NamesLeft DEF Emitted

LEMMA AskedNext ==
    ASSUME NEW said, NEW ahead, NEW stay, NEW table, Emitted(said, ahead, stay, table),
           NEW n \in HookNames, n \in Hook!First(ahead), NEW verdict \in {"allow", "deny", "modify"}
    PROVE  Emitted(Append(said, [name |-> n, verdict |-> verdict]), Hook!Without(ahead, n), stay, table)
<1> DEFINE x == [name |-> n, verdict |-> verdict]
           more == Append(said, x)
           rest == Hook!Without(ahead, n)
<1>1. x \in Said /\ x.name = n
  BY DEF Said
<1> HIDE DEF x
<1>2. /\ said \in Seq(Said) /\ more \in Seq(Said) /\ Len(said) \in Nat /\ Len(more) = Len(said) + 1
      /\ DOMAIN said = 1..Len(said) /\ DOMAIN more = 1..(Len(said) + 1)
      /\ more[Len(said) + 1] = x /\ \A k \in DOMAIN said : more[k] = said[k]
  BY <1>1 DEF Emitted
<1> HIDE DEF more
<1>3. Hook!Names(rest) = Hook!Names(ahead) \ {n} /\ rest \subseteq ahead
  BY NamesLeft
<1> HIDE DEF rest
<1>4. n \in Hook!Names(ahead) /\ \A m \in Hook!Names(ahead) : <<n, m>> \in ahead
  BY DEF Hook!First
<1>5. \A k \in DOMAIN more : (k \in DOMAIN said /\ more[k] = said[k]) \/ (k = Len(said) + 1 /\ more[k].name = n)
  BY <1>1, <1>2
<1>6. stay \subseteq {more[k].name : k \in DOMAIN more} \cup Hook!Names(rest)
  <2> SUFFICES ASSUME NEW y \in stay, y \notin Hook!Names(rest)
               PROVE  \E k \in DOMAIN more : y = more[k].name
    OBVIOUS
  <2>1. CASE y = n
    BY <1>1, <1>2, <2>1
  <2>2. CASE y # n
    <3>1. PICK k \in DOMAIN said : y = said[k].name
      BY <1>3, <2>2 DEF Emitted
    <3> QED BY <1>2, <3>1
  <2> QED BY <2>1, <2>2
<1>7. \A k \in DOMAIN more : more[k].name \notin Hook!Names(rest)
  BY <1>3, <1>5 DEF Emitted
<1>8. \A a, b \in stay : <<a, b>> \in rest => NoLater(table, a, b)
  BY <1>3 DEF Emitted
<1>9. ASSUME NEW k \in DOMAIN more, NEW b \in stay, more[k].name \in stay, b \in Hook!Names(rest)
      PROVE  NoLater(table, more[k].name, b)
  <2>1. CASE k \in DOMAIN said /\ more[k] = said[k]
    BY <1>3, <1>9, <2>1 DEF Emitted
  <2>2. CASE more[k].name = n
    BY <1>3, <1>4, <1>9, <2>2 DEF Emitted
  <2> QED BY <1>5, <2>1, <2>2
<1>10. ASSUME NEW k \in DOMAIN more, NEW m \in DOMAIN more, k < m
       PROVE  /\ more[k].name # more[m].name
              /\ more[k].name \in stay /\ more[m].name \in stay => NoLater(table, more[k].name, more[m].name)
  <2>1. k \in DOMAIN said /\ more[k] = said[k]
    BY <1>2, <1>10
  <2>2. CASE m \in DOMAIN said /\ more[m] = said[m]
    BY <1>10, <2>1, <2>2 DEF Emitted
  <2>3. CASE more[m].name = n
    BY <1>4, <2>1, <2>3 DEF Emitted
  <2> QED BY <1>5, <2>2, <2>3
<1>11. \A y \in stay : table[y] # NoHook /\ table[y].enabled
  BY DEF Emitted
<1> QED BY <1>2, <1>6, <1>7, <1>8, <1>9, <1>10, <1>11 DEF Emitted, x, more, rest

LEMMA ConcludedNext ==
    ASSUME NEW said \in Seq(Said), NEW was, NEW what, Concluded(said, was, what),
           NEW n \in HookNames, NEW verdict \in {"allow", "deny", "modify"}
    PROVE  Concluded(Append(said, [name |-> n, verdict |-> verdict]), Hook!Added(was, verdict),
                     IF verdict = "modify" THEN n ELSE what)
<1> DEFINE x == [name |-> n, verdict |-> verdict]
           more == Append(said, x)
<1>1. x \in Said /\ x.name = n /\ x.verdict = verdict
  BY DEF Said
<1> HIDE DEF x
<1>2. /\ Len(said) \in Nat /\ DOMAIN said = 1..Len(said) /\ DOMAIN more = 1..(Len(said) + 1)
      /\ more[Len(said) + 1] = x /\ \A k \in DOMAIN said : more[k] = said[k]
  BY <1>1
<1> HIDE DEF more
<1>3. \A k \in DOMAIN more : (k \in DOMAIN said /\ more[k] = said[k]) \/ (k = Len(said) + 1 /\ more[k] = x)
  BY <1>2
<1>4. \A v : (\E k \in DOMAIN more : more[k].verdict = v) <=> (v = verdict \/ \E k \in DOMAIN said : said[k].verdict = v)
  BY <1>1, <1>2, <1>3
<1>5. Hook!Added(was, verdict) \in {"allow", "deny", "modify"}
  BY DEF Hook!Added, Concluded
<1>6. Hook!Added(was, verdict) = "deny" <=> \E k \in DOMAIN more : more[k].verdict = "deny"
  BY <1>4 DEF Hook!Added, Concluded
<1>7. Hook!Added(was, verdict) = "modify" => \E k \in DOMAIN more : more[k].verdict = "modify"
  BY <1>4 DEF Hook!Added, Concluded
<1>8. ASSUME NEW k \in DOMAIN more, more[k].verdict = "modify",
             \A m \in DOMAIN more : more[m].verdict = "modify" => m <= k
      PROVE  (IF verdict = "modify" THEN n ELSE what) = more[k].name
  <2>1. CASE verdict = "modify"
    <3>1. Len(said) + 1 <= k
      BY <1>1, <1>2, <1>8, <2>1
    <3> QED BY <1>1, <1>2, <1>3, <2>1, <3>1
  <2>2. CASE verdict # "modify"
    <3>1. k \in DOMAIN said /\ more[k] = said[k]
      BY <1>1, <1>3, <1>8, <2>2
    <3>2. \A m \in DOMAIN said : said[m].verdict = "modify" => m <= k
      BY <1>2, <1>8
    <3> QED BY <1>8, <2>2, <3>1, <3>2 DEF Concluded
  <2> QED BY <2>1, <2>2
<1> QED BY <1>5, <1>6, <1>7, <1>8 DEF Concluded, x, more

LEMMA StayIsNamed == HookInv => \A e \in Emissions : steady[e] \subseteq HookNames
<1> SUFFICES ASSUME HookInv, NEW e \in Emissions PROVE steady[e] \subseteq HookNames
  OBVIOUS
<1>1. Emitted(results[e], todo[e], steady[e], hooks)
  BY DEF HookInv
<1>2. \A k \in DOMAIN results[e] : results[e][k] \in Said
  BY <1>1 DEF Emitted
<1> QED BY <1>1, <1>2 DEF Emitted, Hook!Names, Said

\* A change of the table, or of what has been set up.
LEMMA TableOfHooks ==
    ASSUME HookInv, UNCHANGED <<phase, todo, results, decision, content>>,
           DOMAIN hooks' = HookNames, DOMAIN index' = Hook!EventType, DOMAIN steady' = Emissions,
           \A t \in Hook!EventType : \A a, b \in HookNames : <<a, b>> \in index'[t] => NoLater(hooks', a, b),
           \A e \in Emissions : steady'[e] \subseteq steady[e],
           \A e \in Emissions : \A n \in steady'[e] : hooks'[n] = hooks[n]
    PROVE  HookInv'
<1>1. ASSUME NEW e \in Emissions PROVE Emitted(results'[e], todo'[e], steady'[e], hooks')
  <2>1. /\ Emitted(results[e], todo[e], steady[e], hooks) /\ steady'[e] \in SUBSET steady[e]
        /\ \A n \in steady'[e] : hooks'[n] = hooks[n]
    BY DEF HookInv
  <2>2. Emitted(results[e], todo[e], steady'[e], hooks')
    BY <2>1, FewerStay
  <2> QED BY <2>2
<1>2. \A e \in Emissions : Concluded(results'[e], decision'[e], content'[e])
  BY DEF HookInv
<1>3. /\ \A e \in Emissions : phase'[e] = "new" => results'[e] = <<>> /\ steady'[e] = {}
      /\ \A e \in Emissions : phase'[e] = "returned" => todo'[e] = {}
      /\ \A f \in {phase', todo', results', decision', content', steady'} : DOMAIN f = Emissions
  BY DEF HookInv
<1>4. Hook!EventType' = Hook!EventType /\ Emissions' = Emissions
  BY DEF Hook!EventType, EventOf, Emissions
<1> QED BY <1>1, <1>2, <1>3, <1>4 DEF HookInv

LEMMA HookStep ==
    ASSUME HookInv, [Hook!HooksNext]_hookVars
    PROVE  HookInv'
<1>1. CASE UNCHANGED hookVars
  BY <1>1, TableOfHooks DEF hookVars, HookInv
<1> SUFFICES ASSUME Hook!HooksNext PROVE HookInv'
  BY <1>1
<1> USE DEF Hook!runVars, Hook!tableVars, Hook!lifeVars
\* A new table with its index, whose changes have been noted.
<1>2. ASSUME NEW table, NEW names, NEW changed, Hook!Tabled(table, names), DOMAIN table = HookNames,
             \A e \in Emissions : steady'[e] = steady[e] \ changed, DOMAIN steady' = Emissions,
             \A n \in HookNames \ changed : table[n] = hooks[n],
             UNCHANGED <<phase, todo, results, decision, content>>
      PROVE  HookInv'
  <2>1. /\ hooks' = table /\ DOMAIN index' = Hook!EventType
        /\ \A t \in Hook!EventType : index'[t] = Hook!Rebuilt(table, names, t)
    BY <1>2 DEF Hook!Tabled
  <2>2. \A t \in Hook!EventType : \A a, b \in HookNames : <<a, b>> \in index'[t] => NoLater(hooks', a, b)
    BY <2>1, IndexOrdered
  <2>3. \A e \in Emissions : steady[e] \subseteq HookNames
    BY StayIsNamed
  <2>4. \A e \in Emissions : \A n \in steady'[e] : hooks'[n] = hooks[n]
    BY <1>2, <2>1, <2>3
  <2>5. DOMAIN hooks' = HookNames /\ \A e \in Emissions : steady'[e] \subseteq steady[e]
    BY <1>2, <2>1
  <2> QED BY <1>2, <2>1, <2>2, <2>4, <2>5, TableOfHooks
<1>3. ASSUME NEW n \in HookNames, NEW k, Hook!Register(n, k) PROVE HookInv'
  <2>1. PICK names : Hook!Tabled([hooks EXCEPT ![n] = [kind |-> k, enabled |-> TRUE]], names)
    BY <1>3 DEF Hook!Register
  <2>2. PICK table : table = [hooks EXCEPT ![n] = [kind |-> k, enabled |-> TRUE]]
    OBVIOUS
  <2>3. DOMAIN table = HookNames /\ \A m \in HookNames \ {n} : table[m] = hooks[m]
    BY <2>2 DEF HookInv
  <2>4. /\ DOMAIN steady' = Emissions /\ \A e \in Emissions : steady'[e] = steady[e] \ {n}
        /\ UNCHANGED <<phase, todo, results, decision, content>>
    BY <1>3 DEF Hook!Register, Hook!Changes
  <2> QED BY <1>2, <2>1, <2>2, <2>3, <2>4
<1>4. ASSUME Hook!Load PROVE HookInv'
  <2>1. PICK found, names, table :
           /\ Hook!Changes(found) /\ Hook!Tabled(table, names)
           /\ DOMAIN table = HookNames /\ \A n \in HookNames \ found : table[n] = hooks[n]
    BY <1>4 DEF Hook!Load
  <2>2. /\ DOMAIN steady' = Emissions /\ \A e \in Emissions : steady'[e] = steady[e] \ found
        /\ UNCHANGED <<phase, todo, results, decision, content>>
    BY <1>4, <2>1 DEF Hook!Load, Hook!Changes
  <2> QED BY <1>2, <2>1, <2>2
<1>5. ASSUME NEW n \in HookNames, Hook!Unregister(n) PROVE HookInv'
  <2>1. PICK names : Hook!Tabled([hooks EXCEPT ![n] = NoHook], names)
    BY <1>5 DEF Hook!Unregister
  <2>2. PICK table : table = [hooks EXCEPT ![n] = NoHook]
    OBVIOUS
  <2>3. DOMAIN table = HookNames /\ \A m \in HookNames \ {n} : table[m] = hooks[m]
    BY <2>2 DEF HookInv
  <2>4. /\ DOMAIN steady' = Emissions /\ \A e \in Emissions : steady'[e] = steady[e] \ {n}
        /\ UNCHANGED <<phase, todo, results, decision, content>>
    BY <1>5 DEF Hook!Unregister, Hook!Changes
  <2> QED BY <1>2, <2>1, <2>2, <2>3, <2>4
<1>6. ASSUME NEW n \in HookNames, Hook!Switch(n) PROVE HookInv'
  <2>1. /\ hooks' = [hooks EXCEPT ![n] = [kind |-> hooks[n].kind, enabled |-> ~hooks[n].enabled]]
        /\ UNCHANGED <<index, phase, todo, results, decision, content>>
        /\ DOMAIN steady' = Emissions /\ \A e \in Emissions : steady'[e] = steady[e] \ {n}
    BY <1>6 DEF Hook!Switch, Hook!Changes
  <2>2. /\ DOMAIN hooks' = HookNames /\ \A m \in HookNames : hooks'[m].kind = hooks[m].kind
        /\ \A m \in HookNames \ {n} : hooks'[m] = hooks[m]
    BY <2>1 DEF HookInv
  <2>3. \A t \in Hook!EventType : \A a, b \in HookNames : <<a, b>> \in index'[t] => NoLater(hooks', a, b)
    BY <2>1, <2>2 DEF HookInv, NoLater
  <2>4. /\ DOMAIN index' = Hook!EventType /\ \A e \in Emissions : steady'[e] \subseteq steady[e]
    BY <2>1 DEF HookInv
  <2>5. \A e \in Emissions : steady[e] \subseteq HookNames
    BY StayIsNamed
  <2>6. \A e \in Emissions : \A m \in steady'[e] : hooks'[m] = hooks[m]
    BY <2>1, <2>2, <2>5
  <2> QED BY <2>1, <2>2, <2>3, <2>4, <2>6, TableOfHooks
<1>7. ASSUME UNCHANGED <<hooks, index, steady, phase, todo, results, decision, content>> PROVE HookInv'
  BY <1>7, TableOfHooks DEF HookInv
<1>8. CASE Hook!Initialize \/ Hook!SetUpNext
  BY <1>7, <1>8 DEF Hook!Initialize, Hook!SetUpNext
<1>9. CASE Hook!Shutdown
  <2>1. /\ UNCHANGED <<hooks, index, phase, todo, results, decision, content>>
        /\ DOMAIN steady' = Emissions /\ \A e \in Emissions : steady'[e] = steady[e]
    BY <1>9 DEF Hook!Shutdown, Hook!Changes
  <2> QED BY <2>1, TableOfHooks DEF HookInv
<1>10. CASE Hook!SetUpDone
  <2>1. UNCHANGED <<phase, todo, results, decision, content>>
    BY <1>10 DEF Hook!SetUpDone
  <2>2. CASE UNCHANGED <<hooks, index, steady>>
    BY <1>7, <2>1, <2>2
  <2>3. CASE /\ hooks' = [n \in HookNames |-> NoHook] /\ index' = [t \in Hook!EventType |-> {}]
             /\ steady' = [e \in Emissions |-> {}]
    BY <2>1, <2>3, TableOfHooks
  <2> QED BY <1>10, <2>2, <2>3 DEF Hook!SetUpDone
\* A step of an emission.
<1>11. ASSUME UNCHANGED <<hooks, index>>, NEW e \in Emissions,
              \A f \in {phase', todo', results', decision', content', steady'} : DOMAIN f = Emissions,
              \A x \in Emissions \ {e} :
                /\ phase'[x] = phase[x] /\ todo'[x] = todo[x] /\ results'[x] = results[x]
                /\ decision'[x] = decision[x] /\ content'[x] = content[x] /\ steady'[x] = steady[x],
              phase'[e] # "new", phase'[e] = "returned" => todo'[e] = {},
              Emitted(results'[e], todo'[e], steady'[e], hooks), Concluded(results'[e], decision'[e], content'[e])
       PROVE  HookInv'
  <2>1. \A x \in Emissions : Emitted(results'[x], todo'[x], steady'[x], hooks')
    BY <1>11 DEF HookInv
  <2>2. \A x \in Emissions : Concluded(results'[x], decision'[x], content'[x])
    BY <1>11 DEF HookInv
  <2>3. /\ \A x \in Emissions : phase'[x] = "new" => results'[x] = <<>> /\ steady'[x] = {}
        /\ \A x \in Emissions : phase'[x] = "returned" => todo'[x] = {}
    BY <1>11 DEF HookInv
  <2>4. Hook!EventType' = Hook!EventType /\ Emissions' = Emissions
    BY DEF Hook!EventType, EventOf, Emissions
  <2> QED BY <1>11, <2>1, <2>2, <2>3, <2>4 DEF HookInv
<1>12. ASSUME NEW e \in Emissions, Hook!Emit(e) PROVE HookInv'
  <2>1. PICK names : names = index[EventOf[e]]
    OBVIOUS
  <2>2. PICK stay : stay = {n \in Hook!Names(names) : hooks[n] # NoHook /\ hooks[n].enabled}
    OBVIOUS
  <2>3. PICK p : p = IF names = {} THEN "returned" ELSE "running"
    OBVIOUS
  <2>4. /\ phase[e] = "new" /\ todo' = [todo EXCEPT ![e] = names] /\ phase' = [phase EXCEPT ![e] = p]
        /\ steady' = [steady EXCEPT ![e] = stay]
        /\ UNCHANGED <<hooks, index, results, decision, content>>
    BY <1>12, <2>1, <2>2, <2>3 DEF Hook!Emit
  <2>5. EventOf[e] \in Hook!EventType
    BY DEF Hook!EventType
  <2>6. results[e] = <<>> /\ Concluded(results[e], decision[e], content[e])
    BY <2>4 DEF HookInv
  <2>7. Emitted(results[e], names, stay, hooks)
    <3>1. \A a, b \in stay : <<a, b>> \in names => NoLater(hooks, a, b)
      BY <2>1, <2>2, <2>5 DEF HookInv, Hook!Names
    <3>2. results[e] \in Seq(Said) /\ \A k \in DOMAIN results[e] : FALSE
      BY <2>6
    <3> QED BY <2>2, <3>1, <3>2 DEF Emitted
  <2>8. /\ \A f \in {phase', todo', results', decision', content', steady'} : DOMAIN f = Emissions
        /\ \A x \in Emissions \ {e} :
             /\ phase'[x] = phase[x] /\ todo'[x] = todo[x] /\ results'[x] = results[x]
             /\ decision'[x] = decision[x] /\ content'[x] = content[x] /\ steady'[x] = steady[x]
        /\ phase'[e] = p /\ todo'[e] = names /\ results'[e] = results[e] /\ decision'[e] = decision[e]
        /\ content'[e] = content[e] /\ steady'[e] = stay
    BY <2>4 DEF HookInv
  <2>9. p # "new" /\ (p = "returned" => names = {})
    BY <2>3
  <2> QED BY <1>11, <2>4, <2>6, <2>7, <2>8, <2>9
<1>13. ASSUME NEW e \in Emissions, Hook!Skip(e) PROVE HookInv'
  <2>1. PICK n \in HookNames : Hook!Goes(e, n) /\ ~Hook!Answers(n)
    BY <1>13 DEF Hook!Skip
  <2>2. PICK rest : rest = Hook!Without(todo[e], n)
    OBVIOUS
  <2>3. PICK p : p = IF rest = {} THEN "returned" ELSE "running"
    OBVIOUS
  <2>4. /\ todo' = [todo EXCEPT ![e] = rest] /\ phase' = [phase EXCEPT ![e] = p]
        /\ UNCHANGED <<hooks, index, results, decision, content, steady>>
    BY <1>13, <2>1, <2>2, <2>3 DEF Hook!Skip, Hook!Goes
  <2>5. Emitted(results[e], todo[e], steady[e], hooks) /\ Concluded(results[e], decision[e], content[e])
    BY DEF HookInv
  <2>6. n \notin steady[e]
    BY <2>1, <2>5 DEF Hook!Answers, Emitted
  <2>7. Emitted(results[e], rest, steady[e], hooks)
    BY <2>2, <2>5, <2>6, PassedOver
  <2>8. /\ \A f \in {phase', todo', results', decision', content', steady'} : DOMAIN f = Emissions
        /\ \A x \in Emissions \ {e} :
             /\ phase'[x] = phase[x] /\ todo'[x] = todo[x] /\ results'[x] = results[x]
             /\ decision'[x] = decision[x] /\ content'[x] = content[x] /\ steady'[x] = steady[x]
        /\ phase'[e] = p /\ todo'[e] = rest /\ results'[e] = results[e] /\ decision'[e] = decision[e]
        /\ content'[e] = content[e] /\ steady'[e] = steady[e]
    BY <2>4 DEF HookInv
  <2>9. p # "new" /\ (p = "returned" => rest = {})
    BY <2>3
  <2> QED BY <1>11, <2>4, <2>5, <2>7, <2>8, <2>9
<1>14. ASSUME NEW e \in Emissions, Hook!Ask(e) PROVE HookInv'
  <2>1. PICK n, how : n \in HookNames /\
           /\ Hook!Goes(e, n)
           /\ LET verdict == Hook!Verdict(hooks[n].kind, how) IN
              /\ results' = [results EXCEPT ![e] = Append(results[e], [name |-> n, verdict |-> verdict])]
              /\ decision' = [decision EXCEPT ![e] = Hook!Added(decision[e], verdict)]
              /\ content' = [content EXCEPT ![e] = IF verdict = "modify" THEN n ELSE content[e]]
    BY <1>14 DEF Hook!Ask
  <2>2. PICK verdict : verdict = Hook!Verdict(hooks[n].kind, how)
    OBVIOUS
  <2>3. verdict \in {"allow", "deny", "modify"}
    BY <2>2 DEF Hook!Verdict
  <2>4. PICK rest : rest = Hook!Without(todo[e], n)
    OBVIOUS
  <2>5. PICK p : p = IF rest = {} THEN "returned" ELSE "running"
    OBVIOUS
  <2>6. /\ todo' = [todo EXCEPT ![e] = rest] /\ phase' = [phase EXCEPT ![e] = p] /\ n \in Hook!First(todo[e])
        /\ UNCHANGED <<hooks, index, steady>>
    BY <1>14, <2>1, <2>4, <2>5 DEF Hook!Ask, Hook!Goes
  <2>7. Emitted(results[e], todo[e], steady[e], hooks) /\ Concluded(results[e], decision[e], content[e])
    BY DEF HookInv
  <2>8. PICK said : said = Append(results[e], [name |-> n, verdict |-> verdict])
    OBVIOUS
  <2>9. Emitted(said, rest, steady[e], hooks)
    <3>1. n \in HookNames
      BY <2>1
    <3>2. Emitted(Append(results[e], [name |-> n, verdict |-> verdict]), Hook!Without(todo[e], n),
                  steady[e], hooks)
      BY <2>3, <2>6, <2>7, <3>1, AskedNext
    <3> QED BY <2>4, <2>8, <3>2
  <2>10. PICK d, c : d = Hook!Added(decision[e], verdict) /\ c = IF verdict = "modify" THEN n ELSE content[e]
    OBVIOUS
  <2>11. Concluded(said, d, c)
    <3>1. results[e] \in Seq(Said)
      BY <2>7 DEF Emitted
    <3>2. Concluded(Append(results[e], [name |-> n, verdict |-> verdict]), Hook!Added(decision[e], verdict),
                    IF verdict = "modify" THEN n ELSE content[e])
      <4>1. n \in HookNames
        BY <2>1
      <4> QED BY <2>3, <2>7, <3>1, <4>1, ConcludedNext
    <3> QED BY <2>8, <2>10, <3>2
  <2>12. /\ \A f \in {phase', todo', results', decision', content', steady'} : DOMAIN f = Emissions
        /\ \A x \in Emissions \ {e} :
             /\ phase'[x] = phase[x] /\ todo'[x] = todo[x] /\ results'[x] = results[x]
             /\ decision'[x] = decision[x] /\ content'[x] = content[x] /\ steady'[x] = steady[x]
    BY <2>1, <2>2, <2>6 DEF HookInv
  <2>13. p # "new" /\ (p = "returned" => rest = {})
    BY <2>5
  <2>14. /\ phase'[e] = p /\ todo'[e] = rest /\ results'[e] = said /\ decision'[e] = d
         /\ content'[e] = c /\ steady'[e] = steady[e]
    BY <2>1, <2>2, <2>6, <2>8, <2>10 DEF HookInv
  <2>15. Emitted(results'[e], todo'[e], steady'[e], hooks)
    BY <2>9, <2>14, Zenon
  <2>16. Concluded(results'[e], decision'[e], content'[e])
    BY <2>11, <2>14, Zenon
  <2> QED BY <1>11, <2>6, <2>12, <2>13, <2>14, <2>15, <2>16
<1> QED
  BY <1>3, <1>4, <1>5, <1>6, <1>8, <1>9, <1>10, <1>12, <1>13, <1>14 DEF Hook!HooksNext

LEMMA HooksHeard ==
    ASSUME HookInv
    PROVE  Hook!EveryHookHeard
<1> SUFFICES ASSUME NEW e \in Emissions
    PROVE  LET Heard == {results[e][k].name : k \in DOMAIN results[e]}
               Of(v) == {k \in DOMAIN results[e] : results[e][k].verdict = v}
           IN /\ phase[e] = "returned" => steady[e] \subseteq Heard
              /\ \A k, m \in DOMAIN results[e] :
                  k < m => /\ results[e][k].name # results[e][m].name
                           /\ {results[e][k].name, results[e][m].name} \subseteq steady[e] =>
                                  hooks[results[e][k].name].kind.priority
                                      <= hooks[results[e][m].name].kind.priority
              /\ decision[e] = "deny" <=> Of("deny") # {}
              /\ decision[e] = "modify" => Of("modify") # {}
              /\ \A k \in Of("modify") :
                   (\A m \in Of("modify") : m <= k) => content[e] = results[e][k].name
  BY DEF Hook!EveryHookHeard
<1>1. Emitted(results[e], todo[e], steady[e], hooks) /\ Concluded(results[e], decision[e], content[e])
  BY DEF HookInv
<1>2. phase[e] = "returned" => steady[e] \subseteq {results[e][k].name : k \in DOMAIN results[e]}
  BY <1>1 DEF HookInv, Emitted, Hook!Names
<1> QED BY <1>1, <1>2 DEF Emitted, Concluded, NoLater

LEMMA HooksStart ==
    ASSUME MCInit
    PROVE  HookInv
<1>1. \A e \in Emissions : /\ results[e] = <<>> /\ todo[e] = {} /\ steady[e] = {} /\ decision[e] = "allow"
                           /\ phase[e] = "new"
  BY DEF MCInit, Hook!HooksInit
<1>2. ASSUME NEW e \in Emissions
      PROVE  Emitted(results[e], todo[e], steady[e], hooks) /\ Concluded(results[e], decision[e], content[e])
  <2>1. results[e] = <<>>
    BY <1>1
  <2>2. results[e] \in Seq(Said) /\ \A k \in DOMAIN results[e] : FALSE
    BY <2>1
  <2> QED BY <1>1, <2>2 DEF Emitted, Concluded
<1> QED BY <1>1, <1>2 DEF MCInit, Hook!HooksInit, HookInv

-------------------------------------------------------------------------------
(* A canvas and its pages.                                                 *)

ASSUME CanvasAssumption ==
    /\ IsFiniteSet(CanvasSocket) /\ CanvasSocket \subseteq Nat
    /\ \A s \in CanvasSocket : PageOf[s] \in Page

\* A list as the order of its sockets.
IsOrder(list) ==
    /\ \A a, b \in CanvasSocket :
          <<a, b>> \in list => <<a, a>> \in list /\ <<b, b>> \in list /\ (<<b, a>> \in list => a = b)
    /\ \A a, b, d \in CanvasSocket : <<a, b>> \in list /\ <<b, d>> \in list => <<a, d>> \in list

Touches(says, c) == says.put[c] # 0 \/ says.clear \/ c \in says.removed

\* A broadcast of a change that is not newer than the last one says what the session holds,
\* as long as it is the last.
Cast(b, last, now) ==
    /\ IsOrder(b.dropped) /\ b.next \in Nat /\ b.version \in Nat /\ b.version <= last
    /\ b.says.put \in [Component -> Nat]
    /\ b.next > 0 /\ b.version = last => \A c \in Component : Touches(b.says, c) => b.says.put[c] = now[c]

\* What differs between a page and the session is in a broadcast that is still to come, and
\* one that would undo a newer change comes before that one.
Current(view, now, since, due, casts) ==
    \A c \in Component :
       /\ view[c] = now[c] \/ \E k \in due : Touches(casts[k].says, c)
       /\ \A k \in due :
             Touches(casts[k].says, c) /\ casts[k].version >= since =>
                \/ casts[k].says.put[c] = now[c]
                \/ \E j \in due : Touches(casts[j].says, c) /\ casts[j].version > casts[k].version

\* The broadcasts that have a socket still before them, and the sockets that count.
DueTo(s, casts, list) ==
    {k \in Artist : /\ casts[k].next > 0
                    /\ s \in Drawing!Ahead(IF casts[k].live THEN list ELSE casts[k].dropped, casts[k].next)}
Showing == {s \in Drawing!Members(conns) : link[s] = "in" /\ PageOf[s] \notin behind}

\* A page has one socket at a time.
OneEach(links) ==
    \A s, t \in CanvasSocket :
       PageOf[s] = PageOf[t] /\ s < t /\ links[t] # "new" => links[s] \in {"gone", "over"}

CanvasInv ==
    /\ components \in [Component -> Nat] /\ drawn \in Nat
    /\ shown \in [Page -> [Component -> Nat]] /\ seen \in [Page -> Nat]
    /\ \A p \in Page : seen[p] <= drawn
    /\ DOMAIN link = CanvasSocket /\ DOMAIN casting = Artist
    /\ IsOrder(conns) /\ \A s \in Drawing!Members(conns) : link[s] # "new"
    /\ OneEach(link)
    /\ \A k \in Artist : Cast(casting[k], drawn, components)
    /\ \A s \in Showing :
          Current(shown[PageOf[s]], components, seen[PageOf[s]], DueTo(s, casting, conns), casting)

LEMMA SocketsCounted ==
    ASSUME NEW S \in SUBSET CanvasSocket, NEW T \in SUBSET S
    PROVE  /\ Drawing!Cardinality(S) \in Nat /\ Drawing!Cardinality(T) \in Nat
           /\ Drawing!Cardinality(T) <= Drawing!Cardinality(S)
           /\ Drawing!Cardinality(T) = Drawing!Cardinality(S) => T = S
<1>1. \A R : Drawing!Cardinality(R) = Cardinality(R)
  BY DEF Drawing!Cardinality, Cardinality
<1>2. IsFiniteSet(S)
  BY CanvasAssumption, FS_Subset
<1>3. IsFiniteSet(T) /\ Cardinality(T) <= Cardinality(S) /\ (Cardinality(T) = Cardinality(S) => T = S)
  BY <1>2, FS_Subset
<1>4. Cardinality(S) \in Nat /\ Cardinality(T) \in Nat
  BY <1>2, <1>3, FS_CardinalityType
<1> QED BY <1>1, <1>3, <1>4

\* The places of a list: every socket has one of its own, in its order.
LEMMA PlacesOfOrder ==
    ASSUME NEW list, IsOrder(list), NEW s \in Drawing!Members(list)
    PROVE  /\ Drawing!Place(list, s) \in Nat \ {0}
           /\ \A t \in Drawing!Members(list) :
                 <<s, t>> \in list /\ s # t => Drawing!Place(list, s) < Drawing!Place(list, t)
<1> DEFINE Before(t) == {r \in Drawing!Members(list) : <<r, t>> \in list}
<1>1. /\ \A t \in CanvasSocket : Before(t) \in SUBSET CanvasSocket /\ Drawing!Place(list, t) = Drawing!Cardinality(Before(t))
      /\ {} \in SUBSET Before(s) /\ s \in Before(s) /\ s \in CanvasSocket
  BY DEF Drawing!Place, Drawing!Members
<1>2. Drawing!Place(list, s) \in Nat \ {0}
  <2>1. /\ Drawing!Cardinality(Before(s)) \in Nat /\ Drawing!Cardinality({}) \in Nat
        /\ Drawing!Cardinality({}) <= Drawing!Cardinality(Before(s))
        /\ Drawing!Cardinality({}) # Drawing!Cardinality(Before(s))
    BY <1>1, SocketsCounted
  <2> QED BY <1>1, <2>1
<1>3. ASSUME NEW t \in Drawing!Members(list), <<s, t>> \in list, s # t
      PROVE  Drawing!Place(list, s) < Drawing!Place(list, t)
  <2>1. t \in CanvasSocket /\ Before(s) \in SUBSET Before(t) /\ t \in Before(t) /\ t \notin Before(s)
    BY <1>1, <1>3 DEF IsOrder, Drawing!Members
  <2>2. /\ Drawing!Cardinality(Before(s)) \in Nat /\ Drawing!Cardinality(Before(t)) \in Nat
        /\ Drawing!Cardinality(Before(s)) <= Drawing!Cardinality(Before(t))
        /\ Drawing!Cardinality(Before(s)) # Drawing!Cardinality(Before(t))
    BY <1>1, <2>1, SocketsCounted
  <2> QED BY <1>1, <2>1, <2>2
<1> QED BY <1>2, <1>3

LEMMA AheadAtFirst ==
    ASSUME NEW list, IsOrder(list)
    PROVE  Drawing!Ahead(list, 1) = Drawing!Members(list)
<1>1. \A s \in Drawing!Members(list) : Drawing!Place(list, s) \in Nat \ {0}
  BY PlacesOfOrder
<1> QED BY <1>1 DEF Drawing!Ahead

LEMMA AheadOfNext ==
    ASSUME NEW list, IsOrder(list), NEW next \in Nat, NEW s \in Drawing!Ahead(list, next),
           \A t \in Drawing!Ahead(list, next) : <<s, t>> \in list
    PROVE  /\ Drawing!Ahead(list, Drawing!Place(list, s) + 1) = Drawing!Ahead(list, next) \ {s}
           /\ Drawing!Place(list, s) + 1 \in Nat \ {0}
<1>1. s \in Drawing!Members(list) /\ Drawing!Place(list, s) >= next
  BY DEF Drawing!Ahead
<1>2. /\ \A t \in Drawing!Members(list) : Drawing!Place(list, t) \in Nat
      /\ Drawing!Place(list, s) \in Nat \ {0}
  BY <1>1, PlacesOfOrder
<1>3. \A t \in Drawing!Members(list) :
         <<s, t>> \in list /\ s # t => Drawing!Place(list, s) < Drawing!Place(list, t)
  BY <1>1, PlacesOfOrder
<1>4. ASSUME NEW t \in Drawing!Members(list)
      PROVE  Drawing!Place(list, t) >= Drawing!Place(list, s) + 1 <=> Drawing!Place(list, t) >= next /\ t # s
  <2>1. CASE Drawing!Place(list, t) >= next /\ t # s
    <3>1. <<s, t>> \in list
      BY <2>1 DEF Drawing!Ahead
    <3> QED BY <1>2, <1>3, <2>1, <3>1
  <2>2. CASE ~(Drawing!Place(list, t) >= next /\ t # s)
    BY <1>1, <1>2, <2>2
  <2> QED BY <2>1, <2>2
<1>5. Drawing!Ahead(list, Drawing!Place(list, s) + 1) = Drawing!Ahead(list, next) \ {s}
  BY <1>4 DEF Drawing!Ahead
<1> QED BY <1>2, <1>5

LEMMA ListLonger ==
    ASSUME NEW list, IsOrder(list), NEW s \in CanvasSocket, s \notin Drawing!Members(list)
    PROVE  /\ IsOrder(Drawing!AtEnd(list, s))
           /\ Drawing!Members(Drawing!AtEnd(list, s)) = Drawing!Members(list) \cup {s}
           /\ \A next : \A t \in Drawing!Members(list) :
                 t \in Drawing!Ahead(Drawing!AtEnd(list, s), next) <=> t \in Drawing!Ahead(list, next)
<1>1. PICK new : new = Drawing!AtEnd(list, s)
  OBVIOUS
<1>2. \A a, b \in CanvasSocket :
         <<a, b>> \in new <=> <<a, b>> \in list \/ (b = s /\ (a = s \/ <<a, a>> \in list))
  BY <1>1 DEF Drawing!AtEnd, Drawing!Members
<1>3. <<s, s>> \notin list
  BY DEF Drawing!Members
<1>4. IsOrder(new)
  <2>1. ASSUME NEW a \in CanvasSocket, NEW b \in CanvasSocket, <<a, b>> \in new
        PROVE  <<a, a>> \in new /\ <<b, b>> \in new /\ (<<b, a>> \in new => a = b)
    BY <1>2, <1>3, <2>1 DEF IsOrder
  <2>2. ASSUME NEW a \in CanvasSocket, NEW b \in CanvasSocket, NEW d \in CanvasSocket,
               <<a, b>> \in new, <<b, d>> \in new
        PROVE  <<a, d>> \in new
    BY <1>2, <1>3, <2>2 DEF IsOrder
  <2> QED BY <2>1, <2>2 DEF IsOrder
<1>5. Drawing!Members(new) = Drawing!Members(list) \cup {s}
  BY <1>2 DEF Drawing!Members
<1>6. ASSUME NEW t \in Drawing!Members(list) PROVE Drawing!Place(new, t) = Drawing!Place(list, t)
  <2>1. {r \in Drawing!Members(new) : <<r, t>> \in new} = {r \in Drawing!Members(list) : <<r, t>> \in list}
    BY <1>2, <1>3, <1>5 DEF Drawing!Members, IsOrder
  <2> QED BY <2>1 DEF Drawing!Place
<1>7. ASSUME NEW next, NEW t \in Drawing!Members(list)
      PROVE  t \in Drawing!Ahead(new, next) <=> t \in Drawing!Ahead(list, next)
  BY <1>5, <1>6 DEF Drawing!Ahead
<1> QED BY <1>1, <1>4, <1>5, <1>7

LEMMA ListShorter ==
    ASSUME NEW list, IsOrder(list), NEW gone
    PROVE  /\ IsOrder(Drawing!Without(list, gone))
           /\ Drawing!Members(Drawing!Without(list, gone)) = Drawing!Members(list) \ gone
           /\ \A next \in Nat : Drawing!Ahead(Drawing!Without(list, gone), next) \subseteq Drawing!Ahead(list, next)
<1>1. PICK rest : rest = Drawing!Without(list, gone)
  OBVIOUS
<1>2. \A a, b \in CanvasSocket : <<a, b>> \in rest <=> <<a, b>> \in list /\ a \notin gone /\ b \notin gone
  BY <1>1 DEF Drawing!Without
<1>3. IsOrder(rest)
  BY <1>2 DEF IsOrder
<1>4. Drawing!Members(rest) = Drawing!Members(list) \ gone
  BY <1>2 DEF Drawing!Members
<1>5. ASSUME NEW t \in Drawing!Members(rest)
      PROVE  /\ Drawing!Place(rest, t) \in Nat /\ Drawing!Place(list, t) \in Nat
             /\ Drawing!Place(rest, t) <= Drawing!Place(list, t)
  <2>1. PICK S, T : /\ S = {r \in Drawing!Members(list) : <<r, t>> \in list}
                    /\ T = {r \in Drawing!Members(rest) : <<r, t>> \in rest}
    OBVIOUS
  <2>2. S \in SUBSET CanvasSocket /\ T \in SUBSET S
    BY <1>2, <1>4, <2>1 DEF Drawing!Members
  <2>3. /\ Drawing!Cardinality(S) \in Nat /\ Drawing!Cardinality(T) \in Nat
        /\ Drawing!Cardinality(T) <= Drawing!Cardinality(S)
    BY <2>2, SocketsCounted
  <2> QED BY <2>1, <2>3 DEF Drawing!Place
<1>6. ASSUME NEW next \in Nat, NEW t \in Drawing!Ahead(rest, next)
      PROVE  t \in Drawing!Ahead(list, next)
  BY <1>4, <1>5, <1>6 DEF Drawing!Ahead
<1> QED BY <1>1, <1>3, <1>4, <1>6

LEMMA CurrentKept ==
    ASSUME NEW view, NEW now, NEW since, NEW due, NEW a, NEW b, Current(view, now, since, due, a),
           \A k \in due : b[k].says = a[k].says /\ b[k].version = a[k].version
    PROVE  Current(view, now, since, due, b)
BY DEF Current, Touches

\* A message that is not older than what the page has.
LEMMA CurrentSent ==
    ASSUME NEW view, NEW now, NEW since \in Nat, NEW due \in SUBSET Artist, NEW casts, NEW k \in due,
           Current(view, now, since, due, casts), \A j \in due : casts[j].version \in Nat,
           casts[k].version >= since
    PROVE  Current(Drawing!Rendered(view, casts[k].says), now, casts[k].version, due \ {k}, casts)
<1>1. PICK new : new = Drawing!Rendered(view, casts[k].says)
  OBVIOUS
<1>2. \A c \in Component :
         new[c] = IF Touches(casts[k].says, c) THEN casts[k].says.put[c] ELSE view[c]
  BY <1>1 DEF Drawing!Rendered, Touches
<1>3. ASSUME NEW c \in Component
      PROVE  new[c] = now[c] \/ \E j \in due \ {k} : Touches(casts[j].says, c)
  <2>1. CASE Touches(casts[k].says, c)
    BY <1>2, <2>1 DEF Current
  <2>2. CASE ~Touches(casts[k].says, c)
    BY <1>2, <2>2 DEF Current
  <2> QED BY <2>1, <2>2
<1>4. ASSUME NEW c \in Component, NEW i \in due \ {k}, Touches(casts[i].says, c),
             casts[i].version >= casts[k].version
      PROVE  \/ casts[i].says.put[c] = now[c]
             \/ \E j \in due \ {k} : Touches(casts[j].says, c) /\ casts[j].version > casts[i].version
  BY <1>4 DEF Current
<1> QED BY <1>1, <1>3, <1>4 DEF Current

\* A change, and a broadcast of it that everybody has before him.
LEMMA CurrentDrawn ==
    ASSUME NEW view, NEW old, NEW now, NEW since, NEW due \in SUBSET Artist, NEW a, NEW b,
           NEW k \in Artist, k \notin due, Current(view, old, since, due, a),
           \A j \in due : b[j].says = a[j].says /\ b[j].version = a[j].version
                          /\ b[k].version > b[j].version,
           \A c \in Component :
              IF Touches(b[k].says, c) THEN now[c] = b[k].says.put[c] ELSE now[c] = old[c]
    PROVE  Current(view, now, since, due \cup {k}, b)
<1>1. ASSUME NEW c \in Component
      PROVE  view[c] = now[c] \/ \E j \in due \cup {k} : Touches(b[j].says, c)
  BY DEF Current
<1>2. ASSUME NEW c \in Component, NEW i \in due \cup {k}, Touches(b[i].says, c), b[i].version >= since
      PROVE  \/ b[i].says.put[c] = now[c]
             \/ \E j \in due \cup {k} : Touches(b[j].says, c) /\ b[j].version > b[i].version
  <2>1. CASE i = k
    BY <1>2, <2>1
  <2>2. CASE i \in due /\ Touches(b[k].says, c)
    BY <2>2
  <2>3. CASE i \in due /\ ~Touches(b[k].says, c)
    BY <1>2, <2>3 DEF Current
  <2> QED BY <2>1, <2>2, <2>3
<1> QED BY <1>1, <1>2 DEF Current

\* A page that has drawn all that the session holds.
LEMMA CurrentSynced ==
    ASSUME NEW now, NEW last \in Nat, NEW due, NEW casts,
           \A k \in due : casts[k].next > 0 /\ Cast(casts[k], last, now)
    PROVE  \A view : (\A c \in Component : view[c] = now[c]) => Current(view, now, last, due, casts)
<1>1. ASSUME NEW k \in due, casts[k].version >= last, NEW c \in Component, Touches(casts[k].says, c)
      PROVE  casts[k].says.put[c] = now[c]
  BY <1>1 DEF Cast
<1> QED BY <1>1 DEF Current

LEMMA PagesDiffer ==
    ASSUME NEW links, OneEach(links), NEW s \in CanvasSocket, NEW t \in CanvasSocket, s # t,
           links[s] = "in", links[t] = "in"
    PROVE  PageOf[s] # PageOf[t]
BY CanvasAssumption DEF OneEach

\* A sync, with the socket that is new or has been there.
LEMMA SyncedStep ==
    ASSUME CanvasInv, NEW s \in CanvasSocket, Drawing!Synced(PageOf[s]), link'[s] = "in",
           DOMAIN link' = CanvasSocket, \A t \in CanvasSocket \ {s} : link'[t] = link[t],
           UNCHANGED <<components, casting, drawn>>, IsOrder(conns'), OneEach(link'),
           Drawing!Members(conns') \subseteq Drawing!Members(conns) \cup {s},
           \A t \in Drawing!Members(conns) \ {s} : DueTo(t, casting, conns') = DueTo(t, casting, conns)
    PROVE  CanvasInv'
<1>1. PICK p : p = PageOf[s]
  OBVIOUS
<1>2. p \in Page
  BY <1>1, CanvasAssumption
<1>3. PICK view : view = Drawing!Rendered(shown[p], [clear |-> FALSE, put |-> components, removed |-> {}])
  OBVIOUS
<1>4. /\ view \in [Component -> Nat]
      /\ \A c \in Component : view[c] = IF components[c] # 0 THEN components[c] ELSE shown[p][c]
  BY <1>2, <1>3 DEF CanvasInv, Drawing!Rendered
<1>5. /\ shown' = [shown EXCEPT ![p] = view] /\ seen' = [seen EXCEPT ![p] = drawn]
      /\ behind' = IF \E c \in Component : shown[p][c] # 0 /\ components[c] = 0
                   THEN behind \cup {p} ELSE behind \ {p}
  BY <1>1, <1>3 DEF Drawing!Synced
<1>6. /\ shown' \in [Page -> [Component -> Nat]] /\ seen' \in [Page -> Nat] /\ shown'[p] = view /\ seen'[p] = drawn
      /\ \A q \in Page : seen'[q] <= drawn
      /\ \A q \in Page \ {p} : shown'[q] = shown[q] /\ seen'[q] = seen[q]
  BY <1>2, <1>4, <1>5 DEF CanvasInv
<1>7. ASSUME NEW t \in Showing'
      PROVE  Current(shown'[PageOf[t]], components, seen'[PageOf[t]], DueTo(t, casting, conns'), casting)
  <2>1. t \in Drawing!Members(conns') /\ t \in CanvasSocket /\ link'[t] = "in" /\ PageOf[t] \notin behind'
    BY DEF Showing, Drawing!Members
  <2>2. CASE t = s
    <3>1. \A c \in Component : view[c] = components[c]
      BY <1>1, <1>2, <1>4, <1>5, <2>1, <2>2 DEF CanvasInv
    <3>2. \A k \in DueTo(s, casting, conns') : casting[k].next > 0 /\ Cast(casting[k], drawn, components)
      BY DEF DueTo, CanvasInv
    <3>3. Current(view, components, drawn, DueTo(s, casting, conns'), casting)
      <4>1. drawn \in Nat
        BY DEF CanvasInv
      <4> QED BY <3>1, <3>2, <4>1, CurrentSynced
    <3> QED BY <1>1, <1>6, <2>2, <3>3
  <2>3. CASE t # s
    <3>1. PageOf[t] # p /\ PageOf[t] \in Page
      BY <1>1, <2>1, <2>3, PagesDiffer, CanvasAssumption
    <3>2. t \in Drawing!Members(conns) \ {s} /\ t \in Showing
      BY <1>5, <2>1, <2>3, <3>1 DEF Showing
    <3>3. Current(shown[PageOf[t]], components, seen[PageOf[t]], DueTo(t, casting, conns), casting)
      BY <3>2 DEF CanvasInv
    <3> QED BY <1>6, <3>1, <3>2, <3>3
  <2> QED BY <2>2, <2>3
<1>8. ASSUME NEW t \in Drawing!Members(conns') PROVE link'[t] # "new"
  <2>1. t \in CanvasSocket /\ (t = s \/ (t \in Drawing!Members(conns) /\ link'[t] = link[t]))
    BY DEF Drawing!Members
  <2> QED BY <2>1 DEF CanvasInv
<1> QED BY <1>6, <1>7, <1>8 DEF CanvasInv

\* One send of a broadcast, of which everybody who counts has been reckoned up.
LEMMA SendStep ==
    ASSUME CanvasInv, NEW k \in Artist, NEW b, Drawing!SendTo(k, b), UNCHANGED <<conns, link>>,
           components' \in [Component -> Nat], drawn' \in Nat, drawn' >= drawn,
           Cast(b, drawn', components'), b.next > 0,
           \A j \in Artist \ {k} : Cast(casting[j], drawn', components'),
           NEW casts, casts[k] = b, \A j \in Artist \ {k} : casts[j] = casting[j],
           \A s \in Showing :
              Current(shown[PageOf[s]], components', seen[PageOf[s]], DueTo(s, casts, conns), casts)
    PROVE  CanvasInv'
<1>1. PICK list : list = IF b.live THEN conns ELSE b.dropped
  OBVIOUS
<1>2. IsOrder(list)
  BY <1>1 DEF CanvasInv, Cast
<1>3. PICK s \in Drawing!Ahead(list, b.next) :
         /\ \A t \in Drawing!Ahead(list, b.next) : <<s, t>> \in list
         /\ casting' = [casting EXCEPT ![k] =
                [next |-> Drawing!Place(list, s) + 1, live |-> b.live, dropped |-> b.dropped,
                 failed |-> IF link[s] = "in" THEN b.failed ELSE b.failed \cup {s},
                 version |-> b.version, says |-> b.says]]
         /\ IF link[s] = "in"
            THEN /\ shown' = [shown EXCEPT ![PageOf[s]] = Drawing!Rendered(shown[PageOf[s]], b.says)]
                 /\ seen' = [seen EXCEPT ![PageOf[s]] = b.version]
                 /\ behind' = IF b.version < seen[PageOf[s]] THEN behind \cup {PageOf[s]} ELSE behind
            ELSE UNCHANGED <<shown, seen, behind>>
  BY <1>1 DEF Drawing!SendTo, Drawing!ListOf
<1> PICK new :
         new = [next |-> Drawing!Place(list, s) + 1, live |-> b.live, dropped |-> b.dropped,
                failed |-> IF link[s] = "in" THEN b.failed ELSE b.failed \cup {s},
                version |-> b.version, says |-> b.says]
  OBVIOUS
<1>0. casting' = [casting EXCEPT ![k] = new]
  BY <1>3
<1>4. b.next \in Nat /\ b.version \in Nat /\ b.version <= drawn' /\ b.says.put \in [Component -> Nat]
  BY DEF Cast
<1>5. /\ Drawing!Ahead(list, new.next) = Drawing!Ahead(list, b.next) \ {s} /\ new.next \in Nat \ {0}
      /\ new.live = b.live /\ new.dropped = b.dropped /\ new.version = b.version /\ new.says = b.says
  <2>1. /\ Drawing!Ahead(list, Drawing!Place(list, s) + 1) = Drawing!Ahead(list, b.next) \ {s}
        /\ Drawing!Place(list, s) + 1 \in Nat \ {0}
    BY <1>2, <1>3, <1>4, AheadOfNext
  <2> QED BY <2>1
<1>6. /\ casting'[k] = new /\ casts[k] = b /\ DOMAIN casting' = Artist
      /\ \A j \in Artist \ {k} : casting'[j] = casting[j] /\ casts[j] = casting[j]
  BY <1>0 DEF CanvasInv
<1>7. \A j \in Artist : Cast(casting'[j], drawn', components')
  <2>1. Cast(new, drawn', components')
    BY <1>5 DEF Cast
  <2> QED BY <1>6, <2>1
<1>8. ASSUME NEW t
      PROVE  DueTo(t, casting', conns) = IF t = s THEN DueTo(t, casts, conns) \ {k} ELSE DueTo(t, casts, conns)
  <2>1. ASSUME NEW j \in Artist \ {k}
        PROVE  j \in DueTo(t, casting', conns) <=> j \in DueTo(t, casts, conns)
    BY <1>6 DEF DueTo
  <2>2. k \in DueTo(t, casting', conns) <=> t \in Drawing!Ahead(list, new.next)
    BY <1>1, <1>5, <1>6 DEF DueTo
  <2>3. k \in DueTo(t, casts, conns) <=> t \in Drawing!Ahead(list, b.next)
    BY <1>1, <1>6 DEF DueTo
  <2>4. DueTo(t, casting', conns) \subseteq Artist /\ DueTo(t, casts, conns) \subseteq Artist
    BY DEF DueTo
  <2>5. k \in DueTo(t, casting', conns) <=> k \in DueTo(t, casts, conns) /\ t # s
    BY <1>5, <2>2, <2>3
  <2>6. CASE t = s
    BY <2>1, <2>4, <2>5, <2>6
  <2>7. CASE t # s
    <3>1. \A j \in Artist : j \in DueTo(t, casting', conns) <=> j \in DueTo(t, casts, conns)
      BY <2>1, <2>5, <2>7
    <3>2. DueTo(t, casting', conns) = DueTo(t, casts, conns)
      BY <2>4, <3>1
    <3> QED BY <2>7, <3>2
  <2> QED BY <2>6, <2>7
<1>9. s \in CanvasSocket /\ PageOf[s] \in Page /\ k \in DueTo(s, casts, conns)
  BY <1>1, <1>3, <1>6, CanvasAssumption DEF DueTo, Drawing!Ahead, Drawing!Members
<1>10. PICK p, view : p = PageOf[s] /\ view = Drawing!Rendered(shown[p], b.says)
  OBVIOUS
<1>11. view \in [Component -> Nat]
  BY <1>4, <1>9, <1>10 DEF CanvasInv, Drawing!Rendered
<1>12. CASE link[s] = "in"
  <2>0. shown' = [shown EXCEPT ![p] = view] /\ seen' = [seen EXCEPT ![p] = b.version]
    BY <1>3, <1>10, <1>12
  <2>1. /\ shown' \in [Page -> [Component -> Nat]] /\ seen' \in [Page -> Nat]
        /\ shown'[p] = view /\ seen'[p] = b.version
        /\ \A q \in Page : seen'[q] <= drawn'
        /\ \A q \in Page \ {p} : shown'[q] = shown[q] /\ seen'[q] = seen[q]
    BY <1>4, <1>9, <1>10, <1>11, <2>0 DEF CanvasInv
  <2>2. behind' = IF b.version < seen[p] THEN behind \cup {p} ELSE behind
    BY <1>3, <1>10, <1>12
  <2>3. ASSUME NEW t \in Showing'
        PROVE  Current(shown'[PageOf[t]], components', seen'[PageOf[t]], DueTo(t, casting', conns), casting')
    <3>1. t \in Showing /\ t \in CanvasSocket /\ link[t] = "in" /\ PageOf[t] \notin behind'
      BY <2>2 DEF Showing, Drawing!Members
    <3>2. Current(shown[PageOf[t]], components', seen[PageOf[t]], DueTo(t, casts, conns), casts)
      BY <3>1
    <3>3. \A j \in DueTo(t, casts, conns) : casting'[j].says = casts[j].says /\ casting'[j].version = casts[j].version
      BY <1>5, <1>6 DEF DueTo
    <3>4. CASE t # s
      <4>1. PageOf[t] # p /\ PageOf[t] \in Page
        BY <1>9, <1>10, <1>12, <3>1, <3>4, PagesDiffer, CanvasAssumption DEF CanvasInv
      <4>2. Current(shown[PageOf[t]], components', seen[PageOf[t]], DueTo(t, casts, conns), casting')
        BY <3>2, <3>3, CurrentKept
      <4> QED BY <1>8, <2>1, <3>4, <4>1, <4>2
    <3>5. CASE t = s
      <4>1. ~(b.version < seen[p]) /\ seen[p] \in Nat
        BY <1>9, <1>10, <2>2, <3>1, <3>5 DEF CanvasInv
      <4>2. PICK due, since, now : due = DueTo(s, casts, conns) /\ since = seen[p] /\ now = components'
        OBVIOUS
      <4>3. due \in SUBSET Artist /\ k \in due /\ since \in Nat
        BY <1>9, <4>1, <4>2 DEF DueTo
      <4>4. Current(shown[p], now, since, due, casts) /\ casts[k].version >= since
        <5>1. Current(shown[p], now, since, due, casts)
          BY <1>10, <3>2, <3>5, <4>2, Zenon
        <5>2. casts[k].version = b.version
          BY <1>6
        <5> QED BY <1>4, <4>1, <4>2, <5>1, <5>2
      <4>5. \A j \in due : casts[j].version \in Nat
        BY <1>4, <1>6, <4>3 DEF CanvasInv, Cast
      <4>6. Current(Drawing!Rendered(shown[p], casts[k].says), now, casts[k].version, due \ {k}, casts)
        BY <4>3, <4>4, <4>5, CurrentSent, Zenon
      <4>7. Current(view, now, b.version, due \ {k}, casts)
        BY <1>6, <1>10, <4>6
      <4>8. \A j \in due \ {k} : casting'[j].says = casts[j].says /\ casting'[j].version = casts[j].version
        BY <3>3, <3>5, <4>2
      <4>9. Current(view, now, b.version, due \ {k}, casting')
        BY <4>7, <4>8, CurrentKept
      <4> QED BY <1>8, <1>10, <2>1, <3>5, <4>2, <4>9
    <3> QED BY <3>4, <3>5
  <2> QED BY <1>6, <1>7, <2>1, <2>3 DEF CanvasInv
<1>13. CASE link[s] # "in"
  <2>1. ASSUME NEW t \in Showing'
        PROVE  Current(shown'[PageOf[t]], components', seen'[PageOf[t]], DueTo(t, casting', conns), casting')
    <3>1. t \in Showing /\ t # s
      BY <1>3, <1>13 DEF Showing
    <3>2. Current(shown[PageOf[t]], components', seen[PageOf[t]], DueTo(t, casts, conns), casts)
      BY <3>1
    <3>3. \A j \in DueTo(t, casts, conns) : casting'[j].says = casts[j].says /\ casting'[j].version = casts[j].version
      BY <1>5, <1>6 DEF DueTo
    <3>4. Current(shown[PageOf[t]], components', seen[PageOf[t]], DueTo(t, casts, conns), casting')
      BY <3>2, <3>3, CurrentKept
    <3> QED BY <1>3, <1>8, <1>13, <3>1, <3>4
  <2>2. UNCHANGED <<shown, seen>>
    BY <1>3, <1>13
  <2>3. \A q \in Page : seen'[q] <= drawn'
    BY <2>2 DEF CanvasInv
  <2> QED BY <1>6, <1>7, <2>1, <2>2, <2>3 DEF CanvasInv
<1> QED BY <1>12, <1>13

\* Sockets that are taken from the list: who is passed over is behind.
LEMMA GoneStep ==
    ASSUME CanvasInv, NEW lost, NEW casts, DOMAIN casts = Artist, Drawing!DisconnectAll(lost, casts),
           UNCHANGED <<components, shown, seen, drawn>>, DOMAIN link' = CanvasSocket, OneEach(link'),
           \A t \in CanvasSocket : /\ link'[t] = "in" => link[t] = "in"
                                   /\ link[t] # "new" => link'[t] # "new",
           \A k \in Artist : Cast(casts[k], drawn, components),
           \A t \in Showing :
              Current(shown[PageOf[t]], components, seen[PageOf[t]], DueTo(t, casts, conns), casts)
    PROVE  CanvasInv'
<1>1. PICK rest : rest = Drawing!Without(conns, lost)
  OBVIOUS
<1>2. conns' = rest /\ casting' = IF rest = {} THEN Drawing!Dropped(casts, {}) ELSE casts
  BY <1>1 DEF Drawing!DisconnectAll
<1>3. /\ IsOrder(rest) /\ Drawing!Members(rest) \subseteq Drawing!Members(conns)
      /\ \A next \in Nat : Drawing!Ahead(rest, next) \subseteq Drawing!Ahead(conns, next)
  BY <1>1, ListShorter DEF CanvasInv
<1>4. ASSUME NEW k \in Artist, casts[k].live, NEW t \in Drawing!Ahead(conns, casts[k].next),
             t \in Drawing!Members(rest), t \notin Drawing!Ahead(rest, casts[k].next)
      PROVE  PageOf[t] \in behind'
  BY <1>1, <1>4 DEF Drawing!DisconnectAll
<1>5. behind \subseteq behind'
  BY DEF Drawing!DisconnectAll
<1>6. ASSUME NEW t \in Drawing!Members(conns') PROVE link'[t] # "new"
  <2>1. t \in Drawing!Members(conns) /\ t \in CanvasSocket
    BY <1>2, <1>3 DEF Drawing!Members
  <2> QED BY <2>1 DEF CanvasInv
<1>7. CASE rest = {}
  <2>1. Drawing!Members(conns') = {}
    BY <1>2, <1>7 DEF Drawing!Members
  <2>2. /\ DOMAIN casting' = Artist
        /\ \A k \in Artist : \/ casting'[k] = casts[k]
                             \/ /\ casting'[k].next = casts[k].next /\ casting'[k].dropped = {}
                                /\ casting'[k].version = casts[k].version /\ casting'[k].says = casts[k].says
    BY <1>2, <1>7 DEF Drawing!Dropped
  <2>3. IsOrder({})
    BY DEF IsOrder
  <2>4. ASSUME NEW k \in Artist PROVE Cast(casting'[k], drawn, components)
    <3>1. Cast(casts[k], drawn, components)
      OBVIOUS
    <3> QED BY <2>2, <2>3, <3>1 DEF Cast
  <2>5. Showing' = {}
    BY <2>1 DEF Showing
  <2> QED BY <1>2, <1>3, <1>6, <2>2, <2>4, <2>5 DEF CanvasInv
<1>8. CASE rest # {}
  <2>1. casting' = casts
    BY <1>2, <1>8
  <2>2. ASSUME NEW t \in Showing'
        PROVE  Current(shown[PageOf[t]], components, seen[PageOf[t]], DueTo(t, casts, rest), casts)
    <3>1. t \in Showing /\ t \in Drawing!Members(rest) /\ PageOf[t] \notin behind'
      BY <1>2, <1>3, <1>5 DEF Showing, Drawing!Members
    <3>2. ASSUME NEW k \in Artist
          PROVE  k \in DueTo(t, casts, rest) <=> k \in DueTo(t, casts, conns)
      <4>1. casts[k].next \in Nat
        BY DEF Cast
      <4>2. CASE casts[k].live
        <5>1. t \in Drawing!Ahead(rest, casts[k].next) <=> t \in Drawing!Ahead(conns, casts[k].next)
          BY <1>3, <1>4, <3>1, <4>1, <4>2
        <5> QED BY <4>2, <5>1 DEF DueTo
      <4>3. CASE ~casts[k].live
        BY <4>3 DEF DueTo
      <4> QED BY <4>2, <4>3
    <3>3. DueTo(t, casts, rest) \subseteq Artist /\ DueTo(t, casts, conns) \subseteq Artist
      BY DEF DueTo
    <3>4. DueTo(t, casts, rest) = DueTo(t, casts, conns)
      BY <3>2, <3>3
    <3>5. Current(shown[PageOf[t]], components, seen[PageOf[t]], DueTo(t, casts, conns), casts)
      BY <3>1
    <3> QED BY <3>4, <3>5
  <2> QED BY <1>2, <1>3, <1>6, <2>1, <2>2 DEF CanvasInv
<1> QED BY <1>7, <1>8

\* A change and the first send of it.
LEMMA DrawnStep ==
    ASSUME CanvasInv, NEW k \in Artist, ~Drawing!Under(k), NEW says, Drawing!Broadcast(k, says),
           says.put \in [Component -> Nat], components' \in [Component -> Nat],
           \A c \in Component :
              IF Touches(says, c) THEN components'[c] = says.put[c] ELSE components'[c] = components[c]
    PROVE  CanvasInv'
<1>1. drawn \in Nat /\ drawn' = drawn + 1 /\ UNCHANGED <<conns, link>>
  BY DEF Drawing!Broadcast, CanvasInv
<1>2. \A j \in Artist : Cast(casting[j], drawn', components') /\ casting[j].version \in Nat /\ casting[j].version < drawn'
  BY <1>1 DEF CanvasInv, Cast
<1>3. CASE conns = {}
  <2>1. UNCHANGED <<casting, shown, seen, behind>>
    BY <1>3 DEF Drawing!Broadcast
  <2>2. Showing' = {}
    BY <1>1, <1>3 DEF Showing, Drawing!Members
  <2>3. \A p \in Page : seen'[p] <= drawn'
    BY <1>1, <2>1 DEF CanvasInv
  <2> QED BY <1>1, <1>2, <2>1, <2>2, <2>3 DEF CanvasInv
<1>4. CASE conns # {}
  <2>1. PICK b : b = [next |-> 1, live |-> TRUE, dropped |-> {}, failed |-> {}, version |-> drawn + 1, says |-> says]
    OBVIOUS
  <2>2. Drawing!SendTo(k, b)
    BY <1>4, <2>1 DEF Drawing!Broadcast
  <2>3. b.next = 1 /\ b.live /\ b.dropped = {} /\ b.version = drawn' /\ b.says = says
    BY <1>1, <2>1
  <2>4. Cast(b, drawn', components')
    BY <1>1, <2>3 DEF Cast, IsOrder
  <2>5. PICK casts : casts = [casting EXCEPT ![k] = b]
    OBVIOUS
  <2>6. casts[k] = b /\ \A j \in Artist \ {k} : casts[j] = casting[j]
    BY <2>5 DEF CanvasInv
  <2>7. ASSUME NEW s \in Showing
        PROVE  Current(shown[PageOf[s]], components', seen[PageOf[s]], DueTo(s, casts, conns), casts)
    <3>1. PICK due, now, view, old, since, before :
             /\ due = DueTo(s, casting, conns) /\ now = components' /\ view = shown[PageOf[s]]
             /\ old = components /\ since = seen[PageOf[s]] /\ before = casting
      OBVIOUS
    <3>2. due \in SUBSET Artist /\ k \notin due
      BY <3>1 DEF DueTo, Drawing!Under
    <3>3. s \in Drawing!Ahead(conns, 1)
      BY AheadAtFirst DEF CanvasInv, Showing
    <3>4. DueTo(s, casts, conns) = due \cup {k}
      <4>1. \A j \in Artist \ {k} : j \in DueTo(s, casts, conns) <=> j \in due
        BY <2>6, <3>1 DEF DueTo
      <4>2. k \in DueTo(s, casts, conns)
        BY <2>3, <2>6, <3>3 DEF DueTo
      <4>3. DueTo(s, casts, conns) \subseteq Artist
        BY DEF DueTo
      <4> QED BY <3>2, <4>1, <4>2, <4>3
    <3>5. Current(view, old, since, due, before)
      BY <3>1 DEF CanvasInv
    <3>6. \A j \in due : casts[j].says = before[j].says /\ casts[j].version = before[j].version
                         /\ casts[k].version > casts[j].version
      <4>1. ASSUME NEW j \in due PROVE casts[j] = casting[j] /\ casting[j].version < drawn' /\ casts[k].version = drawn'
                                       /\ casting[j].version \in Nat
        BY <1>2, <2>3, <2>6, <3>2
      <4> QED BY <1>1, <3>1, <4>1
    <3>7. \A c \in Component :
             IF Touches(casts[k].says, c) THEN now[c] = casts[k].says.put[c] ELSE now[c] = old[c]
      BY <2>3, <2>6, <3>1
    <3>8. Current(view, now, since, due \cup {k}, casts)
      BY <3>2, <3>5, <3>6, <3>7, CurrentDrawn
    <3> QED BY <3>1, <3>4, <3>8
  <2>8. drawn' \in Nat /\ drawn' >= drawn /\ b.next > 0
    BY <1>1, <2>3
  <2> QED BY <1>1, <1>2, <2>2, <2>4, <2>6, <2>7, <2>8, SendStep
<1> QED BY <1>3, <1>4

LEMMA CanvasStep ==
    ASSUME CanvasInv, [Drawing!CanvasNext]_canvasVars
    PROVE  CanvasInv'
<1>1. CASE UNCHANGED canvasVars
  BY <1>1 DEF canvasVars, CanvasInv, Showing
<1>2. ASSUME NEW s \in CanvasSocket, Drawing!Connect(s) PROVE CanvasInv'
  <2>1. /\ link[s] = "new" /\ link' = [link EXCEPT ![s] = "in"] /\ conns' = Drawing!AtEnd(conns, s)
        /\ Drawing!Synced(PageOf[s]) /\ UNCHANGED <<components, casting, drawn>>
        /\ \A t \in CanvasSocket : PageOf[t] = PageOf[s] /\ t < s => link[t] \in {"gone", "over"}
    BY <1>2 DEF Drawing!Connect
  <2>2. /\ link'[s] = "in" /\ DOMAIN link' = CanvasSocket
        /\ \A t \in CanvasSocket \ {s} : link'[t] = link[t]
    BY <2>1 DEF CanvasInv
  <2>3. s \notin Drawing!Members(conns) /\ IsOrder(conns)
    BY <2>1 DEF CanvasInv
  <2>4. /\ IsOrder(conns') /\ Drawing!Members(conns') = Drawing!Members(conns) \cup {s}
        /\ \A next : \A t \in Drawing!Members(conns) :
              t \in Drawing!Ahead(conns', next) <=> t \in Drawing!Ahead(conns, next)
    BY <2>1, <2>3, ListLonger
  <2>5. \A t \in Drawing!Members(conns) \ {s} : DueTo(t, casting, conns') = DueTo(t, casting, conns)
    BY <2>4 DEF DueTo
  <2>6. OneEach(link')
    <3> SUFFICES ASSUME NEW t \in CanvasSocket, NEW u \in CanvasSocket, PageOf[t] = PageOf[u], t < u, link'[u] # "new"
                 PROVE  link'[t] \in {"gone", "over"}
      BY DEF OneEach
    <3>1. CASE u = s
      BY <2>1, <2>2, <3>1, CanvasAssumption
    <3>2. CASE u # s
      BY <2>1, <2>2, <3>2 DEF CanvasInv, OneEach
    <3> QED BY <3>1, <3>2
  <2> QED BY <2>1, <2>2, <2>4, <2>5, <2>6, SyncedStep
<1>3. ASSUME NEW s \in CanvasSocket, Drawing!AskSync(s) PROVE CanvasInv'
  <2>1. /\ link[s] = "in" /\ Drawing!Synced(PageOf[s])
        /\ UNCHANGED <<components, conns, link, casting, drawn>>
    BY <1>3 DEF Drawing!AskSync
  <2>2. /\ DOMAIN link' = CanvasSocket /\ IsOrder(conns') /\ OneEach(link')
        /\ Drawing!Members(conns') \subseteq Drawing!Members(conns) \cup {s}
        /\ \A t \in Drawing!Members(conns) \ {s} : DueTo(t, casting, conns') = DueTo(t, casting, conns)
    BY <2>1 DEF CanvasInv
  <2> QED BY <2>1, <2>2, SyncedStep
<1>4. ASSUME NEW s \in CanvasSocket, link[s] # "new", link' = [link EXCEPT ![s] = "gone"]
      PROVE  DOMAIN link' = CanvasSocket /\ OneEach(link') /\ link'[s] = "gone"
             /\ \A t \in CanvasSocket \ {s} : link'[t] = link[t]
  <2>1. DOMAIN link' = CanvasSocket /\ link'[s] = "gone" /\ \A t \in CanvasSocket \ {s} : link'[t] = link[t]
    BY <1>4 DEF CanvasInv
  <2> QED BY <1>4, <2>1 DEF CanvasInv, OneEach
<1>5. ASSUME NEW s \in CanvasSocket, Drawing!Vanish(s) PROVE CanvasInv'
  <2>1. /\ link[s] = "in" /\ link' = [link EXCEPT ![s] = "gone"]
        /\ UNCHANGED <<components, conns, shown, seen, casting, drawn, behind>>
    BY <1>5 DEF Drawing!Vanish
  <2>2. /\ DOMAIN link' = CanvasSocket /\ OneEach(link') /\ link'[s] = "gone"
        /\ \A t \in CanvasSocket \ {s} : link'[t] = link[t]
    BY <1>4, <2>1
  <2>3. Showing' \subseteq Showing /\ \A t \in Drawing!Members(conns) : link'[t] # "new"
    BY <2>1, <2>2 DEF Showing, CanvasInv, Drawing!Members
  <2> QED BY <2>1, <2>2, <2>3 DEF CanvasInv
<1>6. ASSUME NEW s \in CanvasSocket, Drawing!Leave(s) PROVE CanvasInv'
  <2>1. /\ link[s] = "gone" /\ link' = [link EXCEPT ![s] = "over"] /\ Drawing!DisconnectAll({s}, casting)
        /\ UNCHANGED <<components, shown, seen, drawn>>
    BY <1>6 DEF Drawing!Leave
  <2>2. /\ DOMAIN link' = CanvasSocket /\ link'[s] = "over"
        /\ \A t \in CanvasSocket \ {s} : link'[t] = link[t]
    BY <2>1 DEF CanvasInv
  <2>3. OneEach(link')
    BY <2>1, <2>2 DEF CanvasInv, OneEach
  <2>4. \A t \in CanvasSocket : (link'[t] = "in" => link[t] = "in") /\ (link[t] # "new" => link'[t] # "new")
    BY <2>1, <2>2
  <2>5. /\ DOMAIN casting = Artist /\ \A k \in Artist : Cast(casting[k], drawn, components)
        /\ \A t \in Showing :
              Current(shown[PageOf[t]], components, seen[PageOf[t]], DueTo(t, casting, conns), casting)
    BY DEF CanvasInv
  <2> QED BY <2>1, <2>2, <2>3, <2>4, <2>5, GoneStep
<1>7. ASSUME NEW k \in Artist, Drawing!SendNext(k) PROVE CanvasInv'
  <2>1. casting[k].next > 0 /\ UNCHANGED <<components, link, drawn>>
    BY <1>7 DEF Drawing!SendNext, Drawing!Under
  <2>2. CASE Drawing!SendTo(k, casting[k]) /\ UNCHANGED conns
    <3>1. PICK b : b = casting[k]
      OBVIOUS
    <3>3. Cast(b, drawn', components') /\ b.next > 0 /\ \A j \in Artist : Cast(casting[j], drawn', components')
      BY <2>1, <3>1 DEF CanvasInv
    <3>4. components' \in [Component -> Nat] /\ drawn' \in Nat /\ drawn' >= drawn
      BY <2>1 DEF CanvasInv
    <3>5. \A s \in Showing :
             Current(shown[PageOf[s]], components', seen[PageOf[s]], DueTo(s, casting, conns), casting)
      BY <2>1 DEF CanvasInv
    <3>6. Drawing!SendTo(k, b) /\ UNCHANGED <<conns, link>>
      BY <2>1, <2>2, <3>1
    <3> QED BY <3>1, <3>3, <3>4, <3>5, <3>6, SendStep
  <2>3. CASE /\ Drawing!DisconnectAll(casting[k].failed, [casting EXCEPT ![k] = Drawing!AtRest])
             /\ Drawing!Ahead(Drawing!ListOf(casting[k]), casting[k].next) = {} /\ UNCHANGED <<shown, seen>>
    <3>1. PICK casts : casts = [casting EXCEPT ![k] = Drawing!AtRest]
      OBVIOUS
    <3>2. /\ DOMAIN casts = Artist /\ casts[k] = Drawing!AtRest
          /\ \A j \in Artist \ {k} : casts[j] = casting[j]
      BY <3>1 DEF CanvasInv
    <3>3. Cast(Drawing!AtRest, drawn, components)
      BY DEF Cast, Drawing!AtRest, Drawing!Blank, IsOrder, CanvasInv
    <3>4. \A j \in Artist : Cast(casts[j], drawn, components)
      BY <3>2, <3>3 DEF CanvasInv
    <3>5. ASSUME NEW t \in Showing
          PROVE  Current(shown[PageOf[t]], components, seen[PageOf[t]], DueTo(t, casts, conns), casts)
      <4>1. \A j \in Artist \ {k} : j \in DueTo(t, casts, conns) <=> j \in DueTo(t, casting, conns)
        BY <3>2 DEF DueTo
      <4>2. k \notin DueTo(t, casts, conns)
        BY <3>2 DEF DueTo, Drawing!AtRest
      <4>3. k \notin DueTo(t, casting, conns)
        BY <2>3 DEF DueTo, Drawing!ListOf
      <4>4. DueTo(t, casts, conns) \subseteq Artist /\ DueTo(t, casting, conns) \subseteq Artist
        BY DEF DueTo
      <4>5. DueTo(t, casts, conns) = DueTo(t, casting, conns)
        BY <4>1, <4>2, <4>3, <4>4
      <4>6. Current(shown[PageOf[t]], components, seen[PageOf[t]], DueTo(t, casting, conns), casting)
        BY DEF CanvasInv
      <4>7. \A j \in DueTo(t, casting, conns) : casts[j].says = casting[j].says /\ casts[j].version = casting[j].version
        BY <3>2, <4>3, <4>4
      <4>8. Current(shown[PageOf[t]], components, seen[PageOf[t]], DueTo(t, casting, conns), casts)
        BY <4>6, <4>7, CurrentKept
      <4> QED BY <4>5, <4>8
    <3>6. DOMAIN link' = CanvasSocket /\ OneEach(link') /\ Drawing!DisconnectAll(casting[k].failed, casts)
      BY <2>1, <2>3, <3>1 DEF CanvasInv
    <3>7. \A t \in CanvasSocket : (link'[t] = "in" => link[t] = "in") /\ (link[t] # "new" => link'[t] # "new")
      BY <2>1
    <3>8. UNCHANGED <<components, shown, seen, drawn>>
      BY <2>1, <2>3
    <3> QED BY <3>2, <3>4, <3>5, <3>6, <3>7, <3>8, GoneStep
  <2> QED BY <1>7, <2>2, <2>3 DEF Drawing!SendNext
<1>8. ASSUME NEW k \in Artist, Drawing!Draw(k) PROVE CanvasInv'
  <2>1. PICK drawing \in SUBSET Component \ {{}}, clearFirst \in BOOLEAN : Drawing!Update(k, drawing, clearFirst)
    BY <1>8 DEF Drawing!Draw
  <2>2. PICK put : put = [c \in Component |-> IF c \in drawing THEN drawn + 1 ELSE 0]
    OBVIOUS
  <2>3. /\ components' = [c \in Component |-> IF put[c] # 0 THEN put[c]
                                              ELSE IF clearFirst THEN 0 ELSE components[c]]
        /\ Drawing!Broadcast(k, [clear |-> clearFirst, put |-> put, removed |-> {}])
    BY <2>1, <2>2 DEF Drawing!Update
  <2>4. put \in [Component -> Nat] /\ components' \in [Component -> Nat] /\ ~Drawing!Under(k)
    BY <1>8, <2>2, <2>3 DEF CanvasInv, Drawing!Draw, Drawing!Free
  <2>5. PICK says : says = [clear |-> clearFirst, put |-> put, removed |-> {}]
    OBVIOUS
  <2>6. \A c \in Component :
           IF Touches(says, c) THEN components'[c] = says.put[c] ELSE components'[c] = components[c]
    BY <2>3, <2>5 DEF Touches
  <2>7. Drawing!Broadcast(k, says) /\ says.put \in [Component -> Nat]
    BY <2>3, <2>4, <2>5
  <2> QED BY <2>4, <2>6, <2>7, DrawnStep
<1>9. ASSUME NEW k \in Artist, Drawing!Clear(k) PROVE CanvasInv'
  <2>1. PICK says : says = [clear |-> TRUE, put |-> Drawing!Blank, removed |-> {}]
    OBVIOUS
  <2>2. /\ components' = Drawing!Blank /\ ~Drawing!Under(k) /\ Drawing!Broadcast(k, says)
    BY <1>9, <2>1 DEF Drawing!Clear, Drawing!Free
  <2>3. /\ Drawing!Blank \in [Component -> Nat]
        /\ \A c \in Component : Drawing!Blank[c] = 0
    BY DEF Drawing!Blank
  <2>4. \A c \in Component :
           IF Touches(says, c) THEN components'[c] = says.put[c] ELSE components'[c] = components[c]
    BY <2>1, <2>2 DEF Touches
  <2>5. says.put \in [Component -> Nat] /\ components' \in [Component -> Nat]
    BY <2>1, <2>2, <2>3
  <2> QED BY <2>2, <2>4, <2>5, DrawnStep
<1>10. ASSUME NEW k \in Artist, NEW d \in Component, Drawing!RemoveComponent(k, d) PROVE CanvasInv'
  <2>1. PICK says : says = [clear |-> FALSE, put |-> Drawing!Blank, removed |-> {d}]
    OBVIOUS
  <2>2. /\ components' = [components EXCEPT ![d] = 0] /\ ~Drawing!Under(k) /\ Drawing!Broadcast(k, says)
    BY <1>10, <2>1 DEF Drawing!RemoveComponent, Drawing!Free
  <2>3. /\ Drawing!Blank \in [Component -> Nat]
        /\ \A c \in Component : Drawing!Blank[c] = 0
    BY DEF Drawing!Blank
  <2>4. /\ components' \in [Component -> Nat] /\ components'[d] = 0
        /\ \A c \in Component \ {d} : components'[c] = components[c]
    BY <2>2 DEF CanvasInv
  <2>5. \A c \in Component :
           IF Touches(says, c) THEN components'[c] = says.put[c] ELSE components'[c] = components[c]
    BY <2>1, <2>3, <2>4 DEF Touches
  <2>6. says.put \in [Component -> Nat]
    BY <2>1, <2>3
  <2> QED BY <2>2, <2>4, <2>5, <2>6, DrawnStep
<1>11. ASSUME NEW k \in Artist, Drawing!CleanupSession(k) PROVE CanvasInv'
  <2>1. /\ components' = Drawing!Blank /\ conns' = {} /\ casting' = Drawing!Dropped(casting, conns)
        /\ drawn' = drawn + 1 /\ UNCHANGED <<link, shown, seen, behind>>
    BY <1>11 DEF Drawing!CleanupSession
  <2>2. /\ DOMAIN casting' = Artist
        /\ \A j \in Artist : \/ casting'[j] = casting[j]
                             \/ /\ casting'[j].next = casting[j].next /\ casting'[j].dropped = conns
                                /\ casting'[j].version = casting[j].version /\ casting'[j].says = casting[j].says
    BY <2>1 DEF Drawing!Dropped
  <2>3. components' \in [Component -> Nat] /\ drawn \in Nat /\ drawn' \in Nat /\ \A p \in Page : seen'[p] <= drawn'
    BY <2>1 DEF CanvasInv, Drawing!Blank
  <2>4. ASSUME NEW j \in Artist PROVE Cast(casting'[j], drawn', components')
    <3>1. Cast(casting[j], drawn, components) /\ IsOrder(conns)
      BY DEF CanvasInv
    <3> QED BY <2>1, <2>2, <2>3, <3>1 DEF Cast
  <2>5. Showing' = {} /\ IsOrder(conns') /\ Drawing!Members(conns') = {}
    BY <2>1 DEF Showing, Drawing!Members, IsOrder
  <2> QED BY <2>1, <2>2, <2>3, <2>4, <2>5 DEF CanvasInv
<1> QED
  BY <1>1, <1>2, <1>3, <1>5, <1>6, <1>7, <1>8, <1>9, <1>10, <1>11 DEF Drawing!CanvasNext

LEMMA PagesShow ==
    ASSUME CanvasInv
    PROVE  Drawing!PagesAgree
<1> SUFFICES ASSUME \A k \in Artist : ~Drawing!Under(k), NEW s \in Drawing!Members(conns),
                    link[s] = "in", PageOf[s] \notin behind
             PROVE  shown[PageOf[s]] = components
  BY DEF Drawing!PagesAgree
<1>1. DueTo(s, casting, conns) = {}
  BY DEF DueTo, Drawing!Under
<1>2. Current(shown[PageOf[s]], components, seen[PageOf[s]], DueTo(s, casting, conns), casting)
  BY DEF CanvasInv, Showing
<1>3. \A c \in Component : shown[PageOf[s]][c] = components[c]
  BY <1>1, <1>2 DEF Current
<1>4. PageOf[s] \in Page
  BY CanvasAssumption DEF Drawing!Members
<1> QED BY <1>3, <1>4 DEF CanvasInv

LEMMA CanvasStart ==
    ASSUME MCInit
    PROVE  CanvasInv
<1>1. Drawing!CanvasInit
  BY DEF MCInit
<1>2. Cast(Drawing!AtRest, 0, Drawing!Blank)
  BY DEF Cast, Drawing!AtRest, Drawing!Blank, IsOrder
<1>3. Drawing!Members({}) = {} /\ IsOrder({}) /\ Drawing!Blank \in [Component -> Nat]
  BY DEF Drawing!Members, IsOrder, Drawing!Blank
<1>4. Showing = {}
  BY <1>1, <1>3 DEF Drawing!CanvasInit, Showing
<1> QED BY <1>1, <1>2, <1>3, <1>4 DEF Drawing!CanvasInit, CanvasInv, OneEach

-------------------------------------------------------------------------------
(* All who follow a conversation.                                          *)

FollowersInv == HeardInv /\ TableInv /\ SlackInv /\ HookInv /\ CanvasInv

\* However many messages and handlers a thread of Slack has, whichever hooks change while an
\* event is emitted, however many calls draw on a canvas that pages join and leave, and
\* whatever sockets come, go and are evicted: nobody misses what the others were told, but
\* for the losses the state itself records (SlackIntegration, HookManager.emit(),
\* CanvasServer._broadcast() and the server's web sockets).
THEOREM AllHear == MCSpec => []EverybodyHears
<1>1. MCInit => FollowersInv
  BY SocketsStart, SlackStart, HooksStart, CanvasStart DEF FollowersInv
<1>2. FollowersInv /\ [(ConversationNext \/ FollowerNext) /\ UNCHANGED scenario]_<<conversationVars, followerVars, scenario>>
        => FollowersInv'
  <2> SUFFICES ASSUME FollowersInv,
                      [(ConversationNext \/ FollowerNext) /\ UNCHANGED scenario]_<<conversationVars, followerVars, scenario>>
               PROVE  FollowersInv'
    OBVIOUS
  <2>1. /\ [Web!SocketsNext]_socketVars /\ [Slack!SlackNext]_slackVars
        /\ [Hook!HooksNext]_hookVars /\ [Drawing!CanvasNext]_canvasVars
    BY DEF ConversationNext, FollowerNext, followerVars
  <2>2. HeardInv' /\ TableInv'
    BY <2>1, HeardStep, TableStep DEF FollowersInv
  <2>3. SlackInv'
    BY <2>1, SlackStep DEF FollowersInv
  <2>4. HookInv'
    BY <2>1, HookStep DEF FollowersInv
  <2>5. CanvasInv'
    BY <2>1, CanvasStep DEF FollowersInv
  <2> QED BY <2>2, <2>3, <2>4, <2>5 DEF FollowersInv
<1>3. FollowersInv => EverybodyHears
  BY SocketsRight, SlackHeard, HooksHeard, PagesShow DEF FollowersInv, EverybodyHears
<1> QED BY <1>1, <1>2, <1>3, PTL DEF MCSpec

===============================================================================
