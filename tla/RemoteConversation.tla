--------------------------- MODULE RemoteConversation ---------------------------
(***************************************************************************)
(* app/conversation/remote_conversation.py with arun(), interrupt() and    *)
(* resume() of base.py: the tasks of one event loop that share the         *)
(* connection of a conversation.  connect() is awaited by three of them,   *)
(* the run, a client and the reconnect loop; a listener reads the socket   *)
(* that was current when it started.  The server, which is external,       *)
(* answers commands with updates on every socket that is open; a socket is *)
(* closed by it, or breaks, at any time.                                   *)
(***************************************************************************)
EXTENDS Integers, FiniteSets, Sequences

CONSTANTS MaxAttempts,   \* max_reconnect_attempts
          MaxSockets,    \* bound: sockets ever opened
          MaxRequests    \* bound: calls a client makes besides arun(), each at most once

VARIABLES status,      \* _state.execution_status
          cancelled,   \* _cancellation_token.is_cancelled
          conn,        \* _connection_state
          ws,          \* _ws, 0 for None
          sockets,     \* the sockets ever opened: "open", "closed" or "broken"
          wire,        \* the updates on their way on each
          listener,    \* _listener_task: "none", "new" or "reading"
          heard,       \* the socket it reads
          reconnect,   \* _reconnect_task: "none", "looping", "sleeping" or "dialing"
          attempts,    \* _reconnect_attempts
          dialing,     \* who waits in connect()
          run,         \* arun()
          closing,     \* whether disconnect() waits for the socket to close
          outbox,      \* the _send_command() tasks that have not run
          message,     \* what became of the message sent
          server,      \* what the server does
          left,        \* the calls a client has not made yet
          tried        \* history: attempts of the loop since it was last connected

clientVars == <<status, cancelled, run, message, left>>
socketVars == <<ws, sockets, wire>>
taskVars == <<listener, heard, reconnect, attempts, dialing, closing, tried>>
remoteVars == <<clientVars, conn, socketVars, taskVars, outbox, server>>

Requests == {"connect", "disconnect", "interrupt", "resume", "message"}
Terminal == {"FINISHED", "ERROR"}

\* try_set_status()
Became(new) ==
    IF \/ status = "IDLE" /\ new = "RUNNING"
       \/ status = "RUNNING" /\ new \in {"FINISHED", "PAUSED", "ERROR"}
       \/ status = "PAUSED" /\ new \in {"RUNNING", "ERROR"}
    THEN new ELSE status

Init ==
    /\ status = "IDLE" /\ cancelled = FALSE
    /\ conn = "disconnected" /\ ws = 0 /\ sockets = <<>> /\ wire = <<>>
    /\ listener = "none" /\ heard = 0
    /\ reconnect = "none" /\ attempts = 0 /\ dialing = {}
    /\ run = "idle" /\ closing = FALSE /\ outbox = <<>> /\ message = "none"
    /\ server = "idle" /\ tried = 0
    /\ left = Requests

Call(c) ==
    /\ Cardinality(Requests \ left) < MaxRequests
    /\ c \in left /\ left' = left \ {c}

-----------------------------------------------------------------------------
(* connect(): each awaits a socket of its own.                             *)

\* A mutant of Dialed: the attempts are not counted anew.
DialedCounting(who) ==
    /\ who \in dialing /\ dialing' = dialing \ {who}
    /\ Len(sockets) < MaxSockets
    /\ sockets' = Append(sockets, "open") /\ wire' = Append(wire, <<>>)
    /\ ws' = Len(sockets) + 1
    /\ conn' = "connected" /\ tried' = 0 /\ UNCHANGED attempts
    /\ listener' = IF listener = "none" THEN "new" ELSE listener
    /\ reconnect' = IF who = "reconnect" THEN "none" ELSE reconnect
    /\ run' = IF who = "run" THEN "sending" ELSE run
    /\ UNCHANGED <<status, cancelled, message, left, heard, closing, outbox, server>>

\* It is there: a listener is started unless there is one.
Dialed(who) ==
    /\ who \in dialing /\ dialing' = dialing \ {who}
    /\ Len(sockets) < MaxSockets
    /\ sockets' = Append(sockets, "open") /\ wire' = Append(wire, <<>>)
    /\ ws' = Len(sockets) + 1
    /\ conn' = "connected" /\ attempts' = 0 /\ tried' = 0
    /\ listener' = IF listener = "none" THEN "new" ELSE listener
    /\ reconnect' = IF who = "reconnect" THEN "none" ELSE reconnect
    /\ run' = IF who = "run" THEN "sending" ELSE run
    /\ UNCHANGED <<status, cancelled, message, left, heard, closing, outbox, server>>

\* A mutant of StartReconnect: a failed connect() only notes it.
NoReconnect == UNCHANGED reconnect

\* _start_reconnect()
StartReconnect ==
    reconnect' = IF reconnect = "none" THEN "looping" ELSE reconnect

\* It fails or times out: the loop goes on, or is started.
DialFails(who) ==
    /\ who \in dialing /\ dialing' = dialing \ {who}
    /\ conn' = "disconnected" /\ ws' = 0
    /\ IF who = "reconnect" THEN reconnect' = "looping" ELSE StartReconnect
    /\ run' = IF who = "run" THEN "sending" ELSE run
    /\ UNCHANGED <<status, cancelled, message, left, sockets, wire, listener, heard,
                   attempts, closing, tried, outbox, server>>

DialEnds(who) == Dialed(who) \/ DialFails(who)

Connect ==
    /\ Call("connect")
    /\ IF conn = "connected" THEN UNCHANGED <<conn, dialing>>
       ELSE conn' = "connecting" /\ dialing' = dialing \cup {"client"}
    /\ UNCHANGED <<status, cancelled, run, message, socketVars, listener, heard, reconnect,
                   attempts, closing, tried, outbox, server>>

\* _reconnect_loop(): the head of the loop, and the attempt after the delay.
Loop ==
    /\ reconnect = "looping"
    /\ IF attempts < MaxAttempts
       THEN reconnect' = "sleeping" /\ attempts' = attempts + 1
       ELSE reconnect' = "none" /\ UNCHANGED attempts
    /\ UNCHANGED <<clientVars, conn, socketVars, listener, heard, dialing, closing, tried,
                   outbox, server>>

Attempt ==
    /\ reconnect = "sleeping"
    /\ IF conn = "connected"
       THEN reconnect' = "none" /\ UNCHANGED <<conn, dialing, tried>>
       ELSE /\ reconnect' = "dialing" /\ tried' = tried + 1
            /\ conn' = "connecting" /\ dialing' = dialing \cup {"reconnect"}
    /\ UNCHANGED <<clientVars, socketVars, listener, heard, attempts, closing, outbox, server>>

-----------------------------------------------------------------------------
(* _listen_loop()                                                          *)

Listen ==
    /\ listener = "new"
    /\ listener' = IF ws = 0 THEN "none" ELSE "reading"
    /\ heard' = ws
    /\ UNCHANGED <<clientVars, conn, socketVars, reconnect, attempts, dialing, closing, tried,
                   outbox, server>>

\* _on_event_received() mirrors the status.
Receive ==
    /\ listener = "reading" /\ wire[heard] # <<>>
    /\ status' = Became(Head(wire[heard]))
    /\ wire' = [wire EXCEPT ![heard] = Tail(@)]
    /\ UNCHANGED <<cancelled, run, message, left, conn, ws, sockets, taskVars, outbox, server>>

\* The socket is at its end.  Only an error leads to another connection.
ListenerEnds ==
    /\ listener = "reading" /\ sockets[heard] # "open" /\ wire[heard] = <<>>
    /\ listener' = "none" /\ heard' = 0
    /\ IF sockets[heard] = "broken" /\ conn = "connected"
       THEN conn' = "disconnected" /\ ws' = 0 /\ StartReconnect
       ELSE UNCHANGED <<conn, ws, reconnect>>
    /\ UNCHANGED <<clientVars, sockets, wire, attempts, dialing, closing, tried, outbox, server>>

-----------------------------------------------------------------------------
\* disconnect(), which cancels the two tasks and waits for the socket to close.
Disconnect ==
    /\ Call("disconnect")
    /\ conn' = "disconnected"
    /\ listener' = "none" /\ heard' = 0
    /\ reconnect' = "none" /\ dialing' = dialing \ {"reconnect"}
    /\ closing' = (ws # 0)
    /\ sockets' = IF ws # 0 /\ sockets[ws] = "open" THEN [sockets EXCEPT ![ws] = "closed"]
                  ELSE sockets
    /\ UNCHANGED <<status, cancelled, run, message, ws, wire, attempts, tried, outbox, server>>

Disconnected ==
    /\ closing /\ closing' = FALSE /\ ws' = 0
    /\ UNCHANGED <<clientVars, conn, sockets, wire, listener, heard, reconnect, attempts,
                   dialing, tried, outbox, server>>

-----------------------------------------------------------------------------
(* Commands.                                                               *)

\* _send_command() sends on the current socket.
CanSend == conn = "connected" /\ ws # 0 /\ sockets[ws] = "open"

\* The server does what it is told, and says so on every open socket.
Publish(update) ==
    wire' = [s \in DOMAIN wire |-> IF sockets[s] = "open" THEN Append(wire[s], update)
                                   ELSE wire[s]]

ServerGets(command) ==
    CASE command = "run" -> server' = "running" /\ Publish("RUNNING")
      [] command = "interrupt" /\ server = "running" -> server' = "paused" /\ Publish("PAUSED")
      [] command = "resume" /\ server = "paused" -> server' = "running" /\ Publish("RUNNING")
      [] OTHER -> UNCHANGED <<server, wire>>

\* asend_message() sends at once.
SendAndWait ==
    /\ Call("message") /\ status \notin Terminal
    /\ message' = IF CanSend THEN "sent" ELSE "buffered"
    /\ UNCHANGED <<status, cancelled, run, conn, socketVars, taskVars, outbox, server>>

\* send_message() leaves that to a task.
Send ==
    /\ Call("message") /\ status \notin Terminal
    /\ message' = "handed" /\ outbox' = Append(outbox, "message")
    /\ UNCHANGED <<status, cancelled, run, conn, socketVars, taskVars, server>>

Command ==
    /\ outbox # <<>> /\ outbox' = Tail(outbox)
    /\ message' = IF Head(outbox) # "message" THEN message
                  ELSE IF CanSend THEN "sent" ELSE "buffered"
    /\ IF CanSend THEN ServerGets(Head(outbox)) ELSE UNCHANGED <<server, wire>>
    /\ UNCHANGED <<status, cancelled, run, left, conn, ws, sockets, taskVars>>

\* interrupt() and resume(), of which the server hears later.
Interrupt ==
    /\ Call("interrupt")
    /\ cancelled' = TRUE
    /\ status' = IF status = "RUNNING" THEN "PAUSED" ELSE status
    /\ outbox' = Append(outbox, "interrupt")
    /\ UNCHANGED <<run, message, conn, socketVars, taskVars, server>>

Resume ==
    /\ Call("resume") /\ status = "PAUSED"
    /\ cancelled' = FALSE /\ status' = "RUNNING"
    /\ outbox' = Append(outbox, "resume")
    /\ UNCHANGED <<run, message, conn, socketVars, taskVars, server>>

-----------------------------------------------------------------------------
(* arun()                                                                  *)

Run ==
    /\ run = "idle" /\ status = "IDLE"
    /\ cancelled' = FALSE /\ status' = "RUNNING"
    /\ IF conn = "connected" THEN run' = "sending" /\ UNCHANGED <<conn, dialing>>
       ELSE run' = "dialing" /\ conn' = "connecting" /\ dialing' = dialing \cup {"run"}
    /\ UNCHANGED <<message, left, socketVars, listener, heard, reconnect, attempts, closing,
                   tried, outbox, server>>

\* _do_arun() returns, or its wait is cancelled: what still runs is FINISHED.
Over(now) ==
    /\ run' = "done"
    /\ status' = IF now = "RUNNING" THEN "FINISHED" ELSE now

\* The command is sent, or the run is over.
RunSends ==
    /\ run = "sending"
    /\ IF CanSend THEN ServerGets("run") /\ run' = "waiting" /\ UNCHANGED status
       ELSE Over(status) /\ UNCHANGED <<server, wire>>
    /\ UNCHANGED <<cancelled, message, left, conn, ws, sockets, taskVars, outbox>>

\* It looks for the end, for a cancellation and for its timeout.
RunWakes ==
    /\ run = "waiting"
    /\ IF status \in Terminal \/ cancelled THEN Over(status) ELSE Over("ERROR")
    /\ UNCHANGED <<cancelled, message, left, conn, socketVars, taskVars, outbox, server>>

-----------------------------------------------------------------------------
(* The server and the network.                                             *)

ServerEnds ==
    /\ server = "running" /\ server' = "ended"
    /\ \E update \in Terminal : Publish(update)
    /\ UNCHANGED <<clientVars, conn, ws, sockets, taskVars, outbox>>

Drop ==
    /\ \E s \in DOMAIN sockets, how \in {"closed", "broken"} :
        sockets[s] = "open" /\ sockets' = [sockets EXCEPT ![s] = how]
    /\ UNCHANGED <<clientVars, conn, ws, wire, taskVars, outbox, server>>

Next ==
    \/ \E who \in {"run", "client", "reconnect"} : DialEnds(who)
    \/ Connect \/ Loop \/ Attempt \/ Listen \/ Receive \/ ListenerEnds
    \/ Disconnect \/ Disconnected
    \/ SendAndWait \/ Send \/ Command \/ Interrupt \/ Resume
    \/ Run \/ RunSends \/ RunWakes
    \/ ServerEnds \/ Drop

\* The tasks of the loop go on; connect() has a timeout, as arun() has.
Fairness ==
    /\ WF_remoteVars(RunSends \/ RunWakes \/ DialEnds("run"))
    /\ WF_remoteVars(Disconnected \/ Command \/ DialEnds("client"))
    /\ WF_remoteVars(Loop \/ Attempt \/ DialEnds("reconnect"))
    /\ WF_remoteVars(Listen \/ Receive \/ ListenerEnds)

Spec == Init /\ [][Next]_remoteVars /\ Fairness

-----------------------------------------------------------------------------
\* Unless disconnect() was called, the loop gives up only after all its attempts since
\* the last connection, whoever made that and however often it was lost, but for one that
\* may have found a connection when it woke up and is counted nevertheless.
GivesUpLast ==
    [][reconnect = "looping" /\ reconnect' = "none" /\ "disconnect" \in left' =>
         tried >= MaxAttempts - 1]_remoteVars

\* A run ends, whatever the connection does.
EveryRunEnds == run \in {"dialing", "sending", "waiting"} ~> run = "done"

\* A connection that failed or broke is tried again until there is one or all attempts
\* are used up.
Reconnects ==
    conn = "disconnected" /\ sockets # <<>> /\ "disconnect" \in left
      ~> conn = "connected" \/ tried >= MaxAttempts - 1 \/ "disconnect" \notin left

\* remote_conversation.py:471-472, "if not connected, the message is buffered locally and
\* will be sent upon reconnection".
BufferedAreSent == message = "buffered" /\ CanSend ~> message = "sent" \/ ~CanSend
================================================================================
