------------------------------ MODULE SlackThreads ------------------------------
(***************************************************************************)
(* The threads of SlackIntegration, app/integrations/slack.py: messages    *)
(* arrive on the socket, are added to the conversation of their thread and *)
(* handed to the handlers one after the other, while handlers are added,   *)
(* conversations end and the integration is started and stopped.           *)
(***************************************************************************)
EXTENDS Naturals, Sequences

CONSTANTS SlackMessage,    \* the messages that people write
          ThreadOf,        \* [SlackMessage -> thread]
          SlackHandler,    \* handlers, each registered once
          Asked,           \* slash commands and clicks, each under a name of its own
          MaxSwitches      \* bound: calls of start(), stop() and end_conversation()

VARIABLES running,         \* _running
          socket,          \* whether the thread of the socket handler is up
          handlers,        \* _event_handlers[MESSAGE]
          conversation,    \* each thread: "none", "active" or "ended"
          recorded,        \* each thread: the messages of its conversation
          at,              \* each message: the place of the handler it is given to, or 0
          through,         \* the messages whose handlers have all returned
          missed,          \* each message: the handlers there were when it came, yet to hear it
          known,           \* _command_handlers and _interaction_handlers: the names that have one
          asked,           \* each command or click: "new", "acked", "answered" or "raised"
          switches         \* MaxSwitches spent

slackVars == <<running, socket, handlers, conversation, recorded, at, through, missed, known, asked, switches>>

threadVars == <<conversation, recorded, at, through, missed>>

SlackThread == {ThreadOf[m] : m \in SlackMessage}

SlackInit ==
    /\ running = FALSE /\ socket = FALSE /\ handlers = <<>>
    /\ conversation = [t \in SlackThread |-> "none"]
    /\ recorded = [t \in SlackThread |-> <<>>]
    /\ at = [m \in SlackMessage |-> 0] /\ through = {}
    /\ missed = [m \in SlackMessage |-> <<>>]
    /\ known = {} /\ asked = [a \in Asked |-> "new"]
    /\ switches = 0

Switch == switches < MaxSwitches /\ switches' = switches + 1

\* start() and _start_socket_mode(), lines 413-470: the socket comes up in a thread, and
\* a failure to bring it up leaves the integration running without it.
Start ==
    /\ Switch
    /\ running' = TRUE /\ socket' \in {socket, TRUE}
    /\ UNCHANGED <<handlers, threadVars, known, asked>>

\* stop() does not stop that thread.
Stop ==
    /\ Switch
    /\ running' = FALSE
    /\ UNCHANGED <<socket, handlers, threadVars, known, asked>>

\* on_event(), lines 400-409.
OnEvent(h) ==
    /\ \A i \in DOMAIN handlers : handlers[i] # h
    /\ handlers' = Append(handlers, h)
    /\ UNCHANGED <<running, socket, threadVars, known, asked, switches>>

\* get_or_create_conversation(), lines 837-854: an ended one is handed out as it is.
GetOrCreate(t) ==
    /\ conversation[t] = "none"
    /\ conversation' = [conversation EXCEPT ![t] = "active"]
    /\ UNCHANGED <<running, socket, handlers, recorded, at, through, missed, known, asked, switches>>

\* end_conversation(), lines 856-863.
EndConversation(t) ==
    /\ Switch /\ conversation[t] = "active"
    /\ conversation' = [conversation EXCEPT ![t] = "ended"]
    /\ UNCHANGED <<running, socket, handlers, recorded, at, through, missed, known, asked>>

\* handle_message() and _handle_thread_message(), lines 526-533 and 812-827: a message of
\* a thread without a conversation, or with an ended one, leaves nothing behind.  Without a
\* handler the loop is over at once.
Arrive(m) ==
    /\ socket /\ at[m] = 0
    /\ conversation[ThreadOf[m]] = "active"
    /\ recorded' = [recorded EXCEPT ![ThreadOf[m]] = Append(@, m)]
    /\ at' = [at EXCEPT ![m] = 1]
    /\ through' = IF handlers = <<>> THEN through \cup {m} ELSE through
    /\ missed' = [missed EXCEPT ![m] = handlers]
    /\ UNCHANGED <<running, socket, handlers, conversation, known, asked, switches>>

Hears(m) ==
    missed' = [missed EXCEPT ![m] = IF @ # <<>> /\ Head(@) = handlers[at[m]] THEN Tail(@) ELSE @]

GoesOn(m) ==
    IF at[m] = Len(handlers)
    THEN through' = through \cup {m} /\ UNCHANGED at
    ELSE at' = [at EXCEPT ![m] = @ + 1] /\ UNCHANGED through

\* A mutant of HandlerReturns: the try is around the loop.
HandlerReturnsOrStops(m) ==
    /\ at[m] > 0 /\ m \notin through
    /\ Hears(m)
    /\ \/ GoesOn(m)
       \/ through' = through \cup {m} /\ UNCHANGED at
    /\ UNCHANGED <<running, socket, handlers, conversation, recorded, known, asked, switches>>

\* Lines 828-835: a handler returns or raises, which is logged; the loop runs over the list
\* itself, and so over handlers that were added meanwhile.
HandlerReturns(m) ==
    /\ at[m] > 0 /\ m \notin through
    /\ Hears(m)
    /\ GoesOn(m)
    /\ UNCHANGED <<running, socket, handlers, conversation, recorded, known, asked, switches>>

\* on_command() and on_interaction(), lines 362-398.
OnName(a) ==
    /\ a \notin known /\ known' = known \cup {a}
    /\ UNCHANGED <<running, socket, handlers, threadVars, asked, switches>>

\* Lines 477-511 and 535-543: acknowledged at once; a command without a handler gets the
\* default answer, a click without one none.
Ask(a) ==
    /\ socket /\ asked[a] = "new"
    /\ asked' = [asked EXCEPT ![a] = IF a \in known THEN "acked" ELSE "answered"]
    /\ UNCHANGED <<running, socket, handlers, threadVars, known, switches>>

\* What a handler raises is caught by nobody here.
AskedReturns(a) ==
    /\ asked[a] = "acked"
    /\ \E how \in {"answered", "raised"} : asked' = [asked EXCEPT ![a] = how]
    /\ UNCHANGED <<running, socket, handlers, threadVars, known, switches>>

SlackNext ==
    \/ Start \/ Stop
    \/ \E h \in SlackHandler : OnEvent(h)
    \/ \E t \in SlackThread : GetOrCreate(t) \/ EndConversation(t)
    \/ \E m \in SlackMessage : Arrive(m) \/ HandlerReturns(m)
    \/ \E a \in Asked : OnName(a) \/ Ask(a) \/ AskedReturns(a)

-----------------------------------------------------------------------------
\* A message that is through has been heard by every handler there was when it came, in
\* the order of their registration, although the conversation may have ended meanwhile;
\* handlers hear no message that no conversation keeps, and a conversation keeps each
\* message of its thread at most once and none of another.
HeardByAll ==
    /\ \A m \in SlackMessage : m \in through => missed[m] = <<>>
    /\ \A m \in SlackMessage : at[m] > 0 => \E i \in DOMAIN recorded[ThreadOf[m]] :
                                              recorded[ThreadOf[m]][i] = m
    /\ \A t \in SlackThread :
           /\ \A i, j \in DOMAIN recorded[t] : recorded[t][i] = recorded[t][j] => i = j
           /\ \A i \in DOMAIN recorded[t] :
                  ThreadOf[recorded[t][i]] = t /\ at[recorded[t][i]] > 0
================================================================================
