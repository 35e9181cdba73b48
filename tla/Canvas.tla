--------------------------------- MODULE Canvas ---------------------------------
(***************************************************************************)
(* A session of CanvasServer, app/canvas/server.py, with the CanvasTool    *)
(* (tool.py) of the agents that draw on it and the pages that show it.     *)
(*                                                                         *)
(* The sessions share only the server's lock, which is never held across   *)
(* an await: what a method does under it and up to its first send is one   *)
(* step, and so is the way from one send of a broadcast to the next.       *)
(***************************************************************************)
EXTENDS Naturals, FiniteSets

CONSTANTS Artist,            \* calls of the tool, or of the server by the application
          Page, CanvasSocket,
          PageOf,            \* [CanvasSocket -> Page]: the page that opens a socket
          Component,
          MaxDrawn           \* bound: calls

VARIABLES content,           \* _sessions: the version each component has, 0 when it is not there
          conns,             \* the list in _connections as the order of its sockets, each
                             \* before itself and those after it; empty when there is none
          link,              \* each socket: "new", "in", "gone" (it fails from now on) or "over"
          shown, seen,       \* each page: the version of each component, the newest change it has
          casting,           \* each call: where its broadcast stands
          drawn,             \* calls so far
          behind             \* the pages that have missed a change, or had two in the wrong order

canvasVars == <<content, conns, link, shown, seen, casting, drawn, behind>>

Blank == [c \in Component |-> 0]

\* A broadcast goes through the list itself, or through one that is in _connections no more.
AtRest == [next |-> 0, live |-> FALSE, dropped |-> {}, failed |-> {}, version |-> 0,
           says |-> [clear |-> FALSE, put |-> Blank, removed |-> {}]]

ListOf(b) == IF b.live THEN conns ELSE b.dropped

Members(list) == {s \in CanvasSocket : <<s, s>> \in list}
AtEnd(list, s) == list \cup ((Members(list) \cup {s}) \X {s})
Without(list, gone) == {p \in list : p[1] \notin gone /\ p[2] \notin gone}
Place(list, s) == Cardinality({t \in Members(list) : <<t, s>> \in list})

\* Those an iteration of a list that stands at an index has still before it.
Ahead(list, next) == {s \in Members(list) : Place(list, s) >= next}

CanvasInit ==
    /\ content = Blank /\ conns = {}
    /\ link = [s \in CanvasSocket |-> "new"]
    /\ shown = [p \in Page |-> Blank] /\ seen = [p \in Page |-> 0]
    /\ casting = [k \in Artist |-> AtRest]
    /\ drawn = 0 /\ behind = {}

\* canvas.html, lines 407-431: what a page shows after a message.
Rendered(view, says) ==
    [c \in Component |-> IF says.put[c] # 0 THEN says.put[c]
                         ELSE IF says.clear \/ c \in says.removed THEN 0 ELSE view[c]]

\* The components of a sync are drawn over what the page shows; none is taken away.
Synced(p) ==
    /\ shown' = [shown EXCEPT ![p] = Rendered(shown[p], [clear |-> FALSE, put |-> content, removed |-> {}])]
    /\ seen' = [seen EXCEPT ![p] = drawn]
    /\ behind' = IF \E c \in Component : shown[p][c] # 0 /\ content[c] = 0
                 THEN behind \cup {p} ELSE behind \ {p}

\* _connect() and the first sync, lines 77-91 and 129-141; a page opens its next socket
\* when the one before has failed.
Connect(s) ==
    /\ link[s] = "new"
    /\ \A t \in CanvasSocket : PageOf[t] = PageOf[s] /\ t < s => link[t] \in {"gone", "over"}
    /\ link' = [link EXCEPT ![s] = "in"]
    /\ conns' = AtEnd(conns, s)
    /\ Synced(PageOf[s])
    /\ UNCHANGED <<content, casting, drawn>>

\* A page asks for the state, lines 106-113.
AskSync(s) ==
    /\ link[s] = "in"
    /\ Synced(PageOf[s])
    /\ UNCHANGED <<content, conns, link, casting, drawn>>

Vanish(s) ==
    /\ link[s] = "in"
    /\ link' = [link EXCEPT ![s] = "gone"]
    /\ UNCHANGED <<content, conns, shown, seen, casting, drawn, behind>>

\* Broadcasts that are under way keep a list that is dropped.
Dropped(casts, list) ==
    [k \in Artist |->
        IF casts[k].live
        THEN [next |-> casts[k].next, live |-> FALSE, dropped |-> list, failed |-> casts[k].failed,
              version |-> casts[k].version, says |-> casts[k].says]
        ELSE casts[k]]

\* _disconnect(), lines 143-150, for each of some sockets.  A broadcast that is half way
\* through the list goes on at the same index, and passes over who has moved before it.
DisconnectAll(sockets, casts) ==
    LET left == Without(conns, sockets)
        passed(b) == (Ahead(conns, b.next) \cap Members(left)) \ Ahead(left, b.next)
    IN /\ conns' = left
       /\ casting' = IF left = {} THEN Dropped(casts, {}) ELSE casts
       /\ behind' = behind \cup UNION {{PageOf[s] : s \in passed(casts[k])} :
                                         k \in {k \in Artist : casts[k].live}}

\* The handler of a socket that fails ends, lines 118-123.
Leave(s) ==
    /\ link[s] = "gone"
    /\ link' = [link EXCEPT ![s] = "over"]
    /\ DisconnectAll({s}, casting)
    /\ UNCHANGED <<content, shown, seen, drawn>>

\* One send of a broadcast, lines 161-165: a message that comes after a newer one may undo it.
SendTo(k, b) ==
    \E s \in Ahead(ListOf(b), b.next) :
       /\ \A t \in Ahead(ListOf(b), b.next) : <<s, t>> \in ListOf(b)
       /\ casting' = [casting EXCEPT ![k] =
              [next |-> Place(ListOf(b), s) + 1, live |-> b.live, dropped |-> b.dropped,
               failed |-> IF link[s] = "in" THEN b.failed ELSE b.failed \cup {s},
               version |-> b.version, says |-> b.says]]
       /\ IF link[s] = "in"
          THEN /\ shown' = [shown EXCEPT ![PageOf[s]] = Rendered(shown[PageOf[s]], b.says)]
               /\ seen' = [seen EXCEPT ![PageOf[s]] = b.version]
               /\ behind' = IF b.version < seen[PageOf[s]] THEN behind \cup {PageOf[s]} ELSE behind
          ELSE UNCHANGED <<shown, seen, behind>>

Under(k) == casting[k].next > 0

\* The rest of _broadcast(), lines 161-169: those that failed are disconnected at the end.
SendNext(k) ==
    /\ Under(k)
    /\ IF Ahead(ListOf(casting[k]), casting[k].next) # {}
       THEN SendTo(k, casting[k]) /\ UNCHANGED conns
       ELSE /\ DisconnectAll(casting[k].failed, [casting EXCEPT ![k] = AtRest])
            /\ UNCHANGED <<shown, seen>>
    /\ UNCHANGED <<content, link, drawn>>

\* A change of the session and the first send of its broadcast, lines 154-163.
Broadcast(k, says) ==
    /\ drawn' = drawn + 1
    /\ IF conns = {} THEN UNCHANGED <<casting, shown, seen, behind>>
       ELSE SendTo(k, [next |-> 1, live |-> TRUE, dropped |-> {}, failed |-> {},
                       version |-> drawn + 1, says |-> says])
    /\ UNCHANGED <<conns, link>>

\* A call that starts takes the first number that is free.
Free(k) == ~Under(k) /\ (\A j \in Artist : j < k => Under(j)) /\ drawn < MaxDrawn

\* update(), lines 195-258: a component is replaced where it is, or added.
Update(k, components, clearFirst) ==
    LET put == [c \in Component |-> IF c \in components THEN drawn + 1 ELSE 0]
    IN /\ content' = [c \in Component |-> IF put[c] # 0 THEN put[c]
                                          ELSE IF clearFirst THEN 0 ELSE content[c]]
       /\ Broadcast(k, [clear |-> clearFirst, put |-> put, removed |-> {}])

\* CanvasTool.execute(), _render() and _add_chart(): no component, or one that is not well
\* formed, refuses them all before the server hears of any.
Draw(k) ==
    /\ Free(k)
    /\ \E components \in SUBSET Component \ {{}}, clearFirst \in BOOLEAN : Update(k, components, clearFirst)

\* _clear() of the tool and clear(), lines 268-287.
Clear(k) ==
    /\ Free(k)
    /\ content' = Blank
    /\ Broadcast(k, [clear |-> TRUE, put |-> Blank, removed |-> {}])

\* remove_component(), lines 300-315.
RemoveComponent(k, c) ==
    /\ Free(k)
    /\ content' = [content EXCEPT ![c] = 0]
    /\ Broadcast(k, [clear |-> FALSE, put |-> Blank, removed |-> {c}])

\* cleanup_session(), lines 321-331; its sockets are closed one after the other, each by
\* a Vanish.
CleanupSession(k) ==
    /\ Free(k)
    /\ content' = Blank /\ conns' = {} /\ casting' = Dropped(casting, conns)
    /\ drawn' = drawn + 1
    /\ UNCHANGED <<link, shown, seen, behind>>

CanvasNext ==
    \/ \E s \in CanvasSocket : Connect(s) \/ AskSync(s) \/ Vanish(s) \/ Leave(s)
    \/ \E k \in Artist : SendNext(k) \/ Draw(k) \/ Clear(k) \/ CleanupSession(k)
    \/ \E k \in Artist, c \in Component : RemoveComponent(k, c)

\* When no broadcast is under way, a page that is connected shows what the session
\* holds, unless it was passed over by a broadcast whose list shrank (server.py:161), had a
\* change after a newer one (the sends are outside the lock), or came back to a session that
\* has lost a component the page still shows (canvas.html:410 takes nothing away).
PagesAgree ==
    (\A k \in Artist : ~Under(k)) =>
        \A s \in Members(conns) :
            link[s] = "in" /\ PageOf[s] \notin behind => shown[PageOf[s]] = content
================================================================================
