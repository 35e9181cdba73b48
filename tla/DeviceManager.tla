----------------------------- MODULE DeviceManager ------------------------------
(***************************************************************************)
(* app/nodes/manager.py: the table of device nodes, in the order of their  *)
(* last registration, and the tasks of one event loop that register,       *)
(* unregister, send and broadcast.  Nothing is awaited under the lock, so  *)
(* each region under it is one action; the only await inside an operation  *)
(* is ws.send_text().  Time is left out: a heartbeat may be overdue at any *)
(* moment.                                                                 *)
(*                                                                         *)
(* A broadcast iterates over the table itself: CPython prepares the next   *)
(* key when it hands one out, and raises RuntimeError when it is asked for *)
(* a key and the order has changed since the iteration began.              *)
(***************************************************************************)
EXTENDS Naturals, SequencesExt

CONSTANTS Device, NoDevice,
          Broadcaster,           \* the tasks that call broadcast()
          Talking,               \* the devices whose messages are answered
          Sizes                  \* the values of _max_nodes

VARIABLES size,        \* _max_nodes
          nodes,       \* the keys of _nodes, in its order
          info,        \* the NodeInfo of each device: connected, whether there is a ws
          at,          \* where a task is
          target,      \* the device it is sending to
          same,        \* whether the NodeInfo it looked up is still in the table
          cursor,      \* the key the iteration hands out next, a set of at most one
          changed,     \* the order has changed since the iteration began
          failed,      \* disconnected
          offered,     \* history: the devices the message was sent to
          steady       \* history: the devices reachable ever since it began

deviceVars ==
  <<size, nodes, info, at, target, same, cursor, changed, failed, offered, steady>>
taskVars == <<at, target, cursor, failed, offered>>

Task == Broadcaster \union Talking
Forgotten == [connected |-> FALSE, ws |-> FALSE]

DeviceInit ==
  /\ size \in Sizes /\ nodes = <<>>
  /\ info = [d \in Device |-> Forgotten]
  /\ at = [b \in Task |-> "idle"] /\ target = [b \in Task |-> NoDevice]
  /\ same = [b \in Task |-> FALSE]
  /\ cursor = [b \in Broadcaster |-> {}] /\ changed = [b \in Broadcaster |-> FALSE]
  /\ failed = [b \in Broadcaster |-> {}] /\ offered = [b \in Broadcaster |-> {}]
  /\ steady = [b \in Broadcaster |-> {}]

Reachable(list, table, d) == Contains(list, d) /\ table[d].connected /\ table[d].ws

\* A step leaves the table in this state.  Iterations see whether its order changed;
\* nobody reads the NodeInfo of a node that is no longer in it.
Becomes(list, table) ==
  /\ nodes' = list
  /\ info' = [d \in Device |->
               IF Contains(list, d) THEN table[d] ELSE Forgotten]
  /\ changed' = [b \in Broadcaster |-> at[b] = "sending" /\ (changed[b] \/ list # nodes)]
  /\ steady' = [b \in Broadcaster |->
                  {d \in steady[b] : at[b] = "sending" /\ Reachable(list, table, d)}]

\* A NodeInfo that has left the table is another one when its device comes back.
Forget == same' = [t \in Task |-> same[t] /\ Contains(nodes', target[t])]

-------------------------------------------------------------------------------
\* _evict_stale() pops the nodes that are not connected or whose heartbeat is long
\* overdue.
Stale == {ds \in SUBSET ToSet(nodes) : \A d \in ToSet(nodes) : ~info[d].connected => d \in ds}

\* Nodes leave the table one after the other.
Without(ds) == SelectSeq(nodes, LAMBDA e : e \notin ds)

\* register(): a known device is updated and moved to the end, with its new
\* websocket if it brings one; for another the stale nodes, and the first ones of
\* a full table, make room.
Register(d) ==
  \E ws \in BOOLEAN :
    /\ IF Contains(nodes, d)
         THEN Becomes(Append(Remove(nodes, d), d),
                [info EXCEPT ![d] = [connected |-> TRUE, ws |-> @.ws \/ ws]])
         ELSE \E stale \in Stale :
              LET fresh == Without(stale)
                  kept == IF Len(fresh) < size THEN fresh
                          ELSE SubSeq(fresh, Len(fresh) - size + 2, Len(fresh))
              IN Becomes(Append(kept, d),
                   [info EXCEPT ![d] = [connected |-> TRUE, ws |-> ws]])
    /\ Forget /\ UNCHANGED <<size, taskVars>>

\* unregister()
Unregister(d) ==
  /\ Contains(nodes, d)
  /\ Becomes(Without({d}), info)
  /\ Forget /\ UNCHANGED <<size, taskVars>>

\* update_heartbeat(): a node is connected again, whatever its websocket.
Heartbeat(d) ==
  /\ Contains(nodes, d)
  /\ Becomes(nodes, [info EXCEPT ![d].connected = TRUE])
  /\ Forget /\ UNCHANGED <<size, taskVars>>

\* check_heartbeats() finds the heartbeats of these nodes overdue.
CheckHeartbeats(overdue) ==
  /\ Becomes(nodes, [d \in Device |->
       [info[d] EXCEPT !.connected = @ /\ d \notin overdue]])
  /\ Forget /\ UNCHANGED <<size, taskVars>>

-------------------------------------------------------------------------------
\* send_to_node() up to its await, for the acknowledgement of a heartbeat, a pong or
\* a canvas update; the task is named by the device it sends to.
Sends(d) ==
  /\ d \in Talking /\ at[d] = "idle"
  /\ Reachable(nodes, info, d)
  /\ at' = [at EXCEPT ![d] = "sending"]
  /\ target' = [target EXCEPT ![d] = d] /\ same' = [same EXCEPT ![d] = TRUE]
  /\ UNCHANGED <<size, nodes, info, cursor, changed, failed, offered, steady>>

\* send_text() has returned or, lost, has raised: then the NodeInfo that was looked
\* up before the await is marked disconnected; it may be connected anew by now.
AfterSend(t, lost) ==
  IF lost /\ same[t] THEN [info EXCEPT ![target[t]].connected = FALSE] ELSE info

SendEnds(t) ==
  /\ t \in Talking /\ at[t] = "sending"
  /\ \E lost \in BOOLEAN : Becomes(nodes, AfterSend(t, lost))
  /\ at' = [at EXCEPT ![t] = "idle"]
  /\ same' = [same EXCEPT ![t] = FALSE] /\ target' = [target EXCEPT ![t] = NoDevice]
  /\ UNCHANGED <<size, cursor, failed, offered>>

\* The positions that an iteration standing before a key has still to hand out and
\* that can be sent to.
Ahead(key, table) ==
  {i \in 1..Len(nodes) : (\E j \in 1..i : nodes[j] \in key) /\ Reachable(nodes, table, nodes[i])}

\* The first of them is sent to; the iterator already knows the key after it.
SendToFirst(b, ahead) ==
  \E i \in ahead :
    /\ \A j \in ahead : i <= j
    /\ at' = [at EXCEPT ![b] = "sending"]
    /\ target' = [target EXCEPT ![b] = nodes[i]] /\ same' = [same EXCEPT ![b] = TRUE]
    /\ offered' = [offered EXCEPT ![b] = @ \union {nodes[i]}]
    /\ cursor' = [cursor EXCEPT ![b] = IF i = Len(nodes) THEN {} ELSE {nodes[i + 1]}]

\* broadcast() is called.
Broadcast(b) ==
  LET ahead == {i \in 1..Len(nodes) : Reachable(nodes, info, nodes[i])} IN
  /\ at[b] \in {"idle", "raised"}
  /\ IF ahead = {}
       THEN at' = [at EXCEPT ![b] = "idle"] /\ UNCHANGED <<target, same, offered, cursor>>
       ELSE SendToFirst(b, ahead)
  /\ changed' = [changed EXCEPT ![b] = FALSE]
  /\ steady' = [steady EXCEPT ![b] = {d \in Device : Reachable(nodes, info, d)}]
  /\ UNCHANGED <<size, nodes, info, failed>>

FailedNow(b, lost) == failed[b] \union (IF lost THEN {target[b]} ELSE {})

\* A send is over and the loop goes on to the next node with a connection.
NextNode(b, lost) ==
  /\ ~changed[b]
  /\ SendToFirst(b, Ahead(cursor[b], AfterSend(b, lost)))
  /\ Becomes(nodes, AfterSend(b, lost))

\* What broadcast() kept is gone when it is over.
Over(b, end) ==
  /\ at' = [at EXCEPT ![b] = end]
  /\ target' = [target EXCEPT ![b] = NoDevice]
  /\ same' = [t \in Task |-> t # b /\ same[t] /\ Contains(nodes', target[t])]
  /\ cursor' = [cursor EXCEPT ![b] = {}]
  /\ offered' = [offered EXCEPT ![b] = {}]

\* "OrderedDict mutated during iteration": the failed nodes stay in the table.
IterationFails(b, lost) ==
  /\ changed[b] /\ cursor[b] # {}
  /\ Becomes(nodes, AfterSend(b, lost))
  /\ Over(b, "raised")

\* The loop is over: the devices that failed are unregistered, also one that has
\* registered again since.
BroadcastEnds(b, lost) ==
  /\ Ahead(cursor[b], AfterSend(b, lost)) = {}
  /\ ~changed[b] \/ cursor[b] = {}
  /\ Becomes(Without(FailedNow(b, lost)), AfterSend(b, lost))
  /\ Over(b, "idle")

\* A mutant of AfterBroadcastSend: the iteration goes on in whatever order there is.
AfterBroadcastSendAnyOrder(b) ==
  /\ at[b] = "sending"
  /\ \E lost \in BOOLEAN :
       /\ \/ /\ SendToFirst(b, Ahead(cursor[b], AfterSend(b, lost)))
             /\ Becomes(nodes, AfterSend(b, lost))
          \/ BroadcastEnds(b, lost)
       /\ failed' = [failed EXCEPT ![b] =
                       IF at'[b] = "sending" THEN FailedNow(b, lost) ELSE {}]
  /\ UNCHANGED size

AfterBroadcastSend(b) ==
  /\ at[b] = "sending"
  /\ \E lost \in BOOLEAN :
       /\ NextNode(b, lost) \/ IterationFails(b, lost) \/ BroadcastEnds(b, lost)
       /\ failed' = [failed EXCEPT ![b] =
                       IF at'[b] = "sending" THEN FailedNow(b, lost) ELSE {}]
  /\ UNCHANGED size

DeviceNext ==
  \/ \E overdue \in SUBSET ToSet(nodes) : CheckHeartbeats(overdue)
  \/ \E d \in Device : Register(d) \/ Unregister(d) \/ Heartbeat(d)
  \/ \E d \in Device : Sends(d) \/ SendEnds(d)
  \/ \E b \in Broadcaster : Broadcast(b) \/ AfterBroadcastSend(b)
-------------------------------------------------------------------------------
\* A broadcast that returns has sent to every device that was reachable from its
\* beginning to its end, however nodes came, went and moved while it waited for
\* the others (lines 201-222).
BroadcastReaches ==
  [][\A b \in Broadcaster :
       at[b] = "sending" /\ at'[b] = "idle" => steady[b] \subseteq offered[b]]_deviceVars
================================================================================
