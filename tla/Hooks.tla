---------------------------------- MODULE Hooks ----------------------------------
(***************************************************************************)
(* HookManager of app/hooks: events are put to the hooks one after the     *)
(* other, each under a timeout and with its failures kept to itself, while *)
(* hooks are registered, replaced, switched, removed, set up and torn down *)
(* between two of them.  HookLoader, LoggingHook, SecurityHook and         *)
(* AuditHook are hooks among the others.                                   *)
(***************************************************************************)
EXTENDS Integers, Sequences, FiniteSetsExt

CONSTANTS HookName,
          HookKind,          \* the hooks there are: [priority, on, open, answers], see below
          NoHook,
          Emission,          \* the calls of execute_hooks(), each once
          EventOf,           \* [Emission -> event type]
          Definitions,       \* of a hooks.yaml: a sequence of [name, class, priority, enabled]
          MaxHookChanges     \* bound: changes of the table of hooks

(***************************************************************************)
(* A kind of hook: its priority, the events it subscribes to, fail_open,   *)
(* and what on_event() may come to, among the following.                   *)
(***************************************************************************)
Coming == {"allow", "deny", "modify", "other", "raise", "hang"}

VARIABLES hooks,             \* _hooks: each name's hook and whether it is enabled
          order,             \* the names in the order of their first insertion, see Names
          index,             \* _event_index: each event type's names, in an order likewise
          ready,             \* the names whose setup() has been run, and no teardown()
          initialized,       \* _initialized
          setting,           \* what initialize() or shutdown() has yet to visit
          phase,             \* each emission: "new", "running" or "returned"
          todo,              \* the names that execute_hooks() has before it, in their order
          heard,             \* the results it has added: [name, decision]
          decision, content, \* of the AggregateHookResult
          hookChanges,       \* MaxHookChanges spent
          steady             \* the hooks that have been in the table, and as they were, since it began

hookVars == <<hooks, order, index, ready, initialized, setting, phase, todo, heard, decision, content,
              hookChanges, steady>>
tableVars == <<hooks, order, index>>
lifeVars == <<ready, initialized, setting>>
runVars == <<phase, todo, heard, decision, content>>

EventType == {EventOf[e] : e \in Emission}

\* An order of names is a set of pairs: <<n, m>> if n comes before m or is m.
Names(names) == {n \in HookName : <<n, n>> \in names}
First(names) == {n \in Names(names) : \A m \in Names(names) : <<n, m>> \in names}
Without(names, n) == {p \in names : p[1] # n /\ p[2] # n}
AtEnd(names, n) == names \cup ((Names(names) \cup {n}) \X {n})

HooksInit ==
    /\ hooks = [n \in HookName |-> NoHook] /\ order = {}
    /\ index = [t \in EventType |-> {}]
    /\ ready = {} /\ initialized = FALSE /\ setting = [doing |-> "none", names |-> {}]
    /\ phase = [e \in Emission |-> "new"] /\ todo = [e \in Emission |-> {}]
    /\ heard = [e \in Emission |-> <<>>]
    /\ decision = [e \in Emission |-> "allow"] /\ content = [e \in Emission |-> NoHook]
    /\ hookChanges = 0 /\ steady = [e \in Emission |-> {}]

-----------------------------------------------------------------------------
(* The hooks that come with the application: what goes wrong inside one is *)
(* logged and counts as approval.  The audit hook may write to a database. *)

LoggingHook == [priority |-> 200, on |-> EventType, open |-> TRUE, answers |-> {"allow"}]
SecurityHook ==
    [priority |-> 10, on |-> EventType \cap {"pre_tool_use", "user_prompt_submit"}, open |-> TRUE,
     answers |-> {"allow", "deny"}]
AuditHook == [priority |-> 300, on |-> EventType, open |-> TRUE, answers |-> {"allow", "hang"}]

BuiltinHook == [logging |-> LoggingHook, security |-> SecurityHook, audit |-> AuditHook]

\* _create_hook(): a priority may be given, and the hook switched off.
Created(d) ==
    [kind |-> [BuiltinHook[d.class] EXCEPT !.priority = IF d.priority = NoHook THEN @ ELSE d.priority],
     enabled |-> d.enabled]

\* _from_definitions(): a definition without a name or a class that is found is skipped.
Usable(n) ==
    {i \in DOMAIN Definitions : Definitions[i].name = n /\ Definitions[i].class \in DOMAIN BuiltinHook}

-----------------------------------------------------------------------------
\* _rebuild_index(): the sort by priority is stable.
Rebuilt(table, names, t) ==
    LET subscribed == {n \in Names(names) : table[n].enabled /\ t \in table[n].kind.on}
        before(n, m) ==
            /\ table[n].kind.priority <= table[m].kind.priority
            /\ table[m].kind.priority <= table[n].kind.priority => <<n, m>> \in names
    IN {p \in subscribed \X subscribed : before(p[1], p[2])}

Changes(names) ==
    /\ hookChanges < MaxHookChanges /\ hookChanges' = hookChanges + 1
    /\ steady' = [e \in Emission |-> steady[e] \ names]

Tabled(table, names) ==
    /\ hooks' = table /\ order' = names
    /\ index' = [t \in EventType |-> Rebuilt(table, names, t)]

\* register(), lines 187-195: a hook takes the place of one with its name.
Register(n, k) ==
    /\ Changes({n})
    /\ Tabled([hooks EXCEPT ![n] = [kind |-> k, enabled |-> TRUE]],
              IF n \in Names(order) THEN order ELSE AtEnd(order, n))
    /\ ready' = ready \ {n}
    /\ UNCHANGED <<initialized, setting, runVars>>

\* The names of the file that are new come in the order of their first definitions.
Joined(found) ==
    LET new == found \ Names(order)
    IN order \cup {p \in (Names(order) \cup new) \X new :
                      p[1] \in new => Min(Usable(p[1])) <= Min(Usable(p[2]))}

\* load_and_register(): the hooks are registered together, of those with one name the
\* last; then initialize(), which does nothing a second time.
Load ==
    LET found == {n \in HookName : Usable(n) # {}}
    IN /\ found # {} /\ Changes(found)
       /\ Tabled([n \in HookName |-> IF n \in found THEN Created(Definitions[Max(Usable(n))]) ELSE hooks[n]],
                 Joined(found))
       /\ ready' = ready \ found
       /\ setting.doing = "none"
       /\ setting' = IF initialized THEN setting ELSE [doing |-> "setup", names |-> Joined(found)]
       /\ UNCHANGED <<initialized, runVars>>

Unregister(n) ==
    /\ n \in Names(order) /\ Changes({n})
    /\ Tabled([hooks EXCEPT ![n] = NoHook], Without(order, n))
    /\ UNCHANGED <<lifeVars, runVars>>

\* enabled is an attribute; the index follows at the next registration only.
Switch(n) ==
    /\ n \in Names(order) /\ Changes({n})
    /\ hooks' = [hooks EXCEPT ![n] = [kind |-> hooks[n].kind, enabled |-> ~hooks[n].enabled]]
    /\ UNCHANGED <<order, index, lifeVars, runVars>>

\* initialize() and shutdown(), lines 242-271: over a copy of the table, one await each.
Initialize ==
    /\ ~initialized /\ setting.doing = "none"
    /\ setting' = [doing |-> "setup", names |-> order]
    /\ UNCHANGED <<tableVars, ready, initialized, runVars, hookChanges, steady>>

Shutdown ==
    /\ setting.doing = "none" /\ Changes({})
    /\ setting' = [doing |-> "teardown", names |-> order]
    /\ UNCHANGED <<tableVars, ready, initialized, runVars>>

SetUpNext ==
    \E n \in First(setting.names) :
        /\ setting' = [doing |-> setting.doing, names |-> Without(setting.names, n)]
        /\ ready' = IF setting.doing = "setup" THEN ready \cup {n} ELSE ready \ {n}
        /\ UNCHANGED <<tableVars, initialized, runVars, hookChanges, steady>>

SetUpDone ==
    /\ setting.doing # "none" /\ setting.names = {}
    /\ setting' = [doing |-> "none", names |-> {}]
    /\ initialized' = (setting.doing = "setup")
    /\ IF setting.doing = "setup" THEN UNCHANGED <<tableVars, steady>>
       ELSE /\ hooks' = [n \in HookName |-> NoHook] /\ order' = {}
            /\ index' = [t \in EventType |-> {}]
            /\ steady' = [e \in Emission |-> {}]
    /\ UNCHANGED <<ready, runVars, hookChanges>>

-----------------------------------------------------------------------------
\* execute_hooks() and the six emit_ methods, lines 298-306: the names of the event.
Emit(e) ==
    LET names == index[EventOf[e]]
    IN /\ phase[e] = "new"
       /\ todo' = [todo EXCEPT ![e] = names]
       /\ phase' = [phase EXCEPT ![e] = IF names = {} THEN "returned" ELSE "running"]
       /\ steady' = [steady EXCEPT ![e] = {n \in Names(names) : hooks[n] # NoHook /\ hooks[n].enabled}]
       /\ UNCHANGED <<tableVars, lifeVars, heard, decision, content, hookChanges>>

\* AggregateHookResult.add(): a denial stands, a modification does not turn into approval.
Added(was, verdict) ==
    CASE verdict = "deny" -> "deny"
      [] verdict = "modify" /\ was = "allow" -> "modify"
      [] OTHER -> was

\* What an answer counts as: a failure is an approval of a hook that fails open.
Verdict(k, how) ==
    CASE how \in {"raise", "hang"} -> IF k.open THEN "allow" ELSE "deny"
      [] how \in {"deny", "modify"} -> how
      [] OTHER -> "allow"

\* The name is looked up again, line 315.
Goes(e, n) ==
    LET rest == Without(todo[e], n)
    IN /\ phase[e] = "running" /\ n \in First(todo[e])
       /\ todo' = [todo EXCEPT ![e] = rest]
       /\ phase' = [phase EXCEPT ![e] = IF rest = {} THEN "returned" ELSE "running"]

Answers(n) == IF hooks[n] = NoHook THEN FALSE ELSE hooks[n].enabled

\* Lines 312-317: it is passed over without its hook.
Skip(e) ==
    /\ \E n \in HookName : Goes(e, n) /\ ~Answers(n)
    /\ UNCHANGED <<tableVars, lifeVars, heard, decision, content, hookChanges, steady>>

\* Lines 319-374: whatever hook has the name now is asked, in one await.
Ask(e) ==
    /\ \E n \in HookName :
         /\ Goes(e, n) /\ Answers(n)
         /\ \E how \in hooks[n].kind.answers :
              LET verdict == Verdict(hooks[n].kind, how) IN
              /\ heard' = [heard EXCEPT ![e] = Append(heard[e], [name |-> n, verdict |-> verdict])]
              /\ decision' = [decision EXCEPT ![e] = Added(decision[e], verdict)]
              /\ content' = [content EXCEPT ![e] = IF verdict = "modify" THEN n ELSE content[e]]
    /\ UNCHANGED <<tableVars, lifeVars, hookChanges, steady>>

HooksNext ==
    \/ \E n \in HookName : (\E k \in HookKind : Register(n, k)) \/ Unregister(n) \/ Switch(n)
    \/ Load \/ Initialize \/ Shutdown \/ SetUpNext \/ SetUpDone
    \/ \E e \in Emission : Emit(e) \/ Skip(e) \/ Ask(e)

-----------------------------------------------------------------------------
\* A hook that was there, subscribed and enabled, for the whole of an emission has been
\* heard once, whatever the others did; a denial, said or for a failure, stands until
\* the caller has it, and what is modified is what the last to modify made of it.  Of
\* hooks that stayed, the one with the lower priority was heard first.
EveryHookHeard ==
    \A e \in Emission :
        LET Heard == {heard[e][k].name : k \in DOMAIN heard[e]}
            Of(v) == {k \in DOMAIN heard[e] : heard[e][k].verdict = v}
        IN /\ phase[e] = "returned" => steady[e] \subseteq Heard
           /\ \A k, m \in DOMAIN heard[e] :
                  k < m => /\ heard[e][k].name # heard[e][m].name
                           /\ {heard[e][k].name, heard[e][m].name} \subseteq steady[e] =>
                                  hooks[heard[e][k].name].kind.priority
                                      <= hooks[heard[e][m].name].kind.priority
           /\ decision[e] = "deny" <=> Of("deny") # {}
           /\ decision[e] = "modify" => Of("modify") # {}
           /\ \A k \in Of("modify") :
                  (\A m \in Of("modify") : m <= k) => content[e] = heard[e][k].name
================================================================================
