------------------------------- MODULE WebhookStore -------------------------------
(***************************************************************************)
(* WebhookManager of app/server/webhooks.py behind the routes of           *)
(* app/server/webhook_router.py: the table of hooks in sqlite, the         *)
(* server's cache of it, and the command line, whose every call is a       *)
(* process with a manager of its own.  A handler runs between two awaits;  *)
(* another process comes between its statements.                           *)
(***************************************************************************)
EXTENDS Integers, FiniteSets

CONSTANTS Hook,
          NoHook,
          Request,           \* requests to the server, each once
          MaxForeign,        \* bound: changes by the command line
          MaxRestarts        \* bound: restarts of the server

VARIABLES rows,              \* the table: each hook's [version, enabled, secret, count]
          cache,             \* _cache of the server's manager
          pc,                \* each request: "new", a place in its handler, or its answer
          hook,              \* the hook of each request
          using,             \* the config its handler holds
          listed,            \* what list_all() last answered
          versions,          \* registrations so far
          fired,             \* triggers of each hook since its row was registered
          foreign,           \* whether another process has changed the row since the server
                             \* last wrote or read it
          changes, restarts  \* bounds spent

hookVars == <<rows, cache, pc, hook, using, listed, versions, fired, foreign, changes, restarts>>

Answers == {"registered", "deleted", "not found", "refused", "signature", "disabled", "ok",
            "failed", "listed", "lost"}

StoreInit ==
    /\ rows = [h \in Hook |-> NoHook] /\ cache = [h \in Hook |-> NoHook]
    /\ pc = [r \in Request |-> "new"] /\ hook \in [Request -> Hook]
    /\ using = [r \in Request |-> NoHook] /\ listed = {}
    /\ versions = 0 /\ fired = [h \in Hook |-> 0] /\ foreign = [h \in Hook |-> FALSE]
    /\ changes = 0 /\ restarts = 0

\* A config as it is registered: to_db_row() and back.
Config(enabled, secret) ==
    [version |-> versions + 1, enabled |-> enabled, secret |-> secret, count |-> 0]

\* The server's event loop: a handler under way keeps the others waiting, the run of an
\* agent does not.
Free == \A r \in Request : pc[r] \notin {"caching", "popping", "counting"}

Says(r, answer) == pc' = [pc EXCEPT ![r] = answer]

\* INSERT OR REPLACE, and DELETE, committed.
Inserts(h, config) ==
    /\ rows' = [rows EXCEPT ![h] = config]
    /\ versions' = versions + 1 /\ fired' = [fired EXCEPT ![h] = 0]
Deletes(h) ==
    rows' = [rows EXCEPT ![h] = NoHook] /\ UNCHANGED <<versions, fired>>

-----------------------------------------------------------------------------
\* register(), lines 179-194, behind POST: a prompt template is required.
Register(r) ==
    /\ pc[r] = "new" /\ Free
    /\ \/ /\ Says(r, "refused")
          /\ UNCHANGED <<rows, using, versions, fired, foreign>>
       \/ \E enabled, secret \in BOOLEAN :
             /\ Inserts(hook[r], Config(enabled, secret))
             /\ using' = [using EXCEPT ![r] = Config(enabled, secret)]
             /\ foreign' = [foreign EXCEPT ![hook[r]] = FALSE]
             /\ Says(r, "caching")
    /\ UNCHANGED <<cache, hook, listed, changes, restarts>>

\* Lines 196-198.
RegisterCaches(r) ==
    /\ pc[r] = "caching"
    /\ cache' = [cache EXCEPT ![hook[r]] = using[r]]
    /\ Says(r, "registered")
    /\ UNCHANGED <<rows, hook, using, listed, versions, fired, foreign, changes, restarts>>

\* unregister(), lines 209-211.
Unregister(r) ==
    /\ pc[r] = "new" /\ Free
    /\ IF rows[hook[r]] = NoHook
       THEN Says(r, "not found") /\ UNCHANGED <<rows, versions, fired, foreign>>
       ELSE /\ Deletes(hook[r]) /\ foreign' = [foreign EXCEPT ![hook[r]] = FALSE]
            /\ Says(r, "popping")
    /\ UNCHANGED <<cache, hook, using, listed, changes, restarts>>

\* A mutant of UnregisterPops: what has been cached stays.
UnregisterKeeps(r) ==
    /\ pc[r] = "popping" /\ Says(r, "deleted")
    /\ UNCHANGED <<rows, cache, hook, using, listed, versions, fired, foreign, changes, restarts>>

\* Lines 213-216.
UnregisterPops(r) ==
    /\ pc[r] = "popping"
    /\ cache' = [cache EXCEPT ![hook[r]] = NoHook]
    /\ Says(r, "deleted")
    /\ UNCHANGED <<rows, hook, using, listed, versions, fired, foreign, changes, restarts>>

\* get(): what is cached, else what is in the table, which is cached then.
Got(h) == IF cache[h] # NoHook THEN cache[h] ELSE rows[h]
Get(h) ==
    /\ cache' = [cache EXCEPT ![h] = Got(h)]
    /\ foreign' = [foreign EXCEPT ![h] = @ /\ cache[h] # NoHook]

\* sign_payload().
Sign(r) ==
    /\ pc[r] = "new" /\ Free
    /\ Get(hook[r])
    /\ Says(r, IF Got(hook[r]) = NoHook THEN "not found"
               ELSE IF Got(hook[r]).secret THEN "ok" ELSE "refused")
    /\ UNCHANGED <<rows, hook, using, listed, versions, fired, changes, restarts>>

\* verify_hmac(): whether the signature is the one of the config's secret.
Verified(config, signed) == ~config.secret \/ signed = config.version

\* trigger_webhook() as far as trigger(), line 334: the request is unsigned (0) or signed with
\* the secret of some registration.
Trigger(r) ==
    /\ pc[r] = "new" /\ Free
    /\ Get(hook[r])
    /\ \E signed \in 0..versions :
          Says(r, CASE Got(hook[r]) = NoHook -> "not found"
                    [] ~Verified(Got(hook[r]), signed) -> "signature"
                    [] ~Got(hook[r]).enabled -> "disabled"
                    [] OTHER -> "counting")
    /\ using' = [using EXCEPT ![r] = Got(hook[r])]
    /\ UNCHANGED <<rows, hook, listed, versions, fired, changes, restarts>>

\* Lines 337-345: UPDATE finds the row or none; the config held, which is the cached one,
\* counts too.
TriggerCounts(r) ==
    LET h == hook[r] IN
    /\ pc[r] = "counting"
    /\ rows' = IF rows[h] = NoHook THEN rows ELSE [rows EXCEPT ![h].count = @ + 1]
    /\ cache' = [cache EXCEPT ![h].count = @ + 1]
    /\ using' = [using EXCEPT ![r].count = @ + 1]
    /\ fired' = [fired EXCEPT ![h] = @ + 1]
    /\ Says(r, "running")
    /\ UNCHANGED <<hook, listed, versions, foreign, changes, restarts>>

\* Lines 348-369: the agent has run, or failed.
AgentAnswers(r) ==
    /\ pc[r] = "running" /\ Free
    /\ \E answer \in {"ok", "failed"} : Says(r, answer)
    /\ UNCHANGED <<rows, cache, hook, using, listed, versions, fired, foreign, changes, restarts>>

\* _load_cache().
LoadCache == cache' = rows /\ foreign' = [h \in Hook |-> FALSE]

\* list_all(): the table is read only where nothing is cached.
ListAll(r) ==
    LET Cached == {h \in Hook : cache[h] # NoHook} IN
    /\ pc[r] = "new" /\ Free /\ Says(r, "listed")
    /\ IF Cached = {}
       THEN LoadCache /\ listed' = {h \in Hook : rows[h] # NoHook}
       ELSE listed' = Cached /\ UNCHANGED <<cache, foreign>>
    /\ UNCHANGED <<rows, hook, using, versions, fired, changes, restarts>>

\* main_cli(): --add and --remove; --list and --info of a fresh manager show the table.
CommandLine(h) ==
    /\ changes < MaxForeign /\ changes' = changes + 1
    /\ \/ \E secret \in BOOLEAN : Inserts(h, Config(TRUE, secret))
       \/ rows[h] # NoHook /\ Deletes(h)
    /\ foreign' = [foreign EXCEPT ![h] = TRUE]
    /\ UNCHANGED <<cache, pc, hook, using, listed, restarts>>

\* The server goes down, between any two statements, and comes up with an empty cache.
Restart ==
    /\ restarts < MaxRestarts /\ restarts' = restarts + 1
    /\ cache' = [h \in Hook |-> NoHook]
    /\ pc' = [r \in Request |-> IF pc[r] \in {"new"} \cup Answers THEN pc[r] ELSE "lost"]
    /\ UNCHANGED <<rows, hook, using, listed, versions, fired, foreign, changes>>

StoreStep(r) ==
    \/ Register(r) \/ RegisterCaches(r) \/ Unregister(r) \/ UnregisterPops(r) \/ Sign(r)
    \/ Trigger(r) \/ TriggerCounts(r) \/ AgentAnswers(r) \/ ListAll(r)

WebhookNext == (\E r \in Request : StoreStep(r)) \/ (\E h \in Hook : CommandLine(h)) \/ Restart

-----------------------------------------------------------------------------
\* The table counts every trigger since the hook was registered, over requests, restarts and
\* the command line; between two handlers the server knows a hook as it is in the table,
\* its count included, unless another process has changed it: what was deleted or
\* registered anew is triggered, and signed for, as it was before by nobody.
HooksAgree ==
    /\ \A h \in Hook : rows[h] # NoHook => rows[h].count = fired[h]
    /\ Free => \A h \in Hook : cache[h] # NoHook /\ ~foreign[h] => cache[h] = rows[h]
================================================================================
