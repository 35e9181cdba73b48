--------------------------------- MODULE Secrets ---------------------------------
(***************************************************************************)
(* app/secrets: FileSecretsStore, one encrypted file for each name, the    *)
(* SecretRegistry that resolves registered names and keeps what it has     *)
(* resolved, and the handlers of the REST routes.  The store and the       *)
(* registry have a threading.Lock each, which a call holds for one step;   *)
(* resolve() and update_secret() take several.  The process may die; the   *)
(* files stay, and the key only when it comes from the environment.        *)
(*                                                                         *)
(* Every value that is set is another positive number.                     *)
(***************************************************************************)
EXTENDS Naturals, FiniteSets

CONSTANTS Client, Name,
          FileOf,         \* [Name -> file]: _secret_file(), not injective
          EnvKey,         \* whether MANUSCLAW_FERNET_KEY is set
          Absent, None,
          MaxSets,        \* bound: values ever set
          MaxOps,         \* bound: calls of one client
          MaxRestarts     \* bound: deaths of the process

VARIABLES secret,         \* the content of each file, or Absent
          orphans,        \* secrets in temporary files that a death has left
          registry,       \* the _RegistryEntry of each registered name
          pc, name, loaded,   \* each client: where it is, and what it has read
          reply,          \* the value its last call returned, if any
          ops,            \* calls it has begun
          sets, restarts,
          cleared,        \* values no file had at a clear_cache() while no resolve() ran
          barred          \* cleared, when the client's call began

secretVars == <<secret, orphans, registry, pc, name, loaded, reply, ops, sets, restarts,
                cleared, barred>>

File == {FileOf[n] : n \in Name}
Key == IF EnvKey THEN 0 ELSE restarts
Outside == 0          \* a value that a variable or a URL gives

Readable(s) == s # Absent /\ (s.value = Outside \/ s.key = Key)
Resolving == {"reading", "keeping"}

SecretInit ==
    /\ secret = [f \in File |-> Absent] /\ orphans = {}
    /\ registry = [n \in Name |-> Absent]
    /\ pc = [c \in Client |-> "idle"]
    /\ name \in [Client -> Name]
    /\ loaded = [c \in Client |-> Absent]
    /\ reply = [c \in Client |-> None]
    /\ ops = [c \in Client |-> 0]
    /\ sets = 0 /\ restarts = 0
    /\ cleared = {}
    /\ barred = [c \in Client |-> {}]

Stored == {secret[f] : f \in File} \ {Absent}
Gone == (1..sets) \ {s.value : s \in Stored}

Calls(c, n) ==
    /\ pc[c] = "idle" /\ ops[c] < MaxOps
    /\ ops' = [ops EXCEPT ![c] = @ + 1]
    /\ name' = [name EXCEPT ![c] = n]
    /\ barred' = [barred EXCEPT ![c] = cleared]

Answers(c, value) ==
    /\ pc' = [pc EXCEPT ![c] = "idle"]
    /\ reply' = [reply EXCEPT ![c] = value]

-----------------------------------------------------------------------------
(* The store.                                                              *)

\* set(): the entry is written aside and moved to its name, lines 287-327.
Stores(n, value) ==
    secret' = [secret EXCEPT ![FileOf[n]] = [name |-> n, value |-> value, key |-> Key]]

\* set(), and create_secret(), which does not overwrite.
Set(c, n, overwrite) ==
    /\ Calls(c, n)
    /\ IF secret[FileOf[n]] # Absent /\ ~overwrite
         THEN UNCHANGED <<secret, sets>>
         ELSE /\ sets < MaxSets
              /\ \/ Stores(n, sets + 1) /\ sets' = sets + 1
                 \/ Stores(n, Outside) /\ sets' = sets     \* source ENV or LOOKUP
    /\ Answers(c, None)
    /\ UNCHANGED <<orphans, registry, loaded, restarts, cleared>>

\* delete(), lines 329-343.
Delete(c, n) ==
    /\ Calls(c, n)
    /\ secret' = [secret EXCEPT ![FileOf[n]] = Absent]
    /\ Answers(c, None)
    /\ UNCHANGED <<orphans, registry, loaded, sets, restarts, cleared>>

\* update_secret() reads the entry and, unless it is given one, the value, which it
\* must be able to decrypt: router.py, lines 226-253.
UpdateReads(c, n, fresh) ==
    LET s == secret[FileOf[n]] IN
    /\ Calls(c, n)
    /\ IF s # Absent /\ (fresh \/ Readable(s))
         THEN /\ pc' = [pc EXCEPT ![c] = "updating"]
              /\ loaded' = [loaded EXCEPT ![c] =
                              IF fresh /\ s.value # Outside THEN sets + 1 ELSE s.value]
              /\ sets' = IF fresh THEN sets + 1 ELSE sets
              /\ sets' <= MaxSets
              /\ UNCHANGED reply
         ELSE Answers(c, None) /\ UNCHANGED <<loaded, sets>>
    /\ UNCHANGED <<secret, orphans, registry, restarts, cleared>>

\* It writes the whole entry, over whatever is there by now: lines 255-265.
UpdateWrites(c) ==
    /\ pc[c] = "updating"
    /\ Stores(name[c], loaded[c])
    /\ Answers(c, None)
    /\ loaded' = [loaded EXCEPT ![c] = Absent]
    /\ cleared' = cleared \ {loaded[c]}
    /\ barred' = [d \in Client |-> barred[d] \ {loaded[c]}]
    /\ UNCHANGED <<orphans, registry, name, ops, sets, restarts>>

-----------------------------------------------------------------------------
(* The registry.                                                           *)

Registered(c) == [by |-> c, value |-> Absent]

\* register() replaces the entry, and its value with it: lines 166-172.
Register(c, n) ==
    /\ Calls(c, n)
    /\ registry' = [registry EXCEPT ![n] = Registered(<<c, ops[c]>>)]
    /\ Answers(c, None)
    /\ UNCHANGED <<secret, orphans, loaded, sets, restarts, cleared>>

\* register_from_store(): the names inside all "*.json" files, to which the
\* temporary ones belong.
Listed(aside) == {s.name : s \in Stored \cup aside}

RegisterFromStore(c) ==
    /\ \E n \in Name : Calls(c, n)
    /\ registry' = [n \in Name |-> IF n \in Listed(orphans) THEN Registered(<<c, ops[c]>>) ELSE registry[n]]
    /\ Answers(c, None)
    /\ UNCHANGED <<secret, orphans, loaded, sets, restarts, cleared>>

Unregister(c, n) ==
    /\ Calls(c, n)
    /\ registry' = [registry EXCEPT ![n] = Absent]
    /\ Answers(c, None)
    /\ UNCHANGED <<secret, orphans, loaded, sets, restarts, cleared>>

\* A mutant of ClearCache: the entries keep their values.
ClearCacheNot(c) ==
    /\ \E n \in Name : Calls(c, n)
    /\ cleared' = IF \E d \in Client : pc[d] \in Resolving THEN cleared ELSE Gone
    /\ Answers(c, None)
    /\ UNCHANGED <<secret, orphans, registry, loaded, sets, restarts>>

\* Lines 363-373.
ClearCache(c) ==
    /\ \E n \in Name : Calls(c, n)
    /\ registry' = [n \in Name |-> IF registry[n] = Absent THEN Absent
                                   ELSE [registry[n] EXCEPT !.value = Absent]]
    /\ cleared' = IF \E d \in Client : pc[d] \in Resolving THEN cleared ELSE Gone
    /\ Answers(c, None)
    /\ UNCHANGED <<secret, orphans, loaded, sets, restarts>>

\* resolve() looks the name up: lines 218-230.
Resolve(c, n) ==
    /\ Calls(c, n)
    /\ IF registry[n] = Absent THEN Answers(c, None) /\ UNCHANGED loaded
       ELSE IF registry[n].value # Absent
         THEN Answers(c, registry[n].value) /\ UNCHANGED loaded
       ELSE /\ pc' = [pc EXCEPT ![c] = "reading"]
            /\ loaded' = [loaded EXCEPT ![c] = registry[n]]
            /\ UNCHANGED reply
    /\ UNCHANGED <<secret, orphans, registry, sets, restarts, cleared>>

\* It asks the store without its lock: lines 233-246.
ResolveReads(c) ==
    LET s == secret[FileOf[name[c]]] IN
    /\ pc[c] = "reading"
    /\ \/ /\ Readable(s)
          /\ pc' = [pc EXCEPT ![c] = "keeping"]
          /\ loaded' = [loaded EXCEPT ![c].value = s.value]
          /\ UNCHANGED reply
       \/ /\ ~(Readable(s) /\ s.value # Outside)       \* _resolve_env(), _resolve_lookup()
          /\ Answers(c, None)
          /\ loaded' = [loaded EXCEPT ![c] = Absent]
    /\ UNCHANGED <<secret, orphans, registry, name, ops, sets, restarts, cleared,
                   barred>>

\* And keeps the value in the entry it found, which may not be registered any
\* more: lines 249-257.
ResolveKeeps(c) ==
    LET e == registry[name[c]] IN
    /\ pc[c] = "keeping"
    /\ registry' = [registry EXCEPT ![name[c]] =
                      IF e # Absent /\ e.by = loaded[c].by THEN loaded[c] ELSE e]
    /\ Answers(c, loaded[c].value)
    /\ loaded' = [loaded EXCEPT ![c] = Absent]
    /\ UNCHANGED <<secret, orphans, name, ops, sets, restarts, cleared, barred>>

-----------------------------------------------------------------------------
\* The process dies, perhaps with a secret written aside and not yet moved, and
\* get_default_registry() of the next one registers what the store lists.
Restart ==
    /\ restarts < MaxRestarts
    /\ restarts' = restarts + 1
    /\ \E n \in Name, aside \in {{}, {sets + 1}} :
          LET left == orphans \cup {[name |-> n, value |-> v] : v \in aside} IN
          /\ sets + Cardinality(aside) <= MaxSets
          /\ sets' = sets + Cardinality(aside)
          /\ orphans' = left
          /\ registry' = [m \in Name |-> IF m \in Listed(left) THEN Registered(<<None, restarts>>)
                                                             ELSE Absent]
    /\ pc' = [c \in Client |-> "idle"]
    /\ loaded' = [c \in Client |-> Absent]
    /\ reply' = [c \in Client |-> None]
    /\ UNCHANGED <<secret, name, ops, cleared, barred>>

SecretNext ==
    \/ \E c \in Client :
          \/ \E n \in Name : \/ Delete(c, n) \/ Register(c, n)
                             \/ Unregister(c, n) \/ Resolve(c, n)
                             \/ \E b \in BOOLEAN : Set(c, n, b) \/ UpdateReads(c, n, b)
          \/ UpdateWrites(c) \/ RegisterFromStore(c) \/ ClearCache(c)
          \/ ResolveReads(c) \/ ResolveKeeps(c)
    \/ Restart

-----------------------------------------------------------------------------
SecretTypeOK ==
    /\ \A f \in File : secret[f] # Absent => FileOf[secret[f].name] = f
    /\ pc \in [Client -> {"idle", "updating"} \cup Resolving]
    /\ sets \in 0..MaxSets /\ restarts \in 0..MaxRestarts
    /\ cleared \subseteq 1..MaxSets

\* After clear_cache() resolve() does not return a value that the store had lost by
\* then (registry.py, line 367: "Subsequent calls to :meth:`resolve` will re-query
\* the backing store."), unless a resolve() was under way when the cache was
\* cleared: that one keeps what it had read before, and so do all that follow.
ClearedIsGone == \A c \in Client : pc[c] = "idle" => reply[c] \notin barred[c]
=================================================================================
