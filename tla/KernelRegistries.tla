---------------------------- MODULE KernelRegistries ----------------------------
(***************************************************************************)
(* The registries the kernel's gates read: schemas, budgets, roles and     *)
(* predicates, each a dictionary under a lock in which an entry stands     *)
(* until the registry is cleared (holly/kernel/*_registry.py), and the     *)
(* registry of ICD models (icd_schema_registry.py), whose entries expire.  *)
(* Threads use the latter: each reads the clock before it gets the lock.   *)
(* Its clear() is for tests and not an action here.                        *)
(***************************************************************************)
EXTENDS Integers, FiniteSets

CONSTANTS
    Ids,        \* the ids entries are registered under
    Values,     \* what is registered
    Invalid,    \* those of Values a registry refuses: no schema, no budget, not callable
    Threads,    \* users of the ICD registry
    TTLs,       \* times to live passed to register
    MaxClock,   \* bound on the clock
    NoValue     \* nothing registered

VARIABLES
    registered,  \* registered[kind][id], or NoValue
    entries,     \* _entries of ICDSchemaRegistry: id -> [model, expires_at], or NoValue
    clock,       \* time.monotonic()
    thread,      \* thread[t]: the operation it waits for the lock with
    resolved     \* history: what the last resolve of a thread found

registryVars == <<registered, entries, clock, thread, resolved>>

Kinds == {"schema", "budget", "role", "predicate"}

\* What register() refuses before it looks at the id: what is no schema, a
\* negative limit, what cannot be called.  Any set of permissions is taken.
SchemaRefused(value) == value \in Invalid
BudgetRefused(limit) == limit \in Invalid
PredicateRefused(predicate) == predicate \in Invalid
RoleRefused(permissions) == FALSE

Refused(kind, value) ==
    CASE kind = "schema" -> SchemaRefused(value) [] kind = "budget" -> BudgetRefused(value)
      [] kind = "predicate" -> PredicateRefused(value) [] kind = "role" -> RoleRefused(value)

RegistriesInit ==
    /\ registered = [k \in Kinds |-> [i \in Ids |-> NoValue]]
    /\ entries = [i \in Ids |-> NoValue]
    /\ clock = 0
    /\ thread = [t \in Threads |-> [op |-> "none"]]
    /\ resolved = [t \in Threads |-> NoValue]

\* register, register_role: a second entry under an id raises.
Register(kind, id, value) ==
    /\ ~Refused(kind, value) /\ registered[kind][id] = NoValue
    /\ registered' = [registered EXCEPT ![kind][id] = value]
    /\ UNCHANGED <<entries, clock, thread, resolved>>

Clear(kind) ==
    /\ registered' = [registered EXCEPT ![kind] = [i \in Ids |-> NoValue]]
    /\ UNCHANGED <<entries, clock, thread, resolved>>

-----------------------------------------------------------------------------

\* time.monotonic() before the lock.
Ask(t, op, id, model, ttl) ==
    /\ thread[t].op = "none"
    /\ thread' = [thread EXCEPT ![t] = [op |-> op, id |-> id, model |-> model, ttl |-> ttl, now |-> clock]]
    /\ UNCHANGED <<registered, entries, clock, resolved>>

\* Mutant: any entry counts.
LiveForEver(entry, now) == entry # NoValue

Live(entry, now) == IF entry = NoValue THEN FALSE ELSE entry.expires_at > now

Locked(t, op) == thread[t].op = op /\ thread' = [thread EXCEPT ![t] = [op |-> "none"]]

\* register: an entry that lives raises ICDModelAlreadyRegisteredError.
RegisterModel(t) ==
    LET call == thread[t] IN
    /\ Locked(t, "register")
    /\ entries' = IF Live(entries[call.id], call.now) THEN entries
                  ELSE [entries EXCEPT ![call.id] = [model |-> call.model, expires_at |-> call.now + call.ttl]]
    /\ UNCHANGED <<registered, clock, resolved>>

\* Without a live entry: what is there goes.
Dropped(id, now) == IF Live(entries[id], now) THEN entries ELSE [entries EXCEPT ![id] = NoValue]

\* resolve, and validate, which resolves first.
Resolve(t) ==
    LET call == thread[t] IN
    /\ Locked(t, "resolve")
    /\ entries' = Dropped(call.id, call.now)
    /\ resolved' = [resolved EXCEPT ![t] =
          IF Live(entries[call.id], call.now)
          THEN [entry |-> entries[call.id], now |-> call.now] ELSE NoValue]
    /\ UNCHANGED <<registered, clock>>

Has(t) ==
    /\ Locked(t, "has")
    /\ entries' = Dropped(thread[t].id, thread[t].now)
    /\ UNCHANGED <<registered, clock, resolved>>

EvictStale(t) ==
    /\ Locked(t, "evict")
    /\ entries' = [i \in Ids |-> IF Live(entries[i], thread[t].now) THEN entries[i] ELSE NoValue]
    /\ UNCHANGED <<registered, clock, resolved>>

Pass ==
    /\ clock < MaxClock /\ clock' = clock + 1
    /\ UNCHANGED <<registered, entries, thread, resolved>>

\* The two parts share no state.
KeyedNext ==
    \/ \E k \in Kinds, i \in Ids, v \in Values : Register(k, i, v)
    \/ \E k \in Kinds : Clear(k)

ICDNext ==
    \/ \E t \in Threads, op \in {"register", "resolve", "has", "evict"}, i \in Ids, m \in Values, ttl \in TTLs :
          /\ op = "register" => m \notin Invalid
          /\ op # "register" => m = (CHOOSE v \in Values : TRUE) /\ ttl = (CHOOSE x \in TTLs : TRUE)
          /\ Ask(t, op, i, m, ttl)
    \/ \E t \in Threads : RegisterModel(t) \/ Resolve(t) \/ Has(t) \/ EvictStale(t)
    \/ Pass

RegistriesNext == KeyedNext \/ ICDNext

-----------------------------------------------------------------------------

RegistriesTypeOK ==
    /\ registered \in [Kinds -> [Ids -> Values \union {NoValue}]]
    /\ clock \in 0 .. MaxClock
    /\ \A i \in Ids : entries[i] # NoValue => entries[i].model \in Values \ Invalid

\* A registration stands: what is under an id changes only when the registry
\* is cleared or, for an ICD model, its time is over at that moment, also if
\* the thread that replaces or removes it has waited for the lock with an old
\* reading of the clock; and what a thread resolved was live when it asked.
RegistrationsStand ==
    /\ [](\A t \in Threads : resolved[t] # NoValue => resolved[t].entry.expires_at > resolved[t].now)
    /\ [][/\ \A k \in Kinds, i \in Ids :
                registered[k][i] # NoValue /\ registered'[k][i] # registered[k][i] =>
                   \A j \in Ids : registered'[k][j] = NoValue
          /\ \A i \in Ids :
                entries[i] # NoValue /\ entries'[i] # entries[i] => entries[i].expires_at <= clock]_registryVars
=============================================================================
