----------------------------- MODULE PostgresRepos -----------------------------
(***************************************************************************)
(* Writes through the tenant's pool, holly/storage/postgres.py: a caller   *)
(* acquires a connection, sets the tenant and runs one statement; some     *)
(* repositories retry a statement that Postgres aborted as the victim of a *)
(* deadlock, others swallow every exception.  A statement is committed or  *)
(* not on its own; its answer may be lost after that.  A row is            *)
(* represented by the call that wrote it last.                             *)
(***************************************************************************)
EXTENDS Naturals, FiniteSets

CONSTANTS
    Callers,      \* each makes one call
    Operations,   \* the operations called
    Keys,         \* of the rows
    PoolSize,     \* connections (_POOL_MAX_SIZE)
    MaxAttempts,  \* length of _DEADLOCK_DELAYS_MS
    NoCall        \* no such row

VARIABLES
    stored,     \* stored[table][key]: the row's last writer, or NoCall
    appended,   \* the rows of the audit log, by the call that wrote them
    call        \* call[c]: [kind, key, pc, attempts, commits, result]

postgresVars == <<stored, appended, call>>

Tables == {"goals", "workflow_checkpoints", "task_state", "memory_store"}
Table == [goal_insert |-> "goals", goal_update |-> "goals",
          checkpoint_upsert |-> "workflow_checkpoints",
          task_upsert |-> "task_state", memory_insert |-> "memory_store"]
Kind(c) == call[c].kind
Retried(c) == Kind(c) \notin {"audit_append", "task_upsert"}
Swallows(c) == ~Retried(c)

Held(c) == call[c].pc \in {"executing", "sleeping"}
InUse == Cardinality({c \in Callers : Held(c)})

PostgresInit ==
    /\ stored = [t \in Tables |-> [k \in Keys |-> NoCall]]
    /\ appended = {}
    /\ call = [c \in Callers |-> [kind |-> "none", key |-> NoCall, pc |-> "idle", attempts |-> 0, commits |-> 0, result |-> "none"]]

Finish(c, result, commits) ==
    call' = [call EXCEPT ![c] = [call[c] EXCEPT !.pc = "done", !.commits = call[c].commits + commits,
                                                !.result = IF result = "raised" /\ Swallows(c) THEN "returned" ELSE result]]

-----------------------------------------------------------------------------

Call(c, kind, key) ==
    /\ call[c].pc = "idle"
    /\ call' = [call EXCEPT ![c] = [@ EXCEPT !.kind = kind, !.key = key, !.pc = "called"]]
    /\ UNCHANGED <<stored, appended>>

\* TenantIsolatedPool.acquire
Acquire(c) ==
    /\ call[c].pc = "called" /\ InUse < PoolSize
    /\ call' = [call EXCEPT ![c].pc = "executing"]
    /\ UNCHANGED <<stored, appended>>

\* No connection in time, or the tenant cannot be set.
AcquireFails(c) ==
    /\ call[c].pc = "called"
    /\ Finish(c, "raised", 0) /\ UNCHANGED <<stored, appended>>

Row(c) == stored[Table[Kind(c)]][call[c].key]

\* What each operation's statement does to the row, and its result if the
\* answer arrives.
Outcome(writes, result) == [writes |-> writes, result |-> result]
GoalInsert(c) == IF Row(c) = NoCall THEN Outcome(TRUE, "returned") ELSE Outcome(FALSE, "raised")
GoalUpdate(c) == Outcome(Row(c) # NoCall, "returned")          \* no row, no error
AuditAppend(c) == Outcome(TRUE, "returned")
CheckpointUpsert(c) == Outcome(TRUE, "returned")               \* ON CONFLICT DO UPDATE
TaskUpsert(c) == Outcome(TRUE, "returned")
MemoryInsert(c) ==                                             \* ON CONFLICT DO NOTHING
    IF Row(c) = NoCall THEN Outcome(TRUE, "returned") ELSE Outcome(FALSE, "conflict")

Statement(c) ==
    CASE Kind(c) = "goal_insert" -> GoalInsert(c)
      [] Kind(c) = "goal_update" -> GoalUpdate(c)
      [] Kind(c) = "audit_append" -> AuditAppend(c)
      [] Kind(c) = "checkpoint_upsert" -> CheckpointUpsert(c)
      [] Kind(c) = "task_upsert" -> TaskUpsert(c)
      [] Kind(c) = "memory_insert" -> MemoryInsert(c)

Execute(c, result) ==
    /\ call[c].pc = "executing"
    /\ appended' = IF Kind(c) = "audit_append" THEN appended \union {c} ELSE appended
    /\ stored' = IF Statement(c).writes /\ Kind(c) # "audit_append"
                 THEN [stored EXCEPT ![Table[Kind(c)]][call[c].key] = c] ELSE stored
    /\ Finish(c, result, IF Statement(c).writes THEN 1 ELSE 0)

Answered(c) == Execute(c, Statement(c).result)

\* The connection breaks after the commit.
AnswerLost(c) == Execute(c, "raised")

\* An error or timeout before the commit.
StatementFails(c) ==
    /\ call[c].pc = "executing"
    /\ Finish(c, "raised", 0) /\ UNCHANGED <<stored, appended>>

\* _with_deadlock_retry sleeps with the connection in hand, after the last
\* attempt as well.
Deadlock(c) ==
    /\ call[c].pc = "executing" /\ Retried(c)
    /\ call' = [call EXCEPT ![c] = [call[c] EXCEPT !.pc = "sleeping", !.attempts = call[c].attempts + 1]]
    /\ UNCHANGED <<stored, appended>>

\* Mutant: the loop ends without raising the last exception.
WakeSilent(c) ==
    /\ call[c].pc = "sleeping" /\ UNCHANGED <<stored, appended>>
    /\ IF call[c].attempts < MaxAttempts THEN call' = [call EXCEPT ![c].pc = "executing"]
                                         ELSE Finish(c, "returned", 0)

Wake(c) ==
    /\ call[c].pc = "sleeping" /\ UNCHANGED <<stored, appended>>
    /\ IF call[c].attempts < MaxAttempts THEN call' = [call EXCEPT ![c].pc = "executing"]
                                         ELSE Finish(c, "raised", 0)

PostgresNext ==
    \E c \in Callers :
       \/ \E kind \in Operations, key \in Keys : Call(c, kind, key)
       \/ Acquire(c) \/ AcquireFails(c) \/ Answered(c) \/ AnswerLost(c)
       \/ StatementFails(c) \/ Deadlock(c) \/ Wake(c)

-----------------------------------------------------------------------------

PostgresTypeOK ==
    /\ stored \in [Tables -> [Keys -> Callers \union {NoCall}]]
    /\ appended \subseteq Callers
    /\ call \in [Callers -> [kind : Operations \union {"none"}, key : Keys \union {NoCall},
                             pc : {"idle", "called", "executing", "sleeping", "done"}, attempts : 0 .. MaxAttempts,
                             commits : 0 .. 1, result : {"none", "returned", "conflict", "raised"}]]

\* However often a statement is retried it takes effect once at most; a write
\* that is not best effort returns only with its row in the table; of several
\* inserts of one key one writes it, a goal's inserts that come later fail and
\* a memory's report the conflict; and no more connections are in use than
\* there are (GoalsRepo, CheckpointsRepo, MemoryRepo, _with_deadlock_retry).
WritesAreHonest ==
    /\ InUse <= PoolSize
    /\ \A c \in Callers :
          LET done == call[c].pc = "done" IN
          /\ done /\ call[c].result = "returned" /\ Retried(c) /\ Kind(c) # "goal_update" =>
                call[c].commits = 1 /\ Row(c) # NoCall
          /\ call[c].attempts = MaxAttempts /\ done => call[c].commits = 0 /\ call[c].result = "raised"
          /\ call[c].result = "conflict" => call[c].commits = 0 /\ Row(c) # NoCall
    /\ \A c, d \in Callers :
          Kind(c) = Kind(d) /\ Kind(c) \in {"goal_insert", "memory_insert"} /\ call[c].key = call[d].key
             /\ call[c].commits = 1 /\ call[d].commits = 1 => c = d
=============================================================================
