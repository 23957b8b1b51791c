---------------------------- MODULE TenantBoundary ----------------------------
(***************************************************************************)
(* Row-level security as the boundary between tenants: the migrations of   *)
(* SchemaManager (holly/storage/postgres.py) and the audit of what they    *)
(* left in the database (holly/storage/rls_boundary.py).  A migration is a *)
(* list of statements, each committed on its own; it may stop at any of    *)
(* them, be run again, and run beside another.                             *)
(***************************************************************************)
EXTENDS Integers, Sequences, FiniteSetsExt

CONSTANTS
    Followed,       \* bound: the tables whose statements are modelled
    Migrators,      \* each runs a SchemaManager
    MaxRuns,        \* bound on the migrations started
    Versions        \* tuples of tables that get a policy: _RLS_TABLES, or another

VARIABLES
    rlsTables,      \* the tuple in force, of Versions
    asWritten,      \* what PostgreSQL renders of the policy's clause still contains its text
    table,          \* table[t]: [exists, enabled, forced, policy]
    next,           \* next[m]: the statement m comes to, 0 when it is not running
    outcome,        \* outcome[m]: "none", "failed" or "done", of its last run
    left,           \* left[m]: the table m dropped the policy of, and has not recreated
    runs,           \* migrations started
    auditReport           \* the last audit: [passed, isolated]

boundaryVars == <<rlsTables, asWritten, table, next, outcome, left, runs, auditReport>>

DDL_TABLES == <<"agents", "goals", "topologies", "conversations", "goals_history", "idempotency_keys",
                "logs", "kernel_audit_log", "workflow_checkpoints", "task_state", "memory_store">>
DDL_INDEXES == <<"agents", "goals", "goals", "conversations", "goals_history", "idempotency_keys",
                 "idempotency_keys", "logs", "logs", "kernel_audit_log", "kernel_audit_log",
                 "workflow_checkpoints", "task_state", "task_state", "memory_store", "memory_store">>
RLS_TABLES == <<"agents", "goals", "topologies", "conversations", "goals_history", "idempotency_keys",
                "logs", "workflow_checkpoints", "task_state", "memory_store">>

ICD_BOUNDARY ==
    {[icd_id |-> "ICD-032", rls_required |-> TRUE,
      tables |-> {"agents", "goals", "topologies", "conversations", "goals_history", "idempotency_keys"}],
     [icd_id |-> "ICD-036", rls_required |-> TRUE, tables |-> {"logs"}],
     [icd_id |-> "ICD-038", rls_required |-> FALSE, tables |-> {"kernel_audit_log"}],
     [icd_id |-> "ICD-039", rls_required |-> TRUE, tables |-> {"workflow_checkpoints"}],
     [icd_id |-> "ICD-040", rls_required |-> TRUE, tables |-> {"task_state"}],
     [icd_id |-> "ICD-042", rls_required |-> TRUE, tables |-> {"memory_store"}]}
get_rls_required_tables == UNION {s.tables : s \in {b \in ICD_BOUNDARY : b.rls_required}}
get_rls_exempt_tables == UNION {s.tables : s \in {b \in ICD_BOUNDARY : ~b.rls_required}}
get_all_icd_tables == UNION {s.tables : s \in ICD_BOUNDARY}

\* The static validator: its violations, by kind and table.
validate_icd_boundary_static(impl) ==
    ({"overlap"} \X (get_rls_required_tables \intersect get_rls_exempt_tables))
    \union ({"missing"} \X (get_rls_required_tables \ Range(impl)))
    \union ({"extra"} \X (Range(impl) \ get_rls_required_tables))

-----------------------------------------------------------------------------

Each(ops, tables) ==
    [i \in 1 .. Len(ops) * Len(tables) |->
        [op |-> ops[((i - 1) % Len(ops)) + 1], on |-> tables[((i - 1) \div Len(ops)) + 1]]]

create_tables == Each(<<"table">>, DDL_TABLES)
create_indexes == Each(<<"index">>, DDL_INDEXES)

\* Mutant: the policy comes before the table's security is switched on.
enable_rls_after_policy == Each(<<"drop", "create", "enable", "force">>, rlsTables)

enable_rls == Each(<<"enable", "force", "drop", "create">>, rlsTables)

run_migrations == create_tables \o create_indexes \o enable_rls

\* The statement on a table followed that comes after i, 0 if none does.
StatementAfter(i, all) ==
    LET following == {j \in (i + 1) .. Len(all) : all[j].on \in Followed} IN
    IF following = {} THEN 0 ELSE Min(following)

\* Tables of an earlier schema carry a policy whose clause lacks the expected text.
BoundaryInit ==
    /\ rlsTables \in Versions /\ asWritten \in BOOLEAN
    /\ \E old \in SUBSET (Followed \intersect Range(RLS_TABLES)) :
          table = [t \in Followed |-> [exists |-> t \in old, enabled |-> t \in old, forced |-> FALSE,
                                       policy |-> IF t \in old THEN "other" ELSE "none"]]
    /\ next = [m \in Migrators |-> 0] /\ outcome = [m \in Migrators |-> "none"]
    /\ left = [m \in Migrators |-> {}] /\ runs = 0
    /\ auditReport = [passed |-> FALSE, isolated |-> {}]

Start(m) ==
    /\ next[m] = 0 /\ runs < MaxRuns
    /\ next' = [next EXCEPT ![m] = StatementAfter(0, run_migrations)] /\ runs' = runs + 1
    /\ outcome' = [outcome EXCEPT ![m] = "none"]
    /\ UNCHANGED <<rlsTables, asWritten, table, left, auditReport>>

\* CREATE POLICY finds a policy of that name.
Refused(s) == s.op = "create" /\ table[s.on].policy # "none"

Effect(s) ==
    CASE s.op = "table" -> [table EXCEPT ![s.on].exists = TRUE]
      [] s.op = "index" -> table
      [] s.op = "enable" -> [table EXCEPT ![s.on].enabled = TRUE]
      [] s.op = "force" -> [table EXCEPT ![s.on].forced = TRUE]
      [] s.op = "drop" -> [table EXCEPT ![s.on].policy = "none"]
      [] s.op = "create" -> [table EXCEPT ![s.on].policy = "tenant_isolation"]

Statement(m) ==
    /\ next[m] # 0
    /\ LET all == run_migrations  s == all[next[m]]  after == StatementAfter(next[m], all) IN
       /\ ~Refused(s) /\ table' = Effect(s)
       /\ left' = [left EXCEPT ![m] = IF s.op = "drop" THEN @ \union {s.on}
                                      ELSE IF s.op = "create" THEN @ \ {s.on} ELSE @]
       /\ next' = [next EXCEPT ![m] = after]
       /\ outcome' = [outcome EXCEPT ![m] = IF after = 0 THEN "done" ELSE @]
    /\ UNCHANGED <<rlsTables, asWritten, runs, auditReport>>

\* An error, a timeout, a crash: what was committed stays.
StatementFails(m) ==
    /\ next[m] # 0
    /\ next' = [next EXCEPT ![m] = 0] /\ outcome' = [outcome EXCEPT ![m] = "failed"]
    /\ LET s == run_migrations[next[m]] IN
       left' = IF Refused(s) THEN [left EXCEPT ![m] = @ \ {s.on}] ELSE left
    /\ UNCHANGED <<rlsTables, asWritten, table, runs, auditReport>>

-----------------------------------------------------------------------------

Isolated(t) == table[t].enabled /\ table[t].forced /\ table[t].policy = "tenant_isolation"

\* Tables with a policy of the expected name; both clauses go by it.  The audit
\* looks for the expected text within the clause, which PostgreSQL renders with
\* parentheses.  Every clause of this module either is the one that enable_rls
\* writes or lacks its text: of one that holds the text and says more, which
\* nothing in the repository writes, the audit could not tell.
policy_map == {t \in Followed : table[t].policy # "none"}
ClauseOk(t) == table[t].policy = "tenant_isolation" /\ asWritten

\* The violations among the tables followed.
AuditViolations ==
    {t \in Followed \intersect get_rls_required_tables : t \notin policy_map \/ ~ClauseOk(t)}
    \union (policy_map \ get_all_icd_tables)

audit_rls_policies ==
    /\ auditReport' = [passed |-> AuditViolations = {}, isolated |-> {t \in Followed : Isolated(t)}]
    /\ UNCHANGED <<rlsTables, asWritten, table, next, outcome, left, runs>>

BoundaryNext ==
    \/ \E m \in Migrators : Start(m) \/ Statement(m) \/ StatementFails(m)
    \/ audit_rls_policies

-----------------------------------------------------------------------------

BoundaryTypeOK ==
    /\ rlsTables \in Versions /\ asWritten \in BOOLEAN
    /\ table \in [Followed -> [exists : BOOLEAN, enabled : BOOLEAN, forced : BOOLEAN,
                               policy : {"none", "other", "tenant_isolation"}]]
    /\ next \in [Migrators -> 0 .. Len(run_migrations)]
    /\ outcome \in [Migrators -> {"none", "failed", "done"}]
    /\ left \in [Migrators -> SUBSET Followed] /\ runs \in 0 .. MaxRuns
    /\ auditReport \in [passed : BOOLEAN, isolated : SUBSET Followed]

\* An audit passes only if every table that an ICD wants isolated was isolated
\* when it looked, though all it sees are policies.  When the tuple of tables
\* passes the static validator and a migration is done, each such table keeps
\* the security it was given, and its policy but for one that a migration
\* beside it has dropped and not recreated; with none such the audit passes
\* as well, if it can recognise the clause (enable_rls, audit_rls_policies,
\* validate_icd_boundary_static).
BoundaryHolds ==
    LET required == Followed \intersect get_rls_required_tables
        migrated == validate_icd_boundary_static(rlsTables) = {} /\ \E m \in Migrators : outcome[m] = "done"
        missing == UNION {left[m] : m \in Migrators}
    IN  /\ auditReport.passed => required \subseteq auditReport.isolated
        /\ migrated => \A t \in required :
              table[t].enabled /\ table[t].forced /\ (Isolated(t) \/ t \in missing)
        /\ migrated /\ missing = {} /\ asWritten => AuditViolations = {}
=============================================================================
