--------------------------- MODULE WALVerification ---------------------------
(***************************************************************************)
(* The independent verifier of the write-ahead log, holly/kernel/          *)
(* dissimilar.py.  An entry is a record of what the checks look at; "" is  *)
(* an empty name, "unset" a value of None.  budget is the triple of limit, *)
(* usage before and request, or <<>> when one of them is None.             *)
(***************************************************************************)
EXTENDS Integers, Sequences, SequencesExt

Entries ==
    [id : STRING, tenant : STRING, corr : STRING, boundary : STRING, user : STRING, roles : STRING,
     aware : BOOLEAN, exit : Int, k1 : BOOLEAN, k2 : BOOLEAN, k3 : BOOLEAN,
     budget : {<<>>} \union (Int \X Int \X Int), key : {"unset", "blank", "set"},
     score : {"unset", "out of range", "ok"}, approved : {"unset", "no", "yes"}, eval : {"unset", "no", "yes"}]

\* An entry with which no check finds fault.
GoodEntry ==
    [id |-> "e1", tenant |-> "t1", corr |-> "c1", boundary |-> "b", user |-> "u",
     roles |-> "list", aware |-> TRUE, exit |-> 0, k1 |-> TRUE, k2 |-> TRUE, k3 |-> TRUE,
     budget |-> <<>>, key |-> "unset", score |-> "unset", approved |-> "unset", eval |-> "unset"]

\* The invariant a check names for the first of its conditions that holds.
First(pairs) ==
    LET hits == {i \in DOMAIN pairs : pairs[i][1]} IN
    IF hits = {} THEN "none" ELSE pairs[CHOOSE i \in hits : \A j \in hits : i <= j][2]

check_k1(e) == First(<< <<e.exit = 0 /\ ~e.k1, "K1_schema_validation">> >>)
check_k2(e) == First(<< <<e.exit = 0 /\ ~e.k2, "K2_permission">> >>)

\* The arithmetic is checked whatever the exit code.
check_k3(e) ==
    LET Within == e.budget[2] + e.budget[3] <= e.budget[1] IN
    First(<< <<e.exit = 0 /\ ~e.k3, "K3_bounds">>,
             <<IF e.budget = <<>> THEN FALSE ELSE e.k3 # Within, "K3_bounds_arithmetic">> >>)

check_k4(e) ==
    First(<< <<e.tenant = "", "K4_trace_tenant_id">>, <<e.corr = "", "K4_trace_correlation_id">>,
             <<~e.aware, "K4_trace_timestamp_tz">> >>)

check_k5(e) == First(<< <<e.key = "blank", "K5_idempotency_key">> >>)

check_k6(e) ==
    First(<< <<"" \in {e.id, e.tenant, e.corr, e.boundary, e.user}, "K6_wal_required_field">>,
             <<e.roles # "list", "K6_wal_caller_roles">>, <<e.exit < 0, "K6_wal_exit_code">> >>)

check_k7(e) ==
    First(<< <<e.score = "out of range", "K7_hitl_confidence_range">>,
             <<e.approved = "no" /\ e.exit = 0, "K7_hitl_approval">> >>)

check_k8(e) == First(<< <<e.eval = "no" /\ e.exit = 0, "K8_eval">> >>)

\* _PER_ENTRY_CHECKS, in order.
Checks(e) ==
    <<check_k1(e), check_k2(e), check_k3(e), check_k4(e),
      check_k5(e), check_k6(e), check_k7(e), check_k8(e)>>

Report(found, verdict) == IF verdict = "none" THEN found ELSE Append(found, verdict)

\* What has been found when one more entry is checked.
EntryViolations(found, e) == FoldLeft(Report, found, Checks(e))

\* One violation per entry whose correlation id came first with another tenant.
check_tenant_isolation(log) ==
    LET FirstWith(c) == CHOOSE i \in DOMAIN log : log[i].corr = c /\ \A j \in 1 .. (i - 1) : log[j].corr # c
        Bad == {i \in DOMAIN log : log[i].corr # "" /\ log[FirstWith(log[i].corr)].tenant # log[i].tenant} IN
    [i \in 1 .. Cardinality(Bad) |-> "K4_tenant_isolation"]

\* Mutant: only neighbours are compared.
check_adjacent_ids(log) ==
    IF \E i \in 1 .. (Len(log) - 1) : log[i].id # "" /\ log[i].id = log[i + 1].id
    THEN <<"K6_wal_duplicate_id">> ELSE <<>>

check_no_duplicate_ids(log) ==
    LET Again == {i \in DOMAIN log : log[i].id # "" /\ \E j \in 1 .. (i - 1) : log[j].id = log[i].id} IN
    [i \in 1 .. Cardinality(Again) |-> "K6_wal_duplicate_id"]

\* The violations of a report; strict verification raises the first of them.
Violations(log) ==
    FoldLeft(EntryViolations, <<>>, log) \o check_tenant_isolation(log) \o check_no_duplicate_ids(log)

verify_wal_entries(log, strict) ==
    IF strict /\ Violations(log) # <<>>
    THEN [raised |-> Head(Violations(log)), passed |-> FALSE]
    ELSE [raised |-> "none", passed |-> Violations(log) = <<>>]

-----------------------------------------------------------------------------

\* A log is accepted exactly if every entry that says success says so of every
\* gate, every entry is complete and its budget figures bear out its verdict,
\* no two entries share an id and no two tenants a correlation id; strict and
\* collecting verification agree (verify_wal_entries).
AcceptedIsConsistent(log) ==
    LET strict == verify_wal_entries(log, TRUE)
        all == verify_wal_entries(log, FALSE) IN
    /\ strict.passed <=> all.passed
    /\ strict.passed <=> strict.raised = "none"
    /\ all.passed <=>
          /\ \A i \in DOMAIN log :
                LET e == log[i] IN
                /\ e.exit = 0 => e.k1 /\ e.k2 /\ e.k3 /\ "no" \notin {e.approved, e.eval}
                /\ e.budget # <<>> => (e.k3 <=> e.budget[1] - e.budget[2] >= e.budget[3])
                /\ \A name \in {e.id, e.tenant, e.corr, e.boundary, e.user} : name # ""
                /\ e.aware /\ e.roles = "list" /\ e.exit >= 0
                /\ e.key # "blank" /\ e.score # "out of range"
          /\ \A i, j \in DOMAIN log :
                /\ log[i].id = log[j].id => i = j
                /\ log[i].corr = log[j].corr => log[i].tenant = log[j].tenant
=============================================================================
