------------------------------ MODULE Governance ------------------------------
(***************************************************************************)
(* The governance engine of holly/safety/governance.py.  A forbidden path  *)
(* is a record [type, op, role, reason, when, audit, escalate]; when names *)
(* its condition, which holds in every context or in the one it names.     *)
(* Two paths with the same type, operation, role and reason are equal,     *)
(* whatever their conditions.                                              *)
(***************************************************************************)
EXTENDS Naturals, Sequences, SequencesExt, FiniteSets

CONSTANTS
    Paths,         \* the paths that callers register
    Rules,         \* the governance rules they register
    Reviewers,     \* code reviewers: how many violations each reports
    Contexts,      \* the contexts of a check
    Tuples,        \* the tuples an engine is constructed from
    MaxReviewers   \* bound on the reviewers registered

VARIABLES
    forbidden_paths,    \* _forbidden_paths
    governance_rules,   \* _governance_rules
    code_reviewers,     \* _code_reviewers
    accepted            \* history: the paths register_forbidden_path took

governanceVars == <<forbidden_paths, governance_rules, code_reviewers, accepted>>

Path(type, op, role, reason, audit, escalate) ==
    [type |-> type, op |-> op, role |-> role, reason |-> reason,
     when |-> "always", audit |-> audit, escalate |-> escalate]

\* canonicalize_forbidden_paths
CANONICAL_FORBIDDEN_PATHS ==
    LET Viewer(type, op, audit) == Path(type, op, "viewer", "insufficient_role", audit, FALSE)
        LogWrite(role) == Path("audit_log", "write", role, "operation_restricted", FALSE, FALSE) IN
    {Viewer("configuration", "write", TRUE), Viewer("goal", "write", FALSE),
     Viewer("goal", "execute", FALSE), Viewer("agent", "spawn", TRUE),
     Viewer("tool", "execute", TRUE), Viewer("code", "execute", TRUE),
     LogWrite("viewer"), LogWrite("user"), LogWrite("editor"), LogWrite("admin"),
     Path("audit_log", "delete", "admin", "operation_restricted", FALSE, TRUE)}

Key(p) == <<p.type, p.op, p.role, p.reason>>          \* __eq__ and __hash__
RuleKey(r) == <<r.type, r.op, r.roles>>

\* set(tuple): of equal paths the first stays.
First(tuple) ==
    {tuple[i] : i \in {j \in DOMAIN tuple : \A k \in 1 .. (j - 1) : Key(tuple[k]) # Key(tuple[j])}}

\* An engine constructed from no paths gets the canonical ones.
GovernanceInit ==
    /\ \E tuple \in Tuples :
          forbidden_paths = IF tuple = <<>> THEN CANONICAL_FORBIDDEN_PATHS ELSE First(tuple)
    /\ governance_rules = {} /\ code_reviewers = <<>> /\ accepted = {}

-----------------------------------------------------------------------------

Holds(p, context) == p.when \in {"always", context}

\* check_forbidden_paths: what it answers to a role in a context.
Matching(paths, role, type, op, context) ==
    {p \in paths : p.type = type /\ p.op = op /\ p.role = role /\ Holds(p, context)}

check_forbidden_paths(paths, role, type, op, context) ==
    LET violations == Matching(paths, role, type, op, context) IN
    [access_allowed |-> violations = {},
     requires_audit |-> \E p \in violations : p.audit,
     requires_escalation |-> \E p \in violations : p.escalate]

\* Mutant: an equal path is replaced.
register_replacing(p) ==
    /\ forbidden_paths' = {q \in forbidden_paths : Key(q) # Key(p)} \union {p}
    /\ accepted' = accepted \union {p}
    /\ UNCHANGED <<governance_rules, code_reviewers>>

\* An equal path raises GovernanceError and changes nothing.
register_forbidden_path(p) ==
    /\ \A q \in forbidden_paths : Key(q) # Key(p)
    /\ forbidden_paths' = forbidden_paths \union {p}
    /\ accepted' = accepted \union {p}
    /\ UNCHANGED <<governance_rules, code_reviewers>>

register_governance_rule(r) ==
    /\ \A q \in governance_rules : RuleKey(q) # RuleKey(r)
    /\ governance_rules' = governance_rules \union {r}
    /\ UNCHANGED <<forbidden_paths, code_reviewers, accepted>>

register_code_reviewer(v) ==
    /\ Len(code_reviewers) < MaxReviewers
    /\ code_reviewers' = Append(code_reviewers, v)
    /\ UNCHANGED <<forbidden_paths, governance_rules, accepted>>

\* review_code_governance: the reviewers in the order they were registered.
review_code_governance ==
    LET count == FoldSeq(LAMBDA v, n : v + n, 0, code_reviewers) IN
    [violations |-> count, violations_found |-> count > 0]

GovernanceNext ==
    \/ \E p \in Paths : register_forbidden_path(p)
    \/ \E r \in Rules : register_governance_rule(r)
    \/ \E v \in Reviewers : register_code_reviewer(v)

-----------------------------------------------------------------------------

GovernanceTypeOK ==
    /\ forbidden_paths \subseteq CANONICAL_FORBIDDEN_PATHS \union Paths \union UNION {ToSet(t) : t \in Tuples}
    /\ governance_rules \subseteq Rules /\ accepted \subseteq Paths
    /\ code_reviewers \in Seq(Reviewers)

\* A path once accepted is enforced from then on with the audit and escalation
\* it asks for, whatever is registered after it; a denial is never withdrawn
\* (register_forbidden_path, check_forbidden_paths).
DenialsStand ==
    /\ [](\A p \in accepted, c \in Contexts :
             LET answer == check_forbidden_paths(forbidden_paths, p.role, p.type, p.op, c) IN
             Holds(p, c) => /\ ~answer.access_allowed
                            /\ p.audit => answer.requires_audit
                            /\ p.escalate => answer.requires_escalation)
    /\ [][\A p \in forbidden_paths, c \in Contexts :
             ~check_forbidden_paths(forbidden_paths, p.role, p.type, p.op, c).access_allowed =>
             ~check_forbidden_paths(forbidden_paths', p.role, p.type, p.op, c).access_allowed]_governanceVars
=============================================================================
