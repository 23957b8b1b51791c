------------------------------ MODULE MCBackends ------------------------------
(***************************************************************************)
(* Small instances of the tool registry and of each service.               *)
(***************************************************************************)
EXTENDS Backends, TLC

CONSTANTS tool, tenant, agent, other, i1, i2, i3, x1, x2, x3, none

\* One LLM tool; two calls by one agent, one by another.
AllTool == [i \in Invocations |-> tool]
OneTenant == [i \in Invocations |-> tenant]
TwoAgents == (i1 :> agent) @@ (i2 :> agent) @@ (i3 :> other)

\* One partition of two rows that expires, two archival cycles, a restore.
AllExpired == [p \in Partitions |-> 0]
OnePartition == [r \in Rows |-> "pa"]

\* Two requests to an allowed domain from one workflow, one to another.
TwoDomains == [r \in Outbound |-> IF r = x3 THEN "d2" ELSE "d1"]
TwoWorkflows == [r \in Outbound |-> IF r = x3 THEN "w2" ELSE "w1"]
TwoTokens == [r \in Outbound |-> 2]

\* A contract between two agents and one with a duty towards nobody.
TwoContracts == {[agent |-> agent, peer |-> other, duty |-> FALSE], [agent |-> other, peer |-> none, duty |-> TRUE]}

\* Two goals of phase D, of which the second needs what the first gives, and one of
\* phase E that needs the same from its predecessor, and whose SIL the second lacks.
TwoPhases == [d1 |-> "D", d2 |-> "D", e1 |-> "E"]
NeedsX == [d1 |-> {}, d2 |-> {"x"}, e1 |-> {"x"}]
GivesX == [d1 |-> {"x"}, d2 |-> {"x"}, e1 |-> {"z"}]
Sils == [d1 |-> 3, d2 |-> 2, e1 |-> 3]

\* Two nodes, of which one as a claim would cover both ICDs.
BothIcds == [n1 |-> {"i1"}, n2 |-> {"i1", "i2"}]

\* Paths equal to a canonical one but for audit, and to each other but for
\* their condition.
Rule(op, role, reason, when, audit, escalate) ==
    [type |-> "goal", op |-> op, role |-> role, reason |-> reason,
     when |-> when, audit |-> audit, escalate |-> escalate]
Always == Rule("write", "user", "audit_required", "always", FALSE, FALSE)
Internal == Rule("write", "user", "audit_required", "internal", TRUE, FALSE)
Other == Rule("write", "user", "escalation_blocked", "external", FALSE, TRUE)
Viewers == Rule("write", "viewer", "insufficient_role", "internal", TRUE, FALSE)
FourPaths == {Always, Internal, Other, Viewers}
ThreeTuples == {<< >>, <<Internal, Always>>, <<Other>>}
EditorRules == {[type |-> "goal", op |-> "write", roles |-> S] : S \in SUBSET {"editor"}}

\* A tenant's table and the exempt one, two migrations, of one migrator or of two,
\* and tuples that forget a table or name one too many.
ThreeVersions ==
    LET code == <<"agents", "goals", "topologies", "conversations", "goals_history", "idempotency_keys",
                  "logs", "workflow_checkpoints", "task_state", "memory_store">>
    IN {code, SelectSeq(code, LAMBDA t : t # "goals"), Append(code, "kernel_audit_log")}
=============================================================================
