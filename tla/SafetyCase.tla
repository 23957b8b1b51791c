------------------------------ MODULE SafetyCase ------------------------------
(***************************************************************************)
(* The safety argument of holly/safety/argument.py, the ICD trace matrix   *)
(* of icd_integration.py built from it, and the phase D safety case of     *)
(* phase_d_safety_case.py.  Goals, strategies and claims are named by one  *)
(* set of ids: the graph's edges do not tell the kinds apart.              *)
(***************************************************************************)
EXTENDS Naturals, FiniteSets

CONSTANTS
    Ids,
    EvidenceIds,
    Icds,               \* ALL_ICDS
    Mentions            \* claim id -> ICDs whose id or property its text holds

VARIABLES
    argGoals,           \* keys of graph.goals
    strategies,         \* graph.strategies: id -> parent goal
    evidence,           \* keys of graph.evidence
    claims,             \* graph.claims: id -> [goal, refs, status]
    edges,              \* graph.edges
    safetyCase          \* trace matrix of the case built: ICD -> claims

safetyVars == <<argGoals, strategies, evidence, claims, edges, safetyCase>>

SafetyInit ==
    /\ argGoals = {} /\ strategies = << >> /\ evidence = {} /\ claims = << >>
    /\ edges = {} /\ safetyCase = << >>

With(table, id, value) ==
    [i \in DOMAIN table \union {id} |-> IF i = id THEN value ELSE table[i]]

-----------------------------------------------------------------------------

AddGoal(id) ==
    /\ id \notin argGoals
    /\ argGoals' = argGoals \union {id}
    /\ UNCHANGED <<strategies, evidence, claims, edges, safetyCase>>

add_strategy(id, goal) ==
    /\ id \notin DOMAIN strategies /\ goal \in argGoals
    /\ strategies' = With(strategies, id, goal)
    /\ edges' = edges \union {<<goal, id>>}
    /\ UNCHANGED <<argGoals, evidence, claims, safetyCase>>

add_evidence(e) ==
    /\ e \notin evidence
    /\ evidence' = evidence \union {e}
    /\ UNCHANGED <<argGoals, strategies, claims, edges, safetyCase>>

\* Mutant: the references of a claim are not looked up.
AddClaimUnchecked(id, goal, refs) ==
    /\ id \notin DOMAIN claims /\ goal \in argGoals
    /\ claims' = With(claims, id, [goal |-> goal, refs |-> refs, status |-> "PENDING"])
    /\ edges' = edges \union {<<goal, id>>}
    /\ UNCHANGED <<argGoals, strategies, evidence, safetyCase>>

add_claim(id, goal, refs) ==
    /\ id \notin DOMAIN claims /\ goal \in argGoals /\ refs \subseteq evidence
    /\ claims' = With(claims, id, [goal |-> goal, refs |-> refs, status |-> "PENDING"])
    /\ edges' = edges \union {<<goal, id>>}
    /\ UNCHANGED <<argGoals, strategies, evidence, safetyCase>>

link_claim_to_strategy(id, strategy) ==
    /\ id \in DOMAIN claims /\ strategy \in DOMAIN strategies
    /\ edges' = edges \union {<<strategy, id>>}
    /\ UNCHANGED <<argGoals, strategies, evidence, claims, safetyCase>>

\* set_proven and set_assumed: from any status, evidence or not.
SetStatus(id, status) ==
    /\ id \in DOMAIN claims
    /\ claims' = [claims EXCEPT ![id].status = status]
    /\ UNCHANGED <<argGoals, strategies, evidence, edges, safetyCase>>

-----------------------------------------------------------------------------

\* get_goal_descendants.
Descendants(id) ==
    LET reach[k \in 0 .. Cardinality(Ids)] ==
          IF k = 0 THEN {e[2] : e \in {f \in edges : f[1] = id}}
          ELSE reach[k - 1] \union {e[2] : e \in {f \in edges : f[1] \in reach[k - 1]}} IN
    reach[Cardinality(Ids)]

Nodes == argGoals \union DOMAIN strategies \union DOMAIN claims

\* has_cycle.  Its search starts from every node and goes on to every child, so it
\* meets a node that is still on its path exactly if a node is below itself; edges
\* leave goals, strategies and claims only, so every node of a cycle is one.
HasCycle == \E id \in Nodes : id \in Descendants(id)

\* validate_argument_completeness.
Unproven == {id \in DOMAIN claims : claims[id].status # "PROVEN"}
ClaimsWithoutEvidence == {id \in DOMAIN claims : claims[id].refs = {}}
GoalsWithoutClaims == argGoals \ {claims[id].goal : id \in DOMAIN claims}

ArgumentComplete == Unproven = {} /\ ClaimsWithoutEvidence = {} /\ GoalsWithoutClaims = {}

\* Mutant: a matrix that links every ICD to every claim.
TraceAll == [icd \in Icds |-> DOMAIN claims]

\* build_icd_trace_matrix: claims of any status count.
TraceMatrix == [icd \in Icds |-> {id \in DOMAIN claims : icd \in Mentions[id]}]

Uncovered(matrix) == {icd \in DOMAIN matrix : matrix[icd] = {}}

\* validate_icd_coverage raises for a matrix with gaps, or with no ICD at all.
build_phase_d_safety_case ==
    /\ Icds # {} /\ Uncovered(TraceMatrix) = {}
    /\ safetyCase' = TraceMatrix
    /\ UNCHANGED <<argGoals, strategies, evidence, claims, edges>>

SafetyNext ==
    \/ \E id \in Ids :
          \/ AddGoal(id)
          \/ \E goal \in Ids :
                \/ add_strategy(id, goal)
                \/ \E refs \in SUBSET EvidenceIds : add_claim(id, goal, refs)
          \/ \E strategy \in Ids : link_claim_to_strategy(id, strategy)
          \/ \E status \in {"PROVEN", "ASSUMED"} : SetStatus(id, status)
    \/ \E e \in EvidenceIds : add_evidence(e)
    \/ build_phase_d_safety_case

-----------------------------------------------------------------------------

SafetyTypeOK ==
    /\ argGoals \subseteq Ids /\ evidence \subseteq EvidenceIds /\ edges \subseteq Ids \X Ids
    /\ DOMAIN strategies \subseteq Ids /\ DOMAIN claims \subseteq Ids
    /\ \A id \in DOMAIN claims : claims[id].status \in {"PENDING", "PROVEN", "ASSUMED"}
    /\ DOMAIN safetyCase \in {{}, Icds}

\* However the argument is put together: if it is complete, every goal has a
\* claim that is proven by evidence in the graph; what hangs below a goal is in
\* the graph; as long as no id names two things there is no cycle; and in a
\* safety case every ICD is covered by a claim of the graph that is about it
\* (validate_argument_completeness, get_goal_descendants, has_cycle,
\* build_phase_d_safety_case).
ArgumentIsSound ==
    /\ ArgumentComplete =>
          \A g \in argGoals : \E id \in DOMAIN claims :
             /\ claims[id].goal = g /\ claims[id].status = "PROVEN"
             /\ claims[id].refs \intersect evidence # {}
    /\ \A g \in argGoals : Descendants(g) \subseteq DOMAIN strategies \union DOMAIN claims
    /\ Cardinality(Nodes) = Cardinality(argGoals) + Cardinality(DOMAIN strategies)
                              + Cardinality(DOMAIN claims) => ~HasCycle
    /\ \A icd \in DOMAIN safetyCase : \E id \in safetyCase[icd] \intersect DOMAIN claims :
          icd \in Mentions[id] /\ claims[id].goal \in argGoals
=============================================================================
