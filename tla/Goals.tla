--------------------------------- MODULE Goals ---------------------------------
(***************************************************************************)
(* From a goal to the lane that works on it.  First the Celestial          *)
(* predicates L0-L4 of holly/goals/predicates.py, the three places that    *)
(* run them in order, and the validator of validator.py with the states it *)
(* generates.  A CelestialState is a record of what the predicates look    *)
(* at: the class of its action, the classes of markers in its payload, and *)
(* the entries of its context.  Absent entries have the value the code     *)
(* assumes for them, or "absent".                                          *)
(*                                                                         *)
(* Then the classification of a goal (holly/goals/classification.py), its  *)
(* decomposition into assembly steps (assembly_index.py), the checks of    *)
(* the index (aps_validator.py) and the dispatch of a classified goal      *)
(* (holly/engine/goal_dispatch.py).  A context is a record [codim, rank,   *)
(* agents, divergent, safety, deps]: divergent tells whether the           *)
(* eigenspectrum divergence exceeds its threshold.  A step and its output  *)
(* are named by its kind and number.                                       *)
(***************************************************************************)
EXTENDS Naturals, Sequences, FiniteSets, SequencesExt, FiniteSetsExt

Levels == 0 .. 4

\* A state to which nothing applies: an empty context and payload.
EmptyState ==
    [action |-> "other", payload |-> {}, harmful |-> FALSE, bypass |-> FALSE,
     jurisdiction |-> "absent", export |-> FALSE, illegal |-> FALSE,
     discrimination |-> FALSE, coercion |-> FALSE, forced |-> FALSE,
     undisclosed |-> FALSE, consent |-> TRUE,
     permissions |-> "absent", escalation |-> FALSE, role |-> "absent", usage |-> "absent",
     outside |-> FALSE, override |-> FALSE, inconsistent |-> FALSE, corrupt |-> FALSE]

\* The violations of a level that its condition c reports.
Flag(name, c) == IF c THEN {name} ELSE {}

L0SafetyPredicate(s) ==
    Flag("harmful intent", s.harmful) \union Flag("dangerous action", s.action = "dangerous")
       \union Flag("harm marker", "harm" \in s.payload) \union Flag("bypass", s.bypass)

L1LegalPredicate(s) ==
    Flag("jurisdiction", s.jurisdiction = "restricted") \union Flag("export", s.export)
       \union Flag("dmca", s.action = "dmca" \/ "dmca" \in s.payload)
       \union Flag("illegal pattern", s.illegal)

L2EthicalPredicate(s) ==
    Flag("deception", s.action = "deceptive" \/ "deceptive" \in s.payload)
       \union Flag("discrimination", s.discrimination)
       \union Flag("coercion", s.coercion \/ s.forced)
       \union Flag("no consent", s.undisclosed \/ ~s.consent)

\* What is not in the context is not checked.
L3PermissionsPredicate(s) ==
    Flag("missing permissions", s.permissions = "missing") \union Flag("escalation", s.escalation)
       \union Flag("role", s.role = "wrong") \union Flag("quota", s.usage = "above")

\* The violation names the action, patch_kernel or rewrite_constitution among them.
L4ConstitutionalPredicate(s) ==
    Flag("outside envelope", s.outside) \union Flag("self-modification", s.action = "self-modifying")
       \union Flag("kernel modification", s.action = "kernel-modifying")
       \union Flag("override", s.override) \union Flag("inconsistent", s.inconsistent)
       \union Flag("corrupt", s.corrupt)

Violations(level, s) ==
    CASE level = 0 -> L0SafetyPredicate(s) [] level = 1 -> L1LegalPredicate(s)
      [] level = 2 -> L2EthicalPredicate(s) [] level = 3 -> L3PermissionsPredicate(s)
      [] level = 4 -> L4ConstitutionalPredicate(s)

Passed(level, s) == Violations(level, s) = {}

-----------------------------------------------------------------------------

\* Mutant: every level is run.
EvaluateNextAlways(s, results, level) ==
    Append(results, [level |-> level, passed |-> Passed(level, s),
                     violations |-> Violations(level, s)])

\* One turn of the loops that run the levels in order and stop at the first
\* that fails; the result is the sequence of verdicts so far.
EvaluateNext(s, results, level) ==
    IF \E i \in DOMAIN results : ~results[i].passed THEN results
    ELSE Append(results, [level |-> level, passed |-> Passed(level, s),
                          violations |-> Violations(level, s)])

evaluate_celestial_chain(s, levels) ==
    LET Turn(results, level) == EvaluateNext(s, results, level) IN
    FoldLeft(Turn, << >>, levels)

\* A chain of no predicates finds every state compliant.
check_celestial_compliance(s, levels) ==
    \A i \in DOMAIN evaluate_celestial_chain(s, levels) :
       evaluate_celestial_chain(s, levels)[i].passed

\* check_L0_safety ... check_L4_constitutional: the distance in percent.
Distance(level, s) ==
    LET v == Violations(level, s) IN
    IF v = {} THEN 0
    ELSE CASE level = 0 -> IF v \intersect {"harmful intent", "harm marker"} # {} THEN 100 ELSE 50
           [] level = 1 -> IF "export" \in v THEN 80 ELSE 30
           [] level = 2 -> IF "deception" \in v THEN 90 ELSE 40
           [] level = 3 -> 60
           [] level = 4 -> IF v \intersect {"outside envelope", "kernel modification"} # {} THEN 99 ELSE 70

evaluate_celestial_goals(s) ==
    LET Turn(results, level) ==
          IF \E i \in DOMAIN results : results[i].distance > 0 THEN results
          ELSE Append(results, [level |-> level, distance |-> Distance(level, s)]) IN
    FoldLeft(Turn, << >>, <<0, 1, 2, 3, 4>>)

\* CelestialComplianceEvaluator.evaluate of holly/engine/goal_dispatch.py: it
\* asks for a predicate only when it comes to its level.
ComplianceStatus(s, registered) ==
    LET missing == Levels \ registered
        failing == {l \in registered : ~Passed(l, s)}
        First(set) == CHOOSE l \in set : \A k \in set : l <= k IN
    IF missing = {} /\ failing = {} THEN [status |-> "PASSED", level |-> 5]
    ELSE IF First(missing \union failing) \in missing
         THEN [status |-> "NOT_REGISTERED", level |-> First(missing \union failing)]
         ELSE [status |-> "FAILED", level |-> First(missing \union failing)]

-----------------------------------------------------------------------------

generate_satisfying_states(level, i) ==
    CASE level = 1 -> [EmptyState EXCEPT !.jurisdiction = "open"]
      [] level = 3 -> [EmptyState EXCEPT !.permissions = "enough", !.role = "right", !.usage = "within"]
      [] OTHER -> EmptyState

generate_violating_states(level, i) ==
    CASE level = 0 -> [EmptyState EXCEPT
            !.action = "dangerous", !.harmful = i % 2 = 0, !.bypass = i % 3 = 0,
            !.payload = IF i % 4 = 0 THEN {"harm"} ELSE {}]
      [] level = 1 -> [EmptyState EXCEPT
            !.jurisdiction = IF i % 3 = 0 THEN "restricted" ELSE "open",
            !.export = i % 3 = 1, !.illegal = i % 3 = 2]
      [] level = 2 -> [EmptyState EXCEPT
            !.action = "deceptive", !.payload = {"deceptive"}, !.discrimination = i % 2 = 0,
            !.coercion = i % 3 = 0, !.forced = i % 4 = 0, !.undisclosed = i % 2 = 0,
            !.consent = i % 2 # 0]
      [] level = 3 -> [EmptyState EXCEPT
            !.permissions = "missing", !.escalation = i % 3 = 0, !.role = "wrong", !.usage = "above"]
      [] level = 4 -> [EmptyState EXCEPT
            !.action = IF i % 4 \in {1, 2} THEN "kernel-modifying" ELSE "self-modifying",
            !.outside = i % 2 = 0, !.override = i % 3 = 0,
            !.inconsistent = i % 2 = 0, !.corrupt = i % 4 = 0]

\* Counts of validate_predicate with 2 * half states: [tp, tn, fp, fn].
validate_predicate(level, half) ==
    LET Count(P(_)) == Cardinality({i \in 0 .. (half - 1) : P(i)})
        Accepts(i) == Passed(level, generate_satisfying_states(level, i))
        Rejects(i) == ~Passed(level, generate_violating_states(level, i)) IN
    [tp |-> Count(Accepts), tn |-> Count(Rejects),
     fp |-> half - Count(Rejects), fn |-> half - Count(Accepts)]

\* assert_zero_false_positives_negatives over the levels.
ValidationPasses(half) ==
    \A l \in Levels : validate_predicate(l, half).fp = 0 /\ validate_predicate(l, half).fn = 0

-----------------------------------------------------------------------------

\* The chain of predicates, the chain of graded goals and the dispatcher's
\* evaluator agree on every state: which levels they look at, where they stop,
\* and whether the state complies; the distance is 0 exactly for a level that
\* is satisfied; a level without predicate is never skipped.
EvaluatorsAgree(s, registered) ==
    LET chain == evaluate_celestial_chain(s, <<0, 1, 2, 3, 4>>)
        graded == evaluate_celestial_goals(s)
        compliant == check_celestial_compliance(s, <<0, 1, 2, 3, 4>>)
        status == ComplianceStatus(s, Levels)
        partial == ComplianceStatus(s, registered) IN
    /\ Len(chain) = Len(graded)
    /\ \A i \in DOMAIN chain : chain[i].level = i - 1 /\ (chain[i].passed <=> graded[i].distance = 0)
    /\ compliant <=> status.status = "PASSED"
    /\ compliant <=> \A l \in Levels : Violations(l, s) = {}
    /\ ~compliant => status.level = chain[Len(chain)].level
    /\ partial.status = "PASSED" => compliant /\ registered = Levels
    /\ partial.status = "FAILED" => 0 .. partial.level \subseteq registered

-----------------------------------------------------------------------------

TaskLevels == <<"T0", "T1", "T2", "T3">>

Contexts == [codim : Nat, rank : Nat, agents : Nat, divergent : BOOLEAN, safety : BOOLEAN, deps : Nat]

\* Mutant: the tests in the order of the levels.
classify_in_order(c) ==
    CASE c.safety \/ c.codim <= 1 -> "T0"
      [] ~c.safety /\ c.codim > 1 /\ c.codim <= 4 -> "T1"
      [] OTHER -> IF c.agents >= 2 /\ c.divergent THEN "T3" ELSE "T2"

\* TaskClassifier.classify; what no test catches is T0, whatever its
\* codimension.
classify(c) ==
    IF c.safety THEN "T0"
    ELSE IF c.agents >= 2 /\ c.codim > 4 /\ c.divergent THEN "T3"
    ELSE IF c.agents >= 2 /\ c.rank >= 2 THEN "T2"
    ELSE IF c.codim > 1 /\ c.codim <= 4 THEN "T1"
    ELSE "T0"

required_checks(level) ==
    CASE level = "T0" -> {0} [] level = "T1" -> {0, 1}
      [] level = "T2" -> {0, 1, 2} [] level = "T3" -> {0, 1, 2, 3, 4}

\* is_permitted; Missing stands for the ValueError of a level with no entry.
is_permitted(level, state) ==
    LET needed == required_checks(level)
        bad == {l \in needed : l \notin DOMAIN state \/ ~state[l]} IN
    IF bad = {} THEN "permitted"
    ELSE IF Min(bad) \in DOMAIN state THEN "refused" ELSE "Missing"

-----------------------------------------------------------------------------

Step(kind, i, inputs) == [id |-> <<kind, i>>, inputs |-> inputs]

\* The steps of one kind, numbered, with the inputs of each.
Steps(kind, inputs) == [i \in DOMAIN inputs |-> Step(kind, i, inputs[i])]

AtMost(n, limit) == IF n < limit THEN n ELSE limit

Dependencies(c) == Steps("dep", [i \in 1 .. c.deps |-> {}])

\* The last dependency's result, or nothing.
LastDependency(c) == IF c.deps = 0 THEN {} ELSE {<<"dep", c.deps>>}

\* Steps in a row name the step before by its id where its output is called
\* otherwise; the first has an empty string there.
Before(kind, i) == IF i = 1 THEN {<<"">>} ELSE {<<"id of", kind, i - 1>>}

decompose_T0(c) ==
    Dependencies(c) \o <<Step("exec", 0, {<<"dep", i>> : i \in 1 .. c.deps})>>

decompose_T1(c) ==
    Dependencies(c) \o <<Step("plan", 0, LastDependency(c)), Step("validate", 0, {<<"plan", 0>>})>>
       \o Steps("exec", [i \in 1 .. AtMost(c.codim, 3) |-> {<<"validate", 0>>} \union Before("exec", i)])

decompose_T2(c) ==
    LET n == AtMost(c.agents, 4) IN
    Dependencies(c) \o <<Step("agent_pool", 0, LastDependency(c))>>
       \o Steps("contract", [i \in 1 .. n |-> {<<"agent_pool", 0>>}])
       \o <<Step("bind_topology", 0, {<<"contract", i>> : i \in 1 .. n}),
            Step("execute", 0, {<<"bind_topology", 0>>})>>

decompose_T3(c) ==
    LET n == AtMost(c.agents, 6) IN
    Dependencies(c) \o <<Step("template", 0, LastDependency(c)), Step("field", 0, {<<"template", 0>>})>>
       \o Steps("differentiate", [i \in 1 .. n |-> {<<"field", 0>>} \union Before("differentiate", i)])
       \o <<Step("eigenspectrum", 0, {<<"differentiate", i>> : i \in 1 .. n})>>
       \o Steps("steer", [i \in 1 .. 2 |-> {<<"eigenspectrum", 0>>} \union Before("steer", i)])
       \o <<Step("execute", 0, {<<"steer", 2>>})>>

decompose(level, c) ==
    CASE level = "T0" -> decompose_T0(c) [] level = "T1" -> decompose_T1(c)
      [] level = "T2" -> decompose_T2(c) [] level = "T3" -> decompose_T3(c)

compute_assembly_index(steps) == Cardinality({steps[i].id : i \in DOMAIN steps})

classify_complexity(index) ==
    IF index < 5 THEN "simple" ELSE IF index < 10 THEN "moderate"
    ELSE IF index < 20 THEN "complex" ELSE "critical"

AIBounds == [T0 |-> 1 .. 4, T1 |-> 3 .. 9, T2 |-> 5 .. 19, T3 |-> 10 .. 999]

\* APSValidator: the levels whose index is above that of the next, and those
\* whose index is out of bounds.  results is a function of some levels.
validate_monotonicity(results) ==
    {i \in 1 .. 3 : /\ {TaskLevels[i], TaskLevels[i + 1]} \subseteq DOMAIN results
                    /\ results[TaskLevels[i]] > results[TaskLevels[i + 1]]}

validate_bounds(results) == {l \in DOMAIN results : results[l] \notin AIBounds[l]}

\* validate_all checks four fixed numbers, and the decomposer only for
\* giving the same number twice.
SampleResults == [T0 |-> 2, T1 |-> 5, T2 |-> 10, T3 |-> 15]

-----------------------------------------------------------------------------

\* GoalDispatcher.dispatch once the celestial checks have passed: an exception
\* of the classifier counts as T0.
_route_to_lane(level) == IF level \in {"T2", "T3"} THEN "subagent" ELSE "main"

filter_tools(requested, granted) == requested \intersect granted

dispatch(c, compliance, classifierFails, requested, granted) ==
    LET level == IF classifierFails THEN "T0" ELSE classify(c) IN
    IF compliance.status # "PASSED"
    THEN [status |-> "CelestialComplianceError", level |-> "none", lane |-> "none", tools |-> {}]
    ELSE [status |-> "PASSED", level |-> level, lane |-> _route_to_lane(level),
          tools |-> filter_tools(requested, granted)]

-----------------------------------------------------------------------------

Index(c) == compute_assembly_index(decompose(classify(c), c))

\* Whatever two goals with the same number of dependencies look like: one that
\* is classified higher does not get a smaller assembly index, and is sent to
\* a lane for as many agents; every step is another step and depends on
\* steps before it only; the higher class requires all the checks of the
\* lower (APS invariant 1, "T0.AI <= T1.AI <= T2.AI <= T3.AI").
IndexIsMonotone(c, d) ==
    LET Rank(x) == CHOOSE i \in 1 .. 4 : TaskLevels[i] = classify(x)
        steps == decompose(classify(c), c) IN
    /\ Rank(c) < Rank(d) /\ c.deps = d.deps => Index(c) <= Index(d)
    /\ Rank(c) <= Rank(d) => required_checks(classify(c)) \subseteq required_checks(classify(d))
    /\ _route_to_lane(classify(c)) = "subagent" => c.agents >= 2
    /\ Len(steps) = Index(c)
    /\ \A i \in DOMAIN steps :
          LET earlier == {steps[j].id : j \in 1 .. (i - 1)} IN
          steps[i].inputs \subseteq earlier \union {<<"">>} \union {<<"id of">> \o id : id \in earlier}
    /\ validate_monotonicity(SampleResults) = {} /\ validate_bounds(SampleResults) = {}

\* Each index is within the bounds of its level (ICD-011).
IndexWithinBounds(c) == Index(c) \in AIBounds[classify(c)]
=============================================================================
