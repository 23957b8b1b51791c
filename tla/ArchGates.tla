------------------------------- MODULE ArchGates -------------------------------
(***************************************************************************)
(* The audit of the repository and the gates that unlock the next slice of *)
(* the work.  First the twelve checks of holly/arch/audit.py, which        *)
(* compare what documents of the repository say of each other.  The        *)
(* repository is a record with, per document, whether it can be read and   *)
(* the numbers (or versions) that a check's patterns find in it, 0 where   *)
(* they match nothing.  arch tells how loading architecture.yaml through   *)
(* the registry ends, and ruff, pytest and gantt how the subprocess of     *)
(* that name ends.                                                         *)
(*                                                                         *)
(* Then the spiral gate 3a and the gates of phases A and B                 *)
(* (holly/arch/gate_report.py), the gate of phase F                        *)
(* (holly/engine/phase_f_gate.py) and the command that runs the spiral     *)
(* gate on the outcome of the audit (holly/arch/cli.py).  done is the set  *)
(* of tasks whose status is "done", however it is written; a task without  *)
(* an entry is pending.  tests counts the tests pytest collects.           *)
(*                                                                         *)
(* Last, the fitness functions of the code (holly/arch/fitness.py) and    *)
(* the pipeline that decides whether a change may be merged                *)
(* (holly/arch/ci_gate.py).  A module is named by the sequence of its      *)
(* name's parts after the package; the import graph maps a module to the   *)
(* sequence of the names it imports, and order is the order of its keys.   *)
(***************************************************************************)
EXTENDS Integers, FiniteSets, SequencesExt, FiniteSetsExt

Found(n) == n # 0

\* The outcome of a check that first loads a module or document, and then needs
\* a text: import errors and absent texts skip it, other errors fail it.
Guarded(load, present, verdict) ==
    IF load = "error" THEN "FAIL" ELSE IF load = "import" \/ ~present THEN "SKIP" ELSE verdict

Verdict(pass, otherwise) == IF pass THEN "PASS" ELSE otherwise

_check_c001_component_count(r) ==
    Guarded(r.arch, r.genealogy.present,
       Verdict(r.genealogy.mermaid = r.components /\ r.genealogy.narrative = r.components
                  /\ Found(r.components), "FAIL"))

_check_c002_connection_count(r) ==
    Guarded(r.arch, r.genealogy.present,
       Verdict(~Found(r.genealogy.edges) \/ r.genealogy.edges = r.connections, "FAIL"))

\* Mutant: a README that disagrees is a warning for the reader only.
c003_lenient(r) == Guarded(r.manifestLoad, r.manifest.present, "PASS")

_check_c003_task_count(r) ==
    Guarded(r.manifestLoad, r.manifest.present,
       Verdict(~(r.readme.present /\ Found(r.readme.tasks)) \/ r.readme.tasks = r.manifest.tasks, "FAIL"))

_check_c004_critical_path_count(r) ==
    Guarded(r.manifestLoad, r.manifest.present,
       Verdict(~(r.readme.present /\ Found(r.readme.critical))
                  \/ r.readme.critical = r.manifest.critical, "WARN"))

_check_c005_done_task_count(r) ==
    IF ~r.status.present THEN "SKIP"
    ELSE IF r.status.malformed THEN "FAIL"
    ELSE Verdict(/\ r.progress.present /\ Found(r.progress.done) /\ r.progress.done = r.status.done
                 /\ ~(r.readme.present /\ Found(r.readme.done)) \/ r.readme.done = r.status.done, "WARN")

_check_c006_finding_register_shas(r) ==
    IF ~r.register.present THEN "SKIP"
    ELSE IF r.register.malformed THEN "FAIL" ELSE Verdict(r.register.pending = 0, "WARN")

\* Two versions are compared only through that of architecture.yaml.
_check_c007_version_refs(r) ==
    LET Differs(doc) == doc.present /\ Found(doc.version) /\ r.archText.present
                           /\ Found(r.archText.version) /\ doc.version # r.archText.version IN
    Verdict(~Differs(r.readme) /\ ~Differs(r.genealogy), "WARN")

_check_c008_sil_count(r) ==
    IF ~r.sil.present THEN "SKIP"
    ELSE Verdict(~(r.genealogy.present /\ Found(r.genealogy.sil)) \/ r.genealogy.sil = r.sil.count, "WARN")

\* c009 and c010: a tool that is absent, times out or cannot run is skipped.
ToolVerdict(end) ==
    CASE end = "zero" -> "PASS" [] end = "nonzero" -> "FAIL" [] OTHER -> "SKIP"

_check_c009_ruff_lint(r) == ToolVerdict(r.ruff)
_check_c010_pytest_pass(r) == ToolVerdict(r.pytest)

_check_c011_gantt_freshness(r) ==
    IF r.gantt # "zero" THEN ToolVerdict(r.gantt)
    ELSE IF ~r.ganttFile.present THEN "SKIP" ELSE Verdict(r.ganttFile.fresh, "WARN")

_check_c012_genealogy_component_count(r) ==
    IF ~r.genealogy.present \/ ~r.archText.present THEN "SKIP"
    ELSE IF r.archText.malformed THEN "FAIL"
    ELSE IF ~Found(r.genealogy.sad) THEN "WARN"
    ELSE Verdict(r.genealogy.sad = r.archText.components, "FAIL")

run_audit(r) ==
    << _check_c001_component_count(r), _check_c002_connection_count(r), _check_c003_task_count(r),
       _check_c004_critical_path_count(r), _check_c005_done_task_count(r),
       _check_c006_finding_register_shas(r), _check_c007_version_refs(r), _check_c008_sil_count(r),
       _check_c009_ruff_lint(r), _check_c010_pytest_pass(r), _check_c011_gantt_freshness(r),
       _check_c012_genealogy_component_count(r) >>

\* main.
ExitCode(r) == IF \E i \in 1 .. 12 : run_audit(r)[i] = "FAIL" THEN 1 ELSE 0

-----------------------------------------------------------------------------

\* What the repository is audited for: pairs of a check's number, a statement
\* and the value it has to have.
Statements(r) ==
    (IF r.genealogy.present
     THEN {<<1, r.genealogy.mermaid, r.components>>, <<1, r.genealogy.narrative, r.components>>,
           <<2, r.genealogy.edges, r.connections>>, <<8, r.genealogy.sil, r.sil.count>>,
           <<12, r.genealogy.sad, r.archText.components>>,
           <<7, r.genealogy.version, IF r.archText.present THEN r.archText.version ELSE 0>>} ELSE {})
    \union
    (IF r.readme.present
     THEN {<<3, r.readme.tasks, r.manifest.tasks>>, <<4, r.readme.critical, r.manifest.critical>>,
           <<5, r.readme.done, r.status.done>>,
           <<7, r.readme.version, IF r.archText.present THEN r.archText.version ELSE 0>>} ELSE {})
    \union
    (IF r.progress.present THEN {<<5, r.progress.done, r.status.done>>} ELSE {})

\* No check passes while a document it reads states something else than the
\* source of truth, whatever else is missing or broken; and the audit exits
\* with 0 only if no component, task or tool check has found a disagreement
\* (run_audit, main).
AuditIsHonest(r) ==
    /\ \A st \in Statements(r) : Found(st[2]) /\ Found(st[3]) /\ st[2] # st[3] =>
          run_audit(r)[st[1]] # "PASS"
    /\ ExitCode(r) = 0 =>
          /\ \A i \in {9, 10} : <<r.ruff, r.pytest>>[i - 8] # "nonzero"
          /\ r.arch = "ok" /\ r.manifestLoad = "ok" =>
                \A st \in Statements(r) :
                   st[1] \in {1, 2, 3} /\ Found(st[2]) /\ Found(st[3])
                      /\ (st[1] = 3 => r.manifest.present) => st[2] = st[3]

-----------------------------------------------------------------------------

GATE_ITEMS_3A == {"3a.1", "3a.2", "3a.3", "3a.4", "3a.5", "3a.6",
                  "3a.7", "3a.8", "3a.9", "3a.10", "3a.11", "3a.12"}
GATE_ITEMS_PHASE_A == {"5.5", "5.6", "5.8", "7.1", "7.2", "8.3", "9.2", "10.2", "11.1", "11.3"}
GATE_ITEMS_PHASE_B == {"13.1", "14.1", "14.5", "15.4", "16.3", "16.4", "16.5", "16.6", "16.9",
                       "17.3", "17.4", "17.7", "18.3", "18.4", "18.9", "20.3", "20.5", "21.2"}

\* The default of critical_path_ids.
CriticalPath == {"3a.8", "3a.10", "3a.12"}

\* The last item is the audit's alone, whatever the status of its task.
evaluate_gate(done, tests, audit, critical) ==
    [i \in GATE_ITEMS_3A |->
        CASE i = "3a.12" -> IF audit THEN "PASS" ELSE "FAIL"
          [] i \in {"3a.8", "3a.10"} -> IF i \in done /\ tests > 0 THEN "PASS" ELSE "FAIL"
          [] OTHER -> IF i \in done THEN "PASS" ELSE IF i \in critical THEN "FAIL" ELSE "WAIVED"]

evaluate_phase_a_gate(done, tests, audit, gatePass) ==
    [i \in GATE_ITEMS_PHASE_A |->
        LET ok == CASE i = "11.3" -> audit
                    [] i \in {"9.2", "10.2"} -> i \in done /\ tests > 0
                    [] i = "11.1" -> i \in done /\ gatePass
                    [] OTHER -> i \in done
        IN IF ok THEN "PASS" ELSE "FAIL"]

\* The outcome of the audit is an argument no item looks at.
evaluate_phase_b_gate(done, tests, audit) ==
    [i \in GATE_ITEMS_PHASE_B |->
        IF i \in done /\ (i = "21.2" => tests > 0) THEN "PASS" ELSE "FAIL"]

\* Mutant: only what passed counts against what was waived.
all_pass_by_majority(items) ==
    Cardinality({i \in DOMAIN items : items[i] = "FAIL"}) * 10 < Cardinality(DOMAIN items)

\* GateReport.all_pass: a waived item is no failure.
all_pass(items) == \A i \in DOMAIN items : items[i] # "FAIL"

\* The decision printed in a report.
Decision(items) == IF all_pass(items) THEN "unlocked" ELSE "blocked"

\* cmd_gate: the report is written before the exit code tells of a failure.
cmd_gate(repo, done, tests) ==
    LET report == evaluate_gate(done, tests, ExitCode(repo) = 0, CriticalPath) IN
    [written |-> Decision(report), exit |-> IF all_pass(report) THEN 0 ELSE 1]

-----------------------------------------------------------------------------

PhaseFTasks == {"41.4", "42.4", "43.3", "44.5", "45.2"}

\* GateItem.check: of a module's file, whether it is there, loads, and has the
\* names required.
check(file) == IF file = "complete" THEN "PASS" ELSE "FAIL"

\* Every item is checked, also after one has failed.
evaluate_phase_f_gate(files) ==
    LET items == [t \in PhaseFTasks |-> check(files[t])] IN
    [items |-> items, verdict |-> IF \A t \in PhaseFTasks : items[t] = "PASS" THEN "PASS" ELSE "FAIL"]

-----------------------------------------------------------------------------

\* A gate is never passed while one of its tasks is open, except for tasks of
\* the spiral gate off the critical path, nor without a test or, for the
\* gates that ask for them, a clean audit and a passing CI gate; the audit
\* item alone does not ask for its task.  The exit code agrees with the decision
\* in the report; one more finished task closes no gate, and off the critical
\* path it makes no difference to the spiral gate (evaluate_*_gate, cmd_gate).
GatesAreEarned(repo, done, tests, gatePass, files) ==
    LET audit == ExitCode(repo) = 0
        Spiral(d) == all_pass(evaluate_gate(d, tests, audit, CriticalPath))
        A(d) == all_pass(evaluate_phase_a_gate(d, tests, audit, gatePass))
        B(d) == all_pass(evaluate_phase_b_gate(d, tests, audit))
        result == cmd_gate(repo, done, tests) IN
    /\ Spiral(done) => CriticalPath \ done \subseteq {"3a.12"} /\ audit /\ tests > 0
    /\ A(done) => GATE_ITEMS_PHASE_A \ done \subseteq {"11.3"} /\ audit /\ gatePass /\ tests > 0
    /\ B(done) => GATE_ITEMS_PHASE_B \subseteq done /\ tests > 0
    /\ \A t \in GATE_ITEMS_3A \union GATE_ITEMS_PHASE_A \union GATE_ITEMS_PHASE_B :
          /\ Spiral(done) => Spiral(done \union {t})
          /\ A(done) => A(done \union {t})
          /\ B(done) => B(done \union {t})
          /\ t \notin CriticalPath => Spiral(done) = Spiral(done \union {t})
    /\ result.exit = 0 <=> result.written = "unlocked"
    /\ result.exit = 0 => "FAIL" \notin {run_audit(repo)[i] : i \in 1 .. 12}
    /\ evaluate_phase_f_gate(files).verdict = "PASS" =>
          \A t \in PhaseFTasks : files[t] = "complete"

-----------------------------------------------------------------------------

LAYER_RANK == [kernel |-> 1, core |-> 2, engine |-> 3, observability |-> 4,
               storage |-> 0, infra |-> 0, arch |-> 0]

ALLOWED_CROSS_LAYER ==
    {<<"kernel", "arch">>, <<"arch", "kernel">>, <<"arch", "core">>,
     <<"arch", "engine">>, <<"arch", "observability">>}

\* First parts that go on behind the name of a layer: startswith takes them for it.
LONGER == [engines |-> "engine", archive |-> "arch"]

\* _resolve_layer: the first part decides.
Layer(name) ==
    IF Head(name) \in DOMAIN LAYER_RANK THEN Head(name)
    ELSE IF Head(name) \in DOMAIN LONGER THEN LONGER[Head(name)] ELSE "none"

\* A module of a utility layer may import anything.
Violates(module, name) ==
    LET from == Layer(module) to == Layer(name) IN
    /\ "none" \notin {from, to} /\ from # to
    /\ <<Head(module), Head(name)>> \notin ALLOWED_CROSS_LAYER
    /\ 0 < LAYER_RANK[from] /\ LAYER_RANK[from] < LAYER_RANK[to]

check_layer_violations(graph) ==
    \A m \in DOMAIN graph : \A i \in DOMAIN graph[m] : ~Violates(m, graph[m][i])

\* The longest prefix of a name that is a module, or <<>>.
_resolve_to_graph(name, graph) ==
    LET known == {m \in DOMAIN graph : IsPrefix(m, name)} IN
    IF known = {} THEN <<>> ELSE CHOOSE m \in known : \A n \in known : Len(n) <= Len(m)

Targets(graph, m) == {_resolve_to_graph(graph[m][i], graph) : i \in DOMAIN graph[m]} \ {<<>>}

check_coupling(graph, maxEfferent, maxAfferent) ==
    LET Into(n, m) == {<<n, i>> : i \in {j \in DOMAIN graph[n] : _resolve_to_graph(graph[n][j], graph) = m}}
        Afferent(m) == UNION {Into(n, m) : n \in DOMAIN graph} IN
    \A m \in DOMAIN graph : Len(graph[m]) <= maxEfferent /\ Cardinality(Afferent(m)) <= maxAfferent

NoCache(graph) == [m \in DOMAIN graph |-> -1]

\* The depth of a module and the cache left behind.  A module on the path is
\* passed over, so what is cached for the members of a cycle depends on where
\* the walk came from.  In the cache, -1 stands for a missing key.
_dfs(graph, start, found) ==
    LET dfs[w \in (DOMAIN graph) \X (SUBSET DOMAIN graph) \X [DOMAIN graph -> Int]] ==
            LET module == w[1]
                onPath == w[2] \union {module}
                Visit(acc, name) ==
                    LET m == _resolve_to_graph(name, graph) IN
                    IF m = <<>> \/ m \in onPath THEN acc
                    ELSE LET child == dfs[<<m, onPath, acc.cache>>] IN
                         [depth |-> Max({acc.depth, child.depth + 1}), cache |-> child.cache]
                all == FoldLeft(Visit, [depth |-> 0, cache |-> w[3]], graph[module])
            IN  IF w[3][module] >= 0 THEN [depth |-> w[3][module], cache |-> w[3]]
                ELSE [depth |-> all.depth, cache |-> [all.cache EXCEPT ![module] = all.depth]]
    IN  dfs[<<start, {}, found>>]

\* Mutant: the walk from one module forgets what was found before.
Depth_of_last(graph, order) == _dfs(graph, Last(order), NoCache(graph)).depth

\* The deepest module, in the order of the keys.
Depth(graph, order) ==
    LET Visit(acc, module) ==
            LET walk == _dfs(graph, module, acc.cache) IN
            [depth |-> Max({acc.depth, walk.depth}), cache |-> walk.cache]
    IN FoldLeft(Visit, [depth |-> 0, cache |-> NoCache(graph)], order).depth

check_dependency_depth(graph, order, maxDepth) == Depth(graph, order) <= maxDepth

\* run_all of fitness.py; bounds is <<max_efferent, max_afferent, max_depth>>.
run_all(graph, order, bounds) ==
    <<check_layer_violations(graph), check_coupling(graph, bounds[1], bounds[2]),
      check_dependency_depth(graph, order, bounds[3])>>

-----------------------------------------------------------------------------

Stage(passed, severity) == [passed |-> passed, severity |-> severity]

_run_fitness_stage(graph, order, bounds) ==
    Stage(\A i \in 1 .. 3 : run_all(graph, order, bounds)[i], "blocking")

\* A scanner that cannot be imported, or fails with an AttributeError, passes.
_run_scanner_stage(scan) ==
    IF scan = "unavailable" THEN Stage(TRUE, "info") ELSE Stage(scan = "clean", "blocking")

\* The traceability matrix and the drift check never block.
_run_rtm_stage == Stage(TRUE, "info")
_run_drift_stage(arch) ==
    IF arch = "absent" THEN Stage(TRUE, "info") ELSE Stage(arch = "ok", "warning")

Blocks(stage) == ~stage.passed /\ stage.severity = "blocking"

_build_verdict(stages) == IF \E i \in DOMAIN stages : Blocks(stages[i]) THEN "fail" ELSE "pass"

run_gate(graph, order, bounds, scan, arch, failFast) ==
    LET fitness == _run_fitness_stage(graph, order, bounds)
        scanner == _run_scanner_stage(scan)
        stages == IF failFast /\ Blocks(fitness) THEN <<fitness>>
                  ELSE IF failFast /\ Blocks(scanner) THEN <<fitness, scanner>>
                  ELSE <<fitness, scanner, _run_rtm_stage, _run_drift_stage(arch)>>
    IN [verdict |-> _build_verdict(stages), stages |-> stages]

-----------------------------------------------------------------------------

\* The chains of imports along which no module comes twice.
Chains(graph) ==
    {c \in UNION {[1 .. n -> DOMAIN graph] : n \in 1 .. Cardinality(DOMAIN graph)} :
       /\ \A i, j \in DOMAIN c : c[i] = c[j] => i = j
       /\ \A i \in DOMAIN c \ {1} : c[i] \in Targets(graph, c[i - 1])}

Longest(graph) == Max({0} \union {Len(c) - 1 : c \in Chains(graph)})

\* No module is reached by its own imports (of itself it may import parts).
Acyclic(graph) == \A c \in Chains(graph) : Len(c) > 1 => c[1] \notin Targets(graph, Last(c))

\* The depth measured is that of the longest chain of imports if there is no
\* cycle, in whatever order the modules come, and never more than it; a change
\* is let through exactly if nothing blocks it, whether the pipeline stops at
\* the first failure or not, and then all the fitness functions hold
\* (check_dependency_depth, run_gate).
MergeIsEarned(graph, order, bounds, scan, arch) ==
    /\ Depth(graph, order) <= Longest(graph)
    /\ Acyclic(graph) => Depth(graph, order) = Longest(graph)
    /\ \A gate \in {[failFast \in BOOLEAN |-> run_gate(graph, order, bounds, scan, arch, failFast)]} :
          /\ gate[TRUE].verdict = gate[FALSE].verdict
          /\ gate[TRUE].verdict = "pass" => Len(gate[TRUE].stages) = 4
          /\ gate[TRUE].verdict = "pass" =>
                /\ scan # "findings"
                /\ Acyclic(graph) => Longest(graph) <= bounds[3]
                /\ \A m, n \in DOMAIN graph :
                      /\ \E i \in DOMAIN graph[m] : graph[m][i] = n
                      /\ "none" \notin {Layer(m), Layer(n)}
                      /\ LAYER_RANK[Layer(m)] > 0 /\ LAYER_RANK[Layer(m)] < LAYER_RANK[Layer(n)]
                      => <<Head(m), Head(n)>> \in ALLOWED_CROSS_LAYER
=============================================================================
