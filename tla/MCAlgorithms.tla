----------------------------- MODULE MCAlgorithms -----------------------------
(***************************************************************************)
(* Small inputs for each of the pure algorithms.                           *)
(***************************************************************************)
EXTENDS Algorithms, TLC

CONSTANTS a, b, c, d

InsertionOrder == <<a, b, c, d>>

\* The records that differ from a given one in a field, and in two at most.
UpToTwo(Vary(_), base) == {base} \union Vary(base) \union UNION {Vary(r) : r \in Vary(base)}

-----------------------------------------------------------------------------

\* Three cells and up to seven matches in them: an email and an api key at either
\* side of a card number that keeps its last part; a second card that appears
\* when the cell behind it has gone; an api key over everything; and numbers that
\* overlap the card, one of them as soon as its middle is replaced.
SomeMatches ==
    {[rule |-> "email", cells |-> {1}, kept |-> {}, behind |-> {}],
     [rule |-> "credit_card", cells |-> {1, 2}, kept |-> {2}, behind |-> {}],
     [rule |-> "credit_card", cells |-> {2}, kept |-> {}, behind |-> {3}],
     [rule |-> "openai", cells |-> {3}, kept |-> {}, behind |-> {}],
     [rule |-> "generic", cells |-> {1, 2, 3}, kept |-> {}, behind |-> {}],
     [rule |-> "ssn", cells |-> {2, 3}, kept |-> {}, behind |-> {}],
     [rule |-> "phone", cells |-> {3}, kept |-> {}, behind |-> {2}]}
ThreeCells(matches, injections) ==
    [cells |-> [i \in 1..3 |-> [by |-> Text!Clean, brackets |-> 0]],
     matches |-> matches, injections |-> injections]
Configs == [enabled : {{}, {"ssn"}}, redact : BOOLEAN, failOpen : BOOLEAN, min : {50, 80}]
SomeTextInputs ==
    {t \in [text : {ThreeCells(x, j) : x \in SUBSET SomeMatches,
                      j \in SUBSET [kind : {"sql", "command"}, nul : BOOLEAN]},
            fails : BOOLEAN, config : {k \in Configs : k.enabled = {} \/ k.min = 50}] :
       Text!IsText(t.text)}

\* What may be wrong with the state of a goal, one thing at a time.
VaryGoal(s) ==
    {[s EXCEPT !.action = x] : x \in {"dangerous", "dmca", "deceptive", "self-modifying", "kernel-modifying"}}
    \union {[s EXCEPT !.payload = x] : x \in {{"harm"}, {"dmca"}, {"deceptive"}, {"harm", "deceptive"}}}
    \union {[s EXCEPT !.harmful = TRUE], [s EXCEPT !.bypass = TRUE], [s EXCEPT !.export = TRUE],
            [s EXCEPT !.illegal = TRUE], [s EXCEPT !.discrimination = TRUE], [s EXCEPT !.coercion = TRUE],
            [s EXCEPT !.forced = TRUE], [s EXCEPT !.undisclosed = TRUE], [s EXCEPT !.consent = FALSE],
            [s EXCEPT !.escalation = TRUE], [s EXCEPT !.outside = TRUE], [s EXCEPT !.override = TRUE],
            [s EXCEPT !.inconsistent = TRUE], [s EXCEPT !.corrupt = TRUE]}
    \union {[s EXCEPT !.jurisdiction = x] : x \in {"restricted", "open"}}
    \union {[s EXCEPT !.permissions = x] : x \in {"missing", "enough"}}
    \union {[s EXCEPT !.role = x] : x \in {"wrong", "right"}}
    \union {[s EXCEPT !.usage = x] : x \in {"above", "within"}}

Registrations == {Goal!Levels \ l : l \in {{}, {0}, {1}, {2}, {3}, {4}, {0, 3}}}
SomeGoalInputs == [state : UpToTwo(VaryGoal, Goal!EmptyState), registered : Registrations, half : {1}]
                 \union [state : {Goal!EmptyState}, registered : {Goal!Levels}, half : 2 .. 13]

SomeContexts == [codim : {0, 1, 2, 4, 5}, rank : 1 .. 2, agents : 1 .. 3, divergent : BOOLEAN,
                 safety : BOOLEAN, deps : 0 .. 2]
SomeIndexInputs ==
    {pair \in [first : SomeContexts, second : {k \in SomeContexts : ~k.safety}] :
        pair.first.deps = pair.second.deps}

-----------------------------------------------------------------------------

\* What may be wrong with an entry of the log.
VaryEntry(e) ==
    {[e EXCEPT !.exit = x] : x \in {-1, 1}}
    \union {[e EXCEPT !.k1 = FALSE], [e EXCEPT !.k2 = FALSE], [e EXCEPT !.k3 = FALSE], [e EXCEPT !.aware = FALSE]}
    \union {[e EXCEPT !.id = x] : x \in {"", "e2"}} \union {[e EXCEPT !.tenant = x] : x \in {"", "t2"}}
    \union {[e EXCEPT !.corr = x] : x \in {"", "c2"}}
    \union {[e EXCEPT !.boundary = ""], [e EXCEPT !.user = ""], [e EXCEPT !.roles = "other"]}
    \union {[e EXCEPT !.budget = x] : x \in {<<3, 1, 2>>, <<3, 2, 2>>}}
    \union {[e EXCEPT !.key = x] : x \in {"blank", "set"}}
    \union {[e EXCEPT !.score = x] : x \in {"out of range", "ok"}}
    \union {[e EXCEPT !.approved = x] : x \in {"no", "yes"}} \union {[e EXCEPT !.eval = x] : x \in {"no", "yes"}}

\* Several good entries, of which only the ids differ.
NamedEntries ==
    {[Log!GoodEntry EXCEPT !.id = i, !.tenant = t, !.corr = k] :
        i \in {"e1", "e2", "e3"}, t \in {"t1", "t2"}, k \in {"c1", "c2"}}
SomeLogInputs ==
    {<<e, [Log!GoodEntry EXCEPT !.id = "e9"]>> : e \in UpToTwo(VaryEntry, Log!GoodEntry)}
       \union {<<e, f, g>> : e, f, g \in NamedEntries}

-----------------------------------------------------------------------------

\* A repository whose documents agree.
GoodRepo ==
    [arch |-> "ok", components |-> 2, connections |-> 3, manifestLoad |-> "ok",
     genealogy |-> [present |-> TRUE, mermaid |-> 2, narrative |-> 2, edges |-> 3, sil |-> 2, sad |-> 2, version |-> 1],
     readme |-> [present |-> TRUE, tasks |-> 5, critical |-> 2, done |-> 1, version |-> 1],
     manifest |-> [present |-> TRUE, tasks |-> 5, critical |-> 2],
     status |-> [present |-> TRUE, malformed |-> FALSE, done |-> 1],
     progress |-> [present |-> TRUE, done |-> 1],
     register |-> [present |-> TRUE, malformed |-> FALSE, pending |-> 0],
     sil |-> [present |-> TRUE, count |-> 2],
     archText |-> [present |-> TRUE, malformed |-> FALSE, version |-> 1, components |-> 2],
     ruff |-> "zero", pytest |-> "zero", gantt |-> "zero", ganttFile |-> [present |-> TRUE, fresh |-> TRUE]]

\* A document that cannot be read, or a number that is another or not found.
VaryRepo(r) ==
    {[r EXCEPT !.arch = x] : x \in {"import", "error"}} \union {[r EXCEPT !.manifestLoad = x] : x \in {"import", "error"}}
    \union {[r EXCEPT !.components = 1], [r EXCEPT !.connections = 1],
            [r EXCEPT !.genealogy.present = FALSE], [r EXCEPT !.readme.present = FALSE],
            [r EXCEPT !.manifest.present = FALSE], [r EXCEPT !.status.present = FALSE],
            [r EXCEPT !.status.malformed = TRUE], [r EXCEPT !.progress.present = FALSE],
            [r EXCEPT !.register.present = FALSE], [r EXCEPT !.register.malformed = TRUE],
            [r EXCEPT !.register.pending = 1], [r EXCEPT !.sil.present = FALSE],
            [r EXCEPT !.archText.present = FALSE], [r EXCEPT !.archText.malformed = TRUE],
            [r EXCEPT !.ganttFile.present = FALSE], [r EXCEPT !.ganttFile.fresh = FALSE]}
    \union UNION {{[r EXCEPT !.genealogy.mermaid = n], [r EXCEPT !.genealogy.narrative = n],
                   [r EXCEPT !.genealogy.edges = n], [r EXCEPT !.genealogy.sil = n],
                   [r EXCEPT !.genealogy.sad = n], [r EXCEPT !.genealogy.version = n],
                   [r EXCEPT !.readme.tasks = n], [r EXCEPT !.readme.critical = n],
                   [r EXCEPT !.readme.done = n], [r EXCEPT !.readme.version = n],
                   [r EXCEPT !.progress.done = n], [r EXCEPT !.archText.version = n],
                   [r EXCEPT !.archText.components = n]} : n \in {0, 4}}
    \union {[r EXCEPT !.ruff = x] : x \in {"nonzero", "timeout"}}
    \union {[r EXCEPT !.pytest = x] : x \in {"nonzero", "missing"}}
    \union {[r EXCEPT !.gantt = x] : x \in {"nonzero", "timeout"}}

SomeRepos == UpToTwo(VaryRepo, GoodRepo)

\* One or two tasks open in one of the gates.
AllTasks == Gate!GATE_ITEMS_3A \union Gate!GATE_ITEMS_PHASE_A \union Gate!GATE_ITEMS_PHASE_B
AllBut(sets) == {AllTasks \ open : open \in sets}
Open == UNION {{{t, u} : t, u \in S} : S \in {Gate!GATE_ITEMS_3A, Gate!GATE_ITEMS_PHASE_A, Gate!GATE_ITEMS_PHASE_B}}
Files == [Gate!PhaseFTasks -> {"complete"}]
Spoilt == {[t \in Gate!PhaseFTasks |-> IF t = u THEN x ELSE "complete"] :
              u \in Gate!PhaseFTasks, x \in {"absent", "broken", "short"}}
SomeGateInputs ==
    [done : AllBut(Open \union {{}}), tests : {0, 2}, gatePass : BOOLEAN, files : Files,
     repo : {GoodRepo, [GoodRepo EXCEPT !.ruff = "nonzero"], [GoodRepo EXCEPT !.readme.done = 4]}]
    \union [done : AllBut({{}, {"3a.1"}}), tests : {2}, gatePass : {TRUE}, files : Spoilt, repo : VaryRepo(GoodRepo)]

-----------------------------------------------------------------------------

\* Four modules in three layers; each imports a subset of the others, or a name
\* of which only a prefix is a module.
Modules == {<<"kernel">>, <<"engine">>, <<"arch">>, <<"engine", "lanes">>}
SomeOrder(S) == SetToSeq(S)
Names == Modules \union {<<"engine", "lanes", "MainLane">>}
Imports == {S \in SUBSET Names : Cardinality(S) <= 2}
Graphs == {g \in [Modules -> Imports] :
             /\ g[<<"arch">>] \in {{}, {<<"kernel">>}, {<<"kernel">>, <<"engine", "lanes", "MainLane">>}}
             /\ <<"engine", "lanes", "MainLane">> \notin g[<<"engine", "lanes">>]
             /\ <<"engine", "lanes", "MainLane">> \notin g[<<"engine">>]
             /\ \A m \in Modules : m \notin g[m]}
SomeMergeInputs ==
    [bounds : {<<2, 3, 2>>},
     graph : {[m \in Modules |-> SomeOrder(g[m])] : g \in Graphs},
     order : {SomeOrder(Modules), Reverse(SomeOrder(Modules))},
     scan : {"clean"}, arch : {"ok"}]
    \union [bounds : {<<2, 3, 2>>},
            graph : {[m \in Modules |-> << >>], [m \in Modules |-> IF m = <<"kernel">> THEN <<<<"engine">>>> ELSE << >>]},
            order : {SomeOrder(Modules)}, scan : {"clean", "findings", "unavailable"}, arch : {"ok", "absent", "broken"}]
    \union [bounds : {<<2, 3, 2>>},
            graph : {[m \in {<<"kernel">>, <<"engines">>} |-> IF m = <<"kernel">> THEN SomeOrder(S) ELSE << >>] :
                        S \in SUBSET {<<"engines">>, <<"archive">>}},
            order : {<<<<"kernel">>, <<"engines">>>>}, scan : {"clean"}, arch : {"ok"}]
=============================================================================
