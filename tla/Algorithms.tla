------------------------------ MODULE Algorithms ------------------------------
(***************************************************************************)
(* The pure algorithms, each on inputs of its own: focus names the one     *)
(* that a behaviour is about.  The sort of a DAG is a state machine; of    *)
(* the others a behaviour picks an input and checks it.                    *)
(***************************************************************************)
EXTENDS TopologicalSort

CONSTANTS
    TextInputs,     \* a text, the scanner's configuration, whether a rule fails
    GoalInputs,     \* the state of a goal, registered levels, half a sample
    IndexInputs,    \* the contexts of two goals
    LogInputs,      \* write-ahead logs
    AuditInputs,    \* repositories
    GateInputs,     \* a repository and what else its gates look at
    MergeInputs     \* an import graph and what else decides a merge

VARIABLES focus, input, checked

Text == INSTANCE TextGuards
Goal == INSTANCE Goals
Log == INSTANCE WALVerification
Gate == INSTANCE ArchGates

\* What an input is made of.  A text comes without a replacement.
TextInputsAreTexts ==
    \A t \in TextInputs :
       /\ Text!IsText(t.text)
       /\ t.config.redact \in BOOLEAN /\ t.config.failOpen \in BOOLEAN /\ t.fails \in BOOLEAN
ASSUME TextInputsAssumption == TextInputsAreTexts

GoalInputsAreGoals ==
    \A g \in GoalInputs : g.registered \subseteq Goal!Levels /\ g.half \in Nat
ASSUME GoalInputsAssumption == GoalInputsAreGoals

IndexInputsAreContexts == \A p \in IndexInputs : {p.first, p.second} \subseteq Goal!Contexts
ASSUME IndexInputsAssumption == IndexInputsAreContexts

LogInputsAreLogs == LogInputs \subseteq Seq(Log!Entries)
ASSUME LogInputsAssumption == LogInputsAreLogs

GateInputsAreGates == \A g \in GateInputs : g.gatePass \in BOOLEAN
ASSUME GateInputsAssumption == GateInputsAreGates

\* The names of modules are sequences of parts, the order lists the modules.
MergeInputsAreMerges ==
    \A i \in MergeInputs :
       /\ IsFiniteSet(DOMAIN i.graph) /\ DOMAIN i.graph \subseteq Seq(STRING) \ {<< >>}
       /\ \A m \in DOMAIN i.graph : i.graph[m] \in Seq(Seq(STRING) \ {<< >>})
       /\ i.order \in Seq(DOMAIN i.graph) /\ \A m \in DOMAIN i.graph : \E j \in DOMAIN i.order : i.order[j] = m
       /\ i.bounds \in Nat \X Nat \X Nat
       /\ i.scan \in {"clean", "findings", "unavailable"}
ASSUME MergeInputsAssumption == MergeInputsAreMerges

AlgorithmsInit ==
    /\ Init /\ checked = FALSE
    /\ \/ focus = "dag" /\ input = << >>
       \/ focus = "text" /\ input \in TextInputs
       \/ focus = "goals" /\ input \in GoalInputs
       \/ focus = "index" /\ input \in IndexInputs
       \/ focus = "log" /\ input \in LogInputs
       \/ focus = "audit" /\ input \in AuditInputs
       \/ focus = "gates" /\ input \in GateInputs
       \/ focus = "merge" /\ input \in MergeInputs

AlgorithmsNext ==
    \/ focus = "dag" /\ Next /\ UNCHANGED <<focus, input, checked>>
    \/ focus # "dag" /\ ~checked /\ checked' = TRUE /\ UNCHANGED <<focus, input, vars>>

AlgorithmsSpec == AlgorithmsInit /\ [][AlgorithmsNext]_<<vars, focus, input, checked>>

-----------------------------------------------------------------------------

\* Whatever matches overlap, nothing that matched from the start is left in what
\* is redacted, output or passed on by the scanner (TextGuards states it in full).
RedactionIsComplete ==
    focus = "text" /\ checked => Text!RedactionIsComplete(input.text, input.config, input.fails)

\* The evaluators agree on each state, and the generated states are classified
\* as their generators promise, however many are asked for.
EvaluatorsAgree ==
    focus = "goals" /\ checked =>
       Goal!EvaluatorsAgree(input.state, input.registered) /\ Goal!ValidationPasses(input.half)

\* Of two goals with as many dependencies the one classified higher does not
\* get a smaller index or fewer checks (Goals).
IndexIsMonotone ==
    focus = "index" /\ checked => Goal!IndexIsMonotone(input.first, input.second)

\* A log is accepted exactly if it is consistent (WALVerification).
AcceptedIsConsistent == focus = "log" /\ checked => Log!AcceptedIsConsistent(input)

\* The audit is honest, and a gate opens only on what is done and passed
\* (ArchGates).
GatesAreEarned ==
    /\ focus = "audit" /\ checked => Gate!AuditIsHonest(input)
    /\ focus = "gates" /\ checked =>
          Gate!GatesAreEarned(input.repo, input.done, input.tests, input.gatePass, input.files)

\* A change is merged only if nothing blocks it, and the depth of its imports
\* is measured right (ArchGates).
MergeIsEarned ==
    focus = "merge" /\ checked =>
       Gate!MergeIsEarned(input.graph, input.order, input.bounds, input.scan, input.arch)
=============================================================================
