--------------------------- MODULE PhaseTransition ---------------------------
(***************************************************************************)
(* PhaseGoalChain, GoalChainValidator and PhaseTransitionVerifier of       *)
(* holly/safety/phase_transition.py.  The chain is built call by call;     *)
(* verify_transition validates it as it stands.  Its continuity check      *)
(* walks along the chain, one goal per step here, since the walk need not  *)
(* end; the other checks are operators.                                    *)
(***************************************************************************)
EXTENDS Naturals, Sequences, SequencesExt, FiniteSetsExt

CONSTANTS
    PhaseGoals,
    PhaseOf,            \* the fields of a PhaseGoal: "D" or "E",
    Pre, Post,          \* preconditions and postconditions,
    SilOf               \* sil_level

NoGoal == "none"

VARIABLES
    goals,              \* chain.goals
    transitions,        \* chain.transitions
    satisfied,          \* satisfied_goals
    starts,             \* start nodes the continuity check has still to follow
    walker,             \* its loop variable current
    visited,            \* goals it has seen
    readiness           \* of the last report: "none", "ready", "blocked"

phaseVars == <<goals, transitions, satisfied, starts, walker, visited, readiness>>

PhaseInit ==
    /\ goals = << >> /\ transitions = << >> /\ satisfied = {}
    /\ starts = {} /\ walker = NoGoal /\ visited = {} /\ readiness = "none"

Ids == ToSet(goals)
Next_(g) == IF g \in DOMAIN transitions THEN transitions[g] ELSE NoGoal
InPhase(p) == {g \in Ids : PhaseOf[g] = p}

Validating == readiness = "walking"

Changed == readiness' = "none" /\ UNCHANGED <<starts, walker, visited>>

-----------------------------------------------------------------------------

add_goal(g) ==
    /\ ~Validating /\ g \notin Ids
    /\ goals' = Append(goals, g)
    /\ UNCHANGED <<transitions, satisfied>> /\ Changed

\* A goal has one successor: a second transition replaces the first.
add_transition(g, h) ==
    /\ ~Validating /\ g \in Ids /\ h \in Ids
    /\ transitions' = [x \in DOMAIN transitions \union {g} |-> IF x = g THEN h ELSE transitions[x]]
    /\ UNCHANGED <<goals, satisfied>> /\ Changed

mark_goal_satisfied(g) ==
    /\ ~Validating /\ g \in Ids \ satisfied
    /\ satisfied' = satisfied \union {g}
    /\ UNCHANGED <<goals, transitions>> /\ Changed

-----------------------------------------------------------------------------

\* Mutant: preconditions may come from any goal of the chain.
MissingFromAnywhere == {g \in Ids : ~ Pre[g] \subseteq UNION {Post[p] : p \in Ids}}

\* Goals that need more than their predecessors provide.
MissingPreconditions ==
    {g \in Ids : ~ Pre[g] \subseteq UNION {Post[p] : p \in {q \in Ids : Next_(q) = g}}}

\* has_cycle(g): it follows the successors up to the end of the chain or a
\* goal it has seen.  After a hit the goals it went through stay on the stack.
HasCycle(dfs, g) ==
    LET N == Len(goals)
        along[k \in 0 .. N] == IF k = 0 THEN g ELSE Next_(along[k - 1])
        Before(k) == {along[j] : j \in 0 .. (k - 1)}
        last == Min({k \in 1 .. N : along[k] \in {NoGoal} \union dfs.seen \union Before(k)})
        hit == along[last] \in dfs.stack \union Before(last) IN
    IF g \in dfs.seen THEN dfs
    ELSE [seen |-> dfs.seen \union Before(last),
          stack |-> IF hit THEN dfs.stack \union Before(last) ELSE dfs.stack,
          errors |-> IF hit THEN dfs.errors \union {g} ELSE dfs.errors]

\* _check_cycles: the search from every goal in turn.
Cycles ==
    LET dfs[n \in 0 .. Len(goals)] == IF n = 0 THEN [seen |-> {}, stack |-> {}, errors |-> {}]
                                      ELSE HasCycle(dfs[n - 1], goals[n]) IN
    dfs[Len(goals)].errors

SilViolated ==
    /\ InPhase("D") # {} /\ InPhase("E") # {}
    /\ Max({SilOf[g] : g \in InPhase("E")}) > Min({SilOf[g] : g \in InPhase("D")})

StartNodes == Ids \ {transitions[g] : g \in DOMAIN transitions}

Continuous == IF goals = << >> THEN TRUE ELSE StartNodes # {} /\ Ids \subseteq visited

ChainValid == MissingPreconditions = {} /\ Cycles = {} /\ Continuous /\ ~SilViolated

DGoalsMet == InPhase("D") \subseteq satisfied

\* What phase D would establish counts whether its goals are satisfied or not.
EPrerequisites ==
    LET available == UNION {Post[g] : g \in InPhase("D") \union (InPhase("E") \intersect satisfied)} IN
    \A g \in InPhase("E") : Pre[g] \subseteq available

\* verify_transition up to the continuity check.
verify_transition ==
    /\ ~Validating
    /\ readiness' = "walking"
    /\ starts' = StartNodes /\ walker' = NoGoal /\ visited' = {}
    /\ UNCHANGED <<goals, transitions, satisfied>>

\* One turn of the loops of the continuity check.
WalkOn ==
    /\ Validating
    /\ \/ /\ walker # NoGoal
          /\ visited' = visited \union {walker} /\ walker' = Next_(walker)
          /\ UNCHANGED starts
       \/ /\ walker = NoGoal
          /\ \E s \in starts : walker' = s /\ starts' = starts \ {s}
          /\ UNCHANGED visited
    /\ UNCHANGED <<goals, transitions, satisfied, readiness>>

Report ==
    /\ Validating /\ starts = {} /\ walker = NoGoal
    /\ readiness' = IF DGoalsMet /\ EPrerequisites /\ ChainValid THEN "ready" ELSE "blocked"
    /\ UNCHANGED <<goals, transitions, satisfied, starts, walker, visited>>

PhaseNext ==
    \/ \E g \in PhaseGoals :
          \/ add_goal(g) \/ mark_goal_satisfied(g)
          \/ \E h \in PhaseGoals : add_transition(g, h)
    \/ verify_transition \/ WalkOn \/ Report

\* verify_transition is one synchronous call: it runs on.
PhaseSpec == PhaseInit /\ [][PhaseNext]_phaseVars /\ WF_phaseVars(WalkOn \/ Report)

-----------------------------------------------------------------------------

PhaseTypeOK ==
    /\ Ids \subseteq PhaseGoals /\ Len(goals) = Cardinality(Ids)
    /\ DOMAIN transitions \subseteq Ids /\ {transitions[g] : g \in DOMAIN transitions} \subseteq Ids
    /\ satisfied \subseteq Ids /\ starts \subseteq Ids /\ visited \subseteq Ids
    /\ walker \in Ids \union {NoGoal}
    /\ readiness \in {"none", "walking", "ready", "blocked"}

Before == {<<g, transitions[g]>> : g \in DOMAIN transitions}

\* A set of goals that the transitions never leave is a cycle, or holds one.
Cyclic == \E s \in SUBSET DOMAIN transitions : s # {} /\ {transitions[g] : g \in s} \subseteq s

\* "Ready" is said exactly if every goal of phase D is satisfied, the chain has
\* no cycle, every goal finds its preconditions in its predecessors and, in
\* phase E, in goals that are satisfied, and phase E asks for no higher SIL
\* than phase D was built to, however the chain was put together
\* (verify_transition).
ReadyIsTrue ==
    readiness \in {"ready", "blocked"} =>
       (readiness = "ready" <=>
          /\ \A g \in Ids : PhaseOf[g] = "D" => g \in satisfied
          /\ ~Cyclic
          /\ \A g \in Ids, c \in UNION {Post[h] \union Pre[h] : h \in Ids} : c \in Pre[g] =>
                /\ \E p \in Ids : <<p, g>> \in Before /\ c \in Post[p]
                /\ PhaseOf[g] = "E" => \E p \in satisfied : c \in Post[p]
          /\ \A d, e \in Ids : PhaseOf[d] = "D" /\ PhaseOf[e] = "E" => SilOf[e] <= SilOf[d])

\* verify_transition answers (validate() is meant to report cycles as errors).
ValidationEnds == [](Validating => <> ~Validating)
=============================================================================
