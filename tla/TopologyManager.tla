--------------------------- MODULE TopologyManager ---------------------------
(***************************************************************************)
(* TopologyManager of holly/agents/topology_manager.py and the verdicts of *)
(* ContractVerifier in holly/agents/contract_verifier.py on its steering.  *)
(* All calls are synchronous: an action is a whole call.                   *)
(***************************************************************************)
EXTENDS Naturals, FiniteSets, Functions

CONSTANTS
    Agents, Goals,
    Contracts,          \* records [agent, peer, duty]: peer may be NoPeer, duty
                        \* tells if responsibility_domain is non-empty
    NoPeer,
    MaxTopologies       \* bound on _topology_counter

VARIABLES
    counter,            \* _topology_counter
    topologies          \* _topologies: id -> [agents, goals, active]

topologyVars == <<counter, topologies>>

TopologyInit == counter = 0 /\ topologies = << >>

\* An id once taken by a call that failed is not used again.
NewId == counter' = counter + 1 /\ counter < MaxTopologies

Store(id, topology) ==
    topologies' = [i \in DOMAIN topologies \union {id} |->
                      IF i = id THEN topology ELSE topologies[i]]

-----------------------------------------------------------------------------

\* TeamTopology.assign_goal for every goal of a relation: goals without an
\* agent do not enter the table.
Assignments(members, assigned) ==
    [g \in {h \in Goals : assigned[h] \intersect members # {}} |-> assigned[g] \intersect members]

\* spawn: agents with contracts of their own (as all callers build them), each
\* goal given to one of them by its hash.  A duplicate agent, or an observer that raises, leaves only the id.
Spawn ==
    /\ NewId
    /\ \/ UNCHANGED topologies
       \/ \E members \in (SUBSET Agents) \ {{}}, wanted \in SUBSET Goals :
          \E held \in [members -> SUBSET Contracts], chosen \in [wanted -> members] :
             /\ \A a \in members : \A c \in held[a] : c.agent = a
             /\ Store(counter + 1,
                      [agents |-> held, goals |-> [g \in wanted |-> {chosen[g]}], active |-> TRUE])

\* The contracts of a kept agent: a new one replaces those with the same peer.
Renewed(held, new) ==
    {c \in held : ~\E n \in new : n.peer = c.peer} \union new

\* The agents asked for a goal: the caller's, or those it had.
Asked(old, reassigned) ==
    [g \in Goals |-> IF g \in DOMAIN reassigned THEN reassigned[g]
                     ELSE IF g \in DOMAIN old.goals THEN old.goals[g] ELSE {}]

\* Mutant: the agents of a goal are carried over whether they were kept or not.
CarriedUnchecked(old, members, reassigned) ==
    LET assigned == Asked(old, reassigned) IN
    [g \in {h \in Goals : assigned[h] # {}} |-> assigned[g]]

\* The goals of the steered topology: those the caller reassigns, and the
\* others with the agents they keep.
Carried(old, members, reassigned) ==
    Assignments(members, Asked(old, reassigned))

Steered(old, kept, new, reassigned) ==
    LET members == kept \intersect DOMAIN old.agents IN
    [agents |-> [a \in members |-> Renewed(old.agents[a], {c \in new : c.agent = a})],
     goals |-> Carried(old, members, reassigned), active |-> TRUE]

\* steer; one to an agent that was not kept fails before the table changes.
\* The old topology may be inactive already: nothing asks.
Steer(id) ==
    /\ NewId
    /\ \E kept \in SUBSET Agents, new \in {{}} \union {{c} : c \in Contracts},
          moved \in SUBSET Goals :
       \E reassigned \in [moved -> SUBSET Agents] :
          LET next == Steered(topologies[id], kept, new, reassigned) IN
          \/ /\ \E g \in moved : ~ reassigned[g] \subseteq DOMAIN next.agents
             /\ UNCHANGED topologies
          \/ /\ \A g \in moved : reassigned[g] \subseteq DOMAIN next.agents
             /\ topologies' = [i \in DOMAIN topologies \union {counter + 1} |->
                                  IF i = counter + 1 THEN next
                                  ELSE IF i = id THEN [topologies[i] EXCEPT !.active = FALSE]
                                  ELSE topologies[i]]

\* dissolve; reassign_goals_to is not read.
Dissolve(id) ==
    /\ topologies[id].active
    /\ topologies' = [topologies EXCEPT ![id].active = FALSE]
    /\ UNCHANGED counter

\* add_agent and assign_goal of a topology that is in the table.
AddAgent(id) ==
    /\ \E a \in Agents \ DOMAIN topologies[id].agents :
          topologies' = [topologies EXCEPT
             ![id].agents = [b \in DOMAIN @ \union {a} |-> IF b = a THEN {} ELSE @[b]]]
    /\ UNCHANGED counter

AssignGoal(id) ==
    /\ \E g \in Goals, a \in DOMAIN topologies[id].agents :
          LET now == topologies[id].goals
              holders == {a} \union UNION {now[h] : h \in DOMAIN now \intersect {g}} IN
          topologies' = [topologies EXCEPT
             ![id].goals = [h \in DOMAIN now \union {g} |-> IF h = g THEN holders ELSE now[h]]]
    /\ UNCHANGED counter

TopologyNext ==
    \/ Spawn
    \/ \E id \in DOMAIN topologies : Steer(id) \/ Dissolve(id) \/ AddAgent(id) \/ AssignGoal(id)

-----------------------------------------------------------------------------

\* TopologyManager.verify_contracts: what it reports.
PeerErrors(t) ==
    {c \in UNION Range(t.agents) : c.peer # NoPeer /\ c.peer \notin DOMAIN t.agents}
GoalErrors(t) == {g \in DOMAIN t.goals : t.goals[g] = {}}
ContractErrors(t) == <<PeerErrors(t), GoalErrors(t)>>

\* ContractVerifier, one set of offending contracts per check.
PreSteer(old, cs) ==
    {c \in cs : c.agent \notin DOMAIN old.agents \/ c.peer \notin DOMAIN old.agents \union {NoPeer}}

\* A steered agent has no assigned_goals: any duty it has is unmet.
PostSteer(new, cs) ==
    {c \in cs : c.agent \in DOMAIN new.agents
                   /\ (c.duty \/ c.peer \notin DOMAIN new.agents \union {NoPeer})}

TopologyValid(t) ==
    /\ t.agents # << >>
    /\ \A g \in DOMAIN t.goals : t.goals[g] # {} /\ t.goals[g] \subseteq DOMAIN t.agents

CapabilityGaps(new, cs) == {c \in cs : c.agent \notin DOMAIN new.agents /\ c.duty}

CommunicationGaps(new, cs) ==
    {c \in cs : c.agent \in DOMAIN new.agents /\ c.peer \notin DOMAIN new.agents \union {NoPeer}}

\* is_valid of verify_steer_operation(old, new, cs).
SteerAccepted(old, new, cs) ==
    /\ PreSteer(old, cs) = {} /\ PostSteer(new, cs) = {} /\ TopologyValid(new)
    /\ CapabilityGaps(new, cs) = {} /\ CommunicationGaps(new, cs) = {}

-----------------------------------------------------------------------------

TopologyTypeOK ==
    /\ counter \in 0 .. MaxTopologies
    /\ DOMAIN topologies \subseteq 1 .. counter
    /\ \A id \in DOMAIN topologies :
          /\ DOMAIN topologies[id].agents \subseteq Agents
          /\ \A a \in DOMAIN topologies[id].agents : topologies[id].agents[a] \subseteq Contracts
          /\ topologies[id].goals \in UNION {[gs -> SUBSET Agents] : gs \in SUBSET Goals}
          /\ topologies[id].active \in BOOLEAN

\* Whatever is spawned, steered, forked from an inactive topology or edited, a
\* goal in the table belongs to agents that are there; and if the verifier
\* accepts a steering under all the contracts of the new agents, the manager's
\* own check of the new topology finds nothing (verify_steer_operation
\* against verify_contracts).
TopologiesAreSound ==
    \A id \in DOMAIN topologies :
       LET new == topologies[id]
           cs == UNION Range(new.agents) IN
       /\ \A g \in DOMAIN new.goals :
             new.goals[g] # {} /\ new.goals[g] \subseteq DOMAIN new.agents
       /\ \A from \in DOMAIN topologies :
             SteerAccepted(topologies[from], new, cs) => ContractErrors(new) = <<{}, {}>>
=============================================================================
