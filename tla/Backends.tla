------------------------------- MODULE Backends -------------------------------
(***************************************************************************)
(* The tool registry and the services around the engine, with what each    *)
(* promises.  They share no state in the program: focus names the one that *)
(* a behaviour is about, the others stay in their initial states.          *)
(***************************************************************************)
EXTENDS MCPRegistry, Sequences

\* The circuit breaker, the queues and the sets in Redis.
CONSTANTS Callers, Impatient, CacheKeys, FailureThreshold, RecoveryTimeout,
          Producers, Jobs, Tokens, DepthLimit, StreamMaxlen

\* The partitions, the tiers of memory, the repositories and the row-level
\* security of PostgreSQL.
CONSTANTS Partitions, DateOf, Rows, PartitionOf, Archivers, Restorers, TTLDays, MaxDay,
          Records, MaxCalls, MaxCallers, Threshold, BatchSize, Top,
          Clients, RowOperations, RowKeys, PoolSize, MaxAttempts, NoCall,
          Followed, Migrators, MaxRuns, Versions

\* Egress, the sandbox, topologies, the registries of the kernel and of the
\* architecture.
CONSTANTS Outbound, DomainOf, Allowed, WorkflowOf, TokensOf, RateLimit, Budget,
          Calls, Faulty, Watchers, MaxConcurrent,
          Goals, Contracts, NoPeer, MaxTopologies,
          RegisteredIds, Values, Malformed, Threads, TTLs, MaxClock, NoValue,
          Readers, MaxVersion, MaxInstances, MaxGeneration, NoThread

\* The goals of phases D and E, the safety argument and governance.
CONSTANTS PhaseGoals, PhaseOf, Pre, Post, SilOf,
          ArgumentIds, EvidenceIds, Icds, Mentions,
          Paths, Rules, Reviewers, Contexts, Tuples, MaxReviewers

VARIABLES
    focus,
    state, failures, openFor, call, doomed, up, cached, streak,
    step, queue, cron, stream, revoked,
    today, existing, table, archived, object, todo, stage, target, data, exposed,
    stored, cache, medium, long, cleaned, tier, hits, pending, co, dropped,
    at, answer, window, charged, logged, delivered, response,
    phase, answered, running, shown, watchers, notified,
    counter, topologies,
    goals, transitions, satisfied, starts, walker, visited, readiness,
    argGoals, strategies, evidence, claims, edges, safetyCase,
    forbidden_paths, governance_rules, code_reviewers, accepted,
    written, appended, request,
    entered, entries, clock, thread, resolved,
    rlsTables, asWritten, relation, next, outcome, left, runs, auditReport,
    file, instance, made, document, generation, lock, job, copy

-----------------------------------------------------------------------------

Breaker == INSTANCE CircuitBreaker WITH Keys <- CacheKeys
Queues == INSTANCE RedisQueues
Partition == INSTANCE PartitionManager
Memory == INSTANCE MemoryManager
Postgres == INSTANCE PostgresRepos WITH Callers <- Clients, Operations <- RowOperations, Keys <- RowKeys,
                                        stored <- written, call <- request
Boundary == INSTANCE TenantBoundary WITH table <- relation
Egress == INSTANCE EgressGateway WITH Requests <- Outbound
Executor == INSTANCE CodeExecutor
Topology == INSTANCE TopologyManager
Registries == INSTANCE KernelRegistries WITH Ids <- RegisteredIds, Invalid <- Malformed,
                                             registered <- entered
Arch == INSTANCE ArchitectureRegistry WITH Free <- NoThread
Phases == INSTANCE PhaseTransition
Safety == INSTANCE SafetyCase WITH Ids <- ArgumentIds
Governed == INSTANCE Governance

-----------------------------------------------------------------------------

\* A threshold of zero would open the breaker before anything has failed.
BreakerAssumption == FailureThreshold \in Nat \ {0} /\ RecoveryTimeout \in Nat

\* Somebody enqueues; the limit may be zero.
QueuesAssumption == IsFiniteSet(Producers) /\ Producers # {} /\ DepthLimit \in Nat

\* Callers of one operation are none of the other; a row lies in a partition.
PartitionAssumption ==
    /\ Archivers \intersect Restorers = {}
    /\ Partitions # {} /\ PartitionOf \in [Rows -> Partitions]

\* Clocks and times to live are counted in ticks.
RegistriesAssumption == TTLs \subseteq Nat /\ MaxClock \in Nat

\* Only a thread holds the lock.
ArchAssumption ==
    /\ NoThread \notin Threads
    /\ MaxVersion \in Nat \ {0} /\ MaxInstances \in Nat /\ MaxGeneration \in Nat \ {0}

\* The operations are those of the repositories, and a statement is tried at
\* least once.
PostgresAssumption ==
    /\ RowOperations \subseteq {"goal_insert", "goal_update", "audit_append", "checkpoint_upsert",
                             "task_upsert", "memory_insert"}
    /\ PoolSize \in Nat /\ MaxAttempts \in Nat \ {0}
    /\ NoCall \notin Clients

\* An estimate is a number of tokens; a workflow may have no budget left.
EgressAssumption == TokensOf \in [Outbound -> Nat] /\ Budget \in Nat

\* A record must be read before it is promoted, and a batch has a record.
MemoryAssumption ==
    MaxCalls \in Nat /\ MaxCallers \in Nat /\ Threshold \in Nat \ {0} /\ BatchSize \in Nat \ {0}

\* A version of the schema names the tables that get a policy, one after another.
BoundaryAssumption == \A v \in Versions : v \in Seq(Boundary!Range(v))

\* The graph of an argument is finite; a sandbox without a place rejects all.
ArgumentAssumption == IsFiniteSet(ArgumentIds)
ExecutorAssumption == MaxConcurrent \in Nat

\* Every goal belongs to one of the two phases; "none" stands for no goal.
PhasesAssumption ==
    /\ Phases!NoGoal \notin PhaseGoals
    /\ PhaseOf \in [PhaseGoals -> {"D", "E"}] /\ SilOf \in [PhaseGoals -> Nat]

\* A stream keeps a number of entries, and the bounds of the models are numbers.
BoundsAssumption ==
    StreamMaxlen \in Nat /\ MaxDay \in Nat /\ MaxTopologies \in Nat /\ MaxRuns \in Nat

ASSUME ServicesAssumption ==
    /\ BreakerAssumption /\ QueuesAssumption /\ PartitionAssumption /\ RegistriesAssumption /\ ArchAssumption
    /\ PostgresAssumption /\ EgressAssumption /\ MemoryAssumption /\ BoundaryAssumption
    /\ ArgumentAssumption /\ ExecutorAssumption /\ PhasesAssumption /\ BoundsAssumption

-----------------------------------------------------------------------------

\* The variables of each, for UNCHANGED and the subscripts.
breakerVars == <<state, failures, openFor, call, doomed, up, cached, streak>>
queueVars == <<step, queue, cron, stream, revoked>>
partitionVars == <<today, existing, table, archived, object, todo, stage, target, data, exposed>>
memoryVars == <<stored, cache, medium, long, cleaned, tier, hits, pending, co, dropped>>
egressVars == <<at, answer, window, charged, logged, delivered, response>>
executorVars == <<phase, answered, running, shown, watchers, notified>>
topologyVars == <<counter, topologies>>
phaseVars == <<goals, transitions, satisfied, starts, walker, visited, readiness>>
safetyVars == <<argGoals, strategies, evidence, claims, edges, safetyCase>>
governanceVars == <<forbidden_paths, governance_rules, code_reviewers, accepted>>
postgresVars == <<written, appended, request>>
registryVars == <<entered, entries, clock, thread, resolved>>
boundaryVars == <<rlsTables, asWritten, relation, next, outcome, left, runs, auditReport>>
archVars == <<file, instance, made, document, generation, lock, job, copy>>

allVars == <<focus, vars, breakerVars, queueVars, partitionVars, memoryVars, egressVars, executorVars,
             topologyVars, phaseVars, safetyVars, governanceVars, postgresVars, registryVars, boundaryVars, archVars>>

Rest ==
    /\ UNCHANGED focus
    /\ IF focus = "registry" THEN TRUE ELSE UNCHANGED vars
    /\ IF focus = "breaker" THEN TRUE ELSE UNCHANGED breakerVars
    /\ IF focus = "queues" THEN TRUE ELSE UNCHANGED queueVars
    /\ IF focus = "partitions" THEN TRUE ELSE UNCHANGED partitionVars
    /\ IF focus = "memory" THEN TRUE ELSE UNCHANGED memoryVars
    /\ IF focus = "egress" THEN TRUE ELSE UNCHANGED egressVars
    /\ IF focus = "executor" THEN TRUE ELSE UNCHANGED executorVars
    /\ IF focus = "topology" THEN TRUE ELSE UNCHANGED topologyVars
    /\ IF focus = "phases" THEN TRUE ELSE UNCHANGED phaseVars
    /\ IF focus = "safety" THEN TRUE ELSE UNCHANGED safetyVars
    /\ IF focus = "governance" THEN TRUE ELSE UNCHANGED governanceVars
    /\ IF focus = "postgres" THEN TRUE ELSE UNCHANGED postgresVars
    /\ IF focus \in {"registries", "icd"} THEN TRUE ELSE UNCHANGED registryVars
    /\ IF focus = "boundary" THEN TRUE ELSE UNCHANGED boundaryVars
    /\ IF focus = "architecture" THEN TRUE ELSE UNCHANGED archVars

BackendsInit ==
    /\ focus \in {"registry", "breaker", "queues", "partitions", "memory", "egress", "executor",
                  "topology", "phases", "safety", "governance", "postgres", "registries", "icd", "boundary", "architecture"}
    /\ Init /\ Breaker!Init /\ Queues!Init /\ Partition!Init /\ Memory!Init /\ Egress!Init
    /\ Executor!ExecutorInit /\ Topology!TopologyInit /\ Phases!PhaseInit /\ Safety!SafetyInit
    /\ Postgres!PostgresInit /\ Registries!RegistriesInit /\ Arch!ArchInit
    /\ IF focus = "boundary" THEN Boundary!BoundaryInit
       ELSE /\ rlsTables = << >> /\ asWritten = FALSE /\ relation = << >> /\ next = << >> /\ outcome = << >>
            /\ left = << >> /\ runs = 0 /\ auditReport = << >>
    /\ IF focus = "governance" THEN Governed!GovernanceInit
       ELSE forbidden_paths = {} /\ governance_rules = {} /\ code_reviewers = << >> /\ accepted = {}

BackendsNext ==
    \/ focus = "registry" /\ Next /\ Rest
    \/ focus = "breaker" /\ Breaker!Next /\ Rest
    \/ focus = "queues" /\ Queues!Next /\ Rest
    \/ focus = "partitions" /\ Partition!Next /\ Rest
    \/ focus = "memory" /\ Memory!Next /\ Rest
    \/ focus = "egress" /\ Egress!Next /\ Rest
    \/ focus = "executor" /\ Executor!ExecutorNext /\ Rest
    \/ focus = "topology" /\ Topology!TopologyNext /\ Rest
    \/ focus = "phases" /\ Phases!PhaseNext /\ Rest
    \/ focus = "safety" /\ Safety!SafetyNext /\ Rest
    \/ focus = "governance" /\ Governed!GovernanceNext /\ Rest
    \/ focus = "postgres" /\ Postgres!PostgresNext /\ Rest
    \/ focus = "registries" /\ Registries!KeyedNext /\ Rest
    \/ focus = "icd" /\ Registries!ICDNext /\ Rest
    \/ focus = "boundary" /\ Boundary!BoundaryNext /\ Rest
    \/ focus = "architecture" /\ Arch!ArchNext /\ Rest

\* Timers fire, and a handler that was cancelled ends; the clock goes on, Redis
\* answers or fails a command, and the patient callers call again.
BackendsSpec ==
    /\ BackendsInit /\ [][BackendsNext]_allVars
    /\ \A i \in Invocations :
          /\ WF_allVars(focus = "registry" /\ Timeout(i) /\ Rest)
          /\ WF_allVars(focus = "registry" /\ stopping[i] # "nothing" /\ Finish(i) /\ Rest)
    /\ WF_allVars(focus = "breaker" /\ Breaker!Tick /\ Rest)
    /\ \A k \in Callers : WF_allVars(focus = "breaker" /\ Breaker!Answer(k) /\ Rest)
    /\ \A k \in Callers \ Impatient : WF_allVars(focus = "breaker" /\ Breaker!Begin(k, "get") /\ Rest)

-----------------------------------------------------------------------------

\* Every service keeps its types.
ServicesTypeOK ==
    /\ TypeOK /\ Breaker!TypeOK /\ Queues!TypeOK /\ Partition!TypeOK /\ Memory!TypeOK /\ Egress!TypeOK
    /\ Executor!ExecutorTypeOK /\ Topology!TopologyTypeOK /\ Phases!PhaseTypeOK /\ Safety!SafetyTypeOK
    /\ Governed!GovernanceTypeOK /\ Postgres!PostgresTypeOK /\ Registries!RegistriesTypeOK
    /\ Arch!ArchTypeOK /\ (focus = "boundary" => Boundary!BoundaryTypeOK)

\* What the stores promise: the breaker of the cache is open for cause, the
\* queue exceeds its depth by no more than a payload per producer but one, no
\* row of a partition is lost but in three known races, memories are promoted
\* soundly, a write to PostgreSQL takes effect once, and an audit that passes has
\* seen isolated tables.
StoresKeepFaith ==
    /\ [](Breaker!OpensForCause /\ Queues!DepthOvershoot /\ Memory!PromotionIsSound /\ Postgres!WritesAreHonest)
    /\ [](focus = "boundary" => Boundary!BoundaryHolds)
    /\ Partition!RowsSurvive

\* What the services in front of a resource promise: an answer of the egress
\* gateway says what happened to the request, the sandbox's capacity is
\* neither exceeded nor lost, topologies satisfy their contracts, and what is
\* registered with the kernel stands, and a stale copy of the architecture shows.
ServicesKeepFaith ==
    /\ [](Executor!CapacityIsExact /\ Egress!AnswersAreTrue /\ Topology!TopologiesAreSound)
    /\ Registries!RegistrationsStand
    /\ Arch!StalenessShows

\* What decisions rest on: phase E starts only on what phase D has achieved,
\* a safety case argues only from what was shown, and what governance forbids
\* stays forbidden.
DecisionsKeepFaith ==
    /\ [](Phases!ReadyIsTrue /\ Safety!ArgumentIsSound)
    /\ Governed!DenialsStand

\* If handlers that are cancelled end, no slot stays in use for ever; and once
\* Redis stays up, the breaker ends up closed for good.
ServicesRecover == SlotsComeBack /\ Breaker!BreakerRecovers

-----------------------------------------------------------------------------

\* No goal is its own successor: the walk round such a goal would look like
\* stuttering here.
NoSelfLoop == \A g \in DOMAIN transitions' : transitions'[g] # g

\* The chain of goals alone; a validation that walks goes on.
ChainSpec ==
    /\ BackendsInit /\ focus = "phases" /\ [][BackendsNext /\ NoSelfLoop]_allVars
    /\ WF_allVars(focus = "phases" /\ (Phases!WalkOn \/ Phases!Report) /\ Rest)

\* A validation of the chain, which is meant to report cycles as errors, ends.
ValidationEnds == Phases!ValidationEnds
=============================================================================
