---------------------------- MODULE ServicesProofs ----------------------------
(***************************************************************************)
(* Proofs about the services and stores around the engine, each for any    *)
(* callers, limits and contents.  They share no state, so each has its own *)
(* section with its invariant and theorems.  BackendsProofs has the others *)
(* and puts them together.  The assumption a theorem starts with is about  *)
(* parameters.                                                             *)
(***************************************************************************)
EXTENDS Backends, FiniteSums, FunctionTheorems, SequenceTheorems

-----------------------------------------------------------------------------
(* The circuit breaker of the cache.                                       *)

\* The breaker's count is the streak; what a half-open breaker leaves
\* uncounted finds both at the threshold.
BreakerInv ==
    /\ state \in {"CLOSED", "OPEN", "HALF_OPEN"}
    /\ streak \in 0..FailureThreshold
    /\ failures = streak
    /\ state = "CLOSED" <=> streak < FailureThreshold

\* Every step of a caller, of Redis and of the clock keeps the invariant.
LEMMA BreakerStep ==
    ASSUME BreakerAssumption, BreakerInv, [Breaker!Next]_(Breaker!breakerVars)
    PROVE  BreakerInv'
  <1> USE DEF BreakerAssumption, BreakerInv
  <1>1. CASE UNCHANGED Breaker!breakerVars
    BY <1>1 DEF Breaker!breakerVars
  <1>2. ASSUME NEW c \in Callers, NEW op \in Breaker!Operations, Breaker!Begin(c, op)
        PROVE  BreakerInv'
    BY <1>2 DEF Breaker!Begin, Breaker!State
  <1>3. ASSUME NEW c \in Callers, Breaker!Succeed(c) PROVE BreakerInv'
    BY <1>3 DEF Breaker!Succeed, Breaker!record_success
  <1>4. ASSUME NEW c \in Callers, Breaker!Fail(c) PROVE BreakerInv'
    BY <1>4 DEF Breaker!Fail, Breaker!record_failure, Breaker!Counted
  <1>5. ASSUME NEW c \in Callers, Breaker!Cancel(c) PROVE BreakerInv'
    BY <1>5 DEF Breaker!Cancel
  <1>6. ASSUME NEW k \in CacheKeys, Breaker!Evict(k) PROVE BreakerInv'
    BY <1>6 DEF Breaker!Evict
  <1>7. CASE Breaker!reset
    BY <1>7 DEF Breaker!reset
  <1>8. CASE Breaker!Tick \/ Breaker!Outage \/ Breaker!Repair
    BY <1>8 DEF Breaker!Tick, Breaker!Outage, Breaker!Repair
  <1> QED
    BY <1>1, <1>2, <1>3, <1>4, <1>5, <1>6, <1>7, <1>8 DEF Breaker!Next, Breaker!Answer

\* The breaker is closed exactly while fewer failures than the threshold have
\* been recorded since the last success, in whatever order answers arrive.
THEOREM BreakerOpensForCause ==
    ASSUME BreakerAssumption
    PROVE  Breaker!Spec => []Breaker!OpensForCause
  <1>1. Breaker!Init => BreakerInv
    BY DEF BreakerAssumption, BreakerInv, Breaker!Init
  <1>2. BreakerInv /\ [Breaker!Next]_(Breaker!breakerVars) => BreakerInv'
    BY BreakerStep
  <1>3. BreakerInv => Breaker!OpensForCause
    BY DEF BreakerInv, Breaker!OpensForCause
  <1> QED
    BY <1>1, <1>2, <1>3, PTL DEF Breaker!Spec

-----------------------------------------------------------------------------
(* The code executor of the sandbox.                                       *)

executorState == <<phase, answered, running, shown, watchers, notified>>

ExecutorSpec == Executor!ExecutorInit /\ [][Executor!ExecutorNext]_executorState

\* The calls whose container runs.
Asleep == {c \in Calls : phase[c] = "asleep"}

\* They are finite in number, also if the calls are not.
ExecutorInv ==
    /\ Executor!ExecutorTypeOK
    /\ IsFiniteSet(Asleep) /\ running = Cardinality(Asleep)
    /\ \A w \in Watchers : \A c \in notified[w] : answered[c] # "nothing"

\* What handing out a result leaves.
Delivered(c) ==
    /\ phase' \in [Calls -> {"new", "asleep", "ended", "raised"}]
    /\ Asleep' = Asleep \ {c}
    /\ answered' \in [Calls -> {"nothing", "none", "INVALID", "SPAWN_ERROR"}]
    /\ watchers' \subseteq Watchers
    /\ notified' \in [Watchers -> SUBSET Calls]
    /\ \A w \in Watchers : \A d \in notified'[w] : answered'[d] # "nothing"

\* Handing out a result changes the call's phase to one that is not asleep and
\* tells only of a call that has one.
LEMMA Delivers ==
    ASSUME ExecutorInv, NEW c \in Calls, NEW kind \in {"none", "INVALID", "SPAWN_ERROR"},
           Executor!Deliver(c, kind)
    PROVE  Delivered(c)
  <1>1. PICK told \in SUBSET watchers :
          /\ notified' = [w \in Watchers |-> notified[w] \union {x \in {c} : w \in told}]
          /\ phase' = [phase EXCEPT ![c] = IF told = watchers THEN "ended" ELSE "raised"]
    BY DEF Executor!Deliver
  <1>2. answered' = [answered EXCEPT ![c] = kind] /\ UNCHANGED watchers
    BY DEF Executor!Deliver
  <1>3. /\ phase' \in [Calls -> {"new", "asleep", "ended", "raised"}]
        /\ Asleep' = Asleep \ {c}
    BY <1>1 DEF ExecutorInv, Executor!ExecutorTypeOK, Asleep
  <1>4. /\ answered' \in [Calls -> {"nothing", "none", "INVALID", "SPAWN_ERROR"}]
        /\ \A d \in Calls : answered'[d] = IF d = c THEN kind ELSE answered[d]
        /\ watchers' \subseteq Watchers
    BY <1>2 DEF ExecutorInv, Executor!ExecutorTypeOK
  <1>5. /\ notified' \in [Watchers -> SUBSET Calls]
        /\ \A w \in Watchers : \A d \in notified'[w] : d \in notified[w] \/ d = c
    BY <1>1 DEF ExecutorInv, Executor!ExecutorTypeOK
  <1>6. \A w \in Watchers : \A d \in notified'[w] : answered'[d] # "nothing"
    BY <1>4, <1>5 DEF ExecutorInv
  <1> QED
    BY <1>3, <1>4, <1>5, <1>6 DEF Delivered

\* Whatever way a call goes, the counter and the containers change together.
LEMMA ExecutorStep ==
    ASSUME MaxConcurrent \in Nat, ExecutorInv, [Executor!ExecutorNext]_executorState
    PROVE  ExecutorInv'
  <1>1. CASE UNCHANGED executorState
    BY <1>1 DEF ExecutorInv, Executor!ExecutorTypeOK, executorState, Asleep
  <1>2. /\ running \in 0..MaxConcurrent /\ running = Cardinality(Asleep) /\ IsFiniteSet(Asleep)
        /\ \A c : /\ IsFiniteSet(Asleep \ {c})
                  /\ Cardinality(Asleep \ {c}) = IF c \in Asleep THEN running - 1 ELSE running
                  /\ IsFiniteSet(Asleep \union {c})
                  /\ Cardinality(Asleep \union {c}) = IF c \in Asleep THEN running ELSE running + 1
    BY FS_AddElement, FS_RemoveElement DEF ExecutorInv, Executor!ExecutorTypeOK
  <1>3. ASSUME NEW c \in Calls, Executor!Execute(c) PROVE ExecutorInv'
    <2>1. c \notin Asleep
      BY <1>3 DEF Executor!Execute, Asleep
    <2>2. CASE /\ running >= MaxConcurrent /\ Executor!Deliver(c, "SPAWN_ERROR")
               /\ UNCHANGED <<running, shown>>
      <3>1. Delivered(c)
        BY <2>2, Delivers
      <3> QED
        BY <1>2, <2>1, <2>2, <3>1 DEF Delivered, ExecutorInv, Executor!ExecutorTypeOK
    <2>3. CASE /\ Executor!Deliver(c, "INVALID")
               /\ UNCHANGED running /\ shown' = "IDLE"
      <3>1. Delivered(c)
        BY <2>3, Delivers
      <3> QED
        BY <1>2, <2>1, <2>3, <3>1 DEF Delivered, ExecutorInv, Executor!ExecutorTypeOK
    <2>4. CASE /\ running < MaxConcurrent
               /\ phase' = [phase EXCEPT ![c] = "asleep"]
               /\ running' = running + 1 /\ shown' = "EXECUTING"
               /\ UNCHANGED <<answered, watchers, notified>>
      <3>1. Asleep' = Asleep \union {c}
        BY <2>4 DEF ExecutorInv, Executor!ExecutorTypeOK, Asleep
      <3>2. IsFiniteSet(Asleep') /\ running' = Cardinality(Asleep')
        BY <1>2, <2>1, <2>4, <3>1
      <3>3. Executor!ExecutorTypeOK'
        BY <1>2, <2>4 DEF ExecutorInv, Executor!ExecutorTypeOK
      <3> QED
        BY <2>4, <3>2, <3>3 DEF ExecutorInv
    <2> QED
      BY <1>3, <2>2, <2>3, <2>4 DEF Executor!Execute
  <1>4. ASSUME NEW c \in Asleep, Executor!Release
        PROVE  running' \in 0..MaxConcurrent /\ running' = Cardinality(Asleep \ {c}) /\ shown' = "IDLE"
    <2>1. running # 0
      BY <1>2, <1>4, FS_EmptySet
    <2> QED
      BY <1>2, <1>4, <2>1 DEF Executor!Release
  <1>5. ASSUME NEW c \in Calls, Executor!Collect(c) PROVE ExecutorInv'
    <2>1. c \in Asleep /\ Executor!Release /\ Executor!Deliver(c, "none")
      BY <1>5 DEF Executor!Collect, Asleep
    <2>2. Delivered(c)
      BY <2>1, Delivers
    <2> QED
      BY <1>2, <1>4, <2>1, <2>2 DEF Delivered, ExecutorInv, Executor!ExecutorTypeOK
  <1>6. ASSUME NEW c \in Calls, Executor!CancelExecute(c) PROVE ExecutorInv'
    <2>1. /\ c \in Asleep /\ Executor!Release /\ phase' = [phase EXCEPT ![c] = "raised"]
          /\ UNCHANGED <<answered, watchers, notified>>
      BY <1>6 DEF Executor!CancelExecute, Asleep
    <2>2. Asleep' = Asleep \ {c}
      BY <2>1 DEF ExecutorInv, Executor!ExecutorTypeOK, Asleep
    <2> QED
      BY <1>2, <1>4, <2>1, <2>2 DEF ExecutorInv, Executor!ExecutorTypeOK
  <1>7. ASSUME NEW w \in Watchers, Executor!Subscribe(w) PROVE ExecutorInv'
    BY <1>7 DEF ExecutorInv, Executor!ExecutorTypeOK, Executor!Subscribe, Asleep
  <1> QED
    BY <1>1, <1>3, <1>5, <1>6, <1>7 DEF Executor!ExecutorNext

\* No call runs at the start.
LEMMA ExecutorStart ==
    ASSUME MaxConcurrent \in Nat
    PROVE  Executor!ExecutorInit => ExecutorInv
  <1> SUFFICES ASSUME Executor!ExecutorInit PROVE ExecutorInv
    OBVIOUS
  <1>1. Asleep = {}
    BY DEF Executor!ExecutorInit, Asleep
  <1> QED
    BY <1>1, FS_EmptySet DEF Executor!ExecutorInit, ExecutorInv, Executor!ExecutorTypeOK

\* The counter that admits requests is the number of containers running,
\* through rejections, cancellations and callbacks that raise.
THEOREM ExecutorCapacityIsExact ==
    ASSUME MaxConcurrent \in Nat
    PROVE  ExecutorSpec => []Executor!CapacityIsExact
  <1>1. Executor!ExecutorInit => ExecutorInv
    BY ExecutorStart
  <1>2. ExecutorInv /\ [Executor!ExecutorNext]_executorState => ExecutorInv'
    BY ExecutorStep
  <1>3. ExecutorInv => Executor!CapacityIsExact
    <2>1. \A S : Executor!Cardinality(S) = Cardinality(S)
      BY DEF Executor!Cardinality, Cardinality
    <2> QED
      BY <2>1 DEF ExecutorInv, Executor!ExecutorTypeOK, Executor!CapacityIsExact, Asleep
  <1> QED
    BY <1>1, <1>2, <1>3, PTL DEF ExecutorSpec

-----------------------------------------------------------------------------
(* The task queue in Redis.                                                *)

\* The producers between LLEN and LPUSH.
Underway == {p \in Producers : step[p] = "pushing"}

\* Each of them may still add a payload.
QueuesInv ==
    /\ queue \in Seq(Jobs)
    /\ step \in [Producers -> {"idle", "checking", "pushing"}]
    /\ Len(queue) + Cardinality(Underway) <= DepthLimit + Cardinality(Producers) - 1

\* One producer starts to push, or has pushed or given up.
LEMMA Pushes ==
    ASSUME QueuesAssumption, QueuesInv, NEW p \in Producers, NEW to \in {"idle", "checking", "pushing"},
           step' = [step EXCEPT ![p] = to]
    PROVE  /\ step' \in [Producers -> {"idle", "checking", "pushing"}]
           /\ Cardinality(Underway) \in Nat /\ Cardinality(Underway') \in Nat
           /\ Cardinality(Producers) \in Nat
           /\ Cardinality(Underway') <= Cardinality(Producers)
           /\ to # "pushing" =>
                 Cardinality(Underway') = IF step[p] = "pushing" THEN Cardinality(Underway) - 1
                                                                 ELSE Cardinality(Underway)
  <1>1. step' \in [Producers -> {"idle", "checking", "pushing"}]
    BY DEF QueuesInv
  <1>2. /\ Cardinality(Underway) \in Nat /\ Cardinality(Underway') \in Nat
        /\ Cardinality(Producers) \in Nat
        /\ Cardinality(Underway') <= Cardinality(Producers)
    <2>1. \A T \in SUBSET Producers :
             IsFiniteSet(T) /\ Cardinality(T) \in Nat /\ Cardinality(T) <= Cardinality(Producers)
      BY FS_Subset, FS_CardinalityType DEF QueuesAssumption
    <2>2. Underway \in SUBSET Producers /\ Underway' \in SUBSET Producers
      BY DEF Underway
    <2> QED
      BY <2>1, <2>2, FS_CardinalityType DEF QueuesAssumption
  <1>3. to # "pushing" => Underway' = Underway \ {p} /\ (p \in Underway <=> step[p] = "pushing")
    BY DEF QueuesInv, Underway
  <1>4. IsFiniteSet(Underway)
    <2>1. Underway \in SUBSET Producers
      BY DEF Underway
    <2> QED
      BY <2>1, FS_Subset DEF QueuesAssumption
  <1> QED
    BY <1>1, <1>2, <1>3, <1>4, FS_RemoveElement

\* Every command and answer keeps the invariant.
LEMMA QueuesStep ==
    ASSUME QueuesAssumption, QueuesInv, [Queues!Next]_(Queues!queueVars)
    PROVE  QueuesInv'
  <1> USE DEF QueuesAssumption
  <1>1. Len(queue) \in Nat
    BY LenProperties DEF QueuesInv
  <1>2. CASE UNCHANGED <<step, queue>>
    BY <1>2 DEF QueuesInv, Underway
  <1>3. ASSUME NEW p \in Producers, Queues!Enqueue(p) PROVE QueuesInv'
    BY <1>1, <1>3, Pushes DEF Queues!Enqueue, QueuesInv
  <1>4. ASSUME NEW p \in Producers, Queues!Checked(p) PROVE QueuesInv'
    <2>1. CASE Queues!Full
      <3>1. step[p] = "checking" /\ step' = [step EXCEPT ![p] = "idle"] /\ UNCHANGED queue
        BY <1>4, <2>1 DEF Queues!Checked
      <3> QED
        BY <1>1, <3>1, Pushes DEF QueuesInv
    <2>2. CASE ~Queues!Full
      <3>1. Len(queue) < DepthLimit /\ step' = [step EXCEPT ![p] = "pushing"] /\ UNCHANGED queue
        BY <1>1, <1>4, <2>2 DEF Queues!Checked, Queues!Full
      <3>2. /\ step' \in [Producers -> {"idle", "checking", "pushing"}]
            /\ Cardinality(Underway') \in Nat /\ Cardinality(Producers) \in Nat
            /\ Cardinality(Underway') <= Cardinality(Producers)
        BY <3>1, Pushes
      <3> QED
        BY <1>1, <3>1, <3>2 DEF QueuesInv
    <2> QED
      BY <2>1, <2>2
  <1>5. ASSUME NEW p \in Producers, Queues!Raised(p) PROVE QueuesInv'
    <2>1. step' = [step EXCEPT ![p] = "idle"] /\ UNCHANGED queue
      BY <1>5 DEF Queues!Raised
    <2>2. /\ step' \in [Producers -> {"idle", "checking", "pushing"}]
          /\ Cardinality(Underway) \in Nat /\ Cardinality(Underway') \in Nat
          /\ Cardinality(Producers) \in Nat
          /\ Cardinality(Underway') = IF step[p] = "pushing" THEN Cardinality(Underway) - 1
                                                            ELSE Cardinality(Underway)
      BY <2>1, Pushes
    <2> QED
      BY <1>1, <2>1, <2>2 DEF QueuesInv
  <1>6. ASSUME NEW p \in Producers, NEW j \in Jobs, Queues!Pushed(p, j) PROVE QueuesInv'
    <2>1. /\ step[p] = "pushing" /\ step' = [step EXCEPT ![p] = "idle"]
          /\ queue' = <<j>> \o queue
      BY <1>6 DEF Queues!Pushed
    <2>2. queue' \in Seq(Jobs) /\ Len(queue') = 1 + Len(queue)
      BY <2>1, ConcatProperties DEF QueuesInv
    <2>3. /\ step' \in [Producers -> {"idle", "checking", "pushing"}]
          /\ Cardinality(Underway) \in Nat /\ Cardinality(Underway') \in Nat
          /\ Cardinality(Producers) \in Nat
          /\ Cardinality(Underway') = Cardinality(Underway) - 1
      BY <2>1, Pushes
    <2> QED
      BY <1>1, <2>1, <2>2, <2>3 DEF QueuesInv
  <1>7. CASE Queues!dequeue
    <2>1. queue # <<>> /\ queue' = SubSeq(queue, 1, Len(queue) - 1) /\ UNCHANGED step
      BY <1>7 DEF Queues!dequeue, Queues!Front
    <2>2. Len(queue) # 0
      BY <2>1, EmptySeq DEF QueuesInv
    <2>3. queue' \in Seq(Jobs) /\ Len(queue') = Len(queue) - 1
      <3> DEFINE n == Len(queue) - 1
                 front == SubSeq(queue, 1, n)
      <3>1. \A i \in 1..n : queue[i] \in Jobs
        BY <1>1, ElementOfSeq DEF QueuesInv
      <3>2. n \in Nat /\ 1 \in Int
        BY <1>1, <2>2
      <3>3. queue' = front
        BY <2>1
      <3> HIDE DEF n
      <3>4. front \in Seq(Jobs) /\ Len(front) = IF 1 <= n THEN n - 1 + 1 ELSE 0
        BY <3>1, <3>2, SubSeqProperties
      <3> HIDE DEF front
      <3>5. queue' \in Seq(Jobs) /\ Len(queue') = n
        BY <3>2, <3>3, <3>4
      <3> QED
        BY <3>5 DEF n
    <2>4. UNCHANGED Underway /\ Cardinality(Underway) \in Nat /\ Cardinality(Producers) \in Nat
      <3>1. Underway \in SUBSET Producers
        BY DEF Underway
      <3> QED
        BY <2>1, <3>1, FS_Subset, FS_CardinalityType DEF Underway
    <2> QED
      BY <1>1, <2>1, <2>3, <2>4 DEF QueuesInv
  <1>8. CASE \/ UNCHANGED Queues!queueVars \/ Queues!append
             \/ \E j \in Jobs : Queues!enqueue_scheduled(j)
             \/ \E t \in Tokens : Queues!revoke(t) \/ Queues!Forget(t)
    BY <1>2, <1>8 DEF Queues!queueVars, Queues!append, Queues!enqueue_scheduled,
       Queues!revoke, Queues!Forget
  <1> QED
    BY <1>3, <1>4, <1>5, <1>6, <1>7, <1>8 DEF Queues!Next

\* An empty queue has room for all producers.
LEMMA QueuesStart ==
    ASSUME QueuesAssumption
    PROVE  Queues!Init => QueuesInv
  <1> SUFFICES ASSUME Queues!Init PROVE QueuesInv
    OBVIOUS
  <1>1. Underway = {} /\ queue = <<>>
    BY DEF Queues!Init, Underway
  <1>2. Cardinality(Underway) = 0 /\ Len(queue) = 0
    BY <1>1, FS_EmptySet
  <1>3. Cardinality(Producers) \in Nat /\ Cardinality(Producers) # 0
    BY FS_CardinalityType, FS_EmptySet DEF QueuesAssumption
  <1> QED
    BY <1>1, <1>2, <1>3 DEF Queues!Init, QueuesInv, QueuesAssumption

\* Concurrent producers exceed the limit of a queue by at most one payload for
\* each of them but one.
THEOREM QueueOvershootIsBounded ==
    ASSUME QueuesAssumption
    PROVE  Queues!Spec => []Queues!DepthOvershoot
  <1>1. Queues!Init => QueuesInv
    BY QueuesStart
  <1>2. QueuesInv /\ [Queues!Next]_(Queues!queueVars) => QueuesInv'
    BY QueuesStep
  <1>3. QueuesInv => Queues!DepthOvershoot
    <2>1. \A S : Queues!Cardinality(S) = Cardinality(S)
      BY DEF Queues!Cardinality, Cardinality
    <2> QED
      BY <2>1 DEF QueuesInv, Underway, Queues!Pushing, Queues!DepthOvershoot
  <1> QED
    BY <1>1, <1>2, <1>3, PTL DEF Queues!Spec

-----------------------------------------------------------------------------
(* The governance engine.                                                  *)

governanceState == <<forbidden_paths, governance_rules, code_reviewers, accepted>>

GovernanceSpec == Governed!GovernanceInit /\ [][Governed!GovernanceNext]_governanceState

\* What was accepted is among the paths that are enforced.
GovernanceInv == accepted \subseteq forbidden_paths

\* Paths are only added.
LEMMA PathsGrow ==
    [Governed!GovernanceNext]_governanceState =>
       forbidden_paths \subseteq forbidden_paths' /\ (GovernanceInv => GovernanceInv')
  BY DEF Governed!GovernanceNext, Governed!register_forbidden_path, GovernanceInv, governanceState,
     Governed!register_governance_rule, Governed!register_code_reviewer

\* A path among those enforced is found, and its demands with it.
LEMMA PathMatches ==
    ASSUME NEW paths, NEW p \in paths, NEW c, Governed!Holds(p, c)
    PROVE  LET found == Governed!check_forbidden_paths(paths, p.role, p.type, p.op, c) IN
           /\ ~found.access_allowed
           /\ p.audit => found.requires_audit
           /\ p.escalate => found.requires_escalation
  <1> DEFINE violations == Governed!Matching(paths, p.role, p.type, p.op, c)
  <1>1. p \in violations
    BY DEF Governed!Matching
  <1> QED
    BY <1>1 DEF Governed!check_forbidden_paths

\* With more paths an found that denied denies still.
LEMMA DenialsGrow ==
    ASSUME NEW paths, NEW more, paths \subseteq more, NEW role, NEW type, NEW op, NEW c,
           ~Governed!check_forbidden_paths(paths, role, type, op, c).access_allowed
    PROVE  ~Governed!check_forbidden_paths(more, role, type, op, c).access_allowed
  <1>1. Governed!Matching(paths, role, type, op, c) # {}
    BY DEF Governed!check_forbidden_paths
  <1>2. Governed!Matching(more, role, type, op, c) # {}
    BY <1>1 DEF Governed!Matching
  <1> QED
    BY <1>2 DEF Governed!check_forbidden_paths

\* From states in which all that was accepted is enforced.
LEMMA DenialsAreKept ==
    GovernanceInv /\ [][Governed!GovernanceNext]_governanceState => Governed!DenialsStand
  <1> DEFINE Enforced ==
        \A p \in accepted, c \in Contexts :
           LET found == Governed!check_forbidden_paths(forbidden_paths, p.role, p.type, p.op, c) IN
           Governed!Holds(p, c) => /\ ~found.access_allowed
                                   /\ p.audit => found.requires_audit
                                   /\ p.escalate => found.requires_escalation
      Kept ==
        \A p \in forbidden_paths, c \in Contexts :
           ~Governed!check_forbidden_paths(forbidden_paths, p.role, p.type, p.op, c).access_allowed =>
           ~Governed!check_forbidden_paths(forbidden_paths', p.role, p.type, p.op, c).access_allowed
  <1>1. GovernanceInv /\ [Governed!GovernanceNext]_governanceState => GovernanceInv'
    BY PathsGrow
  <1>2. GovernanceInv => Enforced
    BY PathMatches DEF GovernanceInv
  <1>3. [Governed!GovernanceNext]_governanceState => [Kept]_governanceState
    BY PathsGrow, DenialsGrow
  <1> HIDE DEF Enforced, Kept
  <1>4. GovernanceInv /\ [][Governed!GovernanceNext]_governanceState => []Enforced /\ [][Kept]_governanceState
    BY <1>1, <1>2, <1>3, PTL
  <1> QED
    BY <1>4 DEF Enforced, Kept, Governed!DenialsStand, Governed!governanceVars, governanceState

\* A path once accepted is enforced from then on, with the audit and the
\* escalation it asks for, and no denial is withdrawn.
THEOREM GovernanceDenialsStand == GovernanceSpec => Governed!DenialsStand
  <1>1. Governed!GovernanceInit => GovernanceInv
    BY DEF Governed!GovernanceInit, GovernanceInv
  <1> QED
    BY <1>1, DenialsAreKept DEF GovernanceSpec

-----------------------------------------------------------------------------
(* The partitions.                                                         *)

Workers == Archivers \union Restorers

Copies(a) == stage[a] \in {"copied", "uploaded"}
Restores(r) == stage[r] \in {"downloaded", "created"}

PartitionTypes ==
    /\ table \in [Partitions -> SUBSET Rows]
    /\ object \in [Partitions -> SUBSET Rows]
    /\ stage \in [Workers -> {"idle", "copied", "uploaded", "downloaded", "created"}]
    /\ target \in [Workers -> Partitions]
    /\ data \in [Workers -> SUBSET Rows]
    /\ \A a \in Archivers : stage[a] \in {"idle", "copied", "uploaded"}
    /\ \A r \in Restorers : stage[r] \in {"idle", "downloaded", "created"}

\* Of a partition somebody has copied, what is in the table is in the copy, and
\* what is in the copy or in the object can be found elsewhere; what has been
\* uploaded may be dropped.
CopyInv(a) ==
    LET p == target[a] IN
    Copies(a) =>
       /\ table[p] \subseteq data[a] \union exposed
       /\ object[p] \subseteq data[a] \union table[p] \union exposed
       /\ data[a] \subseteq table[p] \union object[p] \union exposed
       /\ stage[a] = "uploaded" => table[p] \subseteq object[p] \union exposed

\* What somebody restores is what is in the object.
RestoreInv(r) ==
    LET p == target[r] IN
    Restores(r) =>
       /\ data[r] \subseteq object[p] \union exposed
       /\ object[p] \subseteq data[r] \union table[p] \union exposed

\* An archival and a restore of one partition expose it.
RaceInv(a, r) ==
    LET p == target[a] IN
    Copies(a) /\ Restores(r) /\ target[r] = p =>
       table[p] \union object[p] \union data[a] \union data[r] \subseteq exposed

\* A table that is not about to be filled holds what its object holds.
TableInv(p) ==
    p \in existing /\ (\A r \in Restorers : ~(stage[r] = "created" /\ target[r] = p)) =>
       object[p] \subseteq table[p] \union exposed

PartitionInv ==
    /\ PartitionTypes
    /\ \A a \in Archivers : CopyInv(a)
    /\ \A r \in Restorers : RestoreInv(r)
    /\ \A a \in Archivers, r \in Restorers : RaceInv(a, r)
    /\ \A p \in Partitions : TableInv(p)

\* No row is lost that was not exposed.
NoRowLost == \A row \in Partition!Kept : row \in Partition!Kept' \/ row \in exposed

\* It is enough that no partition loses one.
LEMMA KeptPointwise ==
    ASSUME PartitionTypes,
           \A p \in Partitions : table[p] \union object[p] \subseteq table'[p] \union object'[p] \union exposed
    PROVE  NoRowLost
  BY DEF PartitionTypes, NoRowLost, Partition!Kept, Partition!Everywhere

\* An upload replaces the object by a copy that has what both had.
LEMMA Uploads ==
    ASSUME PartitionAssumption, PartitionInv, NEW a \in Archivers, Partition!Upload(a)
    PROVE  PartitionInv' /\ NoRowLost
  <1> DEFINE q == target[a]
  <1>1. /\ stage[a] = "copied" /\ Copies(a) /\ a \in Workers /\ q \in Partitions
        /\ stage' = [stage EXCEPT ![a] = "uploaded"]
        /\ object' = [object EXCEPT ![q] = data[a]]
        /\ UNCHANGED <<existing, table, target, data, exposed>>
    BY DEF Partition!Upload, Partition!UploadBytes, PartitionInv, PartitionTypes, Workers, Copies
  <1>2. /\ PartitionTypes'
        /\ stage'[a] = "uploaded"
        /\ \A w \in Workers : w # a => stage'[w] = stage[w]
        /\ object'[q] = data[a]
        /\ \A p \in Partitions : p # q => object'[p] = object[p]
        /\ \A r \in Restorers : stage'[r] = stage[r]
    BY <1>1 DEF PartitionAssumption, PartitionInv, PartitionTypes, Workers
  <1> HIDE DEF q
  <1>3. ASSUME NEW b \in Archivers PROVE CopyInv(b)'
    <2>1. CopyInv(a) /\ CopyInv(b)
      BY DEF PartitionInv
    <2>2. b \in Workers /\ target[b] \in Partitions
      BY DEF PartitionInv, PartitionTypes, Workers
    <2> QED
      BY <1>1, <1>2, <2>1, <2>2 DEF CopyInv, Copies, q
  <1>4. ASSUME NEW r \in Restorers PROVE RestoreInv(r)'
    <2>1. CopyInv(a) /\ RestoreInv(r) /\ RaceInv(a, r)
      BY DEF PartitionInv
    <2>2. target[r] \in Partitions
      BY DEF PartitionInv, PartitionTypes, Workers
    <2> QED
      BY <1>1, <1>2, <2>1, <2>2 DEF CopyInv, RestoreInv, RaceInv, Copies, Restores, q
  <1>5. ASSUME NEW b \in Archivers, NEW r \in Restorers PROVE RaceInv(b, r)'
    <2>1. RaceInv(a, r) /\ RaceInv(b, r)
      BY DEF PartitionInv
    <2>2. b \in Workers /\ target[b] \in Partitions
      BY DEF PartitionInv, PartitionTypes, Workers
    <2> QED
      BY <1>1, <1>2, <2>1, <2>2 DEF RaceInv, Copies, Restores, q
  <1>6. ASSUME NEW p \in Partitions PROVE TableInv(p)'
    <2>1. CopyInv(a) /\ TableInv(p)
      BY DEF PartitionInv
    <2> QED
      BY <1>1, <1>2, <2>1 DEF CopyInv, TableInv, Copies, q
  <1>7. NoRowLost
    <2>1. CopyInv(a)
      BY DEF PartitionInv
    <2>2. \A p \in Partitions : table[p] \union object[p] \subseteq table'[p] \union object'[p] \union exposed
      BY <1>1, <1>2, <2>1 DEF CopyInv, q
    <2> QED
      BY <2>2, KeptPointwise DEF PartitionInv
  <1> QED
    BY <1>2, <1>3, <1>4, <1>5, <1>6, <1>7 DEF PartitionInv

\* A table is dropped only when what it holds has been uploaded.
LEMMA Drops ==
    ASSUME PartitionAssumption, PartitionInv, NEW a \in Archivers, Partition!Drop(a)
    PROVE  PartitionInv' /\ NoRowLost
  <1> DEFINE q == target[a]
  <1>1. /\ stage[a] = "uploaded" /\ Copies(a) /\ a \in Workers /\ q \in Partitions
        /\ stage' = [stage EXCEPT ![a] = "idle"]
        /\ table' = [table EXCEPT ![q] = {}]
        /\ data' = [data EXCEPT ![a] = {}]
        /\ existing' = existing \ {q}
        /\ UNCHANGED <<object, target, exposed>>
    BY DEF Partition!Drop, Partition!DropTable, PartitionInv, PartitionTypes, Workers, Copies
  <1>2. /\ PartitionTypes'
        /\ stage'[a] = "idle" /\ data'[a] = {}
        /\ \A w \in Workers : w # a => stage'[w] = stage[w] /\ data'[w] = data[w]
        /\ table'[q] = {}
        /\ \A p \in Partitions : p # q => table'[p] = table[p]
        /\ \A r \in Restorers : stage'[r] = stage[r] /\ data'[r] = data[r]
    BY <1>1 DEF PartitionAssumption, PartitionInv, PartitionTypes, Workers
  <1> HIDE DEF q
  <1>3. ASSUME NEW b \in Archivers PROVE CopyInv(b)'
    <2>1. CopyInv(a) /\ CopyInv(b)
      BY DEF PartitionInv
    <2>2. b \in Workers /\ target[b] \in Partitions
      BY DEF PartitionInv, PartitionTypes, Workers
    <2> QED
      BY <1>1, <1>2, <2>1, <2>2 DEF CopyInv, Copies, q
  <1>4. ASSUME NEW r \in Restorers PROVE RestoreInv(r)'
    <2>1. CopyInv(a) /\ RestoreInv(r) /\ RaceInv(a, r)
      BY DEF PartitionInv
    <2>2. target[r] \in Partitions
      BY DEF PartitionInv, PartitionTypes, Workers
    <2> QED
      BY <1>1, <1>2, <2>1, <2>2 DEF CopyInv, RestoreInv, RaceInv, Copies, Restores, q
  <1>5. ASSUME NEW b \in Archivers, NEW r \in Restorers PROVE RaceInv(b, r)'
    <2>1. RaceInv(b, r)
      BY DEF PartitionInv
    <2>2. b \in Workers /\ target[b] \in Partitions
      BY DEF PartitionInv, PartitionTypes, Workers
    <2> QED
      BY <1>1, <1>2, <2>1, <2>2 DEF RaceInv, Copies, Restores, q
  <1>6. ASSUME NEW p \in Partitions PROVE TableInv(p)'
    <2>1. TableInv(p)
      BY DEF PartitionInv
    <2> QED
      BY <1>1, <1>2, <2>1 DEF TableInv, q
  <1>7. NoRowLost
    <2>1. CopyInv(a)
      BY DEF PartitionInv
    <2>2. \A p \in Partitions : table[p] \union object[p] \subseteq table'[p] \union object'[p] \union exposed
      BY <1>1, <1>2, <2>1 DEF CopyInv, q
    <2> QED
      BY <2>2, KeptPointwise DEF PartitionInv
  <1> QED
    BY <1>2, <1>3, <1>4, <1>5, <1>6, <1>7 DEF PartitionInv

\* A copy of a table that nobody restores into is good to upload.
LEMMA CopiesOut ==
    ASSUME PartitionAssumption, PartitionInv, NEW a \in Archivers, NEW q \in Partitions,
           Partition!CopyOut(a, q)
    PROVE  PartitionInv' /\ NoRowLost
  <1> DEFINE race == \E r \in Restorers : Restores(r) /\ target[r] = q
  <1>1. /\ stage[a] = "idle" /\ a \in Workers /\ q \in existing
        /\ stage' = [stage EXCEPT ![a] = "copied"]
        /\ target' = [target EXCEPT ![a] = q]
        /\ data' = [data EXCEPT ![a] = table[q]]
        /\ UNCHANGED <<existing, table, object>>
    BY DEF Partition!CopyOut, Workers
  <1>2. exposed' = IF race THEN exposed \union table[q] \union object[q] ELSE exposed
    BY DEF Partition!CopyOut, Partition!Restoring, Partition!Everywhere, Restores
  <1>3. exposed \subseteq exposed' /\ (race => table[q] \union object[q] \subseteq exposed')
    BY <1>2
  <1>4. /\ PartitionTypes'
        /\ stage'[a] = "copied" /\ target'[a] = q /\ data'[a] = table[q]
        /\ \A w \in Workers : w # a => /\ stage'[w] = stage[w] /\ data'[w] = data[w]
                                       /\ target'[w] = target[w]
        /\ \A r \in Restorers : stage'[r] = stage[r] /\ data'[r] = data[r] /\ target'[r] = target[r]
    BY <1>1 DEF PartitionAssumption, PartitionInv, PartitionTypes, Workers
  <1>5. ~race => object[q] \subseteq table[q] \union exposed
    BY <1>1 DEF PartitionInv, TableInv, Restores
  <1> HIDE DEF race
  <1>6. ASSUME NEW b \in Archivers PROVE CopyInv(b)'
    <2>1. CopyInv(b) /\ b \in Workers
      BY DEF PartitionInv, Workers
    <2> QED
      BY <1>1, <1>3, <1>4, <1>5, <2>1 DEF CopyInv, Copies
  <1>7. ASSUME NEW r \in Restorers PROVE RestoreInv(r)'
    <2>1. RestoreInv(r)
      BY DEF PartitionInv
    <2> QED
      BY <1>1, <1>3, <1>4, <2>1 DEF RestoreInv, Restores
  <1>8. ASSUME NEW b \in Archivers, NEW r \in Restorers PROVE RaceInv(b, r)'
    <2>1. RaceInv(b, r) /\ RestoreInv(r) /\ b \in Workers
      BY DEF PartitionInv, Workers
    <2>2. CASE b = a
      <3>1. Restores(r) /\ target[r] = q => race
        BY DEF race
      <3> QED
        BY <1>1, <1>3, <1>4, <2>1, <2>2, <3>1 DEF RaceInv, RestoreInv, Copies, Restores
    <2>3. CASE b # a
      BY <1>1, <1>3, <1>4, <2>1, <2>3 DEF RaceInv, Copies, Restores
    <2> QED
      BY <2>2, <2>3
  <1>9. ASSUME NEW p \in Partitions PROVE TableInv(p)'
    <2>1. TableInv(p)
      BY DEF PartitionInv
    <2> QED
      BY <1>1, <1>3, <1>4, <2>1 DEF TableInv
  <1>10. NoRowLost
    BY <1>1, KeptPointwise DEF PartitionInv
  <1> QED
    BY <1>4, <1>6, <1>7, <1>8, <1>9, <1>10 DEF PartitionInv

\* What has been downloaded is what the object holds.
LEMMA Downloads ==
    ASSUME PartitionAssumption, PartitionInv, NEW r \in Restorers, NEW q \in Partitions,
           Partition!Download(r, q)
    PROVE  PartitionInv' /\ NoRowLost
  <1> DEFINE race == \E a \in Archivers : Copies(a) /\ target[a] = q
  <1>1. /\ stage[r] = "idle" /\ r \in Workers
        /\ stage' = [stage EXCEPT ![r] = "downloaded"]
        /\ target' = [target EXCEPT ![r] = q]
        /\ data' = [data EXCEPT ![r] = object[q]]
        /\ UNCHANGED <<existing, table, object>>
    BY DEF Partition!Download, Workers
  <1>2. exposed' = IF race THEN exposed \union table[q] \union object[q] ELSE exposed
    BY DEF Partition!Download, Partition!Copying, Partition!Everywhere, Copies
  <1>3. exposed \subseteq exposed' /\ (race => table[q] \union object[q] \subseteq exposed')
    BY <1>2
  <1>4. /\ PartitionTypes'
        /\ stage'[r] = "downloaded" /\ target'[r] = q /\ data'[r] = object[q]
        /\ \A w \in Workers : w # r => /\ stage'[w] = stage[w] /\ data'[w] = data[w]
                                       /\ target'[w] = target[w]
        /\ \A a \in Archivers : stage'[a] = stage[a] /\ data'[a] = data[a] /\ target'[a] = target[a]
    BY <1>1 DEF PartitionAssumption, PartitionInv, PartitionTypes, Workers
  <1> HIDE DEF race
  <1>5. ASSUME NEW a \in Archivers PROVE CopyInv(a)'
    <2>1. CopyInv(a)
      BY DEF PartitionInv
    <2> QED
      BY <1>1, <1>3, <1>4, <2>1 DEF CopyInv, Copies
  <1>6. ASSUME NEW t \in Restorers PROVE RestoreInv(t)'
    <2>1. RestoreInv(t) /\ t \in Workers
      BY DEF PartitionInv, Workers
    <2> QED
      BY <1>1, <1>3, <1>4, <2>1 DEF RestoreInv, Restores
  <1>7. ASSUME NEW a \in Archivers, NEW t \in Restorers PROVE RaceInv(a, t)'
    <2>1. RaceInv(a, t) /\ CopyInv(a) /\ t \in Workers
      BY DEF PartitionInv, Workers
    <2>2. CASE t = r
      <3>1. Copies(a) /\ target[a] = q => race
        BY DEF race
      <3> QED
        BY <1>1, <1>3, <1>4, <2>1, <2>2, <3>1 DEF RaceInv, CopyInv, Copies, Restores
    <2>3. CASE t # r
      BY <1>1, <1>3, <1>4, <2>1, <2>3 DEF RaceInv, Copies, Restores
    <2> QED
      BY <2>2, <2>3
  <1>8. ASSUME NEW p \in Partitions PROVE TableInv(p)'
    <2>1. TableInv(p) /\ \A t \in Restorers : t \in Workers
      BY DEF PartitionInv, Workers
    <2> QED
      BY <1>1, <1>3, <1>4, <2>1 DEF TableInv
  <1>9. NoRowLost
    BY <1>1, KeptPointwise DEF PartitionInv
  <1> QED
    BY <1>4, <1>5, <1>6, <1>7, <1>8, <1>9 DEF PartitionInv

\* Copying in fills a table with what its object holds.
LEMMA CopiesIn ==
    ASSUME PartitionAssumption, PartitionInv, NEW r \in Restorers, Partition!CopyIn(r)
    PROVE  PartitionInv' /\ NoRowLost
  <1> DEFINE q == target[r]
  <1>1. /\ stage[r] = "created" /\ Restores(r) /\ r \in Workers /\ q \in Partitions
        /\ stage' = [stage EXCEPT ![r] = "idle"]
        /\ table' = [table EXCEPT ![q] = @ \union data[r]]
        /\ data' = [data EXCEPT ![r] = {}]
        /\ UNCHANGED <<existing, object, target, exposed>>
    BY DEF Partition!CopyIn, PartitionInv, PartitionTypes, Workers, Restores
  <1>2. /\ PartitionTypes'
        /\ stage'[r] = "idle" /\ data'[r] = {}
        /\ \A w \in Workers : w # r => stage'[w] = stage[w] /\ data'[w] = data[w]
        /\ table'[q] = table[q] \union data[r]
        /\ \A p \in Partitions : p # q => table'[p] = table[p]
        /\ \A a \in Archivers : stage'[a] = stage[a] /\ data'[a] = data[a]
    BY <1>1 DEF PartitionAssumption, PartitionInv, PartitionTypes, Workers
  <1> HIDE DEF q
  <1>3. ASSUME NEW a \in Archivers PROVE CopyInv(a)'
    <2>1. CopyInv(a) /\ RaceInv(a, r)
      BY DEF PartitionInv
    <2>2. target[a] \in Partitions
      BY DEF PartitionInv, PartitionTypes, Workers
    <2> QED
      BY <1>1, <1>2, <2>1, <2>2 DEF CopyInv, RaceInv, Copies, Restores, q
  <1>4. ASSUME NEW t \in Restorers PROVE RestoreInv(t)'
    <2>1. RestoreInv(t) /\ t \in Workers
      BY DEF PartitionInv, Workers
    <2>2. target[t] \in Partitions
      BY DEF PartitionInv, PartitionTypes, Workers
    <2> QED
      BY <1>1, <1>2, <2>1, <2>2 DEF RestoreInv, Restores, q
  <1>5. ASSUME NEW a \in Archivers, NEW t \in Restorers PROVE RaceInv(a, t)'
    <2>1. RaceInv(a, r) /\ RaceInv(a, t) /\ t \in Workers
      BY DEF PartitionInv, Workers
    <2>2. target[a] \in Partitions
      BY DEF PartitionInv, PartitionTypes, Workers
    <2> QED
      BY <1>1, <1>2, <2>1, <2>2 DEF RaceInv, Copies, Restores, q
  <1>6. ASSUME NEW p \in Partitions PROVE TableInv(p)'
    <2>1. TableInv(p) /\ RestoreInv(r) /\ \A t \in Restorers : t \in Workers
      BY DEF PartitionInv, Workers
    <2>2. CASE p = q
      BY <1>1, <1>2, <2>1, <2>2 DEF TableInv, RestoreInv, q
    <2>3. CASE p # q
      BY <1>1, <1>2, <2>1, <2>3 DEF TableInv, q
    <2> QED
      BY <2>2, <2>3
  <1>7. NoRowLost
    <2>1. \A p \in Partitions : table[p] \union object[p] \subseteq table'[p] \union object'[p] \union exposed
      BY <1>1, <1>2 DEF q
    <2> QED
      BY <2>1, KeptPointwise DEF PartitionInv
  <1> QED
    BY <1>2, <1>3, <1>4, <1>5, <1>6, <1>7 DEF PartitionInv

\* A step after which no more is copying or restoring than before, and which
\* only exposes rows, keeps all but what it does to existing tables.
LEMMA LessUnderway ==
    ASSUME PartitionInv, PartitionTypes', exposed \subseteq exposed', UNCHANGED <<table, object, target>>,
           \A w \in Workers : \/ stage'[w] = "idle"
                              \/ stage'[w] = stage[w] /\ data'[w] = data[w]
                              \/ stage[w] = "downloaded" /\ stage'[w] = "created" /\ data'[w] = data[w]
    PROVE  /\ \A a \in Archivers : CopyInv(a)'
           /\ \A r \in Restorers : RestoreInv(r)'
           /\ \A a \in Archivers, r \in Restorers : RaceInv(a, r)'
           /\ NoRowLost
  <1>1. ASSUME NEW a \in Archivers PROVE CopyInv(a)'
    <2>1. CopyInv(a) /\ a \in Workers
      BY DEF PartitionInv, Workers
    <2> QED
      BY <2>1 DEF CopyInv, Copies
  <1>2. ASSUME NEW r \in Restorers PROVE RestoreInv(r)'
    <2>1. RestoreInv(r) /\ r \in Workers
      BY DEF PartitionInv, Workers
    <2> QED
      BY <2>1 DEF RestoreInv, Restores
  <1>3. ASSUME NEW a \in Archivers, NEW r \in Restorers PROVE RaceInv(a, r)'
    <2>1. RaceInv(a, r) /\ a \in Workers /\ r \in Workers
      BY DEF PartitionInv, Workers
    <2> QED
      BY <2>1 DEF RaceInv, Copies, Restores
  <1>4. NoRowLost
    BY KeptPointwise DEF PartitionInv
  <1> QED
    BY <1>1, <1>2, <1>3, <1>4

\* A table about to be filled owes its object nothing.
LEMMA Creates ==
    ASSUME PartitionAssumption, PartitionInv, NEW r \in Restorers, Partition!CreateTable(r)
    PROVE  PartitionInv' /\ NoRowLost
  <1>1. /\ stage[r] = "downloaded" /\ r \in Workers
        /\ stage' = [stage EXCEPT ![r] = "created"]
        /\ existing' = existing \union {target[r]}
        /\ UNCHANGED <<table, object, target, data, exposed>>
    BY DEF Partition!CreateTable, Workers
  <1>2. /\ PartitionTypes'
        /\ stage'[r] = "created"
        /\ \A w \in Workers : w # r => stage'[w] = stage[w]
        /\ \A t \in Restorers : t \in Workers
    BY <1>1 DEF PartitionAssumption, PartitionInv, PartitionTypes, Workers
  <1>3. ASSUME NEW p \in Partitions PROVE TableInv(p)'
    <2>1. TableInv(p)
      BY DEF PartitionInv
    <2> QED
      BY <1>1, <1>2, <2>1 DEF TableInv
  <1>4. /\ \A a \in Archivers : CopyInv(a)'
        /\ \A t \in Restorers : RestoreInv(t)'
        /\ \A a \in Archivers, t \in Restorers : RaceInv(a, t)'
        /\ NoRowLost
    BY <1>1, <1>2, LessUnderway
  <1> QED
    BY <1>2, <1>3, <1>4 DEF PartitionInv

\* A restore that fails leaves the object, and a table that exists.
LEMMA RestoreAborts ==
    ASSUME PartitionAssumption, PartitionInv, NEW r \in Restorers, Partition!AbortRestore(r)
    PROVE  PartitionInv' /\ NoRowLost
  <1>1. /\ r \in Workers /\ target[r] \in Partitions
        /\ stage' = [stage EXCEPT ![r] = "idle"]
        /\ data' = [data EXCEPT ![r] = {}]
        /\ exposed' = IF stage[r] = "created" THEN exposed \union object[target[r]] ELSE exposed
        /\ UNCHANGED <<existing, table, object, target>>
    BY DEF Partition!AbortRestore, Workers, PartitionInv, PartitionTypes
  <1>2. /\ PartitionTypes'
        /\ stage'[r] = "idle"
        /\ \A w \in Workers : w # r => stage'[w] = stage[w] /\ data'[w] = data[w]
        /\ \A t \in Restorers : t \in Workers
    BY <1>1 DEF PartitionAssumption, PartitionInv, PartitionTypes, Workers
  <1>3. /\ exposed \subseteq exposed'
        /\ stage[r] = "created" => object[target[r]] \subseteq exposed'
    BY <1>1
  <1>4. ASSUME NEW p \in Partitions PROVE TableInv(p)'
    <2>1. TableInv(p)
      BY DEF PartitionInv
    <2>2. CASE stage[r] = "created" /\ target[r] = p
      BY <1>1, <1>3, <2>2 DEF TableInv
    <2>3. CASE ~(stage[r] = "created" /\ target[r] = p)
      BY <1>1, <1>2, <1>3, <2>1, <2>3 DEF TableInv
    <2> QED
      BY <2>2, <2>3
  <1>5. /\ \A a \in Archivers : CopyInv(a)'
        /\ \A t \in Restorers : RestoreInv(t)'
        /\ \A a \in Archivers, t \in Restorers : RaceInv(a, t)'
        /\ NoRowLost
    BY <1>1, <1>2, <1>3, LessUnderway
  <1> QED
    BY <1>2, <1>4, <1>5 DEF PartitionInv

\* A cycle that fails leaves what it has not dropped.
LEMMA CycleAborts ==
    ASSUME PartitionAssumption, PartitionInv, NEW a \in Archivers, Partition!AbortCycle(a)
    PROVE  PartitionInv' /\ NoRowLost
  <1>1. /\ a \in Workers
        /\ stage' = [stage EXCEPT ![a] = "idle"]
        /\ data' = [data EXCEPT ![a] = {}]
        /\ UNCHANGED <<existing, table, object, target, exposed>>
    BY DEF Partition!AbortCycle, Workers
  <1>2. /\ PartitionTypes'
        /\ stage'[a] = "idle"
        /\ \A w \in Workers : w # a => stage'[w] = stage[w] /\ data'[w] = data[w]
        /\ \A r \in Restorers : stage'[r] = stage[r]
    BY <1>1 DEF PartitionAssumption, PartitionInv, PartitionTypes, Workers
  <1>3. ASSUME NEW p \in Partitions PROVE TableInv(p)'
    <2>1. TableInv(p)
      BY DEF PartitionInv
    <2> QED
      BY <1>1, <1>2, <2>1 DEF TableInv
  <1>4. /\ \A b \in Archivers : CopyInv(b)'
        /\ \A t \in Restorers : RestoreInv(t)'
        /\ \A b \in Archivers, t \in Restorers : RaceInv(b, t)'
        /\ NoRowLost
    BY <1>1, <1>2, LessUnderway
  <1> QED
    BY <1>2, <1>3, <1>4 DEF PartitionInv

\* A new partition has no object, or one nobody misses.
LEMMA Ensures ==
    ASSUME PartitionInv, NEW q \in Partitions, Partition!ensure_partition(q)
    PROVE  PartitionInv' /\ NoRowLost
  <1>1. /\ existing' = existing \union {q}
        /\ exposed' = IF q \in existing THEN exposed ELSE exposed \union object[q]
        /\ UNCHANGED <<table, object, stage, target, data>>
    BY DEF Partition!ensure_partition
  <1>2. /\ PartitionTypes' /\ exposed \subseteq exposed'
        /\ q \notin existing => object[q] \subseteq exposed'
    BY <1>1 DEF PartitionInv, PartitionTypes
  <1>3. ASSUME NEW p \in Partitions PROVE TableInv(p)'
    <2>1. TableInv(p)
      BY DEF PartitionInv
    <2> QED
      BY <1>1, <1>2, <2>1 DEF TableInv
  <1>4. /\ \A a \in Archivers : CopyInv(a)'
        /\ \A r \in Restorers : RestoreInv(r)'
        /\ \A a \in Archivers, r \in Restorers : RaceInv(a, r)'
        /\ NoRowLost
    BY <1>1, <1>2, LessUnderway
  <1> QED
    BY <1>2, <1>3, <1>4 DEF PartitionInv

\* A row inserted while its partition is copied is exposed.
LEMMA Inserts ==
    ASSUME PartitionAssumption, PartitionInv, NEW row \in Rows, Partition!Insert(row)
    PROVE  PartitionInv' /\ NoRowLost
  <1> DEFINE q == PartitionOf[row]
             race == \E a \in Archivers : Copies(a) /\ target[a] = q
  <1>1. /\ q \in Partitions
        /\ table' = [table EXCEPT ![q] = @ \union {row}]
        /\ UNCHANGED <<existing, object, stage, target, data>>
    BY DEF Partition!Insert, PartitionAssumption
  <1>2. exposed' = IF race THEN exposed \union {row} ELSE exposed
    BY DEF Partition!Insert, Partition!Copying, Copies
  <1> HIDE DEF q
  <1>3. exposed \subseteq exposed' /\ (race => row \in exposed')
    BY <1>2
  <1>4. /\ PartitionTypes'
        /\ table'[q] = table[q] \union {row}
        /\ \A p \in Partitions : table[p] \subseteq table'[p] /\ (p # q => table'[p] = table[p])
    BY <1>1 DEF PartitionInv, PartitionTypes
  <1>5. \A a \in Archivers : Copies(a) /\ target[a] = q => row \in exposed'
    BY <1>3
  <1> HIDE DEF race
  <1>6. ASSUME NEW a \in Archivers PROVE CopyInv(a)'
    <2>1. CopyInv(a)
      BY DEF PartitionInv
    <2>2. target[a] \in Partitions
      BY DEF PartitionInv, PartitionTypes, Workers
    <2> QED
      BY <1>1, <1>3, <1>4, <1>5, <2>1, <2>2 DEF CopyInv, Copies
  <1>7. ASSUME NEW r \in Restorers PROVE RestoreInv(r)'
    <2>1. RestoreInv(r)
      BY DEF PartitionInv
    <2>2. target[r] \in Partitions
      BY DEF PartitionInv, PartitionTypes, Workers
    <2> QED
      BY <1>1, <1>3, <1>4, <2>1, <2>2 DEF RestoreInv, Restores
  <1>8. ASSUME NEW a \in Archivers, NEW r \in Restorers PROVE RaceInv(a, r)'
    <2>1. RaceInv(a, r)
      BY DEF PartitionInv
    <2>2. target[a] \in Partitions
      BY DEF PartitionInv, PartitionTypes, Workers
    <2> QED
      BY <1>1, <1>3, <1>4, <1>5, <2>1, <2>2 DEF RaceInv, Copies, Restores
  <1>9. ASSUME NEW p \in Partitions PROVE TableInv(p)'
    <2>1. TableInv(p)
      BY DEF PartitionInv
    <2> QED
      BY <1>1, <1>3, <1>4, <2>1 DEF TableInv
  <1>10. NoRowLost
    BY <1>1, <1>4, KeptPointwise DEF PartitionInv
  <1> QED
    BY <1>4, <1>6, <1>7, <1>8, <1>9, <1>10 DEF PartitionInv

\* Every await of a cycle and of a restore, their ends, and the application
\* keep the invariant, and lose no row that was not exposed.
LEMMA PartitionStep ==
    ASSUME PartitionAssumption, PartitionInv, [Partition!Next]_(Partition!partitionVars)
    PROVE  PartitionInv' /\ NoRowLost
  <1>1. CASE UNCHANGED <<existing, table, object, stage, target, data, exposed>>
    <2>1. PartitionTypes'
      BY <1>1 DEF PartitionInv, PartitionTypes
    <2>2. \A p \in Partitions : TableInv(p)'
      BY <1>1 DEF PartitionInv, TableInv
    <2>3. exposed \subseteq exposed' /\ UNCHANGED <<table, object, target>>
          /\ \A w \in Workers : stage'[w] = stage[w] /\ data'[w] = data[w]
      BY <1>1
    <2> QED
      BY <2>1, <2>2, <2>3, LessUnderway DEF PartitionInv
  <1>2. CASE \/ UNCHANGED Partition!partitionVars \/ Partition!NextDay
             \/ \E a \in Archivers : Partition!list_expired_partitions(a)
    BY <1>1, <1>2 DEF Partition!partitionVars, Partition!NextDay, Partition!list_expired_partitions
  <1> QED
    BY <1>2, Ensures, Inserts, CopiesOut, Uploads, Drops, CycleAborts, Downloads, Creates,
       CopiesIn, RestoreAborts DEF Partition!Next

\* At the start nobody copies or restores.
LEMMA PartitionStart ==
    ASSUME PartitionAssumption
    PROVE  Partition!Init => PartitionInv
  <1> SUFFICES ASSUME Partition!Init PROVE PartitionInv
    OBVIOUS
  <1>1. /\ PartitionTypes /\ existing = {}
        /\ \A a \in Archivers : stage[a] = "idle"
        /\ \A r \in Restorers : stage[r] = "idle"
    BY DEF Partition!Init, Partition!Workers, PartitionTypes, PartitionAssumption, Workers
  <1> QED
    BY <1>1 DEF PartitionInv, CopyInv, RestoreInv, RaceInv, TableInv, Copies, Restores

\* A row leaves both PostgreSQL and S3 only by one of the three races, through
\* failures at any await, overlapping cycles and restores.
THEOREM RowsAreKept ==
    ASSUME PartitionAssumption
    PROVE  Partition!Spec => Partition!RowsSurvive
  <1>1. Partition!Init => PartitionInv
    BY PartitionStart
  <1>2. PartitionInv /\ [Partition!Next]_(Partition!partitionVars) => PartitionInv'
    BY PartitionStep
  <1>3. PartitionInv /\ [Partition!Next]_(Partition!partitionVars) =>
           [NoRowLost]_(Partition!partitionVars)
    BY PartitionStep
  <1> HIDE DEF NoRowLost
  <1>4. Partition!Spec => [][NoRowLost]_(Partition!partitionVars)
    BY <1>1, <1>2, <1>3, PTL DEF Partition!Spec
  <1> QED
    BY <1>4 DEF NoRowLost, Partition!RowsSurvive

-----------------------------------------------------------------------------
(* The registries of the kernel.                                           *)

registriesState == <<entered, entries, clock, thread, resolved>>

RegistriesSpec ==
    Registries!RegistriesInit /\ [][Registries!RegistriesNext]_registriesState

\* A reading of the clock is never ahead of it.
Reading(t) ==
    thread[t].op # "none" =>
       thread[t].id \in RegisteredIds /\ thread[t].ttl \in Nat /\ thread[t].now \in 0..clock

RegistriesInv ==
    /\ entered \in [Registries!Kinds -> [RegisteredIds -> Values \union {NoValue}]]
    /\ clock \in Nat
    /\ DOMAIN entries = RegisteredIds /\ DOMAIN thread = Threads /\ DOMAIN resolved = Threads
    /\ \A i \in RegisteredIds : entries[i] # NoValue => entries[i].expires_at \in Nat
    /\ \A t \in Threads : Reading(t)
    /\ \A t \in Threads : resolved[t] # NoValue => resolved[t].entry.expires_at > resolved[t].now

\* What is registered stands in this step.
Stands ==
    /\ \A k \in Registries!Kinds, i \in RegisteredIds :
          entered[k][i] # NoValue /\ entered'[k][i] # entered[k][i] =>
             \A j \in RegisteredIds : entered'[k][j] = NoValue
    /\ \A i \in RegisteredIds :
          entries[i] # NoValue /\ entries'[i] # entries[i] => entries[i].expires_at <= clock

\* A thread that has got the lock replaces or removes only what is over.
LEMMA LockedUses ==
    ASSUME RegistriesInv, NEW t \in Threads, NEW op \in {"register", "resolve", "has", "evict"},
           Registries!Locked(t, op), UNCHANGED <<entered, clock>>, DOMAIN entries' = RegisteredIds,
           \A i \in RegisteredIds : \/ entries'[i] = entries[i]
                          \/ /\ ~Registries!Live(entries[i], thread[t].now)
                             /\ entries'[i] # NoValue => entries'[i].expires_at \in Nat,
           DOMAIN resolved' = Threads,
           \A u \in Threads : \/ resolved'[u] = resolved[u]
                              \/ resolved'[u] # NoValue => resolved'[u].entry.expires_at > resolved'[u].now
    PROVE  RegistriesInv' /\ Stands
  <1>1. thread[t].op # "none" /\ thread[t].now \in 0..clock
    BY DEF Registries!Locked, RegistriesInv, Reading
  <1>2. DOMAIN thread' = Threads /\ \A u \in Threads : Reading(u)'
    BY DEF Registries!Locked, RegistriesInv, Reading
  <1>3. RegistriesInv'
    BY <1>2 DEF RegistriesInv
  <1>4. ASSUME NEW i \in RegisteredIds, entries[i] # NoValue, entries'[i] # entries[i]
        PROVE  entries[i].expires_at <= clock
    <2>1. ~(entries[i].expires_at > thread[t].now) /\ entries[i].expires_at \in Nat
      BY <1>4 DEF Registries!Live, RegistriesInv
    <2> QED
      BY <1>1, <2>1 DEF RegistriesInv
  <1> QED
    BY <1>3, <1>4 DEF Stands

\* Registrations, the threads and the clock keep the invariant.
LEMMA RegistriesStep ==
    ASSUME RegistriesAssumption, RegistriesInv, [Registries!RegistriesNext]_registriesState
    PROVE  RegistriesInv' /\ [Stands]_registriesState
  <1>1. CASE UNCHANGED registriesState
    BY <1>1 DEF registriesState, RegistriesInv, Reading
  <1>2. ASSUME NEW k \in Registries!Kinds, NEW i \in RegisteredIds, NEW v \in Values, Registries!Register(k, i, v)
        PROVE  RegistriesInv' /\ Stands
    BY <1>2 DEF Registries!Register, RegistriesInv, Stands, Reading
  <1>3. ASSUME NEW k \in Registries!Kinds, Registries!Clear(k) PROVE RegistriesInv' /\ Stands
    BY <1>3 DEF Registries!Clear, RegistriesInv, Stands, Reading
  <1>4. ASSUME NEW t \in Threads, NEW op, NEW i \in RegisteredIds, NEW m, NEW ttl \in TTLs,
               Registries!Ask(t, op, i, m, ttl)
        PROVE  RegistriesInv' /\ Stands
    <2> DEFINE asked == [op |-> op, id |-> i, model |-> m, ttl |-> ttl, now |-> clock]
    <2>1. thread' = [thread EXCEPT ![t] = asked] /\ UNCHANGED <<entered, entries, clock, resolved>>
      BY <1>4 DEF Registries!Ask
    <2>2. asked.id \in RegisteredIds /\ asked.ttl \in Nat /\ asked.now \in 0..clock
      <3>1. ttl \in Nat /\ clock \in 0..clock
        BY DEF RegistriesInv, RegistriesAssumption
      <3>2. asked.id = i /\ asked.ttl = ttl /\ asked.now = clock
        OBVIOUS
      <3> QED
        BY <3>1, <3>2, Zenon
    <2> HIDE DEF asked
    <2>3. /\ DOMAIN thread' = Threads
          /\ \A u \in Threads : thread'[u] = IF u = t THEN asked ELSE thread[u]
      BY <2>1 DEF RegistriesInv
    <2>4. \A u \in Threads : Reading(u)'
      BY <2>1, <2>2, <2>3 DEF Reading, RegistriesInv
    <2> QED
      BY <2>1, <2>3, <2>4 DEF RegistriesInv, Stands
  <1>5. ASSUME NEW t \in Threads, Registries!RegisterModel(t) PROVE RegistriesInv' /\ Stands
    <2>1. /\ Registries!Locked(t, "register") /\ UNCHANGED <<entered, clock, resolved>>
          /\ thread[t].id \in RegisteredIds /\ thread[t].now + thread[t].ttl \in Nat
      BY <1>5 DEF Registries!RegisterModel, Registries!Locked, RegistriesInv, Reading
    <2>2. /\ DOMAIN entries' = RegisteredIds
          /\ \A i \in RegisteredIds : \/ entries'[i] = entries[i]
                            \/ /\ ~Registries!Live(entries[i], thread[t].now)
                               /\ entries'[i].expires_at \in Nat
      BY <1>5, <2>1 DEF Registries!RegisterModel, RegistriesInv
    <2>3. DOMAIN resolved' = Threads
      BY <2>1 DEF RegistriesInv
    <2> QED
      BY <2>1, <2>2, <2>3, LockedUses
  <1>6. ASSUME NEW t \in Threads, entries' = Registries!Dropped(thread[t].id, thread[t].now)
        PROVE  /\ DOMAIN entries' = DOMAIN entries
               /\ \A i \in DOMAIN entries : \/ entries'[i] = entries[i]
                                            \/ /\ ~Registries!Live(entries[i], thread[t].now)
                                               /\ entries'[i] = NoValue
    BY <1>6 DEF Registries!Dropped
  <1>7. ASSUME NEW t \in Threads, Registries!Resolve(t) PROVE RegistriesInv' /\ Stands
    <2>1. /\ Registries!Locked(t, "resolve") /\ UNCHANGED <<entered, clock>>
          /\ entries' = Registries!Dropped(thread[t].id, thread[t].now)
      BY <1>7 DEF Registries!Resolve
    <2>2. /\ DOMAIN resolved' = Threads
          /\ \A u \in Threads :
                \/ resolved'[u] = resolved[u]
                \/ resolved'[u] # NoValue => resolved'[u].entry.expires_at > resolved'[u].now
      BY <1>7 DEF Registries!Resolve, Registries!Live, RegistriesInv
    <2>3. DOMAIN entries = RegisteredIds
      BY DEF RegistriesInv
    <2> QED
      BY <1>6, <2>1, <2>2, <2>3, LockedUses
  <1>8. ASSUME NEW t \in Threads, Registries!Has(t) PROVE RegistriesInv' /\ Stands
    <2>1. /\ Registries!Locked(t, "has") /\ UNCHANGED <<entered, clock, resolved>>
          /\ entries' = Registries!Dropped(thread[t].id, thread[t].now)
      BY <1>8 DEF Registries!Has
    <2>2. DOMAIN entries = RegisteredIds /\ DOMAIN resolved' = Threads
      BY <2>1 DEF RegistriesInv
    <2> QED
      BY <1>6, <2>1, <2>2, LockedUses
  <1>9. ASSUME NEW t \in Threads, Registries!EvictStale(t) PROVE RegistriesInv' /\ Stands
    <2>1. /\ Registries!Locked(t, "evict") /\ UNCHANGED <<entered, clock, resolved>>
          /\ DOMAIN entries' = RegisteredIds
          /\ \A i \in RegisteredIds : \/ entries'[i] = entries[i]
                            \/ /\ ~Registries!Live(entries[i], thread[t].now)
                               /\ entries'[i] = NoValue
      BY <1>9 DEF Registries!EvictStale
    <2>2. DOMAIN resolved' = Threads
      BY <2>1 DEF RegistriesInv
    <2> QED
      BY <2>1, <2>2, LockedUses
  <1>10. CASE Registries!Pass
    BY <1>10 DEF Registries!Pass, RegistriesInv, Stands, Reading
  <1>11. CASE Registries!KeyedNext
    BY <1>2, <1>3, <1>11 DEF Registries!KeyedNext
  <1>12. CASE Registries!ICDNext
    BY <1>4, <1>5, <1>7, <1>8, <1>9, <1>10, <1>12 DEF Registries!ICDNext
  <1> QED
    BY <1>1, <1>11, <1>12 DEF Registries!RegistriesNext

\* What is under an id changes only when the registry is cleared or the entry's
\* time is over, also for a thread with an old reading of the clock; and what a
\* thread resolved was live when it asked.
THEOREM RegistrationsAreKept ==
    ASSUME RegistriesAssumption
    PROVE  RegistriesSpec => Registries!RegistrationsStand
  <1> DEFINE WasLive ==
        \A t \in Threads : resolved[t] # NoValue => resolved[t].entry.expires_at > resolved[t].now
  <1>1. Registries!RegistriesInit => RegistriesInv
    BY DEF Registries!RegistriesInit, RegistriesInv, Reading
  <1>2. RegistriesInv /\ [Registries!RegistriesNext]_registriesState => RegistriesInv'
    BY RegistriesStep
  <1>3. RegistriesInv /\ [Registries!RegistriesNext]_registriesState => [Stands]_registriesState
    BY RegistriesStep
  <1>4. RegistriesInv => WasLive
    BY DEF RegistriesInv
  <1> HIDE DEF Stands, WasLive
  <1>5. RegistriesSpec => []WasLive /\ [][Stands]_registriesState
    BY <1>1, <1>2, <1>3, <1>4, PTL DEF RegistriesSpec
  <1> QED
    BY <1>5 DEF Stands, WasLive, Registries!RegistrationsStand, Registries!registryVars, registriesState

-----------------------------------------------------------------------------
(* The architecture registry.                                              *)

archState == <<file, instance, made, document, generation, lock, job, copy>>

ArchSpec == Arch!ArchInit /\ [][Arch!ArchNext]_archState

\* Who is in the critical section holds the lock.
LockInv ==
    \A t \in Threads : job[t].pc \in {"locked", "loaded", "swapped"} <=> lock = t

\* What was loaded is newer than what any instance holds; the file is newest.
DocumentsInv ==
    /\ \A i \in Arch!Instances : document[i] <= file.version
    /\ \A t \in Threads : job[t].pc = "loaded" =>
          /\ job[t].loaded <= file.version
          /\ \A i \in Arch!Instances : document[i] <= job[t].loaded
    /\ \A t \in Threads : job[t].pc = "swapped" =>
          instance # 0 /\ generation[instance] < MaxGeneration

\* A copy is of an instance that was made, with a generation it has had; if it
\* still has it, the documents agree, but for the instance being reloaded.
CopyOfInv(r) ==
    LET c == copy[r] IN
    /\ c.of <= made
    /\ c.of = 0 => c.document = 0
    /\ c.of # 0 => c.generation <= generation[c.of]
    /\ c.document # 0 /\ c.generation = generation[c.of] =>
          \/ c.document = document[c.of]
          \/ c.of = instance /\ \E t \in Threads : job[t].pc = "swapped"

ArchInv ==
    /\ Arch!ArchTypeOK /\ LockInv /\ DocumentsInv
    /\ \A r \in Readers : CopyOfInv(r)

\* No document gets older.
NewerDocuments == \A i \in Arch!Instances : document'[i] >= document[i]

\* A record of the type of the jobs.
JobRecords == [call : {"none", "get", "reload", "reset"}, pc : {"idle", "waiting", "locked", "loaded", "swapped"},
          loaded : 0 .. MaxVersion]

\* A thread goes on outside its critical section, or into it, or leaves it
\* without a change to an instance.
LEMMA JobMoves ==
    ASSUME ArchAssumption, ArchInv, NEW t \in Threads, NEW j \in JobRecords,
           job' = [job EXCEPT ![t] = j],
           UNCHANGED <<file, made, document, generation, copy>>,
           job[t].pc # "swapped", j.pc # "swapped",
           \/ /\ job[t].pc \in {"idle", "waiting"} /\ j.pc \in {"idle", "waiting"}
              /\ UNCHANGED <<lock, instance>>
           \/ lock = NoThread /\ lock' = t /\ j.pc = "locked" /\ UNCHANGED instance
           \/ job[t].pc = "locked" /\ lock' = NoThread /\ j.pc = "idle" /\ instance' \in {instance, 0}
           \/ /\ job[t].pc = "locked" /\ j.pc = "loaded" /\ j.loaded = file.version
              /\ UNCHANGED <<lock, instance>>
    PROVE  ArchInv' /\ NewerDocuments
  <1>1. job[t].pc \in {"locked", "loaded", "swapped"} <=> lock = t
    BY DEF ArchInv, LockInv
  <1>2. \A u \in Threads : job'[u] = IF u = t THEN j ELSE job[u]
    BY DEF ArchInv, Arch!ArchTypeOK
  <1>3. Arch!ArchTypeOK'
    <2>1. job' \in [Threads -> JobRecords]
      BY DEF ArchInv, Arch!ArchTypeOK, JobRecords
    <2>2. lock' \in Threads \union {NoThread} /\ instance' \in 0..made
      BY DEF ArchInv, Arch!ArchTypeOK
    <2> QED
      BY <2>1, <2>2 DEF ArchInv, Arch!ArchTypeOK, JobRecords, Arch!Instances
  <1>4. LockInv'
    BY <1>1, <1>2 DEF ArchInv, LockInv, ArchAssumption
  <1>5. DocumentsInv'
    <2>1. \A i \in Arch!Instances : document[i] <= file.version
      BY DEF ArchInv, DocumentsInv
    <2>2. \A u \in Threads : job'[u].pc = "swapped" =>
             instance' # 0 /\ generation'[instance'] < MaxGeneration
      BY <1>1, <1>2 DEF ArchInv, LockInv, DocumentsInv
    <2>3. file.version <= file.version
      BY DEF ArchInv, Arch!ArchTypeOK
    <2> QED
      BY <1>2, <2>1, <2>2, <2>3 DEF ArchInv, DocumentsInv
  <1>6. ASSUME NEW r \in Readers PROVE CopyOfInv(r)'
    <2>1. CopyOfInv(r)
      BY DEF ArchInv
    <2>2. \A u \in Threads : job[u].pc = "swapped" <=> job'[u].pc = "swapped"
      BY <1>2
    <2>3. (\E u \in Threads : job[u].pc = "swapped") => UNCHANGED instance
      BY <1>1 DEF ArchInv, LockInv, ArchAssumption
    <2> QED
      BY <2>1, <2>2, <2>3 DEF CopyOfInv
  <1>7. NewerDocuments
    BY DEF NewerDocuments, ArchInv, Arch!ArchTypeOK
  <1> QED
    BY <1>3, <1>4, <1>5, <1>6, <1>7 DEF ArchInv

\* The actions of that kind.
LEMMA JobSteps ==
    ASSUME ArchAssumption, ArchInv, NEW t \in Threads,
           \/ Arch!get(t) \/ Arch!Begin(t, "reload") \/ Arch!Begin(t, "reset") \/ Arch!Lock(t)
           \/ Arch!AlreadyLoaded(t) \/ Arch!reset(t) \/ Arch!Load(t) \/ Arch!LoadFails(t)
    PROVE  ArchInv' /\ NewerDocuments
  <1>1. job[t] \in JobRecords /\ DOMAIN job = Threads /\ file.version \in 0..MaxVersion
    BY DEF ArchInv, Arch!ArchTypeOK, JobRecords
  <1>2. Arch!NoJob \in JobRecords /\ Arch!NoJob.pc = "idle"
    BY DEF Arch!NoJob, JobRecords, ArchAssumption
  <1>3. ASSUME NEW c \in {"get", "reload", "reset"}
        PROVE  /\ [Arch!NoJob EXCEPT !.call = c, !.pc = "waiting"] \in JobRecords
               /\ [Arch!NoJob EXCEPT !.call = c, !.pc = "waiting"].pc = "waiting"
    BY <1>2 DEF JobRecords
  <1>4. CASE Arch!get(t) \/ Arch!Begin(t, "reload") \/ Arch!Begin(t, "reset")
    <2>1. PICK c \in {"get", "reload", "reset"} :
             /\ job[t].pc = "idle"
             /\ job' = [job EXCEPT ![t] = [Arch!NoJob EXCEPT !.call = c, !.pc = "waiting"]]
             /\ UNCHANGED <<file, instance, made, document, generation, lock, copy>>
      BY <1>4 DEF Arch!get, Arch!Begin
    <2> DEFINE j == [Arch!NoJob EXCEPT !.call = c, !.pc = "waiting"]
    <2>2. j \in JobRecords /\ j.pc = "waiting" /\ job' = [job EXCEPT ![t] = j]
      BY <1>3, <2>1
    <2> HIDE DEF j
    <2> QED
      BY <2>1, <2>2, JobMoves
  <1>5. CASE Arch!Lock(t)
    <2> DEFINE j == [job[t] EXCEPT !.pc = "locked"]
    <2>1. /\ j \in JobRecords /\ j.pc = "locked" /\ job' = [job EXCEPT ![t] = j]
          /\ job[t].pc = "waiting" /\ lock = NoThread /\ lock' = t
          /\ UNCHANGED <<file, instance, made, document, generation, copy>>
      BY <1>1, <1>5 DEF Arch!Lock, Arch!To, JobRecords
    <2> HIDE DEF j
    <2> QED
      BY <2>1, JobMoves
  <1>6. CASE Arch!AlreadyLoaded(t) \/ Arch!reset(t) \/ Arch!LoadFails(t)
    <2>1. /\ job[t].pc = "locked" /\ lock' = NoThread /\ instance' \in {instance, 0}
          /\ job' = [job EXCEPT ![t] = Arch!NoJob]
          /\ UNCHANGED <<file, made, document, generation, copy>>
      BY <1>6 DEF Arch!AlreadyLoaded, Arch!reset, Arch!LoadFails, Arch!MustLoad, Arch!Return
    <2> QED
      BY <1>2, <2>1, JobMoves
  <1>7. CASE Arch!Load(t)
    <2> DEFINE j == [job[t] EXCEPT !.pc = "loaded", !.loaded = file.version]
    <2>1. /\ j \in JobRecords /\ j.pc = "loaded" /\ j.loaded = file.version
          /\ job' = [job EXCEPT ![t] = j] /\ job[t].pc = "locked"
          /\ UNCHANGED <<file, instance, made, document, generation, lock, copy>>
      BY <1>1, <1>7 DEF Arch!Load, Arch!MustLoad, JobRecords
    <2> HIDE DEF j
    <2> QED
      BY <2>1, JobMoves
  <1> QED
    BY <1>4, <1>5, <1>6, <1>7

\* A new instance is in no copy yet.
LEMMA Installs ==
    ASSUME ArchAssumption, ArchInv, NEW t \in Threads, Arch!Install(t)
    PROVE  ArchInv' /\ NewerDocuments
  <1> DEFINE n == made + 1
  <1>1. /\ job[t].pc = "loaded" /\ lock = t /\ lock' = NoThread
        /\ n \in Arch!Instances /\ made < n /\ made' = n /\ instance' = n
        /\ document' = [document EXCEPT ![n] = job[t].loaded]
        /\ generation' = [generation EXCEPT ![n] = 1]
        /\ job' = [job EXCEPT ![t] = Arch!NoJob]
        /\ UNCHANGED <<file, copy>>
    BY DEF Arch!Install, Arch!Return, ArchInv, LockInv, Arch!ArchTypeOK, Arch!Instances, ArchAssumption
  <1>2. /\ job[t].loaded \in 0..MaxVersion /\ job[t].loaded <= file.version
        /\ \A i \in Arch!Instances : document[i] <= job[t].loaded
    BY <1>1 DEF ArchInv, DocumentsInv, Arch!ArchTypeOK
  <1>3. /\ \A i \in Arch!Instances : document'[i] = IF i = n THEN job[t].loaded ELSE document[i]
        /\ \A i \in Arch!Instances : i # n => generation'[i] = generation[i]
        /\ \A u \in Threads : u # t => job'[u] = job[u]
        /\ job'[t].pc = "idle"
    BY <1>1 DEF ArchInv, Arch!ArchTypeOK, Arch!NoJob
  <1> HIDE DEF n
  <1>4. Arch!ArchTypeOK'
    <2>1. /\ document' \in [Arch!Instances -> 0 .. MaxVersion]
          /\ generation' \in [Arch!Instances -> 0 .. MaxGeneration]
      BY <1>1, <1>2 DEF ArchInv, Arch!ArchTypeOK, ArchAssumption
    <2>2. job' \in [Threads -> JobRecords]
      <3>1. Arch!NoJob \in JobRecords
        BY DEF Arch!NoJob, JobRecords, ArchAssumption
      <3> QED
        BY <1>1, <3>1 DEF ArchInv, Arch!ArchTypeOK, JobRecords
    <2>3. made' \in 0..MaxInstances /\ instance' \in 0..made'
      BY <1>1 DEF Arch!Instances, ArchAssumption
    <2> QED
      BY <1>1, <2>1, <2>2, <2>3 DEF ArchInv, Arch!ArchTypeOK, JobRecords, Arch!Instances
  <1>5. \A u \in Threads : job'[u].pc \notin {"locked", "loaded", "swapped"}
    BY <1>1, <1>3 DEF ArchInv, LockInv, ArchAssumption
  <1>6. LockInv'
    BY <1>1, <1>5 DEF LockInv, ArchAssumption
  <1>7. DocumentsInv'
    BY <1>1, <1>2, <1>3, <1>5 DEF ArchInv, DocumentsInv
  <1>8. ASSUME NEW r \in Readers PROVE CopyOfInv(r)'
    <2>1. CopyOfInv(r) /\ copy[r].of \in 0..MaxInstances
      BY DEF ArchInv, Arch!ArchTypeOK
    <2>2. ~\E u \in Threads : job[u].pc = "swapped"
      BY <1>1 DEF ArchInv, LockInv
    <2>3. copy[r].of # n /\ (copy[r].of # 0 => copy[r].of \in Arch!Instances)
      BY SMTT(30), <1>1, <2>1 DEF CopyOfInv, Arch!Instances, ArchInv, Arch!ArchTypeOK, ArchAssumption
    <2>4. copy[r].of <= made'
      BY SMTT(20), <1>1, <2>1 DEF CopyOfInv, ArchInv, Arch!ArchTypeOK, Arch!Instances, ArchAssumption
    <2> QED
      BY <1>1, <1>3, <2>1, <2>2, <2>3, <2>4 DEF CopyOfInv
  <1>9. NewerDocuments
    BY <1>2, <1>3 DEF NewerDocuments, ArchInv, Arch!ArchTypeOK
  <1> QED
    BY <1>4, <1>6, <1>7, <1>8, <1>9 DEF ArchInv

\* reload() replaces the document first.
LEMMA Swaps ==
    ASSUME ArchAssumption, ArchInv, NEW t \in Threads, Arch!Swap(t)
    PROVE  ArchInv' /\ NewerDocuments
  <1> DEFINE j == [job[t] EXCEPT !.pc = "swapped"]
  <1>1. job[t] \in JobRecords /\ DOMAIN job = Threads
    BY DEF ArchInv, Arch!ArchTypeOK, JobRecords
  <1>2. /\ job[t].pc = "loaded" /\ instance # 0
        /\ document' = [document EXCEPT ![instance] = job[t].loaded]
        /\ generation[instance] < MaxGeneration
        /\ j \in JobRecords /\ j.pc = "swapped" /\ job' = [job EXCEPT ![t] = j]
        /\ UNCHANGED <<file, instance, made, generation, lock, copy>>
    BY <1>1 DEF Arch!Swap, Arch!Assign, Arch!To, JobRecords
  <1>3. lock = t /\ instance \in Arch!Instances
    BY <1>2 DEF ArchInv, LockInv, Arch!ArchTypeOK, Arch!Instances, ArchAssumption
  <1> HIDE DEF j
  <1>4. /\ job[t].loaded \in 0..MaxVersion /\ job[t].loaded <= file.version
        /\ \A i \in Arch!Instances : document[i] <= job[t].loaded
    BY <1>2, <1>3 DEF ArchInv, DocumentsInv, Arch!ArchTypeOK
  <1>5. /\ \A i \in Arch!Instances : document'[i] = IF i = instance THEN job[t].loaded ELSE document[i]
        /\ \A u \in Threads : u # t => job'[u] = job[u]
        /\ job'[t].pc = "swapped"
    BY <1>2, <1>3 DEF ArchInv, Arch!ArchTypeOK
  <1>6. Arch!ArchTypeOK'
    <2>1. document' \in [Arch!Instances -> 0 .. MaxVersion]
      BY <1>2, <1>3, <1>4 DEF ArchInv, Arch!ArchTypeOK
    <2>2. job' \in [Threads -> JobRecords]
      BY <1>2, <1>3 DEF ArchInv, Arch!ArchTypeOK, JobRecords
    <2> QED
      BY <1>2, <1>3, <2>1, <2>2 DEF ArchInv, Arch!ArchTypeOK, JobRecords, Arch!Instances
  <1>7. LockInv'
    BY <1>2, <1>3, <1>5 DEF ArchInv, LockInv
  <1>8. DocumentsInv'
    <2>1. \A u \in Threads : job'[u].pc # "loaded"
      BY <1>2, <1>3, <1>5 DEF ArchInv, LockInv
    <2> QED
      BY <1>2, <1>3, <1>4, <1>5, <2>1 DEF ArchInv, DocumentsInv
  <1>9. ASSUME NEW r \in Readers PROVE CopyOfInv(r)'
    <2>1. CopyOfInv(r) /\ copy[r].of \in 0..MaxInstances
      BY DEF ArchInv, Arch!ArchTypeOK
    <2>2. copy[r].of # 0 => copy[r].of \in Arch!Instances
      BY <2>1 DEF Arch!Instances, ArchAssumption
    <2> QED
      BY <1>2, <1>3, <1>5, <2>1, <2>2 DEF CopyOfInv
  <1>10. NewerDocuments
    BY <1>4, <1>5 DEF NewerDocuments, ArchInv, Arch!ArchTypeOK
  <1> QED
    BY <1>6, <1>7, <1>8, <1>9, <1>10 DEF ArchInv

\* And then it counts: every copy of the instance is of an older generation.
LEMMA Counts ==
    ASSUME ArchAssumption, ArchInv, NEW t \in Threads, Arch!Count(t)
    PROVE  ArchInv' /\ NewerDocuments
  <1>1. /\ job[t].pc = "swapped" /\ lock = t /\ lock' = NoThread
        /\ instance \in Arch!Instances /\ generation[instance] < MaxGeneration
        /\ generation' = [generation EXCEPT ![instance] = @ + 1]
        /\ job' = [job EXCEPT ![t] = Arch!NoJob]
        /\ UNCHANGED <<file, instance, made, document, copy>>
    BY DEF Arch!Count, Arch!Assign, Arch!Return, ArchInv, LockInv, DocumentsInv, Arch!ArchTypeOK,
       Arch!Instances, ArchAssumption
  <1>2. /\ generation[instance] \in 0..MaxGeneration /\ generation[instance] < MaxGeneration
        /\ generation'[instance] = generation[instance] + 1
        /\ \A i \in Arch!Instances : i # instance => generation'[i] = generation[i]
        /\ \A u \in Threads : u # t => job'[u] = job[u]
        /\ job'[t].pc = "idle"
    BY <1>1 DEF ArchInv, Arch!ArchTypeOK, Arch!NoJob
  <1>3. Arch!ArchTypeOK'
    <2>1. generation' \in [Arch!Instances -> 0 .. MaxGeneration]
      BY <1>1, <1>2 DEF ArchInv, Arch!ArchTypeOK, ArchAssumption
    <2>2. job' \in [Threads -> JobRecords]
      <3>1. Arch!NoJob \in JobRecords
        BY DEF Arch!NoJob, JobRecords, ArchAssumption
      <3> QED
        BY <1>1, <3>1 DEF ArchInv, Arch!ArchTypeOK, JobRecords
    <2> QED
      BY <1>1, <2>1, <2>2 DEF ArchInv, Arch!ArchTypeOK, JobRecords, Arch!Instances
  <1>4. \A u \in Threads : job'[u].pc \notin {"locked", "loaded", "swapped"}
    BY <1>1, <1>2 DEF ArchInv, LockInv
  <1>5. LockInv' /\ DocumentsInv'
    BY <1>1, <1>4 DEF ArchInv, LockInv, DocumentsInv, ArchAssumption
  <1>6. ASSUME NEW r \in Readers PROVE CopyOfInv(r)'
    <2>1. /\ CopyOfInv(r) /\ copy[r].of \in 0..MaxInstances
          /\ copy[r].generation \in 0..MaxGeneration
      BY DEF ArchInv, Arch!ArchTypeOK
    <2>2. copy[r].of # 0 => copy[r].of \in Arch!Instances
      BY <2>1 DEF Arch!Instances, ArchAssumption
    <2>3. CASE copy[r].of = instance
      <3>1. copy[r].generation <= generation[instance] /\ copy[r].of # 0
        BY <1>1, <2>1, <2>3 DEF CopyOfInv, Arch!Instances
      <3>2. copy[r].generation # generation'[instance] /\ copy[r].generation <= generation'[instance]
        BY <1>2, <2>1, <3>1 DEF ArchAssumption
      <3> QED
        BY <1>1, <2>1, <2>3, <3>1, <3>2 DEF CopyOfInv
    <2>4. CASE copy[r].of # instance
      BY <1>1, <1>2, <2>1, <2>2, <2>4 DEF CopyOfInv
    <2> QED
      BY <2>3, <2>4
  <1>7. NewerDocuments
    BY <1>1 DEF NewerDocuments, ArchInv, Arch!ArchTypeOK
  <1> QED
    BY <1>3, <1>5, <1>6, <1>7 DEF ArchInv

\* The file is edited, or a reader copies a generation or a document.
LEMMA ReadersAndEdits ==
    ASSUME ArchAssumption, ArchInv,
           Arch!Edit \/ \E r \in Readers : Arch!CopyGeneration(r) \/ Arch!CopyDocument(r)
    PROVE  ArchInv' /\ NewerDocuments
  <1>1. CASE Arch!Edit
    <2>1. /\ file'.version = file.version + 1 /\ file' \in [version : 1 .. MaxVersion, valid : BOOLEAN]
          /\ UNCHANGED <<instance, made, document, generation, lock, job, copy>>
      BY <1>1 DEF Arch!Edit, ArchInv, Arch!ArchTypeOK, ArchAssumption
    <2>2. Arch!ArchTypeOK'
      BY <2>1 DEF ArchInv, Arch!ArchTypeOK, Arch!Instances
    <2>3. LockInv' /\ \A r \in Readers : CopyOfInv(r)'
      BY <2>1 DEF ArchInv, LockInv, CopyOfInv
    <2>4. DocumentsInv'
      <3>1. /\ \A i \in Arch!Instances : document[i] \in 0..MaxVersion
            /\ \A t \in Threads : job[t].loaded \in 0..MaxVersion
            /\ file.version \in 0..MaxVersion
        BY DEF ArchInv, Arch!ArchTypeOK
      <3> QED
        BY <2>1, <3>1 DEF ArchInv, DocumentsInv, ArchAssumption
    <2>5. NewerDocuments
      BY <2>1 DEF NewerDocuments, ArchInv, Arch!ArchTypeOK
    <2> QED
      BY <2>2, <2>3, <2>4, <2>5 DEF ArchInv
  <1>2. ASSUME NEW r \in Readers, Arch!CopyGeneration(r) \/ Arch!CopyDocument(r)
        PROVE  ArchInv' /\ NewerDocuments
    <2> DEFINE CopyRecords == [of : 0 .. MaxInstances, generation : 0 .. MaxGeneration, document : 0 .. MaxVersion]
    <2>1. UNCHANGED <<file, instance, made, document, generation, lock, job>>
      BY <1>2 DEF Arch!CopyGeneration, Arch!CopyDocument
    <2>2. copy[r] \in CopyRecords /\ DOMAIN copy = Readers /\ CopyOfInv(r)
      BY DEF ArchInv, Arch!ArchTypeOK
    <2>3. PICK c : /\ copy' = [copy EXCEPT ![r] = c]
                   /\ \/ /\ instance # 0
                         /\ c = [of |-> instance, generation |-> generation[instance], document |-> 0]
                      \/ /\ copy[r].of # 0
                         /\ c = [copy[r] EXCEPT !.document = document[copy[r].of]]
      BY <1>2, <2>2 DEF Arch!CopyGeneration, Arch!CopyDocument
    <2>4. /\ c \in CopyRecords
          /\ c.of # 0 /\ c.of <= made /\ c.generation <= generation[c.of]
          /\ c.document = 0 \/ c.document = document[c.of]
      <3>1. /\ instance \in 0..made /\ made \in 0..MaxInstances
            /\ \A i \in 1..MaxInstances : document[i] \in 0..MaxVersion /\ generation[i] \in 0..MaxGeneration
        BY DEF ArchInv, Arch!ArchTypeOK, Arch!Instances
      <3>2. CASE /\ instance # 0
                 /\ c = [of |-> instance, generation |-> generation[instance], document |-> 0]
        <4>1. instance \in 1..MaxInstances /\ instance <= made /\ instance \in 0..MaxInstances
          BY <3>1, <3>2 DEF ArchAssumption
        <4>2. c.of = instance /\ c.generation = generation[instance] /\ c.document = 0
          BY <3>2
        <4>3. generation[instance] \in 0..MaxGeneration /\ 0 \in 0..MaxVersion
          BY <3>1, <4>1 DEF ArchAssumption
        <4>4. c \in CopyRecords
          BY <3>2, <4>1, <4>3
        <4>5. generation[instance] <= generation[instance]
          BY <4>3
        <4> QED
          BY <3>2, <4>1, <4>2, <4>4, <4>5
      <3>3. CASE /\ copy[r].of # 0
                 /\ c = [copy[r] EXCEPT !.document = document[copy[r].of]]
        <4>1. copy[r].of \in 1..MaxInstances
          BY <2>2, <3>3 DEF ArchAssumption
        <4>2. document[copy[r].of] \in 0..MaxVersion
          BY <3>1, <4>1
        <4>3. c \in CopyRecords
          BY <2>2, <3>3, <4>2
        <4>4. c.of = copy[r].of /\ c.generation = copy[r].generation /\ c.document = document[copy[r].of]
          BY <2>2, <3>3
        <4> QED
          BY <2>2, <3>3, <4>3, <4>4 DEF CopyOfInv
      <3> QED
        BY <2>3, <3>2, <3>3
    <2>5. /\ copy' \in [Readers -> CopyRecords]
          /\ \A q \in Readers : copy'[q] = IF q = r THEN c ELSE copy[q]
      BY <2>3, <2>4 DEF ArchInv, Arch!ArchTypeOK
    <2>6. Arch!ArchTypeOK'
      BY <2>1, <2>5 DEF ArchInv, Arch!ArchTypeOK, Arch!Instances
    <2>7. LockInv' /\ DocumentsInv'
      BY <2>1 DEF ArchInv, LockInv, DocumentsInv, Arch!Instances
    <2>8. ASSUME NEW q \in Readers PROVE CopyOfInv(q)'
      BY <2>1, <2>4, <2>5 DEF ArchInv, CopyOfInv
    <2>9. NewerDocuments
      BY <2>1 DEF NewerDocuments, ArchInv, Arch!ArchTypeOK
    <2> QED
      BY <2>6, <2>7, <2>8, <2>9 DEF ArchInv
  <1> QED
    BY <1>1, <1>2

\* Every step keeps the invariant and makes no document older.
LEMMA ArchStep ==
    ASSUME ArchAssumption, ArchInv, [Arch!ArchNext]_archState
    PROVE  ArchInv' /\ [NewerDocuments]_archState
  <1>1. CASE UNCHANGED archState
    BY <1>1 DEF archState, ArchInv, Arch!ArchTypeOK, LockInv, DocumentsInv, CopyOfInv, Arch!Instances
  <1>2. CASE Arch!ArchNext
    BY <1>2, JobSteps, Installs, Swaps, Counts, ReadersAndEdits DEF Arch!ArchNext
  <1> QED
    BY <1>1, <1>2

\* At the start there is no instance to be stale.
LEMMA ArchStart ==
    ASSUME ArchAssumption
    PROVE  Arch!ArchInit => ArchInv
  <1> SUFFICES ASSUME Arch!ArchInit PROVE ArchInv
    OBVIOUS
  <1>1. Arch!NoJob \in JobRecords /\ Arch!NoJob.pc = "idle"
    BY DEF Arch!NoJob, JobRecords, ArchAssumption
  <1>2. \A t \in Threads : job[t].pc = "idle"
    BY <1>1 DEF Arch!ArchInit
  <1>3. Arch!ArchTypeOK
    <2>1. job \in [Threads -> JobRecords]
      BY <1>1 DEF Arch!ArchInit
    <2>2. copy \in [Readers -> [of : 0 .. MaxInstances, generation : 0 .. MaxGeneration, document : 0 .. MaxVersion]]
      BY DEF Arch!ArchInit, ArchAssumption
    <2> QED
      BY <2>1, <2>2 DEF Arch!ArchInit, Arch!ArchTypeOK, ArchAssumption, JobRecords
  <1>4. LockInv /\ DocumentsInv
    BY <1>2 DEF Arch!ArchInit, LockInv, DocumentsInv, ArchAssumption
  <1>5. \A r \in Readers : CopyOfInv(r)
    BY DEF Arch!ArchInit, CopyOfInv
  <1> QED
    BY <1>3, <1>4, <1>5 DEF ArchInv

\* A reader whose generation is still that of its instance holds the document
\* of that instance, unless a reload is between its two assignments; and no
\* reload puts an older version of the file over a newer one.
THEOREM StaleCopiesShow ==
    ASSUME ArchAssumption
    PROVE  ArchSpec => Arch!StalenessShows
  <1> DEFINE Shows ==
        \A r \in Readers :
           LET c == copy[r] IN
           /\ c.document # 0 /\ c.generation = generation[c.of]
           /\ ~\E t \in Threads : job[t].pc = "swapped"
           => c.document = document[c.of]
  <1>1. Arch!ArchInit => ArchInv
    BY ArchStart
  <1>2. ArchInv /\ [Arch!ArchNext]_archState => ArchInv'
    BY ArchStep
  <1>3. ArchInv /\ [Arch!ArchNext]_archState => [NewerDocuments]_archState
    BY ArchStep
  <1>4. ArchInv => Shows
    BY DEF ArchInv, CopyOfInv
  <1> HIDE DEF NewerDocuments, Shows
  <1>5. ArchSpec => []Shows /\ [][NewerDocuments]_archState
    BY <1>1, <1>2, <1>3, <1>4, PTL DEF ArchSpec
  <1> QED
    BY <1>5 DEF Shows, NewerDocuments, Arch!StalenessShows, Arch!archVars, archState

-----------------------------------------------------------------------------
(* The writes through the pool of PostgreSQL.                              *)

PostgresSpec ==
    Postgres!PostgresInit /\ [][Postgres!PostgresNext]_(Postgres!postgresVars)

\* The calls that have a connection.
Connected == {c \in Clients : Postgres!Held(c)}

\* How far a call has got tells what it has done: only a call that is over has
\* an outcome, only one that sleeps or is over can have made all its attempts,
\* and a call that wrote a row finds one there.
RequestInv(c) ==
    /\ request[c].pc # "idle" => request[c].kind \in RowOperations /\ request[c].key \in RowKeys
    /\ request[c].pc # "done" => request[c].commits = 0 /\ request[c].result = "none"
    /\ request[c].pc \in {"idle", "called"} => request[c].attempts = 0
    /\ request[c].pc = "executing" => request[c].attempts < MaxAttempts
    /\ request[c].pc = "sleeping" => Postgres!Retried(c)
    /\ request[c].commits = 1 /\ request[c].kind # "audit_append" => Postgres!Row(c) # NoCall
    /\ request[c].result = "returned" /\ Postgres!Retried(c) /\ request[c].kind # "goal_update" =>
          request[c].commits = 1
    /\ request[c].attempts = MaxAttempts /\ request[c].pc = "done" =>
          request[c].commits = 0 /\ request[c].result = "raised"
    /\ request[c].result = "conflict" =>
          request[c].commits = 0 /\ request[c].kind = "memory_insert" /\ Postgres!Row(c) # NoCall

\* An insert that wrote its row is the only one of its key.
InsertsInv ==
    \A c, d \in Clients :
       /\ request[c].kind = request[d].kind /\ request[c].kind \in {"goal_insert", "memory_insert"}
       /\ request[c].key = request[d].key /\ request[c].commits = 1 /\ request[d].commits = 1
       => c = d

PostgresInv ==
    /\ Postgres!PostgresTypeOK
    /\ IsFiniteSet(Connected) /\ Cardinality(Connected) <= PoolSize
    /\ \A c \in Clients : RequestInv(c)
    /\ InsertsInv

\* What each statement does, read off its table's row: an insert writes where
\* there was none, and a conflict is with a row that is there.
LEMMA Statements ==
    ASSUME PostgresAssumption, NEW c \in Clients, request[c].kind \in RowOperations
    PROVE  /\ Postgres!Statement(c).writes \in BOOLEAN
           /\ Postgres!Statement(c).result \in {"returned", "conflict", "raised"}
           /\ Postgres!Statement(c).result = "returned" /\ request[c].kind # "goal_update" =>
                 Postgres!Statement(c).writes
           /\ Postgres!Statement(c).result = "conflict" =>
                 /\ ~Postgres!Statement(c).writes
                 /\ request[c].kind = "memory_insert"
                 /\ Postgres!Row(c) # NoCall
           /\ request[c].kind \in {"goal_insert", "memory_insert"} /\ Postgres!Statement(c).writes =>
                 Postgres!Row(c) = NoCall
  <1> DEFINE k == request[c].kind
  <1> USE DEF Postgres!Outcome
  <1>1. CASE k = "goal_insert"
    <2>1. Postgres!Statement(c) = Postgres!GoalInsert(c)
      BY <1>1, Zenon DEF Postgres!Statement, Postgres!Kind
    <2> QED
      BY <1>1, <2>1 DEF Postgres!GoalInsert
  <1>2. CASE k = "goal_update"
    <2>1. Postgres!Statement(c) = Postgres!GoalUpdate(c)
      BY <1>2, Zenon DEF Postgres!Statement, Postgres!Kind
    <2> QED
      BY <1>2, <2>1 DEF Postgres!GoalUpdate
  <1>3. CASE k = "audit_append"
    <2>1. Postgres!Statement(c) = Postgres!AuditAppend(c)
      BY <1>3, Zenon DEF Postgres!Statement, Postgres!Kind
    <2> QED
      BY <1>3, <2>1 DEF Postgres!AuditAppend
  <1>4. CASE k = "checkpoint_upsert"
    <2>1. Postgres!Statement(c) = Postgres!CheckpointUpsert(c)
      BY <1>4, Zenon DEF Postgres!Statement, Postgres!Kind
    <2> QED
      BY <1>4, <2>1 DEF Postgres!CheckpointUpsert
  <1>5. CASE k = "task_upsert"
    <2>1. Postgres!Statement(c) = Postgres!TaskUpsert(c)
      BY <1>5, Zenon DEF Postgres!Statement, Postgres!Kind
    <2> QED
      BY <1>5, <2>1 DEF Postgres!TaskUpsert
  <1>6. CASE k = "memory_insert"
    <2>1. Postgres!Statement(c) = Postgres!MemoryInsert(c)
      BY <1>6, Zenon DEF Postgres!Statement, Postgres!Kind
    <2> QED
      BY <1>6, <2>1 DEF Postgres!MemoryInsert
  <1> QED
    BY <1>1, <1>2, <1>3, <1>4, <1>5, <1>6 DEF PostgresAssumption
Requests == [kind : RowOperations \union {"none"}, key : RowKeys \union {NoCall},
             pc : {"idle", "called", "executing", "sleeping", "done"}, attempts : 0 .. MaxAttempts,
             commits : 0 .. 1, result : {"none", "returned", "conflict", "raised"}]

\* What a statement leaves of the tables: no row goes.
RowsStay ==
    /\ written' \in [Postgres!Tables -> [RowKeys -> Clients \union {NoCall}]]
    /\ \A t \in Postgres!Tables, k \in RowKeys : written[t][k] # NoCall => written'[t][k] # NoCall

\* An insert of this kind and key has been written, by another call.
Inserted(c, r) ==
    \E d \in Clients \ {c} : /\ request[d].commits = 1 /\ request[d].key = r.key
                             /\ request[d].kind = r.kind /\ r.kind \in {"goal_insert", "memory_insert"}

\* Every kind but the audit's has its table.
LEMMA KindsHaveTables ==
    ASSUME PostgresAssumption, NEW k \in RowOperations, k # "audit_append"
    PROVE  Postgres!Table[k] \in Postgres!Tables
  BY DEF PostgresAssumption, Postgres!Table, Postgres!Tables

\* One call moves: what holds of the others still does.
LEMMA OneMoves ==
    ASSUME PostgresAssumption, PostgresInv, NEW c \in Clients, NEW r \in Requests,
           request' = [request EXCEPT ![c] = r], appended' \subseteq Clients, RowsStay, RequestInv(c)',
           r.pc \in {"executing", "sleeping"} => c \in Connected \/ Cardinality(Connected) < PoolSize,
           r.commits = 1 => ~Inserted(c, r)
    PROVE  PostgresInv'
  <1>1. /\ request \in [Clients -> Requests] /\ request' \in [Clients -> Requests]
        /\ request'[c] = r
        /\ \A d \in Clients : d # c => request'[d] = request[d]
    BY DEF PostgresInv, Postgres!PostgresTypeOK, Requests
  <1>2. Postgres!PostgresTypeOK'
    BY <1>1 DEF RowsStay, Postgres!PostgresTypeOK, Requests
  <1>3. IsFiniteSet(Connected') /\ Cardinality(Connected') <= PoolSize
    <2>1. IsFiniteSet(Connected) /\ Cardinality(Connected) \in Nat /\ Cardinality(Connected) <= PoolSize
      BY FS_CardinalityType DEF PostgresInv
    <2>2. CASE r.pc \in {"executing", "sleeping"}
      <3>1. Connected' = Connected \union {c}
        BY <1>1, <2>2 DEF Connected, Postgres!Held
      <3>2. /\ IsFiniteSet(Connected \union {c})
            /\ Cardinality(Connected \union {c}) = IF c \in Connected THEN Cardinality(Connected)
                                                                    ELSE Cardinality(Connected) + 1
        BY <2>1, FS_AddElement
      <3>3. c \in Connected \/ Cardinality(Connected) < PoolSize
        BY <2>2
      <3> QED
        BY <2>1, <3>1, <3>2, <3>3 DEF PostgresAssumption
    <2>3. CASE r.pc \notin {"executing", "sleeping"}
      <3>1. Connected' = Connected \ {c}
        BY <1>1, <2>3 DEF Connected, Postgres!Held
      <3>2. /\ IsFiniteSet(Connected \ {c})
            /\ Cardinality(Connected \ {c}) = IF c \in Connected THEN Cardinality(Connected) - 1
                                                                 ELSE Cardinality(Connected)
        BY <2>1, FS_RemoveElement
      <3>3. PoolSize \in Nat
        BY DEF PostgresAssumption
      <3> QED
        BY <2>1, <3>1, <3>2, <3>3
    <2> QED
      BY <2>2, <2>3
  <1>4. ASSUME NEW d \in Clients, d # c PROVE RequestInv(d)'
    <2>1. RequestInv(d) /\ request'[d] = request[d] /\ request[d] \in Requests
      BY <1>1, <1>4 DEF PostgresInv
    <2>2. ASSUME request[d].pc = "done", request[d].kind # "audit_append", Postgres!Row(d) # NoCall
          PROVE  Postgres!Row(d)' # NoCall
      <3>1. request[d].kind \in RowOperations /\ request[d].key \in RowKeys
        BY <2>1, <2>2 DEF RequestInv
      <3>2. Postgres!Table[request[d].kind] \in Postgres!Tables
        BY <2>2, <3>1, KindsHaveTables
      <3> QED
        BY <2>1, <2>2, <3>1, <3>2 DEF RowsStay, Postgres!Row, Postgres!Kind
    <2>3. request[d].result = "conflict" => request[d].kind # "audit_append"
      BY <2>1 DEF RequestInv
    <2> QED
      BY <2>1, <2>2, <2>3 DEF RequestInv, Postgres!Retried, Postgres!Kind
  <1>5. InsertsInv'
    BY <1>1 DEF PostgresInv, InsertsInv, Inserted
  <1> QED
    BY <1>2, <1>3, <1>4, <1>5 DEF PostgresInv
\* A call that is over, with what its statement did; the repositories that
\* swallow exceptions report a failure as success.
LEMMA Finishes ==
    ASSUME PostgresAssumption, PostgresInv, NEW c \in Clients, RowsStay, appended' \subseteq Clients,
           NEW result \in {"returned", "conflict", "raised"}, NEW commits \in 0 .. 1,
           request[c].pc \in {"called", "executing", "sleeping"}, Postgres!Finish(c, result, commits),
           request[c].pc = "sleeping" => request[c].attempts <= MaxAttempts /\ commits = 0 /\ result = "raised",
           commits = 1 /\ request[c].kind # "audit_append" =>
              written'[Postgres!Table[request[c].kind]][request[c].key] # NoCall,
           result = "returned" /\ Postgres!Retried(c) /\ request[c].kind # "goal_update" => commits = 1,
           result = "conflict" =>
              /\ commits = 0 /\ request[c].kind = "memory_insert"
              /\ written'[Postgres!Table[request[c].kind]][request[c].key] # NoCall,
           commits = 1 => ~Inserted(c, request[c])
    PROVE  PostgresInv'
  <1> DEFINE told == IF result = "raised" /\ Postgres!Swallows(c) THEN "returned" ELSE result
             r == [request[c] EXCEPT !.pc = "done", !.commits = @ + commits, !.result = told]
  <1>1. /\ request \in [Clients -> Requests] /\ request[c] \in Requests /\ RequestInv(c)
        /\ request[c].commits = 0
    BY DEF PostgresInv, Postgres!PostgresTypeOK, Requests, RequestInv
  <1>2. told \in {"returned", "conflict", "raised"}
        /\ (told = "returned" => result = "returned" \/ ~Postgres!Retried(c))
        /\ (told = "conflict" => result = "conflict")
        /\ (result = "raised" /\ Postgres!Retried(c) => told = "raised")
    BY DEF Postgres!Swallows
  <1>3. request' = [request EXCEPT ![c] = r]
    BY DEF Postgres!Finish
  <1> HIDE DEF told
  <1>4. /\ r \in Requests /\ r.pc = "done" /\ r.commits = commits /\ r.result = told
        /\ r.kind = request[c].kind /\ r.key = request[c].key /\ r.attempts = request[c].attempts
    <2>1. request[c].commits + commits = commits
      BY <1>1
    <2>2. r.pc = "done" /\ r.commits = request[c].commits + commits /\ r.result = told
      BY <1>1 DEF Requests
    <2>3. r.kind = request[c].kind /\ r.key = request[c].key /\ r.attempts = request[c].attempts
      BY <1>1 DEF Requests
    <2>4. r \in Requests
      BY <1>1, <1>2, <2>1 DEF Requests
    <2> QED
      BY <2>1, <2>2, <2>3, <2>4
  <1> HIDE DEF r
  <1>5. request'[c] = r
    BY <1>1, <1>3
  <1>6. RequestInv(c)'
    <2>1. r.attempts = MaxAttempts => r.commits = 0 /\ r.result = "raised"
      BY <1>1, <1>2, <1>4 DEF RequestInv, PostgresAssumption
    <2> QED
      BY <1>1, <1>2, <1>4, <1>5, <2>1 DEF RequestInv, Postgres!Retried, Postgres!Row, Postgres!Kind
  <1>7. r.commits = 1 => ~Inserted(c, r)
    BY <1>4 DEF Inserted
  <1> QED
    BY <1>3, <1>4, <1>6, <1>7, OneMoves
\* A call begins, gets its connection, or sleeps before the next attempt.
LEMMA Waits ==
    ASSUME PostgresAssumption, PostgresInv, NEW c \in Clients,
           \/ \E kind \in RowOperations, key \in RowKeys : Postgres!Call(c, kind, key)
           \/ Postgres!Acquire(c)
           \/ Postgres!Deadlock(c)
           \/ Postgres!Wake(c) /\ request[c].attempts < MaxAttempts
    PROVE  PostgresInv'
  <1>1. /\ request \in [Clients -> Requests] /\ request[c] \in Requests /\ RequestInv(c)
        /\ appended \subseteq Clients
    BY DEF PostgresInv, Postgres!PostgresTypeOK, Requests
  <1>2. RowsStay /\ appended' \subseteq Clients
    BY DEF PostgresInv, Postgres!PostgresTypeOK, RowsStay, Postgres!Call, Postgres!Acquire,
           Postgres!Deadlock, Postgres!Wake
  <1>3. ASSUME NEW r \in Requests, request' = [request EXCEPT ![c] = r], r.commits = 0, r.result = "none",
               r.pc \in {"called", "executing", "sleeping"}, r.kind \in RowOperations, r.key \in RowKeys,
               r.pc = "called" => r.attempts = 0, r.pc = "executing" => r.attempts < MaxAttempts,
               r.pc = "sleeping" => r.kind \notin {"audit_append", "task_upsert"},
               r.pc # "called" => c \in Connected \/ Cardinality(Connected) < PoolSize
        PROVE  PostgresInv'
    <2>1. request'[c] = r
      BY <1>1, <1>3
    <2>2. RequestInv(c)'
      BY <1>3, <2>1 DEF RequestInv, Postgres!Retried, Postgres!Kind
    <2>3. /\ r.pc \in {"executing", "sleeping"} => c \in Connected \/ Cardinality(Connected) < PoolSize
          /\ r.commits = 1 => ~Inserted(c, r)
      BY <1>3
    <2> QED
      BY <1>2, <1>3, <2>2, <2>3, OneMoves
  <1>4. ASSUME NEW kind \in RowOperations, NEW key \in RowKeys, Postgres!Call(c, kind, key) PROVE PostgresInv'
    <2> DEFINE r == [request[c] EXCEPT !.kind = kind, !.key = key, !.pc = "called"]
    <2>1. request' = [request EXCEPT ![c] = r] /\ request[c].pc = "idle"
      BY <1>4 DEF Postgres!Call
    <2>2. /\ r \in Requests /\ r.pc = "called" /\ r.kind = kind /\ r.key = key
          /\ r.commits = request[c].commits /\ r.attempts = request[c].attempts /\ r.result = request[c].result
      BY <1>1 DEF Requests
    <2> HIDE DEF r
    <2> QED
      BY <1>1, <1>3, <2>1, <2>2 DEF RequestInv
  <1>5. CASE Postgres!Acquire(c)
    <2> DEFINE r == [request[c] EXCEPT !.pc = "executing"]
    <2>1. request' = [request EXCEPT ![c] = r] /\ request[c].pc = "called" /\ Postgres!InUse < PoolSize
      BY <1>5 DEF Postgres!Acquire
    <2>2. /\ r \in Requests /\ r.pc = "executing" /\ r.kind = request[c].kind /\ r.key = request[c].key
          /\ r.commits = request[c].commits /\ r.attempts = request[c].attempts /\ r.result = request[c].result
      BY <1>1 DEF Requests
    <2>3. Cardinality(Connected) < PoolSize
      BY <2>1 DEF Postgres!InUse, Connected, Postgres!Cardinality, Cardinality
    <2> HIDE DEF r
    <2>4. /\ r.commits = 0 /\ r.result = "none" /\ r.kind \in RowOperations /\ r.key \in RowKeys
          /\ r.attempts = 0 /\ 0 < MaxAttempts
      BY <1>1, <2>1, <2>2 DEF RequestInv, PostgresAssumption
    <2> QED
      BY <1>3, <2>1, <2>2, <2>3, <2>4
  <1>6. CASE Postgres!Deadlock(c)
    <2> DEFINE r == [request[c] EXCEPT !.pc = "sleeping", !.attempts = request[c].attempts + 1]
    <2>1. /\ request' = [request EXCEPT ![c] = r] /\ request[c].pc = "executing" /\ Postgres!Retried(c)
          /\ c \in Connected
      BY <1>6 DEF Postgres!Deadlock, Connected, Postgres!Held
    <2>2. request[c].attempts + 1 \in 0 .. MaxAttempts
      BY <1>1, <2>1 DEF RequestInv, PostgresAssumption, Requests
    <2>3. /\ r \in Requests /\ r.pc = "sleeping" /\ r.kind = request[c].kind /\ r.key = request[c].key
          /\ r.commits = request[c].commits /\ r.result = request[c].result
      BY <1>1, <2>2 DEF Requests
    <2> HIDE DEF r
    <2> QED
      BY <1>1, <1>3, <2>1, <2>3 DEF RequestInv, Postgres!Retried, Postgres!Kind
  <1>7. CASE Postgres!Wake(c) /\ request[c].attempts < MaxAttempts
    <2> DEFINE r == [request[c] EXCEPT !.pc = "executing"]
    <2>1. request' = [request EXCEPT ![c] = r] /\ request[c].pc = "sleeping" /\ c \in Connected
      BY SMTT(30), <1>7 DEF Postgres!Wake, Connected, Postgres!Held
    <2>2. /\ r \in Requests /\ r.pc = "executing" /\ r.kind = request[c].kind /\ r.key = request[c].key
          /\ r.commits = request[c].commits /\ r.attempts = request[c].attempts /\ r.result = request[c].result
      BY <1>1 DEF Requests
    <2> HIDE DEF r
    <2> QED
      BY <1>1, <1>3, <1>7, <2>1, <2>2 DEF RequestInv
  <1> QED
    BY <1>4, <1>5, <1>6, <1>7

\* A statement is executed, whether or not its answer arrives.
LEMMA Executes ==
    ASSUME PostgresAssumption, PostgresInv, NEW c \in Clients,
           Postgres!Answered(c) \/ Postgres!AnswerLost(c)
    PROVE  PostgresInv'
  <1> DEFINE st == Postgres!Statement(c)
             k == request[c].kind
             key == request[c].key
             commits == IF st.writes THEN 1 ELSE 0
  <1>1. PICK result \in {st.result, "raised"} : Postgres!Execute(c, result)
    BY DEF Postgres!Answered, Postgres!AnswerLost
  <1>2. /\ request[c].pc = "executing" /\ RequestInv(c) /\ InsertsInv /\ request[c] \in Requests
        /\ k \in RowOperations /\ key \in RowKeys
        /\ written \in [Postgres!Tables -> [RowKeys -> Clients \union {NoCall}]]
    BY <1>1 DEF Postgres!Execute, PostgresInv, RequestInv, Postgres!PostgresTypeOK, Requests
  <1>3. /\ Postgres!Finish(c, result, commits)
        /\ appended' = IF k = "audit_append" THEN appended \union {c} ELSE appended
        /\ written' = IF st.writes /\ k # "audit_append"
                     THEN [written EXCEPT ![Postgres!Table[k]][key] = c] ELSE written
    BY <1>1 DEF Postgres!Execute, Postgres!Kind
  <1>4. /\ st.writes \in BOOLEAN /\ st.result \in {"returned", "conflict", "raised"}
        /\ st.result = "returned" /\ k # "goal_update" => st.writes
        /\ st.result = "conflict" => ~st.writes /\ k = "memory_insert" /\ Postgres!Row(c) # NoCall
        /\ k \in {"goal_insert", "memory_insert"} /\ st.writes => Postgres!Row(c) = NoCall
    BY <1>2, Statements
  <1> HIDE DEF st
  <1>5. k # "audit_append" => Postgres!Table[k] \in Postgres!Tables
    BY <1>2, KindsHaveTables
  <1>6. RowsStay /\ appended' \subseteq Clients
        /\ (st.writes /\ k # "audit_append" => written'[Postgres!Table[k]][key] # NoCall)
        /\ (~st.writes => written' = written)
    <2>1. CASE st.writes /\ k # "audit_append"
      <3>1. written' = [written EXCEPT ![Postgres!Table[k]][key] = c] /\ appended' = appended
        BY <1>3, <2>1
      <3> QED
        BY <1>2, <1>5, <2>1, <3>1 DEF RowsStay, PostgresAssumption, PostgresInv, Postgres!PostgresTypeOK
    <2>2. CASE ~(st.writes /\ k # "audit_append")
      BY <1>2, <1>3, <2>2 DEF RowsStay, PostgresInv, Postgres!PostgresTypeOK
    <2> QED
      BY <2>1, <2>2
  <1>7. commits \in 0 .. 1 /\ (commits = 1 <=> st.writes) /\ result \in {"returned", "conflict", "raised"}
    BY <1>4
  <1>8. ASSUME st.writes, Inserted(c, request[c]) PROVE FALSE
    <2>1. PICK d \in Clients \ {c} : /\ request[d].commits = 1 /\ request[d].key = key
                                     /\ request[d].kind = k /\ k \in {"goal_insert", "memory_insert"}
      BY <1>8 DEF Inserted
    <2>2. RequestInv(d)
      BY DEF PostgresInv
    <2> QED
      BY <1>4, <1>8, <2>1, <2>2 DEF RequestInv, Postgres!Row, Postgres!Kind
  <1>9. result = "conflict" => commits = 0 /\ k = "memory_insert" /\ written'[Postgres!Table[k]][key] # NoCall
    BY <1>4, <1>6 DEF Postgres!Row, Postgres!Kind
  <1>10. result = "returned" /\ k # "goal_update" => commits = 1
    BY <1>4
  <1> HIDE DEF commits
  <1> QED
    BY Zenon, <1>2, <1>3, <1>6, <1>7, <1>8, <1>9, <1>10, Finishes
\* A call that fails before its statement has done anything.
LEMMA Fails ==
    ASSUME PostgresAssumption, PostgresInv, NEW c \in Clients,
           \/ Postgres!AcquireFails(c)
           \/ Postgres!StatementFails(c)
           \/ Postgres!Wake(c) /\ ~(request[c].attempts < MaxAttempts)
    PROVE  PostgresInv'
  <1>1. /\ request[c].pc \in {"called", "executing", "sleeping"}
        /\ Postgres!Finish(c, "raised", 0) /\ UNCHANGED <<written, appended>>
    BY DEF Postgres!AcquireFails, Postgres!StatementFails, Postgres!Wake
  <1>2. RowsStay /\ appended' \subseteq Clients /\ request[c].attempts <= MaxAttempts
    BY <1>1 DEF PostgresInv, Postgres!PostgresTypeOK, RowsStay, Requests, PostgresAssumption
  <1> QED
    BY <1>1, <1>2, Finishes

\* Whatever the calls and PostgreSQL do, the invariant stays.
LEMMA PostgresStep ==
    ASSUME PostgresAssumption, PostgresInv, [Postgres!PostgresNext]_(Postgres!postgresVars)
    PROVE  PostgresInv'
  <1>1. CASE UNCHANGED Postgres!postgresVars
    BY <1>1 DEF Postgres!postgresVars, PostgresInv, Postgres!PostgresTypeOK, InsertsInv, RequestInv,
                Connected, Postgres!Held, Postgres!Retried, Postgres!Kind, Postgres!Row
  <1>2. CASE Postgres!PostgresNext
    <2>1. PICK c \in Clients :
             \/ \E kind \in RowOperations, key \in RowKeys : Postgres!Call(c, kind, key)
             \/ Postgres!Acquire(c) \/ Postgres!AcquireFails(c) \/ Postgres!Answered(c) \/ Postgres!AnswerLost(c)
             \/ Postgres!StatementFails(c) \/ Postgres!Deadlock(c) \/ Postgres!Wake(c)
      BY <1>2 DEF Postgres!PostgresNext
    <2> QED
      BY <2>1, Waits, Executes, Fails
  <1> QED
    BY <1>1, <1>2

\* At the start no connection is in use.
LEMMA PostgresStart ==
    ASSUME PostgresAssumption
    PROVE  Postgres!PostgresInit => PostgresInv
  <1> SUFFICES ASSUME Postgres!PostgresInit PROVE PostgresInv
    OBVIOUS
  <1>1. Connected = {}
    BY DEF Postgres!PostgresInit, Connected, Postgres!Held
  <1>2. IsFiniteSet(Connected) /\ Cardinality(Connected) <= PoolSize
    BY <1>1, FS_EmptySet DEF PostgresAssumption
  <1>3. Postgres!PostgresTypeOK
    BY DEF PostgresAssumption, Postgres!PostgresInit, Postgres!PostgresTypeOK
  <1>4. \A c \in Clients : request[c].pc = "idle" /\ request[c].attempts = 0 /\ request[c].commits = 0
                           /\ request[c].result = "none"
    BY DEF Postgres!PostgresInit
  <1> QED
    BY <1>2, <1>3, <1>4 DEF PostgresInv, RequestInv, InsertsInv, PostgresAssumption

\* However often statements are retried, fail or lose their answers, and however
\* many callers there are: a statement takes effect once at most, a write that
\* is not best effort returns only with its row in the table, of several inserts
\* of a key one writes it, and the pool is never exceeded.
THEOREM RepositoryWritesAreHonest ==
    ASSUME PostgresAssumption
    PROVE  PostgresSpec => []Postgres!WritesAreHonest
  <1>1. Postgres!PostgresInit => PostgresInv
    BY PostgresStart
  <1>2. PostgresInv /\ [Postgres!PostgresNext]_(Postgres!postgresVars) => PostgresInv'
    BY PostgresStep
  <1>3. PostgresInv => Postgres!WritesAreHonest
    <2> SUFFICES ASSUME PostgresInv PROVE Postgres!WritesAreHonest
      OBVIOUS
    <2>1. Postgres!InUse <= PoolSize
      BY DEF PostgresInv, Postgres!InUse, Connected, Postgres!Cardinality, Cardinality
    <2>2. ASSUME NEW c \in Clients
          PROVE  /\ request[c].pc = "done" /\ request[c].result = "returned" /\ Postgres!Retried(c)
                    /\ Postgres!Kind(c) # "goal_update" => request[c].commits = 1 /\ Postgres!Row(c) # NoCall
                 /\ request[c].attempts = MaxAttempts /\ request[c].pc = "done" =>
                    request[c].commits = 0 /\ request[c].result = "raised"
                 /\ request[c].result = "conflict" => request[c].commits = 0 /\ Postgres!Row(c) # NoCall
      <3>1. RequestInv(c)
        BY DEF PostgresInv
      <3> QED
        BY <3>1 DEF RequestInv, Postgres!Retried, Postgres!Kind
    <2>3. ASSUME NEW c \in Clients, NEW d \in Clients, Postgres!Kind(c) = Postgres!Kind(d),
                 Postgres!Kind(c) \in {"goal_insert", "memory_insert"}, request[c].key = request[d].key,
                 request[c].commits = 1, request[d].commits = 1
          PROVE  c = d
      BY <2>3 DEF PostgresInv, InsertsInv, Postgres!Kind
    <2> QED
      BY <2>1, <2>2, <2>3 DEF Postgres!WritesAreHonest
  <1> QED
    BY <1>1, <1>2, <1>3, PTL DEF PostgresSpec

-----------------------------------------------------------------------------
(* The topologies and the verdicts on their steering.                      *)

TopologySpec == Topology!TopologyInit /\ [][Topology!TopologyNext]_(Topology!topologyVars)

Holdings == UNION {[members -> SUBSET Contracts] : members \in SUBSET Agents}
Assigned == UNION {[gs -> SUBSET Agents] : gs \in SUBSET Goals}
Topologies == [agents : Holdings, goals : Assigned, active : BOOLEAN]

\* Goals are somebody's, and the contracts an agent holds are its own.
Sound(t) ==
    /\ t \in Topologies
    /\ \A g \in DOMAIN t.goals : t.goals[g] # {} /\ t.goals[g] \subseteq DOMAIN t.agents
    /\ \A a \in DOMAIN t.agents : \A c \in t.agents[a] : c.agent = a

TopologyInv == \A id \in DOMAIN topologies : Sound(topologies[id])

\* A topology that ends, or that is left behind by a steering, stays sound.
LEMMA EndsSound ==
    ASSUME NEW t, Sound(t)
    PROVE  Sound([t EXCEPT !.active = FALSE])
  <1> DEFINE ended == [t EXCEPT !.active = FALSE]
  <1>1. ended \in Topologies /\ ended.agents = t.agents /\ ended.goals = t.goals
    BY DEF Sound, Topologies
  <1> QED
    BY <1>1 DEF Sound

\* What spawn builds.
LEMMA SpawnSound ==
    ASSUME NEW members \in SUBSET Agents, NEW wanted \in SUBSET Goals,
           NEW held \in [members -> SUBSET Contracts], NEW chosen \in [wanted -> members],
           \A a \in members : \A c \in held[a] : c.agent = a
    PROVE  Sound([agents |-> held, goals |-> [g \in wanted |-> {chosen[g]}], active |-> TRUE])
  <1> DEFINE assigned == [g \in wanted |-> {chosen[g]}]
             t == [agents |-> held, goals |-> assigned, active |-> TRUE]
  <1>1. held \in Holdings
    BY DEF Holdings
  <1>2. assigned \in [wanted -> SUBSET Agents]
    OBVIOUS
  <1>3. assigned \in Assigned
    BY <1>2 DEF Assigned
  <1>4. t \in Topologies
    BY <1>1, <1>3 DEF Topologies
  <1> QED
    BY <1>4 DEF Sound

\* What steer builds, whoever is kept, whatever is renewed and reassigned.
LEMMA SteerSound ==
    ASSUME NEW old, Sound(old), NEW kept \in SUBSET Agents, NEW new \in SUBSET Contracts,
           NEW moved \in SUBSET Goals, NEW reassigned \in [moved -> SUBSET Agents]
    PROVE  Sound(Topology!Steered(old, kept, new, reassigned))
  <1> DEFINE members == kept \intersect DOMAIN old.agents
             agents == [a \in members |-> Topology!Renewed(old.agents[a], {c \in new : c.agent = a})]
             asked == Topology!Asked(old, reassigned)
             assigned == Topology!Carried(old, members, reassigned)
             t == Topology!Steered(old, kept, new, reassigned)
  <1>1. t = [agents |-> agents, goals |-> assigned, active |-> TRUE]
    BY DEF Topology!Steered
  <1>2. PICK crew \in SUBSET Agents : old.agents \in [crew -> SUBSET Contracts]
    BY DEF Sound, Topologies, Holdings
  <1>3. members \in SUBSET Agents
    OBVIOUS
  <1>4. ASSUME NEW a \in members
        PROVE  agents[a] \subseteq Contracts /\ \A c \in agents[a] : c.agent = a
    BY <1>2 DEF Sound, Topology!Renewed
  <1>5. agents \in [members -> SUBSET Contracts]
    BY <1>4
  <1>6. agents \in Holdings
    BY <1>3, <1>5 DEF Holdings
  <1> DEFINE owned == {h \in Goals : asked[h] \intersect members # {}}
  <1>7. assigned = [g \in owned |-> asked[g] \intersect members]
    BY DEF Topology!Carried, Topology!Assignments
  <1> HIDE DEF assigned, asked, agents
  <1>8. assigned \in [owned -> SUBSET Agents] /\ owned \in SUBSET Goals
    BY <1>3, <1>7
  <1>9. assigned \in Assigned
    BY <1>8 DEF Assigned
  <1>10. \A g \in DOMAIN assigned : assigned[g] # {} /\ assigned[g] \subseteq members
    BY <1>7
  <1>11. t \in Topologies /\ t.agents = agents /\ t.goals = assigned
    BY <1>1, <1>6, <1>9 DEF Topologies
  <1>12. DOMAIN agents = members
    BY <1>5
  <1> HIDE DEF t
  <1>13. Sound(t)
    BY <1>4, <1>10, <1>11, <1>12 DEF Sound
  <1> QED
    BY <1>13 DEF t

\* add_agent: the new agent holds nothing.
LEMMA AddSound ==
    ASSUME NEW t, Sound(t), NEW a \in Agents \ DOMAIN t.agents
    PROVE  Sound([t EXCEPT !.agents = [b \in DOMAIN t.agents \union {a} |-> IF b = a THEN {} ELSE t.agents[b]]])
  <1> DEFINE agents == [b \in DOMAIN t.agents \union {a} |-> IF b = a THEN {} ELSE t.agents[b]]
             u == [t EXCEPT !.agents = agents]
  <1>1. PICK crew \in SUBSET Agents : t.agents \in [crew -> SUBSET Contracts]
    BY DEF Sound, Topologies, Holdings
  <1>2. agents \in [crew \union {a} -> SUBSET Contracts] /\ crew \union {a} \in SUBSET Agents
    BY <1>1
  <1>3. agents \in Holdings
    BY <1>2 DEF Holdings
  <1>4. /\ DOMAIN agents = DOMAIN t.agents \union {a}
        /\ \A b \in DOMAIN agents : agents[b] = IF b = a THEN {} ELSE t.agents[b]
    OBVIOUS
  <1> HIDE DEF agents
  <1>5. u \in Topologies /\ u.agents = agents /\ u.goals = t.goals
    BY <1>3 DEF Sound, Topologies
  <1> HIDE DEF u
  <1>6. Sound(u)
    BY <1>4, <1>5 DEF Sound
  <1> QED
    BY <1>6 DEF u, agents

\* assign_goal: another agent of the topology for the goal.
LEMMA AssignSound ==
    ASSUME NEW t, Sound(t), NEW g \in Goals, NEW holders, holders # {}, holders \subseteq DOMAIN t.agents
    PROVE  Sound([t EXCEPT !.goals = [h \in DOMAIN t.goals \union {g} |-> IF h = g THEN holders ELSE t.goals[h]]])
  <1> DEFINE assigned == [h \in DOMAIN t.goals \union {g} |-> IF h = g THEN holders ELSE t.goals[h]]
             u == [t EXCEPT !.goals = assigned]
  <1>1. PICK gs \in SUBSET Goals : t.goals \in [gs -> SUBSET Agents]
    BY DEF Sound, Topologies, Assigned
  <1>2. PICK crew \in SUBSET Agents : t.agents \in [crew -> SUBSET Contracts]
    BY DEF Sound, Topologies, Holdings
  <1>3. assigned \in [gs \union {g} -> SUBSET Agents] /\ gs \union {g} \in SUBSET Goals
    BY <1>1, <1>2
  <1>4. assigned \in Assigned
    BY <1>3 DEF Assigned
  <1>5. /\ DOMAIN assigned = DOMAIN t.goals \union {g}
        /\ \A h \in DOMAIN assigned : assigned[h] = IF h = g THEN holders ELSE t.goals[h]
    OBVIOUS
  <1> HIDE DEF assigned
  <1>6. u \in Topologies /\ u.goals = assigned /\ u.agents = t.agents
    BY <1>4 DEF Sound, Topologies
  <1> HIDE DEF u
  <1>7. Sound(u)
    BY <1>5, <1>6 DEF Sound
  <1> QED
    BY <1>7 DEF u, assigned

\* Every call of the manager leaves sound topologies.
LEMMA TopologyStep ==
    ASSUME TopologyInv, [Topology!TopologyNext]_(Topology!topologyVars)
    PROVE  TopologyInv'
  <1>1. CASE UNCHANGED topologies
    BY <1>1 DEF TopologyInv
  <1>2. ASSUME NEW id, NEW t, Sound(t), Topology!Store(id, t) PROVE TopologyInv'
    BY <1>2 DEF Topology!Store, TopologyInv
  <1>3. CASE Topology!Spawn
    <2>1. CASE \E members \in (SUBSET Agents) \ {{}}, wanted \in SUBSET Goals :
               \E held \in [members -> SUBSET Contracts], chosen \in [wanted -> members] :
                  /\ \A a \in members : \A c \in held[a] : c.agent = a
                  /\ Topology!Store(counter + 1,
                       [agents |-> held, goals |-> [g \in wanted |-> {chosen[g]}], active |-> TRUE])
      BY <1>2, <2>1, SpawnSound
    <2> QED
      BY <1>1, <1>3, <2>1 DEF Topology!Spawn
  <1>4. ASSUME NEW id \in DOMAIN topologies, Topology!Steer(id) PROVE TopologyInv'
    <2>1. Sound(topologies[id])
      BY DEF TopologyInv
    <2>2. ASSUME NEW kept \in SUBSET Agents, NEW new \in {{}} \union {{c} : c \in Contracts},
                 NEW moved \in SUBSET Goals, NEW reassigned \in [moved -> SUBSET Agents],
                 topologies' = [i \in DOMAIN topologies \union {counter + 1} |->
                                  IF i = counter + 1 THEN Topology!Steered(topologies[id], kept, new, reassigned)
                                  ELSE IF i = id THEN [topologies[i] EXCEPT !.active = FALSE]
                                  ELSE topologies[i]]
          PROVE  TopologyInv'
      <3> DEFINE steered == Topology!Steered(topologies[id], kept, new, reassigned)
                 ended(i) == [topologies[i] EXCEPT !.active = FALSE]
      <3>1. Sound(steered)
        BY <2>1, SteerSound
      <3>2. Sound(ended(id))
        BY <2>1, EndsSound
      <3>3. topologies' = [i \in DOMAIN topologies \union {counter + 1} |->
                             IF i = counter + 1 THEN steered ELSE IF i = id THEN ended(i) ELSE topologies[i]]
        BY <2>2
      <3> HIDE DEF steered, ended
      <3> QED
        BY <3>1, <3>2, <3>3 DEF TopologyInv
    <2> QED
      BY <1>1, <1>4, <2>2 DEF Topology!Steer
  <1>5. ASSUME NEW id \in DOMAIN topologies, NEW t, Sound(t), topologies' = [topologies EXCEPT ![id] = t]
        PROVE  TopologyInv'
    BY <1>5 DEF TopologyInv
  <1>6. ASSUME NEW id \in DOMAIN topologies, Topology!Dissolve(id) PROVE TopologyInv'
    <2> DEFINE t == [topologies[id] EXCEPT !.active = FALSE]
    <2>1. Sound(t)
      BY EndsSound DEF TopologyInv
    <2>2. topologies' = [topologies EXCEPT ![id] = t]
      BY <1>6 DEF Topology!Dissolve
    <2> QED
      BY <1>5, <2>1, <2>2
  <1>7. ASSUME NEW id \in DOMAIN topologies, Topology!AddAgent(id) PROVE TopologyInv'
    <2>1. PICK a \in Agents \ DOMAIN topologies[id].agents :
             topologies' = [topologies EXCEPT
                ![id].agents = [b \in DOMAIN @ \union {a} |-> IF b = a THEN {} ELSE @[b]]]
      BY <1>7 DEF Topology!AddAgent
    <2> DEFINE u == topologies[id]
               t == [u EXCEPT !.agents = [b \in DOMAIN u.agents \union {a} |-> IF b = a THEN {} ELSE u.agents[b]]]
    <2>2. Sound(t)
      BY AddSound DEF TopologyInv
    <2>3. topologies' = [topologies EXCEPT ![id] = t]
      BY <2>1
    <2> QED
      BY <1>5, <2>2, <2>3
  <1>8. ASSUME NEW id \in DOMAIN topologies, Topology!AssignGoal(id) PROVE TopologyInv'
    <2> DEFINE u == topologies[id]
    <2>1. PICK g \in Goals, a \in DOMAIN u.agents :
             topologies' = [topologies EXCEPT
                ![id].goals = [h \in DOMAIN u.goals \union {g} |->
                   IF h = g THEN {a} \union UNION {u.goals[i] : i \in DOMAIN u.goals \intersect {g}}
                   ELSE u.goals[h]]]
      BY <1>8 DEF Topology!AssignGoal
    <2> DEFINE holders == {a} \union UNION {u.goals[i] : i \in DOMAIN u.goals \intersect {g}}
               t == [u EXCEPT !.goals = [h \in DOMAIN u.goals \union {g} |-> IF h = g THEN holders ELSE u.goals[h]]]
    <2>2. Sound(u)
      BY DEF TopologyInv
    <2>3. holders # {} /\ holders \subseteq DOMAIN u.agents
      BY <2>1, <2>2 DEF Sound
    <2>4. topologies' = [topologies EXCEPT ![id] = t]
      BY <2>1
    <2> HIDE DEF holders, u
    <2>5. Sound(t)
      BY <2>2, <2>3, AssignSound
    <2> QED
      BY <1>5, <2>4, <2>5
  <1> QED
    BY <1>1, <1>3, <1>4, <1>6, <1>7, <1>8 DEF Topology!TopologyNext, Topology!topologyVars

\* Of the topologies and steerings of any agents and contracts: a goal belongs
\* to agents that are there, and what the verifier accepts the manager's own
\* check finds nothing wrong with.
THEOREM ManagedTopologiesAreSound == TopologySpec => []Topology!TopologiesAreSound
  <1>1. Topology!TopologyInit => TopologyInv
    BY DEF Topology!TopologyInit, TopologyInv
  <1>2. TopologyInv /\ [Topology!TopologyNext]_(Topology!topologyVars) => TopologyInv'
    BY TopologyStep
  <1>3. TopologyInv => Topology!TopologiesAreSound
    <2> SUFFICES ASSUME TopologyInv, NEW id \in DOMAIN topologies
                 PROVE  LET new == topologies[id]
                            cs == UNION Topology!Range(new.agents) IN
                        /\ \A g \in DOMAIN new.goals :
                              new.goals[g] # {} /\ new.goals[g] \subseteq DOMAIN new.agents
                        /\ \A from \in DOMAIN topologies :
                              Topology!SteerAccepted(topologies[from], new, cs) =>
                                 Topology!ContractErrors(new) = <<{}, {}>>
      BY DEF Topology!TopologiesAreSound
    <2> DEFINE new == topologies[id]
               cs == UNION Topology!Range(new.agents)
    <2>1. Sound(new)
      BY DEF TopologyInv
    <2>2. \A c \in cs : c.agent \in DOMAIN new.agents
      BY <2>1 DEF Sound, Topology!Range
    <2>3. ASSUME NEW from \in DOMAIN topologies, Topology!SteerAccepted(topologies[from], new, cs)
          PROVE  Topology!ContractErrors(new) = <<{}, {}>>
      <3>1. Topology!PostSteer(new, cs) = {}
        BY <2>3 DEF Topology!SteerAccepted
      <3>2. Topology!PeerErrors(new) = {}
        BY <2>2, <3>1 DEF Topology!PostSteer, Topology!PeerErrors
      <3>3. Topology!GoalErrors(new) = {}
        BY <2>1 DEF Sound, Topology!GoalErrors
      <3> QED
        BY <3>2, <3>3 DEF Topology!ContractErrors
    <2> QED
      BY <2>1, <2>3 DEF Sound
  <1> QED
    BY <1>1, <1>2, <1>3, PTL DEF TopologySpec

-----------------------------------------------------------------------------
(* The egress gateway.                                                     *)

\* The requests charged to a workflow.
ChargedTo(w) == {r \in charged : WorkflowOf[r] = w}

\* Where a request is in the pipeline tells what has been done for it, and a
\* request the peer has got waits for its response or is over.
PipelineInv(r) ==
    /\ at[r] \in {"rate", "budget", "log", "send", "redact"} => DomainOf[r] \in Allowed
    /\ at[r] \in {"log", "send", "redact"} => r \in charged
    /\ at[r] \in {"start", "rate", "budget"} => r \notin charged
    /\ at[r] \in {"send", "redact"} => r \in logged
    /\ at[r] = "redact" => response[r] = "raw" /\ r \in delivered
    /\ at[r] # "returned" => answer[r] = "none"
    /\ r \in delivered => /\ DomainOf[r] \in Allowed /\ r \in charged /\ r \in logged
                          /\ at[r] \in {"redact", "returned"}
    /\ answer[r] = "IDLE" => r \in delivered /\ response[r] = "redacted"
    /\ r \in delivered /\ at[r] = "returned" =>
          answer[r] \in {"IDLE", "FORWARD_ERROR"} \/ response[r] = "raw"

EgressInv ==
    /\ at \in [Outbound -> {"start", "rate", "budget", "log", "send", "redact", "returned"}]
    /\ answer \in [Outbound -> Egress!States \union {"none"}]
    /\ response \in [Outbound -> {"none", "raw", "redacted"}]
    /\ charged \subseteq Outbound /\ IsFiniteSet(charged)
    /\ \A r \in Outbound : PipelineInv(r)
    /\ \A w : SumFunctionOnSet(TokensOf, ChargedTo(w)) <= Budget

\* What a workflow has spent is the sum of what it was charged.
LEMMA SpentIsSum ==
    ASSUME NEW w
    PROVE  Egress!Spent(w) = SumFunctionOnSet(TokensOf, ChargedTo(w))
  BY DEF Egress!Spent, ChargedTo, Egress!MapThenSumSet, Egress!MapThenFoldSet,
         SumFunctionOnSet, FoldFunctionOnSet, MapThenFoldSet

\* A request moves on or returns, and its own flags are what the step makes
\* them; the other requests keep theirs.
Moves(r) ==
    /\ at' \in [Outbound -> {"start", "rate", "budget", "log", "send", "redact", "returned"}]
    /\ answer' \in [Outbound -> Egress!States \union {"none"}]
    /\ response' \in [Outbound -> {"none", "raw", "redacted"}]
    /\ \A s \in Outbound \ {r} :
          /\ at'[s] = at[s] /\ answer'[s] = answer[s] /\ response'[s] = response[s]
          /\ s \in charged' <=> s \in charged
          /\ s \in logged' <=> s \in logged
          /\ s \in delivered' <=> s \in delivered

\* The pipeline of the others is not disturbed.
LEMMA OthersStay ==
    ASSUME EgressInv, NEW r \in Outbound, Moves(r), PipelineInv(r)'
    PROVE  \A s \in Outbound : PipelineInv(s)'
  <1>1. ASSUME NEW s \in Outbound, s # r PROVE PipelineInv(s)'
    <2>1. PipelineInv(s)
      BY DEF EgressInv
    <2> QED
      BY <1>1, <2>1 DEF Moves, PipelineInv
  <1> QED
    BY <1>1

\* The call that charges the budget charges within it.
LEMMA Charges ==
    ASSUME EgressAssumption, EgressInv, NEW r \in Outbound, r \notin charged, Egress!HasBudget(r),
           charged' = charged \union {r}
    PROVE  IsFiniteSet(charged') /\ \A w : SumFunctionOnSet(TokensOf, ChargedTo(w)') <= Budget
  <1>1. IsFiniteSet(charged')
    BY FS_AddElement DEF EgressInv
  <1>2. ASSUME NEW w PROVE SumFunctionOnSet(TokensOf, ChargedTo(w)') <= Budget
    <2>1. CASE WorkflowOf[r] = w
      <3>1. ChargedTo(w)' = ChargedTo(w) \union {r} /\ r \notin ChargedTo(w)
        BY <2>1 DEF ChargedTo
      <3>2. IsFiniteSet(ChargedTo(w)) /\ \A x \in ChargedTo(w) \union {r} : TokensOf[x] \in Nat
        BY FS_Subset DEF EgressInv, EgressAssumption, ChargedTo
      <3>3. SumFunctionOnSet(TokensOf, ChargedTo(w) \union {r})
              = SumFunctionOnSet(TokensOf, ChargedTo(w)) + TokensOf[r]
        BY <3>1, <3>2, SumAdd
      <3>4. Egress!Spent(w) + TokensOf[r] <= Budget
        BY <2>1 DEF Egress!HasBudget
      <3> QED
        BY <3>1, <3>3, <3>4, SpentIsSum
    <2>2. CASE WorkflowOf[r] # w
      <3>1. ChargedTo(w)' = ChargedTo(w)
        BY <2>2 DEF ChargedTo
      <3> QED
        BY <3>1 DEF EgressInv
    <2> QED
      BY <2>1, <2>2
  <1> QED
    BY <1>1, <1>2

\* A step that charges nobody keeps the sums.
LEMMA ChargesNobody ==
    ASSUME EgressInv, UNCHANGED charged
    PROVE  IsFiniteSet(charged') /\ \A w : SumFunctionOnSet(TokensOf, ChargedTo(w)') <= Budget
  <1>1. \A w : ChargedTo(w)' = ChargedTo(w)
    BY DEF ChargedTo
  <1> QED
    BY <1>1 DEF EgressInv
\* The calls of the pipeline, in their order.
LEMMA PipelineStep ==
    ASSUME EgressAssumption, EgressInv, NEW r \in Outbound,
           \/ Egress!Receive(r) \/ Egress!CheckRate(r) \/ Egress!CheckBudget(r)
           \/ Egress!Log(r) \/ Egress!Send(r) \/ Egress!RedactResponse(r)
    PROVE  EgressInv'
  <1>1. PipelineInv(r) /\ charged \subseteq Outbound /\ response \in [Outbound -> {"none", "raw", "redacted"}]
    BY DEF EgressInv
  <1>2. ASSUME Moves(r), PipelineInv(r)', UNCHANGED charged PROVE EgressInv'
    <2>1. \A s \in Outbound : PipelineInv(s)'
      BY <1>2, OthersStay
    <2>2. IsFiniteSet(charged') /\ \A w : SumFunctionOnSet(TokensOf, ChargedTo(w)') <= Budget
      BY <1>2, ChargesNobody
    <2> QED
      BY <1>1, <1>2, <2>1, <2>2 DEF EgressInv, Moves
  <1> USE DEF Egress!States
  <1>3. CASE Egress!Receive(r)
    <2>1. /\ at[r] = "start" /\ UNCHANGED <<charged, logged, delivered, response>>
          /\ \/ Egress!Return(r, "DOMAIN_BLOCKED")
             \/ Egress!Return(r, "REDACTION_ERROR")
             \/ DomainOf[r] \in Allowed /\ Egress!Go(r, "rate")
      BY <1>3 DEF Egress!Receive
    <2>2. /\ Moves(r)
          /\ \/ at'[r] = "rate" /\ DomainOf[r] \in Allowed /\ answer'[r] = answer[r]
             \/ at'[r] = "returned" /\ answer'[r] \in {"DOMAIN_BLOCKED", "REDACTION_ERROR"}
      BY <1>1, <2>1 DEF EgressInv, Moves, Egress!Go, Egress!Return
    <2>3. PipelineInv(r)'
      BY <1>1, <2>1, <2>2 DEF PipelineInv
    <2> QED
      BY <1>2, <2>1, <2>2, <2>3
  <1>4. CASE Egress!CheckRate(r)
    <2>1. /\ at[r] = "rate" /\ UNCHANGED <<charged, logged, delivered, response>>
          /\ \/ Egress!Go(r, "budget")
             \/ Egress!Return(r, "RATE_EXCEEDED") \/ Egress!Return(r, "RATE_CHECKING") \/ Egress!Return(r, "FAULTED")
      BY <1>4 DEF Egress!CheckRate
    <2>2. /\ Moves(r)
          /\ \/ at'[r] = "budget" /\ answer'[r] = answer[r]
             \/ at'[r] = "returned" /\ answer'[r] \in {"RATE_EXCEEDED", "RATE_CHECKING", "FAULTED"}
      BY <1>1, <2>1 DEF EgressInv, Moves, Egress!Go, Egress!Return
    <2>3. PipelineInv(r)'
      BY <1>1, <2>1, <2>2 DEF PipelineInv
    <2> QED
      BY <1>2, <2>1, <2>2, <2>3
  <1>5. CASE Egress!CheckBudget(r)
    <2>1. /\ at[r] = "budget" /\ r \notin charged /\ UNCHANGED <<logged, delivered, response>>
          /\ \/ Egress!Go(r, "log") /\ r \in charged'
             \/ Egress!Return(r, "BUDGET_EXCEEDED")
             \/ Egress!Return(r, "BUDGET_CHECKING")
             \/ Egress!Return(r, "FAULTED")
          /\ \/ UNCHANGED charged
             \/ Egress!HasBudget(r) /\ charged' = charged \union {r}
      BY <1>1, <1>5 DEF Egress!CheckBudget, PipelineInv
    <2>2. /\ Moves(r)
          /\ \/ at'[r] = "log" /\ r \in charged' /\ answer'[r] = answer[r]
             \/ at'[r] = "returned" /\ answer'[r] \in {"BUDGET_EXCEEDED", "BUDGET_CHECKING", "FAULTED"}
      BY <1>1, <2>1 DEF EgressInv, Moves, Egress!Go, Egress!Return
    <2>3. PipelineInv(r)'
      BY <1>1, <2>1, <2>2 DEF PipelineInv
    <2>4. CASE UNCHANGED charged
      BY <1>2, <2>2, <2>3, <2>4
    <2>5. CASE Egress!HasBudget(r) /\ charged' = charged \union {r}
      <3>1. IsFiniteSet(charged') /\ \A w : SumFunctionOnSet(TokensOf, ChargedTo(w)') <= Budget
        BY <2>1, <2>5, Charges
      <3>2. \A s \in Outbound : PipelineInv(s)'
        BY <2>2, <2>3, OthersStay
      <3> QED
        BY <1>1, <2>2, <2>5, <3>1, <3>2 DEF EgressInv, Moves
    <2> QED
      BY <2>1, <2>4, <2>5
  <1>6. CASE Egress!Log(r)
    <2>1. /\ at[r] = "log" /\ UNCHANGED <<charged, delivered, response>>
          /\ logged' \in {logged, logged \union {r}}
          /\ \/ Egress!Go(r, "send") /\ r \in logged'
             \/ Egress!Return(r, "LOG_ERROR")
      BY <1>6 DEF Egress!Log
    <2>2. /\ Moves(r)
          /\ \/ at'[r] = "send" /\ r \in logged' /\ answer'[r] = answer[r]
             \/ at'[r] = "returned" /\ answer'[r] = "LOG_ERROR"
      BY <1>1, <2>1 DEF EgressInv, Moves, Egress!Go, Egress!Return
    <2>3. PipelineInv(r)'
      BY <1>1, <2>1, <2>2 DEF PipelineInv
    <2> QED
      BY <1>2, <2>1, <2>2, <2>3
  <1>7. CASE Egress!Send(r)
    <2>1. /\ at[r] = "send" /\ UNCHANGED <<charged, logged>>
          /\ delivered' \in {delivered, delivered \union {r}}
          /\ \/ Egress!Go(r, "redact") /\ r \in delivered' /\ response' = [response EXCEPT ![r] = "raw"]
             \/ Egress!Return(r, "FORWARD_ERROR") /\ UNCHANGED response
      BY <1>7 DEF Egress!Send
    <2>2. /\ Moves(r)
          /\ \/ at'[r] = "redact" /\ r \in delivered' /\ response'[r] = "raw" /\ answer'[r] = answer[r]
             \/ at'[r] = "returned" /\ answer'[r] = "FORWARD_ERROR"
      BY <1>1, <2>1 DEF EgressInv, Moves, Egress!Go, Egress!Return
    <2>3. PipelineInv(r)'
      BY <1>1, <2>1, <2>2 DEF PipelineInv
    <2> QED
      BY <1>2, <2>1, <2>2, <2>3
  <1>8. CASE Egress!RedactResponse(r)
    <2>1. /\ at[r] = "redact" /\ UNCHANGED <<charged, logged, delivered>>
          /\ \/ Egress!Return(r, "IDLE") /\ response' = [response EXCEPT ![r] = "redacted"]
             \/ Egress!Return(r, "REDACTION_ERROR") /\ UNCHANGED response
      BY <1>8 DEF Egress!RedactResponse
    <2>2. /\ Moves(r) /\ at'[r] = "returned"
          /\ \/ answer'[r] = "IDLE" /\ response'[r] = "redacted"
             \/ answer'[r] = "REDACTION_ERROR" /\ response'[r] = response[r]
      BY <1>1, <2>1 DEF EgressInv, Moves, Egress!Go, Egress!Return
    <2>3. PipelineInv(r)'
      BY <1>1, <2>1, <2>2 DEF PipelineInv
    <2> QED
      BY <1>2, <2>1, <2>2, <2>3
  <1> QED
    BY <1>3, <1>4, <1>5, <1>6, <1>7, <1>8

\* At the start nothing is charged.
LEMMA EgressStart ==
    ASSUME EgressAssumption
    PROVE  Egress!Init => EgressInv
  <1> SUFFICES ASSUME Egress!Init PROVE EgressInv
    OBVIOUS
  <1>1. charged = {} /\ \A w : ChargedTo(w) = {}
    BY DEF Egress!Init, ChargedTo
  <1>2. IsFiniteSet(charged) /\ \A w : SumFunctionOnSet(TokensOf, ChargedTo(w)) <= Budget
    BY <1>1, FS_EmptySet, SumEmpty DEF EgressAssumption
  <1>3. \A r \in Outbound : PipelineInv(r)
    BY DEF Egress!Init, PipelineInv
  <1> QED
    BY <1>2, <1>3 DEF Egress!Init, EgressInv

\* Every step of the pipeline, and a new minute, keep the invariant.
LEMMA EgressStep ==
    ASSUME EgressAssumption
    PROVE  EgressInv /\ [Egress!Next]_(Egress!egressVars) => EgressInv'
  <1> SUFFICES ASSUME EgressInv, [Egress!Next]_(Egress!egressVars) PROVE EgressInv'
    OBVIOUS
  <1>1. CASE UNCHANGED <<at, answer, charged, logged, delivered, response>>
    <2>1. IsFiniteSet(charged') /\ \A w : SumFunctionOnSet(TokensOf, ChargedTo(w)') <= Budget
      BY <1>1, ChargesNobody
    <2> QED
      BY <1>1, <2>1 DEF EgressInv, PipelineInv
  <1>2. CASE Egress!Next
    BY <1>1, <1>2, PipelineStep DEF Egress!Next, Egress!NextWindow
  <1> QED
    BY <1>1, <1>2 DEF Egress!egressVars

\* Whichever collaborator fails, and however many requests run at once: nothing
\* is sent out but to an extracted domain that is allowed, paid for within the
\* budget and logged, and the answer tells whether the request went out.
THEOREM EgressAnswersAreTrue ==
    ASSUME EgressAssumption
    PROVE  Egress!Spec => []Egress!AnswersAreTrue
  <1>1. Egress!Init => EgressInv
    BY EgressStart
  <1>2. EgressInv /\ [Egress!Next]_(Egress!egressVars) => EgressInv'
    BY EgressStep
  <1>3. EgressInv => Egress!AnswersAreTrue
    BY SpentIsSum DEF EgressInv, PipelineInv, Egress!AnswersAreTrue
  <1> QED
    BY <1>1, <1>2, <1>3, PTL DEF Egress!Spec

-----------------------------------------------------------------------------
(* The kernel's memory.                                                    *)

CallRecords == [pc : {"fetching", "waiting", "writing", "copying"}, rec : Records,
          goal : {"none", "MEDIUM", "LONG"}, parent : Memory!Coroutines \union {Top}]

\* What a coroutine is about to do follows from what it is for.
CoroutineInv(c) ==
    /\ co[c].pc = "writing" => co[c].goal # "none"
    /\ co[c].pc = "copying" => co[c].goal = "LONG"

\* A record read often enough is not forgotten; one that was promoted is there.
NotForgotten(m) ==
    m \in cache /\ hits[m] = Threshold /\ tier[m] = "SHORT" =>
       m \in Memory!ToSet(pending) \/ Memory!Promoting(m) \/ m \in dropped
WhereItSays(m) ==
    /\ tier[m] = "MEDIUM" => m \in medium \union cleaned
    /\ tier[m] = "LONG" => m \in long

MemoryTypes ==
    /\ cache \subseteq stored
    /\ tier \in [Records -> {"SHORT", "MEDIUM", "LONG"}]
    /\ hits \in [Records -> 0 .. Threshold]
    /\ pending \in Seq(Records) /\ Len(pending) < BatchSize
    /\ co \in [Memory!Coroutines -> {Memory!Free} \union CallRecords]

MemoryInv ==
    /\ MemoryTypes
    /\ \A c \in Memory!Coroutines : CoroutineInv(c)
    /\ \A m \in Records : hits[m] # 0 => m \in stored
    /\ \A m \in Records : NotForgotten(m) /\ WhereItSays(m)

\* A coroutine that has its record writes it, or ends if the tier is as high.
LEMMA AfterRetrieve ==
    ASSUME MemoryInv, NEW c \in Memory!Coroutines, co[c] # Memory!Free
    PROVE  /\ Memory!After(c) \in {Memory!Free} \union CallRecords
           /\ \/ /\ Memory!After(c) = Memory!Free
                 /\ co[c].goal = "none" \/ tier[co[c].rec] # "SHORT"
              \/ /\ Memory!After(c) \in CallRecords /\ Memory!After(c).pc = "writing" /\ co[c].goal # "none"
                 /\ Memory!After(c).rec = co[c].rec /\ Memory!After(c).goal = co[c].goal
  <1>1. co[c] \in CallRecords /\ tier[co[c].rec] \in {"SHORT", "MEDIUM", "LONG"}
    BY DEF MemoryInv, MemoryTypes, CallRecords
  <1>2. /\ Memory!Rank("SHORT") = 1
        /\ Memory!Rank("MEDIUM") = 2
        /\ Memory!Rank("LONG") = 3
    BY DEF Memory!Rank, Memory!Tiers
  <1>3. CASE co[c].goal # "none" /\ Memory!Rank(co[c].goal) > Memory!Rank(tier[co[c].rec])
    <2>1. Memory!After(c) = [co[c] EXCEPT !.pc = "writing"]
      BY <1>3 DEF Memory!After
    <2> QED
      BY <1>1, <1>3, <2>1 DEF CallRecords
  <1>4. CASE ~(co[c].goal # "none" /\ Memory!Rank(co[c].goal) > Memory!Rank(tier[co[c].rec]))
    <2>1. Memory!After(c) = Memory!Free
      BY <1>4 DEF Memory!After
    <2>2. ASSUME co[c].goal # "none", tier[co[c].rec] = "SHORT" PROVE FALSE
      <3>1. co[c].goal \in {"MEDIUM", "LONG"}
        BY <1>1, <2>2 DEF CallRecords
      <3> QED
        BY <1>2, <1>4, <2>2, <3>1
    <2> QED
      BY <2>1, <2>2
  <1> QED
    BY <1>3, <1>4

\* A full line is one batch: its records of the lowest tier are promoted.
LEMMA FullBatch ==
    ASSUME MemoryAssumption, NEW line \in Seq(Records), Len(line) = BatchSize
    PROVE  /\ Memory!Promoted(line) = {i \in 1 .. BatchSize : tier[line[i]] = "SHORT"}
           /\ Memory!Rest(line) = << >>
  <1>1. SubSeq(line, 1, BatchSize) = line
    BY SubSeqFull
  <1>2. DOMAIN line = 1 .. BatchSize
    BY LenProperties
  <1>3. SubSeq(line, BatchSize + 1, BatchSize) = << >>
    BY SubSeqEmpty DEF MemoryAssumption
  <1> QED
    BY <1>1, <1>2, <1>3 DEF Memory!Promoted, Memory!Rest

\* There are as many children of a batch as it has records to promote.
LEMMA ChildrenAreDistinct ==
    ASSUME MemoryAssumption, NEW line \in Seq(Records), Len(line) = BatchSize,
           Memory!Cardinality(Memory!Promoted(line)) <= Memory!Cardinality(Memory!Idle)
    PROVE  /\ Memory!Child(line) \in [Memory!Promoted(line) -> Memory!Idle]
           /\ \A i, j \in Memory!Promoted(line) :
                 Memory!Child(line)[i] = Memory!Child(line)[j] => i = j
  <1> DEFINE P == Memory!Promoted(line)
             I == Memory!Idle
             p == Cardinality(P)
             i == Cardinality(I)
  <1>1. IsFiniteSet(I)
    <2>1. IsFiniteSet(1 .. MaxCalls)
      BY FS_Interval DEF MemoryAssumption
    <2> QED
      BY <2>1, FS_Subset DEF Memory!Idle, Memory!Coroutines
  <1>2. IsFiniteSet(P)
    <2>1. IsFiniteSet(1 .. BatchSize) /\ P \subseteq 1 .. BatchSize
      BY FS_Interval, FullBatch DEF MemoryAssumption
    <2> QED
      BY <2>1, FS_Subset
  <1>3. p <= i
    BY DEF Memory!Cardinality, Cardinality
  <1> HIDE DEF P, I
  <1>4. /\ p \in Nat /\ ExistsBijection(1 .. p, P)
        /\ i \in Nat /\ ExistsBijection(1 .. i, I)
    BY <1>1, <1>2, FS_CardinalityType
  <1> HIDE DEF p, i
  <1>5. ExistsInjection(1 .. p, 1 .. i)
    BY <1>3, <1>4, Fun_NatInjLeq
  <1>6. ExistsInjection(P, 1 .. p) /\ ExistsInjection(1 .. i, I)
    <2>1. ExistsBijection(P, 1 .. p)
      BY <1>4, Fun_ExistsBijSymmetric
    <2> QED
      BY <1>4, <2>1, Zenon DEF ExistsBijection, Bijection, ExistsInjection
  <1>7. ExistsInjection(P, 1 .. i)
    BY <1>5, <1>6, Fun_ExistsInjTransitive
  <1>8. ExistsInjection(P, I)
    BY <1>6, <1>7, Fun_ExistsInjTransitive
  <1>9. PICK f \in [P -> I] : \A a, b \in P : f[a] = f[b] => a = b
    BY <1>8 DEF ExistsInjection, Injection, IsInjective
  <1> USE DEF P, I
  <1> QED
    BY <1>9 DEF Memory!Child
\* A step of one coroutine: only its own promotion can be over with it.
LEMMA OneRuns ==
    ASSUME MemoryInv, NEW c \in Memory!Coroutines, NEW x \in {Memory!Free} \union CallRecords,
           co' = [co EXCEPT ![c] = x]
    PROVE  /\ co' \in [Memory!Coroutines -> {Memory!Free} \union CallRecords]
           /\ co'[c] = x
           /\ \A d \in Memory!Coroutines : d # c => co'[d] = co[d]
           /\ \A m : Memory!Promoting(m) =>
                 Memory!Promoting(m)' \/ (co[c] # Memory!Free /\ co[c].goal # "none" /\ m = co[c].rec)
           /\ x \in CallRecords /\ x.goal # "none" => Memory!Promoting(x.rec)'
  <1>1. /\ co' \in [Memory!Coroutines -> {Memory!Free} \union CallRecords]
        /\ co'[c] = x
        /\ \A d \in Memory!Coroutines : d # c => co'[d] = co[d]
    BY DEF MemoryInv, MemoryTypes
  <1>2. ASSUME NEW m, Memory!Promoting(m)
        PROVE  Memory!Promoting(m)' \/ (co[c] # Memory!Free /\ co[c].goal # "none" /\ m = co[c].rec)
    <2>1. PICK d \in Memory!Coroutines : co[d] # Memory!Free /\ co[d].rec = m /\ co[d].goal # "none"
      BY <1>2 DEF Memory!Promoting, Memory!Busy, Memory!Idle
    <2>2. CASE d = c
      BY <2>1, <2>2
    <2>3. CASE d # c
      <3>1. d \in Memory!Busy' /\ co'[d] = co[d]
        BY <1>1, <2>1, <2>3 DEF Memory!Busy, Memory!Idle
      <3> QED
        BY <2>1, <3>1 DEF Memory!Promoting
    <2> QED
      BY <2>2, <2>3
  <1>3. ASSUME x \in CallRecords, x.goal # "none" PROVE Memory!Promoting(x.rec)'
    <2>1. x # Memory!Free
      BY <1>3 DEF CallRecords, Memory!Free
    <2>2. c \in Memory!Busy'
      BY <1>1, <2>1 DEF Memory!Busy, Memory!Idle
    <2> QED
      BY <1>1, <1>3, <2>2 DEF Memory!Promoting
  <1> QED
    BY <1>1, <1>2, <1>3

\* What a step may do to a record without its being forgotten.
LEMMA Remembers ==
    ASSUME NEW m, NotForgotten(m), WhereItSays(m),
           m \in cache' => m \in cache,
           hits'[m] = hits[m], tier'[m] = tier[m],
           m \in Memory!ToSet(pending) => m \in Memory!ToSet(pending)' \/ Memory!Promoting(m)',
           Memory!Promoting(m) => Memory!Promoting(m)' \/ tier[m] # "SHORT" \/ m \in dropped',
           dropped \subseteq dropped', long \subseteq long', cleaned \subseteq cleaned',
           medium \subseteq medium' \union cleaned'
    PROVE  NotForgotten(m)' /\ WhereItSays(m)'
  BY DEF NotForgotten, WhereItSays

\* store, eviction, cleanup, and calls from outside.
LEMMA OutsideSteps ==
    ASSUME MemoryAssumption, MemoryInv,
           \/ \E m \in Records : Memory!StoreInRedis(m) \/ Memory!StoreInPostgres(m) \/ Memory!Evict(m)
           \/ \E expired \in SUBSET Records : Memory!cleanup_expired(expired)
    PROVE  MemoryInv'
  <1>1. \A m : Memory!Promoting(m)' <=> Memory!Promoting(m)
    BY DEF Memory!StoreInRedis, Memory!StoreInPostgres, Memory!Evict, Memory!cleanup_expired,
           Memory!Promoting, Memory!Busy, Memory!Idle
  <1>2. UNCHANGED <<hits, pending, co, dropped>> /\ Memory!ToSet(pending)' = Memory!ToSet(pending)
    BY DEF Memory!StoreInRedis, Memory!StoreInPostgres, Memory!Evict, Memory!cleanup_expired
  <1>3. \A c \in Memory!Coroutines : CoroutineInv(c)'
    BY <1>2 DEF MemoryInv, CoroutineInv
  <1>4. ASSUME NEW m \in Records, Memory!StoreInRedis(m) PROVE MemoryInv'
    <2>1. MemoryTypes' /\ \A k \in Records : hits'[k] # 0 => k \in stored'
      BY <1>4 DEF Memory!StoreInRedis, MemoryInv, MemoryTypes
    <2>2. ASSUME NEW k \in Records PROVE NotForgotten(k)' /\ WhereItSays(k)'
      <3>1. hits[k] = Threshold => k \in stored
        BY DEF MemoryInv, MemoryAssumption
      <3>2. NotForgotten(k) /\ WhereItSays(k)
        BY DEF MemoryInv
      <3> QED
        BY <1>1, <1>2, <1>4, <3>1, <3>2 DEF Memory!StoreInRedis, NotForgotten, WhereItSays
    <2> QED
      BY <1>3, <2>1, <2>2 DEF MemoryInv
  <1>5. ASSUME NEW m \in Records, Memory!StoreInPostgres(m) PROVE MemoryInv'
    <2>1. MemoryTypes' /\ \A k \in Records : hits'[k] # 0 => k \in stored'
      BY <1>5 DEF Memory!StoreInPostgres, MemoryInv, MemoryTypes
    <2>2. ASSUME NEW k \in Records PROVE NotForgotten(k)' /\ WhereItSays(k)'
      <3>1. NotForgotten(k) /\ WhereItSays(k) /\ tier'[k] = IF k = m THEN "MEDIUM" ELSE tier[k]
        BY <1>5 DEF MemoryInv, MemoryTypes, Memory!StoreInPostgres
      <3> QED
        BY <1>1, <1>2, <1>5, <3>1 DEF Memory!StoreInPostgres, NotForgotten, WhereItSays
    <2> QED
      BY <1>3, <2>1, <2>2 DEF MemoryInv
  <1>6. ASSUME NEW m \in Records, Memory!Evict(m) PROVE MemoryInv'
    <2>1. MemoryTypes' /\ \A k \in Records : hits'[k] # 0 => k \in stored'
      BY <1>6 DEF Memory!Evict, MemoryInv, MemoryTypes
    <2>2. \A k \in Records : NotForgotten(k)' /\ WhereItSays(k)'
      BY <1>1, <1>2, <1>6, Remembers DEF Memory!Evict, MemoryInv
    <2> QED
      BY <1>3, <2>1, <2>2 DEF MemoryInv
  <1>7. ASSUME NEW expired \in SUBSET Records, Memory!cleanup_expired(expired) PROVE MemoryInv'
    <2>1. MemoryTypes' /\ \A k \in Records : hits'[k] # 0 => k \in stored'
      BY <1>7 DEF Memory!cleanup_expired, MemoryInv, MemoryTypes
    <2>2. \A k \in Records : NotForgotten(k)' /\ WhereItSays(k)'
      BY <1>1, <1>2, <1>7, Remembers DEF Memory!cleanup_expired, MemoryInv
    <2> QED
      BY <1>3, <2>1, <2>2 DEF MemoryInv
  <1> QED
    BY <1>4, <1>5, <1>6, <1>7
\* A coroutine that ends, or goes on to its write, when nothing else changes.
LEMMA OneStops ==
    ASSUME MemoryInv, NEW c \in Memory!Coroutines, NEW x \in {Memory!Free} \union CallRecords,
           co[c] # Memory!Free, co' = [co EXCEPT ![c] = x],
           UNCHANGED <<stored, cache, cleaned, tier, hits, pending>>,
           medium \subseteq medium', long \subseteq long', dropped \subseteq dropped',
           \/ x = Memory!Free
           \/ /\ x \in CallRecords /\ x.rec = co[c].rec /\ x.goal = co[c].goal /\ x.goal # "none"
              /\ x.pc = "writing" \/ (x.pc = "copying" /\ x.goal = "LONG"),
           \/ co[c].goal = "none"
           \/ tier[co[c].rec] # "SHORT"
           \/ co[c].rec \in dropped'
           \/ x \in CallRecords
    PROVE  MemoryInv'
  <1>1. /\ co' \in [Memory!Coroutines -> {Memory!Free} \union CallRecords]
        /\ co'[c] = x
        /\ \A d \in Memory!Coroutines : d # c => co'[d] = co[d]
        /\ \A m : Memory!Promoting(m) => Memory!Promoting(m)' \/ (co[c].goal # "none" /\ m = co[c].rec)
        /\ x \in CallRecords /\ x.goal # "none" => Memory!Promoting(x.rec)'
    BY OneRuns
  <1>2. MemoryTypes' /\ \A m \in Records : hits'[m] # 0 => m \in stored'
    BY <1>1 DEF MemoryInv, MemoryTypes
  <1>3. ASSUME NEW d \in Memory!Coroutines PROVE CoroutineInv(d)'
    <2>1. CASE d = c
      BY <1>1, <2>1 DEF CoroutineInv, Memory!Free
    <2>2. CASE d # c
      BY <1>1, <2>2 DEF MemoryInv, CoroutineInv
    <2> QED
      BY <2>1, <2>2
  <1>4. ASSUME NEW m \in Records PROVE NotForgotten(m)' /\ WhereItSays(m)'
    <2>1. NotForgotten(m) /\ WhereItSays(m)
      BY DEF MemoryInv
    <2>2. Memory!Promoting(m) => Memory!Promoting(m)' \/ tier[m] # "SHORT" \/ m \in dropped'
      <3>1. x \in CallRecords => Memory!Promoting(x.rec)' /\ x.rec = co[c].rec
        BY <1>1 DEF CallRecords, Memory!Free
      <3>2. CASE m = co[c].rec /\ x \in CallRecords
        <4>1. m = x.rec
          BY <3>1, <3>2
        <4> QED
          BY <3>1, <3>2, <4>1
      <3>3. CASE m = co[c].rec /\ x \notin CallRecords
        BY <1>1, <3>3
      <3>4. CASE m # co[c].rec
        BY <1>1, <3>4
      <3> QED
        BY <3>2, <3>3, <3>4
    <2>3. hits'[m] = hits[m] /\ tier'[m] = tier[m] /\ Memory!ToSet(pending)' = Memory!ToSet(pending)
      OBVIOUS
    <2> QED
      BY <2>1, <2>2, <2>3, Remembers
  <1> QED
    BY <1>2, <1>3, <1>4 DEF MemoryInv

\* The ends of a coroutine, good and bad.
LEMMA Ends ==
    ASSUME MemoryAssumption, MemoryInv, NEW c \in Memory!Coroutines,
           Memory!Miss(c) \/ Memory!Resume(c) \/ Memory!WriteCopy(c) \/ Memory!WriteFails(c)
    PROVE  MemoryInv'
  <1>1. co[c] # Memory!Free
    BY DEF Memory!Miss, Memory!Resume, Memory!WriteCopy, Memory!WriteFails, Memory!Free
  <1>2. co[c] \in CallRecords
    BY <1>1 DEF MemoryInv, MemoryTypes
  <1>3. CASE Memory!Miss(c)
    <2> DEFINE y == [co[c] EXCEPT !.pc = "copying"]
    <2>1. /\ UNCHANGED <<stored, cache, medium, long, cleaned, tier, hits, pending>>
          /\ \/ co' = [co EXCEPT ![c] = Memory!Free] /\ dropped' = dropped \union Memory!Promotions({c})
             \/ co[c].goal = "LONG" /\ co' = [co EXCEPT ![c] = y] /\ UNCHANGED dropped
      BY <1>3 DEF Memory!Miss
    <2>2. y \in CallRecords /\ y.rec = co[c].rec /\ y.goal = co[c].goal /\ y.pc = "copying"
      BY <1>2 DEF CallRecords
    <2> HIDE DEF y
    <2>3. co[c].goal = "none" \/ co[c].rec \in Memory!Promotions({c})
      BY DEF Memory!Promotions
    <2>4. CASE co' = [co EXCEPT ![c] = Memory!Free] /\ dropped' = dropped \union Memory!Promotions({c})
      BY <1>1, <2>1, <2>3, <2>4, OneStops
    <2>5. CASE co[c].goal = "LONG" /\ co' = [co EXCEPT ![c] = y] /\ UNCHANGED dropped
      <3>1. y \in {Memory!Free} \union CallRecords /\ y.goal # "none"
        BY <2>2, <2>5
      <3> QED
        BY <1>1, <2>1, <2>2, <2>5, <3>1, OneStops
    <2> QED
      BY <2>1, <2>4, <2>5
  <1>4. CASE Memory!Resume(c)
    <2> DEFINE x == Memory!After(c)
    <2>1. /\ UNCHANGED <<stored, cache, medium, long, cleaned, tier, hits, pending, dropped>>
          /\ co' = [co EXCEPT ![c] = x]
      BY <1>4 DEF Memory!Resume
    <2>2. /\ x \in {Memory!Free} \union CallRecords
          /\ \/ x = Memory!Free /\ (co[c].goal = "none" \/ tier[co[c].rec] # "SHORT")
             \/ /\ x \in CallRecords /\ x.pc = "writing" /\ x.goal # "none"
                /\ x.rec = co[c].rec /\ x.goal = co[c].goal
      BY <1>1, AfterRetrieve
    <2> HIDE DEF x
    <2> QED
      BY <1>1, <2>1, <2>2, OneStops
  <1>5. CASE Memory!WriteCopy(c)
    <2>1. /\ UNCHANGED <<stored, cache, medium, cleaned, tier, hits, pending>>
          /\ long \subseteq long' /\ co' = [co EXCEPT ![c] = Memory!Free]
          /\ dropped' = dropped \union {co[c].rec}
      BY <1>5 DEF Memory!WriteCopy
    <2> QED
      BY <1>1, <2>1, OneStops
  <1>6. CASE Memory!WriteFails(c)
    <2>1. /\ UNCHANGED <<stored, cache, cleaned, tier, hits, pending>>
          /\ medium \subseteq medium' /\ long \subseteq long' /\ dropped' = dropped \union {co[c].rec}
          /\ co' = [co EXCEPT ![c] = Memory!Free]
      BY <1>6 DEF Memory!WriteFails
    <2> QED
      BY <1>1, <2>1, OneStops
  <1> QED
    BY <1>3, <1>4, <1>5, <1>6

\* A write that succeeds raises the tier to where it has put the record.
LEMMA Writes ==
    ASSUME MemoryAssumption, MemoryInv, NEW c \in Memory!Coroutines, Memory!Write(c)
    PROVE  MemoryInv'
  <1> DEFINE m == co[c].rec
             goal == co[c].goal
  <1>1. /\ co[c].pc = "writing" /\ co[c] # Memory!Free
        /\ UNCHANGED <<stored, cache, cleaned, hits, pending, dropped>>
        /\ medium \subseteq medium' /\ long \subseteq long'
        /\ goal = "MEDIUM" => m \in medium'
        /\ goal # "MEDIUM" => m \in long'
        /\ tier' = [tier EXCEPT ![m] = goal]
        /\ co' = [co EXCEPT ![c] = Memory!Free]
    BY DEF Memory!Write, Memory!Free
  <1>2. co[c] \in CallRecords /\ m \in Records /\ goal \in {"MEDIUM", "LONG"}
    BY <1>1 DEF MemoryInv, MemoryTypes, CallRecords, CoroutineInv
  <1>3. /\ co' \in [Memory!Coroutines -> {Memory!Free} \union CallRecords]
        /\ co'[c] = Memory!Free
        /\ \A d \in Memory!Coroutines : d # c => co'[d] = co[d]
        /\ \A k : Memory!Promoting(k) => Memory!Promoting(k)' \/ k = m
    BY <1>1, OneRuns
  <1> HIDE DEF goal
  <1>4. /\ tier' \in [Records -> {"SHORT", "MEDIUM", "LONG"}]
        /\ tier'[m] = goal
        /\ \A k \in Records : k # m => tier'[k] = tier[k]
    BY <1>1, <1>2 DEF MemoryInv, MemoryTypes
  <1>5. MemoryTypes' /\ \A k \in Records : hits'[k] # 0 => k \in stored'
    BY <1>1, <1>3, <1>4 DEF MemoryInv, MemoryTypes
  <1> HIDE DEF m
  <1>6. \A d \in Memory!Coroutines : CoroutineInv(d)'
    BY <1>1, <1>3 DEF MemoryInv, CoroutineInv, Memory!Free
  <1>7. ASSUME NEW k \in Records PROVE NotForgotten(k)' /\ WhereItSays(k)'
    <2>1. NotForgotten(k) /\ WhereItSays(k)
      BY DEF MemoryInv
    <2>2. CASE k = m
      BY <1>1, <1>2, <1>4, <2>2 DEF NotForgotten, WhereItSays
    <2>3. CASE k # m
      <3>1. /\ hits'[k] = hits[k] /\ tier'[k] = tier[k] /\ Memory!ToSet(pending)' = Memory!ToSet(pending)
            /\ Memory!Promoting(k) => Memory!Promoting(k)'
        BY <1>1, <1>3, <1>4, <2>3
      <3> QED
        BY <1>1, <2>1, <3>1, Remembers
    <2> QED
      BY <2>2, <2>3
  <1> QED
    BY <1>5, <1>6, <1>7 DEF MemoryInv
\* What is appended to the line is in it, with what was.
LEMMA Appended ==
    ASSUME NEW q \in Seq(Records), NEW m \in Records
    PROVE  /\ Append(q, m) \in Seq(Records) /\ Len(Append(q, m)) = Len(q) + 1
           /\ Memory!ToSet(Append(q, m)) = Memory!ToSet(q) \union {m}
           /\ \A k \in Memory!ToSet(Append(q, m)) : \E i \in 1 .. Len(q) + 1 : Append(q, m)[i] = k
  <1>1. /\ Append(q, m) \in Seq(Records) /\ Len(Append(q, m)) = Len(q) + 1
        /\ \A i \in 1 .. Len(q) : Append(q, m)[i] = q[i]
        /\ Append(q, m)[Len(q) + 1] = m
    BY AppendProperties
  <1>2. /\ DOMAIN q = 1 .. Len(q) /\ DOMAIN Append(q, m) = 1 .. (Len(q) + 1) /\ Len(q) \in Nat
    BY <1>1, LenProperties
  <1> DEFINE t == Append(q, m)
  <1> HIDE DEF t
  <1>3. /\ t \in Seq(Records) /\ Len(t) = Len(q) + 1
        /\ \A i \in 1 .. Len(q) : t[i] = q[i]
        /\ t[Len(q) + 1] = m
        /\ DOMAIN t = 1 .. (Len(q) + 1)
    BY <1>1, <1>2 DEF t
  <1>4. Memory!ToSet(t) = Memory!ToSet(q) \union {m}
    BY <1>2, <1>3 DEF Memory!ToSet
  <1>5. \A k \in Memory!ToSet(t) : \E i \in 1 .. Len(q) + 1 : t[i] = k
    BY <1>3 DEF Memory!ToSet
  <1> QED
    BY <1>3, <1>4, <1>5 DEF t

\* A read from Redis: the record is queued, or its line is run as a batch, and
\* every record in it of the lowest tier gets a coroutine.
LEMMA Enqueues ==
    ASSUME MemoryAssumption, MemoryInv, NEW c \in Memory!Coroutines, co[c] \in CallRecords,
           co[c].pc = "fetching", NEW line, line = Append(pending, co[c].rec),
           Memory!EnqueuePromotion(c, line)
    PROVE  /\ pending' \in Seq(Records) /\ Len(pending') < BatchSize
           /\ co' \in [Memory!Coroutines -> {Memory!Free} \union CallRecords]
           /\ \A d \in Memory!Coroutines : co'[d].pc = "writing" => co'[d].goal # "none"
           /\ \A d \in Memory!Coroutines : co'[d].pc = "copying" => co'[d] = co[d]
           /\ \A k \in Memory!ToSet(pending) \union {co[c].rec} :
                 tier[k] = "SHORT" => k \in Memory!ToSet(pending') \/ Memory!Promoting(k)'
           /\ \A k \in Records :
                 Memory!Promoting(k) => Memory!Promoting(k)' \/ tier[k] # "SHORT"
  <1> DEFINE m == co[c].rec
  <1>1. /\ m \in Records /\ co[c] # Memory!Free /\ pending \in Seq(Records) /\ Len(pending) \in Nat
        /\ Len(pending) < BatchSize /\ co \in [Memory!Coroutines -> {Memory!Free} \union CallRecords]
    BY LenProperties DEF MemoryInv, MemoryTypes, CallRecords, Memory!Free
  <1>2. /\ line \in Seq(Records) /\ Len(line) = Len(pending) + 1
        /\ Memory!ToSet(line) = Memory!ToSet(pending) \union {m}
        /\ \A k \in Memory!ToSet(line) : \E i \in 1 .. Len(pending) + 1 : line[i] = k
    BY <1>1, Appended
  <1>3. PICK x \in {Memory!Free} \union CallRecords :
        /\ x = Memory!After(c)
        /\ \/ x = Memory!Free /\ (co[c].goal = "none" \/ tier[m] # "SHORT")
           \/ x \in CallRecords /\ x.pc = "writing" /\ x.goal # "none" /\ x.rec = m /\ x.goal = co[c].goal
    BY <1>1, AfterRetrieve
  <1>4. CASE Len(line) < BatchSize
    <2>1. pending' = line /\ co' = [co EXCEPT ![c] = x]
      BY <1>2, <1>3, <1>4 DEF Memory!EnqueuePromotion
    <2> HIDE DEF m
    <2>2. /\ co' \in [Memory!Coroutines -> {Memory!Free} \union CallRecords]
          /\ co'[c] = x
          /\ \A d \in Memory!Coroutines : d # c => co'[d] = co[d]
          /\ \A k : Memory!Promoting(k) => Memory!Promoting(k)' \/ (co[c].goal # "none" /\ k = m)
          /\ x \in CallRecords /\ x.goal # "none" => Memory!Promoting(x.rec)'
      BY <1>3, <2>1, OneRuns DEF m
    <2>3. \A d \in Memory!Coroutines : co'[d].pc = "writing" => co'[d].goal # "none"
      BY <1>3, <2>2 DEF MemoryInv, CoroutineInv, Memory!Free
    <2>4. \A d \in Memory!Coroutines : co'[d].pc = "copying" => co'[d] = co[d]
      BY <1>3, <2>2 DEF Memory!Free
    <2>5. ASSUME NEW k \in Records, Memory!Promoting(k) PROVE Memory!Promoting(k)' \/ tier[k] # "SHORT"
      <3>1. CASE k = m /\ x \in CallRecords
        <4>1. k = x.rec /\ x.goal # "none"
          BY <1>3, <3>1 DEF CallRecords, Memory!Free
        <4> QED
          BY <2>2, <3>1, <4>1
      <3>2. CASE k = m /\ x \notin CallRecords
        BY <1>3, <2>2, <2>5, <3>2
      <3>3. CASE k # m
        BY <2>2, <2>5, <3>3
      <3> QED
        BY <3>1, <3>2, <3>3
    <2>6. pending' \in Seq(Records) /\ Len(pending') < BatchSize
          /\ \A k \in Memory!ToSet(pending) \union {m} : k \in Memory!ToSet(pending')
      BY <1>2, <1>4, <2>1
    <2> QED
      BY <2>2, <2>3, <2>4, <2>5, <2>6 DEF m
  <1>5. CASE ~(Len(line) < BatchSize)
    <2> DEFINE P == Memory!Promoted(line)
               child == Memory!Child(line)
               w == [co[c] EXCEPT !.pc = "waiting"]
               Runs(d) == Memory!Calling(line[CHOOSE i \in P : child[i] = d], "MEDIUM", c)
    <2>1. /\ pending' = Memory!Rest(line)
          /\ Memory!Cardinality(P) <= Memory!Cardinality(Memory!Idle)
          /\ co' = [d \in Memory!Coroutines |-> IF d = c THEN w
                                                ELSE IF \E i \in P : child[i] = d THEN Runs(d) ELSE co[d]]
      BY <1>2, <1>5 DEF Memory!EnqueuePromotion
    <2>2. Len(line) = BatchSize
      BY <1>1, <1>2, <1>5 DEF MemoryAssumption
    <2>3. P = {i \in 1 .. BatchSize : tier[line[i]] = "SHORT"} /\ pending' = << >>
      BY <1>2, <2>1, <2>2, FullBatch
    <2>4. /\ child \in [P -> Memory!Idle]
          /\ \A i, j \in P : child[i] = child[j] => i = j
      BY <1>2, <2>1, <2>2, ChildrenAreDistinct
    <2>5. w \in CallRecords /\ w.pc = "waiting" /\ w.rec = m /\ w.goal = co[c].goal
      BY DEF CallRecords
    <2>6. \A i \in 1 .. BatchSize : line[i] \in Records
      BY <1>2, <2>2, LenProperties
    <2> HIDE DEF m, P, child, w
    <2>7. ASSUME NEW d \in Memory!Coroutines, NEW i \in P, child[i] = d
          PROVE  /\ Runs(d) \in CallRecords /\ Runs(d).rec = line[i]
                 /\ Runs(d).goal = "MEDIUM" /\ Runs(d).pc = "fetching"
      <3>1. (CHOOSE j \in P : child[j] = d) = i
        BY <2>4, <2>7
      <3>2. Runs(d) = [pc |-> "fetching", rec |-> line[i], goal |-> "MEDIUM", parent |-> c]
        BY <3>1 DEF Memory!Calling
      <3>3. line[i] \in Records
        BY <2>3, <2>6
      <3>4. ASSUME NEW r, r = [pc |-> "fetching", rec |-> line[i], goal |-> "MEDIUM", parent |-> c]
            PROVE  r \in CallRecords /\ r.rec = line[i] /\ r.goal = "MEDIUM" /\ r.pc = "fetching"
        BY <3>3, <3>4 DEF CallRecords
      <3> HIDE DEF Runs
      <3> QED
        BY <3>2, <3>4, Zenon
    <2> HIDE DEF Runs
    <2>8. c \notin Memory!Idle
      BY <1>1 DEF Memory!Idle
    <2>9. /\ co'[c] = w
          /\ \A d \in Memory!Coroutines : d # c /\ (\E i \in P : child[i] = d) => co'[d] = Runs(d)
          /\ \A d \in Memory!Coroutines : d # c /\ ~(\E i \in P : child[i] = d) => co'[d] = co[d]
      BY <2>1
    <2>10. co' \in [Memory!Coroutines -> {Memory!Free} \union CallRecords]
      BY <1>1, <2>1, <2>5, <2>7
    <2>11. ASSUME NEW i \in P, NEW k, k = line[i] PROVE Memory!Promoting(k)'
      <3>1. child[i] \in Memory!Coroutines /\ child[i] # c /\ child[i] \in Memory!Idle
        BY <2>4, <2>8 DEF Memory!Idle
      <3>2. co'[child[i]] = Runs(child[i])
        BY <2>9, <3>1
      <3>3. /\ co'[child[i]] \in CallRecords /\ co'[child[i]].rec = line[i] /\ co'[child[i]].goal = "MEDIUM"
        BY <2>7, <3>1, <3>2
      <3>4. child[i] \in Memory!Busy'
        BY <3>1, <3>3 DEF Memory!Busy, Memory!Idle, CallRecords, Memory!Free
      <3> QED
        BY <2>11, <3>3, <3>4 DEF Memory!Promoting
    <2>12. ASSUME NEW k \in Memory!ToSet(pending) \union {m}, tier[k] = "SHORT"
           PROVE  Memory!Promoting(k)'
      <3>1. PICK i \in 1 .. BatchSize : line[i] = k
        BY <1>2, <2>2
      <3>2. i \in P
        BY <2>3, <2>12, <3>1
      <3> QED
        BY <2>11, <3>1, <3>2
    <2>13. ASSUME NEW k \in Records, Memory!Promoting(k) PROVE Memory!Promoting(k)'
      <3>1. PICK d \in Memory!Coroutines : co[d] # Memory!Free /\ co[d].rec = k /\ co[d].goal # "none"
        BY <2>13 DEF Memory!Promoting, Memory!Busy, Memory!Idle
      <3>2. /\ co'[d] \in CallRecords /\ co'[d].rec = k /\ co'[d].goal # "none"
        <4>1. CASE d = c
          BY <2>5, <2>9, <3>1, <4>1 DEF m
        <4>2. CASE d # c
          <5>1. d \notin Memory!Idle
            BY <3>1 DEF Memory!Idle
          <5>2. co'[d] = co[d]
            BY <2>4, <2>9, <4>2, <5>1
          <5> QED
            BY <1>1, <3>1, <5>2
        <4> QED
          BY <4>1, <4>2
      <3>3. d \in Memory!Busy'
        BY <3>2 DEF Memory!Busy, Memory!Idle, CallRecords, Memory!Free
      <3> QED
        BY <3>2, <3>3 DEF Memory!Promoting
    <2>14. ASSUME NEW d \in Memory!Coroutines
           PROVE  /\ co'[d].pc = "writing" => co'[d].goal # "none"
                  /\ co'[d].pc = "copying" => co'[d] = co[d]
      <3>1. CASE d = c
        BY <2>5, <2>9, <3>1
      <3>2. CASE d # c /\ \E i \in P : child[i] = d
        BY <2>7, <2>9, <3>2
      <3>3. CASE d # c /\ ~(\E i \in P : child[i] = d)
        BY <2>9, <3>3 DEF MemoryInv, CoroutineInv
      <3> QED
        BY <3>1, <3>2, <3>3
    <2>15. pending' \in Seq(Records) /\ Len(pending') < BatchSize
      BY <2>3 DEF MemoryAssumption
    <2> QED
      BY <2>10, <2>12, <2>13, <2>14, <2>15 DEF m
  <1> QED
    BY <1>4, <1>5 DEF m
\* A read from Redis counts, and a record that is read often enough is promoted.
LEMMA Hits ==
    ASSUME MemoryAssumption, MemoryInv, NEW c \in Memory!Coroutines, Memory!Hit(c)
    PROVE  MemoryInv'
  <1> DEFINE m == co[c].rec
  <1>1. /\ co[c].pc = "fetching" /\ m \in cache
        /\ hits' = [hits EXCEPT ![m] = IF hits[m] < Threshold THEN hits[m] + 1 ELSE hits[m]]
        /\ UNCHANGED <<stored, cache, medium, long, cleaned, tier>>
        /\ IF hits'[m] >= Threshold
           THEN Memory!EnqueuePromotion(c, Append(pending, m)) /\ dropped' = dropped \ {m}
           ELSE co' = [co EXCEPT ![c] = Memory!After(c)] /\ UNCHANGED <<pending, dropped>>
    BY DEF Memory!Hit
  <1>2. co[c] # Memory!Free /\ co[c] \in CallRecords /\ m \in Records
    BY <1>1 DEF MemoryInv, MemoryTypes, CallRecords, Memory!Free
  <1> HIDE DEF m
  <1>3. /\ hits' \in [Records -> 0 .. Threshold]
        /\ hits[m] < Threshold => hits'[m] = hits[m] + 1
        /\ \A k \in Records : k # m => hits'[k] = hits[k]
        /\ hits[m] \in 0 .. Threshold
    BY <1>1, <1>2 DEF MemoryInv, MemoryTypes, MemoryAssumption
  <1>4. \A k \in Records : hits'[k] # 0 => k \in stored'
    BY <1>1, <1>2, <1>3 DEF MemoryInv, MemoryTypes
  <1>5. \A k \in Records : WhereItSays(k)'
    BY <1>1 DEF MemoryInv, WhereItSays
  <1>6. ASSUME pending' \in Seq(Records), Len(pending') < BatchSize,
               co' \in [Memory!Coroutines -> {Memory!Free} \union CallRecords],
               \A d \in Memory!Coroutines : co'[d].pc = "writing" => co'[d].goal # "none",
               \A d \in Memory!Coroutines : co'[d].pc = "copying" => co'[d] = co[d],
               \A k \in Memory!ToSet(pending) :
                  tier[k] = "SHORT" => k \in Memory!ToSet(pending') \/ Memory!Promoting(k)',
               \A k \in Records : Memory!Promoting(k) => Memory!Promoting(k)' \/ tier[k] # "SHORT",
               hits'[m] >= Threshold /\ tier[m] = "SHORT" =>
                  m \in Memory!ToSet(pending') \/ \A k : k = m => Memory!Promoting(k)'
        PROVE  MemoryInv'
    <2>1. MemoryTypes'
      BY <1>1, <1>3, <1>6 DEF MemoryInv, MemoryTypes
    <2>2. \A d \in Memory!Coroutines : CoroutineInv(d)'
      BY <1>1, <1>6 DEF MemoryInv, CoroutineInv
    <2>3. ASSUME NEW k \in Records PROVE NotForgotten(k)'
      <3>1. NotForgotten(k) /\ Memory!ToSet(pending') = Memory!ToSet(pending)'
        BY DEF MemoryInv, Memory!ToSet
      <3>2. CASE k = m
        BY <1>1, <1>3, <1>6, <3>1, <3>2 DEF NotForgotten, MemoryAssumption
      <3>3. CASE k # m
        <4>1. /\ hits'[k] = hits[k] /\ (k \in dropped => k \in dropped')
              /\ cache' = cache /\ tier' = tier
          BY <1>1, <1>3, <3>3
        <4>2. tier[k] = "SHORT" /\ k \in Memory!ToSet(pending) =>
                 k \in Memory!ToSet(pending)' \/ Memory!Promoting(k)'
          BY <1>6, <3>1
        <4>3. tier[k] = "SHORT" /\ Memory!Promoting(k) => Memory!Promoting(k)'
          BY <1>6
        <4> QED
          BY <3>1, <4>1, <4>2, <4>3 DEF NotForgotten
      <3> QED
        BY <3>2, <3>3
    <2> QED
      BY <1>4, <1>5, <2>1, <2>2, <2>3 DEF MemoryInv
  <1>7. CASE hits'[m] >= Threshold
    <2>1. PICK line : line = Append(pending, m) /\ Memory!EnqueuePromotion(c, line)
      BY <1>1, <1>7
    <2>2. /\ pending' \in Seq(Records) /\ Len(pending') < BatchSize
          /\ co' \in [Memory!Coroutines -> {Memory!Free} \union CallRecords]
          /\ \A d \in Memory!Coroutines : co'[d].pc = "writing" => co'[d].goal # "none"
          /\ \A d \in Memory!Coroutines : co'[d].pc = "copying" => co'[d] = co[d]
          /\ \A k \in Memory!ToSet(pending) \union {m} :
                tier[k] = "SHORT" => k \in Memory!ToSet(pending') \/ Memory!Promoting(k)'
          /\ \A k \in Records :
                Memory!Promoting(k) => Memory!Promoting(k)' \/ tier[k] # "SHORT"
      BY <1>1, <1>2, <2>1, Enqueues DEF m
    <2> QED
      BY <1>6, <2>2
  <1>8. CASE ~(hits'[m] >= Threshold)
    <2>1. PICK x \in {Memory!Free} \union CallRecords :
          /\ x = Memory!After(c)
          /\ \/ x = Memory!Free /\ (co[c].goal = "none" \/ tier[m] # "SHORT")
             \/ x \in CallRecords /\ x.pc = "writing" /\ x.goal # "none" /\ x.rec = m /\ x.goal = co[c].goal
      BY <1>2, AfterRetrieve DEF m
    <2>2. pending' = pending /\ co' = [co EXCEPT ![c] = x]
      BY <1>1, <1>8, <2>1
    <2>3. /\ co' \in [Memory!Coroutines -> {Memory!Free} \union CallRecords]
          /\ co'[c] = x
          /\ \A d \in Memory!Coroutines : d # c => co'[d] = co[d]
          /\ \A k : Memory!Promoting(k) => Memory!Promoting(k)' \/ (co[c].goal # "none" /\ k = m)
          /\ x \in CallRecords /\ x.goal # "none" => Memory!Promoting(x.rec)'
      BY <1>2, <2>2, OneRuns DEF m
    <2>4. \A d \in Memory!Coroutines : co'[d].pc = "writing" => co'[d].goal # "none"
      BY <2>1, <2>3 DEF MemoryInv, CoroutineInv, Memory!Free
    <2>5. \A d \in Memory!Coroutines : co'[d].pc = "copying" => co'[d] = co[d]
      BY <2>1, <2>3 DEF Memory!Free
    <2>6. ASSUME NEW k \in Records, Memory!Promoting(k) PROVE Memory!Promoting(k)' \/ tier[k] # "SHORT"
      <3>1. CASE k = m /\ x \in CallRecords
        <4>1. k = x.rec /\ x.goal # "none"
          BY <2>1, <3>1 DEF CallRecords, Memory!Free
        <4> QED
          BY <2>3, <3>1, <4>1
      <3>2. CASE k = m /\ x \notin CallRecords
        BY <2>1, <2>3, <2>6, <3>2
      <3>3. CASE k # m
        BY <2>3, <2>6, <3>3
      <3> QED
        BY <3>1, <3>2, <3>3
    <2>7. pending' \in Seq(Records) /\ Len(pending') < BatchSize /\ Memory!ToSet(pending') = Memory!ToSet(pending)
      BY <2>2 DEF MemoryInv, MemoryTypes
    <2> QED
      BY <1>6, <1>8, <2>3, <2>4, <2>5, <2>6, <2>7
  <1> QED
    BY <1>7, <1>8
\* A cancelled caller takes its coroutines with it, and what they promote.
LEMMA Cancels ==
    ASSUME MemoryInv, NEW c \in Memory!Coroutines, Memory!Cancel(c)
    PROVE  MemoryInv'
  <1> DEFINE U == Memory!Under(c)
  <1>1. /\ UNCHANGED <<stored, cache, cleaned, tier, hits, pending>>
        /\ medium \subseteq medium' /\ long \subseteq long'
        /\ dropped' = dropped \union Memory!Promotions(U)
        /\ co' = [d \in Memory!Coroutines |-> IF d \in U THEN Memory!Free ELSE co[d]]
    BY DEF Memory!Cancel
  <1> HIDE DEF U
  <1>2. MemoryTypes' /\ \A m \in Records : hits'[m] # 0 => m \in stored'
    BY <1>1 DEF MemoryInv, MemoryTypes
  <1>3. \A d \in Memory!Coroutines : CoroutineInv(d)'
    BY <1>1 DEF MemoryInv, CoroutineInv, Memory!Free
  <1>4. ASSUME NEW m \in Records PROVE NotForgotten(m)' /\ WhereItSays(m)'
    <2>1. ASSUME Memory!Promoting(m) PROVE Memory!Promoting(m)' \/ m \in dropped'
      <3>1. PICK d \in Memory!Busy : co[d].rec = m /\ co[d].goal # "none"
        BY <2>1 DEF Memory!Promoting
      <3>2. CASE d \in U
        BY <1>1, <3>1, <3>2 DEF Memory!Promotions
      <3>3. CASE d \notin U
        <4>1. co'[d] = co[d] /\ d \in Memory!Busy'
          BY <1>1, <3>1, <3>3 DEF Memory!Busy, Memory!Idle
        <4> QED
          BY <3>1, <4>1 DEF Memory!Promoting
      <3> QED
        BY <3>2, <3>3
    <2>2. NotForgotten(m) /\ WhereItSays(m) /\ Memory!ToSet(pending)' = Memory!ToSet(pending)
      BY <1>1 DEF MemoryInv
    <2> QED
      BY <1>1, <2>1, <2>2, Remembers
  <1> QED
    BY <1>2, <1>3, <1>4 DEF MemoryInv

\* Whatever coroutines run, in whatever order they wait for each other.
LEMMA MemoryStep ==
    ASSUME MemoryAssumption, MemoryInv, [Memory!Next]_(Memory!memoryVars)
    PROVE  MemoryInv'
  <1>1. CASE UNCHANGED Memory!memoryVars
    BY <1>1 DEF Memory!memoryVars, MemoryInv, MemoryTypes, CoroutineInv, NotForgotten, WhereItSays,
                Memory!Promoting, Memory!Busy, Memory!Idle, Memory!ToSet
  <1>2. ASSUME NEW c \in Memory!Coroutines, NEW m \in Records, NEW goal \in {"none", "MEDIUM", "LONG"},
               Memory!Call(c, m, goal)
        PROVE  MemoryInv'
    <2> DEFINE x == Memory!Calling(m, goal, Top)
    <2>1. /\ co[c] = Memory!Free /\ co' = [co EXCEPT ![c] = x]
          /\ UNCHANGED <<stored, cache, medium, long, cleaned, tier, hits, pending, dropped>>
      BY <1>2 DEF Memory!Call, Memory!Idle
    <2>2. x \in CallRecords /\ x.pc = "fetching"
      BY DEF Memory!Calling, CallRecords
    <2> HIDE DEF x
    <2>3. /\ co' \in [Memory!Coroutines -> {Memory!Free} \union CallRecords]
          /\ co'[c] = x
          /\ \A d \in Memory!Coroutines : d # c => co'[d] = co[d]
          /\ \A k : Memory!Promoting(k) => Memory!Promoting(k)'
      BY <2>1, <2>2, OneRuns
    <2>4. MemoryTypes' /\ \A k \in Records : hits'[k] # 0 => k \in stored'
      BY <2>1, <2>3 DEF MemoryInv, MemoryTypes
    <2>5. \A d \in Memory!Coroutines : CoroutineInv(d)'
      BY <2>1, <2>2, <2>3 DEF MemoryInv, CoroutineInv
    <2>6. ASSUME NEW k \in Records PROVE NotForgotten(k)' /\ WhereItSays(k)'
      <3>1. /\ NotForgotten(k) /\ WhereItSays(k) /\ Memory!ToSet(pending)' = Memory!ToSet(pending)
            /\ hits'[k] = hits[k] /\ tier'[k] = tier[k]
        BY <2>1 DEF MemoryInv
      <3> QED
        BY <2>1, <2>3, <3>1, Remembers
    <2> QED
      BY <2>4, <2>5, <2>6 DEF MemoryInv
  <1>3. CASE Memory!Next
    <2>1. CASE \/ \E m \in Records : Memory!StoreInRedis(m) \/ Memory!StoreInPostgres(m) \/ Memory!Evict(m)
               \/ \E expired \in SUBSET Records : Memory!cleanup_expired(expired)
      BY <2>1, OutsideSteps
    <2>2. ASSUME NEW c \in Memory!Coroutines, Memory!Run(c) PROVE MemoryInv'
      BY <2>2, Hits, Ends, Writes DEF Memory!Run
    <2>3. ASSUME NEW c \in Memory!Coroutines, Memory!Cancel(c) PROVE MemoryInv'
      BY <2>3, Cancels
    <2> QED
      BY <1>2, <1>3, <2>1, <2>2, <2>3 DEF Memory!Next
  <1> QED
    BY <1>1, <1>3

\* At the start no record has been read.
LEMMA MemoryStart ==
    ASSUME MemoryAssumption
    PROVE  Memory!Init => MemoryInv
  <1> SUFFICES ASSUME Memory!Init PROVE MemoryInv
    OBVIOUS
  <1>1. /\ \A c \in Memory!Coroutines : co[c] = Memory!Free
        /\ tier = [m \in Records |-> "SHORT"] /\ cache = {}
    BY DEF Memory!Init
  <1>2. MemoryTypes
    BY DEF Memory!Init, MemoryTypes, MemoryAssumption
  <1>3. \A m \in Records : hits[m] = 0 /\ NotForgotten(m) /\ WhereItSays(m)
    BY <1>1 DEF Memory!Init, NotForgotten, WhereItSays
  <1>4. \A c \in Memory!Coroutines : CoroutineInv(c)
    BY <1>1 DEF CoroutineInv, Memory!Free
  <1> QED
    BY <1>2, <1>3, <1>4 DEF MemoryInv

\* Of any number of records, calls and batches that wait for each other, and of
\* callers that are cancelled: a record read often enough is queued or on its
\* way, unless its promotion failed, was cancelled or took a copy since it was
\* read last, and one that says it was promoted is where it says until it is
\* cleaned up.
THEOREM MemoryPromotionIsSound ==
    ASSUME MemoryAssumption
    PROVE  Memory!Spec => []Memory!PromotionIsSound
  <1>1. Memory!Init => MemoryInv
    BY MemoryStart
  <1>2. MemoryInv /\ [Memory!Next]_(Memory!memoryVars) => MemoryInv'
    BY MemoryStep
  <1>3. MemoryInv => Memory!PromotionIsSound
    BY DEF MemoryInv, NotForgotten, WhereItSays, Memory!PromotionIsSound
  <1> QED
    BY <1>1, <1>2, <1>3, PTL DEF Memory!Spec

-----------------------------------------------------------------------------
(* The safety argument.                                                    *)

SafetySpec == Safety!SafetyInit /\ [][Safety!SafetyNext]_(Safety!safetyVars)

\* A claim is about a goal of the graph and rests on evidence in it; edges lead
\* from goals to strategies and claims and from strategies to claims; and what
\* a safety case was built on is still in the graph.
ArgumentInv ==
    /\ argGoals \subseteq ArgumentIds
    /\ DOMAIN strategies \subseteq ArgumentIds /\ DOMAIN claims \subseteq ArgumentIds
    /\ \A id \in DOMAIN claims :
          /\ claims[id] \in [goal : argGoals, refs : SUBSET evidence,
                             status : {"PENDING", "PROVEN", "ASSUMED"}]
    /\ \A e \in edges :
          \/ e[1] \in argGoals /\ e[2] \in DOMAIN strategies \union DOMAIN claims
          \/ e[1] \in DOMAIN strategies /\ e[2] \in DOMAIN claims
    /\ \A icd \in DOMAIN safetyCase : \E id \in safetyCase[icd] : id \in DOMAIN claims /\ icd \in Mentions[id]

\* A table with one entry more.
LEMMA WithEntry ==
    ASSUME NEW tbl, NEW id, NEW v
    PROVE  /\ DOMAIN Safety!With(tbl, id, v) = DOMAIN tbl \union {id}
           /\ Safety!With(tbl, id, v)[id] = v
           /\ \A i \in DOMAIN tbl \ {id} : Safety!With(tbl, id, v)[i] = tbl[i]
  BY DEF Safety!With

\* A claim that is added has its goal and its evidence.
LEMMA ClaimKeeps ==
    ASSUME ArgumentInv, NEW id \in ArgumentIds, NEW goal \in ArgumentIds, NEW refs \in SUBSET EvidenceIds,
           Safety!add_claim(id, goal, refs)
    PROVE  ArgumentInv'
  <1> DEFINE x == [goal |-> goal, refs |-> refs, status |-> "PENDING"]
             more == Safety!With(claims, id, x)
  <1>1. /\ id \notin DOMAIN claims /\ goal \in argGoals /\ refs \subseteq evidence
        /\ claims' = more /\ edges' = edges \union {<<goal, id>>}
        /\ UNCHANGED <<argGoals, strategies, evidence, safetyCase>>
    BY DEF Safety!add_claim
  <1>2. /\ DOMAIN more = DOMAIN claims \union {id} /\ more[id] = x
        /\ \A i \in DOMAIN claims : more[i] = claims[i]
    <2> HIDE DEF x
    <2>1. /\ DOMAIN more = DOMAIN claims \union {id} /\ more[id] = x
          /\ \A i \in DOMAIN claims \ {id} : more[i] = claims[i]
      BY DEF Safety!With
    <2> HIDE DEF more
    <2> QED
      BY <1>1, <2>1
  <1>3. x \in [goal : argGoals, refs : SUBSET evidence, status : {"PENDING", "PROVEN", "ASSUMED"}]
    BY <1>1
  <1>4. <<goal, id>>[1] = goal /\ <<goal, id>>[2] = id
    OBVIOUS
  <1> HIDE DEF more, x
  <1> QED
    BY <1>1, <1>2, <1>3, <1>4 DEF ArgumentInv

\* Every call on the argument graph keeps the invariant.
LEMMA ArgumentStep ==
    ASSUME ArgumentInv, [Safety!SafetyNext]_(Safety!safetyVars)
    PROVE  ArgumentInv'
  <1>1. CASE UNCHANGED Safety!safetyVars
    BY <1>1 DEF Safety!safetyVars, ArgumentInv
  <1>2. ASSUME NEW id \in ArgumentIds, Safety!AddGoal(id) PROVE ArgumentInv'
    <2>1. argGoals' = argGoals \union {id} /\ UNCHANGED <<strategies, evidence, claims, edges, safetyCase>>
      BY <1>2 DEF Safety!AddGoal
    <2>2. ASSUME NEW i \in DOMAIN claims, NEW x, x = claims[i]
          PROVE  x \in [goal : argGoals \union {id}, refs : SUBSET evidence,
                        status : {"PENDING", "PROVEN", "ASSUMED"}]
      BY <2>2 DEF ArgumentInv
    <2> QED
      BY <2>1, <2>2 DEF ArgumentInv
  <1>3. ASSUME NEW id \in ArgumentIds, NEW goal \in ArgumentIds, Safety!add_strategy(id, goal)
        PROVE  ArgumentInv'
    <2> DEFINE more == Safety!With(strategies, id, goal)
    <2>1. /\ goal \in argGoals /\ strategies' = more /\ edges' = edges \union {<<goal, id>>}
          /\ UNCHANGED <<argGoals, evidence, claims, safetyCase>>
      BY <1>3 DEF Safety!add_strategy
    <2>2. DOMAIN more = DOMAIN strategies \union {id}
      BY WithEntry
    <2>3. <<goal, id>>[1] = goal /\ <<goal, id>>[2] = id
      OBVIOUS
    <2> HIDE DEF more
    <2> QED
      BY <2>1, <2>2, <2>3 DEF ArgumentInv
  <1>4. ASSUME NEW e \in EvidenceIds, Safety!add_evidence(e) PROVE ArgumentInv'
    <2>1. evidence' = evidence \union {e} /\ UNCHANGED <<argGoals, strategies, claims, edges, safetyCase>>
      BY <1>4 DEF Safety!add_evidence
    <2>2. ASSUME NEW i \in DOMAIN claims, NEW x, x = claims[i]
          PROVE  x \in [goal : argGoals, refs : SUBSET (evidence \union {e}),
                        status : {"PENDING", "PROVEN", "ASSUMED"}]
      BY <2>2 DEF ArgumentInv
    <2> QED
      BY <2>1, <2>2 DEF ArgumentInv
  <1>5. ASSUME NEW id \in ArgumentIds, NEW goal \in ArgumentIds, NEW refs \in SUBSET EvidenceIds,
               Safety!add_claim(id, goal, refs)
        PROVE  ArgumentInv'
    BY <1>5, ClaimKeeps
  <1>6. ASSUME NEW id \in ArgumentIds, NEW strategy \in ArgumentIds, Safety!link_claim_to_strategy(id, strategy)
        PROVE  ArgumentInv'
    <2>1. <<strategy, id>>[1] = strategy /\ <<strategy, id>>[2] = id
      OBVIOUS
    <2> QED
      BY <1>6, <2>1 DEF Safety!link_claim_to_strategy, ArgumentInv
  <1>7. ASSUME NEW id \in ArgumentIds, NEW status \in {"PROVEN", "ASSUMED"}, Safety!SetStatus(id, status)
        PROVE  ArgumentInv'
    <2>1. /\ id \in DOMAIN claims /\ claims' = [claims EXCEPT ![id].status = status]
          /\ UNCHANGED <<argGoals, strategies, evidence, edges, safetyCase>>
      BY <1>7 DEF Safety!SetStatus
    <2>2. ASSUME NEW i \in DOMAIN claims
          PROVE  claims'[i] \in [goal : argGoals, refs : SUBSET evidence,
                                 status : {"PENDING", "PROVEN", "ASSUMED"}]
      <3>1. claims[i] \in [goal : argGoals, refs : SUBSET evidence, status : {"PENDING", "PROVEN", "ASSUMED"}]
        BY DEF ArgumentInv
      <3>2. claims'[i] = IF i = id THEN [claims[i] EXCEPT !.status = status] ELSE claims[i]
        BY <2>1
      <3> QED
        BY <3>1, <3>2
    <2>3. DOMAIN claims' = DOMAIN claims
      BY <2>1
    <2>4. UNCHANGED <<argGoals, strategies, evidence, edges, safetyCase>>
      BY <2>1
    <2> QED
      BY <2>2, <2>3, <2>4 DEF ArgumentInv
  <1>8. CASE Safety!build_phase_d_safety_case
    <2>1. /\ Safety!Uncovered(Safety!TraceMatrix) = {} /\ safetyCase' = Safety!TraceMatrix
          /\ UNCHANGED <<argGoals, strategies, evidence, claims, edges>>
      BY <1>8 DEF Safety!build_phase_d_safety_case
    <2>2. \A icd \in DOMAIN safetyCase' : \E id \in safetyCase'[icd] : id \in DOMAIN claims /\ icd \in Mentions[id]
      BY <2>1 DEF Safety!Uncovered, Safety!TraceMatrix
    <2>3. UNCHANGED <<argGoals, strategies, evidence, claims, edges>>
      BY <2>1
    <2> QED
      BY <2>2, <2>3 DEF ArgumentInv
  <1> QED
    BY <1>1, <1>2, <1>3, <1>4, <1>5, <1>6, <1>7, <1>8 DEF Safety!SafetyNext

\* reach collects what k edges, and one, lead to from id.
Reaches(reach, id, n) ==
    reach = [k \in 0 .. n |->
               IF k = 0 THEN {e[2] : e \in {f \in edges : f[1] = id}}
               ELSE reach[k - 1] \union {e[2] : e \in {f \in edges : f[1] \in reach[k - 1]}}]

\* There is such a function, whatever the number of edges.
LEMMA ReachExists ==
    ASSUME NEW id, NEW n \in Nat
    PROVE  \E reach : Reaches(reach, id, n)
  <1> DEFINE Bad == {m \in Nat : ~ \E reach : Reaches(reach, id, m)}
  <1> SUFFICES ASSUME Bad # {} PROVE FALSE
    OBVIOUS
  <1>1. PICK m \in Bad : \A k \in Bad : m <= k
    <2>1. Bad \in SUBSET Nat
      OBVIOUS
    <2> HIDE DEF Bad
    <2> QED
      BY <2>1, NatMin
  <1>2. m # 0
    <2> SUFFICES ASSUME m = 0 PROVE FALSE
      OBVIOUS
    <2> DEFINE f == [k \in 0 .. 0 |-> {e[2] : e \in {f \in edges : f[1] = id}}]
    <2>1. Reaches(f, id, 0)
      BY DEF Reaches
    <2> QED
      BY <1>1, <2>1
  <1>3. m - 1 \in Nat /\ m - 1 \notin Bad
    BY <1>1, <1>2
  <1>4. PICK f : Reaches(f, id, m - 1)
    BY <1>3
  <1> DEFINE g == [k \in 0 .. m |->
                     IF k = 0 THEN {e[2] : e \in {h \in edges : h[1] = id}}
                     ELSE f[k - 1] \union {e[2] : e \in {h \in edges : h[1] \in f[k - 1]}}]
  <1>5. \A k \in 0 .. (m - 1) : g[k] = f[k]
    <2>1. \A k \in 0 .. (m - 1) :
             f[k] = IF k = 0 THEN {e[2] : e \in {h \in edges : h[1] = id}}
                    ELSE f[k - 1] \union {e[2] : e \in {h \in edges : h[1] \in f[k - 1]}}
      BY Zenon, <1>4 DEF Reaches
    <2>2. \A k \in 0 .. (m - 1) :
             g[k] = IF k = 0 THEN {e[2] : e \in {h \in edges : h[1] = id}}
                    ELSE f[k - 1] \union {e[2] : e \in {h \in edges : h[1] \in f[k - 1]}}
      BY <1>1
    <2> HIDE DEF g
    <2> QED
      BY Zenon, <2>1, <2>2
  <1>6. \A k \in 0 .. m : k # 0 => g[k - 1] = f[k - 1]
    <2> HIDE DEF g
    <2> QED
      BY <1>1, <1>5
  <1>7. Reaches(g, id, m)
    <2>1. g = [k \in 0 .. m |-> g[k]]
      OBVIOUS
    <2>2. \A k \in 0 .. m : g[k] = IF k = 0 THEN {e[2] : e \in {h \in edges : h[1] = id}}
                                   ELSE f[k - 1] \union {e[2] : e \in {h \in edges : h[1] \in f[k - 1]}}
      OBVIOUS
    <2> HIDE DEF g
    <2>3. \A k \in 0 .. m : g[k] = IF k = 0 THEN {e[2] : e \in {h \in edges : h[1] = id}}
                                   ELSE g[k - 1] \union {e[2] : e \in {h \in edges : h[1] \in g[k - 1]}}
      BY <1>6, <2>2
    <2> QED
      BY <2>1, <2>3 DEF Reaches
  <1> QED
    BY <1>1, <1>7

\* What the first edges lead into and no edge leads out of holds all descendants.
LEMMA DescendantsWithin ==
    ASSUME IsFiniteSet(ArgumentIds), NEW id, NEW X,
           \A e \in edges : e[1] = id => e[2] \in X,
           \A e \in edges : e[1] \in X => e[2] \in X
    PROVE  Safety!Descendants(id) \subseteq X
  <1> DEFINE n == Cardinality(ArgumentIds)
             reach == CHOOSE reach : Reaches(reach, id, n)
  <1>1. n \in Nat
    BY FS_CardinalityType
  <1>2. Safety!Cardinality(ArgumentIds) = n
    BY DEF Safety!Cardinality, Cardinality
  <1>3. Safety!Descendants(id) = reach[n]
    BY <1>2 DEF Safety!Descendants, Reaches
  <1>4. Reaches(reach, id, n)
    <2> HIDE DEF n
    <2> QED
      BY <1>1, ReachExists
  <1> HIDE DEF reach, n
  <1> DEFINE Bad == {k \in 0 .. n : ~ (reach[k] \subseteq X)}
  <1>5. Bad = {}
    <2> SUFFICES ASSUME Bad # {} PROVE FALSE
      OBVIOUS
    <2>1. Bad \in SUBSET Nat
      BY <1>1
    <2>2. PICK k \in Bad : \A j \in Bad : k <= j
      <3> HIDE DEF Bad
      <3> QED
        BY <2>1, NatMin
    <2>3. CASE k = 0
      <3>1. reach[k] = {e[2] : e \in {f \in edges : f[1] = id}}
        BY <1>1, <1>4, <2>3 DEF Reaches
      <3> QED
        BY <2>2, <3>1
    <2>4. CASE k # 0
      <3>1. k - 1 \in 0 .. n /\ k - 1 \notin Bad
        BY <1>1, <2>2, <2>4
      <3>2. reach[k] = reach[k - 1] \union {e[2] : e \in {f \in edges : f[1] \in reach[k - 1]}}
        BY <1>4, <2>2, <2>4 DEF Reaches
      <3>3. reach[k - 1] \subseteq X
        BY <3>1
      <3> QED
        BY <2>2, <3>2, <3>3
    <2> QED
      BY <2>3, <2>4
  <1> QED
    BY <1>1, <1>3, <1>5

\* Sets whose sizes add up have nothing in common.
LEMMA SizesAddUp ==
    ASSUME NEW A, NEW B, NEW C, IsFiniteSet(A), IsFiniteSet(B), IsFiniteSet(C),
           Cardinality((A \union B) \union C) = Cardinality(A) + Cardinality(B) + Cardinality(C)
    PROVE  A \intersect B = {} /\ (A \union B) \intersect C = {}
  <1>1. /\ Cardinality(A) \in Nat /\ Cardinality(B) \in Nat /\ Cardinality(C) \in Nat
        /\ IsFiniteSet(A \intersect B) /\ Cardinality(A \intersect B) \in Nat
    BY Zenon, FS_CardinalityType, FS_Intersection
  <1>2. /\ IsFiniteSet(A \union B)
        /\ Cardinality(A \union B) = Cardinality(A) + Cardinality(B) - Cardinality(A \intersect B)
    BY FS_Union
  <1>3. IsFiniteSet((A \union B) \intersect C)
    BY <1>2, FS_Intersection
  <1>4. Cardinality((A \union B) \intersect C) \in Nat
    BY <1>3, FS_CardinalityType
  <1>5. Cardinality((A \union B) \union C) =
           Cardinality(A \union B) + Cardinality(C) - Cardinality((A \union B) \intersect C)
    BY <1>2, FS_Union
  <1>6. Cardinality(A \intersect B) = 0 /\ Cardinality((A \union B) \intersect C) = 0
    <2> DEFINE i == Cardinality(A \intersect B)
               j == Cardinality((A \union B) \intersect C)
               u == Cardinality(A \union B)
               v == Cardinality((A \union B) \union C)
               a == Cardinality(A)
               b == Cardinality(B)
               c == Cardinality(C)
    <2>1. /\ a \in Nat /\ b \in Nat /\ c \in Nat /\ i \in Nat /\ j \in Nat
          /\ u = a + b - i /\ v = u + c - j /\ v = a + b + c
      BY <1>1, <1>2, <1>4, <1>5
    <2> HIDE DEF i, j, u, v, a, b, c
    <2>2. i = 0 /\ j = 0
      BY <2>1
    <2> QED
      BY <2>2 DEF i, j
  <1> QED
    BY <1>1, <1>3, <1>6, FS_EmptySet

\* However the argument is put together: a complete one has for each goal a
\* claim proven by evidence in the graph, what hangs below a goal is in the
\* graph, without shared ids there is no cycle, and each ICD of a safety case
\* has a claim of the graph that is about it.
THEOREM ArgumentsAreSound ==
    ASSUME IsFiniteSet(ArgumentIds)
    PROVE  SafetySpec => []Safety!ArgumentIsSound
  <1>1. Safety!SafetyInit => ArgumentInv
    BY DEF Safety!SafetyInit, ArgumentInv
  <1>2. ArgumentInv /\ [Safety!SafetyNext]_(Safety!safetyVars) => ArgumentInv'
    BY ArgumentStep
  <1>3. ArgumentInv => Safety!ArgumentIsSound
    <2> SUFFICES ASSUME ArgumentInv PROVE Safety!ArgumentIsSound
      OBVIOUS
    <2> DEFINE S == DOMAIN strategies
               C == DOMAIN claims
    <2>1. \A e \in edges : \/ e[1] \in argGoals /\ e[2] \in S \union C
                           \/ e[1] \in S /\ e[2] \in C
      BY DEF ArgumentInv
    <2>2. IsFiniteSet(argGoals) /\ IsFiniteSet(S) /\ IsFiniteSet(C)
      BY FS_Subset DEF ArgumentInv
    <2>3. \A id \in C : /\ claims[id].goal \in argGoals /\ claims[id].refs \subseteq evidence
      BY DEF ArgumentInv
    <2>4. ASSUME Safety!ArgumentComplete, NEW g \in argGoals
          PROVE  \E id \in DOMAIN claims :
                    /\ claims[id].goal = g /\ claims[id].status = "PROVEN"
                    /\ claims[id].refs \intersect evidence # {}
      <3>1. PICK id \in DOMAIN claims : claims[id].goal = g
        BY <2>4 DEF Safety!ArgumentComplete, Safety!GoalsWithoutClaims
      <3>2. claims[id].status = "PROVEN" /\ claims[id].refs # {}
        BY <2>4 DEF Safety!ArgumentComplete, Safety!Unproven, Safety!ClaimsWithoutEvidence
      <3> QED
        BY <2>3, <3>1, <3>2
    <2> HIDE DEF S, C
    <2>5. ASSUME NEW g PROVE Safety!Descendants(g) \subseteq S \union C
      BY <2>1, DescendantsWithin
    <2>6. ASSUME Safety!Cardinality(Safety!Nodes) =
                    Safety!Cardinality(argGoals) + Safety!Cardinality(S) + Safety!Cardinality(C),
                 NEW id \in Safety!Nodes
          PROVE  id \notin Safety!Descendants(id)
      <3>1. \A T : Safety!Cardinality(T) = Cardinality(T)
        BY DEF Safety!Cardinality, Cardinality
      <3>2. Safety!Nodes = (argGoals \union S) \union C
        BY DEF Safety!Nodes, S, C
      <3>3. argGoals \intersect S = {} /\ (argGoals \union S) \intersect C = {}
        BY <2>2, <2>6, <3>1, <3>2, SizesAddUp
      <3>4. CASE id \in argGoals
        BY <2>5, <3>3, <3>4
      <3>5. CASE id \in S
        <4>1. Safety!Descendants(id) \subseteq C
          BY <2>1, <3>3, <3>5, DescendantsWithin
        <4> QED
          BY <3>3, <3>5, <4>1
      <3>6. CASE id \in C
        <4>1. Safety!Descendants(id) \subseteq {}
          <5> DEFINE X == {}
          <5>1. /\ \A e \in edges : e[1] = id => e[2] \in X
                /\ \A e \in edges : e[1] \in X => e[2] \in X
            BY <2>1, <3>3, <3>6
          <5> HIDE DEF X
          <5>2. Safety!Descendants(id) \subseteq X
            BY <5>1, DescendantsWithin
          <5> QED
            BY <5>2 DEF X
        <4> QED
          BY <4>1
      <3> QED
        BY <3>2, <3>4, <3>5, <3>6
    <2>7. \A icd \in DOMAIN safetyCase : \E id \in safetyCase[icd] \intersect C :
             icd \in Mentions[id] /\ claims[id].goal \in argGoals
      BY <2>3 DEF ArgumentInv, C
    <2> QED
      BY <2>4, <2>5, <2>6, <2>7 DEF Safety!ArgumentIsSound, Safety!HasCycle, S, C
  <1> QED
    BY <1>1, <1>2, <1>3, PTL DEF SafetySpec
=============================================================================
