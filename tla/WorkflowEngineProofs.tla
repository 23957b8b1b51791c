------------------------ MODULE WorkflowEngineProofs ------------------------
(***************************************************************************)
(* Proofs about the workflow engine, for every DAG, set of executions,     *)
(* queue size and checkpoint interval.                                     *)
(*                                                                         *)
(* The properties of WorkflowEngine are not inductive as they stand: what  *)
(* a step may do depends on where the loops of an execution stand.  IInv   *)
(* says that for each value of pc (Control) and adds what relates the      *)
(* task states to the results, to one another and to the dead letters.     *)
(***************************************************************************)
EXTENDS WorkflowEngine, FiniteSums

UndoneIn(st, i) ==
    \/ st[Order[i]] \in {"pending", "failed", "compensated"}
    \/ st[Order[i]] = "succeeded" /\ Order[i] \notin Compensable

ExecutingAt(e) ==
    /\ phase[e] = "forward"
    /\ failedTask[e] = NoTask
    /\ \A i \in 1..N :
          /\ i < at[e] => state[e][Order[i]] = "succeeded"
          /\ i = at[e] => state[e][Order[i]] = "running"
          /\ i > at[e] => state[e][Order[i]] = "pending"

CompensatingAt(e) ==
    /\ phase[e] = "compensation"
    /\ Order[at[e]] \in Compensable
    /\ \A i \in 1..N :
          /\ i < at[e] => state[e][Order[i]] = "succeeded"
          /\ i = at[e] => state[e][Order[i]] = "compensating"
          /\ i > at[e] => UndoneIn(state[e], i)

Control(e) ==
    /\ pc[e] = "idle" =>
          /\ phase[e] = "forward"
          /\ at[e] = 1
          /\ failedTask[e] = NoTask
          /\ \A t \in Tasks : state[e][t] = "pending"
    /\ pc[e] = "executing" => ExecutingAt(e)
    /\ pc[e] = "compensating" => CompensatingAt(e)
    /\ pc[e] = "cancelled" => ExecutingAt(e) \/ CompensatingAt(e)
    /\ pc[e] = "returned" =>
          phase[e] = "forward" /\ \A i \in 1..N : state[e][Order[i]] = "succeeded"
    /\ pc[e] = "raised" =>
          phase[e] = "complete" /\ \A i \in 1..N : UndoneIn(state[e], i)
    /\ pc[e] = "aborted" =>
          /\ phase[e] = "compensation"
          /\ \A i \in 1..N : state[e][Order[i]] \notin {"running", "compensating"}

Results(e) ==
    \A t \in Tasks :
        t \in results[e] <=>
            \/ state[e][t] \in {"succeeded", "compensating", "compensated"}
            \/ state[e][t] = "failed" /\ t # failedTask[e]

Failed(e) == failedTask[e] # NoTask => state[e][failedTask[e]] = "failed"

InOrder(e) ==
    \A i, j \in 1..N : i < j =>
        /\ state[e][Order[j]] # "pending" => Order[i] \in results[e]
        /\ state[e][Order[i]] \in {"compensating", "compensated"} => UndoneIn(state[e], j)

Recorded(e) ==
    /\ \A t \in results[e] : state[e][t] = "failed" =>
          \/ Event(e, t, "compensation") \in letters
          \/ pc[e] = "aborted" /\ t = Order[at[e]]
    /\ phase[e] = "complete" /\ failedTask[e] # NoTask =>
          Event(e, failedTask[e], "forward") \in letters

LocalInv(e) == Control(e) /\ Results(e) /\ Failed(e) /\ InOrder(e) /\ Recorded(e)

QueueInv ==
    /\ dlq \subseteq letters
    /\ IsFiniteSet(dlq)
    /\ Cardinality(dlq) <= MaxSize

IInv == TypeOK /\ QueueInv /\ \A e \in Executions : LocalInv(e)

-----------------------------------------------------------------------------
(* Positions and tasks.                                                    *)

\* Every position of the order holds a task, and there is a first one.
LEMMA PositionsAreTasks ==
    N \in Nat /\ 1 \in 1..N /\ \A i \in 1..N : Order[i] \in Tasks
BY OrderAssumption DEF N

\* Every task has a position.
LEMMA TasksHavePositions == \A t \in Tasks : \E i \in 1..N : Order[i] = t
BY OrderAssumption

\* No task has two positions.
LEMMA PositionsDiffer == \A i, j \in 1..N : Order[i] = Order[j] => i = j
BY OrderAssumption

\* What is still to be compensated lies below i, and the last of it, if there
\* is anything, is a position between which and i nothing is compensable.
LEMMA NextIsLast ==
    ASSUME NEW i \in 1..(N + 1), NEW st, NEW j \in NextToCompensate(i, st)
    PROVE  /\ j \in 1..N /\ j < i
           /\ st[Order[j]] = "succeeded" /\ Order[j] \in Compensable
           /\ \A k \in 1..N : j < k /\ k < i =>
                 st[Order[k]] # "succeeded" \/ Order[k] \notin Compensable
BY PositionsAreTasks DEF NextToCompensate, ToCompensate

\* The invariant holds before any execution.
LEMMA InitInv == Init => IInv
<1> SUFFICES ASSUME Init PROVE IInv
    OBVIOUS
<1>1. TypeOK
  BY PositionsAreTasks DEF Init, TypeOK, SagaPhase, WorkflowTaskState, DeadLetterEvent
<1>2. QueueInv
  BY FS_EmptySet, ConstantAssumption DEF Init, QueueInv
<1>3. ASSUME NEW e \in Executions PROVE LocalInv(e)
  BY PositionsAreTasks
  DEF Init, LocalInv, Control, Results, Failed, InOrder, Recorded
<1> QED BY <1>1, <1>2, <1>3 DEF IInv

-----------------------------------------------------------------------------
(* Types.                                                                  *)

\* The compensation loop keeps the types.
LEMMA CompensateType ==
    ASSUME TypeOK, NEW e \in Executions, NEW i \in 1..(N + 1),
           NEW st \in [Tasks -> WorkflowTaskState],
           NEW q \in SUBSET DeadLetterEvent, NEW f \in Tasks \union {NoTask},
           CompensateBelow(e, i, st, q, f)
    PROVE  /\ pc' \in [Executions -> {"idle", "executing", "compensating"} \union Ended]
           /\ at' \in [Executions -> 1..N]
           /\ phase' \in [Executions -> SagaPhase]
           /\ state' \in [Executions -> [Tasks -> WorkflowTaskState]]
           /\ dlq' \in SUBSET DeadLetterEvent
           /\ letters' \in SUBSET DeadLetterEvent
<1>1. CASE \E j \in NextToCompensate(i, st) :
              /\ at' = [at EXCEPT ![e] = j]
              /\ state' = [state EXCEPT ![e] = [st EXCEPT ![Order[j]] = "compensating"]]
              /\ pc' = [pc EXCEPT ![e] = "compensating"]
              /\ phase' = [phase EXCEPT ![e] = "compensation"]
              /\ dlq' = q
  BY <1>1, NextIsLast, PositionsAreTasks
  DEF CompensateBelow, TypeOK, SagaPhase, WorkflowTaskState
<1>2. CASE /\ state' = [state EXCEPT ![e] = st]
           /\ pc' = [pc EXCEPT ![e] = "raised"]
           /\ phase' = [phase EXCEPT ![e] = "complete"]
           /\ dlq' = Enqueue(q, {Event(e, t, "forward") : t \in {f} \ {NoTask}})
           /\ UNCHANGED at
  <2>1. \A t \in {f} \ {NoTask} : Event(e, t, "forward") \in DeadLetterEvent
    BY DEF Event, DeadLetterEvent
  <2> QED BY <1>2, <2>1 DEF CompensateBelow, TypeOK, SagaPhase, Ended, Enqueue
<1>3. CASE /\ state' = [state EXCEPT ![e] = st]
           /\ pc' = [pc EXCEPT ![e] = "aborted"]
           /\ phase' = [phase EXCEPT ![e] = "compensation"]
           /\ dlq' = q
           /\ UNCHANGED at
  BY <1>3 DEF CompensateBelow, TypeOK, SagaPhase, Ended
<1> QED BY <1>1, <1>2, <1>3 DEF CompensateBelow

\* Every action keeps the types.
LEMMA TypeStep == TypeOK /\ [Next]_vars => TypeOK'
<1> SUFFICES ASSUME TypeOK, [Next]_vars PROVE TypeOK'
    OBVIOUS
<1> USE PositionsAreTasks
<1>1. ASSUME NEW e \in Executions, Execute(e) PROVE TypeOK'
  BY <1>1 DEF Execute, TypeOK, WorkflowTaskState
<1>2. ASSUME NEW e \in Executions, TaskSucceeds(e) PROVE TypeOK'
  <2> DEFINE t == Order[at[e]]
             st == [state[e] EXCEPT ![t] = "succeeded"]
             rs == results[e] \union {t}
             cp == [completed |-> {u \in Tasks : st[u] = "succeeded"}, results |-> rs]
  <2>1. t \in Tasks /\ at[e] \in 1..N
    BY DEF TypeOK
  <2>2. st \in [Tasks -> WorkflowTaskState] /\ rs \in SUBSET Tasks
    BY <2>1 DEF TypeOK, WorkflowTaskState
  <2>3. results' \in [Executions -> SUBSET Tasks]
    BY <1>2, <2>2 DEF TaskSucceeds, TypeOK
  <2>4. checkpoints' \in [Executions -> Seq(ExecutionCheckpoint)]
    <3> DEFINE cps == Append(checkpoints[e], cp)
    <3>1. cp \in ExecutionCheckpoint
      BY <2>2 DEF ExecutionCheckpoint
    <3>2. cps \in Seq(ExecutionCheckpoint)
      BY <3>1 DEF TypeOK
    <3>3. \/ checkpoints' = [checkpoints EXCEPT ![e] = cps]
          \/ checkpoints' = checkpoints
      BY <1>2 DEF TaskSucceeds, TakeCheckpoint
    <3>4. checkpoints \in [Executions -> Seq(ExecutionCheckpoint)]
      BY DEF TypeOK
    <3> HIDE DEF cps
    <3>5. CASE checkpoints' = [checkpoints EXCEPT ![e] = cps]
      BY ONLY <3>2, <3>4, <3>5
    <3> QED BY <3>3, <3>4, <3>5
  <2>5. at' \in [Executions -> 1..N]
    BY <1>2, <2>1 DEF TaskSucceeds, TypeOK
  <2>6. state' \in [Executions -> [Tasks -> WorkflowTaskState]]
    <3>1. CASE at[e] < N /\ state' = [state EXCEPT ![e] = [st EXCEPT ![Order[at[e] + 1]] = "running"]]
      <4>1. [st EXCEPT ![Order[at[e] + 1]] = "running"] \in [Tasks -> WorkflowTaskState]
        BY <2>2, <2>1, <3>1 DEF WorkflowTaskState
      <4> QED BY <4>1, <3>1 DEF TypeOK
    <3>2. CASE state' = [state EXCEPT ![e] = st]
      BY <3>2, <2>2 DEF TypeOK
    <3> QED BY <1>2, <3>1, <3>2 DEF TaskSucceeds
  <2>7. pc' \in [Executions -> {"idle", "executing", "compensating"} \union Ended]
    BY <1>2 DEF TaskSucceeds, TypeOK, Ended
  <2> QED BY <1>2, <2>3, <2>4, <2>5, <2>6, <2>7 DEF TaskSucceeds, TypeOK
<1>3. ASSUME NEW e \in Executions, TaskFails(e) PROVE TypeOK'
  <2> DEFINE t == Order[at[e]]
             st == [state[e] EXCEPT ![t] = "failed"]
  <2>1. st \in [Tasks -> WorkflowTaskState] /\ t \in Tasks /\ at[e] \in 1..(N + 1)
    BY DEF TypeOK, WorkflowTaskState
  <2>2. CompensateBelow(e, at[e], st, dlq, t) /\ dlq \in SUBSET DeadLetterEvent
    BY <1>3 DEF TaskFails, TypeOK
  <2>3. failedTask' \in [Executions -> Tasks \union {NoTask}]
    BY <1>3, <2>1 DEF TaskFails, TypeOK
  <2> QED BY <1>3, <2>1, <2>2, <2>3, CompensateType DEF TaskFails, TypeOK
<1>4. ASSUME NEW e \in Executions, CheckpointRaises(e) PROVE TypeOK'
  <2> DEFINE t == Order[at[e]]
             st == [state[e] EXCEPT ![t] = "succeeded"]
  <2>1. st \in [Tasks -> WorkflowTaskState] /\ t \in Tasks /\ at[e] + 1 \in 1..(N + 1)
    BY DEF TypeOK, WorkflowTaskState
  <2>2. /\ CompensateBelow(e, at[e] + 1, st, dlq, failedTask[e])
        /\ dlq \in SUBSET DeadLetterEvent /\ failedTask[e] \in Tasks \union {NoTask}
    BY <1>4 DEF CheckpointRaises, TypeOK
  <2>3. results' \in [Executions -> SUBSET Tasks]
    BY <1>4, <2>1 DEF CheckpointRaises, TypeOK
  <2> QED BY <1>4, <2>1, <2>2, <2>3, CompensateType DEF CheckpointRaises, TypeOK
<1>5. ASSUME NEW e \in Executions, CompensationSucceeds(e) PROVE TypeOK'
  <2> DEFINE st == [state[e] EXCEPT ![Order[at[e]]] = "compensated"]
  <2>1. st \in [Tasks -> WorkflowTaskState] /\ at[e] \in 1..(N + 1)
    BY DEF TypeOK, WorkflowTaskState
  <2>2. /\ CompensateBelow(e, at[e], st, dlq, failedTask[e])
        /\ dlq \in SUBSET DeadLetterEvent /\ failedTask[e] \in Tasks \union {NoTask}
    BY <1>5 DEF CompensationSucceeds, TypeOK
  <2> QED BY <1>5, <2>1, <2>2, CompensateType DEF CompensationSucceeds, TypeOK
<1>6. ASSUME NEW e \in Executions, CompensationFails(e) PROVE TypeOK'
  <2> DEFINE t == Order[at[e]]
             st == [state[e] EXCEPT ![t] = "failed"]
             q == Enqueue(dlq, {Event(e, t, "compensation")})
  <2>1. st \in [Tasks -> WorkflowTaskState] /\ t \in Tasks /\ at[e] \in 1..(N + 1)
    BY DEF TypeOK, WorkflowTaskState
  <2>2. q \in SUBSET DeadLetterEvent /\ failedTask[e] \in Tasks \union {NoTask}
    BY <2>1 DEF TypeOK, Enqueue, Event, DeadLetterEvent
  <2>3. CASE CompensateBelow(e, at[e], st, q, failedTask[e])
    BY <1>6, <2>1, <2>2, <2>3, CompensateType DEF CompensationFails, TypeOK
  <2>4. CASE /\ state' = [state EXCEPT ![e] = st]
             /\ pc' = [pc EXCEPT ![e] = "aborted"]
             /\ UNCHANGED <<at, phase, dlq, letters>>
    BY <1>6, <2>1, <2>4 DEF CompensationFails, TypeOK, Ended
  <2> QED BY <1>6, <2>3, <2>4 DEF CompensationFails
<1>7. ASSUME NEW e \in Executions, Cancel(e) PROVE TypeOK'
  BY <1>7 DEF Cancel, TypeOK, Ended
<1>8. ASSUME NEW ev \in dlq, Dequeue(ev) PROVE TypeOK'
  BY <1>8 DEF Dequeue, TypeOK
<1>9. CASE ClearExpired
  BY <1>9 DEF ClearExpired, TypeOK
<1>10. CASE UNCHANGED vars
  BY <1>10 DEF vars, TypeOK
<1> QED
  BY <1>1, <1>2, <1>3, <1>4, <1>5, <1>6, <1>7, <1>8, <1>9, <1>10 DEF Next, Answer

\* Every variable holds a value of its type, whatever the interleaving.
THEOREM TypeCorrect == Spec => []TypeOK
<1>1. Init => TypeOK
  BY InitInv DEF IInv
<1>2. TypeOK /\ [Next]_vars => TypeOK'
  BY TypeStep
<1> QED BY <1>1, <1>2, PTL DEF Spec

-----------------------------------------------------------------------------
(* The queue.                                                              *)

\* One enqueue keeps the queue within its bound, or refuses.
LEMMA EnqueueOne ==
    ASSUME NEW q, IsFiniteSet(q), Cardinality(q) <= MaxSize, ~Full(q), NEW ev
    PROVE  IsFiniteSet(Enqueue(q, {ev})) /\ Cardinality(Enqueue(q, {ev})) <= MaxSize
<1>1. Cardinality(q) \in Nat
  BY FS_CardinalityType
<1>2. /\ IsFiniteSet(q \union {ev})
      /\ \/ Cardinality(q \union {ev}) = Cardinality(q)
         \/ Cardinality(q \union {ev}) = Cardinality(q) + 1
  BY FS_AddElement
<1> QED BY <1>1, <1>2, ConstantAssumption DEF Full, Enqueue

\* The compensation loop keeps the queue within its bound.
LEMMA CompensateQueue ==
    ASSUME QueueInv, NEW e, NEW i, NEW st, NEW q, NEW f,
           IsFiniteSet(q), Cardinality(q) <= MaxSize,
           CompensateBelow(e, i, st, q, f)
    PROVE  QueueInv'
<1>1. CASE dlq' = q
  BY <1>1 DEF CompensateBelow, QueueInv
<1>2. CASE /\ f = NoTask \/ ~Full(q)
           /\ dlq' = Enqueue(q, {Event(e, t, "forward") : t \in {f} \ {NoTask}})
  <2>1. CASE f = NoTask
    <3>1. dlq' = q
      BY <1>2, <2>1 DEF Enqueue
    <3> QED BY <3>1 DEF CompensateBelow, QueueInv
  <2>2. CASE f # NoTask
    <3>1. {Event(e, t, "forward") : t \in {f} \ {NoTask}} = {Event(e, f, "forward")}
      BY <2>2
    <3>2. dlq' = Enqueue(q, {Event(e, f, "forward")}) /\ ~Full(q)
      BY <1>2, <2>2, <3>1
    <3>3. IsFiniteSet(dlq') /\ Cardinality(dlq') <= MaxSize
      BY <3>2, EnqueueOne
    <3> QED BY <3>3 DEF CompensateBelow, QueueInv
  <2> QED BY <2>1, <2>2
<1> QED BY <1>1, <1>2 DEF CompensateBelow

\* Every action keeps the queue within its bound.
LEMMA QueueStep == TypeOK /\ QueueInv /\ [Next]_vars => QueueInv'
<1> SUFFICES ASSUME TypeOK, QueueInv, [Next]_vars PROVE QueueInv'
    OBVIOUS
<1>0. IsFiniteSet(dlq) /\ Cardinality(dlq) <= MaxSize
  BY DEF QueueInv
<1>1. CASE UNCHANGED <<dlq, letters>>
  BY <1>1 DEF QueueInv
<1>2. ASSUME NEW e \in Executions, TaskFails(e) PROVE QueueInv'
  <2>1. CompensateBelow(e, at[e], [state[e] EXCEPT ![Order[at[e]]] = "failed"], dlq, Order[at[e]])
    BY <1>2 DEF TaskFails
  <2> QED BY ONLY <2>1, <1>0, QueueInv, CompensateQueue
<1>3. ASSUME NEW e \in Executions, CheckpointRaises(e) PROVE QueueInv'
  <2>1. CompensateBelow(e, at[e] + 1, [state[e] EXCEPT ![Order[at[e]]] = "succeeded"],
                        dlq, failedTask[e])
    BY <1>3 DEF CheckpointRaises
  <2> QED BY ONLY <2>1, <1>0, QueueInv, CompensateQueue
<1>4. ASSUME NEW e \in Executions, CompensationSucceeds(e) PROVE QueueInv'
  <2>1. CompensateBelow(e, at[e], [state[e] EXCEPT ![Order[at[e]]] = "compensated"],
                        dlq, failedTask[e])
    BY <1>4 DEF CompensationSucceeds
  <2> QED BY ONLY <2>1, <1>0, QueueInv, CompensateQueue
<1>5. ASSUME NEW e \in Executions, CompensationFails(e) PROVE QueueInv'
  <2> DEFINE t == Order[at[e]]
             q == Enqueue(dlq, {Event(e, t, "compensation")})
  <2>1. CASE ~Full(dlq) /\ CompensateBelow(e, at[e], [state[e] EXCEPT ![t] = "failed"],
                                           q, failedTask[e])
    <3>1. IsFiniteSet(q) /\ Cardinality(q) <= MaxSize
      BY <2>1, <1>0, EnqueueOne
    <3> QED BY ONLY <3>1, <2>1, QueueInv, CompensateQueue
  <2>2. CASE UNCHANGED <<dlq, letters>>
    BY <2>2, <1>1
  <2> QED BY <1>5, <2>1, <2>2 DEF CompensationFails
<1>6. ASSUME NEW gone \in SUBSET dlq, dlq' = dlq \ gone, UNCHANGED letters PROVE QueueInv'
  <2>1. IsFiniteSet(dlq') /\ Cardinality(dlq') <= Cardinality(dlq)
    BY <1>0, <1>6, FS_Subset
  <2>2. Cardinality(dlq) \in Nat /\ Cardinality(dlq') \in Nat
    BY <1>0, <2>1, FS_CardinalityType
  <2> QED BY <1>0, <1>6, <2>1, <2>2, ConstantAssumption DEF QueueInv
<1>7. ASSUME NEW ev \in dlq, Dequeue(ev) PROVE QueueInv'
  <2>1. {ev} \in SUBSET dlq /\ dlq' = dlq \ {ev} /\ UNCHANGED letters
    BY <1>7 DEF Dequeue
  <2> QED BY <2>1, <1>6
<1>8. CASE ClearExpired
  BY <1>8, <1>6 DEF ClearExpired
<1>9. ASSUME NEW e \in Executions, Execute(e) \/ TaskSucceeds(e) \/ Cancel(e) PROVE QueueInv'
  BY <1>9, <1>1 DEF Execute, TaskSucceeds, Cancel
<1>10. CASE UNCHANGED vars
  BY <1>10, <1>1 DEF vars
<1> QED BY <1>2, <1>3, <1>4, <1>5, <1>7, <1>8, <1>9, <1>10 DEF Next, Answer

-----------------------------------------------------------------------------
(* One execution.                                                          *)

\* A step that leaves the variables of an execution alone keeps its
\* invariant: dead letters are only ever added.
LEMMA Frame ==
    ASSUME NEW x \in Executions, LocalInv(x),
           pc'[x] = pc[x], at'[x] = at[x], phase'[x] = phase[x], state'[x] = state[x],
           results'[x] = results[x], failedTask'[x] = failedTask[x],
           letters \subseteq letters'
    PROVE  LocalInv(x)'
<1>1. Control(x)'
  BY DEF LocalInv, Control, ExecutingAt, CompensatingAt, UndoneIn
<1>2. Results(x)' /\ Failed(x)'
  BY DEF LocalInv, Results, Failed
<1>3. InOrder(x)'
  BY DEF LocalInv, InOrder, UndoneIn
<1>4. Recorded(x)'
  BY DEF LocalInv, Recorded, Event
<1> QED BY <1>1, <1>2, <1>3, <1>4 DEF LocalInv

\* The compensation loop, entered below i with the states st: everything
\* below i has succeeded and everything from i on is undone.
LEMMA CompensateLocal ==
    ASSUME TypeOK, NEW e \in Executions, NEW i \in 1..(N + 1),
           NEW st \in [Tasks -> WorkflowTaskState], NEW q, NEW f \in Tasks \union {NoTask},
           CompensateBelow(e, i, st, q, f),
           failedTask'[e] = f,
           \A k \in 1..N : k < i => st[Order[k]] = "succeeded",
           \A k \in 1..N : k >= i => UndoneIn(st, k),
           \A t \in Tasks : t \in results'[e] <=>
               st[t] \in {"succeeded", "compensated"} \/ (st[t] = "failed" /\ t # f),
           results'[e] \subseteq Tasks,
           f # NoTask => st[f] = "failed",
           \A t \in results'[e] : st[t] = "failed" =>
               Event(e, t, "compensation") \in letters \union q,
           \A k, j \in 1..N : k < j /\ st[Order[j]] # "pending" => Order[k] \in results'[e]
    PROVE  LocalInv(e)'
<1> USE PositionsAreTasks
<1>1. CASE \E j \in NextToCompensate(i, st) :
              /\ at' = [at EXCEPT ![e] = j]
              /\ state' = [state EXCEPT ![e] = [st EXCEPT ![Order[j]] = "compensating"]]
              /\ pc' = [pc EXCEPT ![e] = "compensating"]
              /\ phase' = [phase EXCEPT ![e] = "compensation"]
              /\ dlq' = q
  <2>0. PICK j \in NextToCompensate(i, st) :
              /\ at' = [at EXCEPT ![e] = j]
              /\ state' = [state EXCEPT ![e] = [st EXCEPT ![Order[j]] = "compensating"]]
              /\ pc' = [pc EXCEPT ![e] = "compensating"]
              /\ phase' = [phase EXCEPT ![e] = "compensation"]
              /\ dlq' = q
    BY <1>1
  <2>1. /\ at'[e] = j
        /\ state'[e] = [st EXCEPT ![Order[j]] = "compensating"]
        /\ pc'[e] = "compensating"
        /\ phase'[e] = "compensation"
        /\ dlq' = q
    BY <2>0 DEF TypeOK
  <2>2. /\ j \in 1..N /\ j < i
        /\ st[Order[j]] = "succeeded" /\ Order[j] \in Compensable
        /\ \A k \in 1..N : j < k /\ k < i =>
              st[Order[k]] # "succeeded" \/ Order[k] \notin Compensable
    BY NextIsLast
  <2>3. /\ state'[e][Order[j]] = "compensating"
        /\ \A t \in Tasks : t # Order[j] => state'[e][t] = st[t]
    BY <2>1, <2>2
  <2>4. \A k \in 1..N : k # j => state'[e][Order[k]] = st[Order[k]]
    BY <2>2, <2>3, PositionsDiffer
  <2>5. \A k \in 1..N : k > j => UndoneIn(st, k)
    BY <2>2 DEF UndoneIn
  <2>6. \A k \in 1..N : k > j => UndoneIn(state'[e], k)
    BY <2>4, <2>5 DEF UndoneIn
  <2>7. \A k \in 1..N : k < j => state'[e][Order[k]] = "succeeded"
    BY <2>2, <2>4
  <2>8. Control(e)'
    BY <2>1, <2>2, <2>3, <2>6, <2>7 DEF Control, CompensatingAt, UndoneIn
  <2>9. Results(e)'
    <3>1. \A t \in Tasks : state'[e][t] = "compensating" => t = Order[j]
      <4> SUFFICES ASSUME NEW t \in Tasks, t # Order[j] PROVE st[t] # "compensating"
        BY <2>3
      <4>1. PICK k \in 1..N : Order[k] = t
        BY TasksHavePositions, PositionsDiffer
      <4> QED BY <4>1 DEF UndoneIn
    <3> QED BY <3>1, <2>2, <2>3 DEF Results
  <2>10. Failed(e)'
    BY <2>2, <2>3 DEF Failed
  <2>11. InOrder(e)'
    <3> SUFFICES ASSUME NEW k \in 1..N, NEW l \in 1..N, k < l
                 PROVE  /\ state'[e][Order[l]] # "pending" => Order[k] \in results'[e]
                        /\ state'[e][Order[k]] \in {"compensating", "compensated"} =>
                              UndoneIn(state'[e], l)
      BY DEF InOrder, UndoneIn
    <3>1. state'[e][Order[l]] # "pending" => st[Order[l]] # "pending"
      BY <2>2, <2>4
    <3>2. state'[e][Order[k]] \in {"compensating", "compensated"} => k >= j
      BY <2>7, <2>2
    <3> QED BY <3>1, <3>2, <2>2, <2>6
  <2>12. Recorded(e)'
    BY <2>1, <2>3 DEF Recorded, CompensateBelow, Event
  <2> QED BY <2>8, <2>9, <2>10, <2>11, <2>12 DEF LocalInv
<1>2. ASSUME /\ ToCompensate(i, st) = {}
             /\ state'[e] = st
             /\ q \subseteq letters' /\ letters \subseteq letters'
             /\ \/ /\ pc'[e] = "raised" /\ phase'[e] = "complete"
                   /\ f # NoTask => Event(e, f, "forward") \in letters'
                \/ pc'[e] = "aborted" /\ phase'[e] = "compensation"
      PROVE  LocalInv(e)'
  <2>1. \A k \in 1..N : UndoneIn(st, k)
    BY <1>2 DEF ToCompensate, UndoneIn
  <2>2. \A k \in 1..N : st[Order[k]] \notin {"running", "compensating"}
    BY <2>1 DEF UndoneIn
  <2>3. Control(e)'
    BY <1>2, <2>1, <2>2 DEF Control, UndoneIn
  <2>4. Results(e)'
    <3>1. \A t \in Tasks : st[t] # "compensating"
      BY <2>2, TasksHavePositions, PositionsDiffer
    <3> QED BY <3>1, <1>2 DEF Results
  <2>5. Failed(e)'
    BY <1>2 DEF Failed
  <2>6. InOrder(e)'
    BY <1>2, <2>1 DEF InOrder, UndoneIn
  <2>7. Recorded(e)'
    BY <1>2 DEF Recorded, Event
  <2> QED BY <2>3, <2>4, <2>5, <2>6, <2>7 DEF LocalInv
<1>3. CASE /\ ToCompensate(i, st) = {}
           /\ state' = [state EXCEPT ![e] = st]
           /\ pc' = [pc EXCEPT ![e] = "raised"]
           /\ phase' = [phase EXCEPT ![e] = "complete"]
           /\ dlq' = Enqueue(q, {Event(e, t, "forward") : t \in {f} \ {NoTask}})
  <2>1. f # NoTask => Event(e, f, "forward") \in dlq'
    BY <1>3 DEF Enqueue
  <2>2. q \subseteq dlq' /\ letters' = letters \union dlq'
    BY <1>3 DEF Enqueue, CompensateBelow
  <2>3. state'[e] = st /\ pc'[e] = "raised" /\ phase'[e] = "complete"
    BY <1>3 DEF TypeOK
  <2> QED BY <1>2, <1>3, <2>1, <2>2, <2>3
<1>4. CASE /\ ToCompensate(i, st) = {}
           /\ state' = [state EXCEPT ![e] = st]
           /\ pc' = [pc EXCEPT ![e] = "aborted"]
           /\ phase' = [phase EXCEPT ![e] = "compensation"]
           /\ dlq' = q
  <2>1. q \subseteq letters' /\ letters \subseteq letters'
    BY <1>4 DEF CompensateBelow
  <2>2. state'[e] = st /\ pc'[e] = "aborted" /\ phase'[e] = "compensation"
    BY <1>4 DEF TypeOK
  <2> QED BY <1>2, <1>4, <2>1, <2>2
<1> QED BY <1>1, <1>3, <1>4 DEF CompensateBelow

\* The other executions: CompensateBelow writes at e only.
LEMMA CompensateFrame ==
    ASSUME TypeOK, NEW e, NEW i, NEW st, NEW q, NEW f, CompensateBelow(e, i, st, q, f),
           NEW x \in Executions, x # e
    PROVE  /\ pc'[x] = pc[x] /\ at'[x] = at[x] /\ phase'[x] = phase[x]
           /\ state'[x] = state[x] /\ letters \subseteq letters'
BY DEF CompensateBelow, TypeOK

-----------------------------------------------------------------------------
(* The actions.                                                            *)

\* execute() establishes the invariant of its execution.
LEMMA ExecuteLocal ==
    ASSUME IInv, NEW e \in Executions, Execute(e)
    PROVE  LocalInv(e)'
<1> USE PositionsAreTasks
<1>1. /\ pc'[e] = "executing" /\ at'[e] = 1 /\ phase'[e] = "forward"
      /\ failedTask'[e] = NoTask /\ results'[e] = results[e]
      /\ state'[e][Order[1]] = "running"
      /\ \A t \in Tasks : state[e][t] = "pending"
      /\ \A t \in Tasks : t # Order[1] => state'[e][t] = "pending"
  BY DEF Execute, IInv, TypeOK, LocalInv, Control
<1>2. \A i \in 1..N : i # 1 => state'[e][Order[i]] = "pending"
  BY <1>1, TasksHavePositions, PositionsDiffer
<1>3. Control(e)'
  BY <1>1, <1>2 DEF Control, ExecutingAt
<1>4. Results(e)'
  BY <1>1 DEF IInv, LocalInv, Results
<1>5. Failed(e)' /\ InOrder(e)' /\ Recorded(e)'
  BY <1>1, <1>2 DEF Failed, InOrder, Recorded, UndoneIn, Execute, IInv, LocalInv
<1> QED BY <1>3, <1>4, <1>5 DEF LocalInv

\* A task that succeeds keeps the invariant of its execution.
LEMMA TaskSucceedsLocal ==
    ASSUME IInv, NEW e \in Executions, TaskSucceeds(e)
    PROVE  LocalInv(e)'
<1> USE PositionsAreTasks
<1> DEFINE i == at[e]
<1>0. i \in 1..N /\ ExecutingAt(e) /\ LocalInv(e) /\ TypeOK
  BY DEF TaskSucceeds, IInv, TypeOK, LocalInv, Control
<1>1. /\ phase'[e] = "forward" /\ failedTask'[e] = NoTask
      /\ results'[e] = results[e] \union {Order[i]}
      /\ letters' = letters
  BY <1>0 DEF TaskSucceeds, ExecutingAt, TypeOK
<1>2. CASE /\ i < N
           /\ at' = [at EXCEPT ![e] = i + 1]
           /\ state' = [state EXCEPT ![e] =
                          [[state[e] EXCEPT ![Order[i]] = "succeeded"]
                              EXCEPT ![Order[i + 1]] = "running"]]
           /\ UNCHANGED pc
  <2>1. /\ i + 1 \in 1..N /\ Order[i] # Order[i + 1]
        /\ Order[i] \in Tasks /\ Order[i + 1] \in Tasks
    BY <1>0, <1>2, TasksHavePositions, PositionsDiffer
  <2>2. /\ at'[e] = i + 1 /\ pc'[e] = "executing"
        /\ state'[e][Order[i]] = "succeeded"
        /\ state'[e][Order[i + 1]] = "running"
        /\ \A t \in Tasks \ {Order[i], Order[i + 1]} : state'[e][t] = state[e][t]
    BY <1>0, <1>2, <2>1 DEF TypeOK, TaskSucceeds
  <2>3. \A k \in 1..N : k # i /\ k # i + 1 => state'[e][Order[k]] = state[e][Order[k]]
    BY <2>2, <2>1, <1>0, TasksHavePositions, PositionsDiffer
  <2>4. ExecutingAt(e)'
    BY <1>0, <1>1, <2>2, <2>3 DEF ExecutingAt
  <2>5. Control(e)'
    BY <2>2, <2>4 DEF Control
  <2>6. state[e][Order[i + 1]] = "pending"
    BY <1>0, <2>1 DEF ExecutingAt
  <2>7. Results(e)'
    BY <1>0, <1>1, <2>1, <2>2, <2>6 DEF Results, LocalInv, ExecutingAt
  <2>8. Failed(e)'
    BY <1>1 DEF Failed
  <2>9. \A k \in 1..N : state'[e][Order[k]] \notin {"compensating", "compensated", "failed"}
    BY <2>4, <2>2, <1>0 DEF ExecutingAt
  <2>10. InOrder(e)'
    <3>1. \A k \in 1..N : k < i + 1 => Order[k] \in results'[e]
      BY <2>2, <2>4, <2>7 DEF ExecutingAt, Results
    <3>2. \A k, l \in 1..N : k < l /\ state'[e][Order[l]] # "pending" => k < i + 1
      BY <2>2, <2>4, <1>0 DEF ExecutingAt
    <3> QED BY <3>1, <3>2, <2>9 DEF InOrder
  <2>11. Recorded(e)'
    <3>1. \A t \in Tasks : state'[e][t] # "failed"
      BY <2>9, TasksHavePositions, PositionsDiffer
    <3>2. results'[e] \subseteq Tasks
      BY <1>1, <2>1 DEF IInv, TypeOK
    <3> QED BY <1>1, <3>1, <3>2 DEF Recorded
  <2> QED BY <2>5, <2>7, <2>8, <2>10, <2>11 DEF LocalInv
<1>3. CASE /\ i = N
           /\ state' = [state EXCEPT ![e] = [state[e] EXCEPT ![Order[i]] = "succeeded"]]
           /\ pc' = [pc EXCEPT ![e] = "returned"]
           /\ UNCHANGED at
  <2>1. /\ pc'[e] = "returned" /\ Order[i] \in Tasks
        /\ state'[e][Order[i]] = "succeeded"
        /\ \A t \in Tasks \ {Order[i]} : state'[e][t] = state[e][t]
    BY <1>0, <1>3 DEF TypeOK
  <2>2. \A k \in 1..N : state'[e][Order[k]] = "succeeded"
    BY <1>0, <1>3, <2>1 DEF ExecutingAt
  <2>3. \A t \in Tasks : state'[e][t] = "succeeded"
    BY <2>2, TasksHavePositions, PositionsDiffer
  <2>4. Control(e)'
    BY <1>1, <2>1, <2>2 DEF Control
  <2>5. Results(e)'
    BY <1>0, <1>1, <2>1, <2>3 DEF Results, LocalInv
  <2>6. InOrder(e)'
    BY <2>2, <2>3, <2>5 DEF InOrder, Results, UndoneIn
  <2>7. results'[e] \subseteq Tasks
    BY <1>1, <2>1 DEF IInv, TypeOK
  <2>8. Failed(e)' /\ Recorded(e)'
    BY <1>1, <2>3, <2>7 DEF Failed, Recorded
  <2> QED BY <2>4, <2>5, <2>6, <2>8 DEF LocalInv
<1> QED BY <1>2, <1>3 DEF TaskSucceeds

\* Executing: a task failed at the position i of the loop.
LEMMA TaskFailsLocal ==
    ASSUME IInv, NEW e \in Executions, TaskFails(e)
    PROVE  LocalInv(e)'
<1> USE PositionsAreTasks
<1> DEFINE i == at[e]
           t == Order[i]
           st == [state[e] EXCEPT ![t] = "failed"]
<1>0. /\ i \in 1..N /\ i \in 1..(N + 1) /\ t \in Tasks
      /\ ExecutingAt(e) /\ LocalInv(e) /\ TypeOK
  BY DEF TaskFails, IInv, TypeOK, LocalInv, Control
<1>1. /\ CompensateBelow(e, i, st, dlq, t)
      /\ failedTask'[e] = t /\ results'[e] = results[e] /\ results[e] \subseteq Tasks
  BY <1>0 DEF TaskFails, TypeOK
<1>2. /\ st \in [Tasks -> WorkflowTaskState] /\ st[t] = "failed"
      /\ \A u \in Tasks : u # t => st[u] = state[e][u]
      /\ state[e][t] = "running"
  BY <1>0 DEF TypeOK, WorkflowTaskState, ExecutingAt
<1>3. /\ \A k \in 1..N : k < i => st[Order[k]] = "succeeded"
      /\ \A k \in 1..N : k > i => st[Order[k]] = "pending"
  BY <1>0, <1>2, PositionsDiffer DEF ExecutingAt
<1>4. \A k \in 1..N : k >= i => UndoneIn(st, k)
  BY <1>0, <1>2, <1>3 DEF UndoneIn
<1>5. \A u \in Tasks : u \in results'[e] <=>
          st[u] \in {"succeeded", "compensated"} \/ (st[u] = "failed" /\ u # t)
  <2>1. \A u \in Tasks : u # t => state[e][u] \in {"succeeded", "pending"}
    BY <1>2, <1>3, TasksHavePositions, <1>0
  <2> QED BY <1>0, <1>1, <1>2, <2>1 DEF LocalInv, Results
<1>6. \A u \in results'[e] : st[u] = "failed" => Event(e, u, "compensation") \in letters \union dlq
  BY <1>0, <1>1, <1>2, <1>3, <1>5, TasksHavePositions
<1>7. \A k, j \in 1..N : k < j /\ st[Order[j]] # "pending" => Order[k] \in results'[e]
  <2>1. \A k, j \in 1..N : k < j /\ st[Order[j]] # "pending" => k < i
    BY <1>0, <1>3
  <2> QED BY <2>1, <1>3, <1>5
<1>8. t \in Tasks \union {NoTask}
  BY <1>0
<1>9. results'[e] \subseteq Tasks /\ st[t] = "failed"
  BY <1>1, <1>2
<1> HIDE DEF st, t, i
<1> QED BY <1>0, <1>1, <1>2, <1>3, <1>4, <1>5, <1>6, <1>7, <1>8, <1>9, CompensateLocal

\* A checkpoint that raises keeps the invariant of its execution.
LEMMA CheckpointRaisesLocal ==
    ASSUME IInv, NEW e \in Executions, CheckpointRaises(e)
    PROVE  LocalInv(e)'
<1> USE PositionsAreTasks
<1> DEFINE i == at[e]
           t == Order[i]
           st == [state[e] EXCEPT ![t] = "succeeded"]
<1>0. /\ i \in 1..N /\ i + 1 \in 1..(N + 1) /\ t \in Tasks
      /\ ExecutingAt(e) /\ LocalInv(e) /\ TypeOK
  BY DEF CheckpointRaises, IInv, TypeOK, LocalInv, Control
<1>1. /\ CompensateBelow(e, i + 1, st, dlq, NoTask)
      /\ failedTask'[e] = NoTask /\ results'[e] = results[e] \union {t}
      /\ results'[e] \subseteq Tasks
  BY <1>0 DEF CheckpointRaises, TypeOK, ExecutingAt
<1>2. /\ st \in [Tasks -> WorkflowTaskState] /\ st[t] = "succeeded"
      /\ \A u \in Tasks : u # t => st[u] = state[e][u]
      /\ state[e][t] = "running"
  BY <1>0 DEF TypeOK, WorkflowTaskState, ExecutingAt
<1>3. /\ \A k \in 1..N : k < i + 1 => st[Order[k]] = "succeeded"
      /\ \A k \in 1..N : k >= i + 1 => st[Order[k]] = "pending"
  BY <1>0, <1>2, PositionsDiffer DEF ExecutingAt
<1>4. \A k \in 1..N : k >= i + 1 => UndoneIn(st, k)
  BY <1>3 DEF UndoneIn
<1>5. \A u \in Tasks : st[u] \in {"succeeded", "pending"}
  BY <1>3, TasksHavePositions, <1>0
<1>6. \A u \in Tasks : u \in results'[e] <=>
          st[u] \in {"succeeded", "compensated"} \/ (st[u] = "failed" /\ u # NoTask)
  BY <1>0, <1>1, <1>2, <1>5 DEF LocalInv, Results
<1>7. \A u \in results'[e] : st[u] = "failed" => Event(e, u, "compensation") \in letters \union dlq
  BY <1>1, <1>5
<1>8. \A k, j \in 1..N : k < j /\ st[Order[j]] # "pending" => Order[k] \in results'[e]
  <2>1. \A k, j \in 1..N : k < j /\ st[Order[j]] # "pending" => k < i + 1
    BY <1>0, <1>3
  <2> QED BY <2>1, <1>3, <1>6
<1> HIDE DEF st, t, i
<1> QED BY <1>0, <1>1, <1>2, <1>3, <1>4, <1>6, <1>7, <1>8, CompensateLocal

\* Compensating: the loop leaves position i with its task in state s.
LEMMA CompensatedLocal ==
    ASSUME IInv, NEW e \in Executions, pc[e] = "compensating",
           NEW s \in {"compensated", "failed"}, NEW q,
           CompensateBelow(e, at[e], [state[e] EXCEPT ![Order[at[e]]] = s], q, failedTask[e]),
           s = "failed" => Event(e, Order[at[e]], "compensation") \in q,
           UNCHANGED <<results, failedTask>>
    PROVE  LocalInv(e)'
<1> USE PositionsAreTasks
<1> DEFINE i == at[e]
           t == Order[i]
           f == failedTask[e]
           st == [state[e] EXCEPT ![t] = s]
<1>0. /\ i \in 1..N /\ i \in 1..(N + 1) /\ t \in Tasks /\ f \in Tasks \union {NoTask}
      /\ CompensatingAt(e) /\ LocalInv(e) /\ TypeOK
  BY DEF IInv, TypeOK, LocalInv, Control
<1>1. /\ CompensateBelow(e, i, st, q, f)
      /\ failedTask'[e] = f /\ results'[e] = results[e] /\ results[e] \subseteq Tasks
  BY <1>0 DEF TypeOK
<1>2. /\ st \in [Tasks -> WorkflowTaskState] /\ st[t] = s
      /\ \A u \in Tasks : u # t => st[u] = state[e][u]
      /\ state[e][t] = "compensating"
  BY <1>0 DEF TypeOK, WorkflowTaskState, CompensatingAt
<1>3. /\ \A k \in 1..N : k < i => st[Order[k]] = "succeeded"
      /\ \A k \in 1..N : k > i => st[Order[k]] = state[e][Order[k]] /\ UndoneIn(state[e], k)
  BY <1>0, <1>2, PositionsDiffer DEF CompensatingAt
<1>4. \A k \in 1..N : k >= i => UndoneIn(st, k)
  BY <1>0, <1>2, <1>3 DEF UndoneIn
<1>5. t # f /\ (f # NoTask => st[f] = "failed")
  BY <1>0, <1>2, ConstantAssumption DEF LocalInv, Failed
<1>6. \A u \in Tasks : u \in results[e] <=>
          st[u] \in {"succeeded", "compensated"} \/ (st[u] = "failed" /\ u # f)
  <2>1. \A u \in Tasks : u # t => state[e][u] # "compensating"
    BY <1>0, <1>2, <1>3, TasksHavePositions DEF UndoneIn
  <2> QED BY <1>0, <1>2, <1>5, <2>1 DEF LocalInv, Results
<1>7. \A u \in results[e] : st[u] = "failed" => Event(e, u, "compensation") \in letters \union q
  BY <1>0, <1>1, <1>2 DEF LocalInv, Recorded
<1>8. \A k, j \in 1..N : k < j /\ st[Order[j]] # "pending" => Order[k] \in results[e]
  BY <1>0, <1>2, PositionsDiffer DEF LocalInv, InOrder
<1> HIDE DEF st, t, i, f
<1> QED BY SMTT(30), <1>0, <1>1, <1>2, <1>3, <1>4, <1>5, <1>6, <1>7, <1>8, CompensateLocal

\* Compensating: the queue had no room for the failure.
LEMMA RefusedLocal ==
    ASSUME IInv, NEW e \in Executions, pc[e] = "compensating",
           state' = [state EXCEPT ![e] = [state[e] EXCEPT ![Order[at[e]]] = "failed"]],
           pc' = [pc EXCEPT ![e] = "aborted"],
           UNCHANGED <<at, phase, letters, results, failedTask>>
    PROVE  LocalInv(e)'
<1> USE PositionsAreTasks
<1> DEFINE i == at[e]
           t == Order[i]
<1>0. i \in 1..N /\ t \in Tasks /\ CompensatingAt(e) /\ LocalInv(e) /\ TypeOK
  BY DEF IInv, TypeOK, LocalInv, Control
<1>1. /\ state'[e][t] = "failed"
      /\ \A u \in Tasks : u # t => state'[e][u] = state[e][u]
      /\ state[e][t] = "compensating"
      /\ pc'[e] = "aborted" /\ phase'[e] = "compensation" /\ results'[e] = results[e]
  BY <1>0 DEF TypeOK, CompensatingAt
<1>2. /\ \A k \in 1..N : k < i => state'[e][Order[k]] = "succeeded"
      /\ \A k \in 1..N : k > i => state'[e][Order[k]] = state[e][Order[k]] /\ UndoneIn(state[e], k)
  BY <1>0, <1>1, PositionsDiffer DEF CompensatingAt
<1>3. \A k \in 1..N : k >= i => UndoneIn(state'[e], k)
  BY <1>0, <1>1, <1>2 DEF UndoneIn
<1>4. Control(e)'
  BY <1>0, <1>1, <1>2, <1>3 DEF Control, UndoneIn
<1>5. t # failedTask[e]
  BY <1>0, <1>1, ConstantAssumption DEF LocalInv, Failed
<1>6. Results(e)' /\ Failed(e)'
  BY <1>0, <1>1, <1>5, ConstantAssumption DEF LocalInv, Results, Failed, TypeOK
<1>7. InOrder(e)'
  <2> SUFFICES ASSUME NEW k \in 1..N, NEW l \in 1..N, k < l
               PROVE  /\ state'[e][Order[l]] # "pending" => Order[k] \in results'[e]
                      /\ state'[e][Order[k]] \in {"compensating", "compensated"} =>
                            UndoneIn(state'[e], l)
    BY DEF InOrder, UndoneIn
  <2>1. state'[e][Order[l]] # "pending" => state[e][Order[l]] # "pending"
    BY <1>1
  <2>2. state'[e][Order[k]] \in {"compensating", "compensated"} => k >= i
    BY <1>0, <1>2
  <2>3. state[e][Order[l]] # "pending" => Order[k] \in results[e]
    BY <1>0 DEF LocalInv, InOrder
  <2> HIDE DEF i
  <2>4. k >= i => UndoneIn(state'[e], l)
    <3>1. k >= i => l >= i
      BY <1>0
    <3> QED BY <1>3, <3>1
  <2> QED BY <1>1, <2>1, <2>2, <2>3, <2>4
<1>8. Recorded(e)'
  BY <1>0, <1>1 DEF LocalInv, Recorded, Event, TypeOK
<1> QED BY <1>4, <1>6, <1>7, <1>8 DEF LocalInv

\* Cancellation keeps the invariant of its execution.
LEMMA CancelLocal ==
    ASSUME IInv, NEW e \in Executions, Cancel(e)
    PROVE  LocalInv(e)'
<1>1. /\ pc[e] \in {"executing", "compensating"} /\ pc'[e] = "cancelled" /\ LocalInv(e)
      /\ UNCHANGED <<at, phase, state, results, failedTask, letters>>
  BY DEF Cancel, IInv, TypeOK
<1>2. Control(e)'
  BY <1>1 DEF LocalInv, Control, ExecutingAt, CompensatingAt, UndoneIn
<1>3. Results(e)' /\ Failed(e)' /\ InOrder(e)'
  BY <1>1 DEF LocalInv, Results, Failed, InOrder, UndoneIn
<1>4. Recorded(e)'
  BY <1>1 DEF LocalInv, Recorded, Event
<1> QED BY <1>2, <1>3, <1>4 DEF LocalInv

\* Every action keeps the inductive invariant.
LEMMA InvStep == IInv /\ [Next]_vars => IInv'
<1> SUFFICES ASSUME IInv, [Next]_vars PROVE IInv'
    OBVIOUS
<1>0. TypeOK /\ QueueInv /\ \A e \in Executions : LocalInv(e)
  BY DEF IInv
<1>1. TypeOK' /\ QueueInv'
  BY <1>0, TypeStep, QueueStep
<1>2. ASSUME NEW e \in Executions, Execute(e) \/ Answer(e) \/ Cancel(e)
      PROVE  \A x \in Executions : LocalInv(x)'
  <2>1. LocalInv(e)'
    <3>1. CASE Execute(e)
      BY <3>1, ExecuteLocal
    <3>2. CASE TaskSucceeds(e)
      BY <3>2, TaskSucceedsLocal
    <3>3. CASE TaskFails(e)
      BY <3>3, TaskFailsLocal
    <3>4. CASE CheckpointRaises(e)
      BY <3>4, CheckpointRaisesLocal
    <3>5. CASE CompensationSucceeds(e)
      BY <3>5, CompensatedLocal DEF CompensationSucceeds
    <3>6. CASE CompensationFails(e)
      <4>1. CASE CompensateBelow(e, at[e], [state[e] EXCEPT ![Order[at[e]]] = "failed"],
                     Enqueue(dlq, {Event(e, Order[at[e]], "compensation")}), failedTask[e])
        <5>1. Event(e, Order[at[e]], "compensation")
                  \in Enqueue(dlq, {Event(e, Order[at[e]], "compensation")})
          BY DEF Enqueue
        <5> QED BY <3>6, <4>1, <5>1, CompensatedLocal DEF CompensationFails
      <4>2. CASE /\ state' = [state EXCEPT ![e] =
                                 [state[e] EXCEPT ![Order[at[e]]] = "failed"]]
                 /\ pc' = [pc EXCEPT ![e] = "aborted"]
                 /\ UNCHANGED <<at, phase, dlq, letters>>
        BY <3>6, <4>2, RefusedLocal DEF CompensationFails
      <4> QED BY <3>6, <4>1, <4>2 DEF CompensationFails
    <3>7. CASE Cancel(e)
      BY <3>7, CancelLocal
    <3> QED BY <1>2, <3>1, <3>2, <3>3, <3>4, <3>5, <3>6, <3>7 DEF Answer
  <2>2. ASSUME NEW x \in Executions, x # e PROVE LocalInv(x)'
    <3>1. /\ pc'[x] = pc[x] /\ at'[x] = at[x] /\ phase'[x] = phase[x]
          /\ state'[x] = state[x] /\ letters \subseteq letters'
      <4>1. CASE Execute(e) \/ TaskSucceeds(e) \/ Cancel(e)
        BY <4>1, <1>0, <2>2 DEF Execute, TaskSucceeds, Cancel, TypeOK
      <4>2. CASE TaskFails(e)
        BY <4>2, <1>0, <2>2, CompensateFrame DEF TaskFails
      <4>3. CASE CheckpointRaises(e)
        BY <4>3, <1>0, <2>2, CompensateFrame DEF CheckpointRaises
      <4>4. CASE CompensationSucceeds(e)
        BY <4>4, <1>0, <2>2, CompensateFrame DEF CompensationSucceeds
      <4>5. CASE CompensationFails(e)
        <5>1. CASE CompensateBelow(e, at[e], [state[e] EXCEPT ![Order[at[e]]] = "failed"],
                     Enqueue(dlq, {Event(e, Order[at[e]], "compensation")}), failedTask[e])
          BY <5>1, <1>0, <2>2, CompensateFrame
        <5>2. CASE /\ state' = [state EXCEPT ![e] =
                                   [state[e] EXCEPT ![Order[at[e]]] = "failed"]]
                   /\ pc' = [pc EXCEPT ![e] = "aborted"]
                   /\ UNCHANGED <<at, phase, dlq, letters>>
          BY <5>2, <1>0, <2>2 DEF TypeOK
        <5> QED BY <4>5, <5>1, <5>2 DEF CompensationFails
      <4> QED BY <1>2, <4>1, <4>2, <4>3, <4>4, <4>5 DEF Answer
    <3>2. results'[x] = results[x] /\ failedTask'[x] = failedTask[x]
      BY <1>0, <1>2, <2>2
      DEF Answer, Execute, TaskSucceeds, TaskFails, CheckpointRaises, CompensationSucceeds,
          CompensationFails, Cancel, TypeOK
    <3> QED BY <1>0, <3>1, <3>2, Frame
  <2> QED BY <2>1, <2>2
<1>3. ASSUME UNCHANGED <<pc, at, phase, state, results, failedTask, letters>>,
             NEW x \in Executions
      PROVE  LocalInv(x)'
  BY <1>0, <1>3, Frame
<1>4. ASSUME NEW ev \in dlq, Dequeue(ev) PROVE \A x \in Executions : LocalInv(x)'
  BY <1>4, <1>3 DEF Dequeue
<1>5. ASSUME ClearExpired PROVE \A x \in Executions : LocalInv(x)'
  BY <1>5, <1>3 DEF ClearExpired
<1>6. ASSUME UNCHANGED vars PROVE \A x \in Executions : LocalInv(x)'
  BY <1>6, <1>3 DEF vars
<1> QED BY <1>1, <1>2, <1>4, <1>5, <1>6 DEF Next, IInv

\* The inductive invariant holds of every reachable state.
THEOREM Invariance == Spec => []IInv
<1> QED BY InitInv, InvStep, PTL DEF Spec

-----------------------------------------------------------------------------
(* What follows for the properties of WorkflowEngine.                      *)

\* A live or cancelled execution has exactly its current task in flight,
\* every other execution has none.
THEOREM InFlightUnique == Spec => []OneTaskInFlight
<1>1. IInv => OneTaskInFlight
  <2> SUFFICES ASSUME IInv, NEW e \in Executions
               PROVE  IF pc[e] \in {"executing", "compensating", "cancelled"}
                      THEN InFlight(e) = {Order[at[e]]}
                      ELSE InFlight(e) = {}
    BY DEF OneTaskInFlight
  <2>0. /\ LocalInv(e) /\ at[e] \in 1..N /\ Order[at[e]] \in Tasks
        /\ pc[e] \in {"idle", "executing", "compensating"} \union Ended
    BY PositionsAreTasks DEF IInv, TypeOK
  <2>1. ASSUME ExecutingAt(e) PROVE InFlight(e) = {Order[at[e]]}
    <3>1. \A t \in Tasks : t \in InFlight(e) <=> t = Order[at[e]]
      BY <2>0, <2>1, PositionsAreTasks, TasksHavePositions, PositionsDiffer
      DEF InFlight, ExecutingAt
    <3> QED BY <3>1, <2>0 DEF InFlight
  <2>2. ASSUME CompensatingAt(e) PROVE InFlight(e) = {Order[at[e]]}
    <3>1. \A t \in Tasks : t \in InFlight(e) <=> t = Order[at[e]]
      BY <2>0, <2>2, PositionsAreTasks, TasksHavePositions, PositionsDiffer
      DEF InFlight, CompensatingAt, UndoneIn
    <3> QED BY <3>1, <2>0 DEF InFlight
  <2>3. CASE pc[e] \in {"idle", "returned", "raised", "aborted"}
    <3>1. \A i \in 1..N : state[e][Order[i]] \notin {"running", "compensating"}
      BY <2>0, <2>3, PositionsAreTasks DEF LocalInv, Control, UndoneIn
    <3>2. InFlight(e) = {}
      BY <3>1, TasksHavePositions DEF InFlight
    <3> QED BY <2>3, <3>2
  <2> QED BY <2>0, <2>1, <2>2, <2>3 DEF LocalInv, Control, Ended
<1> QED BY <1>1, Invariance, PTL

\* Forward order and reverse order respect the dependencies of every DAG.
THEOREM DependenciesRespected == Spec => []DependencyOrder
<1>1. IInv => DependencyOrder
  <2> SUFFICES ASSUME IInv, NEW e \in Executions, NEW t \in Tasks, NEW d \in Dependencies[t]
               PROVE  /\ state[e][t] # "pending" => d \in results[e]
                      /\ state[e][d] \in {"compensating", "compensated"} =>
                             \/ state[e][t] \in {"pending", "failed", "compensated"}
                             \/ state[e][t] = "succeeded" /\ t \notin Compensable
    BY DEF DependencyOrder
  <2>1. d \in Tasks
    BY DependencyAssumption
  <2>2. PICK i \in 1..N : Order[i] = d
    BY <2>1, TasksHavePositions
  <2>3. PICK j \in 1..N : Order[j] = t
    BY TasksHavePositions
  <2>4. i < j
    BY <2>2, <2>3, DependencyAssumption
  <2>5. InOrder(e)
    BY DEF IInv, LocalInv
  <2> QED BY <2>2, <2>3, <2>4, <2>5 DEF InOrder, UndoneIn
<1> QED BY <1>1, Invariance, PTL

\* A complete rollback has undone or recorded every compensable task.
THEOREM RollbackComplete == Spec => []CompleteIsUndone
<1>1. IInv => CompleteIsUndone
  <2> SUFFICES ASSUME IInv, NEW e \in Executions, phase[e] = "complete"
               PROVE  /\ \A t \in Compensable : t \in results[e] =>
                             \/ state[e][t] = "compensated"
                             \/ /\ state[e][t] = "failed"
                                /\ Event(e, t, "compensation") \in letters
                      /\ failedTask[e] # NoTask => Event(e, failedTask[e], "forward") \in letters
    BY DEF CompleteIsUndone
  <2>1. LocalInv(e) /\ pc[e] \in {"idle", "executing", "compensating"} \union Ended
    BY DEF IInv, TypeOK
  <2>2. pc[e] = "raised"
    BY <2>1 DEF LocalInv, Control, ExecutingAt, CompensatingAt, Ended
  <2>3. \A t \in Tasks : \E i \in 1..N : Order[i] = t /\ UndoneIn(state[e], i)
    BY <2>1, <2>2, TasksHavePositions DEF LocalInv, Control
  <2> QED BY <2>1, <2>2, <2>3, ConstantAssumption DEF LocalInv, Results, Recorded, UndoneIn
<1> QED BY <1>1, Invariance, PTL

\* No failed task is lost without a trace, except where the queue refused it
\* or the saga was given up before it came to record it.
THEOREM FailuresRecorded == Spec => []FailedTasksRecorded
<1>1. IInv => FailedTasksRecorded
  <2> SUFFICES ASSUME IInv, NEW e \in Executions, NEW t \in Tasks, state[e][t] = "failed"
               PROVE  \/ \E k \in {"forward", "compensation"} : Event(e, t, k) \in letters
                      \/ /\ t = failedTask[e]
                         /\ pc[e] \in {"compensating", "cancelled", "aborted"}
                      \/ t = Order[at[e]] /\ pc[e] = "aborted"
    BY DEF FailedTasksRecorded
  <2>1. LocalInv(e) /\ pc[e] \in {"idle", "executing", "compensating"} \union Ended
    BY DEF IInv, TypeOK
  <2>2. CASE t # failedTask[e]
    BY <2>1, <2>2 DEF LocalInv, Results, Recorded
  <2>3. CASE t = failedTask[e]
    <3>1. failedTask[e] # NoTask
      BY <2>3, ConstantAssumption
    <3>2. PICK i \in 1..N : Order[i] = t
      BY TasksHavePositions
    <3>3. pc[e] \notin {"idle", "executing", "returned"}
      BY <2>1, <3>1, <3>2 DEF LocalInv, Control, ExecutingAt
    <3> QED BY <2>1, <2>3, <3>1, <3>3 DEF LocalInv, Control, Recorded, Ended
  <2> QED BY <2>2, <2>3
<1> QED BY <1>1, Invariance, PTL

\* The dead-letter queue never exceeds its size.
THEOREM QueueWithinBound == Spec => []QueueBounded
<1>1. IInv => QueueBounded
  BY DEF IInv, QueueInv, QueueBounded
<1> QED BY <1>1, Invariance, PTL

-----------------------------------------------------------------------------
(* The checkpoints.                                                        *)

\* The tasks at the first m positions.
Done(m) == {Order[i] : i \in 1..m}

\* The results of an execution are always a prefix of the order, the whole
\* stretch the forward phase has passed, and the checkpoints cover it but for
\* less than one interval.
CheckpointInv(e) ==
    LET cps == checkpoints[e]
        k == checkpoint_interval
    IN  /\ \A c \in 1..Len(cps) : cps[c] = [completed |-> Done(c * k), results |-> Done(c * k)]
        /\ \E m \in 0..N :
              /\ results[e] = Done(m)
              /\ pc[e] = "idle" => m = 0
              /\ pc[e] = "executing" => m = at[e] - 1
              /\ k # 0 => Len(cps) * k <= m /\ m < (Len(cps) + 1) * k

\* Counting in steps of k: the next number is a multiple of k exactly when it
\* reaches the next step.
LEMMA NextMultiple ==
    ASSUME NEW k \in Nat, k > 0, NEW l \in Nat, NEW m \in Nat, l * k <= m, m < (l + 1) * k
    PROVE  IF (m + 1) % k = 0
           THEN m + 1 = (l + 1) * k
           ELSE m + 1 < (l + 1) * k
<1> DEFINE q == (m + 1) \div k
           r == (m + 1) % k
<1>1. q \in Int /\ r \in 0..(k - 1) /\ m + 1 = k * q + r
  OBVIOUS
<1>2. (l + 1) * k = l * k + k /\ l * k \in Int /\ k * q \in Int
  OBVIOUS
<1>3. CASE r = 0
  <2>1. q * k > l * k /\ q * k <= (l + 1) * k
    BY <1>1, <1>2, <1>3
  <2>2. q > l
    <3> SUFFICES ASSUME q <= l PROVE FALSE
      BY <1>1
    <3>1. (l - q) \in Nat
      BY <1>1
    <3>2. (l - q) * k >= 0
      BY <3>1
    <3>3. (l - q) * k = l * k - q * k
      BY <1>1
    <3> QED BY <2>1, <3>2, <3>3, <1>1, <1>2
  <2>3. q <= l + 1
    <3> SUFFICES ASSUME q > l + 1 PROVE FALSE
      BY <1>1
    <3>1. (q - (l + 1)) \in Nat /\ q - (l + 1) >= 1
      BY <1>1
    <3>2. (q - (l + 1)) * k >= 1
      BY <3>1
    <3>3. (q - (l + 1)) * k = q * k - (l + 1) * k
      BY <1>1
    <3> QED BY <2>1, <3>2, <3>3, <1>1, <1>2
  <2> QED BY <1>1, <1>3, <2>2, <2>3
<1>4. CASE r # 0
  <2>1. SUFFICES ASSUME m + 1 = (l + 1) * k PROVE FALSE
    BY <1>2, <1>4
  <2>2. q * k + r = (l + 1) * k
    BY <1>1, <2>1
  <2>3. (l + 1 - q) * k = r
    BY <1>1, <2>2
  <2>4. l + 1 - q >= 1
    <3> SUFFICES ASSUME q - (l + 1) \in Nat PROVE FALSE
      BY <1>1
    <3>1. (q - (l + 1)) * k >= 0
      OBVIOUS
    <3>2. (q - (l + 1)) * k = 0 - (l + 1 - q) * k
      BY <1>1
    <3> QED BY <1>1, <1>4, <2>3, <3>1, <3>2
  <2>5. (l + 1 - q - 1) * k >= 0
    BY <1>1, <2>4
  <2>6. (l + 1 - q - 1) * k = (l + 1 - q) * k - k
    BY <1>1
  <2> QED BY <1>1, <2>3, <2>5, <2>6
<1> QED BY <1>3, <1>4

\* The invariant of the checkpoints reads four variables only.
LEMMA CheckpointFrame ==
    ASSUME NEW e, CheckpointInv(e),
           checkpoint_interval' = checkpoint_interval,
           checkpoints'[e] = checkpoints[e], results'[e] = results[e],
           \/ pc'[e] = pc[e] /\ at'[e] = at[e]
           \/ pc'[e] \notin {"idle", "executing"}
           \/ pc[e] = "idle" /\ pc'[e] = "executing" /\ at'[e] = 1
    PROVE  CheckpointInv(e)'
BY DEF CheckpointInv, Done

\* An execution starts with no result and no checkpoint.
LEMMA CheckpointInit == Init => \A e \in Executions : CheckpointInv(e)
<1> SUFFICES ASSUME Init, NEW e \in Executions PROVE CheckpointInv(e)
    OBVIOUS
<1>1. results[e] = Done(0) /\ checkpoints[e] = <<>> /\ pc[e] = "idle"
  BY DEF Init, Done
<1>2. checkpoint_interval \in Nat
  BY ConstantAssumption DEF Init
<1> HIDE DEF Done
<1> QED BY <1>1, <1>2, PositionsAreTasks DEF CheckpointInv

\* A task that succeeds extends the prefix, and a checkpoint that is due is
\* taken of exactly that prefix.
LEMMA CheckpointSucceeds ==
    ASSUME IInv, NEW e \in Executions, CheckpointInv(e), TaskSucceeds(e)
    PROVE  CheckpointInv(e)'
<1> USE PositionsAreTasks
<1> DEFINE i == at[e]
           k == checkpoint_interval
           cps == checkpoints[e]
           st == [state[e] EXCEPT ![Order[i]] = "succeeded"]
           rs == results[e] \union {Order[i]}
           cp == [completed |-> {t \in Tasks : st[t] = "succeeded"}, results |-> rs]
<1>0. /\ i \in 1..N /\ pc[e] = "executing" /\ ExecutingAt(e) /\ TypeOK
      /\ k \in Nat /\ k > 0 /\ k' = k /\ Len(cps) \in Nat
  BY ConstantAssumption DEF TaskSucceeds, IInv, TypeOK, LocalInv, Control
<1>1. /\ results[e] = Done(i - 1)
      /\ Len(cps) * k <= i - 1 /\ i - 1 < (Len(cps) + 1) * k
      /\ \A c \in 1..Len(cps) : cps[c] = [completed |-> Done(c * k), results |-> Done(c * k)]
  BY <1>0 DEF CheckpointInv
<1>2. rs = Done(i) /\ results'[e] = Done(i)
  <2>1. \A j \in 1..i : j \in 1..(i - 1) \/ j = i
    BY <1>0
  <2>2. rs = Done(i)
    BY <1>0, <1>1, <2>1 DEF Done
  <2> QED BY <1>0, <2>2 DEF TaskSucceeds, TypeOK
<1>3. {t \in Tasks : st[t] = "succeeded"} = Done(i)
  <2>1. \A j \in 1..N : st[Order[j]] = "succeeded" <=> j <= i
    <3>1. \A t \in Tasks : st[t] = IF t = Order[i] THEN "succeeded" ELSE state[e][t]
      BY <1>0 DEF TypeOK
    <3> HIDE DEF st
    <3>2. \A j \in 1..N : st[Order[j]] = IF j = i THEN "succeeded" ELSE state[e][Order[j]]
      BY <1>0, <3>1, PositionsDiffer
    <3>3. \A j \in 1..N : state[e][Order[j]] = "succeeded" <=> j < i
      BY <1>0 DEF ExecutingAt
    <3> QED BY <1>0, <3>2, <3>3
  <2>2. \A j \in 1..i : j \in 1..N
    BY <1>0
  <2> HIDE DEF st
  <2> QED BY <2>1, <2>2, TasksHavePositions DEF Done
<1>4. \/ pc'[e] = "executing" /\ at'[e] = i + 1
      \/ pc'[e] = "returned"
  BY <1>0 DEF TaskSucceeds, TypeOK
<1>5. IF i % k = 0 THEN i = (Len(cps) + 1) * k ELSE i < (Len(cps) + 1) * k
  <2>1. i - 1 \in Nat /\ (i - 1) + 1 = i
    BY <1>0
  <2> HIDE DEF i, k, cps
  <2> QED BY <1>0, <1>1, <2>1, NextMultiple
<1>6. CASE i % k = 0
  <2>1. checkpoints'[e] = Append(cps, cp)
    BY <1>0, <1>6 DEF TaskSucceeds, TakeCheckpoint, TypeOK
  <2>2. cp = [completed |-> Done(i), results |-> Done(i)]
    BY <1>2, <1>3
  <2>3. cps \in Seq(ExecutionCheckpoint) /\ i = (Len(cps) + 1) * k
    BY <1>0, <1>5, <1>6 DEF TypeOK
  <2> DEFINE new == checkpoints'[e]
  <2>4. /\ Len(new) = Len(cps) + 1
        /\ new[Len(cps) + 1] = [completed |-> Done(i), results |-> Done(i)]
        /\ \A c \in 1..Len(cps) : new[c] = cps[c]
    <3> HIDE DEF cp, cps
    <3> QED BY <2>1, <2>2, <2>3
  <2>5. \A c \in 1..Len(new) : new[c] = [completed |-> Done(c * k), results |-> Done(c * k)]
    <3> SUFFICES ASSUME NEW c \in 1..Len(new)
                 PROVE  new[c] = [completed |-> Done(c * k), results |-> Done(c * k)]
      OBVIOUS
    <3> HIDE DEF cps, new, Done, k
    <3>1. CASE c \in 1..Len(cps)
      BY <1>1, <2>4, <3>1
    <3>2. CASE c = Len(cps) + 1
      BY <2>3, <2>4, <3>2
    <3> QED BY <1>0, <2>4, <3>1, <3>2
  <2>6. Len(new) * k <= i /\ i < (Len(new) + 1) * k
    <3> HIDE DEF cps, new, k, i
    <3>1. (Len(cps) + 1 + 1) * k = (Len(cps) + 1) * k + k /\ (Len(cps) + 1) * k \in Int
      BY <1>0
    <3> QED BY <1>0, <2>3, <2>4, <3>1
  <2> HIDE DEF Done, i
  <2> QED BY SMTT(30), <1>0, <1>2, <1>4, <2>5, <2>6 DEF CheckpointInv
<1>7. CASE i % k # 0
  <2>1. checkpoints'[e] = cps
    BY <1>0, <1>7 DEF TaskSucceeds, TakeCheckpoint, TypeOK
  <2>2. Len(cps) * k <= i /\ i < (Len(cps) + 1) * k
    <3> HIDE DEF cps, k, i
    <3>1. Len(cps) * k \in Int
      BY <1>0
    <3> QED BY <1>0, <1>1, <1>5, <1>7, <3>1
  <2> HIDE DEF Done, i
  <2> QED BY <1>0, <1>1, <1>2, <1>4, <2>1, <2>2 DEF CheckpointInv
<1> QED BY <1>6, <1>7

\* With interval 0 the task whose checkpoint raises has still joined the
\* prefix.
LEMMA CheckpointRaised ==
    ASSUME IInv, NEW e \in Executions, CheckpointInv(e), CheckpointRaises(e)
    PROVE  CheckpointInv(e)'
<1> USE PositionsAreTasks
<1> DEFINE i == at[e]
<1>0. i \in 1..N /\ pc[e] = "executing" /\ checkpoint_interval = 0 /\ TypeOK
  BY DEF CheckpointRaises, IInv, TypeOK
<1>1. results[e] = Done(i - 1)
  BY <1>0 DEF CheckpointInv
<1>2. results'[e] = Done(i)
  <2>1. \A j \in 1..i : j \in 1..(i - 1) \/ j = i
    BY <1>0
  <2>2. results'[e] = results[e] \union {Order[i]}
    BY <1>0 DEF CheckpointRaises, TypeOK
  <2> QED BY <1>0, <1>1, <2>1, <2>2 DEF Done
<1>3. pc'[e] \notin {"idle", "executing"}
  BY <1>0 DEF CheckpointRaises, CompensateBelow, TypeOK
<1>4. checkpoints'[e] = checkpoints[e] /\ checkpoint_interval' = checkpoint_interval
  BY DEF CheckpointRaises
<1>5. i \in 0..N /\ \A m : Done(m)' = Done(m)
  BY <1>0 DEF Done
<1>6. \A c \in 1..Len(checkpoints[e]) :
          checkpoints[e][c] = [completed |-> Done(c * 0), results |-> Done(c * 0)]
  BY <1>0 DEF CheckpointInv
<1> HIDE DEF i
<1> QED BY <1>0, <1>2, <1>3, <1>4, <1>5, <1>6 DEF CheckpointInv

\* Every action keeps the invariant of the checkpoints.
LEMMA CheckpointStep ==
    ASSUME IInv, [Next]_vars, NEW x \in Executions, CheckpointInv(x)
    PROVE  CheckpointInv(x)'
<1>0. TypeOK
  BY DEF IInv
<1>1. ASSUME NEW e \in Executions, Execute(e) PROVE CheckpointInv(x)'
  <2>1. pc[e] = "idle" => at[e] = 1
    BY DEF IInv, LocalInv, Control
  <2> QED BY <1>0, <1>1, <2>1, CheckpointFrame DEF Execute, TypeOK
<1>2. ASSUME NEW e \in Executions, TaskSucceeds(e) PROVE CheckpointInv(x)'
  <2>1. CASE e = x
    BY <1>2, <2>1, CheckpointSucceeds
  <2>2. CASE e # x
    <3>1. checkpoints'[x] = checkpoints[x]
      BY <1>0, <1>2, <2>2 DEF TaskSucceeds, TakeCheckpoint, TypeOK
    <3> QED BY <1>0, <1>2, <2>2, <3>1, CheckpointFrame DEF TaskSucceeds, TypeOK
  <2> QED BY <2>1, <2>2
<1>3. ASSUME NEW e \in Executions, CheckpointRaises(e) PROVE CheckpointInv(x)'
  <2>1. CASE e = x
    BY <1>3, <2>1, CheckpointRaised
  <2>2. CASE e # x
    <3>1. pc'[x] = pc[x] /\ at'[x] = at[x]
      BY <1>0, <1>3, <2>2, CompensateFrame DEF CheckpointRaises
    <3> QED BY <1>0, <1>3, <2>2, <3>1, CheckpointFrame DEF CheckpointRaises, TypeOK
  <2> QED BY <2>1, <2>2
<1>4. ASSUME NEW e \in Executions,
             TaskFails(e) \/ CompensationSucceeds(e) \/ CompensationFails(e)
      PROVE  CheckpointInv(x)'
  <2>1. UNCHANGED <<results, checkpoints, checkpoint_interval>>
    BY <1>4 DEF TaskFails, CompensationSucceeds, CompensationFails
  <2>2. \/ \E i, st, q, f : CompensateBelow(e, i, st, q, f)
        \/ pc' = [pc EXCEPT ![e] = "aborted"] /\ UNCHANGED at
    BY <1>4 DEF TaskFails, CompensationSucceeds, CompensationFails
  <2>3. CASE e = x
    <3>1. pc'[x] \notin {"idle", "executing"}
      BY <1>0, <2>2, <2>3 DEF CompensateBelow, TypeOK
    <3> QED BY <2>1, <3>1, CheckpointFrame
  <2>4. CASE e # x
    <3>1. pc'[x] = pc[x] /\ at'[x] = at[x]
      BY <1>0, <2>2, <2>4, CompensateFrame DEF TypeOK
    <3> QED BY <2>1, <3>1, CheckpointFrame
  <2> QED BY <2>3, <2>4
<1>5. ASSUME NEW e \in Executions, Cancel(e) PROVE CheckpointInv(x)'
  BY <1>0, <1>5, CheckpointFrame DEF Cancel, TypeOK
<1>6. CASE UNCHANGED <<pc, at, results, checkpoints, checkpoint_interval>>
  BY <1>6, CheckpointFrame
<1>7. ASSUME NEW ev \in dlq, Dequeue(ev) PROVE CheckpointInv(x)'
  BY <1>6, <1>7 DEF Dequeue
<1>8. CASE ClearExpired
  BY <1>6, <1>8 DEF ClearExpired
<1>9. CASE UNCHANGED vars
  BY <1>6, <1>9 DEF vars
<1> QED BY <1>1, <1>2, <1>3, <1>4, <1>5, <1>7, <1>8, <1>9 DEF Next, Answer

\* A prefix has no more tasks than positions.
LEMMA PrefixCardinality ==
    ASSUME NEW m \in 0..N
    PROVE  Cardinality(Done(m)) \in Nat /\ Cardinality(Done(m)) <= m
<1> DEFINE f == [i \in 1..m |-> Order[i]]
<1>1. f \in Surjection(1..m, Done(m))
  BY DEF Surjection, Done
<1>2. m \in Nat /\ IsFiniteSet(1..m) /\ Cardinality(1..m) = m
  BY PositionsAreTasks, FS_Interval
<1> HIDE DEF f
<1>3. IsFiniteSet(Done(m)) /\ Cardinality(Done(m)) <= Cardinality(1..m)
  BY <1>1, <1>2, FS_Surjection
<1> QED BY <1>2, <1>3, FS_CardinalityType

\* Whatever the interval and the interleaving, the checkpoints of an
\* execution are the prefixes of its order at the multiples of the interval,
\* and none that is due is missing.
THEOREM CheckpointsCorrect == Spec => []CheckpointsArePrefixes
<1> DEFINE CInv == IInv /\ \A e \in Executions : CheckpointInv(e)
<1>1. Init => CInv
  BY InitInv, CheckpointInit
<1>2. CInv /\ [Next]_vars => CInv'
  BY InvStep, CheckpointStep
<1>3. CInv => CheckpointsArePrefixes
  <2> SUFFICES ASSUME CInv, NEW e \in Executions
               PROVE  /\ \A c \in 1..Len(checkpoints[e]) :
                            LET done == {Order[i] : i \in 1..(c * checkpoint_interval)}
                            IN  checkpoints[e][c] = [completed |-> done, results |-> done]
                      /\ checkpoint_interval # 0 =>
                            Cardinality(results[e])
                                < (Len(checkpoints[e]) + 1) * checkpoint_interval
    BY DEF CheckpointsArePrefixes
  <2>1. CheckpointInv(e)
    OBVIOUS
  <2>2. checkpoint_interval \in Nat /\ Len(checkpoints[e]) \in Nat
    BY ConstantAssumption DEF IInv, TypeOK
  <2>3. ASSUME checkpoint_interval # 0
        PROVE  Cardinality(results[e]) < (Len(checkpoints[e]) + 1) * checkpoint_interval
    <3>1. PICK m \in 0..N : /\ results[e] = Done(m)
                            /\ m < (Len(checkpoints[e]) + 1) * checkpoint_interval
      BY <2>1, <2>3 DEF CheckpointInv
    <3>2. Cardinality(results[e]) \in Nat /\ Cardinality(results[e]) <= m
      BY <3>1, PrefixCardinality
    <3>3. m \in Int /\ (Len(checkpoints[e]) + 1) * checkpoint_interval \in Int
      BY <2>2, PositionsAreTasks
    <3> QED BY <3>1, <3>2, <3>3
  <2> QED BY <2>1, <2>3 DEF CheckpointInv, Done
<1> QED BY <1>1, <1>2, <1>3, PTL DEF Spec

-----------------------------------------------------------------------------
(* The refinement of Saga.                                                 *)

\* Before any execution nothing has taken effect.
LEMMA InitRefines == Init => Abstract!SagaInit
<1> SUFFICES ASSUME Init PROVE Abstract!SagaInit
    OBVIOUS
<1>1. \A e \in Executions : ModeOf(e) = "forward" /\ EffectsOf(e) = {} /\ StuckOf(e) = {}
  BY DEF Init, ModeOf, EffectsOf, StuckOf
<1> QED BY <1>1 DEF Abstract!SagaInit

\* A step that leaves what the mapping reads of every other execution alone.
OthersUnchanged(e) ==
    \A x \in Executions \ {e} :
        pc'[x] = pc[x] /\ state'[x] = state[x] /\ results'[x] = results[x]

\* Such a step changes the abstract variables at e only.
LEMMA AbstractFrame ==
    ASSUME NEW e \in Executions, OthersUnchanged(e)
    PROVE  /\ [x \in Executions |-> ModeOf(x)]'
                = [[x \in Executions |-> ModeOf(x)] EXCEPT ![e] = ModeOf(e)']
           /\ [x \in Executions |-> EffectsOf(x)]'
                = [[x \in Executions |-> EffectsOf(x)] EXCEPT ![e] = EffectsOf(e)']
           /\ [x \in Executions |-> StuckOf(x)]'
                = [[x \in Executions |-> StuckOf(x)] EXCEPT ![e] = StuckOf(e)']
<1>1. \A x \in Executions \ {e} :
          ModeOf(x)' = ModeOf(x) /\ EffectsOf(x)' = EffectsOf(x) /\ StuckOf(x)' = StuckOf(x)
  BY DEF OthersUnchanged, ModeOf, EffectsOf, StuckOf
<1> QED BY <1>1

\* A rollback that goes on, ends or is given up, as Saga sees it.
LEMMA AbstractContinue ==
    ASSUME NEW e \in Executions, OthersUnchanged(e), NEW fx, NEW sk,
           EffectsOf(e)' = fx, StuckOf(e)' = sk,
           ModeOf(e)' \in {"undoing", "rolledBack", "abandoned"},
           ModeOf(e)' = "undoing" => Abstract!Undoable(fx, sk) # {},
           ModeOf(e)' = "rolledBack" => Abstract!Undoable(fx, sk) = {}
    PROVE  Abstract!Continue(e, fx, sk)
BY AbstractFrame DEF Abstract!Continue

\* The mode is read off pc.
LEMMA Modes ==
    ASSUME NEW e
    PROVE  /\ pc[e] \in {"idle", "executing"} => ModeOf(e) = "forward"
           /\ pc[e] = "compensating" => ModeOf(e) = "undoing"
           /\ pc[e] = "returned" => ModeOf(e) = "committed"
           /\ pc[e] = "raised" => ModeOf(e) = "rolledBack"
           /\ pc[e] \in {"aborted", "cancelled"} => ModeOf(e) = "abandoned"
BY DEF ModeOf

\* The compensation loop, entered below i with the states st of execution e,
\* is a step of the abstract rollback: what it still has to undo is what Saga
\* calls undoable.
LEMMA CompensateRefines ==
    ASSUME TypeOK, NEW e \in Executions, NEW i \in 1..(N + 1),
           NEW st \in [Tasks -> WorkflowTaskState], NEW q, NEW f,
           CompensateBelow(e, i, st, q, f),
           \A k \in 1..N : k < i => st[Order[k]] = "succeeded",
           \A k \in 1..N : k >= i => UndoneIn(st, k),
           \A x \in Executions \ {e} : results'[x] = results[x],
           results'[e] \subseteq Tasks,
           \A t \in Tasks : st[t] = "succeeded" => t \in results'[e],
           \A t \in results'[e] : st[t] # "pending"
    PROVE  Abstract!Continue(e, {t \in results'[e] : st[t] # "compensated"},
                                {t \in results'[e] : st[t] = "failed"})
<1> USE PositionsAreTasks
<1> DEFINE fx == {t \in results'[e] : st[t] # "compensated"}
           sk == {t \in results'[e] : st[t] = "failed"}
<1> SUFFICES Abstract!Continue(e, fx, sk)
    OBVIOUS
<1>1. OthersUnchanged(e)
  BY CompensateFrame DEF OthersUnchanged
<1>2. \A j \in ToCompensate(i, st) : Order[j] \in Abstract!Undoable(fx, sk)
  BY DEF ToCompensate, Abstract!Undoable
<1>3. ToCompensate(i, st) = {} => Abstract!Undoable(fx, sk) = {}
  <2> SUFFICES ASSUME ToCompensate(i, st) = {}, NEW t \in Abstract!Undoable(fx, sk)
               PROVE  FALSE
    OBVIOUS
  <2>1. t \in Compensable /\ t \in results'[e] /\ st[t] # "compensated" /\ st[t] # "failed"
    BY DEF Abstract!Undoable
  <2>2. PICK k \in 1..N : Order[k] = t
    BY <2>1, TasksHavePositions
  <2> QED BY <2>1, <2>2 DEF ToCompensate, UndoneIn
<1>4. CASE \E j \in NextToCompensate(i, st) :
              /\ state' = [state EXCEPT ![e] = [st EXCEPT ![Order[j]] = "compensating"]]
              /\ pc' = [pc EXCEPT ![e] = "compensating"]
  <2>1. PICK j \in NextToCompensate(i, st) :
              /\ state' = [state EXCEPT ![e] = [st EXCEPT ![Order[j]] = "compensating"]]
              /\ pc' = [pc EXCEPT ![e] = "compensating"]
    BY <1>4
  <2>2. j \in ToCompensate(i, st) /\ st[Order[j]] = "succeeded" /\ Order[j] \in Tasks
    BY DEF NextToCompensate, ToCompensate
  <2>3. state'[e] = [st EXCEPT ![Order[j]] = "compensating"] /\ pc'[e] = "compensating"
    BY <2>1 DEF TypeOK
  <2>4. EffectsOf(e)' = fx /\ StuckOf(e)' = sk
    BY <2>2, <2>3 DEF EffectsOf, StuckOf
  <2>5. ModeOf(e)' = "undoing"
    BY <2>3 DEF ModeOf
  <2>6. Abstract!Undoable(fx, sk) # {}
    BY <1>2, <2>2
  <2> HIDE DEF fx, sk
  <2> QED BY <1>1, <2>4, <2>5, <2>6, AbstractContinue
<1>5. CASE /\ ToCompensate(i, st) = {}
           /\ state' = [state EXCEPT ![e] = st]
           /\ \/ pc' = [pc EXCEPT ![e] = "raised"]
              \/ pc' = [pc EXCEPT ![e] = "aborted"]
  <2>1. state'[e] = st /\ pc'[e] \in {"raised", "aborted"}
    BY <1>5 DEF TypeOK
  <2>2. EffectsOf(e)' = fx /\ StuckOf(e)' = sk
    BY <2>1 DEF EffectsOf, StuckOf
  <2>3. ModeOf(e)' \in {"rolledBack", "abandoned"}
    BY <2>1 DEF ModeOf
  <2> HIDE DEF fx, sk
  <2> QED BY <1>1, <1>3, <1>5, <2>2, <2>3, AbstractContinue
<1> QED BY <1>4, <1>5 DEF CompensateBelow

\* Starting an execution changes nothing that Saga sees.
LEMMA ExecuteRefines ==
    ASSUME IInv, NEW e \in Executions, Execute(e)
    PROVE  UNCHANGED Abstract!sagaVars
<1>1. \A x \in Executions : results'[x] = results[x] /\ EffectsOf(x) \subseteq results[x]
  BY DEF Execute, EffectsOf
<1>2. results[e] = {} /\ results'[e] = {} /\ OthersUnchanged(e)
  <2>1. \A t \in Tasks : t \notin results[e]
    BY DEF Execute, IInv, LocalInv, Control, Results
  <2>2. results[e] \subseteq Tasks
    BY DEF IInv, TypeOK
  <2> QED BY <1>1, <2>1, <2>2 DEF IInv, TypeOK, Execute, OthersUnchanged
<1>3. EffectsOf(e)' = EffectsOf(e) /\ StuckOf(e)' = StuckOf(e)
  BY <1>2 DEF EffectsOf, StuckOf
<1>4. pc[e] = "idle" /\ pc'[e] = "executing"
  BY DEF Execute, IInv, TypeOK
<1>5. ModeOf(e)' = ModeOf(e)
  BY <1>4 DEF ModeOf
<1>6. \A x \in Executions :
          ModeOf(x)' = ModeOf(x) /\ EffectsOf(x)' = EffectsOf(x) /\ StuckOf(x)' = StuckOf(x)
  BY ZenonT(60), <1>2, <1>3, <1>5 DEF OthersUnchanged, ModeOf, EffectsOf, StuckOf
<1> QED BY <1>6 DEF Abstract!sagaVars

\* In its forward phase an execution has the effects of the positions it has
\* passed, and nothing is stuck.
LEMMA ForwardEffects ==
    ASSUME IInv, NEW e \in Executions, pc[e] = "executing"
    PROVE  /\ ModeOf(e) = "forward"
           /\ \A k \in 1..N : Order[k] \in EffectsOf(e) <=> k < at[e]
           /\ EffectsOf(e) \subseteq Tasks
           /\ results[e] = EffectsOf(e)
           /\ StuckOf(e) = {}
           /\ Dependencies[Order[at[e]]] \subseteq EffectsOf(e)
<1> USE PositionsAreTasks
<1>1. ExecutingAt(e) /\ Results(e) /\ at[e] \in 1..N /\ results[e] \subseteq Tasks
  BY DEF IInv, LocalInv, Control, TypeOK
<1>2. \A t \in Tasks : state[e][t] \in {"succeeded", "running", "pending"}
  BY <1>1, TasksHavePositions DEF ExecutingAt
<1>3. ModeOf(e) = "forward"
  BY Modes
<1>4. results[e] = EffectsOf(e) /\ StuckOf(e) = {}
  BY <1>1, <1>2 DEF EffectsOf, StuckOf
<1>5. \A k \in 1..N : Order[k] \in results[e] <=> k < at[e]
  BY <1>1 DEF ExecutingAt, Results
<1>6. Dependencies[Order[at[e]]] \subseteq EffectsOf(e)
  <2> SUFFICES ASSUME NEW d \in Dependencies[Order[at[e]]] PROVE d \in results[e]
    BY <1>4
  <2>1. d \in Tasks
    BY <1>1, DependencyAssumption
  <2>2. PICK k \in 1..N : Order[k] = d
    BY <2>1, TasksHavePositions
  <2>3. k < at[e]
    BY <1>1, <2>2, DependencyAssumption
  <2> QED BY <1>5, <2>2, <2>3
<1> QED BY <1>1, <1>3, <1>4, <1>5, <1>6

\* A task that succeeds takes effect; the last one commits the saga.
LEMMA TaskSucceedsRefines ==
    ASSUME IInv, NEW e \in Executions, TaskSucceeds(e)
    PROVE  Abstract!Apply(e, Order[at[e]])
<1> USE PositionsAreTasks
<1> DEFINE i == at[e]
           t == Order[i]
<1> SUFFICES Abstract!Apply(e, t)
    OBVIOUS
<1>0. i \in 1..N /\ t \in Tasks /\ pc[e] = "executing" /\ TypeOK /\ ExecutingAt(e)
  BY DEF IInv, TypeOK, TaskSucceeds, LocalInv, Control
<1>1. OthersUnchanged(e)
  BY <1>0 DEF OthersUnchanged, TaskSucceeds, TypeOK
<1>2. results'[e] = results[e] \union {t}
  BY <1>0 DEF TaskSucceeds, TypeOK
<1>3. \A u \in results'[e] : state'[e][u] = "succeeded"
  <2> SUFFICES ASSUME NEW u \in results'[e] PROVE state'[e][u] = "succeeded"
    OBVIOUS
  <2>1. PICK k \in 1..N : Order[k] = u /\ k <= i
    BY <1>0, <1>2, ForwardEffects, TasksHavePositions
  <2>2. u \in Tasks /\ (k < i => state[e][u] = "succeeded")
    BY <1>0, <2>1 DEF ExecutingAt
  <2>3. i < N => i + 1 \in 1..N /\ Order[i + 1] # u
    BY <1>0, <2>1, PositionsDiffer
  <2>4. state'[e][u] = [state[e] EXCEPT ![t] = "succeeded"][u]
    BY <1>0, <2>2, <2>3 DEF TaskSucceeds, TypeOK
  <2> QED BY <1>0, <2>1, <2>2, <2>4 DEF TypeOK
<1>4. EffectsOf(e)' = EffectsOf(e) \union {t} /\ StuckOf(e)' = StuckOf(e)
  BY <1>0, <1>2, <1>3, ForwardEffects DEF EffectsOf, StuckOf
<1>5. t \notin EffectsOf(e)
  BY <1>0, ForwardEffects
<1>6. CASE i < N /\ pc' = pc
  <2>1. i + 1 \in 1..N /\ Order[i + 1] \notin EffectsOf(e) \union {t}
    BY <1>0, <1>6, ForwardEffects, PositionsDiffer
  <2>2. EffectsOf(e) \union {t} # Tasks
    BY <2>1
  <2>3. ModeOf(e)' = ModeOf(e)
    BY <1>6 DEF ModeOf
  <2>4. /\ [x \in Executions |-> ModeOf(x)]' = [x \in Executions |-> ModeOf(x)]
        /\ [x \in Executions |-> StuckOf(x)]' = [x \in Executions |-> StuckOf(x)]
        /\ [x \in Executions |-> EffectsOf(x)]'
              = [[x \in Executions |-> EffectsOf(x)] EXCEPT ![e] = EffectsOf(e) \union {t}]
    BY <1>1, <1>4, <2>3, AbstractFrame
  <2>5. [x \in Executions |-> EffectsOf(x)]'[e] # Tasks
    BY <2>2, <2>4
  <2>6. ModeOf(e) = "forward" /\ Dependencies[t] \subseteq EffectsOf(e)
    BY <1>0, ForwardEffects
  <2> HIDE DEF t
  <2> QED BY <1>5, <2>4, <2>5, <2>6 DEF Abstract!Apply
<1>7. CASE i = N /\ pc' = [pc EXCEPT ![e] = "returned"]
  <2>1. EffectsOf(e) \union {t} = Tasks
    BY <1>0, <1>7, ForwardEffects, TasksHavePositions
  <2>2. pc'[e] = "returned"
    BY <1>0, <1>7 DEF TypeOK
  <2>3. ModeOf(e)' = "committed"
    BY <2>2 DEF ModeOf
  <2> QED BY <1>0, <1>1, <1>4, <1>5, <2>1, <2>3, ForwardEffects, AbstractFrame
      DEF Abstract!Apply
<1> QED BY <1>6, <1>7 DEF TaskSucceeds

\* A task that fails turns the saga round with the effects it had.
LEMMA TaskFailsRefines ==
    ASSUME IInv, NEW e \in Executions, TaskFails(e)
    PROVE  Abstract!Fail(e)
<1> USE PositionsAreTasks
<1> DEFINE i == at[e]
           t == Order[i]
           st == [state[e] EXCEPT ![t] = "failed"]
           rs == results'[e]
<1>0. /\ i \in 1..N /\ i \in 1..(N + 1) /\ t \in Tasks
      /\ pc[e] = "executing" /\ TypeOK /\ ExecutingAt(e)
  BY DEF IInv, TypeOK, TaskFails, LocalInv, Control
<1>1. CompensateBelow(e, i, st, dlq, t) /\ results' = results
  BY DEF TaskFails
<1>2. /\ st \in [Tasks -> WorkflowTaskState] /\ st[t] = "failed"
      /\ \A u \in Tasks : u # t => st[u] = state[e][u]
  BY <1>0 DEF TypeOK, WorkflowTaskState
<1>3. /\ \A k \in 1..N : k < i => st[Order[k]] = "succeeded"
      /\ \A k \in 1..N : k > i => st[Order[k]] = "pending"
  BY <1>0, <1>2, PositionsDiffer DEF ExecutingAt
<1>4. \A k \in 1..N : k >= i => UndoneIn(st, k)
  BY <1>0, <1>2, <1>3 DEF UndoneIn
<1>5. rs = EffectsOf(e) /\ rs \subseteq Tasks /\ \A k \in 1..N : Order[k] \in rs <=> k < i
  BY <1>0, <1>1, ForwardEffects
<1>6. \A u \in Tasks : u \in rs <=> st[u] = "succeeded"
  BY <1>0, <1>2, <1>3, <1>5, TasksHavePositions
<1>7. Abstract!Continue(e, {u \in rs : st[u] # "compensated"}, {u \in rs : st[u] = "failed"})
  <2> HIDE DEF st, t, i
  <2> QED BY <1>0, <1>1, <1>2, <1>3, <1>4, <1>5, <1>6, CompensateRefines
<1>8. {u \in rs : st[u] # "compensated"} = EffectsOf(e) /\ {u \in rs : st[u] = "failed"} = {}
  BY <1>5, <1>6
<1>9. ModeOf(e) = "forward"
  BY <1>0, ForwardEffects
<1> HIDE DEF st, rs
<1> QED BY <1>7, <1>8, <1>9 DEF Abstract!Fail

\* A checkpoint that raises turns it round just after one more effect.
LEMMA CheckpointRaisesRefines ==
    ASSUME IInv, NEW e \in Executions, CheckpointRaises(e)
    PROVE  Abstract!Fail(e)
<1> USE PositionsAreTasks
<1> DEFINE i == at[e]
           t == Order[i]
           st == [state[e] EXCEPT ![t] = "succeeded"]
           rs == results'[e]
<1>0. /\ i \in 1..N /\ i + 1 \in 1..(N + 1) /\ t \in Tasks
      /\ pc[e] = "executing" /\ TypeOK /\ ExecutingAt(e)
  BY DEF IInv, TypeOK, CheckpointRaises, LocalInv, Control
<1>1. /\ CompensateBelow(e, i + 1, st, dlq, failedTask[e])
      /\ results' = [results EXCEPT ![e] = @ \union {t}]
  BY DEF CheckpointRaises
<1>2. /\ st \in [Tasks -> WorkflowTaskState] /\ st[t] = "succeeded"
      /\ \A u \in Tasks : u # t => st[u] = state[e][u]
  BY <1>0 DEF TypeOK, WorkflowTaskState
<1>3. /\ \A k \in 1..N : k < i + 1 => st[Order[k]] = "succeeded"
      /\ \A k \in 1..N : k >= i + 1 => st[Order[k]] = "pending"
  BY <1>0, <1>2, PositionsDiffer DEF ExecutingAt
<1>4. \A k \in 1..N : k >= i + 1 => UndoneIn(st, k)
  BY <1>3 DEF UndoneIn
<1>5. /\ rs = EffectsOf(e) \union {t} /\ rs \subseteq Tasks
      /\ \A x \in Executions \ {e} : results'[x] = results[x]
  BY <1>0, <1>1, ForwardEffects DEF TypeOK
<1>6. \A u \in Tasks : u \in rs <=> st[u] = "succeeded"
  <2>1. \A k \in 1..N : Order[k] \in rs <=> k < i + 1
    BY <1>0, <1>5, ForwardEffects, PositionsDiffer
  <2> QED BY <1>0, <1>3, <2>1, TasksHavePositions
<1>7. Abstract!Continue(e, {u \in rs : st[u] # "compensated"}, {u \in rs : st[u] = "failed"})
  <2> HIDE DEF st, t, i
  <2> QED BY <1>0, <1>1, <1>2, <1>3, <1>4, <1>5, <1>6, CompensateRefines
<1>8. /\ {u \in rs : st[u] # "compensated"} = EffectsOf(e) \union {t}
      /\ {u \in rs : st[u] = "failed"} = {}
  BY <1>5, <1>6
<1>9. ModeOf(e) = "forward" /\ Dependencies[t] \subseteq EffectsOf(e)
  BY <1>0, ForwardEffects
<1> HIDE DEF st, rs, t
<1> QED BY <1>0, <1>7, <1>8, <1>9 DEF Abstract!Fail

\* The task being compensated is undoable, and nothing undoable needs it.
LEMMA BackwardEffects ==
    ASSUME IInv, NEW e \in Executions, pc[e] = "compensating"
    PROVE  /\ ModeOf(e) = "undoing"
           /\ Order[at[e]] \in Tasks
           /\ Order[at[e]] \in Abstract!Undoable(EffectsOf(e), StuckOf(e))
           /\ \A u \in Abstract!Undoable(EffectsOf(e), StuckOf(e)) :
                 Order[at[e]] \notin Dependencies[u]
<1> USE PositionsAreTasks
<1>1. /\ CompensatingAt(e) /\ Results(e) /\ at[e] \in 1..N
      /\ Order[at[e]] \in Tasks /\ results[e] \subseteq Tasks
  BY DEF IInv, LocalInv, Control, TypeOK
<1>2. ModeOf(e) = "undoing"
  BY Modes
<1>3. Order[at[e]] \in Abstract!Undoable(EffectsOf(e), StuckOf(e))
  BY <1>1 DEF CompensatingAt, Results, EffectsOf, StuckOf, Abstract!Undoable
<1>4. ASSUME NEW u \in Abstract!Undoable(EffectsOf(e), StuckOf(e)),
             Order[at[e]] \in Dependencies[u]
      PROVE  FALSE
  <2>1. /\ u \in Tasks /\ u \in results[e] /\ u \in Compensable
        /\ state[e][u] \notin {"compensated", "failed"}
    BY <1>1, <1>4 DEF Abstract!Undoable, EffectsOf, StuckOf
  <2>2. PICK k \in 1..N : Order[k] = u
    BY <2>1, TasksHavePositions
  <2>3. k > at[e]
    BY <1>1, <1>4, <2>2, DependencyAssumption
  <2>4. UndoneIn(state[e], k) /\ state[e][u] # "pending"
    BY <1>1, <2>1, <2>3 DEF CompensatingAt, Results
  <2> QED BY <2>1, <2>2, <2>4 DEF UndoneIn
<1> QED BY <1>1, <1>2, <1>3, <1>4

\* An answer of a compensation takes the effect back or leaves it stuck.
LEMMA CompensatedRefines ==
    ASSUME IInv, NEW e \in Executions, pc[e] = "compensating",
           NEW s \in {"compensated", "failed"}, NEW q,
           CompensateBelow(e, at[e], [state[e] EXCEPT ![Order[at[e]]] = s], q, failedTask[e]),
           results' = results
    PROVE  Abstract!Undo(e, Order[at[e]])
<1> USE PositionsAreTasks
<1> DEFINE i == at[e]
           t == Order[i]
           st == [state[e] EXCEPT ![t] = s]
           rs == results'[e]
<1> SUFFICES Abstract!Undo(e, t)
    OBVIOUS
<1>0. /\ i \in 1..N /\ i \in 1..(N + 1) /\ t \in Tasks /\ TypeOK /\ CompensatingAt(e)
      /\ Results(e) /\ CompensateBelow(e, i, st, q, failedTask[e])
  BY DEF IInv, TypeOK, LocalInv, Control
<1>1. rs = results[e] /\ rs \subseteq Tasks /\ t \in rs
  BY <1>0 DEF TypeOK, CompensatingAt, Results
<1>2. /\ st \in [Tasks -> WorkflowTaskState] /\ st[t] = s
      /\ \A u \in Tasks : u # t => st[u] = state[e][u]
      /\ state[e][t] = "compensating"
  BY <1>0 DEF TypeOK, WorkflowTaskState, CompensatingAt
<1>3. /\ \A k \in 1..N : k < i => st[Order[k]] = "succeeded"
      /\ \A k \in 1..N : k >= i => UndoneIn(st, k)
  BY <1>0, <1>2, PositionsDiffer DEF CompensatingAt, UndoneIn
<1>4. /\ \A u \in Tasks : st[u] = "succeeded" => u \in rs
      /\ \A u \in rs : st[u] # "pending"
  BY <1>0, <1>1, <1>2 DEF Results
<1>5. Abstract!Continue(e, {u \in rs : st[u] # "compensated"}, {u \in rs : st[u] = "failed"})
  <2> HIDE DEF st, t, i
  <2> QED BY <1>0, <1>1, <1>2, <1>3, <1>4, CompensateRefines
<1>6. /\ s = "compensated" =>
            /\ {u \in rs : st[u] # "compensated"} = EffectsOf(e) \ {t}
            /\ {u \in rs : st[u] = "failed"} = StuckOf(e)
      /\ s = "failed" =>
            /\ {u \in rs : st[u] # "compensated"} = EffectsOf(e)
            /\ {u \in rs : st[u] = "failed"} = StuckOf(e) \union {t}
  BY <1>1, <1>2 DEF EffectsOf, StuckOf
<1>7. /\ ModeOf(e) = "undoing"
      /\ t \in Abstract!Undoable(EffectsOf(e), StuckOf(e))
      /\ \A u \in Abstract!Undoable(EffectsOf(e), StuckOf(e)) : t \notin Dependencies[u]
  BY BackwardEffects
<1> HIDE DEF st, rs, t
<1> QED BY <1>5, <1>6, <1>7 DEF Abstract!Undo

\* A compensation failed and the queue refused the event: the effect is stuck
\* and the saga given up.
LEMMA RefusedRefines ==
    ASSUME IInv, NEW e \in Executions, pc[e] = "compensating",
           state' = [state EXCEPT ![e] = [state[e] EXCEPT ![Order[at[e]]] = "failed"]],
           pc' = [pc EXCEPT ![e] = "aborted"], results' = results
    PROVE  Abstract!Undo(e, Order[at[e]])
<1> DEFINE t == Order[at[e]]
<1> SUFFICES Abstract!Undo(e, t)
    OBVIOUS
<1>0. /\ t \in Tasks /\ TypeOK /\ t \in results[e] /\ results[e] \subseteq Tasks
      /\ state[e][t] = "compensating"
  BY PositionsAreTasks DEF IInv, TypeOK, LocalInv, Control, CompensatingAt, Results
<1>1. OthersUnchanged(e) /\ pc'[e] = "aborted"
  BY <1>0 DEF OthersUnchanged, TypeOK
<1>2. /\ state'[e][t] = "failed"
      /\ \A u \in Tasks : u # t => state'[e][u] = state[e][u]
  BY <1>0 DEF TypeOK
<1>3. EffectsOf(e)' = EffectsOf(e) /\ StuckOf(e)' = StuckOf(e) \union {t}
  BY <1>0, <1>2 DEF EffectsOf, StuckOf
<1>4. ModeOf(e)' = "abandoned"
  BY <1>1 DEF ModeOf
<1>5. Abstract!Continue(e, EffectsOf(e), StuckOf(e) \union {t})
  BY <1>1, <1>3, <1>4, AbstractContinue
<1>6. /\ ModeOf(e) = "undoing"
      /\ t \in Abstract!Undoable(EffectsOf(e), StuckOf(e))
      /\ \A u \in Abstract!Undoable(EffectsOf(e), StuckOf(e)) : t \notin Dependencies[u]
  BY BackwardEffects
<1> HIDE DEF t
<1> QED BY <1>5, <1>6 DEF Abstract!Undo

\* A cancelled execution is given up with its effects in place.
LEMMA CancelRefines ==
    ASSUME IInv, NEW e \in Executions, Cancel(e)
    PROVE  Abstract!Abandon(e)
<1>1. OthersUnchanged(e) /\ pc[e] \in {"executing", "compensating"} /\ pc'[e] = "cancelled"
  BY DEF Cancel, IInv, TypeOK, OthersUnchanged
<1>2. EffectsOf(e)' = EffectsOf(e) /\ StuckOf(e)' = StuckOf(e)
  BY DEF Cancel, EffectsOf, StuckOf
<1>3. ModeOf(e) \in {"forward", "undoing"} /\ ModeOf(e)' = "abandoned"
  <2>1. ModeOf(e) \in {"forward", "undoing"}
    BY <1>1, Modes
  <2> QED BY <1>1, <2>1 DEF ModeOf
<1> QED BY <1>1, <1>2, <1>3, AbstractFrame DEF Abstract!Abandon

\* Every step is a step of Saga or changes nothing that Saga sees.
LEMMA StepRefines ==
    IInv /\ [Next]_vars => [Abstract!SagaNext]_(Abstract!sagaVars)
<1> SUFFICES ASSUME IInv, [Next]_vars
             PROVE  Abstract!SagaNext \/ UNCHANGED Abstract!sagaVars
    OBVIOUS
<1>1. ASSUME NEW e \in Executions, Answer(e) PROVE Abstract!SagaNext
  <2>0. pc[e] \in {"executing", "compensating"} /\ at[e] \in 1..N /\ Order[at[e]] \in Tasks
    BY <1>1, PositionsAreTasks
    DEF Answer, TaskSucceeds, TaskFails, CheckpointRaises, CompensationSucceeds,
        CompensationFails, IInv, TypeOK
  <2>1. CASE TaskSucceeds(e)
    BY <2>0, <2>1, TaskSucceedsRefines DEF Abstract!SagaNext
  <2>2. CASE TaskFails(e)
    BY <2>2, TaskFailsRefines DEF Abstract!SagaNext
  <2>3. CASE CheckpointRaises(e)
    BY <2>3, CheckpointRaisesRefines DEF Abstract!SagaNext
  <2>4. CASE CompensationSucceeds(e)
    <3>1. Abstract!Undo(e, Order[at[e]])
      BY <2>4, CompensatedRefines DEF CompensationSucceeds
    <3> QED BY <2>0, <3>1 DEF Abstract!SagaNext
  <2>5. CASE CompensationFails(e)
    <3>1. CASE CompensateBelow(e, at[e], [state[e] EXCEPT ![Order[at[e]]] = "failed"],
                   Enqueue(dlq, {Event(e, Order[at[e]], "compensation")}), failedTask[e])
      <4>1. Abstract!Undo(e, Order[at[e]])
        BY <2>5, <3>1, CompensatedRefines DEF CompensationFails
      <4> QED BY <2>0, <4>1 DEF Abstract!SagaNext
    <3>2. CASE /\ state' = [state EXCEPT ![e] =
                               [state[e] EXCEPT ![Order[at[e]]] = "failed"]]
               /\ pc' = [pc EXCEPT ![e] = "aborted"]
      <4>1. Abstract!Undo(e, Order[at[e]])
        BY <2>5, <3>2, RefusedRefines DEF CompensationFails
      <4> QED BY <2>0, <4>1 DEF Abstract!SagaNext
    <3> QED BY <2>5, <3>1, <3>2 DEF CompensationFails
  <2> QED BY <1>1, <2>1, <2>2, <2>3, <2>4, <2>5 DEF Answer
<1>2. ASSUME NEW e \in Executions, Execute(e) PROVE UNCHANGED Abstract!sagaVars
  BY <1>2, ExecuteRefines
<1>3. ASSUME NEW e \in Executions, Cancel(e) PROVE Abstract!SagaNext
  BY <1>3, CancelRefines DEF Abstract!SagaNext
<1>4. ASSUME UNCHANGED <<pc, state, results>> PROVE UNCHANGED Abstract!sagaVars
  <2>1. \A x \in Executions :
            ModeOf(x)' = ModeOf(x) /\ EffectsOf(x)' = EffectsOf(x) /\ StuckOf(x)' = StuckOf(x)
    BY <1>4 DEF ModeOf, EffectsOf, StuckOf
  <2> QED BY <2>1 DEF Abstract!sagaVars
<1>5. ASSUME NEW ev \in dlq, Dequeue(ev) PROVE UNCHANGED Abstract!sagaVars
  BY <1>4, <1>5 DEF Dequeue
<1>6. CASE ClearExpired
  BY <1>4, <1>6 DEF ClearExpired
<1>7. CASE UNCHANGED vars
  BY <1>4, <1>7 DEF vars
<1> QED BY <1>1, <1>2, <1>3, <1>5, <1>6, <1>7 DEF Next

\* The engine implements the abstract saga: whatever the DAG, the
\* interleaving, the failures, the cancellations and the room in the
\* dead-letter queue, the effects of an execution appear on top of their
\* dependencies, are taken back from the top down, and a saga that stops
\* short of either end is visibly given up.
THEOREM SagaImplemented == Spec => ImplementsSaga
<1> QED BY InitRefines, StepRefines, Invariance, PTL DEF Spec, ImplementsSaga, Abstract!SagaSpec
=============================================================================
