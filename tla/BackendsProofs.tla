--------------------------- MODULE BackendsProofs ---------------------------
(***************************************************************************)
(* Proofs about the registry of tools, the boundary between tenants and    *)
(* the chain of goals and, from them and ServicesProofs, about all         *)
(* services together: a behaviour of the composition is about one of them  *)
(* and leaves the others alone.                                            *)
(***************************************************************************)
EXTENDS ServicesProofs

-----------------------------------------------------------------------------
(* The registry of tools.                                                  *)

\* Slots and running handlers agree.  TypeOK needs the agreement (a count never
\* falls below 0) and the agreement needs TypeOK: the inductive invariant is
\* their conjunction.
IInv == TypeOK /\ CountsAreRunning

\* A set of calls is finite, and a call is counted under one key.
LEMMA RunningFinite ==
    \A k \in Keys : IsFiniteSet(Running(k)) /\ Cardinality(Running(k)) \in Nat
  BY FS_Subset, FS_CardinalityType, RegistryAssumption DEF Running

\* The key of a call is a key of the table.
LEMMA KeyType == \A i \in Invocations : Key(i) \in Keys
  BY RegistryAssumption DEF Key, Keys

\* At first no slot is in use and no handler runs.
LEMMA InitIInv == Init => IInv
<1> SUFFICES ASSUME Init PROVE IInv
    OBVIOUS
<1>1. TypeOK
    BY RegistryAssumption DEF Init, TypeOK
<1>2. CountsAreRunning
  <2> SUFFICES ASSUME NEW k \in Keys PROVE active[k] = Cardinality(Running(k))
      BY DEF CountsAreRunning
  <2>1. Running(k) = {}
      BY DEF Init, Running
  <2> QED BY <2>1, FS_EmptySet DEF Init
<1> QED BY <1>1, <1>2 DEF IInv

\* What leaves the counts and the running calls alone keeps the agreement.
LEMMA SameCounts ==
    ASSUME CountsAreRunning, UNCHANGED active,
           \A i \in Invocations : pc[i] = "running" <=> pc'[i] = "running"
    PROVE  CountsAreRunning'
<1> SUFFICES ASSUME NEW k \in Keys PROVE active'[k] = Cardinality(Running(k)')
    BY DEF CountsAreRunning
<1>1. Running(k)' = Running(k)
    BY DEF Running, Key
<1> QED BY <1>1 DEF CountsAreRunning

\* A call that starts adds one to its key, and to no other.
LEMMA StartCounts ==
    ASSUME IInv, NEW i \in Invocations, Start(i)
    PROVE  CountsAreRunning'
<1> SUFFICES ASSUME NEW k \in Keys PROVE active'[k] = Cardinality(Running(k)')
    BY DEF CountsAreRunning
<1>1. Key(i) \in Keys
    BY KeyType
<1>2. CASE k = Key(i)
  <2>1. Running(k)' = Running(k) \union {i} /\ i \notin Running(k)
      BY <1>2 DEF Running, Start, IInv, TypeOK, Key
  <2>2. Cardinality(Running(k)') = Cardinality(Running(k)) + 1
      BY <2>1, RunningFinite, FS_AddElement
  <2>3. active'[k] = active[k] + 1
      BY <1>2, <1>1 DEF Start, IInv, TypeOK
  <2> QED BY <2>2, <2>3 DEF IInv, CountsAreRunning
<1>3. CASE k # Key(i)
  <2>1. Running(k)' = Running(k)
      BY <1>3 DEF Running, Start, IInv, TypeOK, Key
  <2>2. active'[k] = active[k]
      BY <1>3, <1>1 DEF Start, IInv, TypeOK
  <2> QED BY <2>1, <2>2 DEF IInv, CountsAreRunning
<1> QED BY <1>2, <1>3

\* The key of a running call has at least one slot in use.
LEMMA RunningHasSlot ==
    ASSUME IInv, NEW i \in Invocations, pc[i] = "running"
    PROVE  active[Key(i)] \in Nat \ {0}
<1>1. Key(i) \in Keys /\ i \in Running(Key(i))
    BY KeyType DEF Running
<1>2. Cardinality(Running(Key(i))) # 0
    BY <1>1, RunningFinite, FS_EmptySet
<1> QED BY <1>1, <1>2, RunningFinite DEF IInv, CountsAreRunning

\* A call that ends takes one from its key, and from no other.
LEMMA FinishCounts ==
    ASSUME IInv, NEW i \in Invocations, Finish(i)
    PROVE  CountsAreRunning'
<1> SUFFICES ASSUME NEW k \in Keys PROVE active'[k] = Cardinality(Running(k)')
    BY DEF CountsAreRunning
<1>1. Key(i) \in Keys
    BY KeyType
<1>2. active' = [active EXCEPT ![Key(i)] = @ - 1] /\ pc' = [pc EXCEPT ![i] = "done"]
      /\ pc[i] = "running"
    BY DEF Finish, Release
<1>3. CASE k = Key(i)
  <2>1. Running(k)' = Running(k) \ {i} /\ i \in Running(k)
      BY <1>2, <1>3 DEF Running, IInv, TypeOK, Key
  <2>2. Cardinality(Running(k)') = Cardinality(Running(k)) - 1
      BY <2>1, RunningFinite, FS_RemoveElement
  <2>3. active'[k] = active[k] - 1
      BY <1>1, <1>2, <1>3 DEF IInv, TypeOK
  <2> QED BY <2>2, <2>3 DEF IInv, CountsAreRunning
<1>4. CASE k # Key(i)
  <2>1. Running(k)' = Running(k)
      BY <1>2, <1>4 DEF Running, IInv, TypeOK, Key
  <2>2. active'[k] = active[k]
      BY <1>1, <1>2, <1>4 DEF IInv, TypeOK
  <2> QED BY <2>1, <2>2 DEF IInv, CountsAreRunning
<1> QED BY <1>3, <1>4

\* No step breaks the agreement.
LEMMA CountsStep == IInv /\ [Next]_vars => CountsAreRunning'
<1> SUFFICES ASSUME IInv, [Next]_vars PROVE CountsAreRunning'
    OBVIOUS
<1>1. CASE \E i \in Invocations : Start(i)
    BY <1>1, StartCounts
<1>2. CASE \E i \in Invocations : Finish(i)
    BY <1>2, FinishCounts
<1>3. CASE /\ UNCHANGED active
           /\ \A i \in Invocations : pc[i] = "running" <=> pc'[i] = "running"
    BY <1>3, SameCounts DEF IInv
<1>4. ASSUME NEW i \in Invocations, NotFound(i) \/ Denied(i) \/ AtCapacity(i)
      PROVE  /\ UNCHANGED active
             /\ \A j \in Invocations : pc[j] = "running" <=> pc'[j] = "running"
    BY <1>4 DEF NotFound, Denied, AtCapacity, Answer, IInv, TypeOK
<1>5. ASSUME NEW i \in Invocations, Timeout(i) \/ Cancel(i)
      PROVE  UNCHANGED <<active, pc>>
    BY <1>5 DEF Timeout, Cancel
<1>6. ASSUME NEW t \in Tools,
             \/ register_tool(t)
             \/ \E a \in Agents : \/ \E kind \in Kinds : grant_permission(t, a, kind)
                                  \/ Expire(t, a)
             \/ \E tenant \in Tenants, n \in Limits : set_concurrency_limit(t, tenant, n)
      PROVE  UNCHANGED <<active, pc>>
    BY <1>6 DEF register_tool, grant_permission, Expire, set_concurrency_limit
<1>7. CASE UNCHANGED vars
    BY <1>7, <1>3 DEF vars
<1> QED BY <1>1, <1>2, <1>3, <1>4, <1>5, <1>6, <1>7 DEF Next

\* No step breaks the types.
LEMMA TypeStep == IInv /\ [Next]_vars => TypeOK'
<1> SUFFICES ASSUME IInv, [Next]_vars PROVE TypeOK'
    OBVIOUS
<1> USE DEF IInv, TypeOK
<1>1. ASSUME NEW t \in Tools, register_tool(t) PROVE TypeOK'
    BY <1>1 DEF register_tool
<1>2. ASSUME NEW t \in Tools, NEW a \in Agents, NEW kind \in Kinds,
             grant_permission(t, a, kind)
      PROVE  TypeOK'
    BY <1>2 DEF grant_permission
<1>3. ASSUME NEW t \in Tools, NEW a \in Agents, Expire(t, a) PROVE TypeOK'
    BY <1>3 DEF Expire
<1>4. ASSUME NEW t \in Tools, NEW tenant \in Tenants, NEW n \in Limits,
             set_concurrency_limit(t, tenant, n)
      PROVE  TypeOK'
    BY <1>4, RegistryAssumption DEF set_concurrency_limit
<1>5. ASSUME NEW i \in Invocations, NotFound(i) \/ Denied(i) \/ AtCapacity(i)
      PROVE  TypeOK'
    BY <1>5 DEF NotFound, Denied, AtCapacity, Answer, ErrorCode
<1>6. ASSUME NEW i \in Invocations, Start(i) PROVE TypeOK'
    BY <1>6, KeyType DEF Start
<1>7. ASSUME NEW i \in Invocations, Timeout(i) \/ Cancel(i) PROVE TypeOK'
    BY <1>7 DEF Timeout, Cancel
<1>8. ASSUME NEW i \in Invocations, Finish(i) PROVE TypeOK'
  <2>1. active[Key(i)] - 1 \in Nat
      BY <1>8, RunningHasSlot DEF Finish
  <2>2. active' \in [Keys -> Nat]
      BY <1>8, <2>1 DEF Finish, Release
  <2> QED BY <1>8, <2>2 DEF Finish, Outcomes, ErrorCode
<1>9. CASE UNCHANGED vars
    BY <1>9 DEF vars
<1> QED BY <1>1, <1>2, <1>3, <1>4, <1>5, <1>6, <1>7, <1>8, <1>9 DEF Next

\* IInv is inductive.
THEOREM IInvInvariant == Spec => []IInv
<1>1. IInv /\ [Next]_vars => IInv'
    BY CountsStep, TypeStep DEF IInv
<1> QED BY <1>1, InitIInv, PTL DEF Spec

\* The registry keeps its types: in particular no count falls below 0.
THEOREM TypeCorrect == Spec => []TypeOK
<1>1. IInv => TypeOK
    BY DEF IInv
<1> QED BY <1>1, IInvInvariant, PTL

\* Slots in use are running handlers, through failures, timeouts and cancels.
THEOREM CountsCorrect == Spec => []CountsAreRunning
<1>1. IInv => CountsAreRunning
    BY DEF IInv
<1> QED BY <1>1, IInvInvariant, PTL

\* Calls are admitted and turned away by the number of handlers that run.
THEOREM AdmissionCorrect == Spec => AdmissionIsExact
<1> DEFINE Exact(i) ==
       /\ Begins(i) => Cardinality(Running(Key(i))) < Limit(i)
       /\ TurnedAway(i) => Cardinality(Running(Key(i))) >= Limit(i)
<1>1. ASSUME IInv, Next, NEW i \in Invocations
      PROVE  Exact(i)
  <2>1. active[Key(i)] = Cardinality(Running(Key(i))) /\ active[Key(i)] \in Nat
        /\ Limit(i) \in Nat
      BY <1>1, KeyType, RegistryAssumption DEF IInv, CountsAreRunning, TypeOK, Limit
  <2>2. ASSUME pc[i] = "new", pc'[i] # "new"
        PROVE  NotFound(i) \/ Denied(i) \/ AtCapacity(i) \/ Start(i)
    <3>1. ASSUME NEW j \in Invocations, j # i, pc' \in {[pc EXCEPT ![j] = "running"],
                                                        [pc EXCEPT ![j] = "done"]}
          PROVE  FALSE
        BY <1>1, <2>2, <3>1 DEF IInv, TypeOK
    <3>2. \E j \in Invocations : NotFound(j) \/ Denied(j) \/ AtCapacity(j) \/ Start(j)
                                 \/ Finish(j)
        BY <1>1, <2>2 DEF Next, register_tool, grant_permission, Expire,
            set_concurrency_limit, Timeout, Cancel
    <3>3. ~Finish(i)
        BY <2>2 DEF Finish
    <3> QED BY <3>1, <3>2, <3>3 DEF NotFound, Denied, AtCapacity, Answer, Start, Finish
  <2>3. Begins(i) => HasSlot(i)
      BY <1>1, <2>2 DEF Begins, Start, NotFound, Denied, AtCapacity, Answer, IInv, TypeOK
  <2>4. TurnedAway(i) => ~HasSlot(i)
      BY <1>1, <2>2 DEF TurnedAway, Start, NotFound, Denied, AtCapacity, Answer, ErrorCode,
          IInv, TypeOK
  <2> QED BY <2>1, <2>3, <2>4 DEF HasSlot
<1>2. ASSUME UNCHANGED vars, NEW i \in Invocations
      PROVE  Exact(i)
    BY <1>2 DEF vars, Begins, TurnedAway
<1>3. IInv /\ [Next]_vars => [\A i \in Invocations : Exact(i)]_vars
    BY <1>1, <1>2
<1> QED BY <1>3, IInvInvariant, PTL DEF Spec, AdmissionIsExact

-----------------------------------------------------------------------------
(* The migrations of the schema and their audit.                           *)

BoundarySpec == Boundary!BoundaryInit /\ [][Boundary!BoundaryNext]_(Boundary!boundaryVars)

\* The operations of the statements, and the names tables can have.
StatementOps == {"table", "index", "enable", "force", "drop", "create"}
TablesNamed ==
    {"agents", "goals", "topologies", "conversations", "goals_history", "idempotency_keys", "logs",
     "kernel_audit_log", "workflow_checkpoints", "task_state", "memory_store"} \union Boundary!Range(rlsTables)

\* A statement of a migration: what it does, and to which table.
MigrationStatements == [op : StatementOps, on : TablesNamed]

\* Operations applied to tables: each table in turn gets all of them.
LEMMA EachIs ==
    ASSUME NEW ops \in Seq(StatementOps), NEW tables \in Seq(TablesNamed), Len(ops) # 0
    PROVE  /\ Boundary!Each(ops, tables) \in Seq(MigrationStatements)
           /\ Len(Boundary!Each(ops, tables)) = Len(ops) * Len(tables)
           /\ \A i \in 1 .. Len(ops) * Len(tables) :
                 Boundary!Each(ops, tables)[i] = [op |-> ops[((i - 1) % Len(ops)) + 1],
                                                  on |-> tables[((i - 1) \div Len(ops)) + 1]]
  <1> DEFINE n == Len(ops)  m == Len(tables)
             E(i) == [op |-> ops[((i - 1) % n) + 1], on |-> tables[((i - 1) \div n) + 1]]
  <1>1. n \in Nat \ {0} /\ m \in Nat /\ n * m \in Nat
    BY LenProperties
  <1>2. ASSUME NEW i \in 1 .. n * m PROVE E(i) \in MigrationStatements
    <2>1. ((i - 1) % n) + 1 \in 1 .. n
      BY <1>1
    <2>2. ((i - 1) \div n) + 1 \in 1 .. m
      <3> DEFINE q == (i - 1) \div n
      <3> HIDE DEF n, m
      <3>1. q \in Nat /\ q * n <= i - 1
        BY <1>1, <1>2
      <3>2. q * n < n * m
        BY <1>1, <3>1
      <3> HIDE DEF q
      <3>3. q < m
        <4>1. CASE q >= m
          <5>1. q * n >= m * n
            BY <1>1, <3>1, <4>1, SMTT(30)
          <5> QED
            BY <1>1, <3>1, <3>2, <5>1
        <4> QED
          BY <1>1, <3>1, <4>1
      <3> QED
        BY <1>1, <3>1, <3>3 DEF q
    <2> QED
      BY <2>1, <2>2, ElementOfSeq DEF MigrationStatements
  <1>3. Boundary!Each(ops, tables) = [i \in 1 .. n * m |-> E(i)]
    BY DEF Boundary!Each
  <1> QED
    BY <1>1, <1>2, <1>3, IsASeq

\* What comes before a table's policy is created.
Preparations == {"enable", "force", "drop"}

\* What the order of the statements promises: a policy is created on a table of
\* the tuple in force, after the preparations; and each such table is prepared.
MigrationIs ==
    LET all == Boundary!run_migrations IN
    /\ Len(all) \in Nat
    /\ \A i \in 1 .. Len(all) :
          /\ all[i].op \in StatementOps
          /\ all[i].op = "create" =>
                /\ all[i].on \in Boundary!Range(rlsTables)
                /\ \A op \in Preparations : \E j \in 1 .. Len(all) :
                      j < i /\ all[j].op = op /\ all[j].on = all[i].on
    /\ \A t \in Boundary!Range(rlsTables), op \in Preparations :
          \E j \in 1 .. Len(all) : all[j].op = op /\ all[j].on = t

\* The migration does that, whatever tuple of tables it is for.
LEMMA Migration ==
    ASSUME rlsTables \in Seq(Boundary!Range(rlsTables))
    PROVE  MigrationIs
  <1> DEFINE ct == Boundary!create_tables  ci == Boundary!create_indexes  er == Boundary!enable_rls
             n == Len(rlsTables)  ops == <<"enable", "force", "drop", "create">>
  <1>1. /\ ct \in Seq(MigrationStatements) /\ Len(ct) = 11
        /\ \A i \in 1 .. 11 : ct[i].op = "table"
    <2> DEFINE o == <<"table">>  t == Boundary!DDL_TABLES
    <2>1. o \in Seq(StatementOps) /\ Len(o) = 1 /\ o[1] = "table"
      BY DEF StatementOps
    <2>2. t \in Seq(TablesNamed) /\ Len(t) = 11
      BY DEF Boundary!DDL_TABLES, TablesNamed
    <2>3. ct = Boundary!Each(o, t)
      BY DEF Boundary!create_tables
    <2> HIDE DEF o, t, ct
    <2>4. /\ Boundary!Each(o, t) \in Seq(MigrationStatements) /\ Len(Boundary!Each(o, t)) = 1 * 11
          /\ \A i \in 1 .. 1 * 11 :
                Boundary!Each(o, t)[i] = [op |-> o[((i - 1) % 1) + 1], on |-> t[((i - 1) \div 1) + 1]]
      <3>1. Len(o) # 0
        BY <2>1
      <3> QED
        BY ZenonT(60), <2>1, <2>2, <3>1, EachIs
    <2>5. ASSUME NEW i \in 1 .. 11 PROVE Boundary!Each(o, t)[i].op = "table"
      <3>1. i \in 1 .. 1 * 11 /\ ((i - 1) % 1) + 1 = 1
        OBVIOUS
      <3>2. Boundary!Each(o, t)[i].op = o[((i - 1) % 1) + 1]
        BY <2>4, <3>1
      <3> QED
        BY <2>1, <3>1, <3>2
    <2> QED
      BY <2>3, <2>4, <2>5
  <1>2. /\ ci \in Seq(MigrationStatements) /\ Len(ci) = 16
        /\ \A i \in 1 .. 16 : ci[i].op = "index"
    <2> DEFINE o == <<"index">>  t == Boundary!DDL_INDEXES
    <2>1. o \in Seq(StatementOps) /\ Len(o) = 1 /\ o[1] = "index"
      BY DEF StatementOps
    <2>2. t \in Seq(TablesNamed) /\ Len(t) = 16
      BY DEF Boundary!DDL_INDEXES, TablesNamed
    <2>3. ci = Boundary!Each(o, t)
      BY DEF Boundary!create_indexes
    <2> HIDE DEF o, t, ci
    <2>4. /\ Boundary!Each(o, t) \in Seq(MigrationStatements) /\ Len(Boundary!Each(o, t)) = 1 * 16
          /\ \A i \in 1 .. 1 * 16 :
                Boundary!Each(o, t)[i] = [op |-> o[((i - 1) % 1) + 1], on |-> t[((i - 1) \div 1) + 1]]
      <3>1. Len(o) # 0
        BY <2>1
      <3> QED
        BY ZenonT(60), <2>1, <2>2, <3>1, EachIs
    <2>5. ASSUME NEW i \in 1 .. 16 PROVE Boundary!Each(o, t)[i].op = "index"
      <3>1. i \in 1 .. 1 * 16 /\ ((i - 1) % 1) + 1 = 1
        OBVIOUS
      <3>2. Boundary!Each(o, t)[i].op = o[((i - 1) % 1) + 1]
        BY SMTT(30), <2>4, <3>1
      <3> QED
        BY <2>1, <3>1, <3>2
    <2> QED
      BY <2>3, <2>4, <2>5
  <1>3. /\ er \in Seq(MigrationStatements) /\ Len(er) = 4 * n
        /\ \A i \in 1 .. 4 * n : er[i] = [op |-> ops[((i - 1) % 4) + 1],
                                          on |-> rlsTables[((i - 1) \div 4) + 1]]
    <2>1. ops \in Seq(StatementOps) /\ Len(ops) = 4
      BY DEF StatementOps
    <2>3. rlsTables \in Seq(TablesNamed)
      BY SeqMonotonic DEF TablesNamed
    <2>2. er = Boundary!Each(ops, rlsTables)
      BY DEF Boundary!enable_rls
    <2>4. Len(ops) # 0 /\ n \in Nat
      BY <2>1, LenProperties
    <2> HIDE DEF ops, er, n
    <2>5. /\ Boundary!Each(ops, rlsTables) \in Seq(MigrationStatements)
          /\ Len(Boundary!Each(ops, rlsTables)) = Len(ops) * Len(rlsTables)
          /\ \A i \in 1 .. Len(ops) * Len(rlsTables) :
                Boundary!Each(ops, rlsTables)[i] = [op |-> ops[((i - 1) % Len(ops)) + 1],
                                                    on |-> rlsTables[((i - 1) \div Len(ops)) + 1]]
      BY <2>1, <2>3, <2>4, EachIs
    <2>6. Len(rlsTables) = n
      BY DEF n
    <2> QED
      BY <2>1, <2>2, <2>4, <2>5, <2>6
  <1>4. n \in Nat
    BY LenProperties
  <1>5. ops[1] = "enable" /\ ops[2] = "force" /\ ops[3] = "drop" /\ ops[4] = "create"
    OBVIOUS
  <1>6. Boundary!run_migrations = (ct \o ci) \o er
    BY DEF Boundary!run_migrations
  <1> HIDE DEF ct, ci, er, n, ops
  <1>7. /\ ct \o ci \in Seq(MigrationStatements) /\ Len(ct \o ci) = 27
        /\ \A i \in 1 .. 27 : (ct \o ci)[i] = IF i <= 11 THEN ct[i] ELSE ci[i - 11]
    <2>1. ct \in Seq(MigrationStatements) /\ ci \in Seq(MigrationStatements) /\ Len(ct) = 11 /\ Len(ci) = 16
      BY <1>1, <1>2
    <2>2. /\ ct \o ci \in Seq(MigrationStatements) /\ Len(ct \o ci) = Len(ct) + Len(ci)
          /\ \A i \in 1 .. Len(ct) + Len(ci) :
                (ct \o ci)[i] = IF i <= Len(ct) THEN ct[i] ELSE ci[i - Len(ct)]
      BY <2>1, ConcatProperties
    <2>3. Len(ct) + Len(ci) = 27
      BY <2>1
    <2> DEFINE h == ct \o ci
    <2> HIDE DEF h
    <2> QED
      BY <2>1, <2>2, <2>3 DEF h
  <1> DEFINE all == Boundary!run_migrations  head == ct \o ci
  <1>8. /\ all \in Seq(MigrationStatements) /\ Len(all) = 27 + 4 * n
        /\ \A i \in 1 .. 27 + 4 * n : all[i] = IF i <= 27 THEN head[i] ELSE er[i - 27]
    <2> HIDE DEF head
    <2>1. head \in Seq(MigrationStatements) /\ Len(head) = 27
      BY <1>7 DEF head
    <2>2. all = head \o er
      BY <1>6 DEF head
    <2>3. er \in Seq(MigrationStatements) /\ Len(er) = 4 * n
      BY <1>3
    <2>4. /\ head \o er \in Seq(MigrationStatements) /\ Len(head \o er) = Len(head) + Len(er)
          /\ \A i \in 1 .. Len(head) + Len(er) :
                (head \o er)[i] = IF i <= Len(head) THEN head[i] ELSE er[i - Len(head)]
      BY <2>1, <2>3, ConcatProperties
    <2> HIDE DEF all
    <2> QED
      BY <2>1, <2>2, <2>3, <2>4
  <1> HIDE DEF all, head
  <1>9. \A i \in 1 .. 27 : all[i].op \in {"table", "index"}
    <2> TAKE i \in 1 .. 27
    <2>1. all[i] = IF i <= 11 THEN ct[i] ELSE ci[i - 11]
      <3>1. i \in 1 .. 27 + 4 * n /\ i <= 27
        BY <1>4
      <3>2. all[i] = head[i]
        BY <1>8, <3>1
      <3>3. head[i] = IF i <= 11 THEN ct[i] ELSE ci[i - 11]
        BY <1>7 DEF head
      <3> QED
        BY <3>2, <3>3
    <2>2. CASE i <= 11
      <3>1. i \in 1 .. 11
        BY <2>2
      <3>2. ct[i].op = "table"
        BY <1>1, <3>1
      <3> QED
        BY <2>1, <2>2, <3>2
    <2>3. CASE i > 11
      <3>1. i - 11 \in 1 .. 16 /\ ~(i <= 11)
        BY <2>3
      <3> QED
        BY <1>2, <2>1, <3>1
    <2> QED
      BY <2>2, <2>3
  <1>10. ASSUME NEW k \in 1 .. n, NEW j \in 1 .. 4
         PROVE  all[23 + 4 * k + j] = [op |-> ops[j], on |-> rlsTables[k]]
    <2> DEFINE i == 4 * k - 4 + j
    <2>1. i \in 1 .. 4 * n /\ i = (23 + 4 * k + j) - 27
      BY <1>4
    <2>2. ((i - 1) % 4) + 1 = j /\ ((i - 1) \div 4) + 1 = k
      BY <1>4
    <2>3. all[23 + 4 * k + j] = er[i]
      <3>1. 23 + 4 * k + j \in 1 .. 27 + 4 * n /\ ~(23 + 4 * k + j <= 27)
        BY <1>4
      <3> QED
        BY <1>8, <2>1, <3>1
    <2> HIDE DEF i
    <2> QED
      BY <1>3, <2>1, <2>2, <2>3
  <1>11. ASSUME NEW i \in 28 .. 27 + 4 * n
         PROVE  \E k \in 1 .. n : i \in 24 + 4 * k .. 27 + 4 * k
    <2>1. (i - 24) \div 4 \in 1 .. n
      BY <1>4
    <2>2. i \in 24 + 4 * ((i - 24) \div 4) .. 27 + 4 * ((i - 24) \div 4)
      BY <1>4
    <2> QED
      BY <2>1, <2>2
  <1>13. Len(all) = 27 + 4 * n /\ \A i \in 1 .. Len(all) : all[i] \in MigrationStatements
    BY <1>8, ElementOfSeq
  <1>14. \A t : t \in Boundary!Range(rlsTables) <=> \E k \in 1 .. n : t = rlsTables[k]
    BY LenProperties DEF Boundary!Range, n
  <1>15. ASSUME NEW k \in 1 .. n, NEW op \in Preparations
         PROVE  \E j \in 1 .. Len(all) : j < 27 + 4 * k /\ all[j].op = op /\ all[j].on = rlsTables[k]
    <2>1. PICK p \in 1 .. 3 : op = ops[p]
      BY <1>5 DEF Preparations
    <2>2. 23 + 4 * k + p \in 1 .. Len(all) /\ 23 + 4 * k + p < 27 + 4 * k
      BY <1>4, <1>13
    <2>3. all[23 + 4 * k + p] = [op |-> ops[p], on |-> rlsTables[k]]
      <3>1. p \in 1 .. 4
        OBVIOUS
      <3> QED
        BY <1>10, <3>1
    <2> DEFINE j == 23 + 4 * k + p
    <2>4. all[j].op = op /\ all[j].on = rlsTables[k]
      BY <2>1, <2>3
    <2> HIDE DEF j
    <2> QED
      BY <2>2, <2>4 DEF j
  <1>16. ASSUME NEW i \in 1 .. Len(all), all[i].op = "create"
         PROVE  \E k \in 1 .. n : i = 27 + 4 * k /\ all[i].on = rlsTables[k]
    <2>1. i \in 28 .. 27 + 4 * n
      <3>1. i \notin 1 .. 27
        BY <1>9, <1>16
      <3> QED
        BY <1>4, <1>13, <3>1
    <2>2. PICK k \in 1 .. n : i \in 24 + 4 * k .. 27 + 4 * k
      BY <1>11, <2>1
    <2>3. \E j \in 1 .. 4 : i = 23 + 4 * k + j
      <3>1. i - 23 - 4 * k \in 1 .. 4 /\ i = 23 + 4 * k + (i - 23 - 4 * k)
        BY <1>4, <2>2
      <3> QED
        BY <3>1
    <2>4. PICK j \in 1 .. 4 : i = 23 + 4 * k + j
      BY <2>3
    <2>5. all[i] = [op |-> ops[j], on |-> rlsTables[k]]
      BY <1>10, <2>4
    <2>6. j = 4
      BY <1>5, <1>16, <2>5
    <2> QED
      BY <1>4, <2>4, <2>5, <2>6
  <1>17. ASSUME NEW i \in 1 .. Len(all), all[i].op = "create"
         PROVE  /\ all[i].on \in Boundary!Range(rlsTables)
                /\ \A op \in Preparations : \E j \in 1 .. Len(all) :
                      j < i /\ all[j].op = op /\ all[j].on = all[i].on
    <2>1. PICK k \in 1 .. n : i = 27 + 4 * k /\ all[i].on = rlsTables[k]
      BY <1>16, <1>17
    <2>2. all[i].on \in Boundary!Range(rlsTables)
      BY <1>14, <2>1
    <2>3. ASSUME NEW op \in Preparations
          PROVE  \E j \in 1 .. Len(all) : j < i /\ all[j].op = op /\ all[j].on = all[i].on
      <3>1. PICK j \in 1 .. Len(all) : j < 27 + 4 * k /\ all[j].op = op /\ all[j].on = rlsTables[k]
        BY <1>15
      <3>2. j < i /\ all[j].op = op /\ all[j].on = all[i].on
        BY <2>1, <3>1
      <3> QED
        BY <3>2
    <2> QED
      BY <2>2, <2>3
  <1>18. \A t \in Boundary!Range(rlsTables), op \in Preparations :
            \E j \in 1 .. Len(all) : all[j].op = op /\ all[j].on = t
    BY <1>14, <1>15
  <1>19. Len(all) \in Nat /\ \A i \in 1 .. Len(all) : all[i].op \in StatementOps
    BY <1>4, <1>13 DEF MigrationStatements
  <1> QED
    BY <1>17, <1>18, <1>19 DEF MigrationIs, all

\* The statement after i is the first on a table followed, if there is one.
LEMMA AfterIs ==
    ASSUME NEW all, Len(all) \in Nat, NEW i \in Nat
    PROVE  LET after == Boundary!StatementAfter(i, all) IN
           \/ /\ after \in (i + 1) .. Len(all) /\ all[after].on \in Followed
              /\ \A j \in (i + 1) .. Len(all) : all[j].on \in Followed => after <= j
           \/ after = 0 /\ \A j \in (i + 1) .. Len(all) : all[j].on \notin Followed
  <1> DEFINE following == {j \in (i + 1) .. Len(all) : all[j].on \in Followed}
  <1>1. Boundary!StatementAfter(i, all) = IF following = {} THEN 0 ELSE Boundary!Min(following)
    BY DEF Boundary!StatementAfter
  <1>2. CASE following = {}
    BY <1>1, <1>2
  <1>3. CASE following # {}
    <2>1. following \in SUBSET Nat
      OBVIOUS
    <2> DEFINE S == following
    <2> HIDE DEF following
    <2>2. \E x \in following : \A y \in following : x <= y
      BY <1>3, <2>1, NatMin
    <2>3. Boundary!Min(following) \in following /\ \A y \in following : Boundary!Min(following) <= y
      BY <2>2 DEF Boundary!Min
    <2>4. Boundary!StatementAfter(i, all) = Boundary!Min(following)
      BY <1>1, <1>3
    <2> QED
      BY <2>3, <2>4 DEF following
  <1> QED
    BY <1>2, <1>3

\* No policy, one of an earlier schema, or the isolation policy.
Policies == {"none", "other", "tenant_isolation"}
\* What the database says of a table.
Row == [exists : BOOLEAN, enabled : BOOLEAN, forced : BOOLEAN, policy : Policies]

\* A table whose policy a migration has come to: the old clause is gone, and
\* the new one is there but while some migration is between dropping and creating.
Handled(t) ==
    /\ relation[t].policy # "other"
    /\ relation[t].policy = "tenant_isolation" \/ \E m \in Migrators : t \in left[m]

\* What a statement leaves behind, and no later step of any migration undoes.
Done(s) ==
    s.on \in Followed => /\ s.op = "enable" => relation[s.on].enabled
                         /\ s.op = "force" => relation[s.on].forced
                         /\ s.op = "drop" => Handled(s.on)

\* Types, and a migration that runs has come to a statement that is followed.
MigrationsInv ==
    /\ rlsTables \in Versions
    /\ relation \in [Followed -> Row]
    /\ next \in [Migrators -> Nat]
    /\ \A m \in Migrators : /\ next[m] <= Len(Boundary!run_migrations)
                            /\ next[m] # 0 => Boundary!run_migrations[next[m]].on \in Followed
    /\ outcome \in [Migrators -> {"none", "failed", "done"}]
    /\ left \in [Migrators -> SUBSET Followed]

\* A policy of the expected clause is found on tables that are forced to obey
\* it, and no policy elsewhere than where some version put it.
PoliciesInv ==
    \A t \in Followed :
       /\ relation[t].policy = "tenant_isolation" => relation[t].enabled /\ relation[t].forced
       /\ relation[t].policy # "none" => t \in Boundary!Range(Boundary!RLS_TABLES) \union Boundary!Range(rlsTables)

\* What a migration has come past stands.
PastStatementsStand ==
    \A m \in Migrators, j \in 1 .. Len(Boundary!run_migrations) :
       outcome[m] = "done" \/ j < next[m] => Done(Boundary!run_migrations[j])

\* What the last audit vouched for.
AuditInv ==
    auditReport.passed => Followed \intersect Boundary!get_rls_required_tables \subseteq auditReport.isolated

BoundaryInv == MigrationsInv /\ PoliciesInv /\ PastStatementsStand /\ AuditInv

\* What each statement does to a table.
LEMMA EffectIs ==
    ASSUME NEW s,
           relation \in [Followed -> Row],
           s.on \in Followed, relation' = Boundary!Effect(s),
           s.op \in StatementOps
    PROVE  /\ relation' \in [Followed -> Row]
           /\ \A t \in Followed :
              /\ relation'[t].enabled <=> relation[t].enabled \/ (t = s.on /\ s.op = "enable")
              /\ relation'[t].forced <=> relation[t].forced \/ (t = s.on /\ s.op = "force")
              /\ relation'[t].policy = IF t # s.on THEN relation[t].policy
                                       ELSE IF s.op = "drop" THEN "none"
                                       ELSE IF s.op = "create" THEN "tenant_isolation"
                                       ELSE relation[t].policy
  <1> DEFINE on == s.on
  <1>7. on \in Followed
    OBVIOUS
  <1>1. CASE s.op = "table"
    <2>1. relation' = [relation EXCEPT ![on].exists = TRUE]
      BY <1>1, Zenon DEF Boundary!Effect
    <2> HIDE DEF on
    <2>2. relation'[on] = [relation[on] EXCEPT !.exists = TRUE]
      BY <2>1, <1>7
    <2>3. \A t \in Followed : t # on => relation'[t] = relation[t]
      BY <2>1
    <2>4. relation[on] \in Row
      BY <1>7
    <2> DEFINE row == relation[on]
    <2> HIDE DEF row
    <2>5. /\ [row EXCEPT !.exists = TRUE] \in Row
          /\ [row EXCEPT !.exists = TRUE].exists = TRUE
          /\ [row EXCEPT !.exists = TRUE].enabled = row.enabled
          /\ [row EXCEPT !.exists = TRUE].forced = row.forced
          /\ [row EXCEPT !.exists = TRUE].policy = row.policy
      BY <2>4 DEF row, Row, Policies
    <2>6. relation' \in [Followed -> Row]
      BY <2>1, <2>2, <2>3, <2>5 DEF row
    <2> QED
      BY <1>1, <1>7, <2>2, <2>3, <2>5, <2>6 DEF on, row
  <1>2. CASE s.op = "index"
    <2>1. relation' = relation
      BY <1>2, Zenon DEF Boundary!Effect
    <2> QED
      BY <1>2, <2>1
  <1>3. CASE s.op = "enable"
    <2>1. relation' = [relation EXCEPT ![on].enabled = TRUE]
      BY <1>3, Zenon DEF Boundary!Effect
    <2> HIDE DEF on
    <2>2. relation'[on] = [relation[on] EXCEPT !.enabled = TRUE]
      BY <2>1, <1>7
    <2>3. \A t \in Followed : t # on => relation'[t] = relation[t]
      BY <2>1
    <2>4. relation[on] \in Row
      BY <1>7
    <2> DEFINE row == relation[on]
    <2> HIDE DEF row
    <2>5. /\ [row EXCEPT !.enabled = TRUE] \in Row
          /\ [row EXCEPT !.enabled = TRUE].enabled = TRUE
          /\ [row EXCEPT !.enabled = TRUE].exists = row.exists
          /\ [row EXCEPT !.enabled = TRUE].forced = row.forced
          /\ [row EXCEPT !.enabled = TRUE].policy = row.policy
      BY <2>4 DEF row, Row, Policies
    <2>6. relation' \in [Followed -> Row]
      BY <2>1, <2>2, <2>3, <2>5 DEF row
    <2> QED
      BY <1>3, <1>7, <2>2, <2>3, <2>5, <2>6 DEF on, row
  <1>4. CASE s.op = "force"
    <2>1. relation' = [relation EXCEPT ![on].forced = TRUE]
      BY <1>4, Zenon DEF Boundary!Effect
    <2> HIDE DEF on
    <2>2. relation'[on] = [relation[on] EXCEPT !.forced = TRUE]
      BY <2>1, <1>7
    <2>3. \A t \in Followed : t # on => relation'[t] = relation[t]
      BY <2>1
    <2>4. relation[on] \in Row
      BY <1>7
    <2> DEFINE row == relation[on]
    <2> HIDE DEF row
    <2>5. /\ [row EXCEPT !.forced = TRUE] \in Row
          /\ [row EXCEPT !.forced = TRUE].forced = TRUE
          /\ [row EXCEPT !.forced = TRUE].exists = row.exists
          /\ [row EXCEPT !.forced = TRUE].enabled = row.enabled
          /\ [row EXCEPT !.forced = TRUE].policy = row.policy
      BY <2>4 DEF row, Row, Policies
    <2>6. relation' \in [Followed -> Row]
      BY <2>1, <2>2, <2>3, <2>5 DEF row
    <2> QED
      BY <1>4, <1>7, <2>2, <2>3, <2>5, <2>6 DEF on, row
  <1>5. CASE s.op = "drop"
    <2>1. relation' = [relation EXCEPT ![on].policy = "none"]
      BY <1>5, Zenon DEF Boundary!Effect
    <2> HIDE DEF on
    <2>2. relation'[on] = [relation[on] EXCEPT !.policy = "none"]
      BY <2>1, <1>7
    <2>3. \A t \in Followed : t # on => relation'[t] = relation[t]
      BY <2>1
    <2>4. relation[on] \in Row
      BY <1>7
    <2> DEFINE row == relation[on]
    <2> HIDE DEF row
    <2>5. /\ [row EXCEPT !.policy = "none"] \in Row
          /\ [row EXCEPT !.policy = "none"].policy = "none"
          /\ [row EXCEPT !.policy = "none"].exists = row.exists
          /\ [row EXCEPT !.policy = "none"].enabled = row.enabled
          /\ [row EXCEPT !.policy = "none"].forced = row.forced
      BY <2>4 DEF row, Row, Policies
    <2>6. relation' \in [Followed -> Row]
      BY <2>1, <2>2, <2>3, <2>5 DEF row
    <2> QED
      BY <1>5, <1>7, <2>2, <2>3, <2>5, <2>6 DEF on, row
  <1>6. CASE s.op = "create"
    <2>1. relation' = [relation EXCEPT ![on].policy = "tenant_isolation"]
      BY <1>6, Zenon DEF Boundary!Effect
    <2> HIDE DEF on
    <2>2. relation'[on] = [relation[on] EXCEPT !.policy = "tenant_isolation"]
      BY <2>1, <1>7
    <2>3. \A t \in Followed : t # on => relation'[t] = relation[t]
      BY <2>1
    <2>4. relation[on] \in Row
      BY <1>7
    <2> DEFINE row == relation[on]
    <2> HIDE DEF row
    <2>5. /\ [row EXCEPT !.policy = "tenant_isolation"] \in Row
          /\ [row EXCEPT !.policy = "tenant_isolation"].policy = "tenant_isolation"
          /\ [row EXCEPT !.policy = "tenant_isolation"].exists = row.exists
          /\ [row EXCEPT !.policy = "tenant_isolation"].enabled = row.enabled
          /\ [row EXCEPT !.policy = "tenant_isolation"].forced = row.forced
      BY <2>4 DEF row, Row, Policies
    <2>6. relation' \in [Followed -> Row]
      BY <2>1, <2>2, <2>3, <2>5 DEF row
    <2> QED
      BY <1>6, <1>7, <2>2, <2>3, <2>5, <2>6 DEF on, row
  <1> QED
    BY <1>1, <1>2, <1>3, <1>4, <1>5, <1>6 DEF StatementOps

\* What the migrations' statements need of the parameters in force.
LEMMA InForce ==
    ASSUME BoundaryAssumption, rlsTables \in Versions
    PROVE  MigrationIs /\ Len(Boundary!run_migrations) \in Nat
  <1>1. rlsTables \in Seq(Boundary!Range(rlsTables))
    BY DEF BoundaryAssumption
  <1> QED
    BY <1>1, Migration DEF MigrationIs

\* Steps that leave the migrations' progress as it is, or take it back.
LEMMA OtherBoundarySteps ==
    ASSUME BoundaryAssumption, BoundaryInv, NEW m \in Migrators,
           Boundary!Start(m) \/ Boundary!StatementFails(m)
    PROVE  BoundaryInv'
  <1> DEFINE all == Boundary!run_migrations
  <1>1. /\ MigrationIs /\ Len(all) \in Nat
        /\ MigrationsInv /\ PoliciesInv /\ PastStatementsStand /\ AuditInv
    BY InForce DEF BoundaryInv, MigrationsInv
  <1>2. /\ rlsTables' = rlsTables /\ relation' = relation /\ auditReport' = auditReport
        /\ outcome' = [outcome EXCEPT ![m] = IF Boundary!Start(m) THEN "none" ELSE "failed"]
    BY DEF Boundary!Start, Boundary!StatementFails
  <1>3. Boundary!run_migrations' = all
    BY <1>2 DEF Boundary!run_migrations, Boundary!enable_rls, Boundary!create_tables, Boundary!create_indexes
  <1>4. /\ next' = [next EXCEPT ![m] = next'[m]] /\ next'[m] \in 0 .. Len(all)
        /\ next'[m] # 0 => /\ all[next'[m]].on \in Followed
                           /\ \A j \in 1 .. Len(all) : j < next'[m] => all[j].on \notin Followed
    <2>1. CASE Boundary!Start(m)
      <3>1. next' = [next EXCEPT ![m] = Boundary!StatementAfter(0, all)]
        BY <2>1 DEF Boundary!Start
      <3> DEFINE after == Boundary!StatementAfter(0, all)
      <3>2. \/ /\ after \in (0 + 1) .. Len(all) /\ all[after].on \in Followed
               /\ \A j \in (0 + 1) .. Len(all) : all[j].on \in Followed => after <= j
            \/ after = 0 /\ \A j \in (0 + 1) .. Len(all) : all[j].on \notin Followed
        BY <1>1, AfterIs
      <3> HIDE DEF after, all
      <3>3. next' = [next EXCEPT ![m] = after]
        BY <3>1 DEF after
      <3>4. next'[m] = after
        BY <1>1, <3>3 DEF MigrationsInv
      <3>5. after \in 0 .. Len(all)
            /\ (after # 0 => /\ all[after].on \in Followed
                             /\ \A j \in 1 .. Len(all) : j < after => all[j].on \notin Followed)
        BY <1>1, <3>2 DEF all
      <3> QED
        BY <3>3, <3>4, <3>5 DEF all
    <2>2. CASE Boundary!StatementFails(m)
      <3>1. next' = [next EXCEPT ![m] = 0]
        BY <2>2 DEF Boundary!StatementFails
      <3>2. next'[m] = 0
        BY <1>1, <3>1 DEF MigrationsInv
      <3>3. next' = [next EXCEPT ![m] = next'[m]]
        BY <3>1, <3>2
      <3> QED
        BY <1>1, <3>2, <3>3
    <2> QED
      BY <2>1, <2>2
  <1>5. /\ left' \in [Migrators -> SUBSET Followed]
        /\ \A t \in Followed : Handled(t) => Handled(t)'
    <2>1. CASE left' = left
      BY <1>1, <1>2, <2>1 DEF MigrationsInv, Handled
    <2>2. CASE left' # left
      <3> DEFINE i == next[m]  s == all[i]
      <3>1. i # 0 /\ Boundary!Refused(s) /\ left' = [left EXCEPT ![m] = @ \ {s.on}]
        BY <2>2 DEF Boundary!Start, Boundary!StatementFails
      <3>2. i \in 1 .. Len(all) /\ s.on \in Followed
        BY <1>1, <3>1 DEF MigrationsInv
      <3>3. s.op = "create" /\ relation[s.on].policy # "none"
        BY <3>1 DEF Boundary!Refused
      <3>7. PICK j \in 1 .. Len(all) : j < i /\ all[j].op = "drop" /\ all[j].on = s.on
        <4>1. all[i].op = "create" /\ "drop" \in Preparations
          BY <3>3 DEF Preparations
        <4> QED
          BY <1>1, <3>2, <4>1 DEF MigrationIs
      <3>8. Done(all[j])
        BY <1>1, <3>7 DEF PastStatementsStand
      <3>9. Handled(s.on)
        BY <3>2, <3>7, <3>8 DEF Done
      <3> DEFINE on == s.on
      <3>10. relation[on].policy = "tenant_isolation"
        BY <1>1, <3>2, <3>3, <3>9 DEF Handled, MigrationsInv, Row, Policies
      <3> HIDE DEF all, i, s
      <3>11. left' = [left EXCEPT ![m] = left[m] \ {on}]
        BY <3>1
      <3> HIDE DEF on
      <3>12. left' \in [Migrators -> SUBSET Followed]
             /\ \A t \in Followed, n \in Migrators : t # on /\ t \in left[n] => t \in left'[n]
        BY <1>1, <3>11 DEF MigrationsInv
      <3> QED
        BY <1>2, <3>10, <3>12 DEF Handled
    <2> QED
      BY <2>1, <2>2
  <1>6. \A s : Done(s) => Done(s)'
    BY <1>2, <1>5 DEF Done
  <1>7. ASSUME NEW n \in Migrators, NEW j \in 1 .. Len(all), outcome'[n] = "done" \/ j < next'[n]
        PROVE  Done(all[j])'
    <2>1. CASE n = m
      <3>1. outcome'[m] # "done"
        BY <1>1, <1>2 DEF MigrationsInv
      <3>2. j < next'[m]
        BY <1>7, <2>1, <3>1
      <3>3. all[j].on \notin Followed
        BY <1>4, <3>2
      <3> QED
        BY <1>3, <3>3 DEF Done
    <2>2. CASE n # m
      <3>1. outcome[n] = "done" \/ j < next[n]
        BY <1>1, <1>2, <1>4, <1>7, <2>2 DEF MigrationsInv
      <3>2. Done(all[j])
        BY <1>1, <3>1 DEF PastStatementsStand
      <3> DEFINE s == all[j]
      <3>3. ASSUME NEW r, r = s PROVE Done(r)'
        BY <1>6, <3>2, <3>3
      <3>4. s' = s
        BY <1>3
      <3> QED
        BY <3>3, <3>4 DEF Done
    <2> QED
      BY <2>1, <2>2
  <1>8. PastStatementsStand'
    BY <1>3, <1>7 DEF PastStatementsStand
  <1>9. MigrationsInv'
    <2>1. \A n \in Migrators : /\ next'[n] \in Nat /\ next'[n] <= Len(all)
                               /\ next'[n] # 0 => all[next'[n]].on \in Followed
      BY <1>1, <1>4 DEF MigrationsInv
    <2>2. next' \in [Migrators -> Nat] /\ outcome' \in [Migrators -> {"none", "failed", "done"}]
      BY SMTT(30), <1>1, <1>2, <1>4 DEF MigrationsInv
    <2> QED
      BY <1>1, <1>2, <1>3, <1>5, <2>1, <2>2 DEF MigrationsInv
  <1>10. PoliciesInv' /\ AuditInv'
    BY <1>1, <1>2 DEF PoliciesInv, AuditInv
  <1> QED
    BY <1>8, <1>9, <1>10 DEF BoundaryInv

\* A statement adds itself to what stands, and disturbs nothing that stood.
LEMMA StatementStep ==
    ASSUME BoundaryAssumption, BoundaryInv, NEW m \in Migrators, Boundary!Statement(m)
    PROVE  BoundaryInv'
  <1> DEFINE all == Boundary!run_migrations  i == next[m]
             after == Boundary!StatementAfter(i, all)
  <1>1. /\ MigrationIs /\ Len(all) \in Nat
        /\ MigrationsInv /\ PoliciesInv /\ PastStatementsStand /\ AuditInv
    BY InForce DEF BoundaryInv, MigrationsInv
  <1>2. /\ rlsTables' = rlsTables /\ auditReport' = auditReport
        /\ i # 0 /\ ~Boundary!Refused(all[i]) /\ relation' = Boundary!Effect(all[i])
        /\ left' = [left EXCEPT ![m] = IF all[i].op = "drop" THEN @ \union {all[i].on}
                                       ELSE IF all[i].op = "create" THEN @ \ {all[i].on} ELSE @]
        /\ next' = [next EXCEPT ![m] = after]
        /\ outcome' = [outcome EXCEPT ![m] = IF after = 0 THEN "done" ELSE @]
    BY DEF Boundary!Statement
  <1>3. Boundary!run_migrations' = all
    BY <1>2 DEF Boundary!run_migrations, Boundary!enable_rls, Boundary!create_tables, Boundary!create_indexes
  <1>4. PICK s : s = all[i]
    OBVIOUS
  <1>5. i \in 1 .. Len(all) /\ s.on \in Followed /\ s.op \in StatementOps
    BY <1>1, <1>2, <1>4 DEF MigrationsInv, MigrationIs
  <1>6. \/ /\ after \in (i + 1) .. Len(all) /\ all[after].on \in Followed
           /\ \A j \in (i + 1) .. Len(all) : all[j].on \in Followed => after <= j
        \/ after = 0 /\ \A j \in (i + 1) .. Len(all) : all[j].on \notin Followed
    BY <1>1, <1>5, AfterIs
  <1>7. /\ relation' \in [Followed -> Row]
        /\ \A t \in Followed :
              /\ relation'[t].enabled <=> relation[t].enabled \/ (t = s.on /\ s.op = "enable")
              /\ relation'[t].forced <=> relation[t].forced \/ (t = s.on /\ s.op = "force")
              /\ relation'[t].policy = IF t # s.on THEN relation[t].policy
                                       ELSE IF s.op = "drop" THEN "none"
                                       ELSE IF s.op = "create" THEN "tenant_isolation"
                                       ELSE relation[t].policy
    BY <1>1, <1>2, <1>4, <1>5, EffectIs DEF MigrationsInv
  <1>8. /\ left' \in [Migrators -> SUBSET Followed]
        /\ s.op = "drop" => s.on \in left'[m]
        /\ \A n \in Migrators, t \in Followed :
              t \in left[n] /\ ~(t = s.on /\ s.op = "create") => t \in left'[n]
    <2> DEFINE mine == IF s.op = "drop" THEN left[m] \union {s.on}
                       ELSE IF s.op = "create" THEN left[m] \ {s.on} ELSE left[m]
    <2>1. left' = [left EXCEPT ![m] = mine]
      BY <1>2, <1>4
    <2>2. /\ mine \in SUBSET Followed /\ (s.op = "drop" => s.on \in mine)
          /\ \A t \in Followed : t \in left[m] /\ ~(t = s.on /\ s.op = "create") => t \in mine
      BY <1>1, <1>5 DEF MigrationsInv
    <2> HIDE DEF mine
    <2> QED
      BY <1>1, <2>1, <2>2 DEF MigrationsInv
  <1> HIDE DEF all, i, after
  <1>9. \A t \in Followed : Handled(t) => Handled(t)'
    <2> TAKE t \in Followed
    <2>1. CASE t = s.on /\ s.op = "create"
      BY <1>7, <2>1 DEF Handled
    <2>2. CASE t = s.on /\ s.op = "drop"
      BY <1>7, <1>8, <2>2 DEF Handled
    <2>3. CASE ~(t = s.on /\ s.op \in {"create", "drop"})
      <3>1. relation'[t].policy = relation[t].policy
        BY <1>7, <2>3
      <3>2. ASSUME NEW n \in Migrators, t \in left[n] PROVE t \in left'[n]
        BY <1>8, <2>3, <3>2
      <3> QED
        BY <3>1, <3>2 DEF Handled
    <2> QED
      BY <2>1, <2>2, <2>3
  <1>10. \A r : Done(r) => Done(r)'
    BY <1>7, <1>9 DEF Done
  <1>11. Done(s)'
    <2>1. s.op = "drop" => Handled(s.on)'
      <3>1. CASE s.op = "drop"
        BY <1>5, <1>7, <1>8, <3>1 DEF Handled
      <3> QED
        BY <3>1
    <2>2. /\ s.op = "enable" => relation'[s.on].enabled
          /\ s.op = "force" => relation'[s.on].forced
      BY <1>5, <1>7
    <2> QED
      BY <2>1, <2>2 DEF Done
  <1>12. ASSUME NEW n \in Migrators, NEW j \in 1 .. Len(all), outcome'[n] = "done" \/ j < next'[n]
         PROVE  Done(all[j])'
    <2>1. PICK r : r = all[j]
      OBVIOUS
    <2>2. r.on \notin Followed \/ r = s \/ Done(r)
      <3>1. CASE j = i
        BY <1>4, <2>1, <3>1
      <3>2. CASE j < i
        BY <1>1, <2>1, <3>2 DEF PastStatementsStand, all, i
      <3>3. CASE j > i /\ n # m
        <4>1. outcome[n] = "done" \/ j < next[n]
          BY <1>1, <1>2, <1>12, <3>3 DEF MigrationsInv
        <4> QED
          BY <1>1, <2>1, <4>1 DEF PastStatementsStand, all
      <3>4. CASE j > i /\ n = m
        <4>1. next'[m] = after /\ outcome'[m] = IF after = 0 THEN "done" ELSE outcome[m]
          BY <1>1, <1>2 DEF MigrationsInv
        <4>2. CASE outcome[m] = "done"
          BY <1>1, <2>1, <4>2 DEF PastStatementsStand, all
        <4>3. CASE outcome[m] # "done"
          <5>1. j \in (i + 1) .. Len(all)
            BY <1>5, <3>4
          <5>2. after = 0 \/ j < after
            BY <1>12, <3>4, <4>1, <4>3
          <5>3. all[j].on \notin Followed
            BY <1>5, <1>6, <5>1, <5>2
          <5> QED
            BY <2>1, <5>3
        <4> QED
          BY <4>2, <4>3
      <3> QED
        BY <1>5, <3>1, <3>2, <3>3, <3>4
    <2>3. Done(r)'
      <3>1. CASE r.on \notin Followed
        BY <3>1 DEF Done
      <3> QED
        BY <1>10, <1>11, <2>2, <3>1
    <2>4. all' = all
      BY <1>3 DEF all
    <2> QED
      BY <2>1, <2>3, <2>4 DEF Done
  <1>13. PastStatementsStand'
    BY <1>3, <1>12 DEF PastStatementsStand, all
  <1>14. MigrationsInv'
    <2>1. after \in 0 .. Len(all) /\ (after # 0 => all[after].on \in Followed)
      BY <1>5, <1>6
    <2>2. /\ next' \in [Migrators -> Nat] /\ outcome' \in [Migrators -> {"none", "failed", "done"}]
          /\ \A n \in Migrators : next'[n] = IF n = m THEN after ELSE next[n]
      <3>1. after \in Nat
        BY <1>5, <1>6
      <3> QED
        BY <1>1, <1>2, <3>1 DEF MigrationsInv
    <2>3. \A n \in Migrators : next'[n] <= Len(all) /\ (next'[n] # 0 => all[next'[n]].on \in Followed)
      BY <1>1, <2>1, <2>2 DEF MigrationsInv, all
    <2> QED
      BY <1>1, <1>2, <1>3, <1>7, <1>8, <2>2, <2>3 DEF MigrationsInv, all
  <1>15. PoliciesInv'
    <2>1. ASSUME s.op = "create"
          PROVE  /\ s.on \in Boundary!Range(rlsTables)
                 /\ relation[s.on].enabled /\ relation[s.on].forced
      <3>1. /\ s.on \in Boundary!Range(rlsTables)
            /\ \A op \in Preparations : \E j \in 1 .. Len(all) : j < i /\ all[j].op = op /\ all[j].on = s.on
        BY <1>1, <1>4, <1>5, <2>1 DEF MigrationIs, all
      <3>2. \A op \in Preparations : \E r : Done(r) /\ r.op = op /\ r.on = s.on
        BY <1>1, <3>1 DEF PastStatementsStand, all, i
      <3>3. "enable" \in Preparations /\ "force" \in Preparations
        BY DEF Preparations
      <3> QED
        BY <1>5, <3>1, <3>2, <3>3 DEF Done
    <2>2. ASSUME NEW t \in Followed
          PROVE  /\ relation'[t].policy = "tenant_isolation" => relation'[t].enabled /\ relation'[t].forced
                 /\ relation'[t].policy # "none" =>
                       t \in Boundary!Range(Boundary!RLS_TABLES) \union Boundary!Range(rlsTables)
      <3>1. CASE t = s.on /\ s.op = "create"
        BY <1>7, <2>1, <3>1
      <3>2. CASE ~(t = s.on /\ s.op = "create")
        <4>1. relation'[t].policy \in {"none", relation[t].policy}
          BY <1>7, <3>2
        <4> QED
          BY <1>1, <1>7, <4>1 DEF PoliciesInv
      <3> QED
        BY <3>1, <3>2
    <2> QED
      BY <1>2, <2>2 DEF PoliciesInv
  <1>16. AuditInv'
    BY <1>1, <1>2 DEF AuditInv
  <1> QED
    BY <1>13, <1>14, <1>15, <1>16 DEF BoundaryInv

\* The static validator passes exactly the tuple of the tables it requires.
LEMMA ValidTuple ==
    ASSUME NEW impl, Boundary!validate_icd_boundary_static(impl) = {}
    PROVE  Boundary!Range(impl) = Boundary!get_rls_required_tables
  <1> DEFINE R == Boundary!get_rls_required_tables  I == Boundary!Range(impl)
  <1>1. \A k, t : k \in {"missing"} /\ t \in R \ I => <<k, t>> \in Boundary!validate_icd_boundary_static(impl)
    BY Zenon DEF Boundary!validate_icd_boundary_static
  <1>2. \A k, t : k \in {"extra"} /\ t \in I \ R => <<k, t>> \in Boundary!validate_icd_boundary_static(impl)
    BY Zenon DEF Boundary!validate_icd_boundary_static
  <1> HIDE DEF R, I
  <1>3. \A t : t \in R <=> t \in I
    BY <1>1, <1>2
  <1> QED
    BY <1>3 DEF R, I

\* Every step of the migrations and of the audit keeps the invariant.
LEMMA BoundaryStep ==
    ASSUME BoundaryAssumption, BoundaryInv, [Boundary!BoundaryNext]_(Boundary!boundaryVars)
    PROVE  BoundaryInv'
  <1>1. CASE UNCHANGED Boundary!boundaryVars
    <2>1. Boundary!run_migrations' = Boundary!run_migrations
      BY <1>1 DEF Boundary!boundaryVars, Boundary!run_migrations, Boundary!enable_rls, Boundary!create_tables,
                  Boundary!create_indexes
    <2> QED
      BY <1>1, <2>1 DEF Boundary!boundaryVars, BoundaryInv, MigrationsInv, PoliciesInv, PastStatementsStand,
                        AuditInv, Done, Handled
  <1>2. CASE Boundary!audit_rls_policies
    <2>1. /\ UNCHANGED <<rlsTables, relation, next, outcome, left>>
          /\ auditReport' = [passed |-> Boundary!AuditViolations = {},
                             isolated |-> {t \in Followed : Boundary!Isolated(t)}]
      BY <1>2 DEF Boundary!audit_rls_policies
    <2>2. Boundary!run_migrations' = Boundary!run_migrations
      BY <2>1 DEF Boundary!run_migrations, Boundary!enable_rls, Boundary!create_tables, Boundary!create_indexes
    <2>3. MigrationsInv' /\ PoliciesInv' /\ PastStatementsStand'
      BY <2>1, <2>2 DEF BoundaryInv, MigrationsInv, PoliciesInv, PastStatementsStand, Done, Handled
    <2>4. ASSUME NEW t \in Followed \intersect Boundary!get_rls_required_tables, Boundary!AuditViolations = {}
          PROVE  Boundary!Isolated(t)
      <3>1. relation[t].policy = "tenant_isolation"
        BY <2>4 DEF Boundary!AuditViolations, Boundary!ClauseOk
      <3> QED
        BY <3>1 DEF BoundaryInv, PoliciesInv, Boundary!Isolated
    <2>5. AuditInv'
      BY <2>1, <2>4 DEF AuditInv
    <2> QED
      BY <2>3, <2>5 DEF BoundaryInv
  <1> QED
    BY <1>1, <1>2, OtherBoundarySteps, StatementStep DEF Boundary!BoundaryNext

\* A schema that is not migrated yet satisfies the invariant.
LEMMA BoundaryStart ==
    ASSUME BoundaryAssumption
    PROVE  Boundary!BoundaryInit => BoundaryInv
  <1> SUFFICES ASSUME Boundary!BoundaryInit PROVE BoundaryInv
    OBVIOUS
  <1>1. rlsTables \in Versions
    BY DEF Boundary!BoundaryInit
  <1>2. Len(Boundary!run_migrations) \in Nat
    BY <1>1, InForce
  <1>3. PICK old \in SUBSET (Followed \intersect Boundary!Range(Boundary!RLS_TABLES)) :
           relation = [t \in Followed |-> [exists |-> t \in old, enabled |-> t \in old, forced |-> FALSE,
                                           policy |-> IF t \in old THEN "other" ELSE "none"]]
    BY DEF Boundary!BoundaryInit
  <1>4. relation \in [Followed -> Row]
    BY <1>3 DEF Row, Policies
  <1>5. next = [m \in Migrators |-> 0] /\ outcome = [m \in Migrators |-> "none"]
        /\ left = [m \in Migrators |-> {}] /\ auditReport.passed = FALSE
    BY DEF Boundary!BoundaryInit
  <1>6. MigrationsInv
    BY <1>1, <1>2, <1>4, <1>5 DEF MigrationsInv
  <1>7. PoliciesInv
    BY <1>3 DEF PoliciesInv
  <1>8. PastStatementsStand
    BY <1>2, <1>5 DEF PastStatementsStand
  <1> QED
    BY <1>5, <1>6, <1>7, <1>8 DEF BoundaryInv, AuditInv

\* The invariant says what the migrations and the audit promise.
LEMMA BoundaryKept ==
    ASSUME BoundaryAssumption
    PROVE  BoundaryInv => Boundary!BoundaryHolds
  <1> SUFFICES ASSUME BoundaryInv PROVE Boundary!BoundaryHolds
    OBVIOUS
  <1> DEFINE required == Followed \intersect Boundary!get_rls_required_tables
             missing == UNION {left[m] : m \in Migrators}
             migrated == /\ Boundary!validate_icd_boundary_static(rlsTables) = {}
                         /\ \E m \in Migrators : outcome[m] = "done"
  <1>1. MigrationIs
    BY InForce DEF BoundaryInv, MigrationsInv
  <1>2. ASSUME NEW t \in required, migrated
        PROVE  relation[t].enabled /\ relation[t].forced /\ Handled(t)
    <2>1. t \in Boundary!Range(rlsTables) /\ t \in Followed
      <3>1. Boundary!Range(rlsTables) = Boundary!get_rls_required_tables
        BY <1>2, ValidTuple
      <3> QED
        BY <3>1
    <2>2. \A op \in Preparations : \E r : Done(r) /\ r.op = op /\ r.on = t
      BY <1>1, <1>2, <2>1 DEF BoundaryInv, PastStatementsStand, MigrationIs
    <2>3. "enable" \in Preparations /\ "force" \in Preparations /\ "drop" \in Preparations
      BY DEF Preparations
    <2> QED
      BY <2>1, <2>2, <2>3 DEF Done
  <1>3. ASSUME NEW t \in required, migrated
        PROVE  relation[t].policy = "tenant_isolation" \/ t \in missing
    BY <1>2, <1>3 DEF Handled
  <1>4. ASSUME NEW t \in required, migrated
        PROVE  /\ relation[t].enabled /\ relation[t].forced
               /\ Boundary!Isolated(t) \/ t \in missing
    BY <1>2, <1>3, <1>4 DEF Boundary!Isolated
  <1>5. ASSUME migrated, missing = {}, asWritten PROVE Boundary!AuditViolations = {}
    <2>1. ASSUME NEW t \in required PROVE t \in Boundary!policy_map /\ Boundary!ClauseOk(t)
      <3>1. relation[t].policy = "tenant_isolation"
        BY <1>3, <1>5
      <3> QED
        BY <1>5, <3>1 DEF Boundary!policy_map, Boundary!ClauseOk
    <2>2. ASSUME NEW t \in Boundary!policy_map PROVE t \in Boundary!get_all_icd_tables
      <3>1. t \in Boundary!Range(Boundary!RLS_TABLES) \union Boundary!Range(rlsTables)
        BY DEF Boundary!policy_map, BoundaryInv, PoliciesInv
      <3>2. Boundary!Range(rlsTables) \subseteq Boundary!get_rls_required_tables
        BY <1>5, ValidTuple
      <3>3. Boundary!get_rls_required_tables \subseteq Boundary!get_all_icd_tables
        BY DEF Boundary!get_rls_required_tables, Boundary!get_all_icd_tables
      <3>4. Boundary!Range(Boundary!RLS_TABLES) \subseteq Boundary!get_all_icd_tables
        BY DEF Boundary!Range, Boundary!RLS_TABLES, Boundary!get_all_icd_tables, Boundary!ICD_BOUNDARY
      <3> QED
        BY <3>1, <3>2, <3>3, <3>4
    <2> QED
      BY <2>1, <2>2 DEF Boundary!AuditViolations
  <1> HIDE DEF migrated, missing, required
  <1> QED
    BY <1>4, <1>5 DEF Boundary!BoundaryHolds, BoundaryInv, AuditInv, required, missing, migrated

\* However many migrations run beside each other, stop anywhere and start again,
\* an audit passes only over tables that are isolated, a finished migration's
\* tables keep their security, and the audit finds nothing once no policy is
\* dropped and not yet recreated.
THEOREM TenantsStayApart ==
    ASSUME BoundaryAssumption
    PROVE  BoundarySpec => []Boundary!BoundaryHolds
  <1>1. BoundaryInv /\ [Boundary!BoundaryNext]_(Boundary!boundaryVars) => BoundaryInv'
    BY BoundaryStep
  <1> QED
    BY <1>1, BoundaryStart, BoundaryKept, PTL DEF BoundarySpec

-----------------------------------------------------------------------------
(* The chain of goals and the decision to start phase E.                   *)

\* Transitions lead from goals of the chain to goals of the chain.
PhaseTypes ==
    /\ goals \in Seq(PhaseGoals)
    /\ transitions \in [DOMAIN transitions -> Phases!Ids] /\ DOMAIN transitions \subseteq Phases!Ids
    /\ satisfied \subseteq Phases!Ids
    /\ Phases!NoGoal \notin Phases!Ids

\* What the walk has left behind leads on to where it is, and no start is missed.
WalkInv ==
    readiness = "walking" =>
       /\ Phases!StartNodes \subseteq starts \union visited \union {walker}
       /\ \A v \in visited : Phases!Next_(v) \in visited \union {walker, Phases!NoGoal}

\* The chain has finitely many goals, at most as many as entries.
LEMMA IdsAreFinite ==
    ASSUME PhaseTypes
    PROVE  IsFiniteSet(Phases!Ids) /\ Cardinality(Phases!Ids) \in Nat /\ Cardinality(Phases!Ids) <= Len(goals)
  <1>1. Len(goals) \in Nat /\ DOMAIN goals = 1 .. Len(goals) /\ goals \in [1 .. Len(goals) -> PhaseGoals]
    BY DEF PhaseTypes
  <1>2. goals \in Surjection(1 .. Len(goals), Phases!Ids)
    BY <1>1 DEF Surjection, Phases!Ids, Phases!ToSet
  <1>3. IsFiniteSet(1 .. Len(goals)) /\ Cardinality(1 .. Len(goals)) = Len(goals)
    BY SMTT(20), <1>1, FS_Interval
  <1> QED
    BY <1>2, <1>3, FS_Surjection, FS_CardinalityType

\* Goals that all have a predecessor among themselves hold a cycle.
LEMMA NoWayBack ==
    ASSUME PhaseTypes, NEW U \in SUBSET Phases!Ids, U # {},
           \A u \in U : \E p \in U : p \in DOMAIN transitions /\ transitions[p] = u
    PROVE  Phases!Cyclic
  <1> DEFINE S == {p \in U : p \in DOMAIN transitions /\ transitions[p] \in U}
             f == [p \in S |-> transitions[p]]
  <1>1. IsFiniteSet(U) /\ IsFiniteSet(S)
    BY IdsAreFinite, FS_Subset
  <1>2. f \in Surjection(S, U)
    BY DEF Surjection
  <1>3. Cardinality(U) <= Cardinality(S)
    <2> HIDE DEF S, f
    <2> QED
      BY <1>1, <1>2, FS_Surjection
  <1>4. S \in SUBSET U
    OBVIOUS
  <1>5. S = U
    <2> HIDE DEF S
    <2>1. Cardinality(S) <= Cardinality(U) /\ (Cardinality(U) = Cardinality(S) => U = S)
      BY <1>1, <1>4, FS_Subset
    <2>2. Cardinality(S) \in Nat /\ Cardinality(U) \in Nat
      BY <1>1, FS_CardinalityType
    <2> QED
      BY <1>3, <2>1, <2>2
  <1>6. U \in SUBSET DOMAIN transitions /\ {transitions[g] : g \in U} \subseteq U
    BY <1>5
  <1> QED
    BY <1>6 DEF Phases!Cyclic

\* Where there is no cycle, a walk from all starts has seen every goal.
LEMMA WalkSeesAll ==
    ASSUME PhaseTypes, WalkInv, Phases!Report, ~Phases!Cyclic
    PROVE  Phases!Continuous
  <1> SUFFICES ASSUME goals # <<>> PROVE Phases!StartNodes # {} /\ Phases!Ids \subseteq visited
    BY DEF Phases!Continuous
  <1>1. starts = {} /\ walker = Phases!NoGoal /\ readiness = "walking"
    BY DEF Phases!Report, Phases!Validating
  <1>2. Phases!StartNodes \subseteq visited
    <2>1. Phases!NoGoal \notin Phases!StartNodes
      BY DEF Phases!StartNodes, PhaseTypes
    <2> QED
      BY <1>1, <2>1 DEF WalkInv
  <1>3. \A v \in visited : Phases!Next_(v) \in visited \union {Phases!NoGoal}
    BY <1>1 DEF WalkInv
  <1>4. Phases!Ids # {}
    <2>1. 1 \in DOMAIN goals
      BY DEF PhaseTypes
    <2> QED
      BY <2>1 DEF Phases!Ids, Phases!ToSet
  <1>5. Phases!StartNodes # {}
    <2> SUFFICES ASSUME Phases!StartNodes = {} PROVE FALSE
      OBVIOUS
    <2>1. \A u \in Phases!Ids : \E p \in Phases!Ids : p \in DOMAIN transitions /\ transitions[p] = u
      BY DEF Phases!StartNodes, PhaseTypes
    <2> QED
      BY <1>4, <2>1, NoWayBack
  <1>6. Phases!Ids \subseteq visited
    <2> DEFINE U == Phases!Ids \ visited
    <2> SUFFICES ASSUME U # {} PROVE FALSE
      OBVIOUS
    <2>1. ASSUME NEW u \in U PROVE \E p \in U : p \in DOMAIN transitions /\ transitions[p] = u
      <3>1. PICK p \in DOMAIN transitions : transitions[p] = u
        BY <1>2 DEF Phases!StartNodes
      <3>2. p \in Phases!Ids /\ u # Phases!NoGoal
        BY DEF PhaseTypes
      <3>3. Phases!Next_(p) = u
        BY <3>1 DEF Phases!Next_
      <3> QED
        BY <1>3, <3>1, <3>2, <3>3
    <2>2. U \in SUBSET Phases!Ids
      OBVIOUS
    <2> HIDE DEF U
    <2> QED
      BY <2>1, <2>2, NoWayBack
  <1> QED
    BY <1>5, <1>6

\* along follows the successors for n steps.
Follows(along, g, n) ==
    along = [k \in 0 .. n |-> IF k = 0 THEN g ELSE Phases!Next_(along[k - 1])]

\* There is such a walk, whatever its length.
LEMMA WalksExist ==
    ASSUME NEW g, NEW n \in Nat
    PROVE  \E along : Follows(along, g, n)
  <1> DEFINE Bad == {m \in Nat : ~ \E along : Follows(along, g, m)}
  <1> SUFFICES ASSUME Bad # {} PROVE FALSE
    OBVIOUS
  <1>1. PICK m \in Bad : \A k \in Bad : m <= k
    <2>1. Bad \in SUBSET Nat
      OBVIOUS
    <2> HIDE DEF Bad
    <2> QED
      BY <2>1, NatMin
  <1>2. m # 0
    <2> SUFFICES ASSUME m = 0 PROVE FALSE
      OBVIOUS
    <2> DEFINE f == [k \in 0 .. 0 |-> g]
    <2>1. Follows(f, g, 0)
      BY DEF Follows
    <2> QED
      BY <1>1, <2>1
  <1>3. m - 1 \in Nat /\ m - 1 \notin Bad
    BY <1>1, <1>2
  <1>4. PICK f : Follows(f, g, m - 1)
    BY <1>3
  <1> DEFINE h == [k \in 0 .. m |-> IF k = 0 THEN g ELSE Phases!Next_(f[k - 1])]
  <1>5. \A k \in 0 .. (m - 1) : h[k] = f[k]
    <2>1. \A k \in 0 .. (m - 1) : f[k] = IF k = 0 THEN g ELSE Phases!Next_(f[k - 1])
      BY <1>4 DEF Follows
    <2>2. \A k \in 0 .. (m - 1) : h[k] = IF k = 0 THEN g ELSE Phases!Next_(f[k - 1])
      BY <1>1
    <2> HIDE DEF h
    <2> QED
      BY <2>1, <2>2
  <1>6. \A k \in 0 .. m : k # 0 => h[k - 1] = f[k - 1]
    <2> HIDE DEF h
    <2> QED
      BY <1>1, <1>5
  <1>7. Follows(h, g, m)
    <2>1. h = [k \in 0 .. m |-> h[k]]
      OBVIOUS
    <2>2. \A k \in 0 .. m : h[k] = IF k = 0 THEN g ELSE Phases!Next_(f[k - 1])
      OBVIOUS
    <2> HIDE DEF h
    <2>3. \A k \in 0 .. m : h[k] = IF k = 0 THEN g ELSE Phases!Next_(h[k - 1])
      BY <1>6, <2>2
    <2> QED
      BY <2>1, <2>3 DEF Follows
  <1> QED
    BY <1>1, <1>7

\* The search from g goes n goals along the chain, each of the chain and none
\* seen before, up to its end, a goal that was seen or one it came through.
Searched(dfs, found, g, a, n) ==
    LET through == {a[j] : j \in 0 .. (n - 1)}
        hit == a[n] \in dfs.stack \union through IN
    /\ n \in Nat \ {0} /\ a[0] = g
    /\ \A k \in 0 .. (n - 1) : a[k] \in Phases!Ids \ dfs.seen /\ a[k + 1] = Phases!Next_(a[k])
    /\ a[n] \in {Phases!NoGoal} \union dfs.seen \union through
    /\ found.seen = dfs.seen \union through
    /\ found.stack = IF hit THEN dfs.stack \union through ELSE dfs.stack
    /\ found.errors = IF hit THEN dfs.errors \union {g} ELSE dfs.errors

\* A search ends, for the chain has finitely many goals.
LEMMA SearchEnds ==
    ASSUME PhaseTypes, NEW dfs, NEW g \in Phases!Ids, g \notin dfs.seen
    PROVE  \E a, n : Searched(dfs, Phases!HasCycle(dfs, g), g, a, n)
  <1> DEFINE N == Len(goals)
             along == CHOOSE along : Follows(along, g, N)
             B(k) == {along[j] : j \in 0 .. (k - 1)}
             K == {k \in 1 .. N : along[k] \in {Phases!NoGoal} \union dfs.seen \union B(k)}
             last == Phases!Min(K)
             hit == along[last] \in dfs.stack \union B(last)
  <1>1. N \in Nat
    BY DEF PhaseTypes
  <1>2. Follows(along, g, N)
    BY <1>1, WalksExist
  <1>3. Phases!HasCycle(dfs, g) =
           [seen |-> dfs.seen \union B(last),
            stack |-> IF hit THEN dfs.stack \union B(last) ELSE dfs.stack,
            errors |-> IF hit THEN dfs.errors \union {g} ELSE dfs.errors]
    BY DEF Phases!HasCycle, Follows
  <1> HIDE DEF N, along
  <1>4. \A k \in 0 .. N : along[k] = IF k = 0 THEN g ELSE Phases!Next_(along[k - 1])
    BY <1>2 DEF Follows
  <1>5. along[0] = g /\ \A k \in 1 .. N : along[k] = Phases!Next_(along[k - 1])
    BY <1>1, <1>4
  <1>6. \A v \in Phases!Ids : Phases!Next_(v) \in Phases!Ids \union {Phases!NoGoal}
    BY DEF Phases!Next_, PhaseTypes
  <1>7. ASSUME NEW n \in 0 .. N, \A k \in 1 .. n : along[k] # Phases!NoGoal
        PROVE  \A k \in 0 .. n : along[k] \in Phases!Ids
    <2> DEFINE Bad == {k \in 0 .. n : along[k] \notin Phases!Ids}
    <2> SUFFICES ASSUME Bad # {} PROVE FALSE
      OBVIOUS
    <2>1. PICK m \in Bad : \A k \in Bad : m <= k
      <3>1. Bad \in SUBSET Nat
        BY <1>1
      <3> HIDE DEF Bad
      <3> QED
        BY <3>1, NatMin
    <2>2. m # 0
      BY <1>5, <2>1
    <2>3. m - 1 \in 0 .. n /\ m - 1 \notin Bad /\ m \in 1 .. n /\ m \in 1 .. N
      BY <1>1, <2>1, <2>2
    <2>4. along[m - 1] \in Phases!Ids
      BY <2>3
    <2>5. along[m] \in Phases!Ids \union {Phases!NoGoal}
      BY <1>5, <1>6, <2>3, <2>4
    <2> QED
      BY <1>7, <2>1, <2>3, <2>5
  <1>8. K # {}
    <2> SUFFICES ASSUME K = {} PROVE FALSE
      OBVIOUS
    <2>1. \A k \in 1 .. N : along[k] # Phases!NoGoal /\ along[k] \notin B(k)
      OBVIOUS
    <2>2. \A k \in 0 .. N : along[k] \in Phases!Ids
      <3>1. N \in 0 .. N
        BY <1>1
      <3> QED
        BY <1>7, <2>1, <3>1
    <2> DEFINE f == [k \in 0 .. N |-> along[k]]
    <2>3. f \in [0 .. N -> Phases!Ids]
      BY <2>2
    <2>4. IsFiniteSet(0 .. N) /\ Cardinality(0 .. N) = N + 1
      BY <1>1, FS_Interval
    <2>5. IsFiniteSet(Phases!Ids) /\ Cardinality(Phases!Ids) < Cardinality(0 .. N)
      BY <1>1, <2>4, IdsAreFinite DEF N
    <2>6. PICK x, y \in 0 .. N : x # y /\ f[x] = f[y]
      <3> DEFINE D == 0 .. N
                 I == Phases!Ids
      <3>1. IsFiniteSet(D) /\ IsFiniteSet(I) /\ Cardinality(I) < Cardinality(D) /\ f \in [D -> I]
        BY <2>3, <2>4, <2>5
      <3> HIDE DEF D, I, f
      <3>2. \E x, y \in D : x # y /\ f[x] = f[y]
        BY <3>1, FS_PigeonHole
      <3> QED
        BY <3>2 DEF D
    <2>7. ASSUME NEW i \in 0 .. N, NEW j \in 0 .. N, i < j, along[i] = along[j] PROVE FALSE
      <3>1. j \in 1 .. N /\ i \in 0 .. (j - 1)
        BY <1>1, <2>7
      <3> QED
        BY <2>1, <2>7, <3>1
    <2>8. x < y \/ y < x
      BY <1>1, <2>6
    <2> QED
      BY <2>6, <2>7, <2>8
  <1>9. last \in K /\ \A k \in K : last <= k
    <2>1. K \in SUBSET Nat
      BY <1>1
    <2> HIDE DEF K
    <2>2. \E x \in K : \A y \in K : x <= y
      BY <1>8, <2>1, NatMin
    <2> QED
      BY <2>2 DEF Phases!Min
  <1> HIDE DEF last
  <1>10. last \in 1 .. N /\ last \in Nat \ {0}
    BY <1>1, <1>9
  <1>11. \A k \in 1 .. (last - 1) : along[k] \notin {Phases!NoGoal} \union dfs.seen
    BY <1>1, <1>9, <1>10
  <1>12. \A k \in 0 .. (last - 1) : along[k] \in Phases!Ids \ dfs.seen /\ along[k + 1] = Phases!Next_(along[k])
    <2>1. last - 1 \in 0 .. N
      BY <1>1, <1>10
    <2>2. \A k \in 0 .. (last - 1) : along[k] \in Phases!Ids
      BY <1>7, <1>11, <2>1
    <2>3. \A k \in 0 .. (last - 1) : along[k] \notin dfs.seen
      BY <1>5, <1>10, <1>11
    <2>4. ASSUME NEW k \in 0 .. (last - 1) PROVE along[k + 1] = Phases!Next_(along[k])
      <3>1. k + 1 \in 1 .. N /\ (k + 1) - 1 = k
        BY <1>1, <1>10
      <3> QED
        BY <1>5, <3>1
    <2> QED
      BY <2>2, <2>3, <2>4
  <1>13. along[last] \in {Phases!NoGoal} \union dfs.seen \union B(last)
    BY <1>9
  <1>14. Searched(dfs, Phases!HasCycle(dfs, g), g, along, last)
    <2> DEFINE found == Phases!HasCycle(dfs, g)
    <2>1. /\ found.seen = dfs.seen \union B(last)
          /\ found.stack = IF hit THEN dfs.stack \union B(last) ELSE dfs.stack
          /\ found.errors = IF hit THEN dfs.errors \union {g} ELSE dfs.errors
      BY <1>3
    <2> HIDE DEF found
    <2> QED
      BY <1>5, <1>10, <1>12, <1>13, <2>1 DEF Searched, found
  <1> QED
    BY <1>14

\* A set of goals that the transitions do not leave.
ClosedIn(seen) ==
    \E s \in SUBSET (seen \intersect DOMAIN transitions) : s # {} /\ \A p \in s : transitions[p] \in s

\* What was seen leads on to what was seen, and an error is reported exactly if
\* there is a cycle in it.
SearchInv(dfs) ==
    /\ dfs.seen \subseteq Phases!Ids
    /\ \A v \in dfs.seen : Phases!Next_(v) \in dfs.seen \union {Phases!NoGoal}
    /\ dfs.errors = {} => dfs.stack = {} /\ ~ClosedIn(dfs.seen)
    /\ dfs.errors # {} => Phases!Cyclic

\* A search that hits what it came through has found a cycle.
LEMMA HitIsCycle ==
    ASSUME PhaseTypes, NEW dfs, NEW found, NEW g, NEW a, NEW n, Searched(dfs, found, g, a, n),
           a[n] \in {a[j] : j \in 0 .. (n - 1)}
    PROVE  Phases!Cyclic
  <1>1. PICK j \in 0 .. (n - 1) : a[n] = a[j]
    OBVIOUS
  <1> DEFINE s == {a[k] : k \in j .. (n - 1)}
  <1>2. n \in Nat \ {0} /\ \A k \in 0 .. (n - 1) : a[k] \in Phases!Ids /\ a[k + 1] = Phases!Next_(a[k])
    BY DEF Searched
  <1>3. \A k \in j .. (n - 1) : a[k + 1] \in s
    <2> SUFFICES ASSUME NEW k \in j .. (n - 1) PROVE a[k + 1] \in s
      OBVIOUS
    <2>1. CASE k = n - 1
      <3>1. k + 1 = n /\ j \in j .. (n - 1)
        BY <1>2, <2>1
      <3> QED
        BY <1>1, <3>1
    <2>2. CASE k # n - 1
      <3>1. k + 1 \in j .. (n - 1)
        BY <1>2, <2>2
      <3> QED
        BY <3>1
    <2> QED
      BY <2>1, <2>2
  <1>4. \A k \in j .. (n - 1) : a[k] \in DOMAIN transitions /\ transitions[a[k]] \in s
    <2> SUFFICES ASSUME NEW k \in j .. (n - 1)
                 PROVE  a[k] \in DOMAIN transitions /\ transitions[a[k]] \in s
      OBVIOUS
    <2>1. k \in 0 .. (n - 1)
      BY <1>2
    <2>2. \A i \in j .. (n - 1) : a[i] \in Phases!Ids
      BY <1>2
    <2>3. a[k + 1] # Phases!NoGoal
      BY <1>3, <2>2 DEF PhaseTypes
    <2>4. a[k + 1] = Phases!Next_(a[k])
      BY <1>2, <2>1
    <2> QED
      BY <1>3, <2>3, <2>4 DEF Phases!Next_
  <1>5. s # {}
    <2>1. j \in j .. (n - 1)
      BY <1>2
    <2> QED
      BY <2>1
  <1>6. s \in SUBSET DOMAIN transitions /\ {transitions[p] : p \in s} \subseteq s
    BY <1>4
  <1> QED
    BY <1>5, <1>6 DEF Phases!Cyclic

\* A search that ends elsewhere has come through no cycle.
LEMMA MissIsNone ==
    ASSUME PhaseTypes, NEW dfs, NEW found, NEW g, NEW a, NEW n, Searched(dfs, found, g, a, n), SearchInv(dfs),
           a[n] \notin {a[j] : j \in 0 .. (n - 1)}, ~ClosedIn(dfs.seen)
    PROVE  ~ClosedIn(found.seen)
  <1> SUFFICES ASSUME NEW s \in SUBSET (found.seen \intersect DOMAIN transitions), s # {},
                      \A p \in s : transitions[p] \in s
               PROVE  FALSE
    BY DEF ClosedIn
  <1>1. s \intersect dfs.seen = {}
    <2> SUFFICES ASSUME s \intersect dfs.seen # {} PROVE FALSE
      OBVIOUS
    <2> DEFINE t == s \intersect dfs.seen
    <2>1. ASSUME NEW p \in t PROVE transitions[p] \in t
      <3>1. Phases!Next_(p) = transitions[p] /\ transitions[p] \in Phases!Ids
        BY DEF Phases!Next_, PhaseTypes
      <3>2. Phases!Next_(p) \in dfs.seen \union {Phases!NoGoal}
        BY DEF SearchInv
      <3> QED
        BY <3>1, <3>2 DEF PhaseTypes
    <2> QED
      BY <2>1 DEF ClosedIn
  <1>2. /\ n \in Nat \ {0} /\ \A k \in 0 .. (n - 1) : a[k + 1] = Phases!Next_(a[k])
        /\ found.seen = dfs.seen \union {a[j] : j \in 0 .. (n - 1)}
    BY DEF Searched
  <1> DEFINE Left == {d \in 0 .. (n - 1) : a[(n - 1) - d] \in s}
  <1>3. Left # {}
    <2>1. PICK p \in s : TRUE
      OBVIOUS
    <2>2. PICK j \in 0 .. (n - 1) : p = a[j]
      BY <1>1, <1>2
    <2>3. (n - 1) - j \in 0 .. (n - 1) /\ (n - 1) - ((n - 1) - j) = j
      BY <1>2
    <2> QED
      BY <2>1, <2>2, <2>3
  <1>4. PICK d \in Left : \A c \in Left : d <= c
    <2>1. Left \in SUBSET Nat
      BY <1>2
    <2> HIDE DEF Left
    <2> QED
      BY <1>3, <2>1, NatMin
  <1> DEFINE k == (n - 1) - d
  <1>5. k \in 0 .. (n - 1) /\ a[k] \in s
    BY <1>2, <1>4
  <1>6. a[k + 1] \in s
    <2>1. a[k + 1] = transitions[a[k]]
      BY <1>2, <1>5 DEF Phases!Next_
    <2> QED
      BY <1>5, <2>1
  <1>7. CASE d = 0
    <2>1. k + 1 = n
      BY <1>2, <1>7
    <2> QED
      BY <1>1, <1>2, <1>6, <2>1
  <1>8. CASE d # 0
    <2>1. d - 1 \in 0 .. (n - 1) /\ (n - 1) - (d - 1) = k + 1
      BY <1>2, <1>4, <1>8
    <2>2. d - 1 \in Left
      BY <1>6, <2>1
    <2> QED
      BY <1>4, <2>1, <2>2
  <1> QED
    BY <1>7, <1>8

\* One more goal is searched from.
LEMMA SearchKeeps ==
    ASSUME PhaseTypes, NEW dfs, NEW g \in Phases!Ids, SearchInv(dfs)
    PROVE  LET found == Phases!HasCycle(dfs, g) IN
           SearchInv(found) /\ g \in found.seen /\ dfs.seen \subseteq found.seen
  <1>1. CASE g \in dfs.seen
    <2>1. Phases!HasCycle(dfs, g) = dfs
      BY <1>1 DEF Phases!HasCycle
    <2> QED
      BY <1>1, <2>1
  <1>2. CASE g \notin dfs.seen
    <2> DEFINE found == Phases!HasCycle(dfs, g)
    <2>1. PICK a, n : Searched(dfs, found, g, a, n)
      BY <1>2, SearchEnds
    <2> HIDE DEF found
    <2> DEFINE through == {a[j] : j \in 0 .. (n - 1)}
    <2>2. /\ n \in Nat \ {0} /\ a[0] = g
          /\ \A k \in 0 .. (n - 1) : a[k] \in Phases!Ids \ dfs.seen /\ a[k + 1] = Phases!Next_(a[k])
          /\ a[n] \in {Phases!NoGoal} \union dfs.seen \union through
          /\ found.seen = dfs.seen \union through
      BY <2>1 DEF Searched
    <2>3. found.seen \subseteq Phases!Ids
      BY <2>2 DEF SearchInv
    <2>4. g \in found.seen /\ dfs.seen \subseteq found.seen
      <3>1. 0 \in 0 .. (n - 1)
        BY <2>2
      <3> QED
        BY <2>2, <3>1
    <2>5. \A v \in found.seen : Phases!Next_(v) \in found.seen \union {Phases!NoGoal}
      <3>1. ASSUME NEW k \in 0 .. (n - 1) PROVE Phases!Next_(a[k]) \in found.seen \union {Phases!NoGoal}
        <4>1. CASE k = n - 1
          <5>1. Phases!Next_(a[k]) = a[n]
            BY <2>2, <4>1
          <5> QED
            BY <2>2, <5>1
        <4>2. CASE k # n - 1
          <5>1. k + 1 \in 0 .. (n - 1)
            BY <2>2, <4>2
          <5> QED
            BY <2>2, <5>1
        <4> QED
          BY <4>1, <4>2
      <3> QED
        BY <2>2, <3>1 DEF SearchInv
    <2>6. CASE a[n] \in dfs.stack \union through
      <3>1. found.errors # {}
        BY <2>1, <2>6 DEF Searched
      <3>2. Phases!Cyclic
        <4>1. CASE a[n] \in through
          BY <2>1, <4>1, HitIsCycle
        <4>2. CASE a[n] \in dfs.stack
          BY <4>2 DEF SearchInv
        <4> QED
          BY <2>6, <4>1, <4>2
      <3> QED
        BY <2>3, <2>4, <2>5, <3>1, <3>2 DEF SearchInv, found
    <2>7. CASE a[n] \notin dfs.stack \union through
      <3>1. found.errors = dfs.errors /\ found.stack = dfs.stack
        BY <2>1, <2>7 DEF Searched
      <3>2. ~ClosedIn(dfs.seen) => ~ClosedIn(found.seen)
        BY <2>1, <2>7, MissIsNone
      <3>3. SearchInv(found)
        BY <2>3, <2>5, <3>1, <3>2 DEF SearchInv
      <3> QED
        BY <2>4, <3>3 DEF found
    <2> QED
      BY <2>6, <2>7
  <1> QED
    BY <1>1, <1>2

\* The searches from the first n goals.
Scans(dfs, n) ==
    dfs = [k \in 0 .. n |-> IF k = 0 THEN [seen |-> {}, stack |-> {}, errors |-> {}]
                            ELSE Phases!HasCycle(dfs[k - 1], goals[k])]

\* There are such, for any number of goals.
LEMMA ScansExist ==
    ASSUME NEW n \in Nat
    PROVE  \E dfs : Scans(dfs, n)
  <1> DEFINE Bad == {m \in Nat : ~ \E dfs : Scans(dfs, m)}
             start == [seen |-> {}, stack |-> {}, errors |-> {}]
  <1> SUFFICES ASSUME Bad # {} PROVE FALSE
    OBVIOUS
  <1>1. PICK m \in Bad : \A k \in Bad : m <= k
    <2>1. Bad \in SUBSET Nat
      OBVIOUS
    <2> HIDE DEF Bad
    <2> QED
      BY <2>1, NatMin
  <1>2. m # 0
    <2> SUFFICES ASSUME m = 0 PROVE FALSE
      OBVIOUS
    <2> DEFINE f == [k \in 0 .. 0 |-> start]
    <2>1. Scans(f, 0)
      BY DEF Scans
    <2> QED
      BY <1>1, <2>1
  <1>3. m - 1 \in Nat /\ m - 1 \notin Bad
    BY <1>1, <1>2
  <1>4. PICK f : Scans(f, m - 1)
    BY <1>3
  <1> DEFINE h == [k \in 0 .. m |-> IF k = 0 THEN start ELSE Phases!HasCycle(f[k - 1], goals[k])]
  <1>5. \A k \in 0 .. (m - 1) : h[k] = f[k]
    <2>1. \A k \in 0 .. (m - 1) : f[k] = IF k = 0 THEN start ELSE Phases!HasCycle(f[k - 1], goals[k])
      BY <1>4 DEF Scans
    <2>2. \A k \in 0 .. (m - 1) : h[k] = IF k = 0 THEN start ELSE Phases!HasCycle(f[k - 1], goals[k])
      BY <1>1
    <2> HIDE DEF h
    <2> QED
      BY <2>1, <2>2
  <1>6. \A k \in 0 .. m : k # 0 => h[k - 1] = f[k - 1]
    <2> HIDE DEF h
    <2> QED
      BY <1>1, <1>5
  <1>7. Scans(h, m)
    <2>1. h = [k \in 0 .. m |-> h[k]]
      OBVIOUS
    <2>2. \A k \in 0 .. m : h[k] = IF k = 0 THEN start ELSE Phases!HasCycle(f[k - 1], goals[k])
      OBVIOUS
    <2> HIDE DEF h
    <2>3. \A k \in 0 .. m : h[k] = IF k = 0 THEN start ELSE Phases!HasCycle(h[k - 1], goals[k])
      BY <1>6, <2>2
    <2> QED
      BY <2>1, <2>3 DEF Scans
  <1> QED
    BY <1>1, <1>7

\* The search reports an error exactly if the chain has a cycle.
LEMMA CyclesAreReported ==
    ASSUME PhaseTypes
    PROVE  Phases!Cycles = {} <=> ~Phases!Cyclic
  <1> DEFINE N == Len(goals)
             dfs == CHOOSE dfs : Scans(dfs, N)
             start == [seen |-> {}, stack |-> {}, errors |-> {}]
  <1>1. N \in Nat /\ \A k \in 1 .. N : goals[k] \in Phases!Ids
    BY DEF PhaseTypes, Phases!Ids, Phases!ToSet
  <1>2. Scans(dfs, N)
    BY <1>1, ScansExist
  <1>3. Phases!Cycles = dfs[N].errors
    BY DEF Phases!Cycles, Scans
  <1> HIDE DEF dfs
  <1>4. \A k \in 0 .. N : dfs[k] = IF k = 0 THEN start ELSE Phases!HasCycle(dfs[k - 1], goals[k])
    BY <1>2 DEF Scans
  <1>5. dfs[0] = start /\ \A k \in 1 .. N : dfs[k] = Phases!HasCycle(dfs[k - 1], goals[k])
    <2> HIDE DEF start, N
    <2> QED
      BY <1>1, <1>4
  <1> DEFINE Good(n) == SearchInv(dfs[n]) /\ \A i \in 1 .. n : goals[i] \in dfs[n].seen
  <1>6. \A n \in 0 .. N : Good(n)
    <2> DEFINE Bad == {n \in 0 .. N : ~Good(n)}
    <2> SUFFICES ASSUME Bad # {} PROVE FALSE
      OBVIOUS
    <2>1. PICK n \in Bad : \A k \in Bad : n <= k
      <3>1. Bad \in SUBSET Nat
        BY <1>1
      <3> HIDE DEF Bad
      <3> QED
        BY <3>1, NatMin
    <2>2. Good(0)
      <3>1. start.seen = {} /\ start.stack = {} /\ start.errors = {}
        OBVIOUS
      <3>2. SearchInv(start)
        <4> HIDE DEF start
        <4> QED
          BY <3>1 DEF SearchInv, ClosedIn
      <3> QED
        BY <1>5, <3>2
    <2>3. n # 0
      BY <2>1, <2>2
    <2>4. n - 1 \in 0 .. N /\ n \in 1 .. N /\ n - 1 \notin Bad
      BY <1>1, <2>1, <2>3
    <2>5. Good(n - 1)
      BY <2>4
    <2>6. SearchInv(dfs[n]) /\ goals[n] \in dfs[n].seen /\ dfs[n - 1].seen \subseteq dfs[n].seen
      <3>1. dfs[n] = Phases!HasCycle(dfs[n - 1], goals[n])
        BY <1>5, <2>4
      <3>2. goals[n] \in Phases!Ids
        BY <1>1, <2>4
      <3> QED
        BY <2>5, <3>1, <3>2, SearchKeeps
    <2>7. ASSUME NEW i \in 1 .. n PROVE goals[i] \in dfs[n].seen
      <3>1. i = n \/ i \in 1 .. (n - 1)
        BY <1>1, <2>4
      <3> QED
        BY <2>5, <2>6, <3>1
    <2> QED
      BY <2>1, <2>6, <2>7
  <1>7. Good(N)
    <2>1. N \in 0 .. N
      BY <1>1
    <2> HIDE DEF Good, N
    <2> QED
      BY <1>6, <2>1
  <1>8. Phases!Ids \subseteq dfs[N].seen
    BY <1>7 DEF Phases!Ids, Phases!ToSet, PhaseTypes
  <1>9. Phases!Cyclic => ClosedIn(dfs[N].seen)
    <2> SUFFICES ASSUME Phases!Cyclic PROVE ClosedIn(dfs[N].seen)
      OBVIOUS
    <2>1. PICK s \in SUBSET DOMAIN transitions : s # {} /\ {transitions[g] : g \in s} \subseteq s
      BY DEF Phases!Cyclic
    <2>2. s \subseteq dfs[N].seen /\ \A p \in s : transitions[p] \in s
      BY <1>8, <2>1 DEF PhaseTypes
    <2> HIDE DEF N
    <2> QED
      BY <2>1, <2>2 DEF ClosedIn
  <1> QED
    BY <1>3, <1>7, <1>9 DEF SearchInv

\* A finite set of numbers has a largest.
LEMMA LargestExists ==
    ASSUME NEW T \in SUBSET Nat, IsFiniteSet(T), T # {}
    PROVE  \E x \in T : \A y \in T : x >= y
  <1> DEFINE Bad == {U \in SUBSET T : U # {} /\ ~ \E x \in U : \A y \in U : x >= y}
  <1> SUFFICES ASSUME Bad # {} PROVE FALSE
    <2>1. T \in SUBSET T
      OBVIOUS
    <2> QED
      BY <2>1
  <1>1. PICK U \in Bad : \A V \in Bad : Cardinality(U) <= Cardinality(V)
    <2>1. Bad \in SUBSET (SUBSET T)
      OBVIOUS
    <2> HIDE DEF Bad
    <2> QED
      BY <2>1, SmallestSubset
  <1>2. PICK x \in U : TRUE
    BY <1>1
  <1>3. IsFiniteSet(U)
    BY FS_Subset
  <1>4. U \ {x} \notin Bad
    <2>1. /\ Cardinality(U) \in Nat /\ Cardinality(U \ {x}) \in Nat
          /\ Cardinality(U \ {x}) < Cardinality(U)
      BY <1>2, <1>3, Smaller
    <2> HIDE DEF Bad
    <2> QED
      BY <1>1, <2>1
  <1>5. CASE U \ {x} = {}
    <2>1. \A y \in U : x >= y
      BY <1>5
    <2> QED
      BY <2>1
  <1>6. CASE U \ {x} # {}
    <2>1. PICK z \in U \ {x} : \A y \in U \ {x} : z >= y
      BY <1>4, <1>6
    <2>2. CASE z >= x
      <3>1. \A y \in U : z >= y
        BY <2>1, <2>2
      <3> QED
        BY <3>1
    <2>3. CASE ~(z >= x)
      <3>1. \A y \in U : x >= y
        BY <2>1, <2>3
      <3> QED
        BY <3>1
    <2> QED
      BY <2>2, <2>3
  <1> QED
    BY <1>5, <1>6

\* The comparison of the extremes compares every pair.
LEMMA SilIsCompared ==
    ASSUME PhasesAssumption, PhaseTypes
    PROVE  ~Phases!SilViolated <=>
              \A d, e \in Phases!Ids : PhaseOf[d] = "D" /\ PhaseOf[e] = "E" => SilOf[e] <= SilOf[d]
  <1> DEFINE Ds == Phases!InPhase("D")
             Es == Phases!InPhase("E")
             ds == {SilOf[g] : g \in Ds}
             es == {SilOf[g] : g \in Es}
  <1>1. Phases!Ids \subseteq PhaseGoals
    BY DEF PhaseTypes, Phases!Ids, Phases!ToSet
  <1>2. /\ \A g : g \in Ds <=> g \in Phases!Ids /\ PhaseOf[g] = "D"
        /\ \A g : g \in Es <=> g \in Phases!Ids /\ PhaseOf[g] = "E"
    BY DEF Phases!InPhase
  <1>3. \A g \in Ds \union Es : SilOf[g] \in Nat
    BY <1>1, <1>2 DEF PhasesAssumption
  <1>4. IsFiniteSet(Es)
    BY <1>2, IdsAreFinite, FS_Subset
  <1>5. Phases!SilViolated <=> Ds # {} /\ Es # {} /\ Phases!Max(es) > Phases!Min(ds)
    BY DEF Phases!SilViolated
  <1> HIDE DEF Ds, Es
  <1>6. CASE Ds = {} \/ Es = {}
    BY <1>2, <1>5, <1>6
  <1>7. CASE Ds # {} /\ Es # {}
    <2>1. Phases!Min(ds) \in ds /\ \A y \in ds : Phases!Min(ds) <= y
      <3>1. ds \in SUBSET Nat /\ ds # {}
        BY <1>3, <1>7
      <3> HIDE DEF ds
      <3>2. \E x \in ds : \A y \in ds : x <= y
        BY <3>1, NatMin
      <3> QED
        BY <3>2 DEF Phases!Min
    <2>2. Phases!Max(es) \in es /\ \A y \in es : Phases!Max(es) >= y
      <3>1. es \in SUBSET Nat /\ es # {}
        BY <1>3, <1>7
      <3>2. IsFiniteSet(es)
        <4> DEFINE f == [g \in Es |-> SilOf[g]]
        <4>1. f \in Surjection(Es, es)
          BY DEF Surjection
        <4> HIDE DEF f, es
        <4> QED
          BY <1>4, <4>1, FS_Surjection
      <3> HIDE DEF es
      <3>3. \E x \in es : \A y \in es : x >= y
        BY <3>1, <3>2, LargestExists
      <3> QED
        BY <3>3 DEF Phases!Max
    <2> DEFINE low == Phases!Min(ds)
               high == Phases!Max(es)
    <2>3. PICK d \in Ds : low = SilOf[d]
      BY <2>1
    <2>4. PICK e \in Es : high = SilOf[e]
      BY <2>2
    <2>5. \A g \in Ds : low <= SilOf[g]
      BY <2>1
    <2>6. \A g \in Es : high >= SilOf[g]
      BY <2>2
    <2>7. Phases!SilViolated <=> high > low
      BY <1>5, <1>7
    <2> HIDE DEF low, high
    <2>8. ~(high > low) <=> \A x \in Ds, y \in Es : SilOf[y] <= SilOf[x]
      <3>1. low \in Nat /\ high \in Nat
        BY <1>3, <2>3, <2>4
      <3>2. ASSUME ~(high > low), NEW x \in Ds, NEW y \in Es PROVE SilOf[y] <= SilOf[x]
        <4>1. SilOf[x] \in Nat /\ SilOf[y] \in Nat /\ low <= SilOf[x] /\ high >= SilOf[y]
          BY <1>3, <2>5, <2>6
        <4> QED
          BY <3>1, <3>2, <4>1
      <3>3. ASSUME \A x \in Ds, y \in Es : SilOf[y] <= SilOf[x] PROVE ~(high > low)
        BY <2>3, <2>4, <3>1, <3>3
      <3> QED
        BY <3>2, <3>3
    <2> QED
      BY <1>2, <2>7, <2>8
  <1> QED
    BY <1>6, <1>7

\* What "ready" is to mean.
Earned ==
    /\ \A g \in Phases!Ids : PhaseOf[g] = "D" => g \in satisfied
    /\ ~Phases!Cyclic
    /\ \A g \in Phases!Ids, c \in UNION {Post[h] \union Pre[h] : h \in Phases!Ids} : c \in Pre[g] =>
          /\ \E p \in Phases!Ids : <<p, g>> \in Phases!Before /\ c \in Post[p]
          /\ PhaseOf[g] = "E" => \E p \in satisfied : c \in Post[p]
    /\ \A d, e \in Phases!Ids : PhaseOf[d] = "D" /\ PhaseOf[e] = "E" => SilOf[e] <= SilOf[d]

\* The checks of preconditions find what each goal needs in its predecessors
\* and, once phase D is achieved, in goals that are satisfied.
LEMMA PreconditionsAreMet ==
    ASSUME PhasesAssumption, PhaseTypes, Phases!DGoalsMet
    PROVE  Phases!MissingPreconditions = {} /\ Phases!EPrerequisites <=>
              \A g \in Phases!Ids, c \in UNION {Post[h] \union Pre[h] : h \in Phases!Ids} : c \in Pre[g] =>
                 /\ \E p \in Phases!Ids : <<p, g>> \in Phases!Before /\ c \in Post[p]
                 /\ PhaseOf[g] = "E" => \E p \in satisfied : c \in Post[p]
  <1>1. \A g \in Phases!Ids : g \in PhaseGoals /\ PhaseOf[g] \in {"D", "E"}
    BY DEF PhasesAssumption, PhaseTypes, Phases!Ids, Phases!ToSet
  <1>2. ASSUME NEW p \in Phases!Ids, NEW g \in Phases!Ids
        PROVE  Phases!Next_(p) = g <=> <<p, g>> \in Phases!Before
    <2>1. g # Phases!NoGoal
      BY DEF PhaseTypes
    <2> QED
      BY <2>1 DEF Phases!Next_, Phases!Before
  <1>3. Phases!MissingPreconditions = {} <=>
           \A g \in Phases!Ids : \A c \in Pre[g] : \E p \in Phases!Ids : <<p, g>> \in Phases!Before /\ c \in Post[p]
    <2>1. ASSUME NEW g \in Phases!Ids
          PROVE  Pre[g] \subseteq UNION {Post[p] : p \in {q \in Phases!Ids : Phases!Next_(q) = g}} <=>
                    \A c \in Pre[g] : \E p \in Phases!Ids : <<p, g>> \in Phases!Before /\ c \in Post[p]
      BY <1>2
    <2>2. Phases!MissingPreconditions = {} <=>
             \A g \in Phases!Ids :
                Pre[g] \subseteq UNION {Post[p] : p \in {q \in Phases!Ids : Phases!Next_(q) = g}}
      BY DEF Phases!MissingPreconditions
    <2> QED
      BY <2>1, <2>2
  <1>4. Phases!InPhase("D") \union (Phases!InPhase("E") \intersect satisfied) = satisfied
    BY <1>1 DEF Phases!InPhase, Phases!DGoalsMet, PhaseTypes
  <1>5. Phases!EPrerequisites <=>
           \A g \in Phases!Ids : PhaseOf[g] = "E" => \A c \in Pre[g] : \E p \in satisfied : c \in Post[p]
    <2>1. Phases!EPrerequisites <=>
             \A g \in Phases!InPhase("E") : Pre[g] \subseteq UNION {Post[p] : p \in satisfied}
      BY <1>4 DEF Phases!EPrerequisites
    <2> QED
      BY <2>1 DEF Phases!InPhase
  <1>6. \A g \in Phases!Ids : \A c \in Pre[g] : c \in UNION {Post[h] \union Pre[h] : h \in Phases!Ids}
    OBVIOUS
  <1> QED
    BY <1>3, <1>5, <1>6

\* The report says "ready" exactly if that is earned.
LEMMA ReportIsTrue ==
    ASSUME PhasesAssumption, PhaseTypes, WalkInv, Phases!Report
    PROVE  readiness' \in {"ready", "blocked"} /\ (readiness' = "ready" <=> Earned)
  <1>1. readiness' = IF Phases!DGoalsMet /\ Phases!EPrerequisites /\ Phases!ChainValid THEN "ready" ELSE "blocked"
    BY DEF Phases!Report
  <1>2. Phases!DGoalsMet <=> \A g \in Phases!Ids : PhaseOf[g] = "D" => g \in satisfied
    BY DEF Phases!DGoalsMet, Phases!InPhase
  <1>3. ~Phases!Cyclic => Phases!Continuous
    BY WalkSeesAll
  <1>4. Phases!DGoalsMet /\ Phases!EPrerequisites /\ Phases!ChainValid <=> Earned
    BY <1>2, <1>3, CyclesAreReported, SilIsCompared, PreconditionsAreMet DEF Phases!ChainValid, Earned
  <1> QED
    BY <1>1, <1>4

\* What was reported is what the chain deserves.
PhaseInv ==
    /\ PhaseTypes /\ WalkInv
    /\ readiness \in {"ready", "blocked"} => (readiness = "ready" <=> Earned)

\* A call that changes the chain takes the report back.
LEMMA ChangesUnsay ==
    ASSUME PhaseTypes', Phases!Changed
    PROVE  PhaseInv'
  BY DEF Phases!Changed, PhaseInv, WalkInv

\* Every call, and every step of the walk, keeps the invariant.
LEMMA PhaseStep ==
    ASSUME PhasesAssumption, PhaseInv, [Phases!PhaseNext]_(Phases!phaseVars)
    PROVE  PhaseInv'
  <1> USE DEF PhaseInv
  <1>1. CASE UNCHANGED <<goals, transitions, satisfied>>
    <2>1. /\ Phases!Ids' = Phases!Ids /\ Phases!StartNodes' = Phases!StartNodes
          /\ (Phases!Cyclic' <=> Phases!Cyclic) /\ Phases!Before' = Phases!Before
      BY <1>1 DEF Phases!Ids, Phases!StartNodes, Phases!Cyclic, Phases!Before
    <2>2. PhaseTypes' /\ (Earned' <=> Earned)
      BY <1>1, <2>1 DEF PhaseTypes, Earned, Phases!NoGoal
    <2>4. CASE UNCHANGED Phases!phaseVars
      <3>1. WalkInv'
        <4>1. \A v : Phases!Next_(v)' = Phases!Next_(v)
          BY <1>1 DEF Phases!Next_
        <4> QED
          BY <2>1, <2>4, <4>1 DEF Phases!phaseVars, WalkInv, Phases!NoGoal
      <3> QED
        BY <2>2, <2>4, <3>1 DEF Phases!phaseVars
    <2>5. CASE Phases!verify_transition
      <3>1. readiness' = "walking" /\ starts' = Phases!StartNodes /\ walker' = Phases!NoGoal /\ visited' = {}
        BY <2>5 DEF Phases!verify_transition
      <3>2. WalkInv'
        BY <2>1, <3>1 DEF WalkInv
      <3> QED
        BY <2>2, <3>1, <3>2
    <2>6. CASE Phases!WalkOn
      <3>1. readiness = "walking" /\ readiness' = readiness
        BY <2>6 DEF Phases!WalkOn, Phases!Validating
      <3>2. /\ Phases!StartNodes \subseteq starts \union visited \union {walker}
            /\ \A v \in visited : Phases!Next_(v) \in visited \union {walker, Phases!NoGoal}
        BY <3>1 DEF WalkInv
      <3>3. \A v \in visited' : Phases!Next_(v)' = Phases!Next_(v)
        BY <1>1 DEF Phases!Next_
      <3>4. CASE walker # Phases!NoGoal
        <4>1. visited' = visited \union {walker} /\ walker' = Phases!Next_(walker) /\ starts' = starts
          BY <2>6, <3>4 DEF Phases!WalkOn
        <4>2. WalkInv'
          BY <2>1, <3>2, <3>3, <4>1 DEF WalkInv, Phases!NoGoal
        <4> QED
          BY <2>2, <3>1, <4>2
      <3>5. CASE walker = Phases!NoGoal
        <4>1. PICK s \in starts : walker' = s /\ starts' = starts \ {s} /\ visited' = visited
          BY <2>6, <3>5 DEF Phases!WalkOn
        <4>2. Phases!NoGoal \notin Phases!StartNodes
          BY DEF Phases!StartNodes, PhaseTypes
        <4>3. WalkInv'
          BY <2>1, <3>2, <3>3, <3>5, <4>1, <4>2 DEF WalkInv, Phases!NoGoal
        <4> QED
          BY <2>2, <3>1, <4>3
      <3> QED
        BY <3>4, <3>5
    <2>7. CASE Phases!Report
      <3>1. readiness' \in {"ready", "blocked"} /\ (readiness' = "ready" <=> Earned)
        BY <2>7, ReportIsTrue
      <3>2. WalkInv'
        BY <3>1 DEF WalkInv
      <3> QED
        BY <2>2, <3>1, <3>2
    <2>8. CASE \E g \in PhaseGoals : \/ Phases!add_goal(g) \/ Phases!mark_goal_satisfied(g)
                                     \/ \E h \in PhaseGoals : Phases!add_transition(g, h)
      <3>1. Phases!Changed
        BY <2>8 DEF Phases!add_goal, Phases!mark_goal_satisfied, Phases!add_transition
      <3> QED
        BY <2>2, <3>1, ChangesUnsay
    <2> QED
      BY <2>4, <2>5, <2>6, <2>7, <2>8 DEF Phases!PhaseNext
  <1>2. ASSUME NEW g \in PhaseGoals, Phases!add_goal(g) PROVE PhaseInv'
    <2>1. goals' = Append(goals, g) /\ UNCHANGED <<transitions, satisfied>> /\ Phases!Changed
      BY <1>2 DEF Phases!add_goal
    <2>2. goals' \in Seq(PhaseGoals) /\ Len(goals') = Len(goals) + 1
          /\ \A i \in 1 .. Len(goals) : goals'[i] = goals[i]
      BY <2>1 DEF PhaseTypes
    <2>3. goals'[Len(goals) + 1] = g
      BY <2>1 DEF PhaseTypes
    <2>4. Phases!Ids' = Phases!Ids \union {g}
      BY <2>2, <2>3 DEF PhaseTypes, Phases!Ids, Phases!ToSet
    <2>5. g # Phases!NoGoal
      BY DEF PhasesAssumption
    <2>6. PhaseTypes'
      BY <2>1, <2>2, <2>4, <2>5 DEF PhaseTypes, Phases!NoGoal
    <2> QED
      BY <2>1, <2>6, ChangesUnsay
  <1>3. ASSUME NEW g \in PhaseGoals, Phases!mark_goal_satisfied(g) PROVE PhaseInv'
    <2>1. g \in Phases!Ids /\ satisfied' = satisfied \union {g} /\ UNCHANGED <<goals, transitions>> /\ Phases!Changed
      BY <1>3 DEF Phases!mark_goal_satisfied
    <2>2. Phases!Ids' = Phases!Ids
      BY <2>1 DEF Phases!Ids
    <2>3. PhaseTypes'
      BY <2>1, <2>2 DEF PhaseTypes, Phases!NoGoal
    <2> QED
      BY <2>1, <2>3, ChangesUnsay
  <1>4. ASSUME NEW g \in PhaseGoals, NEW h \in PhaseGoals, Phases!add_transition(g, h) PROVE PhaseInv'
    <2>1. /\ g \in Phases!Ids /\ h \in Phases!Ids /\ UNCHANGED <<goals, satisfied>> /\ Phases!Changed
          /\ transitions' = [x \in DOMAIN transitions \union {g} |-> IF x = g THEN h ELSE transitions[x]]
      BY <1>4 DEF Phases!add_transition
    <2>2. Phases!Ids' = Phases!Ids
      BY <2>1 DEF Phases!Ids
    <2>3. transitions' \in [DOMAIN transitions \union {g} -> Phases!Ids]
      BY <2>1 DEF PhaseTypes
    <2>4. DOMAIN transitions' = DOMAIN transitions \union {g}
      BY <2>1
    <2>5. PhaseTypes'
      BY <2>1, <2>2, <2>3, <2>4 DEF PhaseTypes, Phases!NoGoal
    <2> QED
      BY <2>1, <2>5, ChangesUnsay
  <1> QED
    BY <1>1, <1>2, <1>3, <1>4 DEF Phases!PhaseNext, Phases!verify_transition, Phases!WalkOn, Phases!Report,
                                  Phases!phaseVars

\* "Ready" is said exactly if every goal of phase D is satisfied, the chain has
\* no cycle, every precondition is met and no goal of phase E asks for a higher
\* SIL than phase D was built to, for chains of any length put together and
\* changed in any order.
THEOREM ReadinessIsEarned ==
    ASSUME PhasesAssumption
    PROVE  Phases!PhaseInit /\ [][Phases!PhaseNext]_(Phases!phaseVars) => []Phases!ReadyIsTrue
  <1>1. Phases!PhaseInit => PhaseInv
    BY DEF Phases!PhaseInit, PhaseInv, PhaseTypes, WalkInv, Phases!Ids, Phases!ToSet
  <1>2. PhaseInv /\ [Phases!PhaseNext]_(Phases!phaseVars) => PhaseInv'
    BY PhaseStep
  <1>3. PhaseInv => Phases!ReadyIsTrue
    BY DEF PhaseInv, Earned, Phases!ReadyIsTrue
  <1> QED
    BY <1>1, <1>2, <1>3, PTL

-----------------------------------------------------------------------------
(* Together.                                                               *)

\* A step of a service is no step of another.
LEMMA OneServiceMoves ==
    ASSUME [BackendsNext]_allVars
    PROVE  /\ focus' = focus
           /\ [Breaker!Next]_(Breaker!breakerVars) /\ [Queues!Next]_(Queues!queueVars)
           /\ [Partition!Next]_(Partition!partitionVars) /\ [Memory!Next]_(Memory!memoryVars)
           /\ [Egress!Next]_(Egress!egressVars) /\ [Executor!ExecutorNext]_executorState
           /\ [Topology!TopologyNext]_(Topology!topologyVars) /\ [Safety!SafetyNext]_(Safety!safetyVars)
           /\ [Governed!GovernanceNext]_governanceState /\ [Postgres!PostgresNext]_(Postgres!postgresVars)
           /\ [Registries!RegistriesNext]_registriesState /\ [Boundary!BoundaryNext]_(Boundary!boundaryVars)
           /\ [Arch!ArchNext]_archState /\ [Phases!PhaseNext]_(Phases!phaseVars)
  <1> USE DEF phaseVars, Phases!phaseVars, breakerVars, Breaker!breakerVars, queueVars, Queues!queueVars, partitionVars,
              Partition!partitionVars, memoryVars, Memory!memoryVars, egressVars, Egress!egressVars, executorVars,
              executorState, topologyVars, Topology!topologyVars, safetyVars, Safety!safetyVars, governanceVars,
              governanceState, postgresVars, Postgres!postgresVars, registryVars, registriesState, boundaryVars,
              Boundary!boundaryVars, archVars, archState
  <1>1. CASE UNCHANGED allVars
    BY <1>1 DEF allVars
  <1>2. CASE BackendsNext
    <2>1. /\ focus' = focus
          /\ focus # "breaker" => UNCHANGED breakerVars
          /\ focus # "queues" => UNCHANGED queueVars
          /\ focus # "partitions" => UNCHANGED partitionVars
          /\ focus # "memory" => UNCHANGED memoryVars
          /\ focus # "egress" => UNCHANGED egressVars
          /\ focus # "executor" => UNCHANGED executorVars
          /\ focus # "topology" => UNCHANGED topologyVars
          /\ focus # "phases" => UNCHANGED phaseVars
          /\ focus # "safety" => UNCHANGED safetyVars
          /\ focus # "governance" => UNCHANGED governanceVars
          /\ focus # "postgres" => UNCHANGED postgresVars
          /\ focus \notin {"registries", "icd"} => UNCHANGED registryVars
          /\ focus # "boundary" => UNCHANGED boundaryVars
          /\ focus # "architecture" => UNCHANGED archVars
      BY ZenonT(30), <1>2 DEF BackendsNext, Rest
    <2>2. /\ focus = "breaker" => Breaker!Next
          /\ focus = "queues" => Queues!Next
          /\ focus = "partitions" => Partition!Next
          /\ focus = "memory" => Memory!Next
          /\ focus = "egress" => Egress!Next
          /\ focus = "executor" => Executor!ExecutorNext
          /\ focus = "topology" => Topology!TopologyNext
          /\ focus = "phases" => Phases!PhaseNext
          /\ focus = "safety" => Safety!SafetyNext
          /\ focus = "governance" => Governed!GovernanceNext
          /\ focus = "postgres" => Postgres!PostgresNext
          /\ focus = "registries" => Registries!KeyedNext
          /\ focus = "icd" => Registries!ICDNext
          /\ focus = "boundary" => Boundary!BoundaryNext
          /\ focus = "architecture" => Arch!ArchNext
      BY <1>2 DEF BackendsNext
    <2> QED
      BY SMTT(30), <2>1, <2>2 DEF Registries!RegistriesNext
  <1> QED
    BY <1>1, <1>2

\* Each service behaves as its own specification says, from its own initial
\* states; the schema's only where it is what the behaviour is about.
LEMMA EachServiceRuns ==
    BackendsSpec =>
       /\ Breaker!Spec /\ Queues!Spec /\ Partition!Spec /\ Memory!Spec /\ Egress!Spec /\ ExecutorSpec
       /\ TopologySpec /\ SafetySpec /\ PostgresSpec /\ RegistriesSpec /\ ArchSpec
       /\ (focus = "boundary" => Boundary!BoundaryInit)
       /\ GovernanceInv /\ [][Governed!GovernanceNext]_governanceState
       /\ Phases!PhaseInit /\ [][Phases!PhaseNext]_(Phases!phaseVars)
  <1>1. BackendsInit =>
           /\ Breaker!Init /\ Queues!Init /\ Partition!Init /\ Memory!Init /\ Egress!Init
           /\ Executor!ExecutorInit /\ Topology!TopologyInit /\ Safety!SafetyInit /\ Postgres!PostgresInit
           /\ Registries!RegistriesInit /\ Arch!ArchInit
           /\ (focus = "boundary" => Boundary!BoundaryInit)
           /\ GovernanceInv /\ Phases!PhaseInit
    BY DEF BackendsInit, Governed!GovernanceInit, GovernanceInv
  <1> QED
    BY <1>1, OneServiceMoves, PTL
    DEF BackendsSpec, Breaker!Spec, Queues!Spec, Partition!Spec, Memory!Spec, Egress!Spec, ExecutorSpec, TopologySpec,
        SafetySpec, PostgresSpec, RegistriesSpec, ArchSpec

\* The stores keep what they promise, whichever of them a behaviour is about:
\* the parts that TLC checks on a small instance, for all values of the
\* constants.
THEOREM StoresAreFaithful == BackendsSpec => StoresKeepFaith
  <1> USE ServicesAssumption DEF ServicesAssumption
  <1>1. (focus = "boundary" => Boundary!BoundaryInit) => (focus = "boundary" => BoundaryInv)
    BY BoundaryStart
  <1>2. (focus = "boundary" => BoundaryInv) /\ [BackendsNext]_allVars => (focus = "boundary" => BoundaryInv)'
    BY OneServiceMoves, BoundaryStep
  <1>3. (focus = "boundary" => BoundaryInv) => (focus = "boundary" => Boundary!BoundaryHolds)
    BY BoundaryKept
  <1>4. BackendsSpec => [](focus = "boundary" => Boundary!BoundaryHolds)
    BY <1>1, <1>2, <1>3, EachServiceRuns, PTL DEF BackendsSpec
  <1>5. BackendsSpec => [](Breaker!OpensForCause /\ Queues!DepthOvershoot /\ Memory!PromotionIsSound
                           /\ Postgres!WritesAreHonest)
    BY EachServiceRuns, BreakerOpensForCause, QueueOvershootIsBounded, MemoryPromotionIsSound,
       RepositoryWritesAreHonest, PTL
  <1>6. BackendsSpec => Partition!RowsSurvive
    BY EachServiceRuns, RowsAreKept
  <1> QED
    BY <1>4, <1>5, <1>6 DEF StoresKeepFaith

\* The services keep what they promise, whichever a behaviour is about.
THEOREM ServicesAreFaithful == BackendsSpec => ServicesKeepFaith
  <1> USE ServicesAssumption DEF ServicesAssumption
  <1>1. BackendsSpec => [](Executor!CapacityIsExact /\ Egress!AnswersAreTrue /\ Topology!TopologiesAreSound)
    BY EachServiceRuns, ExecutorCapacityIsExact, EgressAnswersAreTrue, ManagedTopologiesAreSound, PTL
    DEF ExecutorAssumption
  <1>2. BackendsSpec => Registries!RegistrationsStand
    BY EachServiceRuns, RegistrationsAreKept
  <1>3. BackendsSpec => Arch!StalenessShows
    BY EachServiceRuns, StaleCopiesShow
  <1> QED
    BY <1>1, <1>2, <1>3 DEF ServicesKeepFaith

\* Decisions rest on what they claim, whichever a behaviour is about.
THEOREM DecisionsAreFaithful == BackendsSpec => DecisionsKeepFaith
  <1> USE ServicesAssumption DEF ServicesAssumption
  <1>1. BackendsSpec => [](Phases!ReadyIsTrue /\ Safety!ArgumentIsSound)
    BY EachServiceRuns, ReadinessIsEarned, ArgumentsAreSound, PTL DEF ArgumentAssumption
  <1>2. BackendsSpec => Governed!DenialsStand
    BY EachServiceRuns, DenialsAreKept
  <1> QED
    BY <1>1, <1>2 DEF DecisionsKeepFaith

-----------------------------------------------------------------------------
(* Types.                                                                  *)

\* What the invariants above leave open of the types of a service.
BreakerRest ==
    /\ openFor \in 0..RecoveryTimeout
    /\ call \in [Callers -> Breaker!Operations \union {"idle"}]
    /\ doomed \subseteq Callers /\ up \in BOOLEAN /\ cached \subseteq CacheKeys

QueuesRest ==
    /\ cron \subseteq Jobs /\ stream \in 0..StreamMaxlen /\ revoked \subseteq Tokens

PartitionRest ==
    /\ today \in 0..MaxDay
    /\ existing \subseteq Partitions /\ archived \subseteq Partitions /\ exposed \subseteq Rows
    /\ todo \in [Archivers -> SUBSET Partitions]

MemoryRest ==
    /\ stored \subseteq Records /\ medium \subseteq Records /\ long \subseteq Records
    /\ cleaned \subseteq Records /\ dropped \subseteq Records

EgressRest ==
    /\ window \in [Allowed -> SUBSET Outbound]
    /\ logged \subseteq Outbound /\ delivered \subseteq Outbound

\* The clock of the breaker stops at the recovery time.
LEMMA BreakerRestStep ==
    ASSUME BreakerAssumption, BreakerRest, [Breaker!Next]_(Breaker!breakerVars)
    PROVE  BreakerRest'
  <1> USE DEF BreakerAssumption, BreakerRest
  <1>1. CASE UNCHANGED Breaker!breakerVars
    BY <1>1 DEF Breaker!breakerVars
  <1>2. ASSUME NEW c \in Callers, NEW op \in Breaker!Operations, Breaker!Begin(c, op)
        PROVE  BreakerRest'
    BY <1>2 DEF Breaker!Begin
  <1>3. ASSUME NEW c \in Callers, ~Breaker!Ready(c), cached' \in Breaker!Applied(c) \union {cached}
        PROVE  cached' \subseteq CacheKeys
    <2>1. call[c] \in {"get", "set", "delete"}
      BY <1>3 DEF Breaker!Ready, Breaker!Operations
    <2>2. call[c] = "get" => Breaker!Applied(c) = {cached}
      BY DEF Breaker!Applied
    <2>3. call[c] = "set" => Breaker!Applied(c) = {cached \union {k} : k \in CacheKeys}
      <3>1. "set" # "get"
        OBVIOUS
      <3> QED
        BY <3>1, Zenon DEF Breaker!Applied
    <2>4. call[c] = "delete" => Breaker!Applied(c) = {cached \ {k} : k \in CacheKeys}
      <3>1. "delete" # "get" /\ "delete" # "set"
        OBVIOUS
      <3> QED
        BY <3>1, Zenon DEF Breaker!Applied
    <2> QED
      BY <1>3, <2>1, <2>2, <2>3, <2>4
  <1>4. ASSUME NEW c \in Callers, Breaker!Succeed(c) PROVE BreakerRest'
    BY <1>3, <1>4 DEF Breaker!Succeed, Breaker!record_success, Breaker!End
  <1>5. ASSUME NEW c \in Callers, Breaker!Fail(c) PROVE BreakerRest'
    BY <1>3, <1>5 DEF Breaker!Fail, Breaker!record_failure, Breaker!End
  <1>6. ASSUME NEW c \in Callers, Breaker!Cancel(c) PROVE BreakerRest'
    BY <1>3, <1>6 DEF Breaker!Cancel, Breaker!End
  <1>7. ASSUME NEW k \in CacheKeys, Breaker!Evict(k) PROVE BreakerRest'
    BY <1>7 DEF Breaker!Evict
  <1>8. CASE Breaker!reset
    BY <1>8 DEF Breaker!reset
  <1>9. CASE Breaker!Tick
    BY <1>9 DEF Breaker!Tick
  <1>10. CASE Breaker!Outage
    BY <1>10 DEF Breaker!Outage
  <1>11. CASE Breaker!Repair
    BY <1>11 DEF Breaker!Repair
  <1> QED
    BY <1>1, <1>2, <1>4, <1>5, <1>6, <1>7, <1>8, <1>9, <1>10, <1>11 DEF Breaker!Next, Breaker!Answer

\* A stream is trimmed to its length.
LEMMA QueuesRestStep ==
    ASSUME StreamMaxlen \in Nat, QueuesRest, [Queues!Next]_(Queues!queueVars)
    PROVE  QueuesRest'
  <1>1. CASE UNCHANGED <<cron, stream, revoked>>
    BY <1>1 DEF QueuesRest
  <1>2. CASE \/ \E j \in Jobs : Queues!enqueue_scheduled(j)
             \/ Queues!append
             \/ \E t \in Tokens : Queues!revoke(t) \/ Queues!Forget(t)
    BY <1>2 DEF QueuesRest, Queues!enqueue_scheduled, Queues!append, Queues!revoke, Queues!Forget
  <1> QED
    BY <1>1, <1>2 DEF Queues!Next, Queues!queueVars, Queues!Enqueue, Queues!Checked, Queues!Raised,
       Queues!Pushed, Queues!dequeue

\* What is exposed are rows, and what is archived or left to do are partitions.
LEMMA PartitionRestStep ==
    ASSUME MaxDay \in Nat, PartitionAssumption, PartitionInv, PartitionRest,
           [Partition!Next]_(Partition!partitionVars)
    PROVE  PartitionRest'
  <1> USE DEF PartitionRest
  <1>1. /\ \A p \in Partitions : table[p] \subseteq Rows /\ object[p] \subseteq Rows
        /\ \A w \in Workers : target[w] \in Partitions
        /\ Archivers \subseteq Workers /\ Restorers \subseteq Workers
    BY DEF PartitionInv, PartitionTypes, Workers
  <1>2. CASE UNCHANGED Partition!partitionVars \/ Partition!NextDay
    BY <1>2 DEF Partition!partitionVars, Partition!NextDay
  <1>3. ASSUME NEW p \in Partitions, Partition!ensure_partition(p) PROVE PartitionRest'
    BY <1>1, <1>3 DEF Partition!ensure_partition
  <1>4. ASSUME NEW row \in Rows, Partition!Insert(row) PROVE PartitionRest'
    BY <1>4 DEF Partition!Insert
  <1>5. ASSUME NEW a \in Archivers, NEW p \in Partitions, Partition!CopyOut(a, p) PROVE PartitionRest'
    BY <1>1, <1>5 DEF Partition!CopyOut, Partition!Everywhere
  <1>6. ASSUME NEW a \in Archivers, Partition!list_expired_partitions(a) PROVE PartitionRest'
    BY <1>6 DEF Partition!list_expired_partitions
  <1>7. ASSUME NEW a \in Archivers, Partition!Upload(a) PROVE PartitionRest'
    BY <1>1, <1>7 DEF Partition!Upload, Partition!UploadBytes
  <1>8. ASSUME NEW a \in Archivers, Partition!Drop(a) \/ Partition!AbortCycle(a) PROVE PartitionRest'
    BY <1>8 DEF Partition!Drop, Partition!DropTable, Partition!AbortCycle
  <1>9. ASSUME NEW r \in Restorers, NEW p \in Partitions, Partition!Download(r, p) PROVE PartitionRest'
    BY <1>1, <1>9 DEF Partition!Download, Partition!Everywhere
  <1>10. ASSUME NEW r \in Restorers, Partition!CreateTable(r) \/ Partition!CopyIn(r) \/ Partition!AbortRestore(r)
         PROVE  PartitionRest'
    BY <1>1, <1>10 DEF Partition!CreateTable, Partition!CopyIn, Partition!AbortRestore
  <1> QED
    BY <1>2, <1>3, <1>4, <1>5, <1>6, <1>7, <1>8, <1>9, <1>10 DEF Partition!Next

\* What is written somewhere is a record that a coroutine is about.
LEMMA MemoryRestStep ==
    ASSUME MemoryInv, MemoryRest, [Memory!Next]_(Memory!memoryVars)
    PROVE  MemoryRest'
  <1> USE DEF MemoryRest
  <1>1. CASE UNCHANGED <<stored, medium, long, cleaned, dropped>>
    BY <1>1
  <1>2. ASSUME NEW m \in Records, Memory!StoreInRedis(m) \/ Memory!StoreInPostgres(m) \/ Memory!Evict(m)
        PROVE  MemoryRest'
    BY <1>2 DEF Memory!StoreInRedis, Memory!StoreInPostgres, Memory!Evict
  <1>3. ASSUME NEW expired \in SUBSET Records, Memory!cleanup_expired(expired) PROVE MemoryRest'
    BY <1>3 DEF Memory!cleanup_expired
  <1>4. ASSUME NEW c \in Memory!Coroutines, Memory!Hit(c) \/ Memory!Resume(c) PROVE MemoryRest'
    BY <1>4 DEF Memory!Hit, Memory!Resume
  <1>5. ASSUME NEW c \in Memory!Coroutines,
               Memory!Miss(c) \/ Memory!Write(c) \/ Memory!WriteCopy(c) \/ Memory!WriteFails(c)
        PROVE  MemoryRest'
    <2>1. co[c] \in {Memory!Free} \union CallRecords
      BY DEF MemoryInv, MemoryTypes
    <2>2. co[c].pc \in {"fetching", "writing", "copying"} => co[c].rec \in Records
      BY <2>1 DEF Memory!Free, CallRecords
    <2> QED
      BY <1>5, <2>2 DEF Memory!Miss, Memory!Promotions, Memory!Write, Memory!WriteCopy, Memory!WriteFails
  <1>6. ASSUME NEW c \in Memory!Coroutines, NEW m \in Records, NEW goal \in {"none", "MEDIUM", "LONG"},
               Memory!Call(c, m, goal)
        PROVE  MemoryRest'
    BY <1>1, <1>6 DEF Memory!Call
  <1>7. ASSUME NEW c \in Memory!Coroutines, Memory!Cancel(c) PROVE MemoryRest'
    <2>1. Memory!Under(c) \subseteq Memory!Busy
      BY DEF Memory!Under
    <2>2. ASSUME NEW d \in Memory!Busy PROVE co[d].rec \in Records
      BY DEF MemoryInv, MemoryTypes, CallRecords, Memory!Busy, Memory!Idle
    <2>3. ASSUME NEW C \in SUBSET Memory!Busy PROVE Memory!Promotions(C) \subseteq Records
      BY <2>2 DEF Memory!Promotions
    <2> DEFINE Sent(goal) ==
                  {d \in Memory!Under(c) : co[d].pc \in {"writing", "copying"} /\ co[d].goal = goal}
    <2>4. /\ UNCHANGED <<stored, cleaned>>
          /\ \E done \in SUBSET Memory!Promotions(Sent("MEDIUM")) : medium' = medium \union done
          /\ \E done \in SUBSET Memory!Promotions(Sent("LONG")) : long' = long \union done
          /\ dropped' = dropped \union Memory!Promotions(Memory!Under(c))
      BY <1>7 DEF Memory!Cancel
    <2>5. Sent("MEDIUM") \subseteq Memory!Busy /\ Sent("LONG") \subseteq Memory!Busy
      BY <2>1
    <2> HIDE DEF Sent
    <2> QED
      BY <2>1, <2>3, <2>4, <2>5
  <1> QED
    BY <1>1, <1>2, <1>3, <1>4, <1>5, <1>6, <1>7 DEF Memory!Next, Memory!Run, Memory!memoryVars

\* Only requests are counted, logged and delivered.
LEMMA EgressRestStep ==
    ASSUME EgressRest, [Egress!Next]_(Egress!egressVars)
    PROVE  EgressRest'
  <1> USE DEF EgressRest
  <1>1. CASE UNCHANGED Egress!egressVars
    BY <1>1 DEF Egress!egressVars
  <1>2. ASSUME NEW r \in Outbound, Egress!CheckRate(r) PROVE EgressRest'
    BY <1>2 DEF Egress!CheckRate
  <1>3. ASSUME NEW r \in Outbound,
               \/ Egress!Receive(r) \/ Egress!CheckBudget(r) \/ Egress!Log(r) \/ Egress!Send(r)
               \/ Egress!RedactResponse(r)
        PROVE  EgressRest'
    BY <1>3 DEF Egress!Receive, Egress!CheckBudget, Egress!Log, Egress!Send, Egress!RedactResponse
  <1>4. ASSUME NEW d \in Allowed, Egress!NextWindow(d) PROVE EgressRest'
    BY <1>4 DEF Egress!NextWindow
  <1> QED
    BY <1>1, <1>2, <1>3, <1>4 DEF Egress!Next
TopologyRest ==
    /\ counter \in 0 .. MaxTopologies
    /\ DOMAIN topologies \subseteq 1 .. counter

PhaseRest ==
    /\ Len(goals) = Cardinality(Phases!Ids)
    /\ starts \subseteq Phases!Ids /\ visited \subseteq Phases!Ids
    /\ walker \in Phases!Ids \union {Phases!NoGoal}
    /\ readiness \in {"none", "walking", "ready", "blocked"}

SafetyRest ==
    /\ evidence \subseteq EvidenceIds /\ edges \subseteq ArgumentIds \X ArgumentIds
    /\ DOMAIN safetyCase \in {{}, Icds}

RegistriesRest ==
    /\ clock \in 0 .. MaxClock
    /\ \A i \in RegisteredIds : entries[i] # NoValue => entries[i].model \in Values \ Malformed
    /\ \A t \in Threads : thread[t].op = "register" => thread[t].model \in Values \ Malformed

BoundaryRest ==
    /\ asWritten \in BOOLEAN /\ runs \in 0 .. MaxRuns
    /\ auditReport \in [passed : BOOLEAN, isolated : SUBSET Followed]

\* An id is taken before it is used.
LEMMA TopologyRestStep ==
    ASSUME MaxTopologies \in Nat, TopologyRest, [Topology!TopologyNext]_(Topology!topologyVars)
    PROVE  TopologyRest'
  <1> USE DEF TopologyRest
  <1>1. CASE UNCHANGED Topology!topologyVars
    BY <1>1 DEF Topology!topologyVars
  <1>2. ASSUME Topology!NewId, DOMAIN topologies' \subseteq DOMAIN topologies \union {counter + 1}
        PROVE  TopologyRest'
    BY <1>2 DEF Topology!NewId
  <1>3. CASE Topology!Spawn
    BY <1>2, <1>3 DEF Topology!Spawn, Topology!Store
  <1>4. ASSUME NEW id \in DOMAIN topologies, Topology!Steer(id) PROVE TopologyRest'
    <2>1. Topology!NewId
      BY <1>4 DEF Topology!Steer
    <2>2. DOMAIN topologies' \subseteq DOMAIN topologies \union {counter + 1}
      BY <1>4 DEF Topology!Steer
    <2> QED
      BY <1>2, <2>1, <2>2
  <1>5. ASSUME NEW id \in DOMAIN topologies, Topology!Dissolve(id) \/ Topology!AddAgent(id) \/ Topology!AssignGoal(id)
        PROVE  TopologyRest'
    <2>1. counter' = counter /\ DOMAIN topologies' = DOMAIN topologies
      BY <1>5 DEF Topology!Dissolve, Topology!AddAgent, Topology!AssignGoal
    <2> QED
      BY <2>1
  <1> QED
    BY <1>1, <1>3, <1>4, <1>5 DEF Topology!TopologyNext

\* A goal is in the chain once, and the walk stays in the chain.
LEMMA PhaseRestStep ==
    ASSUME PhaseInv, PhaseRest, [Phases!PhaseNext]_(Phases!phaseVars)
    PROVE  PhaseRest'
  <1> USE DEF PhaseRest
  <1>1. ASSUME UNCHANGED <<goals, starts, walker, visited>>, readiness' \in {"none", "walking", "ready", "blocked"}
        PROVE  PhaseRest'
    <2>1. Phases!Ids' = Phases!Ids
      BY <1>1 DEF Phases!Ids
    <2> QED
      BY <1>1, <2>1 DEF Phases!NoGoal
  <1>2. ASSUME NEW g \in PhaseGoals, Phases!add_goal(g) PROVE PhaseRest'
    <2>1. g \notin Phases!Ids /\ goals' = Append(goals, g) /\ Phases!Changed /\ goals \in Seq(PhaseGoals)
      BY <1>2 DEF Phases!add_goal, PhaseInv, PhaseTypes
    <2>2. goals' \in Seq(PhaseGoals) /\ Len(goals') = Len(goals) + 1
          /\ (\A i \in 1 .. Len(goals) : goals'[i] = goals[i]) /\ goals'[Len(goals) + 1] = g
      BY <2>1
    <2>3. Phases!Ids' = Phases!Ids \union {g}
      BY <2>1, <2>2 DEF Phases!Ids, Phases!ToSet
    <2>4. IsFiniteSet(Phases!Ids) /\ Cardinality(Phases!Ids) \in Nat
      BY IdsAreFinite DEF PhaseInv
    <2>5. Cardinality(Phases!Ids') = Cardinality(Phases!Ids) + 1
      BY <2>1, <2>3, <2>4, FS_AddElement
    <2> QED
      BY <2>1, <2>2, <2>3, <2>5 DEF Phases!Changed, Phases!NoGoal
  <1>3. ASSUME NEW g \in PhaseGoals, NEW h \in PhaseGoals, Phases!mark_goal_satisfied(g) \/ Phases!add_transition(g, h)
        PROVE  PhaseRest'
    BY <1>1, <1>3 DEF Phases!mark_goal_satisfied, Phases!add_transition, Phases!Changed
  <1>4. CASE Phases!verify_transition
    <2>1. Phases!Ids' = Phases!Ids /\ goals' = goals
      BY <1>4 DEF Phases!Ids, Phases!verify_transition
    <2> QED
      BY <1>4, <2>1 DEF Phases!verify_transition, Phases!StartNodes, Phases!NoGoal
  <1>5. CASE Phases!WalkOn
    <2>1. Phases!Ids' = Phases!Ids /\ goals' = goals /\ readiness' = readiness
      BY <1>5 DEF Phases!Ids, Phases!WalkOn
    <2>2. Phases!Next_(walker) \in Phases!Ids \union {Phases!NoGoal}
      BY DEF Phases!Next_, PhaseInv, PhaseTypes
    <2> QED
      BY <1>5, <2>1, <2>2 DEF Phases!WalkOn, Phases!NoGoal
  <1>6. CASE Phases!Report
    BY <1>1, <1>6 DEF Phases!Report
  <1>7. CASE UNCHANGED Phases!phaseVars
    BY <1>1, <1>7 DEF Phases!phaseVars
  <1> QED
    BY <1>2, <1>3, <1>4, <1>5, <1>6, <1>7 DEF Phases!PhaseNext

\* Edges lead between ids of the graph.
LEMMA SafetyRestStep ==
    ASSUME ArgumentInv, SafetyRest, [Safety!SafetyNext]_(Safety!safetyVars)
    PROVE  SafetyRest'
  <1> USE DEF SafetyRest
  <1>1. CASE UNCHANGED <<evidence, edges, safetyCase>>
    BY <1>1
  <1>2. ASSUME NEW from \in ArgumentIds, NEW to \in ArgumentIds, edges' = edges \union {<<from, to>>},
               UNCHANGED <<evidence, safetyCase>>
        PROVE  SafetyRest'
    BY <1>2
  <1>3. ASSUME NEW id \in ArgumentIds, NEW goal \in ArgumentIds, NEW refs,
               Safety!add_strategy(id, goal) \/ Safety!add_claim(id, goal, refs)
        PROVE  SafetyRest'
    BY <1>2, <1>3 DEF Safety!add_strategy, Safety!add_claim
  <1>4. ASSUME NEW id \in ArgumentIds, NEW strategy \in ArgumentIds, Safety!link_claim_to_strategy(id, strategy)
        PROVE  SafetyRest'
    BY <1>2, <1>4 DEF Safety!link_claim_to_strategy
  <1>5. ASSUME NEW e \in EvidenceIds, Safety!add_evidence(e) PROVE SafetyRest'
    BY <1>5 DEF Safety!add_evidence
  <1>6. CASE Safety!build_phase_d_safety_case
    BY <1>6 DEF Safety!build_phase_d_safety_case, Safety!TraceMatrix
  <1>7. ASSUME NEW id, NEW status, Safety!AddGoal(id) \/ Safety!SetStatus(id, status) PROVE SafetyRest'
    BY <1>1, <1>7 DEF Safety!AddGoal, Safety!SetStatus
  <1> QED
    BY <1>1, <1>3, <1>4, <1>5, <1>6, <1>7 DEF Safety!SafetyNext, Safety!safetyVars

\* What is registered was taken over from a caller who was not refused.
LEMMA RegistriesRestStep ==
    ASSUME RegistriesAssumption, RegistriesInv, RegistriesRest, [Registries!RegistriesNext]_registriesState
    PROVE  RegistriesRest'
  <1> USE DEF RegistriesRest
  <1>1. CASE UNCHANGED registriesState \/ UNCHANGED <<entries, clock, thread>>
    BY <1>1 DEF registriesState
  <1>2. ASSUME NEW t \in Threads, NEW op, Registries!Locked(t, op), UNCHANGED clock,
               \A i \in RegisteredIds : entries'[i] # NoValue => entries'[i].model \in Values \ Malformed
        PROVE  RegistriesRest'
    <2>1. DOMAIN thread = Threads /\ thread' = [thread EXCEPT ![t] = [op |-> "none"]]
      BY <1>2 DEF Registries!Locked, RegistriesInv
    <2>2. \A u \in Threads : thread'[u].op = "register" => thread'[u] = thread[u]
      BY <2>1
    <2> QED
      BY <1>2, <2>2
  <1>3. ASSUME NEW t \in Threads, NEW op \in {"register", "resolve", "has", "evict"}, NEW i \in RegisteredIds,
               NEW m \in Values, NEW ttl, op = "register" => m \notin Malformed, Registries!Ask(t, op, i, m, ttl)
        PROVE  RegistriesRest'
    <2> DEFINE x == [op |-> op, id |-> i, model |-> m, ttl |-> ttl, now |-> clock]
    <2>1. thread' = [thread EXCEPT ![t] = x] /\ UNCHANGED <<entries, clock>> /\ DOMAIN thread = Threads
      BY <1>3 DEF Registries!Ask, RegistriesInv
    <2>2. x.op = op /\ x.model = m
      OBVIOUS
    <2> HIDE DEF x
    <2>3. \A u \in Threads : thread'[u] = IF u = t THEN x ELSE thread[u]
      BY <2>1
    <2> QED
      BY <1>3, <2>1, <2>2, <2>3
  <1>4. ASSUME NEW t \in Threads, Registries!RegisterModel(t) PROVE RegistriesRest'
    <2> DEFINE c == thread[t]  y == [model |-> c.model, expires_at |-> c.now + c.ttl]
    <2>1. /\ Registries!Locked(t, "register") /\ UNCHANGED clock /\ c.model \in Values \ Malformed
          /\ entries' = entries \/ entries' = [entries EXCEPT ![c.id] = y]
      BY <1>4 DEF Registries!RegisterModel, Registries!Locked
    <2>2. y.model = c.model
      OBVIOUS
    <2> HIDE DEF y, c
    <2>3. \A i \in RegisteredIds : entries'[i] # NoValue => entries'[i].model \in Values \ Malformed
      <3>1. DOMAIN entries = RegisteredIds
        BY DEF RegistriesInv
      <3> QED
        BY <2>1, <2>2, <3>1
    <2> QED
      BY <1>2, <2>1, <2>3
  <1>5. ASSUME NEW t \in Threads, Registries!Resolve(t) \/ Registries!Has(t) \/ Registries!EvictStale(t)
        PROVE  RegistriesRest'
    <2>1. PICK op : Registries!Locked(t, op) /\ UNCHANGED clock
      BY <1>5 DEF Registries!Resolve, Registries!Has, Registries!EvictStale
    <2>2. \A i \in RegisteredIds : entries'[i] \in {entries[i], NoValue}
      BY <1>5 DEF Registries!Resolve, Registries!Has, Registries!EvictStale, Registries!Dropped, RegistriesInv
    <2>3. \A i \in RegisteredIds : entries'[i] # NoValue => entries'[i].model \in Values \ Malformed
      BY <2>2
    <2> QED
      BY <1>2, <2>1, <2>3
  <1>6. CASE Registries!Pass
    BY <1>6 DEF Registries!Pass, RegistriesAssumption
  <1>7. CASE Registries!KeyedNext
    BY <1>1, <1>7 DEF Registries!KeyedNext, Registries!Register, Registries!Clear
  <1>8. CASE Registries!ICDNext
    BY <1>3, <1>4, <1>5, <1>6, <1>8 DEF Registries!ICDNext
  <1> QED
    BY <1>1, <1>7, <1>8 DEF Registries!RegistriesNext

\* An audit reports tables that are followed.
LEMMA BoundaryRestStep ==
    ASSUME MaxRuns \in Nat, BoundaryRest, [Boundary!BoundaryNext]_(Boundary!boundaryVars)
    PROVE  BoundaryRest'
  <1> USE DEF BoundaryRest
  <1>1. CASE UNCHANGED Boundary!boundaryVars
    BY <1>1 DEF Boundary!boundaryVars
  <1>2. ASSUME NEW m \in Migrators, Boundary!Start(m) PROVE BoundaryRest'
    BY <1>2 DEF Boundary!Start
  <1>3. ASSUME NEW m \in Migrators, Boundary!Statement(m) \/ Boundary!StatementFails(m) PROVE BoundaryRest'
    <2>1. UNCHANGED <<asWritten, runs, auditReport>>
      BY <1>3 DEF Boundary!Statement, Boundary!StatementFails
    <2> QED
      BY <2>1
  <1>4. CASE Boundary!audit_rls_policies
    <2> DEFINE found == Boundary!AuditViolations = {}
               isolated == {t \in Followed : Boundary!Isolated(t)}
    <2>1. auditReport' = [passed |-> found, isolated |-> isolated] /\ UNCHANGED <<asWritten, runs>>
      BY <1>4 DEF Boundary!audit_rls_policies
    <2>2. found \in BOOLEAN /\ isolated \in SUBSET Followed
      OBVIOUS
    <2> HIDE DEF found, isolated
    <2> QED
      BY <2>1, <2>2
  <1> QED
    BY <1>1, <1>2, <1>3, <1>4 DEF Boundary!BoundaryNext
\* Together with the invariants above they are the types.
StoresTyped ==
    /\ IInv /\ BreakerInv /\ BreakerRest /\ QueuesInv /\ QueuesRest /\ PartitionInv /\ PartitionRest
    /\ MemoryInv /\ MemoryRest /\ PostgresInv /\ (focus = "boundary" => BoundaryInv /\ BoundaryRest)

ServicesTyped ==
    /\ EgressInv /\ EgressRest /\ ExecutorInv /\ TopologyInv /\ TopologyRest /\ RegistriesInv /\ RegistriesRest
    /\ ArchInv

DecisionsTyped ==
    /\ PhaseInv /\ PhaseRest /\ ArgumentInv /\ SafetyRest /\ Governed!GovernanceTypeOK

\* Every service starts well typed.
LEMMA AllStartTyped == BackendsInit => StoresTyped /\ ServicesTyped /\ DecisionsTyped
  <1> SUFFICES ASSUME BackendsInit PROVE StoresTyped /\ ServicesTyped /\ DecisionsTyped
    OBVIOUS
  <1> USE ServicesAssumption DEF ServicesAssumption, BoundsAssumption
  <1>1. /\ Init /\ Breaker!Init /\ Queues!Init /\ Partition!Init /\ Memory!Init /\ Egress!Init
        /\ Executor!ExecutorInit /\ Topology!TopologyInit /\ Safety!SafetyInit /\ Postgres!PostgresInit
        /\ Registries!RegistriesInit /\ Arch!ArchInit /\ Phases!PhaseInit
        /\ (focus = "boundary" => Boundary!BoundaryInit)
    BY DEF BackendsInit
  <1>2. BreakerInv /\ BreakerRest
    BY <1>1 DEF BreakerAssumption, Breaker!Init, BreakerInv, BreakerRest
  <1>3. QueuesInv /\ QueuesRest
    BY <1>1, QueuesStart DEF Queues!Init, QueuesRest
  <1>4. PartitionInv /\ PartitionRest
    BY <1>1, PartitionStart DEF Partition!Init, PartitionRest
  <1>5. MemoryInv /\ MemoryRest
    BY <1>1, MemoryStart DEF Memory!Init, MemoryRest
  <1>6. IInv /\ PostgresInv
    BY <1>1, InitIInv, PostgresStart
  <1>7. focus = "boundary" => BoundaryInv /\ BoundaryRest
    <2>1. Boundary!BoundaryInit => BoundaryInv
      BY BoundaryStart
    <2>2. Boundary!BoundaryInit => BoundaryRest
      BY DEF Boundary!BoundaryInit, BoundaryRest
    <2> QED
      BY <1>1, <2>1, <2>2
  <1>8. EgressInv /\ EgressRest
    BY <1>1, EgressStart DEF Egress!Init, EgressRest
  <1>9. ExecutorInv /\ ArchInv
    BY <1>1, ExecutorStart, ArchStart DEF ExecutorAssumption
  <1>10. TopologyInv /\ TopologyRest
    BY <1>1 DEF Topology!TopologyInit, TopologyInv, TopologyRest
  <1>11. RegistriesInv /\ RegistriesRest
    BY <1>1 DEF Registries!RegistriesInit, RegistriesInv, RegistriesRest, Reading, RegistriesAssumption
  <1>12. PhaseInv
    BY <1>1 DEF Phases!PhaseInit, PhaseInv, PhaseTypes, WalkInv, Phases!Ids, Phases!ToSet
  <1>13. PhaseRest
    <2>1. Phases!Ids = {} /\ Len(goals) = 0
      BY <1>1 DEF Phases!PhaseInit, Phases!Ids, Phases!ToSet
    <2> QED
      BY <1>1, <2>1, FS_EmptySet DEF Phases!PhaseInit, PhaseRest
  <1>14. ArgumentInv /\ SafetyRest
    BY <1>1 DEF Safety!SafetyInit, ArgumentInv, SafetyRest
  <1>15. Governed!GovernanceTypeOK
    <2>1. CASE focus = "governance"
      <3>1. PICK tuple \in Tuples :
               forbidden_paths = IF tuple = <<>> THEN Governed!CANONICAL_FORBIDDEN_PATHS ELSE Governed!First(tuple)
        BY <2>1 DEF BackendsInit, Governed!GovernanceInit
      <3>2. Governed!First(tuple) \subseteq Governed!ToSet(tuple)
        BY DEF Governed!First, Governed!ToSet
      <3>3. governance_rules = {} /\ code_reviewers = <<>> /\ accepted = {}
        BY <2>1 DEF BackendsInit, Governed!GovernanceInit
      <3> QED
        BY <3>1, <3>2, <3>3 DEF Governed!GovernanceTypeOK
    <2>2. CASE focus # "governance"
      BY <2>2 DEF BackendsInit, Governed!GovernanceTypeOK
    <2> QED
      BY <2>1, <2>2
  <1> QED
    BY <1>2, <1>3, <1>4, <1>5, <1>6, <1>7, <1>8, <1>9, <1>10, <1>11, <1>12, <1>13, <1>14, <1>15
    DEF StoresTyped, ServicesTyped, DecisionsTyped

\* Every step of a service leaves all well typed.
LEMMA AllStayTyped ==
    StoresTyped /\ ServicesTyped /\ DecisionsTyped /\ [BackendsNext]_allVars =>
       (StoresTyped /\ ServicesTyped /\ DecisionsTyped)'
  <1> SUFFICES ASSUME StoresTyped, ServicesTyped, DecisionsTyped, [BackendsNext]_allVars
               PROVE  StoresTyped' /\ ServicesTyped' /\ DecisionsTyped'
    OBVIOUS
  <1> USE ServicesAssumption DEF ServicesAssumption, BoundsAssumption
  <1>1. /\ focus' = focus
        /\ [Breaker!Next]_(Breaker!breakerVars) /\ [Queues!Next]_(Queues!queueVars)
        /\ [Partition!Next]_(Partition!partitionVars) /\ [Memory!Next]_(Memory!memoryVars)
        /\ [Egress!Next]_(Egress!egressVars) /\ [Executor!ExecutorNext]_executorState
        /\ [Topology!TopologyNext]_(Topology!topologyVars) /\ [Safety!SafetyNext]_(Safety!safetyVars)
        /\ [Governed!GovernanceNext]_governanceState /\ [Postgres!PostgresNext]_(Postgres!postgresVars)
        /\ [Registries!RegistriesNext]_registriesState /\ [Boundary!BoundaryNext]_(Boundary!boundaryVars)
        /\ [Arch!ArchNext]_archState /\ [Phases!PhaseNext]_(Phases!phaseVars)
    BY OneServiceMoves
  <1>2. IInv'
    <2>1. [Next]_vars
      BY DEF BackendsNext, Rest, allVars
    <2> QED
      BY <2>1, CountsStep, TypeStep DEF StoresTyped, IInv
  <1>3. BreakerInv' /\ BreakerRest'
    BY <1>1, BreakerStep, BreakerRestStep DEF StoresTyped
  <1>4. QueuesInv' /\ QueuesRest'
    BY <1>1, QueuesStep, QueuesRestStep DEF StoresTyped
  <1>5. PartitionInv' /\ PartitionRest'
    BY <1>1, PartitionStep, PartitionRestStep DEF StoresTyped
  <1>6. MemoryInv' /\ MemoryRest'
    BY <1>1, MemoryStep, MemoryRestStep DEF StoresTyped
  <1>7. PostgresInv'
    BY <1>1, PostgresStep DEF StoresTyped
  <1>8. (focus = "boundary" => BoundaryInv /\ BoundaryRest)'
    BY <1>1, BoundaryStep, BoundaryRestStep DEF StoresTyped
  <1>9. EgressInv' /\ EgressRest'
    BY <1>1, EgressStep, EgressRestStep DEF ServicesTyped
  <1>10. ExecutorInv' /\ ArchInv'
    BY <1>1, ExecutorStep, ArchStep DEF ServicesTyped, ExecutorAssumption
  <1>11. TopologyInv' /\ TopologyRest'
    BY <1>1, TopologyStep, TopologyRestStep DEF ServicesTyped
  <1>12. RegistriesInv' /\ RegistriesRest'
    BY <1>1, RegistriesStep, RegistriesRestStep DEF ServicesTyped
  <1>13. PhaseInv' /\ PhaseRest'
    BY <1>1, PhaseStep, PhaseRestStep DEF DecisionsTyped
  <1>14. ArgumentInv' /\ SafetyRest'
    BY <1>1, ArgumentStep, SafetyRestStep DEF DecisionsTyped
  <1>15. Governed!GovernanceTypeOK'
    <2> USE DEF Governed!GovernanceTypeOK
    <2>1. Governed!GovernanceTypeOK
      BY DEF DecisionsTyped
    <2>2. CASE UNCHANGED governanceState
      BY <2>1, <2>2 DEF governanceState
    <2>3. ASSUME NEW p \in Paths, Governed!register_forbidden_path(p) PROVE Governed!GovernanceTypeOK'
      BY <2>1, <2>3 DEF Governed!register_forbidden_path
    <2>4. ASSUME NEW r \in Rules, Governed!register_governance_rule(r) PROVE Governed!GovernanceTypeOK'
      BY <2>1, <2>4 DEF Governed!register_governance_rule
    <2>5. ASSUME NEW v \in Reviewers, Governed!register_code_reviewer(v) PROVE Governed!GovernanceTypeOK'
      BY <2>1, <2>5 DEF Governed!register_code_reviewer
    <2> QED
      BY <1>1, <2>2, <2>3, <2>4, <2>5 DEF Governed!GovernanceNext
  <1> QED
    BY <1>2, <1>3, <1>4, <1>5, <1>6, <1>7, <1>8, <1>9, <1>10, <1>11, <1>12, <1>13, <1>14, <1>15
    DEF StoresTyped, ServicesTyped, DecisionsTyped

\* Every service keeps its types, whichever a behaviour is about and whatever
\* the values of the constants.
THEOREM AllServicesTyped == BackendsSpec => []ServicesTypeOK
  <1>1. StoresTyped => /\ TypeOK /\ Breaker!TypeOK /\ Queues!TypeOK /\ Partition!TypeOK /\ Memory!TypeOK
                       /\ Postgres!PostgresTypeOK /\ (focus = "boundary" => Boundary!BoundaryTypeOK)
    <2> SUFFICES ASSUME StoresTyped
                 PROVE  /\ TypeOK /\ Breaker!TypeOK /\ Queues!TypeOK /\ Partition!TypeOK /\ Memory!TypeOK
                        /\ Postgres!PostgresTypeOK /\ (focus = "boundary" => Boundary!BoundaryTypeOK)
      OBVIOUS
    <2> USE DEF StoresTyped
    <2>1. TypeOK /\ Postgres!PostgresTypeOK
      BY DEF IInv, PostgresInv
    <2>2. Breaker!TypeOK
      BY DEF BreakerInv, BreakerRest, Breaker!TypeOK
    <2>3. Queues!TypeOK
      BY DEF QueuesInv, QueuesRest, Queues!TypeOK
    <2>4. Partition!TypeOK
      BY DEF PartitionInv, PartitionTypes, PartitionRest, Partition!TypeOK, Partition!Workers, Workers
    <2>5. Memory!TypeOK
      <3>1. Memory!ToSet(Memory!Tiers) = {"SHORT", "MEDIUM", "LONG"}
        BY DEF Memory!ToSet, Memory!Tiers
      <3> QED
        BY <3>1 DEF MemoryInv, MemoryTypes, MemoryRest, CallRecords, Memory!TypeOK
    <2>6. focus = "boundary" => Boundary!BoundaryTypeOK
      <3> SUFFICES ASSUME focus = "boundary" PROVE Boundary!BoundaryTypeOK
        OBVIOUS
      <3>1. MigrationsInv /\ BoundaryRest /\ Len(Boundary!run_migrations) \in Nat
        BY InForce, ServicesAssumption DEF BoundaryInv, MigrationsInv, ServicesAssumption
      <3>2. next \in [Migrators -> 0 .. Len(Boundary!run_migrations)]
        BY <3>1 DEF MigrationsInv
      <3> QED
        BY <3>1, <3>2 DEF MigrationsInv, BoundaryRest, Row, Policies, Boundary!BoundaryTypeOK
    <2> QED
      BY <2>1, <2>2, <2>3, <2>4, <2>5, <2>6
  <1>2. ServicesTyped => /\ Egress!TypeOK /\ Executor!ExecutorTypeOK /\ Topology!TopologyTypeOK
                         /\ Registries!RegistriesTypeOK /\ Arch!ArchTypeOK
    <2> SUFFICES ASSUME ServicesTyped
                 PROVE  /\ Egress!TypeOK /\ Executor!ExecutorTypeOK /\ Topology!TopologyTypeOK
                        /\ Registries!RegistriesTypeOK /\ Arch!ArchTypeOK
      OBVIOUS
    <2> USE DEF ServicesTyped
    <2>1. Egress!TypeOK
      BY DEF EgressInv, EgressRest, Egress!TypeOK
    <2>2. Executor!ExecutorTypeOK /\ Arch!ArchTypeOK
      BY DEF ExecutorInv, ArchInv
    <2>3. Topology!TopologyTypeOK
      <3>1. ASSUME NEW id \in DOMAIN topologies
            PROVE  /\ DOMAIN topologies[id].agents \subseteq Agents
                   /\ \A a \in DOMAIN topologies[id].agents : topologies[id].agents[a] \subseteq Contracts
                   /\ topologies[id].goals \in Assigned /\ topologies[id].active \in BOOLEAN
        BY DEF TopologyInv, Sound, Topologies, Holdings
      <3> QED
        BY <3>1 DEF TopologyRest, Topology!TopologyTypeOK, Assigned
    <2>4. Registries!RegistriesTypeOK
      BY DEF RegistriesInv, RegistriesRest, Registries!RegistriesTypeOK
    <2> QED
      BY <2>1, <2>2, <2>3, <2>4
  <1>3. DecisionsTyped => Phases!PhaseTypeOK /\ Safety!SafetyTypeOK /\ Governed!GovernanceTypeOK
    <2> SUFFICES ASSUME DecisionsTyped
                 PROVE  Phases!PhaseTypeOK /\ Safety!SafetyTypeOK /\ Governed!GovernanceTypeOK
      OBVIOUS
    <2> USE DEF DecisionsTyped
    <2>1. Phases!PhaseTypeOK
      <3>1. Phases!Ids \subseteq PhaseGoals
        BY DEF PhaseInv, PhaseTypes, Phases!Ids, Phases!ToSet
      <3>2. Phases!Cardinality(Phases!Ids) = Cardinality(Phases!Ids)
        BY DEF Phases!Cardinality, Cardinality
      <3> QED
        BY <3>1, <3>2 DEF PhaseInv, PhaseTypes, PhaseRest, Phases!PhaseTypeOK
    <2>2. Safety!SafetyTypeOK
      <3>1. \A id \in DOMAIN claims : claims[id].status \in {"PENDING", "PROVEN", "ASSUMED"}
        BY DEF ArgumentInv
      <3> QED
        BY <3>1 DEF ArgumentInv, SafetyRest, Safety!SafetyTypeOK
    <2> QED
      BY <2>1, <2>2
  <1> QED
    BY <1>1, <1>2, <1>3, AllStartTyped, AllStayTyped, PTL DEF BackendsSpec, ServicesTypeOK
=============================================================================
