------------------------- MODULE KernelContextProofs -------------------------
(***************************************************************************)
(* Proofs about KernelContext, and DissimilarSM beside it, for every set   *)
(* of tasks and contexts and every number of gates.  The safety properties *)
(* are inductive together with two facts: a task that raises does so in an *)
(* ACTIVE block, and a context that is ENTERING has a gate outstanding.    *)
(***************************************************************************)
EXTENDS DissimilarSM, SequenceTheorems, TLAPS

RaisingInActive ==
    \A t \in Tasks : raising[t] /\ InBlock(t) => state[Innermost(t)] = "ACTIVE"

GateOutstanding == \A c \in Contexts : state[c] = "ENTERING" => passed[c] < Gates[c]

IInv ==
    /\ TypeOK
    /\ UsedOnce
    /\ IdleWhenLeft
    /\ OperationsAreGated
    /\ RaisingInActive
    /\ GateOutstanding

-----------------------------------------------------------------------------

\* A context entered is the new last element; the others keep their place.
LEMMA Pushed ==
    ASSUME NEW s \in Seq(Contexts), NEW c \in Contexts
    PROVE  /\ Append(s, c) \in Seq(Contexts)
           /\ Len(Append(s, c)) = Len(s) + 1
           /\ Append(s, c)[Len(s) + 1] = c
           /\ \A i \in 1..Len(s) : Append(s, c)[i] = s[i]
  BY AppendProperties

\* A block left takes the last element away; the others keep their place.
LEMMA Popped ==
    ASSUME NEW s \in Seq(Contexts), s # <<>>
    PROVE  /\ SubSeq(s, 1, Len(s) - 1) \in Seq(Contexts)
           /\ Len(SubSeq(s, 1, Len(s) - 1)) = Len(s) - 1
           /\ \A i \in 1..(Len(s) - 1) : SubSeq(s, 1, Len(s) - 1)[i] = s[i]
           /\ Len(s) \in Nat \ {0}
  <1>1. Len(s) \in Nat \ {0}
    BY EmptySeq, LenProperties
  <1>2. PICK n \in Nat : Len(s) = n + 1 /\ Len(s) - 1 = n
    BY <1>1
  <1>3. \A i \in 1..n : s[i] \in Contexts
    BY <1>2, ElementOfSeq
  <1>4. /\ SubSeq(s, 1, n) \in Seq(Contexts)
        /\ Len(SubSeq(s, 1, n)) = IF 1 <= n THEN n - 1 + 1 ELSE 0
        /\ \A i \in 1..(n - 1 + 1) : SubSeq(s, 1, n)[i] = s[1 + i - 1]
    BY <1>3, SubSeqProperties
  <1> DEFINE o == SubSeq(s, 1, n)
  <1>5. o \in Seq(Contexts) /\ Len(o) = n /\ \A i \in 1..n : o[i] = s[i]
    <2> HIDE DEF o
    <2> QED
      BY <1>4 DEF o
  <1> QED
    BY <1>1, <1>2, <1>5

\* The context of the innermost block, and its place.
LEMMA InnermostPlace ==
    ASSUME TypeOK, NEW t \in Tasks, InBlock(t)
    PROVE  /\ Len(stack[t]) \in Nat \ {0}
           /\ Len(stack[t]) \in 1..Len(stack[t])
           /\ Innermost(t) \in Contexts
           /\ stack[t] \in Seq(Contexts)
  BY EmptySeq, LenProperties, ElementOfSeq DEF TypeOK, InBlock, Innermost

\* A context has one place in one stack.
LEMMA OnePlace ==
    ASSUME UsedOnce, NEW t \in Tasks, NEW u \in Tasks,
           NEW n \in 1..Len(stack[t]), NEW i \in 1..Len(stack[u]),
           stack[u][i] = stack[t][n]
    PROVE  u = t /\ i = n
  BY DEF UsedOnce

\* No context is in use at first.
THEOREM InitInvariant == Init => IInv
  <1> SUFFICES ASSUME Init PROVE IInv
    OBVIOUS
  <1>1. TypeOK
    BY GatesAssumption DEF Init, TypeOK, KernelState
  <1>2. \A t \in Tasks : Len(stack[t]) = 0
    BY DEF Init
  <1> QED
    BY <1>1, <1>2 DEF Init, IInv, UsedOnce, IdleWhenLeft, OperationsAreGated,
       RaisingInActive, GateOutstanding, InBlock
-----------------------------------------------------------------------------

\* Steps that leave the innermost block of t: the context goes back to IDLE.
LEMMA LeftBlock ==
    ASSUME IInv, NEW t \in Tasks, InBlock(t),
           state' = [state EXCEPT ![Innermost(t)] = "IDLE"],
           stack' = [stack EXCEPT ![t] = Outer(t)],
           passed' = passed,
           raising' \in [Tasks -> BOOLEAN],
           \A u \in Tasks : u # t => raising'[u] = raising[u]
    PROVE  IInv'
  <1> DEFINE c == Innermost(t)
             n == Len(stack[t])
  <1>1. /\ n \in Nat \ {0} /\ n \in 1..n /\ c \in Contexts /\ stack[t] \in Seq(Contexts)
        /\ c = stack[t][n]
    BY InnermostPlace DEF IInv, Innermost
  <1>2. /\ stack'[t] \in Seq(Contexts) /\ Len(stack'[t]) = n - 1
        /\ \A i \in 1..(n - 1) : stack'[t][i] = stack[t][i]
        /\ \A u \in Tasks : u # t => stack'[u] = stack[u]
    BY <1>1, Popped DEF IInv, TypeOK, Outer, InBlock
  <1>3. /\ state'[c] = "IDLE"
        /\ \A x \in Contexts : x # c => state'[x] = state[x]
    BY <1>1 DEF IInv, TypeOK
  <1>4. \A u \in Tasks : \A i \in 1..Len(stack'[u]) :
           i \in 1..Len(stack[u]) /\ stack'[u][i] = stack[u][i] /\ stack[u][i] # c
    <2> SUFFICES ASSUME NEW u \in Tasks, NEW i \in 1..Len(stack'[u])
                 PROVE  i \in 1..Len(stack[u]) /\ stack'[u][i] = stack[u][i] /\ stack[u][i] # c
      OBVIOUS
    <2>1. CASE u = t
      BY <1>1, <1>2, <2>1 DEF IInv, UsedOnce
    <2>2. CASE u # t
      BY <1>1, <1>2, <2>2 DEF IInv, UsedOnce
    <2> QED
      BY <2>1, <2>2
  <1>5. TypeOK'
    BY <1>1, <1>2 DEF IInv, TypeOK, KernelState
  <1>6. UsedOnce'
    BY <1>4 DEF IInv, UsedOnce
  <1>7. IdleWhenLeft'
    <2>1. ASSUME NEW x \in Contexts, state'[x] # "IDLE"
          PROVE  \E u \in Tasks : \E i \in 1..Len(stack'[u]) : stack'[u][i] = x
      <3>1. x # c /\ state[x] # "IDLE"
        BY <1>3, <2>1
      <3>2. PICK u \in Tasks : \E i \in 1..Len(stack[u]) : stack[u][i] = x
        BY <3>1 DEF IInv, IdleWhenLeft
      <3>3. PICK i \in 1..Len(stack[u]) : stack[u][i] = x
        BY <3>2
      <3>4. i \in 1..Len(stack'[u]) /\ stack'[u][i] = x
        BY <1>1, <1>2, <3>1, <3>3
      <3> QED
        BY <3>4
    <2>2. ASSUME NEW x \in Contexts, NEW u \in Tasks, NEW i \in 1..Len(stack'[u]),
                 stack'[u][i] = x
          PROVE  state'[x] # "IDLE"
      BY <1>3, <1>4, <2>2 DEF IInv, IdleWhenLeft
    <2>3. \A x \in Contexts : state'[x] # "FAULTED"
      BY <1>3 DEF IInv, IdleWhenLeft
    <2> QED
      BY <2>1, <2>2, <2>3 DEF IdleWhenLeft
  <1>8. OperationsAreGated'
    <2>1. \A x \in Contexts : state'[x] \in {"ACTIVE", "EXITING"} => passed'[x] = Gates[x]
      BY <1>3 DEF IInv, OperationsAreGated
    <2>2. ASSUME NEW u \in Tasks, NEW i \in 1..(Len(stack'[u]) - 1)
          PROVE  state'[stack'[u][i]] = "ACTIVE"
      <3>1. /\ Len(stack'[u]) \in Nat /\ Len(stack[u]) \in Nat
            /\ Len(stack'[u]) <= Len(stack[u])
        BY <1>1, <1>2, <1>5, LenProperties DEF IInv, TypeOK
      <3>2. i \in 1..Len(stack'[u]) /\ i \in 1..(Len(stack[u]) - 1)
        BY <3>1
      <3>3. stack[u][i] \in Contexts
        BY <3>1, <3>2, ElementOfSeq DEF IInv, TypeOK
      <3> QED
        BY <1>3, <1>4, <3>2, <3>3 DEF IInv, OperationsAreGated
    <2> QED
      BY <2>1, <2>2 DEF OperationsAreGated
  <1>9. RaisingInActive'
    <2> SUFFICES ASSUME NEW u \in Tasks, raising'[u], InBlock(u)'
                 PROVE  state'[Innermost(u)'] = "ACTIVE"
      BY DEF RaisingInActive
    <2>0. TypeOK' /\ InBlock(u)' =>
             /\ Len(stack'[u]) \in Nat \ {0} /\ Len(stack'[u]) \in 1..Len(stack'[u])
             /\ Innermost(u)' = stack'[u][Len(stack'[u])]
             /\ stack'[u] \in Seq(Contexts)
      BY EmptySeq, LenProperties DEF TypeOK, InBlock, Innermost
    <2>1. CASE u = t
      <3>1. Len(stack'[u]) = n - 1 /\ n - 1 \in 1..(n - 1)
        BY <1>2, <1>5, <2>0, <2>1
      <3>2. /\ Innermost(u)' = stack[t][n - 1] /\ stack[t][n - 1] # c
            /\ stack[t][n - 1] \in Contexts
        BY <1>1, <1>2, <1>4, <1>5, <2>0, <2>1, <3>1, ElementOfSeq
      <3>3. state[stack[t][n - 1]] = "ACTIVE"
        BY <3>1 DEF IInv, OperationsAreGated
      <3> QED
        BY <1>3, <3>2, <3>3
    <2>2. CASE u # t
      <3>1. InBlock(u) /\ Innermost(u)' = Innermost(u) /\ Innermost(u) # c
        BY <1>2, <1>4, <1>5, <2>0, <2>2 DEF InBlock, Innermost
      <3>2. Innermost(u) \in Contexts /\ state[Innermost(u)] = "ACTIVE"
        BY <2>2, <3>1, InnermostPlace DEF IInv, RaisingInActive
      <3> QED
        BY <1>3, <3>1, <3>2
    <2> QED
      BY <2>1, <2>2
  <1>10. GateOutstanding'
    BY <1>3 DEF IInv, GateOutstanding
  <1> QED
    BY <1>5, <1>6, <1>7, <1>8, <1>9, <1>10 DEF IInv

\* The step that enters c, with or without gates to pass.
LEMMA EnteredBlock ==
    ASSUME IInv, NEW t \in Tasks, NEW c \in Contexts, NEW new \in {"ENTERING", "ACTIVE"},
           ~raising[t], InBlock(t) => state[Innermost(t)] = "ACTIVE",
           state[c] = "IDLE",
           new = "ACTIVE" => Gates[c] = 0,
           new = "ENTERING" => 0 < Gates[c],
           state' = [state EXCEPT ![c] = new],
           passed' = [passed EXCEPT ![c] = 0],
           stack' = [stack EXCEPT ![t] = Append(stack[t], c)],
           raising' = raising
    PROVE  IInv'
  <1> DEFINE n == Len(stack[t])
  <1>1. n \in Nat /\ stack[t] \in Seq(Contexts)
    BY LenProperties DEF IInv, TypeOK
  <1>2. /\ stack'[t] \in Seq(Contexts) /\ Len(stack'[t]) = n + 1
        /\ stack'[t][n + 1] = c
        /\ \A i \in 1..n : stack'[t][i] = stack[t][i]
        /\ \A u \in Tasks : u # t => stack'[u] = stack[u]
    BY <1>1, Pushed DEF IInv, TypeOK
  <1>3. /\ state'[c] = new /\ passed'[c] = 0
        /\ \A x \in Contexts : x # c => state'[x] = state[x] /\ passed'[x] = passed[x]
    BY DEF IInv, TypeOK
  <1>4. \A u \in Tasks : \A i \in 1..Len(stack[u]) : stack[u][i] # c
    BY DEF IInv, IdleWhenLeft
  <1>5. \A u \in Tasks : \A i \in 1..Len(stack'[u]) :
           \/ (i \in 1..Len(stack[u]) /\ stack'[u][i] = stack[u][i])
           \/ (u = t /\ i = n + 1 /\ stack'[u][i] = c)
    BY <1>1, <1>2
  <1>6. TypeOK'
    <2>1. state' \in [Contexts -> KernelState]
      BY DEF IInv, TypeOK, KernelState
    <2>2. passed' \in [Contexts -> Nat] /\ \A x \in Contexts : passed'[x] <= Gates[x]
      <3>1. \A x \in Contexts : Gates[x] \in Nat
        BY GatesAssumption
      <3>2. \A x \in Contexts : passed'[x] \in Nat /\ passed'[x] <= Gates[x]
        BY <1>3, <3>1 DEF IInv, TypeOK
      <3> QED
        BY <3>2 DEF IInv, TypeOK
    <2>3. stack' \in [Tasks -> Seq(Contexts)]
      BY <1>2 DEF IInv, TypeOK
    <2> QED
      BY <2>1, <2>2, <2>3 DEF IInv, TypeOK
  <1>7. UsedOnce'
    <2> SUFFICES ASSUME NEW u \in Tasks, NEW v \in Tasks,
                        NEW i \in 1..Len(stack'[u]), NEW j \in 1..Len(stack'[v]),
                        stack'[u][i] = stack'[v][j]
                 PROVE  u = v /\ i = j
      BY DEF UsedOnce
    <2> QED
      BY <1>4, <1>5 DEF IInv, UsedOnce
  <1>8. IdleWhenLeft'
    <2>1. ASSUME NEW x \in Contexts, state'[x] # "IDLE"
          PROVE  \E u \in Tasks : \E i \in 1..Len(stack'[u]) : stack'[u][i] = x
      <3>1. CASE x = c
        BY <1>1, <1>2, <3>1
      <3>2. CASE x # c
        <4>1. PICK u \in Tasks : \E i \in 1..Len(stack[u]) : stack[u][i] = x
          BY <1>3, <2>1, <3>2 DEF IInv, IdleWhenLeft
        <4>2. PICK i \in 1..Len(stack[u]) : stack[u][i] = x
          BY <4>1
        <4>3. i \in 1..Len(stack'[u]) /\ stack'[u][i] = x
          BY <1>1, <1>2, <4>2
        <4> QED
          BY <4>3
      <3> QED
        BY <3>1, <3>2
    <2>2. ASSUME NEW x \in Contexts, NEW u \in Tasks, NEW i \in 1..Len(stack'[u]),
                 stack'[u][i] = x
          PROVE  state'[x] # "IDLE"
      BY <1>3, <1>4, <1>5, <2>2 DEF IInv, IdleWhenLeft
    <2>3. \A x \in Contexts : state'[x] # "FAULTED"
      BY <1>3 DEF IInv, IdleWhenLeft
    <2> QED
      BY <2>1, <2>2, <2>3 DEF IdleWhenLeft
  <1>9. OperationsAreGated'
    <2>1. \A x \in Contexts : state'[x] \in {"ACTIVE", "EXITING"} => passed'[x] = Gates[x]
      BY <1>3 DEF IInv, OperationsAreGated
    <2>2. ASSUME NEW u \in Tasks, NEW i \in 1..(Len(stack'[u]) - 1)
          PROVE  state'[stack'[u][i]] = "ACTIVE"
      <3>1. Len(stack[u]) \in Nat /\ stack[u] \in Seq(Contexts)
        BY LenProperties DEF IInv, TypeOK
      <3>2. /\ i \in 1..Len(stack[u]) /\ stack'[u][i] = stack[u][i]
            /\ i \in 1..(Len(stack[u]) - 1) \/ (u = t /\ i = n)
        <4>1. CASE u = t
          <5>1. Len(stack'[u]) - 1 = n
            BY <1>1, <1>2, <4>1
          <5> QED
            BY <1>1, <1>2, <4>1, <5>1
        <4>2. CASE u # t
          BY <1>2, <3>1, <4>2
        <4> QED
          BY <4>1, <4>2
      <3>3. stack[u][i] \in Contexts /\ stack[u][i] # c
        BY <1>4, <3>1, <3>2, ElementOfSeq
      <3>4. state[stack[u][i]] = "ACTIVE"
        BY <3>2 DEF IInv, OperationsAreGated, InBlock, Innermost
      <3> QED
        BY <1>3, <3>2, <3>3, <3>4
    <2> QED
      BY <2>1, <2>2 DEF OperationsAreGated
  <1>10. RaisingInActive'
    <2> SUFFICES ASSUME NEW u \in Tasks, raising[u], InBlock(u)'
                 PROVE  state'[Innermost(u)'] = "ACTIVE"
      BY DEF RaisingInActive
    <2>1. u # t /\ InBlock(u) /\ Innermost(u)' = Innermost(u)
      BY <1>2 DEF InBlock, Innermost
    <2>2. Innermost(u) \in Contexts /\ Innermost(u) # c /\ state[Innermost(u)] = "ACTIVE"
      BY <2>1, InnermostPlace DEF IInv, RaisingInActive
    <2> QED
      BY <1>3, <2>1, <2>2
  <1>11. GateOutstanding'
    BY <1>3 DEF IInv, GateOutstanding
  <1> QED
    BY <1>6, <1>7, <1>8, <1>9, <1>10, <1>11 DEF IInv

\* Steps within the innermost block of t: a gate passes, the body completes.
LEMMA WithinBlock ==
    ASSUME IInv, NEW t \in Tasks, InBlock(t), ~raising[t],
           NEW new \in {"ENTERING", "ACTIVE", "EXITING"},
           state' = [state EXCEPT ![Innermost(t)] = new],
           stack' = stack, raising' = raising,
           passed' \in [Contexts -> Nat],
           \A x \in Contexts : x # Innermost(t) => passed'[x] = passed[x],
           new = "ENTERING" => passed'[Innermost(t)] < Gates[Innermost(t)],
           new # "ENTERING" => passed'[Innermost(t)] = Gates[Innermost(t)]
    PROVE  IInv'
  <1> DEFINE c == Innermost(t)
             n == Len(stack[t])
  <1>1. /\ n \in Nat \ {0} /\ n \in 1..n /\ c \in Contexts /\ stack[t] \in Seq(Contexts)
        /\ c = stack[t][n]
    BY InnermostPlace DEF IInv, Innermost
  <1>2. state'[c] = new /\ \A x \in Contexts : x # c => state'[x] = state[x]
    BY <1>1 DEF IInv, TypeOK
  <1>3. TypeOK'
    <2>1. \A x \in Contexts : passed'[x] <= Gates[x]
      <3>1. \A x \in Contexts : Gates[x] \in Nat /\ passed'[x] \in Nat
        BY GatesAssumption
      <3>2. passed'[c] <= Gates[c]
        BY <1>1, <3>1
      <3> QED
        BY <3>1, <3>2 DEF IInv, TypeOK
    <2> QED
      BY <2>1, <1>1 DEF IInv, TypeOK, KernelState
  <1>4. UsedOnce'
    BY DEF IInv, UsedOnce
  <1>5. IdleWhenLeft'
    BY <1>1, <1>2 DEF IInv, IdleWhenLeft
  <1>6. OperationsAreGated'
    <2>1. \A x \in Contexts : state'[x] \in {"ACTIVE", "EXITING"} => passed'[x] = Gates[x]
      BY <1>2 DEF IInv, OperationsAreGated
    <2>2. ASSUME NEW u \in Tasks, NEW i \in 1..(Len(stack[u]) - 1)
          PROVE  state'[stack[u][i]] = "ACTIVE"
      <3>1. Len(stack[u]) \in Nat /\ stack[u] \in Seq(Contexts)
        BY LenProperties DEF IInv, TypeOK
      <3>2. i \in 1..Len(stack[u]) /\ stack[u][i] \in Contexts
        BY <3>1, ElementOfSeq
      <3>3. stack[u][i] # c
        <4>0. UsedOnce
          BY DEF IInv
        <4>1. stack[u][i] = stack[t][n] => u = t /\ i = n
          BY SMTT(30), <4>0, <1>1, <3>2, OnePlace
        <4>2. u = t => i # n
          BY <3>1
        <4> QED
          BY <1>1, <4>1, <4>2
      <3> QED
        BY <1>2, <3>2, <3>3 DEF IInv, OperationsAreGated
    <2> QED
      BY <2>1, <2>2 DEF OperationsAreGated
  <1>7. RaisingInActive'
    <2> SUFFICES ASSUME NEW u \in Tasks, raising[u], InBlock(u)
                 PROVE  state'[Innermost(u)] = "ACTIVE"
      BY DEF RaisingInActive, InBlock, Innermost
    <2>1. Len(stack[u]) \in 1..Len(stack[u]) /\ Innermost(u) \in Contexts
      BY InnermostPlace DEF IInv
    <2>2. Innermost(u) # c
      BY SMTT(30), <1>1, <2>1 DEF IInv, UsedOnce, Innermost
    <2> QED
      BY <1>2, <2>1, <2>2 DEF IInv, RaisingInActive
  <1>8. GateOutstanding'
    BY <1>2 DEF IInv, GateOutstanding
  <1> QED
    BY <1>3, <1>4, <1>5, <1>6, <1>7, <1>8 DEF IInv

\* Steps that only raise or handle an exception.
LEMMA OnlyRaising ==
    ASSUME IInv, NEW t \in Tasks, NEW flag \in BOOLEAN,
           flag /\ InBlock(t) => state[Innermost(t)] = "ACTIVE",
           state' = state, passed' = passed, stack' = stack,
           raising' = [raising EXCEPT ![t] = flag]
    PROVE  IInv'
  <1>1. TypeOK'
    BY DEF IInv, TypeOK
  <1>2. UsedOnce' /\ IdleWhenLeft' /\ OperationsAreGated' /\ GateOutstanding'
    BY DEF IInv, UsedOnce, IdleWhenLeft, OperationsAreGated, GateOutstanding
  <1>3. RaisingInActive'
    BY DEF IInv, TypeOK, RaisingInActive, InBlock, Innermost
  <1> QED
    BY <1>1, <1>2, <1>3 DEF IInv

-----------------------------------------------------------------------------

\* The four ways to leave a block end in IDLE from the states they leave.
LEMMA FaultsAreConsumed ==
    /\ Advance(Advance("ENTERING", "GATE_FAIL"), "EXC_CONSUMED") = "IDLE"
    /\ Advance(Advance("ACTIVE", "ASYNC_CANCEL"), "EXC_CONSUMED") = "IDLE"
    /\ Advance(Advance("EXITING", "EXIT_FAIL"), "EXC_CONSUMED") = "IDLE"
    /\ Advance("EXITING", "EXIT_OK") = "IDLE"
  BY DEF Advance, Accepts, EventTransition

\* Every step of every task keeps the inductive invariant.
LEMMA StepInvariant == IInv /\ [Next]_vars => IInv'
  <1> SUFFICES ASSUME IInv, [Next]_vars PROVE IInv'
    OBVIOUS
  <1>1. CASE UNCHANGED vars
    BY <1>1 DEF vars, IInv, TypeOK, UsedOnce, IdleWhenLeft, OperationsAreGated,
       RaisingInActive, GateOutstanding, InBlock, Innermost
  <1>2. ASSUME NEW t \in Tasks, NEW c \in Contexts, Enter(t, c)
        PROVE  IInv'
    <2>1. state[c] = "IDLE"
      BY <1>2 DEF Enter, Accepts, EventTransition
    <2>2. Gates[c] \in Nat
      BY GatesAssumption
    <2> DEFINE new == IF 0 = Gates[c] THEN "ACTIVE" ELSE "ENTERING"
    <2>3. AfterGates(c, 0, Advance("IDLE", "AENTER")) = new
      BY DEF AfterGates, AllPassed, Advance, Accepts, EventTransition
    <2>4. state' = [state EXCEPT ![c] = new]
      BY <1>2, <2>1, <2>3 DEF Enter
    <2>5. /\ ~raising[t] /\ (InBlock(t) => state[Innermost(t)] = "ACTIVE")
          /\ passed' = [passed EXCEPT ![c] = 0]
          /\ stack' = [stack EXCEPT ![t] = Append(stack[t], c)]
          /\ raising' = raising
      BY <1>2 DEF Enter, Runs
    <2>6. /\ new \in {"ENTERING", "ACTIVE"}
          /\ new = "ACTIVE" => Gates[c] = 0
          /\ new = "ENTERING" => 0 < Gates[c]
      BY <2>2
    <2> HIDE DEF new
    <2> QED
      BY <2>1, <2>4, <2>5, <2>6, EnteredBlock
  <1>3. ASSUME NEW t \in Tasks, NEW c \in Contexts, EnterRefused(t, c)
        PROVE  IInv'
    BY <1>3, OnlyRaising DEF EnterRefused, Runs
  <1>4. ASSUME NEW t \in Tasks, NEW c \in Contexts, OperationCompletes(t, c)
        PROVE  IInv'
    <2>1. InBlock(t) /\ ~raising[t] /\ Innermost(t) = c /\ state[c] = "ACTIVE"
      BY <1>4 DEF OperationCompletes, Runs
    <2>2. /\ state' = [state EXCEPT ![Innermost(t)] = "EXITING"]
          /\ stack' = stack /\ raising' = raising /\ passed' = passed
      BY <1>4, <2>1 DEF OperationCompletes, Advance, Accepts, EventTransition
    <2>3. passed[c] = Gates[c] /\ passed \in [Contexts -> Nat]
      BY <2>1 DEF IInv, OperationsAreGated, TypeOK
    <2> QED
      BY <2>1, <2>2, <2>3, WithinBlock
  <1>5. ASSUME NEW t \in Tasks, GatePasses(t)
        PROVE  IInv'
    <2> DEFINE c == Innermost(t)
    <2>1. InBlock(t) /\ state[c] = "ENTERING" /\ c \in Contexts
      BY <1>5, InnermostPlace DEF GatePasses, InGate, IInv
    <2>2. ~raising[t]
      BY <2>1 DEF IInv, RaisingInActive
    <2>3. passed[c] \in Nat /\ Gates[c] \in Nat /\ passed[c] < Gates[c]
      BY <2>1, GatesAssumption DEF IInv, TypeOK, GateOutstanding
    <2> DEFINE new == IF passed[c] + 1 = Gates[c] THEN "ACTIVE" ELSE "ENTERING"
    <2>4. AfterGates(c, passed[c] + 1, "ENTERING") = new
      BY DEF AfterGates, AllPassed, Advance, Accepts, EventTransition
    <2>5. state' = [state EXCEPT ![c] = new]
      BY <1>5, <2>1, <2>4 DEF GatePasses
    <2>6. /\ passed' = [passed EXCEPT ![c] = passed[c] + 1]
          /\ stack' = stack /\ raising' = raising
      BY <1>5 DEF GatePasses
    <2>7. /\ passed' \in [Contexts -> Nat] /\ passed'[c] = passed[c] + 1
          /\ \A x \in Contexts : x # c => passed'[x] = passed[x]
      BY <2>1, <2>3, <2>6 DEF IInv, TypeOK
    <2>8. /\ new \in {"ENTERING", "ACTIVE", "EXITING"}
          /\ new = "ENTERING" => passed'[c] < Gates[c]
          /\ new # "ENTERING" => passed'[c] = Gates[c]
      BY <2>3, <2>7
    <2> HIDE DEF new
    <2> QED
      BY <2>1, <2>2, <2>5, <2>6, <2>7, <2>8, WithinBlock
  <1>6. ASSUME NEW t \in Tasks, GateFails(t) \/ ExitRaising(t) \/ CleanupFails(t)
        PROVE  IInv'
    <2>1. /\ InBlock(t)
          /\ state' = [state EXCEPT ![Innermost(t)] = "IDLE"]
      <3>1. CASE GateFails(t)
        BY <3>1, FaultsAreConsumed DEF GateFails, InGate, LeaveRaising
      <3>2. CASE ExitRaising(t)
        BY <3>2, FaultsAreConsumed DEF ExitRaising, LeaveRaising, IInv, RaisingInActive
      <3>3. CASE CleanupFails(t)
        BY <3>3, FaultsAreConsumed DEF CleanupFails, InCleanup, LeaveRaising
      <3> QED
        BY <1>6, <3>1, <3>2, <3>3
    <2>2. /\ stack' = [stack EXCEPT ![t] = Outer(t)] /\ passed' = passed
          /\ raising' = [raising EXCEPT ![t] = TRUE]
      BY <1>6 DEF GateFails, ExitRaising, CleanupFails, LeaveRaising
    <2>3. /\ raising' \in [Tasks -> BOOLEAN]
          /\ \A u \in Tasks : u # t => raising'[u] = raising[u]
      BY <2>2 DEF IInv, TypeOK
    <2> QED
      BY <2>1, <2>2, <2>3, LeftBlock
  <1>7. ASSUME NEW t \in Tasks, BodyRaises(t)
        PROVE  IInv'
    BY <1>7, OnlyRaising DEF BodyRaises, Runs
  <1>8. ASSUME NEW t \in Tasks, Catch(t)
        PROVE  IInv'
    BY <1>8, OnlyRaising DEF Catch
  <1>9. ASSUME NEW t \in Tasks, CleanupSucceeds(t)
        PROVE  IInv'
    <2>1. /\ InBlock(t) /\ stack' = [stack EXCEPT ![t] = Outer(t)]
          /\ passed' = passed /\ raising' = raising
          /\ state' = [state EXCEPT ![Innermost(t)] = "IDLE"]
      BY <1>9, FaultsAreConsumed DEF CleanupSucceeds, InCleanup
    <2>2. raising' \in [Tasks -> BOOLEAN]
      BY <2>1 DEF IInv, TypeOK
    <2> QED
      BY <2>1, <2>2, LeftBlock
  <1> QED
    BY <1>1, <1>2, <1>3, <1>4, <1>5, <1>6, <1>7, <1>8, <1>9 DEF Next

\* Every reachable state satisfies the inductive invariant.
THEOREM Invariance == Spec => []IInv
  BY InitInvariant, StepInvariant, PTL DEF Spec

\* Every variable keeps its type, and no context passes more gates than it has.
THEOREM TypeCorrect == Spec => []TypeOK
  <1>1. IInv => TypeOK
    BY DEF IInv
  <1> QED
    BY <1>1, Invariance, PTL

\* No context is ever in use twice, whoever enters it and however it fails.
THEOREM ContextsUsedOnce == Spec => []UsedOnce
  <1>1. IInv => UsedOnce
    BY DEF IInv
  <1> QED
    BY <1>1, Invariance, PTL

\* A context is out of IDLE exactly while a task is in its block.
THEOREM ContextsIdleWhenLeft == Spec => []IdleWhenLeft
  <1>1. IInv => IdleWhenLeft
    BY DEF IInv
  <1> QED
    BY <1>1, Invariance, PTL

\* An operation runs only inside contexts whose gates all passed.
THEOREM OnlyGatedOperations == Spec => []OperationsAreGated
  <1>1. IInv => OperationsAreGated
    BY DEF IInv
  <1> QED
    BY <1>1, Invariance, PTL

\* A block is left without an exception only at the end of a normal exit.
LEMMA LeavingPropagates ==
    IInv /\ [Next]_vars =>
        [\A t \in Tasks :
            Len(stack'[t]) < Len(stack[t]) /\ ~raising'[t] =>
                state[Innermost(t)] = "EXITING"]_vars
  <1> SUFFICES ASSUME IInv, Next, NEW t \in Tasks,
                      Len(stack'[t]) < Len(stack[t]), ~raising'[t]
               PROVE  state[Innermost(t)] = "EXITING"
    BY DEF vars
  <1>1. Len(stack[t]) \in Nat /\ stack[t] \in Seq(Contexts) /\ stack \in [Tasks -> Seq(Contexts)]
    BY LenProperties DEF IInv, TypeOK
  <1>2. stack'[t] # stack[t]
    BY <1>1
  <1>3. \A c \in Contexts : ~Enter(t, c)
    <2> SUFFICES ASSUME NEW c \in Contexts, Enter(t, c) PROVE FALSE
      OBVIOUS
    <2>1. stack'[t] = Append(stack[t], c)
      BY <1>1 DEF Enter
    <2> QED
      BY <1>1, <2>1, Pushed
  <1>4. \A u \in Tasks : LeaveRaising(u, "GATE_FAIL") \/ LeaveRaising(u, "ASYNC_CANCEL")
           \/ LeaveRaising(u, "EXIT_FAIL") => u # t
    BY DEF LeaveRaising, IInv, TypeOK
  <1>5. PICK u \in Tasks :
           \/ \E c \in Contexts : Enter(u, c) \/ EnterRefused(u, c) \/ OperationCompletes(u, c)
           \/ GatePasses(u) \/ GateFails(u)
           \/ BodyRaises(u) \/ ExitRaising(u) \/ Catch(u)
           \/ CleanupSucceeds(u) \/ CleanupFails(u)
    BY DEF Next
  <1>6. u = t
    BY <1>1, <1>2, <1>5 DEF Enter, EnterRefused, OperationCompletes, GatePasses, GateFails,
       BodyRaises, ExitRaising, Catch, CleanupSucceeds, CleanupFails, LeaveRaising
  <1>7. CleanupSucceeds(t)
    BY <1>2, <1>3, <1>4, <1>5, <1>6 DEF EnterRefused, OperationCompletes, GatePasses,
       GateFails, BodyRaises, ExitRaising, Catch, CleanupFails
  <1> QED
    BY <1>7 DEF CleanupSucceeds, InCleanup

\* No path out of a block loses its exception.
THEOREM NoExceptionSwallowed == Spec => ExceptionsPropagate
  BY Invariance, LeavingPropagates, PTL DEF Spec, ExceptionsPropagate

-----------------------------------------------------------------------------
(* The traces that DissimilarSM verifies.                                  *)

\* What the state of a context with gates can do in one step.
Moves ==
    {<<"IDLE", "ENTERING">>, <<"ENTERING", "ACTIVE">>, <<"ENTERING", "IDLE">>,
     <<"ACTIVE", "EXITING">>, <<"ACTIVE", "IDLE">>, <<"EXITING", "IDLE">>}

\* A context in a block has recorded the states on the way there, once each.
TraceInv ==
    \A c \in Contexts : Gates[c] > 0 =>
        /\ state[c] = "ENTERING" => trace[c] = <<"IDLE", "ENTERING">>
        /\ state[c] = "ACTIVE" => trace[c] = <<"IDLE", "ENTERING", "ACTIVE">>
        /\ state[c] = "EXITING" => trace[c] = <<"IDLE", "ENTERING", "ACTIVE", "EXITING">>

TracedInv ==
    /\ IInv
    /\ DOMAIN trace = Contexts
    /\ TraceInv

\* The events that lead on lead to the next state.
LEMMA EventsAdvance ==
    /\ Advance("IDLE", "AENTER") = "ENTERING"
    /\ Advance("ENTERING", "ALL_GATES_PASS") = "ACTIVE"
    /\ Advance("ACTIVE", "OP_COMPLETE") = "EXITING"
  BY DEF Advance, Accepts, EventTransition

\* A task's step moves the state of one context, and along these moves.
LEMMA StateMoves ==
    ASSUME IInv, Next, NEW c \in Contexts, Gates[c] > 0
    PROVE  state'[c] = state[c] \/ <<state[c], state'[c]>> \in Moves
  <1>1. PICK t \in Tasks :
           \/ \E d \in Contexts : Enter(t, d) \/ EnterRefused(t, d) \/ OperationCompletes(t, d)
           \/ GatePasses(t) \/ GateFails(t)
           \/ BodyRaises(t) \/ ExitRaising(t) \/ Catch(t)
           \/ CleanupSucceeds(t) \/ CleanupFails(t)
    BY DEF Next
  <1>2. state \in [Contexts -> KernelState]
    BY DEF IInv, TypeOK
  <1>3. CASE \E d \in Contexts : Enter(t, d)
    <2>1. PICK d \in Contexts : Enter(t, d)
      BY <1>3
    <2>2. state[d] = "IDLE" /\ state' = [state EXCEPT ![d] = AfterGates(d, 0, Advance("IDLE", "AENTER"))]
      BY <2>1 DEF Enter, Accepts, EventTransition
    <2>3. d = c => AfterGates(d, 0, Advance("IDLE", "AENTER")) = "ENTERING"
      BY GatesAssumption, EventsAdvance DEF AfterGates, AllPassed
    <2> QED
      BY <1>2, <2>2, <2>3 DEF Moves
  <1>4. CASE \E d \in Contexts : OperationCompletes(t, d)
    <2>1. PICK d \in Contexts : OperationCompletes(t, d)
      BY <1>4
    <2>2. state[d] = "ACTIVE" /\ state' = [state EXCEPT ![d] = "EXITING"]
      BY <2>1, EventsAdvance DEF OperationCompletes, Runs
    <2> QED
      BY <1>2, <2>2 DEF Moves
  <1>5. CASE GatePasses(t)
    <2> DEFINE d == Innermost(t)
    <2>1. /\ state[d] = "ENTERING"
          /\ state' = [state EXCEPT ![d] = AfterGates(d, passed[d] + 1, "ENTERING")]
      BY <1>5 DEF GatePasses, InGate
    <2>2. AfterGates(d, passed[d] + 1, "ENTERING") \in {"ENTERING", "ACTIVE"}
      BY EventsAdvance DEF AfterGates
    <2> QED
      BY <1>2, <2>1, <2>2 DEF Moves
  <1>6. CASE GateFails(t) \/ ExitRaising(t) \/ CleanupFails(t) \/ CleanupSucceeds(t)
    <2> DEFINE d == Innermost(t)
    <2>1. /\ state[d] \in {"ENTERING", "ACTIVE", "EXITING"}
          /\ state' = [state EXCEPT ![d] = "IDLE"]
      <3>1. CASE GateFails(t)
        BY <3>1, FaultsAreConsumed DEF GateFails, InGate, LeaveRaising
      <3>2. CASE ExitRaising(t)
        BY <3>2, FaultsAreConsumed DEF ExitRaising, LeaveRaising, IInv, RaisingInActive
      <3>3. CASE CleanupFails(t)
        BY <3>3, FaultsAreConsumed DEF CleanupFails, InCleanup, LeaveRaising
      <3>4. CASE CleanupSucceeds(t)
        BY <3>4, FaultsAreConsumed DEF CleanupSucceeds, InCleanup
      <3> QED
        BY <1>6, <3>1, <3>2, <3>3, <3>4
    <2> HIDE DEF d
    <2> QED
      BY <1>2, <2>1 DEF Moves
  <1>7. CASE BodyRaises(t) \/ Catch(t) \/ \E d \in Contexts : EnterRefused(t, d)
    BY <1>7 DEF BodyRaises, Catch, EnterRefused
  <1> QED
    BY <1>1, <1>3, <1>4, <1>5, <1>6, <1>7

\* A sequence that is one longer and agrees with s before is s with its last element.
LEMMA AppendIs ==
    ASSUME NEW W, NEW s \in Seq(W), NEW r \in Seq(W), NEW v \in W,
           Len(r) = Len(s) + 1, \A i \in 1..Len(s) : r[i] = s[i], r[Len(r)] = v
    PROVE  Append(s, v) = r
  <1>1. /\ Append(s, v) \in Seq(W) /\ Len(Append(s, v)) = Len(r)
        /\ \A i \in 1..Len(s) : Append(s, v)[i] = s[i]
        /\ Append(s, v)[Len(s) + 1] = v
    BY AppendProperties
  <1>2. \A i \in 1..Len(r) : Append(s, v)[i] = r[i]
    BY <1>1, LenProperties
  <1> QED
    BY <1>1, <1>2, SeqEqual

\* A state recorded is the new last one.
LEMMA Recorded ==
    ASSUME NEW s \in KernelState
    PROVE  /\ Append(<<"IDLE", "ENTERING">>, s) = <<"IDLE", "ENTERING", s>>
           /\ Append(<<"IDLE", "ENTERING", "ACTIVE">>, s) = <<"IDLE", "ENTERING", "ACTIVE", s>>
           /\ Append(<<"IDLE", "ENTERING", "ACTIVE", "EXITING">>, s)
                  = <<"IDLE", "ENTERING", "ACTIVE", "EXITING", s>>
  <1>1. ASSUME NEW x \in KernelState, NEW y \in KernelState
        PROVE  Append(<<x, y>>, s) = <<x, y, s>>
    <2> DEFINE o == <<x, y>>
               r == <<x, y, s>>
    <2>1. o \in Seq(KernelState) /\ r \in Seq(KernelState)
      OBVIOUS
    <2>2. Len(o) = 2 /\ Len(r) = 3 /\ r[Len(r)] = s
      OBVIOUS
    <2>3. r[1] = o[1] /\ r[2] = o[2]
      OBVIOUS
    <2> HIDE DEF o, r
    <2>4. \A i \in 1..Len(o) : r[i] = o[i]
      BY <2>2, <2>3
    <2>5. Len(r) = Len(o) + 1 /\ r[Len(r)] = s
      BY <2>2
    <2>6. Append(o, s) = r
      BY <2>1, <2>4, <2>5, AppendIs
    <2> QED
      BY <2>6 DEF o, r
  <1>2. ASSUME NEW x \in KernelState, NEW y \in KernelState, NEW z \in KernelState
        PROVE  Append(<<x, y, z>>, s) = <<x, y, z, s>>
    <2> DEFINE o == <<x, y, z>>
               r == <<x, y, z, s>>
    <2>1. o \in Seq(KernelState) /\ r \in Seq(KernelState)
      OBVIOUS
    <2>2. Len(o) = 3 /\ Len(r) = 4 /\ r[Len(r)] = s
      OBVIOUS
    <2>3. r[1] = o[1] /\ r[2] = o[2] /\ r[3] = o[3]
      OBVIOUS
    <2> HIDE DEF o, r
    <2>4. \A i \in 1..Len(o) : r[i] = o[i]
      BY <2>2, <2>3
    <2>5. Len(r) = Len(o) + 1 /\ r[Len(r)] = s
      BY <2>2
    <2>6. Append(o, s) = r
      BY <2>1, <2>4, <2>5, AppendIs
    <2> QED
      BY <2>6 DEF o, r
  <1>3. ASSUME NEW x \in KernelState, NEW y \in KernelState, NEW z \in KernelState,
               NEW w \in KernelState
        PROVE  Append(<<x, y, z, w>>, s) = <<x, y, z, w, s>>
    <2> DEFINE o == <<x, y, z, w>>
               r == <<x, y, z, w, s>>
    <2>1. o \in Seq(KernelState) /\ r \in Seq(KernelState)
      OBVIOUS
    <2>2. Len(o) = 4 /\ Len(r) = 5 /\ r[Len(r)] = s
      OBVIOUS
    <2>3. r[1] = o[1] /\ r[2] = o[2] /\ r[3] = o[3] /\ r[4] = o[4]
      OBVIOUS
    <2> HIDE DEF o, r
    <2>4. \A i \in 1..Len(o) : r[i] = o[i]
      BY <2>2, <2>3
    <2>5. Len(r) = Len(o) + 1 /\ r[Len(r)] = s
      BY <2>2
    <2>6. Append(o, s) = r
      BY <2>1, <2>4, <2>5, AppendIs
    <2> QED
      BY <2>6 DEF o, r
  <1>4. /\ "IDLE" \in KernelState /\ "ENTERING" \in KernelState
        /\ "ACTIVE" \in KernelState /\ "EXITING" \in KernelState
    BY DEF KernelState
  <1> QED
    BY <1>1, <1>2, <1>3, <1>4

\* The trace of a context grows as its state moves.
LEMMA TraceStep == TracedInv /\ [TracedNext]_tracedVars => TracedInv'
  <1> SUFFICES ASSUME TracedInv, [TracedNext]_tracedVars PROVE TracedInv'
    OBVIOUS
  <1>1. CASE UNCHANGED tracedVars
    <2>1. UNCHANGED vars
      BY <1>1 DEF tracedVars, vars
    <2> QED
      BY <1>1, <2>1, StepInvariant DEF TracedInv, TraceInv, tracedVars
  <1>2. CASE TracedNext
    <2>1. IInv' /\ DOMAIN trace' = Contexts
      BY <1>2, StepInvariant DEF TracedInv, TracedNext
    <2>2. TraceInv'
      <3> SUFFICES ASSUME NEW c \in Contexts, Gates[c] > 0
                   PROVE  /\ state'[c] = "ENTERING" => trace'[c] = <<"IDLE", "ENTERING">>
                          /\ state'[c] = "ACTIVE" => trace'[c] = <<"IDLE", "ENTERING", "ACTIVE">>
                          /\ state'[c] = "EXITING" =>
                                 trace'[c] = <<"IDLE", "ENTERING", "ACTIVE", "EXITING">>
        BY DEF TraceInv
      <3>1. trace'[c] = Record(c)
        BY <1>2 DEF TracedNext
      <3>2. state'[c] = state[c] \/ <<state[c], state'[c]>> \in Moves
        BY <1>2, StateMoves DEF TracedInv, TracedNext
      <3>3. CASE state'[c] = state[c]
        BY <3>1, <3>3 DEF TracedInv, TraceInv, Record
      <3>4. CASE state'[c] = "ENTERING" /\ state[c] = "IDLE"
        BY <3>1, <3>4 DEF Record
      <3>5. CASE state'[c] = "ACTIVE" /\ state[c] = "ENTERING"
        BY <3>1, <3>5, Recorded DEF TracedInv, TraceInv, Record, KernelState
      <3>6. CASE state'[c] = "EXITING" /\ state[c] = "ACTIVE"
        BY <3>1, <3>6, Recorded DEF TracedInv, TraceInv, Record, KernelState
      <3>7. CASE state'[c] = "IDLE"
        BY <3>7
      <3> QED
        BY <3>2, <3>3, <3>4, <3>5, <3>6, <3>7 DEF Moves
    <2> QED
      BY <2>1, <2>2 DEF TracedInv
  <1> QED
    BY <1>1, <1>2

\* The verdicts on the three traces with which a context can be left.
LEMMA Verdicts ==
    /\ ~Verified(<<"IDLE", "ENTERING", "IDLE">>)
    /\ ~Verified(<<"IDLE", "ENTERING", "ACTIVE", "IDLE">>)
    /\ Verified(<<"IDLE", "ENTERING", "ACTIVE", "EXITING", "IDLE">>)
  <1>1. ~Verified(<<"IDLE", "ENTERING", "IDLE">>)
    <2> DEFINE tr == <<"IDLE", "ENTERING", "IDLE">>
    <2>1. 2 \in 1 .. (Len(tr) - 1) /\ <<tr[2], tr[3]>> \notin ValidTransitions
      BY DEF ValidTransitions
    <2>2. 2 \in check_each_transition(tr)
      BY <2>1 DEF check_each_transition
    <2> QED
      BY <2>2 DEF Verified
  <1>2. ~Verified(<<"IDLE", "ENTERING", "ACTIVE", "IDLE">>)
    <2> DEFINE tr == <<"IDLE", "ENTERING", "ACTIVE", "IDLE">>
    <2>1. 3 \in 1 .. (Len(tr) - 1) /\ <<tr[3], tr[4]>> \notin ValidTransitions
      BY DEF ValidTransitions
    <2>2. 3 \in check_each_transition(tr)
      BY <2>1 DEF check_each_transition
    <2> QED
      BY <2>2 DEF Verified
  <1>3. Verified(<<"IDLE", "ENTERING", "ACTIVE", "EXITING", "IDLE">>)
    <2> DEFINE tr == <<"IDLE", "ENTERING", "ACTIVE", "EXITING", "IDLE">>
    <2>1. check_initial_state(tr) = {}
      BY DEF check_initial_state
    <2>2. check_terminal_state(tr) = {}
      BY DEF check_terminal_state
    <2>3. check_valid_state_names(tr) = {}
      BY DEF check_valid_state_names, ValidStates
    <2>4. check_each_transition(tr) = {}
      BY DEF check_each_transition, ValidTransitions
    <2> QED
      BY <2>1, <2>2, <2>3, <2>4 DEF Verified
  <1> QED
    BY <1>1, <1>2, <1>3

\* For any tasks and contexts: when a context with gates is left, the verifier
\* accepts its trace exactly if the operation had come to its end
\* (dissimilar_sm.py verify_execution_traces).
THEOREM VerdictsAreRight == TracedSpec => VerdictIsCompletion
  <1>1. TracedInit => TracedInv
    BY InitInvariant DEF TracedInit, TracedInv, TraceInv, Init
  <1>2. TracedInv /\ [TracedNext]_tracedVars =>
            [\A c \in Contexts :
                Gates[c] > 0 /\ state[c] # "IDLE" /\ state'[c] = "IDLE" =>
                   (Verified(trace'[c]) <=> state[c] = "EXITING")]_tracedVars
    <2> SUFFICES ASSUME TracedInv, TracedNext, NEW c \in Contexts,
                        Gates[c] > 0, state[c] # "IDLE", state'[c] = "IDLE"
                 PROVE  Verified(trace'[c]) <=> state[c] = "EXITING"
      BY DEF tracedVars
    <2>1. trace'[c] = Append(trace[c], "IDLE")
      BY DEF TracedNext, Record
    <2>2. state[c] \in {"ENTERING", "ACTIVE", "EXITING"}
      BY StateMoves DEF TracedInv, TracedNext, Moves
    <2>3. CASE state[c] = "ENTERING"
      <3>1. trace'[c] = <<"IDLE", "ENTERING", "IDLE">>
        BY <2>1, <2>3, Recorded DEF TracedInv, TraceInv, KernelState
      <3> QED
        BY <2>3, <3>1, Verdicts
    <2>4. CASE state[c] = "ACTIVE"
      <3>1. trace'[c] = <<"IDLE", "ENTERING", "ACTIVE", "IDLE">>
        BY <2>1, <2>4, Recorded DEF TracedInv, TraceInv, KernelState
      <3> QED
        BY <2>4, <3>1, Verdicts
    <2>5. CASE state[c] = "EXITING"
      <3>1. trace'[c] = <<"IDLE", "ENTERING", "ACTIVE", "EXITING", "IDLE">>
        BY <2>1, <2>5, Recorded DEF TracedInv, TraceInv, KernelState
      <3> QED
        BY <2>5, <3>1, Verdicts
    <2> QED
      BY <2>2, <2>3, <2>4, <2>5
  <1> QED
    BY <1>1, <1>2, TraceStep, PTL DEF TracedSpec, VerdictIsCompletion
=============================================================================
