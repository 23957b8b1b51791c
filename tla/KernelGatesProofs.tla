-------------------------- MODULE KernelGatesProofs --------------------------
(***************************************************************************)
(* Proofs about KernelGates for any attempts, keys, tenants, amounts and   *)
(* budgets, and for any order and choice of gates.                         *)
(*                                                                         *)
(* The invariant is a conjunction of five parts.  PlaceInv ties where an   *)
(* attempt is to the gate it stands at; the others each tie one store to   *)
(* the gates the attempts have passed.  The log and the sums of charges    *)
(* have invariants of their own that rest on this one.                     *)
(***************************************************************************)
EXTENDS KernelGates, FiniteSums

PlaceInv ==
    \A x \in Attempts :
        /\ pc[x] = "idle" => at[x] = 0
        /\ pc[x] \in {"gates", "marking", "waiting", "refused", "duplicate"} => at[x] \in 1..NumGates
        /\ pc[x] \in {"operating", "done", "failed"} => at[x] = NumGates + 1
        /\ pc[x] = "waiting" => Order[at[x]] = "K7"
        /\ pc[x] = "marking" => Order[at[x]] = "K5"
        /\ reading[x] # NoReading => pc[x] = "gates" /\ Order[at[x]] = "K3"

\* Who has passed K5 has put its key into the store, and in the event loop
\* nobody else has passed K5 with that key or is about to.
KeyInv ==
    /\ \A x \in Attempts : Passed(x, "K5") => KeyOf[x] \in seen
    /\ \A x, y \in Loop :
          Passed(x, "K5") /\ (Passed(y, "K5") \/ pc[y] = "marking") /\ KeyOf[x] = KeyOf[y] => x = y

\* A request that is pending or rejected has its attempt waiting or refused.
ApprovalInv ==
    \A x \in Attempts : approval[x] \in {"pending", "reject"} => pc[x] \in {"waiting", "refused"}

\* All attempts of the tenant are tasks of the event loop.
LoopTenant(t) == \A x \in Threads : TenantOf[x] # t

\* The loop has one reading at a time, and until it is acted upon the usage of
\* its tenant does not grow; a thread may reset it.
BudgetInv ==
    /\ \A t \in Tenants : LoopTenant(t) => usage[t] <= Budget[t]
    /\ \A x \in Attempts :
          LoopTenant(TenantOf[x]) /\ reading[x] # NoReading => usage[TenantOf[x]] <= reading[x]
    /\ \A x, y \in Loop : reading[x] # NoReading /\ reading[y] # NoReading => x = y

IInv ==
    /\ TypeOK
    /\ PlaceInv
    /\ KeyInv
    /\ ApprovalInv
    /\ BudgetInv

\* The number of gates is a number.
LEMMA NumGatesType == NumGates \in Nat
  BY KernelAssumption DEF NumGates

\* Nobody has begun at first.
LEMMA InitInvariant == Init => IInv
  <1> SUFFICES ASSUME Init PROVE IInv
    OBVIOUS
  <1>1. TypeOK
    BY NumGatesType DEF Init, TypeOK, Ended, Keys
  <1>2. PlaceInv
    BY DEF Init, PlaceInv
  <1>3. \A x \in Attempts : ~Passed(x, "K5")
    BY NumGatesType DEF Init, Passed
  <1>4. KeyInv
    BY <1>3 DEF KeyInv, Loop
  <1>5. ApprovalInv
    BY DEF Init, ApprovalInv
  <1>6. BudgetInv
    BY KernelAssumption DEF Init, BudgetInv, Loop
  <1> QED
    BY <1>1, <1>2, <1>4, <1>5, <1>6 DEF IInv

-----------------------------------------------------------------------------
(* Where attempts are.                                                     *)

\* Going on to the next gate, or to the operation.
LEMMA ProceedPlace ==
    ASSUME TypeOK, NEW x \in Attempts, NEW n \in 1..(NumGates + 1), Proceed(x, n)
    PROVE  /\ pc' \in [Attempts -> {"idle", "gates", "marking", "waiting", "operating"} \union Ended]
           /\ at' \in [Attempts -> 0..(NumGates + 1)]
           /\ at'[x] = n
           /\ pc'[x] = IF n > NumGates THEN "operating" ELSE "gates"
           /\ \A y \in Attempts : y # x => pc'[y] = pc[y] /\ at'[y] = at[y]
  BY NumGatesType DEF TypeOK, Proceed, Ended

\* An attempt that passes a gate stands at the next one.
LEMMA PassPlace ==
    ASSUME TypeOK, PlaceInv, NEW x \in Attempts, pc[x] \in {"gates", "marking", "waiting"}, Pass(x)
    PROVE  /\ at[x] \in 1..NumGates
           /\ pc' \in [Attempts -> {"idle", "gates", "marking", "waiting", "operating"} \union Ended]
           /\ at' \in [Attempts -> 0..(NumGates + 1)]
           /\ at'[x] = at[x] + 1
           /\ pc'[x] = IF at[x] + 1 > NumGates THEN "operating" ELSE "gates"
           /\ \A y \in Attempts : y # x => pc'[y] = pc[y] /\ at'[y] = at[y]
  <1>1. at[x] \in 1..NumGates /\ at[x] + 1 \in 1..(NumGates + 1)
    BY NumGatesType DEF PlaceInv
  <1> QED
    BY <1>1, ProceedPlace DEF Pass

\* The steps that pass a gate, and those that refuse an attempt.
Passes(x) ==
    \/ PlainGate(x) \/ K3Increment(x) \/ K5Mark(x) \/ K6Append(x)
    \/ K7Confident(x) \/ K7Approved(x)

Refuses(x) == GateRaises(x) \/ K3Exceeded(x) \/ K5Duplicate(x) \/ K7Denied(x)

\* A step of one attempt that passes a gate is a Pass, and the reading is used up.
LEMMA PassesIsPass ==
    ASSUME TypeOK, PlaceInv, NEW x \in Attempts, Passes(x)
    PROVE  /\ pc[x] \in {"gates", "marking", "waiting"} /\ Pass(x)
           /\ reading' = [reading EXCEPT ![x] = NoReading]
  <1>1. CASE PlainGate(x) \/ K6Append(x) \/ K7Confident(x)
    <2>1. pc[x] = "gates" /\ Order[at[x]] # "K3" /\ Pass(x) /\ reading' = reading
      BY <1>1 DEF PlainGate, K1Pass, K2Pass, K4Pass, K8Pass, PlainPass, K6Append, K7Confident, At
    <2>2. reading[x] = NoReading
      BY <2>1 DEF PlaceInv
    <2> QED
      BY <2>1, <2>2 DEF TypeOK
  <1>2. CASE K3Increment(x)
    BY <1>2 DEF K3Increment, PlaceInv
  <1>3. CASE K7Approved(x) \/ K5Mark(x)
    BY <1>3 DEF K7Approved, K5Mark, PlaceInv, TypeOK
  <1> QED
    BY <1>1, <1>2, <1>3 DEF Passes

\* A refusal leaves the attempt at its gate.
LEMMA RefusesPlace ==
    ASSUME TypeOK, PlaceInv, NEW x \in Attempts, Refuses(x)
    PROVE  /\ pc[x] \in {"gates", "waiting"}
           /\ \E as \in {"refused", "duplicate"} : pc' = [pc EXCEPT ![x] = as]
           /\ pc[x] = "waiting" => pc' = [pc EXCEPT ![x] = "refused"]
           /\ at' = at
           /\ reading' = [reading EXCEPT ![x] = NoReading]
           /\ UNCHANGED <<usage, charged, seen, wal, approval>>
  <1>1. CASE GateRaises(x)
    BY <1>1 DEF GateRaises, Refuse
  <1>2. CASE K3Exceeded(x)
    BY <1>2 DEF K3Exceeded, Refuse, PlaceInv
  <1>3. CASE K5Duplicate(x) \/ K7Denied(x)
    <2>1. reading[x] = NoReading
      BY <1>3 DEF K5Duplicate, K7Denied, At, PlaceInv
    <2> QED
      BY <1>3, <2>1 DEF K5Duplicate, K7Denied, At, Refuse, TypeOK
  <1> QED
    BY <1>1, <1>2, <1>3 DEF Refuses

\* The remaining steps, which leave both pc and at of all attempts alone or
\* move one attempt on without passing a gate.
LEMMA NextCases ==
    ASSUME Next
    PROVE  \/ \E x \in Attempts :
                 \/ Enter(x) \/ Passes(x) \/ Refuses(x) \/ K3Read(x) \/ K5New(x) \/ K7Emit(x)
                 \/ \E outcome \in {"done", "failed"} : Operate(x, outcome)
                 \/ \E action \in {"approve", "reject"} : Decide(x, action)
           \/ \E t \in Tenants : ResetUsage(t)
  BY DEF Next, Progress, Passes, Refuses

\* What the steps of a kind do to the stores.
LEMMA PassesStores ==
    ASSUME TypeOK, PlaceInv, NEW x \in Attempts, Passes(x)
    PROVE  /\ \/ UNCHANGED <<usage, charged>>
              \/ K3Increment(x)
           /\ \/ seen' = seen /\ Order[at[x]] # "K5"
              \/ K5Mark(x)
           /\ wal' = wal \/ K6Append(x)
           /\ approval' = approval
  BY DEF Passes, PlaceInv, PlainGate, K1Pass, K2Pass, K4Pass, K8Pass, PlainPass, K3Increment,
         K5Mark, K6Append, K7Confident, K7Approved, At

\* Every step keeps the types.
LEMMA TypeStep == IInv /\ [Next]_vars => TypeOK'
  <1> SUFFICES ASSUME IInv, [Next]_vars PROVE TypeOK'
    OBVIOUS
  <1> USE NumGatesType, KernelAssumption
  <1>t. TypeOK /\ PlaceInv
    BY DEF IInv
  <1>1. CASE UNCHANGED vars
    BY <1>t, <1>1 DEF vars, TypeOK
  <1>2. ASSUME NEW x \in Attempts, Enter(x) PROVE TypeOK'
    <2>1. Proceed(x, 1) /\ 1 \in 1..(NumGates + 1)
      BY <1>2 DEF Enter
    <2>2. pc' \in [Attempts -> {"idle", "gates", "marking", "waiting", "operating"} \union Ended] /\ at' \in [Attempts -> 0..(NumGates + 1)]
      BY <1>t, <2>1, ProceedPlace
    <2> QED
      BY <1>t, <1>2, <2>2 DEF Enter, TypeOK
  <1>3. ASSUME NEW x \in Attempts, Passes(x) PROVE TypeOK'
    <2>1. /\ pc[x] \in {"gates", "marking", "waiting"} /\ Pass(x)
          /\ reading' = [reading EXCEPT ![x] = NoReading]
      BY <1>t, <1>3, PassesIsPass
    <2>2. pc' \in [Attempts -> {"idle", "gates", "marking", "waiting", "operating"} \union Ended] /\ at' \in [Attempts -> 0..(NumGates + 1)]
      BY <1>t, <2>1, PassPlace
    <2>3. reading' \in [Attempts -> Nat \union {NoReading}]
      BY <1>t, <2>1 DEF TypeOK, NoReading
    <2>s. /\ UNCHANGED <<usage, charged>> \/ K3Increment(x)
          /\ wal' = wal \/ K6Append(x)
      BY <1>t, <1>3, PassesStores
    <2>4. usage' \in [Tenants -> Nat] /\ charged' \in SUBSET (Attempts \X (1..NumGates))
      <3>1. CASE UNCHANGED <<usage, charged>>
        BY <1>t, <3>1 DEF TypeOK
      <3>2. CASE K3Increment(x)
        <4>1. TenantOf[x] \in Tenants /\ Amount[x] \in Nat
          OBVIOUS
        <4>2. Incremented(x) \in Nat
          BY <1>t, <4>1 DEF TypeOK, Incremented
        <4>3. at[x] \in 1..NumGates
          BY <1>t, <2>1, PassPlace
        <4>4. charged' = charged \union {<<x, at[x]>>}
          BY <3>2 DEF K3Increment
        <4>5. charged' \in SUBSET (Attempts \X (1..NumGates))
          BY <1>t, <4>3, <4>4 DEF TypeOK
        <4> QED
          BY <1>t, <3>2, <4>2, <4>5 DEF TypeOK, K3Increment
      <3> QED
        BY <2>s, <3>1, <3>2
    <2>5. seen' \in SUBSET Keys
      <3>1. seen' = seen \/ seen' = seen \union {KeyOf[x]}
        BY <1>t, <1>3, PassesStores DEF K5Mark, Mark
      <3>2. seen \in SUBSET Keys /\ KeyOf[x] \in Keys
        BY <1>t DEF TypeOK, Keys
      <3> QED
        BY <3>1, <3>2
    <2>6. wal' \in [Attempts -> Nat]
      <3>1. CASE wal' = wal
        BY <1>t, <3>1 DEF TypeOK
      <3>2. CASE K6Append(x)
        <4>1. wal' = [wal EXCEPT ![x] = wal[x] + 1]
          BY <3>2 DEF K6Append
        <4> QED
          BY <1>t, <4>1 DEF TypeOK
      <3> QED
        BY <2>s, <3>1, <3>2
    <2> QED
      BY <1>t, <1>3, <2>2, <2>3, <2>4, <2>5, <2>6, PassesStores DEF TypeOK
  <1>4. ASSUME NEW x \in Attempts, Refuses(x) PROVE TypeOK'
    BY <1>t, <1>4, RefusesPlace DEF TypeOK, Ended, NoReading
  <1>5. ASSUME NEW x \in Attempts, K3Read(x) PROVE TypeOK'
    BY <1>t, <1>5 DEF TypeOK, K3Read
  <1>5n. ASSUME NEW x \in Attempts, K5New(x) PROVE TypeOK'
    BY <1>t, <1>5n DEF TypeOK, K5New
  <1>6. ASSUME NEW x \in Attempts, K7Emit(x) PROVE TypeOK'
    BY <1>t, <1>6 DEF TypeOK, K7Emit
  <1>7. ASSUME NEW x \in Attempts, NEW outcome \in {"done", "failed"}, Operate(x, outcome) PROVE TypeOK'
    BY <1>t, <1>7 DEF TypeOK, Operate, Ended
  <1>8. ASSUME NEW x \in Attempts, NEW action \in {"approve", "reject"}, Decide(x, action) PROVE TypeOK'
    BY <1>t, <1>8 DEF TypeOK, Decide
  <1>9. ASSUME NEW t \in Tenants, ResetUsage(t) PROVE TypeOK'
    BY <1>t, <1>9 DEF TypeOK, ResetUsage
  <1> QED
    BY <1>1, <1>2, <1>3, <1>4, <1>5, <1>5n, <1>6, <1>7, <1>8, <1>9, NextCases

\* Every step keeps attempts at their places.
LEMMA PlaceStep == IInv /\ [Next]_vars => PlaceInv'
  <1> SUFFICES ASSUME IInv, [Next]_vars PROVE PlaceInv'
    OBVIOUS
  <1> USE NumGatesType
  <1>t. TypeOK /\ PlaceInv
    BY DEF IInv
  <1>1. CASE UNCHANGED vars
    BY <1>t, <1>1 DEF vars, PlaceInv
  <1>2. ASSUME NEW x \in Attempts, Enter(x) PROVE PlaceInv'
    <2>1. Proceed(x, 1) /\ 1 \in 1..(NumGates + 1) /\ pc[x] = "idle" /\ reading' = reading
      BY <1>2 DEF Enter
    <2>2. /\ at'[x] = 1
          /\ pc'[x] = IF 1 > NumGates THEN "operating" ELSE "gates"
          /\ \A y \in Attempts : y # x => pc'[y] = pc[y] /\ at'[y] = at[y]
      BY <1>t, <2>1, ProceedPlace
    <2> QED
      BY <1>t, <2>1, <2>2 DEF PlaceInv
  <1>3. ASSUME NEW x \in Attempts, Passes(x) PROVE PlaceInv'
    <2>1. /\ pc[x] \in {"gates", "marking", "waiting"} /\ Pass(x)
          /\ reading' = [reading EXCEPT ![x] = NoReading]
      BY <1>t, <1>3, PassesIsPass
    <2>2. /\ at[x] \in 1..NumGates
          /\ at'[x] = at[x] + 1
          /\ pc'[x] = IF at[x] + 1 > NumGates THEN "operating" ELSE "gates"
          /\ \A y \in Attempts : y # x => pc'[y] = pc[y] /\ at'[y] = at[y]
      BY <1>t, <2>1, PassPlace
    <2>3. reading'[x] = NoReading /\ \A y \in Attempts : y # x => reading'[y] = reading[y]
      BY <1>t, <2>1 DEF TypeOK
    <2> QED
      BY <1>t, <2>2, <2>3 DEF PlaceInv
  <1>4. ASSUME NEW x \in Attempts, Refuses(x) PROVE PlaceInv'
    <2>1. /\ pc[x] \in {"gates", "waiting"}
          /\ \E as \in {"refused", "duplicate"} : pc' = [pc EXCEPT ![x] = as]
          /\ at' = at
          /\ reading' = [reading EXCEPT ![x] = NoReading]
      BY <1>t, <1>4, RefusesPlace
    <2>2. reading'[x] = NoReading /\ \A y \in Attempts : y # x => reading'[y] = reading[y]
      BY <1>t, <2>1 DEF TypeOK
    <2>3. pc'[x] \in {"refused", "duplicate"} /\ \A y \in Attempts : y # x => pc'[y] = pc[y]
      BY <1>t, <2>1 DEF TypeOK
    <2>4. at[x] \in 1..NumGates
      BY <1>t, <2>1 DEF PlaceInv
    <2> SUFFICES ASSUME NEW y \in Attempts
                 PROVE  PlaceInv!(y)'
      BY DEF PlaceInv
    <2>5. CASE y = x
      BY <2>1, <2>2, <2>3, <2>4, <2>5
    <2>6. CASE y # x
      BY <1>t, <2>1, <2>2, <2>3, <2>6 DEF PlaceInv
    <2> QED
      BY <2>5, <2>6
  <1>5. ASSUME NEW x \in Attempts, K3Read(x) PROVE PlaceInv'
    BY <1>t, <1>5 DEF PlaceInv, TypeOK, K3Read, At
  <1>5n. ASSUME NEW x \in Attempts, K5New(x) PROVE PlaceInv'
    BY <1>t, <1>5n DEF PlaceInv, TypeOK, K5New, At
  <1>6. ASSUME NEW x \in Attempts, K7Emit(x) PROVE PlaceInv'
    BY <1>t, <1>6 DEF PlaceInv, TypeOK, K7Emit, At
  <1>7. ASSUME NEW x \in Attempts, NEW outcome \in {"done", "failed"}, Operate(x, outcome) PROVE PlaceInv'
    BY <1>t, <1>7 DEF PlaceInv, TypeOK, Operate
  <1>8. ASSUME NEW x \in Attempts, NEW action \in {"approve", "reject"}, Decide(x, action) PROVE PlaceInv'
    BY <1>t, <1>8 DEF PlaceInv, Decide
  <1>9. ASSUME NEW t \in Tenants, ResetUsage(t) PROVE PlaceInv'
    BY <1>t, <1>9 DEF PlaceInv, ResetUsage
  <1> QED
    BY <1>1, <1>2, <1>3, <1>4, <1>5, <1>5n, <1>6, <1>7, <1>8, <1>9, NextCases

-----------------------------------------------------------------------------
(* The keys, the approvals and the budgets.                                *)

\* The only way to have passed K5 is to have been there with a new key.
LEMMA PassedStep ==
    ASSUME IInv, [Next]_vars, NEW y \in Attempts, Passed(y, "K5")'
    PROVE  Passed(y, "K5") \/ K5Mark(y)
  <1> USE NumGatesType
  <1>t. TypeOK /\ PlaceInv
    BY DEF IInv
  <1>1. CASE at' = at
    BY <1>1 DEF Passed
  <1>2. ASSUME NEW x \in Attempts, Enter(x) PROVE Passed(y, "K5")
    <2>1. Proceed(x, 1) /\ 1 \in 1..(NumGates + 1)
      BY <1>2 DEF Enter
    <2>2. at'[x] = 1 /\ \A z \in Attempts : z # x => at'[z] = at[z]
      BY <1>t, <2>1, ProceedPlace
    <2> QED
      BY <2>2 DEF Passed
  <1>3. ASSUME NEW x \in Attempts, Passes(x) PROVE Passed(y, "K5") \/ K5Mark(y)
    <2>1. pc[x] \in {"gates", "marking", "waiting"} /\ Pass(x)
      BY <1>t, <1>3, PassesIsPass
    <2>2. /\ at[x] \in 1..NumGates
          /\ at'[x] = at[x] + 1
          /\ \A z \in Attempts : z # x => at'[z] = at[z]
      BY <1>t, <2>1, PassPlace
    <2>3. Order[at[x]] # "K5" \/ K5Mark(x)
      BY <1>t, <1>3, PassesStores
    <2>4. CASE y = x
      BY <2>2, <2>3, <2>4 DEF Passed
    <2>5. CASE y # x
      BY <2>2, <2>5 DEF Passed
    <2> QED
      BY <2>4, <2>5
  <1>4. ASSUME NEW x \in Attempts, Refuses(x) PROVE at' = at
    BY <1>t, <1>4, RefusesPlace
  <1>5. ASSUME NEW x \in Attempts, K3Read(x) \/ K5New(x) \/ K7Emit(x) PROVE at' = at
    BY <1>5 DEF K3Read, K5New, K7Emit
  <1>6. ASSUME NEW x \in Attempts, NEW outcome \in {"done", "failed"}, Operate(x, outcome) PROVE at' = at
    BY <1>6 DEF Operate
  <1>7. ASSUME NEW x \in Attempts, NEW action \in {"approve", "reject"}, Decide(x, action) PROVE at' = at
    BY <1>7 DEF Decide
  <1>8. ASSUME NEW t \in Tenants, ResetUsage(t) PROVE at' = at
    BY <1>8 DEF ResetUsage
  <1>9. CASE UNCHANGED vars
    BY <1>1, <1>9 DEF vars
  <1> QED
    BY <1>1, <1>2, <1>3, <1>4, <1>5, <1>6, <1>7, <1>8, <1>9, NextCases

\* Keys are only ever added.
LEMMA SeenGrows == IInv /\ [Next]_vars => seen \subseteq seen'
  <1> SUFFICES ASSUME IInv, [Next]_vars PROVE seen \subseteq seen'
    OBVIOUS
  <1>1. CASE UNCHANGED vars
    BY <1>1 DEF vars
  <1>2. ASSUME NEW x \in Attempts, Passes(x) PROVE seen \subseteq seen'
    BY <1>2, PassesStores DEF IInv, K5Mark, Mark
  <1>3. ASSUME NEW x \in Attempts, Refuses(x) PROVE seen' = seen
    BY <1>3, RefusesPlace DEF IInv
  <1>4. ASSUME NEW x \in Attempts, Enter(x) \/ K3Read(x) \/ K5New(x) \/ K7Emit(x) PROVE seen' = seen
    BY <1>4 DEF Enter, K3Read, K5New, K7Emit
  <1>5. ASSUME NEW x \in Attempts, NEW outcome \in {"done", "failed"}, Operate(x, outcome) PROVE seen' = seen
    BY <1>5 DEF Operate
  <1>6. ASSUME NEW x \in Attempts, NEW action \in {"approve", "reject"}, Decide(x, action) PROVE seen' = seen
    BY <1>6 DEF Decide
  <1>7. ASSUME NEW t \in Tenants, ResetUsage(t) PROVE seen' = seen
    BY <1>7 DEF ResetUsage
  <1> QED
    BY <1>1, <1>2, <1>3, <1>4, <1>5, <1>6, <1>7, NextCases

\* The only way to have found a key new is to have looked it up.
LEMMA MarkingStep ==
    ASSUME IInv, [Next]_vars, NEW y \in Attempts, pc'[y] = "marking"
    PROVE  (pc[y] = "marking" /\ ~K5Mark(y)) \/ K5New(y)
  <1> USE NumGatesType
  <1>t. TypeOK /\ PlaceInv
    BY DEF IInv
  <1>0. ~K5Mark(y)
    <2> SUFFICES ASSUME K5Mark(y) PROVE FALSE
      OBVIOUS
    <2>1. pc[y] \in {"gates", "marking", "waiting"} /\ Pass(y)
      BY <1>t, PassesIsPass DEF Passes
    <2> QED
      BY <1>t, <2>1, PassPlace
  <1>1. CASE UNCHANGED pc
    BY <1>0, <1>1
  <1>2. ASSUME NEW x \in Attempts, Enter(x) PROVE pc[y] = "marking"
    <2>1. Proceed(x, 1) /\ 1 \in 1..(NumGates + 1)
      BY <1>2 DEF Enter
    <2> QED
      BY <1>t, <2>1, ProceedPlace
  <1>3. ASSUME NEW x \in Attempts, Passes(x) PROVE pc[y] = "marking"
    <2>1. pc[x] \in {"gates", "marking", "waiting"} /\ Pass(x)
      BY <1>t, <1>3, PassesIsPass
    <2> QED
      BY <1>t, <2>1, PassPlace
  <1>4. ASSUME NEW x \in Attempts, Refuses(x) PROVE pc[y] = "marking"
    BY <1>t, <1>4, RefusesPlace DEF TypeOK
  <1>5. ASSUME NEW x \in Attempts, K5New(x) PROVE pc[y] = "marking" \/ K5New(y)
    BY <1>t, <1>5 DEF K5New, TypeOK
  <1>6. ASSUME NEW x \in Attempts, K7Emit(x) PROVE pc[y] = "marking"
    BY <1>t, <1>6 DEF K7Emit, TypeOK
  <1>7. ASSUME NEW x \in Attempts, NEW outcome \in {"done", "failed"}, Operate(x, outcome)
        PROVE  pc[y] = "marking"
    BY <1>t, <1>7 DEF Operate, TypeOK
  <1>8. ASSUME NEW x \in Attempts, K3Read(x) PROVE UNCHANGED pc
    BY <1>8 DEF K3Read
  <1>9. ASSUME NEW x \in Attempts, NEW action \in {"approve", "reject"}, Decide(x, action)
        PROVE  UNCHANGED pc
    BY <1>9 DEF Decide
  <1>10. ASSUME NEW t \in Tenants, ResetUsage(t) PROVE UNCHANGED pc
    BY <1>10 DEF ResetUsage
  <1>11. CASE UNCHANGED vars
    BY <1>1, <1>11 DEF vars
  <1> QED
    BY <1>0, <1>1, <1>2, <1>3, <1>4, <1>5, <1>6, <1>7, <1>8, <1>9, <1>10, <1>11, NextCases

\* A key that is new has been passed by nobody, and while a task of the loop
\* marks one no other does.
LEMMA KeyStep == IInv /\ [Next]_vars => KeyInv'
  <1> SUFFICES ASSUME IInv, [Next]_vars PROVE KeyInv'
    OBVIOUS
  <1>k. KeyInv
    BY DEF IInv
  <1>s. seen \subseteq seen'
    BY SeenGrows
  <1>1. ASSUME NEW x \in Attempts, Passed(x, "K5")' PROVE (KeyOf[x] \in seen)'
    <2>1. CASE Passed(x, "K5")
      BY <1>k, <1>s, <2>1 DEF KeyInv
    <2>2. CASE K5Mark(x)
      BY <2>2 DEF K5Mark, Mark
    <2> QED
      BY <1>1, <2>1, <2>2, PassedStep
  <1>2. ASSUME NEW x \in Loop, NEW y \in Loop, KeyOf[x] = KeyOf[y], Passed(x, "K5")',
               Passed(y, "K5")' \/ pc'[y] = "marking", x # y
        PROVE  FALSE
    <2>a. x \in Attempts /\ y \in Attempts
      BY DEF Loop
    <2>1. Passed(x, "K5") \/ K5Mark(x)
      BY <1>2, <2>a, PassedStep
    <2>2. Passed(y, "K5") \/ K5Mark(y) \/ pc[y] = "marking" \/ K5New(y)
      BY <1>2, <2>a, PassedStep, MarkingStep
    <2>3. CASE Passed(x, "K5")
      <3>1. pc[y] # "marking" /\ ~Passed(y, "K5")
        BY <1>k, <1>2, <2>3 DEF KeyInv
      <3>2. KeyOf[y] \in seen
        BY <1>k, <1>2, <2>a, <2>3 DEF KeyInv
      <3> QED
        BY <2>2, <3>1, <3>2 DEF K5Mark, K5New
    <2>4. CASE K5Mark(x)
      <3>1. pc[x] = "marking" /\ ~Busy(y)
        BY <1>2, <2>4 DEF K5Mark, Scheduled, Loop
      <3>2. pc[y] # "marking"
        BY <3>1 DEF Busy
      <3>3. ~Passed(y, "K5")
        BY <1>k, <1>2, <3>1 DEF KeyInv
      <3>4. ~K5New(y)
        <4>1. Busy(x)
          BY <3>1 DEF Busy
        <4> QED
          BY <1>2, <4>1 DEF K5New, Scheduled, Loop
      <3> QED
        BY <2>2, <3>2, <3>3, <3>4 DEF K5Mark
    <2> QED
      BY <2>1, <2>3, <2>4
  <1> QED
    BY <1>1, <1>2 DEF KeyInv, Loop

\* A decision does not move the attempt, and only an approval lets it on.
LEMMA ApprovalStep == IInv /\ [Next]_vars => ApprovalInv'
  <1> SUFFICES ASSUME IInv, [Next]_vars PROVE ApprovalInv'
    OBVIOUS
  <1> USE NumGatesType
  <1>t. TypeOK /\ PlaceInv /\ ApprovalInv
    BY DEF IInv
  <1>1. CASE UNCHANGED vars
    BY <1>t, <1>1 DEF vars, ApprovalInv
  <1>2. ASSUME NEW x \in Attempts, Enter(x) PROVE ApprovalInv'
    <2>1. Proceed(x, 1) /\ 1 \in 1..(NumGates + 1) /\ pc[x] = "idle" /\ approval' = approval
      BY <1>2 DEF Enter
    <2>2. \A y \in Attempts : y # x => pc'[y] = pc[y]
      BY <1>t, <2>1, ProceedPlace
    <2> QED
      BY <1>t, <2>1, <2>2 DEF ApprovalInv
  <1>3. ASSUME NEW x \in Attempts, Passes(x) PROVE ApprovalInv'
    <2>1. pc[x] \in {"gates", "marking", "waiting"} /\ Pass(x) /\ approval' = approval
      BY <1>t, <1>3, PassesIsPass, PassesStores
    <2>2. \A y \in Attempts : y # x => pc'[y] = pc[y]
      BY <1>t, <2>1, PassPlace
    <2>3. pc[x] \in {"gates", "marking"} \/ approval[x] = "approve"
      BY <1>3 DEF Passes, PlainGate, K1Pass, K2Pass, K4Pass, K8Pass, PlainPass, K3Increment,
                  K5Mark, K6Append, K7Confident, K7Approved, At, IInv, PlaceInv
    <2> QED
      BY <1>t, <2>1, <2>2, <2>3 DEF ApprovalInv
  <1>4. ASSUME NEW x \in Attempts, Refuses(x) PROVE ApprovalInv'
    <2>1. /\ pc[x] \in {"gates", "waiting"}
          /\ \E as \in {"refused", "duplicate"} : pc' = [pc EXCEPT ![x] = as]
          /\ pc[x] = "waiting" => pc' = [pc EXCEPT ![x] = "refused"]
          /\ approval' = approval
      BY <1>t, <1>4, RefusesPlace
    <2> QED
      BY <1>t, <2>1 DEF ApprovalInv, TypeOK
  <1>5. ASSUME NEW x \in Attempts, K3Read(x) PROVE ApprovalInv'
    BY <1>t, <1>5 DEF ApprovalInv, K3Read
  <1>5n. ASSUME NEW x \in Attempts, K5New(x) PROVE ApprovalInv'
    BY <1>t, <1>5n DEF ApprovalInv, TypeOK, K5New, At
  <1>6. ASSUME NEW x \in Attempts, K7Emit(x) PROVE ApprovalInv'
    BY <1>t, <1>6 DEF ApprovalInv, TypeOK, K7Emit
  <1>7. ASSUME NEW x \in Attempts, NEW outcome \in {"done", "failed"}, Operate(x, outcome) PROVE ApprovalInv'
    BY <1>t, <1>7 DEF ApprovalInv, TypeOK, Operate
  <1>8. ASSUME NEW x \in Attempts, NEW action \in {"approve", "reject"}, Decide(x, action) PROVE ApprovalInv'
    BY <1>t, <1>8 DEF ApprovalInv, TypeOK, Decide
  <1>9. ASSUME NEW t \in Tenants, ResetUsage(t) PROVE ApprovalInv'
    BY <1>t, <1>9 DEF ApprovalInv, ResetUsage
  <1> QED
    BY <1>1, <1>2, <1>3, <1>4, <1>5, <1>5n, <1>6, <1>7, <1>8, <1>9, NextCases

\* K3's increment: for a tenant of the loop the reading bounds the usage, and
\* no other reading of that tenant is outstanding.
LEMMA IncrementBudget ==
    ASSUME TypeOK, PlaceInv, BudgetInv, NEW x \in Attempts, K3Increment(x)
    PROVE  BudgetInv'
  <1>1. /\ reading[x] # NoReading
        /\ reading[x] + Amount[x] <= Budget[TenantOf[x]]
        /\ usage' = [usage EXCEPT ![TenantOf[x]] = usage[TenantOf[x]] + Amount[x]]
        /\ reading' = [reading EXCEPT ![x] = NoReading]
    BY DEF K3Increment, Fits, Incremented
  <1>2. /\ TenantOf[x] \in Tenants /\ Amount[x] \in Nat
        /\ usage[TenantOf[x]] \in Nat /\ reading[x] \in Nat /\ Budget[TenantOf[x]] \in Nat
    BY <1>1, KernelAssumption DEF TypeOK
  <1>3. /\ reading'[x] = NoReading /\ \A y \in Attempts : y # x => reading'[y] = reading[y]
        /\ usage'[TenantOf[x]] = usage[TenantOf[x]] + Amount[x]
        /\ \A t \in Tenants : t # TenantOf[x] => usage'[t] = usage[t]
    BY <1>1, <1>2 DEF TypeOK
  <1>4. ASSUME NEW t \in Tenants, LoopTenant(t) PROVE usage'[t] <= Budget[t]
    <2>1. CASE t # TenantOf[x]
      BY <1>3, <1>4, <2>1 DEF BudgetInv
    <2>2. CASE t = TenantOf[x]
      <3>1. usage[t] <= reading[x]
        BY <1>1, <1>4, <2>2 DEF BudgetInv
      <3> QED
        BY <1>1, <1>2, <1>3, <2>2, <3>1
    <2> QED
      BY <2>1, <2>2
  <1>5. ASSUME NEW y \in Attempts, LoopTenant(TenantOf[y]), reading'[y] # NoReading
        PROVE  usage'[TenantOf[y]] <= reading'[y]
    <2>1. y # x /\ reading'[y] = reading[y] /\ y \in Loop
      BY <1>3, <1>5 DEF LoopTenant, Loop
    <2>2. CASE TenantOf[y] = TenantOf[x]
      <3>1. x \in Loop
        BY <1>5, <2>2 DEF LoopTenant, Loop
      <3> QED
        BY <1>1, <1>5, <2>1, <3>1 DEF BudgetInv
    <2>3. CASE TenantOf[y] # TenantOf[x]
      <3>1. TenantOf[y] \in Tenants
        BY KernelAssumption
      <3>2. usage[TenantOf[y]] <= reading[y]
        BY <1>5, <2>1 DEF BudgetInv
      <3> QED
        BY <1>3, <2>1, <2>3, <3>1, <3>2
    <2> QED
      BY <2>2, <2>3
  <1>6. ASSUME NEW y \in Loop, NEW z \in Loop, reading'[y] # NoReading, reading'[z] # NoReading
        PROVE  y = z
    <2>1. reading[y] # NoReading /\ reading[z] # NoReading
      BY <1>3, <1>6 DEF Loop
    <2> QED
      BY <2>1 DEF BudgetInv
  <1> QED
    BY <1>4, <1>5, <1>6 DEF BudgetInv, LoopTenant

\* In the event loop nothing charges a tenant between K3's reading and its
\* increment.
LEMMA BudgetStep == IInv /\ [Next]_vars => BudgetInv'
  <1> SUFFICES ASSUME IInv, [Next]_vars PROVE BudgetInv'
    OBVIOUS
  <1>t. TypeOK /\ PlaceInv /\ BudgetInv
    BY DEF IInv
  <1>1. CASE UNCHANGED <<reading, usage>>
    BY <1>t, <1>1 DEF BudgetInv, LoopTenant
  <1>2. ASSUME NEW x \in Attempts, reading' = [reading EXCEPT ![x] = NoReading], usage' = usage
        PROVE  BudgetInv'
    BY <1>t, <1>2 DEF BudgetInv, TypeOK, LoopTenant, Loop
  <1>3. ASSUME NEW x \in Attempts, Passes(x) PROVE BudgetInv'
    <2>1. reading' = [reading EXCEPT ![x] = NoReading]
      BY <1>t, <1>3, PassesIsPass
    <2>2. CASE usage' = usage
      BY <1>2, <2>1, <2>2
    <2>3. CASE K3Increment(x)
      BY <1>t, <2>3, IncrementBudget
    <2> QED
      BY <1>t, <1>3, <2>2, <2>3, PassesStores
  <1>4. ASSUME NEW x \in Attempts, Refuses(x) PROVE BudgetInv'
    BY <1>t, <1>2, <1>4, RefusesPlace
  <1>5. ASSUME NEW x \in Attempts, K3Read(x) PROVE BudgetInv'
    <2>1. /\ x \in Loop => \A y \in Loop \ {x} : reading[y] = NoReading
          /\ reading' = [reading EXCEPT ![x] = usage[TenantOf[x]]]
          /\ usage' = usage
      BY <1>5 DEF K3Read, Scheduled, Busy, Loop
    <2>2. reading'[x] = usage[TenantOf[x]] /\ \A y \in Attempts : y # x => reading'[y] = reading[y]
      BY <1>t, <2>1 DEF TypeOK
    <2>3. usage[TenantOf[x]] \in Nat
      BY <1>t, KernelAssumption DEF TypeOK
    <2> QED
      BY <1>t, <2>1, <2>2, <2>3 DEF BudgetInv, LoopTenant, Loop
  <1>6. ASSUME NEW x \in Attempts, Enter(x) \/ K5New(x) \/ K7Emit(x) PROVE UNCHANGED <<reading, usage>>
    BY <1>6 DEF Enter, K5New, K7Emit
  <1>7. ASSUME NEW x \in Attempts, NEW outcome \in {"done", "failed"}, Operate(x, outcome)
        PROVE  UNCHANGED <<reading, usage>>
    BY <1>7 DEF Operate
  <1>8. ASSUME NEW x \in Attempts, NEW action \in {"approve", "reject"}, Decide(x, action)
        PROVE  UNCHANGED <<reading, usage>>
    BY <1>8 DEF Decide
  <1>9. ASSUME NEW t \in Tenants, ResetUsage(t) PROVE BudgetInv'
    <2>1. reading' = reading /\ usage' = [usage EXCEPT ![t] = 0]
      BY <1>9 DEF ResetUsage
    <2>2. \A u \in Tenants : usage[u] \in Nat /\ Budget[u] \in Nat /\ usage'[u] \in {0, usage[u]}
      BY <1>t, <2>1, KernelAssumption DEF TypeOK
    <2>3. \A u \in Tenants : usage'[u] <= usage[u] /\ (usage[u] <= Budget[u] => usage'[u] <= Budget[u])
      BY <2>2
    <2>4. \A y \in Attempts :
             LoopTenant(TenantOf[y]) /\ reading[y] # NoReading => usage'[TenantOf[y]] <= reading[y]
      <3> SUFFICES ASSUME NEW y \in Attempts, LoopTenant(TenantOf[y]), reading[y] # NoReading
                   PROVE  usage'[TenantOf[y]] <= reading[y]
        OBVIOUS
      <3>1. TenantOf[y] \in Tenants /\ usage[TenantOf[y]] <= reading[y] /\ reading[y] \in Nat
        BY <1>t, KernelAssumption DEF BudgetInv, TypeOK
      <3> QED
        BY <2>2, <3>1
    <2> QED
      BY <1>t, <2>1, <2>3, <2>4 DEF BudgetInv, LoopTenant
  <1>10. CASE UNCHANGED vars
    BY <1>1, <1>10 DEF vars
  <1> QED
    BY <1>1, <1>3, <1>4, <1>5, <1>6, <1>7, <1>8, <1>9, <1>10, NextCases

\* The invariant holds in every reachable state.
THEOREM Invariance == Spec => []IInv
  <1>1. IInv /\ [Next]_vars => IInv'
    BY TypeStep, PlaceStep, KeyStep, ApprovalStep, BudgetStep DEF IInv
  <1> QED
    BY InitInvariant, <1>1, PTL DEF Spec

-----------------------------------------------------------------------------

\* The state of the gates and of their stores keeps its types.
THEOREM TypeCorrect == Spec => []TypeOK
  <1>1. IInv => TypeOK
    BY DEF IInv
  <1> QED
    BY Invariance, <1>1, PTL

\* However many attempts of the event loop share a key, and in whatever order
\* they arrive, fail and are retried, at most one of them reaches its operation
\* (k5_gate), also when threads look the key up and mark it in between.  Of the
\* threads no such thing holds: the store's check and its mark are two steps.
THEOREM AtMostOneAdmission == Spec => []OneAdmissionPerKey
  <1>1. IInv => OneAdmissionPerKey
    <2> SUFFICES ASSUME IInv, NEW i \in 1..NumGates, Order[i] = "K5",
                        NEW x \in Admitted \ Threads, NEW y \in Admitted \ Threads, KeyOf[x] = KeyOf[y]
                 PROVE  x = y
      BY DEF OneAdmissionPerKey
    <2>1. x \in Loop /\ y \in Loop /\ at[x] = NumGates + 1 /\ at[y] = NumGates + 1
      BY DEF Admitted, Loop, IInv, PlaceInv
    <2>2. Passed(x, "K5") /\ Passed(y, "K5")
      BY <2>1, NumGatesType DEF Passed
    <2> QED
      BY <2>1, <2>2 DEF IInv, KeyInv
  <1> QED
    BY Invariance, <1>1, PTL

\* An operation about which a human was asked runs only with that human's
\* approval: a timeout or a late decision never lets it run (k7_gate).
THEOREM ApprovalNeeded == Spec => []HumanDecides
  <1>1. IInv => HumanDecides
    BY DEF IInv, TypeOK, ApprovalInv, HumanDecides, Admitted
  <1> QED
    BY Invariance, <1>1, PTL

\* A tenant whose attempts all run in the event loop, where k3_gate runs from
\* reading to increment without interruption, never exceeds its budget,
\* whatever threads do to the counters of other tenants or reset.
THEOREM BudgetKept == Spec => []LoopWithinBudget
  <1>1. IInv => LoopWithinBudget
    BY DEF IInv, BudgetInv, LoopTenant, LoopWithinBudget
  <1> QED
    BY Invariance, <1>1, PTL

-----------------------------------------------------------------------------
(* The log.                                                                *)

\* The K6 gates before the gate n.
LogGates(n) == {i \in 1..NumGates : Order[i] = "K6" /\ i < n}

\* An attempt has one entry for each K6 gate it has passed.
LogInv == \A x \in Attempts : wal[x] = Cardinality(LogGates(at[x]))

\* Passing a gate adds one to the count if it is a K6 gate and nothing else.
LEMMA LogGatesNext ==
    ASSUME NEW n \in 1..NumGates
    PROVE  Cardinality(LogGates(n + 1)) =
               IF Order[n] = "K6" THEN Cardinality(LogGates(n)) + 1 ELSE Cardinality(LogGates(n))
  <1> USE NumGatesType
  <1>1. IsFiniteSet(LogGates(n))
    <2>1. IsFiniteSet(1..NumGates)
      BY FS_Interval
    <2>2. LogGates(n) \subseteq 1..NumGates
      BY DEF LogGates
    <2> QED
      BY <2>1, <2>2, FS_Subset
  <1>2. n \notin LogGates(n)
    BY DEF LogGates
  <1>3. LogGates(n + 1) = IF Order[n] = "K6" THEN LogGates(n) \union {n} ELSE LogGates(n)
    <2>1. \A i \in 1..NumGates : i < n + 1 <=> i < n \/ i = n
      OBVIOUS
    <2> QED
      BY <2>1 DEF LogGates
  <1> QED
    BY <1>1, <1>2, <1>3, FS_AddElement

\* Only K6 writes to the log, at its gate and for the attempt that passes it.
LEMMA LogStep == IInv /\ LogInv /\ [Next]_vars => LogInv'
  <1> SUFFICES ASSUME IInv, LogInv, [Next]_vars PROVE LogInv'
    OBVIOUS
  <1> USE NumGatesType
  <1>t. TypeOK /\ PlaceInv
    BY DEF IInv
  <1>1. CASE UNCHANGED <<at, wal>>
    BY <1>1 DEF LogInv, LogGates
  <1>2. ASSUME NEW x \in Attempts, Enter(x) PROVE LogInv'
    <2>1. Proceed(x, 1) /\ 1 \in 1..(NumGates + 1) /\ at[x] = 0 /\ wal' = wal
      BY <1>t, <1>2 DEF Enter, PlaceInv
    <2>2. at'[x] = 1 /\ \A y \in Attempts : y # x => at'[y] = at[y]
      BY <1>t, <2>1, ProceedPlace
    <2>3. LogGates(0) = LogGates(1)
      BY DEF LogGates
    <2> QED
      BY <2>1, <2>2, <2>3 DEF LogInv, LogGates
  <1>3. ASSUME NEW x \in Attempts, Passes(x) PROVE LogInv'
    <2>1. pc[x] \in {"gates", "marking", "waiting"} /\ Pass(x)
      BY <1>t, <1>3, PassesIsPass
    <2>2. /\ at[x] \in 1..NumGates
          /\ at'[x] = at[x] + 1
          /\ \A y \in Attempts : y # x => at'[y] = at[y]
      BY <1>t, <2>1, PassPlace
    <2>3. \/ Order[at[x]] # "K6" /\ wal' = wal
          \/ Order[at[x]] = "K6" /\ wal' = [wal EXCEPT ![x] = wal[x] + 1]
      BY <1>t, <1>3
      DEF Passes, PlaceInv, PlainGate, K1Pass, K2Pass, K4Pass, K8Pass, PlainPass, K3Increment,
          K5Mark, K6Append, K7Confident, K7Approved, At
    <2>4. wal'[x] = IF Order[at[x]] = "K6" THEN wal[x] + 1 ELSE wal[x]
      BY <1>t, <2>3 DEF TypeOK
    <2>5. \A y \in Attempts : y # x => wal'[y] = wal[y]
      BY <1>t, <2>3 DEF TypeOK
    <2> SUFFICES ASSUME NEW y \in Attempts PROVE wal'[y] = Cardinality(LogGates(at'[y]))
      BY DEF LogInv, LogGates
    <2>6. CASE y = x
      BY <2>2, <2>4, <2>6, LogGatesNext DEF LogInv
    <2>7. CASE y # x
      BY <2>2, <2>5, <2>7 DEF LogInv
    <2> QED
      BY <2>6, <2>7
  <1>4. ASSUME NEW x \in Attempts, Refuses(x) PROVE UNCHANGED <<at, wal>>
    BY <1>t, <1>4, RefusesPlace
  <1>5. ASSUME NEW x \in Attempts, K3Read(x) \/ K5New(x) \/ K7Emit(x) PROVE UNCHANGED <<at, wal>>
    BY <1>5 DEF K3Read, K5New, K7Emit
  <1>6. ASSUME NEW x \in Attempts, NEW outcome \in {"done", "failed"}, Operate(x, outcome)
        PROVE  UNCHANGED <<at, wal>>
    BY <1>6 DEF Operate
  <1>7. ASSUME NEW x \in Attempts, NEW action \in {"approve", "reject"}, Decide(x, action)
        PROVE  UNCHANGED <<at, wal>>
    BY <1>7 DEF Decide
  <1>8. ASSUME NEW t \in Tenants, ResetUsage(t) PROVE UNCHANGED <<at, wal>>
    BY <1>8 DEF ResetUsage
  <1>9. CASE UNCHANGED vars
    BY <1>1, <1>9 DEF vars
  <1> QED
    BY <1>1, <1>2, <1>3, <1>4, <1>5, <1>6, <1>7, <1>8, <1>9, NextCases

\* For any order and number of gates, an attempt has exactly one entry in the
\* log for each K6 gate it has passed, and it has passed all its gates when
\* its operation starts (k6_gate, KernelContext.__aenter__).
THEOREM LoggedFirst == Spec => []LoggedBeforeOperation
  <1>1. Init => LogInv
    <2> SUFFICES ASSUME Init, NEW x \in Attempts PROVE wal[x] = Cardinality(LogGates(at[x]))
      BY DEF LogInv
    <2>1. LogGates(0) = {}
      BY NumGatesType DEF LogGates
    <2> QED
      BY <2>1, FS_EmptySet DEF Init
  <1>2. IInv /\ LogInv => LoggedBeforeOperation
    BY DEF IInv, PlaceInv, LogInv, LogGates, LoggedBeforeOperation, Admitted
  <1> QED
    BY Invariance, LogStep, <1>1, <1>2, PTL DEF Spec

-----------------------------------------------------------------------------
(* The usage counters.                                                     *)

\* An attempt was charged at gates it has passed, so never twice at one.
ChargeInv ==
    /\ IsFiniteSet(charged)
    /\ \A c \in charged : c[2] < at[c[1]]
    /\ UsageIsCharged

\* Every summand is a natural.
LEMMA ChargeType ==
    ASSUME TypeOK, NEW t \in Tenants, IsFiniteSet(charged)
    PROVE  /\ IsFiniteSet(ChargedTo(t))
           /\ \A c \in charged : Charge[c] \in Nat
  <1>1. ChargedTo(t) \subseteq charged
    BY DEF ChargedTo
  <1>2. \A c \in Attempts \X (1..NumGates) : Charge[c] = Amount[c[1]] /\ Amount[c[1]] \in Nat
    BY KernelAssumption DEF Charge
  <1> QED
    BY <1>1, <1>2, FS_Subset DEF TypeOK

\* Nothing is charged, and no attempt goes back.
LEMMA ChargeFrame ==
    ASSUME TypeOK, ChargeInv, UNCHANGED <<usage, charged>>,
           \A y \in Attempts : at[y] <= at'[y], at' \in [Attempts -> 0..(NumGates + 1)]
    PROVE  ChargeInv'
  <1>1. \A c \in charged : c[1] \in Attempts /\ c[2] \in Nat
    BY NumGatesType DEF TypeOK
  <1>2. \A c \in charged : c[2] < at'[c[1]]
    <2> SUFFICES ASSUME NEW c \in charged PROVE c[2] < at'[c[1]]
      OBVIOUS
    <2>1. at[c[1]] \in Nat /\ at'[c[1]] \in Nat
      BY <1>1, NumGatesType DEF TypeOK
    <2> QED
      BY <1>1, <2>1 DEF ChargeInv
  <1> QED
    BY <1>2 DEF ChargeInv, UsageIsCharged, ChargedTo

\* K3 charges an attempt that was not charged at this gate before.
LEMMA ChargeIncrement ==
    ASSUME IInv, ChargeInv, NEW x \in Attempts, K3Increment(x)
    PROVE  ChargeInv'
  <1> USE NumGatesType
  <1> DEFINE e == <<x, at[x]>>
             u == TenantOf[x]
  <1>t. TypeOK /\ PlaceInv
    BY DEF IInv
  <1>1. /\ at[x] \in 1..NumGates
        /\ at'[x] = at[x] + 1
        /\ \A y \in Attempts : y # x => at'[y] = at[y]
    <2>1. pc[x] \in {"gates", "marking", "waiting"} /\ Pass(x)
      BY <1>t, PassesIsPass DEF Passes
    <2> QED
      BY <1>t, <2>1, PassPlace
  <1>2. charged' = charged \union {e} /\ usage' = [usage EXCEPT ![u] = Incremented(x)]
    BY DEF K3Increment
  <1>3. e \notin charged
    <2>1. \A c \in charged : c[2] < at[c[1]]
      BY DEF ChargeInv
    <2>2. ~ (at[x] < at[x])
      BY <1>1
    <2> QED
      BY <2>1, <2>2
  <1>4. IsFiniteSet(charged')
    BY <1>2, FS_AddElement DEF ChargeInv
  <1>5. \A c \in charged' : c[2] < at'[c[1]]
    <2>1. \A c \in charged : c[1] \in Attempts /\ c[2] \in Nat /\ at[c[1]] \in Nat
      BY <1>t DEF TypeOK
    <2>2. \A c \in charged : c[2] < at'[c[1]]
      <3> SUFFICES ASSUME NEW c \in charged PROVE c[2] < at'[c[1]]
        OBVIOUS
      <3>1. c[2] < at[c[1]] /\ c[1] \in Attempts /\ c[2] \in Nat /\ at[c[1]] \in Nat
        BY <2>1 DEF ChargeInv
      <3>2. at'[c[1]] \in {at[c[1]], at[c[1]] + 1}
        BY <1>1, <3>1
      <3> QED
        BY <3>1, <3>2
    <2> QED
      BY <1>1, <1>2, <2>2
  <1>6. ASSUME NEW t \in Tenants PROVE usage'[t] = SumFunctionOnSet(Charge, ChargedTo(t)')
    <2>1. usage[t] = SumFunctionOnSet(Charge, ChargedTo(t)) /\ usage[t] \in Nat
      BY <1>t DEF ChargeInv, UsageIsCharged, TypeOK
    <2>2. CASE t # u
      <3>1. usage'[t] = usage[t]
        BY <1>2, <1>t, <2>2 DEF TypeOK
      <3>2. ChargedTo(t)' = ChargedTo(t)
        BY <1>2, <2>2 DEF ChargedTo
      <3> QED
        BY <2>1, <3>1, <3>2
    <2>3. CASE t = u
      <3>1. usage'[t] = usage[t] + Amount[x]
        BY <1>2, <1>t, <2>3 DEF TypeOK, Incremented
      <3>2. ChargedTo(t)' = ChargedTo(t) \union {e} /\ e \notin ChargedTo(t)
        BY <1>2, <1>3, <2>3 DEF ChargedTo
      <3>3. IsFiniteSet(ChargedTo(t)) /\ \A c \in ChargedTo(t) : Charge[c] \in Nat
        BY <1>t, ChargeType DEF ChargeInv, ChargedTo
      <3>4. Charge[e] = Amount[x] /\ Amount[x] \in Nat
        BY <1>1, KernelAssumption DEF Charge
      <3>5. SumFunctionOnSet(Charge, ChargedTo(t) \union {e})
                = SumFunctionOnSet(Charge, ChargedTo(t)) + Charge[e]
        <4> HIDE DEF e
        <4> QED
          BY <3>2, <3>3, <3>4, SumAdd
      <3> QED
        BY <2>1, <3>1, <3>2, <3>4, <3>5
    <2> QED
      BY <2>2, <2>3
  <1>7. UsageIsCharged'
    BY <1>6 DEF UsageIsCharged
  <1> QED
    BY <1>4, <1>5, <1>7 DEF ChargeInv

\* A reset forgets the charges of its tenant and of nobody else.
LEMMA ChargeReset ==
    ASSUME TypeOK, ChargeInv, NEW u \in Tenants, ResetUsage(u)
    PROVE  ChargeInv'
  <1>1. /\ charged' = {c \in charged : TenantOf[c[1]] # u}
        /\ usage' = [usage EXCEPT ![u] = 0]
        /\ at' = at
    BY DEF ResetUsage
  <1>2. IsFiniteSet(charged')
    BY <1>1, FS_Subset DEF ChargeInv
  <1>3. \A c \in charged' : c[2] < at'[c[1]]
    BY <1>1 DEF ChargeInv
  <1>4. ASSUME NEW t \in Tenants PROVE usage'[t] = SumFunctionOnSet(Charge, ChargedTo(t)')
    <2>1. CASE t = u
      <3>1. ChargedTo(t)' = {}
        BY <1>1, <2>1 DEF ChargedTo
      <3> QED
        BY <1>1, <2>1, <3>1, SumEmpty DEF TypeOK
    <2>2. CASE t # u
      <3>1. ChargedTo(t)' = ChargedTo(t)
        BY <1>1, <2>2 DEF ChargedTo
      <3> QED
        BY <1>1, <2>2, <3>1 DEF TypeOK, ChargeInv, UsageIsCharged
    <2> QED
      BY <2>1, <2>2
  <1>5. UsageIsCharged'
    BY <1>4 DEF UsageIsCharged
  <1> QED
    BY <1>2, <1>3, <1>5 DEF ChargeInv

\* Every step charges what K3 lets pass and nothing else.
LEMMA ChargeStep == IInv /\ ChargeInv /\ [Next]_vars => ChargeInv'
  <1> SUFFICES ASSUME IInv, ChargeInv, [Next]_vars PROVE ChargeInv'
    OBVIOUS
  <1> USE NumGatesType
  <1>t. TypeOK /\ PlaceInv
    BY DEF IInv
  <1>1. CASE UNCHANGED <<at, usage, charged>>
    <2>1. at' \in [Attempts -> 0..(NumGates + 1)] /\ \A y \in Attempts : at[y] \in Nat
      BY <1>t, <1>1 DEF TypeOK
    <2> QED
      BY <1>t, <1>1, <2>1, ChargeFrame
  <1>2. ASSUME NEW x \in Attempts, Enter(x) PROVE ChargeInv'
    <2>1. Proceed(x, 1) /\ 1 \in 1..(NumGates + 1) /\ at[x] = 0 /\ UNCHANGED <<usage, charged>>
      BY <1>t, <1>2 DEF Enter, PlaceInv
    <2>2. /\ at'[x] = 1 /\ \A y \in Attempts : y # x => at'[y] = at[y]
          /\ at' \in [Attempts -> 0..(NumGates + 1)]
      BY <1>t, <2>1, ProceedPlace
    <2>3. \A y \in Attempts : at[y] \in Nat
      BY <1>t DEF TypeOK
    <2>4. \A y \in Attempts : at[y] <= at'[y]
      BY <2>1, <2>2, <2>3
    <2> QED
      BY <1>t, <2>1, <2>2, <2>4, ChargeFrame
  <1>3. ASSUME NEW x \in Attempts, Passes(x) PROVE ChargeInv'
    <2>1. pc[x] \in {"gates", "marking", "waiting"} /\ Pass(x)
      BY <1>t, <1>3, PassesIsPass
    <2>2. /\ at'[x] = at[x] + 1 /\ \A y \in Attempts : y # x => at'[y] = at[y]
          /\ at' \in [Attempts -> 0..(NumGates + 1)]
      BY <1>t, <2>1, PassPlace
    <2>3. \A y \in Attempts : at[y] \in Nat
      BY <1>t DEF TypeOK
    <2>4. \A y \in Attempts : at[y] <= at'[y]
      BY <2>2, <2>3
    <2>5. UNCHANGED <<usage, charged>> \/ K3Increment(x)
      BY <1>t, <1>3, PassesStores
    <2> QED
      BY <1>t, <2>2, <2>4, <2>5, ChargeFrame, ChargeIncrement
  <1>4. ASSUME NEW x \in Attempts, Refuses(x) PROVE UNCHANGED <<at, usage, charged>>
    BY <1>t, <1>4, RefusesPlace
  <1>5. ASSUME NEW x \in Attempts, K3Read(x) \/ K5New(x) \/ K7Emit(x) PROVE UNCHANGED <<at, usage, charged>>
    BY <1>5 DEF K3Read, K5New, K7Emit
  <1>6. ASSUME NEW x \in Attempts, NEW outcome \in {"done", "failed"}, Operate(x, outcome)
        PROVE  UNCHANGED <<at, usage, charged>>
    BY <1>6 DEF Operate
  <1>7. ASSUME NEW x \in Attempts, NEW action \in {"approve", "reject"}, Decide(x, action)
        PROVE  UNCHANGED <<at, usage, charged>>
    BY <1>7 DEF Decide
  <1>8. ASSUME NEW t \in Tenants, ResetUsage(t) PROVE ChargeInv'
    BY <1>t, <1>8, ChargeReset
  <1>9. CASE UNCHANGED vars
    BY <1>1, <1>9 DEF vars
  <1> QED
    BY <1>1, <1>2, <1>3, <1>4, <1>5, <1>6, <1>7, <1>8, <1>9, NextCases

\* For any attempts, amounts, tenants and gates, also with K3 among the gates
\* more than once: the usage of a tenant is what its attempts were charged since
\* its last reset (k3_check_bounds, InMemoryUsageTracker).
THEOREM NoChargeLost == Spec => []UsageIsCharged
  <1>1. Init => ChargeInv
    <2> SUFFICES ASSUME Init PROVE ChargeInv
      OBVIOUS
    <2>1. IsFiniteSet(charged) /\ charged = {}
      BY FS_EmptySet DEF Init
    <2>2. \A t \in Tenants : ChargedTo(t) = {} /\ usage[t] = 0
      BY <2>1 DEF ChargedTo, Init
    <2> QED
      BY <2>1, <2>2, SumEmpty DEF ChargeInv, UsageIsCharged
  <1>2. ChargeInv => UsageIsCharged
    BY DEF ChargeInv
  <1> QED
    BY Invariance, ChargeStep, <1>1, <1>2, PTL DEF Spec
=============================================================================
