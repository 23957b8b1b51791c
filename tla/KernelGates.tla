----------------------------- MODULE KernelGates -----------------------------
(***************************************************************************)
(* The gates K1 to K8 (holly/kernel/k1.py ... k8.py) that a KernelContext  *)
(* runs before an operation, and the stores they share: the usage counters *)
(* of K3, the keys of K5, the write-ahead log of K6, the approval requests *)
(* of K7.                                                                  *)
(*                                                                         *)
(* An attempt is one entry of a context with one payload; a retry is       *)
(* another attempt with the same key.  An attempt runs in a thread of its  *)
(* own or as a task of one event loop.  Between two statements of a thread *)
(* anything may happen, except where a lock is held: K3's tracker holds    *)
(* one, K5's store does not.  In the loop, K3 and K5 run to their ends     *)
(* once they have begun, and K7 keeps the loop until it has its decision;  *)
(* other gates of a context may suspend, so that tasks change between      *)
(* gates.  K1, K2, K4 and K8 only pass or raise.                           *)
(***************************************************************************)
EXTENDS Integers, Sequences, FiniteSets, Functions

CONSTANTS
    Attempts,
    Tenants,
    TenantOf,   \* of an attempt
    KeyOf,      \* K5's key of the attempt's payload
    Amount,     \* what the attempt asks K3 for
    Budget,     \* of a tenant; BudgetRegistry never changes an entry
    Order,      \* the gates, in the order the context was given them
    Threads     \* attempts that run in threads; the others share one event loop

GateNames == {"K1", "K2", "K3", "K4", "K5", "K6", "K7", "K8"}

ASSUME KernelAssumption ==
    /\ TenantOf \in [Attempts -> Tenants]
    /\ Amount \in [Attempts -> Nat]
    /\ Budget \in [Tenants -> Nat]
    /\ Order \in Seq(GateNames)
    /\ Threads \subseteq Attempts

Keys == {KeyOf[x] : x \in Attempts}

NumGates == Len(Order)

\* No usage has been read.
NoReading == -1

VARIABLES
    pc,        \* where an attempt is
    at,        \* which gate of Order comes next, 0 before the entry
    reading,   \* the usage that K3 has read and not yet acted upon
    usage,     \* InMemoryUsageTracker._usage
    charged,   \* history: <<attempt, gate>> where K3 has charged since the last reset
    seen,      \* InMemoryIdempotencyStore._seen
    wal,       \* how many entries of an attempt the log has
    approval   \* what has become of the attempt's approval request

vars == <<pc, at, reading, usage, charged, seen, wal, approval>>

Init ==
    /\ pc = [x \in Attempts |-> "idle"]
    /\ at = [x \in Attempts |-> 0]
    /\ reading = [x \in Attempts |-> NoReading]
    /\ usage = [t \in Tenants |-> 0]
    /\ charged = {}
    /\ seen = {}
    /\ wal = [x \in Attempts |-> 0]
    /\ approval = [x \in Attempts |-> "none"]

Loop == Attempts \ Threads

\* A gate of z has begun that does not suspend.
Busy(z) == reading[z] # NoReading \/ pc[z] \in {"waiting", "marking"}

\* No task of the loop but x keeps the loop to itself.
Scheduled(x) == x \in Threads \/ \A z \in Loop \ {x} : ~Busy(z)

At(x, gate) == pc[x] = "gates" /\ Order[at[x]] = gate

\* x goes on to the gate n, or to its operation after the last.
Proceed(x, n) ==
    /\ at' = [at EXCEPT ![x] = n]
    /\ pc' = [pc EXCEPT ![x] = IF n > NumGates THEN "operating" ELSE "gates"]

Pass(x) == Proceed(x, at[x] + 1)

Refuse(x, as) == pc' = [pc EXCEPT ![x] = as] /\ UNCHANGED at

Enter(x) ==
    /\ Scheduled(x)
    /\ pc[x] = "idle"
    /\ Proceed(x, 1)
    /\ UNCHANGED <<reading, usage, charged, seen, wal, approval>>

\* A gate that changes none of the stores lets the attempt pass.
PlainPass(x, gate) ==
    /\ Scheduled(x)
    /\ At(x, gate)
    /\ Pass(x)
    /\ UNCHANGED <<reading, usage, charged, seen, wal, approval>>

\* The payload fits its schema; the claims grant what is asked for; the trace
\* is put into the context; the output satisfies its predicate.
K1Pass(x) == PlainPass(x, "K1")
K2Pass(x) == PlainPass(x, "K2")
K4Pass(x) == PlainPass(x, "K4")
K8Pass(x) == PlainPass(x, "K8")

PlainGate(x) == K1Pass(x) \/ K2Pass(x) \/ K4Pass(x) \/ K8Pass(x)

\* Any gate raises for a reason of its own, or its task is cancelled: K3 may
\* find its tracker unavailable before it reads or before it increments.
GateRaises(x) ==
    /\ pc[x] \in {"gates", "waiting"}
    /\ Scheduled(x)
    /\ Refuse(x, "refused")
    /\ reading' = [reading EXCEPT ![x] = NoReading]
    /\ UNCHANGED <<usage, charged, seen, wal, approval>>

\* get_usage, under the tracker's lock.
K3Read(x) ==
    /\ Scheduled(x)
    /\ At(x, "K3") /\ reading[x] = NoReading
    /\ reading' = [reading EXCEPT ![x] = usage[TenantOf[x]]]
    /\ UNCHANGED <<pc, at, usage, charged, seen, wal, approval>>

\* Mutant: the limit is let slip by one.
FitsOffByOne(x) == reading[x] + Amount[x] <= Budget[TenantOf[x]] + 1

Fits(x) == reading[x] + Amount[x] <= Budget[TenantOf[x]]

Incremented(x) == usage[TenantOf[x]] + Amount[x]

\* The check, and increment under the tracker's lock.
K3Increment(x) ==
    /\ Scheduled(x)
    /\ reading[x] # NoReading
    /\ Fits(x)
    /\ usage' = [usage EXCEPT ![TenantOf[x]] = Incremented(x)]
    /\ charged' = charged \union {<<x, at[x]>>}
    /\ reading' = [reading EXCEPT ![x] = NoReading]
    /\ Pass(x)
    /\ UNCHANGED <<seen, wal, approval>>

\* Mutant: the usage is charged although it is refused.
K3ChargesFirst(x) ==
    /\ Scheduled(x)
    /\ reading[x] # NoReading
    /\ ~Fits(x)
    /\ usage' = [usage EXCEPT ![TenantOf[x]] = Incremented(x)]
    /\ reading' = [reading EXCEPT ![x] = NoReading]
    /\ Refuse(x, "refused")
    /\ UNCHANGED <<charged, seen, wal, approval>>

K3Exceeded(x) ==
    /\ Scheduled(x)
    /\ reading[x] # NoReading
    /\ ~Fits(x)
    /\ reading' = [reading EXCEPT ![x] = NoReading]
    /\ Refuse(x, "refused")
    /\ UNCHANGED <<usage, charged, seen, wal, approval>>

\* reset(tenant_id) at the end of a budget period.
ResetUsage(t) ==
    /\ Threads # {} \/ \A z \in Loop : ~Busy(z)
    /\ usage[t] # 0
    /\ usage' = [usage EXCEPT ![t] = 0]
    /\ charged' = {c \in charged : TenantOf[c[1]] # t}
    /\ UNCHANGED <<pc, at, reading, seen, wal, approval>>

\* Mutant: the key is looked up and not recorded.
MarkNothing(k) == UNCHANGED seen

Mark(k) == seen' = seen \union {k}

\* check_and_mark finds that the key is new.  The store in memory takes no
\* lock, so that between this and the next step a thread can be overtaken.
K5New(x) ==
    /\ Scheduled(x)
    /\ At(x, "K5") /\ KeyOf[x] \notin seen
    /\ pc' = [pc EXCEPT ![x] = "marking"]
    /\ UNCHANGED <<at, reading, usage, charged, seen, wal, approval>>

\* It adds the key, whether or not somebody else has added it by now.
K5Mark(x) ==
    /\ Scheduled(x)
    /\ pc[x] = "marking"
    /\ Mark(KeyOf[x])
    /\ Pass(x)
    /\ UNCHANGED <<reading, usage, charged, wal, approval>>

K5Duplicate(x) ==
    /\ Scheduled(x)
    /\ At(x, "K5") /\ KeyOf[x] \in seen
    /\ Refuse(x, "duplicate")
    /\ UNCHANGED <<reading, usage, charged, seen, wal, approval>>

\* Mutant: a failed write is logged and let pass.
K6AppendOrNot(x) ==
    /\ Scheduled(x)
    /\ At(x, "K6")
    /\ wal' \in {wal, [wal EXCEPT ![x] = @ + 1]}
    /\ Pass(x)
    /\ UNCHANGED <<reading, usage, charged, seen, approval>>

\* k6_write_entry.
K6Append(x) ==
    /\ Scheduled(x)
    /\ At(x, "K6")
    /\ wal' = [wal EXCEPT ![x] = @ + 1]
    /\ Pass(x)
    /\ UNCHANGED <<reading, usage, charged, seen, approval>>

\* The score reaches the threshold.
K7Confident(x) ==
    /\ Scheduled(x)
    /\ At(x, "K7")
    /\ Pass(x)
    /\ UNCHANGED <<reading, usage, charged, seen, wal, approval>>

\* The score is too low: emit, then wait_for_decision.
K7Emit(x) ==
    /\ Scheduled(x)
    /\ At(x, "K7")
    /\ approval' = [approval EXCEPT ![x] = "pending"]
    /\ pc' = [pc EXCEPT ![x] = "waiting"]
    /\ UNCHANGED <<at, reading, usage, charged, seen, wal>>

\* A reviewer decides, perhaps when nobody waits any more.
Decide(x, action) ==
    /\ approval[x] = "pending"
    /\ approval' = [approval EXCEPT ![x] = action]
    /\ UNCHANGED <<pc, at, reading, usage, charged, seen, wal>>

K7Approved(x) ==
    /\ Scheduled(x)
    /\ pc[x] = "waiting" /\ approval[x] = "approve"
    /\ Pass(x)
    /\ UNCHANGED <<reading, usage, charged, seen, wal, approval>>

\* Mutants: there is no timeout; a timeout lets the operation pass.
K7DeniedByHumanOnly(x) ==
    /\ Scheduled(x)
    /\ pc[x] = "waiting" /\ approval[x] = "reject"
    /\ Refuse(x, "refused")
    /\ UNCHANGED <<reading, usage, charged, seen, wal, approval>>

K7TimeoutOpens(x) ==
    /\ Scheduled(x)
    /\ pc[x] = "waiting" /\ approval[x] \in {"reject", "pending"}
    /\ IF approval[x] = "reject" THEN Refuse(x, "refused") ELSE Pass(x)
    /\ UNCHANGED <<reading, usage, charged, seen, wal, approval>>

\* Rejection, or ApprovalTimeout while nobody has decided.
K7Denied(x) ==
    /\ Scheduled(x)
    /\ pc[x] = "waiting" /\ approval[x] \in {"reject", "pending"}
    /\ Refuse(x, "refused")
    /\ UNCHANGED <<reading, usage, charged, seen, wal, approval>>

\* The operation ends; the exit of a context touches none of the stores.
Operate(x, outcome) ==
    /\ Scheduled(x)
    /\ pc[x] = "operating"
    /\ pc' = [pc EXCEPT ![x] = outcome]
    /\ UNCHANGED <<at, reading, usage, charged, seen, wal, approval>>

\* What the attempt itself does once it has begun.
Progress(x) ==
    \/ PlainGate(x)
    \/ K3Read(x) \/ K3Increment(x) \/ K3Exceeded(x)
    \/ K5New(x) \/ K5Mark(x) \/ K5Duplicate(x)
    \/ K6Append(x)
    \/ K7Confident(x) \/ K7Emit(x) \/ K7Approved(x) \/ K7Denied(x)
    \/ \E outcome \in {"done", "failed"} : Operate(x, outcome)

Next ==
    \/ \E x \in Attempts :
          \/ Enter(x)
          \/ Progress(x) \/ GateRaises(x)
          \/ \E action \in {"approve", "reject"} : Decide(x, action)
    \/ \E t \in Tenants : ResetUsage(t)

Spec == Init /\ [][Next]_vars

\* Gates return, the approval channel times out, operations end.
FairSpec == Spec /\ \A x \in Attempts : WF_vars(Progress(x))

-----------------------------------------------------------------------------

Ended == {"refused", "duplicate", "done", "failed"}

\* Attempts whose operation was allowed to run.
Admitted == {x \in Attempts : pc[x] \in {"operating", "done", "failed"}}

TypeOK ==
    /\ pc \in [Attempts -> {"idle", "gates", "marking", "waiting", "operating"} \union Ended]
    /\ at \in [Attempts -> 0..(NumGates + 1)]
    /\ reading \in [Attempts -> Nat \union {NoReading}]
    /\ usage \in [Tenants -> Nat]
    /\ charged \in SUBSET (Attempts \X (1..NumGates))
    /\ seen \in SUBSET Keys
    /\ wal \in [Attempts -> Nat]
    /\ approval \in [Attempts -> {"none", "pending", "approve", "reject"}]

Passed(x, gate) == \E i \in 1..NumGates : Order[i] = gate /\ i < at[x]

\* "Call store.check_and_mark(key) atomically" (k5_gate), of the event loop:
\* of all its attempts with one key, retries and concurrent duplicates, at
\* most one is ever let through to its operation, in whatever order they
\* arrive and fail and whatever threads do with the same key meanwhile, if K5
\* is among the gates.  A thread may be let through beside it.
OneAdmissionPerKey ==
    (\E i \in 1..NumGates : Order[i] = "K5") =>
        \A x, y \in Admitted \ Threads : KeyOf[x] = KeyOf[y] => x = y

\* "WALFinality: every completed crossing produces exactly one entry", and
\* the entry is there before the operation starts: an attempt has as many
\* entries as it has passed K6 gates.
LoggedBeforeOperation ==
    \A x \in Attempts :
        /\ wal[x] = Cardinality({i \in 1..NumGates : Order[i] = "K6" /\ i < at[x]})
        /\ x \in Admitted => at[x] = NumGates + 1

\* An operation for which a human was asked runs only if that very request
\* was approved: not by default, not late and not on an older approval.
HumanDecides ==
    \A x \in Admitted : approval[x] # "none" => approval[x] = "approve"

Charge == [c \in Attempts \X (1..NumGates) |-> Amount[c[1]]]

ChargedTo(t) == {c \in charged : TenantOf[c[1]] = t}

\* The usage of a tenant is what its attempts were charged since the last
\* reset, at each K3 gate they passed: no concurrent increment is lost.
UsageIsCharged ==
    \A t \in Tenants : usage[t] = SumFunctionOnSet(Charge, ChargedTo(t))

\* "No operation exceeds allocated budget": a tenant whose attempts all run
\* in the event loop keeps within its budget, whatever threads do for others.
LoopWithinBudget ==
    \A t \in Tenants :
        (\A x \in Threads : TenantOf[x] # t) => usage[t] <= Budget[t]

\* "Usage increment is atomic (no race conditions with concurrent requests)":
\* every tenant keeps within its budget.
WithinBudget == \A t \in Tenants : usage[t] <= Budget[t]

\* Every attempt that enters comes to an end, whatever its gates and its
\* reviewers do.
AttemptsEnd == \A x \in Attempts : pc[x] # "idle" ~> pc[x] \in Ended
=============================================================================
