---------------------------- MODULE KernelContext ----------------------------
(***************************************************************************)
(* The asynchronous context manager that wraps every boundary crossing     *)
(* (holly/kernel/context.py, holly/kernel/state_machine.py).               *)
(*                                                                         *)
(* A task enters a context with "async with", runs its operation in the    *)
(* body and leaves; in the body it may enter further contexts.  Contexts   *)
(* are shared objects: another task, or the same one, may try to enter a   *)
(* context that is in use.  A step ends where the code awaits: a gate, the *)
(* body, the exit cleanup.  FAULTED is entered and left between two awaits *)
(* and so is never seen by another task.                                   *)
(***************************************************************************)
EXTENDS Integers, Sequences

CONSTANTS
    Tasks,      \* asyncio tasks
    Contexts,   \* KernelContext objects
    Gates       \* how many gates each context was built with

ASSUME GatesAssumption == Gates \in [Contexts -> Nat]

KernelState == {"IDLE", "ENTERING", "ACTIVE", "EXITING", "FAULTED"}

VARIABLES
    state,    \* _validator.state of each context
    passed,   \* gates passed in the current or latest entry
    stack,    \* the with-blocks a task is in, innermost last
    raising   \* an exception travels up the task

vars == <<state, passed, stack, raising>>

Init ==
    /\ state = [c \in Contexts |-> "IDLE"]
    /\ passed = [c \in Contexts |-> 0]
    /\ stack = [t \in Tasks |-> <<>>]
    /\ raising = [t \in Tasks |-> FALSE]

\* _EVENT_TRANSITION: the state an event requires and the state it leads to.
EventTransition ==
    [AENTER         |-> <<"IDLE", "ENTERING">>,
     ALL_GATES_PASS |-> <<"ENTERING", "ACTIVE">>,
     GATE_FAIL      |-> <<"ENTERING", "FAULTED">>,
     OP_COMPLETE    |-> <<"ACTIVE", "EXITING">>,
     ASYNC_CANCEL   |-> <<"ACTIVE", "FAULTED">>,
     EXIT_OK        |-> <<"EXITING", "IDLE">>,
     EXIT_FAIL      |-> <<"EXITING", "FAULTED">>,
     EXC_CONSUMED   |-> <<"FAULTED", "IDLE">>]

\* Mutant: the required state is not looked at.
AcceptsAlways(s, event) == TRUE

Accepts(s, event) == EventTransition[event][1] = s

\* advance(event); an event that is not accepted raises and changes nothing.
Advance(s, event) == IF Accepts(s, event) THEN EventTransition[event][2] ELSE s

InBlock(t) == stack[t] # <<>>

Innermost(t) == stack[t][Len(stack[t])]

Outer(t) == SubSeq(stack[t], 1, Len(stack[t]) - 1)

\* The task executes code of its own: the body of its innermost block, or
\* code outside of every block.
Runs(t) == ~raising[t] /\ (InBlock(t) => state[Innermost(t)] = "ACTIVE")

\* Mutant: the operation may start with one gate outstanding.
AllButOnePassed(c, n) == n + 1 >= Gates[c]

AllPassed(c, n) == n = Gates[c]

\* The state after n gates of c have passed.
AfterGates(c, n, s) == IF AllPassed(c, n) THEN Advance(s, "ALL_GATES_PASS") ELSE s

\* __aenter__ up to the first gate.
Enter(t, c) ==
    /\ Runs(t)
    /\ Accepts(state[c], "AENTER")
    /\ passed' = [passed EXCEPT ![c] = 0]
    /\ state' = [state EXCEPT ![c] = AfterGates(c, 0, Advance(@, "AENTER"))]
    /\ stack' = [stack EXCEPT ![t] = Append(@, c)]
    /\ UNCHANGED raising

\* __aenter__ of a context in use: KernelInvariantError, raised before the try.
EnterRefused(t, c) ==
    /\ Runs(t)
    /\ ~Accepts(state[c], "AENTER")
    /\ raising' = [raising EXCEPT ![t] = TRUE]
    /\ UNCHANGED <<state, passed, stack>>

InGate(t) == InBlock(t) /\ state[Innermost(t)] = "ENTERING"

GatePasses(t) ==
    /\ InGate(t)
    /\ LET c == Innermost(t) IN
       /\ passed' = [passed EXCEPT ![c] = @ + 1]
       /\ state' = [state EXCEPT ![c] = AfterGates(c, passed[c] + 1, @)]
    /\ UNCHANGED <<stack, raising>>

\* The task leaves its innermost block after the events and goes on raising.
LeaveRaising(t, fault) ==
    /\ state' = [state EXCEPT ![Innermost(t)] = Advance(Advance(@, fault), "EXC_CONSUMED")]
    /\ stack' = [stack EXCEPT ![t] = Outer(t)]
    /\ raising' = [raising EXCEPT ![t] = TRUE]
    /\ UNCHANGED passed

\* Mutant: the state machine is left in ENTERING.
GateFailsUnhandled(t) ==
    /\ InGate(t)
    /\ stack' = [stack EXCEPT ![t] = Outer(t)]
    /\ raising' = [raising EXCEPT ![t] = TRUE]
    /\ UNCHANGED <<state, passed>>

\* A gate raises, or the task is cancelled while it awaits one.
GateFails(t) == InGate(t) /\ LeaveRaising(t, "GATE_FAIL")

\* The body raises, or the task is cancelled in it.
BodyRaises(t) ==
    /\ Runs(t) /\ InBlock(t)
    /\ raising' = [raising EXCEPT ![t] = TRUE]
    /\ UNCHANGED <<state, passed, stack>>

\* Mutant: __aexit__ returns True and so swallows the exception.
ExitSuppressing(t) ==
    /\ raising[t] /\ InBlock(t)
    /\ state' = [state EXCEPT ![Innermost(t)] =
                    Advance(Advance(@, "ASYNC_CANCEL"), "EXC_CONSUMED")]
    /\ stack' = [stack EXCEPT ![t] = Outer(t)]
    /\ raising' = [raising EXCEPT ![t] = FALSE]
    /\ UNCHANGED passed

\* __aexit__ with an exception.
ExitRaising(t) == raising[t] /\ InBlock(t) /\ LeaveRaising(t, "ASYNC_CANCEL")

\* Code around the innermost block, or the application, handles the exception.
Catch(t) ==
    /\ raising[t]
    /\ raising' = [raising EXCEPT ![t] = FALSE]
    /\ UNCHANGED <<state, passed, stack>>

\* The body of c ends normally: __aexit__ up to _run_exit_cleanup.
OperationCompletes(t, c) ==
    /\ Runs(t) /\ InBlock(t) /\ Innermost(t) = c
    /\ state' = [state EXCEPT ![c] = Advance(@, "OP_COMPLETE")]
    /\ UNCHANGED <<passed, stack, raising>>

InCleanup(t) == InBlock(t) /\ state[Innermost(t)] = "EXITING"

CleanupSucceeds(t) ==
    /\ InCleanup(t)
    /\ state' = [state EXCEPT ![Innermost(t)] = Advance(@, "EXIT_OK")]
    /\ stack' = [stack EXCEPT ![t] = Outer(t)]
    /\ UNCHANGED <<passed, raising>>

\* The cleanup raises, or the task is cancelled in it.
CleanupFails(t) == InCleanup(t) /\ LeaveRaising(t, "EXIT_FAIL")

Next ==
    \E t \in Tasks :
        \/ \E c \in Contexts : Enter(t, c) \/ EnterRefused(t, c) \/ OperationCompletes(t, c)
        \/ GatePasses(t) \/ GateFails(t)
        \/ BodyRaises(t) \/ ExitRaising(t) \/ Catch(t)
        \/ CleanupSucceeds(t) \/ CleanupFails(t)

Spec == Init /\ [][Next]_vars

\* Gates, cleanups and the interpreter's unwinding come to an end, and so
\* does an operation that gets to run again and again.
Fairness ==
    \A t \in Tasks :
       /\ WF_vars(GatePasses(t) \/ GateFails(t))
       /\ WF_vars(CleanupSucceeds(t) \/ CleanupFails(t))
       /\ WF_vars(ExitRaising(t) \/ Catch(t))
       /\ \A c \in Contexts : SF_vars(OperationCompletes(t, c))

FairSpec == Spec /\ Fairness

-----------------------------------------------------------------------------

TypeOK ==
    /\ state \in [Contexts -> KernelState]
    /\ passed \in [Contexts -> Nat] /\ \A c \in Contexts : passed[c] <= Gates[c]
    /\ stack \in [Tasks -> Seq(Contexts)]
    /\ raising \in [Tasks -> BOOLEAN]

\* A context is never used by two tasks, nor twice by one: however entries,
\* refused entries, failures and cancellations interleave, each context has
\* one place at most.
UsedOnce ==
    \A t, u \in Tasks : \A i \in 1..Len(stack[t]), j \in 1..Len(stack[u]) :
        stack[t][i] = stack[u][j] => t = u /\ i = j

\* A context is out of IDLE exactly while some task is in its block: no path
\* out of a block leaves the state machine behind, and nobody outside finds
\* a context FAULTED.
IdleWhenLeft ==
    \A c \in Contexts :
        /\ state[c] # "IDLE" <=> \E t \in Tasks : \E i \in 1..Len(stack[t]) : stack[t][i] = c
        /\ state[c] # "FAULTED"

\* The operations of a task run inside contexts whose gates have all passed
\* in this very entry: every block but the innermost is ACTIVE, and a context
\* is ACTIVE or EXITING only with all gates passed.
OperationsAreGated ==
    /\ \A c \in Contexts : state[c] \in {"ACTIVE", "EXITING"} => passed[c] = Gates[c]
    /\ \A t \in Tasks : \A i \in 1..(Len(stack[t]) - 1) : state[stack[t][i]] = "ACTIVE"

\* "FAULTED is never silently discarded; exception always propagates": a
\* block is left without an exception only at the end of a normal exit.
ExceptionsPropagate ==
    [][\A t \in Tasks :
          Len(stack'[t]) < Len(stack[t]) /\ ~raising'[t] =>
              state[Innermost(t)] = "EXITING"]_vars

\* "EventuallyIdle": every context is IDLE again and again.
EventuallyIdle == \A c \in Contexts : []<>(state[c] = "IDLE")
=============================================================================
