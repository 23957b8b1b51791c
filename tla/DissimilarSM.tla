----------------------------- MODULE DissimilarSM -----------------------------
(***************************************************************************)
(* The independent verifier of holly/kernel/dissimilar_sm.py beside the    *)
(* contexts it watches.  A TraceCollector records the state of a context   *)
(* where it can be seen: before the entry, in the first gate, in the body, *)
(* in the exit cleanup, and when the block has been left.  A trace is that *)
(* of the latest crossing.                                                 *)
(***************************************************************************)
EXTENDS KernelContext

VARIABLE trace      \* TraceCollector._states, one collector per context

tracedVars == <<state, passed, stack, raising, trace>>

ValidStates == {"IDLE", "ENTERING", "ACTIVE", "EXITING", "FAULTED"}

ValidTransitions ==
    {<<"IDLE", "ENTERING">>, <<"ENTERING", "ACTIVE">>, <<"ENTERING", "FAULTED">>,
     <<"ACTIVE", "EXITING">>, <<"ACTIVE", "FAULTED">>, <<"EXITING", "IDLE">>,
     <<"EXITING", "FAULTED">>, <<"FAULTED", "IDLE">>}

\* The steps of a trace at which a check finds a violation.
check_valid_state_names(tr) == {i \in DOMAIN tr : tr[i] \notin ValidStates}

check_initial_state(tr) == {i \in {1} \intersect DOMAIN tr : tr[i] # "IDLE"}

check_terminal_state(tr) == {i \in {Len(tr)} \intersect DOMAIN tr : tr[i] # "IDLE"}

\* Mutant: states are checked, their order is not.
check_no_transition(tr) == {}

check_each_transition(tr) ==
    {i \in 1 .. (Len(tr) - 1) : <<tr[i], tr[i + 1]>> \notin ValidTransitions}

\* verify_execution_traces finds no violation, or raises none.
Verified(tr) ==
    /\ check_initial_state(tr) = {} /\ check_terminal_state(tr) = {}
    /\ check_valid_state_names(tr) = {} /\ check_each_transition(tr) = {}

-----------------------------------------------------------------------------

Record(c) ==
    IF state[c] = "IDLE" /\ state'[c] # "IDLE" THEN <<"IDLE", state'[c]>>
    ELSE IF state'[c] # state[c] THEN Append(trace[c], state'[c])
    ELSE trace[c]

TracedInit == Init /\ trace = [c \in Contexts |-> <<"IDLE">>]

TracedNext == Next /\ trace' = [c \in Contexts |-> Record(c)]

TracedSpec == TracedInit /\ [][TracedNext]_tracedVars

FairTracedSpec == TracedSpec /\ Fairness

-----------------------------------------------------------------------------

\* When a context that has gates is left, the verifier accepts its trace
\* exactly if the operation had come to its end: it misses no crossing that
\* was cut short, whatever cut it short, and takes a cleanup that fails for
\* one that succeeds.
VerdictIsCompletion ==
    [][\A c \in Contexts :
          Gates[c] > 0 /\ state[c] # "IDLE" /\ state'[c] = "IDLE" =>
             (Verified(trace'[c]) <=> state[c] = "EXITING")]_tracedVars

\* "Real KernelContext traces pass the dissimilar state machine verifier":
\* those of contexts that have gates and are in no block.
RealTracesPass ==
    \A c \in Contexts : Gates[c] > 0 /\ state[c] = "IDLE" => Verified(trace[c])
=============================================================================
