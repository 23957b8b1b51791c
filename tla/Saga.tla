-------------------------------- MODULE Saga --------------------------------
(***************************************************************************)
(* What the workflow engine promises about the effects of a saga, with no  *)
(* loop, order, task state or queue: effects appear only on top of their   *)
(* dependencies, an execution commits with all of them or takes them back  *)
(* from the top down, and one that is given up says so.                    *)
(*                                                                         *)
(* external behaviour only: WorkflowEngine is shown to implement it.       *)
(***************************************************************************)
CONSTANTS Executions, Tasks, Dependencies, Compensable

VARIABLES
    mode,     \* forward, undoing, committed, rolledBack or abandoned
    effects,  \* tasks whose effect is in place
    stuck     \* effects whose compensation was tried and failed

sagaVars == <<mode, effects, stuck>>

\* What a rollback still has to take back.
Undoable(fx, sk) == (fx \intersect Compensable) \ sk

SagaInit ==
    /\ mode = [e \in Executions |-> "forward"]
    /\ effects = [e \in Executions |-> {}]
    /\ stuck = [e \in Executions |-> {}]

\* A rollback is over when nothing undoable is left, and not before.
Continue(e, fx, sk) ==
    /\ effects' = [effects EXCEPT ![e] = fx]
    /\ stuck' = [stuck EXCEPT ![e] = sk]
    /\ \E m \in {"undoing", "rolledBack", "abandoned"} :
          /\ m = "undoing" => Undoable(fx, sk) # {}
          /\ m = "rolledBack" => Undoable(fx, sk) = {}
          /\ mode' = [mode EXCEPT ![e] = m]

\* A task takes effect; the last one may commit the saga.
Apply(e, t) ==
    /\ mode[e] = "forward"
    /\ t \notin effects[e]
    /\ Dependencies[t] \subseteq effects[e]
    /\ effects' = [effects EXCEPT ![e] = @ \union {t}]
    /\ \/ effects'[e] # Tasks /\ UNCHANGED mode
       \/ effects'[e] = Tasks /\ mode' = [mode EXCEPT ![e] = "committed"]
    /\ UNCHANGED stuck

\* Something fails: the saga turns round, perhaps after one more effect.
Fail(e) ==
    /\ mode[e] = "forward"
    /\ \/ Continue(e, effects[e], {})
       \/ \E t \in Tasks : /\ Dependencies[t] \subseteq effects[e]
                           /\ Continue(e, effects[e] \union {t}, {})

\* An effect is taken back, once nothing undoable depends on it.
Undo(e, t) ==
    /\ mode[e] = "undoing"
    /\ t \in Undoable(effects[e], stuck[e])
    /\ \A u \in Undoable(effects[e], stuck[e]) : t \notin Dependencies[u]
    /\ \/ Continue(e, effects[e] \ {t}, stuck[e])
       \/ Continue(e, effects[e], stuck[e] \union {t})

\* The execution is given up with its effects in place.
Abandon(e) ==
    /\ mode[e] \in {"forward", "undoing"}
    /\ mode' = [mode EXCEPT ![e] = "abandoned"]
    /\ UNCHANGED <<effects, stuck>>

SagaNext ==
    \E e \in Executions :
        \/ Fail(e)
        \/ Abandon(e)
        \/ \E t \in Tasks : Apply(e, t) \/ Undo(e, t)

SagaSpec == SagaInit /\ [][SagaNext]_sagaVars
=============================================================================
