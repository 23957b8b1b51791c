-------------------------- MODULE TopologicalSort --------------------------
(***************************************************************************)
(* WorkflowDAG (holly/engine/workflow_engine.py): the DAG is built with    *)
(* add_edge, then compiled; topological_sort yields the order in which     *)
(* WorkflowEngine executes the tasks, or reports a cycle.                  *)
(***************************************************************************)
EXTENDS Integers, SequencesExt

CONSTANTS
    Tasks,      \* dag.tasks
    TaskOrder,  \* the order the tasks were added in
    MaxEdges    \* bound: edges the DAG may get

\* A dict holds each task once.
TasksListed ==
    /\ TaskOrder \in Seq(Tasks)
    /\ \A t \in Tasks : \E i \in 1..Len(TaskOrder) : TaskOrder[i] = t
    /\ \A i, j \in 1..Len(TaskOrder) : TaskOrder[i] = TaskOrder[j] => i = j

ASSUME TaskOrderAssumption == TasksListed

VARIABLES
    stage,      \* building, sorting, sorted or cycle
    edges,      \* dag.edges, pairs of tasks
    in_degree,  \* per task, its edges not yet followed
    queue,      \* tasks without any left
    sorted      \* sorted_tasks

vars == <<stage, edges, in_degree, queue, sorted>>

get_dependencies(t) == {s \in Tasks : \E i \in 1..Len(edges) : edges[i] = <<s, t>>}

get_dependents(s) == {t \in Tasks : \E i \in 1..Len(edges) : edges[i] = <<s, t>>}

Init ==
    /\ stage = "building"
    /\ edges = <<>>
    /\ in_degree = [t \in Tasks |-> 0]
    /\ queue = <<>>
    /\ sorted = <<>>

\* WorkflowEdge refuses a self-loop; add_edge accepts an edge it already has.
AddEdge(s, t) ==
    /\ stage = "building"
    /\ Len(edges) < MaxEdges
    /\ s # t
    /\ edges' = Append(edges, <<s, t>>)
    /\ UNCHANGED <<stage, in_degree, queue, sorted>>

\* Mutant: the last edge is not counted.
InDegreeShort(t) == Cardinality({i \in 1..(Len(edges) - 1) : edges[i][2] = t})

InDegree(t) == Cardinality({i \in 1..Len(edges) : edges[i][2] = t})

\* The tasks of a list stand in the order they were added in.
AsAdded(q) ==
    \A i, j \in 1..Len(q) : i < j =>
        \E k, l \in 1..Len(TaskOrder) : k < l /\ TaskOrder[k] = q[i] /\ TaskOrder[l] = q[j]

Compile ==
    /\ stage = "building"
    /\ stage' = "sorting"
    /\ in_degree' = [t \in Tasks |-> InDegree(t)]
    /\ \E q \in SetToSeqs({t \in Tasks : InDegree(t) = 0}) : AsAdded(q) /\ queue' = q
    /\ UNCHANGED <<edges, sorted>>

\* The dependents whose last incoming edge has just been counted.
Released(deps, degree) == {d \in deps : degree[d] = 0}

\* One turn of the loop: the dependents are a set, visited in any order.
Visit ==
    /\ stage = "sorting"
    /\ queue # <<>>
    /\ LET deps == get_dependents(Head(queue))
           degree == [t \in Tasks |-> in_degree[t] - (IF t \in deps THEN 1 ELSE 0)]
       IN  /\ in_degree' = degree
           /\ \E p \in SetToSeqs(Released(deps, degree)) : queue' = Tail(queue) \o p
    /\ sorted' = Append(sorted, Head(queue))
    /\ UNCHANGED <<stage, edges>>

\* Mutant: an incomplete order is returned.
FinishUnchecked ==
    /\ stage = "sorting"
    /\ queue = <<>>
    /\ stage' = "sorted"
    /\ UNCHANGED <<edges, in_degree, queue, sorted>>

Finish ==
    /\ stage = "sorting"
    /\ queue = <<>>
    /\ stage' = IF Len(sorted) = Cardinality(Tasks) THEN "sorted" ELSE "cycle"
    /\ UNCHANGED <<edges, in_degree, queue, sorted>>

Next ==
    \/ \E s, t \in Tasks : AddEdge(s, t)
    \/ Compile
    \/ Visit
    \/ Finish

Spec == Init /\ [][Next]_vars

-----------------------------------------------------------------------------

\* The order handed to the engine enumerates every task once and puts each
\* after all its dependencies, whatever order a set of dependents is visited
\* in and however many times an edge was added.
SortedIsTopological ==
    stage = "sorted" =>
        /\ \A t \in Tasks : \E i \in 1..Len(sorted) : sorted[i] = t
        /\ \A i, j \in 1..Len(sorted) : sorted[i] = sorted[j] => i = j
        /\ \A i, j \in 1..Len(sorted) : sorted[i] \in get_dependencies(sorted[j]) => i < j

\* A set of tasks each of which depends on one of them: there is a cycle.
Cyclic == \E S \in (SUBSET Tasks) \ {{}} : \A t \in S : get_dependencies(t) \intersect S # {}

DuplicateEdge == \E i, j \in 1..Len(edges) : i # j /\ edges[i] = edges[j]

\* A DAG without duplicate edges is refused exactly when it has a cycle.
CycleVerdictIsRight ==
    /\ stage = "sorted" => ~Cyclic
    /\ stage = "cycle" => Cyclic \/ DuplicateEdge
=============================================================================
