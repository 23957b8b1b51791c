-------------------------- MODULE MCWorkflowEngine --------------------------
(***************************************************************************)
(* Instances of WorkflowEngine for TLC: a diamond DAG whose task c has no  *)
(* compensation, and a chain of three tasks.                               *)
(***************************************************************************)
EXTENDS WorkflowEngine, TLC

CONSTANTS a, b, c, d

DiamondDependencies == (a :> {}) @@ (b :> {a}) @@ (c :> {a}) @@ (d :> {b, c})
DiamondOrder == <<a, b, c, d>>

ChainDependencies == (a :> {}) @@ (b :> {a}) @@ (c :> {b})
ChainOrder == <<a, b, c>>

Symmetry == Permutations(Executions)
=============================================================================
