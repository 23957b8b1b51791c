--------------------------- MODULE MCKernelContext ---------------------------
(***************************************************************************)
(* Two tasks and three contexts with no gate, one gate and two gates.      *)
(***************************************************************************)
EXTENDS DissimilarSM, TLC

CONSTANTS ungated, single, double

GateCounts == (ungated :> 0) @@ (single :> 1) @@ (double :> 2)
=============================================================================
