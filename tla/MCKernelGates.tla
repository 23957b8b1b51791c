---------------------------- MODULE MCKernelGates ----------------------------
(***************************************************************************)
(* Three attempts have one key: x runs in a thread, retry and again in the *)
(* event loop, for a tenant whose budget has no room for both.  Or x and   *)
(* retry have one key, again another, and all run in threads for one       *)
(* tenant.  One plain gate comes before the others and one after.          *)
(***************************************************************************)
EXTENDS KernelGates, TLC

CONSTANTS x, retry, again, kx, ky, acme, other

OneKey == [a \in Attempts |-> kx]
TwoKeys == (x :> kx) @@ (retry :> kx) @@ (again :> ky)
OneTenant == [a \in Attempts |-> acme]
TwoTenants == (x :> other) @@ (retry :> acme) @@ (again :> acme)
Amounts == [a \in Attempts |-> 2]
Budgets == [t \in Tenants |-> 3]
Gates == <<"K2", "K3", "K5", "K6", "K7", "K8">>
=============================================================================
