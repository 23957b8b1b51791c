---------------------------- MODULE MCPRegistry ----------------------------
(***************************************************************************)
(* MCPRegistry of holly/engine/mcp_registry.py: tools are registered,      *)
(* agents get permissions that may expire, and invocations run the tools'  *)
(* handlers under a timeout and a limit on concurrent calls.  Everything   *)
(* up to the handler's first suspension is one step of the event loop: the *)
(* lock is never held across a suspension, so nobody ever waits for it.    *)
(* The redactors run in the steps of the handler they surround.            *)
(***************************************************************************)
EXTENDS Integers, FiniteSets

CONSTANTS
    Tools,
    LLMTools,       \* tools registered with is_llm
    Agents,
    Tenants,
    Invocations,
    ToolOf,         \* the fields of a request
    AgentOf,
    TenantOf,
    DefaultLimit,   \* default_concurrency_limit
    Limits          \* limits that set_concurrency_limit may set

ASSUME RegistryAssumption ==
    /\ IsFiniteSet(Invocations)
    /\ LLMTools \subseteq Tools
    /\ ToolOf \in [Invocations -> Tools]
    /\ AgentOf \in [Invocations -> Agents]
    /\ TenantOf \in [Invocations -> Tenants]
    /\ DefaultLimit \in Nat
    /\ Limits \subseteq Nat \ {0}

VARIABLES
    registered,     \* keys of _tools
    permissions,    \* per tool, the grants that have not expired
    limits,         \* _concurrency_limits
    active,         \* _active_invocations, 0 for an absent key
    pc,             \* per invocation: new, running, done
    stopping,       \* what has cancelled its handler: nothing, timeout, caller
    reply           \* what the caller of invoke gets

vars == <<registered, permissions, limits, active, pc, stopping, reply>>

Keys == Tools \X Tenants \X Agents

Key(i) == <<ToolOf[i], TenantOf[i], AgentOf[i]>>

Limit(i) == limits[<<ToolOf[i], TenantOf[i]>>]

Kinds == {"lasting", "expiring"}

Init ==
    /\ registered = {}
    /\ permissions = [t \in Tools |-> {}]
    /\ limits = [k \in Tools \X Tenants |-> DefaultLimit]
    /\ active = [k \in Keys |-> 0]
    /\ pc = [i \in Invocations |-> "new"]
    /\ stopping = [i \in Invocations |-> "nothing"]
    /\ reply = [i \in Invocations |-> "none"]

-----------------------------------------------------------------------------

\* A name that is taken raises ValueError.
register_tool(t) ==
    /\ t \notin registered
    /\ registered' = registered \union {t}
    /\ UNCHANGED <<permissions, limits, active, pc, stopping, reply>>

grant_permission(t, a, kind) ==
    /\ t \in registered
    /\ permissions' = [permissions EXCEPT ![t] = @ \union {<<a, kind>>}]
    /\ UNCHANGED <<registered, limits, active, pc, stopping, reply>>

\* Time passes expires_at; nothing else takes a permission away.
Expire(t, a) ==
    /\ <<a, "expiring">> \in permissions[t]
    /\ permissions' = [permissions EXCEPT ![t] = @ \ {<<a, "expiring">>}]
    /\ UNCHANGED <<registered, limits, active, pc, stopping, reply>>

\* At any time, also below the number of calls that run.
set_concurrency_limit(t, tenant, n) ==
    /\ limits' = [limits EXCEPT ![<<t, tenant>>] = n]
    /\ UNCHANGED <<registered, permissions, active, pc, stopping, reply>>

HasPermission(i) == \E kind \in Kinds : <<AgentOf[i], kind>> \in permissions[ToolOf[i]]

ErrorCode(i) == IF ToolOf[i] \in LLMTools THEN "llm_error" ELSE "tool_execution_error"

\* invoke answers without running the handler.
Answer(i, code) ==
    /\ pc[i] = "new"
    /\ pc' = [pc EXCEPT ![i] = "done"]
    /\ reply' = [reply EXCEPT ![i] = code]
    /\ UNCHANGED <<registered, permissions, limits, active, stopping>>

NotFound(i) == ToolOf[i] \notin registered /\ Answer(i, "tool_not_found")

Denied(i) ==
    /\ ToolOf[i] \in registered
    /\ ~HasPermission(i)
    /\ Answer(i, "permission_denied")

\* Mutant: one call too many.
HasSlotOffByOne(i) == active[Key(i)] <= Limit(i)

HasSlot(i) == active[Key(i)] < Limit(i)

\* The TimeoutError of a refused call is answered like a timeout of the tool.
AtCapacity(i) ==
    /\ ToolOf[i] \in registered
    /\ HasPermission(i)
    /\ ~HasSlot(i)
    /\ Answer(i, ErrorCode(i))

\* Mutant: a call takes no slot, and gives one back.
StartUncounted(i) ==
    /\ pc[i] = "new"
    /\ ToolOf[i] \in registered
    /\ HasPermission(i)
    /\ HasSlot(i)
    /\ pc' = [pc EXCEPT ![i] = "running"]
    /\ UNCHANGED <<registered, permissions, limits, active, stopping, reply>>

\* A slot is taken and the handler runs to its first suspension.
Start(i) ==
    /\ pc[i] = "new"
    /\ ToolOf[i] \in registered
    /\ HasPermission(i)
    /\ HasSlot(i)
    /\ active' = [active EXCEPT ![Key(i)] = @ + 1]
    /\ pc' = [pc EXCEPT ![i] = "running"]
    /\ UNCHANGED <<registered, permissions, limits, stopping, reply>>

\* Mutant: only tools that are no LLM tools have a timeout.
TimeoutStandardOnly(i) ==
    /\ ToolOf[i] \notin LLMTools
    /\ pc[i] = "running" /\ stopping[i] = "nothing"
    /\ stopping' = [stopping EXCEPT ![i] = "timeout"]
    /\ UNCHANGED <<registered, permissions, limits, active, pc, reply>>

\* wait_for cancels the handler and goes on waiting for it.
Timeout(i) ==
    /\ pc[i] = "running" /\ stopping[i] = "nothing"
    /\ stopping' = [stopping EXCEPT ![i] = "timeout"]
    /\ UNCHANGED <<registered, permissions, limits, active, pc, reply>>

\* The task that awaits invoke is cancelled; this outranks a timeout.
Cancel(i) ==
    /\ pc[i] = "running" /\ stopping[i] # "caller"
    /\ stopping' = [stopping EXCEPT ![i] = "caller"]
    /\ UNCHANGED <<registered, permissions, limits, active, pc, reply>>

\* Mutant: a failure keeps its slot.
ReleaseOnSuccess(i, outcome) ==
    active' = IF outcome = "result" THEN [active EXCEPT ![Key(i)] = @ - 1] ELSE active

\* _release_concurrency_slot; the count of the key is never 0 here.
Release(i, outcome) == active' = [active EXCEPT ![Key(i)] = @ - 1]

\* A cancelled handler may still return or raise something else.  wait_for
\* turns the CancelledError of a timeout into a TimeoutError, and only that.
Outcomes(i) ==
    {"result", ErrorCode(i)} \union (IF stopping[i] = "timeout" THEN {} ELSE {"cancelled"})

\* The handler ends; finally the slot is given back.
Finish(i) ==
    /\ pc[i] = "running"
    /\ \E outcome \in Outcomes(i) :
          /\ Release(i, outcome)
          /\ reply' = [reply EXCEPT ![i] = outcome]
    /\ pc' = [pc EXCEPT ![i] = "done"]
    /\ stopping' = [stopping EXCEPT ![i] = "nothing"]
    /\ UNCHANGED <<registered, permissions, limits>>

Next ==
    \/ \E t \in Tools :
          \/ register_tool(t)
          \/ \E a \in Agents :
                \/ \E kind \in Kinds : grant_permission(t, a, kind)
                \/ Expire(t, a)
          \/ \E tenant \in Tenants, n \in Limits : set_concurrency_limit(t, tenant, n)
    \/ \E i \in Invocations :
          \/ NotFound(i) \/ Denied(i) \/ AtCapacity(i) \/ Start(i)
          \/ Timeout(i) \/ Cancel(i)
          \/ Finish(i)

Spec == Init /\ [][Next]_vars

\* Timers fire, and a handler that was cancelled ends.
FairSpec ==
    Spec /\ \A i \in Invocations :
                /\ WF_vars(Timeout(i))
                /\ WF_vars(stopping[i] # "nothing" /\ Finish(i))

-----------------------------------------------------------------------------

TypeOK ==
    /\ registered \subseteq Tools
    /\ permissions \in [Tools -> SUBSET (Agents \X Kinds)]
    /\ limits \in [Tools \X Tenants -> Nat]
    /\ active \in [Keys -> Nat]
    /\ pc \in [Invocations -> {"new", "running", "done"}]
    /\ stopping \in [Invocations -> {"nothing", "timeout", "caller"}]
    /\ reply \in [Invocations -> {"none", "result", "cancelled", "tool_not_found",
                                  "permission_denied", "llm_error", "tool_execution_error"}]

Running(k) == {i \in Invocations : pc[i] = "running" /\ Key(i) = k}

\* The count of slots in use is the number of handlers that really run, those
\* included that were timed out or cancelled and have not ended yet.
CountsAreRunning == \A k \in Keys : active[k] = Cardinality(Running(k))

Begins(i) == pc[i] = "new" /\ pc'[i] = "running"

TurnedAway(i) == pc[i] = "new" /\ pc'[i] = "done" /\ reply'[i] = ErrorCode(i)

\* A call begins only while fewer handlers run for its tool, tenant and agent
\* than the limit of the moment allows, and is turned away only while that
\* many run, whatever timeouts, cancellations and failures came before.
AdmissionIsExact ==
    [][\A i \in Invocations :
          /\ Begins(i) => Cardinality(Running(Key(i))) < Limit(i)
          /\ TurnedAway(i) => Cardinality(Running(Key(i))) >= Limit(i)]_vars

\* If handlers that are cancelled end, no slot stays in use for ever.
SlotsComeBack == []<>(\A k \in Keys : active[k] = 0)
=============================================================================
