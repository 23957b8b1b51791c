------------------------------- MODULE MCLanes -------------------------------
(***************************************************************************)
(* The lanes of one tenant.  In a behaviour the tenant uses one of them,   *)
(* they share no state: two consumers; four tasks of which two have one    *)
(* key, two subagents, three schedules of which one recurs.              *)
(***************************************************************************)
EXTENDS LaneManager, TLC

CONSTANTS t1, t2, t3, t4, k1, k2, k3

KeysOfTasks == (t1 :> k1) @@ (t2 :> k2) @@ (t3 :> k3) @@ (t4 :> k3)

\* Requests ask for the default priority and for one above the range, or for
\* one below the range as well.
DefaultAndAbove == {5, 12}
BelowDefaultAbove == {-1, 5, 12}

VARIABLE uses

usedVars == <<uses, lanesVars>>

UsedInit == uses \in LaneTypes /\ LanesInit

UsedNext ==
    /\ UNCHANGED uses
    /\ \/ uses = "main" /\ MainNext
       \/ uses = "subagent" /\ SubagentNext
       \/ uses = "cron" /\ CronNext

MainAlone == uses = "main" /\ Within("main") /\ UNCHANGED <<uses, subVars, cronVars>>
CronAlone == uses = "cron" /\ UNCHANGED <<uses, vars, subVars>>

\* The event loop runs every ready consumer, and a consumer asks for its next
\* task when it has finished one; time passes and evaluations go on.
FairUsedSpec ==
    /\ UsedInit /\ [][UsedNext]_usedVars
    /\ \A c \in Consumers : /\ WF_usedVars(DequeueNextTask(c) /\ MainAlone)
                            /\ WF_usedVars(Complete(c) /\ MainAlone)
    /\ WF_usedVars(Cron!Tick /\ CronAlone /\ UNCHANGED lanes)
    /\ WF_usedVars(Cron!EvaluateDueTasks /\ CronAlone /\ Within("cron"))
=============================================================================
