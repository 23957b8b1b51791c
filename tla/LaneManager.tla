----------------------------- MODULE LaneManager -----------------------------
(***************************************************************************)
(* LaneManager of holly/engine/lanes.py, for one tenant: the lane of each  *)
(* type is created by the first request for it, accepted or not, and every *)
(* request is passed on to it.  The main lane's state is MainLane's; those *)
(* of the subagent and the cron lane are instances beside it.              *)
(***************************************************************************)
EXTENDS MainLane

CONSTANTS
    Subagents, MaxSpawns,                       \* of SubagentLane
    Schedules, Recurring, Period, MaxTime, MaxEntries,  \* of CronLane
    MaxConcurrency                              \* policy.max_concurrency

ASSUME LanesAssumption ==
    /\ NoItem \notin Subagents
    /\ MaxSpawns \in Nat /\ Period \in Nat /\ MaxTime \in Nat

VARIABLES
    lanes,              \* the lane types this tenant has a lane of
    sub_pq, sub_getters, sub_woken, sub_holding, active_executions,
    concurrent_count, sub_expired, spawns, careless,
    now, schedule_map, scheduled_time, next_execution_time, scheduled_times,
    returned, lastReturn

subVars == <<sub_pq, sub_getters, sub_woken, sub_holding, active_executions,
             concurrent_count, sub_expired, spawns, careless>>
cronVars == <<now, schedule_map, scheduled_time, next_execution_time, scheduled_times,
              returned, lastReturn>>
lanesVars == <<lanes, vars, subVars, cronVars>>

Sub == INSTANCE SubagentLane WITH
    Items <- Subagents, pq <- sub_pq, getters <- sub_getters, woken <- sub_woken,
    holding <- sub_holding, expired <- sub_expired

Cron == INSTANCE CronLane

LaneTypes == {"main", "cron", "subagent"}

LanesInit == lanes = {} /\ Init /\ Sub!Init /\ Cron!Init

-----------------------------------------------------------------------------

\* _get_or_create_lane
GetOrCreateLane(type) == lanes' = lanes \union {type}

\* What goes on in a lane that exists.
Within(type) == type \in lanes /\ UNCHANGED lanes

\* Refused, or answered from the idempotency cache: the lane is as it was.
MainUnchanged(t, p) == t \in expired \/ Known(t) \/ LaneFull(Clamp(p))

enqueue_main_task(t, p) ==
    /\ GetOrCreateLane("main")
    /\ EnqueueTask(t, p) \/ (MainUnchanged(t, p) /\ UNCHANGED vars)
    /\ UNCHANGED <<subVars, cronVars>>

MainSteps ==
    /\ UNCHANGED <<subVars, cronVars>>
    /\ \/ \E t \in Items : Expire(t) /\ UNCHANGED lanes
       \/ \E c \in Consumers : (DequeueNextTask(c) \/ TimeOut(c) \/ Complete(c)) /\ Within("main")

spawn_subagent(x, p) ==
    /\ GetOrCreateLane("subagent")
    /\ \/ Sub!SpawnSubagent(x, p)
       \/ (x \in sub_expired \/ Sub!LaneFull(Clamp(p))) /\ UNCHANGED subVars
    /\ UNCHANGED <<vars, cronVars>>

SubagentSteps ==
    /\ UNCHANGED <<vars, cronVars>>
    /\ \/ \E x \in Subagents : Sub!Expire(x) /\ UNCHANGED lanes
       \/ \E x \in Subagents : Sub!StrayComplete(x) /\ Within("subagent")
       \/ \E c \in Consumers :
             (Sub!DequeueNextSubagent(c) \/ Sub!TimeOut(c) \/ Sub!Finish(c)) /\ Within("subagent")

schedule_cron_task(s, when) ==
    /\ GetOrCreateLane("cron")
    /\ \/ Cron!ScheduleTask(s, when)
       \/ (when <= now \/ ~Cron!HasRoom) /\ UNCHANGED cronVars
    /\ UNCHANGED <<vars, subVars>>

CronSteps ==
    /\ UNCHANGED <<vars, subVars>>
    /\ \/ Cron!Tick /\ UNCHANGED lanes
       \/ Cron!EvaluateDueTasks /\ Within("cron")

MainNext == MainSteps \/ \E t \in Items, p \in Requested : enqueue_main_task(t, p)
SubagentNext == SubagentSteps \/ \E x \in Subagents, p \in Requested : spawn_subagent(x, p)
CronNext == CronSteps \/ \E s \in Schedules, when \in 1 .. MaxTime : schedule_cron_task(s, when)

LanesNext == MainNext \/ SubagentNext \/ CronNext

LanesSpec == LanesInit /\ [][LanesNext]_lanesVars

-----------------------------------------------------------------------------

QueueSize(queues) == SumFunctionOnSet([p \in Priorities |-> Len(queues[p])], Priorities)

Percent(n, all) == (100 * n) \div all

\* get_lane_stats: of the lanes that exist.
get_lane_stats ==
    [type \in lanes |->
        CASE type = "main" ->
                [queue_size |-> QueueSize(pq),
                 queue_depth_percent |-> Percent(QueueSize(pq), MaxQueueDepth)]
          [] type = "subagent" ->
                [queue_size |-> QueueSize(sub_pq), concurrent_count |-> concurrent_count,
                 concurrency_percent |-> Percent(concurrent_count, MaxConcurrency)]
          [] type = "cron" ->
                [scheduled_count |-> Cardinality(schedule_map),
                 next_execution |-> Cron!get_next_execution_time]]

-----------------------------------------------------------------------------

LanesTypeOK ==
    /\ lanes \subseteq LaneTypes
    /\ TypeOK /\ Sub!TypeOK /\ Cron!TypeOK

\* The statistics say how much work there is: a subagent that is spawned and
\* completed once is counted and on record from its spawn until it is marked
\* complete, so what the lane's report shows as running or queued is neither
\* more nor less; a lane that was never asked for has no work and no report.
SubagentsAreCounted ==
    /\ Sub!CountIsActive /\ Sub!PendingIsActive
    /\ "subagent" \in lanes =>
          LET report == get_lane_stats["subagent"] IN
          ~careless => report.queue_size + Cardinality({c \in Consumers : sub_holding[c] # NoItem})
                          = report.concurrent_count
    /\ "subagent" \notin lanes => QueueSize(sub_pq) = 0 /\ concurrent_count = 0

\* What the cron lane keeps can fall due and is handed out in time: every
\* schedule in the map has its entry, entries are in the order of their times,
\* the time that is reported as the next is not too late for any of them,
\* the two fields that say when a schedule runs part only for a recurring one
\* that has come due, nothing is returned before either but such a one before
\* the second, and recurring schedules are returned when evaluations go on.
SchedulesAreKept ==
    /\ [](Cron!EntriesCoverMap /\ Cron!NextIsNotLate /\ Cron!TimesPartWhenDue)
    /\ Cron!NeverEarly
    /\ Cron!RecurringReturned
=============================================================================
