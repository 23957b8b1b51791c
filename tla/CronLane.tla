------------------------------ MODULE CronLane ------------------------------
(***************************************************************************)
(* CronLane of holly/engine/lanes.py, for one tenant: tasks are scheduled  *)
(* for a future time and evaluate_due_tasks hands out those that are due.  *)
(***************************************************************************)
EXTENDS Integers, FiniteSets, SequencesExt

CONSTANTS
    Schedules,      \* ScheduledTask objects, by schedule_id
    Recurring,      \* those with a recurrence
    MaxQueueDepth,  \* policy.max_queue_depth
    Period,         \* the hour after which a recurring task is to run again
    MaxTime,        \* bound: how far the clock goes
    MaxEntries      \* bound: schedule_task calls accepted

VARIABLES
    now,
    schedule_map,         \* the schedule_ids in the map
    scheduled_time,       \* of each ScheduledTask
    next_execution_time,  \* of each ScheduledTask; 0 before it is scheduled
    scheduled_times,      \* <<unix_ts, schedule_id>>, sorted
    returned,             \* history: schedules handed out as due at least once
    lastReturn            \* how often each is in the list that evaluation returns

vars == <<now, schedule_map, scheduled_time, next_execution_time, scheduled_times,
          returned, lastReturn>>

NothingDue == [s \in Schedules |-> 0]

Init ==
    /\ now = 0
    /\ schedule_map = {}
    /\ scheduled_time = [s \in Schedules |-> 0]
    /\ next_execution_time = [s \in Schedules |-> 0]
    /\ scheduled_times = <<>>
    /\ returned = {}
    /\ lastReturn = NothingDue

Tick ==
    /\ now < MaxTime
    /\ now' = now + 1
    /\ lastReturn' = NothingDue
    /\ UNCHANGED <<schedule_map, scheduled_time, next_execution_time, scheduled_times, returned>>

\* Mutant: the entry is appended and the list left unsorted.
AppendEntry(entry, list) == Append(list, entry)

NotLater(entry, list) == {i \in 1..Len(list) : list[i][1] <= entry[1]}

\* append followed by the stable sort on the timestamp of a list that was
\* sorted: the entry comes after those that are not later.
InsertEntry(entry, list) == InsertAt(list, Cardinality(NotLater(entry, list)) + 1, entry)

HasRoom == Cardinality(schedule_map) < MaxQueueDepth

\* schedule_task for the time when; an object that is scheduled already may
\* be scheduled again for another time, which leaves its first entry behind.
ScheduleTask(s, when) ==
    /\ Len(scheduled_times) < MaxEntries
    /\ when > now
    /\ HasRoom
    /\ schedule_map' = schedule_map \union {s}
    /\ scheduled_time' = [scheduled_time EXCEPT ![s] = when]
    /\ next_execution_time' = [next_execution_time EXCEPT ![s] = when]
    /\ scheduled_times' = InsertEntry(<<when, s>>, scheduled_times)
    /\ lastReturn' = NothingDue
    /\ UNCHANGED <<now, returned>>

\* Mutant: everything in the map is taken to be due.
DueAlways(s) == s \in schedule_map

\* is_due() of a schedule that is still in the map.
Due(s) == s \in schedule_map /\ scheduled_time[s] <= now

EntriesOf(s) == {i \in 1..Len(scheduled_times) : scheduled_times[i][2] = s}

DueEntries == {s \in Schedules : Due(s) /\ EntriesOf(s) # {}}

\* Mutant: recurring schedules leave the map like the others.
RemovedAll(due) == due

\* One-time schedules are deleted from the map as they are found due.
Removed(due) == due \ Recurring

NextExecution(t) == t + Period

\* A schedule that was moved has several entries, and the loop appends it to
\* the list once for each.
DueCount(s) == IF s \in DueEntries THEN Cardinality(EntriesOf(s)) ELSE 0

\* evaluate_due_tasks.  The filter that drops the processed entries looks up
\* schedule_map[sid] for every due one, and raises KeyError for a one-time
\* schedule that the loop has just deleted: the list of due schedules never
\* reaches the caller and scheduled_times keeps its entries.
EvaluateDueTasks ==
    /\ schedule_map' = schedule_map \ Removed(DueEntries)
    /\ next_execution_time' =
          [s \in Schedules |-> IF s \in DueEntries \intersect Recurring
                               THEN NextExecution(now) ELSE next_execution_time[s]]
    /\ lastReturn' = IF Removed(DueEntries) = {} THEN [s \in Schedules |-> DueCount(s)]
                     ELSE NothingDue
    /\ returned' = returned \union {s \in Schedules : lastReturn'[s] > 0}
    /\ UNCHANGED <<now, scheduled_time, scheduled_times>>

NoTime == 0

\* get_next_execution_time: the timestamp of the first entry, or None.
get_next_execution_time ==
    IF scheduled_times = <<>> THEN NoTime ELSE scheduled_times[1][1]

Next ==
    \/ Tick
    \/ \E s \in Schedules, when \in 1..MaxTime : ScheduleTask(s, when)
    \/ EvaluateDueTasks

Spec == Init /\ [][Next]_vars

\* Time passes, and the evaluation cycle runs again and again.
FairSpec == Spec /\ WF_vars(Tick) /\ WF_vars(EvaluateDueTasks)

-----------------------------------------------------------------------------

TypeOK ==
    /\ now \in 0..MaxTime
    /\ schedule_map \in SUBSET Schedules
    /\ scheduled_time \in [Schedules -> 0..MaxTime]
    /\ next_execution_time \in [Schedules -> 0..(MaxTime + Period)]
    /\ scheduled_times \in Seq((1..MaxTime) \X Schedules)
    /\ returned \in SUBSET Schedules
    /\ lastReturn \in [Schedules -> Nat]

\* Everything in the map can still become due: it has an entry at its time.
\* The entries are in the order of their times.  Those that a schedule left
\* behind when it was moved or run stay among them.
EntriesCoverMap ==
    /\ \A s \in schedule_map : \E i \in 1..Len(scheduled_times) :
          scheduled_times[i] = <<scheduled_time[s], s>>
    /\ \A i, j \in 1..Len(scheduled_times) :
          i < j => scheduled_times[i][1] <= scheduled_times[j][1]

\* The time that get_next_execution_time names may be that of an entry left
\* behind, but it is not too late for any schedule in the map: who sleeps
\* until then misses none.
NextIsNotLate ==
    \A s \in schedule_map :
        get_next_execution_time # NoTime /\ get_next_execution_time <= scheduled_time[s]

\* scheduled_time and next_execution_time are one time until a recurring
\* schedule has come due; from then on the second is the later one.
TimesPartWhenDue ==
    \A s \in schedule_map :
        /\ scheduled_time[s] <= next_execution_time[s]
        /\ scheduled_time[s] # next_execution_time[s] => s \in Recurring /\ scheduled_time[s] <= now

\* No schedule is handed out before its scheduled_time, however often it was moved;
\* nor before its next_execution_time, unless it is a recurring one that an earlier
\* evaluation has found due: that one is held against scheduled_time all the same,
\* though its next_execution_time is ahead (evaluate_due_tasks).
HandsOutInTime ==
    \A s \in Schedules : lastReturn'[s] > 0 =>
        /\ scheduled_time[s] <= now
        /\ \/ next_execution_time[s] <= now
           \/ s \in Recurring /\ scheduled_time[s] < next_execution_time[s]

NeverEarly == [][HandsOutInTime]_vars

\* A recurring schedule whose time has come is handed out, unless one-time
\* schedules fall due again and again with it.
RecurringReturned ==
    \A s \in Recurring : s \in schedule_map ~> s \in returned

\* "Evaluate and return due tasks" (evaluate_due_tasks): a one-time schedule
\* that was taken out of the map has been handed to the caller.
OneTimeReturned ==
    \A s \in Schedules \ Recurring :
        scheduled_time[s] # 0 /\ s \notin schedule_map => s \in returned
=============================================================================
