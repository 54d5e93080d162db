----------------------- MODULE ChronologicalTriggers ------------------------
(***************************************************************************)
(* Scheduled starts: ChronologicalTriggerService, its repository, and the  *)
(* Scheduler processes that drive them.  One call of process_next_due reads*)
(* the clock, locks the earliest due row, then advances the schedule and   *)
(* creates the workflow execution in one commit.                           *)
(*                                                                         *)
(* What happens to an execution after the commit is in Platform.  MaxTime  *)
(* stops the clock; MaxCrashes bounds the times a Scheduler dies or loses  *)
(* its connection in the middle of a transaction.                          *)
(***************************************************************************)
EXTENDS Integers, Sequences

CONSTANTS
    Trigger,            \* trigger definitions, as 1 .. n: ids are ordered
    Scheduler,          \* scheduler processes
    interval,           \* trigger -> interval_seconds
    until,              \* trigger -> the last moment it occurs, or NULL
    enabled,            \* triggers with TriggerDefinition.enabled
    workflow_enabled,   \* triggers whose WorkflowDefinition.enabled
    registered,         \* triggers whose plugin the Scheduler's registry has
    raising,            \* <<trigger, moment>> where next_occurrence raises
    NULL, MaxTime, MaxCrashes

\* IntervalTrigger.validate_configuration refuses anything else.
ASSUME IntervalAssumption ==
    Trigger \subseteq Nat /\ interval \in [Trigger -> Nat \ {0}]

ASSUME UntilAssumption == until \in [Trigger -> {NULL} \cup Int]

\* Python's None is no moment and no process.
ASSUME NoneAssumption == NULL \notin Int /\ NULL \notin Scheduler

ASSUME BoundsAssumption == {MaxTime, MaxCrashes} \subseteq Nat

VARIABLES
    now,            \* datetime.now
    next_run_at,    \* trigger -> ChronologicalTriggerStateModel, NULL: no row
    lock,           \* trigger -> the scheduler that has locked its row, or NULL
    pc,             \* scheduler -> "idle", "selecting", "processing", "stopped"
    reading,        \* scheduler -> its clock reading
    first,          \* history: trigger -> first occurrence, NULL: not created
    started,        \* trigger -> the occurrences that created an execution
    crashes

vars == <<now, next_run_at, lock, pc, reading, first, started, crashes>>

Time == 0..MaxTime

\* Occurrences may lie beyond the end of the clock.
Occurrence == Nat

\* Every variable has its type; a processing scheduler has locked one row.
TypeOK ==
    /\ now \in Time
    /\ next_run_at \in [Trigger -> {NULL} \cup Occurrence]
    /\ lock \in [Trigger -> Scheduler \cup {NULL}]
    /\ pc \in [Scheduler -> {"idle", "selecting", "processing", "stopped"}]
    /\ reading \in [Scheduler -> Time \cup {NULL}]
    /\ first \in [Trigger -> {NULL} \cup Occurrence]
    /\ \A tr \in Trigger : \A i \in DOMAIN started[tr] : started[tr][i] \in Occurrence
    /\ crashes \in 0..MaxCrashes
    /\ \A s \in Scheduler :
          pc[s] = "processing" <=> \E tr \in Trigger : lock[tr] = s

Init ==
    /\ now = 0
    /\ next_run_at = [tr \in Trigger |-> NULL]
    /\ lock = [tr \in Trigger |-> NULL]
    /\ pc = [s \in Scheduler |-> "idle"]
    /\ reading = [s \in Scheduler |-> NULL]
    /\ first = [tr \in Trigger |-> NULL]
    /\ started = [tr \in Trigger |-> << >>]
    /\ crashes = 0

-----------------------------------------------------------------------------

\* IntervalTrigger.next_occurrence; a plugin may also end its schedule.
next_occurrence(tr, after) ==
    IF until[tr] # NULL /\ after + interval[tr] > until[tr]
    THEN NULL ELSE after + interval[tr]

\* Creating a definition initializes the schedule in the same transaction,
\* whether or not the trigger or its workflow is enabled.  The registry of the
\* process that creates it has the plugin; it may be missing later.
initialize(tr) ==
    /\ first[tr] = NULL
    /\ <<tr, now>> \notin raising
    /\ next_occurrence(tr, now) # NULL
    /\ next_run_at' = [next_run_at EXCEPT ![tr] = next_occurrence(tr, now)]
    /\ first' = [first EXCEPT ![tr] = next_occurrence(tr, now)]
    /\ UNCHANGED <<now, lock, pc, reading, started, crashes>>

call_process_next_due(s) ==
    /\ pc[s] = "idle"
    /\ pc' = [pc EXCEPT ![s] = "selecting"]
    /\ reading' = [reading EXCEPT ![s] = now]
    /\ UNCHANGED <<now, next_run_at, lock, first, started, crashes>>

is_due_recently(tr, s) ==
    /\ tr \in enabled
    /\ next_run_at[tr] \in {reading[s] - 1, reading[s]}

is_due(tr, s) ==
    /\ tr \in enabled
    /\ next_run_at[tr] # NULL
    /\ next_run_at[tr] <= reading[s]

lockable_always(tr) == TRUE

lockable(tr) == lock[tr] = NULL

due(s) == {tr \in Trigger : lockable(tr) /\ is_due(tr, s)}

\* ORDER BY next_run_at, trigger_definition_id.
before(tr, other) ==
    \/ next_run_at[tr] < next_run_at[other]
    \/ next_run_at[tr] = next_run_at[other] /\ tr <= other

get_next_due(s) ==
    /\ pc[s] = "selecting"
    /\ \E tr \in due(s) :
          /\ \A other \in due(s) : before(tr, other)
          /\ lock' = [lock EXCEPT ![tr] = s]
    /\ pc' = [pc EXCEPT ![s] = "processing"]
    /\ UNCHANGED <<now, next_run_at, reading, first, started, crashes>>

nothing_due(s) ==
    /\ pc[s] = "selecting"
    /\ due(s) = {}
    /\ pc' = [pc EXCEPT ![s] = "idle"]
    /\ reading' = [reading EXCEPT ![s] = NULL]
    /\ UNCHANGED <<now, next_run_at, lock, first, started, crashes>>

\* The transaction is over and the row lock released.
end_transaction(s) ==
    /\ pc' = [pc EXCEPT ![s] = "idle"]
    /\ reading' = [reading EXCEPT ![s] = NULL]
    /\ lock' = [tr \in Trigger |-> IF lock[tr] = s THEN NULL ELSE lock[tr]]

\* A version that counts from the clock instead of the stored occurrence.
advanced_from_the_clock(tr, s) == next_occurrence(tr, reading[s])

advanced(tr, s) == next_occurrence(tr, next_run_at[tr])

\* update_next_run, or delete for a schedule that is over.
update_next_run(tr, occurrence) == [next_run_at EXCEPT ![tr] = occurrence]

\* registry.get finds the plugin, next_occurrence answers, and
\* start_and_commit finds the workflow enabled.
processable(tr) ==
    /\ tr \in registered
    /\ <<tr, next_run_at[tr]>> \notin raising
    /\ tr \in workflow_enabled

\* The state is updated, or deleted when the schedule is over, and the
\* execution created; all of it commits together.
process_due(s) ==
    /\ pc[s] = "processing"
    /\ \E tr \in Trigger :
          /\ lock[tr] = s
          /\ processable(tr)
          /\ next_run_at' = update_next_run(tr, advanced(tr, s))
          /\ started' = [started EXCEPT ![tr] = Append(@, next_run_at[tr])]
    /\ end_transaction(s)
    /\ UNCHANGED <<now, first, crashes>>

\* Everything rolls back, and run() logs the error and polls again.
process_raises(s) ==
    /\ pc[s] = "processing"
    /\ \E tr \in Trigger : lock[tr] = s /\ ~processable(tr)
    /\ end_transaction(s)
    /\ UNCHANGED <<now, next_run_at, first, started, crashes>>

crash(s) ==
    /\ pc[s] \in {"selecting", "processing"}
    /\ crashes < MaxCrashes
    /\ crashes' = crashes + 1
    /\ end_transaction(s)
    /\ UNCHANGED <<now, next_run_at, first, started>>

\* The loop looks at stop_event between two calls, so a stop never meets an
\* open transaction.  One Scheduler stays.
stop(s) ==
    /\ pc[s] = "idle"
    /\ \E other \in Scheduler \ {s} : pc[other] # "stopped"
    /\ pc' = [pc EXCEPT ![s] = "stopped"]
    /\ UNCHANGED <<now, next_run_at, lock, reading, first, started, crashes>>

tick ==
    /\ now < MaxTime
    /\ now' = now + 1
    /\ UNCHANGED <<next_run_at, lock, pc, reading, first, started, crashes>>

loop(s) ==
    \/ call_process_next_due(s)
    \/ get_next_due(s)
    \/ nothing_due(s)
    \/ process_due(s)
    \/ process_raises(s)

Next ==
    \/ tick
    \/ \E tr \in Trigger : initialize(tr)
    \/ \E s \in Scheduler : loop(s) \/ crash(s) \/ stop(s)

Spec == Init /\ [][Next]_vars

\* The loop of run() survives every exception.
Fairness == \A s \in Scheduler : WF_vars(loop(s))

FairSpec == Spec /\ Fairness

-----------------------------------------------------------------------------

\* The executions a trigger has started are exactly its occurrences so far,
\* in order, none twice and none skipped, and the stored schedule points at
\* the one after the last: advancing and starting commit or vanish together,
\* whichever schedulers take part and wherever they crash.
ScheduleMatchesExecutions ==
    \A tr \in Trigger :
        LET n == Len(started[tr]) IN
        /\ n > 0 => started[tr][1] = first[tr]
        /\ \A i \in 1..(n - 1) :
              started[tr][i + 1] = next_occurrence(tr, started[tr][i])
        /\ next_run_at[tr] = IF n = 0 THEN first[tr]
                                      ELSE next_occurrence(tr, started[tr][n])

overdue(tr) == next_run_at[tr] # NULL /\ next_run_at[tr] <= now

\* A due occurrence that can be processed is, unless one that cannot is due
\* before it: the trigger's workflow is disabled, its plugin missing or raising.
\* An earlier occurrence that succeeds, a crash or another Scheduler only delay
\* it.
OnlyFailingOccurrencesBlock ==
    \A tr \in enabled : \A x \in Time :
        (next_run_at[tr] = x /\ x <= now /\ processable(tr)) ~>
            \/ next_run_at[tr] # x
            \/ \E b \in enabled : overdue(b) /\ ~processable(b) /\ before(b, tr)

\* A due occurrence of an enabled trigger of an enabled workflow, whose plugin
\* answers, is processed.
\* docs/architecture/application/chronological-triggers.md: "missed runs are
\* processed deterministically rather than silently skipped".
DueOccurrenceProcessed ==
    \A tr \in enabled : \A x \in Time :
        (next_run_at[tr] = x /\ x <= now /\ processable(tr)) ~> next_run_at[tr] # x

=============================================================================
