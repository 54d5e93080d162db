------------------------------ MODULE Platform ------------------------------
(***************************************************************************)
(* The runtime processes put together: the workflow start service, workers *)
(* with their heartbeat threads, and the Reconciler, around the two stores *)
(* they share: workflow executions (WorkflowExecutions) and the execution  *)
(* queue (ExecutionQueue).  The stores commit separately, so every gap     *)
(* between two commits is a place where a process can die.                 *)
(*                                                                         *)
(* `faults' counts the things that happen to the system: a worker or       *)
(* starter dying, an exception from a plugin or a database, a heartbeat    *)
(* that stalls past the lease, a worker told to stop.  MaxFaults bounds    *)
(* them.                                                                   *)
(***************************************************************************)
EXTENDS WorkflowExecutions

CONSTANTS
    Worker,
    Token,      \* 1 .. n, n at least the tasks plus the workers
    Absent, Unclaimed,
    MaxFaults   \* bound of the model

ASSUME PlatformAssumption == Token \subseteq Nat /\ MaxFaults \in Nat

\* What the queue assumes of its constants (ExecutionQueue).
ASSUME EntryAssumption == Absent # Unclaimed /\ {Absent, Unclaimed} \cap Token = {}

VARIABLES
    owner, expired, held,   \* the queue, see ExecutionQueue
    pc,             \* worker -> where Worker.run is, see PlatformTypeOK
    stopping,       \* workers whose stop_event is set
    claim,          \* worker -> the claim it works under, or NULL
    trusted,        \* worker -> claim_untrusted_event is not set
    result,         \* worker -> ProcessTaskResult, or NULL
    unpublished,    \* workflows whose roots are committed and not yet enqueued
    listed,         \* what the Reconciler read and is about to enqueue, or NULL
    faults

Q == INSTANCE ExecutionQueue

worker_vars == <<pc, stopping, claim, trusted, result>>
platform_vars == <<vars, owner, expired, held, worker_vars, unpublished, listed, faults>>

Result == [should_retry : BOOLEAN, enqueue_task_ids : SUBSET Task]

\* Python's None is no claim, no result and no list of ids.
ASSUME NoneAssumption ==
    /\ NULL \notin Q!Claim
    /\ NULL \notin Result
    /\ \A ids \in SUBSET Task : NULL # ids

task_of(w) == claim[w][1]

\* Every variable has its type; exactly the busy workers hold claims.
PlatformTypeOK ==
    /\ TypeOK
    /\ Q!QueueTypeOK
    /\ pc \in [Worker -> {"idle", "starting", "executing", "done", "stopped", "dead"}]
    /\ stopping \in SUBSET Worker
    /\ claim \in [Worker -> Q!Claim \cup {NULL}]
    /\ trusted \in [Worker -> BOOLEAN]
    /\ result \in [Worker -> Result \cup {NULL}]
    /\ unpublished \in SUBSET Workflow
    /\ listed \in (SUBSET Task) \cup {NULL}
    /\ faults \in 0..MaxFaults
    /\ held = {claim[w] : w \in {v \in Worker : claim[v] # NULL}}
    /\ \A w \in Worker : claim[w] = NULL <=> pc[w] \in {"idle", "stopped", "dead"}
    /\ \A w \in Worker : pc[w] = "stopped" => w \in stopping
    /\ \A w \in Worker : result[w] # NULL <=> pc[w] = "done"

PlatformInit ==
    /\ Init
    /\ Q!QueueInit
    /\ pc = [w \in Worker |-> "idle"]
    /\ stopping = {}
    /\ claim = [w \in Worker |-> NULL]
    /\ trusted = [w \in Worker |-> TRUE]
    /\ result = [w \in Worker |-> NULL]
    /\ unpublished = {}
    /\ listed = NULL
    /\ faults = 0

fault == faults < MaxFaults /\ faults' = faults + 1
no_fault == UNCHANGED faults

-----------------------------------------------------------------------------
(***************************************************************************)
(* WorkflowStartService.start_and_commit: commit, then enqueue the roots.  *)
(***************************************************************************)

start_and_commit(v) ==
    /\ create(v, TRUE)
    /\ unpublished' = unpublished \cup {v}
    /\ UNCHANGED <<owner, expired, held, worker_vars, listed, faults>>

publish_every_task(v) ==
    /\ v \in unpublished
    /\ Q!enqueue(TasksOf(v))
    /\ unpublished' = unpublished \ {v}
    /\ UNCHANGED <<vars, worker_vars, listed, faults>>

publish_roots(v) ==
    /\ v \in unpublished
    /\ Q!enqueue(root_task_ids(v))
    /\ unpublished' = unpublished \ {v}
    /\ UNCHANGED <<vars, worker_vars, listed, faults>>

lose_roots(v) ==
    /\ v \in unpublished
    /\ unpublished' = unpublished \ {v}
    /\ fault
    /\ UNCHANGED <<vars, owner, expired, held, worker_vars, listed>>

-----------------------------------------------------------------------------
(***************************************************************************)
(* Reconciler._reconcile: read the runnable ids, then enqueue what was read*)
(* even if it is not runnable any more.                                    *)
(***************************************************************************)

reconcile_find ==
    /\ listed = NULL
    /\ find_runnable_ids
    /\ listed' = runnable_ids
    /\ UNCHANGED <<owner, expired, held, worker_vars, unpublished, faults>>

reconcile_enqueue ==
    /\ listed # NULL
    /\ Q!enqueue(listed)
    /\ listed' = NULL
    /\ UNCHANGED <<vars, worker_vars, unpublished, faults>>

\* enqueue raises; run() logs it and waits for the next round.
reconcile_fails ==
    /\ listed # NULL
    /\ listed' = NULL
    /\ fault
    /\ UNCHANGED <<vars, owner, expired, held, worker_vars, unpublished>>

-----------------------------------------------------------------------------
(***************************************************************************)
(* Worker.run and Worker._process_claim.                                   *)
(***************************************************************************)

busy(w) == pc[w] \in {"starting", "executing", "done"}

\* The loop of run() looks at stop_event before it claims again.
back_in_loop(w) == IF w \in stopping THEN "stopped" ELSE "idle"

drop_claim_keeping_result(w) ==
    /\ pc' = [pc EXCEPT ![w] = back_in_loop(w)]
    /\ claim' = [claim EXCEPT ![w] = NULL]
    /\ trusted' = [trusted EXCEPT ![w] = TRUE]
    /\ UNCHANGED <<stopping, result>>

\* The worker has no claim any more; the entry stays as it is.
drop_claim(w) ==
    /\ pc' = [pc EXCEPT ![w] = back_in_loop(w)]
    /\ claim' = [claim EXCEPT ![w] = NULL]
    /\ trusted' = [trusted EXCEPT ![w] = TRUE]
    /\ result' = [result EXCEPT ![w] = NULL]
    /\ UNCHANGED stopping

\* An idle worker that is told to stop may have looked at stop_event already:
\* then it takes one more claim.
claim_task(w) ==
    /\ pc[w] = "idle"
    /\ \E k \in Q!fresh_tokens :
          /\ \A j \in Q!fresh_tokens : k <= j
          /\ \E t \in Task :
                /\ Q!claim(t, k, TRUE)
                /\ claim' = [claim EXCEPT ![w] = <<t, k>>]
    /\ pc' = [pc EXCEPT ![w] = "starting"]
    /\ UNCHANGED <<vars, stopping, trusted, result, unpublished, listed, faults>>

returns(w, retry, ids) ==
    /\ pc' = [pc EXCEPT ![w] = "done"]
    /\ result' = [result EXCEPT ![w] = [should_retry |-> retry,
                                        enqueue_task_ids |-> ids]]
    /\ UNCHANGED <<stopping, claim, trusted>>

\* TaskProcessingService._start_task: a pending task starts, a running one is
\* resumed, a terminal one yields an empty result.
start(w) ==
    /\ pc[w] = "starting"
    /\ \/ /\ start_task(task_of(w))
          /\ pc' = [pc EXCEPT ![w] = "executing"]
          /\ UNCHANGED <<stopping, claim, trusted, result>>
       \/ /\ status[task_of(w)] = "RUNNING"
          /\ parent_outputs_present(task_of(w))
          /\ pc' = [pc EXCEPT ![w] = "executing"]
          /\ UNCHANGED <<vars, stopping, claim, trusted, result>>
       \/ /\ status[task_of(w)] \notin Active
          /\ returns(w, FALSE, {})
          /\ UNCHANGED vars
    /\ UNCHANGED <<owner, expired, held, unpublished, listed, faults>>

\* The plugin succeeds and the completion commits.  A late completion, of a
\* task that is not RUNNING any more, changes nothing and returns nothing.
\* Whether any hidden sibling exists is all that counts of `hidden'.
complete(w) ==
    /\ pc[w] = "executing"
    /\ \/ \E out \in Output, hidden \in {{}, completed_meanwhile[task_of(w)]} :
             /\ complete_task(task_of(w), out, hidden, TRUE)
             /\ returns(w, FALSE, released(task_of(w)))
       \/ /\ status[task_of(w)] # "RUNNING"
          /\ returns(w, FALSE, {})
          /\ UNCHANGED vars
    /\ UNCHANGED <<owner, expired, held, unpublished, listed, faults>>

\* The attempt fails and the retry commits.
should_retry(t) == tries_left(t)

retry(w) ==
    /\ pc[w] = "executing"
    /\ \/ /\ retry_task(task_of(w))
          /\ returns(w, should_retry(task_of(w)), {})
       \/ /\ status[task_of(w)] # "RUNNING"
          /\ returns(w, FALSE, {})
          /\ UNCHANGED vars
    /\ UNCHANGED <<owner, expired, held, unpublished, listed, faults>>

\* process() raises, before or after a commit that the worker never learns
\* about; the entry is kept.
process_raises(w) ==
    /\ pc[w] \in {"starting", "executing"}
    /\ fault
    /\ \/ UNCHANGED vars
       \/ /\ pc[w] = "executing"
          /\ \E out \in Output, hidden \in {{}, completed_meanwhile[task_of(w)]} :
                complete_task(task_of(w), out, hidden, FALSE)
       \/ pc[w] = "executing" /\ retry_task(task_of(w))
    /\ held' = held \ {claim[w]}
    /\ drop_claim(w)
    /\ UNCHANGED <<owner, expired, unpublished, listed>>

\* After the heartbeat thread is joined: a distrusted claim is left alone, a
\* retry gives the entry back, anything else removes it.
finish_whatever(w) ==
    /\ pc[w] = "done"
    /\ trusted[w]
    /\ Q!finish(claim[w], result[w].enqueue_task_ids)
    /\ drop_claim(w)
    /\ UNCHANGED <<vars, unpublished, listed, faults>>

dispose(w) ==
    /\ pc[w] = "done"
    /\ \/ /\ ~trusted[w]
          /\ Q!forget(claim[w])
       \/ /\ trusted[w]
          /\ result[w].should_retry
          /\ Q!release(claim[w])
       \/ /\ trusted[w]
          /\ ~result[w].should_retry
          /\ Q!finish(claim[w], result[w].enqueue_task_ids)
    /\ drop_claim(w)
    /\ UNCHANGED <<vars, unpublished, listed, faults>>

\* Somebody else goes on working.
replaceable(w) == \E v \in Worker \ ({w} \cup stopping) : pc[v] # "dead"

\* The process dies, or an exception escapes from claim, release or finish:
\* run() has no handler.
die(w) ==
    /\ pc[w] \notin {"stopped", "dead"}
    /\ replaceable(w)
    /\ fault
    /\ pc' = [pc EXCEPT ![w] = "dead"]
    /\ held' = held \ {claim[w]}
    /\ claim' = [claim EXCEPT ![w] = NULL]
    /\ trusted' = [trusted EXCEPT ![w] = TRUE]
    /\ result' = [result EXCEPT ![w] = NULL]
    /\ UNCHANGED <<vars, owner, expired, stopping, unpublished, listed>>

\* The signal handler of the bootstrap calls Worker.stop: a task that is being
\* processed is brought to its end, heartbeats included.
stop(w) ==
    /\ pc[w] \notin {"stopped", "dead"}
    /\ w \notin stopping
    /\ replaceable(w)
    /\ fault
    /\ stopping' = stopping \cup {w}
    /\ UNCHANGED <<vars, owner, expired, held, pc, claim, trusted, result,
                   unpublished, listed>>

wakes_up_after_work_only(w) == FALSE

\* stop_event ends the wait between two polls.
wakes_up(w) == pc[w] = "idle" /\ w \in stopping

leave_loop(w) ==
    /\ wakes_up(w)
    /\ pc' = [pc EXCEPT ![w] = "stopped"]
    /\ UNCHANGED <<vars, owner, expired, held, stopping, claim, trusted, result,
                   unpublished, listed, faults>>

-----------------------------------------------------------------------------
(***************************************************************************)
(* Worker._heartbeat, and the lease it keeps.                              *)
(***************************************************************************)

beating(w) == busy(w) /\ trusted[w]

heartbeat_renews(w) ==
    /\ beating(w)
    /\ Q!heartbeat(claim[w], TRUE)
    /\ UNCHANGED <<vars, worker_vars, unpublished, listed, faults>>

heartbeat_refused(w) ==
    /\ beating(w)
    /\ ~Q!is_current(claim[w])
    /\ trusted' = [trusted EXCEPT ![w] = FALSE]
    /\ UNCHANGED <<vars, owner, expired, held, pc, stopping, claim, result, unpublished, listed, faults>>

heartbeat_raises(w) ==
    /\ beating(w)
    /\ fault
    /\ trusted' = [trusted EXCEPT ![w] = FALSE]
    /\ UNCHANGED <<vars, owner, expired, held, pc, stopping, claim, result, unpublished, listed>>

\* Nobody renews the lease of t.
unattended(t) ==
    \A w \in Worker : claim[w] = <<t, owner[t]>> => ~trusted[w]

lease_expires(t) ==
    /\ unattended(t)
    /\ Q!leases_expire({t})
    /\ UNCHANGED <<vars, worker_vars, unpublished, listed, faults>>

\* The holder is alive but its heartbeats are too late.
lease_stalls(t) ==
    /\ ~unattended(t)
    /\ Q!leases_expire({t})
    /\ fault
    /\ UNCHANGED <<vars, worker_vars, unpublished, listed>>

-----------------------------------------------------------------------------

PlatformNext ==
    \/ \E v \in Workflow : start_and_commit(v) \/ publish_roots(v) \/ lose_roots(v)
    \/ reconcile_find \/ reconcile_enqueue \/ reconcile_fails
    \/ \E w \in Worker :
          \/ claim_task(w) \/ start(w) \/ complete(w) \/ retry(w)
          \/ process_raises(w) \/ dispose(w) \/ die(w)
          \/ stop(w) \/ leave_loop(w)
          \/ heartbeat_renews(w) \/ heartbeat_refused(w) \/ heartbeat_raises(w)
    \/ \E t \in Task : lease_expires(t) \/ lease_stalls(t)

PlatformSpec == PlatformInit /\ [][PlatformNext]_platform_vars

\* The thread of run() is at one place at a time.
one_of_its_steps(w) ==
    start(w) \/ complete(w) \/ retry(w) \/ dispose(w) \/ leave_loop(w)

\* Live processes keep going: the Reconciler's loop survives exceptions, a
\* worker that is not dead polls the queue and ends what it claimed (plugins
\* return), published roots reach the queue, and time passes.  Nothing makes
\* a workflow start.
PlatformFairness ==
    /\ \A v \in Workflow : WF_platform_vars(publish_roots(v))
    /\ WF_platform_vars(reconcile_find \/ reconcile_enqueue)
    /\ \A w \in Worker : /\ WF_platform_vars(claim_task(w))
                         /\ WF_platform_vars(one_of_its_steps(w))
    /\ \A t \in Task : WF_platform_vars(lease_expires(t))

FairPlatformSpec == PlatformSpec /\ PlatformFairness

-----------------------------------------------------------------------------

\* A RUNNING task always has a queue entry.  Nothing else would bring it back:
\* the Reconciler looks for PENDING tasks only, so the entry must survive
\* every crash and every stale finish until the task is terminal.
RunningTaskQueued ==
    \A t \in Task : status[t] = "RUNNING" => owner[t] # Absent

\* Every entry is for a task whose parents have all completed with outputs:
\* start_task does not check, so the queue must never hold anything else, not
\* even for a stale list of the Reconciler or a late finish.
QueuedTaskReady ==
    \A t \in Task : owner[t] # Absent =>
        /\ status[t] # "NONE"
        /\ \A p \in Parents[t] : status[p] = "COMPLETED" /\ output[p] # NULL

\* The processes use the workflow executions as WorkflowExecutions allows: in
\* particular they start only ids that were reported as runnable.
UsesWorkflowExecutions == Spec

unsettled == {t \in Task : status[t] \in Active \/ owner[t] # Absent}

\* Everything that is started settles: every task reaches a terminal state and
\* every entry, stale ones included, leaves the queue, whatever was lost on the
\* way: roots never enqueued, a finish that never came, a worker that died or
\* was stopped while its task was RUNNING.
EverythingSettles == unsettled # {} ~> unsettled = {}

\* A worker that is told to stop does: it never waits for more work, and what
\* it is at, a claim taken at the last moment included, comes to an end.
StopReached ==
    \A w \in Worker : w \in stopping ~> pc[w] \in {"stopped", "dead"}

=============================================================================
