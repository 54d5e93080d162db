--------------------------- MODULE QueueInsertions ---------------------------
(***************************************************************************)
(* The insertions of execution_queue/postgres/queue.py, row by row.        *)
(*                                                                         *)
(* enqueue and finish are one transaction each, but INSERT ... ON CONFLICT *)
(* DO NOTHING takes its rows one after the other in the order of the list, *)
(* and a row that another open transaction has inserted or deleted makes it*)
(* wait until that transaction ends: only then is it known whether there is*)
(* a conflict.  Transactions that wait in a circle are a deadlock, which   *)
(* PostgreSQL ends by aborting one of them.                                *)
(*                                                                         *)
(* owner, expired and held are the committed queue of ExecutionQueue, and  *)
(* `status' is the little of the workflow executions that decides which ids*)
(* are listed.  claim, heartbeat and release lock a single row and hold no *)
(* other while they wait for it, so they are one step each.  A task that   *)
(* fails releases nothing, as a late completion does.                      *)
(***************************************************************************)
EXTENDS ExecutionQueue, SequencesExt

CONSTANTS
    Children,   \* TaskExecutionModel.child_task_ids
    Enqueuer,   \* callers of enqueue: the Reconciler, WorkflowStartService
    Worker,     \* callers of claim and finish
    NULL

Session == Enqueuer \cup Worker

ASSUME SessionAssumption == Enqueuer \cap Worker = {}

ASSUME TaskAssumption == IsFiniteSet(Task)

\* Python's None is no claim.
ASSUME NoneAssumption == NULL \notin Claim

\* Children are listed once each, and dependencies have no cycle: a set of
\* tasks always has one without a child in the set.
ASSUME ChildrenAssumption ==
    /\ Children \in [Task -> Seq(Task)]
    /\ \A t \in Task : IsInjective(Children[t])
    /\ \A S \in (SUBSET Task) \ {{}} : \E t \in S : ToSet(Children[t]) \cap S = {}

VARIABLES
    status,     \* task -> "PENDING", "RUNNING", "COMPLETED"
    pc,         \* session -> see TypeOK
    job,        \* worker -> its claim, or NULL
    todo,       \* session -> ids that its INSERT has still to take
    deleted,    \* session -> rows its open transaction has deleted
    inserted_rows   \* session -> rows its open transaction has inserted

session_vars == <<pc, job, todo, deleted, inserted_rows>>
insertion_vars == <<queue_vars, status, session_vars>>

parents(t) == {p \in Task : t \in ToSet(Children[p])}

runnable_ids ==
    {t \in Task : /\ status[t] = "PENDING"
                  /\ \A p \in parents(t) : status[p] = "COMPLETED"}

\* Every variable has its type; what a session holds fits where it stands.
TypeOK ==
    /\ QueueTypeOK
    /\ status \in [Task -> {"PENDING", "RUNNING", "COMPLETED"}]
    /\ pc \in [Session -> {"idle", "claimed", "processed", "inserting", "dead"}]
    /\ job \in [Worker -> Claim \cup {NULL}]
    /\ todo \in [Session -> Seq(Task)]
    /\ deleted \in [Session -> SUBSET Task]
    /\ inserted_rows \in [Session -> SUBSET Task]
    /\ held = {job[w] : w \in {v \in Worker : job[v] # NULL}}
    /\ \A s \in Session :
          /\ pc[s] \notin {"inserting", "processed"} => todo[s] = << >>
          /\ deleted[s] \cup inserted_rows[s] # {} => pc[s] = "inserting"
          /\ deleted[s] \cap inserted_rows[s] = {}
          /\ s \in Worker => (job[s] = NULL <=> pc[s] \in {"idle", "dead"})

InsertionInit ==
    /\ QueueInit
    /\ status = [t \in Task |-> "PENDING"]
    /\ pc = [s \in Session |-> "idle"]
    /\ job = [w \in Worker |-> NULL]
    /\ todo = [s \in Session |-> << >>]
    /\ deleted = [s \in Session |-> {}]
    /\ inserted_rows = [s \in Session |-> {}]

-----------------------------------------------------------------------------
(***************************************************************************)
(* The INSERT statement.                                                   *)
(***************************************************************************)

\* The rows that s has changed and not yet committed.
dirty(s) == deleted[s] \cup inserted_rows[s]

waits_for(s, r) ==
    /\ pc[s] = "inserting"
    /\ todo[s] # << >>
    /\ r # s
    /\ Head(todo[s]) \in dirty(r)

written_whatever_is_there(s) == TRUE

\* ON CONFLICT DO NOTHING
no_conflict(s) == owner[Head(todo[s])] = Absent \/ Head(todo[s]) \in deleted[s]

insert_row(s) ==
    /\ pc[s] = "inserting"
    /\ todo[s] # << >>
    /\ \A r \in Session : ~waits_for(s, r)
    /\ inserted_rows' =
          IF no_conflict(s)
          THEN [inserted_rows EXCEPT ![s] = @ \cup {Head(todo[s])}]
          ELSE inserted_rows
    /\ todo' = [todo EXCEPT ![s] = Tail(@)]
    /\ UNCHANGED <<queue_vars, status, pc, job, deleted>>

ended_keeping_locks(s) ==
    /\ pc' = [pc EXCEPT ![s] = "idle"]
    /\ todo' = [todo EXCEPT ![s] = << >>]
    /\ deleted' = deleted
    /\ inserted_rows' = [inserted_rows EXCEPT ![s] = {}]
    /\ job' = [w \in Worker |-> IF w = s THEN NULL ELSE job[w]]

\* The session is done with its transaction and its claim.
ended(s) ==
    /\ pc' = [pc EXCEPT ![s] = "idle"]
    /\ todo' = [todo EXCEPT ![s] = << >>]
    /\ deleted' = [deleted EXCEPT ![s] = {}]
    /\ inserted_rows' = [inserted_rows EXCEPT ![s] = {}]
    /\ job' = [w \in Worker |-> IF w = s THEN NULL ELSE job[w]]

commit(s) ==
    /\ pc[s] = "inserting"
    /\ todo[s] = << >>
    /\ owner' = [t \in Task |-> IF t \in inserted_rows[s] THEN Unclaimed
                                ELSE IF t \in deleted[s] THEN Absent
                                ELSE owner[t]]
    /\ expired' = expired \ deleted[s]
    /\ held' = IF s \in Worker THEN held \ {job[s]} ELSE held
    /\ ended(s)
    /\ UNCHANGED status

-----------------------------------------------------------------------------
(***************************************************************************)
(* enqueue, with what Reconciler._reconcile read: the ids come in no       *)
(* particular order.  WorkflowStartService's list of roots is one of them. *)
(***************************************************************************)

enqueue_runnable(e) ==
    /\ pc[e] = "idle"
    /\ \E ids \in SetToSeqs(runnable_ids) : todo' = [todo EXCEPT ![e] = ids]
    /\ pc' = [pc EXCEPT ![e] = "inserting"]
    /\ UNCHANGED <<queue_vars, status, job, deleted, inserted_rows>>

-----------------------------------------------------------------------------
(***************************************************************************)
(* claim, the processing of the task, and finish.                          *)
(***************************************************************************)

none_skipped(t) == FALSE

\* SKIP LOCKED; rows that are not committed yet are not visible.
skipped(t) == \E s \in Session : t \in deleted[s]

claim_entry(w) ==
    /\ pc[w] = "idle"
    /\ \E t \in Task, k \in fresh_tokens :
          /\ \A j \in fresh_tokens : k <= j
          /\ ~skipped(t)
          /\ claim(t, k, TRUE)
          /\ job' = [job EXCEPT ![w] = <<t, k>>]
    /\ pc' = [pc EXCEPT ![w] = "claimed"]
    /\ UNCHANGED <<status, todo, deleted, inserted_rows>>

task_of(w) == job[w][1]

start_task(w) ==
    /\ pc[w] = "claimed"
    /\ status[task_of(w)] = "PENDING"
    /\ status' = [status EXCEPT ![task_of(w)] = "RUNNING"]
    /\ UNCHANGED <<queue_vars, session_vars>>

\* Without the test whether another parent is still awaited.
every_child(t) == ToSet(Children[t])

released(t) ==
    {c \in ToSet(Children[t]) : \A p \in parents(c) \ {t} : status[p] = "COMPLETED"}

comes_before(c, d, list) ==
    \E i, j \in DOMAIN list : i < j /\ list[i] = c /\ list[j] = d

\* _update_child_dependencies: in the order of child_task_ids.
released_lists(t) ==
    {ids \in SetToSeqs(released(t)) :
        \A i, j \in DOMAIN ids : i < j => comes_before(ids[i], ids[j], Children[t])}

\* process() returns: the completion has committed, or the task is not
\* RUNNING any more and nothing is released.
complete_task(w) ==
    /\ pc[w] = "claimed"
    /\ \/ /\ status[task_of(w)] = "RUNNING"
          /\ status' = [status EXCEPT ![task_of(w)] = "COMPLETED"]
          /\ \E ids \in released_lists(task_of(w)) :
                todo' = [todo EXCEPT ![w] = ids]
       \/ /\ status[task_of(w)] = "COMPLETED"
          /\ UNCHANGED <<status, todo>>
    /\ pc' = [pc EXCEPT ![w] = "processed"]
    /\ UNCHANGED <<queue_vars, job, deleted, inserted_rows>>

\* The DELETE of finish: without its claim the worker inserts nothing.
finish_deletes(w) ==
    /\ pc[w] = "processed"
    /\ IF is_current(job[w])
       THEN /\ deleted' = [deleted EXCEPT ![w] = {task_of(w)}]
            /\ UNCHANGED todo
       ELSE /\ todo' = [todo EXCEPT ![w] = << >>]
            /\ UNCHANGED deleted
    /\ pc' = [pc EXCEPT ![w] = "inserting"]
    /\ UNCHANGED <<queue_vars, status, job, inserted_rows>>

heartbeat_entry(w) ==
    /\ pc[w] = "claimed"
    /\ \E in_time \in BOOLEAN : heartbeat(job[w], in_time)
    /\ UNCHANGED <<status, session_vars>>

\* process() returns should_retry: the task stays RUNNING.
release_entry(w) ==
    /\ pc[w] = "claimed"
    /\ status[task_of(w)] = "RUNNING"
    /\ release(job[w])
    /\ ended(w)
    /\ UNCHANGED status

\* process() raises, the claim is no longer trusted, or the worker dies and
\* another one takes its place: the entry is left to expire.
abandon(w) ==
    /\ pc[w] \in {"claimed", "processed"}
    /\ forget(job[w])
    /\ ended(w)
    /\ UNCHANGED status

-----------------------------------------------------------------------------
(***************************************************************************)
(* What goes wrong.                                                        *)
(***************************************************************************)

\* Every session of S waits for another one of S.
circle(S) == S # {} /\ \A s \in S : \E r \in S : waits_for(s, r)

rolled_back(s) ==
    /\ todo' = [todo EXCEPT ![s] = << >>]
    /\ deleted' = [deleted EXCEPT ![s] = {}]
    /\ inserted_rows' = [inserted_rows EXCEPT ![s] = {}]

\* The Reconciler logs the error and tries again; nothing in the worker
\* catches it, and the worker is gone.
after_abort(s) == IF s \in Enqueuer THEN "idle" ELSE "dead"

\* The deadlock detector picks a victim.
deadlock_victim(s) ==
    /\ \E S \in SUBSET Session : s \in S /\ circle(S)
    /\ rolled_back(s)
    /\ pc' = [pc EXCEPT ![s] = after_abort(s)]
    /\ held' = IF s \in Worker THEN held \ {job[s]} ELSE held
    /\ job' = [w \in Worker |-> IF w = s THEN NULL ELSE job[w]]
    /\ UNCHANGED <<owner, expired, status>>

\* A late heartbeat: a row nobody is deleting may be taken from its holder.
lease_expires(t) ==
    /\ leases_expire({t})
    /\ UNCHANGED <<status, session_vars>>

InsertionNext ==
    \/ \E s \in Session : insert_row(s) \/ commit(s) \/ deadlock_victim(s)
    \/ \E e \in Enqueuer : enqueue_runnable(e)
    \/ \E w \in Worker :
          \/ claim_entry(w) \/ start_task(w) \/ complete_task(w) \/ finish_deletes(w)
          \/ heartbeat_entry(w) \/ release_entry(w) \/ abandon(w)
    \/ \E t \in Task : lease_expires(t)

InsertionSpec == InsertionInit /\ [][InsertionNext]_insertion_vars

-----------------------------------------------------------------------------

\* Row by row, with waits, deadlocks and rollbacks, the insertions are the
\* atomic enqueue and finish of the interface: a finish that loses its claim
\* inserts nothing, and no commit overwrites an entry claimed meanwhile.
ImplementsExecutionQueue == QueueSpec

\* Finishes alone never deadlock: a task is released by one completion only, so
\* no two of them insert the same row, and what else a finish can wait for is
\* the row that the finish of one of its children has deleted, further down the
\* dependencies.  A deadlock takes a list of the Reconciler.
FinishesNeverDeadlock ==
    \A S \in SUBSET Worker : ~circle(S)

=============================================================================
