----------------------- MODULE RepositoryTransactions -----------------------
(***************************************************************************)
(* The transactions of the task processing service against the workflow    *)
(* execution repository, one action per SQL statement, as PostgreSQL runs  *)
(* them at READ COMMITTED: a statement sees what is committed when it runs *)
(* plus its own transaction's writes, a write locks the row until the      *)
(* transaction ends, a writer that meets a lock waits and then re-evaluates*)
(* its WHERE clause on the new row, and a cycle of waiters is broken by    *)
(* aborting one of them.                                                   *)
(*                                                                         *)
(* A session stands for a worker's call of TaskProcessingService.process.  *)
(* Any session may take any id that was reported as runnable, so several   *)
(* may work on one task (a claim whose lease ran out).                     *)
(***************************************************************************)
EXTENDS Integers, Sequences, FiniteSets, SequencesExt

CONSTANTS
    Workflow, Task, workflow_of, Parents, MaxTries, Output, NULL,
    Session,        \* concurrent database sessions
    TaskOrder       \* WorkflowDefinition.task_definitions, flattened

\* A definition lists its tasks once each, at least one per execution.
ASSUME TaskOrderAssumption ==
    /\ TaskOrder \in Seq(Task)
    /\ Range(TaskOrder) = Task
    /\ IsInjective(TaskOrder)
    /\ \A w \in Workflow : \E t \in Task : workflow_of[t] = w

\* A parent is a task of the same definition.
ASSUME GraphAssumption ==
    /\ workflow_of \in [Task -> Workflow]
    /\ Parents \in [Task -> SUBSET Task]
    /\ \A t \in Task : \A p \in Parents[t] : workflow_of[p] = workflow_of[t]

ASSUME MaxTriesAssumption == MaxTries \in [Task -> Nat \ {0}]

\* The rows of the two tables differ, and NULL is no value of any of these kinds.
ASSUME RowAssumption ==
    /\ Task \cap Workflow = {}
    /\ NULL \notin Output /\ NULL \notin Session /\ NULL \notin Task

VARIABLES
    committed,      \* the tables as other sessions see them
    working,        \* the newest version of every row
    lock,           \* row -> the session that has written it, or NULL
    pc,             \* session -> the statement it runs next
    job,            \* session -> the task it processes
    todo,           \* session -> rows its current loop or scan still visits
    found,          \* session -> _update_child_dependencies' `runnable'
    reported,       \* ids some caller has been told are runnable
    completed_meanwhile,    \* history, as in WorkflowExecutions
    overlapped      \* history: task -> siblings whose completion was committed
                    \* while the transaction completing the task was open

history == <<completed_meanwhile, overlapped>>

vars == <<committed, working, lock, pc, job, todo, found, reported, history>>

-----------------------------------------------------------------------------

Active == {"PENDING", "RUNNING"}
TasksOf(w) == {t \in Task : workflow_of[t] = w}

children(t) == {c \in Task : t \in Parents[c]}

before(c, d) ==
    \E i, j \in DOMAIN TaskOrder : i < j /\ TaskOrder[i] = c /\ TaskOrder[j] = d

in_order(ids) == \A i, j \in DOMAIN ids : i < j => before(ids[i], ids[j])

child_task_ids_in_any_order(t) == SetToSeqs(children(t))

\* The children in the order of the task definitions, the same for every
\* parent (a set of one list).
child_task_ids(t) == {ids \in SetToSeqs(children(t)) : in_order(ids)}

TaskRow == [status : {"NONE", "PENDING", "RUNNING", "COMPLETED", "FAILED", "CANCELLED"},
            remaining_dependencies : 0..Cardinality(Task),
            remaining_tries : Nat,
            output : Output \cup {NULL}]

Tables == [wf : [Workflow -> {"NONE", "RUNNING", "COMPLETED", "FAILED"}],
           task : [Task -> TaskRow]]

Rows == Task \cup Workflow

\* Outside a transaction, and the statement a transaction runs next.
Resting == {"idle", "executing"}
Statement == {"start_select", "commit_start", "update_child", "complete_workflow",
              "fail_workflow", "cancel_scan", "cancel_row", "commit"}

\* Every variable has its type, and a row differs from its committed version
\* only under a lock.
TypeOK ==
    /\ committed \in Tables
    /\ working \in Tables
    /\ lock \in [Rows -> Session \cup {NULL}]
    /\ pc \in [Session -> Resting \cup Statement]
    /\ job \in [Session -> Task \cup {NULL}]
    /\ todo \in [Session -> Seq(Task)]
    /\ found \in [Session -> SUBSET Task]
    /\ reported \in SUBSET Task
    /\ completed_meanwhile \in [Task -> SUBSET Task]
    /\ overlapped \in [Task -> SUBSET Task]
    /\ \A t \in Task : lock[t] = NULL => working.task[t] = committed.task[t]
    /\ \A w \in Workflow : lock[w] = NULL => working.wf[w] = committed.wf[w]

NoRow == [status |-> "NONE", remaining_dependencies |-> 0,
          remaining_tries |-> 0, output |-> NULL]

NoTables == [wf |-> [w \in Workflow |-> "NONE"],
             task |-> [t \in Task |-> NoRow]]

Init ==
    /\ committed = NoTables
    /\ working = NoTables
    /\ lock = [r \in Rows |-> NULL]
    /\ pc = [s \in Session |-> "idle"]
    /\ job = [s \in Session |-> NULL]
    /\ todo = [s \in Session |-> << >>]
    /\ found = [s \in Session |-> {}]
    /\ reported = {}
    /\ completed_meanwhile = [t \in Task |-> {}]
    /\ overlapped = [t \in Task |-> {}]

-----------------------------------------------------------------------------
(***************************************************************************)
(* What PostgreSQL does.                                                   *)
(***************************************************************************)

task_row(s, t) == IF lock[t] = s THEN working.task[t] ELSE committed.task[t]
workflow_row(s, w) == IF lock[w] = s THEN working.wf[w] ELSE committed.wf[w]

unlocked(s, r) == lock[r] \in {NULL, s}

goto(s, statement) == pc' = [pc EXCEPT ![s] = statement]

\* UPDATE of one task row that satisfies the WHERE clause: wait for the lock,
\* then write.
write_task(s, t, row) ==
    /\ unlocked(s, t)
    /\ working' = [working EXCEPT !.task[t] = row]
    /\ lock' = [lock EXCEPT ![t] = s]

write_workflow(s, w, state) ==
    /\ unlocked(s, w)
    /\ working' = [working EXCEPT !.wf[w] = state]
    /\ lock' = [lock EXCEPT ![w] = s]

write_nothing == UNCHANGED <<working, lock>>

\* The tables after session s commits: its rows replace the old versions.
published(s) ==
    [wf |-> [w \in Workflow |-> workflow_row(s, w)],
     task |-> [t \in Task |-> task_row(s, t)]]

unlock_all(s) == [r \in Rows |-> IF lock[r] = s THEN NULL ELSE lock[r]]

leave_transaction_open(s) == UNCHANGED vars

\* The end of a transaction without commit.  process() raises, the worker
\* keeps the queue entry and drops the claim.
roll_back(s) ==
    /\ working' =
         [wf |-> [w \in Workflow |->
                     IF lock[w] = s THEN committed.wf[w] ELSE working.wf[w]],
          task |-> [t \in Task |->
                     IF lock[t] = s THEN committed.task[t] ELSE working.task[t]]]
    /\ lock' = unlock_all(s)
    /\ goto(s, "idle")
    /\ job' = [job EXCEPT ![s] = NULL]
    /\ todo' = [todo EXCEPT ![s] = << >>]
    /\ found' = [found EXCEPT ![s] = {}]
    /\ UNCHANGED <<committed, reported, history>>

-----------------------------------------------------------------------------
(***************************************************************************)
(* Creation and reconciliation each read or write in one statement's time. *)
(***************************************************************************)

new_row(t) ==
    [status |-> "PENDING",
     remaining_dependencies |-> Cardinality(Parents[t]),
     remaining_tries |-> MaxTries[t],
     output |-> NULL]

with_rows_of(w, tables) ==
    [wf |-> [tables.wf EXCEPT ![w] = "RUNNING"],
     task |-> [t \in Task |-> IF t \in TasksOf(w) THEN new_row(t) ELSE tables.task[t]]]

create(w, answered) ==
    /\ committed.wf[w] = "NONE"
    /\ committed' = with_rows_of(w, committed)
    /\ working' = with_rows_of(w, working)
    /\ reported' = IF answered THEN reported \cup {t \in TasksOf(w) : Parents[t] = {}}
                               ELSE reported
    /\ UNCHANGED <<lock, pc, job, todo, found, history>>

find_runnable_ids ==
    /\ reported' = reported \cup
         {t \in Task : /\ committed.task[t].status = "PENDING"
                       /\ committed.task[t].remaining_dependencies = 0}
    /\ UNCHANGED <<committed, working, lock, pc, job, todo, found, history>>

-----------------------------------------------------------------------------
(***************************************************************************)
(* TaskProcessingService._start_task and repository.start_task.            *)
(***************************************************************************)

start_update(s, t) ==
    /\ pc[s] = "idle"
    /\ LET row == task_row(s, t) IN
       \/ /\ row.status = "PENDING"
          /\ write_task(s, t, [row EXCEPT !.status = "RUNNING"])
       \/ row.status # "PENDING" /\ write_nothing
    /\ job' = [job EXCEPT ![s] = t]
    /\ goto(s, "start_select")
    /\ UNCHANGED <<committed, todo, found, reported, history>>

\* The parents' outputs are read in the same step: they are written once.
start_select(s) ==
    /\ pc[s] = "start_select"
    /\ IF /\ task_row(s, job[s]).status = "RUNNING"
          /\ \A p \in Parents[job[s]] : task_row(s, p).output # NULL
       THEN /\ goto(s, "commit_start")
            /\ UNCHANGED <<committed, working, lock, job, todo, found, reported, history>>
       ELSE roll_back(s)

commit_start(s) ==
    /\ pc[s] = "commit_start"
    /\ committed' = published(s)
    /\ lock' = unlock_all(s)
    /\ goto(s, "executing")
    /\ UNCHANGED <<working, job, todo, found, reported, history>>

\* The plugin raises: nothing is persisted.
plugin_raises(s) ==
    /\ pc[s] = "executing"
    /\ roll_back(s)

-----------------------------------------------------------------------------
(***************************************************************************)
(* TaskProcessingService._complete_task and repository.complete_task.      *)
(***************************************************************************)

complete_task_matches(row) == row.status = "RUNNING"

complete_task(s, out) ==
    /\ pc[s] = "executing"
    /\ LET row == task_row(s, job[s]) IN
       \/ /\ complete_task_matches(row)
          /\ write_task(s, job[s], [row EXCEPT !.status = "COMPLETED", !.output = out])
          /\ \E ids \in child_task_ids(job[s]) : todo' = [todo EXCEPT ![s] = ids]
          /\ overlapped' = [overlapped EXCEPT ![job[s]] = {}]
          /\ goto(s, "update_child")
       \/ /\ ~complete_task_matches(row)
          /\ write_nothing
          /\ goto(s, "commit")
          /\ UNCHANGED <<todo, overlapped>>
    /\ UNCHANGED <<committed, job, found, reported, completed_meanwhile>>

child_matches(row) == row.status = "PENDING" /\ row.remaining_dependencies > 0

update_child(s) ==
    /\ pc[s] = "update_child"
    /\ todo[s] # << >>
    /\ LET c == Head(todo[s])
           row == task_row(s, c)
           left == row.remaining_dependencies - 1 IN
       \/ /\ child_matches(row)
          /\ write_task(s, c, [row EXCEPT !.remaining_dependencies = left])
          /\ found' = IF left = 0 THEN [found EXCEPT ![s] = @ \cup {c}] ELSE found
       \/ ~child_matches(row) /\ write_nothing /\ UNCHANGED found
    /\ todo' = [todo EXCEPT ![s] = Tail(@)]
    /\ UNCHANGED <<committed, pc, job, reported, history>>

children_updated(s) ==
    /\ pc[s] = "update_child"
    /\ todo[s] = << >>
    /\ goto(s, "complete_workflow")
    /\ UNCHANGED <<committed, working, lock, job, todo, found, reported, history>>

committed_tasks_matter_only(s, w) ==
    /\ workflow_row(s, w) = "RUNNING"
    /\ \A t \in TasksOf(w) : committed.task[t].status = "COMPLETED"

no_active_task_seen(s, w) ==
    /\ workflow_row(s, w) = "RUNNING"
    /\ \A t \in TasksOf(w) : working.task[t].status = "COMPLETED"

\* The NOT EXISTS sees other sessions' tasks as they are committed.
workflow_matches(s, w) ==
    /\ workflow_row(s, w) = "RUNNING"
    /\ \A t \in TasksOf(w) : task_row(s, t).status = "COMPLETED"

complete_workflow_if_finished(s) ==
    /\ pc[s] = "complete_workflow"
    /\ LET w == workflow_of[job[s]] IN
       \/ workflow_matches(s, w) /\ write_workflow(s, w, "COMPLETED")
       \/ ~workflow_matches(s, w) /\ write_nothing
    /\ goto(s, "commit")
    /\ UNCHANGED <<committed, job, todo, found, reported, history>>

-----------------------------------------------------------------------------
(***************************************************************************)
(* TaskProcessingService._retry_task and repository.retry_task.            *)
(***************************************************************************)

retry_matches_any_row(row) == TRUE

retry_matches(row) == row.status = "RUNNING" /\ row.remaining_tries > 0

retry_task(s) ==
    /\ pc[s] = "executing"
    /\ LET row == task_row(s, job[s])
           next == IF row.remaining_tries > 1 THEN "RUNNING" ELSE "FAILED" IN
       \/ /\ retry_matches(row)
          /\ write_task(s, job[s], [row EXCEPT !.remaining_tries = @ - 1,
                                               !.status = next])
          /\ goto(s, IF row.remaining_tries > 1 THEN "commit" ELSE "fail_workflow")
       \/ /\ ~retry_matches(row)
          /\ write_nothing
          /\ goto(s, "commit")
    /\ UNCHANGED <<committed, job, todo, found, reported, history>>

\* The other branch, a workflow that is not RUNNING any more, is taken in no
\* reachable state: WorkflowVerdict of WorkflowExecutions shows why.
fail_workflow(s) ==
    /\ pc[s] = "fail_workflow"
    /\ LET w == workflow_of[job[s]] IN
       IF workflow_row(s, w) = "RUNNING"
       THEN write_workflow(s, w, "FAILED") /\ goto(s, "cancel_scan")
       ELSE write_nothing /\ goto(s, "commit")
    /\ UNCHANGED <<committed, job, todo, found, reported, history>>

\* The UPDATE that cancels takes the matching rows of its snapshot, visits
\* them in an order of the planner's choice and checks each one again.
cancel_scan(s) ==
    /\ pc[s] = "cancel_scan"
    /\ \E order \in SetToSeqs({t \in TasksOf(workflow_of[job[s]]) :
                                  task_row(s, t).status \in Active}) :
          todo' = [todo EXCEPT ![s] = order]
    /\ goto(s, "cancel_row")
    /\ UNCHANGED <<committed, working, lock, job, found, reported, history>>

cancel_without_recheck(row) == TRUE

cancel_matches(row) == row.status \in Active

cancel_row(s) ==
    /\ pc[s] = "cancel_row"
    /\ todo[s] # << >>
    /\ unlocked(s, Head(todo[s]))
    /\ LET t == Head(todo[s])
           row == task_row(s, t) IN
       \/ cancel_matches(row) /\ write_task(s, t, [row EXCEPT !.status = "CANCELLED"])
       \/ ~cancel_matches(row) /\ write_nothing
    /\ todo' = [todo EXCEPT ![s] = Tail(@)]
    /\ UNCHANGED <<committed, pc, job, found, reported, history>>

cancel_done(s) ==
    /\ pc[s] = "cancel_row"
    /\ todo[s] = << >>
    /\ goto(s, "commit")
    /\ UNCHANGED <<committed, working, lock, job, todo, found, reported, history>>

-----------------------------------------------------------------------------
(***************************************************************************)
(* uow.commit, and the ways a transaction ends without one.                *)
(***************************************************************************)

completes(s) ==
    /\ lock[job[s]] = s
    /\ working.task[job[s]].status = "COMPLETED"

note_completion(s) ==
    IF completes(s)
    THEN [u \in Task |->
            IF /\ u # job[s]
               /\ workflow_of[u] = workflow_of[job[s]]
               /\ committed.task[u].status = "RUNNING"
            THEN completed_meanwhile[u] \cup {job[s]} ELSE completed_meanwhile[u]]
    ELSE completed_meanwhile

\* A transaction that completes t is open.
completing(t) == lock[t] # NULL /\ working.task[t].status = "COMPLETED"

\* The completion of job[s] is committed beside those of these siblings.
note_overlap(s) ==
    IF completes(s)
    THEN [u \in Task |->
            IF /\ u # job[s]
               /\ workflow_of[u] = workflow_of[job[s]]
               /\ completing(u)
            THEN overlapped[u] \cup {job[s]} ELSE overlapped[u]]
    ELSE overlapped

\* The result reaches the worker, or the worker dies with it.
commit(s, answered) ==
    /\ pc[s] = "commit"
    /\ committed' = published(s)
    /\ lock' = unlock_all(s)
    /\ reported' = IF answered THEN reported \cup found[s] ELSE reported
    /\ completed_meanwhile' = note_completion(s)
    /\ overlapped' = note_overlap(s)
    /\ goto(s, "idle")
    /\ job' = [job EXCEPT ![s] = NULL]
    /\ found' = [found EXCEPT ![s] = {}]
    /\ UNCHANGED <<working, todo>>

connection_lost(s) ==
    /\ pc[s] \in Statement
    /\ roll_back(s)

\* The row the session's next statement has to lock, and who has it.
awaited(s) ==
    CASE pc[s] = "update_child" /\ todo[s] # << >>
              /\ child_matches(task_row(s, Head(todo[s]))) -> {Head(todo[s])}
      [] pc[s] = "cancel_row" /\ todo[s] # << >> -> {Head(todo[s])}
      [] pc[s] = "fail_workflow"
              /\ workflow_row(s, workflow_of[job[s]]) = "RUNNING"
            -> {workflow_of[job[s]]}
      [] pc[s] = "complete_workflow"
              /\ workflow_matches(s, workflow_of[job[s]])
            -> {workflow_of[job[s]]}
      [] OTHER -> {}

waits_for(s) == {lock[r] : r \in awaited(s)} \ {NULL, s}

\* Sessions that wait for each other in a circle.
circle(D) == D # {} /\ UNION {waits_for(s) : s \in D} = D

deadlock_abort(s) ==
    /\ \E D \in SUBSET Session : s \in D /\ circle(D)
    /\ roll_back(s)

-----------------------------------------------------------------------------

step(s) ==
    \/ start_select(s)
    \/ commit_start(s)
    \/ update_child(s)
    \/ children_updated(s)
    \/ complete_workflow_if_finished(s)
    \/ fail_workflow(s)
    \/ cancel_scan(s)
    \/ cancel_row(s)
    \/ cancel_done(s)
    \/ \E answered \in BOOLEAN : commit(s, answered)

Next ==
    \/ \E w \in Workflow, answered \in BOOLEAN : create(w, answered)
    \/ find_runnable_ids
    \/ \E s \in Session :
          \/ \E t \in reported : start_update(s, t)
          \/ plugin_raises(s)
          \/ \E out \in Output : complete_task(s, out)
          \/ retry_task(s)
          \/ step(s)
          \/ connection_lost(s)
          \/ deadlock_abort(s)

Spec == Init /\ [][Next]_vars

\* An open transaction goes on, PostgreSQL hands a row to the session that
\* queued for it when its holder ends (so a waiter is not passed over for
\* ever), and it breaks circles.  Nothing is assumed about plugins, new work
\* or lost connections.
Fairness ==
    /\ \A s \in Session : SF_vars(step(s))
    /\ WF_vars(\E s \in Session : deadlock_abort(s))

FairSpec == Spec /\ Fairness

-----------------------------------------------------------------------------

\* The columns of the committed task rows.
status == [t \in Task |-> committed.task[t].status]
remaining_dependencies == [t \in Task |-> committed.task[t].remaining_dependencies]
remaining_tries == [t \in Task |-> committed.task[t].remaining_tries]
output == [t \in Task |-> committed.task[t].output]

WE == INSTANCE WorkflowExecutions WITH wf_status <- committed.wf

\* The statements, interleaved in any way, make up the transactions of
\* WorkflowExecutions: each commit is one of its actions, everything else
\* changes nothing another session can see.
ImplementsWorkflowExecutions == WE!Spec

\* The check that ends complete_task never waits for the workflow row, so the
\* snapshot its NOT EXISTS reads is never older than the row it updates.
CompletionCheckNeverWaits ==
    \A s \in Session : pc[s] = "complete_workflow" => waits_for(s) = {}

\* Sessions that wait in a circle include one that is failing a workflow:
\* completions alone never deadlock, because every parent updates shared
\* children in the same order (_create_child_task_lookup).
DeadlockNeedsFailure ==
    \A D \in SUBSET Session :
        circle(D) => \E s \in D : pc[s] \in {"fail_workflow", "cancel_row"}

\* Every transaction ends, whatever the other sessions hold.
TransactionsEnd ==
    \A s \in Session : pc[s] \in Statement ~> pc[s] \in Resting

\* A workflow whose tasks have all completed stays RUNNING only if two of them
\* were completed by transactions that were open at the same time: one of them
\* committed between the UPDATE of the other's task and the other's commit.
\* Where completions follow one another, however long their plugins ran side
\* by side, _complete_workflow_if_finished is exact.
StuckOnlyByOverlap ==
    \A w \in Workflow :
        ( /\ committed.wf[w] = "RUNNING"
          /\ \A t \in TasksOf(w) : committed.task[t].status = "COMPLETED" )
        => \E t \in TasksOf(w) : overlapped[t] # {}

\* "The workflow completes when its last task completes."
\* tests/persistence/workflow_executions/test_repository.py.  It does not
\* when the last tasks are completed by overlapping transactions.
LastTaskCompletesWorkflow ==
    \A w \in Workflow :
        (\A t \in TasksOf(w) : committed.task[t].status = "COMPLETED")
            => committed.wf[w] = "COMPLETED"

=============================================================================
