------------------------- MODULE WorkflowExecutions -------------------------
(***************************************************************************)
(* The runtime state of workflow executions: the workflow_executions and   *)
(* task_executions tables, and the operations of                           *)
(* persistence/workflow_executions/repository.py that change them.  One    *)
(* action is one committed transaction.  RepositoryTransactions.tla breaks *)
(* the transactions into the SQL statements they run and is proved to      *)
(* implement this module.                                                  *)
(*                                                                         *)
(* Timestamps, error messages, plugin types and configurations are left    *)
(* out: no transition reads them.                                          *)
(***************************************************************************)
EXTENDS Integers, FiniteSets

CONSTANTS
    Workflow,       \* workflow execution identifiers
    Task,           \* task execution identifiers
    workflow_of,    \* TaskExecutionModel.workflow_execution_id
    Parents,        \* TaskExecutionModel.parent_task_ids
    MaxTries,       \* TaskDefinition.max_tries of each task
    Output,         \* what a plugin may return on success
    NULL            \* SQL NULL

ASSUME WorkflowOfAssumption == workflow_of \in [Task -> Workflow]

\* A dependency names a task of the same definition, so a parent belongs to
\* the same execution.
ASSUME ParentsAssumption ==
    /\ Parents \in [Task -> SUBSET Task]
    /\ \A t \in Task : \A p \in Parents[t] : workflow_of[p] = workflow_of[t]
    /\ \A t \in Task : IsFiniteSet(Parents[t])

\* _validate_tasks refuses max_tries < 1.
ASSUME MaxTriesAssumption == MaxTries \in [Task -> Nat \ {0}]

ASSUME NullAssumption == NULL \notin Output

VARIABLES
    wf_status,              \* WorkflowExecutionModel.status
    status,                 \* TaskExecutionModel.status
    remaining_dependencies, \* TaskExecutionModel.remaining_dependencies
    remaining_tries,        \* TaskExecutionModel.remaining_tries
    output,                 \* TaskExecutionModel.output
    reported,               \* ids some caller has been told are runnable
    completed_meanwhile     \* history: siblings that completed while a task was
                            \* RUNNING, from its start on

vars == <<wf_status, status, remaining_dependencies, remaining_tries, output,
          reported, completed_meanwhile>>

-----------------------------------------------------------------------------

\* "NONE": the row does not exist yet.
WorkflowStatus == {"NONE", "RUNNING", "COMPLETED", "FAILED"}
TaskStatus == {"NONE", "PENDING", "RUNNING", "COMPLETED", "FAILED", "CANCELLED"}

Active == {"PENDING", "RUNNING"}
Terminal == {"COMPLETED", "FAILED", "CANCELLED"}

TasksOf(w) == {t \in Task : workflow_of[t] = w}

\* Every reachable value is in this set; DependencyCount and AttemptAccounting
\* below give the bounds.
TypeOK ==
    /\ wf_status \in [Workflow -> WorkflowStatus]
    /\ status \in [Task -> TaskStatus]
    /\ remaining_dependencies \in [Task -> Nat]
    /\ remaining_tries \in [Task -> Nat]
    /\ output \in [Task -> Output \cup {NULL}]
    /\ reported \in SUBSET Task
    /\ completed_meanwhile \in [Task -> SUBSET Task]

Init ==
    /\ wf_status = [w \in Workflow |-> "NONE"]
    /\ status = [t \in Task |-> "NONE"]
    /\ remaining_dependencies = [t \in Task |-> 0]
    /\ remaining_tries = [t \in Task |-> 0]
    /\ output = [t \in Task |-> NULL]
    /\ reported = {}
    /\ completed_meanwhile = [t \in Task |-> {}]

-----------------------------------------------------------------------------
(***************************************************************************)
(* create: WorkflowStartService builds the rows, the repository inserts    *)
(* them and the unit of work commits.  The caller then holds the root ids. *)
(* It may die before it uses them (answered = FALSE).                      *)
(***************************************************************************)

root_task_ids(w) == {t \in TasksOf(w) : Parents[t] = {}}

create(w, answered) ==
    /\ wf_status[w] = "NONE"
    /\ wf_status' = [wf_status EXCEPT ![w] = "RUNNING"]
    /\ status' = [t \in Task |->
                    IF t \in TasksOf(w) THEN "PENDING" ELSE status[t]]
    /\ remaining_dependencies' =
         [t \in Task |-> IF t \in TasksOf(w) THEN Cardinality(Parents[t])
                                             ELSE remaining_dependencies[t]]
    /\ remaining_tries' =
         [t \in Task |-> IF t \in TasksOf(w) THEN MaxTries[t]
                                             ELSE remaining_tries[t]]
    /\ reported' = IF answered THEN reported \cup root_task_ids(w) ELSE reported
    /\ UNCHANGED <<output, completed_meanwhile>>

-----------------------------------------------------------------------------
(***************************************************************************)
(* find_runnable_ids: what the Reconciler reads.                           *)
(***************************************************************************)

runnable_with_any_dependencies == {t \in Task : status[t] = "PENDING"}

runnable_ids ==
    {t \in Task : status[t] = "PENDING" /\ remaining_dependencies[t] = 0}

find_runnable_ids ==
    /\ reported' = reported \cup runnable_ids
    /\ UNCHANGED <<wf_status, status, remaining_dependencies, remaining_tries,
                   output, completed_meanwhile>>

-----------------------------------------------------------------------------
(***************************************************************************)
(* start_task: PENDING -> RUNNING.  A task that is RUNNING already is      *)
(* handed out again unchanged, a terminal one is refused; neither changes  *)
(* a row.  A parent without an output raises, which rolls the transaction  *)
(* back.  The operation does not look at remaining_dependencies: that the  *)
(* id was runnable is the caller's business (see Next).                    *)
(***************************************************************************)

parent_outputs_present(t) == \A p \in Parents[t] : output[p] # NULL

start_task(t) ==
    /\ status[t] = "PENDING"
    /\ parent_outputs_present(t)
    /\ status' = [status EXCEPT ![t] = "RUNNING"]
    /\ UNCHANGED <<wf_status, remaining_dependencies, remaining_tries, output,
                   reported, completed_meanwhile>>

-----------------------------------------------------------------------------
(***************************************************************************)
(* complete_task: the task becomes COMPLETED, every child still waiting    *)
(* loses one dependency, and the workflow completes if no unfinished task  *)
(* is seen.  That last statement runs under READ COMMITTED: a sibling whose*)
(* completion commits while this transaction is open is still RUNNING in   *)
(* its snapshot.  `hidden' are those siblings.  How long the transaction is*)
(* open is not visible here; that they completed while t was RUNNING is all*)
(* that is said of them.  RepositoryTransactions.tla knows which ones can  *)
(* be hidden.                                                              *)
(***************************************************************************)

children(t) == {c \in Task : t \in Parents[c]}

decremented(t) ==
    {c \in children(t) : status[c] = "PENDING" /\ remaining_dependencies[c] > 0}

no_dependency_updated(t) == remaining_dependencies

update_child_dependencies(t) ==
    [c \in Task |-> IF c \in decremented(t) THEN remaining_dependencies[c] - 1
                                            ELSE remaining_dependencies[c]]

released(t) == {c \in decremented(t) : update_child_dependencies(t)[c] = 0}

unfinished(t, hidden) ==
    {u \in TasksOf(workflow_of[t]) \ {t} :
        status[u] # "COMPLETED" \/ u \in hidden}

complete_workflow_if_finished(t, hidden) ==
    [wf_status EXCEPT ![workflow_of[t]] =
        IF @ = "RUNNING" /\ unfinished(t, hidden) = {} THEN "COMPLETED" ELSE @]

\* History: t has completed, and these siblings are RUNNING (their plugins may
\* be at work still, no transaction of theirs need be open).
note_completion(t) ==
    [u \in Task |->
        IF u # t /\ workflow_of[u] = workflow_of[t] /\ status[u] = "RUNNING"
        THEN completed_meanwhile[u] \cup {t} ELSE completed_meanwhile[u]]

completable_when_not_completed(t) == status[t] \in {"RUNNING", "CANCELLED", "FAILED"}

completable(t) == status[t] = "RUNNING"

complete_task(t, out, hidden, answered) ==
    /\ completable(t)
    /\ hidden \subseteq completed_meanwhile[t]
    /\ status' = [status EXCEPT ![t] = "COMPLETED"]
    /\ output' = [output EXCEPT ![t] = out]
    /\ remaining_dependencies' = update_child_dependencies(t)
    /\ wf_status' = complete_workflow_if_finished(t, hidden)
    /\ reported' = IF answered THEN reported \cup released(t) ELSE reported
    /\ completed_meanwhile' = note_completion(t)
    /\ UNCHANGED remaining_tries

-----------------------------------------------------------------------------
(***************************************************************************)
(* retry_task: consume one try.  While another remains the task stays      *)
(* RUNNING; otherwise it FAILS and takes its workflow with it, cancelling  *)
(* what has not finished.                                                  *)
(***************************************************************************)

cancelled_pending_only(w) ==
    {u \in TasksOf(w) : wf_status[w] = "RUNNING" /\ status[u] = "PENDING"}

cancelled(w) ==
    {u \in TasksOf(w) : wf_status[w] = "RUNNING" /\ status[u] \in Active}

fail_workflow(w) ==
    [wf_status EXCEPT ![w] = IF @ = "RUNNING" THEN "FAILED" ELSE @]

one_try_early(t) == remaining_tries[t] > 0

tries_left(t) == remaining_tries[t] > 1

retriable_whatever_the_status(t) == status[t] # "NONE"

retriable(t) == status[t] = "RUNNING" /\ remaining_tries[t] > 0

retry_task(t) ==
    /\ retriable(t)
    /\ remaining_tries' = [remaining_tries EXCEPT ![t] = @ - 1]
    /\ \/ /\ tries_left(t)
          /\ UNCHANGED <<wf_status, status>>
       \/ /\ ~tries_left(t)
          /\ wf_status' = fail_workflow(workflow_of[t])
          /\ status' = [u \in Task |->
                           IF u = t THEN "FAILED"
                           ELSE IF u \in cancelled(workflow_of[t])
                                THEN "CANCELLED" ELSE status[u]]
    /\ UNCHANGED <<remaining_dependencies, output, reported, completed_meanwhile>>

-----------------------------------------------------------------------------

Next ==
    \/ \E w \in Workflow, answered \in BOOLEAN : create(w, answered)
    \/ find_runnable_ids
    \/ \E t \in reported : start_task(t)
    \/ \E t \in Task, out \in Output, hidden \in SUBSET Task, answered \in BOOLEAN :
          complete_task(t, out, hidden, answered)
    \/ \E t \in Task : retry_task(t)

Spec == Init /\ [][Next]_vars

-----------------------------------------------------------------------------
(***************************************************************************)
(* What the repository promises its callers.                               *)
(***************************************************************************)

unmet(t) == {p \in Parents[t] : status[p] # "COMPLETED"}

\* A task that still waits counts exactly its parents that have not
\* completed: no completion is counted twice (a stale worker completing
\* again), none is lost (_update_child_dependencies).
DependencyCount ==
    \A t \in Task :
        status[t] = "PENDING" =>
            remaining_dependencies[t] = Cardinality(unmet(t))

\* An id is reported as runnable only when every parent has completed and
\* left an output, so start_task, which does not look at the dependencies,
\* never starts a task early and never raises in _load_parent_outputs.
ReportedReady ==
    \A t \in reported :
        /\ status[t] # "NONE"
        /\ \A p \in Parents[t] : status[p] = "COMPLETED" /\ output[p] # NULL

\* The workflow's verdict agrees with its tasks.  COMPLETED: all completed.
\* FAILED: exactly one task failed and no PENDING or RUNNING task is left
\* behind (_fail_workflow).  RUNNING: nothing failed or was cancelled.
WorkflowVerdict ==
    \A w \in Workflow :
        /\ wf_status[w] = "NONE" =>
              \A t \in TasksOf(w) : status[t] = "NONE"
        /\ wf_status[w] = "RUNNING" =>
              \A t \in TasksOf(w) : status[t] \in Active \cup {"COMPLETED"}
        /\ wf_status[w] = "COMPLETED" =>
              \A t \in TasksOf(w) : status[t] = "COMPLETED"
        /\ wf_status[w] = "FAILED" =>
              /\ \A t \in TasksOf(w) : status[t] \in Terminal
              /\ \E t \in TasksOf(w) : status[t] = "FAILED"
              /\ \A t, u \in TasksOf(w) :
                    status[t] = "FAILED" /\ status[u] = "FAILED" => t = u

\* A task fails exactly when its tries are used up: a RUNNING task can
\* always be retried once more, so retry_task is never refused for lack of
\* tries (_retry_task).
AttemptAccounting ==
    \A t \in Task :
        /\ remaining_tries[t] <= MaxTries[t]
        /\ status[t] \in Active \cup {"COMPLETED", "CANCELLED"} =>
              remaining_tries[t] > 0
        /\ status[t] = "FAILED" => remaining_tries[t] = 0

\* What a terminal row says never changes again, whatever late completions
\* and retries stale workers send: status, output, verdict.
TerminalStable ==
    [][ /\ \A t \in Task :
              status[t] \in Terminal =>
                  status'[t] = status[t] /\ output'[t] = output[t]
        /\ \A w \in Workflow :
              wf_status[w] \in {"COMPLETED", "FAILED"} =>
                  wf_status'[w] = wf_status[w] ]_vars

=============================================================================
