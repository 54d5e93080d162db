---------------------- MODULE WorkflowExecutionsProofs ----------------------
(***************************************************************************)
(* Proofs that every behaviour of WorkflowExecutions keeps its invariants, *)
(* for any number of executions, any dependency relation with finite       *)
(* parent sets, and any number of tries.                                   *)
(***************************************************************************)
EXTENDS WorkflowExecutions, FiniteSetTheorems, TLAPS

\* What complete_task writes together: a COMPLETED row has an output.
CompletedHasOutput ==
    \A t \in Task : status[t] = "COMPLETED" => output[t] # NULL

\* The inductive invariant.  None of its parts is inductive alone: a released
\* child is ready because DependencyCount makes the completing parent the
\* only unmet one, and a failing task finds its workflow RUNNING because
\* WorkflowVerdict excludes every other verdict.
IInv ==
    /\ TypeOK
    /\ DependencyCount
    /\ ReportedReady
    /\ WorkflowVerdict
    /\ AttemptAccounting
    /\ CompletedHasOutput

-----------------------------------------------------------------------------

\* The unmet parents of a task are a finite set, so counting them is
\* meaningful, and none of them means a count of zero.
LEMMA UnmetFinite ==
    ASSUME NEW t \in Task
    PROVE  /\ IsFiniteSet(unmet(t))
           /\ Cardinality(unmet(t)) \in Nat
           /\ Cardinality(unmet(t)) = 0 <=> unmet(t) = {}
  <1>1. unmet(t) \in SUBSET Parents[t]
    BY DEF unmet
  <1>2. IsFiniteSet(Parents[t])
    BY ParentsAssumption
  <1>3. IsFiniteSet(unmet(t))
    BY <1>1, <1>2, FS_Subset
  <1>4. QED
    BY <1>3, FS_CardinalityType, FS_EmptySet

\* Every task belongs to exactly one execution of the model.
LEMMA TaskHasWorkflow ==
    ASSUME NEW t \in Task
    PROVE  /\ workflow_of[t] \in Workflow
           /\ t \in TasksOf(workflow_of[t])
  BY WorkflowOfAssumption DEF TasksOf

\* A task that is PENDING or RUNNING belongs to a RUNNING workflow, so
\* _fail_workflow never takes its `rowcount != 1' return.
LEMMA ActiveInRunningWorkflow ==
    ASSUME TypeOK, WorkflowVerdict, NEW t \in Task, status[t] \in Active
    PROVE  wf_status[workflow_of[t]] = "RUNNING"
  <1>1. wf_status[workflow_of[t]] \in WorkflowStatus
    BY TaskHasWorkflow DEF TypeOK
  <1>2. QED
    BY <1>1, TaskHasWorkflow
    DEF WorkflowVerdict, WorkflowStatus, Active, Terminal

-----------------------------------------------------------------------------

\* The empty database satisfies the invariant.
LEMMA InitIInv == Init => IInv
  <1> SUFFICES ASSUME Init PROVE IInv
    OBVIOUS
  <1>1. TypeOK
    BY DEF Init, TypeOK, WorkflowStatus, TaskStatus
  <1>2. DependencyCount /\ ReportedReady /\ CompletedHasOutput
    BY DEF Init, DependencyCount, ReportedReady, CompletedHasOutput
  <1>3. WorkflowVerdict
    BY DEF Init, WorkflowVerdict, TasksOf
  <1>4. AttemptAccounting
    BY MaxTriesAssumption DEF Init, AttemptAccounting, Active
  <1>5. QED
    BY <1>1, <1>2, <1>3, <1>4 DEF IInv

\* Creating an execution: its tasks were all absent, so nothing already
\* stored depends on them.
LEMMA CreateIInv ==
    ASSUME IInv, NEW w \in Workflow, NEW answered \in BOOLEAN,
           create(w, answered)
    PROVE  IInv'
  <1> USE DEF IInv
  <1>a. \A t \in Task : t \in TasksOf(w) => status[t] = "NONE"
    BY DEF create, WorkflowVerdict
  <1>b. \A t \in Task : \A p \in Parents[t] :
            p \in Task /\ (p \in TasksOf(w) <=> t \in TasksOf(w))
    BY ParentsAssumption DEF TasksOf
  <1>c. \A t \in Task : Cardinality(Parents[t]) \in Nat
    BY ParentsAssumption, FS_CardinalityType
  <1>1. TypeOK'
    BY <1>c, MaxTriesAssumption
    DEF create, TypeOK, WorkflowStatus, TaskStatus, root_task_ids, TasksOf
  <1>2. DependencyCount'
    <2> SUFFICES ASSUME NEW t \in Task, status'[t] = "PENDING"
                 PROVE  remaining_dependencies'[t] = Cardinality(unmet(t)')
      BY DEF DependencyCount
    <2>1. CASE t \in TasksOf(w)
      <3>1. unmet(t)' = Parents[t]
        BY <1>b, <2>1 DEF unmet, create
      <3>2. QED
        BY <2>1, <3>1 DEF create
    <2>2. CASE t \notin TasksOf(w)
      <3>1. unmet(t)' = unmet(t)
        BY <1>b, <2>2 DEF unmet, create
      <3>2. QED
        BY <2>2, <3>1 DEF create, DependencyCount
    <2>3. QED
      BY <2>1, <2>2
  <1>3. ReportedReady'
    <2> SUFFICES ASSUME NEW t \in reported'
                 PROVE  /\ status'[t] # "NONE"
                        /\ \A p \in Parents[t] :
                              status'[p] = "COMPLETED" /\ output'[p] # NULL
      BY DEF ReportedReady
    <2>1. CASE t \in reported
      <3>1. t \in Task /\ status[t] # "NONE"
        BY <2>1 DEF ReportedReady, TypeOK
      <3>2. t \notin TasksOf(w)
        BY <3>1, <1>a
      <3>3. QED
        BY <1>b, <2>1, <3>1, <3>2 DEF create, ReportedReady
    <2>2. CASE t \notin reported
      BY <2>2 DEF create, root_task_ids, TasksOf
    <2>3. QED
      BY <2>1, <2>2
  <1>4. WorkflowVerdict'
    <2> SUFFICES ASSUME NEW v \in Workflow
                 PROVE  WorkflowVerdict!(v)'
      BY DEF WorkflowVerdict
    <2>1. CASE v = w
      BY <2>1 DEF create, TypeOK, TasksOf, Active
    <2>2. CASE v # w
      <3>1. wf_status'[v] = wf_status[v]
        BY <2>2 DEF create, TypeOK
      <3>2. \A t \in TasksOf(v) : t \in Task /\ status'[t] = status[t]
        BY <2>2 DEF create, TasksOf
      <3>3. TasksOf(v)' = TasksOf(v)
        BY DEF TasksOf
      <3>4. QED
        BY <3>1, <3>2, <3>3 DEF WorkflowVerdict
    <2>3. QED
      BY <2>1, <2>2
  <1>5. AttemptAccounting'
    BY MaxTriesAssumption
    DEF AttemptAccounting, create, Active, TypeOK, TasksOf
  <1>6. CompletedHasOutput'
    BY DEF CompletedHasOutput, create
  <1>7. QED
    BY <1>1, <1>2, <1>3, <1>4, <1>5, <1>6

\* Reporting the runnable rows: a PENDING row whose count is zero has no
\* unmet parent.
LEMMA FindRunnableIInv ==
    ASSUME IInv, find_runnable_ids
    PROVE  IInv'
  <1> USE DEF IInv, find_runnable_ids
  <1>1. TypeOK'
    BY DEF TypeOK, runnable_ids
  <1>2. ReportedReady'
    <2> SUFFICES ASSUME NEW t \in reported'
                 PROVE  /\ status'[t] # "NONE"
                        /\ \A p \in Parents[t] :
                              status'[p] = "COMPLETED" /\ output'[p] # NULL
      BY DEF ReportedReady
    <2>1. CASE t \in reported
      BY <2>1 DEF ReportedReady
    <2>2. CASE t \in runnable_ids
      <3>1. t \in Task /\ unmet(t) = {}
        BY <2>2, UnmetFinite DEF runnable_ids, DependencyCount
      <3>2. \A p \in Parents[t] : p \in Task /\ status[p] = "COMPLETED"
        BY <3>1, ParentsAssumption DEF unmet
      <3>3. QED
        BY <2>2, <3>2 DEF runnable_ids, CompletedHasOutput
    <2>3. QED
      BY <2>1, <2>2
  <1>3. DependencyCount' /\ WorkflowVerdict' /\ AttemptAccounting'
          /\ CompletedHasOutput'
    BY DEF DependencyCount, unmet, WorkflowVerdict, AttemptAccounting,
           CompletedHasOutput, TasksOf
  <1>4. QED
    BY <1>1, <1>2, <1>3

\* Starting a task moves it between two unfinished states.
LEMMA StartIInv ==
    ASSUME IInv, NEW t \in reported, start_task(t)
    PROVE  IInv'
  <1> USE DEF IInv
  <1>a. t \in Task /\ status[t] = "PENDING"
    BY DEF start_task, TypeOK
  <1>b. wf_status[workflow_of[t]] = "RUNNING"
    BY <1>a, ActiveInRunningWorkflow DEF Active
  <1>c. \A u \in Task : /\ status'[u] = "COMPLETED" <=> status[u] = "COMPLETED"
                        /\ u # t => status'[u] = status[u]
    BY <1>a DEF start_task, TypeOK
  <1>1. TypeOK'
    BY <1>a DEF start_task, TypeOK, TaskStatus
  <1>2. DependencyCount'
    <2> SUFFICES ASSUME NEW u \in Task, status'[u] = "PENDING"
                 PROVE  remaining_dependencies'[u] = Cardinality(unmet(u)')
      BY DEF DependencyCount
    <2>1. unmet(u)' = unmet(u)
      BY <1>c, ParentsAssumption DEF unmet
    <2>2. status[u] = "PENDING"
      BY <1>a, <1>c DEF start_task, TypeOK
    <2>3. QED
      BY <2>1, <2>2 DEF start_task, DependencyCount
  <1>3. ReportedReady'
    BY <1>a, <1>c, ParentsAssumption DEF start_task, ReportedReady, TypeOK
  <1>4. WorkflowVerdict'
    <2> SUFFICES ASSUME NEW v \in Workflow
                 PROVE  WorkflowVerdict!(v)'
      BY DEF WorkflowVerdict
    <2>1. wf_status'[v] = wf_status[v]
      BY DEF start_task
    <2>2. CASE v = workflow_of[t]
      BY <1>a, <1>b, <1>c, <2>1, <2>2
      DEF WorkflowVerdict, TasksOf, start_task, TypeOK, Active
    <2>3. CASE v # workflow_of[t]
      BY <1>c, <2>1, <2>3 DEF WorkflowVerdict, TasksOf
    <2>4. QED
      BY <2>2, <2>3
  <1>5. AttemptAccounting'
    BY <1>a, <1>c DEF AttemptAccounting, start_task, TypeOK, Active
  <1>6. CompletedHasOutput'
    BY <1>c DEF CompletedHasOutput, start_task
  <1>7. QED
    BY <1>1, <1>2, <1>3, <1>4, <1>5, <1>6

\* What completing a task does to the unmet parents of another one: exactly
\* that task leaves the set.
LEMMA UnmetAfterCompletion ==
    ASSUME TypeOK, NEW t \in Task, status[t] = "RUNNING",
           status' = [status EXCEPT ![t] = "COMPLETED"], NEW u \in Task
    PROVE  /\ unmet(u)' = unmet(u) \ {t}
           /\ t \in unmet(u) <=> u \in children(t)
  BY ParentsAssumption DEF TypeOK, unmet, children

\* Completing a task: the child counts follow the unmet parents, a released
\* child has none left, and the workflow completes only over completed tasks.
LEMMA CompleteIInv ==
    ASSUME IInv, NEW t \in Task, NEW out \in Output, NEW hidden \in SUBSET Task,
           NEW answered \in BOOLEAN, complete_task(t, out, hidden, answered)
    PROVE  IInv'
  <1> USE DEF IInv
  <1>a. status[t] = "RUNNING" /\ status' = [status EXCEPT ![t] = "COMPLETED"]
    BY DEF complete_task, completable
  <1>b. wf_status[workflow_of[t]] = "RUNNING" /\ workflow_of[t] \in Workflow
    BY <1>a, ActiveInRunningWorkflow, TaskHasWorkflow DEF Active
  <1>c. \A u \in Task : u # t => status'[u] = status[u] /\ output'[u] = output[u]
    BY <1>a DEF TypeOK, complete_task
  <1>d. status'[t] = "COMPLETED" /\ output'[t] = out /\ out # NULL
    BY <1>a, NullAssumption DEF TypeOK, complete_task
  <1>e. \A u \in Task : status[u] = "PENDING" =>
            /\ Cardinality(unmet(u)') = remaining_dependencies'[u]
            /\ u \in released(t) => unmet(u)' = {}
    <2> SUFFICES ASSUME NEW u \in Task, status[u] = "PENDING"
                 PROVE  /\ Cardinality(unmet(u)') = remaining_dependencies'[u]
                        /\ u \in released(t) => unmet(u)' = {}
      OBVIOUS
    <2>1. /\ unmet(u)' = unmet(u) \ {t}
          /\ t \in unmet(u) <=> u \in children(t)
      BY <1>a, UnmetAfterCompletion
    <2>2. /\ IsFiniteSet(unmet(u))
          /\ Cardinality(unmet(u)) \in Nat
          /\ Cardinality(unmet(u)) = 0 <=> unmet(u) = {}
          /\ remaining_dependencies[u] = Cardinality(unmet(u))
      BY UnmetFinite DEF DependencyCount
    <2>3. /\ IsFiniteSet(unmet(u)')
          /\ Cardinality(unmet(u)') =
                IF t \in unmet(u) THEN Cardinality(unmet(u)) - 1
                                  ELSE Cardinality(unmet(u))
      BY <2>1, <2>2, FS_RemoveElement
    <2>4. u \in decremented(t) <=> t \in unmet(u)
      BY <2>1, <2>2 DEF decremented, children
    <2>5. Cardinality(unmet(u)') = remaining_dependencies'[u]
      BY <2>2, <2>3, <2>4 DEF complete_task, update_child_dependencies
    <2>6. u \in released(t) => Cardinality(unmet(u)') = 0
      BY <2>5 DEF released, complete_task
    <2>7. QED
      BY <2>3, <2>5, <2>6, FS_EmptySet
  <1>1. TypeOK'
    <2>1. remaining_dependencies' \in [Task -> Nat]
      BY DEF TypeOK, complete_task, update_child_dependencies, decremented
    <2>2. reported' \in SUBSET Task
      BY DEF TypeOK, complete_task, released, decremented, children
    <2>3. wf_status' \in [Workflow -> WorkflowStatus]
      BY DEF TypeOK, complete_task, complete_workflow_if_finished, WorkflowStatus
    <2>4. completed_meanwhile' \in [Task -> SUBSET Task]
      BY DEF TypeOK, complete_task, note_completion
    <2>5. QED
      BY <1>a, <2>1, <2>2, <2>3, <2>4 DEF TypeOK, complete_task, TaskStatus
  <1>2. DependencyCount'
    <2> SUFFICES ASSUME NEW u \in Task, status'[u] = "PENDING"
                 PROVE  remaining_dependencies'[u] = Cardinality(unmet(u)')
      BY DEF DependencyCount
    <2>1. status[u] = "PENDING"
      BY <1>c, <1>d
    <2>2. QED
      BY <1>e, <2>1
  <1>3. ReportedReady'
    <2> SUFFICES ASSUME NEW u \in reported'
                 PROVE  /\ status'[u] # "NONE"
                        /\ \A p \in Parents[u] :
                              status'[p] = "COMPLETED" /\ output'[p] # NULL
      BY DEF ReportedReady
    <2>0. u \in Task /\ \A p \in Parents[u] : p \in Task
      BY <1>1, ParentsAssumption DEF TypeOK
    <2>1. CASE u \in reported
      BY <1>c, <1>d, <2>0, <2>1 DEF ReportedReady
    <2>2. CASE u \notin reported
      <3>1. u \in released(t) /\ status[u] = "PENDING"
        BY <2>2 DEF complete_task, released, decremented
      <3>2. \A p \in Parents[u] : status'[p] = "COMPLETED"
        BY <1>e, <2>0, <3>1 DEF unmet
      <3>3. \A p \in Parents[u] : output'[p] # NULL
        BY <1>c, <1>d, <2>0, <3>2 DEF CompletedHasOutput
      <3>4. QED
        BY <1>c, <1>d, <2>0, <3>1, <3>2, <3>3
    <2>3. QED
      BY <2>1, <2>2
  <1>4. WorkflowVerdict'
    <2> SUFFICES ASSUME NEW v \in Workflow
                 PROVE  WorkflowVerdict!(v)'
      BY DEF WorkflowVerdict
    <2>1. CASE v = workflow_of[t]
      <3>1. \A u \in TasksOf(v) : u # t => status[u] \in Active \cup {"COMPLETED"}
        BY <1>b, <2>1 DEF WorkflowVerdict
      <3>2. \A u \in TasksOf(v) : status'[u] \in Active \cup {"COMPLETED"}
        BY <1>c, <1>d, <3>1 DEF TasksOf
      <3>3. \/ wf_status'[v] = "RUNNING"
            \/ wf_status'[v] = "COMPLETED" /\ unfinished(t, hidden) = {}
        BY <1>b, <2>1 DEF TypeOK, complete_task, complete_workflow_if_finished
      <3>4. unfinished(t, hidden) = {} =>
                \A u \in TasksOf(v) : status'[u] = "COMPLETED"
        BY <1>c, <1>d, <2>1 DEF unfinished, TasksOf
      <3>5. TasksOf(v)' = TasksOf(v)
        BY DEF TasksOf
      <3>6. QED
        BY <3>2, <3>3, <3>4, <3>5
    <2>2. CASE v # workflow_of[t]
      <3>1. wf_status'[v] = wf_status[v]
        BY <2>2 DEF TypeOK, complete_task, complete_workflow_if_finished
      <3>2. \A u \in TasksOf(v) : status'[u] = status[u]
        BY <1>c, <2>2 DEF TasksOf
      <3>3. TasksOf(v)' = TasksOf(v)
        BY DEF TasksOf
      <3>4. QED
        BY <3>1, <3>2, <3>3 DEF WorkflowVerdict
    <2>3. QED
      BY <2>1, <2>2
  <1>5. AttemptAccounting'
    <2>1. remaining_tries' = remaining_tries
      BY DEF complete_task
    <2>2. remaining_tries[t] > 0
      BY <1>a DEF AttemptAccounting, Active
    <2>3. QED
      BY <1>c, <1>d, <2>1, <2>2 DEF AttemptAccounting
  <1>6. CompletedHasOutput'
    BY <1>c, <1>d DEF CompletedHasOutput
  <1>7. QED
    BY <1>1, <1>2, <1>3, <1>4, <1>5, <1>6

\* A failed attempt: with tries left only the count moves; with the last one
\* the workflow was RUNNING, so this task is its only failure and everything
\* unfinished is cancelled.
LEMMA RetryIInv ==
    ASSUME IInv, NEW t \in Task, retry_task(t)
    PROVE  IInv'
  <1> USE DEF IInv
  <1>a. status[t] = "RUNNING" /\ remaining_tries[t] > 0
    BY DEF retry_task, retriable
  <1>b. wf_status[workflow_of[t]] = "RUNNING" /\ workflow_of[t] \in Workflow
    BY <1>a, ActiveInRunningWorkflow, TaskHasWorkflow DEF Active
  <1>c. /\ remaining_tries' = [remaining_tries EXCEPT ![t] = @ - 1]
        /\ remaining_tries[t] - 1 \in Nat
        /\ UNCHANGED <<remaining_dependencies, output, reported, completed_meanwhile>>
    BY <1>a DEF retry_task, retriable, TypeOK
  <1>1. CASE tries_left(t)
    <2>1. UNCHANGED <<wf_status, status>> /\ remaining_tries[t] - 1 > 0
      BY <1>1, <1>c DEF retry_task, retriable, tries_left, TypeOK
    <2>2. TypeOK'
      BY <1>c, <2>1 DEF TypeOK
    <2>3. DependencyCount' /\ ReportedReady'
      BY <1>c, <2>1 DEF DependencyCount, unmet, ReportedReady
    <2>4. WorkflowVerdict' /\ CompletedHasOutput'
      BY <1>c, <2>1 DEF WorkflowVerdict,
                        CompletedHasOutput, TasksOf
    <2>5. AttemptAccounting'
      <3> SUFFICES ASSUME NEW u \in Task
                   PROVE  AttemptAccounting!(u)'
        BY DEF AttemptAccounting
      <3>1. CASE u = t
        <4>1. remaining_tries'[u] = remaining_tries[u] - 1
          BY <1>c, <3>1 DEF TypeOK
        <4>2. remaining_tries[u] <= MaxTries[u] /\ status'[u] = "RUNNING"
          BY <1>a, <2>1, <3>1 DEF AttemptAccounting
        <4>3. QED
          BY <2>1, <3>1, <4>1, <4>2, MaxTriesAssumption DEF TypeOK
      <3>2. CASE u # t
        <4>1. remaining_tries'[u] = remaining_tries[u]
          BY <1>c, <3>2 DEF TypeOK
        <4>2. QED
          BY <2>1, <4>1 DEF AttemptAccounting
      <3>3. QED
        BY <3>1, <3>2
    <2>6. QED
      BY <2>2, <2>3, <2>4, <2>5
  <1>2. CASE ~tries_left(t)
    <2> DEFINE w == workflow_of[t]
    <2>a. /\ wf_status' = [wf_status EXCEPT ![w] = "FAILED"]
          /\ status'[t] = "FAILED"
          /\ remaining_tries'[t] = 0
      BY <1>2, <1>a, <1>b, <1>c DEF retry_task, retriable, fail_workflow, tries_left, TypeOK
    <2>b. \A u \in Task : u # t /\ u \in TasksOf(w) /\ status[u] \in Active =>
              status'[u] = "CANCELLED"
      BY <1>2, <1>b DEF retry_task, retriable, cancelled
    <2>c. \A u \in Task : u # t /\ ~(u \in TasksOf(w) /\ status[u] \in Active) =>
              status'[u] = status[u]
      BY <1>2 DEF retry_task, retriable, cancelled
    <2>d. \A u \in Task : status'[u] = "COMPLETED" <=> status[u] = "COMPLETED"
      BY <1>a, <2>a, <2>b, <2>c DEF Active
    <2>1. TypeOK'
      <3>1. status' \in [Task -> TaskStatus]
        BY <1>2 DEF retry_task, retriable, TypeOK, TaskStatus
      <3>2. QED
        BY <1>c, <2>a, <3>1 DEF TypeOK, WorkflowStatus
    <2>2. DependencyCount'
      <3> SUFFICES ASSUME NEW u \in Task, status'[u] = "PENDING"
                   PROVE  remaining_dependencies'[u] = Cardinality(unmet(u)')
        BY DEF DependencyCount
      <3>1. unmet(u)' = unmet(u)
        BY <2>d, ParentsAssumption DEF unmet
      <3>2. status[u] = "PENDING"
        BY <2>a, <2>b, <2>c
      <3>3. QED
        BY <1>c, <3>1, <3>2 DEF DependencyCount
    <2>3. ReportedReady'
      <3> SUFFICES ASSUME NEW u \in reported
                   PROVE  /\ status'[u] # "NONE"
                          /\ \A p \in Parents[u] :
                                status'[p] = "COMPLETED" /\ output'[p] # NULL
        BY <1>c DEF ReportedReady
      <3>1. u \in Task /\ \A p \in Parents[u] : p \in Task
        BY ParentsAssumption DEF TypeOK
      <3>2. status'[u] # "NONE"
        BY <2>a, <2>b, <2>c, <3>1 DEF ReportedReady
      <3>3. QED
        BY <1>c, <2>d, <3>1, <3>2 DEF ReportedReady
    <2>4. WorkflowVerdict'
      <3> SUFFICES ASSUME NEW v \in Workflow
                   PROVE  WorkflowVerdict!(v)'
        BY DEF WorkflowVerdict
      <3>0. TasksOf(v)' = TasksOf(v)
        BY DEF TasksOf
      <3>1. CASE v = w
        <4>1. wf_status'[v] = "FAILED"
          BY <1>b, <2>a, <3>1 DEF TypeOK
        <4>2. \A u \in TasksOf(v) : u \in Task /\ status[u] \in Active \cup {"COMPLETED"}
          BY <1>b, <3>1 DEF WorkflowVerdict, TasksOf
        <4>3. \A u \in TasksOf(v) : u # t => status'[u] \in {"CANCELLED", "COMPLETED"}
          BY <2>b, <2>c, <3>1, <4>2
        <4>4. t \in TasksOf(v)
          BY <3>1, TaskHasWorkflow
        <4>5. QED
          BY <2>a, <3>0, <4>1, <4>3, <4>4 DEF Terminal
      <3>2. CASE v # w
        <4>1. wf_status'[v] = wf_status[v]
          BY <2>a, <3>2 DEF TypeOK
        <4>2. \A u \in TasksOf(v) : status'[u] = status[u]
          BY <2>c, <3>2 DEF TasksOf
        <4>3. QED
          BY <3>0, <4>1, <4>2 DEF WorkflowVerdict
      <3>3. QED
        BY <3>1, <3>2
    <2>5. AttemptAccounting'
      <3> SUFFICES ASSUME NEW u \in Task
                   PROVE  AttemptAccounting!(u)'
        BY DEF AttemptAccounting
      <3>1. CASE u = t
        BY <2>a, <3>1, MaxTriesAssumption DEF Active
      <3>2. CASE u # t
        <4>1. remaining_tries'[u] = remaining_tries[u]
          BY <1>c, <3>2 DEF TypeOK
        <4>2. QED
          BY <2>b, <2>c, <3>2, <4>1 DEF AttemptAccounting, Active
      <3>3. QED
        BY <3>1, <3>2
    <2>6. CompletedHasOutput'
      BY <1>c, <2>d DEF CompletedHasOutput
    <2>7. QED
      BY <2>1, <2>2, <2>3, <2>4, <2>5, <2>6
  <1>3. QED
    BY <1>1, <1>2

\* A step that changes nothing keeps the invariant.
LEMMA StutterIInv == IInv /\ UNCHANGED vars => IInv'
  BY DEF vars, IInv, TypeOK, DependencyCount, unmet, ReportedReady,
         WorkflowVerdict, AttemptAccounting,
         CompletedHasOutput, TasksOf

\* Every transaction of the repository keeps the invariant.
LEMMA NextIInv == IInv /\ [Next]_vars => IInv'
  BY CreateIInv, FindRunnableIInv, StartIInv, CompleteIInv, RetryIInv,
     StutterIInv
  DEF Next, IInv, TypeOK

-----------------------------------------------------------------------------

\* The inductive invariant holds in every reachable state.
LEMMA Invariance == Spec => []IInv
  BY InitIInv, NextIInv, PTL DEF Spec

\* Every row keeps a legal value.
THEOREM TypeCorrect == Spec => []TypeOK
  <1>1. IInv => TypeOK
    BY DEF IInv
  <1>2. QED
    BY Invariance, <1>1, PTL

\* No completion is counted twice against a waiting child, and none is lost.
THEOREM DependenciesCounted == Spec => []DependencyCount
  <1>1. IInv => DependencyCount
    BY DEF IInv
  <1>2. QED
    BY Invariance, <1>1, PTL

\* A task reported as runnable finds every parent completed with an output.
THEOREM ReportedTasksReady == Spec => []ReportedReady
  <1>1. IInv => ReportedReady
    BY DEF IInv
  <1>2. QED
    BY Invariance, <1>1, PTL

\* A workflow's verdict agrees with the states of its tasks; a failed one
\* leaves no PENDING or RUNNING task behind.
THEOREM VerdictsAgree == Spec => []WorkflowVerdict
  <1>1. IInv => WorkflowVerdict
    BY DEF IInv
  <1>2. QED
    BY Invariance, <1>1, PTL

\* A task fails exactly when its tries are used up.
THEOREM AttemptsCounted == Spec => []AttemptAccounting
  <1>1. IInv => AttemptAccounting
    BY DEF IInv
  <1>2. QED
    BY Invariance, <1>1, PTL

\* What a terminal row says stays, in every step.
LEMMA TerminalStep ==
    ASSUME IInv, [Next]_vars
    PROVE  /\ \A t \in Task : status[t] \in Terminal =>
                  status'[t] = status[t] /\ output'[t] = output[t]
           /\ \A w \in Workflow : wf_status[w] \in {"COMPLETED", "FAILED"} =>
                  wf_status'[w] = wf_status[w]
  <1> DEFINE
        Keep == /\ \A t \in Task : status[t] \in Terminal =>
                      status'[t] = status[t] /\ output'[t] = output[t]
                /\ \A w \in Workflow : wf_status[w] \in {"COMPLETED", "FAILED"} =>
                      wf_status'[w] = wf_status[w]
  <1> USE DEF IInv
  <1>1. ASSUME NEW w \in Workflow, NEW answered \in BOOLEAN, create(w, answered)
        PROVE  Keep
    BY <1>1 DEF create, WorkflowVerdict, TypeOK, Terminal
  <1>2. ASSUME find_runnable_ids PROVE Keep
    BY <1>2 DEF find_runnable_ids
  <1>3. ASSUME NEW t \in reported, start_task(t) PROVE Keep
    BY <1>3 DEF start_task, TypeOK, Terminal
  <1>4. ASSUME NEW t \in Task, NEW out \in Output, NEW hidden \in SUBSET Task,
               NEW answered \in BOOLEAN, complete_task(t, out, hidden, answered)
        PROVE  Keep
    BY <1>4 DEF complete_task, completable, complete_workflow_if_finished,
                TypeOK, Terminal
  <1>5. ASSUME NEW t \in Task, retry_task(t) PROVE Keep
    <2>1. \A u \in Task : status[u] \in Terminal =>
              status'[u] = status[u] /\ output'[u] = output[u]
      BY <1>5 DEF retry_task, retriable, cancelled, TypeOK, Terminal, Active
    <2>2. \A w \in Workflow : wf_status[w] \in {"COMPLETED", "FAILED"} =>
              wf_status'[w] = wf_status[w]
      BY <1>5 DEF retry_task, retriable, fail_workflow, TypeOK
    <2>3. QED
      BY <2>1, <2>2
  <1>6. CASE UNCHANGED vars
    BY <1>6 DEF vars
  <1>7. QED
    BY <1>1, <1>2, <1>3, <1>4, <1>5, <1>6 DEF Next

\* What one transaction can do to the status of a task that exists: PENDING is
\* left for good, so is RUNNING, and a terminal status stays.
LEMMA StatusStep ==
    ASSUME IInv, [Next]_vars, NEW t \in Task, status[t] # "NONE"
    PROVE  /\ status'[t] # "NONE"
           /\ status[t] # "PENDING" => status'[t] # "PENDING"
           /\ status'[t] \in Active => status[t] \in Active
           /\ status[t] \in Terminal => status'[t] = status[t]
  <1> USE DEF IInv
  <1>0. TypeOK
    OBVIOUS
  <1>1. ASSUME NEW w \in Workflow, NEW answered \in BOOLEAN, create(w, answered)
        PROVE  status'[t] = status[t]
    BY <1>1 DEF create, WorkflowVerdict
  <1>2. ASSUME find_runnable_ids PROVE status'[t] = status[t]
    BY <1>2 DEF find_runnable_ids
  <1>3. ASSUME NEW u \in reported, start_task(u)
        PROVE  \/ status'[t] = status[t]
               \/ status[t] = "PENDING" /\ status'[t] = "RUNNING"
    BY <1>0, <1>3 DEF start_task, TypeOK
  <1>4. ASSUME NEW u \in Task, NEW out \in Output, NEW hidden \in SUBSET Task,
               NEW answered \in BOOLEAN, complete_task(u, out, hidden, answered)
        PROVE  \/ status'[t] = status[t]
               \/ status[t] = "RUNNING" /\ status'[t] = "COMPLETED"
    BY <1>0, <1>4 DEF complete_task, completable, TypeOK
  <1>5. ASSUME NEW u \in Task, retry_task(u)
        PROVE  \/ status'[t] = status[t]
               \/ status[t] \in Active /\ status'[t] \in Terminal
    BY <1>0, <1>5 DEF retry_task, retriable, cancelled, Active, Terminal, TypeOK
  <1>6. CASE UNCHANGED vars
    BY <1>6 DEF vars, Active, Terminal
  <1>7. QED
    BY <1>1, <1>2, <1>3, <1>4, <1>5, <1>6 DEF Next, Active, Terminal

\* An id that was reported stays reported.
LEMMA ReportedGrows == [Next]_vars => reported \subseteq reported'
  BY DEF Next, vars, create, find_runnable_ids, start_task, complete_task, retry_task

\* A workflow that exists never becomes absent again.
LEMMA WorkflowStays ==
    ASSUME IInv, [Next]_vars, NEW v \in Workflow, wf_status[v] # "NONE"
    PROVE  wf_status'[v] # "NONE"
  <1>1. TypeOK
    BY DEF IInv
  <1>2. QED
    BY <1>1 DEF TypeOK, Next, vars, create, find_runnable_ids, start_task, complete_task,
                complete_workflow_if_finished, retry_task, fail_workflow

\* A sibling that completes while a task is RUNNING is noted, and stays noted.
LEMMA MeanwhileStep ==
    ASSUME IInv, [Next]_vars, NEW t \in Task
    PROVE  /\ completed_meanwhile[t] \subseteq completed_meanwhile'[t]
           /\ \A u \in TasksOf(workflow_of[t]) \ {t} :
                 status[t] = "RUNNING" /\ status[u] # "COMPLETED" /\ status'[u] = "COMPLETED"
                    => u \in completed_meanwhile'[t]
  <1> DEFINE
        Noted == /\ completed_meanwhile[t] \subseteq completed_meanwhile'[t]
                 /\ \A u \in TasksOf(workflow_of[t]) \ {t} :
                       status[t] = "RUNNING" /\ status[u] # "COMPLETED"
                         /\ status'[u] = "COMPLETED" => u \in completed_meanwhile'[t]
  <1>0. TypeOK
    BY DEF IInv
  <1>1. ASSUME NEW w \in Workflow, NEW answered \in BOOLEAN, create(w, answered)
        PROVE  Noted
    BY <1>1, <1>0 DEF create, TypeOK, TasksOf
  <1>2. ASSUME find_runnable_ids PROVE Noted
    BY <1>2 DEF find_runnable_ids
  <1>3. ASSUME NEW u \in reported, start_task(u) PROVE Noted
    BY <1>3, <1>0 DEF start_task, TypeOK, TasksOf
  <1>4. ASSUME NEW v \in Task, NEW out \in Output, NEW hidden \in SUBSET Task,
               NEW answered \in BOOLEAN, complete_task(v, out, hidden, answered)
        PROVE  Noted
    <2>1. /\ status' = [status EXCEPT ![v] = "COMPLETED"]
          /\ completed_meanwhile' = note_completion(v)
      BY <1>4 DEF complete_task
    <2>2. completed_meanwhile'[t] = IF v # t /\ workflow_of[t] = workflow_of[v] /\ status[t] = "RUNNING"
                           THEN completed_meanwhile[t] \cup {v} ELSE completed_meanwhile[t]
      BY <2>1 DEF note_completion
    <2>3. QED
      BY <2>1, <2>2, <1>0 DEF TypeOK, TasksOf
  <1>5. ASSUME NEW v \in Task, retry_task(v) PROVE Noted
    BY <1>5, <1>0 DEF retry_task, TypeOK, TasksOf
  <1>6. ASSUME UNCHANGED vars PROVE Noted
    BY <1>6 DEF vars
  <1>7. Noted
    <2> HIDE DEF Noted
    <2>1. QED
      BY <1>1, <1>2, <1>3, <1>4, <1>5, <1>6, <1>0 DEF Next, TypeOK
  <1>8. QED
    BY <1>7

\* Late completions and retries never rewrite a terminal row.
THEOREM TerminalRowsStable == Spec => TerminalStable
  <1>1. IInv /\ [Next]_vars
          => [ /\ \A t \in Task :
                     status[t] \in Terminal =>
                         status'[t] = status[t] /\ output'[t] = output[t]
               /\ \A w \in Workflow :
                     wf_status[w] \in {"COMPLETED", "FAILED"} =>
                         wf_status'[w] = wf_status[w] ]_vars
    BY TerminalStep
  <1>2. QED
    BY Invariance, <1>1, PTL DEF Spec, TerminalStable

=============================================================================
