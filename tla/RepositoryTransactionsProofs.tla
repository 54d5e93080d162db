-------------------- MODULE RepositoryTransactionsProofs --------------------
(***************************************************************************)
(* Proofs about the transactions statement by statement, for any number of *)
(* sessions, executions and tasks and any dependency relation.             *)
(***************************************************************************)
EXTENDS RepositoryTransactions, FiniteSetTheorems, SequenceTheorems,
        WellFoundedInduction, TLAPS

WP == INSTANCE WorkflowExecutionsProofs WITH wf_status <- committed.wf

\* What the statements make of a row.
started(row) == [row EXCEPT !.status = "RUNNING"]
completed(row, out) == [row EXCEPT !.status = "COMPLETED", !.output = out]
released_once(row) == [row EXCEPT !.remaining_dependencies = row.remaining_dependencies - 1]
tried(row, state) == [row EXCEPT !.remaining_tries = @ - 1, !.status = state]
cancelled(row) == [row EXCEPT !.status = "CANCELLED"]

\* The transaction that starts a task has written that row or none.
Starting(s) ==
    /\ \A r \in Rows : lock[r] = s => r = job[s]
    /\ lock[job[s]] = s =>
          /\ committed.task[job[s]].status = "PENDING"
          /\ working.task[job[s]] = started(committed.task[job[s]])

\* The rows of a completion: its task, and the children it has visited, all of
\* them unless they wait no more.
Completing(s) ==
    /\ lock[job[s]] = s
    /\ committed.task[job[s]].status = "RUNNING"
    /\ \E out \in Output : working.task[job[s]] =
          completed(committed.task[job[s]], out)
    /\ \A c \in Task : lock[c] = s /\ c # job[s] =>
          /\ c \in children(job[s])
          /\ committed.task[c].status = "PENDING"
          /\ committed.task[c].remaining_dependencies > 0
          /\ working.task[c] = released_once(committed.task[c])
          /\ \A d \in ToSet(todo[s]) : before(c, d)
    /\ \A c \in children(job[s]) :
          \/ lock[c] = s
          \/ c \in ToSet(todo[s])
          \/ committed.task[c].status \notin {"NONE", "PENDING"}

\* The completed row of the workflow, or what its NOT EXISTS has met: a task
\* that is unfinished, or was until it completed beside this one.
Judged(s) ==
    LET t == job[s]
        w == workflow_of[t] IN
    /\ \A v \in Workflow : lock[v] = s => v = w
    /\ lock[w] = s =>
          /\ committed.wf[w] = "RUNNING" /\ working.wf[w] = "COMPLETED"
          /\ \A u \in TasksOf(w) : u # t => committed.task[u].status = "COMPLETED"
    /\ lock[w] # s =>
          \E u \in TasksOf(w) : /\ u # t
                                /\ \/ committed.task[u].status # "COMPLETED"
                                   \/ u \in completed_meanwhile[t]

Retrying(s) ==
    /\ \A r \in Rows : lock[r] = s <=> r = job[s]
    /\ committed.task[job[s]].status = "RUNNING"
    /\ committed.task[job[s]].remaining_tries > 1
    /\ working.task[job[s]] = tried(committed.task[job[s]], "RUNNING")

\* The failed task, and the tasks cancelled so far.
Failing(s) ==
    /\ lock[job[s]] = s
    /\ committed.task[job[s]].status = "RUNNING"
    /\ committed.task[job[s]].remaining_tries = 1
    /\ working.task[job[s]] = tried(committed.task[job[s]], "FAILED")
    /\ \A u \in Task : lock[u] = s /\ u # job[s] =>
          /\ u \in TasksOf(workflow_of[job[s]])
          /\ committed.task[u].status \in Active
          /\ working.task[u] = cancelled(committed.task[u])
          /\ u \notin ToSet(todo[s])

\* The failed workflow, and no task of it forgotten.
Cancelling(s) ==
    LET w == workflow_of[job[s]] IN
    /\ Failing(s)
    /\ \A v \in Workflow : lock[v] = s <=> v = w
    /\ committed.wf[w] = "RUNNING" /\ working.wf[w] = "FAILED"
    /\ pc[s] # "cancel_scan" =>
          \A u \in TasksOf(w) : \/ u = job[s] \/ lock[u] = s \/ u \in ToSet(todo[s])
                                \/ committed.task[u].status \notin Active \cup {"NONE"}

NoLocks(s) == \A r \in Rows : lock[r] # s

NoWorkflowLock(s) == \A v \in Workflow : lock[v] # s

\* What the transaction of s has done when s stands where it does.
Standing(s) ==
    /\ pc[s] \in Resting => NoLocks(s)
    /\ pc[s] \in {"start_select", "commit_start"} => Starting(s)
    /\ pc[s] = "update_child" => Completing(s) /\ NoWorkflowLock(s) /\ in_order(todo[s])
    /\ pc[s] = "complete_workflow" => Completing(s) /\ NoWorkflowLock(s)
    /\ pc[s] = "fail_workflow" => Failing(s) /\ NoWorkflowLock(s)
    /\ pc[s] \in {"cancel_scan", "cancel_row"} => Cancelling(s)
    /\ pc[s] = "cancel_row" =>
          /\ IsInjective(todo[s])
          /\ ToSet(todo[s]) \subseteq TasksOf(workflow_of[job[s]]) \ {job[s]}
    /\ pc[s] = "commit" => \/ NoLocks(s)
                           \/ Completing(s) /\ Judged(s)
                           \/ Retrying(s)
                           \/ Cancelling(s)

\* What a session carries: its task, the rows still to visit, and the children
\* it has released so far.
Carrying(s) ==
    /\ pc[s] = "idle" <=> job[s] = NULL
    /\ job[s] # NULL => job[s] \in reported
    /\ pc[s] \notin {"update_child", "cancel_row"} => todo[s] = << >>
    /\ pc[s] = "update_child" => ToSet(todo[s]) \subseteq children(job[s])
    /\ found[s] = {c \in Task : /\ lock[c] = s /\ c # job[s]
                                /\ working.task[c].status = "PENDING"
                                /\ working.task[c].remaining_dependencies = 0}

\* A row that does not exist has no output.
NoRowNoOutput ==
    \A t \in Task : committed.task[t].status = "NONE" => committed.task[t].output = NULL

\* The inductive invariant.
RInv ==
    /\ TypeOK
    /\ WP!IInv
    /\ NoRowNoOutput
    /\ \A s \in Session : Carrying(s) /\ Standing(s)

-----------------------------------------------------------------------------
(***************************************************************************)
(* The tasks are finitely many, and the execution model's assumptions hold.*)
(***************************************************************************)

\* There are finitely many tasks: a list names them all.
LEMMA FiniteTasks == IsFiniteSet(Task) /\ Cardinality(Task) \in Nat
  <1>1. Len(TaskOrder) \in Nat /\ TaskOrder \in [1..Len(TaskOrder) -> Task]
    BY TaskOrderAssumption, LenProperties
  <1>2. \A t \in Task : \E i \in 1..Len(TaskOrder) : TaskOrder[i] = t
    BY <1>1, TaskOrderAssumption DEF Range
  <1>3. TaskOrder \in Surjection(1..Len(TaskOrder), Task)
    BY <1>1, <1>2 DEF Surjection
  <1>4. IsFiniteSet(1..Len(TaskOrder))
    BY <1>1, FS_Interval
  <1>5. IsFiniteSet(Task)
    BY <1>3, <1>4, FS_Surjection
  <1>6. QED
    BY <1>5, FS_CardinalityType

\* The assumptions of WorkflowExecutions hold here.
LEMMA ExecutionAssumptions ==
    /\ workflow_of \in [Task -> Workflow]
    /\ Parents \in [Task -> SUBSET Task]
    /\ \A t \in Task : \A p \in Parents[t] : workflow_of[p] = workflow_of[t]
    /\ \A t \in Task : WP!IsFiniteSet(Parents[t])
    /\ MaxTries \in [Task -> Nat \ {0}]
    /\ NULL \notin Output
  <1>1. \A t \in Task : IsFiniteSet(Parents[t])
    BY FiniteTasks, FS_Subset, GraphAssumption
  <1>2. \A t \in Task : WP!IsFiniteSet(Parents[t])
    BY <1>1 DEF IsFiniteSet, WP!IsFiniteSet
  <1>3. QED
    BY <1>2, GraphAssumption, TaskOrderAssumption, MaxTriesAssumption, RowAssumption

\* How many parents a task has is a number that a column can hold.
LEMMA ParentCount ==
    ASSUME NEW t \in Task
    PROVE  /\ Cardinality(Parents[t]) \in 0..Cardinality(Task)
           /\ WP!Cardinality(Parents[t]) = Cardinality(Parents[t])
  <1>1. Cardinality(Parents[t]) \in Nat /\ Cardinality(Parents[t]) <= Cardinality(Task)
    BY FiniteTasks, FS_Subset, FS_CardinalityType, GraphAssumption
  <1>2. WP!Cardinality(Parents[t]) = Cardinality(Parents[t])
    BY DEF WP!Cardinality, Cardinality
  <1>3. QED
    BY <1>1, <1>2, FiniteTasks

-----------------------------------------------------------------------------
(***************************************************************************)
(* The tables, row by row.                                                 *)
(***************************************************************************)

\* The types of rows and locks, row by row.
LEMMA RowTypes ==
    ASSUME TypeOK
    PROVE  /\ \A t \in Task : committed.task[t] \in TaskRow /\ working.task[t] \in TaskRow
           /\ \A t \in Task : lock[t] \in Session \cup {NULL}
           /\ \A w \in Workflow : lock[w] \in Session \cup {NULL}
           /\ \A w \in Workflow :
                 /\ committed.wf[w] \in {"NONE", "RUNNING", "COMPLETED", "FAILED"}
                 /\ working.wf[w] \in {"NONE", "RUNNING", "COMPLETED", "FAILED"}
           /\ Rows = Task \cup Workflow /\ Task \cap Workflow = {}
           /\ NULL \notin Session /\ NULL \notin Task
  BY RowAssumption DEF TypeOK, Tables, Rows

\* The columns that the execution model sees.
LEMMA Columns ==
    \A t \in Task :
        /\ status[t] = committed.task[t].status
        /\ remaining_dependencies[t] = committed.task[t].remaining_dependencies
        /\ remaining_tries[t] = committed.task[t].remaining_tries
        /\ output[t] = committed.task[t].output
        /\ status'[t] = committed'.task[t].status
        /\ remaining_dependencies'[t] = committed'.task[t].remaining_dependencies
        /\ remaining_tries'[t] = committed'.task[t].remaining_tries
        /\ output'[t] = committed'.task[t].output
  BY DEF status, remaining_dependencies, remaining_tries, output

\* After an UPDATE of a task row: the row is locked, the others are as before.
LEMMA WroteTask ==
    ASSUME TypeOK, NEW s \in Session, NEW t \in Task, NEW row \in TaskRow,
           write_task(s, t, row)
    PROVE  /\ working' \in Tables /\ lock' \in [Rows -> Session \cup {NULL}]
           /\ working'.wf = working.wf /\ working'.task[t] = row
           /\ \A u \in Task : u # t => working'.task[u] = working.task[u]
           /\ lock[t] \in {NULL, s} /\ lock'[t] = s
           /\ \A r \in Rows : r # t => lock'[r] = lock[r]
  <1>1. working \in Tables /\ lock \in [Rows -> Session \cup {NULL}] /\ t \in Rows
    BY DEF TypeOK, Rows
  <1>2. lock' = [lock EXCEPT ![t] = s] /\ lock[t] \in {NULL, s}
    BY DEF write_task, unlocked
  <1>3. /\ working' = [working EXCEPT !.task = [@ EXCEPT ![t] = row]]
        /\ working.task \in [Task -> TaskRow]
    BY <1>1 DEF write_task, Tables
  <1>4. /\ working' \in Tables /\ working'.wf = working.wf
        /\ working'.task = [working.task EXCEPT ![t] = row]
    BY <1>1, <1>3 DEF Tables
  <1>5. QED
    BY <1>1, <1>2, <1>3, <1>4

\* The same for the row of a workflow.
LEMMA WroteWorkflow ==
    ASSUME TypeOK, NEW s \in Session, NEW w \in Workflow,
           NEW state \in {"NONE", "RUNNING", "COMPLETED", "FAILED"},
           write_workflow(s, w, state)
    PROVE  /\ working' \in Tables /\ lock' \in [Rows -> Session \cup {NULL}]
           /\ working'.task = working.task /\ working'.wf[w] = state
           /\ \A v \in Workflow : v # w => working'.wf[v] = working.wf[v]
           /\ lock[w] \in {NULL, s} /\ lock'[w] = s
           /\ \A r \in Rows : r # w => lock'[r] = lock[r]
  <1>1. working \in Tables /\ lock \in [Rows -> Session \cup {NULL}] /\ w \in Rows
    BY DEF TypeOK, Rows
  <1>2. lock' = [lock EXCEPT ![w] = s] /\ lock[w] \in {NULL, s}
    BY DEF write_workflow, unlocked
  <1>3. /\ working' = [working EXCEPT !.wf = [@ EXCEPT ![w] = state]]
        /\ working.wf \in [Workflow -> {"NONE", "RUNNING", "COMPLETED", "FAILED"}]
    BY <1>1 DEF write_workflow, Tables
  <1>4. /\ working' \in Tables /\ working'.task = working.task
        /\ working'.wf = [working.wf EXCEPT ![w] = state]
    BY <1>1, <1>3 DEF Tables
  <1>5. QED
    BY <1>1, <1>2, <1>3, <1>4

\* What the statements make of a row, column by column.
LEMMA RowFields ==
    ASSUME NEW row \in TaskRow
    PROVE  /\ row.remaining_dependencies \in Int /\ row.remaining_tries \in Int
           /\ /\ started(row) \in TaskRow
              /\ started(row).status = "RUNNING"
              /\ started(row).remaining_dependencies = row.remaining_dependencies
              /\ started(row).remaining_tries = row.remaining_tries
              /\ started(row).output = row.output
           /\ \A out \in Output :
              /\ completed(row, out) \in TaskRow
              /\ completed(row, out).status = "COMPLETED"
              /\ completed(row, out).remaining_dependencies = row.remaining_dependencies
              /\ completed(row, out).remaining_tries = row.remaining_tries
              /\ completed(row, out).output = out
           /\ row.remaining_dependencies > 0 =>
              /\ released_once(row) \in TaskRow
              /\ released_once(row).status = row.status
              /\ released_once(row).remaining_dependencies = row.remaining_dependencies - 1
              /\ released_once(row).remaining_tries = row.remaining_tries
              /\ released_once(row).output = row.output
           /\ row.remaining_tries > 0 =>
              \A state \in {"RUNNING", "FAILED"} :
              /\ tried(row, state) \in TaskRow
              /\ tried(row, state).status = state
              /\ tried(row, state).remaining_dependencies = row.remaining_dependencies
              /\ tried(row, state).remaining_tries = row.remaining_tries - 1
              /\ tried(row, state).output = row.output
           /\ /\ cancelled(row) \in TaskRow
              /\ cancelled(row).status = "CANCELLED"
              /\ cancelled(row).remaining_dependencies = row.remaining_dependencies
              /\ cancelled(row).remaining_tries = row.remaining_tries
              /\ cancelled(row).output = row.output
  <1>0. row.remaining_dependencies \in Int /\ row.remaining_tries \in Int
    BY FiniteTasks DEF TaskRow
  <1>1. /\ started(row) \in TaskRow
        /\ started(row).status = "RUNNING"
        /\ started(row).remaining_dependencies = row.remaining_dependencies
        /\ started(row).remaining_tries = row.remaining_tries
        /\ started(row).output = row.output
    BY DEF TaskRow, started
  <1>2. ASSUME NEW out \in Output
        PROVE  /\ completed(row, out) \in TaskRow
               /\ completed(row, out).status = "COMPLETED"
               /\ completed(row, out).remaining_dependencies = row.remaining_dependencies
               /\ completed(row, out).remaining_tries = row.remaining_tries
               /\ completed(row, out).output = out
    BY DEF TaskRow, completed
  <1>3. ASSUME row.remaining_dependencies > 0
        PROVE  /\ released_once(row) \in TaskRow
               /\ released_once(row).status = row.status
               /\ released_once(row).remaining_dependencies = row.remaining_dependencies - 1
               /\ released_once(row).remaining_tries = row.remaining_tries
               /\ released_once(row).output = row.output
    <2>1. row.remaining_dependencies - 1 \in 0..Cardinality(Task)
      BY <1>3, FiniteTasks DEF TaskRow
    <2>2. QED
      BY <2>1 DEF TaskRow, released_once
  <1>4. ASSUME row.remaining_tries > 0, NEW state \in {"RUNNING", "FAILED"}
        PROVE  /\ tried(row, state) \in TaskRow
               /\ tried(row, state).status = state
               /\ tried(row, state).remaining_dependencies = row.remaining_dependencies
               /\ tried(row, state).remaining_tries = row.remaining_tries - 1
               /\ tried(row, state).output = row.output
    <2>1. row.remaining_tries - 1 \in Nat
      BY <1>4 DEF TaskRow
    <2>2. QED
      BY <2>1 DEF TaskRow, tried
  <1>5. /\ cancelled(row) \in TaskRow
        /\ cancelled(row).status = "CANCELLED"
        /\ cancelled(row).remaining_dependencies = row.remaining_dependencies
        /\ cancelled(row).remaining_tries = row.remaining_tries
        /\ cancelled(row).output = row.output
    BY DEF TaskRow, cancelled
  <1>6. QED
    BY <1>0, <1>1, <1>2, <1>3, <1>4, <1>5

-----------------------------------------------------------------------------
(***************************************************************************)
(* The lists of rows a loop or a scan visits.                              *)
(***************************************************************************)

\* A list of a set's elements, each once.
LEMMA ListOf ==
    ASSUME NEW S \in SUBSET Task, NEW ids \in SetToSeqs(S)
    PROVE  ids \in Seq(Task) /\ ToSet(ids) = S /\ IsInjective(ids)
  <1> DEFINE n == Cardinality(S)
  <1>1. IsFiniteSet(S) /\ n \in Nat
    BY FiniteTasks, FS_Subset, FS_CardinalityType
  <1>2. ids \in [1..n -> S] /\ \A i, j \in 1..n : i # j => ids[i] # ids[j]
    BY DEF SetToSeqs
  <1>3. ids \in Injection(1..n, S)
    <2>1. ids \in [1..n -> S] /\ \A a, b \in 1..n : ids[a] = ids[b] => a = b
      BY <1>2
    <2>2. QED
      BY <2>1 DEF Injection, IsInjective
  <1>4. Cardinality(1..n) = n
    BY <1>1, FS_Interval
  <1>5. ids \in Surjection(1..n, S)
    BY <1>1, <1>3, <1>4, FS_Injection
  <1> HIDE DEF n
  <1>6. ids \in Seq(Task)
    <2>1. ids \in [1..n -> Task]
      BY <1>2
    <2>2. QED
      BY <2>1, <1>1, SeqDef
  <1>7. QED
    BY <1>2, <1>5, <1>6 DEF ToSet, IsInjective, Surjection

\* Facts about the empty list.
LEMMA EmptyList == ToSet(<< >>) = {} /\ in_order(<< >>) /\ IsInjective(<< >>)
                   /\ << >> \in Seq(Task)
  BY DEF ToSet, in_order, IsInjective

\* A row is left behind with the head of the list, and it was before the rest.
LEMMA HeadAndTail ==
    ASSUME NEW q \in Seq(Task), q # << >>
    PROVE  /\ Head(q) \in Task /\ Tail(q) \in Seq(Task)
           /\ Head(q) \in ToSet(q)
           /\ ToSet(q) = ToSet(Tail(q)) \cup {Head(q)}
           /\ in_order(q) => /\ in_order(Tail(q))
                             /\ \A d \in ToSet(Tail(q)) : before(Head(q), d)
           /\ IsInjective(q) => IsInjective(Tail(q)) /\ Head(q) \notin ToSet(Tail(q))
  <1> DEFINE n == Len(q)
  <1>1. n \in Nat \ {0} /\ q \in [1..n -> Task]
    BY EmptySeq, LenProperties
  <1>2. /\ Head(q) = q[1] /\ Head(q) \in Task
        /\ Tail(q) \in Seq(Task) /\ Tail(q) \in [1..n - 1 -> Task]
        /\ \A i \in 1..n - 1 : Tail(q)[i] = q[i + 1]
    <2>1. Len(Tail(q)) = n - 1 /\ Tail(q) \in Seq(Task)
      BY HeadTailProperties
    <2>2. Tail(q) \in [1..Len(Tail(q)) -> Task]
      BY <2>1, LenProperties
    <2>3. QED
      BY <2>1, <2>2, HeadTailProperties
  <1> HIDE DEF n
  <1>3. \A d \in ToSet(Tail(q)) : \E i \in 1..n - 1 : d = q[i + 1] /\ i + 1 \in 1..n /\ 1 < i + 1
    BY <1>1, <1>2 DEF ToSet
  <1>4. ToSet(q) = ToSet(Tail(q)) \cup {Head(q)}
    <2>1. \A i \in 1..n : i = 1 \/ (i - 1 \in 1..n - 1 /\ (i - 1) + 1 = i)
      BY <1>1
    <2>2. \A i \in 1..n : q[i] = Head(q) \/ q[i] \in ToSet(Tail(q))
      BY <2>1, <1>2 DEF ToSet
    <2>3. \A d \in ToSet(Tail(q)) : d \in ToSet(q)
      BY <1>1, <1>3 DEF ToSet
    <2>4. Head(q) \in ToSet(q)
      BY <1>1, <1>2 DEF ToSet
    <2>5. QED
      BY <2>2, <2>3, <2>4, <1>1 DEF ToSet
  <1>5. ASSUME in_order(q)
        PROVE  in_order(Tail(q)) /\ \A d \in ToSet(Tail(q)) : before(Head(q), d)
    <2>1. \A i, j \in 1..n : i < j => before(q[i], q[j])
      BY <1>1, <1>5 DEF in_order
    <2>2. \A i, j \in 1..n - 1 : i < j => i + 1 \in 1..n /\ j + 1 \in 1..n /\ i + 1 < j + 1
      BY <1>1
    <2>3. in_order(Tail(q))
      BY <2>1, <2>2, <1>2 DEF in_order
    <2>4. 1 \in 1..n
      BY <1>1
    <2>5. QED
      BY <2>1, <2>3, <2>4, <1>2, <1>3
  <1>6. ASSUME IsInjective(q)
        PROVE  IsInjective(Tail(q)) /\ Head(q) \notin ToSet(Tail(q))
    <2>1. \A i, j \in 1..n : q[i] = q[j] => i = j
      BY <1>1, <1>6 DEF IsInjective
    <2>2. \A i, j \in 1..n - 1 : /\ i + 1 \in 1..n /\ j + 1 \in 1..n
                                 /\ i + 1 = j + 1 => i = j
      BY <1>1
    <2>3. IsInjective(Tail(q))
      <3>1. SUFFICES ASSUME NEW i \in 1..n - 1, NEW j \in 1..n - 1, Tail(q)[i] = Tail(q)[j]
                     PROVE  i = j
        BY <1>2 DEF IsInjective
      <3>2. q[i + 1] = q[j + 1]
        BY <3>1, <1>2
      <3>3. QED
        BY <3>2, <2>1, <2>2
    <2>4. 1 \in 1..n
      BY <1>1
    <2>5. QED
      BY <2>1, <2>3, <2>4, <1>2, <1>3
  <1>7. QED
    BY <1>2, <1>4, <1>5, <1>6

\* The order of the definition is strict.
LEMMA BeforeIsStrict == \A c \in Task : ~before(c, c)
  <1>1. \A i, j \in DOMAIN TaskOrder : TaskOrder[i] = TaskOrder[j] => i = j
    BY TaskOrderAssumption DEF IsInjective
  <1>2. DOMAIN TaskOrder \subseteq Nat
    BY TaskOrderAssumption, LenProperties
  <1>3. QED
    BY <1>1, <1>2 DEF before

-----------------------------------------------------------------------------
(***************************************************************************)
(* What the invariant says of one session and of one row.                  *)
(***************************************************************************)

\* A session that works has a reported task, whose parents are done.
LEMMA JobIsReady ==
    ASSUME RInv, NEW s \in Session, pc[s] # "idle"
    PROVE  /\ job[s] \in Task /\ job[s] # NULL /\ job[s] \in reported
           /\ workflow_of[job[s]] \in Workflow
           /\ job[s] \in TasksOf(workflow_of[job[s]])
           /\ \A p \in Parents[job[s]] : p \in Task /\ committed.task[p].status = "COMPLETED"
                                         /\ committed.task[p].output # NULL
           /\ committed.task[job[s]].status # "COMPLETED" => job[s] \notin children(job[s])
  <1>1. job[s] \in Task /\ job[s] # NULL /\ job[s] \in reported
    BY DEF RInv, TypeOK, Carrying
  <1>2. WP!ReportedReady
    BY DEF RInv, WP!IInv
  <1>3. Parents[job[s]] \subseteq Task
    BY <1>1, GraphAssumption
  <1>4. \A p \in Parents[job[s]] : p \in Task /\ committed.task[p].status = "COMPLETED"
                                   /\ committed.task[p].output # NULL
    BY <1>1, <1>2, <1>3, Columns DEF WP!ReportedReady
  <1>5. QED
    BY <1>1, <1>4, GraphAssumption DEF TasksOf, children

\* Rows that a transaction has written exist, in both versions.
LEMMA LockedRowsExist ==
    ASSUME RInv, NEW s \in Session
    PROVE  /\ \A t \in Task : lock[t] = s => /\ committed.task[t].status # "NONE"
                                             /\ working.task[t].status # "NONE"
                                             /\ pc[s] # "idle"
           /\ \A w \in Workflow : lock[w] = s => committed.wf[w] # "NONE"
  <1>1. Standing(s) /\ pc[s] \in Resting \cup Statement
    BY DEF RInv, TypeOK
  <1>2. \A t \in Task : t \in Rows /\ committed.task[t] \in TaskRow
    BY RowTypes DEF RInv, Rows
  <1>3. \A w \in Workflow : w \in Rows /\ \A t \in Task : w # t
    BY RowAssumption DEF Rows
  <1>4. CASE pc[s] = "idle"
    BY <1>1, <1>2, <1>3, <1>4 DEF Standing, Resting, NoLocks
  <1> SUFFICES ASSUME pc[s] # "idle"
               PROVE  /\ \A t \in Task : lock[t] = s => /\ committed.task[t].status # "NONE"
                                                        /\ working.task[t].status # "NONE"
                      /\ \A w \in Workflow : lock[w] = s => committed.wf[w] # "NONE"
    BY <1>4
  <1>5. job[s] \in Task /\ workflow_of[job[s]] \in Workflow
    BY JobIsReady
  <1>6. \A t \in Task : LET row == committed.task[t] IN
           /\ started(row).status # "NONE"
           /\ \A out \in Output : completed(row, out).status # "NONE"
           /\ row.remaining_dependencies > 0 => released_once(row).status = row.status
           /\ row.remaining_tries > 0 =>
                 \A state \in {"RUNNING", "FAILED"} : tried(row, state).status # "NONE"
           /\ cancelled(row).status # "NONE"
           /\ row.remaining_tries > 1 => row.remaining_tries > 0
    BY <1>2, RowFields
  <1>7. CASE NoLocks(s)
    BY <1>7, <1>2, <1>3 DEF NoLocks
  <1>8. CASE Starting(s)
    BY <1>8, <1>2, <1>3, <1>5, <1>6 DEF Starting
  <1>9. CASE Completing(s) /\ (NoWorkflowLock(s) \/ Judged(s))
    <2>1. \A t \in Task : lock[t] = s => /\ committed.task[t].status # "NONE"
                                          /\ working.task[t].status # "NONE"
      BY <1>9, <1>5, <1>6 DEF Completing
    <2>2. QED
      BY <2>1, <1>9, <1>5 DEF NoWorkflowLock, Judged
  <1>10. CASE Retrying(s)
    BY <1>10, <1>2, <1>3, <1>5, <1>6 DEF Retrying
  <1>11. ASSUME Failing(s), NEW t \in Task, lock[t] = s
         PROVE  committed.task[t].status # "NONE" /\ working.task[t].status # "NONE"
    BY <1>11, <1>5, <1>6 DEF Failing, Active
  <1>12. CASE Failing(s) /\ NoWorkflowLock(s)
    BY <1>11, <1>12 DEF NoWorkflowLock
  <1>13. CASE Cancelling(s)
    BY <1>11, <1>13 DEF Cancelling
  <1>14. QED
    BY <1>1, <1>7, <1>8, <1>9, <1>10, <1>12, <1>13 DEF Standing, Resting, Statement

\* A row no session has written is the same in both versions.
LEMMA UnlockedRows ==
    ASSUME TypeOK
    PROVE  /\ \A t \in Task : lock[t] \notin Session => working.task[t] = committed.task[t]
           /\ \A w \in Workflow : lock[w] \notin Session => working.wf[w] = committed.wf[w]
  BY RowTypes DEF TypeOK

-----------------------------------------------------------------------------
(***************************************************************************)
(* The other sessions of a step: what they rely on stays true.             *)
(***************************************************************************)

\* The step leaves session r and the rows it has written alone.
Frame(r) ==
    /\ pc'[r] = pc[r] /\ job'[r] = job[r] /\ todo'[r] = todo[r] /\ found'[r] = found[r]
    /\ \A x \in Rows : lock'[x] = r <=> lock[x] = r
    /\ \A t \in Task : lock[t] = r => /\ committed'.task[t] = committed.task[t]
                                      /\ working'.task[t] = working.task[t]
    /\ \A w \in Workflow : lock[w] = r => /\ committed'.wf[w] = committed.wf[w]
                                          /\ working'.wf[w] = working.wf[w]

\* How the committed rows advance, by any transaction.
LEMMA Advance ==
    ASSUME RInv, [WP!Next]_(WP!vars)
    PROVE  /\ reported \subseteq reported'
           /\ \A t \in Task :
                /\ committed.task[t].status # "NONE" => committed'.task[t].status # "NONE"
                /\ committed.task[t].status \notin {"NONE", "PENDING"}
                     => committed'.task[t].status \notin {"NONE", "PENDING"}
                /\ committed.task[t].status \notin Active \cup {"NONE"}
                     => committed'.task[t].status = committed.task[t].status
           /\ \A t \in Task : \A u \in TasksOf(workflow_of[t]) \ {t} :
                committed.task[t].status = "RUNNING"
                  /\ (committed.task[u].status # "COMPLETED" \/ u \in completed_meanwhile[t])
                => committed'.task[u].status # "COMPLETED" \/ u \in completed_meanwhile'[t]
  <1>1. WP!IInv
    BY DEF RInv
  <1>2. reported \subseteq reported'
    BY ExecutionAssumptions, WP!ReportedGrows
  <1>3. ASSUME NEW t \in Task, status[t] # "NONE"
        PROVE  /\ status'[t] # "NONE"
               /\ status[t] # "PENDING" => status'[t] # "PENDING"
               /\ status[t] \in WP!Terminal => status'[t] = status[t]
    BY <1>1, <1>3, ExecutionAssumptions, WP!StatusStep
  <1>4. \A t \in Task : status[t] \in WP!TaskStatus
    BY <1>1, Columns DEF WP!IInv, WP!TypeOK
  <1>5. \A t \in Task :
           /\ status[t] # "NONE" => status'[t] # "NONE"
           /\ status[t] \notin {"NONE", "PENDING"} => status'[t] \notin {"NONE", "PENDING"}
           /\ status[t] \notin Active \cup {"NONE"} => status'[t] = status[t]
    BY <1>3, <1>4 DEF WP!TaskStatus, WP!Terminal, Active
  <1>6. ASSUME NEW t \in Task, NEW u \in TasksOf(workflow_of[t]) \ {t}, status[t] = "RUNNING",
               status[u] # "COMPLETED" \/ u \in completed_meanwhile[t]
        PROVE  status'[u] # "COMPLETED" \/ u \in completed_meanwhile'[t]
    BY <1>1, <1>6, ExecutionAssumptions, WP!MeanwhileStep DEF TasksOf, WP!TasksOf
  <1>7. \A t \in Task : \A u \in TasksOf(workflow_of[t]) : u \in Task
    BY DEF TasksOf
  <1>8. QED
    BY <1>2, <1>5, <1>6, <1>7, Columns

\* Everything a session's standing is about is its own, or only advances.
LEMMA FrameKeeps ==
    ASSUME RInv, [WP!Next]_(WP!vars), NEW r \in Session, Frame(r)
    PROVE  Carrying(r)' /\ Standing(r)'
  <1>0. /\ pc'[r] = pc[r] /\ job'[r] = job[r] /\ todo'[r] = todo[r] /\ found'[r] = found[r]
        /\ \A x \in Rows : lock'[x] = r <=> lock[x] = r
        /\ \A t \in Task : lock'[t] = r <=> lock[t] = r
        /\ \A w \in Workflow : lock'[w] = r <=> lock[w] = r
        /\ \A t \in Task : lock[t] = r => /\ committed'.task[t] = committed.task[t]
                                          /\ working'.task[t] = working.task[t]
        /\ \A w \in Workflow : lock[w] = r => /\ committed'.wf[w] = committed.wf[w]
                                              /\ working'.wf[w] = working.wf[w]
    BY DEF Frame, Rows
  <1>1. Carrying(r) /\ Standing(r)
    BY DEF RInv
  <1>2. reported \subseteq reported'
    BY Advance
  <1>3. Carrying(r)'
    <2>1. found'[r] = {c \in Task : /\ lock'[c] = r /\ c # job'[r]
                                    /\ working'.task[c].status = "PENDING"
                                    /\ working'.task[c].remaining_dependencies = 0}
      BY <1>0, <1>1 DEF Carrying
    <2>2. QED
      BY <2>1, <1>0, <1>1, <1>2 DEF Carrying
  <1>4. NoLocks(r) => NoLocks(r)'
    BY <1>0 DEF NoLocks
  <1>5. CASE pc[r] = "idle"
    BY <1>0, <1>1, <1>3, <1>4, <1>5 DEF Standing, Resting
  <1> SUFFICES ASSUME pc[r] # "idle" PROVE Standing(r)'
    BY <1>3, <1>5
  <1>6. job[r] \in Task /\ workflow_of[job[r]] \in Workflow
    BY JobIsReady
  <1>7. NoWorkflowLock(r) => NoWorkflowLock(r)'
    BY <1>0 DEF NoWorkflowLock
  <1>8. Starting(r) => Starting(r)'
    BY <1>0, <1>6 DEF Starting
  <1>9. Completing(r) => Completing(r)'
    <2>1. SUFFICES ASSUME Completing(r) PROVE Completing(r)'
      OBVIOUS
    <2>2. /\ lock'[job'[r]] = r
          /\ committed'.task[job'[r]].status = "RUNNING"
          /\ \E out \in Output :
                working'.task[job'[r]] = completed(committed'.task[job'[r]], out)
      BY <2>1, <1>0, <1>6 DEF Completing
    <2>3. \A c \in Task : lock'[c] = r /\ c # job'[r] =>
             /\ c \in children(job'[r])
             /\ committed'.task[c].status = "PENDING"
             /\ committed'.task[c].remaining_dependencies > 0
             /\ working'.task[c] = released_once(committed'.task[c])
             /\ \A d \in ToSet(todo'[r]) : before(c, d)
      BY <2>1, <1>0 DEF Completing
    <2>4. \A c \in children(job'[r]) :
             \/ lock'[c] = r
             \/ c \in ToSet(todo'[r])
             \/ committed'.task[c].status \notin {"NONE", "PENDING"}
      BY <2>1, <1>0, <1>6, Advance DEF Completing, children
    <2>5. QED
      BY <2>2, <2>3, <2>4 DEF Completing
  <1>10. Completing(r) /\ Judged(r) => Judged(r)'
    <2>1. SUFFICES ASSUME Completing(r), Judged(r) PROVE Judged(r)'
      OBVIOUS
    <2> DEFINE t == job[r]
               w == workflow_of[t]
    <2>2. \A v \in Workflow : lock'[v] = r => v = w
      BY <2>1, <1>0 DEF Judged
    <2>3. \A u \in TasksOf(w) : u \in Task
      BY DEF TasksOf
    <2>4. lock'[w] = r =>
             /\ committed'.wf[w] = "RUNNING" /\ working'.wf[w] = "COMPLETED"
             /\ \A u \in TasksOf(w) : u # t => committed'.task[u].status = "COMPLETED"
      <3>1. \A u \in Task : committed.task[u].status = "COMPLETED"
                              => committed'.task[u].status = "COMPLETED"
        BY Advance DEF Active
      <3>2. QED
        BY <3>1, <2>1, <2>3, <1>0, <1>6 DEF Judged
    <2>5. lock'[w] # r =>
             \E u \in TasksOf(w) : /\ u # t
                                   /\ \/ committed'.task[u].status # "COMPLETED"
                                      \/ u \in completed_meanwhile'[t]
      <3>1. committed.task[t].status = "RUNNING"
        BY <2>1 DEF Completing
      <3>2. \A u \in TasksOf(w) : u # t
               /\ (committed.task[u].status # "COMPLETED" \/ u \in completed_meanwhile[t])
               => committed'.task[u].status # "COMPLETED" \/ u \in completed_meanwhile'[t]
        BY <3>1, <1>6, Advance
      <3>3. QED
        BY <3>2, <2>1, <1>0, <1>6 DEF Judged
    <2>6. job'[r] = t
      BY <1>0
    <2> HIDE DEF t
    <2>7. QED
      BY <2>2, <2>4, <2>5, <2>6 DEF Judged
  <1>11. Retrying(r) => Retrying(r)'
    <2>1. SUFFICES ASSUME Retrying(r) PROVE Retrying(r)'
      OBVIOUS
    <2>2. lock[job[r]] = r
      BY <2>1, <1>6 DEF Retrying, Rows
    <2>3. /\ committed'.task[job'[r]] = committed.task[job[r]]
          /\ working'.task[job'[r]] = working.task[job[r]]
      BY <2>2, <1>0, <1>6
    <2>4. \A x \in Rows : lock'[x] = r <=> x = job'[r]
      BY <2>1, <1>0 DEF Retrying
    <2>5. QED
      BY <2>1, <2>3, <2>4 DEF Retrying
  <1>12. Failing(r) => Failing(r)'
    <2>1. SUFFICES ASSUME Failing(r) PROVE Failing(r)'
      OBVIOUS
    <2>2. \A u \in Task : lock'[u] = r /\ u # job'[r] =>
             /\ u \in TasksOf(workflow_of[job'[r]])
             /\ committed'.task[u].status \in Active
             /\ working'.task[u] = cancelled(committed'.task[u])
             /\ u \notin ToSet(todo'[r])
      BY <2>1, <1>0 DEF Failing
    <2>3. QED
      BY <2>1, <2>2, <1>0, <1>6 DEF Failing
  <1>13. Cancelling(r) => Cancelling(r)'
    <2>1. SUFFICES ASSUME Cancelling(r) PROVE Cancelling(r)'
      OBVIOUS
    <2>2. \A u \in TasksOf(workflow_of[job'[r]]) : u \in Task
      BY DEF TasksOf
    <2>3. pc[r] # "cancel_scan" =>
             \A u \in TasksOf(workflow_of[job'[r]]) :
                \/ u = job'[r] \/ lock'[u] = r \/ u \in ToSet(todo'[r])
                \/ committed'.task[u].status \notin Active \cup {"NONE"}
      BY <2>1, <2>2, <1>0, Advance DEF Cancelling
    <2>4. QED
      BY <2>1, <2>3, <1>0, <1>6, <1>12 DEF Cancelling
  <1>14. QED
    BY <1>0, <1>1, <1>4, <1>7, <1>8, <1>9, <1>10, <1>11, <1>12, <1>13 DEF Standing

-----------------------------------------------------------------------------
(***************************************************************************)
(* Steps that change nothing another session can see.                      *)
(***************************************************************************)

\* The tables of the execution model stay.
LEMMA NothingVisible ==
    ASSUME UNCHANGED <<committed, reported, completed_meanwhile>>
    PROVE  UNCHANGED WP!vars
  BY DEF WP!vars, status, remaining_dependencies, remaining_tries, output

\* Session s alone moves, and writes only rows that were free or its own.
Moves(s) ==
    /\ \A r \in Session \ {s} : /\ pc'[r] = pc[r] /\ job'[r] = job[r]
                                /\ todo'[r] = todo[r] /\ found'[r] = found[r]
    /\ \A x \in Rows : lock'[x] # lock[x] => lock[x] \in {NULL, s} /\ lock'[x] \in {NULL, s}
    /\ \A t \in Task : lock[t] \notin {NULL, s} => working'.task[t] = working.task[t]
    /\ \A w \in Workflow : lock[w] \notin {NULL, s} => working'.wf[w] = working.wf[w]

\* The invariant of such a step, but for its own session and the types.
LEMMA QuietStep ==
    ASSUME RInv, NEW s \in Session, Moves(s), TypeOK',
           UNCHANGED <<committed, reported, completed_meanwhile>>,
           Carrying(s)' /\ Standing(s)'
    PROVE  RInv'
  <1>1. UNCHANGED WP!vars
    BY NothingVisible
  <1>2. WP!IInv'
    BY <1>1, ExecutionAssumptions, WP!StutterIInv DEF RInv
  <1>3. NoRowNoOutput'
    BY DEF RInv, NoRowNoOutput
  <1>4. ASSUME NEW r \in Session, r # s
        PROVE  Carrying(r)' /\ Standing(r)'
    <2>1. r # NULL
      BY RowAssumption
    <2>2. \A x \in Rows : lock'[x] = r <=> lock[x] = r
      BY <1>4, <2>1 DEF Moves
    <2>3. Frame(r)
      BY <1>4, <2>1, <2>2 DEF Moves, Frame
    <2>4. QED
      BY <1>1, <2>3, FrameKeeps
  <1>5. QED
    BY <1>2, <1>3, <1>4 DEF RInv

-----------------------------------------------------------------------------
(***************************************************************************)
(* What each step leaves to show, by what it writes.                       *)
(***************************************************************************)

RowsTyped ==
    /\ committed \in Tables
    /\ working \in Tables
    /\ lock \in [Rows -> Session \cup {NULL}]
    /\ \A t \in Task : lock[t] = NULL => working.task[t] = committed.task[t]
    /\ \A w \in Workflow : lock[w] = NULL => working.wf[w] = committed.wf[w]

SessionsTyped ==
    /\ pc \in [Session -> Resting \cup Statement]
    /\ job \in [Session -> Task \cup {NULL}]
    /\ todo \in [Session -> Seq(Task)]
    /\ found \in [Session -> SUBSET Task]
    /\ reported \in SUBSET Task
    /\ completed_meanwhile \in [Task -> SUBSET Task]
    /\ overlapped \in [Task -> SUBSET Task]

\* The type invariant by rows and sessions.
LEMMA TypeParts == RowsTyped' /\ SessionsTyped' => TypeOK'
  BY DEF TypeOK, RowsTyped, SessionsTyped

WritesOwn(s) ==
    /\ \A x \in Rows : lock'[x] # lock[x] => lock[x] \in {NULL, s} /\ lock'[x] \in {NULL, s}
    /\ \A t \in Task : lock[t] \notin {NULL, s} => working'.task[t] = working.task[t]
    /\ \A w \in Workflow : lock[w] \notin {NULL, s} => working'.wf[w] = working.wf[w]

\* An UPDATE of a task row touches only what its session may touch.
LEMMA TaskWritten ==
    ASSUME TypeOK, NEW s \in Session, NEW t \in Task, NEW row \in TaskRow,
           write_task(s, t, row), UNCHANGED committed
    PROVE  RowsTyped' /\ WritesOwn(s)
  <1>1. s # NULL /\ t \in Rows
    BY RowAssumption DEF Rows
  <1>2. /\ working' \in Tables /\ lock' \in [Rows -> Session \cup {NULL}]
        /\ working'.wf = working.wf
        /\ \A u \in Task : u # t => working'.task[u] = working.task[u]
        /\ lock[t] \in {NULL, s} /\ lock'[t] = s
        /\ \A r \in Rows : r # t => lock'[r] = lock[r]
    BY WroteTask
  <1>3. \A u \in Task : lock'[u] = NULL => working'.task[u] = committed'.task[u]
    BY <1>1, <1>2 DEF TypeOK, Rows
  <1>4. \A w \in Workflow : lock'[w] = NULL => working'.wf[w] = committed'.wf[w]
    BY <1>2, RowAssumption DEF TypeOK, Rows
  <1>5. RowsTyped'
    BY <1>2, <1>3, <1>4 DEF RowsTyped, TypeOK
  <1>6. WritesOwn(s)
    BY <1>1, <1>2 DEF WritesOwn
  <1>7. QED
    BY <1>5, <1>6

\* So does an UPDATE of the row of a workflow.
LEMMA WorkflowWritten ==
    ASSUME TypeOK, NEW s \in Session, NEW w \in Workflow,
           NEW state \in {"NONE", "RUNNING", "COMPLETED", "FAILED"},
           write_workflow(s, w, state), UNCHANGED committed
    PROVE  RowsTyped' /\ WritesOwn(s)
  <1>1. s # NULL /\ w \in Rows
    BY RowAssumption DEF Rows
  <1>2. /\ working' \in Tables /\ lock' \in [Rows -> Session \cup {NULL}]
        /\ working'.task = working.task
        /\ \A v \in Workflow : v # w => working'.wf[v] = working.wf[v]
        /\ lock[w] \in {NULL, s} /\ lock'[w] = s
        /\ \A r \in Rows : r # w => lock'[r] = lock[r]
    BY WroteWorkflow
  <1>3. \A u \in Task : lock'[u] = NULL => working'.task[u] = committed'.task[u]
    BY <1>2, RowAssumption DEF TypeOK, Rows
  <1>4. \A v \in Workflow : lock'[v] = NULL => working'.wf[v] = committed'.wf[v]
    BY <1>1, <1>2 DEF TypeOK, Rows
  <1>5. RowsTyped'
    BY <1>2, <1>3, <1>4 DEF RowsTyped, TypeOK
  <1>6. WritesOwn(s)
    BY <1>1, <1>2 DEF WritesOwn
  <1>7. QED
    BY <1>5, <1>6

\* So does a statement that matches no row.
LEMMA NothingWritten ==
    ASSUME TypeOK, NEW s \in Session, write_nothing, UNCHANGED committed
    PROVE  RowsTyped' /\ WritesOwn(s)
  BY DEF TypeOK, RowsTyped, WritesOwn, write_nothing

\* A transaction that ends without commit leaves no trace.
LEMMA RolledBack ==
    ASSUME RInv, NEW s \in Session, roll_back(s)
    PROVE  RInv'
  <1>1. TypeOK /\ s # NULL
    BY RowAssumption DEF RInv
  <1>2. /\ lock' = [r \in Rows |-> IF lock[r] = s THEN NULL ELSE lock[r]]
        /\ pc' = [pc EXCEPT ![s] = "idle"]
        /\ job' = [job EXCEPT ![s] = NULL]
        /\ todo' = [todo EXCEPT ![s] = << >>]
        /\ found' = [found EXCEPT ![s] = {}]
        /\ UNCHANGED <<committed, reported, history>>
        /\ working'.wf = [w \in Workflow |->
                             IF lock[w] = s THEN committed.wf[w] ELSE working.wf[w]]
        /\ working'.task = [t \in Task |->
                               IF lock[t] = s THEN committed.task[t] ELSE working.task[t]]
        /\ working' = [wf |-> working'.wf, task |-> working'.task]
    BY DEF roll_back, unlock_all, goto
  <1>3. \A r \in Rows : lock'[r] # s
    BY <1>1, <1>2
  <1>4. working' \in Tables
    <2>1. working'.wf \in [Workflow -> {"NONE", "RUNNING", "COMPLETED", "FAILED"}]
      BY <1>1, <1>2 DEF TypeOK, Tables
    <2>2. working'.task \in [Task -> TaskRow]
      BY <1>1, <1>2 DEF TypeOK, Tables
    <2>3. QED
      BY <2>1, <2>2, <1>2 DEF Tables
  <1>5. lock' \in [Rows -> Session \cup {NULL}]
    BY <1>1, <1>2 DEF TypeOK
  <1>6. RowsTyped'
    BY <1>1, <1>2, <1>4, <1>5 DEF TypeOK, RowsTyped, Rows
  <1>7. SessionsTyped'
    BY <1>1, <1>2, EmptyList DEF TypeOK, SessionsTyped, Resting, history
  <1>8. Moves(s)
    <2>1. \A r \in Session \ {s} : /\ pc'[r] = pc[r] /\ job'[r] = job[r]
                                   /\ todo'[r] = todo[r] /\ found'[r] = found[r]
      BY <1>1, <1>2 DEF TypeOK
    <2>2. \A x \in Rows : lock'[x] # lock[x] => lock[x] \in {NULL, s} /\ lock'[x] \in {NULL, s}
      BY <1>2
    <2>3. QED
      BY <2>1, <2>2, <1>2 DEF Moves
  <1>9. /\ pc'[s] = "idle" /\ job'[s] = NULL /\ todo'[s] = << >> /\ found'[s] = {}
    BY <1>1, <1>2 DEF TypeOK
  <1>10. Carrying(s)'
    BY <1>3, <1>9 DEF Carrying, Rows
  <1>11. Standing(s)'
    BY <1>3, <1>9 DEF Standing, NoLocks
  <1>12. QED
    BY <1>2, <1>6, <1>7, <1>8, <1>10, <1>11, TypeParts, QuietStep DEF history

-----------------------------------------------------------------------------
(***************************************************************************)
(* Starting a task.                                                        *)
(***************************************************************************)

\* The row a transaction reads, as the types and the locks give it.
LEMMA ReadRow ==
    ASSUME TypeOK, NEW s \in Session, NEW t \in Task
    PROVE  /\ task_row(s, t) \in TaskRow
           /\ lock[t] = s => task_row(s, t) = working.task[t]
           /\ lock[t] # s => task_row(s, t) = committed.task[t]
  BY RowTypes DEF task_row

\* A session that rests has written no row and releases no child.
LEMMA AtRest ==
    ASSUME RInv, NEW s \in Session, pc[s] \in Resting
    PROVE  /\ \A r \in Rows : lock[r] # s
           /\ \A t \in Task : lock[t] # s
           /\ \A w \in Workflow : lock[w] # s
           /\ found[s] = {} /\ todo[s] = << >>
  <1>1. Standing(s) /\ Carrying(s)
    BY DEF RInv
  <1>2. \A r \in Rows : lock[r] # s
    BY <1>1 DEF Standing, NoLocks
  <1>3. QED
    BY <1>1, <1>2 DEF Carrying, Rows, Resting

\* The statements of a session keep the invariant, one lemma each: the UPDATE
\* of start_task,
LEMMA StartUpdateKeeps ==
    ASSUME RInv, NEW s \in Session, NEW t \in reported, start_update(s, t)
    PROVE  RInv'
  <1>1. TypeOK /\ t \in Task /\ t # NULL
    BY RowAssumption DEF RInv, TypeOK
  <1>2. /\ pc[s] = "idle"
        /\ pc' = [pc EXCEPT ![s] = "start_select"]
        /\ job' = [job EXCEPT ![s] = t]
        /\ UNCHANGED <<committed, todo, found, reported, history>>
    BY DEF start_update, goto
  <1>3. /\ \A r \in Rows : lock[r] # s
        /\ \A c \in Task : lock[c] # s
        /\ found[s] = {} /\ todo[s] = << >>
    BY <1>2, AtRest DEF Resting
  <1>4. pc'[s] = "start_select" /\ job'[s] = t /\ todo'[s] = << >> /\ found'[s] = {}
    BY <1>1, <1>2, <1>3 DEF TypeOK
  <1>5. /\ SessionsTyped'
        /\ \A r \in Session \ {s} : /\ pc'[r] = pc[r] /\ job'[r] = job[r]
                                    /\ todo'[r] = todo[r] /\ found'[r] = found[r]
    BY <1>1, <1>2 DEF TypeOK, SessionsTyped, Statement, history
  <1>6. task_row(s, t) = committed.task[t] /\ committed.task[t] \in TaskRow
    BY <1>1, <1>3, ReadRow, RowTypes
  <1>7. /\ RowsTyped' /\ WritesOwn(s)
        /\ Starting(s)'
        /\ \A c \in Task : c # t => lock'[c] # s
    <2>1. CASE /\ committed.task[t].status = "PENDING"
               /\ write_task(s, t, started(committed.task[t]))
      <3>1. started(committed.task[t]) \in TaskRow
        BY <1>6, RowFields
      <3>2. RowsTyped' /\ WritesOwn(s)
        BY <1>1, <1>2, <2>1, <3>1, TaskWritten
      <3>3. /\ working'.task[t] = started(committed.task[t])
            /\ \A r \in Rows : r # t => lock'[r] = lock[r]
        BY <1>1, <2>1, <3>1, WroteTask
      <3>4. Starting(s)'
        BY <1>2, <1>3, <1>4, <2>1, <3>3 DEF Starting
      <3>5. QED
        BY <3>2, <3>3, <3>4, <1>3 DEF Rows
    <2>2. CASE write_nothing
      <3>1. RowsTyped' /\ WritesOwn(s)
        BY <1>1, <1>2, <2>2, NothingWritten
      <3>2. Starting(s)'
        BY <1>1, <1>3, <1>4, <2>2 DEF Starting, write_nothing
      <3>3. QED
        BY <3>1, <3>2, <2>2, <1>3 DEF write_nothing
    <2>3. QED
      BY <1>6, <2>1, <2>2 DEF start_update, started
  <1>8. Carrying(s)'
    BY <1>1, <1>2, <1>4, <1>7 DEF Carrying
  <1>9. Standing(s)'
    BY <1>4, <1>7 DEF Standing, Resting
  <1>10. Moves(s)
    BY <1>5, <1>7 DEF Moves, WritesOwn
  <1>11. QED
    BY <1>2, <1>5, <1>7, <1>8, <1>9, <1>10, TypeParts, QuietStep DEF history

\* A step that only moves the session on and writes no row.
LEMMA GoesOn ==
    ASSUME RInv, NEW s \in Session, pc[s] # "idle", NEW place \in Statement, goto(s, place),
           UNCHANGED <<committed, working, lock, job, found, reported, history>>,
           NEW rows \in Seq(Task), todo' = [todo EXCEPT ![s] = rows],
           place \notin {"update_child", "cancel_row"} => rows = << >>,
           place = "update_child" => ToSet(rows) \subseteq children(job[s]),
           Standing(s)'
    PROVE  RInv'
  <1>1. TypeOK /\ Carrying(s)
    BY DEF RInv
  <1>2. pc' = [pc EXCEPT ![s] = place] /\ place # "idle"
    BY DEF goto, Statement
  <1>3. pc'[s] = place /\ todo'[s] = rows /\ job'[s] = job[s] /\ found'[s] = found[s]
    BY <1>1, <1>2 DEF TypeOK
  <1>4. SessionsTyped'
    BY <1>1, <1>2 DEF TypeOK, SessionsTyped, history
  <1>5. RowsTyped' /\ WritesOwn(s)
    BY <1>1, NothingWritten DEF write_nothing
  <1>6. Moves(s)
    BY <1>1, <1>2, <1>5 DEF TypeOK, Moves, WritesOwn
  <1>7. Carrying(s)'
    BY <1>1, <1>2, <1>3 DEF Carrying
  <1>8. QED
    BY <1>4, <1>5, <1>6, <1>7, TypeParts, QuietStep DEF history

\* the SELECT of the outputs of the parents,
LEMMA StartSelectKeeps ==
    ASSUME RInv, NEW s \in Session, start_select(s)
    PROVE  RInv'
  <1>1. CASE roll_back(s)
    BY <1>1, RolledBack
  <1>2. CASE /\ goto(s, "commit_start")
             /\ UNCHANGED <<committed, working, lock, job, todo, found, reported, history>>
    <2>1. TypeOK /\ Carrying(s) /\ Standing(s) /\ pc[s] = "start_select"
      BY DEF RInv, start_select
    <2>2. Starting(s) /\ todo[s] = << >>
      BY <2>1 DEF Standing, Carrying
    <2>3. pc'[s] = "commit_start" /\ todo' = [todo EXCEPT ![s] = << >>]
      BY <1>2, <2>1, <2>2 DEF goto, TypeOK
    <2>4. Starting(s)'
      BY <1>2, <2>2 DEF Starting
    <2>5. Standing(s)'
      BY <2>3, <2>4 DEF Standing, Resting
    <2>6. QED
      BY <1>2, <2>1, <2>3, <2>5, GoesOn, EmptyList DEF Statement
  <1>3. QED
    BY <1>1, <1>2 DEF start_select

-----------------------------------------------------------------------------
(***************************************************************************)
(* Completing a task.                                                      *)
(***************************************************************************)

\* A RUNNING task's workflow runs, its waiting children count it, and it has a
\* try left.
LEMMA RunningTask ==
    ASSUME RInv, NEW t \in Task, committed.task[t].status = "RUNNING"
    PROVE  /\ committed.wf[workflow_of[t]] = "RUNNING"
           /\ committed.task[t].remaining_tries > 0
           /\ \A u \in TasksOf(workflow_of[t]) :
                 committed.task[u].status \in Active \cup {"COMPLETED"}
           /\ \A c \in children(t) :
                 /\ c \in TasksOf(workflow_of[t])
                 /\ committed.task[c].status = "PENDING"
                      => committed.task[c].remaining_dependencies > 0
  <1>1. /\ WP!IInv /\ WP!TypeOK /\ WP!WorkflowVerdict /\ WP!DependencyCount
        /\ WP!AttemptAccounting
    BY DEF RInv, WP!IInv
  <1>2. status[t] = "RUNNING"
    BY Columns
  <1>3. committed.wf[workflow_of[t]] = "RUNNING"
    BY <1>1, <1>2, ExecutionAssumptions, WP!ActiveInRunningWorkflow DEF WP!Active
  <1>4. \A u \in TasksOf(workflow_of[t]) : u \in Task /\ status[u] \in Active \cup {"COMPLETED"}
    BY <1>1, <1>3, GraphAssumption DEF WP!WorkflowVerdict, WP!TasksOf, TasksOf, WP!Active, Active
  <1>5. remaining_tries[t] > 0
    BY <1>1, <1>2 DEF WP!AttemptAccounting, WP!Active
  <1>6. ASSUME NEW c \in children(t)
        PROVE  /\ c \in Task /\ c \in TasksOf(workflow_of[t])
               /\ status[c] = "PENDING" => remaining_dependencies[c] > 0
    <2>1. c \in Task /\ t \in Parents[c] /\ c \in TasksOf(workflow_of[t])
      BY GraphAssumption DEF children, TasksOf
    <2>2. t \in WP!unmet(c)
      BY <1>2, <2>1 DEF WP!unmet
    <2>3. WP!Cardinality(WP!unmet(c)) # 0 /\ WP!Cardinality(WP!unmet(c)) \in Nat
      BY <2>1, <2>2, ExecutionAssumptions, WP!UnmetFinite
    <2>4. status[c] = "PENDING" => remaining_dependencies[c] = WP!Cardinality(WP!unmet(c))
      BY <1>1, <2>1 DEF WP!DependencyCount
    <2>5. QED
      BY <2>1, <2>3, <2>4
  <1>7. QED
    BY <1>3, <1>4, <1>5, <1>6, Columns

\* A statement that writes rows and moves the session on, whatever it notes.
LEMMA NotesAndWrites ==
    ASSUME RInv, NEW s \in Session, pc[s] # "idle", NEW place \in Statement, goto(s, place),
           RowsTyped', WritesOwn(s), UNCHANGED <<committed, job, reported, completed_meanwhile>>,
           overlapped' \in [Task -> SUBSET Task],
           NEW rows \in Seq(Task), todo' = [todo EXCEPT ![s] = rows],
           place \notin {"update_child", "cancel_row"} => rows = << >>,
           place = "update_child" => ToSet(rows) \subseteq children(job[s]),
           NEW freed \in SUBSET Task, found' = [found EXCEPT ![s] = freed],
           \A c \in Task : c \in freed <=>
              /\ lock'[c] = s /\ c # job[s]
              /\ working'.task[c].status = "PENDING"
              /\ working'.task[c].remaining_dependencies = 0,
           Standing(s)'
    PROVE  RInv'
  <1>1. TypeOK /\ Carrying(s)
    BY DEF RInv
  <1>2. pc' = [pc EXCEPT ![s] = place] /\ place # "idle"
    BY DEF goto, Statement
  <1>3. pc'[s] = place /\ todo'[s] = rows /\ job'[s] = job[s] /\ found'[s] = freed
    BY <1>1, <1>2 DEF TypeOK
  <1>4. SessionsTyped'
    BY <1>1, <1>2 DEF TypeOK, SessionsTyped
  <1>5. Moves(s)
    BY <1>1, <1>2 DEF TypeOK, Moves, WritesOwn
  <1>6. Carrying(s)'
    <2>1. freed = {c \in Task : /\ lock'[c] = s /\ c # job'[s]
                                /\ working'.task[c].status = "PENDING"
                                /\ working'.task[c].remaining_dependencies = 0}
      BY <1>3
    <2>2. QED
      BY <1>1, <1>2, <1>3, <2>1 DEF Carrying
  <1>7. QED
    BY <1>4, <1>5, <1>6, TypeParts, QuietStep

\* The same of a statement that notes nothing.
LEMMA WritesOn ==
    ASSUME RInv, NEW s \in Session, pc[s] # "idle", NEW place \in Statement, goto(s, place),
           RowsTyped', WritesOwn(s), UNCHANGED <<committed, job, reported, history>>,
           NEW rows \in Seq(Task), todo' = [todo EXCEPT ![s] = rows],
           place \notin {"update_child", "cancel_row"} => rows = << >>,
           place = "update_child" => ToSet(rows) \subseteq children(job[s]),
           NEW freed \in SUBSET Task, found' = [found EXCEPT ![s] = freed],
           \A c \in Task : c \in freed <=>
              /\ lock'[c] = s /\ c # job[s]
              /\ working'.task[c].status = "PENDING"
              /\ working'.task[c].remaining_dependencies = 0,
           Standing(s)'
    PROVE  RInv'
  <1>1. /\ UNCHANGED <<committed, job, reported, completed_meanwhile>>
        /\ overlapped' \in [Task -> SUBSET Task]
    BY DEF RInv, TypeOK, history
  <1>2. QED
    BY <1>1, NotesAndWrites

\* the UPDATE that completes the task,
LEMMA CompleteTaskKeeps ==
    ASSUME RInv, NEW s \in Session, NEW out \in Output, complete_task(s, out)
    PROVE  RInv'
  <1> DEFINE t == job[s]
  <1>1. TypeOK /\ Carrying(s) /\ pc[s] = "executing"
    BY DEF RInv, complete_task
  <1>2. /\ t \in Task /\ t \in Rows /\ todo[s] = << >> /\ found[s] = {}
        /\ \A r \in Rows : lock[r] # s
        /\ \A c \in Task : lock[c] # s
        /\ \A w \in Workflow : lock[w] # s
    BY <1>1, JobIsReady, AtRest DEF Resting, Rows
  <1>3. task_row(s, t) = committed.task[t] /\ committed.task[t] \in TaskRow
    BY <1>1, <1>2, ReadRow, RowTypes
  <1>4. UNCHANGED <<committed, job, found, reported, completed_meanwhile>>
    BY DEF complete_task
  <1> HIDE DEF t
  <1>5. CASE /\ committed.task[t].status = "RUNNING"
             /\ overlapped' = [overlapped EXCEPT ![t] = {}]
             /\ write_task(s, t, completed(committed.task[t], out))
             /\ \E ids \in child_task_ids(t) : todo' = [todo EXCEPT ![s] = ids]
             /\ goto(s, "update_child")
    <2>1. PICK ids \in child_task_ids(t) : todo' = [todo EXCEPT ![s] = ids]
      BY <1>5
    <2>2. /\ ids \in Seq(Task) /\ ToSet(ids) = children(t) /\ in_order(ids)
      <3>1. children(t) \in SUBSET Task /\ ids \in SetToSeqs(children(t)) /\ in_order(ids)
        BY DEF children, child_task_ids
      <3>2. QED
        BY <3>1, ListOf
    <2>3. completed(committed.task[t], out) \in TaskRow
      BY <1>3, RowFields
    <2>4. RowsTyped' /\ WritesOwn(s)
      BY <1>1, <1>2, <1>4, <1>5, <2>3, TaskWritten
    <2>5. /\ working'.task[t] = completed(committed.task[t], out)
          /\ lock'[t] = s
          /\ \A r \in Rows : r # t => lock'[r] # s
      BY <1>1, <1>2, <1>5, <2>3, WroteTask
    <2>6. pc'[s] = "update_child" /\ job'[s] = t /\ todo'[s] = ids
      BY <1>1, <1>4, <1>5, <2>1 DEF goto, TypeOK, t
    <2>7. Completing(s)'
      <3>1. \A c \in children(t) : c \in ToSet(todo'[s])
        BY <2>2, <2>6
      <3>2. QED
        BY <1>4, <1>5, <2>5, <2>6, <3>1 DEF Completing, Rows
    <2>8. NoWorkflowLock(s)'
      BY <1>2, <2>5, RowAssumption DEF NoWorkflowLock, Rows
    <2>9. Standing(s)'
      BY <2>2, <2>6, <2>7, <2>8 DEF Standing, Resting
    <2>10. found' = [found EXCEPT ![s] = {}]
      BY <1>1, <1>2, <1>4 DEF TypeOK
    <2>11. \A c \in Task : c \in {} <=> /\ lock'[c] = s /\ c # job[s]
                                          /\ working'.task[c].status = "PENDING"
                                          /\ working'.task[c].remaining_dependencies = 0
      BY <2>5 DEF Rows, t
    <2>12. /\ UNCHANGED <<committed, job, reported, completed_meanwhile>>
           /\ overlapped' \in [Task -> SUBSET Task]
           /\ ToSet(ids) \subseteq children(job[s])
           /\ goto(s, "update_child") /\ "update_child" \in Statement
           /\ {} \in SUBSET Task /\ pc[s] # "idle"
      BY <1>1, <1>4, <1>5, <2>2 DEF Statement, TypeOK, t
    <2>13. QED
      BY <2>1, <2>2, <2>4, <2>9, <2>10, <2>11, <2>12, NotesAndWrites
  <1>6. CASE write_nothing /\ goto(s, "commit") /\ UNCHANGED <<todo, overlapped>>
    <2>1. todo' = [todo EXCEPT ![s] = << >>] /\ pc'[s] = "commit"
      BY <1>1, <1>2, <1>6 DEF TypeOK, goto
    <2>2. NoLocks(s)'
      BY <1>2, <1>6 DEF NoLocks, write_nothing
    <2>3. Standing(s)'
      BY <2>1, <2>2 DEF Standing, Resting
    <2>4. QED
      BY <1>1, <1>4, <1>6, <2>1, <2>3, GoesOn, EmptyList DEF Statement, write_nothing, history
  <1>7. QED
    BY <1>3, <1>5, <1>6 DEF complete_task, complete_task_matches, completed, t

\* the UPDATE of the next child,
LEMMA UpdateChildKeeps ==
    ASSUME RInv, NEW s \in Session, update_child(s)
    PROVE  RInv'
  <1> DEFINE t == job[s]
             c == Head(todo[s])
             row == committed.task[c]
  <1>1. /\ TypeOK /\ Carrying(s) /\ pc[s] = "update_child" /\ todo[s] # << >>
        /\ Completing(s) /\ NoWorkflowLock(s) /\ in_order(todo[s])
    BY DEF RInv, update_child, Standing
  <1>2. /\ t \in Task /\ t \in Rows /\ t \notin children(t)
        /\ committed.task[t].status = "RUNNING" /\ lock[t] = s
    BY <1>1, JobIsReady DEF Completing, Rows
  <1>3. /\ todo[s] \in Seq(Task) /\ c \in Task /\ c \in ToSet(todo[s])
        /\ Tail(todo[s]) \in Seq(Task) /\ in_order(Tail(todo[s]))
        /\ ToSet(todo[s]) = ToSet(Tail(todo[s])) \cup {c}
        /\ \A d \in ToSet(Tail(todo[s])) : before(c, d)
    <2>1. todo[s] \in Seq(Task)
      BY <1>1 DEF TypeOK
    <2>2. QED
      BY <1>1, <2>1, HeadAndTail
  <1>4. c \in children(t) /\ c # t /\ ToSet(Tail(todo[s])) \subseteq children(t)
    BY <1>1, <1>2, <1>3 DEF Carrying
  <1>5. lock[c] # s
    BY <1>1, <1>3, <1>4, BeforeIsStrict DEF Completing
  <1>6. task_row(s, c) = row /\ row \in TaskRow
    BY <1>1, <1>3, <1>5, ReadRow, RowTypes
  <1>7. /\ goto(s, "update_child")
        /\ UNCHANGED <<committed, pc, job, reported, history>>
        /\ todo' = [todo EXCEPT ![s] = Tail(todo[s])]
        /\ pc'[s] = "update_child" /\ job'[s] = t /\ todo'[s] = Tail(todo[s])
    BY <1>1 DEF update_child, goto, TypeOK
  <1>8. \A d \in children(t) : d \in Task
    BY DEF children
  <1>9. found[s] \in SUBSET Task /\
        \A d \in Task : d \in found[s] <=>
              /\ lock[d] = s /\ d # job[s]
              /\ working.task[d].status = "PENDING"
              /\ working.task[d].remaining_dependencies = 0
    BY <1>1 DEF Carrying, TypeOK
  <1>10. "update_child" \in Statement /\ pc[s] # "idle"
    BY <1>1 DEF Statement
  <1> HIDE DEF t, c, row
  <1>11. CASE /\ row.status = "PENDING" /\ row.remaining_dependencies > 0
              /\ write_task(s, c, released_once(row))
              /\ found' = IF row.remaining_dependencies - 1 = 0
                          THEN [found EXCEPT ![s] = @ \cup {c}] ELSE found
    <2>1. /\ released_once(row) \in TaskRow
          /\ released_once(row).status = "PENDING"
          /\ released_once(row).remaining_dependencies = row.remaining_dependencies - 1
      BY <1>6, <1>11, RowFields
    <2>2. RowsTyped' /\ WritesOwn(s)
      BY <1>1, <1>3, <1>7, <1>11, <2>1, TaskWritten
    <2>3. /\ working'.task[c] = released_once(row) /\ working'.wf = working.wf
          /\ \A u \in Task : u # c => working'.task[u] = working.task[u]
          /\ lock'[c] = s
          /\ \A r \in Rows : r # c => lock'[r] = lock[r]
          /\ \A u \in Task : u # c => lock'[u] = lock[u]
      BY <1>1, <1>3, <1>11, <2>1, WroteTask DEF Rows
    <2>4. Completing(s)'
      <3>1. /\ lock'[t] = s /\ committed'.task[t].status = "RUNNING"
            /\ \E out \in Output : working'.task[t] = completed(committed'.task[t], out)
        BY <1>1, <1>2, <1>4, <1>7, <2>3 DEF Completing, t
      <3>2. ASSUME NEW d \in Task, lock'[d] = s, d # t
            PROVE  /\ d \in children(t)
                   /\ committed'.task[d].status = "PENDING"
                   /\ committed'.task[d].remaining_dependencies > 0
                   /\ working'.task[d] = released_once(committed'.task[d])
                   /\ \A e \in ToSet(Tail(todo[s])) : before(d, e)
        <4>1. CASE d = c
          BY <4>1, <1>3, <1>4, <1>7, <1>11, <2>3 DEF row
        <4>2. CASE d # c
          BY <4>2, <3>2, <1>1, <1>3, <1>7, <2>3 DEF Completing, t
        <4>3. QED
          BY <4>1, <4>2
      <3>3. \A d \in children(t) : \/ lock'[d] = s
                                   \/ d \in ToSet(Tail(todo[s]))
                                   \/ committed'.task[d].status \notin {"NONE", "PENDING"}
        BY <1>1, <1>3, <1>7, <1>8, <2>3 DEF Completing, t
      <3>4. QED
        BY <3>1, <3>2, <3>3, <1>7 DEF Completing
    <2>5. NoWorkflowLock(s)'
      BY <1>1, <1>3, <2>3, RowAssumption DEF NoWorkflowLock, Rows
    <2>6. Standing(s)'
      BY <1>3, <1>7, <2>4, <2>5 DEF Standing, Resting
    <2> DEFINE freed == IF row.remaining_dependencies - 1 = 0 THEN found[s] \cup {c} ELSE found[s]
    <2>7. freed \in SUBSET Task /\ found' = [found EXCEPT ![s] = freed]
      BY <1>1, <1>3, <1>9, <1>11 DEF TypeOK
    <2>8. \A d \in Task : d \in freed <=>
              /\ lock'[d] = s /\ d # job[s]
              /\ working'.task[d].status = "PENDING"
              /\ working'.task[d].remaining_dependencies = 0
      <3>1. ASSUME NEW d \in Task, d # c
            PROVE  d \in freed <=>
                     /\ lock'[d] = s /\ d # job[s]
                     /\ working'.task[d].status = "PENDING"
                     /\ working'.task[d].remaining_dependencies = 0
        BY <3>1, <1>9, <2>3
      <3>2. c \notin found[s]
        BY <1>3, <1>5, <1>9
      <3>3. c \in freed <=> row.remaining_dependencies - 1 = 0
        BY <3>2
      <3>4. QED
        BY <3>1, <3>3, <1>4, <2>1, <2>3 DEF t
    <2> HIDE DEF freed
    <2>9. ToSet(Tail(todo[s])) \subseteq children(job[s])
      BY <1>4 DEF t
    <2>10. QED
      BY <1>3, <1>7, <1>10, <2>2, <2>6, <2>7, <2>8, <2>9, WritesOn
  <1>12. CASE ~(row.status = "PENDING" /\ row.remaining_dependencies > 0)
              /\ write_nothing /\ UNCHANGED found
    <2>1. UNCHANGED <<working, lock>>
      BY <1>12 DEF write_nothing
    <2>2. committed.task[c].status \notin {"NONE", "PENDING"}
      BY <1>2, <1>4, <1>12, RunningTask DEF Active, row
    <2>3. Completing(s)'
      <3>1. \A d \in children(t) : \/ lock'[d] = s
                                   \/ d \in ToSet(Tail(todo[s]))
                                   \/ committed'.task[d].status \notin {"NONE", "PENDING"}
        BY <1>1, <1>3, <1>7, <1>8, <2>1, <2>2 DEF Completing, t
      <3>2. QED
        BY <3>1, <1>1, <1>3, <1>7, <2>1 DEF Completing, t
    <2>4. NoWorkflowLock(s)'
      BY <1>1, <2>1 DEF NoWorkflowLock
    <2>5. Standing(s)'
      BY <1>3, <1>7, <2>3, <2>4 DEF Standing, Resting
    <2>6. ToSet(Tail(todo[s])) \subseteq children(job[s])
      BY <1>4 DEF t
    <2>7. QED
      BY <1>3, <1>7, <1>10, <1>12, <2>1, <2>5, <2>6, GoesOn
  <1>13. QED
    BY <1>6, <1>11, <1>12 DEF update_child, child_matches, released_once, c, row

\* the end of the loop over the children,
LEMMA ChildrenUpdatedKeeps ==
    ASSUME RInv, NEW s \in Session, children_updated(s)
    PROVE  RInv'
  <1>1. /\ TypeOK /\ pc[s] = "update_child" /\ todo[s] = << >>
        /\ Completing(s) /\ NoWorkflowLock(s)
    BY DEF RInv, children_updated, Standing
  <1>2. /\ UNCHANGED <<committed, working, lock, job, todo, found, reported, history>>
        /\ goto(s, "complete_workflow") /\ pc'[s] = "complete_workflow"
        /\ todo' = [todo EXCEPT ![s] = << >>]
    BY <1>1 DEF children_updated, goto, TypeOK
  <1>3. Completing(s)' /\ NoWorkflowLock(s)'
    BY <1>1, <1>2 DEF Completing, NoWorkflowLock
  <1>4. Standing(s)'
    BY <1>2, <1>3 DEF Standing, Resting
  <1>5. QED
    BY <1>1, <1>2, <1>4, GoesOn, EmptyList DEF Statement

\* What _complete_workflow_if_finished reads: the workflow's row as committed,
\* its own task COMPLETED, and the other tasks as COMPLETED as they are committed.
LEMMA CheckReads ==
    ASSUME RInv, NEW s \in Session, pc[s] = "complete_workflow"
    PROVE  LET t == job[s]
               w == workflow_of[t] IN
           /\ t \in Task /\ w \in Workflow /\ t \in TasksOf(w)
           /\ committed.task[t].status = "RUNNING" /\ lock[t] = s
           /\ lock[w] # s /\ workflow_row(s, w) = committed.wf[w]
           /\ committed.wf[w] = "RUNNING"
           /\ \A u \in TasksOf(w) : u # t =>
                 (task_row(s, u).status = "COMPLETED" <=> committed.task[u].status = "COMPLETED")
           /\ task_row(s, t).status = "COMPLETED"
  <1> DEFINE t == job[s]
             w == workflow_of[t]
  <1>1. TypeOK /\ Completing(s) /\ NoWorkflowLock(s)
    BY DEF RInv, Standing
  <1>2. /\ t \in Task /\ w \in Workflow /\ t \in TasksOf(w)
        /\ committed.task[t].status = "RUNNING" /\ lock[t] = s
    BY <1>1, JobIsReady DEF Completing
  <1>4. lock[w] # s /\ workflow_row(s, w) = committed.wf[w]
    BY <1>1, <1>2 DEF NoWorkflowLock, workflow_row
  <1>5. committed.wf[w] = "RUNNING"
    BY <1>2, RunningTask
  <1>6. \A u \in TasksOf(w) : u \in Task
    BY DEF TasksOf
  \* What the NOT EXISTS reads of another task is COMPLETED only if committed so.
  <1>7. \A u \in TasksOf(w) : u # t =>
           (task_row(s, u).status = "COMPLETED" <=> committed.task[u].status = "COMPLETED")
    <2>1. SUFFICES ASSUME NEW u \in TasksOf(w), u # t
                   PROVE  task_row(s, u).status = "COMPLETED"
                             <=> committed.task[u].status = "COMPLETED"
      OBVIOUS
    <2>2. u \in Task /\ committed.task[u] \in TaskRow
      BY <1>1, <1>6, RowTypes
    <2>3. CASE lock[u] = s
      <3>1. /\ committed.task[u].status = "PENDING"
            /\ committed.task[u].remaining_dependencies > 0
            /\ working.task[u] = released_once(committed.task[u])
        BY <1>1, <2>1, <2>2, <2>3 DEF Completing
      <3>2. task_row(s, u).status = "PENDING"
        BY <1>1, <2>2, <2>3, <3>1, RowFields, ReadRow
      <3>3. QED
        BY <3>1, <3>2
    <2>4. CASE lock[u] # s
      BY <1>1, <2>2, <2>4, ReadRow
    <2>5. QED
      BY <2>3, <2>4
  <1>8. task_row(s, t).status = "COMPLETED"
    <2>1. PICK out \in Output : working.task[t] = completed(committed.task[t], out)
      BY <1>1 DEF Completing
    <2>2. committed.task[t] \in TaskRow
      BY <1>1, <1>2, RowTypes
    <2>3. completed(committed.task[t], out).status = "COMPLETED"
      BY <2>2, RowFields
    <2>4. task_row(s, t) = working.task[t]
      BY <1>1, <1>2, ReadRow
    <2>5. QED
      BY <2>1, <2>3, <2>4
  <1>9. QED
    BY <1>2, <1>4, <1>5, <1>7, <1>8

\* the UPDATE that completes the workflow unless a task is unfinished,
LEMMA CompleteWorkflowKeeps ==
    ASSUME RInv, NEW s \in Session, complete_workflow_if_finished(s)
    PROVE  RInv'
  <1> DEFINE t == job[s]
             w == workflow_of[t]
  <1>1. /\ TypeOK /\ Carrying(s) /\ pc[s] = "complete_workflow" /\ todo[s] = << >>
        /\ Completing(s) /\ NoWorkflowLock(s)
    BY DEF RInv, complete_workflow_if_finished, Standing, Carrying
  <1>2. /\ t \in Task /\ w \in Workflow /\ t \in TasksOf(w) /\ pc[s] # "idle"
        /\ committed.task[t].status = "RUNNING" /\ lock[t] = s
    BY <1>1, JobIsReady DEF Completing
  <1>3. /\ goto(s, "commit") /\ pc'[s] = "commit" /\ job'[s] = t /\ "commit" \in Statement
        /\ UNCHANGED <<committed, job, todo, found, reported, history>>
        /\ todo' = [todo EXCEPT ![s] = << >>] /\ found' = [found EXCEPT ![s] = found[s]]
    BY <1>1 DEF complete_workflow_if_finished, goto, TypeOK, Statement
  <1>4. lock[w] # s /\ workflow_row(s, w) = committed.wf[w] /\ committed.wf[w] = "RUNNING"
    BY <1>1, CheckReads
  <1>6. \A u \in TasksOf(w) : u \in Task
    BY DEF TasksOf
  <1>7. \A u \in TasksOf(w) : u # t =>
           (task_row(s, u).status = "COMPLETED" <=> committed.task[u].status = "COMPLETED")
    BY <1>1, CheckReads
  <1>8. task_row(s, t).status = "COMPLETED"
    BY <1>1, CheckReads
  <1> HIDE DEF t, w
  <1>9. CASE workflow_matches(s, w) /\ write_workflow(s, w, "COMPLETED")
    <2>1. RowsTyped' /\ WritesOwn(s)
      BY <1>1, <1>2, <1>3, <1>9, WorkflowWritten
    <2>2. /\ working'.task = working.task /\ working'.wf[w] = "COMPLETED"
          /\ lock'[w] = s
          /\ \A r \in Rows : r # w => lock'[r] = lock[r]
          /\ \A u \in Task : lock'[u] = lock[u]
      BY <1>1, <1>2, <1>9, WroteWorkflow, RowAssumption DEF Rows
    <2>3. Completing(s)'
      BY <1>1, <1>2, <1>3, <2>2 DEF Completing, t, children
    <2>4. Judged(s)'
      <3>1. \A u \in TasksOf(w) : u # t => committed'.task[u].status = "COMPLETED"
        BY <1>3, <1>7, <1>9 DEF workflow_matches
      <3>2. \A v \in Workflow : lock'[v] = s => v = w
        BY <1>1, <2>2 DEF NoWorkflowLock, Rows
      <3>3. QED
        BY <3>1, <3>2, <1>3, <1>4, <2>2 DEF Judged, w
    <2>5. Standing(s)'
      BY <1>3, <2>3, <2>4 DEF Standing, Resting
    <2>6. found[s] \in SUBSET Task /\
          \A d \in Task : d \in found[s] <=>
              /\ lock'[d] = s /\ d # job[s]
              /\ working'.task[d].status = "PENDING"
              /\ working'.task[d].remaining_dependencies = 0
      BY <1>1, <2>2 DEF Carrying, TypeOK
    <2>7. << >> \in Seq(Task) /\ ToSet(<< >>) \subseteq children(job[s])
      BY EmptyList
    <2>8. PICK freed \in SUBSET Task : freed = found[s]
      BY <2>6
    <2>9. /\ goto(s, "commit") /\ "commit" \in Statement
          /\ UNCHANGED <<committed, job, reported, history>>
          /\ todo' = [todo EXCEPT ![s] = << >>] /\ found' = [found EXCEPT ![s] = freed]
          /\ \A d \in Task : d \in freed <=>
                /\ lock'[d] = s /\ d # job[s]
                /\ working'.task[d].status = "PENDING"
                /\ working'.task[d].remaining_dependencies = 0
      BY <1>3, <2>6, <2>8
    <2>10. QED
      BY <1>2, <2>1, <2>5, <2>7, <2>9, WritesOn
  <1>10. CASE ~workflow_matches(s, w) /\ write_nothing
    <2>1. UNCHANGED <<working, lock>>
      BY <1>10 DEF write_nothing
    <2>2. Completing(s)'
      BY <1>1, <1>3, <2>1 DEF Completing
    <2>3. \E u \in TasksOf(w) : u # t /\ committed.task[u].status # "COMPLETED"
      BY <1>4, <1>7, <1>8, <1>10 DEF workflow_matches
    <2>4. Judged(s)'
      BY <1>1, <1>3, <1>4, <2>1, <2>3 DEF Judged, NoWorkflowLock, t, w
    <2>5. Standing(s)'
      BY <1>3, <2>2, <2>4 DEF Standing, Resting
    <2>6. QED
      BY <1>2, <1>3, <2>1, <2>5, GoesOn, EmptyList
  <1>11. QED
    BY <1>9, <1>10 DEF complete_workflow_if_finished, t, w

-----------------------------------------------------------------------------
(***************************************************************************)
(* Retrying and failing a task.                                            *)
(***************************************************************************)

\* the UPDATE that takes a try away,
LEMMA RetryTaskKeeps ==
    ASSUME RInv, NEW s \in Session, retry_task(s)
    PROVE  RInv'
  <1> DEFINE t == job[s]
             row == committed.task[t]
  <1>1. TypeOK /\ Carrying(s) /\ pc[s] = "executing"
    BY DEF RInv, retry_task
  <1>2. /\ t \in Task /\ t \in Rows /\ todo[s] = << >> /\ found[s] = {}
        /\ \A r \in Rows : lock[r] # s
        /\ \A c \in Task : lock[c] # s
        /\ \A w \in Workflow : lock[w] # s
    BY <1>1, JobIsReady, AtRest DEF Resting, Rows
  <1>3. task_row(s, t) = row /\ row \in TaskRow
    BY <1>1, <1>2, ReadRow, RowTypes
  <1>4. /\ UNCHANGED <<committed, job, reported, history>>
        /\ UNCHANGED <<todo, found>>
        /\ todo' = [todo EXCEPT ![s] = << >>] /\ found' = [found EXCEPT ![s] = {}]
        /\ job'[s] = t
    BY <1>1, <1>2 DEF retry_task, TypeOK
  <1>5. << >> \in Seq(Task) /\ ToSet(<< >>) \subseteq children(job[s]) /\ {} \in SUBSET Task
    BY EmptyList
  <1> HIDE DEF t, row
  <1>6. ASSUME NEW state \in {"RUNNING", "FAILED"}, row.status = "RUNNING", row.remaining_tries > 0,
               write_task(s, t, tried(row, state))
        PROVE  /\ RowsTyped' /\ WritesOwn(s)
               /\ working'.task[t] = tried(row, state)
               /\ \A r \in Rows : lock'[r] = s <=> r = t
               /\ \A c \in Task : lock'[c] = s <=> c = t
               /\ \A d \in Task : d \in {} <=>
                    /\ lock'[d] = s /\ d # job[s]
                    /\ working'.task[d].status = "PENDING"
                    /\ working'.task[d].remaining_dependencies = 0
    <2>1. tried(row, state) \in TaskRow
      BY <1>3, <1>6, RowFields
    <2>2. RowsTyped' /\ WritesOwn(s)
      BY <1>1, <1>2, <1>4, <1>6, <2>1, TaskWritten
    <2>3. /\ working'.task[t] = tried(row, state) /\ lock'[t] = s
          /\ \A r \in Rows : r # t => lock'[r] = lock[r]
      BY <1>1, <1>2, <1>6, <2>1, WroteTask
    <2>4. /\ \A r \in Rows : lock'[r] = s <=> r = t
          /\ \A c \in Task : lock'[c] = s <=> c = t
      BY <1>2, <2>3 DEF Rows
    <2>5. QED
      BY <2>2, <2>3, <2>4 DEF t
  <1>7. CASE /\ row.status = "RUNNING" /\ row.remaining_tries > 1
             /\ write_task(s, t, tried(row, "RUNNING")) /\ goto(s, "commit")
    <2>1. row.remaining_tries > 0
      BY <1>3, <1>7, RowFields
    <2>2. /\ RowsTyped' /\ WritesOwn(s)
          /\ working'.task[t] = tried(row, "RUNNING")
          /\ \A r \in Rows : lock'[r] = s <=> r = t
          /\ \A d \in Task : d \in {} <=>
                    /\ lock'[d] = s /\ d # job[s]
                    /\ working'.task[d].status = "PENDING"
                    /\ working'.task[d].remaining_dependencies = 0
      BY <1>6, <1>7, <2>1
    <2>3. pc'[s] = "commit"
      BY <1>1, <1>7 DEF goto, TypeOK
    <2>4. Retrying(s)'
      BY <1>4, <1>7, <2>2 DEF Retrying, row
    <2>5. Standing(s)'
      BY <2>3, <2>4 DEF Standing, Resting
    <2>6. goto(s, "commit") /\ "commit" \in Statement /\ pc[s] # "idle"
      BY <1>1, <1>7 DEF Statement
    <2>7. QED
      BY <1>4, <1>5, <2>2, <2>5, <2>6, WritesOn
  <1>8. CASE /\ row.status = "RUNNING" /\ row.remaining_tries > 0 /\ ~(row.remaining_tries > 1)
             /\ write_task(s, t, tried(row, "FAILED")) /\ goto(s, "fail_workflow")
    <2>1. row.remaining_tries = 1
      BY <1>3, <1>8, RowFields
    <2>2. /\ RowsTyped' /\ WritesOwn(s)
          /\ working'.task[t] = tried(row, "FAILED")
          /\ \A r \in Rows : lock'[r] = s <=> r = t
          /\ \A c \in Task : lock'[c] = s <=> c = t
          /\ \A d \in Task : d \in {} <=>
                    /\ lock'[d] = s /\ d # job[s]
                    /\ working'.task[d].status = "PENDING"
                    /\ working'.task[d].remaining_dependencies = 0
      BY <1>6, <1>8
    <2>3. pc'[s] = "fail_workflow"
      BY <1>1, <1>8 DEF goto, TypeOK
    <2>4. Failing(s)'
      BY <1>2, <1>4, <1>8, <2>1, <2>2 DEF Failing, row
    <2>5. NoWorkflowLock(s)'
      BY <1>2, <2>2, RowAssumption DEF NoWorkflowLock, Rows
    <2>6. Standing(s)'
      BY <2>3, <2>4, <2>5 DEF Standing, Resting
    <2>7. goto(s, "fail_workflow") /\ "fail_workflow" \in Statement /\ pc[s] # "idle"
          /\ "fail_workflow" \notin {"update_child", "cancel_row"}
      BY <1>1, <1>8 DEF Statement
    <2>8. QED
      BY <1>4, <1>5, <2>2, <2>6, <2>7, WritesOn
  <1>9. CASE write_nothing /\ goto(s, "commit")
    <2>1. UNCHANGED <<working, lock>> /\ pc'[s] = "commit"
      BY <1>1, <1>9 DEF write_nothing, goto, TypeOK
    <2>2. NoLocks(s)'
      BY <1>2, <2>1 DEF NoLocks
    <2>3. Standing(s)'
      BY <2>1, <2>2 DEF Standing, Resting
    <2>4. goto(s, "commit") /\ "commit" \in Statement /\ pc[s] # "idle"
      BY <1>1, <1>9 DEF Statement
    <2>5. QED
      BY <1>4, <1>5, <2>1, <2>3, <2>4, GoesOn
  <1>10. QED
    BY <1>3, <1>7, <1>8, <1>9 DEF retry_task, retry_matches, tried, t, row

\* the UPDATE that fails the workflow,
LEMMA FailWorkflowKeeps ==
    ASSUME RInv, NEW s \in Session, fail_workflow(s)
    PROVE  RInv'
  <1> DEFINE t == job[s]
             w == workflow_of[t]
  <1>1. /\ TypeOK /\ Carrying(s) /\ pc[s] = "fail_workflow" /\ todo[s] = << >>
        /\ Failing(s) /\ NoWorkflowLock(s) /\ "cancel_scan" \in Statement /\ pc[s] # "idle"
    BY DEF RInv, fail_workflow, Standing, Carrying, Statement
  <1>2. t \in Task /\ w \in Workflow /\ committed.task[t].status = "RUNNING"
    BY <1>1, JobIsReady DEF Failing
  <1>3. lock[w] # s /\ workflow_row(s, w) = "RUNNING"
    BY <1>1, <1>2, RunningTask DEF NoWorkflowLock, workflow_row
  <1>4. write_workflow(s, w, "FAILED") /\ goto(s, "cancel_scan")
    BY <1>3 DEF fail_workflow
  <1>5. /\ pc'[s] = "cancel_scan" /\ job'[s] = t /\ todo'[s] = todo[s]
        /\ UNCHANGED <<committed, job, reported, history>>
        /\ todo' = [todo EXCEPT ![s] = << >>]
    BY <1>1, <1>4 DEF fail_workflow, goto, TypeOK
  <1>6. PICK freed \in SUBSET Task :
          /\ found' = [found EXCEPT ![s] = freed]
          /\ \A d \in Task : d \in freed <=>
                /\ lock[d] = s /\ d # job[s]
                /\ working.task[d].status = "PENDING"
                /\ working.task[d].remaining_dependencies = 0
    <2>1. found[s] \in SUBSET Task /\ found' = [found EXCEPT ![s] = found[s]]
      BY <1>1 DEF fail_workflow, TypeOK
    <2>2. QED
      BY <1>1, <2>1 DEF Carrying
  <1> HIDE DEF t, w
  <1>7. RowsTyped' /\ WritesOwn(s)
    BY <1>1, <1>2, <1>4, <1>5, WorkflowWritten
  <1>8. /\ working'.task = working.task /\ working'.wf[w] = "FAILED"
        /\ lock'[w] = s
        /\ \A r \in Rows : r # w => lock'[r] = lock[r]
        /\ \A u \in Task : lock'[u] = lock[u]
    BY <1>1, <1>2, <1>4, WroteWorkflow, RowAssumption DEF Rows
  <1>9. Failing(s)'
    BY <1>1, <1>2, <1>5, <1>8 DEF Failing, t
  <1>10. Cancelling(s)'
    <2>1. \A v \in Workflow : lock'[v] = s <=> v = w
      BY <1>1, <1>8 DEF NoWorkflowLock, Rows
    <2>2. committed'.wf[w] = "RUNNING"
      BY <1>2, <1>5, RunningTask DEF w
    <2>3. QED
      BY <1>5, <1>8, <1>9, <2>1, <2>2 DEF Cancelling, w
  <1>11. Standing(s)'
    BY <1>5, <1>10 DEF Standing, Resting
  <1>12. \A d \in Task : d \in freed <=>
                /\ lock'[d] = s /\ d # job[s]
                /\ working'.task[d].status = "PENDING"
                /\ working'.task[d].remaining_dependencies = 0
    BY <1>6, <1>8
  <1>13. << >> \in Seq(Task) /\ ToSet(<< >>) \subseteq children(job[s])
    BY EmptyList
  <1>14. QED
    BY <1>1, <1>4, <1>5, <1>6, <1>7, <1>11, <1>12, <1>13, WritesOn

\* the choice of the rows to cancel,
LEMMA CancelScanKeeps ==
    ASSUME RInv, NEW s \in Session, cancel_scan(s)
    PROVE  RInv'
  <1> DEFINE t == job[s]
             w == workflow_of[t]
             rows == {u \in TasksOf(w) : task_row(s, u).status \in Active}
  <1>1. /\ TypeOK /\ Carrying(s) /\ pc[s] = "cancel_scan" /\ todo[s] = << >>
        /\ Cancelling(s) /\ Failing(s) /\ "cancel_row" \in Statement /\ pc[s] # "idle"
    BY DEF RInv, cancel_scan, Standing, Carrying, Statement, Cancelling
  <1>2. /\ t \in Task /\ w \in Workflow /\ committed.task[t].status = "RUNNING"
        /\ lock[t] = s
    BY <1>1, JobIsReady DEF Failing
  <1>3. \A u \in TasksOf(w) : u \in Task
    BY DEF TasksOf
  <1>4. PICK order \in SetToSeqs(rows) : todo' = [todo EXCEPT ![s] = order]
    BY DEF cancel_scan
  <1>5. order \in Seq(Task) /\ ToSet(order) = rows /\ IsInjective(order)
    <2>1. rows \in SUBSET Task
      BY <1>3
    <2> HIDE DEF rows
    <2>2. QED
      BY <2>1, ListOf
  <1>6. /\ goto(s, "cancel_row") /\ pc'[s] = "cancel_row" /\ job'[s] = t /\ todo'[s] = order
        /\ UNCHANGED <<committed, working, lock, job, found, reported, history>>
    BY <1>1, <1>4, <1>5 DEF cancel_scan, goto, TypeOK
  \* A row of its own is not cancelled again.
  <1>7. \A u \in Task : lock[u] = s => u \notin rows
    <2>1. SUFFICES ASSUME NEW u \in Task, lock[u] = s PROVE task_row(s, u).status \notin Active
      OBVIOUS
    <2>2. task_row(s, u) = working.task[u] /\ committed.task[u] \in TaskRow
      BY <1>1, <2>1, ReadRow, RowTypes
    <2>3. CASE u = t
      <3>1. working.task[u] = tried(committed.task[u], "FAILED")
            /\ committed.task[u].remaining_tries > 0
        BY <1>1, <2>3 DEF Failing
      <3>2. QED
        BY <3>1, <2>2, RowFields DEF Active
    <2>4. CASE u # t
      <3>1. working.task[u] = cancelled(committed.task[u])
        BY <1>1, <2>1, <2>4 DEF Failing
      <3>2. QED
        BY <3>1, <2>2, RowFields DEF Active
    <2>5. QED
      BY <2>3, <2>4
  <1>8. \A u \in TasksOf(w) : u \in rows \/ lock[u] = s
                              \/ committed.task[u].status \notin Active \cup {"NONE"}
    <2>1. \A u \in TasksOf(w) : committed.task[u].status # "NONE"
      BY <1>2, RunningTask DEF Active
    <2>2. \A u \in TasksOf(w) : lock[u] # s => task_row(s, u) = committed.task[u]
      BY <1>1, <1>3, ReadRow
    <2>3. QED
      BY <2>1, <2>2
  <1>9. rows \subseteq TasksOf(w)
    OBVIOUS
  <1> HIDE DEF t, w, rows
  <1>10. Failing(s)'
    <2>1. \A u \in Task : lock'[u] = s /\ u # t =>
             /\ u \in TasksOf(w)
             /\ committed'.task[u].status \in Active
             /\ working'.task[u] = cancelled(committed'.task[u])
             /\ u \notin ToSet(order)
      BY <1>1, <1>5, <1>6, <1>7 DEF Failing, t, w
    <2>2. QED
      BY <2>1, <1>1, <1>6 DEF Failing, t, w
  <1>11. Cancelling(s)'
    BY <1>1, <1>5, <1>6, <1>8, <1>10 DEF Cancelling, t, w
  <1>12. ToSet(order) \subseteq TasksOf(w) \ {t}
    BY <1>2, <1>5, <1>7, <1>9
  <1>13. Standing(s)'
    BY <1>5, <1>6, <1>11, <1>12 DEF Standing, Resting, w
  <1>14. QED
    BY <1>1, <1>4, <1>5, <1>6, <1>13, GoesOn

\* the UPDATE of the next of these,
LEMMA CancelRowKeeps ==
    ASSUME RInv, NEW s \in Session, cancel_row(s)
    PROVE  RInv'
  <1> DEFINE t == job[s]
             w == workflow_of[t]
             c == Head(todo[s])
             row == committed.task[c]
  <1>1. /\ TypeOK /\ Carrying(s) /\ pc[s] = "cancel_row" /\ todo[s] # << >>
        /\ Cancelling(s) /\ Failing(s) /\ "cancel_row" \in Statement /\ pc[s] # "idle"
        /\ IsInjective(todo[s]) /\ ToSet(todo[s]) \subseteq TasksOf(w) \ {t}
    BY DEF RInv, cancel_row, Standing, Statement, Cancelling
  <1>2. t \in Task /\ w \in Workflow
    BY <1>1, JobIsReady
  <1>3. /\ todo[s] \in Seq(Task) /\ c \in Task /\ c \in ToSet(todo[s])
        /\ Tail(todo[s]) \in Seq(Task) /\ IsInjective(Tail(todo[s]))
        /\ ToSet(todo[s]) = ToSet(Tail(todo[s])) \cup {c}
        /\ c \notin ToSet(Tail(todo[s]))
    <2>1. todo[s] \in Seq(Task)
      BY <1>1 DEF TypeOK
    <2>2. QED
      BY <1>1, <2>1, HeadAndTail
  <1>4. c # t /\ c \in TasksOf(w)
    BY <1>1, <1>3
  <1>5. lock[c] # s
    BY <1>1, <1>3, <1>4 DEF Failing
  <1>6. task_row(s, c) = row /\ row \in TaskRow
    BY <1>1, <1>3, <1>5, ReadRow, RowTypes
  <1>7. /\ goto(s, "cancel_row")
        /\ UNCHANGED <<committed, pc, job, found, reported, history>>
        /\ UNCHANGED <<committed, job, reported, history>>
        /\ todo' = [todo EXCEPT ![s] = Tail(todo[s])]
        /\ pc'[s] = "cancel_row" /\ job'[s] = t /\ todo'[s] = Tail(todo[s])
    BY <1>1 DEF cancel_row, goto, TypeOK
  <1>8. PICK freed \in SUBSET Task :
          /\ found' = [found EXCEPT ![s] = freed]
          /\ \A d \in Task : d \in freed <=>
                /\ lock[d] = s /\ d # job[s]
                /\ working.task[d].status = "PENDING"
                /\ working.task[d].remaining_dependencies = 0
    <2>1. found[s] \in SUBSET Task /\ found' = [found EXCEPT ![s] = found[s]]
      BY <1>1, <1>7 DEF TypeOK
    <2>2. QED
      BY <1>1, <2>1 DEF Carrying
  <1>9. ToSet(Tail(todo[s])) \subseteq TasksOf(w) \ {t}
    BY <1>1, <1>3
  <1>10. \A u \in TasksOf(w) : u \in Task
    BY DEF TasksOf
  <1> HIDE DEF t, w, c, row
  <1>11. CASE row.status \in Active /\ write_task(s, c, cancelled(row))
    <2>1. cancelled(row) \in TaskRow /\ cancelled(row).status = "CANCELLED"
      BY <1>6, RowFields
    <2>2. RowsTyped' /\ WritesOwn(s)
      BY <1>1, <1>3, <1>7, <1>11, <2>1, TaskWritten
    <2>3. /\ working'.task[c] = cancelled(row) /\ working'.wf = working.wf
          /\ \A u \in Task : u # c => working'.task[u] = working.task[u]
          /\ lock'[c] = s
          /\ \A u \in Task : u # c => lock'[u] = lock[u]
          /\ \A v \in Workflow : lock'[v] = lock[v]
      BY <1>1, <1>3, <1>11, <2>1, WroteTask, RowAssumption DEF Rows
    <2>4. Failing(s)'
      <3>1. ASSUME NEW u \in Task, lock'[u] = s, u # t
            PROVE  /\ u \in TasksOf(w)
                   /\ committed'.task[u].status \in Active
                   /\ working'.task[u] = cancelled(committed'.task[u])
                   /\ u \notin ToSet(Tail(todo[s]))
        <4>1. CASE u = c
          BY <4>1, <1>3, <1>4, <1>7, <1>11, <2>3 DEF row
        <4>2. CASE u # c
          BY <4>2, <3>1, <1>1, <1>3, <1>7, <2>3 DEF Failing, t, w
        <4>3. QED
          BY <4>1, <4>2
      <3>2. /\ lock'[t] = s /\ working'.task[t] = working.task[t]
        BY <1>1, <1>2, <1>4, <2>3 DEF Failing, t
      <3>3. QED
        BY <3>1, <3>2, <1>1, <1>7 DEF Failing, t, w
    <2>5. Cancelling(s)'
      <3>1. \A u \in TasksOf(w) : \/ u = t \/ lock'[u] = s \/ u \in ToSet(Tail(todo[s]))
                                  \/ committed'.task[u].status \notin Active \cup {"NONE"}
        BY <1>1, <1>3, <1>7, <1>10, <2>3 DEF Cancelling, t, w
      <3>2. QED
        BY <3>1, <1>1, <1>7, <2>3, <2>4 DEF Cancelling, t, w
    <2>6. Standing(s)'
      BY <1>3, <1>7, <1>9, <2>5 DEF Standing, Resting, w
    <2>7. \A d \in Task : d \in freed <=>
                /\ lock'[d] = s /\ d # job[s]
                /\ working'.task[d].status = "PENDING"
                /\ working'.task[d].remaining_dependencies = 0
      BY <1>5, <1>8, <2>1, <2>3
    <2>8. QED
      BY <1>1, <1>3, <1>7, <1>8, <2>2, <2>6, <2>7, WritesOn
  <1>12. CASE row.status \notin Active /\ write_nothing
    <2>1. UNCHANGED <<working, lock>>
      BY <1>12 DEF write_nothing
    <2>2. row.status # "NONE"
      BY <1>1, <1>2, <1>4, RunningTask DEF Failing, Active, row, t, w
    <2>3. Failing(s)'
      BY <1>1, <1>3, <1>7, <2>1 DEF Failing, t, w
    <2>4. Cancelling(s)'
      <3>1. \A u \in TasksOf(w) : \/ u = t \/ lock'[u] = s \/ u \in ToSet(Tail(todo[s]))
                                  \/ committed'.task[u].status \notin Active \cup {"NONE"}
        BY <1>1, <1>3, <1>7, <1>12, <2>1, <2>2 DEF Cancelling, t, w, row
      <3>2. QED
        BY <3>1, <1>1, <1>7, <2>1, <2>3 DEF Cancelling, t, w
    <2>5. Standing(s)'
      BY <1>3, <1>7, <1>9, <2>4 DEF Standing, Resting, w
    <2>6. QED
      BY <1>1, <1>3, <1>7, <2>1, <2>5, GoesOn
  <1>13. QED
    BY <1>6, <1>11, <1>12 DEF cancel_row, cancel_matches, cancelled, c, row

\* the end of the cancellation.
LEMMA CancelDoneKeeps ==
    ASSUME RInv, NEW s \in Session, cancel_done(s)
    PROVE  RInv'
  <1>1. /\ TypeOK /\ pc[s] = "cancel_row" /\ todo[s] = << >> /\ Cancelling(s) /\ Failing(s)
        /\ "commit" \in Statement /\ pc[s] # "idle"
    BY DEF RInv, cancel_done, Standing, Statement, Cancelling
  <1>2. /\ UNCHANGED <<committed, working, lock, job, todo, found, reported, history>>
        /\ goto(s, "commit") /\ pc'[s] = "commit"
        /\ todo' = [todo EXCEPT ![s] = << >>]
    BY <1>1 DEF cancel_done, goto, TypeOK
  <1>3. Failing(s)'
    BY <1>1, <1>2 DEF Failing
  <1>4. Cancelling(s)'
    BY <1>1, <1>2, <1>3 DEF Cancelling
  <1>5. Standing(s)'
    BY <1>2, <1>4 DEF Standing, Resting
  <1>6. QED
    BY <1>1, <1>2, <1>5, GoesOn, EmptyList

-----------------------------------------------------------------------------
(***************************************************************************)
(* The steps other sessions see: the commits.                              *)
(***************************************************************************)

\* The invariant of such a step, from what it does to its own session.
LEMMA VisibleStep ==
    ASSUME RInv, NEW s \in Session, Moves(s), TypeOK', [WP!Next]_(WP!vars), NoRowNoOutput',
           \A t \in Task : lock[t] # s => committed'.task[t] = committed.task[t],
           \A w \in Workflow : lock[w] # s => committed'.wf[w] = committed.wf[w],
           Carrying(s)' /\ Standing(s)'
    PROVE  RInv'
  <1>1. WP!IInv'
    BY ExecutionAssumptions, WP!NextIInv DEF RInv
  <1>2. ASSUME NEW r \in Session, r # s
        PROVE  Carrying(r)' /\ Standing(r)'
    <2>1. r # NULL
      BY RowAssumption
    <2>2. \A x \in Rows : lock'[x] = r <=> lock[x] = r
      BY <1>2, <2>1 DEF Moves
    <2>3. Frame(r)
      BY <1>2, <2>1, <2>2 DEF Moves, Frame
    <2>4. QED
      BY <2>3, FrameKeeps
  <1>3. QED
    BY <1>1, <1>2 DEF RInv

\* A commit publishes the rows its transaction has written, and unlocks them.
LEMMA Published ==
    ASSUME RInv, NEW s \in Session, committed' = published(s), lock' = unlock_all(s),
           UNCHANGED working
    PROVE  /\ \A t \in Task : committed'.task[t] = IF lock[t] = s THEN working.task[t]
                                                                  ELSE committed.task[t]
           /\ \A w \in Workflow : committed'.wf[w] = IF lock[w] = s THEN working.wf[w]
                                                                    ELSE committed.wf[w]
           /\ DOMAIN committed'.wf = Workflow
           /\ \A r \in Rows : lock'[r] # s
           /\ RowsTyped' /\ WritesOwn(s) /\ NoRowNoOutput'
  <1>1. TypeOK /\ s # NULL
    BY RowAssumption DEF RInv
  <1>2. /\ committed'.wf = [w \in Workflow |-> IF lock[w] = s THEN working.wf[w]
                                                              ELSE committed.wf[w]]
        /\ committed'.task = [t \in Task |-> IF lock[t] = s THEN working.task[t]
                                                            ELSE committed.task[t]]
        /\ committed' = [wf |-> committed'.wf, task |-> committed'.task]
    BY DEF published, task_row, workflow_row
  <1>3. committed' \in Tables
    <2>1. committed'.wf \in [Workflow -> {"NONE", "RUNNING", "COMPLETED", "FAILED"}]
      BY <1>1, <1>2 DEF TypeOK, Tables
    <2>2. committed'.task \in [Task -> TaskRow]
      BY <1>1, <1>2 DEF TypeOK, Tables
    <2>3. QED
      BY <2>1, <2>2, <1>2 DEF Tables
  <1>4. /\ lock' = [r \in Rows |-> IF lock[r] = s THEN NULL ELSE lock[r]]
        /\ lock' \in [Rows -> Session \cup {NULL}]
    BY <1>1 DEF unlock_all, TypeOK
  <1>5. RowsTyped'
    BY <1>1, <1>2, <1>3, <1>4 DEF TypeOK, RowsTyped, Rows
  <1>6. \A r \in Rows : lock'[r] # s
    BY <1>1, <1>4
  <1>7. WritesOwn(s)
    BY <1>4 DEF WritesOwn
  <1>8. NoRowNoOutput'
    BY <1>2, LockedRowsExist DEF RInv, NoRowNoOutput
  <1>9. QED
    BY <1>2, <1>5, <1>6, <1>7, <1>8

\* Where a commit leaves its session.
LEMMA CommittedSession ==
    ASSUME RInv, NEW s \in Session, \A r \in Rows : lock'[r] # s,
           NEW place \in Resting, goto(s, place),
           place = "idle" => job' = [job EXCEPT ![s] = NULL] /\ found' = [found EXCEPT ![s] = {}],
           place = "executing" => UNCHANGED <<job, found>> /\ found[s] = {} /\ job[s] # NULL,
           UNCHANGED todo, todo[s] = << >>, reported \subseteq reported'
    PROVE  /\ pc' \in [Session -> Resting \cup Statement]
           /\ job' \in [Session -> Task \cup {NULL}]
           /\ todo' \in [Session -> Seq(Task)]
           /\ found' \in [Session -> SUBSET Task]
           /\ \A r \in Session \ {s} : /\ pc'[r] = pc[r] /\ job'[r] = job[r]
                                       /\ todo'[r] = todo[r] /\ found'[r] = found[r]
           /\ Carrying(s)' /\ Standing(s)'
  <1>1. TypeOK /\ Carrying(s) /\ pc' = [pc EXCEPT ![s] = place] /\ place \in {"idle", "executing"}
    BY DEF RInv, goto, Resting
  <1>2. /\ pc' \in [Session -> Resting \cup Statement]
        /\ job' \in [Session -> Task \cup {NULL}]
        /\ todo' \in [Session -> Seq(Task)]
        /\ found' \in [Session -> SUBSET Task]
        /\ \A r \in Session \ {s} : /\ pc'[r] = pc[r] /\ job'[r] = job[r]
                                    /\ todo'[r] = todo[r] /\ found'[r] = found[r]
    BY <1>1 DEF TypeOK
  <1>3. /\ pc'[s] = place /\ todo'[s] = << >> /\ found'[s] = {}
        /\ place = "idle" => job'[s] = NULL
        /\ place = "executing" => job'[s] = job[s] /\ job[s] # NULL
    BY <1>1 DEF TypeOK
  <1>4. {c \in Task : /\ lock'[c] = s /\ c # job'[s]
                      /\ working'.task[c].status = "PENDING"
                      /\ working'.task[c].remaining_dependencies = 0} = {}
    BY DEF Rows
  <1>5. Carrying(s)'
    BY <1>1, <1>3, <1>4 DEF Carrying
  <1>6. Standing(s)'
    BY <1>1, <1>3 DEF Standing, NoLocks
  <1>7. QED
    BY <1>2, <1>5, <1>6

\* What the commit of a started task does to the execution model's tables.
LEMMA CommitStartImplements ==
    ASSUME RInv, NEW s \in Session, commit_start(s)
    PROVE  [WP!Next]_(WP!vars)
  <1> DEFINE t == job[s]
  <1>1. /\ TypeOK /\ Starting(s) /\ pc[s] = "commit_start"
        /\ committed' = published(s) /\ lock' = unlock_all(s)
        /\ UNCHANGED <<working, job, todo, found, reported, history>>
    BY DEF RInv, Standing, commit_start
  <1>2. /\ t \in Task /\ t \in reported
        /\ \A p \in Parents[t] : committed.task[p].output # NULL
    BY <1>1, JobIsReady
  <1>3. /\ \A u \in Task : committed'.task[u] = IF lock[u] = s THEN working.task[u]
                                                               ELSE committed.task[u]
        /\ \A w \in Workflow : committed'.wf[w] = IF lock[w] = s THEN working.wf[w]
                                                                 ELSE committed.wf[w]
        /\ DOMAIN committed'.wf = Workflow
        /\ committed' \in Tables
    BY <1>1, Published DEF RowsTyped
  <1>4. \A u \in Task : u # t => committed'.task[u] = committed.task[u]
    BY <1>1, <1>3 DEF Starting, Rows
  <1>5. committed'.wf = committed.wf
    <2>1. \A w \in Workflow : committed'.wf[w] = committed.wf[w]
      BY <1>1, <1>2, <1>3, RowAssumption DEF Starting, Rows
    <2>2. committed.wf \in [Workflow -> {"NONE", "RUNNING", "COMPLETED", "FAILED"}]
          /\ committed'.wf \in [Workflow -> {"NONE", "RUNNING", "COMPLETED", "FAILED"}]
      BY <1>1, <1>3 DEF TypeOK, Tables
    <2>3. QED
      BY <2>1, <2>2
  <1> HIDE DEF t
  <1>6. CASE lock[t] = s
    <2>1. /\ committed.task[t].status = "PENDING"
          /\ committed'.task[t] = started(committed.task[t])
          /\ committed.task[t] \in TaskRow
      BY <1>1, <1>2, <1>3, <1>6, RowTypes DEF Starting, t
    <2>2. /\ committed'.task[t].status = "RUNNING"
          /\ committed'.task[t].remaining_dependencies = committed.task[t].remaining_dependencies
          /\ committed'.task[t].remaining_tries = committed.task[t].remaining_tries
          /\ committed'.task[t].output = committed.task[t].output
      BY <2>1, RowFields
    <2>3. /\ status' = [status EXCEPT ![t] = "RUNNING"]
          /\ UNCHANGED <<remaining_dependencies, remaining_tries, output>>
      BY <1>2, <1>4, <2>2 DEF status, remaining_dependencies, remaining_tries, output
    <2>4. WP!start_task(t)
      BY <1>1, <1>2, <1>5, <2>1, <2>3, Columns, GraphAssumption
      DEF WP!start_task, WP!parent_outputs_present, history
    <2>5. QED
      BY <1>2, <2>4 DEF WP!Next
  <1>7. CASE lock[t] # s
    <2>1. \A u \in Task : committed'.task[u] = committed.task[u]
      BY <1>1, <1>3, <1>4, <1>7
    <2>2. UNCHANGED <<status, remaining_dependencies, remaining_tries, output>>
      BY <2>1 DEF status, remaining_dependencies, remaining_tries, output
    <2>3. QED
      BY <1>1, <1>5, <2>2 DEF WP!vars, history
  <1>8. QED
    BY <1>6, <1>7

\* The commit of a start keeps the invariant.
LEMMA CommitStartKeeps ==
    ASSUME RInv, NEW s \in Session, commit_start(s)
    PROVE  RInv'
  <1>1. /\ TypeOK /\ Carrying(s) /\ Starting(s) /\ pc[s] = "commit_start"
        /\ committed' = published(s) /\ lock' = unlock_all(s)
        /\ goto(s, "executing") /\ "executing" \in Resting
        /\ UNCHANGED <<working, job, todo, found, reported, history>>
    BY DEF RInv, Standing, commit_start, Resting
  <1>2. /\ \A t \in Task : lock[t] # s => committed'.task[t] = committed.task[t]
        /\ \A w \in Workflow : lock[w] # s => committed'.wf[w] = committed.wf[w]
        /\ \A r \in Rows : lock'[r] # s
        /\ RowsTyped' /\ WritesOwn(s) /\ NoRowNoOutput'
    BY <1>1, Published
  <1>3. found[s] = {} /\ todo[s] = << >> /\ job[s] # NULL
    BY <1>1 DEF Carrying, Starting, Rows
  <1>4. /\ pc' \in [Session -> Resting \cup Statement]
        /\ job' \in [Session -> Task \cup {NULL}]
        /\ todo' \in [Session -> Seq(Task)]
        /\ found' \in [Session -> SUBSET Task]
        /\ \A r \in Session \ {s} : /\ pc'[r] = pc[r] /\ job'[r] = job[r]
                                    /\ todo'[r] = todo[r] /\ found'[r] = found[r]
        /\ Carrying(s)' /\ Standing(s)'
    BY <1>1, <1>2, <1>3, CommittedSession
  <1>5. SessionsTyped'
    BY <1>1, <1>4 DEF SessionsTyped, TypeOK, history
  <1>6. Moves(s)
    BY <1>2, <1>4 DEF Moves, WritesOwn
  <1>7. QED
    BY <1>2, <1>4, <1>5, <1>6, TypeParts, CommitStartImplements, VisibleStep

\* The rows of a commit, before the cases of what it commits.
LEMMA CommitFacts ==
    ASSUME RInv, NEW s \in Session, NEW answered \in BOOLEAN, commit(s, answered)
    PROVE  /\ TypeOK /\ Carrying(s) /\ Standing(s) /\ pc[s] = "commit" /\ todo[s] = << >>
           /\ job[s] \in Task /\ workflow_of[job[s]] \in Workflow
           /\ \A t \in Task : committed.task[t] \in TaskRow
           /\ \A t \in Task : committed'.task[t] = IF lock[t] = s THEN working.task[t]
                                                                  ELSE committed.task[t]
           /\ \A w \in Workflow : committed'.wf[w] = IF lock[w] = s THEN working.wf[w]
                                                                    ELSE committed.wf[w]
           /\ committed.wf \in [Workflow -> {"NONE", "RUNNING", "COMPLETED", "FAILED"}]
           /\ committed'.wf \in [Workflow -> {"NONE", "RUNNING", "COMPLETED", "FAILED"}]
           /\ \A t \in Task : t \in Rows /\ \A w \in Workflow : t # w
           /\ \A w \in Workflow : w \in Rows
           /\ reported' = IF answered THEN reported \cup found[s] ELSE reported
           /\ completed_meanwhile' = note_completion(s)
           /\ found[s] = {c \in Task : /\ lock[c] = s /\ c # job[s]
                                       /\ working.task[c].status = "PENDING"
                                       /\ working.task[c].remaining_dependencies = 0}
  <1>1. /\ TypeOK /\ Carrying(s) /\ Standing(s) /\ pc[s] = "commit" /\ todo[s] = << >>
        /\ committed' = published(s) /\ lock' = unlock_all(s) /\ UNCHANGED working
        /\ reported' = (IF answered THEN reported \cup found[s] ELSE reported)
        /\ completed_meanwhile' = note_completion(s)
    BY DEF RInv, commit, Carrying
  <1>2. job[s] \in Task /\ workflow_of[job[s]] \in Workflow
    BY <1>1, JobIsReady
  <1>3. /\ \A t \in Task : committed'.task[t] = IF lock[t] = s THEN working.task[t]
                                                               ELSE committed.task[t]
        /\ \A w \in Workflow : committed'.wf[w] = IF lock[w] = s THEN working.wf[w]
                                                                 ELSE committed.wf[w]
        /\ committed' \in Tables
    BY <1>1, Published DEF RowsTyped
  <1>4. committed \in Tables
    BY <1>1 DEF TypeOK
  <1>5. /\ committed.wf \in [Workflow -> {"NONE", "RUNNING", "COMPLETED", "FAILED"}]
        /\ committed'.wf \in [Workflow -> {"NONE", "RUNNING", "COMPLETED", "FAILED"}]
    BY <1>3, <1>4 DEF Tables
  <1>6. QED
    BY <1>1, <1>2, <1>3, <1>5, RowTypes, RowAssumption DEF Rows, Carrying

\* A commit without rows changes nothing.
LEMMA EmptyCommit ==
    ASSUME RInv, NEW s \in Session, NEW answered \in BOOLEAN, commit(s, answered), NoLocks(s)
    PROVE  UNCHANGED WP!vars
  <1>1. \A t \in Task : committed'.task[t] = committed.task[t]
    BY CommitFacts DEF NoLocks
  <1>2. committed'.wf = committed.wf
    <2>1. /\ committed.wf \in [Workflow -> {"NONE", "RUNNING", "COMPLETED", "FAILED"}]
          /\ committed'.wf \in [Workflow -> {"NONE", "RUNNING", "COMPLETED", "FAILED"}]
      BY CommitFacts
    <2>2. \A w \in Workflow : committed'.wf[w] = committed.wf[w]
      BY CommitFacts DEF NoLocks
    <2>3. QED
      BY <2>1, <2>2
  <1>3. found[s] = {}
    BY CommitFacts DEF NoLocks
  <1>4. reported' = reported
    <2>1. reported \cup found[s] = reported
      BY <1>3
    <2>2. reported' = IF answered THEN reported \cup found[s] ELSE reported
      BY CommitFacts
    <2>3. QED
      BY <2>1, <2>2
  <1>5. completed_meanwhile' = completed_meanwhile
    BY CommitFacts DEF note_completion, completes, NoLocks
  <1>6. QED
    BY <1>1, <1>2, <1>4, <1>5
    DEF WP!vars, status, remaining_dependencies, remaining_tries, output

\* A consumed try is retry_task with another one left.
LEMMA RetryCommit ==
    ASSUME RInv, NEW s \in Session, NEW answered \in BOOLEAN, commit(s, answered), Retrying(s)
    PROVE  WP!retry_task(job[s])
  <1> DEFINE t == job[s]
  <1>1. /\ t \in Task /\ t \in Rows /\ lock[t] = s /\ committed.task[t] \in TaskRow
        /\ committed.task[t].status = "RUNNING" /\ committed.task[t].remaining_tries > 1
        /\ committed'.task[t] = tried(committed.task[t], "RUNNING")
    BY CommitFacts DEF Retrying
  <1>2. \A u \in Task : u # t => lock[u] # s /\ committed'.task[u] = committed.task[u]
    BY CommitFacts DEF Retrying
  <1>3. committed'.wf = committed.wf
    <2>1. /\ committed.wf \in [Workflow -> {"NONE", "RUNNING", "COMPLETED", "FAILED"}]
          /\ committed'.wf \in [Workflow -> {"NONE", "RUNNING", "COMPLETED", "FAILED"}]
      BY CommitFacts
    <2>2. \A w \in Workflow : committed'.wf[w] = committed.wf[w]
      BY CommitFacts DEF Retrying
    <2>3. QED
      BY <2>1, <2>2
  <1>4. found[s] = {}
    BY <1>2, CommitFacts
  <1>5. reported' = reported
    <2>1. reported \cup found[s] = reported
      BY <1>4
    <2>2. reported' = IF answered THEN reported \cup found[s] ELSE reported
      BY CommitFacts
    <2>3. QED
      BY <2>1, <2>2
  <1> HIDE DEF t
  <1>6. /\ committed'.task[t].status = "RUNNING"
        /\ committed'.task[t].remaining_dependencies = committed.task[t].remaining_dependencies
        /\ committed'.task[t].remaining_tries = committed.task[t].remaining_tries - 1
        /\ committed'.task[t].output = committed.task[t].output
        /\ committed.task[t].remaining_tries > 0
    BY <1>1, RowFields
  <1>7. completed_meanwhile' = completed_meanwhile
    <2>1. working.task[t].status # "COMPLETED"
      BY <1>1, <1>6, CommitFacts
    <2>2. QED
      BY <2>1, CommitFacts DEF note_completion, completes, t
  <1>8. /\ remaining_tries' = [remaining_tries EXCEPT ![t] = @ - 1]
        /\ UNCHANGED <<status, remaining_dependencies, output>>
    BY <1>1, <1>2, <1>6 DEF status, remaining_dependencies, remaining_tries, output
  <1>9. WP!retry_task(t)
    BY <1>1, <1>3, <1>5, <1>6, <1>7, <1>8, Columns DEF WP!retry_task, WP!retriable, WP!tries_left
  <1>10. QED
    BY <1>9 DEF t

\* The last try is retry_task that fails the workflow and cancels the rest.
LEMMA FailCommit ==
    ASSUME RInv, NEW s \in Session, NEW answered \in BOOLEAN, commit(s, answered), Cancelling(s)
    PROVE  WP!retry_task(job[s])
  <1> DEFINE t == job[s]
             w == workflow_of[t]
  <1>1. /\ t \in Task /\ w \in Workflow /\ lock[t] = s /\ committed.task[t] \in TaskRow
        /\ committed.task[t].status = "RUNNING" /\ committed.task[t].remaining_tries = 1
        /\ committed'.task[t] = tried(committed.task[t], "FAILED")
    BY CommitFacts DEF Cancelling, Failing
  <1>2. \A u \in Task : u # t /\ lock[u] = s =>
           /\ u \in TasksOf(w) /\ committed.task[u].status \in Active
           /\ committed'.task[u] = cancelled(committed.task[u])
    BY CommitFacts DEF Cancelling, Failing
  <1>3. \A u \in Task : u # t /\ lock[u] # s => committed'.task[u] = committed.task[u]
    BY CommitFacts
  <1>4. \A u \in TasksOf(w) : u # t /\ lock[u] # s => committed.task[u].status \notin Active
    BY CommitFacts, EmptyList DEF Cancelling
  <1>5. \A u \in Task : committed.task[u] \in TaskRow
    BY CommitFacts
  <1>6. committed.wf[w] = "RUNNING" /\ committed'.wf = [committed.wf EXCEPT ![w] = "FAILED"]
    <2>1. /\ committed.wf \in [Workflow -> {"NONE", "RUNNING", "COMPLETED", "FAILED"}]
          /\ committed'.wf \in [Workflow -> {"NONE", "RUNNING", "COMPLETED", "FAILED"}]
      BY CommitFacts
    <2>2. committed.wf[w] = "RUNNING" /\ committed'.wf[w] = "FAILED"
      BY <1>1, CommitFacts DEF Cancelling
    <2>3. \A v \in Workflow : v # w => committed'.wf[v] = committed.wf[v]
      BY CommitFacts DEF Cancelling
    <2>4. QED
      BY <2>1, <2>2, <2>3
  <1> HIDE DEF t, w
  <1>7. /\ committed'.task[t].status = "FAILED"
        /\ committed'.task[t].remaining_dependencies = committed.task[t].remaining_dependencies
        /\ committed'.task[t].remaining_tries = committed.task[t].remaining_tries - 1
        /\ committed'.task[t].output = committed.task[t].output
    BY <1>1, RowFields
  <1>8. \A u \in Task : u # t =>
           /\ committed'.task[u].status = IF lock[u] = s THEN "CANCELLED"
                                                         ELSE committed.task[u].status
           /\ committed'.task[u].remaining_dependencies = committed.task[u].remaining_dependencies
           /\ committed'.task[u].remaining_tries = committed.task[u].remaining_tries
           /\ committed'.task[u].output = committed.task[u].output
    BY <1>2, <1>3, <1>5, RowFields
  <1>9. \A u \in Task : u # t => (lock[u] = s <=> u \in WP!cancelled(w))
    <2>1. \A u \in Task : u \in WP!cancelled(w) <=> u \in TasksOf(w) /\ committed.task[u].status \in Active
      BY <1>6, Columns DEF WP!cancelled, WP!TasksOf, TasksOf, WP!Active, Active
    <2>2. QED
      BY <2>1, <1>2, <1>4
  <1>10. found[s] = {}
    <2>1. \A u \in Task : u # t /\ lock[u] = s => working.task[u].status = "CANCELLED"
      BY <1>8, CommitFacts
    <2>2. QED
      BY <2>1, CommitFacts DEF t
  <1>11. reported' = reported
    <2>1. reported \cup found[s] = reported
      BY <1>10
    <2>2. reported' = IF answered THEN reported \cup found[s] ELSE reported
      BY CommitFacts
    <2>3. QED
      BY <2>1, <2>2
  <1>12. completed_meanwhile' = completed_meanwhile
    <2>1. working.task[t].status # "COMPLETED"
      BY <1>1, <1>7, CommitFacts
    <2>2. QED
      BY <2>1, CommitFacts DEF note_completion, completes, t
  <1>13. UNCHANGED <<remaining_dependencies, output>>
    BY <1>7, <1>8 DEF remaining_dependencies, output
  <1>14. remaining_tries' = [remaining_tries EXCEPT ![t] = @ - 1]
    BY <1>1, <1>7, <1>8 DEF remaining_tries
  <1>15. status' = [u \in Task |-> IF u = t THEN "FAILED"
                                   ELSE IF u \in WP!cancelled(w) THEN "CANCELLED" ELSE status[u]]
    BY <1>7, <1>8, <1>9, Columns DEF status
  <1>16. WP!retriable(t) /\ ~WP!tries_left(t)
    BY <1>1, Columns DEF WP!retriable, WP!tries_left
  <1>17. committed'.wf = WP!fail_workflow(w)
    BY <1>6 DEF WP!fail_workflow
  <1>18. WP!retry_task(t)
    BY <1>11, <1>12, <1>13, <1>14, <1>15, <1>16, <1>17 DEF WP!retry_task, w
  <1>19. QED
    BY <1>18 DEF t

\* A completion is complete_task: what its check of the workflow did not see
\* are tasks that completed while its own ran.
LEMMA CompleteCommit ==
    ASSUME RInv, NEW s \in Session, NEW answered \in BOOLEAN, commit(s, answered),
           Completing(s), Judged(s)
    PROVE  \E out \in Output, hidden \in SUBSET Task :
              WP!complete_task(job[s], out, hidden, answered)
  <1> DEFINE t == job[s]
             w == workflow_of[t]
  <1>1. PICK out \in Output : working.task[t] = completed(committed.task[t], out)
    BY DEF Completing
  <1>2. /\ t \in Task /\ w \in Workflow /\ lock[t] = s /\ committed.task[t] \in TaskRow
        /\ committed.task[t].status = "RUNNING"
        /\ committed'.task[t] = completed(committed.task[t], out)
    BY <1>1, CommitFacts DEF Completing
  <1>3. \A c \in Task : lock[c] = s /\ c # t =>
           /\ c \in children(t)
           /\ committed.task[c].status = "PENDING"
           /\ committed.task[c].remaining_dependencies > 0
           /\ working.task[c] = released_once(committed.task[c])
           /\ committed'.task[c] = released_once(committed.task[c])
    BY CommitFacts DEF Completing
  <1>4. \A c \in children(t) : lock[c] = s \/ committed.task[c].status \notin {"NONE", "PENDING"}
    BY CommitFacts, EmptyList DEF Completing
  <1>5. \A c \in Task : lock[c] # s => committed'.task[c] = committed.task[c]
    BY CommitFacts
  <1>6. \A c \in Task : committed.task[c] \in TaskRow
    BY CommitFacts
  <1>7. committed.wf[w] = "RUNNING" /\ t \notin children(t)
    BY <1>2, RunningTask, JobIsReady, CommitFacts
  <1>8. \A v \in Workflow : v # w => committed'.wf[v] = committed.wf[v]
    BY CommitFacts DEF Judged
  <1>9. lock[w] = s => /\ committed'.wf[w] = "COMPLETED"
                       /\ \A u \in TasksOf(w) : u # t => committed.task[u].status = "COMPLETED"
    BY <1>2, CommitFacts DEF Judged
  <1>10. lock[w] # s => /\ committed'.wf[w] = committed.wf[w]
                        /\ \E u \in TasksOf(w) : /\ u # t
                                                 /\ \/ committed.task[u].status # "COMPLETED"
                                                    \/ u \in completed_meanwhile[t]
    BY <1>2, CommitFacts DEF Judged
  <1>11. /\ committed.wf \in [Workflow -> {"NONE", "RUNNING", "COMPLETED", "FAILED"}]
         /\ committed'.wf \in [Workflow -> {"NONE", "RUNNING", "COMPLETED", "FAILED"}]
    BY CommitFacts
  <1>12. found[s] = {c \in Task : /\ lock[c] = s /\ c # t
                                  /\ working.task[c].status = "PENDING"
                                  /\ working.task[c].remaining_dependencies = 0}
    BY CommitFacts
  <1>13. reported' = IF answered THEN reported \cup found[s] ELSE reported
    BY CommitFacts
  <1>14. \A u \in TasksOf(w) : u \in Task
    BY DEF TasksOf
  <1>15. completed_meanwhile' = note_completion(s) /\ completed_meanwhile[t] \in SUBSET Task
    BY <1>2, CommitFacts DEF TypeOK
  <1>16. \A c \in children(t) : c \in Task
    BY DEF children
  <1>17. completed_meanwhile' = WP!note_completion(t)
    <2>1. completes(s)
      <3>1. completed(committed.task[t], out).status = "COMPLETED"
        BY <1>2, RowFields
      <3>2. QED
        BY <1>1, <1>2, <3>1 DEF completes
    <2>2. \A u \in Task : status[u] = committed.task[u].status
      BY Columns
    <2>3. QED
      BY <1>15, <2>1, <2>2 DEF note_completion, WP!note_completion
  <1> DEFINE hidden == IF lock[w] = s THEN {} ELSE completed_meanwhile[t]
  <1>18. hidden \in SUBSET Task /\ hidden \subseteq completed_meanwhile[t]
    BY <1>15
  <1> HIDE DEF t, w
  \* The columns of the two kinds of rows.
  <1>19. /\ committed'.task[t].status = "COMPLETED"
         /\ committed'.task[t].remaining_dependencies = committed.task[t].remaining_dependencies
         /\ committed'.task[t].remaining_tries = committed.task[t].remaining_tries
         /\ committed'.task[t].output = out
    BY <1>2, RowFields
  <1>20. \A c \in Task : c # t =>
           /\ committed'.task[c].status = committed.task[c].status
           /\ committed'.task[c].remaining_dependencies =
                 IF lock[c] = s THEN committed.task[c].remaining_dependencies - 1
                                ELSE committed.task[c].remaining_dependencies
           /\ committed'.task[c].remaining_tries = committed.task[c].remaining_tries
           /\ committed'.task[c].output = committed.task[c].output
    BY <1>3, <1>5, <1>6, RowFields
  <1>21. \A c \in Task : c \in WP!decremented(t) <=> c # t /\ lock[c] = s
    <2>1. \A c \in Task : c \in WP!decremented(t) <=>
             /\ c \in children(t) /\ committed.task[c].status = "PENDING"
             /\ committed.task[c].remaining_dependencies > 0
      BY Columns DEF WP!decremented, WP!children, children
    <2>2. QED
      BY <2>1, <1>3, <1>4, <1>7
  <1>22. status' = [status EXCEPT ![t] = "COMPLETED"] /\ output' = [output EXCEPT ![t] = out]
         /\ remaining_tries' = remaining_tries
    BY <1>2, <1>19, <1>20 DEF status, output, remaining_tries
  <1>23. remaining_dependencies' = WP!update_child_dependencies(t)
    <2>1. \A c \in Task : remaining_dependencies'[c] =
             IF c \in WP!decremented(t) THEN remaining_dependencies[c] - 1
                                        ELSE remaining_dependencies[c]
      <3>1. SUFFICES ASSUME NEW c \in Task
                     PROVE  committed'.task[c].remaining_dependencies =
                              IF c \in WP!decremented(t)
                              THEN committed.task[c].remaining_dependencies - 1
                              ELSE committed.task[c].remaining_dependencies
        BY Columns
      <3>2. CASE c = t
        BY <3>2, <1>19, <1>21
      <3>3. CASE c # t
        BY <3>3, <1>20, <1>21
      <3>4. QED
        BY <3>2, <3>3
    <2>2. remaining_dependencies' = [c \in Task |-> remaining_dependencies'[c]]
      BY DEF remaining_dependencies
    <2>3. QED
      BY <2>1, <2>2 DEF WP!update_child_dependencies
  <1>24. found[s] = WP!released(t)
    <2>1. WP!released(t) = {c \in Task : c \in WP!decremented(t)
                                         /\ remaining_dependencies[c] - 1 = 0}
      <3>1. \A c \in WP!decremented(t) : c \in Task
        BY DEF WP!decremented, WP!children
      <3>2. QED
        BY <3>1 DEF WP!released, WP!update_child_dependencies
    <2>2. \A c \in Task : c # t /\ lock[c] = s =>
             /\ working.task[c].status = "PENDING"
             /\ working.task[c].remaining_dependencies = remaining_dependencies[c] - 1
      BY <1>3, <1>6, RowFields, Columns
    <2>3. QED
      BY <2>1, <2>2, <1>12, <1>21
  <1>25. committed'.wf = WP!complete_workflow_if_finished(t, hidden)
    <2>1. WP!complete_workflow_if_finished(t, hidden) =
             [committed.wf EXCEPT ![w] =
                 IF WP!unfinished(t, hidden) = {} THEN "COMPLETED" ELSE committed.wf[w]]
      BY <1>7 DEF WP!complete_workflow_if_finished, w
    <2>2. \A u \in Task : u \in WP!unfinished(t, hidden) <=>
             /\ u \in TasksOf(w) /\ u # t
             /\ committed.task[u].status # "COMPLETED" \/ u \in hidden
      BY Columns DEF WP!unfinished, WP!TasksOf, TasksOf, w
    <2>3. WP!unfinished(t, hidden) \subseteq Task
      BY DEF WP!unfinished, WP!TasksOf
    <2>4. WP!unfinished(t, hidden) = {} <=> lock[w] = s
      BY <2>2, <2>3, <1>9, <1>10, <1>14
    <2>5. committed'.wf[w] = IF WP!unfinished(t, hidden) = {} THEN "COMPLETED" ELSE committed.wf[w]
      BY <2>4, <1>9, <1>10
    <2>6. QED
      BY <2>1, <2>5, <1>2, <1>8, <1>11
  <1> HIDE DEF hidden
  <1>26. WP!completable(t)
    BY <1>2, Columns DEF WP!completable
  <1>27. WP!complete_task(t, out, hidden, answered)
    BY <1>13, <1>17, <1>18, <1>22, <1>23, <1>24, <1>25, <1>26 DEF WP!complete_task
  <1>28. QED
    BY <1>18, <1>27 DEF t

\* Every commit of complete_task or retry_task is that action of the execution
\* model, or nothing.
LEMMA CommitImplements ==
    ASSUME RInv, NEW s \in Session, NEW answered \in BOOLEAN, commit(s, answered)
    PROVE  [WP!Next]_(WP!vars)
  <1>1. job[s] \in Task
    BY CommitFacts
  <1>2. CASE NoLocks(s)
    BY <1>2, EmptyCommit
  <1>3. CASE Completing(s) /\ Judged(s)
    BY <1>1, <1>3, CompleteCommit DEF WP!Next
  <1>4. CASE Retrying(s)
    BY <1>1, <1>4, RetryCommit DEF WP!Next
  <1>5. CASE Cancelling(s)
    BY <1>1, <1>5, FailCommit DEF WP!Next
  <1>6. QED
    BY <1>2, <1>3, <1>4, <1>5, CommitFacts DEF Standing

\* So does the commit of an outcome.
LEMMA CommitKeeps ==
    ASSUME RInv, NEW s \in Session, NEW answered \in BOOLEAN, commit(s, answered)
    PROVE  RInv'
  <1>1. /\ TypeOK /\ Carrying(s) /\ pc[s] = "commit" /\ todo[s] = << >>
        /\ committed' = published(s) /\ lock' = unlock_all(s)
        /\ goto(s, "idle") /\ "idle" \in Resting
        /\ UNCHANGED working /\ UNCHANGED todo
        /\ job' = [job EXCEPT ![s] = NULL] /\ found' = [found EXCEPT ![s] = {}]
        /\ reported' = (IF answered THEN reported \cup found[s] ELSE reported)
        /\ completed_meanwhile' = note_completion(s)
        /\ overlapped' = note_overlap(s)
    BY DEF RInv, commit, Resting, Carrying
  <1>2. /\ \A t \in Task : lock[t] # s => committed'.task[t] = committed.task[t]
        /\ \A w \in Workflow : lock[w] # s => committed'.wf[w] = committed.wf[w]
        /\ \A r \in Rows : lock'[r] # s
        /\ RowsTyped' /\ WritesOwn(s) /\ NoRowNoOutput'
    BY <1>1, Published
  <1>3. reported \subseteq reported' /\ reported' \in SUBSET Task
    BY <1>1 DEF TypeOK
  <1>4. completed_meanwhile' \in [Task -> SUBSET Task]
    <2>1. job[s] \in Task /\ completed_meanwhile \in [Task -> SUBSET Task]
      BY <1>1, JobIsReady DEF TypeOK
    <2>2. \A u \in Task : completed_meanwhile[u] \cup {job[s]} \in SUBSET Task /\ completed_meanwhile[u] \in SUBSET Task
      BY <2>1
    <2>3. note_completion(s) \in [Task -> SUBSET Task]
      BY <2>1, <2>2 DEF note_completion
    <2>4. QED
      BY <1>1, <2>3
  <1>4a. overlapped' \in [Task -> SUBSET Task]
    <2>1. job[s] \in Task /\ overlapped \in [Task -> SUBSET Task]
      BY <1>1, JobIsReady DEF TypeOK
    <2>2. \A u \in Task : overlapped[u] \cup {job[s]} \in SUBSET Task /\ overlapped[u] \in SUBSET Task
      BY <2>1
    <2>3. note_overlap(s) \in [Task -> SUBSET Task]
      BY <2>1, <2>2 DEF note_overlap
    <2>4. QED
      BY <1>1, <2>3
  <1>5. /\ pc' \in [Session -> Resting \cup Statement]
        /\ job' \in [Session -> Task \cup {NULL}]
        /\ todo' \in [Session -> Seq(Task)]
        /\ found' \in [Session -> SUBSET Task]
        /\ \A r \in Session \ {s} : /\ pc'[r] = pc[r] /\ job'[r] = job[r]
                                    /\ todo'[r] = todo[r] /\ found'[r] = found[r]
        /\ Carrying(s)' /\ Standing(s)'
    BY <1>1, <1>2, <1>3, CommittedSession
  <1>6. SessionsTyped'
    BY <1>3, <1>4, <1>4a, <1>5 DEF SessionsTyped
  <1>7. Moves(s)
    BY <1>2, <1>5 DEF Moves, WritesOwn
  <1>8. QED
    BY <1>2, <1>5, <1>6, <1>7, TypeParts, CommitImplements, VisibleStep

-----------------------------------------------------------------------------
(***************************************************************************)
(* Creation and reconciliation, and the whole specification.               *)
(***************************************************************************)

\* The rows of an execution that does not exist: absent, without output, and
\* locked by nobody.
LEMMA AbsentExecution ==
    ASSUME RInv, NEW w \in Workflow, committed.wf[w] = "NONE"
    PROVE  /\ \A t \in TasksOf(w) : /\ t \in Task
                                    /\ committed.task[t].status = "NONE"
                                    /\ committed.task[t].output = NULL
                                    /\ \A r \in Session : lock[t] # r
           /\ \A r \in Session : lock[w] # r
  <1>1. WP!WorkflowVerdict /\ NoRowNoOutput
    BY DEF RInv, WP!IInv
  <1>2. \A t \in TasksOf(w) : t \in Task /\ committed.task[t].status = "NONE"
    BY <1>1, Columns DEF WP!WorkflowVerdict, WP!TasksOf, TasksOf
  <1>3. QED
    BY <1>1, <1>2, LockedRowsExist DEF NoRowNoOutput

\* The new rows, in either version of the tables.
LEMMA NewRows ==
    ASSUME NEW w \in Workflow, NEW tables \in Tables
    PROVE  /\ with_rows_of(w, tables) \in Tables
           /\ with_rows_of(w, tables).wf = [tables.wf EXCEPT ![w] = "RUNNING"]
           /\ \A t \in Task : with_rows_of(w, tables).task[t] =
                                 IF t \in TasksOf(w) THEN new_row(t) ELSE tables.task[t]
           /\ \A t \in Task : /\ new_row(t).status = "PENDING"
                              /\ new_row(t).remaining_dependencies = Cardinality(Parents[t])
                              /\ new_row(t).remaining_tries = MaxTries[t]
                              /\ new_row(t).output = NULL
  <1>1. \A t \in Task : new_row(t) \in TaskRow
    BY ParentCount, MaxTriesAssumption DEF new_row, TaskRow
  <1>2. /\ with_rows_of(w, tables).wf = [tables.wf EXCEPT ![w] = "RUNNING"]
        /\ with_rows_of(w, tables).task =
              [t \in Task |-> IF t \in TasksOf(w) THEN new_row(t) ELSE tables.task[t]]
        /\ with_rows_of(w, tables) = [wf |-> with_rows_of(w, tables).wf,
                                      task |-> with_rows_of(w, tables).task]
    BY DEF with_rows_of
  <1>3. with_rows_of(w, tables).wf \in [Workflow -> {"NONE", "RUNNING", "COMPLETED", "FAILED"}]
    BY <1>2 DEF Tables
  <1>4. with_rows_of(w, tables).task \in [Task -> TaskRow]
    BY <1>1, <1>2 DEF Tables
  <1>5. with_rows_of(w, tables) \in Tables
    BY <1>2, <1>3, <1>4 DEF Tables
  <1>6. QED
    BY <1>2, <1>5 DEF new_row

\* Creating an execution is create of WorkflowExecutions.
LEMMA CreateImplements ==
    ASSUME RInv, NEW w \in Workflow, NEW answered \in BOOLEAN, create(w, answered)
    PROVE  WP!create(w, answered)
  <1>1. /\ committed \in Tables /\ committed.wf[w] = "NONE"
        /\ committed' = with_rows_of(w, committed)
        /\ reported' = (IF answered THEN reported \cup {t \in TasksOf(w) : Parents[t] = {}}
                                    ELSE reported)
        /\ UNCHANGED completed_meanwhile
    BY DEF RInv, TypeOK, create, history
  <1>2. /\ committed'.wf = [committed.wf EXCEPT ![w] = "RUNNING"]
        /\ \A t \in Task : committed'.task[t] =
              IF t \in TasksOf(w) THEN new_row(t) ELSE committed.task[t]
        /\ \A t \in Task : /\ new_row(t).status = "PENDING"
                           /\ new_row(t).remaining_dependencies = Cardinality(Parents[t])
                           /\ new_row(t).remaining_tries = MaxTries[t]
                           /\ new_row(t).output = NULL
    BY <1>1, NewRows
  <1>3. \A t \in Task : t \in TasksOf(w) <=> t \in WP!TasksOf(w)
    BY DEF TasksOf, WP!TasksOf
  <1>4. \A t \in Task : t \in TasksOf(w) => committed.task[t].output = NULL
    BY <1>1, AbsentExecution
  <1>5. status' = [t \in Task |-> IF t \in WP!TasksOf(w) THEN "PENDING" ELSE status[t]]
    BY <1>2, <1>3, Columns DEF status
  <1>6. remaining_dependencies' =
           [t \in Task |-> IF t \in WP!TasksOf(w) THEN WP!Cardinality(Parents[t])
                                                 ELSE remaining_dependencies[t]]
    BY <1>2, <1>3, ParentCount, Columns DEF remaining_dependencies
  <1>7. remaining_tries' =
           [t \in Task |-> IF t \in WP!TasksOf(w) THEN MaxTries[t] ELSE remaining_tries[t]]
    BY <1>2, <1>3, Columns DEF remaining_tries
  <1>8. output' = output
    BY <1>2, <1>4 DEF output
  <1>9. WP!root_task_ids(w) = {t \in TasksOf(w) : Parents[t] = {}}
    BY DEF WP!root_task_ids, WP!TasksOf, TasksOf
  <1>10. QED
    BY <1>1, <1>2, <1>5, <1>6, <1>7, <1>8, <1>9 DEF WP!create

\* It keeps the invariant.
LEMMA CreateKeeps ==
    ASSUME RInv, NEW w \in Workflow, NEW answered \in BOOLEAN, create(w, answered)
    PROVE  RInv' /\ [WP!Next]_(WP!vars)
  <1>1. /\ TypeOK /\ committed.wf[w] = "NONE"
        /\ committed' = with_rows_of(w, committed) /\ working' = with_rows_of(w, working)
        /\ reported' = (IF answered THEN reported \cup {t \in TasksOf(w) : Parents[t] = {}}
                                    ELSE reported)
        /\ UNCHANGED <<lock, pc, job, todo, found, history>>
    BY DEF RInv, create
  <1>2. [WP!Next]_(WP!vars)
    BY CreateImplements DEF WP!Next
  <1>3. /\ committed' \in Tables /\ working' \in Tables
        /\ committed'.wf = [committed.wf EXCEPT ![w] = "RUNNING"]
        /\ working'.wf = [working.wf EXCEPT ![w] = "RUNNING"]
        /\ \A t \in Task : committed'.task[t] =
              IF t \in TasksOf(w) THEN new_row(t) ELSE committed.task[t]
        /\ \A t \in Task : working'.task[t] =
              IF t \in TasksOf(w) THEN new_row(t) ELSE working.task[t]
        /\ \A t \in Task : new_row(t).status = "PENDING"
    BY <1>1, NewRows DEF TypeOK
  <1>4. /\ committed.wf \in [Workflow -> {"NONE", "RUNNING", "COMPLETED", "FAILED"}]
        /\ working.wf \in [Workflow -> {"NONE", "RUNNING", "COMPLETED", "FAILED"}]
    BY <1>1 DEF TypeOK, Tables
  <1>5. TypeOK'
    <2>1. \A t \in Task : lock'[t] = NULL => working'.task[t] = committed'.task[t]
      BY <1>1, <1>3 DEF TypeOK
    <2>2. \A v \in Workflow : lock'[v] = NULL => working'.wf[v] = committed'.wf[v]
      BY <1>1, <1>3, <1>4 DEF TypeOK
    <2>3. \A t \in TasksOf(w) : t \in Task
      BY DEF TasksOf
    <2>4. reported' \in SUBSET Task
      BY <1>1, <2>3 DEF TypeOK
    <2>5. QED
      BY <1>1, <1>3, <2>1, <2>2, <2>4 DEF TypeOK, history
  <1>6. WP!IInv'
    BY <1>2, ExecutionAssumptions, WP!NextIInv DEF RInv
  <1>7. NoRowNoOutput'
    BY <1>3 DEF RInv, NoRowNoOutput
  <1>8. ASSUME NEW r \in Session
        PROVE  Carrying(r)' /\ Standing(r)'
    <2>1. /\ \A t \in Task : lock[t] = r => t \notin TasksOf(w)
          /\ lock[w] # r
      BY <1>1, AbsentExecution
    <2>2. Frame(r)
      BY <1>1, <1>3, <1>4, <2>1 DEF Frame
    <2>3. QED
      BY <1>2, <2>2, FrameKeeps
  <1>9. QED
    BY <1>2, <1>5, <1>6, <1>7, <1>8 DEF RInv

\* find_runnable_ids is itself in WorkflowExecutions, and keeps the invariant.
LEMMA FindKeeps ==
    ASSUME RInv, find_runnable_ids
    PROVE  RInv' /\ [WP!Next]_(WP!vars)
  <1>1. /\ TypeOK
        /\ reported' = reported \cup {t \in Task : /\ committed.task[t].status = "PENDING"
                                                   /\ committed.task[t].remaining_dependencies = 0}
        /\ UNCHANGED <<committed, working, lock, pc, job, todo, found, history>>
    BY DEF RInv, find_runnable_ids
  <1>2. WP!find_runnable_ids
    <2>1. WP!runnable_ids = {t \in Task : /\ committed.task[t].status = "PENDING"
                                          /\ committed.task[t].remaining_dependencies = 0}
      BY Columns DEF WP!runnable_ids
    <2>2. UNCHANGED <<status, remaining_dependencies, remaining_tries, output>>
      BY <1>1 DEF status, remaining_dependencies, remaining_tries, output
    <2>3. QED
      BY <1>1, <2>1, <2>2 DEF WP!find_runnable_ids, history
  <1>3. [WP!Next]_(WP!vars)
    BY <1>2 DEF WP!Next
  <1>4. TypeOK'
    <2>1. reported' \in SUBSET Task
      BY <1>1 DEF TypeOK
    <2>2. QED
      BY <1>1, <2>1 DEF TypeOK, history
  <1>5. WP!IInv'
    BY <1>3, ExecutionAssumptions, WP!NextIInv DEF RInv
  <1>6. NoRowNoOutput'
    BY <1>1 DEF RInv, NoRowNoOutput
  <1>7. ASSUME NEW r \in Session
        PROVE  Carrying(r)' /\ Standing(r)'
    <2>1. Frame(r)
      BY <1>1 DEF Frame
    <2>2. QED
      BY <1>3, <2>1, FrameKeeps
  <1>8. QED
    BY <1>3, <1>4, <1>5, <1>6, <1>7 DEF RInv

\* The empty database, with every session idle.
LEMMA InitKeeps == Init => RInv /\ WP!Init
  <1> SUFFICES ASSUME Init PROVE RInv /\ WP!Init
    OBVIOUS
  <1>1. NoTables \in Tables
    <2>1. NoRow \in TaskRow
      BY FiniteTasks DEF NoRow, TaskRow
    <2>2. QED
      BY <2>1 DEF NoTables, Tables
  <1>2. /\ NoTables.wf = [w \in Workflow |-> "NONE"]
        /\ \A t \in Task : NoTables.task[t] = NoRow
        /\ NoRow.status = "NONE" /\ NoRow.remaining_dependencies = 0
        /\ NoRow.remaining_tries = 0 /\ NoRow.output = NULL
    BY DEF NoTables, NoRow
  <1>3. TypeOK
    BY <1>1, EmptyList DEF Init, TypeOK, Resting, Rows
  <1>4. WP!Init
    BY <1>2 DEF Init, WP!Init, status, remaining_dependencies, remaining_tries, output
  <1>5. WP!IInv
    BY <1>4, ExecutionAssumptions, WP!InitIInv
  <1>6. NoRowNoOutput
    BY <1>2 DEF Init, NoRowNoOutput
  <1>7. ASSUME NEW s \in Session PROVE Carrying(s) /\ Standing(s)
    <2>1. /\ pc[s] = "idle" /\ job[s] = NULL /\ todo[s] = << >> /\ found[s] = {}
          /\ \A r \in Rows : lock[r] # s
          /\ \A t \in Task : lock[t] # s
      BY RowAssumption DEF Init, Rows
    <2>2. QED
      BY <2>1 DEF Carrying, Standing, NoLocks
  <1>8. QED
    BY <1>3, <1>4, <1>5, <1>6, <1>7 DEF RInv

\* A stutter is a stutter.
LEMMA StutterKeeps == RInv /\ UNCHANGED vars => RInv' /\ UNCHANGED WP!vars
  <1> SUFFICES ASSUME RInv, UNCHANGED vars PROVE RInv' /\ UNCHANGED WP!vars
    OBVIOUS
  <1>1. UNCHANGED <<committed, working, lock, pc, job, todo, found, reported, history>>
    BY DEF vars
  <1>2. UNCHANGED WP!vars
    BY <1>1, NothingVisible DEF history
  <1>3. WP!IInv'
    BY <1>2, ExecutionAssumptions, WP!StutterIInv DEF RInv
  <1>4. TypeOK' /\ NoRowNoOutput'
    BY <1>1 DEF RInv, TypeOK, NoRowNoOutput, history
  <1>5. ASSUME NEW r \in Session PROVE Carrying(r)' /\ Standing(r)'
    <2>1. Frame(r)
      BY <1>1 DEF Frame
    <2>2. QED
      BY <1>2, <2>1, FrameKeeps
  <1>6. QED
    BY <1>2, <1>3, <1>4, <1>5 DEF RInv

\* A statement that is no commit changes no table another session reads.
LEMMA StatementKeeps ==
    ASSUME RInv, NEW s \in Session, step(s)
    PROVE  RInv' /\ [WP!Next]_(WP!vars)
  <1>1. ASSUME NEW answered \in BOOLEAN, commit(s, answered)
        PROVE  RInv' /\ [WP!Next]_(WP!vars)
    BY <1>1, CommitKeeps, CommitImplements
  <1>2. CASE commit_start(s)
    BY <1>2, CommitStartKeeps, CommitStartImplements
  <1>3. CASE start_select(s)
    <2>1. UNCHANGED WP!vars
      BY <1>3, NothingVisible DEF start_select, roll_back, history
    <2>2. QED
      BY <1>3, <2>1, StartSelectKeeps
  <1>4. CASE update_child(s)
    BY <1>4, UpdateChildKeeps, NothingVisible DEF update_child, history
  <1>5. CASE children_updated(s)
    BY <1>5, ChildrenUpdatedKeeps, NothingVisible DEF children_updated, history
  <1>6. CASE complete_workflow_if_finished(s)
    BY <1>6, CompleteWorkflowKeeps, NothingVisible DEF complete_workflow_if_finished, history
  <1>7. CASE fail_workflow(s)
    BY <1>7, FailWorkflowKeeps, NothingVisible DEF fail_workflow, history
  <1>8. CASE cancel_scan(s)
    BY <1>8, CancelScanKeeps, NothingVisible DEF cancel_scan, history
  <1>9. CASE cancel_row(s)
    BY <1>9, CancelRowKeeps, NothingVisible DEF cancel_row, history
  <1>10. CASE cancel_done(s)
    BY <1>10, CancelDoneKeeps, NothingVisible DEF cancel_done, history
  <1>11. QED
    BY <1>1, <1>2, <1>3, <1>4, <1>5, <1>6, <1>7, <1>8, <1>9, <1>10 DEF step

\* A rollback keeps the invariant and cannot be seen.
LEMMA RollBackKeeps ==
    ASSUME RInv, NEW s \in Session, roll_back(s)
    PROVE  RInv' /\ [WP!Next]_(WP!vars)
  BY RolledBack, NothingVisible DEF roll_back, history

\* Every step keeps the invariant and is a step of the execution model, or one
\* it does not see.
LEMMA NextKeeps == RInv /\ [Next]_vars => RInv' /\ [WP!Next]_(WP!vars)
  <1> SUFFICES ASSUME RInv, [Next]_vars PROVE RInv' /\ [WP!Next]_(WP!vars)
    OBVIOUS
  <1>1. ASSUME NEW w \in Workflow, NEW answered \in BOOLEAN, create(w, answered)
        PROVE  RInv' /\ [WP!Next]_(WP!vars)
    BY <1>1, CreateKeeps
  <1>2. CASE find_runnable_ids
    BY <1>2, FindKeeps
  <1>3. ASSUME NEW s \in Session, NEW t \in reported, start_update(s, t)
        PROVE  RInv' /\ [WP!Next]_(WP!vars)
    BY <1>3, StartUpdateKeeps, NothingVisible DEF start_update, history
  <1>4. ASSUME NEW s \in Session, NEW out \in Output, complete_task(s, out)
        PROVE  RInv' /\ [WP!Next]_(WP!vars)
    BY <1>4, CompleteTaskKeeps, NothingVisible DEF complete_task
  <1>5. ASSUME NEW s \in Session, retry_task(s)
        PROVE  RInv' /\ [WP!Next]_(WP!vars)
    BY <1>5, RetryTaskKeeps, NothingVisible DEF retry_task, history
  <1>6. ASSUME NEW s \in Session, step(s)
        PROVE  RInv' /\ [WP!Next]_(WP!vars)
    BY <1>6, StatementKeeps
  <1>7. ASSUME NEW s \in Session,
               plugin_raises(s) \/ connection_lost(s) \/ deadlock_abort(s)
        PROVE  RInv' /\ [WP!Next]_(WP!vars)
    BY <1>7, RollBackKeeps DEF plugin_raises, connection_lost, deadlock_abort
  <1>8. CASE UNCHANGED vars
    BY <1>8, StutterKeeps
  <1>9. QED
    BY <1>1, <1>2, <1>3, <1>4, <1>5, <1>6, <1>7, <1>8 DEF Next

-----------------------------------------------------------------------------
(***************************************************************************)
(* A finished workflow is left RUNNING only by completions that overlap.   *)
(***************************************************************************)

\* A completion about to commit without the workflow's row has met a task that
\* is unfinished, or one whose completion was committed beside it.
Beside(s) ==
    LET t == job[s]
        w == workflow_of[t] IN
    pc[s] = "commit" /\ completes(s) /\ lock[w] # s =>
        \E u \in TasksOf(w) \ {t} : \/ committed.task[u].status # "COMPLETED"
                                    \/ u \in overlapped[t]

OverlapInv ==
    /\ \A s \in Session : Beside(s)
    /\ StuckOnlyByOverlap

\* The transaction that completes a task is the commit of that task's session.
LEMMA CompletingCommit ==
    ASSUME RInv, NEW s \in Session, NEW answered \in BOOLEAN, commit(s, answered),
           NEW u \in Task, committed.task[u].status # "COMPLETED",
           committed'.task[u].status = "COMPLETED"
    PROVE  /\ u = job[s] /\ completes(s) /\ lock[u] = s
           /\ pc[s] = "commit" /\ Completing(s) /\ Judged(s)
  <1>1. /\ TypeOK /\ Standing(s) /\ pc[s] = "commit" /\ job[s] \in Task /\ u \in Rows
        /\ committed.task[u] \in TaskRow /\ committed.task[job[s]] \in TaskRow
        /\ committed'.task[u] = IF lock[u] = s THEN working.task[u] ELSE committed.task[u]
    BY CommitFacts
  <1>2. lock[u] = s /\ working.task[u].status = "COMPLETED"
    BY <1>1
  <1>3. ~NoLocks(s)
    BY <1>1, <1>2 DEF NoLocks
  <1>4. ~Retrying(s)
    <2>1. SUFFICES ASSUME Retrying(s) PROVE FALSE
      OBVIOUS
    <2>2. u = job[s] /\ working.task[u] = tried(committed.task[u], "RUNNING")
          /\ committed.task[u].remaining_tries > 1
      BY <1>1, <1>2, <2>1 DEF Retrying
    <2>3. committed.task[u].remaining_tries > 0
      BY <1>1, <2>2, RowFields
    <2>4. QED
      BY <1>1, <1>2, <2>2, <2>3, RowFields
  <1>5. ~Cancelling(s)
    <2>1. SUFFICES ASSUME Failing(s) PROVE FALSE
      BY DEF Cancelling
    <2>2. CASE u = job[s]
      <3>1. /\ working.task[u] = tried(committed.task[u], "FAILED")
            /\ committed.task[u].remaining_tries > 0
        BY <2>1, <2>2 DEF Failing
      <3>2. QED
        BY <1>1, <1>2, <3>1, RowFields
    <2>3. CASE u # job[s]
      <3>1. working.task[u] = cancelled(committed.task[u])
        BY <1>2, <2>1, <2>3 DEF Failing
      <3>2. QED
        BY <1>1, <1>2, <3>1, RowFields
    <2>4. QED
      BY <2>2, <2>3
  <1>6. Completing(s) /\ Judged(s)
    BY <1>1, <1>3, <1>4, <1>5 DEF Standing
  <1>7. u = job[s]
    <2>1. SUFFICES ASSUME u # job[s] PROVE FALSE
      OBVIOUS
    <2>2. /\ committed.task[u].status = "PENDING"
          /\ committed.task[u].remaining_dependencies > 0
          /\ working.task[u] = released_once(committed.task[u])
      BY <1>2, <1>6, <2>1 DEF Completing
    <2>3. QED
      BY <1>1, <1>2, <2>2, RowFields
  <1>8. QED
    BY <1>1, <1>2, <1>6, <1>7 DEF completes

\* The steps that change the tables other sessions see.
LEMMA StepKinds ==
    ASSUME RInv, Next
    PROVE  \/ \E w \in Workflow, answered \in BOOLEAN : create(w, answered)
           \/ \E s \in Session : commit_start(s)
           \/ \E s \in Session, answered \in BOOLEAN : commit(s, answered)
           \/ UNCHANGED committed
  <1>1. CASE find_runnable_ids
    BY <1>1 DEF find_runnable_ids
  <1>2. ASSUME NEW s \in Session, NEW t \in reported, start_update(s, t)
        PROVE  UNCHANGED committed
    BY <1>2 DEF start_update
  <1>3. ASSUME NEW s \in Session, roll_back(s)
        PROVE  UNCHANGED committed
    BY <1>3 DEF roll_back
  <1>4. ASSUME NEW s \in Session, NEW out \in Output, complete_task(s, out)
        PROVE  UNCHANGED committed
    BY <1>4 DEF complete_task
  <1>5. ASSUME NEW s \in Session, retry_task(s)
        PROVE  UNCHANGED committed
    BY <1>5 DEF retry_task
  <1>6. ASSUME NEW s \in Session, step(s)
        PROVE  \/ commit_start(s)
               \/ \E answered \in BOOLEAN : commit(s, answered)
               \/ UNCHANGED committed
    <2>1. start_select(s) => UNCHANGED committed
      BY DEF start_select, roll_back
    <2>2. update_child(s) \/ children_updated(s) => UNCHANGED committed
      BY DEF update_child, children_updated
    <2>3. complete_workflow_if_finished(s) \/ fail_workflow(s) => UNCHANGED committed
      BY DEF complete_workflow_if_finished, fail_workflow
    <2>4. cancel_scan(s) \/ cancel_row(s) \/ cancel_done(s) => UNCHANGED committed
      BY DEF cancel_scan, cancel_row, cancel_done
    <2>5. QED
      BY <1>6, <2>1, <2>2, <2>3, <2>4 DEF step
  <1>7. ASSUME NEW s \in Session,
               plugin_raises(s) \/ connection_lost(s) \/ deadlock_abort(s)
        PROVE  roll_back(s)
    BY <1>7 DEF plugin_raises, connection_lost, deadlock_abort
  <1>8. QED
    BY <1>1, <1>2, <1>3, <1>4, <1>5, <1>6, <1>7 DEF Next

\* Only a commit completes a task.
LEMMA NewlyCompleted ==
    ASSUME RInv, Next, NEW u \in Task, committed.task[u].status # "COMPLETED",
           committed'.task[u].status = "COMPLETED"
    PROVE  \E s \in Session, answered \in BOOLEAN :
              /\ commit(s, answered)
              /\ u = job[s] /\ completes(s) /\ lock[u] = s
              /\ pc[s] = "commit" /\ Completing(s) /\ Judged(s)
  <1>1. ASSUME NEW w \in Workflow, NEW answered \in BOOLEAN, create(w, answered)
        PROVE  FALSE
    <2>1. /\ committed \in Tables
          /\ committed' = with_rows_of(w, committed)
      BY <1>1 DEF RInv, TypeOK, create
    <2>2. committed'.task[u] = IF u \in TasksOf(w) THEN new_row(u) ELSE committed.task[u]
      BY <2>1 DEF with_rows_of
    <2>3. new_row(u).status = "PENDING"
      BY DEF new_row
    <2>4. QED
      BY <2>2, <2>3
  <1>2. ASSUME NEW s \in Session, commit_start(s)
        PROVE  FALSE
    <2>1. /\ TypeOK /\ Starting(s) /\ committed' = published(s) /\ lock' = unlock_all(s)
          /\ UNCHANGED working
      BY <1>2 DEF RInv, Standing, commit_start
    <2>2. committed'.task[u] = IF lock[u] = s THEN working.task[u] ELSE committed.task[u]
      BY <2>1, Published
    <2>3. lock[u] = s => working.task[u] = started(committed.task[u])
      BY <2>1 DEF Starting, Rows
    <2>4. started(committed.task[u]).status = "RUNNING"
      BY <2>1, RowTypes, RowFields
    <2>5. QED
      BY <2>2, <2>3, <2>4
  <1>3. ASSUME NEW s \in Session, NEW answered \in BOOLEAN, commit(s, answered)
        PROVE  /\ u = job[s] /\ completes(s) /\ lock[u] = s
               /\ pc[s] = "commit" /\ Completing(s) /\ Judged(s)
    BY <1>3, CompletingCommit
  <1>4. committed' # committed
    OBVIOUS
  <1>5. QED
    BY <1>1, <1>2, <1>3, <1>4, StepKinds

\* What is noted of a task is forgotten only when its next completion begins.
LEMMA OverlapsKept ==
    ASSUME RInv, Next, NEW t \in Task,
           lock[t] # NULL \/ committed.task[t].status = "COMPLETED"
    PROVE  overlapped[t] \subseteq overlapped'[t]
  <1>1. TypeOK /\ overlapped \in [Task -> SUBSET Task]
    BY DEF RInv, TypeOK
  <1>2. ASSUME NEW w \in Workflow, NEW answered \in BOOLEAN, create(w, answered)
        PROVE  UNCHANGED overlapped
    BY <1>2 DEF create, history
  <1>3. CASE find_runnable_ids
    BY <1>3 DEF find_runnable_ids, history
  <1>4. ASSUME NEW s \in Session, NEW u \in reported, start_update(s, u)
        PROVE  UNCHANGED overlapped
    BY <1>4 DEF start_update, history
  <1>5. ASSUME NEW s \in Session, roll_back(s)
        PROVE  UNCHANGED overlapped
    BY <1>5 DEF roll_back, history
  <1>6. ASSUME NEW s \in Session, NEW out \in Output, complete_task(s, out)
        PROVE  overlapped[t] \subseteq overlapped'[t]
    <2>1. /\ job[s] \in Task /\ pc[s] = "executing"
          /\ lock[job[s]] # s
      BY <1>6, JobIsReady, AtRest DEF complete_task, Resting
    <2>2. task_row(s, job[s]) = committed.task[job[s]]
      BY <1>1, <2>1, ReadRow
    <2>3. CASE UNCHANGED overlapped
      BY <2>3
    <2>4. CASE /\ complete_task_matches(committed.task[job[s]])
               /\ unlocked(s, job[s])
               /\ overlapped' = [overlapped EXCEPT ![job[s]] = {}]
      <3>1. lock[job[s]] = NULL /\ committed.task[job[s]].status = "RUNNING"
        BY <2>1, <2>4 DEF unlocked, complete_task_matches
      <3>2. t # job[s]
        BY <3>1
      <3>3. QED
        BY <1>1, <2>4, <3>2
    <2>5. QED
      BY <1>6, <2>2, <2>3, <2>4 DEF complete_task, write_task
  <1>7. ASSUME NEW s \in Session, retry_task(s)
        PROVE  UNCHANGED overlapped
    BY <1>7 DEF retry_task, history
  <1>8. ASSUME NEW s \in Session, NEW answered \in BOOLEAN, commit(s, answered)
        PROVE  overlapped[t] \subseteq overlapped'[t]
    BY <1>1, <1>8 DEF commit, note_overlap
  <1>9. ASSUME NEW s \in Session, step(s)
        PROVE  \/ \E answered \in BOOLEAN : commit(s, answered)
               \/ UNCHANGED overlapped
    <2>1. start_select(s) \/ commit_start(s) => UNCHANGED overlapped
      BY DEF start_select, commit_start, roll_back, history
    <2>2. update_child(s) \/ children_updated(s) => UNCHANGED overlapped
      BY DEF update_child, children_updated, history
    <2>3. complete_workflow_if_finished(s) \/ fail_workflow(s) => UNCHANGED overlapped
      BY DEF complete_workflow_if_finished, fail_workflow, history
    <2>4. cancel_scan(s) \/ cancel_row(s) \/ cancel_done(s) => UNCHANGED overlapped
      BY DEF cancel_scan, cancel_row, cancel_done, history
    <2>5. QED
      BY <1>9, <2>1, <2>2, <2>3, <2>4 DEF step
  <1>10. ASSUME NEW s \in Session,
                plugin_raises(s) \/ connection_lost(s) \/ deadlock_abort(s)
         PROVE  roll_back(s)
    BY <1>10 DEF plugin_raises, connection_lost, deadlock_abort
  <1>11. QED
    BY <1>2, <1>3, <1>4, <1>5, <1>6, <1>7, <1>8, <1>9, <1>10 DEF Next

\* A completion that is committed beside an open one is noted there.
LEMMA OverlapNoted ==
    ASSUME RInv, Next, NEW t \in Task, completing(t),
           NEW u \in TasksOf(workflow_of[t]) \ {t}, committed.task[u].status # "COMPLETED",
           committed'.task[u].status = "COMPLETED"
    PROVE  u \in overlapped'[t]
  <1>1. u \in Task /\ workflow_of[u] = workflow_of[t]
    BY DEF TasksOf
  <1>2. PICK s \in Session, answered \in BOOLEAN :
           commit(s, answered) /\ u = job[s] /\ completes(s)
    BY <1>1, NewlyCompleted
  <1>3. overlapped' = note_overlap(s)
    BY <1>2 DEF commit
  <1>4. QED
    BY <1>1, <1>2, <1>3 DEF note_overlap

\* A session that stays at its commit keeps its task and its rows.
LEMMA StandsAtCommit ==
    ASSUME RInv, Next, NEW r \in Session, pc[r] = "commit", pc'[r] = "commit"
    PROVE  /\ job'[r] = job[r]
           /\ \A x \in Rows : lock'[x] = r <=> lock[x] = r
           /\ \A t \in Task : lock[t] = r => working'.task[t] = working.task[t]
  <1>1. /\ TypeOK /\ r # NULL
        /\ pc \in [Session -> Resting \cup Statement]
        /\ job \in [Session -> Task \cup {NULL}]
        /\ lock \in [Rows -> Session \cup {NULL}]
        /\ working \in Tables /\ working.task \in [Task -> TaskRow]
        /\ "idle" # "commit" /\ "executing" # "commit"
    BY RowAssumption DEF RInv, TypeOK, Tables
  <1> DEFINE Stands == /\ job'[r] = job[r]
                       /\ \A x \in Rows : lock'[x] = r <=> lock[x] = r
                       /\ \A t \in Task : lock[t] = r => working'.task[t] = working.task[t]
  <1>2. ASSUME UNCHANGED <<working, lock>> PROVE Stands <=> job'[r] = job[r]
    BY <1>2
  <1>3. ASSUME NEW s \in Session, s # r, NEW t \in Task, NEW row, write_task(s, t, row)
        PROVE  Stands <=> job'[r] = job[r]
    <2>1. /\ t \in Rows /\ lock[t] \in {NULL, s} /\ lock' = [lock EXCEPT ![t] = s]
          /\ working' = [working EXCEPT !.task[t] = row]
      BY <1>3 DEF write_task, unlocked, Rows
    <2>2. \A u \in Task : u # t => working'.task[u] = working.task[u]
      BY <1>1, <2>1 DEF Tables
    <2>3. \A x \in Rows : lock'[x] = r <=> lock[x] = r
      BY <1>1, <1>3, <2>1
    <2>4. QED
      BY <1>1, <1>3, <2>1, <2>2, <2>3
  <1>4. ASSUME NEW s \in Session, s # r, NEW w \in Workflow, NEW state, write_workflow(s, w, state)
        PROVE  Stands <=> job'[r] = job[r]
    <2>1. /\ w \in Rows /\ lock[w] \in {NULL, s} /\ lock' = [lock EXCEPT ![w] = s]
          /\ working' = [working EXCEPT !.wf[w] = state]
      BY <1>4 DEF write_workflow, unlocked, Rows
    <2>2. working'.task = working.task
      BY <1>1, <2>1 DEF Tables
    <2>3. QED
      BY <1>1, <1>4, <2>1, <2>2
  <1>5. ASSUME NEW s \in Session, s # r, lock' = unlock_all(s)
        PROVE  \A x \in Rows : lock'[x] = r <=> lock[x] = r
    BY <1>1, <1>5 DEF unlock_all
  <1>6. ASSUME NEW w \in Workflow, NEW answered \in BOOLEAN, create(w, answered)
        PROVE  Stands
    <2>1. /\ committed.wf[w] = "NONE" /\ UNCHANGED <<lock, job>>
          /\ working' = with_rows_of(w, working)
      BY <1>6 DEF create
    <2>2. \A t \in Task : working'.task[t] = IF t \in TasksOf(w) THEN new_row(t)
                                                               ELSE working.task[t]
      BY <2>1 DEF with_rows_of
    <2>3. \A t \in TasksOf(w) : t \in Task /\ committed.task[t].status = "NONE"
      BY <2>1, AbsentExecution DEF TasksOf
    <2>4. \A t \in Task : lock[t] = r => t \notin TasksOf(w)
      BY <2>3, LockedRowsExist
    <2>5. QED
      BY <2>1, <2>2, <2>4
  <1>7. CASE find_runnable_ids
    BY <1>7 DEF find_runnable_ids
  <1>8. ASSUME NEW s \in Session, NEW t \in reported, start_update(s, t)
        PROVE  Stands
    <2>1. t \in Task /\ s # r /\ job'[r] = job[r]
      BY <1>1, <1>8 DEF start_update, TypeOK
    <2>2. QED
      BY <1>2, <1>3, <1>8, <2>1 DEF start_update, write_nothing
  <1>9. ASSUME NEW s \in Session, roll_back(s)
        PROVE  Stands
    <2>1. /\ s # r /\ job'[r] = job[r]
          /\ lock' = unlock_all(s)
      BY <1>1, <1>9 DEF roll_back, goto
    <2>2. \A t \in Task : working'.task[t] = IF lock[t] = s THEN committed.task[t]
                                                            ELSE working.task[t]
      BY <1>9 DEF roll_back
    <2>3. QED
      BY <1>5, <2>1, <2>2
  <1>10. ASSUME NEW s \in Session, s # r, job[s] \in Task,
                \/ \E out \in Output : complete_task(s, out)
                \/ retry_task(s)
         PROVE  Stands
    <2>1. UNCHANGED job
      BY <1>10 DEF complete_task, retry_task
    <2>2. \/ \E row : write_task(s, job[s], row)
          \/ UNCHANGED <<working, lock>>
      BY <1>10 DEF complete_task, retry_task, write_nothing
    <2>3. QED
      BY <1>2, <1>3, <1>10, <2>1, <2>2
  <1>11. ASSUME NEW s \in Session, step(s)
         PROVE  Stands
    <2>1. s # r \/ \E answered \in BOOLEAN : commit(s, answered)
      BY <1>11 DEF step, start_select, commit_start, update_child, children_updated,
                   complete_workflow_if_finished, fail_workflow, cancel_scan, cancel_row,
                   cancel_done
    <2>2. s # r
      BY <1>1, <2>1 DEF commit, goto
    <2>3. pc[s] \in Statement
      BY <1>11 DEF step, start_select, commit_start, update_child, children_updated,
                   complete_workflow_if_finished, fail_workflow, cancel_scan, cancel_row,
                   cancel_done, commit, Statement
    <2>4. job[s] \in Task /\ workflow_of[job[s]] \in Workflow
      BY <2>3, JobIsReady DEF Statement
    <2>5. CASE start_select(s)
      <3>1. roll_back(s) \/ UNCHANGED <<working, lock, job>>
        BY <2>5 DEF start_select
      <3>2. QED
        BY <1>2, <1>9, <3>1
    <2>6. CASE commit_start(s)
      BY <1>5, <2>2, <2>6 DEF commit_start
    <2>7. CASE update_child(s)
      <3>1. /\ UNCHANGED job
            /\ todo[s] \in Seq(Task) /\ todo[s] # << >>
            /\ \/ \E row : write_task(s, Head(todo[s]), row)
               \/ UNCHANGED <<working, lock>>
        BY <1>1, <2>7 DEF update_child, TypeOK, write_nothing
      <3>2. Head(todo[s]) \in Task
        BY <3>1, HeadAndTail
      <3>3. QED
        BY <1>2, <1>3, <2>2, <3>1, <3>2
    <2>8. CASE children_updated(s) \/ cancel_scan(s) \/ cancel_done(s)
      BY <1>2, <2>8 DEF children_updated, cancel_scan, cancel_done
    <2>9. CASE complete_workflow_if_finished(s) \/ fail_workflow(s)
      <3>1. /\ UNCHANGED job
            /\ \/ \E state : write_workflow(s, workflow_of[job[s]], state)
               \/ UNCHANGED <<working, lock>>
        BY <2>9 DEF complete_workflow_if_finished, fail_workflow, write_nothing
      <3>2. QED
        BY <1>2, <1>4, <2>2, <2>4, <3>1
    <2>10. CASE cancel_row(s)
      <3>1. /\ UNCHANGED job
            /\ todo[s] \in Seq(Task) /\ todo[s] # << >>
            /\ \/ \E row : write_task(s, Head(todo[s]), row)
               \/ UNCHANGED <<working, lock>>
        BY <1>1, <2>10 DEF cancel_row, TypeOK, write_nothing
      <3>2. Head(todo[s]) \in Task
        BY <3>1, HeadAndTail
      <3>3. QED
        BY <1>2, <1>3, <2>2, <3>1, <3>2
    <2>11. ASSUME NEW answered \in BOOLEAN, commit(s, answered)
           PROVE  Stands
      <3>1. lock' = unlock_all(s) /\ UNCHANGED working /\ job'[r] = job[r]
        BY <1>1, <2>2, <2>11 DEF commit
      <3>2. QED
        BY <1>5, <2>2, <3>1
    <2>12. QED
      BY <1>11, <2>5, <2>6, <2>7, <2>8, <2>9, <2>10, <2>11 DEF step
  <1>12. ASSUME NEW s \in Session,
                plugin_raises(s) \/ connection_lost(s) \/ deadlock_abort(s)
         PROVE  Stands
    BY <1>9, <1>12 DEF plugin_raises, connection_lost, deadlock_abort
  <1>13. ASSUME NEW s \in Session,
                (\E out \in Output : complete_task(s, out)) \/ retry_task(s)
         PROVE  Stands
    <2>1. pc[s] = "executing"
      BY <1>13 DEF complete_task, retry_task
    <2>2. s # r /\ job[s] \in Task
      BY <2>1, JobIsReady
    <2>3. QED
      BY <1>10, <1>13, <2>2
  <1>14. QED
    BY <1>6, <1>7, <1>8, <1>11, <1>12, <1>13 DEF Next

\* A completion arrives at its commit from the check of the workflow.
LEMMA ArrivesAtCommit ==
    ASSUME RInv, Next, NEW r \in Session, pc[r] # "commit", pc'[r] = "commit", completes(r)'
    PROVE  complete_workflow_if_finished(r)
  <1>1. /\ TypeOK /\ pc \in [Session -> Resting \cup Statement]
        /\ lock'[job'[r]] = r /\ working'.task[job'[r]].status = "COMPLETED"
    BY DEF RInv, TypeOK, completes
  <1>2. ASSUME NEW s \in Session, NEW out \in Output, complete_task(s, out)
        PROVE  FALSE
    <2>1. s = r /\ pc[r] = "executing" /\ pc' # [pc EXCEPT ![r] = "update_child"]
      BY <1>1, <1>2 DEF complete_task, goto
    <2>2. write_nothing /\ UNCHANGED job
      BY <1>2, <2>1 DEF complete_task, goto
    <2>3. lock[job[r]] = r /\ job[r] \in Task
      BY <1>1, <2>1, <2>2, JobIsReady DEF write_nothing
    <2>4. QED
      BY <2>1, <2>3, AtRest DEF Resting
  <1>3. ASSUME NEW s \in Session, retry_task(s)
        PROVE  FALSE
    <2>1. s = r /\ pc[r] = "executing" /\ UNCHANGED job /\ job[r] \in Task
      BY <1>1, <1>3, JobIsReady DEF retry_task, goto
    <2>2. lock[job[r]] # r
      BY <2>1, AtRest DEF Resting
    <2>3. ~write_nothing
      BY <1>1, <2>1, <2>2 DEF write_nothing
    <2>4. PICK row \in TaskRow : /\ row = task_row(r, job[r])
      BY <1>1, <2>1, ReadRow
    <2>5. /\ retry_matches(row) /\ row.remaining_tries > 1
          /\ write_task(r, job[r], tried(row, "RUNNING"))
      <3>1. /\ retry_matches(row)
            /\ goto(r, IF row.remaining_tries > 1 THEN "commit" ELSE "fail_workflow")
            /\ write_task(r, job[r], tried(row, IF row.remaining_tries > 1 THEN "RUNNING"
                                                                         ELSE "FAILED"))
        BY <1>3, <2>1, <2>3, <2>4 DEF retry_task, tried
      <3>2. row.remaining_tries > 1
        BY <1>1, <2>1, <3>1 DEF goto
      <3>3. QED
        BY <3>1, <3>2
    <2>6. /\ tried(row, "RUNNING") \in TaskRow
          /\ tried(row, "RUNNING").status = "RUNNING"
      BY <2>5, RowFields DEF retry_matches
    <2>7. QED
      BY <1>1, <2>1, <2>5, <2>6, WroteTask
  <1>4. ASSUME NEW s \in Session, fail_workflow(s) \/ cancel_done(s)
        PROVE  FALSE
    <2>1. s = r /\ UNCHANGED <<working, job>> /\ pc[r] \in {"fail_workflow", "cancel_row"}
      BY <1>1, <1>4 DEF fail_workflow, cancel_done, goto, write_nothing
    <2>2. Failing(r) /\ job[r] \in Task /\ committed.task[job[r]] \in TaskRow
      BY <1>1, <2>1, JobIsReady, RowTypes DEF RInv, Standing, Cancelling
    <2>3. /\ working.task[job[r]] = tried(committed.task[job[r]], "FAILED")
          /\ committed.task[job[r]].remaining_tries > 0
      BY <2>2 DEF Failing
    <2>4. working.task[job[r]].status = "FAILED"
      BY <2>2, <2>3, RowFields
    <2>5. QED
      BY <1>1, <2>1, <2>4
  <1>5. ASSUME NEW s \in Session, step(s)
        PROVE  complete_workflow_if_finished(r)
    <2>1. ~start_select(s)
      BY <1>1 DEF start_select, roll_back, goto
    <2>2. ~commit_start(s) /\ ~(\E answered \in BOOLEAN : commit(s, answered))
      BY <1>1 DEF commit_start, commit, goto
    <2>3. ~update_child(s) /\ ~children_updated(s)
      BY <1>1 DEF update_child, children_updated, goto
    <2>4. ~cancel_scan(s) /\ ~cancel_row(s)
      BY <1>1 DEF cancel_scan, cancel_row, goto
    <2>5. complete_workflow_if_finished(s)
      BY <1>4, <1>5, <2>1, <2>2, <2>3, <2>4 DEF step
    <2>6. s = r
      BY <1>1, <2>5 DEF complete_workflow_if_finished, goto
    <2>7. QED
      BY <2>5, <2>6
  <1>6. ASSUME NEW s \in Session, roll_back(s)
        PROVE  FALSE
    BY <1>1, <1>6 DEF roll_back, goto
  <1>7. ASSUME NEW s \in Session, NEW t \in reported, start_update(s, t)
        PROVE  FALSE
    BY <1>1, <1>7 DEF start_update, goto
  <1>8. ASSUME NEW s \in Session,
               plugin_raises(s) \/ connection_lost(s) \/ deadlock_abort(s)
        PROVE  FALSE
    BY <1>6, <1>8 DEF plugin_raises, connection_lost, deadlock_abort
  <1>9. /\ \A w \in Workflow, answered \in BOOLEAN : ~create(w, answered)
        /\ ~find_runnable_ids
    BY DEF create, find_runnable_ids
  <1>10. QED
    BY <1>2, <1>3, <1>5, <1>7, <1>8, <1>9 DEF Next

\* What a completion has met stays met until it commits.
LEMMA BesideKeeps ==
    ASSUME RInv, RInv', Next, NEW r \in Session, Beside(r)
    PROVE  Beside(r)'
  <1> DEFINE t == job'[r]
             w == workflow_of[t]
  <1>1. SUFFICES ASSUME pc'[r] = "commit", completes(r)', lock'[w] # r
                 PROVE  \E u \in TasksOf(w) \ {t} : \/ committed'.task[u].status # "COMPLETED"
                                                    \/ u \in overlapped'[t]
    BY DEF Beside
  <1>2. CASE pc[r] = "commit"
    <2>1. /\ job[r] = t
          /\ \A x \in Rows : lock'[x] = r <=> lock[x] = r
          /\ \A u \in Task : lock[u] = r => working'.task[u] = working.task[u]
      BY <1>1, <1>2, StandsAtCommit
    <2>2. t \in Task /\ w \in Workflow /\ t \in Rows /\ w \in Rows
      BY <1>2, <2>1, JobIsReady DEF Rows
    <2>3. /\ lock[t] = r /\ working.task[t].status = "COMPLETED" /\ lock[w] # r
          /\ r # NULL
      BY <1>1, <2>1, <2>2, RowAssumption DEF completes
    <2>4. completing(t) /\ completes(r)
      BY <2>1, <2>3 DEF completing, completes
    <2>5. PICK u \in TasksOf(w) \ {t} : committed.task[u].status # "COMPLETED" \/ u \in overlapped[t]
      BY <1>2, <2>1, <2>3, <2>4 DEF Beside
    <2>6. overlapped[t] \subseteq overlapped'[t]
      BY <2>2, <2>3, OverlapsKept
    <2>7. committed.task[u].status # "COMPLETED" /\ committed'.task[u].status = "COMPLETED"
             => u \in overlapped'[t]
      BY <2>2, <2>4, OverlapNoted
    <2> HIDE DEF t, w
    <2>8. QED
      BY <2>5, <2>6, <2>7
  <1>3. CASE pc[r] # "commit"
    <2>1. complete_workflow_if_finished(r)
      BY <1>1, <1>3, ArrivesAtCommit
    <2>2. pc[r] = "complete_workflow" /\ t = job[r] /\ UNCHANGED committed
      BY <2>1 DEF complete_workflow_if_finished
    <2>3. ~workflow_matches(r, w)
      <3>1. SUFFICES ASSUME write_workflow(r, w, "COMPLETED") PROVE FALSE
        BY <2>1, <2>2 DEF complete_workflow_if_finished
      <3>2. TypeOK /\ w \in Workflow
        BY <2>2, CheckReads DEF RInv
      <3>3. QED
        BY <1>1, <3>1, <3>2, WroteWorkflow
    <2>4. /\ workflow_row(r, w) = "RUNNING"
          /\ \A u \in TasksOf(w) : u # t =>
                (task_row(r, u).status = "COMPLETED" <=> committed.task[u].status = "COMPLETED")
          /\ task_row(r, t).status = "COMPLETED"
      BY <2>2, CheckReads
    <2>5. \E u \in TasksOf(w) : u # t /\ committed.task[u].status # "COMPLETED"
      BY <2>3, <2>4 DEF workflow_matches
    <2>6. QED
      BY <2>2, <2>5
  <1>4. QED
    BY <1>2, <1>3

\* A finished workflow becomes RUNNING in no step, and is left RUNNING by none
\* whose completion met no other.
LEMMA StuckKeeps ==
    ASSUME RInv, Next, OverlapInv
    PROVE  StuckOnlyByOverlap'
  <1>1. SUFFICES ASSUME NEW w \in Workflow, committed'.wf[w] = "RUNNING",
                        \A t \in TasksOf(w) : committed'.task[t].status = "COMPLETED"
                 PROVE  \E t \in TasksOf(w) : overlapped'[t] # {}
    BY DEF StuckOnlyByOverlap
  <1>2. /\ TypeOK
        /\ \A t \in TasksOf(w) : t \in Task /\ workflow_of[t] = w
        /\ \E t \in Task : t \in TasksOf(w)
    BY TaskOrderAssumption DEF RInv, TasksOf
  <1>3. CASE \E t \in TasksOf(w) : committed.task[t].status # "COMPLETED"
    <2>1. PICK t \in TasksOf(w) : committed.task[t].status # "COMPLETED"
      BY <1>3
    <2>2. PICK s \in Session, answered \in BOOLEAN :
             /\ commit(s, answered)
             /\ t = job[s] /\ completes(s) /\ lock[t] = s
             /\ pc[s] = "commit" /\ Completing(s) /\ Judged(s)
      BY <1>1, <1>2, <2>1, NewlyCompleted
    <2>3. lock[w] # s
      <3>1. SUFFICES ASSUME lock[w] = s PROVE FALSE
        OBVIOUS
      <3>2. committed'.wf[w] = working.wf[w]
        BY <2>2, <3>1, CommitFacts
      <3>3. working.wf[w] = "COMPLETED"
        BY <1>2, <2>2, <3>1 DEF Judged
      <3>4. QED
        BY <1>1, <3>2, <3>3
    <2>4. PICK u \in TasksOf(w) \ {t} : \/ committed.task[u].status # "COMPLETED"
                                        \/ u \in overlapped[t]
      BY <1>2, <2>2, <2>3 DEF OverlapInv, Beside
    <2>5. committed.task[u].status = "COMPLETED"
      <3>1. committed'.task[u] = IF lock[u] = s THEN working.task[u] ELSE committed.task[u]
        BY <1>2, <2>2, CommitFacts
      <3>2. committed.task[u].status # "COMPLETED" => u = job[s]
        BY <1>1, <1>2, <2>2, CompletingCommit
      <3>3. QED
        BY <2>2, <2>4, <3>2
    <2>6. overlapped[t] \subseteq overlapped'[t]
      BY <1>2, <2>2, OverlapsKept, RowAssumption
    <2>7. QED
      BY <2>4, <2>5, <2>6
  <1>4. CASE \A t \in TasksOf(w) : committed.task[t].status = "COMPLETED"
    <2>1. CASE committed.wf[w] = "RUNNING"
      <3>1. PICK t \in TasksOf(w) : overlapped[t] # {}
        BY <1>4, <2>1 DEF OverlapInv, StuckOnlyByOverlap
      <3>2. overlapped[t] \subseteq overlapped'[t]
        BY <1>2, <1>4, OverlapsKept
      <3>3. QED
        BY <3>1, <3>2
    <2>2. CASE committed.wf[w] # "RUNNING"
      <3>1. ASSUME NEW v \in Workflow, NEW answered \in BOOLEAN, create(v, answered)
            PROVE  FALSE
        <4>1. /\ committed \in Tables /\ committed.wf[v] = "NONE"
              /\ committed' = with_rows_of(v, committed)
          BY <1>2, <3>1 DEF TypeOK, create
        <4>2. committed'.wf = [committed.wf EXCEPT ![v] = "RUNNING"]
          BY <4>1 DEF with_rows_of
        <4>3. v = w
          BY <1>1, <2>2, <4>1, <4>2 DEF Tables
        <4>4. \A t \in TasksOf(w) : committed.task[t].status = "NONE"
          BY <4>1, <4>3, AbsentExecution
        <4>5. QED
          BY <1>2, <1>4, <4>4
      <3>2. ASSUME NEW s \in Session, commit_start(s)
            PROVE  FALSE
        <4>1. /\ Starting(s) /\ pc[s] = "commit_start" /\ committed' = published(s)
              /\ lock' = unlock_all(s) /\ UNCHANGED working
          BY <3>2 DEF RInv, Standing, commit_start
        <4>2. committed'.wf[w] = IF lock[w] = s THEN working.wf[w] ELSE committed.wf[w]
          BY <4>1, Published
        <4>3. job[s] \in Task
          BY <4>1, JobIsReady
        <4>4. lock[w] # s
          BY <4>1, <4>3, RowAssumption DEF Starting, Rows
        <4>5. QED
          BY <1>1, <2>2, <4>2, <4>4
      <3>3. ASSUME NEW s \in Session, NEW answered \in BOOLEAN, commit(s, answered)
            PROVE  FALSE
        <4>1. /\ Standing(s) /\ pc[s] = "commit" /\ job[s] \in Task
              /\ committed'.wf[w] = IF lock[w] = s THEN working.wf[w] ELSE committed.wf[w]
          BY <3>3, CommitFacts
        <4>2. lock[w] = s /\ working.wf[w] = "RUNNING"
          BY <1>1, <2>2, <4>1
        <4>3. ~NoLocks(s)
          BY <4>2 DEF NoLocks, Rows
        <4>4. ~(Completing(s) /\ Judged(s))
          BY <4>2 DEF Judged
        <4>5. ~Retrying(s)
          BY <4>1, <4>2, RowAssumption DEF Retrying, Rows
        <4>6. ~Cancelling(s)
          BY <4>2 DEF Cancelling
        <4>7. QED
          BY <4>1, <4>3, <4>4, <4>5, <4>6 DEF Standing
      <3>4. QED
        BY <1>1, <2>2, <3>1, <3>2, <3>3, StepKinds
    <2>3. QED
      BY <2>1, <2>2
  <1>5. QED
    BY <1>3, <1>4

\* Initially nothing runs and no session is at a commit.
LEMMA OverlapInit == Init => OverlapInv
  <1>1. \A w \in Workflow : NoTables.wf[w] = "NONE"
    BY DEF NoTables
  <1>2. QED
    BY <1>1 DEF Init, OverlapInv, Beside, StuckOnlyByOverlap

\* No step breaks the invariant.
LEMMA OverlapNext == RInv /\ RInv' /\ OverlapInv /\ [Next]_vars => OverlapInv'
  <1>1. ASSUME RInv, RInv', OverlapInv, Next PROVE OverlapInv'
    BY <1>1, BesideKeeps, StuckKeeps DEF OverlapInv
  <1>2. ASSUME OverlapInv, UNCHANGED vars PROVE OverlapInv'
    BY <1>2 DEF OverlapInv, Beside, StuckOnlyByOverlap, vars, history, completes
  <1>3. QED
    BY <1>1, <1>2

-----------------------------------------------------------------------------
(***************************************************************************)
(* The theorems.                                                           *)
(***************************************************************************)

\* The inductive invariant holds in every reachable state.
LEMMA Invariance == Spec => []RInv
  BY InitKeeps, NextKeeps, PTL DEF Spec

\* Every variable keeps its type, and no row differs from its committed version
\* without a lock (the write statements of repository.py).
THEOREM TransactionsTypeCorrect == Spec => []TypeOK
  <1>1. RInv => TypeOK
    BY DEF RInv
  <1>2. QED
    BY Invariance, <1>1, PTL

\* _complete_workflow_if_finished misses the end of a workflow only when the
\* transactions that complete two of its tasks are open at the same time: if
\* every completion begins after the others have committed, the last one
\* completes the workflow.
THEOREM StuckNeedsOverlap == Spec => []StuckOnlyByOverlap
  <1>1. RInv /\ OverlapInv /\ [Next]_vars => OverlapInv'
    BY NextKeeps, OverlapNext
  <1>2. OverlapInv => StuckOnlyByOverlap
    BY DEF OverlapInv
  <1>3. QED
    BY <1>1, <1>2, OverlapInit, Invariance, PTL DEF Spec

\* The two instances of the execution model are the same specification.
LEMMA SameInit == WP!Init <=> WE!Init
  BY DEF WP!Init, WE!Init

\* The two instances of WorkflowExecutions have the same steps.
LEMMA SameNext == WP!Next <=> WE!Next
  BY DEF WP!Next, WE!Next, WP!create, WE!create, WP!root_task_ids, WE!root_task_ids,
         WP!TasksOf, WE!TasksOf, WP!Cardinality, WE!Cardinality,
         WP!find_runnable_ids, WE!find_runnable_ids, WP!runnable_ids, WE!runnable_ids,
         WP!start_task, WE!start_task, WP!parent_outputs_present, WE!parent_outputs_present,
         WP!complete_task, WE!complete_task, WP!completable, WE!completable,
         WP!update_child_dependencies, WE!update_child_dependencies,
         WP!decremented, WE!decremented, WP!children, WE!children,
         WP!released, WE!released, WP!unfinished, WE!unfinished,
         WP!complete_workflow_if_finished, WE!complete_workflow_if_finished,
         WP!note_completion, WE!note_completion,
         WP!retry_task, WE!retry_task, WP!retriable, WE!retriable,
         WP!tries_left, WE!tries_left, WP!fail_workflow, WE!fail_workflow,
         WP!cancelled, WE!cancelled, WP!Active, WE!Active

\* The SQL statements of start_task, complete_task and retry_task, interleaved
\* in any way, crashed and rolled back anywhere, make up the transactions of
\* WorkflowExecutions.
THEOREM TransactionsImplementExecutions == Spec => ImplementsWorkflowExecutions
  <1>1. Init => WE!Init
    BY InitKeeps, SameInit
  <1>2. RInv /\ [Next]_vars => [WE!Next]_(WE!vars)
    BY NextKeeps, SameNext DEF WP!vars, WE!vars
  <1>3. QED
    BY Invariance, <1>1, <1>2, PTL DEF Spec, ImplementsWorkflowExecutions, WE!Spec

-----------------------------------------------------------------------------

\* What a session waits for, by the statement it is at.
LEMMA WaitsAt ==
    ASSUME NEW s \in Session, NEW r \in waits_for(s)
    PROVE  /\ r # s /\ r # NULL
           /\ pc[s] \in {"update_child", "cancel_row", "fail_workflow", "complete_workflow"}
           /\ pc[s] = "update_child" =>
                /\ todo[s] # << >> /\ child_matches(task_row(s, Head(todo[s])))
                /\ r = lock[Head(todo[s])]
           /\ pc[s] = "complete_workflow" =>
                /\ workflow_matches(s, workflow_of[job[s]])
                /\ r = lock[workflow_of[job[s]]]
  <1>1. PICK x \in awaited(s) : r = lock[x] /\ r \notin {NULL, s}
    BY DEF waits_for
  <1>2. CASE pc[s] = "update_child"
    <2>1. CASE todo[s] # << >> /\ child_matches(task_row(s, Head(todo[s])))
      <3>1. awaited(s) = {Head(todo[s])}
        BY <1>2, <2>1 DEF awaited
      <3>2. QED
        BY <1>1, <1>2, <2>1, <3>1
    <2>2. CASE ~(todo[s] # << >> /\ child_matches(task_row(s, Head(todo[s]))))
      <3>1. awaited(s) = {}
        BY <1>2, <2>2 DEF awaited
      <3>2. QED
        BY <1>1, <3>1
    <2>3. QED
      BY <2>1, <2>2
  <1>3. CASE pc[s] = "complete_workflow"
    <2>1. CASE workflow_matches(s, workflow_of[job[s]])
      <3>1. awaited(s) = {workflow_of[job[s]]}
        BY <1>3, <2>1 DEF awaited
      <3>2. QED
        BY <1>1, <1>3, <2>1, <3>1
    <2>2. CASE ~workflow_matches(s, workflow_of[job[s]])
      <3>1. awaited(s) = {}
        BY <1>3, <2>2 DEF awaited
      <3>2. QED
        BY <1>1, <3>1
    <2>3. QED
      BY <2>1, <2>2
  <1>4. CASE pc[s] \in {"cancel_row", "fail_workflow"}
    BY <1>1, <1>4
  <1>5. CASE pc[s] \notin {"update_child", "cancel_row", "fail_workflow", "complete_workflow"}
    <2>1. awaited(s) = {}
      BY <1>5 DEF awaited
    <2>2. QED
      BY <1>1, <2>1
  <1>6. QED
    BY <1>2, <1>3, <1>4, <1>5

\* The holder of a workflow row has its task's committed row still RUNNING, and
\* has locked that row too.
LEMMA WorkflowHolder ==
    ASSUME RInv, NEW r \in Session, NEW w \in Workflow, lock[w] = r
    PROVE  /\ job[r] \in TasksOf(w) /\ lock[job[r]] = r
           /\ committed.task[job[r]].status = "RUNNING"
           /\ \/ Cancelling(r)
              \/ \A u \in TasksOf(w) : u # job[r] => committed.task[u].status = "COMPLETED"
  <1>1. Standing(r) /\ pc[r] \in Resting \cup Statement /\ w \in Rows /\ ~NoWorkflowLock(r)
    BY DEF RInv, TypeOK, Rows, NoWorkflowLock
  <1>2. ~NoLocks(r)
    BY <1>1 DEF NoLocks
  <1>3. pc[r] # "idle"
    BY <1>1, <1>2 DEF Standing, Resting
  <1>4. job[r] \in Task /\ job[r] \in TasksOf(workflow_of[job[r]]) /\ job[r] # w
    BY <1>3, JobIsReady, RowAssumption
  <1>5. ~Starting(r) /\ ~Retrying(r)
    BY <1>1, <1>4 DEF Starting, Retrying
  <1>6. CASE Completing(r) /\ Judged(r)
    BY <1>4, <1>6 DEF Completing, Judged
  <1>7. CASE Cancelling(r)
    BY <1>4, <1>7 DEF Cancelling, Failing
  <1>8. QED
    BY <1>1, <1>2, <1>5, <1>6, <1>7 DEF Standing, Resting, Statement

\* No transaction waits for the row of the workflow when it completes it.
LEMMA CheckNeverWaits ==
    ASSUME RInv, NEW s \in Session, pc[s] = "complete_workflow"
    PROVE  waits_for(s) = {}
  <1> DEFINE t == job[s]
             w == workflow_of[t]
  <1>1. SUFFICES ASSUME NEW r \in waits_for(s) PROVE FALSE
    OBVIOUS
  <1>2. TypeOK /\ Completing(s)
    BY DEF RInv, Standing
  <1>3. /\ t \in Task /\ w \in Workflow /\ t \in TasksOf(w)
        /\ lock[t] = s /\ committed.task[t].status = "RUNNING"
    BY <1>2, JobIsReady DEF Completing
  <1>4. workflow_matches(s, w) /\ r = lock[w] /\ r # s /\ r # NULL
    BY WaitsAt
  <1>5. r \in Session
    BY <1>2, <1>3, <1>4 DEF TypeOK, Rows
  <1>6. /\ job[r] \in TasksOf(w) /\ lock[job[r]] = r
        /\ committed.task[job[r]].status = "RUNNING"
    BY <1>3, <1>4, <1>5, WorkflowHolder
  <1>7. task_row(s, job[r]).status = "RUNNING"
    BY <1>2, <1>4, <1>6, ReadRow DEF TasksOf
  <1>8. QED
    BY <1>4, <1>6, <1>7 DEF workflow_matches

\* The NOT EXISTS at the end of complete_task never waits for the workflow row,
\* so what it reads is never older than the row it updates.
THEOREM CompletionNeverWaits == Spec => []CompletionCheckNeverWaits
  <1>1. RInv => CompletionCheckNeverWaits
    BY CheckNeverWaits DEF CompletionCheckNeverWaits
  <1>2. QED
    BY Invariance, <1>1, PTL

\* A set of natural numbers has a least one.
LEMMA LeastNat ==
    ASSUME NEW T \in SUBSET Nat, T # {}
    PROVE  \E x \in T : \A y \in T : x <= y
  <1> DEFINE R == OpToRel(<, Nat)
  <1>1. IsWellFoundedOn(R, Nat)
    BY NatLessThanWellFounded
  <1>2. \A x, y \in Nat : x < y => <<x, y>> \in R
    BY DEF OpToRel
  <1> HIDE DEF R
  <1>3. PICK x \in T : \A y \in T : ~ (<<y, x>> \in R)
    BY <1>1, WFMin
  <1>4. ASSUME NEW y \in T PROVE x <= y
    <2>1. x \in Nat /\ y \in Nat /\ ~(y < x)
      BY <1>2, <1>3
    <2>2. QED
      BY <2>1
  <1>5. QED
    BY <1>4

\* A completion that waits for a child, waited for itself by a completion: the
\* second waits for a child that comes first.
LEMMA WaitersComeFirst ==
    ASSUME RInv, NEW s \in Session, NEW r \in Session,
           pc[s] = "update_child", pc[r] = "update_child",
           r \in waits_for(s), todo[r] # << >>
    PROVE  before(Head(todo[s]), Head(todo[r]))
  <1>1. /\ todo[s] # << >> /\ child_matches(task_row(s, Head(todo[s])))
        /\ r = lock[Head(todo[s])] /\ r # s
    BY WaitsAt
  <1>2. TypeOK /\ Completing(r)
    BY DEF RInv, Standing
  <1>3. Head(todo[s]) \in Task /\ Head(todo[r]) \in ToSet(todo[r])
    BY <1>1, <1>2, HeadAndTail DEF TypeOK
  <1>4. committed.task[Head(todo[s])].status = "PENDING"
    BY <1>1, <1>2, <1>3, ReadRow DEF child_matches
  <1>5. Head(todo[s]) # job[r]
    BY <1>2, <1>4 DEF Completing
  <1>6. QED
    BY <1>1, <1>2, <1>3, <1>5 DEF Completing

\* In a circle of completions, the one that waits at the first row of the order
\* would itself be waited for at an earlier one.
LEMMA CirclesNeedFailure == RInv => DeadlockNeedsFailure
  <1> SUFFICES ASSUME RInv, NEW D \in SUBSET Session, circle(D),
                      \A s \in D : pc[s] \notin {"fail_workflow", "cancel_row"}
               PROVE  FALSE
    BY DEF DeadlockNeedsFailure
  <1>1. ASSUME NEW s \in D, NEW r \in waits_for(s)
        PROVE  pc[s] = "update_child" /\ todo[s] # << >>
    BY <1>1, WaitsAt, CheckNeverWaits
  <1>2. \A r \in D : \E s \in D : r \in waits_for(s)
    BY DEF circle
  <1>3. \A s \in D : waits_for(s) \subseteq D
    BY DEF circle
  <1> DEFINE Waiter(s) == s \in D /\ waits_for(s) # {}
             at(i, s) == TaskOrder[i] = Head(todo[s])
             T == {i \in DOMAIN TaskOrder : \E s \in D : Waiter(s) /\ at(i, s)}
  <1>4. DOMAIN TaskOrder \subseteq Nat
    BY TaskOrderAssumption, LenProperties
  <1>5. ASSUME NEW s \in D, Waiter(s)
        PROVE  \E i \in T : at(i, s)
    <2>1. pc[s] = "update_child" /\ todo[s] # << >>
      BY <1>1, <1>5
    <2>2. Head(todo[s]) \in Task
      BY <2>1, HeadAndTail DEF RInv, TypeOK
    <2>3. \E i \in DOMAIN TaskOrder : TaskOrder[i] = Head(todo[s])
      BY <2>2, TaskOrderAssumption DEF Range
    <2>4. QED
      BY <1>5, <2>3
  <1>6. \E s \in D : Waiter(s)
    BY <1>2 DEF circle
  <1>7. T # {} /\ T \in SUBSET Nat
    BY <1>4, <1>5, <1>6
  <1>8. PICK i \in T : \A j \in T : i <= j
    BY <1>7, LeastNat
  <1>9. PICK r \in D : Waiter(r) /\ at(i, r)
    BY <1>8
  <1>10. PICK s \in D : r \in waits_for(s)
    BY <1>2
  <1>11. before(Head(todo[s]), Head(todo[r]))
    BY <1>1, <1>9, <1>10, WaitersComeFirst
  <1>12. PICK k, l \in DOMAIN TaskOrder : /\ k < l /\ TaskOrder[k] = Head(todo[s])
                                          /\ TaskOrder[l] = Head(todo[r])
    BY <1>11 DEF before
  <1>13. l = i
    BY <1>8, <1>9, <1>12, TaskOrderAssumption DEF IsInjective
  <1>14. k \in T
    BY <1>10, <1>12
  <1>15. k \in Nat /\ i \in Nat /\ i <= k /\ k < i
    BY <1>4, <1>8, <1>12, <1>13, <1>14
  <1>16. QED
    BY <1>15

\* Sessions that wait in a circle include one that fails a workflow: parents
\* update shared children in one order (_create_child_task_lookup).
THEOREM CompletionsNeverDeadlock == Spec => []DeadlockNeedsFailure
  BY Invariance, CirclesNeedFailure, PTL
=============================================================================
