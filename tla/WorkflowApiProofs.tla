-------------------------- MODULE WorkflowApiProofs --------------------------
(***************************************************************************)
(* Proofs about what clients of the HTTP API are told, for any number of   *)
(* clients, executions and tasks.                                          *)
(***************************************************************************)
EXTENDS WorkflowApi, WorkflowExecutionsProofs

\* Whatever a client has been told of, or is asking about, exists.
AnnouncedExist ==
    /\ \A v \in announced : wf_status[v] # "NONE"
    /\ \A c \in Client : execution[c] # NULL => wf_status[execution[c]] # "NONE"

\* Between the two SELECTs of a load a verdict that was read stays true.
LoadedHoldsFor(c) ==
    request[c] = "reading" =>
        /\ loaded[c].status \in {"RUNNING", "COMPLETED", "FAILED"}
        /\ loaded[c].status # "RUNNING" => wf_status[execution[c]] = loaded[c].status

LoadedHolds == \A c \in Client : LoadedHoldsFor(c)

\* What a client was shown lies behind what the tables say now, and behind what
\* the load it has under way has read.
AnswerHoldsFor(c) ==
    answer[c] # NULL /\ answer[c].code = 200 =>
        LET v == answer[c].id
            shown == answer[c].body IN
        /\ v \in Workflow /\ wf_status[v] # "NONE"
        /\ shown.status \in {"RUNNING", "COMPLETED", "FAILED"}
        /\ shown.status # "RUNNING" => wf_status[v] = shown.status
        /\ request[c] = "reading" /\ execution[c] = v /\ shown.status # "RUNNING"
              => loaded[c].status = shown.status
        /\ shown.tasks \in [Task -> TaskStatus]
        /\ \A t \in Task :
              /\ stage(shown.tasks[t]) <= stage(task_rows(v)[t])
              /\ shown.tasks[t] \in Terminal => task_rows(v)[t] = shown.tasks[t]

AnswerHolds == \A c \in Client : AnswerHoldsFor(c)

\* ShownVerdictHolds, for one client.
VerdictShownTo(c) ==
    answer[c] # NULL /\ answer[c].code = 200 =>
        LET shown == answer[c].body
            tasks == TasksOf(answer[c].id) IN
        /\ shown.status = "COMPLETED" =>
              \A t \in tasks : shown.tasks[t] = "COMPLETED"
        /\ shown.status = "FAILED" =>
              /\ \A t \in tasks : shown.tasks[t] \in Terminal
              /\ \E t \in tasks : shown.tasks[t] = "FAILED"

\* The inductive invariant.
AInv ==
    /\ IInv
    /\ ApiTypeOK
    /\ AnnouncedExist
    /\ LoadedHolds
    /\ AnswerHolds
    /\ ShownVerdictHolds

-----------------------------------------------------------------------------

\* The API, the schedulers and the workers change the tables by the
\* repository's operations only.
LEMMA ApiTablesStep ==
    ASSUME ApiNext
    PROVE  [Next]_vars
  <1>1. ASSUME NEW c \in Client, start_commits(c) PROVE Next
    BY <1>1 DEF start_commits, created, Next
  <1>2. ASSUME NEW v \in Workflow, scheduled_start(v) PROVE Next
    BY <1>2 DEF scheduled_start, Next
  <1>3. ASSUME processing PROVE Next
    BY <1>3 DEF processing, Next
  <1>4. ASSUME NEW c \in Client,
               \/ start_loads(c) \/ start_answers(c) \/ request_raises(c)
               \/ \E v \in Workflow : select_workflow(c, v)
               \/ select_tasks(c) \/ request_lost(c)
        PROVE  UNCHANGED vars
    BY <1>4 DEF start_loads, start_answers, request_raises, select_workflow,
                select_tasks, request_lost
  <1>5. ASSUME create_workflow_definition PROVE UNCHANGED vars
    BY <1>5 DEF create_workflow_definition
  <1>6. QED
    BY <1>1, <1>2, <1>3, <1>4, <1>5 DEF ApiNext

\* The stages a client can tell apart are numbers in order.
LEMMA StageType == \A s : stage(s) \in 0..2
  BY DEF stage

\* A task's rows as a client sees them, before and after a transaction.
LEMMA RowsStep ==
    ASSUME IInv, [Next]_vars, NEW v \in Workflow, wf_status[v] # "NONE", NEW t \in Task
    PROVE  /\ stage(task_rows(v)[t]) <= stage(task_rows(v)'[t])
           /\ task_rows(v)[t] \in Terminal => task_rows(v)'[t] = task_rows(v)[t]
  <1>1. /\ task_rows(v)[t] = IF t \in TasksOf(v) THEN status[t] ELSE "NONE"
        /\ task_rows(v)'[t] = IF t \in TasksOf(v) THEN status'[t] ELSE "NONE"
    BY DEF task_rows, TasksOf
  <1>2. CASE t \notin TasksOf(v)
    BY <1>1, <1>2, StageType
  <1>3. CASE t \in TasksOf(v)
    <2>1. status[t] \in TaskStatus /\ status'[t] \in TaskStatus
      BY NextIInv DEF IInv, TypeOK
    <2>2. CASE status[t] = "NONE"
      BY <1>1, <1>3, <2>1, <2>2, StageType DEF stage, Terminal
    <2>3. CASE status[t] # "NONE"
      BY <1>1, <1>3, <2>1, <2>3, StatusStep DEF stage, TaskStatus, Active, Terminal
    <2>4. QED
      BY <2>2, <2>3
  <1>4. QED
    BY <1>2, <1>3

\* An answer given before stays behind the tables and, unless a new load has
\* begun, behind what the load has read.
LEMMA OldAnswer ==
    ASSUME AInv, [Next]_vars, NEW c \in Client,
           answer'[c] = answer[c],
           request'[c] = "reading" =>
               \/ UNCHANGED <<request[c], execution[c], loaded[c]>>
               \/ loaded'[c].status = wf_status[execution'[c]]
    PROVE  AnswerHoldsFor(c)' /\ VerdictShownTo(c)'
  <1> USE DEF AInv
  <1>1. AnswerHoldsFor(c)'
    <2> SUFFICES ASSUME answer[c] # NULL, answer[c].code = 200
                 PROVE  AnswerHoldsFor(c)'
      BY DEF AnswerHoldsFor
    <2>a. PICK v \in Workflow : v = answer[c].id
      BY DEF AnswerHolds, AnswerHoldsFor
    <2>b. PICK shown : shown = answer[c].body
      OBVIOUS
    <2>0. /\ v \in Workflow /\ wf_status[v] # "NONE"
          /\ shown.status \in {"RUNNING", "COMPLETED", "FAILED"}
          /\ shown.status # "RUNNING" => wf_status[v] = shown.status
          /\ request[c] = "reading" /\ execution[c] = v /\ shown.status # "RUNNING"
                => loaded[c].status = shown.status
          /\ shown.tasks \in [Task -> TaskStatus]
          /\ \A t \in Task :
                /\ stage(shown.tasks[t]) <= stage(task_rows(v)[t])
                /\ shown.tasks[t] \in Terminal => task_rows(v)[t] = shown.tasks[t]
      BY <2>a, <2>b DEF AnswerHolds, AnswerHoldsFor
    <2>1. wf_status'[v] # "NONE"
      BY <2>0, WorkflowStays
    <2>2. shown.status # "RUNNING" => wf_status'[v] = shown.status
      BY <2>0, TerminalStep
    <2>3. request'[c] = "reading" /\ execution'[c] = v /\ shown.status # "RUNNING"
              => loaded'[c].status = shown.status
      BY <2>0
    <2>4. \A t \in Task :
              /\ stage(shown.tasks[t]) <= stage(task_rows(v)'[t])
              /\ shown.tasks[t] \in Terminal => task_rows(v)'[t] = shown.tasks[t]
      <3> SUFFICES ASSUME NEW t \in Task
                   PROVE  /\ stage(shown.tasks[t]) <= stage(task_rows(v)'[t])
                          /\ shown.tasks[t] \in Terminal =>
                                task_rows(v)'[t] = shown.tasks[t]
        OBVIOUS
      <3>1. /\ stage(task_rows(v)[t]) <= stage(task_rows(v)'[t])
            /\ task_rows(v)[t] \in Terminal => task_rows(v)'[t] = task_rows(v)[t]
        BY <2>0, RowsStep
      <3>2. /\ stage(shown.tasks[t]) \in Int /\ stage(task_rows(v)[t]) \in Int
            /\ stage(task_rows(v)'[t]) \in Int
        BY StageType
      <3>3. QED
        BY <2>0, <3>1, <3>2
    <2>5. /\ answer'[c].id = v
          /\ answer'[c].body = shown
      BY <2>a, <2>b
    <2>6. QED
      BY <2>0, <2>1, <2>2, <2>3, <2>4, <2>5 DEF AnswerHoldsFor
  <1>2. VerdictShownTo(c)'
    BY DEF ShownVerdictHolds, VerdictShownTo, TasksOf
  <1>3. QED
    BY <1>1, <1>2

\* A verdict that was read stays true until the second SELECT.
LEMMA OldLoad ==
    ASSUME AInv, [Next]_vars, NEW c \in Client,
           UNCHANGED <<request[c], execution[c], loaded[c]>>
    PROVE  LoadedHoldsFor(c)'
  <1>1. request[c] = "reading" => execution[c] \in Workflow
    BY DEF AInv, ApiTypeOK
  <1>2. QED
    BY <1>1, TerminalStep DEF AInv, LoadedHolds, LoadedHoldsFor

\* What the second SELECT returns with the first.
LEMMA SecondSelect ==
    ASSUME AInv, NEW c \in Client, select_tasks(c), NEW v \in Workflow, v = execution[c]
    PROVE  /\ answer'[c] = [code |-> 200, id |-> v,
                            body |-> [status |-> loaded[c].status, tasks |-> task_rows(v)]]
           /\ answer'[c] # NULL
           /\ UNCHANGED vars
           /\ wf_status[v] # "NONE"
           /\ loaded[c].status \in {"RUNNING", "COMPLETED", "FAILED"}
           /\ loaded[c].status # "RUNNING" => wf_status[v] = loaded[c].status
           /\ task_rows(v) \in [Task -> TaskStatus]
           /\ [status |-> loaded[c].status, tasks |-> task_rows(v)] \in Loaded
  <1> USE DEF AInv
  <1>1. request[c] = "reading" /\ loaded[c] \in Loaded /\ loaded[c] # NULL
    BY DEF select_tasks, ApiTypeOK
  <1>2. select_next(loaded[c], v) = [status |-> loaded[c].status, tasks |-> task_rows(v)]
    BY <1>1 DEF select_next, Loaded
  <1>3. status \in [Task -> TaskStatus]
    BY DEF IInv, TypeOK
  <1>4. task_rows(v) \in [Task -> TaskStatus]
    BY <1>3 DEF task_rows, TaskStatus
  <1>5. [status |-> loaded[c].status, tasks |-> task_rows(v)] \in Loaded
    BY <1>1, <1>4 DEF Loaded
  <1>6. [code |-> 200, id |-> v,
         body |-> [status |-> loaded[c].status, tasks |-> task_rows(v)]] \in Answer
    BY <1>5 DEF Answer
  <1>7. answer'[c] = [code |-> 200, id |-> v,
                      body |-> [status |-> loaded[c].status, tasks |-> task_rows(v)]]
    BY <1>2 DEF select_tasks, respond, ApiTypeOK
  <1>8. wf_status[v] # "NONE"
    BY <1>1 DEF AnnouncedExist, ApiTypeOK
  <1>9. QED
    BY <1>1, <1>4, <1>5, <1>6, <1>7, <1>8, ApiNoneAssumption
    DEF select_tasks, LoadedHolds, LoadedHoldsFor

\* An answer ends its request.
LEMMA RespondTypes ==
    ASSUME ApiTypeOK, NEW c \in Client, NEW a \in Answer \cup {NULL}, respond(c, a),
           announced' \in SUBSET Workflow, UNCHANGED definition
    PROVE  ApiTypeOK'
  BY DEF ApiTypeOK, respond

\* Requests and answers keep their types.
LEMMA ApiTypesStep ==
    ASSUME AInv, ApiNext
    PROVE  ApiTypeOK'
  <1>0. ApiTypeOK
    BY DEF AInv
  <1>a. \A code \in {201, 404, 409, 500} : \A id \in Workflow \cup {NULL} :
            without_body(code, id) \in Answer
    BY DEF without_body, Answer
  <1>1. ASSUME create_workflow_definition PROVE ApiTypeOK'
    BY <1>0, <1>1 DEF create_workflow_definition, ApiTypeOK
  <1>2. ASSUME NEW c \in Client, start_loads(c) PROVE ApiTypeOK'
    <2>1. CASE request' = [request EXCEPT ![c] = "accepted"]
      BY <1>0, <1>2, <2>1 DEF start_loads, respond, ApiTypeOK
    <2>2. ASSUME NEW code \in {404, 409}, respond(c, without_body(code, NULL))
          PROVE  ApiTypeOK'
      <3>1. without_body(code, NULL) \in Answer
        BY <1>a
      <3>2. UNCHANGED <<definition, announced>>
        BY <1>2 DEF start_loads
      <3>3. QED
        BY <1>0, <2>2, <3>1, <3>2, RespondTypes DEF ApiTypeOK
    <2>3. QED
      BY <1>2, <2>1, <2>2 DEF start_loads
  <1>3. ASSUME NEW c \in Client, start_commits(c) PROVE ApiTypeOK'
    <2>1. PICK v \in Workflow : execution' = [execution EXCEPT ![c] = v]
      BY <1>3 DEF start_commits
    <2>2. v # NULL
      BY ApiNoneAssumption
    <2>3. QED
      BY <1>0, <1>3, <2>1, <2>2 DEF start_commits, ApiTypeOK
  <1>4. ASSUME NEW c \in Client, start_answers(c) \/ request_raises(c) PROVE ApiTypeOK'
    <2>1. CASE start_answers(c)
      <3>1. execution[c] \in Workflow
        BY <1>0, <2>1 DEF start_answers, ApiTypeOK
      <3>2. /\ without_body(201, execution[c]) \in Answer
            /\ announced' \in SUBSET Workflow
        BY <1>0, <1>a, <2>1, <3>1 DEF start_answers, ApiTypeOK
      <3>3. QED
        BY <1>0, <2>1, <3>2, RespondTypes DEF start_answers
    <2>2. CASE request_raises(c)
      <3>1. without_body(500, NULL) \in Answer /\ announced' \in SUBSET Workflow
        BY <1>0, <1>a, <2>2 DEF request_raises, ApiTypeOK
      <3>2. QED
        BY <1>0, <2>2, <3>1, RespondTypes DEF request_raises
    <2>3. QED
      BY <1>4, <2>1, <2>2
  <1>5. ASSUME NEW c \in Client, NEW v \in Workflow, select_workflow(c, v)
        PROVE  ApiTypeOK'
    <2>0. request[c] = "none" /\ loaded[c] = NULL /\ UNCHANGED <<definition, announced>>
      BY <1>0, <1>5 DEF select_workflow, ApiTypeOK
    <2>1. CASE respond(c, without_body(404, v))
      <3>1. without_body(404, v) \in Answer /\ announced' \in SUBSET Workflow
        BY <1>0, <1>a, <2>0 DEF ApiTypeOK
      <3>2. QED
        BY <1>0, <2>0, <2>1, <3>1, RespondTypes
    <2>2. CASE ~respond(c, without_body(404, v))
      <3>1. [status |-> wf_status[v], tasks |-> NULL] \in Loaded
        BY DEF AInv, IInv, TypeOK, Loaded
      <3>2. /\ [status |-> wf_status[v], tasks |-> NULL] # NULL /\ v # NULL
        BY <3>1, ApiNoneAssumption
      <3>3. /\ request' = [request EXCEPT ![c] = "reading"]
            /\ execution' = [execution EXCEPT ![c] = v]
            /\ loaded' = [loaded EXCEPT ![c] = [status |-> wf_status[v], tasks |-> NULL]]
            /\ UNCHANGED answer
        BY <1>0, <1>5, <2>0, <2>2 DEF select_workflow, select_next, ApiTypeOK
      <3>4. QED
        BY <1>0, <2>0, <3>1, <3>2, <3>3 DEF ApiTypeOK
    <2>3. QED
      BY <2>1, <2>2
  <1>6. ASSUME NEW c \in Client, select_tasks(c) PROVE ApiTypeOK'
    <2>1. PICK v \in Workflow : v = execution[c]
      BY <1>0, <1>6 DEF select_tasks, ApiTypeOK
    <2>2. [status |-> loaded[c].status, tasks |-> task_rows(v)] \in Loaded
      BY <1>6, <2>1, SecondSelect
    <2>3. [code |-> 200, id |-> v,
           body |-> [status |-> loaded[c].status, tasks |-> task_rows(v)]] \in Answer
      BY <2>2 DEF Answer
    <2>4. loaded[c] \in Loaded /\ loaded[c] # NULL
      BY <1>0, <1>6 DEF select_tasks, ApiTypeOK
    <2>5. select_next(loaded[c], execution[c]) =
              [status |-> loaded[c].status, tasks |-> task_rows(v)]
      BY <2>1, <2>4 DEF select_next, Loaded
    <2>6. QED
      BY <1>0, <1>6, <2>1, <2>3, <2>5, RespondTypes DEF select_tasks, ApiTypeOK
  <1>7. ASSUME NEW c \in Client, request_lost(c) PROVE ApiTypeOK'
    <2>1. answer[c] \in Answer \cup {NULL} /\ announced' \in SUBSET Workflow
      BY <1>0, <1>7 DEF request_lost, ApiTypeOK
    <2>2. QED
      BY <1>0, <1>7, <2>1, RespondTypes DEF request_lost
  <1>8. ASSUME UNCHANGED request_vars PROVE ApiTypeOK'
    BY <1>0, <1>8 DEF request_vars, ApiTypeOK
  <1>9. QED
    BY <1>1, <1>2, <1>3, <1>4, <1>5, <1>6, <1>7, <1>8
    DEF ApiNext, scheduled_start, processing

\* What is announced or asked about was created, and stays.
LEMMA AnnouncedStep ==
    ASSUME AInv, ApiNext
    PROVE  AnnouncedExist'
  <1> USE DEF AInv
  <1>0. \A v \in Workflow : wf_status[v] # "NONE" => wf_status'[v] # "NONE"
    BY ApiTablesStep, WorkflowStays
  <1>a. ApiTypeOK /\ ApiTypeOK'
    BY ApiTypesStep
  <1>1. \A v \in announced' : wf_status'[v] # "NONE"
    <2>1. CASE announced' = announced
      BY <1>0, <1>a, <2>1 DEF AnnouncedExist, ApiTypeOK
    <2>2. ASSUME NEW c \in Client, start_answers(c)
          PROVE  \A v \in announced' : wf_status'[v] # "NONE"
      BY <1>0, <1>a, <2>2 DEF start_answers, AnnouncedExist, ApiTypeOK
    <2>3. QED
      BY <2>1, <2>2
      DEF ApiNext, create_workflow_definition, start_loads, start_commits, request_raises,
          select_workflow, select_tasks, request_lost, scheduled_start, processing,
          request_vars
  <1>2. ASSUME NEW c \in Client, execution'[c] # NULL
        PROVE  wf_status'[execution'[c]] # "NONE"
    <2>1. CASE execution'[c] = execution[c]
      BY <1>0, <1>a, <1>2, <2>1 DEF AnnouncedExist, ApiTypeOK
    <2>2. ASSUME NEW d \in Client, execution' = [execution EXCEPT ![d] = NULL]
          PROVE  wf_status'[execution'[c]] # "NONE"
      BY <1>2, <1>a, <2>1, <2>2 DEF ApiTypeOK
    <2>3. ASSUME NEW d \in Client, start_commits(d)
          PROVE  wf_status'[execution'[c]] # "NONE"
      <3>1. PICK v \in Workflow : create(v, TRUE) /\ execution' = [execution EXCEPT ![d] = v]
        BY <2>3 DEF start_commits, created
      <3>2. wf_status'[v] # "NONE"
        BY <3>1 DEF create, IInv, TypeOK
      <3>3. QED
        BY <1>a, <2>1, <3>1, <3>2 DEF ApiTypeOK
    <2>4. ASSUME NEW d \in Client, NEW v \in Workflow, select_workflow(d, v)
          PROVE  wf_status'[execution'[c]] # "NONE"
      BY <1>0, <1>a, <2>1, <2>2, <2>4 DEF select_workflow, respond, ApiTypeOK
    <2>5. QED
      BY <2>1, <2>2, <2>3, <2>4
      DEF ApiNext, create_workflow_definition, start_loads, start_answers, request_raises,
          select_tasks, request_lost, respond, scheduled_start, processing, request_vars
  <1>3. QED
    BY <1>1, <1>2 DEF AnnouncedExist

\* What a step can mean for one client: nothing new, the end of a request
\* without a new answer, the first SELECT of a load, an answer without a body,
\* or (select_tasks) the second SELECT.
LeftAlone(c) ==
    answer'[c] = answer[c] /\ UNCHANGED <<request[c], execution[c], loaded[c]>>

EndsUnanswered(c) == answer'[c] = answer[c] /\ request'[c] # "reading"

FirstSelect(c, v) ==
    /\ answer'[c] = answer[c]
    /\ request'[c] = "reading" /\ execution'[c] = v
    /\ wf_status[v] # "NONE"
    /\ loaded'[c] = [status |-> wf_status[v], tasks |-> NULL]
    /\ UNCHANGED vars

AnsweredWithoutBody(c, code, id) ==
    /\ request'[c] # "reading"
    /\ answer'[c] = [code |-> code, id |-> id]
    /\ code = 404 => id = NULL \/ wf_status[id] = "NONE"

BodilessCode == {201, 404, 409, 500}

\* All that a step may do to a client.
LEMMA ClientStep ==
    ASSUME AInv, ApiNext, NEW c \in Client
    PROVE  \/ LeftAlone(c)
           \/ EndsUnanswered(c)
           \/ \E v \in Workflow : FirstSelect(c, v)
           \/ \E code \in BodilessCode, id \in Workflow \cup {NULL} :
                  AnsweredWithoutBody(c, code, id)
           \/ select_tasks(c)
  <1> DEFINE Goal ==
           \/ LeftAlone(c)
           \/ EndsUnanswered(c)
           \/ \E v \in Workflow : FirstSelect(c, v)
           \/ \E code \in BodilessCode, id \in Workflow \cup {NULL} :
                  AnsweredWithoutBody(c, code, id)
           \/ select_tasks(c)
  <1>0. ApiTypeOK
    BY DEF AInv
  <1>1. ASSUME UNCHANGED <<request, execution, loaded, answer>> PROVE Goal
    BY <1>1 DEF LeftAlone
  <1>3. ASSUME NEW d \in Client, d # c,
               \/ start_loads(d) \/ start_commits(d) \/ start_answers(d) \/ request_raises(d)
               \/ \E v \in Workflow : select_workflow(d, v)
               \/ select_tasks(d) \/ request_lost(d)
        PROVE  LeftAlone(c)
    BY <1>0, <1>3
    DEF LeftAlone, start_loads, start_commits, start_answers, request_raises, select_workflow,
        select_tasks, request_lost, respond, ApiTypeOK
  <1>4. ASSUME NEW code \in BodilessCode, NEW id \in Workflow \cup {NULL},
               respond(c, without_body(code, id)),
               code = 404 => id = NULL \/ wf_status[id] = "NONE"
        PROVE  Goal
    <2>1. request'[c] = "none" /\ answer'[c] = [code |-> code, id |-> id]
      BY <1>0, <1>4 DEF respond, without_body, ApiTypeOK
    <2>2. AnsweredWithoutBody(c, code, id)
      BY <1>4, <2>1 DEF AnsweredWithoutBody
    <2>3. QED
      BY <2>2
  <1>a. {201, 404, 409, 500} = BodilessCode
    BY DEF BodilessCode
  <1> HIDE DEF Goal
  <1>5. ASSUME start_loads(c) PROVE Goal
    <2>1. CASE request' = [request EXCEPT ![c] = "accepted"] /\ UNCHANGED answer
      BY <1>0, <2>1 DEF ApiTypeOK, EndsUnanswered, Goal
    <2>2. CASE \/ respond(c, without_body(404, NULL))
               \/ respond(c, without_body(409, NULL))
      BY <1>4, <1>a, <2>2
    <2>3. QED
      BY <1>5, <2>1, <2>2 DEF start_loads
  <1>6. ASSUME start_commits(c) PROVE Goal
    BY <1>0, <1>6 DEF start_commits, ApiTypeOK, EndsUnanswered, Goal
  <1>7. ASSUME start_answers(c) \/ request_raises(c) PROVE Goal
    <2>1. CASE start_answers(c)
      <3>1. PICK v \in Workflow : v = execution[c]
        BY <1>0, <2>1 DEF start_answers, ApiTypeOK
      <3>2. respond(c, without_body(201, v))
        BY <2>1, <3>1 DEF start_answers
      <3>3. QED
        BY <1>4, <1>a, <3>2
    <2>2. CASE request_raises(c)
      BY <1>4, <1>a, <2>2 DEF request_raises
    <2>3. QED
      BY <1>7, <2>1, <2>2
  <1>8. ASSUME NEW v \in Workflow, select_workflow(c, v) PROVE Goal
    <2>1. CASE wf_status[v] = "NONE" /\ respond(c, without_body(404, v))
      BY <1>4, <1>a, <2>1
    <2>2. CASE ~(wf_status[v] = "NONE" /\ respond(c, without_body(404, v)))
      <3>1. loaded[c] = NULL
        BY <1>0, <1>8 DEF select_workflow, ApiTypeOK
      <3>2. /\ wf_status[v] # "NONE" /\ request[c] = "none"
            /\ request'[c] = "reading" /\ execution'[c] = v
            /\ loaded'[c] = [status |-> wf_status[v], tasks |-> NULL]
            /\ UNCHANGED answer /\ UNCHANGED vars
        BY <1>0, <1>8, <2>2, <3>1 DEF select_workflow, select_next, ApiTypeOK
      <3>3. QED
        BY <3>2 DEF FirstSelect, Goal
    <2>3. QED
      BY <2>1, <2>2
  <1>9. ASSUME request_lost(c) PROVE Goal
    BY <1>0, <1>9 DEF request_lost, respond, ApiTypeOK, EndsUnanswered, Goal
  <1>10. ASSUME NEW d \in Client, d # c,
                \/ start_loads(d) \/ start_commits(d) \/ start_answers(d) \/ request_raises(d)
                \/ \E v \in Workflow : select_workflow(d, v)
                \/ select_tasks(d) \/ request_lost(d)
         PROVE  Goal
    BY <1>3, <1>10 DEF Goal
  <1>11. select_tasks(c) => Goal
    BY DEF Goal
  <1>12. Goal
    BY <1>1, <1>5, <1>6, <1>7, <1>8, <1>9, <1>10, <1>11
    DEF ApiNext, create_workflow_definition, scheduled_start, processing, request_vars
  <1>13. QED
    BY <1>12 DEF Goal

\* Loads and answers stay consistent with the tables and with each other.
LEMMA AnswersStep ==
    ASSUME AInv, ApiNext
    PROVE  LoadedHolds' /\ AnswerHolds' /\ ShownVerdictHolds'
  <1> SUFFICES ASSUME NEW c \in Client
               PROVE  LoadedHoldsFor(c)' /\ AnswerHoldsFor(c)' /\ VerdictShownTo(c)'
    BY DEF LoadedHolds, AnswerHolds, ShownVerdictHolds, VerdictShownTo
  <1>0. [Next]_vars
    BY ApiTablesStep
  <1>1. CASE LeftAlone(c)
    BY <1>0, <1>1, OldAnswer, OldLoad DEF LeftAlone
  <1>2. CASE EndsUnanswered(c)
    BY <1>0, <1>2, OldAnswer DEF LoadedHoldsFor, EndsUnanswered
  <1>3. ASSUME NEW v \in Workflow, FirstSelect(c, v)
        PROVE  LoadedHoldsFor(c)' /\ AnswerHoldsFor(c)' /\ VerdictShownTo(c)'
    <2>1. loaded'[c].status = wf_status[execution'[c]]
      BY <1>3 DEF FirstSelect
    <2>2. wf_status[v] \in {"RUNNING", "COMPLETED", "FAILED"} /\ wf_status'[v] = wf_status[v]
      BY <1>3 DEF FirstSelect, AInv, IInv, TypeOK, WorkflowStatus, vars
    <2>3. LoadedHoldsFor(c)'
      BY <1>3, <2>2 DEF FirstSelect, LoadedHoldsFor
    <2>4. QED
      BY <1>0, <1>3, <2>1, <2>3, OldAnswer DEF FirstSelect
  <1>4. ASSUME NEW code \in BodilessCode, NEW id \in Workflow \cup {NULL},
               AnsweredWithoutBody(c, code, id)
        PROVE  LoadedHoldsFor(c)' /\ AnswerHoldsFor(c)' /\ VerdictShownTo(c)'
    BY <1>4 DEF AnsweredWithoutBody, BodilessCode, LoadedHoldsFor, AnswerHoldsFor,
                VerdictShownTo
  <1>5. CASE select_tasks(c)
    <2>1. PICK v \in Workflow : v = execution[c]
      BY <1>5 DEF select_tasks, AInv, ApiTypeOK
    <2>2. PICK rows \in [Task -> TaskStatus], s \in {"RUNNING", "COMPLETED", "FAILED"} :
              /\ rows = task_rows(v)
              /\ s = loaded[c].status
      BY <1>5, <2>1, SecondSelect
    <2>3. /\ answer'[c] = [code |-> 200, id |-> v, body |-> [status |-> s, tasks |-> rows]]
          /\ answer'[c] # NULL
          /\ UNCHANGED vars
          /\ wf_status[v] # "NONE"
          /\ s # "RUNNING" => wf_status[v] = s
      BY <1>5, <2>1, <2>2, SecondSelect
    <2>4. request'[c] = "none"
      BY <1>5 DEF select_tasks, respond, AInv, ApiTypeOK
    <2>5. task_rows(v)' = rows
      BY <2>2, <2>3 DEF task_rows, TasksOf, vars
    <2>6. \A t \in Task : stage(rows[t]) <= stage(rows[t])
      BY StageType
    <2>7. AnswerHoldsFor(c)'
      BY <2>2, <2>3, <2>4, <2>5, <2>6 DEF AnswerHoldsFor, vars
    <2>8. \A t \in TasksOf(v) : t \in Task /\ rows[t] = status[t]
      BY <2>2 DEF task_rows, TasksOf
    <2>9. /\ s = "COMPLETED" => \A t \in TasksOf(v) : rows[t] = "COMPLETED"
          /\ s = "FAILED" => /\ \A t \in TasksOf(v) : rows[t] \in Terminal
                             /\ \E t \in TasksOf(v) : rows[t] = "FAILED"
      BY <2>3, <2>8 DEF AInv, IInv, WorkflowVerdict
    <2>10. TasksOf(v)' = TasksOf(v)
      BY DEF TasksOf
    <2>11. VerdictShownTo(c)'
      BY <2>3, <2>9, <2>10 DEF VerdictShownTo, TasksOf
    <2>12. QED
      BY <2>4, <2>7, <2>11 DEF LoadedHoldsFor
  <1>6. QED
    BY <1>1, <1>2, <1>3, <1>4, <1>5, ClientStep

-----------------------------------------------------------------------------

\* No request, no answer and an empty database satisfy the invariant.
LEMMA InitAInv == ApiInit => AInv
  <1> SUFFICES ASSUME ApiInit PROVE AInv
    OBVIOUS
  <1>1. IInv
    BY InitIInv DEF ApiInit
  <1>2. QED
    BY <1>1
    DEF ApiInit, AInv, ApiTypeOK, AnnouncedExist, LoadedHolds, LoadedHoldsFor,
        AnswerHolds, AnswerHoldsFor, ShownVerdictHolds

\* Every step of a client or of a worker keeps the invariant.
LEMMA NextAInv == AInv /\ [ApiNext]_api_vars => AInv'
  <1>1. ASSUME AInv, ApiNext PROVE AInv'
    <2>1. IInv'
      BY <1>1, ApiTablesStep, NextIInv DEF AInv
    <2>2. QED
      BY <1>1, <2>1, ApiTypesStep, AnnouncedStep, AnswersStep DEF AInv
  <1>2. ASSUME AInv, UNCHANGED api_vars PROVE AInv'
    <2>1. UNCHANGED vars /\ UNCHANGED request_vars
      BY <1>2 DEF api_vars
    <2>2. IInv'
      BY <1>2, <2>1, NextIInv DEF AInv
    <2>3. ApiTypeOK' /\ AnnouncedExist'
      BY <1>2, <2>1 DEF AInv, ApiTypeOK, AnnouncedExist, request_vars, vars
    <2>4. \A c \in Client : LoadedHoldsFor(c)' /\ AnswerHoldsFor(c)' /\ VerdictShownTo(c)'
      BY <1>2, <2>1, OldAnswer, OldLoad DEF request_vars
    <2>5. LoadedHolds' /\ AnswerHolds' /\ ShownVerdictHolds'
      BY <2>4 DEF LoadedHolds, AnswerHolds, ShownVerdictHolds, VerdictShownTo
    <2>6. QED
      BY <2>2, <2>3, <2>5 DEF AInv
  <1>3. QED
    BY <1>1, <1>2

\* The invariant holds in every state.
LEMMA ApiInvariance == ApiSpec => []AInv
  BY InitAInv, NextAInv, PTL DEF ApiSpec

\* A request knows what its stage needs; answers are well formed.
THEOREM ApiTypeCorrect == ApiSpec => []ApiTypeOK
  <1>1. AInv => ApiTypeOK
    BY DEF AInv
  <1>2. QED
    BY ApiInvariance, <1>1, PTL

\* Reading the workflow row before the task rows is enough: a verdict that is
\* shown agrees with the tasks shown beside it.
THEOREM ShownVerdictsHold == ApiSpec => []ShownVerdictHolds
  <1>1. AInv => ShownVerdictHolds
    BY DEF AInv
  <1>2. QED
    BY ApiInvariance, <1>1, PTL

\* Clients, schedulers and workers together implement the repository's
\* specification.
THEOREM ApiUsesWorkflowExecutions == ApiSpec => Spec
  <1>1. ApiInit => Init
    BY DEF ApiInit
  <1>2. [ApiNext]_api_vars => [Next]_vars
    BY ApiTablesStep DEF api_vars
  <1>3. QED
    BY <1>1, <1>2, PTL DEF ApiSpec, Spec

\* An id that a 201 told a client is never answered 404.
THEOREM AnnouncedIdsFound == ApiSpec => AnnouncedIsFound
  <1>1. AInv /\ [ApiNext]_api_vars
          => [\A c \in Client : answer'[c] # answer[c] /\ answer'[c].code = 404
                => answer'[c].id \notin announced]_api_vars
    <2> SUFFICES ASSUME AInv, ApiNext, NEW c \in Client,
                        answer'[c] # answer[c], answer'[c].code = 404
                 PROVE  answer'[c].id \notin announced
      OBVIOUS
    <2>1. NULL \notin announced /\ \A v \in announced : wf_status[v] # "NONE"
      BY ApiNoneAssumption DEF AInv, ApiTypeOK, AnnouncedExist
    <2>2. ~ select_tasks(c)
      <3> SUFFICES ASSUME select_tasks(c) PROVE FALSE
        OBVIOUS
      <3>1. PICK v \in Workflow : v = execution[c]
        BY DEF select_tasks, AInv, ApiTypeOK
      <3>2. answer'[c] = [code |-> 200, id |-> v,
                          body |-> [status |-> loaded[c].status, tasks |-> task_rows(v)]]
        BY <3>1, SecondSelect
      <3>3. QED
        BY <3>2
    <2>3. ASSUME NEW code \in BodilessCode, NEW id \in Workflow \cup {NULL},
                 AnsweredWithoutBody(c, code, id)
          PROVE  answer'[c].id \notin announced
      BY <2>1, <2>3 DEF AnsweredWithoutBody
    <2>4. ~LeftAlone(c) /\ ~EndsUnanswered(c) /\ ~\E v \in Workflow : FirstSelect(c, v)
      BY DEF LeftAlone, EndsUnanswered, FirstSelect
    <2>5. \E code \in BodilessCode, id \in Workflow \cup {NULL} :
              AnsweredWithoutBody(c, code, id)
      BY <2>2, <2>4, ClientStep
    <2>6. QED
      BY <2>3, <2>5
  <1>2. QED
    BY ApiInvariance, <1>1, PTL DEF ApiSpec, AnnouncedIsFound

\* What a client is shown never goes back behind what it was shown before.
THEOREM NeverShownBack == ApiSpec => NeverShownGoingBack
  <1> DEFINE Onward(c) ==
        ( /\ answer[c] # NULL /\ answer[c].code = 200
          /\ answer'[c].code = 200
          /\ answer[c].id = answer'[c].id )
        => LET old == answer[c].body
               new == answer'[c].body IN
           /\ old.status # "RUNNING" => new.status = old.status
           /\ \A t \in Task :
                 /\ stage(old.tasks[t]) <= stage(new.tasks[t])
                 /\ old.tasks[t] \in Terminal => new.tasks[t] = old.tasks[t]
  <1>1. AInv /\ [ApiNext]_api_vars => [\A c \in Client : Onward(c)]_api_vars
    <2> SUFFICES ASSUME AInv, ApiNext, NEW c \in Client PROVE Onward(c)
      OBVIOUS
    <2>1. CASE answer'[c] = answer[c]
      BY <2>1, StageType
    <2>2. ASSUME NEW code \in BodilessCode, NEW id \in Workflow \cup {NULL},
                 AnsweredWithoutBody(c, code, id)
          PROVE  Onward(c)
      BY <2>2 DEF AnsweredWithoutBody, BodilessCode
    <2> HIDE DEF Onward
    <2>3. CASE select_tasks(c)
      <3>1. PICK v \in Workflow : v = execution[c]
        BY <2>3 DEF select_tasks, AInv, ApiTypeOK
      <3>2. answer'[c] = [code |-> 200, id |-> v,
                          body |-> [status |-> loaded[c].status, tasks |-> task_rows(v)]]
        BY <2>3, <3>1, SecondSelect
      <3>3. request[c] = "reading"
        BY <2>3 DEF select_tasks
      <3>4. ASSUME answer[c] # NULL, answer[c].code = 200, answer[c].id = v
            PROVE  /\ answer[c].body.status # "RUNNING" =>
                        loaded[c].status = answer[c].body.status
                   /\ \A t \in Task :
                        /\ stage(answer[c].body.tasks[t]) <= stage(task_rows(v)[t])
                        /\ answer[c].body.tasks[t] \in Terminal =>
                              task_rows(v)[t] = answer[c].body.tasks[t]
        BY <3>1, <3>3, <3>4 DEF AInv, AnswerHolds, AnswerHoldsFor
      <3>5. QED
        BY <3>2, <3>4 DEF Onward
    <2>4. QED
      BY <2>1, <2>2, <2>3, ClientStep DEF LeftAlone, EndsUnanswered, FirstSelect
  <1>2. QED
    BY ApiInvariance, <1>1, PTL DEF ApiSpec, NeverShownGoingBack

=============================================================================
