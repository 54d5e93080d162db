----------------------------- MODULE WorkflowApi -----------------------------
(***************************************************************************)
(* runtime/api: clients that start executions of a workflow definition and *)
(* look at them, while workers and schedulers change the same rows.        *)
(*                                                                         *)
(* POST .../start runs WorkflowStartService.start: load the definition,    *)
(* create the execution, commit, enqueue the roots, answer.  GET           *)
(* /workflow-executions/{id} runs WorkflowExecutionQueryService.get, whose *)
(* load is two SELECTs: the workflow row, then its task rows.  At READ     *)
(* COMMITTED each of them sees the moment at which it runs, so what a      *)
(* client is shown may never have been true at one moment.                 *)
(*                                                                         *)
(* What the workers commit is WorkflowExecutions; how a definition gets    *)
(* there is WorkflowDefinitions.                                           *)
(***************************************************************************)
EXTENDS WorkflowExecutions

CONSTANT Client

VARIABLES
    definition, \* "absent", "enabled", "disabled"
    request,    \* client -> what its open request is at, see ApiTypeOK
    execution,  \* client -> the execution its open request is about, or NULL
    loaded,     \* client -> what the SELECTs of its load have returned, or NULL
    answer,     \* client -> the last answer it got, or NULL
    announced   \* ids that a 201 has told a client

request_vars == <<definition, request, execution, loaded, answer, announced>>
api_vars == <<vars, request_vars>>

\* An answer names the execution it is about; with 200 comes what was loaded.
Loaded == [status : WorkflowStatus \cup {NULL}, tasks : [Task -> TaskStatus] \cup {NULL}]

Answer == [code : {200}, id : Workflow, body : Loaded] \cup
          [code : {201, 404, 409, 500}, id : Workflow \cup {NULL}]

\* Python's None is no identifier, no row and no answer.
ASSUME ApiNoneAssumption ==
    /\ NULL \notin Workflow
    /\ NULL \notin Loaded
    /\ NULL \notin Answer

\* Every variable has its type; a request knows what its stage needs.
ApiTypeOK ==
    /\ definition \in {"absent", "enabled", "disabled"}
    /\ request \in [Client -> {"none", "accepted", "committed", "reading"}]
    /\ execution \in [Client -> Workflow \cup {NULL}]
    /\ loaded \in [Client -> Loaded \cup {NULL}]
    /\ answer \in [Client -> Answer \cup {NULL}]
    /\ announced \in SUBSET Workflow
    /\ \A c \in Client :
          /\ execution[c] # NULL <=> request[c] \in {"committed", "reading"}
          /\ loaded[c] # NULL <=> request[c] = "reading"

ApiInit ==
    /\ Init
    /\ definition = "absent"
    /\ request = [c \in Client |-> "none"]
    /\ execution = [c \in Client |-> NULL]
    /\ loaded = [c \in Client |-> NULL]
    /\ answer = [c \in Client |-> NULL]
    /\ announced = {}

-----------------------------------------------------------------------------

respond_keeping_loaded(c, a) ==
    /\ request' = [request EXCEPT ![c] = "none"]
    /\ execution' = [execution EXCEPT ![c] = NULL]
    /\ answer' = [answer EXCEPT ![c] = a]
    /\ UNCHANGED loaded

\* The request ends; the exception handlers turn what the service raised into
\* the code of the answer.
respond(c, a) ==
    /\ request' = [request EXCEPT ![c] = "none"]
    /\ execution' = [execution EXCEPT ![c] = NULL]
    /\ loaded' = [loaded EXCEPT ![c] = NULL]
    /\ answer' = [answer EXCEPT ![c] = a]

without_body(code, id) == [code |-> code, id |-> id]

\* POST /workflow-definitions, accepted.
create_workflow_definition ==
    /\ definition = "absent"
    /\ definition' \in {"enabled", "disabled"}
    /\ UNCHANGED <<vars, request, execution, loaded, answer, announced>>

-----------------------------------------------------------------------------
(***************************************************************************)
(* POST /workflow-definitions/{id}/start                                   *)
(***************************************************************************)

\* Not found and disabled are answered without a trace in the tables.
start_loads(c) ==
    /\ request[c] = "none"
    /\ \/ /\ definition = "absent"
          /\ respond(c, without_body(404, NULL))
       \/ /\ definition = "disabled"
          /\ respond(c, without_body(409, NULL))
       \/ /\ definition = "enabled"
          /\ request' = [request EXCEPT ![c] = "accepted"]
          /\ UNCHANGED <<execution, loaded, answer>>
    /\ UNCHANGED <<vars, definition, announced>>

created_later(v) == UNCHANGED vars

created(v) == create(v, TRUE)

start_commits(c) ==
    /\ request[c] = "accepted"
    /\ \E v \in Workflow :
          /\ wf_status[v] = "NONE"
          /\ created(v)
          /\ execution' = [execution EXCEPT ![c] = v]
    /\ request' = [request EXCEPT ![c] = "committed"]
    /\ UNCHANGED <<definition, loaded, answer, announced>>

\* enqueue returns, and the client gets the id.
start_answers(c) ==
    /\ request[c] = "committed"
    /\ announced' = announced \cup {execution[c]}
    /\ respond(c, without_body(201, execution[c]))
    /\ UNCHANGED <<vars, definition>>

-----------------------------------------------------------------------------
(***************************************************************************)
(* GET /workflow-executions/{id}                                           *)
(***************************************************************************)

task_rows(v) == [t \in Task |-> IF t \in TasksOf(v) THEN status[t] ELSE "NONE"]

select_next_tasks_first(seen, v) ==
    IF seen = NULL THEN [status |-> NULL, tasks |-> task_rows(v)]
                   ELSE [seen EXCEPT !.status = wf_status[v]]

\* The workflow row first; selectinload runs its own SELECT for the task rows.
select_next(seen, v) ==
    IF seen = NULL THEN [status |-> wf_status[v], tasks |-> NULL]
                   ELSE [seen EXCEPT !.tasks = task_rows(v)]

select_workflow(c, v) ==
    /\ request[c] = "none"
    /\ \/ /\ wf_status[v] = "NONE"
          /\ respond(c, without_body(404, v))
       \/ /\ wf_status[v] # "NONE"
          /\ request' = [request EXCEPT ![c] = "reading"]
          /\ execution' = [execution EXCEPT ![c] = v]
          /\ loaded' = [loaded EXCEPT ![c] = select_next(@, v)]
          /\ UNCHANGED answer
    /\ UNCHANGED <<vars, definition, announced>>

select_tasks(c) ==
    /\ request[c] = "reading"
    /\ respond(c, [code |-> 200, id |-> execution[c],
                   body |-> select_next(loaded[c], execution[c])])
    /\ UNCHANGED <<vars, definition, announced>>

-----------------------------------------------------------------------------

\* A SELECT, the commit or enqueue raises what no handler knows.  After the
\* commit the execution is there and stays, though the client is told of an
\* error and may try again; a request that only reads changes nothing.
request_raises(c) ==
    /\ respond(c, without_body(500, NULL))
    /\ UNCHANGED <<vars, definition, announced>>

\* The connection or the server is gone; the client gets no answer.
request_lost(c) ==
    /\ request[c] # "none"
    /\ respond(c, answer[c])
    /\ UNCHANGED <<vars, definition, announced>>

\* A Scheduler starts the same definition.
scheduled_start(v) ==
    /\ definition = "enabled"
    /\ create(v, TRUE)
    /\ UNCHANGED request_vars

\* Workers and Reconciler.
processing ==
    /\ \/ find_runnable_ids
       \/ \E t \in reported : start_task(t)
       \/ \E t \in Task, out \in Output, hidden \in SUBSET Task, answered \in BOOLEAN :
             complete_task(t, out, hidden, answered)
       \/ \E t \in Task : retry_task(t)
    /\ UNCHANGED request_vars

ApiNext ==
    \/ create_workflow_definition
    \/ \E c \in Client :
          \/ start_loads(c) \/ start_commits(c) \/ start_answers(c)
          \/ \E v \in Workflow : select_workflow(c, v)
          \/ select_tasks(c)
          \/ request_raises(c) \/ request_lost(c)
    \/ \E v \in Workflow : scheduled_start(v)
    \/ processing

ApiSpec == ApiInit /\ [][ApiNext]_api_vars

-----------------------------------------------------------------------------

\* A client that is shown a verdict is shown tasks that agree with it, though
\* the two were read at different moments: the workflow row comes first, and a
\* verdict is final (load).  A workflow shown RUNNING may have any tasks.
ShownVerdictHolds ==
    \A c \in Client : answer[c] # NULL /\ answer[c].code = 200 =>
        LET shown == answer[c].body
            tasks == TasksOf(answer[c].id) IN
        /\ shown.status = "COMPLETED" =>
              \A t \in tasks : shown.tasks[t] = "COMPLETED"
        /\ shown.status = "FAILED" =>
              /\ \A t \in tasks : shown.tasks[t] \in Terminal
              /\ \E t \in tasks : shown.tasks[t] = "FAILED"

\* An id that a client was given can be looked up, by any client and for ever:
\* the execution is durable before start answers 201, and nothing removes it.
AnnouncedIsFound ==
    [][\A c \in Client : answer'[c] # answer[c] /\ answer'[c].code = 404
          => answer'[c].id \notin announced]_api_vars

stage(s) == CASE s \in {"NONE", "PENDING"} -> 0
              [] s = "RUNNING" -> 1
              [] OTHER -> 2

\* A client that looks twice never sees an execution go back: neither a task
\* nor the workflow returns to an earlier stage, and a verdict stays.
NeverShownGoingBack ==
    [][\A c \in Client :
          ( /\ answer[c] # NULL /\ answer[c].code = 200
            /\ answer'[c].code = 200
            /\ answer[c].id = answer'[c].id )
          => LET old == answer[c].body
                 new == answer'[c].body IN
             /\ old.status # "RUNNING" => new.status = old.status
             /\ \A t \in Task :
                   /\ stage(old.tasks[t]) <= stage(new.tasks[t])
                   /\ old.tasks[t] \in Terminal => new.tasks[t] = old.tasks[t]
       ]_api_vars

=============================================================================
