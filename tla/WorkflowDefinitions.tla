------------------------ MODULE WorkflowDefinitions -------------------------
(***************************************************************************)
(* The life of a workflow definition.  WorkflowDefinitionService.create    *)
(* checks a request task by task, checks its dependency graph for cycles   *)
(* with a worklist, resolves its triggers and saves everything in one      *)
(* transaction; WorkflowStartService compiles executions from what was     *)
(* saved; delete removes it.                                               *)
(*                                                                         *)
(* What WorkflowExecutions assumes of Parents and MaxTries is what this    *)
(* module shows of every accepted request.                                 *)
(***************************************************************************)
EXTENDS Integers, FiniteSets, SequencesExt

CONSTANTS
    Key,        \* task keys a request may use, and names of unknown tasks
    Requests,   \* the requests considered, CreateWorkflowDefinition
    Nothing     \* no transaction is open, or no definition is stored

\* CreateTaskDefinition.  known and configured stand for the answers of the
\* task registry and of the plugin's validate_configuration.
TaskInput == [key : Key, dependencies : Seq(Key), max_tries : Int,
              known : BOOLEAN, configured : BOOLEAN]

\* CreateTriggerDefinition.  occurrence stands for the answer of the plugin's
\* next_occurrence; a plugin of another mechanism has "none" to initialize.
TriggerInput == [known : BOOLEAN, configured : BOOLEAN, enabled : BOOLEAN,
                 occurrence : {"some", "none", "raises"}]

ASSUME RequestsAssumption ==
    Requests \subseteq [tasks : Seq(TaskInput), triggers : Seq(TriggerInput),
                        enabled : BOOLEAN]

\* The rows of one definition, as a transaction or the database holds them.
Definition == [enabled : BOOLEAN,
               tasks : SUBSET [key : Key, max_tries : Int],
               edges : SUBSET (Key \X Key),
               pending : SUBSET (Key \X Key),    \* still with the session
               triggers : SUBSET [id : Nat, enabled : BOOLEAN],
               schedules : SUBSET Nat]

ASSUME NothingAssumption == Nothing \notin Definition

VARIABLES
    request,    \* [tasks, triggers, enabled]
    pc,         \* where the request, then the definition, stands
    index,      \* the task or trigger the current loop looks at
    remaining,  \* remaining_dependencies of _has_dependency_cycle
    ready,      \* its stack of keys
    processed,  \* its count of keys taken from the stack
    session,    \* the open transaction's rows, or Nothing
    stored,     \* the committed rows, or Nothing
    rows        \* the task executions created from the definition

vars == <<request, pc, index, remaining, ready, processed, session, stored, rows>>

-----------------------------------------------------------------------------

tasks == request.tasks
triggers == request.triggers
keys == {tasks[i].key : i \in DOMAIN tasks}

Validation == {"validating", "ordering", "resolving"}
Transaction == {"saving", "initializing"}

\* InvalidWorkflowDefinitionError; another error of a plugin's
\* validate_configuration; an error in the transaction; the connection is lost
\* before COMMIT reaches the database.
NotCreated == {"rejected", "raised", "failed", "lost"}

Init ==
    /\ request \in Requests
    /\ pc = "validating"
    /\ index = 1
    /\ remaining = << >>
    /\ ready = << >>
    /\ processed = 0
    /\ session = Nothing
    /\ stored = Nothing
    /\ rows = << >>

reject ==
    /\ pc' = "rejected"
    /\ UNCHANGED <<request, index, remaining, ready, processed, session, stored, rows>>

-----------------------------------------------------------------------------
(***************************************************************************)
(* _validate_tasks                                                         *)
(***************************************************************************)

validate_request ==
    /\ pc = "validating"
    /\ index = 1
    /\ tasks = << >> \/ Cardinality(keys) # Len(tasks)
    /\ reject

task_is_valid(task) ==
    /\ task.max_tries >= 1
    /\ task.known
    /\ task.configured
    /\ task.key \notin ToSet(task.dependencies)
    /\ Len(task.dependencies) = Cardinality(ToSet(task.dependencies))
    /\ ToSet(task.dependencies) \subseteq keys

validate_task ==
    /\ pc = "validating"
    /\ tasks # << >> /\ Cardinality(keys) = Len(tasks)
    /\ index <= Len(tasks)
    /\ \/ /\ task_is_valid(tasks[index])
          /\ index' = index + 1
          /\ UNCHANGED <<request, pc, remaining, ready, processed, session, stored, rows>>
       \/ /\ ~task_is_valid(tasks[index])
          /\ reject

-----------------------------------------------------------------------------
(***************************************************************************)
(* _has_dependency_cycle: a stack of keys without open dependencies.       *)
(***************************************************************************)

dependencies_of(key) ==
    ToSet(tasks[CHOOSE i \in DOMAIN tasks : tasks[i].key = key].dependencies)

\* The chosen keys as a list: its n-th key is that of the n-th task chosen.
in_request_order(chosen) ==
    LET places == {i \in DOMAIN tasks : tasks[i].key \in chosen}
        place(n) == CHOOSE i \in places : Cardinality({j \in places : j <= i}) = n
    IN  [n \in 1..Cardinality(places) |-> tasks[place(n)].key]

children(key) == {c \in keys : key \in dependencies_of(c)}

start_ordering ==
    /\ pc = "validating"
    /\ tasks # << >>
    /\ index = Len(tasks) + 1
    /\ pc' = "ordering"
    /\ remaining' = [key \in keys |-> Cardinality(dependencies_of(key))]
    /\ ready' = in_request_order({key \in keys : dependencies_of(key) = {}})
    /\ processed' = 0
    /\ UNCHANGED <<request, index, session, stored, rows>>

becomes_ready_early(key) == in_request_order({c \in children(key) : remaining[c] <= 2})

becomes_ready(key) == in_request_order({c \in children(key) : remaining[c] = 1})

order_next ==
    /\ pc = "ordering"
    /\ ready # << >>
    /\ LET key == Last(ready) IN
       /\ remaining' = [c \in keys |-> IF c \in children(key)
                                       THEN remaining[c] - 1 ELSE remaining[c]]
       /\ ready' = Front(ready) \o becomes_ready(key)
    /\ processed' = processed + 1
    /\ UNCHANGED <<request, pc, index, session, stored, rows>>

nothing_was_ready == processed = 0

has_dependency_cycle == processed # Len(tasks)

decide ==
    /\ pc = "ordering"
    /\ ready = << >>
    /\ \/ has_dependency_cycle /\ reject
       \/ /\ ~has_dependency_cycle
          /\ pc' = "resolving"
          /\ index' = 1
          /\ UNCHANGED <<request, remaining, ready, processed, session, stored, rows>>

-----------------------------------------------------------------------------
(***************************************************************************)
(* _create_trigger_definitions                                             *)
(***************************************************************************)

create_trigger_definition ==
    /\ pc = "resolving"
    /\ index <= Len(triggers)
    /\ LET valid == triggers[index].known /\ triggers[index].configured IN
       \/ /\ valid
          /\ index' = index + 1
          /\ UNCHANGED <<request, pc, remaining, ready, processed, session, stored, rows>>
       \/ ~valid /\ reject

\* Only InvalidPluginConfigurationError is caught: whatever else a plugin's
\* validate_configuration raises leaves create.
validate_configuration_raises ==
    /\ \/ /\ pc = "validating"
          /\ tasks # << >> /\ Cardinality(keys) = Len(tasks)
          /\ index <= Len(tasks)
          /\ tasks[index].max_tries >= 1 /\ tasks[index].known
       \/ /\ pc = "resolving"
          /\ index <= Len(triggers)
          /\ triggers[index].known
    /\ pc' = "raised"
    /\ UNCHANGED <<request, index, remaining, ready, processed, session, stored, rows>>

-----------------------------------------------------------------------------
(***************************************************************************)
(* WorkflowDefinitionMapper: what the rows keep of the request.            *)
(***************************************************************************)

task_to_model(task) == [key |-> task.key, max_tries |-> task.max_tries]

task_to_domain(row, dependency_ids) ==
    [key |-> row.key, dependencies |-> dependency_ids, max_tries |-> row.max_tries]

dependencies_to_models(task) == {task.key} \X ToSet(task.dependencies)

\* The position in the request stands for the trigger's id.
trigger_to_model(i) == [id |-> i, enabled |-> triggers[i].enabled]

trigger_to_domain(row) == [id |-> row.id, enabled |-> row.enabled]

-----------------------------------------------------------------------------
(***************************************************************************)
(* The transaction of create.  SQLAlchemy collects merged rows and sends   *)
(* them to PostgreSQL before the next merge or statement (autoflush);      *)
(* PostgreSQL checks the foreign keys of each INSERT at once.              *)
(***************************************************************************)

begin ==
    /\ pc = "resolving"
    /\ index = Len(triggers) + 1
    /\ pc' = "saving"
    /\ index' = 1
    /\ session' = [enabled |-> request.enabled, tasks |-> {}, edges |-> {},
                   pending |-> {}, triggers |-> {}, schedules |-> {}]
    /\ UNCHANGED <<request, remaining, ready, processed, stored, rows>>

leave_what_was_flushed(outcome) ==
    /\ pc' = outcome
    /\ stored' = session
    /\ session' = Nothing
    /\ UNCHANGED <<request, index, remaining, ready, processed, rows>>

roll_back(outcome) ==
    /\ pc' = outcome
    /\ session' = Nothing
    /\ UNCHANGED <<request, index, remaining, ready, processed, stored, rows>>

foreign_keys_hold ==
    \A edge \in session.pending : \E row \in session.tasks : row.key = edge[2]

flushed == [session EXCEPT !.edges = @ \cup session.pending, !.pending = {}]

\* One round of _synchronize_tasks: the task's row goes to the table, its
\* dependency rows stay with the session.
synchronize_task ==
    /\ pc = "saving"
    /\ index <= Len(tasks)
    /\ \/ /\ foreign_keys_hold
          /\ LET task == tasks[index] IN
             session' = [flushed EXCEPT
                           !.tasks = @ \cup {task_to_model(task)},
                           !.pending = dependencies_to_models(task)]
          /\ index' = index + 1
          /\ UNCHANGED <<request, pc, remaining, ready, processed, stored, rows>>
       \/ ~foreign_keys_hold /\ roll_back("failed")

\* _synchronize_triggers and the flush after it.  All tasks are in the table by
\* now, so the last task's dependency rows are accepted.
synchronize_triggers ==
    /\ pc = "saving"
    /\ index = Len(tasks) + 1
    /\ session' = [flushed EXCEPT !.triggers = {trigger_to_model(i) : i \in DOMAIN triggers}]
    /\ pc' = "initializing"
    /\ index' = 1
    /\ UNCHANGED <<request, remaining, ready, processed, stored, rows>>

initialize ==
    /\ pc = "initializing"
    /\ index <= Len(triggers)
    /\ \/ /\ triggers[index].occurrence # "raises"
          /\ session' = IF triggers[index].occurrence = "some"
                        THEN [session EXCEPT !.schedules = @ \cup {index}]
                        ELSE session
          /\ index' = index + 1
          /\ UNCHANGED <<request, pc, remaining, ready, processed, stored, rows>>
       \/ triggers[index].occurrence = "raises" /\ roll_back("failed")

\* If the reply is lost, create raises although the definition is stored.
commit ==
    /\ pc = "initializing"
    /\ index = Len(triggers) + 1
    /\ pc' \in {"accepted", "unanswered"}
    /\ stored' = session
    /\ session' = Nothing
    /\ UNCHANGED <<request, index, remaining, ready, processed, rows>>

\* Without a COMMIT the database rolls back.
connection_lost ==
    /\ pc \in Transaction
    /\ roll_back("lost")

-----------------------------------------------------------------------------
(***************************************************************************)
(* WorkflowStartService: load the definition and compile an execution.     *)
(***************************************************************************)

\* _load_dependency_lookup; a task without dependency rows is not in the
\* lookup and gets the default, no dependencies.
dependency_lookup(key) ==
    {edge[2] : edge \in {e \in stored.edges : e[1] = key}}

\* WorkflowDefinitionRepository.load.
load ==
    [enabled  |-> stored.enabled,
     tasks    |-> {task_to_domain(row, dependency_lookup(row.key)) :
                      row \in stored.tasks},
     triggers |-> {trigger_to_domain(row) : row \in stored.triggers}]

child_lookup_by_parents(key) ==
    SetToSeq(UNION {task.dependencies : task \in {d \in load.tasks : d.key = key}})

\* The table returns the tasks in some order.
create_child_task_lookup(key) ==
    SetToSeq({task.key : task \in {d \in load.tasks : key \in d.dependencies}})

\* A disabled definition is refused and nothing changes.
create_workflow_execution ==
    /\ pc \in {"accepted", "unanswered"}
    /\ load.enabled
    /\ pc' = "started"
    /\ rows' = [key \in {task.key : task \in load.tasks} |->
                  LET task == CHOOSE d \in load.tasks : d.key = key IN
                  [remaining_dependencies |-> Cardinality(task.dependencies),
                   remaining_tries |-> task.max_tries,
                   parent_task_ids |-> task.dependencies,
                   child_task_ids |-> create_child_task_lookup(key)]]
    /\ UNCHANGED <<request, index, remaining, ready, processed, session, stored>>

-----------------------------------------------------------------------------
(***************************************************************************)
(* delete: the ORM deletes the tasks and triggers with the definition, and *)
(* the schedules go with their triggers (ON DELETE CASCADE).  Dependency   *)
(* rows and executions keep referring to what is deleted: PostgreSQL then  *)
(* refuses and the transaction rolls back.                                 *)
(***************************************************************************)

still_referred_to == stored.edges # {} \/ rows # << >>

delete ==
    /\ pc \in {"accepted", "unanswered", "started"}
    /\ \/ /\ ~still_referred_to
          /\ stored' = Nothing
          /\ pc' = "deleted"
       \/ /\ still_referred_to
          /\ pc' = "not_deleted"
          /\ UNCHANGED stored
    /\ UNCHANGED <<request, index, remaining, ready, processed, session, rows>>

Next ==
    \/ validate_request
    \/ validate_task
    \/ start_ordering
    \/ order_next
    \/ decide
    \/ create_trigger_definition
    \/ validate_configuration_raises
    \/ begin
    \/ synchronize_task
    \/ synchronize_triggers
    \/ initialize
    \/ commit
    \/ connection_lost
    \/ create_workflow_execution
    \/ delete

Spec == Init /\ [][Next]_vars

-----------------------------------------------------------------------------

Kept == {"accepted", "unanswered", "started", "not_deleted"}

\* The counters stay in range: no dependency count drops below zero.
TypeOK ==
    /\ pc \in Validation \cup Transaction \cup NotCreated \cup Kept \cup {"deleted"}
    /\ index \in 1..(Len(tasks) + Len(triggers) + 1)
    /\ pc = "ordering" =>
          /\ remaining \in [keys -> Nat]
          /\ ToSet(ready) \subseteq keys
          /\ processed \in 0..Len(tasks)
    /\ session \in Definition \cup {Nothing}
    /\ session # Nothing <=> pc \in Transaction
    /\ stored \in Definition \cup {Nothing}
    /\ stored # Nothing <=> pc \in Kept

\* The reference: a graph is acyclic if every set of its tasks has a member
\* that depends on nothing inside the set.
acyclic ==
    \A S \in SUBSET keys : S # {} =>
        \E key \in S : dependencies_of(key) \cap S = {}

well_formed ==
    /\ tasks # << >>
    /\ Cardinality(keys) = Len(tasks)
    /\ \A i \in DOMAIN tasks :
          LET task == tasks[i] IN
          /\ task.max_tries > 0 /\ task.known /\ task.configured
          /\ ToSet(task.dependencies) \subseteq keys \ {task.key}
          /\ IsInjective(task.dependencies)
    /\ acyclic
    /\ \A i \in DOMAIN triggers : triggers[i].known /\ triggers[i].configured

\* The service accepts only requests that are well formed by the reference and
\* calls only others invalid: no cycle slips through the worklist, no sound
\* graph is reported as cyclic.
VerdictIsExact ==
    /\ pc \in Transaction \cup Kept => well_formed
    /\ pc = "rejected" => ~well_formed

taken == {key \in keys : remaining[key] = 0 /\ key \notin ToSet(ready)}

\* The worklist counts, for each task, the dependencies it has not taken from
\* the stack yet, and the taken keys, each once: its verdict rests on both.
WorklistCounts ==
    pc = "ordering" =>
        /\ \A key \in keys :
              remaining[key] = Cardinality(dependencies_of(key) \ taken)
        /\ processed = Cardinality(taken)
        /\ IsInjective(ready)

\* A definition is stored whole or not at all, whatever fails on the way: a
\* create that raises leaves nothing, unless it raises because the reply of its
\* COMMIT is lost.  What is stored comes back as it was requested: every task
\* with its dependencies and tries, every trigger, and a schedule for every
\* trigger that has an occurrence, enabled or not (create,
\* TriggerInitializationService.initialize, load).
StoredWholeOrNotAtAll ==
    stored # Nothing =>
        /\ pc \notin NotCreated
        /\ load.tasks = {[key |-> tasks[i].key,
                          dependencies |-> ToSet(tasks[i].dependencies),
                          max_tries |-> tasks[i].max_tries] : i \in DOMAIN tasks}
        /\ load.triggers = {[id |-> i, enabled |-> triggers[i].enabled] :
                               i \in DOMAIN triggers}
        /\ load.enabled = request.enabled
        /\ stored.pending = {}
        /\ stored.schedules = {i \in DOMAIN triggers : triggers[i].occurrence = "some"}

\* The compiled execution is the graph of the request: parents and children
\* are each other's inverse, the count a task waits for is the number of
\* parents that will decrement it, each task has a try, and one can start.
CompiledGraphConsistent ==
    pc = "started" =>
        /\ DOMAIN rows = keys
        /\ \A c \in keys : /\ rows[c].parent_task_ids = dependencies_of(c)
                            /\ rows[c].remaining_tries > 0
        /\ \A p, c \in keys :
              p \in rows[c].parent_task_ids
                 <=> c \in ToSet(rows[p].child_task_ids)
        /\ \A c \in keys :
              rows[c].remaining_dependencies =
                 Cardinality({at \in keys \X (1..Len(tasks)) :
                    LET ids == rows[at[1]].child_task_ids IN
                    at[2] \in DOMAIN ids /\ ids[at[2]] = c})
        /\ \E c \in keys : rows[c].remaining_dependencies = 0

\* docs/architecture/application/workflow-definitions.md, "A valid task graph
\* satisfies all of the following", lists the conditions of well_formed and no
\* order of the tasks.  Saving a task before one of its dependencies fails.
SoundRequestSaved ==
    pc = "failed" =>
        ~well_formed \/ \E i \in DOMAIN triggers : triggers[i].occurrence = "raises"

=============================================================================
