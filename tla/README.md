# Verification of Automation Platform

TLA+ specifications of the Automation Platform (`src/`, Python over PostgreSQL),
TLC configurations that check them on small instances, and TLAPS proofs for
instances of every size. Everything is translated from the code under
`src/src/automation_platform`; `PROJECT.json` maps each definition to the lines
it stands for. Paths below are relative to that directory unless they start
with `src/`.

## 1. The system

A *workflow definition* is a graph of tasks with triggers. Starting one creates
a *workflow execution* with one *task execution* per task. Workers take task ids
from an execution queue, run the task's plugin, and report the outcome; the
completion of a task releases those of its children that wait for nothing else.
Processes share nothing but the database, and the two stores they use, workflow
executions and the queue, commit separately.

| Component (source) | State | Operations | Interacts with | Hard behaviours | What makes it correct |
|---|---|---|---|---|---|
| Workflow execution repository (`persistence/workflow_executions`) | `workflow_executions`, `task_executions` | create, find_runnable_ids, start_task, complete_task, retry_task | called by start and task processing services and the Reconciler, inside their unit of work | READ COMMITTED interleavings, row locks, late calls of stale workers | counts equal unmet parents; verdict agrees with tasks; terminal rows are final |
| Task processing service (`application/task_processing`) | none | process: start transaction, plugin, outcome transaction | worker → repository | plugin raises; crash between the two transactions | a task in flight can always be taken up again |
| Execution queue (`execution_queue/interface.py`, `execution_queue/postgres`) | `execution_queue` rows with claim token and last heartbeat | enqueue, claim, heartbeat, release, finish | workers, start service, Reconciler | clock readings taken before the statement, SKIP LOCKED, lease expiry, stale holders | one owner per entry; a stale claim has no effect; a punctual worker keeps its claim |
| Worker (`runtime/worker`) | current claim, heartbeat thread, distrust event, stop event | claim, process, dispose, stop | queue, task processing | heartbeat thread against the main thread, crash at every step, a stop between look and claim | the entry of a RUNNING task survives; a stopped worker ends what it took |
| Reconciler (`runtime/reconciler`) | none | find runnable ids, enqueue them | repository, queue | acts on what it read in an earlier transaction | repairs what was lost, enqueues nothing that may not start |
| Workflow start service (`application/workflow_start`) | none | compile a definition, create, commit, enqueue the roots | definitions, repository, queue | crash between commit and enqueue | compiled rows agree with the stored graph |
| Chronological triggers (`application/chronological_triggers`, `persistence/chronological_triggers`) | one schedule row per trigger | initialize, process_next_due | definitions, start service | several schedulers, late clocks, disabled workflows, plugins that are gone or raise | each occurrence starts one execution, in order |
| Scheduler (`runtime/scheduler`) | none | loop of process_next_due | chronological triggers | exceptions, crashes | due occurrences are processed |
| Workflow definitions (`application/workflow_definitions`, `persistence/workflow_definitions`) | definition, task, dependency and trigger rows | create, delete | trigger initialization, API | failing half-way, a lost reply of COMMIT, flush order, foreign keys | accepts exactly the sound requests, stores them whole |
| Unit of work (`persistence/database`) | the session | commit, rollback | all services | failure before commit | transactions are all or nothing |
| Configuration (`config`) | settings | load and validate | worker, queue | lease shorter than the heartbeats allow | `Lease >= 3 * Heartbeat` |
| HTTP API and query service (`runtime/api`, `application/workflow_execution_query`) | none | create and start a definition, look an execution up | definition, start and query services | two SELECTs between commits of workers, failures between commit and answer | what is shown agrees with itself and never goes back; an announced id exists |
| Mappers (`persistence/*/_mapper.py`) | none | domain object to row and back | repositories | – | a definition is loaded as it was requested |
| Registries and plugin discovery, task plugins, bootstraps, observability, RabbitMQ queue, database migrations | – | – | – | – | not modelled, section 8 |

## 2. Modules

```
WorkflowExecutions <---- implements ---- RepositoryTransactions
   ^   ^   ^
   |   |   +-- WorkflowExecutionsProofs
   |   +------ WorkflowApi (EXTENDS)
   | EXTENDS
Platform ---- INSTANCE ----> ExecutionQueue <-- implements -- PostgresExecutionQueue
                                        ^
                                        +------- implements -- QueueInsertions

ChronologicalTriggers        WorkflowDefinitions
```

* **WorkflowExecutions** – the promise of the repository. One action per
  committed transaction; variables are the columns, under the names of the
  columns. Under READ COMMITTED the check that ends `complete_task` may miss
  siblings whose completion commits while the transaction is open: the parameter
  `hidden` is the set it misses. This module does not see how long a transaction is
  open; all it says of `hidden` is that these siblings completed since the task was
  started (history variable `completed_meanwhile`). Which ones can really be hidden is a
  question for the next module. `reported` holds the ids that some caller was told are
  runnable; `start_task` is called for these only, an obligation `Platform` is
  proved to meet.
* **RepositoryTransactions** – the same operations SQL statement by SQL
  statement: a committed and a working version of the tables, row locks,
  re-evaluation of a WHERE clause after a wait, the deadlock detector, lost
  connections. Any number of sessions may work on the same task, as workers do
  after a lease ran out. Its history variable `overlapped` records, for a task, the siblings whose
  completion was committed while the transaction completing it was open. Refines
  `WorkflowExecutions`. What it says of the lists of
  children is what the code gives (each child once, in the order of the task
  definitions): one list meets it. The filter of a list that computes it is recursive in
  the libraries, and nothing could be proved of it.
* **ExecutionQueue** – the contract of the queue: who owns an entry, which
  leases have run out, which claims somebody still holds.
* **PostgresExecutionQueue** – `execution_queue/postgres/queue.py` with the
  clock, readings taken before the statement they are used in (`sample`), SKIP
  LOCKED row locks, the worker's heartbeat thread, and the time between its end and
  the release or finish of the claim. Refines `ExecutionQueue`.
* **QueueInsertions** – the same file at the grain of rows: `INSERT ... ON CONFLICT
  DO NOTHING` takes its list one id after the other and waits for the transaction
  that inserted or deleted a key; deadlocks and the rollback of their victims. It
  carries as much of the executions (`status`, the order of `child_task_ids`) as
  decides which ids are listed in which order. Claim, heartbeat, release and the loss of
  a claim are actions of one step. A second refinement of
  `ExecutionQueue`, with the committed queue as the abstract state.
* **Platform** – start service, workers, heartbeats, stop signals, Reconciler,
  crashes and errors around the two stores. It extends `WorkflowExecutions` and instantiates
  `ExecutionQueue`; what it shows therefore rests on the two refinements.
* **WorkflowApi** – clients that start executions and look at them, between the
  transactions of `WorkflowExecutions`: the stages of a start up to its answer, the
  two SELECTs of `load`, the answers 200, 201, 404 and 409, and the 500 of a request that
  raises anywhere on the way.
* **ChronologicalTriggers** – schedules, several schedulers that crash or stop, a clock.
  `processable` says which occurrences get through `process_next_due`: the registry has the
  plugin (`registered`), its `next_occurrence` does not raise there (`raising`), and the workflow
  is enabled. All others roll back and stay due.
* **WorkflowDefinitions** – one request to create a definition: validation, the
  worklist that orders the tasks, trigger resolution, an unexpected exception of a plugin's
  `validate_configuration`, the transaction with
  SQLAlchemy's autoflush and PostgreSQL's foreign keys, schedule
  initialization, and a commit whose reply may be lost, so that `create` raises though the
  definition is stored; then loading what was stored, through the mappers, to
  start an execution of it, or deleting it.

The theorems about module M are in MProofs, which EXTENDS it; those about `ExecutionQueue`
come first in `QueueInsertionsProofs`. `PlatformProofs`, `WorkflowApiProofs` and
`RepositoryTransactionsProofs` build on `WorkflowExecutionsProofs`. `PlatformProofs` proves of the queue inside
the platform what it needs of it.

`MC*` modules give the constants values. Operators that no specification uses (`one_try_early`,
`completable_when_not_completed`, `finish_whatever` and the like), each just
before the right one, are deliberately wrong versions of it; "mutants" in
`PROJECT.json` says which property each one breaks.

## 3. Runs

| Run | Instance | Question |
|---|---|---|
| `workflow_api` | a → {b, c} → d with two tries for b, a second execution e, one client, two outputs | does the committed state keep its counts, verdicts and attempts, and are terminal rows final? is what a client is told and shown true? (360 thousand states) |
| `repository_transactions` | {a, b} → {c, d}, two tries for a, three sessions | do interleaved statements amount to the transactions of `WorkflowExecutions`? can completions alone deadlock? what leaves a finished workflow RUNNING? |
| `transactions_end` | the same graph, two sessions, fair | does every transaction end? |
| `lost_completion` | two sessions | finding 1 |
| `queue_insertions` | a → {d, b, e}, b → d, two workers, one caller of enqueue, two tokens | are row-by-row insertions the atomic ones of the contract? can two finishes that both have lists deadlock? who takes an entry from whom? (570 thousand states) |
| `postgres_queue` | two entries, four tokens, one punctual and one stalling worker, heartbeat 2, lease 6, punctual calls up to 1 late, clock to 9 | does the table keep the contract, with late calls and expired leases? does a punctual worker ever lose its claim before it has disposed of it? |
| `platform` | a → {b, c}, two tries for b, two workers, one fault or stop | is the entry of a RUNNING task ever lost, is anything ever queued too early? |
| `platform_live` | a → b, two workers, two faults or stops, fair | does every task settle, the queue drain, a stopped worker stop? |
| `chronological_triggers` | four triggers (every 2; every 3 until 4 with a plugin that raises at 3; one of a disabled workflow; one whose plugin was removed), two schedulers, one of which may stop, one crash, clock to 4, fair | does each occurrence start exactly one execution, and what can hold it up? |
| `blocked_schedule` | one scheduler, the same triggers, every plugin there and none raising | finding 2 |
| `workflow_definitions` | all graphs over four tasks; all requests of up to two tasks with every defect the service looks for; up to two triggers of every kind; a failure at every step | are exactly the sound requests accepted, stored whole, loaded as requested, and compiled to a consistent execution? |
| `forward_dependency` | two tasks | finding 3 |

### The properties

*WorkflowExecutions.* `DependencyCount`: a waiting task counts exactly its
parents that have not completed. `ReportedReady`: an id is reported only when all
parents have completed with outputs. `WorkflowVerdict`: a workflow's status agrees with
its tasks. `AttemptAccounting`: a task fails exactly when its tries are used up.
`TerminalStable`: no later call changes a terminal row.

*WorkflowApi.* `ShownVerdictHolds`: a verdict is never shown with tasks that
contradict it, although the two SELECTs of `load` see different moments; it holds
because the workflow row is read first and a verdict is final, and fails when the
order is swapped. The converse does not hold: a client may see a RUNNING workflow
all of whose tasks are terminal. `NeverShownGoingBack`: looking twice never shows an
earlier stage. `AnnouncedIsFound`: the id of a 201 is never answered with 404.

*RepositoryTransactions.* `ImplementsWorkflowExecutions`: the refinement.
`CompletionCheckNeverWaits`: the last UPDATE of a completion never waits, which
is what allows its subquery to be modelled with the snapshot of that moment.
`DeadlockNeedsFailure`: completions lock shared children in one order, so a
circle of waiters contains a failing task. `StuckOnlyByOverlap`: a finished workflow
stays RUNNING only if two of its tasks were completed by transactions that were open at the same
time, one committing between the other's UPDATE and commit. That two plugins ran side by side
is not enough: completions whose transactions follow one another settle the workflow.
`TransactionsEnd`: every transaction ends.

*Queues.* `StaleStaysStale`: a claim that lost its entry
never acts on it again. `OnlyExpiredClaimsLost`: a claim loses its entry while it is held
only when its lease has run out; a second insertion of the id by the start service, a finish or
the Reconciler does not free it. `ImplementsExecutionQueue`, of both detailed modules: the
refinement. `TimelyKeepsClaim`: a lease of three heartbeat intervals is enough for a
worker that keeps up, until its release or finish arrives. `FinishesNeverDeadlock`:
finishes alone never wait for each other in a circle. A completion releases a child that no other one
does, so two finishes never insert the same id; what else one can wait for is the row that the
finish of a child has deleted, when the Reconciler queued the child before the parent's finish, and
that lies further down the dependencies. It rests on `_update_child_dependencies` returning only
children that wait for nobody else: if it returned every child, the finish of b could wait for d,
which the finish of a has inserted, while that one waits for the deleted row of b (the mutant). A deadlock takes a list of the Reconciler or of a start, whose order
is the planner's.

*Platform.* `RunningTaskQueued`: the Reconciler looks for PENDING tasks only, so
a RUNNING task without a queue entry would be lost. `QueuedTaskReady`: `start_task`
does not look at dependencies, so the queue must not hold anything early.
`UsesWorkflowExecutions`: the processes start only what was reported.
`EverythingSettles`: nothing stays behind, neither an active task nor an entry.
`StopReached`: a worker told to stop stops, whether it is waiting, about to claim or
in the middle of a task.

*ChronologicalTriggers.* `ScheduleMatchesExecutions`: the executions of a
trigger are its occurrences so far, none twice, none skipped, and the stored
schedule is the next one. `OnlyFailingOccurrencesBlock`: a due occurrence that can be
processed is, unless one that cannot (disabled workflow, plugin missing, `next_occurrence` raising)
is due before it. Crashes, other Schedulers and earlier occurrences that succeed only delay it.
That an occurrence whose processing fails stays due is documented
(`src/docs/architecture/application/chronological-triggers.md:257`,
`src/docs/architecture/runtime/scheduler.md:235-251`). `DueOccurrenceProcessed`
is the same without the exception; finding 2 shows that it fails.

*WorkflowDefinitions.* `VerdictIsExact`: acceptance agrees with a reference
definition of a well-formed request, acyclicity defined by subsets, not by a
worklist. `WorklistCounts`: what the worklist relies on at every step.
It also says why the loop ends: the number of rounds is that of the keys taken, none twice.
`StoredWholeOrNotAtAll`: what `load` gives back is the request, triggers and
schedules included, or nothing; a `create` that raises leaves nothing, with one exception, a
connection lost while COMMIT is under way. `CompiledGraphConsistent`: counts, parents and children
of the compiled execution, computed separately from the edges, describe one graph.

## 4. Bounds, and why they are enough

* *Graphs.* A diamond has a join, a fork and a sink; two parents sharing two
  children is the smallest graph in which two completions lock two common rows.
  The theorems of section 6 hold for every graph.
* *Sessions and workers.* Two are enough for a stale and a current holder; three
  sessions add a failing task to two completions, the case `DeadlockNeedsFailure`
  is about.
* *Tokens.* `uuid4` tokens are a finite set from which a token may be taken again
  once neither an entry nor a claim mentions it. In `postgres_queue` and `platform` there is always a
  free one. `queue_insertions` has two, enough for a stale and a current claim of one entry,
  or for the entries of two open finishes; with two entries left behind at once no claim is possible
  there, which its theorems, for any set of tokens, do not share.
* *Clocks* (`MaxTime`). Past the end of a renewed lease in `postgres_queue` (9 ticks: a claim at 0, a
  renewal at 2 or 3, its expiry at 8 or 9), so that a claim can be renewed, lost
  and taken over; in the schedules, two or more occurrences of
  the triggers that get through, and one that succeeds before the one that raises. The ends of the
  two that never do only limit the moments at which they are created.
* *Faults* (`MaxFaults`, `MaxCrashes`). One fault with three tasks, two faults
  with two. A fault is a death, an exception, a lost heartbeat or publication, or a stop; what
  follows from it, such as the expiry of an unattended lease, is not counted. Every task of
  `platform_live` has one try, so no release occurs in it; retries are in `platform`, whose questions are
  about safety.
* *Insertions.* `queue_insertions` has two tasks with children, claimed by two workers, and both
  finishes can have lists: while the finish of a is open, the Reconciler may queue b, another
  worker may complete it, and the finish of a then waits for the row of b that the second
  finish has deleted, while that one has d still to insert. The list of the Reconciler with b and e
  and the finish of a, which inserts both, are a deadlock that is found and resolved. A circle of
  workers has two places here; longer ones, and every other graph, are covered by
  `WorkersNeverDeadlock`.
* *Clients.* Clients only read and create; one client, with a Scheduler that starts
  executions as well, meets every commit between its two SELECTs.
* *Symmetry* is used in safety runs only, over sessions, workers, schedulers,
  tasks, tokens and outputs that the specification does not tell apart. `Platform` takes
  the smallest free token, which only chooses among interchangeable ones, and
  its symmetry is over workers alone.
* `workflow_definitions` and `forward_dependency` run with
  `CHECK_DEADLOCK FALSE` because a request ends. All other runs check deadlock.

## 5. Fairness

* `RepositoryTransactions`: strong fairness of each session's next statement. A
  waiter queues for the row in PostgreSQL and gets it when the holder ends, so it
  is not passed over for ever although the row may be free only at times; weak
  fairness of the deadlock detector. Nothing about plugins or new work.
* `Platform`: weak fairness of each live worker's claim and of its other steps,
  which are one thread (plugins return, the loop polls, a set stop event ends the
  wait), of the Reconciler's two steps
  (`run()` survives exceptions), of publication and of the expiry of a lease that
  nobody renews. Workers may die or stop and stay so, but one goes on. Nothing makes a workflow
  start, a plugin succeed, or a heartbeat arrive. That faults are finite is an
  assumption the code needs: a plugin that raises consumes no try, so one
  that raises always is run for ever (a hazard listed without property).
* `ChronologicalTriggers`: weak fairness of each Scheduler's loop, whose `run()`
  survives every exception. Crashes are finite and a
  crashed Scheduler comes back; one Scheduler is never told to stop.
* `QueueInsertions`, `PostgresExecutionQueue`, `WorkflowApi`, `WorkflowDefinitions`: none; nothing is claimed
  of them that needs it. A request to `WorkflowDefinitions` goes through its tasks and triggers
  once, and its worklist ends because no key is taken twice (`WorklistCounts`).

## 6. Proofs

Each theorem holds for every value of the constants that satisfies the assumptions
of its module; section "Assumptions" below lists those. All follow the same argument:
an inductive invariant, one lemma per action that it is kept, and the property from
the invariant.

| Module | Theorem | Property |
|---|---|---|
| `WorkflowExecutionsProofs` | `TypeCorrect` | `TypeOK` |
| | `DependenciesCounted` | `DependencyCount` |
| | `ReportedTasksReady` | `ReportedReady` |
| | `VerdictsAgree` | `WorkflowVerdict` |
| | `AttemptsCounted` | `AttemptAccounting` |
| | `TerminalRowsStable` | `TerminalStable` |
| `RepositoryTransactionsProofs` | `TransactionsTypeCorrect` | `TypeOK` |
| | `TransactionsImplementExecutions` | `ImplementsWorkflowExecutions` |
| | `CompletionNeverWaits` | `CompletionCheckNeverWaits` |
| | `CompletionsNeverDeadlock` | `DeadlockNeedsFailure` |
| | `StuckNeedsOverlap` | `StuckOnlyByOverlap` |
| `PlatformProofs` | `PlatformTypeCorrect` | `PlatformTypeOK` |
| | `RunningTasksQueued` | `RunningTaskQueued` |
| | `QueuedTasksReady` | `QueuedTaskReady` |
| | `ImplementsWorkflowExecutions` | `UsesWorkflowExecutions` |
| | `UsesExecutionQueue` | `PlatformSpec => Q!QueueSpec` |
| `WorkflowApiProofs` | `ApiTypeCorrect` | `ApiTypeOK` |
| | `ShownVerdictsHold` | `ShownVerdictHolds` |
| | `NeverShownBack` | `NeverShownGoingBack` |
| | `AnnouncedIdsFound` | `AnnouncedIsFound` |
| | `ApiUsesWorkflowExecutions` | `ApiSpec => Spec` |
| `ChronologicalTriggersProofs` | `TypeCorrect` | `TypeOK` |
| | `OccurrencesExactlyOnce` | `ScheduleMatchesExecutions` |
| `PostgresExecutionQueueProofs` | `TypeCorrect` | `TypeOK` |
| | `TimelyWorkersKeepClaims` | `TimelyKeepsClaim` |
| | `TableImplementsInterface` | `ImplementsExecutionQueue` |
| `QueueInsertionsProofs` | `LiveClaimsKept` | `OnlyExpiredClaimsLost` of `ExecutionQueue` |
| | `StaleClaimsStayStale` | `StaleStaysStale` of `ExecutionQueue` |
| | `InsertionsTypeCorrect` | `TypeOK` |
| | `RowsImplementQueue` | `ImplementsExecutionQueue` |
| | `WorkersNeverDeadlock` | `FinishesNeverDeadlock` |
| `WorkflowDefinitionsProofs` | `DefinitionsTypeCorrect` | `TypeOK` |
| | `VerdictsExact` | `VerdictIsExact` |
| | `WorklistCountsExact` | `WorklistCounts` |
| | `DefinitionsStoredWhole` | `StoredWholeOrNotAtAll` |
| | `CompiledGraphsConsistent` | `CompiledGraphConsistent` |

*WorkflowExecutions.* `IInv` is the five state properties and
`CompletedHasOutput`. They need each other. That a released child is ready
follows from its count: `DependencyCount` makes the completing parent the only
unmet one. That a failing task finds its workflow RUNNING, so that siblings are
cancelled, follows from `WorkflowVerdict`; that it is the only failed one follows
from the same. `DependencyCount` in turn is kept because a completing task was
RUNNING, hence was an unmet parent of each child, and removing it from a finite
set lowers the cardinality by one (`UnmetAfterCompletion`).

*RepositoryTransactions.* `RInv` joins the type and `IInv` of the committed tables to
what each session has written when it stands at a given statement (`Standing`) and
what it remembers of it (`Carrying`). `Completing`: the task is locked and was RUNNING
in the committed tables, every child is either still to be visited, or written
with a count lowered by one, or waits no more. `Judged`: the workflow is written COMPLETED, or
the check met a task that was unfinished or has completed since. `Retrying`, `Failing` and
`Cancelling` likewise for the other outcomes; a session between its
transactions holds no lock. A statement
of one session leaves all of this true of the others, because what it says of another
session's rows speaks of rows that session has locked, and nobody else writes or commits a locked row
(`FrameKeeps`). What it says of rows that no lock protects, a child that waits no
more or a task that the check met unfinished, stays true because a status never
goes back, which is where `IInv` comes in.

Every statement but the commits leaves the committed tables alone (`QuietStep`). A commit
that completes a task is `complete_task` with `hidden` the tasks of `completed_meanwhile` if the
check found one unfinished, and with no task hidden if it completed the workflow; the others are
`start_task`, `retry_task` with or without a try left, `create` and `find_runnable_ids`. A completion waits only for
children, those it has locked come before those to be visited in `TaskOrder`, and so the one
that waits at the first place of a circle would be waited for at an earlier place.
`StuckNeedsOverlap` adds `OverlapInv` to it: a completion about to commit without the row of the
workflow has met a task that is unfinished still, or whose completion was committed beside it
(`Beside`).
The last UPDATE of a completion never waits, because whoever holds the row of the
workflow has not committed its own task yet: NOT EXISTS sees that task RUNNING
and the row does not match.

*ExecutionQueue.* The type is inductive by itself. `OnlyExpiredClaimsLost` follows from it action by
action: the ownership tests of `release` and `finish`, the conflict test of `enqueue` and
`claimable`.

*Platform.* `PInv` joins the invariants of the two stores to what the processes
hold: `UniqueClaims`; `WorkReported`, every id on its way into the queue, in it or in
a worker's hands has been reported, which with `ReportedReady` gives
`QueuedTaskReady`; and `ClaimsFollowStatus`, what a worker knows of its task even
when its claim is stale. `RunningTaskQueued` is not inductive without the last:
only because a worker that is done without a retry has left its task terminal may its
`finish` remove the entry.

*WorkflowApi.* `AInv` adds that a verdict read by the first SELECT of a load still
holds at the second (`LoadedHolds`), from `TerminalStable`, and that whatever a client was
shown lies behind what the tables say now (`AnswerHolds`), from which the action property
follows.

*ChronologicalTriggers.* `SInv` adds `LockedScheduled`: until a Scheduler lets a row
go nobody removes it, so the occurrence that it starts is the one in the schedule.

*PostgresExecutionQueue.* `PInv` describes who holds a row lock and why (`Locks`),
that no reading lies in the future (`Clock`), that a heartbeat under way is not older
than the one in the table (`Renewing`: one that overtook another would shorten the
lease), and for a punctual worker how old the heartbeat can be where it stands
(`Timeliness`). From this and `Lease >= 3 * Heartbeat` with calls shorter than
`Heartbeat`, no reading of another worker finds the row expired. The refinement needs `Locks`: between
the SELECT of a claim and its UPDATE the row stays available at the reading used.

*QueueInsertions.* `RowInv`: a deleted row is the deleting worker's own and still
current (`Deleting`), a row belongs to at most one open transaction and an inserted
one has no committed version (`Exclusive`), so a commit overwrites nothing; and
what a worker inserts are children that no other worker inserts (`Releasing`):
a child waits for its last parent, and two completions cannot both be the last.
So a finish that waits for another waits for its deleted row, which is a child of its
own task, and a circle of finishes would be a cycle of dependencies.

*WorkflowDefinitions.* `DInv` says what is known of the request where it stands
(`Checked`) and what is written (`Written`: the transaction holds the rows of the tasks
visited so far, the dependency rows of the last of them still pending). That the verdict
on a graph is exact needs no induction over the graph, only `Ordering`, an invariant of
the worklist: the keys it has taken contain no cycle (every set of them has one that
depends on nothing in the set, since no key taken earlier depends on the one taken last), and
the counts are those of `WorklistCounts`. When the stack is empty and all keys are taken, the graph is
therefore acyclic; if some are not, each of them counts a dependency that was not taken, so
these keys are a set without a start, and the reference definition calls the graph cyclic.
`CompiledGraphConsistent` counts: the places where a task stands in the lists of
children are in bijection with its parents. It is what `ParentsAssumption` and
`MaxTriesAssumption` of `WorkflowExecutions` rest on.

*Assumptions.* What the definition service enforces: `WorkflowOfAssumption`,
`ParentsAssumption`, `MaxTriesAssumption`,
`ChildrenAssumption` (children listed once each, no cycle), `TaskOrderAssumption`
(tasks listed once each, at least one per execution), `GraphAssumption` (parents are in the same
execution; acyclic or not), `TaskAssumption` (finitely many tasks), `IntervalAssumption`, `UntilAssumption`. What the
configuration enforces: `TimingAssumption`. What punctual means, a condition of
`TimelyKeepsClaim` and not a promise of the code: `TimelyAssumption`. That `uuid4` does not run
out: `TokenAssumption` of `PostgresExecutionQueue`, where some token is always free.
What kind of value a request is: `RequestsAssumption`.
That None and other marks differ from the values beside which they stand: `NothingAssumption`,
`NullAssumption`, `NoneAssumption`, `ApiNoneAssumption`, `RowAssumption` (also that the rows of
two tables are two sets), `EntryAssumption`,
`TokenAssumption` of `ExecutionQueue`. That bounds are numbers and a process is either a worker
or a caller of enqueue: `PlatformAssumption`, `BoundAssumption`, `BoundsAssumption`,
`SessionAssumption`. TLC evaluates them all in the runs.

*Only model-checked.* Everything that depends on fairness (`TransactionsEnd`,
`EverythingSettles`, `StopReached`, `OnlyFailingOccurrencesBlock`) and ENABLED are out of the prover's reach and left to TLC.
Every other property of the passing runs is a theorem.

## 7. Findings

1. **A finished workflow can stay RUNNING** (`lost_completion`,
   `persistence/workflow_executions/repository.py:397`). The NOT EXISTS that decides
   completion reads a READ COMMITTED snapshot. Two transactions completing the last
   two tasks at the same time each see the other's task RUNNING; neither
   completes the workflow and nothing looks again. A test says "The workflow
   completes when its last task completes."
   (`src/tests/persistence/workflow_executions/test_repository.py:757`).
   `StuckNeedsOverlap` proves that transactions that are open at the same time are the only way
   to get there.
2. **The trigger of a disabled workflow blocks the others** (`blocked_schedule`,
   `persistence/chronological_triggers/repository.py:101`). The query for the
   earliest due row does not look at the workflow; starting it raises, the
   advance rolls back, and the same row is selected again. A single Scheduler
   never gets past it. With two, one can pass the row while the other has it locked; nothing guarantees that.
   The documents say that a failing occurrence remains due; that those behind it wait with it,
   they do not say. The same happens behind a plugin that is missing or raises for ever.
3. **Dependencies must be listed first** (`forward_dependency`,
   `persistence/workflow_definitions/repository.py:151`). The dependency rows of a
   task are flushed before tasks listed after it exist, and the foreign key
   refuses them.

The action `delete` of `WorkflowDefinitions` shows one more thing: a definition
with a dependency can never be deleted, started or not, because nothing deletes
its dependency rows (`persistence/workflow_definitions/repository.py:93`). The
refusal leaves everything as it was. The documentation promises otherwise: "Deleting a Workflow
Definition therefore cascades through its owned definition state, including chronological
scheduling state belonging to deleted Trigger Definitions."
(`src/docs/architecture/persistence/database-schema.md:372`; dependency rows are named as owned
state in line 368), and that executions remain available independently of the deletion (line 388),
which their foreign keys to the definition do not allow either.

## 8. What is left out

* Not modelled: plugin discovery and registries (filled once at start-up; models
  take their answers as inputs), task plugins (they succeed, fail or raise), process
  bootstraps other than the worker's signal handlers, logging, database migrations
  (they create the tables before any process runs), the reading of environment
  variables, and the RabbitMQ queue (an empty file).
* Left out of modelled parts: the graceful stop of the Reconciler (it ends a loop
  between two rounds and leaves nothing open); timestamps, error
  messages and configurations of executions (no transition reads them);
  saving a definition a second time (no service does); deleting an execution (no
  service does); the health route and FastAPI's own checks of a request.
* Simplified: the order of the queue is the order of insertion, `queued_at`
  readings taken out of order are not told apart and no property depends on it. In
  `QueueInsertions` the actions `claim_entry`, `heartbeat_entry` and `release_entry` are one step each, since they lock
  one row and hold nothing while they wait, and a claim takes any entry; failed
  tasks are not told apart from late completions, which release nothing either; a
  list of roots is one of the lists `enqueue_runnable` may take. The rows of a new
  execution are inserted in one step: nobody else knows their ids.
* In `WorkflowApi` a Scheduler's start and the workers' transactions are single
  steps, and creating a definition is one; their insides are in the other modules.
* PostgreSQL, SQLAlchemy's flush order and `datetime.now` are modelled from how
  the code uses them; those definitions are marked external in the map. The
  clock does not go backwards.

## 9. Plan

Done, in this order: executions and proofs, SQL-level transactions, queue
contract and proofs, PostgreSQL queue, Platform, schedules, definitions; then
insertions row by row, the API with its reads, graceful stop of workers and
Schedulers, the loading
of definitions, the lease up to the disposal of a claim.

Next, to model: the graceful stop of the Reconciler; Scheduler and Platform
composed, so that a scheduled start, the crash after its commit and the
Reconciler meet in one model; plugin registry and discovery.

Proved since: Platform with both its refinements, the API, the schedules, the queue
table with its clock and the insertions row by row, each down to the contract, and the
transactions statement by statement, down to `WorkflowExecutions`. With these the
theorems about Platform and the API rest on the SQL beneath by proof.

The last were the definitions: verdict, worklist, rows and the compiled graph. Next, to
prove: that what `WorkflowApi` and `Platform` create is what `WorkflowDefinitions` compiles
(one statement over both modules), and whatever the composition of Scheduler and Platform
will promise.
