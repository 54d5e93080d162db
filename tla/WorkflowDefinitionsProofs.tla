---------------------- MODULE WorkflowDefinitionsProofs ----------------------
(***************************************************************************)
(* Proofs about the life of a definition, for requests of any length over  *)
(* any keys.                                                               *)
(***************************************************************************)
EXTENDS WorkflowDefinitions, FiniteSetTheorems, SequenceTheorems,
        WellFoundedInduction, TLAPS

Tasks == 1..Len(tasks)
Triggers == 1..Len(triggers)

KeysOnce == tasks # << >> /\ Cardinality(keys) = Len(tasks)

validated(n) == \A i \in Tasks : i < n => task_is_valid(tasks[i])

resolved(n) == \A i \in Triggers : i < n => triggers[i].known /\ triggers[i].configured

Validated == KeysOnce /\ \A i \in Tasks : task_is_valid(tasks[i])

\* The worklist has counted as it should, and met no cycle among the keys it
\* has taken.
Ordering ==
    /\ remaining \in [keys -> Nat]
    /\ ready \in Seq(keys)
    /\ processed \in 0..Len(tasks)
    /\ \A key \in ToSet(ready) : remaining[key] = 0
    /\ \A key \in keys : remaining[key] = Cardinality(dependencies_of(key) \ taken)
    /\ processed = Cardinality(taken)
    /\ IsInjective(ready)
    /\ \A S \in SUBSET taken : S # {} =>
          \E key \in S : dependencies_of(key) \cap S = {}

\* What the transaction holds before it visits the n-th task or trigger.
saved(n) ==
    [enabled   |-> request.enabled,
     tasks     |-> {task_to_model(tasks[i]) : i \in {j \in Tasks : j < n}},
     edges     |-> UNION {dependencies_to_models(tasks[i]) : i \in {j \in Tasks : j + 1 < n}},
     pending   |-> UNION {dependencies_to_models(tasks[i]) : i \in {j \in Tasks : j + 1 = n}},
     triggers  |-> {},
     schedules |-> {}]

initialized(n) ==
    [enabled   |-> request.enabled,
     tasks     |-> {task_to_model(tasks[i]) : i \in Tasks},
     edges     |-> UNION {dependencies_to_models(tasks[i]) : i \in Tasks},
     pending   |-> {},
     triggers  |-> {trigger_to_model(i) : i \in Triggers},
     schedules |-> {i \in {j \in Triggers : j < n} : triggers[i].occurrence = "some"}]

\* What is known of the request where it stands.
Checked ==
    /\ pc = "validating" =>
          /\ index \in 1..(Len(tasks) + 1)
          /\ index > 1 => KeysOnce
          /\ validated(index)
    /\ pc = "ordering" => Validated /\ Ordering
    /\ pc = "resolving" =>
          /\ Validated /\ acyclic
          /\ index \in 1..(Len(triggers) + 1)
          /\ resolved(index)
    /\ pc \in Transaction \cup Kept => well_formed
    /\ pc = "rejected" => ~well_formed

\* What is written where it stands.
Written ==
    /\ pc = "saving" => index \in 1..(Len(tasks) + 1) /\ session = saved(index)
    /\ pc = "initializing" =>
          /\ index \in 1..(Len(triggers) + 1)
          /\ session = initialized(index)
    /\ pc \notin Transaction => session = Nothing
    /\ pc \in Kept => stored = initialized(Len(triggers) + 1)
    /\ pc \notin Kept => stored = Nothing

\* The inductive invariant.
DInv ==
    /\ request \in Requests
    /\ pc \in Validation \cup Transaction \cup NotCreated \cup Kept \cup {"deleted"}
    /\ index \in 1..(Len(tasks) + Len(triggers) + 1)
    /\ Checked
    /\ Written
    /\ CompiledGraphConsistent

-----------------------------------------------------------------------------
(***************************************************************************)
(* Lists and the keys of a request.                                        *)
(***************************************************************************)

\* The numbers up to n are n.
LEMMA UpTo ==
    ASSUME NEW n \in Nat
    PROVE  IsFiniteSet(1..n) /\ Cardinality(1..n) = n
  BY FS_Interval

\* A list names its members, as many as it is long if it repeats none.
LEMMA DistinctList ==
    ASSUME NEW S, NEW s \in Seq(S)
    PROVE  /\ IsFiniteSet(ToSet(s)) /\ Cardinality(ToSet(s)) \in Nat
           /\ Cardinality(ToSet(s)) <= Len(s)
           /\ Cardinality(ToSet(s)) = Len(s) <=> IsInjective(s)
  <1>1. Len(s) \in Nat /\ DOMAIN s = 1..Len(s) /\ s \in [1..Len(s) -> S]
    BY LenProperties
  <1>2. s \in Surjection(1..Len(s), ToSet(s))
    BY <1>1 DEF Surjection, ToSet
  <1>3. IsFiniteSet(1..Len(s)) /\ Cardinality(1..Len(s)) = Len(s)
    BY <1>1, FS_Interval
  <1>4. s \in Injection(1..Len(s), ToSet(s)) <=> IsInjective(s)
    BY <1>1, <1>2 DEF Injection, Surjection, IsInjective
  <1>5. QED
    BY <1>2, <1>3, <1>4, FS_Surjection, FS_CardinalityType

\* The tasks and triggers of a request.
LEMMA RequestTypes ==
    ASSUME request \in Requests
    PROVE  /\ tasks \in Seq(TaskInput) /\ triggers \in Seq(TriggerInput)
           /\ Len(tasks) \in Nat /\ Len(triggers) \in Nat
           /\ DOMAIN tasks = Tasks /\ DOMAIN triggers = Triggers
           /\ \A i \in Tasks : tasks[i] \in TaskInput
           /\ \A i \in Triggers : triggers[i] \in TriggerInput
           /\ request.enabled \in BOOLEAN
  <1>1. /\ tasks \in Seq(TaskInput) /\ triggers \in Seq(TriggerInput)
        /\ request.enabled \in BOOLEAN
    BY RequestsAssumption DEF tasks, triggers
  <1>2. QED
    BY <1>1, LenProperties, ElementOfSeq DEF Tasks, Triggers

\* The fields of a task.
LEMMA TaskFields ==
    ASSUME request \in Requests, NEW i \in Tasks
    PROVE  /\ tasks[i].key \in Key /\ tasks[i].key \in keys
           /\ tasks[i].dependencies \in Seq(Key)
           /\ ToSet(tasks[i].dependencies) \subseteq Key
           /\ tasks[i].max_tries \in Int
           /\ tasks[i].known \in BOOLEAN /\ tasks[i].configured \in BOOLEAN
  <1>1. tasks[i] \in TaskInput /\ i \in DOMAIN tasks
    BY RequestTypes
  <1>2. tasks[i].dependencies \in Seq(Key)
    BY <1>1 DEF TaskInput
  <1>3. ToSet(tasks[i].dependencies) \subseteq Key
    BY <1>2, LenProperties DEF ToSet
  <1>4. QED
    BY <1>1, <1>2, <1>3 DEF TaskInput, keys

\* The keys are finitely many, one per task only if none is repeated.
LEMMA FiniteKeys ==
    ASSUME request \in Requests
    PROVE  /\ IsFiniteSet(keys) /\ Cardinality(keys) \in Nat
           /\ Cardinality(keys) = Len(tasks) <=>
                 \A i, j \in Tasks : tasks[i].key = tasks[j].key => i = j
  <1> DEFINE names == [i \in Tasks |-> tasks[i].key]
  <1>1. Len(tasks) \in Nat /\ DOMAIN tasks = Tasks
    BY RequestTypes
  <1>2. names \in Surjection(Tasks, keys)
    <2>1. names \in [Tasks -> keys]
      BY TaskFields
    <2>2. ASSUME NEW k \in keys PROVE \E i \in Tasks : names[i] = k
      BY <1>1, <2>2 DEF keys
    <2>3. QED
      BY <2>1, <2>2 DEF Surjection
  <1>3. IsFiniteSet(Tasks) /\ Cardinality(Tasks) = Len(tasks)
    BY <1>1, UpTo DEF Tasks
  <1>4. names \in Injection(Tasks, keys) <=>
           \A i, j \in Tasks : tasks[i].key = tasks[j].key => i = j
    BY <1>2 DEF Injection, Surjection, IsInjective
  <1>5. QED
    BY <1>2, <1>3, <1>4, FS_Surjection, FS_CardinalityType

\* A key names its task.
LEMMA TaskOfKey ==
    ASSUME request \in Requests, KeysOnce
    PROVE  /\ \A i, j \in Tasks : tasks[i].key = tasks[j].key => i = j
           /\ \A i \in Tasks : dependencies_of(tasks[i].key) = ToSet(tasks[i].dependencies)
           /\ \A k \in keys : \E i \in Tasks : k = tasks[i].key
  <1>1. /\ \A i, j \in Tasks : tasks[i].key = tasks[j].key => i = j
        /\ DOMAIN tasks = Tasks
    BY FiniteKeys, RequestTypes DEF KeysOnce
  <1>2. ASSUME NEW i \in Tasks
        PROVE  dependencies_of(tasks[i].key) = ToSet(tasks[i].dependencies)
    <2> DEFINE j == CHOOSE j \in DOMAIN tasks : tasks[j].key = tasks[i].key
    <2>1. j \in Tasks /\ tasks[j].key = tasks[i].key
      BY <1>1
    <2>2. j = i
      BY <1>1, <2>1
    <2>3. QED
      BY <2>2 DEF dependencies_of
  <1>3. QED
    BY <1>1, <1>2 DEF keys

\* A task that passes is one the reference accepts.
LEMMA ValidTask ==
    ASSUME request \in Requests, NEW i \in Tasks
    PROVE  task_is_valid(tasks[i]) <=>
              /\ tasks[i].max_tries > 0 /\ tasks[i].known /\ tasks[i].configured
              /\ ToSet(tasks[i].dependencies) \subseteq keys \ {tasks[i].key}
              /\ IsInjective(tasks[i].dependencies)
  <1>1. tasks[i].dependencies \in Seq(Key) /\ tasks[i].max_tries \in Int
    BY TaskFields
  <1>2. Len(tasks[i].dependencies) = Cardinality(ToSet(tasks[i].dependencies))
           <=> IsInjective(tasks[i].dependencies)
    BY <1>1, DistinctList
  <1>3. QED
    BY <1>1, <1>2 DEF task_is_valid

\* The conditions of the reference, as the service looks at them.
LEMMA WellFormedByParts ==
    ASSUME request \in Requests
    PROVE  well_formed <=> Validated /\ acyclic /\ resolved(Len(triggers) + 1)
  <1>1. /\ DOMAIN tasks = Tasks /\ DOMAIN triggers = Triggers
        /\ Len(tasks) \in Nat /\ Len(triggers) \in Nat
    BY RequestTypes
  <1>2. \A i \in Triggers : i < Len(triggers) + 1
    BY <1>1 DEF Triggers
  <1>3. (\A i \in Tasks : task_is_valid(tasks[i])) <=>
           \A i \in DOMAIN tasks :
              /\ tasks[i].max_tries > 0 /\ tasks[i].known /\ tasks[i].configured
              /\ ToSet(tasks[i].dependencies) \subseteq keys \ {tasks[i].key}
              /\ IsInjective(tasks[i].dependencies)
    BY <1>1, ValidTask
  <1>4. QED
    BY <1>1, <1>2, <1>3 DEF well_formed, Validated, KeysOnce, resolved

-----------------------------------------------------------------------------
(***************************************************************************)
(* in_request_order: a list of the chosen keys, each once.                 *)
(***************************************************************************)

\* The number of elements up to i is a numbering of a finite set of numbers.
LEMMA Ranks ==
    ASSUME NEW P \in SUBSET Nat, IsFiniteSet(P)
    PROVE  \A n \in 1..Cardinality(P) :
              \E i \in P : Cardinality({j \in P : j <= i}) = n
  <1> DEFINE upto(i) == {j \in P : j <= i}
             rank == [i \in P |-> Cardinality(upto(i))]
  <1>1. Cardinality(P) \in Nat
    BY FS_CardinalityType
  <1>2. ASSUME NEW i \in P
        PROVE  IsFiniteSet(upto(i)) /\ rank[i] \in 1..Cardinality(P)
    <2>1. IsFiniteSet(upto(i)) /\ Cardinality(upto(i)) <= Cardinality(P)
      BY FS_Subset
    <2>2. i \in upto(i)
      OBVIOUS
    <2>3. Cardinality(upto(i)) \in Nat /\ Cardinality(upto(i)) # 0
      BY <2>1, <2>2, FS_CardinalityType, FS_EmptySet
    <2>4. QED
      BY <1>1, <2>1, <2>3
  <1>3. ASSUME NEW i \in P, NEW k \in P, i < k
        PROVE  rank[i] < rank[k]
    <2>0. i \in Nat /\ k \in Nat /\ \A j \in P : j \in Nat
      OBVIOUS
    <2>1. IsFiniteSet(upto(k)) /\ upto(i) \in SUBSET upto(k) /\ k \in upto(k) /\ k \notin upto(i)
      <3>1. \A j \in P : j <= i => j <= k
        BY <2>0, <1>3
      <3>2. k <= k /\ ~(k <= i)
        BY <2>0, <1>3
      <3>3. QED
        BY <3>1, <3>2, <1>2
    <2>2. Cardinality(upto(i)) <= Cardinality(upto(k))
          /\ Cardinality(upto(i)) # Cardinality(upto(k))
      BY <2>1, FS_Subset
    <2>3. rank[i] \in Nat /\ rank[k] \in Nat
      BY <1>2
    <2>4. QED
      BY <2>2, <2>3
  <1>4. rank \in Injection(P, 1..Cardinality(P))
    <2>1. rank \in [P -> 1..Cardinality(P)]
      BY <1>2
    <2>2. ASSUME NEW i \in P, NEW k \in P, rank[i] = rank[k] PROVE i = k
      <3>1. i \in Nat /\ k \in Nat /\ rank[i] \in Nat /\ rank[k] \in Nat
        BY <1>2
      <3>2. ~(i < k) /\ ~(k < i)
        BY <1>3, <2>2, <3>1
      <3>3. QED
        BY <3>1, <3>2
    <2> HIDE DEF rank
    <2>3. QED
      BY <2>1, <2>2 DEF Injection, IsInjective
  <1>5. IsFiniteSet(1..Cardinality(P)) /\ Cardinality(1..Cardinality(P)) = Cardinality(P)
    BY <1>1, UpTo
  <1>6. rank \in Surjection(P, 1..Cardinality(P))
    BY <1>4, <1>5, FS_Injection
  <1>7. QED
    BY <1>6 DEF Surjection

\* The list names the chosen keys of the request, each once.
LEMMA InRequestOrder ==
    ASSUME request \in Requests, KeysOnce, NEW chosen \in SUBSET keys
    PROVE  /\ in_request_order(chosen) \in Seq(keys)
           /\ ToSet(in_request_order(chosen)) = chosen
           /\ IsInjective(in_request_order(chosen))
  <1> DEFINE P == {i \in DOMAIN tasks : tasks[i].key \in chosen}
             upto(i) == {j \in P : j <= i}
             place(n) == CHOOSE i \in P : Cardinality(upto(i)) = n
             list == in_request_order(chosen)
  <1>1. /\ DOMAIN tasks = Tasks /\ Len(tasks) \in Nat /\ P \subseteq Tasks
        /\ P \in SUBSET Nat
    BY RequestTypes DEF Tasks
  <1>2. IsFiniteSet(P) /\ Cardinality(P) \in Nat
    <2>1. IsFiniteSet(Tasks)
      BY <1>1, UpTo DEF Tasks
    <2>2. QED
      BY <1>1, <2>1, FS_Subset, FS_CardinalityType
  <1>3. \A n \in 1..Cardinality(P) : \E i \in P : Cardinality(upto(i)) = n
    BY <1>1, <1>2, Ranks
  <1>4. \A n \in 1..Cardinality(P) : place(n) \in P /\ Cardinality(upto(place(n))) = n
    BY <1>3
  <1>5. list = [n \in 1..Cardinality(P) |-> tasks[place(n)].key]
    BY DEF in_request_order
  <1>6. \A i \in P : \E n \in 1..Cardinality(P) : place(n) = i
    <2> DEFINE f == [n \in 1..Cardinality(P) |-> place(n)]
    <2>1. f \in Injection(1..Cardinality(P), P)
      <3>1. f \in [1..Cardinality(P) -> P]
        BY <1>4
      <3>2. ASSUME NEW m \in 1..Cardinality(P), NEW n \in 1..Cardinality(P), f[m] = f[n]
            PROVE  m = n
        <4>1. place(m) = place(n)
          BY <3>2
        <4>2. QED
          BY <4>1, <1>4
      <3> HIDE DEF f
      <3>3. QED
        BY <3>1, <3>2 DEF Injection, IsInjective
    <2>2. Cardinality(1..Cardinality(P)) = Cardinality(P)
      BY <1>2, UpTo
    <2>3. f \in Surjection(1..Cardinality(P), P)
      BY <1>2, <2>1, <2>2, FS_Injection
    <2>4. QED
      BY <2>3 DEF Surjection
  <1> HIDE DEF P, list, place, upto
  <1>7. \A i \in P : tasks[i].key \in chosen
    BY DEF P
  <1>8. list \in Seq(keys) /\ DOMAIN list = 1..Cardinality(P)
    <2>1. list \in [1..Cardinality(P) -> keys]
      BY <1>4, <1>5, <1>7
    <2>2. QED
      BY <1>2, <2>1, SeqDef
  <1>9. \A n \in 1..Cardinality(P) : list[n] = tasks[place(n)].key
    BY <1>5
  <1>10. ToSet(list) = chosen
    <2>1. ToSet(list) \subseteq chosen
      BY <1>4, <1>7, <1>8, <1>9 DEF ToSet
    <2>2. ASSUME NEW k \in chosen PROVE k \in ToSet(list)
      <3>1. PICK i \in Tasks : k = tasks[i].key
        BY TaskOfKey
      <3>2. i \in P
        BY <1>1, <3>1 DEF P
      <3>3. QED
        BY <1>6, <1>8, <1>9, <3>1, <3>2 DEF ToSet
    <2>3. QED
      BY <2>1, <2>2
  <1>11. IsInjective(list)
    <2>1. ASSUME NEW m \in 1..Cardinality(P), NEW n \in 1..Cardinality(P), list[m] = list[n]
          PROVE  m = n
      <3>0. /\ place(m) \in Tasks /\ place(n) \in Tasks
            /\ tasks[place(m)].key = tasks[place(n)].key
        BY <1>1, <1>4, <1>9, <2>1
      <3>1. place(m) = place(n)
        BY <3>0, TaskOfKey
      <3>2. QED
        BY <1>4, <3>1
    <2>2. QED
      BY <1>8, <2>1 DEF IsInjective
  <1>12. QED
    BY <1>8, <1>10, <1>11 DEF list

-----------------------------------------------------------------------------
(***************************************************************************)
(* No step changes the request, or what follows from it alone.             *)
(***************************************************************************)

\* A request is what it was when create was called.
LEMMA RequestKept == [Next]_vars => request' = request
  <1> SUFFICES ASSUME [Next]_vars PROVE request' = request
    OBVIOUS
  <1>1. CASE UNCHANGED vars
    BY <1>1 DEF vars
  <1>2. CASE \/ validate_request \/ validate_task \/ decide
             \/ create_trigger_definition \/ validate_configuration_raises
    BY <1>2 DEF validate_request, validate_task, decide, create_trigger_definition,
                validate_configuration_raises, reject
  <1>3. CASE start_ordering \/ order_next \/ begin \/ synchronize_triggers \/ commit
             \/ create_workflow_execution \/ delete
    BY <1>3 DEF start_ordering, order_next, begin, synchronize_triggers, commit,
                create_workflow_execution, delete
  <1>4. CASE synchronize_task \/ initialize \/ connection_lost
    BY <1>4 DEF synchronize_task, initialize, connection_lost, roll_back
  <1>5. QED
    BY <1>1, <1>2, <1>3, <1>4 DEF Next

\* What the request says is the same before and after a step.
LEMMA SameRequest ==
    ASSUME request' = request
    PROVE  /\ tasks' = tasks /\ triggers' = triggers /\ keys' = keys
           /\ Tasks' = Tasks /\ Triggers' = Triggers
           /\ \A k : dependencies_of(k)' = dependencies_of(k)
           /\ \A task : task_is_valid(task)' <=> task_is_valid(task)
           /\ acyclic' <=> acyclic
           /\ KeysOnce' <=> KeysOnce
           /\ Validated' <=> Validated
           /\ well_formed' <=> well_formed
           /\ \A n : (validated(n)' <=> validated(n)) /\ (resolved(n)' <=> resolved(n))
           /\ \A n : saved(n)' = saved(n) /\ initialized(n)' = initialized(n)
  <1>1. tasks' = tasks /\ triggers' = triggers
    BY DEF tasks, triggers
  <1>2. keys' = keys /\ Tasks' = Tasks /\ Triggers' = Triggers
    BY <1>1 DEF keys, Tasks, Triggers
  <1>3. \A k : dependencies_of(k)' = dependencies_of(k)
    BY <1>1, Zenon DEF dependencies_of
  <1>4. \A task : task_is_valid(task)' <=> task_is_valid(task)
    BY <1>2 DEF task_is_valid
  <1>5. acyclic' <=> acyclic
    BY <1>2, <1>3 DEF acyclic
  <1>6. KeysOnce' <=> KeysOnce
    BY <1>1, <1>2 DEF KeysOnce
  <1>7. Validated' <=> Validated
    BY <1>1, <1>2, <1>4, <1>6 DEF Validated
  <1>8. well_formed' <=> well_formed
    BY <1>1, <1>2, <1>5 DEF well_formed
  <1>9. \A n : (validated(n)' <=> validated(n)) /\ (resolved(n)' <=> resolved(n))
    BY <1>1, <1>2, <1>4 DEF validated, resolved
  <1>10. \A n : saved(n)' = saved(n) /\ initialized(n)' = initialized(n)
    BY <1>1, <1>2 DEF saved, initialized, task_to_model, trigger_to_model,
                      dependencies_to_models
  <1>11. QED
    BY <1>1, <1>2, <1>3, <1>4, <1>5, <1>6, <1>7, <1>8, <1>9, <1>10

-----------------------------------------------------------------------------
(***************************************************************************)
(* Validation.                                                             *)
(***************************************************************************)

\* The initial state has checked and written nothing.
LEMMA InitKeeps == Init => DInv
  <1> SUFFICES ASSUME Init PROVE DInv
    OBVIOUS
  <1>1. request \in Requests /\ pc = "validating" /\ index = 1
        /\ session = Nothing /\ stored = Nothing
    BY DEF Init
  <1>2. Len(tasks) \in Nat /\ Len(triggers) \in Nat
    BY <1>1, RequestTypes
  <1>3. index \in 1..(Len(tasks) + Len(triggers) + 1) /\ index \in 1..(Len(tasks) + 1)
    BY <1>1, <1>2
  <1>4. validated(index)
    BY <1>1, <1>2 DEF validated, Tasks
  <1>5. Checked
    BY <1>1, <1>3, <1>4 DEF Checked, Transaction, Kept
  <1>6. Written /\ CompiledGraphConsistent
    BY <1>1 DEF Written, Transaction, Kept, CompiledGraphConsistent
  <1>7. QED
    BY <1>1, <1>3, <1>5, <1>6 DEF DInv, Validation

\* A request is rejected only if the reference does not accept it.
LEMMA RejectKeeps ==
    ASSUME DInv, reject, pc \in Validation, ~well_formed
    PROVE  DInv'
  <1>1. /\ request' = request /\ pc' = "rejected" /\ index' = index
        /\ session' = session /\ stored' = stored
    BY DEF reject
  <1>2. Len(tasks)' = Len(tasks) /\ Len(triggers)' = Len(triggers)
        /\ ~well_formed'
    BY <1>1, SameRequest
  <1>3. session = Nothing /\ stored = Nothing
    BY DEF DInv, Written, Validation, Transaction, Kept
  <1>4. Checked'
    BY <1>1, <1>2 DEF Checked, Transaction, Kept
  <1>5. Written' /\ CompiledGraphConsistent'
    BY <1>1, <1>3 DEF Written, Transaction, Kept, CompiledGraphConsistent
  <1>6. QED
    BY <1>1, <1>2, <1>4, <1>5 DEF DInv, NotCreated

\* Steps that move on within validation write nothing.
LEMMA GoesOn ==
    ASSUME DInv, request' = request, pc \in Validation, pc' \in Validation,
           session' = session, stored' = stored,
           index' \in 1..(Len(tasks) + Len(triggers) + 1), Checked'
    PROVE  DInv'
  <1>1. session = Nothing /\ stored = Nothing
    BY DEF DInv, Written, Validation, Transaction, Kept
  <1>2. Written' /\ CompiledGraphConsistent'
    BY <1>1 DEF Written, Validation, Transaction, Kept, CompiledGraphConsistent
  <1>3. index' \in 1..(Len(tasks)' + Len(triggers)' + 1)
    BY SameRequest
  <1>4. QED
    BY <1>2, <1>3 DEF DInv

\* The look at the list of tasks.
LEMMA ValidateRequestKeeps == DInv /\ validate_request => DInv'
  <1> SUFFICES ASSUME DInv, validate_request PROVE DInv'
    OBVIOUS
  <1>1. pc = "validating" /\ (tasks = << >> \/ Cardinality(keys) # Len(tasks)) /\ reject
    BY DEF validate_request
  <1>2. ~well_formed
    BY <1>1 DEF well_formed
  <1>3. QED
    BY <1>1, <1>2, RejectKeeps DEF Validation

\* An error of a plugin ends create before anything is written.
LEMMA RaisesKeeps == DInv /\ validate_configuration_raises => DInv'
  <1> SUFFICES ASSUME DInv, validate_configuration_raises PROVE DInv'
    OBVIOUS
  <1>1. /\ request' = request /\ pc' = "raised" /\ index' = index
        /\ session' = session /\ stored' = stored /\ pc \in Validation
    BY DEF validate_configuration_raises, Validation
  <1>2. session = Nothing /\ stored = Nothing
    BY <1>1 DEF DInv, Written, Validation, Transaction, Kept
  <1>3. Checked' /\ Written' /\ CompiledGraphConsistent'
    BY <1>1, <1>2 DEF Checked, Written, Transaction, Kept, CompiledGraphConsistent
  <1>4. Len(tasks)' = Len(tasks) /\ Len(triggers)' = Len(triggers)
    BY <1>1, SameRequest DEF DInv
  <1>5. QED
    BY <1>1, <1>3, <1>4 DEF DInv, NotCreated

\* The look at one task.
LEMMA ValidateTaskKeeps == DInv /\ validate_task => DInv'
  <1> SUFFICES ASSUME DInv, validate_task PROVE DInv'
    OBVIOUS
  <1>1. /\ request \in Requests /\ pc = "validating" /\ KeysOnce /\ validated(index)
        /\ index \in 1..(Len(tasks) + 1) /\ index <= Len(tasks)
    BY DEF DInv, Checked, validate_task, KeysOnce
  <1>2. Len(tasks) \in Nat /\ Len(triggers) \in Nat /\ index \in Tasks
    BY <1>1, RequestTypes DEF Tasks
  <1>3. CASE task_is_valid(tasks[index]) /\ index' = index + 1
             /\ UNCHANGED <<request, pc, remaining, ready, processed, session, stored, rows>>
    <2>1. validated(index + 1)
      BY <1>1, <1>2, <1>3 DEF validated, Tasks
    <2>2. /\ index' \in 1..(Len(tasks) + 1)
          /\ index' \in 1..(Len(tasks) + Len(triggers) + 1)
      BY <1>1, <1>2, <1>3
    <2>3. validated(index)' /\ KeysOnce' /\ Len(tasks)' = Len(tasks)
      BY <1>1, <1>3, <2>1, SameRequest DEF validated
    <2>4. Checked'
      BY <1>1, <1>3, <2>2, <2>3 DEF Checked, Transaction, Kept
    <2>5. QED
      BY <1>1, <1>3, <2>2, <2>4, GoesOn DEF Validation
  <1>4. CASE ~task_is_valid(tasks[index]) /\ reject
    <2>1. ~well_formed
      BY <1>1, <1>2, <1>4, WellFormedByParts DEF Validated
    <2>2. QED
      BY <1>1, <1>4, <2>1, RejectKeeps DEF Validation
  <1>5. QED
    BY <1>3, <1>4 DEF validate_task

\* The look at one trigger.
LEMMA CreateTriggerKeeps == DInv /\ create_trigger_definition => DInv'
  <1> SUFFICES ASSUME DInv, create_trigger_definition PROVE DInv'
    OBVIOUS
  <1>1. /\ request \in Requests /\ pc = "resolving" /\ Validated /\ acyclic /\ resolved(index)
        /\ index \in 1..(Len(triggers) + 1) /\ index <= Len(triggers)
    BY DEF DInv, Checked, create_trigger_definition
  <1>2. Len(tasks) \in Nat /\ Len(triggers) \in Nat /\ index \in Triggers
    BY <1>1, RequestTypes DEF Triggers
  <1> DEFINE valid == triggers[index].known /\ triggers[index].configured
  <1>3. CASE valid /\ index' = index + 1
             /\ UNCHANGED <<request, pc, remaining, ready, processed, session, stored, rows>>
    <2>1. resolved(index + 1)
      BY <1>1, <1>2, <1>3 DEF resolved, Triggers
    <2>2. /\ index' \in 1..(Len(triggers) + 1)
          /\ index' \in 1..(Len(tasks) + Len(triggers) + 1)
      BY <1>1, <1>2, <1>3
    <2>3. resolved(index)' /\ Validated' /\ acyclic' /\ Len(triggers)' = Len(triggers)
      BY <1>1, <1>3, <2>1, SameRequest DEF resolved
    <2>4. Checked'
      BY <1>1, <1>3, <2>2, <2>3 DEF Checked, Transaction, Kept
    <2>5. QED
      BY <1>1, <1>3, <2>2, <2>4, GoesOn DEF Validation
  <1>4. CASE ~valid /\ reject
    <2>1. ~resolved(Len(triggers) + 1)
      BY <1>2, <1>4 DEF resolved, Triggers
    <2>2. ~well_formed
      BY <1>1, <2>1, WellFormedByParts
    <2>3. QED
      BY <1>1, <1>4, <2>2, RejectKeeps DEF Validation
  <1>5. QED
    BY <1>3, <1>4 DEF create_trigger_definition

-----------------------------------------------------------------------------
(***************************************************************************)
(* The worklist.                                                           *)
(***************************************************************************)

\* What is left when the last member is taken from a list.
LEMMA Popped ==
    ASSUME NEW S, NEW s \in Seq(S), s # << >>, IsInjective(s)
    PROVE  /\ Last(s) \in S /\ Last(s) \in ToSet(s)
           /\ Front(s) \in Seq(S)
           /\ ToSet(Front(s)) = ToSet(s) \ {Last(s)}
           /\ IsInjective(Front(s))
  <1> DEFINE n == Len(s)
             f == Front(s)
  <1>1. n \in Nat /\ n # 0 /\ DOMAIN s = 1..n /\ \A i \in 1..n : s[i] \in S
    BY EmptySeq, LenProperties, ElementOfSeq
  <1>2. Last(s) = s[n] /\ n \in 1..n
    BY <1>1 DEF Last
  <1>3. f = SubSeq(s, 1, n - 1)
    BY DEF Front
  <1>4. /\ f \in Seq(S) /\ Len(f) = n - 1
        /\ \A i \in 1..(n - 1) : f[i] = s[i]
    BY <1>1, <1>3, SubSeqProperties
  <1>5. DOMAIN f = 1..(n - 1)
    BY <1>4, LenProperties
  <1> HIDE DEF n, f
  <1>6. \A i \in 1..n : i \in 1..(n - 1) \/ i = n
    BY <1>1
  <1>7. 1..(n - 1) \subseteq 1..n /\ n \notin 1..(n - 1)
    BY <1>1
  <1>8. ToSet(f) = ToSet(s) \ {s[n]}
    <2>1. \A i \in 1..(n - 1) : s[i] # s[n]
      BY <1>1, <1>2, <1>7 DEF IsInjective
    <2>2. QED
      BY <1>1, <1>4, <1>5, <1>6, <1>7, <2>1 DEF ToSet
  <1>9. IsInjective(f)
    BY <1>1, <1>4, <1>5, <1>7 DEF IsInjective
  <1>10. s[n] \in ToSet(s)
    BY <1>1, <1>2 DEF ToSet
  <1>11. QED
    BY <1>1, <1>2, <1>4, <1>8, <1>9, <1>10 DEF f

\* Two lists without a common member, one after the other.
LEMMA Joined ==
    ASSUME NEW S, NEW s \in Seq(S), NEW t \in Seq(S),
           IsInjective(s), IsInjective(t), ToSet(s) \cap ToSet(t) = {}
    PROVE  /\ s \o t \in Seq(S)
           /\ ToSet(s \o t) = ToSet(s) \cup ToSet(t)
           /\ IsInjective(s \o t)
  <1> DEFINE m == Len(s)
             n == Len(t)
             u == s \o t
  <1>1. m \in Nat /\ n \in Nat /\ DOMAIN s = 1..m /\ DOMAIN t = 1..n
    BY LenProperties
  <1>2. /\ u \in Seq(S) /\ Len(u) = m + n
        /\ \A i \in 1..(m + n) : u[i] = IF i <= m THEN s[i] ELSE t[i - m]
    BY ConcatProperties
  <1>3. DOMAIN u = 1..(m + n)
    BY <1>2, LenProperties
  <1> HIDE DEF m, n, u
  <1>4. \A i \in 1..(m + n) : IF i <= m THEN i \in 1..m ELSE i - m \in 1..n
    BY <1>1
  <1>5. /\ \A i \in 1..m : i \in 1..(m + n) /\ u[i] = s[i]
        /\ \A i \in 1..n : i + m \in 1..(m + n) /\ u[i + m] = t[i]
    <2>1. \A i \in 1..m : i \in 1..(m + n) /\ i <= m
      BY <1>1
    <2>2. \A i \in 1..n : i + m \in 1..(m + n) /\ ~(i + m <= m) /\ (i + m) - m = i
      BY <1>1
    <2>3. QED
      BY <1>2, <2>1, <2>2
  <1>6. ToSet(u) = ToSet(s) \cup ToSet(t)
    <2>1. ToSet(u) \subseteq ToSet(s) \cup ToSet(t)
      BY <1>1, <1>2, <1>3, <1>4 DEF ToSet
    <2>2. ToSet(s) \subseteq ToSet(u) /\ ToSet(t) \subseteq ToSet(u)
      BY <1>1, <1>3, <1>5 DEF ToSet
    <2>3. QED
      BY <2>1, <2>2
  <1>7. ASSUME NEW i \in 1..(m + n), NEW j \in 1..(m + n), u[i] = u[j]
        PROVE  i = j
    <2>1. \A k \in 1..m : s[k] \in ToSet(s)
      BY <1>1 DEF ToSet
    <2>2. \A k \in 1..n : t[k] \in ToSet(t)
      BY <1>1 DEF ToSet
    <2>3. i <= m <=> j <= m
      BY <1>2, <1>4, <1>7, <2>1, <2>2
    <2>4. CASE i <= m
      BY <1>1, <1>2, <1>4, <1>7, <2>3, <2>4 DEF IsInjective
    <2>5. CASE ~(i <= m)
      <3>1. t[i - m] = t[j - m] /\ i - m \in 1..n /\ j - m \in 1..n
        BY <1>2, <1>4, <1>7, <2>3, <2>5
      <3>2. i - m = j - m
        BY <1>1, <3>1 DEF IsInjective
      <3>3. QED
        BY <1>1, <3>2
    <2>6. QED
      BY <2>4, <2>5
  <1>8. QED
    BY <1>2, <1>3, <1>6, <1>7 DEF IsInjective, u

\* A valid task depends on other tasks of the request.
LEMMA Dependencies ==
    ASSUME request \in Requests, Validated, NEW k \in keys
    PROVE  /\ dependencies_of(k) \subseteq keys \ {k}
           /\ IsFiniteSet(dependencies_of(k))
           /\ \A T : /\ IsFiniteSet(dependencies_of(k) \ T)
                     /\ Cardinality(dependencies_of(k) \ T) \in Nat
                     /\ Cardinality(dependencies_of(k) \ T) = 0
                           <=> dependencies_of(k) \subseteq T
  <1>1. PICK i \in Tasks : k = tasks[i].key
    BY TaskOfKey DEF Validated
  <1>2. dependencies_of(k) = ToSet(tasks[i].dependencies)
    BY <1>1, TaskOfKey DEF Validated
  <1>3. dependencies_of(k) \subseteq keys \ {k}
    BY <1>1, <1>2, ValidTask DEF Validated
  <1>4. IsFiniteSet(dependencies_of(k))
    BY <1>3, FiniteKeys, FS_Subset
  <1>5. ASSUME NEW T
        PROVE  /\ IsFiniteSet(dependencies_of(k) \ T)
               /\ Cardinality(dependencies_of(k) \ T) \in Nat
               /\ Cardinality(dependencies_of(k) \ T) = 0
                     <=> dependencies_of(k) \subseteq T
    <2>1. IsFiniteSet(dependencies_of(k) \ T)
      BY <1>4, FS_Subset
    <2>2. QED
      BY <2>1, FS_CardinalityType, FS_EmptySet
  <1>6. QED
    BY <1>3, <1>4, <1>5

\* The worklist starts with the tasks that depend on nothing.
LEMMA StartOrderingKeeps == DInv /\ start_ordering => DInv'
  <1> SUFFICES ASSUME DInv, start_ordering PROVE DInv'
    OBVIOUS
  <1>1. /\ request \in Requests /\ pc = "validating" /\ index = Len(tasks) + 1
        /\ tasks # << >> /\ validated(index) /\ (index > 1 => KeysOnce)
        /\ index \in 1..(Len(tasks) + Len(triggers) + 1)
    BY DEF DInv, Checked, start_ordering
  <1>2. Len(tasks) \in Nat /\ Len(tasks) # 0
    BY <1>1, RequestTypes, EmptySeq
  <1>3. Validated
    BY <1>1, <1>2 DEF Validated, validated, Tasks
  <1> DEFINE roots == {key \in keys : dependencies_of(key) = {}}
  <1>4. /\ pc' = "ordering" /\ processed' = 0
        /\ remaining' = [key \in keys |-> Cardinality(dependencies_of(key))]
        /\ ready' = in_request_order(roots)
        /\ request' = request /\ index' = index /\ session' = session /\ stored' = stored
    BY DEF start_ordering
  <1>5. /\ ready' \in Seq(keys) /\ ToSet(ready') = roots /\ IsInjective(ready')
    BY <1>1, <1>3, <1>4, InRequestOrder DEF Validated
  <1>6. \A key \in keys : /\ remaining'[key] \in Nat
                          /\ remaining'[key] = Cardinality(dependencies_of(key) \ {})
                          /\ remaining'[key] = 0 <=> key \in roots
    <2>1. \A key \in keys : dependencies_of(key) \ {} = dependencies_of(key)
      OBVIOUS
    <2>2. QED
      BY <1>1, <1>3, <1>4, <2>1, Dependencies
  <1>7. taken' = {}
    BY <1>4, <1>5, <1>6, SameRequest DEF taken
  <1>8. remaining' \in [keys -> Nat]
    BY <1>4, <1>6
  <1> HIDE DEF roots
  <1>9. Ordering'
    <2>1. keys' = keys /\ Len(tasks)' = Len(tasks) /\ \A k : dependencies_of(k)' = dependencies_of(k)
      BY <1>4, SameRequest
    <2>2. \A key \in keys' : remaining'[key] = Cardinality(dependencies_of(key)' \ taken')
      BY <1>6, <1>7, <2>1
    <2>3. processed' \in 0..Len(tasks)' /\ processed' = Cardinality(taken')
      BY <1>2, <1>4, <1>7, <2>1, FS_EmptySet
    <2>4. \A S \in SUBSET taken' : S # {} =>
             \E key \in S : dependencies_of(key)' \cap S = {}
      BY <1>7
    <2>5. \A key \in ToSet(ready') : remaining'[key] = 0
      BY <1>5, <1>6 DEF roots
    <2>6. remaining' \in [keys' -> Nat] /\ ready' \in Seq(keys')
      BY <1>5, <1>8, <2>1
    <2>7. QED
      BY <1>5, <2>2, <2>3, <2>4, <2>5, <2>6 DEF Ordering
  <1>10. Checked'
    BY <1>3, <1>4, <1>9, SameRequest DEF Checked, Transaction, Kept
  <1>11. QED
    BY <1>1, <1>4, <1>10, GoesOn DEF Validation

\* The key taken from the stack, and what its children lose: the taken keys
\* grow by it alone.
LEMMA TakeNext ==
    ASSUME request \in Requests, Validated, Ordering, order_next
    PROVE  /\ Last(ready) \in keys \ taken
           /\ dependencies_of(Last(ready)) \subseteq taken
           /\ taken' = taken \cup {Last(ready)}
           /\ remaining' \in [keys -> Nat]
           /\ \A k \in keys :
                 remaining'[k] = Cardinality(dependencies_of(k) \ (taken \cup {Last(ready)}))
           /\ ready' \in Seq(keys) /\ IsInjective(ready')
           /\ \A k \in ToSet(ready') : remaining'[k] = 0
  <1> DEFINE key == Last(ready)
             free == {c \in children(key) : remaining[c] = 1}
             rest == Front(ready)
             new == becomes_ready(key)
  <1>1. /\ remaining \in [keys -> Nat] /\ ready \in Seq(keys) /\ IsInjective(ready)
        /\ \A k \in ToSet(ready) : remaining[k] = 0
        /\ \A k \in keys : remaining[k] = Cardinality(dependencies_of(k) \ taken)
    BY DEF Ordering
  <1>2. /\ ready # << >> /\ request' = request
        /\ remaining' = [c \in keys |-> IF c \in children(key)
                                        THEN remaining[c] - 1 ELSE remaining[c]]
        /\ ready' = rest \o new
    BY DEF order_next
  <1>3. /\ key \in keys /\ key \in ToSet(ready) /\ rest \in Seq(keys)
        /\ ToSet(rest) = ToSet(ready) \ {key} /\ IsInjective(rest)
    BY <1>1, <1>2, Popped
  <1>4. new \in Seq(keys) /\ ToSet(new) = free /\ IsInjective(new)
    <2>1. free \in SUBSET keys
      BY DEF children
    <2>2. new = in_request_order(free)
      BY DEF becomes_ready
    <2> HIDE DEF free, new
    <2>3. QED
      BY <2>1, <2>2, InRequestOrder DEF Validated
  <1> HIDE DEF key, rest, new
  <1>5. key \notin taken /\ key \notin free /\ remaining[key] = 0
    BY <1>1, <1>3 DEF taken
  <1>6. ToSet(rest) \cap ToSet(new) = {}
    BY <1>1, <1>3, <1>4
  <1>7. /\ ready' \in Seq(keys) /\ IsInjective(ready')
        /\ ToSet(ready') = (ToSet(ready) \ {key}) \cup free
    BY <1>2, <1>3, <1>4, <1>6, Joined
  <1>8. key \notin children(key)
    BY <1>3, Dependencies DEF children
  <1>9. ASSUME NEW k \in children(key)
        PROVE  /\ k \in keys /\ remaining[k] \in Nat /\ remaining[k] > 0
               /\ key \in dependencies_of(k)
    <2>1. k \in keys /\ key \in dependencies_of(k)
      BY DEF children
    <2>2. Cardinality(dependencies_of(k) \ taken) # 0
      BY <1>5, <2>1, Dependencies
    <2>3. QED
      BY <1>1, <2>1, <2>2
  <1>10. \A k \in keys : remaining'[k] = IF k \in children(key)
                                         THEN remaining[k] - 1 ELSE remaining[k]
    BY <1>2
  <1>11. remaining' \in [keys -> Nat]
    <2>1. \A k \in keys : (IF k \in children(key) THEN remaining[k] - 1 ELSE remaining[k]) \in Nat
      BY <1>1, <1>9
    <2>2. QED
      BY <1>2, <2>1
  <1>12. ASSUME NEW k \in keys
         PROVE  remaining'[k] = Cardinality(dependencies_of(k) \ (taken \cup {key}))
    <2> DEFINE D == dependencies_of(k) \ taken
    <2>1. IsFiniteSet(D) /\ remaining[k] = Cardinality(D)
      BY <1>1, Dependencies
    <2>2. dependencies_of(k) \ (taken \cup {key}) = D \ {key}
      OBVIOUS
    <2>3. Cardinality(D \ {key}) = IF key \in D THEN Cardinality(D) - 1 ELSE Cardinality(D)
      BY <2>1, FS_RemoveElement
    <2>4. key \in D <=> k \in children(key)
      BY <1>3, <1>5 DEF children
    <2>5. QED
      BY <1>10, <2>1, <2>2, <2>3, <2>4
  <1>13. taken' = taken \cup {key}
    <2>1. taken' = {k \in keys : remaining'[k] = 0 /\ k \notin ToSet(ready')}
      BY <1>2, SameRequest DEF taken
    <2>2. ASSUME NEW k \in keys
          PROVE  remaining'[k] = 0 /\ k \notin ToSet(ready') <=> k \in taken \/ k = key
      <3>1. CASE k = key
        BY <3>1, <1>5, <1>7, <1>8, <1>10
      <3>2. CASE k \in children(key)
        <4>1. remaining'[k] = remaining[k] - 1 /\ k # key /\ k \notin taken
          BY <3>2, <1>8, <1>9, <1>10 DEF taken
        <4>2. remaining'[k] = 0 <=> k \in free
          BY <3>2, <4>1, <1>9
        <4>3. QED
          BY <4>1, <4>2, <1>7
      <3>3. CASE k # key /\ k \notin children(key)
        BY <3>3, <1>7, <1>10 DEF taken
      <3>4. QED
        BY <3>1, <3>2, <3>3
    <2>3. taken \subseteq keys
      BY DEF taken
    <2>4. QED
      BY <1>3, <2>1, <2>2, <2>3
  <1>14. \A k \in ToSet(ready') : remaining'[k] = 0
    <2>1. ASSUME NEW k \in ToSet(ready) PROVE remaining'[k] = 0
      <3>1. k \in keys
        BY <1>1, LenProperties DEF ToSet
      <3>2. k \notin children(key)
        BY <1>1, <1>9, <2>1
      <3>3. QED
        BY <1>1, <1>10, <2>1, <3>1, <3>2
    <2>2. ASSUME NEW k \in free PROVE remaining'[k] = 0
      BY <1>9, <1>10
    <2>3. QED
      BY <1>7, <2>1, <2>2
  <1>15. dependencies_of(key) \subseteq taken
    <2>1. Cardinality(dependencies_of(key) \ taken) = 0
      BY <1>1, <1>3, <1>5
    <2>2. QED
      BY <1>3, <2>1, Dependencies
  <1>16. QED
    BY <1>3, <1>5, <1>7, <1>11, <1>12, <1>13, <1>14, <1>15 DEF key

\* Taking the next key keeps the counts, and meets no cycle.
LEMMA OrderNextKeeps == DInv /\ order_next => DInv'
  <1> SUFFICES ASSUME DInv, order_next PROVE DInv'
    OBVIOUS
  <1> DEFINE key == Last(ready)
             T == taken \cup {key}
  <1>1. /\ request \in Requests /\ pc = "ordering" /\ Validated /\ Ordering
        /\ index \in 1..(Len(tasks) + Len(triggers) + 1)
    BY DEF DInv, Checked, order_next
  <1>2. /\ processed' = processed + 1 /\ pc' = pc /\ request' = request
        /\ index' = index /\ session' = session /\ stored' = stored
    BY DEF order_next
  <1>3. /\ key \in keys \ taken /\ dependencies_of(key) \subseteq taken /\ taken' = T
        /\ remaining' \in [keys -> Nat]
        /\ \A k \in keys : remaining'[k] = Cardinality(dependencies_of(k) \ T)
        /\ ready' \in Seq(keys) /\ IsInjective(ready')
        /\ \A k \in ToSet(ready') : remaining'[k] = 0
    BY <1>1, TakeNext
  <1>4. /\ keys' = keys /\ Len(tasks)' = Len(tasks)
        /\ \A k : dependencies_of(k)' = dependencies_of(k)
    BY <1>2, SameRequest
  <1>5. taken \subseteq keys /\ T \subseteq keys
    BY <1>3 DEF taken
  <1> HIDE DEF key
  <1>6. processed' = Cardinality(T) /\ processed' \in 0..Len(tasks)
    <2>1. IsFiniteSet(keys) /\ Cardinality(keys) = Len(tasks) /\ Len(tasks) \in Nat
      BY <1>1, FiniteKeys, RequestTypes DEF Validated, KeysOnce
    <2>2. IsFiniteSet(taken) /\ processed = Cardinality(taken) /\ processed \in Nat
      BY <1>1, <1>5, <2>1, FS_Subset DEF Ordering
    <2>3. Cardinality(T) = processed + 1
      BY <1>3, <2>2, FS_AddElement
    <2>4. Cardinality(T) <= Len(tasks)
      BY <1>5, <2>1, FS_Subset
    <2>5. QED
      BY <1>2, <2>1, <2>2, <2>3, <2>4
  <1>7. ASSUME NEW S \in SUBSET T, S # {}
        PROVE  \E k \in S : dependencies_of(k) \cap S = {}
    <2>1. CASE S \ {key} = {}
      <3>1. S = {key} /\ key \notin dependencies_of(key)
        BY <1>3, <1>7, <2>1
      <3>2. QED
        BY <3>1
    <2>2. CASE S \ {key} # {}
      <3>1. PICK k \in S \ {key} : dependencies_of(k) \cap (S \ {key}) = {}
        BY <1>1, <1>7, <2>2 DEF Ordering
      <3>2. k \in taken /\ k \in keys
        BY <1>5, <1>7, <3>1
      <3>3. Cardinality(dependencies_of(k) \ taken) = 0
        BY <1>1, <3>2 DEF Ordering, taken
      <3>4. dependencies_of(k) \subseteq taken
        BY <1>1, <3>2, <3>3, Dependencies
      <3>5. QED
        BY <1>3, <3>1, <3>4
    <2>3. QED
      BY <2>1, <2>2
  <1> HIDE DEF T
  <1>8. Ordering'
    BY <1>3, <1>4, <1>6, <1>7 DEF Ordering
  <1>9. Checked'
    BY <1>1, <1>2, <1>8, SameRequest DEF Checked, Transaction, Kept
  <1>10. QED
    BY <1>1, <1>2, <1>9, GoesOn DEF Validation

\* When the stack is empty, the keys not taken depend on each other.
LEMMA DecideKeeps == DInv /\ decide => DInv'
  <1> SUFFICES ASSUME DInv, decide PROVE DInv'
    OBVIOUS
  <1>1. /\ request \in Requests /\ pc = "ordering" /\ Validated /\ Ordering /\ ready = << >>
        /\ has_dependency_cycle \/ ~has_dependency_cycle
    BY DEF DInv, Checked, decide
  <1>2. /\ taken \subseteq keys /\ IsFiniteSet(keys) /\ Cardinality(keys) = Len(tasks)
        /\ processed = Cardinality(taken)
        /\ Len(tasks) \in Nat /\ Len(triggers) \in Nat
    BY <1>1, FiniteKeys, RequestTypes DEF taken, Validated, KeysOnce, Ordering
  <1>3. CASE has_dependency_cycle /\ reject
    <2> DEFINE S == keys \ taken
    <2>1. S # {}
      <3>1. taken # keys
        BY <1>2, <1>3 DEF has_dependency_cycle
      <3>2. QED
        BY <1>2, <3>1
    <2>2. ASSUME NEW k \in S PROVE dependencies_of(k) \cap S # {}
      <3>1. k \in keys /\ remaining[k] # 0
        BY <1>1 DEF taken, ToSet
      <3>2. ~(dependencies_of(k) \subseteq taken)
        BY <1>1, <3>1, Dependencies DEF Ordering
      <3>3. dependencies_of(k) \subseteq keys
        BY <1>1, <3>1, Dependencies
      <3>4. QED
        BY <3>2, <3>3
    <2>3. ~acyclic
      BY <2>1, <2>2 DEF acyclic
    <2>4. ~well_formed
      BY <1>1, <2>3, WellFormedByParts
    <2>5. QED
      BY <1>1, <1>3, <2>4, RejectKeeps DEF Validation
  <1>4. CASE /\ ~has_dependency_cycle /\ pc' = "resolving" /\ index' = 1
             /\ UNCHANGED <<request, remaining, ready, processed, session, stored, rows>>
    <2>1. taken = keys
      BY <1>2, <1>4, FS_Subset DEF has_dependency_cycle
    <2>2. acyclic
      BY <1>1, <2>1 DEF Ordering, acyclic
    <2>3. resolved(1)
      BY <1>2 DEF resolved, Triggers
    <2>4. resolved(index)' /\ Validated' /\ acyclic' /\ Len(triggers)' = Len(triggers)
      BY <1>1, <1>4, <2>2, <2>3, SameRequest DEF resolved
    <2>5. /\ index' \in 1..(Len(triggers) + 1)
          /\ index' \in 1..(Len(tasks) + Len(triggers) + 1)
      BY <1>2, <1>4
    <2>6. Checked'
      BY <1>4, <2>4, <2>5 DEF Checked, Transaction, Kept
    <2>7. QED
      BY <1>1, <1>4, <2>5, <2>6, GoesOn DEF Validation
  <1>5. QED
    BY <1>3, <1>4 DEF decide

-----------------------------------------------------------------------------
(***************************************************************************)
(* The transaction.                                                        *)
(***************************************************************************)

\* What the transaction holds is a definition, not Nothing.
LEMMA HeldRows ==
    ASSUME request \in Requests, NEW n
    PROVE  saved(n) \in Definition /\ initialized(n) \in Definition
  <1>1. request.enabled \in BOOLEAN /\ Triggers \subseteq Nat
    BY RequestTypes DEF Triggers
  <1>2. \A i \in Tasks : task_to_model(tasks[i]) \in [key : Key, max_tries : Int]
    BY TaskFields DEF task_to_model
  <1>3. \A i \in Tasks : dependencies_to_models(tasks[i]) \subseteq Key \X Key
    BY TaskFields DEF dependencies_to_models
  <1>4. \A i \in Triggers : trigger_to_model(i) \in [id : Nat, enabled : BOOLEAN]
    <2>1. \A i \in Triggers : triggers[i].enabled \in BOOLEAN
      BY RequestTypes DEF TriggerInput
    <2>2. QED
      BY <1>1, <2>1 DEF trigger_to_model
  <1>5. /\ {task_to_model(tasks[i]) : i \in {j \in Tasks : j < n}}
              \in SUBSET [key : Key, max_tries : Int]
        /\ {task_to_model(tasks[i]) : i \in Tasks} \in SUBSET [key : Key, max_tries : Int]
    BY <1>2
  <1>6. /\ UNION {dependencies_to_models(tasks[i]) : i \in {j \in Tasks : j + 1 < n}}
              \in SUBSET (Key \X Key)
        /\ UNION {dependencies_to_models(tasks[i]) : i \in {j \in Tasks : j + 1 = n}}
              \in SUBSET (Key \X Key)
        /\ UNION {dependencies_to_models(tasks[i]) : i \in Tasks} \in SUBSET (Key \X Key)
    BY <1>3
  <1>7. {trigger_to_model(i) : i \in Triggers} \in SUBSET [id : Nat, enabled : BOOLEAN]
    BY <1>4
  <1>8. {i \in {j \in Triggers : j < n} : triggers[i].occurrence = "some"} \in SUBSET Nat
    BY <1>1
  <1>9. saved(n) \in Definition
    BY <1>1, <1>5, <1>6 DEF saved, Definition
  <1>10. initialized(n) \in Definition
    BY <1>1, <1>5, <1>6, <1>7, <1>8 DEF initialized, Definition
  <1>11. QED
    BY <1>9, <1>10

\* A step within the transaction, or its commit, of a sound request.
LEMMA Proceeds ==
    ASSUME DInv, request' = request, well_formed, stored' = stored, stored = Nothing,
           pc' \in Transaction,
           index' \in 1..(Len(tasks) + Len(triggers) + 1),
           pc' = "saving" => index' \in 1..(Len(tasks) + 1) /\ session' = saved(index'),
           pc' = "initializing" =>
              index' \in 1..(Len(triggers) + 1) /\ session' = initialized(index')
    PROVE  DInv'
  <1>1. /\ Len(tasks)' = Len(tasks) /\ Len(triggers)' = Len(triggers) /\ well_formed'
        /\ saved(index)' = saved(index') /\ initialized(index)' = initialized(index')
    <2>1. tasks' = tasks /\ triggers' = triggers /\ Tasks' = Tasks /\ Triggers' = Triggers
          /\ well_formed'
      BY SameRequest
    <2>2. QED
      BY <2>1 DEF saved, initialized, task_to_model, trigger_to_model, dependencies_to_models
  <1>2. Checked' /\ CompiledGraphConsistent'
    BY <1>1 DEF Checked, Transaction, CompiledGraphConsistent
  <1>3. Written'
    BY <1>1 DEF Written, Transaction, Kept
  <1>4. QED
    BY <1>1, <1>2, <1>3 DEF DInv

\* A rollback leaves nothing.
LEMMA RollBackKeeps ==
    ASSUME DInv, NEW outcome \in {"failed", "lost"}, pc \in Transaction, roll_back(outcome)
    PROVE  DInv'
  <1>1. /\ pc' = outcome /\ session' = Nothing /\ stored' = stored
        /\ request' = request /\ index' = index
    BY DEF roll_back
  <1>2. stored = Nothing
    BY DEF DInv, Written, Transaction, Kept
  <1>3. Checked' /\ Written' /\ CompiledGraphConsistent'
    BY <1>1, <1>2 DEF Checked, Written, Transaction, Kept, CompiledGraphConsistent
  <1>4. Len(tasks)' = Len(tasks) /\ Len(triggers)' = Len(triggers)
    BY <1>1, SameRequest
  <1>5. QED
    BY <1>1, <1>3, <1>4 DEF DInv, NotCreated

\* The transaction begins with nothing written.
LEMMA BeginKeeps == DInv /\ begin => DInv'
  <1> SUFFICES ASSUME DInv, begin PROVE DInv'
    OBVIOUS
  <1>1. /\ request \in Requests /\ pc = "resolving" /\ index = Len(triggers) + 1
        /\ Validated /\ acyclic /\ resolved(index) /\ stored = Nothing
    BY DEF DInv, Checked, Written, Transaction, Kept, begin
  <1>2. well_formed
    BY <1>1, WellFormedByParts
  <1>3. /\ pc' = "saving" /\ index' = 1 /\ request' = request /\ stored' = stored
        /\ session' = [enabled |-> request.enabled, tasks |-> {}, edges |-> {},
                       pending |-> {}, triggers |-> {}, schedules |-> {}]
    BY DEF begin
  <1>4. Len(tasks) \in Nat /\ Len(triggers) \in Nat
    BY <1>1, RequestTypes
  <1>5. /\ {j \in Tasks : j < 1} = {} /\ {j \in Tasks : j + 1 < 1} = {}
        /\ {j \in Tasks : j + 1 = 1} = {}
    BY <1>4 DEF Tasks
  <1>6. session' = saved(1)
    BY <1>3, <1>5 DEF saved
  <1>7. 1 \in 1..(Len(tasks) + 1) /\ 1 \in 1..(Len(tasks) + Len(triggers) + 1)
    BY <1>4
  <1>8. QED
    BY <1>1, <1>2, <1>3, <1>6, <1>7, Proceeds DEF Transaction

\* One more task is saved, or a foreign key fails.
LEMMA SynchronizeTaskKeeps == DInv /\ synchronize_task => DInv'
  <1> SUFFICES ASSUME DInv, synchronize_task PROVE DInv'
    OBVIOUS
  <1>1. /\ request \in Requests /\ pc = "saving" /\ index \in 1..(Len(tasks) + 1)
        /\ index <= Len(tasks) /\ session = saved(index) /\ well_formed /\ stored = Nothing
    BY DEF DInv, Checked, Written, Transaction, Kept, synchronize_task
  <1>2. Len(tasks) \in Nat /\ Len(triggers) \in Nat /\ index \in Tasks /\ index \in Nat
    BY <1>1, RequestTypes DEF Tasks
  <1> DEFINE row == task_to_model(tasks[index])
             edges(n) == UNION {dependencies_to_models(tasks[i]) : i \in {j \in Tasks : j + 1 < n}}
             pending(n) == UNION {dependencies_to_models(tasks[i]) : i \in {j \in Tasks : j + 1 = n}}
             models(n) == {task_to_model(tasks[i]) : i \in {j \in Tasks : j < n}}
  <1>3. CASE /\ session' = [flushed EXCEPT !.tasks = @ \cup {row},
                                           !.pending = dependencies_to_models(tasks[index])]
             /\ index' = index + 1
             /\ UNCHANGED <<request, pc, remaining, ready, processed, stored, rows>>
    <2>1. /\ {j \in Tasks : j < index + 1} = {j \in Tasks : j < index} \cup {index}
          /\ {j \in Tasks : j + 1 < index + 1}
                = {j \in Tasks : j + 1 < index} \cup {j \in Tasks : j + 1 = index}
          /\ {j \in Tasks : j + 1 = index + 1} = {index}
      <3>1. \A j \in Tasks : /\ j < index + 1 <=> j < index \/ j = index
                             /\ j + 1 < index + 1 <=> j + 1 < index \/ j + 1 = index
                             /\ j + 1 = index + 1 <=> j = index
        BY <1>2 DEF Tasks
      <3>2. QED
        BY <1>2, <3>1
    <2>2. models(index + 1) = models(index) \cup {row}
      BY <2>1
    <2>3. edges(index + 1) = edges(index) \cup pending(index)
      BY <2>1
    <2>4. pending(index + 1) = dependencies_to_models(tasks[index])
      BY <2>1
    <2> HIDE DEF models, edges, pending, row
    <2>5. session = [enabled |-> request.enabled, tasks |-> models(index),
                     edges |-> edges(index), pending |-> pending(index),
                     triggers |-> {}, schedules |-> {}]
      BY <1>1 DEF saved, models, edges, pending
    <2>6. session' = [enabled |-> request.enabled, tasks |-> models(index) \cup {row},
                      edges |-> edges(index) \cup pending(index),
                      pending |-> dependencies_to_models(tasks[index]),
                      triggers |-> {}, schedules |-> {}]
      BY <1>3, <2>5 DEF flushed
    <2>7. saved(index + 1) = [enabled |-> request.enabled, tasks |-> models(index + 1),
                              edges |-> edges(index + 1), pending |-> pending(index + 1),
                              triggers |-> {}, schedules |-> {}]
      BY DEF saved, models, edges, pending
    <2>8. session' = saved(index')
      BY <1>3, <2>2, <2>3, <2>4, <2>6, <2>7
    <2>9. /\ index' \in 1..(Len(tasks) + 1)
          /\ index' \in 1..(Len(tasks) + Len(triggers) + 1)
      BY <1>1, <1>2, <1>3
    <2>10. QED
      BY <1>1, <1>3, <2>8, <2>9, Proceeds DEF Transaction
  <1>4. CASE roll_back("failed")
    BY <1>1, <1>4, RollBackKeeps DEF Transaction
  <1>5. QED
    BY <1>3, <1>4 DEF synchronize_task

\* After the last task its dependency rows are flushed, and the triggers.
LEMMA SynchronizeTriggersKeeps == DInv /\ synchronize_triggers => DInv'
  <1> SUFFICES ASSUME DInv, synchronize_triggers PROVE DInv'
    OBVIOUS
  <1>1. /\ request \in Requests /\ pc = "saving" /\ index = Len(tasks) + 1
        /\ session = saved(index) /\ well_formed /\ stored = Nothing
    BY DEF DInv, Checked, Written, Transaction, Kept, synchronize_triggers
  <1>2. /\ pc' = "initializing" /\ index' = 1 /\ request' = request /\ stored' = stored
        /\ session' = [flushed EXCEPT !.triggers = {trigger_to_model(i) : i \in DOMAIN triggers}]
    BY DEF synchronize_triggers
  <1>3. Len(tasks) \in Nat /\ Len(triggers) \in Nat /\ DOMAIN triggers = Triggers
    BY <1>1, RequestTypes
  <1> DEFINE edges == UNION {dependencies_to_models(tasks[i]) : i \in Tasks}
             models == {task_to_model(tasks[i]) : i \in Tasks}
             e(n) == UNION {dependencies_to_models(tasks[i]) : i \in {j \in Tasks : j + 1 < n}}
             p(n) == UNION {dependencies_to_models(tasks[i]) : i \in {j \in Tasks : j + 1 = n}}
  <1>4. /\ {j \in Tasks : j < index} = Tasks
        /\ {j \in Tasks : j + 1 < index} \cup {j \in Tasks : j + 1 = index} = Tasks
        /\ {j \in Triggers : j < 1} = {}
    <2>1. /\ \A j \in Tasks : j < index /\ (j + 1 < index \/ j + 1 = index)
          /\ \A j \in Triggers : ~(j < 1)
      BY <1>1, <1>3 DEF Tasks, Triggers
    <2>2. QED
      BY <2>1
  <1>5. e(index) \cup p(index) = edges
    BY <1>4
  <1> HIDE DEF edges, models, e, p
  <1>6. session = [enabled |-> request.enabled, tasks |-> models,
                   edges |-> e(index), pending |-> p(index),
                   triggers |-> {}, schedules |-> {}]
    BY <1>1, <1>4 DEF saved, models, e, p
  <1>7. session' = [enabled |-> request.enabled, tasks |-> models,
                    edges |-> edges, pending |-> {},
                    triggers |-> {trigger_to_model(i) : i \in Triggers}, schedules |-> {}]
    BY <1>2, <1>3, <1>5, <1>6 DEF flushed
  <1>8. initialized(1) = [enabled |-> request.enabled, tasks |-> models,
                          edges |-> edges, pending |-> {},
                          triggers |-> {trigger_to_model(i) : i \in Triggers},
                          schedules |-> {}]
    BY <1>4 DEF initialized, models, edges
  <1>9. 1 \in 1..(Len(triggers) + 1) /\ 1 \in 1..(Len(tasks) + Len(triggers) + 1)
    BY <1>3
  <1>10. QED
    BY <1>1, <1>2, <1>7, <1>8, <1>9, Proceeds DEF Transaction

\* One more schedule, or a trigger that raises.
LEMMA InitializeKeeps == DInv /\ initialize => DInv'
  <1> SUFFICES ASSUME DInv, initialize PROVE DInv'
    OBVIOUS
  <1>1. /\ request \in Requests /\ pc = "initializing" /\ index \in 1..(Len(triggers) + 1)
        /\ index <= Len(triggers) /\ session = initialized(index)
        /\ well_formed /\ stored = Nothing
    BY DEF DInv, Checked, Written, Transaction, Kept, initialize
  <1>2. /\ Len(tasks) \in Nat /\ Len(triggers) \in Nat /\ index \in Triggers /\ index \in Nat
    BY <1>1, RequestTypes DEF Triggers
  <1> DEFINE models == {task_to_model(tasks[i]) : i \in Tasks}
             edges == UNION {dependencies_to_models(tasks[i]) : i \in Tasks}
             all == {trigger_to_model(i) : i \in Triggers}
             schedules(n) == {i \in {j \in Triggers : j < n} : triggers[i].occurrence = "some"}
             some == triggers[index].occurrence = "some"
  <1>3. CASE /\ session' = IF some THEN [session EXCEPT !.schedules = @ \cup {index}] ELSE session
             /\ index' = index + 1
             /\ UNCHANGED <<request, pc, remaining, ready, processed, stored, rows>>
    <2>1. \A j \in Triggers : j < index + 1 <=> j < index \/ j = index
      BY <1>2 DEF Triggers
    <2>2. schedules(index + 1) = IF some THEN schedules(index) \cup {index} ELSE schedules(index)
      BY <1>2, <2>1
    <2> HIDE DEF models, edges, all, schedules, some
    <2>3. \A n : initialized(n) = [enabled |-> request.enabled, tasks |-> models,
                                   edges |-> edges, pending |-> {},
                                   triggers |-> all, schedules |-> schedules(n)]
      BY DEF initialized, models, edges, all, schedules
    <2>4. session' = initialized(index')
      <3>1. CASE some
        BY <3>1, <1>1, <1>3, <2>2, <2>3
      <3>2. CASE ~some
        BY <3>2, <1>1, <1>3, <2>2, <2>3
      <3>3. QED
        BY <3>1, <3>2
    <2>5. /\ index' \in 1..(Len(triggers) + 1)
          /\ index' \in 1..(Len(tasks) + Len(triggers) + 1)
      BY <1>1, <1>2, <1>3
    <2>6. QED
      BY <1>1, <1>3, <2>4, <2>5, Proceeds DEF Transaction
  <1>4. CASE roll_back("failed")
    BY <1>1, <1>4, RollBackKeeps DEF Transaction
  <1>5. QED
    BY <1>3, <1>4 DEF initialize

\* What is committed is whole.
LEMMA CommitKeeps == DInv /\ commit => DInv'
  <1> SUFFICES ASSUME DInv, commit PROVE DInv'
    OBVIOUS
  <1>1. /\ pc = "initializing" /\ index = Len(triggers) + 1 /\ session = initialized(index)
        /\ well_formed
    BY DEF DInv, Checked, Written, Transaction, commit
  <1>2. /\ pc' \in {"accepted", "unanswered"} /\ stored' = session /\ session' = Nothing
        /\ request' = request /\ index' = index
    BY DEF commit
  <1>3. stored' = initialized(Len(triggers) + 1)' /\ well_formed'
    BY <1>1, <1>2, SameRequest
  <1>4. Len(tasks)' = Len(tasks) /\ Len(triggers)' = Len(triggers)
    BY <1>2, SameRequest
  <1>5. Checked' /\ Written' /\ CompiledGraphConsistent'
    BY <1>2, <1>3 DEF Checked, Written, Transaction, Kept, CompiledGraphConsistent
  <1>6. QED
    BY <1>2, <1>4, <1>5 DEF DInv, Kept

\* The connection can be lost at any point before COMMIT.
LEMMA ConnectionLostKeeps == DInv /\ connection_lost => DInv'
  BY RollBackKeeps DEF connection_lost

-----------------------------------------------------------------------------
(***************************************************************************)
(* What was stored comes back, and is compiled.                            *)
(***************************************************************************)

\* A finite set as a list: every member once.
LEMMA Listed ==
    ASSUME NEW S, IsFiniteSet(S)
    PROVE  /\ Cardinality(S) \in Nat
           /\ DOMAIN SetToSeq(S) = 1..Cardinality(S)
           /\ \A i \in 1..Cardinality(S) : SetToSeq(S)[i] \in S
           /\ \A i, j \in 1..Cardinality(S) : SetToSeq(S)[i] = SetToSeq(S)[j] => i = j
           /\ \A x \in S : \E i \in 1..Cardinality(S) : SetToSeq(S)[i] = x
  <1> DEFINE n == Cardinality(S)
             list == SetToSeq(S)
  <1>1. n \in Nat /\ ExistsBijection(1..n, S)
    BY FS_CardinalityType
  <1>2. PICK f \in [1..n -> S] : IsInjective(f)
    BY <1>1 DEF ExistsBijection, Bijection, Injection, IsInjective
  <1>3. list \in [1..n -> S] /\ IsInjective(list)
    BY <1>2 DEF SetToSeq
  <1>4. list \in Injection(1..n, S)
    BY <1>3 DEF Injection
  <1>5. IsFiniteSet(1..n) /\ Cardinality(1..n) = n
    BY <1>1, UpTo
  <1>6. list \in Surjection(1..n, S)
    BY <1>4, <1>5, FS_Injection
  <1> HIDE DEF n, list
  <1>7. /\ DOMAIN list = 1..n /\ \A i \in 1..n : list[i] \in S
        /\ \A i, j \in 1..n : list[i] = list[j] => i = j
        /\ \A x \in S : \E i \in 1..n : list[i] = x
    BY <1>3, <1>6 DEF Surjection, IsInjective
  <1>8. QED
    BY <1>1, <1>7 DEF n, list

\* What load makes of the rows that commit has left.
LEMMA LoadedAsRequested ==
    ASSUME request \in Requests, Validated, stored = initialized(Len(triggers) + 1)
    PROVE  /\ load.tasks = {[key |-> tasks[i].key,
                             dependencies |-> ToSet(tasks[i].dependencies),
                             max_tries |-> tasks[i].max_tries] : i \in Tasks}
           /\ load.triggers = {[id |-> i, enabled |-> triggers[i].enabled] : i \in Triggers}
           /\ load.enabled = request.enabled
           /\ stored.pending = {}
           /\ stored.schedules = {i \in Triggers : triggers[i].occurrence = "some"}
  <1>1. /\ stored.enabled = request.enabled
        /\ stored.tasks = {task_to_model(tasks[i]) : i \in Tasks}
        /\ stored.edges = UNION {dependencies_to_models(tasks[i]) : i \in Tasks}
        /\ stored.pending = {}
        /\ stored.triggers = {trigger_to_model(i) : i \in Triggers}
        /\ stored.schedules = {i \in {j \in Triggers : j < Len(triggers) + 1} :
                                  triggers[i].occurrence = "some"}
    BY DEF initialized
  <1>2. \A i \in Tasks : dependency_lookup(tasks[i].key) = ToSet(tasks[i].dependencies)
    <2> SUFFICES ASSUME NEW i \in Tasks
                 PROVE  dependency_lookup(tasks[i].key) = ToSet(tasks[i].dependencies)
      OBVIOUS
    <2>1. \A j \in Tasks : tasks[j].key = tasks[i].key => j = i
      BY TaskOfKey DEF Validated
    <2>2. ASSUME NEW d \in dependency_lookup(tasks[i].key)
          PROVE  d \in ToSet(tasks[i].dependencies)
      <3>1. PICK e \in stored.edges : e[1] = tasks[i].key /\ d = e[2]
        BY <2>2 DEF dependency_lookup
      <3>2. PICK j \in Tasks : e \in dependencies_to_models(tasks[j])
        BY <1>1, <3>1
      <3>3. e[1] = tasks[j].key /\ e[2] \in ToSet(tasks[j].dependencies)
        BY <3>2 DEF dependencies_to_models
      <3>4. QED
        BY <2>1, <3>1, <3>3
    <2>3. ASSUME NEW d \in ToSet(tasks[i].dependencies)
          PROVE  d \in dependency_lookup(tasks[i].key)
      <3>1. <<tasks[i].key, d>> \in stored.edges
        BY <1>1, <2>3 DEF dependencies_to_models
      <3>2. QED
        BY <3>1 DEF dependency_lookup
    <2>4. QED
      BY <2>2, <2>3
  <1>3. \A i \in Tasks :
           task_to_domain(task_to_model(tasks[i]), dependency_lookup(task_to_model(tasks[i]).key))
              = [key |-> tasks[i].key, dependencies |-> ToSet(tasks[i].dependencies),
                 max_tries |-> tasks[i].max_tries]
    BY <1>2 DEF task_to_domain, task_to_model
  <1>4. load.tasks = {[key |-> tasks[i].key,
                       dependencies |-> ToSet(tasks[i].dependencies),
                       max_tries |-> tasks[i].max_tries] : i \in Tasks}
    <2>1. load.tasks = {task_to_domain(row, dependency_lookup(row.key)) : row \in stored.tasks}
      BY DEF load
    <2>2. load.tasks = {task_to_domain(task_to_model(tasks[i]),
                                       dependency_lookup(task_to_model(tasks[i]).key)) : i \in Tasks}
      BY <1>1, <2>1
    <2>3. QED
      BY <1>3, <2>2
  <1>5. load.triggers = {[id |-> i, enabled |-> triggers[i].enabled] : i \in Triggers}
    <2>1. load.triggers = {trigger_to_domain(row) : row \in stored.triggers}
      BY DEF load
    <2>2. load.triggers = {trigger_to_domain(trigger_to_model(i)) : i \in Triggers}
      BY <1>1, <2>1
    <2>3. \A i \in Triggers : trigger_to_domain(trigger_to_model(i))
                                = [id |-> i, enabled |-> triggers[i].enabled]
      BY DEF trigger_to_domain, trigger_to_model
    <2>4. QED
      BY <2>2, <2>3
  <1>6. stored.schedules = {i \in Triggers : triggers[i].occurrence = "some"}
    <2>1. Len(triggers) \in Nat
      BY RequestTypes
    <2>2. \A j \in Triggers : j < Len(triggers) + 1
      BY <2>1 DEF Triggers
    <2>3. QED
      BY <1>1, <2>2
  <1>7. load.enabled = request.enabled
    BY <1>1 DEF load
  <1>8. QED
    BY <1>1, <1>4, <1>5, <1>6, <1>7

\* The row that each task gets.
LEMMA CompiledRows ==
    ASSUME request \in Requests, Validated, stored = initialized(Len(triggers) + 1),
           create_workflow_execution
    PROVE  /\ DOMAIN rows' = keys
           /\ \A k \in keys : /\ rows'[k].remaining_dependencies = Cardinality(dependencies_of(k))
                              /\ rows'[k].remaining_tries \in Int /\ rows'[k].remaining_tries > 0
                              /\ rows'[k].parent_task_ids = dependencies_of(k)
                              /\ rows'[k].child_task_ids = SetToSeq(children(k))
  <1> DEFINE task(i) == [key |-> tasks[i].key, dependencies |-> ToSet(tasks[i].dependencies),
                         max_tries |-> tasks[i].max_tries]
             chosen(k) == CHOOSE d \in load.tasks : d.key = k
  <1>1. load.tasks = {task(i) : i \in Tasks}
    BY LoadedAsRequested
  <1>2. DOMAIN tasks = Tasks
    BY RequestTypes
  <1>3. {t.key : t \in load.tasks} = keys
    <2>1. \A i \in Tasks : task(i).key = tasks[i].key
      OBVIOUS
    <2> HIDE DEF task
    <2>2. {t.key : t \in load.tasks} = {task(i).key : i \in Tasks}
      BY <1>1
    <2>3. QED
      BY <1>2, <2>1, <2>2 DEF keys
  <1>4. \A i, j \in Tasks : tasks[i].key = tasks[j].key => i = j
    BY TaskOfKey DEF Validated
  <1>5. \A i \in Tasks : dependencies_of(tasks[i].key) = ToSet(tasks[i].dependencies)
    BY TaskOfKey DEF Validated
  <1>6. \A k \in keys : \E i \in Tasks : k = tasks[i].key
    BY <1>2 DEF keys
  <1>7. ASSUME NEW k \in keys
        PROVE  /\ chosen(k).dependencies = dependencies_of(k)
               /\ chosen(k).max_tries \in Int /\ chosen(k).max_tries > 0
    <2>1. PICK i \in Tasks : k = tasks[i].key
      BY <1>6
    <2>2. task(i) \in load.tasks /\ task(i).key = k
      BY <1>1, <2>1
    <2>3. chosen(k) \in load.tasks /\ chosen(k).key = k
      BY <2>2
    <2> HIDE DEF chosen
    <2>4. PICK j \in Tasks : chosen(k) = task(j)
      BY <1>1, <2>3
    <2>5. j = i
      BY <1>4, <2>1, <2>3, <2>4
    <2>6. tasks[i].max_tries \in Int /\ tasks[i].max_tries > 0
      BY TaskFields, ValidTask DEF Validated
    <2>7. /\ chosen(k).dependencies = ToSet(tasks[i].dependencies)
          /\ chosen(k).max_tries = tasks[i].max_tries
      BY <2>4, <2>5
    <2>8. QED
      BY <1>5, <2>1, <2>6, <2>7
  <1>8. ASSUME NEW k \in keys
        PROVE  {t.key : t \in {d \in load.tasks : k \in d.dependencies}} = children(k)
    <2> DEFINE set == {t.key : t \in {d \in load.tasks : k \in d.dependencies}}
    <2>1. ASSUME NEW c \in set PROVE c \in children(k)
      <3>1. PICK d \in load.tasks : k \in d.dependencies /\ c = d.key
        OBVIOUS
      <3>2. PICK i \in Tasks : d = task(i)
        BY <1>1
      <3>3. c = tasks[i].key /\ k \in ToSet(tasks[i].dependencies)
        BY <3>1, <3>2
      <3>4. c \in keys /\ k \in dependencies_of(c)
        BY <1>2, <1>5, <3>3 DEF keys
      <3>5. QED
        BY <3>4 DEF children
    <2>2. ASSUME NEW c \in children(k) PROVE c \in set
      <3>1. c \in keys /\ k \in dependencies_of(c)
        BY DEF children
      <3>2. PICK i \in Tasks : c = tasks[i].key
        BY <1>6, <3>1
      <3>3. task(i) \in load.tasks /\ k \in task(i).dependencies /\ task(i).key = c
        BY <1>1, <1>5, <3>1, <3>2
      <3>4. QED
        BY <3>3
    <2>3. QED
      BY <2>1, <2>2
  <1> HIDE DEF task, chosen
  <1>9. rows' = [key \in keys |->
                   [remaining_dependencies |-> Cardinality(chosen(key).dependencies),
                    remaining_tries |-> chosen(key).max_tries,
                    parent_task_ids |-> chosen(key).dependencies,
                    child_task_ids |-> create_child_task_lookup(key)]]
    BY <1>3 DEF create_workflow_execution, chosen
  <1>10. \A k \in keys : create_child_task_lookup(k) = SetToSeq(children(k))
    BY <1>8 DEF create_child_task_lookup
  <1>11. QED
    BY <1>7, <1>9, <1>10

\* The places where a task stands among the children of others are as many as
\* its parents.
LEMMA Decrements ==
    ASSUME request \in Requests, Validated, NEW c \in keys,
           NEW lists, \A k \in keys : lists[k] = SetToSeq(children(k)),
           NEW places, places = {at \in keys \X (1..Len(tasks)) :
                                   at[2] \in DOMAIN lists[at[1]] /\ lists[at[1]][at[2]] = c}
    PROVE  Cardinality(dependencies_of(c)) = Cardinality(places)
  <1> DEFINE first == [at \in places |-> at[1]]
             deps == dependencies_of(c)
             n(k) == Cardinality(children(k))
  <1>1. IsFiniteSet(deps) /\ deps \subseteq keys
    BY Dependencies
  <1>2. ASSUME NEW k \in keys
        PROVE  /\ n(k) \in Nat /\ n(k) <= Len(tasks)
               /\ DOMAIN lists[k] = 1..n(k)
               /\ \A i \in 1..n(k) : lists[k][i] \in children(k)
               /\ \A i, j \in 1..n(k) : lists[k][i] = lists[k][j] => i = j
               /\ \A x \in children(k) : \E i \in 1..n(k) : lists[k][i] = x
    <2>1. IsFiniteSet(children(k)) /\ n(k) <= Cardinality(keys)
      BY FiniteKeys, FS_Subset DEF children
    <2>2. Cardinality(keys) = Len(tasks)
      BY DEF Validated, KeysOnce
    <2>3. lists[k] = SetToSeq(children(k))
      OBVIOUS
    <2>4. /\ n(k) \in Nat
          /\ DOMAIN SetToSeq(children(k)) = 1..n(k)
          /\ \A i \in 1..n(k) : SetToSeq(children(k))[i] \in children(k)
          /\ \A i, j \in 1..n(k) : SetToSeq(children(k))[i] = SetToSeq(children(k))[j] => i = j
          /\ \A x \in children(k) : \E i \in 1..n(k) : SetToSeq(children(k))[i] = x
      BY <2>1, Listed
    <2> HIDE DEF n
    <2>5. QED
      BY <2>1, <2>2, <2>3, <2>4
  <1>3. ASSUME NEW at \in places
        PROVE  /\ at = <<at[1], at[2]>> /\ at[1] \in keys /\ at[2] \in 1..n(at[1])
               /\ lists[at[1]][at[2]] = c
    <2>1. at \in keys \X (1..Len(tasks)) /\ at[2] \in DOMAIN lists[at[1]] /\ lists[at[1]][at[2]] = c
      OBVIOUS
    <2>2. at = <<at[1], at[2]>> /\ at[1] \in keys
      BY <2>1
    <2>3. QED
      BY <1>2, <2>1, <2>2
  <1> HIDE DEF n
  <1>4. first \in [places -> deps]
    <2>1. ASSUME NEW at \in places PROVE at[1] \in deps
      <3>1. at[1] \in keys /\ c \in children(at[1])
        BY <1>2, <1>3
      <3>2. QED
        BY <3>1 DEF children
    <2>2. QED
      BY <2>1
  <1>5. ASSUME NEW x \in places, NEW y \in places, x[1] = y[1] PROVE x = y
    BY <1>2, <1>3, <1>5
  <1>6. ASSUME NEW p \in deps PROVE \E at \in places : at[1] = p
    <2>1. p \in keys /\ c \in children(p)
      BY <1>1 DEF children
    <2>2. PICK i \in 1..n(p) : lists[p][i] = c
      BY <1>2, <2>1
    <2>3. Len(tasks) \in Nat
      BY RequestTypes
    <2>4. i \in 1..Len(tasks) /\ i \in DOMAIN lists[p]
      BY <1>2, <2>1, <2>2, <2>3
    <2>5. <<p, i>> \in places
      BY <2>1, <2>2, <2>4
    <2>6. QED
      BY <2>5
  <1>7. first \in Injection(places, deps)
    BY <1>4, <1>5 DEF Injection, IsInjective
  <1>8. first \in Surjection(places, deps)
    BY <1>4, <1>6 DEF Surjection
  <1>9. QED
    BY <1>1, <1>7, <1>8, FS_Injection

\* The start of an execution compiles the graph of the request.
LEMMA CreateWorkflowExecutionKeeps == DInv /\ create_workflow_execution => DInv'
  <1> SUFFICES ASSUME DInv, create_workflow_execution PROVE DInv'
    OBVIOUS
  <1>1. /\ request \in Requests /\ pc \in {"accepted", "unanswered"} /\ well_formed /\ session = Nothing
        /\ stored = initialized(Len(triggers) + 1)
    BY DEF DInv, Checked, Written, Transaction, Kept, create_workflow_execution
  <1>2. /\ pc' = "started" /\ request' = request /\ index' = index
        /\ session' = session /\ stored' = stored
    BY DEF create_workflow_execution
  <1>3. Validated /\ acyclic
    BY <1>1, WellFormedByParts
  <1>4. /\ DOMAIN rows' = keys
        /\ \A k \in keys : /\ rows'[k].remaining_dependencies = Cardinality(dependencies_of(k))
                           /\ rows'[k].remaining_tries \in Int /\ rows'[k].remaining_tries > 0
                           /\ rows'[k].parent_task_ids = dependencies_of(k)
                           /\ rows'[k].child_task_ids = SetToSeq(children(k))
    BY <1>1, <1>3, CompiledRows
  <1>5. ASSUME NEW p \in keys, NEW c \in keys
        PROVE  p \in dependencies_of(c) <=> c \in ToSet(rows'[p].child_task_ids)
    <2> DEFINE list == SetToSeq(children(p))
    <2>1. IsFiniteSet(children(p))
      BY <1>1, FiniteKeys, FS_Subset DEF children
    <2>2. /\ \A i \in DOMAIN list : list[i] \in children(p)
          /\ \A x \in children(p) : \E i \in DOMAIN list : list[i] = x
      BY <2>1, Listed
    <2> HIDE DEF list
    <2>3. ToSet(list) = children(p)
      BY <2>2 DEF ToSet
    <2>4. rows'[p].child_task_ids = list
      BY <1>4 DEF list
    <2>5. QED
      BY <2>3, <2>4 DEF children
  <1>6. ASSUME NEW c \in keys
        PROVE  rows'[c].remaining_dependencies =
                  Cardinality({at \in keys \X (1..Len(tasks)) :
                     LET ids == rows'[at[1]].child_task_ids IN
                     at[2] \in DOMAIN ids /\ ids[at[2]] = c})
    <2> DEFINE lists == [k \in keys |-> rows'[k].child_task_ids]
               places == {at \in keys \X (1..Len(tasks)) :
                            at[2] \in DOMAIN lists[at[1]] /\ lists[at[1]][at[2]] = c}
    <2>1. \A k \in keys : lists[k] = SetToSeq(children(k))
      BY <1>4
    <2>2. places = {at \in keys \X (1..Len(tasks)) :
                      LET ids == rows'[at[1]].child_task_ids IN
                      at[2] \in DOMAIN ids /\ ids[at[2]] = c}
      OBVIOUS
    <2>3. places = {at \in keys \X (1..Len(tasks)) :
                      at[2] \in DOMAIN lists[at[1]] /\ lists[at[1]][at[2]] = c}
      OBVIOUS
    <2> HIDE DEF lists, places
    <2>4. Cardinality(dependencies_of(c)) = Cardinality(places)
      BY <1>1, <1>3, <2>1, <2>3, Decrements
    <2>5. QED
      BY <1>4, <2>2, <2>4
  <1>7. \E c \in keys : rows'[c].remaining_dependencies = 0
    <2>1. keys # {}
      <3>1. tasks # << >> /\ tasks \in Seq(TaskInput) /\ Len(tasks) \in Nat
        BY <1>1, <1>3, RequestTypes DEF Validated, KeysOnce
      <3>2. 1 \in Tasks
        BY <3>1, EmptySeq DEF Tasks
      <3>3. QED
        BY <1>1, <3>2, TaskFields
    <2>2. PICK c \in keys : dependencies_of(c) \cap keys = {}
      BY <1>3, <2>1 DEF acyclic
    <2>3. dependencies_of(c) = {}
      BY <1>1, <1>3, <2>2, Dependencies
    <2>4. Cardinality(dependencies_of(c)) = 0
      BY <2>3, FS_EmptySet
    <2>5. QED
      BY <1>4, <2>4
  <1>8. /\ tasks' = tasks /\ triggers' = triggers /\ keys' = keys /\ well_formed'
        /\ \A k : dependencies_of(k)' = dependencies_of(k)
        /\ stored' = initialized(Len(triggers) + 1)'
    BY <1>1, <1>2, SameRequest
  <1>9. CompiledGraphConsistent'
    BY <1>4, <1>5, <1>6, <1>7, <1>8 DEF CompiledGraphConsistent
  <1>10. Checked' /\ Written'
    BY <1>1, <1>2, <1>8 DEF Checked, Written, Transaction, Kept
  <1>11. QED
    BY <1>1, <1>2, <1>8, <1>9, <1>10 DEF DInv, Kept

\* A definition is deleted, or not.
LEMMA DeleteKeeps == DInv /\ delete => DInv'
  <1> SUFFICES ASSUME DInv, delete PROVE DInv'
    OBVIOUS
  <1>1. /\ pc \in {"accepted", "unanswered", "started"} /\ well_formed /\ session = Nothing
        /\ stored = initialized(Len(triggers) + 1)
    BY DEF DInv, Checked, Written, Transaction, Kept, delete
  <1>2. /\ request' = request /\ index' = index /\ session' = session
        /\ \/ stored' = Nothing /\ pc' = "deleted"
           \/ stored' = stored /\ pc' = "not_deleted"
    BY DEF delete
  <1>3. /\ tasks' = tasks /\ triggers' = triggers /\ well_formed'
        /\ stored = initialized(Len(triggers) + 1)'
    BY <1>1, <1>2, SameRequest
  <1>4. Checked' /\ Written' /\ CompiledGraphConsistent'
    BY <1>1, <1>2, <1>3 DEF Checked, Written, Transaction, Kept, CompiledGraphConsistent
  <1>5. QED
    BY <1>2, <1>3, <1>4 DEF DInv, Kept

\* No step but those above.
LEMMA StaysPut == DInv /\ UNCHANGED vars => DInv'
  <1> SUFFICES ASSUME DInv, UNCHANGED vars PROVE DInv'
    OBVIOUS
  <1>1. /\ request' = request /\ pc' = pc /\ index' = index /\ remaining' = remaining
        /\ ready' = ready /\ processed' = processed /\ session' = session
        /\ stored' = stored /\ rows' = rows
    BY DEF vars
  <1>2. /\ tasks' = tasks /\ triggers' = triggers /\ keys' = keys /\ Tasks' = Tasks
        /\ Triggers' = Triggers /\ \A k : dependencies_of(k)' = dependencies_of(k)
        /\ (acyclic' <=> acyclic) /\ (Validated' <=> Validated) /\ (KeysOnce' <=> KeysOnce)
        /\ (well_formed' <=> well_formed)
        /\ \A task : task_is_valid(task)' <=> task_is_valid(task)
    BY <1>1, SameRequest
  <1>3. Ordering' <=> Ordering
    <2>1. taken' = taken
      BY <1>1, <1>2 DEF taken
    <2>2. (\A S \in SUBSET taken : S # {} => \E key \in S : dependencies_of(key) \cap S = {})'
             <=> \A S \in SUBSET taken : S # {} => \E key \in S : dependencies_of(key) \cap S = {}
      BY <1>2, <2>1
    <2>3. (\A key \in keys : remaining[key] = Cardinality(dependencies_of(key) \ taken))'
             <=> \A key \in keys : remaining[key] = Cardinality(dependencies_of(key) \ taken)
      BY <1>1, <1>2, <2>1
    <2>4. QED
      BY <1>1, <1>2, <2>1, <2>2, <2>3 DEF Ordering
  <1>4. (validated(index)' <=> validated(index)) /\ (resolved(index)' <=> resolved(index))
    BY <1>1, <1>2 DEF validated, resolved
  <1>5. saved(index)' = saved(index) /\ initialized(index)' = initialized(index)
        /\ initialized(Len(triggers) + 1)' = initialized(Len(triggers) + 1)
    BY <1>1, <1>2 DEF saved, initialized, task_to_model, trigger_to_model, dependencies_to_models
  <1>6. Checked'
    BY <1>1, <1>2, <1>3, <1>4 DEF DInv, Checked
  <1>7. Written'
    BY <1>1, <1>2, <1>5 DEF DInv, Written
  <1>8. CompiledGraphConsistent'
    BY <1>1, <1>2 DEF DInv, CompiledGraphConsistent
  <1>9. QED
    BY <1>1, <1>2, <1>6, <1>7, <1>8 DEF DInv

\* The invariant is inductive.
LEMMA NextKeeps == DInv /\ [Next]_vars => DInv'
  <1> SUFFICES ASSUME DInv, [Next]_vars PROVE DInv'
    OBVIOUS
  <1>1. CASE validate_request \/ validate_task
    BY <1>1, ValidateRequestKeeps, ValidateTaskKeeps
  <1>2. CASE start_ordering \/ order_next \/ decide
    BY <1>2, StartOrderingKeeps, OrderNextKeeps, DecideKeeps
  <1>3. CASE create_trigger_definition \/ validate_configuration_raises \/ begin
    BY <1>3, CreateTriggerKeeps, RaisesKeeps, BeginKeeps
  <1>4. CASE synchronize_task \/ synchronize_triggers \/ initialize \/ commit
    BY <1>4, SynchronizeTaskKeeps, SynchronizeTriggersKeeps, InitializeKeeps, CommitKeeps
  <1>5. CASE connection_lost
    BY <1>5, ConnectionLostKeeps
  <1>6. CASE create_workflow_execution \/ delete
    BY <1>6, CreateWorkflowExecutionKeeps, DeleteKeeps
  <1>7. CASE UNCHANGED vars
    BY <1>7, StaysPut
  <1>8. QED
    BY <1>1, <1>2, <1>3, <1>4, <1>5, <1>6, <1>7 DEF Next

\* DInv holds in every state that create, a start or delete can reach.
LEMMA Invariance == Spec => []DInv
  <1>1. QED
    BY InitKeeps, NextKeeps, PTL DEF Spec

-----------------------------------------------------------------------------
(***************************************************************************)
(* The theorems.                                                           *)
(***************************************************************************)

\* The variables keep their types, no count of open dependencies drops below
\* zero, a transaction is open exactly while create writes, and rows are stored
\* exactly from its commit until delete succeeds.
THEOREM DefinitionsTypeCorrect == Spec => []TypeOK
  <1>1. DInv => TypeOK
    <2> SUFFICES ASSUME DInv PROVE TypeOK
      OBVIOUS
    <2>1. /\ pc \in Validation \cup Transaction \cup NotCreated \cup Kept \cup {"deleted"}
          /\ index \in 1..(Len(tasks) + Len(triggers) + 1)
          /\ request \in Requests
      BY DEF DInv
    <2>2. ASSUME pc = "ordering"
          PROVE  /\ remaining \in [keys -> Nat]
                 /\ ToSet(ready) \subseteq keys
                 /\ processed \in 0..Len(tasks)
      <3>1. remaining \in [keys -> Nat] /\ ready \in Seq(keys) /\ processed \in 0..Len(tasks)
        BY <2>2 DEF DInv, Checked, Ordering
      <3>2. ToSet(ready) \subseteq keys
        BY <3>1, LenProperties DEF ToSet
      <3>3. QED
        BY <3>1, <3>2
    <2>3. \A n : saved(n) \in Definition /\ initialized(n) \in Definition
      BY <2>1, HeldRows
    <2>4. /\ session \in Definition \cup {Nothing}
          /\ session # Nothing <=> pc \in Transaction
      BY <2>3, NothingAssumption DEF DInv, Written, Transaction
    <2>5. /\ stored \in Definition \cup {Nothing}
          /\ stored # Nothing <=> pc \in Kept
      BY <2>3, NothingAssumption DEF DInv, Written
    <2>6. QED
      BY <2>1, <2>2, <2>4, <2>5 DEF TypeOK
  <1>2. QED
    BY <1>1, Invariance, PTL

\* The service accepts and rejects as the reference definition of a well-formed
\* request says, whatever the number of tasks and the shape of their graph:
\* _validate_tasks, _has_dependency_cycle and _create_trigger_definitions.
THEOREM VerdictsExact == Spec => []VerdictIsExact
  <1>1. DInv => VerdictIsExact
    BY DEF DInv, Checked, VerdictIsExact
  <1>2. QED
    BY <1>1, Invariance, PTL

\* Between two rounds of _has_dependency_cycle every count is that of the
\* dependencies not taken yet, and no key is taken twice.
THEOREM WorklistCountsExact == Spec => []WorklistCounts
  <1>1. DInv => WorklistCounts
    BY DEF DInv, Checked, Ordering, WorklistCounts
  <1>2. QED
    BY <1>1, Invariance, PTL

\* What create commits is the whole request and load returns it as it was
\* requested, whether or not the reply of COMMIT arrives; a create that raises
\* before leaves nothing.
THEOREM DefinitionsStoredWhole == Spec => []StoredWholeOrNotAtAll
  <1>1. DInv => StoredWholeOrNotAtAll
    <2> SUFFICES ASSUME DInv, stored # Nothing PROVE StoredWholeOrNotAtAll
      BY DEF StoredWholeOrNotAtAll
    <2>1. pc \in Kept /\ stored = initialized(Len(triggers) + 1) /\ well_formed
          /\ request \in Requests
      BY DEF DInv, Written, Checked
    <2>2. Validated
      BY <2>1, WellFormedByParts
    <2>3. DOMAIN tasks = Tasks /\ DOMAIN triggers = Triggers
      BY <2>1, RequestTypes
    <2>4. pc \notin NotCreated
      BY <2>1 DEF Kept, NotCreated
    <2>5. QED
      BY <2>1, <2>2, <2>3, <2>4, LoadedAsRequested DEF StoredWholeOrNotAtAll
  <1>2. QED
    BY <1>1, Invariance, PTL

\* The execution that WorkflowStartService compiles has the graph of the
\* request: what WorkflowExecutions assumes of Parents and MaxTries.
THEOREM CompiledGraphsConsistent == Spec => []CompiledGraphConsistent
  <1>1. DInv => CompiledGraphConsistent
    BY DEF DInv
  <1>2. QED
    BY <1>1, Invariance, PTL

=============================================================================
