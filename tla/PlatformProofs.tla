--------------------------- MODULE PlatformProofs ---------------------------
(***************************************************************************)
(* Proofs about the composed runtime: any number of workers, executions,   *)
(* tasks, tokens and faults.  The facts about the executions are those of  *)
(* WorkflowExecutionsProofs; those about the queue inside the platform,    *)
(* and what relates the processes' hands to the two stores, are here.      *)
(***************************************************************************)
EXTENDS Platform, WorkflowExecutionsProofs

\* No two workers work under the same claim.
UniqueClaims ==
    \A v, w \in Worker : claim[v] # NULL /\ claim[v] = claim[w] => v = w

\* Every id on its way into the queue, in it, or in a worker's hands has been
\* reported as runnable by the repository.
WorkReported ==
    /\ \A t \in Task : owner[t] # Absent => t \in reported
    /\ \A w \in Worker : claim[w] # NULL => task_of(w) \in reported
    /\ \A w \in Worker : result[w] # NULL => result[w].enqueue_task_ids \subseteq reported
    /\ listed # NULL => listed \subseteq reported
    /\ \A v \in unpublished : root_task_ids(v) \subseteq reported

\* What a worker knows of its task from where it is, also when its claim is
\* stale and others work on the task.
ClaimsFollowStatus ==
    \A w \in Worker :
        /\ claim[w] # NULL /\ status[task_of(w)] \in Active => owner[task_of(w)] # Absent
        /\ pc[w] = "executing" => status[task_of(w)] \notin {"NONE", "PENDING"}
        /\ pc[w] = "done" /\ ~result[w].should_retry => status[task_of(w)] \in Terminal

\* The inductive invariant.
PInv ==
    /\ IInv
    /\ PlatformTypeOK
    /\ UniqueClaims
    /\ WorkReported
    /\ ClaimsFollowStatus
    /\ RunningTaskQueued

-----------------------------------------------------------------------------

\* A busy worker holds a claim of a task, and nobody else holds the same.
LEMMA BusyWorkerHolds ==
    ASSUME PlatformTypeOK, NEW w \in Worker, claim[w] # NULL
    PROVE  /\ claim[w] \in Q!Claim
           /\ claim[w] \in held
           /\ task_of(w) \in Task
           /\ claim[w][2] \in Token
           /\ claim[w] = <<task_of(w), claim[w][2]>>
  BY DEF PlatformTypeOK, Q!Claim, task_of

\* The processes change the tables by the repository's operations only.
LEMMA TablesStep ==
    ASSUME PInv, PlatformNext
    PROVE  [Next]_vars
  <1> USE DEF PInv
  <1>1. ASSUME NEW v \in Workflow, start_and_commit(v) PROVE Next
    BY <1>1 DEF start_and_commit, Next
  <1>2. ASSUME NEW v \in Workflow, publish_roots(v) \/ lose_roots(v)
        PROVE  UNCHANGED vars
    BY <1>2 DEF publish_roots, lose_roots
  <1>3. ASSUME reconcile_find PROVE Next
    BY <1>3 DEF reconcile_find, Next
  <1>4. ASSUME reconcile_enqueue \/ reconcile_fails PROVE UNCHANGED vars
    BY <1>4 DEF reconcile_enqueue, reconcile_fails
  <1>5. ASSUME NEW w \in Worker, start(w) PROVE [Next]_vars
    <2>1. pc[w] = "starting" /\ claim[w] # NULL
      BY <1>5 DEF start, PlatformTypeOK
    <2>2. task_of(w) \in reported
      BY <2>1 DEF WorkReported
    <2>3. QED
      BY <1>5, <2>2 DEF start, Next
  <1>6. ASSUME NEW w \in Worker, complete(w) \/ retry(w) \/ process_raises(w)
        PROVE  [Next]_vars
    <2>1. CASE UNCHANGED vars
      BY <2>1
    <2>2. CASE pc[w] = "executing"
      <3>1. task_of(w) \in Task
        BY <2>2, BusyWorkerHolds DEF PlatformTypeOK
      <3>2. completed_meanwhile[task_of(w)] \in SUBSET Task
        BY <3>1 DEF IInv, TypeOK
      <3>3. ASSUME NEW out \in Output, NEW hidden \in {{}, completed_meanwhile[task_of(w)]},
                   NEW answered \in BOOLEAN,
                   complete_task(task_of(w), out, hidden, answered)
            PROVE  Next
        <4>1. hidden \in SUBSET Task
          BY <3>2
        <4>2. QED
          BY <3>1, <3>3, <4>1 DEF Next
      <3>4. ASSUME retry_task(task_of(w)) PROVE Next
        BY <3>1, <3>4 DEF Next
      <3>5. QED
        BY <1>6, <3>3, <3>4 DEF complete, retry, process_raises
    <2>3. QED
      BY <1>6, <2>1, <2>2 DEF complete, retry, process_raises
  <1>7. ASSUME NEW w \in Worker,
               \/ claim_task(w) \/ dispose(w) \/ die(w) \/ stop(w) \/ leave_loop(w)
               \/ heartbeat_renews(w) \/ heartbeat_refused(w) \/ heartbeat_raises(w)
        PROVE  UNCHANGED vars
    BY <1>7 DEF claim_task, dispose, die, stop, leave_loop, heartbeat_renews,
                heartbeat_refused, heartbeat_raises
  <1>8. ASSUME NEW t \in Task, lease_expires(t) \/ lease_stalls(t)
        PROVE  UNCHANGED vars
    BY <1>8 DEF lease_expires, lease_stalls
  <1>9. QED
    BY <1>1, <1>2, <1>3, <1>4, <1>5, <1>6, <1>7, <1>8 DEF PlatformNext

\* The processes change the queue by its operations only, each on a claim that
\* the caller still holds.  A worker that raises or dies forgets its claim.
LEMMA QueueStep ==
    ASSUME PInv, PlatformNext
    PROVE  [Q!QueueNext]_(Q!queue_vars)
  <1> USE DEF PInv, Q!queue_vars
  <1>1. ASSUME NEW v \in Workflow,
               start_and_commit(v) \/ publish_roots(v) \/ lose_roots(v)
        PROVE  [Q!QueueNext]_(Q!queue_vars)
    <2>1. root_task_ids(v) \in SUBSET Task
      BY DEF root_task_ids, TasksOf
    <2>2. QED
      BY <1>1, <2>1 DEF start_and_commit, publish_roots, lose_roots, Q!QueueNext
  <1>2. ASSUME reconcile_find \/ reconcile_enqueue \/ reconcile_fails
        PROVE  [Q!QueueNext]_(Q!queue_vars)
    <2>1. CASE reconcile_enqueue
      <3>1. listed \in SUBSET Task
        BY <2>1 DEF reconcile_enqueue, PlatformTypeOK
      <3>2. QED
        BY <2>1, <3>1 DEF reconcile_enqueue, Q!QueueNext
    <2>2. CASE reconcile_find \/ reconcile_fails
      BY <2>2 DEF reconcile_find, reconcile_fails
    <2>3. QED
      BY <1>2, <2>1, <2>2
  <1>3. ASSUME NEW w \in Worker, claim_task(w) PROVE Q!QueueNext
    BY <1>3 DEF claim_task, Q!QueueNext, Q!fresh_tokens
  <1>4. ASSUME NEW w \in Worker, start(w) \/ complete(w) \/ retry(w)
        PROVE  UNCHANGED Q!queue_vars
    BY <1>4 DEF start, complete, retry
  <1>5. ASSUME NEW w \in Worker, process_raises(w) \/ die(w)
        PROVE  [Q!QueueNext]_(Q!queue_vars)
    <2>1. CASE claim[w] = NULL
      <3>1. NULL \notin held
        BY NoneAssumption DEF PlatformTypeOK, Q!QueueTypeOK
      <3>2. QED
        BY <1>5, <2>1, <3>1 DEF process_raises, die
    <2>2. CASE claim[w] # NULL
      <3>1. claim[w] \in Q!Claim /\ claim[w] \in held
        BY <2>2, BusyWorkerHolds
      <3>2. Q!forget(claim[w])
        BY <1>5, <3>1 DEF process_raises, die, Q!forget
      <3>3. QED
        BY <3>1, <3>2 DEF Q!QueueNext
    <2>3. QED
      BY <2>1, <2>2
  <1>6. ASSUME NEW w \in Worker, dispose(w) PROVE Q!QueueNext
    <2>1. pc[w] = "done" /\ claim[w] # NULL /\ result[w] \in Result
      BY <1>6 DEF dispose, PlatformTypeOK
    <2>2. claim[w] \in Q!Claim /\ result[w].enqueue_task_ids \in SUBSET Task
      BY <2>1, BusyWorkerHolds DEF Result
    <2>3. QED
      BY <1>6, <2>2 DEF dispose, Q!QueueNext
  <1>7. ASSUME NEW w \in Worker,
               \/ stop(w) \/ leave_loop(w)
               \/ heartbeat_renews(w) \/ heartbeat_refused(w) \/ heartbeat_raises(w)
        PROVE  [Q!QueueNext]_(Q!queue_vars)
    <2>1. CASE heartbeat_renews(w)
      <3>1. claim[w] \in Q!Claim
        BY <2>1, BusyWorkerHolds DEF heartbeat_renews, beating, busy, PlatformTypeOK
      <3>2. QED
        BY <2>1, <3>1 DEF heartbeat_renews, Q!QueueNext
    <2>2. CASE ~heartbeat_renews(w)
      BY <1>7, <2>2 DEF stop, leave_loop, heartbeat_refused, heartbeat_raises
    <2>3. QED
      BY <2>1, <2>2
  <1>8. ASSUME NEW t \in Task, lease_expires(t) \/ lease_stalls(t) PROVE Q!QueueNext
    BY <1>8 DEF lease_expires, lease_stalls, Q!QueueNext
  <1>9. QED
    BY <1>1, <1>2, <1>3, <1>4, <1>5, <1>6, <1>7, <1>8 DEF PlatformNext

\* An empty queue satisfies the invariant.
LEMMA QueueInitInv == Q!QueueInit => Q!QueueTypeOK
  BY EntryAssumption DEF Q!QueueInit, Q!QueueTypeOK

\* Inserting entries gives a token to nobody.
LEMMA InsertedKeepsTokens ==
    ASSUME NEW entries \in [Task -> Token \cup {Absent, Unclaimed}],
           NEW ids \in SUBSET Task
    PROVE  /\ Q!inserted(entries, ids) \in [Task -> Token \cup {Absent, Unclaimed}]
           /\ \A t \in Task : /\ Q!inserted(entries, ids)[t] \in Token
                                    <=> entries[t] \in Token
                              /\ entries[t] \in Token
                                    => Q!inserted(entries, ids)[t] = entries[t]
  BY EntryAssumption DEF Q!inserted

\* Every operation of the queue keeps the invariant.
LEMMA QueueNextInv == Q!QueueTypeOK /\ [Q!QueueNext]_(Q!queue_vars) => Q!QueueTypeOK'
  <1> SUFFICES ASSUME Q!QueueTypeOK, [Q!QueueNext]_(Q!queue_vars) PROVE Q!QueueTypeOK'
    OBVIOUS
  <1> USE EntryAssumption
  <1>1. ASSUME NEW ids \in SUBSET Task, Q!enqueue(ids) PROVE Q!QueueTypeOK'
    BY <1>1, InsertedKeepsTokens DEF Q!enqueue, Q!QueueTypeOK
  <1>2. ASSUME NEW S \in SUBSET Task, Q!leases_expire(S) PROVE Q!QueueTypeOK'
    BY <1>2 DEF Q!leases_expire, Q!QueueTypeOK
  <1>3. ASSUME NEW t \in Task, NEW k \in Token, NEW in_time \in BOOLEAN,
               Q!claim(t, k, in_time)
        PROVE  Q!QueueTypeOK'
    BY <1>3 DEF Q!claim, Q!QueueTypeOK, Q!Claim
  <1>4. ASSUME NEW c \in Q!Claim, NEW in_time \in BOOLEAN, Q!heartbeat(c, in_time)
        PROVE  Q!QueueTypeOK'
    BY <1>4 DEF Q!heartbeat, Q!QueueTypeOK
  <1>5. ASSUME NEW c \in Q!Claim, Q!release(c) PROVE Q!QueueTypeOK'
    <2>1. /\ held' \subseteq held
          /\ \A t \in Task : owner'[t] = owner[t] \/ owner'[t] = Unclaimed
          /\ owner' \in [Task -> Token \cup {Absent, Unclaimed}]
      BY <1>5 DEF Q!release, Q!lease_ended, Q!QueueTypeOK, Q!Claim
    <2>2. \A t \in expired' : t \in Task /\ owner'[t] \in Token
      BY <1>5 DEF Q!release, Q!lease_ended, Q!QueueTypeOK, Q!Claim, Q!is_current
    <2>3. QED
      BY <2>1, <2>2 DEF Q!QueueTypeOK
  <1>6. ASSUME NEW c \in Q!Claim, Q!forget(c) PROVE Q!QueueTypeOK'
    BY <1>6 DEF Q!forget, Q!QueueTypeOK
  <1>7. ASSUME NEW c \in Q!Claim, NEW ids \in SUBSET Task, Q!finish(c, ids)
        PROVE  Q!QueueTypeOK'
    <2> DEFINE rest == [owner EXCEPT ![c[1]] = Absent]
    <2>0. c[1] \in Task
      BY DEF Q!Claim
    <2>1. /\ rest \in [Task -> Token \cup {Absent, Unclaimed}]
          /\ rest[c[1]] = Absent
          /\ \A t \in Task : t # c[1] => rest[t] = owner[t]
      BY <2>0 DEF Q!QueueTypeOK
    <2> HIDE DEF rest
    <2>2. /\ Q!inserted(rest, ids) \in [Task -> Token \cup {Absent, Unclaimed}]
          /\ \A t \in Task : /\ Q!inserted(rest, ids)[t] \in Token <=> rest[t] \in Token
                             /\ rest[t] \in Token => Q!inserted(rest, ids)[t] = rest[t]
      BY <2>1, InsertedKeepsTokens
    <2>3. owner' = IF Q!is_current(c) THEN Q!inserted(rest, ids) ELSE owner
      BY <1>7 DEF Q!finish, Q!lease_ended, rest
    <2>4. /\ held' \subseteq held
          /\ owner' \in [Task -> Token \cup {Absent, Unclaimed}]
          /\ \A t \in Task : owner'[t] \in Token => owner'[t] = owner[t]
      BY <1>7, <2>1, <2>2, <2>3 DEF Q!finish, Q!lease_ended, Q!QueueTypeOK
    <2>5. \A t \in expired' : t \in Task /\ owner'[t] \in Token
      BY <1>7, <2>1, <2>2, <2>3 DEF Q!finish, Q!lease_ended, Q!QueueTypeOK
    <2>6. QED
      BY <2>4, <2>5 DEF Q!QueueTypeOK
  <1>8. CASE UNCHANGED Q!queue_vars
    BY <1>8 DEF Q!queue_vars, Q!QueueTypeOK
  <1>9. QED
    BY <1>1, <1>2, <1>3, <1>4, <1>5, <1>6, <1>7, <1>8 DEF Q!QueueNext

-----------------------------------------------------------------------------

\* The processes' own variables: the part of PlatformTypeOK about them.
ProcessTypes ==
    /\ pc \in [Worker -> {"idle", "starting", "executing", "done", "stopped", "dead"}]
    /\ stopping \in SUBSET Worker
    /\ claim \in [Worker -> Q!Claim \cup {NULL}]
    /\ trusted \in [Worker -> BOOLEAN]
    /\ result \in [Worker -> Result \cup {NULL}]
    /\ unpublished \in SUBSET Workflow
    /\ listed \in (SUBSET Task) \cup {NULL}
    /\ faults \in 0..MaxFaults
    /\ held = {claim[w] : w \in {v \in Worker : claim[v] # NULL}}
    /\ \A w \in Worker : claim[w] = NULL <=> pc[w] \in {"idle", "stopped", "dead"}
    /\ \A w \in Worker : pc[w] = "stopped" => w \in stopping
    /\ \A w \in Worker : result[w] # NULL <=> pc[w] = "done"

\* A worker that gives up its claim, whatever becomes of it, leaves the others
\* theirs.
LEMMA ClaimGivenUp ==
    ASSUME ProcessTypes, UniqueClaims, NEW w \in Worker,
           claim' = [claim EXCEPT ![w] = NULL],
           held' = held \ {claim[w]},
           result' = [result EXCEPT ![w] = NULL],
           trusted' = [trusted EXCEPT ![w] = TRUE],
           \/ pc' = [pc EXCEPT ![w] = back_in_loop(w)]
           \/ pc' = [pc EXCEPT ![w] = "dead"],
           UNCHANGED <<stopping, unpublished, listed>>,
           faults' \in 0..MaxFaults
    PROVE  ProcessTypes' /\ UniqueClaims'
  <1> USE DEF ProcessTypes
  <1>1. held' = {claim'[v] : v \in {u \in Worker : claim'[u] # NULL}}
    BY DEF UniqueClaims
  <1>2. \A v \in Worker : /\ claim'[v] = IF v = w THEN NULL ELSE claim[v]
                          /\ result'[v] = IF v = w THEN NULL ELSE result[v]
    OBVIOUS
  <1>3. /\ pc' \in [Worker -> {"idle", "starting", "executing", "done", "stopped", "dead"}]
        /\ \A v \in Worker : v # w => pc'[v] = pc[v]
        /\ pc'[w] \in {"idle", "stopped", "dead"}
        /\ pc'[w] = "stopped" => w \in stopping
    BY DEF back_in_loop
  <1>4. ProcessTypes'
    <2>1. \A v \in Worker : claim'[v] = NULL <=> pc'[v] \in {"idle", "stopped", "dead"}
      BY <1>2, <1>3
    <2>2. \A v \in Worker : /\ pc'[v] = "stopped" => v \in stopping'
                            /\ result'[v] # NULL <=> pc'[v] = "done"
      BY <1>2, <1>3
    <2>3. QED
      BY <1>1, <1>3, <2>1, <2>2
  <1>5. UniqueClaims'
    BY <1>2 DEF UniqueClaims
  <1>6. QED
    BY <1>4, <1>5

\* A worker that goes on under the claim it has.
LEMMA ClaimKept ==
    ASSUME ProcessTypes, UniqueClaims, NEW w \in Worker,
           NEW place \in {"executing", "done"},
           pc[w] \in {"starting", "executing"},
           pc' = [pc EXCEPT ![w] = place],
           result' \in [Worker -> Result \cup {NULL}],
           \A v \in Worker : v # w => result'[v] = result[v],
           result'[w] # NULL <=> place = "done",
           UNCHANGED <<held, claim, trusted, stopping, unpublished, listed, faults>>
    PROVE  ProcessTypes' /\ UniqueClaims'
  <1> USE DEF ProcessTypes
  <1>1. /\ pc' \in [Worker -> {"idle", "starting", "executing", "done", "stopped", "dead"}]
        /\ \A v \in Worker : pc'[v] = IF v = w THEN place ELSE pc[v]
    OBVIOUS
  <1>2. \A v \in Worker : /\ claim[v] = NULL <=> pc'[v] \in {"idle", "stopped", "dead"}
                          /\ pc'[v] = "stopped" => v \in stopping
                          /\ result'[v] # NULL <=> pc'[v] = "done"
    BY <1>1
  <1>3. ProcessTypes'
    BY <1>1, <1>2
  <1>4. QED
    BY <1>3 DEF UniqueClaims

\* Every step leaves the processes' variables in their types, the claims apart.
LEMMA ProcessesStep ==
    ASSUME PInv, PlatformNext
    PROVE  ProcessTypes' /\ UniqueClaims'
  <1>0. ProcessTypes /\ UniqueClaims /\ Q!QueueTypeOK
    BY DEF PInv, PlatformTypeOK, ProcessTypes
  <1>a. MaxFaults \in Nat
    BY PlatformAssumption
  <1>b. fault \/ no_fault => faults' \in 0..MaxFaults
    BY <1>0, <1>a DEF fault, no_fault, ProcessTypes
  <1>1. ASSUME NEW v \in Workflow,
               start_and_commit(v) \/ publish_roots(v) \/ lose_roots(v)
        PROVE  ProcessTypes' /\ UniqueClaims'
    <2>1. /\ unpublished' \in SUBSET Workflow
          /\ UNCHANGED <<held, worker_vars, listed>>
          /\ faults' \in 0..MaxFaults
      BY <1>0, <1>1, <1>b DEF start_and_commit, publish_roots, lose_roots, no_fault,
                              ProcessTypes, Q!enqueue
    <2>2. QED
      BY <1>0, <2>1 DEF ProcessTypes, UniqueClaims, worker_vars
  <1>2. ASSUME reconcile_find \/ reconcile_enqueue \/ reconcile_fails
        PROVE  ProcessTypes' /\ UniqueClaims'
    <2>1. /\ listed' \in (SUBSET Task) \cup {NULL}
          /\ UNCHANGED <<held, worker_vars, unpublished>>
          /\ faults' \in 0..MaxFaults
      BY <1>2, <1>b DEF reconcile_find, reconcile_enqueue, reconcile_fails, no_fault,
                        runnable_ids, Q!enqueue
    <2>2. QED
      BY <1>0, <2>1 DEF ProcessTypes, UniqueClaims, worker_vars
  <1>3. ASSUME NEW w \in Worker, claim_task(w)
        PROVE  ProcessTypes' /\ UniqueClaims'
    <2>1. PICK t \in Task, k \in Q!fresh_tokens :
              /\ held' = held \cup {<<t, k>>}
              /\ claim' = [claim EXCEPT ![w] = <<t, k>>]
      BY <1>3 DEF claim_task, Q!claim
    <2>2. /\ pc[w] = "idle" /\ claim[w] = NULL
          /\ pc' = [pc EXCEPT ![w] = "starting"]
          /\ UNCHANGED <<stopping, trusted, result, unpublished, listed, faults>>
      BY <1>0, <1>3 DEF claim_task, ProcessTypes
    <2>3. <<t, k>> \in Q!Claim /\ <<t, k>> # NULL /\ <<t, k>> \notin held
      BY NoneAssumption DEF Q!Claim, Q!fresh_tokens
    <2>4. \A v \in Worker : /\ claim'[v] = IF v = w THEN <<t, k>> ELSE claim[v]
                            /\ pc'[v] = IF v = w THEN "starting" ELSE pc[v]
      BY <1>0, <2>1, <2>2 DEF ProcessTypes
    <2>5. claim' \in [Worker -> Q!Claim \cup {NULL}]
      BY <1>0, <2>1, <2>3 DEF ProcessTypes
    <2>6. held' = {claim'[v] : v \in {u \in Worker : claim'[u] # NULL}}
      BY <1>0, <2>1, <2>2, <2>3, <2>4 DEF ProcessTypes
    <2>7. ProcessTypes'
      BY <1>0, <2>2, <2>3, <2>4, <2>5, <2>6 DEF ProcessTypes
    <2>8. UniqueClaims'
      BY <1>0, <2>3, <2>4 DEF UniqueClaims, ProcessTypes
    <2>9. QED
      BY <2>7, <2>8
  <1>4. ASSUME NEW w \in Worker, start(w) \/ complete(w) \/ retry(w)
        PROVE  ProcessTypes' /\ UniqueClaims'
    <2>1. pc[w] \in {"starting", "executing"}
      BY <1>4 DEF start, complete, retry
    <2>2. UNCHANGED <<held, claim, trusted, stopping, unpublished, listed, faults>>
      BY <1>4 DEF start, complete, retry, returns
    <2>3. CASE pc' = [pc EXCEPT ![w] = "executing"] /\ UNCHANGED result
      BY <1>0, <2>1, <2>2, <2>3, ClaimKept DEF ProcessTypes
    <2>4. ASSUME NEW again \in BOOLEAN, NEW ids \in SUBSET Task, returns(w, again, ids)
          PROVE  ProcessTypes' /\ UniqueClaims'
      <3>1. [should_retry |-> again, enqueue_task_ids |-> ids] \in Result
        BY DEF Result
      <3>2. [should_retry |-> again, enqueue_task_ids |-> ids] # NULL
        BY <3>1, NoneAssumption
      <3>3. /\ result' \in [Worker -> Result \cup {NULL}]
            /\ \A v \in Worker : v # w => result'[v] = result[v]
            /\ result'[w] # NULL
        BY <1>0, <2>4, <3>1, <3>2 DEF returns, ProcessTypes
      <3>4. pc' = [pc EXCEPT ![w] = "done"]
        BY <2>4 DEF returns
      <3>5. QED
        BY <1>0, <2>1, <2>2, <3>3, <3>4, ClaimKept
    <2>5. released(task_of(w)) \in SUBSET Task
      BY DEF released, decremented, children
    <2>6. should_retry(task_of(w)) \in BOOLEAN
      BY DEF should_retry, tries_left
    <2>7. QED
      BY <1>4, <2>3, <2>4, <2>5, <2>6 DEF start, complete, retry
  <1>5. ASSUME NEW w \in Worker, process_raises(w) \/ die(w)
        PROVE  ProcessTypes' /\ UniqueClaims'
    BY <1>0, <1>5, <1>b, ClaimGivenUp DEF process_raises, die, drop_claim
  <1>6. ASSUME NEW w \in Worker, dispose(w)
        PROVE  ProcessTypes' /\ UniqueClaims'
    <2>1. held' = held \ {claim[w]}
      BY <1>6 DEF dispose, Q!forget, Q!release, Q!finish
    <2>2. QED
      BY <1>0, <1>6, <1>b, <2>1, ClaimGivenUp DEF dispose, drop_claim, no_fault
  <1>7. ASSUME NEW w \in Worker, stop(w)
        PROVE  ProcessTypes' /\ UniqueClaims'
    BY <1>0, <1>7, <1>b DEF stop, ProcessTypes, UniqueClaims
  <1>8. ASSUME NEW w \in Worker, leave_loop(w)
        PROVE  ProcessTypes' /\ UniqueClaims'
    <2>1. /\ pc[w] = "idle" /\ w \in stopping
          /\ pc' = [pc EXCEPT ![w] = "stopped"]
          /\ UNCHANGED <<held, stopping, claim, trusted, result, unpublished, listed, faults>>
      BY <1>8 DEF leave_loop, wakes_up
    <2>2. QED
      BY <1>0, <2>1 DEF ProcessTypes, UniqueClaims
  <1>9. ASSUME NEW w \in Worker,
               heartbeat_renews(w) \/ heartbeat_refused(w) \/ heartbeat_raises(w)
        PROVE  ProcessTypes' /\ UniqueClaims'
    <2>1. /\ trusted' \in [Worker -> BOOLEAN]
          /\ UNCHANGED <<held, pc, stopping, claim, result, unpublished, listed>>
          /\ faults' \in 0..MaxFaults
      BY <1>0, <1>9, <1>b DEF heartbeat_renews, heartbeat_refused, heartbeat_raises,
                              no_fault, worker_vars, ProcessTypes, Q!heartbeat
    <2>2. QED
      BY <1>0, <2>1 DEF ProcessTypes, UniqueClaims
  <1>10. ASSUME NEW t \in Task, lease_expires(t) \/ lease_stalls(t)
         PROVE  ProcessTypes' /\ UniqueClaims'
    <2>1. /\ UNCHANGED <<held, worker_vars, unpublished, listed>>
          /\ faults' \in 0..MaxFaults
      BY <1>10, <1>b DEF lease_expires, lease_stalls, no_fault, Q!leases_expire
    <2>2. QED
      BY <1>0, <2>1 DEF ProcessTypes, UniqueClaims, worker_vars
  <1>11. QED
    BY <1>1, <1>2, <1>3, <1>4, <1>5, <1>6, <1>7, <1>8, <1>9, <1>10 DEF PlatformNext

\* Only dispose takes an entry out of the queue, and only with a current claim
\* whose task is to be retried no more.
LEMMA EntriesStay ==
    ASSUME PInv, PlatformNext, NEW t \in Task, owner[t] # Absent, owner'[t] = Absent
    PROVE  status[t] \in Terminal
  <1>0. owner \in [Task -> Token \cup {Absent, Unclaimed}]
    BY DEF PInv, PlatformTypeOK, Q!QueueTypeOK
  <1>1. ASSUME NEW ids, Q!enqueue(ids) PROVE FALSE
    BY <1>0, <1>1 DEF Q!enqueue, Q!inserted
  <1>2. ASSUME NEW w \in Worker, claim_task(w) PROVE FALSE
    <2>1. PICK u \in Task, k \in Token : owner' = [owner EXCEPT ![u] = k]
      BY <1>2 DEF claim_task, Q!claim, Q!fresh_tokens
    <2>2. QED
      BY <1>0, <2>1, EntryAssumption
  <1>3. ASSUME NEW w \in Worker, dispose(w) PROVE status[t] \in Terminal
    <2>1. pc[w] = "done" /\ claim[w] # NULL
      BY <1>3 DEF dispose, PInv, PlatformTypeOK
    <2>2. task_of(w) \in Task /\ claim[w][1] = task_of(w)
      BY <2>1, BusyWorkerHolds DEF PInv, task_of
    <2>3. Q!forget(claim[w]) => FALSE
      BY DEF Q!forget
    <2>4. Q!release(claim[w]) => FALSE
      BY <1>0, <2>2, EntryAssumption DEF Q!release
    <2>5. ASSUME Q!finish(claim[w], result[w].enqueue_task_ids) PROVE t = task_of(w)
      BY <1>0, <2>2, <2>5, EntryAssumption DEF Q!finish, Q!inserted
    <2>6. QED
      BY <1>3, <2>1, <2>3, <2>4, <2>5 DEF dispose, PInv, ClaimsFollowStatus
  <1>4. ASSUME UNCHANGED owner PROVE FALSE
    BY <1>4
  <1>5. QED
    BY <1>1, <1>2, <1>3, <1>4
    DEF PlatformNext, start_and_commit, publish_roots, lose_roots, reconcile_find,
        reconcile_enqueue, reconcile_fails, start, complete, retry, process_raises,
        die, stop, leave_loop, heartbeat_renews, heartbeat_refused,
        heartbeat_raises, lease_expires, lease_stalls, Q!heartbeat, Q!leases_expire

\* What goes into the queue was reported, so what is there still is.
LEMMA ReportedStep ==
    ASSUME PInv, PlatformNext
    PROVE  WorkReported'
  <1>0. /\ owner \in [Task -> Token \cup {Absent, Unclaimed}]
        /\ ProcessTypes /\ ProcessTypes' /\ WorkReported
        /\ reported \subseteq reported'
    BY TablesStep, ReportedGrows, ProcessesStep
    DEF PInv, Q!QueueTypeOK, PlatformTypeOK, ProcessTypes
  <1>1. \A t \in Task : owner'[t] # Absent => t \in reported'
    <2> SUFFICES ASSUME NEW t \in Task, owner'[t] # Absent PROVE t \in reported'
      OBVIOUS
    <2>1. ASSUME owner[t] # Absent PROVE t \in reported'
      BY <1>0, <2>1 DEF WorkReported
    <2>2. ASSUME NEW ids \in SUBSET reported, Q!enqueue(ids) PROVE t \in reported'
      BY <1>0, <2>1, <2>2 DEF Q!enqueue, Q!inserted
    <2>3. ASSUME NEW w \in Worker, claim_task(w) PROVE t \in reported'
      <3>1. PICK u \in Task, k \in Token : /\ owner[u] # Absent
                                           /\ owner' = [owner EXCEPT ![u] = k]
        <4>1. \A u \in Task : Q!claimable(u) => owner[u] # Absent
          BY EntryAssumption DEF Q!claimable, PInv, PlatformTypeOK, Q!QueueTypeOK
        <4>2. QED
          BY <2>3, <4>1 DEF claim_task, Q!claim, Q!fresh_tokens
      <3>2. QED
        BY <1>0, <2>1, <3>1
    <2>4. ASSUME NEW w \in Worker, dispose(w) PROVE t \in reported'
      <3>1. pc[w] = "done" /\ claim[w] # NULL /\ result[w] # NULL
        BY <1>0, <2>4 DEF dispose, ProcessTypes
      <3>2. task_of(w) \in reported /\ claim[w][1] = task_of(w)
            /\ result[w].enqueue_task_ids \subseteq reported
        BY <1>0, <3>1 DEF WorkReported, task_of
      <3>3. ASSUME Q!finish(claim[w], result[w].enqueue_task_ids)
            PROVE  owner[t] # Absent \/ t \in result[w].enqueue_task_ids
        BY <1>0, <3>3 DEF Q!finish, Q!inserted
      <3>4. ASSUME Q!release(claim[w])
            PROVE  owner[t] # Absent \/ t = task_of(w)
        BY <1>0, <3>2, <3>4 DEF Q!release
      <3>5. ASSUME Q!forget(claim[w])
            PROVE  owner[t] # Absent
        BY <3>5 DEF Q!forget
      <3>6. QED
        BY <1>0, <2>1, <2>4, <3>2, <3>3, <3>4, <3>5 DEF dispose
    <2>5. ASSUME NEW v \in Workflow, publish_roots(v) PROVE t \in reported'
      BY <1>0, <2>2, <2>5 DEF publish_roots, WorkReported
    <2>6. ASSUME reconcile_enqueue PROVE t \in reported'
      BY <1>0, <2>2, <2>6 DEF reconcile_enqueue, WorkReported
    <2>7. ASSUME UNCHANGED owner PROVE t \in reported'
      BY <2>1, <2>7
    <2>8. QED
      BY <2>3, <2>4, <2>5, <2>6, <2>7
      DEF PlatformNext, start_and_commit, lose_roots, reconcile_find,
          reconcile_fails, start, complete, retry, process_raises,
          die, stop, leave_loop, heartbeat_renews, heartbeat_refused,
          heartbeat_raises, lease_expires, lease_stalls, Q!heartbeat, Q!leases_expire
  <1>2. \A w \in Worker : claim'[w] # NULL => claim'[w][1] \in reported'
    <2> SUFFICES ASSUME NEW w \in Worker, claim'[w] # NULL
                 PROVE  claim'[w][1] \in reported'
      OBVIOUS
    <2>1. CASE claim'[w] = claim[w]
      BY <1>0, <2>1 DEF WorkReported, task_of
    <2>2. ASSUME NEW v \in Worker, claim_task(v) PROVE claim'[w][1] \in reported'
      <3>1. PICK u \in Task, k \in Q!fresh_tokens :
                Q!claim(u, k, TRUE) /\ claim' = [claim EXCEPT ![v] = <<u, k>>]
        BY <2>2 DEF claim_task
      <3>2. owner[u] # Absent
        BY <3>1, EntryAssumption
        DEF Q!claim, Q!claimable, PInv, PlatformTypeOK, Q!QueueTypeOK
      <3>3. u \in reported'
        BY <1>0, <3>2 DEF WorkReported
      <3>4. QED
        BY <1>0, <2>1, <3>1, <3>3 DEF ProcessTypes
    <2>3. ASSUME NEW v \in Worker, claim' = [claim EXCEPT ![v] = NULL]
          PROVE  claim'[w][1] \in reported'
      BY <1>0, <2>1, <2>3 DEF ProcessTypes
    <2>4. QED
      BY <2>1, <2>2, <2>3
      DEF PlatformNext, start_and_commit, publish_roots, lose_roots, reconcile_find,
          reconcile_enqueue, reconcile_fails, start, complete, retry, process_raises,
          dispose, die, stop, leave_loop, heartbeat_renews, heartbeat_refused,
          heartbeat_raises, lease_expires, lease_stalls, worker_vars, returns, drop_claim
  <1>3. \A w \in Worker : result'[w] # NULL => result'[w].enqueue_task_ids \subseteq reported'
    <2> SUFFICES ASSUME NEW w \in Worker, result'[w] # NULL
                 PROVE  result'[w].enqueue_task_ids \subseteq reported'
      OBVIOUS
    <2>1. CASE result'[w] = result[w]
      BY <1>0, <2>1 DEF WorkReported
    <2>2. ASSUME NEW v \in Worker, NEW again \in BOOLEAN, NEW ids \in SUBSET reported',
                 returns(v, again, ids)
          PROVE  result'[w].enqueue_task_ids \subseteq reported'
      BY <1>0, <2>1, <2>2 DEF returns, ProcessTypes
    <2>3. ASSUME NEW v \in Worker, complete(v)
          PROVE  result'[w].enqueue_task_ids \subseteq reported'
      <3>1. ASSUME NEW out \in Output, NEW hidden,
                   complete_task(task_of(v), out, hidden, TRUE)
            PROVE  released(task_of(v)) \in SUBSET reported'
        BY <3>1 DEF complete_task
      <3>2. QED
        BY <2>1, <2>2, <2>3, <3>1 DEF complete
    <2>4. ASSUME NEW v \in Worker, start(v) \/ retry(v)
          PROVE  result'[w].enqueue_task_ids \subseteq reported'
      <3>1. should_retry(task_of(v)) \in BOOLEAN
        BY DEF should_retry, tries_left
      <3>2. QED
        BY <2>1, <2>2, <2>4, <3>1 DEF start, retry
    <2>5. ASSUME NEW v \in Worker, result' = [result EXCEPT ![v] = NULL]
          PROVE  result'[w].enqueue_task_ids \subseteq reported'
      BY <1>0, <2>1, <2>5 DEF ProcessTypes
    <2>6. QED
      BY <2>1, <2>3, <2>4, <2>5
      DEF PlatformNext, start_and_commit, publish_roots, lose_roots, reconcile_find,
          reconcile_enqueue, reconcile_fails, claim_task, process_raises,
          dispose, die, stop, leave_loop, heartbeat_renews, heartbeat_refused,
          heartbeat_raises, lease_expires, lease_stalls, worker_vars, drop_claim
  <1>4. listed' # NULL => listed' \subseteq reported'
    <2>1. CASE listed' = listed
      BY <1>0, <2>1 DEF WorkReported
    <2>2. CASE reconcile_find
      BY <2>2 DEF reconcile_find, find_runnable_ids
    <2>3. CASE listed' = NULL
      BY <2>3
    <2>4. QED
      BY <2>1, <2>2, <2>3
      DEF PlatformNext, start_and_commit, publish_roots, lose_roots,
          reconcile_enqueue, reconcile_fails, start, claim_task, complete, retry,
          process_raises, dispose, die, stop, leave_loop, heartbeat_renews,
          heartbeat_refused, heartbeat_raises, lease_expires, lease_stalls
  <1>5. \A v \in unpublished' : root_task_ids(v) \subseteq reported'
    <2>1. CASE unpublished' \subseteq unpublished
      BY <1>0, <2>1 DEF WorkReported
    <2>2. ASSUME NEW v \in Workflow, start_and_commit(v)
          PROVE  \A u \in unpublished' : root_task_ids(u) \subseteq reported'
      <3>1. unpublished' = unpublished \cup {v} /\ root_task_ids(v) \subseteq reported'
        BY <2>2 DEF start_and_commit, create
      <3>2. QED
        BY <1>0, <3>1 DEF WorkReported
    <2>3. QED
      BY <2>1, <2>2
      DEF PlatformNext, publish_roots, lose_roots, reconcile_find,
          reconcile_enqueue, reconcile_fails, start, claim_task, complete, retry,
          process_raises, dispose, die, stop, leave_loop, heartbeat_renews,
          heartbeat_refused, heartbeat_raises, lease_expires, lease_stalls
  <1>6. \A v : root_task_ids(v)' = root_task_ids(v)
    BY DEF root_task_ids, TasksOf
  <1>7. QED
    BY <1>1, <1>2, <1>3, <1>4, <1>5, <1>6 DEF WorkReported, task_of

\* A worker's task exists, and goes through its states in order whoever works
\* on it.
LEMMA HeldTaskStatus ==
    ASSUME PInv, PlatformNext, NEW w \in Worker, claim[w] # NULL
    PROVE  LET t == task_of(w) IN
           /\ t \in Task /\ status[t] # "NONE" /\ status'[t] # "NONE"
           /\ status[t] # "PENDING" => status'[t] # "PENDING"
           /\ status'[t] \in Active => status[t] \in Active
           /\ status[t] \in Terminal => status'[t] = status[t]
           /\ status'[t] \in Active => owner'[t] # Absent
  <1>1. task_of(w) \in Task /\ status[task_of(w)] # "NONE"
    BY BusyWorkerHolds DEF PInv, IInv, WorkReported, ReportedReady
  <1>2. /\ status'[task_of(w)] # "NONE"
        /\ status[task_of(w)] # "PENDING" => status'[task_of(w)] # "PENDING"
        /\ status'[task_of(w)] \in Active => status[task_of(w)] \in Active
        /\ status[task_of(w)] \in Terminal => status'[task_of(w)] = status[task_of(w)]
    BY <1>1, TablesStep, StatusStep DEF PInv
  <1>3. status[task_of(w)] \in Active => owner[task_of(w)] # Absent
    BY DEF PInv, ClaimsFollowStatus
  <1>4. status[task_of(w)] \in Active => owner'[task_of(w)] # Absent
    BY <1>1, <1>3, EntriesStay DEF Active, Terminal
  <1>5. QED
    BY <1>1, <1>2, <1>4

\* The claims a step keeps stay true to their tasks, and so do the one it takes
\* and the result it returns.
LEMMA ClaimsStep ==
    ASSUME PInv, PlatformNext
    PROVE  ClaimsFollowStatus'
  <1>0. /\ ProcessTypes /\ ProcessTypes' /\ ClaimsFollowStatus
        /\ TypeOK /\ TypeOK'
    BY TablesStep, NextIInv, ProcessesStep DEF PInv, IInv, PlatformTypeOK, ProcessTypes
  <1> DEFINE Follows(v) ==
        /\ claim'[v] # NULL /\ status'[claim'[v][1]] \in Active
              => owner'[claim'[v][1]] # Absent
        /\ pc'[v] = "executing" => status'[claim'[v][1]] \notin {"NONE", "PENDING"}
        /\ pc'[v] = "done" /\ ~result'[v].should_retry => status'[claim'[v][1]] \in Terminal
  <1>1. ASSUME NEW v \in Worker,
               claim'[v] = claim[v], pc'[v] = pc[v], result'[v] = result[v]
        PROVE  Follows(v)
    <2>1. CASE claim[v] = NULL
      BY <1>0, <1>1, <2>1 DEF ProcessTypes
    <2>2. CASE claim[v] # NULL
      BY <1>0, <1>1, <2>2, HeldTaskStatus DEF ClaimsFollowStatus, task_of, Terminal
    <2>3. QED
      BY <2>1, <2>2
  <1>2. ASSUME NEW v \in Worker, claim'[v] = NULL
        PROVE  Follows(v)
    BY <1>0, <1>2 DEF ProcessTypes
  <1>3. ASSUME NEW v \in Worker, claim'[v] = claim[v], pc'[v] = "executing",
               status'[task_of(v)] \notin {"NONE", "PENDING"}, claim[v] # NULL
        PROVE  Follows(v)
    BY <1>3, HeldTaskStatus DEF task_of
  <1>4. ASSUME NEW v \in Worker, claim'[v] = claim[v], pc'[v] = "done", claim[v] # NULL,
               ~result'[v].should_retry => status'[task_of(v)] \in Terminal
        PROVE  Follows(v)
    BY <1>4, HeldTaskStatus DEF task_of
  <1> HIDE DEF Follows
  <1>5. ASSUME NEW w \in Worker, claim_task(w), NEW v \in Worker PROVE Follows(v)
    <2>1. CASE v = w
      <3>1. PICK t \in Task, k \in Q!fresh_tokens :
                claim' = [claim EXCEPT ![w] = <<t, k>>] /\ owner' = [owner EXCEPT ![t] = k]
        BY <1>5 DEF claim_task, Q!claim
      <3>2. k \in Token /\ k # Absent
        BY EntryAssumption DEF Q!fresh_tokens
      <3>3. claim'[v][1] = t /\ owner'[t] # Absent /\ pc'[v] = "starting"
        BY <1>0, <1>5, <2>1, <3>1, <3>2
        DEF ProcessTypes, claim_task, PInv, PlatformTypeOK, Q!QueueTypeOK
      <3>4. QED
        BY <3>3 DEF Follows
    <2>2. CASE v # w
      BY <1>0, <1>1, <1>5, <2>2 DEF claim_task, ProcessTypes
    <2>3. QED
      BY <2>1, <2>2
  <1>6. ASSUME NEW w \in Worker, start(w) \/ complete(w) \/ retry(w), NEW v \in Worker
        PROVE  Follows(v)
    <2>1. claim[w] # NULL /\ claim' = claim
      BY <1>0, <1>6 DEF start, complete, retry, returns, ProcessTypes
    <2>2. /\ task_of(w) \in Task
          /\ status[task_of(w)] # "NONE" /\ status'[task_of(w)] # "NONE"
      BY <2>1, HeldTaskStatus
    <2>3. CASE v # w
      BY <1>0, <1>1, <1>6, <2>1, <2>3 DEF start, complete, retry, returns, ProcessTypes
    <2>4. CASE v = w
      <3>1. status \in [Task -> TaskStatus] /\ status' \in [Task -> TaskStatus]
        BY <1>0 DEF TypeOK
      <3>2. ASSUME start(w), pc' = [pc EXCEPT ![w] = "executing"] PROVE Follows(w)
        <4>1. status'[task_of(w)] = "RUNNING"
          BY <1>0, <2>2, <3>1, <3>2
          DEF start, start_task, returns, vars, ProcessTypes
        <4>2. QED
          BY <1>0, <1>3, <2>1, <3>2, <4>1 DEF ProcessTypes
      <3>3. ASSUME NEW again \in BOOLEAN, NEW ids \in SUBSET Task, returns(w, again, ids),
                   ~again => status'[task_of(w)] \in Terminal
            PROVE  Follows(w)
        BY <1>0, <1>4, <2>1, <3>3 DEF returns, ProcessTypes
      <3>4. ASSUME status[task_of(w)] \notin Active, UNCHANGED vars
            PROVE  status'[task_of(w)] \in Terminal
        BY <2>2, <3>1, <3>4 DEF vars, TaskStatus, Active, Terminal
      <3>5. CASE start(w)
        BY <2>4, <3>2, <3>3, <3>4, <3>5 DEF start
      <3>6. ASSUME complete(w) \/ retry(w), status[task_of(w)] # "RUNNING"
            PROVE  status[task_of(w)] \notin Active
        BY <3>6 DEF complete, retry, ClaimsFollowStatus, PInv, Active
      <3>7. CASE complete(w)
        <4>1. ASSUME NEW out, NEW hidden,
                     complete_task(task_of(w), out, hidden, TRUE)
              PROVE  status'[task_of(w)] \in Terminal
          BY <2>2, <3>1, <4>1 DEF complete_task, Terminal
        <4>2. released(task_of(w)) \in SUBSET Task
          BY DEF released, decremented, children
        <4>3. QED
          BY <2>4, <3>3, <3>4, <3>6, <3>7, <4>1, <4>2 DEF complete
      <3>8. CASE retry(w)
        <4>1. ASSUME retry_task(task_of(w)), ~should_retry(task_of(w))
              PROVE  status'[task_of(w)] \in Terminal
          BY <2>2, <4>1 DEF retry_task, should_retry, Terminal
        <4>2. should_retry(task_of(w)) \in BOOLEAN
          BY DEF should_retry, tries_left
        <4>3. QED
          BY <2>4, <3>3, <3>4, <3>6, <3>8, <4>1, <4>2 DEF retry
      <3>9. QED
        BY <1>6, <2>4, <3>5, <3>7, <3>8
    <2>5. QED
      BY <2>3, <2>4
  <1>7. ASSUME NEW w \in Worker, process_raises(w) \/ dispose(w) \/ die(w), NEW v \in Worker
        PROVE  Follows(v)
    <2>1. CASE v = w
      BY <1>0, <1>2, <1>7, <2>1 DEF process_raises, dispose, die, drop_claim, ProcessTypes
    <2>2. CASE v # w
      BY <1>0, <1>1, <1>7, <2>2 DEF process_raises, dispose, die, drop_claim, ProcessTypes
    <2>3. QED
      BY <2>1, <2>2
  <1>8. ASSUME NEW w \in Worker, leave_loop(w), NEW v \in Worker PROVE Follows(v)
    <2>1. CASE v = w
      BY <1>0, <1>2, <1>8, <2>1 DEF leave_loop, wakes_up, ProcessTypes
    <2>2. CASE v # w
      BY <1>0, <1>1, <1>8, <2>2 DEF leave_loop, ProcessTypes
    <2>3. QED
      BY <2>1, <2>2
  <1>9. ASSUME UNCHANGED <<claim, pc, result>>, NEW v \in Worker PROVE Follows(v)
    BY <1>1, <1>9
  <1>10. \A v \in Worker : Follows(v)
    BY <1>5, <1>6, <1>7, <1>8, <1>9
    DEF PlatformNext, start_and_commit, publish_roots, lose_roots, reconcile_find,
        reconcile_enqueue, reconcile_fails, stop, heartbeat_renews, heartbeat_refused,
        heartbeat_raises, lease_expires, lease_stalls, worker_vars
  <1>11. QED
    BY <1>10 DEF Follows, ClaimsFollowStatus, task_of

\* A task starts RUNNING under a claim, and a claim on an unfinished task finds
\* the entry there.
LEMMA RunningStep ==
    ASSUME PInv, PlatformNext
    PROVE  RunningTaskQueued'
  <1> SUFFICES ASSUME NEW t \in Task, status'[t] = "RUNNING"
               PROVE  owner'[t] # Absent
    BY DEF RunningTaskQueued
  <1>1. ASSUME status[t] = "RUNNING" PROVE owner'[t] # Absent
    BY <1>1, EntriesStay DEF PInv, RunningTaskQueued, Terminal
  <1>2. ASSUME NEW w \in Worker, start(w), status[t] # "RUNNING"
        PROVE  owner'[t] # Absent
    <2>1. start_task(task_of(w))
      BY <1>2 DEF start, vars
    <2>2. pc[w] = "starting" /\ claim[w] # NULL
      BY <1>2 DEF start, PInv, PlatformTypeOK
    <2>3. t = task_of(w)
      BY <1>2, <2>1 DEF start_task, PInv, IInv, TypeOK
    <2>4. QED
      BY <2>2, <2>3, HeldTaskStatus DEF Active
  <1>3. ASSUME NEW w \in Worker, complete(w) \/ retry(w) \/ process_raises(w)
        PROVE  status[t] = "RUNNING"
    <2>1. status \in [Task -> TaskStatus]
      BY DEF PInv, IInv, TypeOK
    <2>2. ASSUME NEW u, NEW out, NEW hidden, NEW answered, complete_task(u, out, hidden, answered)
          PROVE  status[t] = "RUNNING"
      BY <2>1, <2>2 DEF complete_task
    <2>3. ASSUME NEW u, retry_task(u) PROVE status[t] = "RUNNING"
      BY <2>1, <2>3 DEF retry_task
    <2>4. CASE UNCHANGED vars
      BY <2>4 DEF vars
    <2>5. QED
      BY <1>3, <2>2, <2>3, <2>4 DEF complete, retry, process_raises
  <1>4. ASSUME NEW v \in Workflow, start_and_commit(v) PROVE status[t] = "RUNNING"
    BY <1>4 DEF start_and_commit, create
  <1>5. ASSUME reconcile_find PROVE status[t] = "RUNNING"
    BY <1>5 DEF reconcile_find, find_runnable_ids
  <1>6. CASE UNCHANGED vars
    BY <1>1, <1>6 DEF vars
  <1>7. QED
    BY <1>1, <1>2, <1>3, <1>4, <1>5, <1>6
    DEF PlatformNext, publish_roots, lose_roots, reconcile_enqueue, reconcile_fails,
        claim_task, dispose, die, stop, leave_loop, heartbeat_renews,
        heartbeat_refused, heartbeat_raises, lease_expires, lease_stalls

-----------------------------------------------------------------------------

\* Idle workers around two empty stores satisfy the invariant.
LEMMA InitPInv == PlatformInit => PInv
  <1> SUFFICES ASSUME PlatformInit PROVE PInv
    OBVIOUS
  <1>1. IInv /\ TypeOK
    BY InitIInv DEF PlatformInit, IInv
  <1>2. Q!QueueTypeOK
    BY QueueInitInv DEF PlatformInit
  <1>3. ProcessTypes /\ UniqueClaims
    BY PlatformAssumption DEF PlatformInit, Q!QueueInit, ProcessTypes, UniqueClaims
  <1>4. WorkReported /\ ClaimsFollowStatus /\ RunningTaskQueued
    BY DEF PlatformInit, Init, Q!QueueInit, WorkReported, ClaimsFollowStatus,
           RunningTaskQueued
  <1>5. QED
    BY <1>1, <1>2, <1>3, <1>4 DEF PInv, PlatformTypeOK, ProcessTypes

\* Every step of a process, of a fault or of a lease keeps the invariant.
LEMMA NextPInv == PInv /\ [PlatformNext]_platform_vars => PInv'
  <1>1. ASSUME PInv, PlatformNext PROVE PInv'
    <2>1. IInv'
      BY <1>1, TablesStep, NextIInv DEF PInv
    <2>2. Q!QueueTypeOK'
      BY <1>1, QueueStep, QueueNextInv DEF PInv, PlatformTypeOK
    <2>3. ProcessTypes' /\ UniqueClaims'
      BY <1>1, ProcessesStep
    <2>4. WorkReported' /\ ClaimsFollowStatus' /\ RunningTaskQueued'
      BY <1>1, ReportedStep, ClaimsStep, RunningStep
    <2>5. QED
      BY <2>1, <2>2, <2>3, <2>4 DEF PInv, IInv, PlatformTypeOK, ProcessTypes
  <1>2. ASSUME PInv, UNCHANGED platform_vars PROVE PInv'
    <2>1. /\ UNCHANGED vars /\ UNCHANGED Q!queue_vars /\ UNCHANGED worker_vars
          /\ UNCHANGED <<unpublished, listed, faults>>
      BY <1>2 DEF platform_vars, Q!queue_vars
    <2>2. IInv'
      BY <1>2, <2>1, NextIInv DEF PInv
    <2>3. Q!QueueTypeOK'
      BY <1>2, <2>1, QueueNextInv DEF PInv, PlatformTypeOK
    <2>4. ProcessTypes' /\ UniqueClaims'
      BY <1>2, <2>1 DEF PInv, PlatformTypeOK, ProcessTypes, UniqueClaims, Q!queue_vars, worker_vars
    <2>5. WorkReported' /\ ClaimsFollowStatus' /\ RunningTaskQueued'
      BY <1>2, <2>1
      DEF PInv, WorkReported, ClaimsFollowStatus, RunningTaskQueued, Q!queue_vars,
          worker_vars, vars, task_of, root_task_ids, TasksOf
    <2>6. QED
      BY <2>2, <2>3, <2>4, <2>5 DEF PInv, IInv, PlatformTypeOK, ProcessTypes
  <1>3. QED
    BY <1>1, <1>2

\* The invariant holds in every state.
LEMMA PlatformInvariance == PlatformSpec => []PInv
  BY InitPInv, NextPInv, PTL DEF PlatformSpec

\* Every variable keeps its type, exactly the busy workers hold claims, and
\* exactly the finished ones a result.
THEOREM PlatformTypeCorrect == PlatformSpec => []PlatformTypeOK
  <1>1. PInv => PlatformTypeOK
    BY DEF PInv
  <1>2. QED
    BY PlatformInvariance, <1>1, PTL

\* A RUNNING task has a queue entry through every crash, stale finish and lost
\* enqueue, so some worker will claim it again.
THEOREM RunningTasksQueued == PlatformSpec => []RunningTaskQueued
  <1>1. PInv => RunningTaskQueued
    BY DEF PInv
  <1>2. QED
    BY PlatformInvariance, <1>1, PTL

\* The queue never holds a task that could not be started.
THEOREM QueuedTasksReady == PlatformSpec => []QueuedTaskReady
  <1>1. PInv => QueuedTaskReady
    BY DEF PInv, IInv, WorkReported, ReportedReady, QueuedTaskReady
  <1>2. QED
    BY PlatformInvariance, <1>1, PTL

\* The processes together implement the repository's specification: what is
\* proved of WorkflowExecutions holds of the platform.
THEOREM ImplementsWorkflowExecutions == PlatformSpec => UsesWorkflowExecutions
  <1>1. PlatformInit => Init
    BY DEF PlatformInit
  <1>2. PInv /\ [PlatformNext]_platform_vars => [Next]_vars
    BY TablesStep DEF platform_vars
  <1>3. QED
    BY PlatformInvariance, <1>1, <1>2, PTL DEF PlatformSpec, Spec, UsesWorkflowExecutions

\* And they use the queue as its contract allows: they release, finish and
\* renew only claims they hold.
THEOREM UsesExecutionQueue == PlatformSpec => Q!QueueSpec
  <1>1. PlatformInit => Q!QueueInit
    BY DEF PlatformInit
  <1>2. PInv /\ [PlatformNext]_platform_vars => [Q!QueueNext]_(Q!queue_vars)
    BY QueueStep DEF platform_vars, Q!queue_vars
  <1>3. QED
    BY PlatformInvariance, <1>1, <1>2, PTL DEF PlatformSpec, Q!QueueSpec

=============================================================================
