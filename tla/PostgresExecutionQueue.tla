----------------------- MODULE PostgresExecutionQueue -----------------------
(***************************************************************************)
(* execution_queue/postgres/queue.py: the queue_entries table, its SQL, and*)
(* the clock that leases are measured with, used by workers that claim,    *)
(* renew, and dispose of claims as runtime/worker/worker.py does.          *)
(*                                                                         *)
(* Each call reads the clock first and reaches the table later: `sample' is*)
(* the reading a call carries.  Timely workers get through a call within   *)
(* MaxDelay and send each heartbeat when it is due; the others may stall   *)
(* for as long as they like (a paused process, a slow connection).         *)
(***************************************************************************)
EXTENDS Integers, SequencesExt

CONSTANTS
    Task, Token, Worker, NULL,
    Lease,      \* AUTOMATION_QUEUE_LEASE_TIMEOUT
    Heartbeat,  \* AUTOMATION_WORKER_HEARTBEAT_INTERVAL
    Timely,     \* the workers that keep up
    MaxDelay,   \* the longest call of a timely worker
    MaxTime     \* bound of the model: the clock stops here

\* config/loader.py _validate_timing, for the two settings the lease needs.
timing_is_valid == Lease > 0 /\ Heartbeat > 0 /\ Lease >= 3 * Heartbeat

ASSUME TimingAssumption == {Lease, Heartbeat} \subseteq Nat /\ timing_is_valid
ASSUME TimelyAssumption == Timely \subseteq Worker /\ MaxDelay \in 0..(Heartbeat - 1)
ASSUME BoundAssumption == MaxTime \in Nat

VARIABLES
    now,        \* datetime.now
    entry,      \* task -> its row [token, last_heartbeat], or NULL
    queued,     \* the ids in the order of queued_at, one set per insertion
    lock,       \* task -> the worker whose claim() has locked the row, or NULL
    pc,         \* worker -> "idle", "claiming", "selected", "holding", "disposing"
    claim,      \* worker -> [task, token] it works under, or NULL
    sample,     \* worker -> the clock reading of its open call
    beat,       \* worker -> heartbeat thread: "off", "waiting", "sending", "lost"
    due         \* worker -> when the heartbeat thread wakes up

vars == <<now, entry, queued, lock, pc, claim, sample, beat, due>>

-----------------------------------------------------------------------------

Time == 0..MaxTime
Row == [token : Token \cup {NULL}, last_heartbeat : Time \cup {NULL}]
Held == [task : Task, token : Token]

\* uuid4 never runs out: some token is in no row and with no other worker.
ASSUME TokenAssumption ==
    \A w \in Worker : \A rows \in [Task -> Token \cup {NULL}],
                       claims \in [Worker \ {w} -> Token \cup {NULL}] :
        \E k \in Token : /\ \A t \in Task : rows[t] # k
                         /\ \A v \in Worker \ {w} : claims[v] # k

\* Python's None is no value of the other kinds, and a token is not a word.
ASSUME NoneAssumption ==
    /\ NULL \notin Int /\ NULL \notin Token /\ NULL \notin Worker
    /\ NULL \notin Row /\ NULL \notin Held
    /\ Token \cap {"Absent", "Unclaimed"} = {}

\* Every variable has its type; the columns of a claim are set together.
TypeOK ==
    /\ now \in Time
    /\ entry \in [Task -> Row \cup {NULL}]
    /\ \A t \in Task : entry[t] # NULL =>
          (entry[t].token = NULL <=> entry[t].last_heartbeat = NULL)
    /\ \A i \in DOMAIN queued : queued[i] # {}
    /\ \A t \in Task : entry[t] # NULL <=> \E i \in DOMAIN queued : t \in queued[i]
    /\ lock \in [Task -> Worker \cup {NULL}]
    /\ pc \in [Worker -> {"idle", "claiming", "selected", "holding", "disposing"}]
    /\ claim \in [Worker -> Held \cup {NULL}]
    /\ sample \in [Worker -> Time \cup {NULL}]
    /\ beat \in [Worker -> {"off", "waiting", "sending", "lost"}]
    /\ due \in [Worker -> 0..(MaxTime + Heartbeat) \cup {NULL}]

Init ==
    /\ now = 0
    /\ entry = [t \in Task |-> NULL]
    /\ queued = << >>
    /\ lock = [t \in Task |-> NULL]
    /\ pc = [w \in Worker |-> "idle"]
    /\ claim = [w \in Worker |-> NULL]
    /\ sample = [w \in Worker |-> NULL]
    /\ beat = [w \in Worker |-> "off"]
    /\ due = [w \in Worker |-> NULL]

-----------------------------------------------------------------------------
(***************************************************************************)
(* Inserting entries: enqueue, and the second half of finish.              *)
(***************************************************************************)

new_row == [token |-> NULL, last_heartbeat |-> NULL]

insert_queue_entries(rows, ids) ==
    [t \in Task |-> IF t \in ids /\ rows[t] = NULL THEN new_row ELSE rows[t]]

\* The rows of one insertion share their queued_at.
after_queued(order, ids) == IF ids = {} THEN order ELSE Append(order, ids)

place(order, t) == CHOOSE i \in DOMAIN order : t \in order[i]

without(order, t) ==
    IF order[place(order, t)] = {t}
    THEN RemoveAt(order, place(order, t))
    ELSE [order EXCEPT ![place(order, t)] = @ \ {t}]

enqueue(ids) ==
    /\ entry' = insert_queue_entries(entry, ids)
    /\ queued' = after_queued(queued, {t \in ids : entry[t] = NULL})
    /\ UNCHANGED <<now, lock, pc, claim, sample, beat, due>>

-----------------------------------------------------------------------------
(***************************************************************************)
(* claim: read the clock, select and lock the oldest entry that is free or *)
(* whose lease has run out, skipping locked rows, write the claim, commit. *)
(***************************************************************************)

expiration_by_heartbeat(reading) == reading - Heartbeat

expiration(reading) == reading - Lease

available(t, reading) ==
    /\ entry[t] # NULL
    /\ \/ entry[t].token = NULL
       \/ entry[t].last_heartbeat <= expiration(reading)

call_claim(w) ==
    /\ pc[w] = "idle"
    /\ pc' = [pc EXCEPT ![w] = "claiming"]
    /\ sample' = [sample EXCEPT ![w] = now]
    /\ UNCHANGED <<now, entry, queued, lock, claim, beat, due>>

selectable(w) == {t \in Task : lock[t] = NULL /\ available(t, sample[w])}

claim_select(w) ==
    /\ pc[w] = "claiming"
    /\ \E i \in DOMAIN queued : \E t \in queued[i] \cap selectable(w) :
          /\ \A j \in 1..(i - 1) : queued[j] \cap selectable(w) = {}
          /\ lock' = [lock EXCEPT ![t] = w]
    /\ pc' = [pc EXCEPT ![w] = "selected"]
    /\ UNCHANGED <<now, entry, queued, claim, sample, beat, due>>

claim_finds_nothing(w) ==
    /\ pc[w] = "claiming"
    /\ selectable(w) = {}
    /\ pc' = [pc EXCEPT ![w] = "idle"]
    /\ sample' = [sample EXCEPT ![w] = NULL]
    /\ UNCHANGED <<now, entry, queued, lock, claim, beat, due>>

\* uuid4: a token no row and no worker knows; which one does not matter.
fresh_token ==
    CHOOSE k \in Token :
        /\ \A t \in Task : entry[t] = NULL \/ entry[t].token # k
        /\ \A w \in Worker : claim[w] = NULL \/ claim[w].token # k

claim_commit(w) ==
    /\ pc[w] = "selected"
    /\ \E t \in Task :
          /\ lock[t] = w
          /\ entry' = [entry EXCEPT ![t].token = fresh_token,
                                    ![t].last_heartbeat = sample[w]]
          /\ claim' = [claim EXCEPT ![w] = [task |-> t, token |-> fresh_token]]
          /\ lock' = [lock EXCEPT ![t] = NULL]
    /\ pc' = [pc EXCEPT ![w] = "holding"]
    /\ sample' = [sample EXCEPT ![w] = NULL]
    /\ beat' = [beat EXCEPT ![w] = "waiting"]
    /\ due' = [due EXCEPT ![w] = now + Heartbeat]
    /\ UNCHANGED <<now, queued>>

-----------------------------------------------------------------------------
(***************************************************************************)
(* Holding a claim.  A statement on a locked row waits for the lock.       *)
(***************************************************************************)

owns_by_task_id(w) == entry[claim[w].task] # NULL

owns(w) ==
    /\ entry[claim[w].task] # NULL
    /\ entry[claim[w].task].token = claim[w].token

unlocked(w) == lock[claim[w].task] = NULL

call_heartbeat(w) ==
    /\ beat[w] = "waiting"
    /\ now >= due[w]
    /\ beat' = [beat EXCEPT ![w] = "sending"]
    /\ sample' = [sample EXCEPT ![w] = now]
    /\ UNCHANGED <<now, entry, queued, lock, pc, claim, due>>

heartbeat(w) ==
    /\ beat[w] = "sending"
    /\ unlocked(w)
    /\ \/ /\ owns(w)
          /\ entry' = [entry EXCEPT ![claim[w].task].last_heartbeat = sample[w]]
          /\ beat' = [beat EXCEPT ![w] = "waiting"]
          /\ due' = [due EXCEPT ![w] = now + Heartbeat]
       \/ /\ ~owns(w)
          /\ beat' = [beat EXCEPT ![w] = "lost"]
          /\ due' = [due EXCEPT ![w] = NULL]
          /\ UNCHANGED entry
    /\ sample' = [sample EXCEPT ![w] = NULL]
    /\ UNCHANGED <<now, queued, lock, pc, claim>>

\* The worker is done with its claim.
let_go(w) ==
    /\ pc' = [pc EXCEPT ![w] = "idle"]
    /\ claim' = [claim EXCEPT ![w] = NULL]
    /\ sample' = [sample EXCEPT ![w] = NULL]
    /\ beat' = [beat EXCEPT ![w] = "off"]
    /\ due' = [due EXCEPT ![w] = NULL]

free_row_keeping_heartbeat(row) == [row EXCEPT !.token = NULL]

free_row(row) == [row EXCEPT !.token = NULL, !.last_heartbeat = NULL]

\* Processing is over: the heartbeat thread is stopped and joined, which waits
\* for its open call, and a claim it has not found lost is disposed of.  Nothing
\* renews the lease any more while release or finish is on its way.
stop_heartbeat(w) ==
    /\ pc[w] = "holding"
    /\ beat[w] = "waiting"
    /\ pc' = [pc EXCEPT ![w] = "disposing"]
    /\ beat' = [beat EXCEPT ![w] = "off"]
    /\ due' = [due EXCEPT ![w] = NULL]
    /\ sample' = [sample EXCEPT ![w] = now]
    /\ UNCHANGED <<now, entry, queued, lock, claim>>

release(w) ==
    /\ pc[w] = "disposing"
    /\ unlocked(w)
    /\ entry' = IF owns(w)
                THEN [entry EXCEPT ![claim[w].task] = free_row(@)]
                ELSE entry
    /\ let_go(w)
    /\ UNCHANGED <<now, queued, lock>>

finish(w, ids) ==
    /\ pc[w] = "disposing"
    /\ unlocked(w)
    /\ LET rest == [entry EXCEPT ![claim[w].task] = NULL] IN
       IF owns(w)
       THEN /\ entry' = insert_queue_entries(rest, ids)
            /\ queued' = after_queued(without(queued, claim[w].task),
                                      {t \in ids : rest[t] = NULL})
       ELSE UNCHANGED <<entry, queued>>
    /\ let_go(w)
    /\ UNCHANGED <<now, lock>>

\* process() raised, the claim was lost, or the worker died, at any point.
abandon(w) ==
    /\ pc[w] # "idle"
    /\ let_go(w)
    /\ lock' = [t \in Task |-> IF lock[t] = w THEN NULL ELSE lock[t]]
    /\ UNCHANGED <<now, entry, queued>>

\* Time passes, but not past the point where a timely worker would be late.
overdue(w) ==
    \/ beat[w] = "waiting" /\ due[w] <= now
    \/ sample[w] # NULL /\ sample[w] + MaxDelay <= now

tick ==
    /\ now < MaxTime
    /\ \A w \in Timely : ~overdue(w)
    /\ now' = now + 1
    /\ UNCHANGED <<entry, queued, lock, pc, claim, sample, beat, due>>

Next ==
    \/ tick
    \/ \E ids \in SUBSET Task : enqueue(ids)
    \/ \E w \in Worker :
          \/ call_claim(w) \/ claim_select(w) \/ claim_finds_nothing(w)
          \/ claim_commit(w)
          \/ call_heartbeat(w) \/ heartbeat(w) \/ stop_heartbeat(w)
          \/ release(w) \/ \E ids \in SUBSET Task : finish(w, ids)
          \/ abandon(w)

Spec == Init /\ [][Next]_vars

-----------------------------------------------------------------------------

Q == INSTANCE ExecutionQueue WITH
        Absent <- "Absent", Unclaimed <- "Unclaimed",
        owner <- [t \in Task |-> IF entry[t] = NULL THEN "Absent"
                                 ELSE IF entry[t].token = NULL THEN "Unclaimed"
                                 ELSE entry[t].token],
        expired <- {t \in Task : /\ entry[t] # NULL
                                 /\ entry[t].token # NULL
                                 /\ entry[t].last_heartbeat <= now - Lease},
        held <- {<<claim[w].task, claim[w].token>> :
                    w \in {v \in Worker : claim[v] # NULL}}

\* The table with its clock, locks and late calls keeps the promises of the
\* interface: an entry changes hands only when its lease has really run out.
ImplementsExecutionQueue == Q!QueueSpec

\* A worker that keeps up never loses its claim: the lease is at least three
\* heartbeat intervals, so a heartbeat may be late by almost one interval
\* twice in a row, and the call that disposes of the claim, which nothing
\* renews any more, still finds its own token (_validate_timing, _heartbeat,
\* claim, _process_claim).
TimelyKeepsClaim ==
    \A w \in Timely : pc[w] \in {"holding", "disposing"} => owns(w)

=============================================================================
