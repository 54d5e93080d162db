-------------------- MODULE PostgresExecutionQueueProofs --------------------
(***************************************************************************)
(* Proofs about the queue table and its clock, for any tasks, workers and  *)
(* timing that the configuration accepts.                                  *)
(***************************************************************************)
EXTENDS PostgresExecutionQueue, SequenceTheorems, TLAPS

\* An order of rows: no empty batch, no row in two of them.
Order(order) ==
    /\ order \in Seq(SUBSET Task)
    /\ \A i \in DOMAIN order : order[i] # {}
    /\ \A i, j \in DOMAIN order : order[i] \cap order[j] # {} => i = j

Listed(order) == {t \in Task : \E i \in DOMAIN order : t \in order[i]}

\* What a worker carries fits the call it is in.
Callers ==
    \A w \in Worker :
        /\ claim[w] # NULL <=> pc[w] \in {"holding", "disposing"}
        /\ beat[w] # "off" <=> pc[w] = "holding"
        /\ beat[w] = "waiting" => due[w] # NULL
        /\ sample[w] # NULL <=> \/ pc[w] \in {"claiming", "selected", "disposing"}
                                \/ beat[w] = "sending"

\* A worker locks one row at a time, one it may take.
Locks ==
    /\ \A t, u \in Task : lock[t] # NULL /\ lock[t] = lock[u] => t = u
    /\ \A t \in Task : lock[t] # NULL => /\ pc[lock[t]] = "selected"
                                         /\ available(t, sample[lock[t]])

\* Readings and heartbeats were taken in the past.
Clock ==
    /\ \A t \in Task : entry[t] # NULL /\ entry[t].token # NULL =>
          entry[t].last_heartbeat <= now
    /\ \A w \in Worker : sample[w] # NULL => sample[w] <= now

\* A token names one claim.
Tokens ==
    /\ \A t, u \in Task :
          /\ entry[t] # NULL /\ entry[u] # NULL
          /\ entry[t].token # NULL /\ entry[t].token = entry[u].token
          => t = u
    /\ \A v, w \in Worker :
          claim[v] # NULL /\ claim[w] # NULL /\ claim[v].token = claim[w].token => v = w
    /\ \A t \in Task, w \in Worker :
          entry[t] # NULL /\ claim[w] # NULL /\ entry[t].token = claim[w].token
          => t = claim[w].task

last_heartbeat(w) == entry[claim[w].task].last_heartbeat

\* A heartbeat on its way to the table is not older than the one there.
Renewing ==
    \A w \in Worker :
        beat[w] = "sending" /\ owns(w) => last_heartbeat(w) <= sample[w]

\* A timely worker has its row, and disposes of it within a call of the
\* moment its next heartbeat was due, at the latest.
Timeliness ==
    \A w \in Timely :
        /\ sample[w] # NULL => now <= sample[w] + MaxDelay
        /\ pc[w] \in {"holding", "disposing"} => owns(w)
        /\ pc[w] = "holding" => beat[w] \in {"waiting", "sending"}
        /\ beat[w] = "waiting" =>
              now <= due[w] /\ due[w] <= last_heartbeat(w) + MaxDelay + Heartbeat
        /\ beat[w] = "sending" \/ pc[w] = "disposing" =>
              sample[w] <= last_heartbeat(w) + MaxDelay + Heartbeat

\* The inductive invariant.
PInv ==
    /\ TypeOK /\ Order(queued) /\ Callers /\ Locks
    /\ Clock /\ Tokens /\ Renewing /\ Timeliness

-----------------------------------------------------------------------------

\* Appending new rows keeps the order and adds exactly them.
LEMMA AfterQueued ==
    ASSUME NEW order, Order(order), NEW ids \in SUBSET Task,
           ids \cap Listed(order) = {}
    PROVE  /\ Order(after_queued(order, ids))
           /\ Listed(after_queued(order, ids)) = Listed(order) \cup ids
  <1>1. CASE ids = {}
    BY <1>1 DEF after_queued
  <1>2. CASE ids # {}
    <2> DEFINE longer == Append(order, ids)
    <2>1. /\ order \in Seq(SUBSET Task) /\ Len(order) \in Nat
          /\ DOMAIN order = 1..Len(order)
      BY DEF Order
    <2>2. /\ longer \in Seq(SUBSET Task) /\ DOMAIN longer = 1..(Len(order) + 1)
          /\ \A i \in 1..Len(order) : longer[i] = order[i]
          /\ longer[Len(order) + 1] = ids
      BY <2>1, AppendProperties, LenProperties
    <2>3. \A i \in 1..Len(order) : order[i] \subseteq Listed(order)
      BY <2>1 DEF Listed
    <2> HIDE DEF longer
    <2>4. Order(longer)
      BY <1>2, <2>1, <2>2, <2>3 DEF Order
    <2>5. Listed(longer) = Listed(order) \cup ids
      BY <2>1, <2>2 DEF Listed
    <2>6. after_queued(order, ids) = longer
      BY <1>2 DEF after_queued, longer
    <2>7. QED
      BY <2>4, <2>5, <2>6
  <1>3. QED
    BY <1>1, <1>2

\* Taking the i-th element out of a sequence.
LEMMA RemoveAtProperties ==
    ASSUME NEW S, NEW s \in Seq(S), NEW i \in 1..Len(s)
    PROVE  /\ RemoveAt(s, i) \in Seq(S)
           /\ Len(RemoveAt(s, i)) = Len(s) - 1
           /\ \A j \in 1..(Len(s) - 1) :
                  RemoveAt(s, i)[j] = s[IF j < i THEN j ELSE j + 1]
  <1> DEFINE left == SubSeq(s, 1, i - 1)
             right == SubSeq(s, i + 1, Len(s))
  <1>1. Len(s) \in Nat /\ \A j \in 1..Len(s) : s[j] \in S
    BY ElementOfSeq, LenProperties
  <1>2. /\ left \in Seq(S) /\ Len(left) = i - 1
        /\ \A j \in 1..(i - 1) : left[j] = s[j]
    BY <1>1, SubSeqProperties
  <1>3. /\ right \in Seq(S) /\ Len(right) = Len(s) - i
        /\ \A j \in 1..(Len(s) - i) : right[j] = s[i + j]
    BY <1>1, SubSeqProperties
  <1> HIDE DEF left, right
  <1>4. RemoveAt(s, i) = left \o right
    BY DEF RemoveAt, left, right
  <1>5. /\ left \o right \in Seq(S)
        /\ Len(left \o right) = Len(s) - 1
        /\ \A j \in 1..(Len(s) - 1) :
              (left \o right)[j] = IF j <= i - 1 THEN left[j] ELSE right[j - (i - 1)]
    <2>1. Len(left) + Len(right) = Len(s) - 1
      BY <1>1, <1>2, <1>3
    <2>2. /\ left \o right \in Seq(S)
          /\ Len(left \o right) = Len(left) + Len(right)
          /\ \A j \in 1..(Len(left) + Len(right)) : (left \o right)[j] =
                IF j <= Len(left) THEN left[j] ELSE right[j - Len(left)]
      BY <1>2, <1>3, ConcatProperties
    <2>3. QED
      BY <1>2, <2>1, <2>2
  <1>6. ASSUME NEW j \in 1..(Len(s) - 1)
        PROVE  (left \o right)[j] = s[IF j < i THEN j ELSE j + 1]
    <2>1. CASE j < i
      BY <1>1, <1>2, <1>5, <2>1
    <2>2. CASE ~(j < i)
      <3>1. j - (i - 1) \in 1..(Len(s) - i) /\ i + (j - (i - 1)) = j + 1
        BY <1>1, <2>2
      <3>2. right[j - (i - 1)] = s[j + 1]
        BY <1>3, <3>1
      <3>3. QED
        BY <1>1, <1>5, <2>2, <3>2
    <2>3. QED
      BY <2>1, <2>2
  <1>7. QED
    BY <1>4, <1>5, <1>6

\* Deleting a row keeps the order of the others.
LEMMA Without ==
    ASSUME NEW order, Order(order), NEW t \in Listed(order)
    PROVE  /\ Order(without(order, t))
           /\ Listed(without(order, t)) = Listed(order) \ {t}
  <1> DEFINE i == place(order, t)
             n == Len(order)
             rest == without(order, t)
  <1>1. /\ n \in Nat /\ DOMAIN order = 1..n /\ order \in Seq(SUBSET Task)
        /\ \A j \in 1..n : order[j] \in SUBSET Task
    BY ElementOfSeq DEF Order
  <1>2. i \in 1..n /\ t \in order[i]
    BY <1>1 DEF Listed, place
  <1>3. \A j \in 1..n : j # i => t \notin order[j]
    BY <1>1, <1>2 DEF Order
  <1>4. CASE order[i] = {t}
    <2>1. rest = RemoveAt(order, i)
      BY <1>4 DEF without
    <2> HIDE DEF i, rest
    <2>2. /\ rest \in Seq(SUBSET Task) /\ DOMAIN rest = 1..(n - 1)
          /\ \A j \in 1..(n - 1) : rest[j] = order[IF j < i THEN j ELSE j + 1]
      BY <1>1, <1>2, <2>1, RemoveAtProperties, LenProperties
    <2>3. Order(rest)
      <3>1. \A j \in 1..(n - 1) : (IF j < i THEN j ELSE j + 1) \in 1..n
        BY <1>1, <1>2
      <3>2. \A j \in 1..(n - 1) : rest[j] # {}
        BY <1>1, <2>2, <3>1 DEF Order
      <3>3. ASSUME NEW j \in 1..(n - 1), NEW k \in 1..(n - 1), rest[j] \cap rest[k] # {}
            PROVE  j = k
        <4>1. (IF j < i THEN j ELSE j + 1) = (IF k < i THEN k ELSE k + 1)
          BY <1>1, <2>2, <3>1, <3>3 DEF Order
        <4>2. QED
          BY <1>1, <1>2, <4>1
      <3>4. QED
        BY <2>2, <3>2, <3>3 DEF Order
    <2>4. \A u \in Task : (\E j \in 1..(n - 1) : u \in rest[j])
                          <=> u # t /\ \E j \in 1..n : u \in order[j]
      <3>1. ASSUME NEW j \in 1..(n - 1), NEW u \in rest[j]
            PROVE  u # t /\ \E k \in 1..n : u \in order[k]
        BY <1>1, <1>2, <1>3, <2>2, <3>1
      <3>2. ASSUME NEW j \in 1..n, NEW u \in order[j], u # t
            PROVE  \E k \in 1..(n - 1) : u \in rest[k]
        <4>1. j # i
          BY <1>4, <3>2
        <4>2. CASE j < i
          BY <1>1, <1>2, <2>2, <3>2, <4>2
        <4>3. CASE j > i
          <5>1. j - 1 \in 1..(n - 1) /\ rest[j - 1] = order[j]
            BY <1>1, <1>2, <2>2, <4>3
          <5>2. QED
            BY <3>2, <5>1
        <4>4. QED
          BY <1>2, <4>1, <4>2, <4>3
      <3>3. QED
        BY <3>1, <3>2
    <2>5. QED
      BY <1>1, <2>2, <2>3, <2>4 DEF Listed, rest
  <1>5. CASE order[i] # {t}
    <2>1. rest = [order EXCEPT ![i] = @ \ {t}]
      BY <1>5 DEF without
    <2> HIDE DEF i, rest
    <2>2. /\ rest \in Seq(SUBSET Task) /\ DOMAIN rest = 1..n
          /\ \A j \in 1..n : rest[j] = IF j = i THEN order[i] \ {t} ELSE order[j]
      <3>1. order[i] \ {t} \in SUBSET Task
        BY <1>1, <1>2
      <3>2. QED
        BY <1>1, <1>2, <2>1, <3>1, ExceptSeq
    <2>3. Order(rest)
      BY <1>1, <1>2, <1>5, <2>2 DEF Order
    <2>4. QED
      BY <1>1, <1>2, <1>3, <2>2, <2>3 DEF Listed, rest
  <1>6. QED
    BY <1>4, <1>5

-----------------------------------------------------------------------------
(***************************************************************************)
(* Types.                                                                  *)
(***************************************************************************)

Timing == Lease \in Nat /\ Heartbeat \in Nat /\ MaxDelay \in Nat /\ MaxTime \in Nat
          /\ Lease >= 3 * Heartbeat /\ MaxDelay < Heartbeat /\ Heartbeat > 0

\* What the configuration and punctuality say, as numbers.
LEMMA TimingFacts == Timing
  BY TimingAssumption, TimelyAssumption, BoundAssumption DEF Timing, timing_is_valid

\* The columns of a row that is not NULL.
LEMMA RowFacts ==
    ASSUME TypeOK, NEW t \in Task, entry[t] # NULL
    PROVE  /\ entry[t] \in Row
           /\ entry[t].token # NULL =>
                 entry[t].token \in Token /\ entry[t].last_heartbeat \in Time
  BY DEF TypeOK, Row

\* A claim names a task and a token.
LEMMA ClaimFacts ==
    ASSUME TypeOK, NEW w \in Worker, claim[w] # NULL
    PROVE  claim[w] \in Held /\ claim[w].task \in Task /\ claim[w].token \in Token
  BY DEF TypeOK, Held

\* uuid4: the token of a new claim is in no row and with no other worker.
LEMMA FreshToken ==
    ASSUME TypeOK, NEW w \in Worker, claim[w] = NULL
    PROVE  /\ fresh_token \in Token
           /\ \A t \in Task : entry[t] = NULL \/ entry[t].token # fresh_token
           /\ \A v \in Worker : claim[v] = NULL \/ claim[v].token # fresh_token
  <1> DEFINE rows == [t \in Task |-> IF entry[t] = NULL THEN NULL ELSE entry[t].token]
             claims == [v \in Worker \ {w} |->
                          IF claim[v] = NULL THEN NULL ELSE claim[v].token]
  <1>1. rows \in [Task -> Token \cup {NULL}]
    BY DEF TypeOK, Row
  <1>2. claims \in [Worker \ {w} -> Token \cup {NULL}]
    BY DEF TypeOK, Held
  <1>3. PICK k \in Token : /\ \A t \in Task : rows[t] # k
                           /\ \A v \in Worker \ {w} : claims[v] # k
    <2>1. \A r \in [Task -> Token \cup {NULL}],
             c \in [Worker \ {w} -> Token \cup {NULL}] :
            \E k \in Token : /\ \A t \in Task : r[t] # k
                             /\ \A v \in Worker \ {w} : c[v] # k
      BY TokenAssumption
    <2> HIDE DEF rows, claims
    <2>2. QED
      BY <1>1, <1>2, <2>1
  <1>4. /\ \A t \in Task : entry[t] = NULL \/ entry[t].token # k
        /\ \A v \in Worker : claim[v] = NULL \/ claim[v].token # k
    BY <1>3
  <1>5. QED
    BY <1>4 DEF fresh_token

\* Inserted rows are free; the others stay as they are.
LEMMA InsertedRows ==
    ASSUME NEW rows \in [Task -> Row \cup {NULL}], NEW ids \in SUBSET Task
    PROVE  /\ insert_queue_entries(rows, ids) \in [Task -> Row \cup {NULL}]
           /\ \A t \in Task : insert_queue_entries(rows, ids)[t] =
                 IF t \in ids /\ rows[t] = NULL THEN new_row ELSE rows[t]
           /\ new_row \in Row /\ new_row # NULL
           /\ new_row.token = NULL /\ new_row.last_heartbeat = NULL
  <1>1. new_row \in Row /\ new_row # NULL
    BY NoneAssumption DEF new_row, Row
  <1>2. QED
    BY <1>1 DEF insert_queue_entries, new_row

\* The rows in place and their order belong together.
RowsListed == Listed(queued) = {t \in Task : entry[t] # NULL}

\* TypeOK, the order of the rows included.
LEMMA TypesSplit ==
    TypeOK <=>
        /\ now \in Time
        /\ entry \in [Task -> Row \cup {NULL}]
        /\ \A t \in Task : entry[t] # NULL =>
              (entry[t].token = NULL <=> entry[t].last_heartbeat = NULL)
        /\ \A i \in DOMAIN queued : queued[i] # {}
        /\ RowsListed
        /\ lock \in [Task -> Worker \cup {NULL}]
        /\ pc \in [Worker -> {"idle", "claiming", "selected", "holding", "disposing"}]
        /\ claim \in [Worker -> Held \cup {NULL}]
        /\ sample \in [Worker -> Time \cup {NULL}]
        /\ beat \in [Worker -> {"off", "waiting", "sending", "lost"}]
        /\ due \in [Worker -> 0..(MaxTime + Heartbeat) \cup {NULL}]
  <1>1. RowsListed <=>
        \A t \in Task : entry[t] # NULL <=> \E i \in DOMAIN queued : t \in queued[i]
    BY DEF RowsListed, Listed
  <1>2. QED
    BY <1>1, Zenon DEF TypeOK

\* Writing a claim into a row.
written(row, k, x) == [row EXCEPT !.token = k, !.last_heartbeat = x]

\* The row after an UPDATE of token and heartbeat.
LEMMA RowWritten ==
    ASSUME NEW row \in Row, NEW k \in Token, NEW x \in Time
    PROVE  /\ written(row, k, x) \in Row
           /\ written(row, k, x).token = k
           /\ written(row, k, x).last_heartbeat = x
  <1> DEFINE with == [row EXCEPT !.token = k]
             new == [with EXCEPT !.last_heartbeat = x]
  <1>1. with \in Row /\ with.token = k
    BY DEF Row
  <1> HIDE DEF with
  <1>2. new \in Row /\ new.last_heartbeat = x /\ new.token = with.token
    BY <1>1 DEF Row
  <1>3. new = written(row, k, x)
    BY DEF with, Row, written
  <1> HIDE DEF new
  <1>4. QED
    BY <1>1, <1>2, <1>3

\* What a commit writes into the row the worker has selected.
commits(w, t, k) ==
    /\ lock[t] = w /\ entry[t] # NULL /\ available(t, sample[w])
    /\ sample[w] \in Time /\ sample[w] <= now /\ claim[w] = NULL
    /\ entry' \in [Task -> Row \cup {NULL}]
    /\ entry'[t].token = k /\ entry'[t].last_heartbeat = sample[w]
    /\ entry'[t] # NULL
    /\ \A u \in Task : u # t => entry'[u] = entry[u]
    /\ claim' = [claim EXCEPT ![w] = [task |-> t, token |-> k]]
    /\ [task |-> t, token |-> k] \in Held
    /\ lock' = [lock EXCEPT ![t] = NULL]
    /\ \A u \in Task : entry[u] = NULL \/ entry[u].token # k
    /\ \A v \in Worker : claim[v] = NULL \/ claim[v].token # k

\* The UPDATE that ends a claim writes one selected row with a fresh token.
LEMMA CommitFacts ==
    ASSUME PInv, NEW w \in Worker, claim_commit(w)
    PROVE  \E t \in Task, k \in Token : commits(w, t, k)
  <1> USE DEF PInv
  <1>1. pc[w] = "selected"
    BY DEF claim_commit
  <1>2. claim[w] = NULL /\ sample[w] # NULL
    BY <1>1 DEF Callers
  <1>3. sample[w] \in Time /\ sample[w] <= now
    BY <1>2 DEF TypeOK, Clock
  <1>4. PICK t \in Task :
          /\ lock[t] = w
          /\ entry' = [entry EXCEPT ![t].token = fresh_token,
                                    ![t].last_heartbeat = sample[w]]
          /\ claim' = [claim EXCEPT ![w] = [task |-> t, token |-> fresh_token]]
          /\ lock' = [lock EXCEPT ![t] = NULL]
    BY DEF claim_commit
  <1>5. available(t, sample[w])
    BY <1>4, NoneAssumption DEF Locks
  <1>6. entry[t] # NULL /\ entry[t] \in Row
    BY <1>5, RowFacts DEF available
  <1>7. PICK k \in Token : k = fresh_token
    BY <1>2, FreshToken
  <1>8. /\ \A u \in Task : entry[u] = NULL \/ entry[u].token # k
        /\ \A v \in Worker : claim[v] = NULL \/ claim[v].token # k
    BY <1>2, <1>7, FreshToken
  <1>9. PICK x \in Time : x = sample[w]
    BY <1>3
  <1>10. PICK old \in Row : old = entry[t]
    BY <1>6
  <1>11. /\ entry' \in [Task -> Row \cup {NULL}]
         /\ entry'[t].token = k /\ entry'[t].last_heartbeat = sample[w]
         /\ entry'[t] # NULL
         /\ \A u \in Task : u # t => entry'[u] = entry[u]
    <2>1. entry' = [entry EXCEPT ![t] = written(old, k, x)]
      BY <1>4, <1>7, <1>9, <1>10 DEF TypeOK, written
    <2>2. /\ written(old, k, x) \in Row
          /\ written(old, k, x).token = k /\ written(old, k, x).last_heartbeat = x
      BY RowWritten
    <2>3. QED
      BY <1>9, <2>1, <2>2, NoneAssumption DEF TypeOK
  <1>12. [task |-> t, token |-> k] \in Held
    BY DEF Held
  <1>13. QED
    BY <1>2, <1>3, <1>4, <1>5, <1>6, <1>7, <1>8, <1>11, <1>12 DEF commits

\* A heartbeat renews the row of the claim, or finds it lost.
LEMMA HeartbeatFacts ==
    ASSUME PInv, NEW w \in Worker, heartbeat(w)
    PROVE  \E t \in Task :
             /\ claim[w] # NULL /\ t = claim[w].task
             /\ sample[w] \in Time /\ sample[w] <= now
             /\ entry' \in [Task -> Row \cup {NULL}]
             /\ \A u \in Task : u # t => entry'[u] = entry[u]
             /\ owns(w) => /\ entry'[t] # NULL
                           /\ entry'[t].token = entry[t].token
                           /\ entry'[t].last_heartbeat = sample[w]
             /\ ~owns(w) => entry' = entry
  <1> USE DEF PInv
  <1>1. beat[w] = "sending" /\ claim[w] # NULL /\ sample[w] # NULL
    BY DEF heartbeat, Callers
  <1>2. sample[w] \in Time /\ sample[w] <= now
    BY <1>1 DEF TypeOK, Clock
  <1>3. PICK t \in Task : t = claim[w].task
    BY <1>1, ClaimFacts
  <1>4. CASE owns(w)
    <2>1. entry' = [entry EXCEPT ![t].last_heartbeat = sample[w]]
      BY <1>3, <1>4 DEF heartbeat
    <2>2. PICK row \in Row : row = entry[t] /\ row # NULL
      BY <1>3, <1>4, RowFacts DEF owns
    <2>3. PICK x \in Time : x = sample[w]
      BY <1>2
    <2>4. entry' = [entry EXCEPT ![t] = [row EXCEPT !.last_heartbeat = x]]
      BY <2>1, <2>2, <2>3 DEF TypeOK
    <2>5. /\ [row EXCEPT !.last_heartbeat = x] \in Row
          /\ [row EXCEPT !.last_heartbeat = x].token = row.token
          /\ [row EXCEPT !.last_heartbeat = x].last_heartbeat = x
      BY DEF Row
    <2>6. QED
      BY <1>1, <1>2, <1>3, <1>4, <2>2, <2>3, <2>4, <2>5, NoneAssumption DEF TypeOK
  <1>5. CASE ~owns(w)
    BY <1>1, <1>2, <1>3, <1>5 DEF heartbeat, TypeOK
  <1>6. QED
    BY <1>4, <1>5

\* Releasing frees the row of the claim, if the worker still owns it.
LEMMA ReleaseFacts ==
    ASSUME PInv, NEW w \in Worker, release(w)
    PROVE  \E t \in Task :
             /\ claim[w] # NULL /\ t = claim[w].task
             /\ entry' \in [Task -> Row \cup {NULL}]
             /\ \A u \in Task : u # t => entry'[u] = entry[u]
             /\ owns(w) => /\ entry'[t] # NULL
                           /\ entry'[t].token = NULL
                           /\ entry'[t].last_heartbeat = NULL
             /\ ~owns(w) => entry' = entry
  <1> USE DEF PInv
  <1>1. pc[w] = "disposing" /\ claim[w] # NULL
    BY DEF release, Callers
  <1>2. PICK t \in Task : t = claim[w].task
    BY <1>1, ClaimFacts
  <1>3. CASE owns(w)
    <2>1. PICK row \in Row : row = entry[t] /\ row # NULL
      BY <1>2, <1>3, RowFacts DEF owns
    <2>2. entry' = [entry EXCEPT ![t] = free_row(row)]
      BY <1>2, <1>3, <2>1 DEF release, TypeOK
    <2>3. /\ free_row(row) \in Row
          /\ free_row(row).token = NULL /\ free_row(row).last_heartbeat = NULL
      BY DEF Row, free_row
    <2>4. QED
      BY <1>1, <1>2, <1>3, <2>2, <2>3, NoneAssumption DEF TypeOK
  <1>4. CASE ~owns(w)
    BY <1>1, <1>2, <1>4 DEF release, TypeOK
  <1>5. QED
    BY <1>3, <1>4

\* Finishing deletes the row of the claim, if the worker still owns it, and
\* inserts the ids that have none.
LEMMA FinishFacts ==
    ASSUME PInv, NEW w \in Worker, NEW ids \in SUBSET Task, finish(w, ids)
    PROVE  \E t \in Task :
             /\ claim[w] # NULL /\ t = claim[w].task
             /\ new_row \in Row /\ new_row # NULL
             /\ new_row.token = NULL /\ new_row.last_heartbeat = NULL
             /\ entry' \in [Task -> Row \cup {NULL}]
             /\ owns(w) =>
                   /\ entry'[t] = IF t \in ids THEN new_row ELSE NULL
                   /\ \A u \in Task : u # t => entry'[u] =
                         IF u \in ids /\ entry[u] = NULL THEN new_row ELSE entry[u]
                   /\ Order(queued')
                   /\ RowsListed'
             /\ ~owns(w) => entry' = entry /\ queued' = queued
  <1> USE DEF PInv
  <1>1. pc[w] = "disposing" /\ claim[w] # NULL
    BY DEF finish, Callers
  <1>2. PICK t \in Task : t = claim[w].task
    BY <1>1, ClaimFacts
  <1>3. /\ new_row \in Row /\ new_row # NULL
        /\ new_row.token = NULL /\ new_row.last_heartbeat = NULL
    BY NoneAssumption DEF new_row, Row
  <1>4. CASE owns(w)
    <2> DEFINE rest == [entry EXCEPT ![t] = NULL]
               added == {u \in ids : rest[u] = NULL}
    <2>1. /\ entry' = insert_queue_entries(rest, ids)
          /\ queued' = after_queued(without(queued, t), added)
      BY <1>2, <1>4 DEF finish
    <2>2. /\ rest \in [Task -> Row \cup {NULL}] /\ rest[t] = NULL
          /\ \A u \in Task : u # t => rest[u] = entry[u]
      BY DEF TypeOK
    <2> HIDE DEF rest
    <2>3. /\ entry' \in [Task -> Row \cup {NULL}]
          /\ \A u \in Task : entry'[u] = IF u \in ids /\ rest[u] = NULL
                                         THEN new_row ELSE rest[u]
      BY <2>1, <2>2, InsertedRows
    <2>4. Listed(queued) = {u \in Task : entry[u] # NULL} /\ t \in Listed(queued)
      BY <1>2, <1>4, TypesSplit DEF RowsListed, owns
    <2>5. /\ Order(without(queued, t))
          /\ Listed(without(queued, t)) = Listed(queued) \ {t}
      BY <2>4, Without
    <2>6. PICK order : order = without(queued, t)
      OBVIOUS
    <2>7. added \in SUBSET Task /\ added \cap Listed(order) = {}
      BY <2>2, <2>4, <2>5, <2>6
    <2>8. /\ Order(queued')
          /\ Listed(queued') = Listed(order) \cup added
      BY <2>1, <2>5, <2>6, <2>7, AfterQueued
    <2>9. Listed(queued') = {u \in Task : entry'[u] # NULL}
      BY <1>3, <2>2, <2>3, <2>4, <2>5, <2>6, <2>8
    <2>10. RowsListed'
      BY <2>9 DEF RowsListed, Listed
    <2>11. QED
      BY <1>1, <1>2, <1>3, <1>4, <2>2, <2>3, <2>8, <2>10
  <1>5. CASE ~owns(w)
    BY <1>1, <1>2, <1>3, <1>5 DEF finish, TypeOK
  <1>6. QED
    BY <1>4, <1>5

\* Enqueueing inserts the ids that have no row.
LEMMA EnqueueFacts ==
    ASSUME PInv, NEW ids \in SUBSET Task, enqueue(ids)
    PROVE  /\ new_row \in Row /\ new_row # NULL
           /\ new_row.token = NULL /\ new_row.last_heartbeat = NULL
           /\ entry' \in [Task -> Row \cup {NULL}]
           /\ \A u \in Task : entry'[u] =
                 IF u \in ids /\ entry[u] = NULL THEN new_row ELSE entry[u]
           /\ Order(queued')
           /\ RowsListed'
  <1> USE DEF PInv
  <1>1. entry \in [Task -> Row \cup {NULL}]
    BY DEF TypeOK
  <1>2. /\ new_row \in Row /\ new_row # NULL
        /\ new_row.token = NULL /\ new_row.last_heartbeat = NULL
        /\ entry' \in [Task -> Row \cup {NULL}]
        /\ \A u \in Task : entry'[u] =
              IF u \in ids /\ entry[u] = NULL THEN new_row ELSE entry[u]
    BY <1>1, InsertedRows DEF enqueue
  <1> DEFINE added == {u \in ids : entry[u] = NULL}
  <1>3. Listed(queued) = {u \in Task : entry[u] # NULL}
    BY TypesSplit DEF RowsListed
  <1>4. added \in SUBSET Task /\ added \cap Listed(queued) = {}
    BY <1>3
  <1>5. Order(queued') /\ Listed(queued') = Listed(queued) \cup added
    BY <1>4, AfterQueued DEF enqueue
  <1>6. Listed(queued') = {u \in Task : entry'[u] # NULL}
    BY <1>2, <1>3, <1>5
  <1>7. RowsListed'
    BY <1>6 DEF RowsListed, Listed
  <1>8. QED
    BY <1>2, <1>5, <1>7

-----------------------------------------------------------------------------
(***************************************************************************)
(* Every step keeps each part of the invariant.                            *)
(***************************************************************************)

\* The steps of a worker that leave the rows alone.
quiet(w) ==
    \/ call_claim(w) \/ claim_select(w) \/ claim_finds_nothing(w)
    \/ call_heartbeat(w) \/ stop_heartbeat(w) \/ abandon(w)

\* The quiet steps of a worker leave clock, rows and order alone.
LEMMA QuietRows ==
    ASSUME NEW w \in Worker, quiet(w)
    PROVE  UNCHANGED <<now, entry, queued>>
  BY DEF quiet, call_claim, claim_select, claim_finds_nothing, call_heartbeat,
         stop_heartbeat, abandon

\* A worker lets go of its claim.
LEMMA LetGo ==
    ASSUME TypeOK, NEW w \in Worker, let_go(w)
    PROVE  /\ pc' \in [Worker -> {"idle", "claiming", "selected", "holding", "disposing"}]
           /\ claim' \in [Worker -> Held \cup {NULL}]
           /\ sample' \in [Worker -> Time \cup {NULL}]
           /\ beat' \in [Worker -> {"off", "waiting", "sending", "lost"}]
           /\ due' \in [Worker -> 0..(MaxTime + Heartbeat) \cup {NULL}]
           /\ pc'[w] = "idle" /\ claim'[w] = NULL /\ sample'[w] = NULL
           /\ beat'[w] = "off" /\ due'[w] = NULL
           /\ \A v \in Worker : v # w =>
                 /\ pc'[v] = pc[v] /\ claim'[v] = claim[v] /\ sample'[v] = sample[v]
                 /\ beat'[v] = beat[v] /\ due'[v] = due[v]
  BY DEF TypeOK, let_go

\* What the calls of a worker do to its own variables.
CallerTypes ==
    /\ lock \in [Task -> Worker \cup {NULL}]
    /\ pc \in [Worker -> {"idle", "claiming", "selected", "holding", "disposing"}]
    /\ claim \in [Worker -> Held \cup {NULL}]
    /\ sample \in [Worker -> Time \cup {NULL}]
    /\ beat \in [Worker -> {"off", "waiting", "sending", "lost"}]
    /\ due \in [Worker -> 0..(MaxTime + Heartbeat) \cup {NULL}]

\* The quiet steps keep what a caller holds well-typed.
LEMMA QuietTypes ==
    ASSUME PInv, NEW w \in Worker, quiet(w)
    PROVE  CallerTypes' /\ Callers'
  <1> USE DEF PInv
  <1>1. CASE call_claim(w)
    BY <1>1, NoneAssumption DEF call_claim, TypeOK, CallerTypes, Callers, Time
  <1>2. CASE claim_select(w)
    BY <1>2 DEF claim_select, selectable, TypeOK, CallerTypes, Callers
  <1>3. CASE claim_finds_nothing(w)
    BY <1>3 DEF claim_finds_nothing, TypeOK, CallerTypes, Callers
  <1>4. CASE call_heartbeat(w)
    BY <1>4, NoneAssumption DEF call_heartbeat, TypeOK, CallerTypes, Callers, Time
  <1>5. CASE stop_heartbeat(w)
    BY <1>5, NoneAssumption DEF stop_heartbeat, TypeOK, CallerTypes, Callers, Time
  <1>6. CASE abandon(w)
    <2>1. let_go(w) /\ lock' \in [Task -> Worker \cup {NULL}]
      BY <1>6 DEF abandon, TypeOK
    <2>2. QED
      BY <2>1, LetGo DEF CallerTypes, Callers
  <1>7. QED
    BY <1>1, <1>2, <1>3, <1>4, <1>5, <1>6 DEF quiet

\* So does the UPDATE that ends a claim.
LEMMA CommitTypes ==
    ASSUME PInv, NEW w \in Worker, claim_commit(w)
    PROVE  CallerTypes' /\ Callers'
  <1> USE DEF PInv
  <1>0. PICK t \in Task, k \in Token : commits(w, t, k)
    BY CommitFacts
  <1>1. PICK c \in Held : claim' = [claim EXCEPT ![w] = c]
    BY <1>0 DEF commits
  <1>2. now + Heartbeat \in 0..(MaxTime + Heartbeat) /\ now + Heartbeat # NULL
    BY TimingFacts, NoneAssumption DEF TypeOK, Time, Timing
  <1>3. PICK d \in 0..(MaxTime + Heartbeat) : d = now + Heartbeat /\ d # NULL
    BY <1>2
  <1>4. lock' \in [Task -> Worker \cup {NULL}]
    BY <1>0 DEF commits, TypeOK
  <1>5. /\ pc' = [pc EXCEPT ![w] = "holding"]
        /\ sample' = [sample EXCEPT ![w] = NULL]
        /\ beat' = [beat EXCEPT ![w] = "waiting"]
        /\ due' = [due EXCEPT ![w] = d]
    BY <1>3 DEF claim_commit
  <1>6. c # NULL
    BY NoneAssumption
  <1>7. CallerTypes'
    BY <1>1, <1>4, <1>5 DEF CallerTypes, TypeOK
  <1>8. Callers'
    BY <1>1, <1>3, <1>5, <1>6 DEF Callers, TypeOK
  <1>9. QED
    BY <1>7, <1>8

\* So does a heartbeat.
LEMMA HeartbeatTypes ==
    ASSUME PInv, NEW w \in Worker, heartbeat(w)
    PROVE  CallerTypes' /\ Callers'
  <1> USE DEF PInv
  <1>1. now + Heartbeat \in 0..(MaxTime + Heartbeat) /\ now + Heartbeat # NULL
    BY TimingFacts, NoneAssumption DEF TypeOK, Time, Timing
  <1>2. PICK d \in 0..(MaxTime + Heartbeat) : d = now + Heartbeat /\ d # NULL
    BY <1>1
  <1>3. /\ sample' = [sample EXCEPT ![w] = NULL] /\ UNCHANGED <<lock, pc, claim>>
        /\ beat[w] = "sending"
        /\ \/ beat' = [beat EXCEPT ![w] = "waiting"] /\ due' = [due EXCEPT ![w] = d]
           \/ beat' = [beat EXCEPT ![w] = "lost"] /\ due' = [due EXCEPT ![w] = NULL]
    BY <1>2 DEF heartbeat
  <1>4. CallerTypes'
    BY <1>3 DEF CallerTypes, TypeOK
  <1>5. Callers'
    BY <1>2, <1>3 DEF Callers, TypeOK
  <1>6. QED
    BY <1>4, <1>5

\* release and finish end with the worker letting go of its claim.
disposes(w) == release(w) \/ \E ids \in SUBSET Task : finish(w, ids)

\* So does what disposes of a claim.
LEMMA DisposeTypes ==
    ASSUME PInv, NEW w \in Worker, disposes(w)
    PROVE  CallerTypes' /\ Callers'
  <1>1. let_go(w) /\ UNCHANGED lock
    BY DEF disposes, release, finish
  <1>2. QED
    BY <1>1, LetGo DEF PInv, TypeOK, CallerTypes, Callers

\* The rows themselves.
LEMMA RowTypes ==
    ASSUME PInv, NEW w \in Worker,
           \/ claim_commit(w) \/ heartbeat(w) \/ disposes(w)
    PROVE  /\ entry' \in [Task -> Row \cup {NULL}]
           /\ \A t \in Task : entry'[t] # NULL =>
                 (entry'[t].token = NULL <=> entry'[t].last_heartbeat = NULL)
           /\ Order(queued')
           /\ RowsListed'
           /\ now' = now
  <1> USE DEF PInv
  <1>0. /\ \A t \in Task : entry[t] # NULL =>
              (entry[t].token = NULL <=> entry[t].last_heartbeat = NULL)
        /\ RowsListed
        /\ \A x \in Time : x # NULL
    BY TypesSplit, NoneAssumption DEF Time
  <1>1. CASE claim_commit(w)
    <2>0. PICK t \in Task, k \in Token : commits(w, t, k)
      BY <1>1, CommitFacts
    <2>1. /\ entry[t] # NULL /\ entry'[t] # NULL
          /\ sample[w] \in Time
          /\ entry' \in [Task -> Row \cup {NULL}]
          /\ entry'[t].token = k /\ entry'[t].last_heartbeat = sample[w]
          /\ \A u \in Task : u # t => entry'[u] = entry[u]
      BY <2>0 DEF commits
    <2>2. queued' = queued /\ now' = now
      BY <1>1 DEF claim_commit
    <2>3. \A u \in Task : entry'[u] # NULL <=> entry[u] # NULL
      BY <2>1
    <2>4. \A u \in Task : entry'[u] # NULL =>
              (entry'[u].token = NULL <=> entry'[u].last_heartbeat = NULL)
      BY <1>0, <2>1, NoneAssumption
    <2>5. RowsListed' /\ Order(queued')
      BY <1>0, <2>2, <2>3 DEF RowsListed, Listed
    <2>6. QED
      BY <2>1, <2>2, <2>4, <2>5
  <1>2. CASE heartbeat(w)
    <2>1. PICK t \in Task :
             /\ sample[w] \in Time
             /\ entry' \in [Task -> Row \cup {NULL}]
             /\ \A u \in Task : u # t => entry'[u] = entry[u]
             /\ claim[w] # NULL /\ t = claim[w].task
             /\ owns(w) => /\ entry'[t] # NULL
                           /\ entry'[t].token = entry[t].token
                           /\ entry'[t].last_heartbeat = sample[w]
             /\ ~owns(w) => entry' = entry
      BY <1>2, HeartbeatFacts
    <2>2. queued' = queued /\ now' = now
      BY <1>2 DEF heartbeat
    <2>3. owns(w) => entry[t] # NULL /\ entry[t].token # NULL
      BY <2>1, ClaimFacts, NoneAssumption DEF owns
    <2>4. \A u \in Task : entry'[u] # NULL <=> entry[u] # NULL
      BY <2>1, <2>3
    <2>5. \A u \in Task : entry'[u] # NULL =>
              (entry'[u].token = NULL <=> entry'[u].last_heartbeat = NULL)
      BY <1>0, <2>1, <2>3
    <2>6. RowsListed' /\ Order(queued')
      BY <1>0, <2>2, <2>4 DEF RowsListed, Listed
    <2>7. QED
      BY <2>1, <2>2, <2>5, <2>6
  <1>3. CASE release(w)
    <2>1. PICK t \in Task :
             /\ claim[w] # NULL /\ t = claim[w].task
             /\ entry' \in [Task -> Row \cup {NULL}]
             /\ \A u \in Task : u # t => entry'[u] = entry[u]
             /\ owns(w) => /\ entry'[t] # NULL
                           /\ entry'[t].token = NULL
                           /\ entry'[t].last_heartbeat = NULL
             /\ ~owns(w) => entry' = entry
      BY <1>3, ReleaseFacts
    <2>2. queued' = queued /\ now' = now
      BY <1>3 DEF release
    <2>3. owns(w) => entry[t] # NULL
      BY <2>1 DEF owns
    <2>4. \A u \in Task : entry'[u] # NULL <=> entry[u] # NULL
      BY <2>1, <2>3
    <2>5. \A u \in Task : entry'[u] # NULL =>
              (entry'[u].token = NULL <=> entry'[u].last_heartbeat = NULL)
      BY <1>0, <2>1
    <2>6. RowsListed' /\ Order(queued')
      BY <1>0, <2>2, <2>4 DEF RowsListed, Listed
    <2>7. QED
      BY <2>1, <2>2, <2>5, <2>6
  <1>4. ASSUME NEW ids \in SUBSET Task, finish(w, ids)
        PROVE  /\ entry' \in [Task -> Row \cup {NULL}]
               /\ \A t \in Task : entry'[t] # NULL =>
                     (entry'[t].token = NULL <=> entry'[t].last_heartbeat = NULL)
               /\ Order(queued')
               /\ RowsListed'
               /\ now' = now
    <2>1. PICK t \in Task :
             /\ new_row.token = NULL /\ new_row.last_heartbeat = NULL
             /\ entry' \in [Task -> Row \cup {NULL}]
             /\ owns(w) =>
                   /\ entry'[t] = IF t \in ids THEN new_row ELSE NULL
                   /\ \A u \in Task : u # t => entry'[u] =
                         IF u \in ids /\ entry[u] = NULL THEN new_row ELSE entry[u]
                   /\ Order(queued')
                   /\ RowsListed'
             /\ ~owns(w) => entry' = entry /\ queued' = queued
      BY <1>4, FinishFacts
    <2>2. now' = now
      BY <1>4 DEF finish
    <2>3. \A u \in Task : entry'[u] # NULL =>
              (entry'[u].token = NULL <=> entry'[u].last_heartbeat = NULL)
      BY <1>0, <2>1
    <2>4. ~owns(w) => RowsListed' /\ Order(queued')
      BY <1>0, <2>1 DEF RowsListed, Listed
    <2>5. QED
      BY <2>1, <2>2, <2>3, <2>4
  <1>5. QED
    BY <1>1, <1>2, <1>3, <1>4 DEF disposes

\* One step of any kind.
LEMMA TypesStep == PInv /\ Next => TypeOK' /\ Order(queued)' /\ Callers'
  <1> SUFFICES ASSUME PInv, Next PROVE TypeOK' /\ Order(queued)' /\ Callers'
    OBVIOUS
  <1> USE DEF PInv
  <1>0. /\ now \in Time
        /\ entry \in [Task -> Row \cup {NULL}]
        /\ \A t \in Task : entry[t] # NULL =>
              (entry[t].token = NULL <=> entry[t].last_heartbeat = NULL)
        /\ RowsListed
        /\ CallerTypes
    BY TypesSplit DEF CallerTypes
  <1>1. ASSUME now' \in Time,
               entry' \in [Task -> Row \cup {NULL}],
               \A t \in Task : entry'[t] # NULL =>
                  (entry'[t].token = NULL <=> entry'[t].last_heartbeat = NULL),
               Order(queued'), RowsListed', CallerTypes', Callers'
        PROVE  TypeOK' /\ Order(queued)' /\ Callers'
    <2>1. \A i \in DOMAIN queued' : queued'[i] # {}
      BY <1>1 DEF Order
    <2>2. TypeOK'
      BY <1>1, <2>1 DEF TypeOK, RowsListed, Listed, CallerTypes
    <2>3. QED
      BY <1>1, <2>2 DEF Order
  <1>2. CASE tick
    <2>1. now' \in Time /\ UNCHANGED <<entry, queued, lock, pc, claim, sample, beat, due>>
      BY <1>2, <1>0, TimingFacts DEF tick, Time, Timing
    <2>2. QED
      BY <1>0, <1>1, <2>1 DEF RowsListed, Listed, CallerTypes, Callers, Time
  <1>3. ASSUME NEW ids \in SUBSET Task, enqueue(ids)
        PROVE  TypeOK' /\ Order(queued)' /\ Callers'
    <2>1. UNCHANGED <<now, lock, pc, claim, sample, beat, due>>
      BY <1>3 DEF enqueue
    <2>2. \A t \in Task : entry'[t] # NULL =>
              (entry'[t].token = NULL <=> entry'[t].last_heartbeat = NULL)
      BY <1>0, <1>3, EnqueueFacts
    <2>3. QED
      BY <1>0, <1>1, <1>3, <2>1, <2>2, EnqueueFacts DEF CallerTypes, Callers, Time
  <1>4. ASSUME NEW w \in Worker, quiet(w)
        PROVE  TypeOK' /\ Order(queued)' /\ Callers'
    <2>1. UNCHANGED <<now, entry, queued>> /\ CallerTypes' /\ Callers'
      BY <1>4, QuietRows, QuietTypes
    <2>2. QED
      BY <1>0, <1>1, <2>1 DEF RowsListed, Listed
  <1>5. ASSUME NEW w \in Worker, claim_commit(w) \/ heartbeat(w) \/ disposes(w)
        PROVE  TypeOK' /\ Order(queued)' /\ Callers'
    <2>1. CallerTypes' /\ Callers'
      BY <1>5, CommitTypes, HeartbeatTypes, DisposeTypes
    <2>2. QED
      BY <1>0, <1>1, <1>5, <2>1, RowTypes
  <1>6. QED
    BY <1>2, <1>3, <1>4, <1>5 DEF Next, quiet, disposes

-----------------------------------------------------------------------------

\* A step of one worker leaves the others alone.
works(w) == quiet(w) \/ claim_commit(w) \/ heartbeat(w) \/ disposes(w)

\* Next split by who takes the step.
LEMMA NextByWhom ==
    Next => \/ tick
            \/ \E ids \in SUBSET Task : enqueue(ids)
            \/ \E w \in Worker : works(w)
  BY DEF Next, works, quiet, disposes

\* A step of one worker changes nothing another holds.
LEMMA OthersStay ==
    ASSUME TypeOK, NEW v \in Worker, works(v), NEW w \in Worker, w # v
    PROVE  /\ pc'[w] = pc[w] /\ claim'[w] = claim[w] /\ sample'[w] = sample[w]
           /\ beat'[w] = beat[w] /\ due'[w] = due[w]
           /\ now' = now
  <1> USE DEF TypeOK
  <1>1. CASE quiet(v)
    BY <1>1 DEF quiet, call_claim, claim_select, claim_finds_nothing, call_heartbeat,
                stop_heartbeat, abandon, let_go
  <1>2. CASE claim_commit(v)
    BY <1>2 DEF claim_commit
  <1>3. CASE heartbeat(v)
    BY <1>3 DEF heartbeat
  <1>4. CASE disposes(v)
    <2>1. let_go(v) /\ now' = now
      BY <1>4 DEF disposes, release, finish
    <2>2. QED
      BY <2>1, LetGo
  <1>5. QED
    BY <1>1, <1>2, <1>3, <1>4 DEF works

\* The ways in which a row changes.
renews(w, t) ==
    /\ heartbeat(w) /\ owns(w) /\ t = claim[w].task
    /\ entry'[t] # NULL /\ entry'[t].token = entry[t].token
    /\ entry'[t].last_heartbeat = sample[w]

gives_up(w, t) ==
    /\ disposes(w) /\ owns(w) /\ t = claim[w].task
    /\ entry'[t] = NULL \/ entry'[t].token = NULL

appears(t) == entry[t] = NULL /\ entry'[t] # NULL /\ entry'[t].token = NULL

changes(w, t) ==
    \/ entry'[t] = entry[t]
    \/ appears(t)
    \/ \E k \in Token : commits(w, t, k)
    \/ renews(w, t)
    \/ gives_up(w, t)

\* All the ways in which a step of a worker may change a row.
LEMMA RowChanges ==
    ASSUME PInv, NEW w \in Worker, works(w), NEW t \in Task
    PROVE  changes(w, t)
  <1>1. CASE quiet(w)
    BY <1>1, QuietRows DEF changes
  <1>2. CASE claim_commit(w)
    <2>1. PICK u \in Task, k \in Token : commits(w, u, k)
      BY <1>2, CommitFacts
    <2>2. CASE u = t
      BY <2>1, <2>2 DEF changes
    <2>3. CASE u # t
      BY <2>1, <2>3 DEF changes, commits
    <2>4. QED
      BY <2>2, <2>3
  <1>3. CASE heartbeat(w)
    <2>1. \/ entry'[t] = entry[t]
          \/ renews(w, t)
      BY <1>3, HeartbeatFacts DEF renews
    <2>2. QED
      BY <2>1 DEF changes
  <1>4. CASE release(w)
    <2>1. \/ entry'[t] = entry[t]
          \/ gives_up(w, t)
      BY <1>4, ReleaseFacts DEF gives_up, disposes
    <2>2. QED
      BY <2>1 DEF changes
  <1>5. ASSUME NEW ids \in SUBSET Task, finish(w, ids) PROVE changes(w, t)
    <2>1. \/ entry'[t] = entry[t]
          \/ gives_up(w, t)
          \/ appears(t)
      BY <1>5, FinishFacts DEF gives_up, disposes, appears
    <2>2. QED
      BY <2>1 DEF changes
  <1>6. QED
    BY <1>1, <1>2, <1>3, <1>4, <1>5 DEF works, disposes

\* enqueue only adds rows.
LEMMA EnqueueAdds ==
    ASSUME PInv, NEW ids \in SUBSET Task, enqueue(ids), NEW t \in Task
    PROVE  entry'[t] = entry[t] \/ appears(t)
  BY EnqueueFacts DEF appears

-----------------------------------------------------------------------------

\* Locks that nobody touches, on rows that nobody touches, of workers that
\* stand still.
LEMMA LocksKept ==
    ASSUME PInv,
           \A t \in Task : lock'[t] # NULL =>
               /\ lock'[t] = lock[t] /\ entry'[t] = entry[t]
               /\ pc'[lock[t]] = pc[lock[t]] /\ sample'[lock[t]] = sample[lock[t]]
    PROVE  Locks'
  <1> USE DEF PInv
  <1>1. \A t, u \in Task : lock'[t] # NULL /\ lock'[t] = lock'[u] => t = u
    BY DEF Locks
  <1>2. ASSUME NEW t \in Task, lock'[t] # NULL
        PROVE  pc'[lock'[t]] = "selected" /\ available(t, sample[lock[t]])'
    <2>1. /\ lock'[t] = lock[t] /\ entry'[t] = entry[t]
          /\ pc'[lock[t]] = pc[lock[t]] /\ sample'[lock[t]] = sample[lock[t]]
      BY <1>2
    <2>2. pc[lock[t]] = "selected" /\ available(t, sample[lock[t]])
      BY <1>2, <2>1 DEF Locks
    <2>3. QED
      BY <2>1, <2>2 DEF available, expiration
  <1>3. QED
    BY <1>1, <1>2 DEF Locks

\* No step loosens the relation of row locks to their holders.
LEMMA LocksStep == PInv /\ Next => Locks'
  <1> SUFFICES ASSUME PInv, Next PROVE Locks'
    OBVIOUS
  <1> USE DEF PInv
  <1>0. \A t \in Task : lock[t] # NULL =>
            lock[t] \in Worker /\ pc[lock[t]] = "selected" /\ entry[t] # NULL
    BY DEF Locks, TypeOK, available
  <1>1. CASE tick
    BY <1>1, LocksKept DEF tick
  <1>2. ASSUME NEW ids \in SUBSET Task, enqueue(ids) PROVE Locks'
    BY <1>0, <1>2, EnqueueAdds, LocksKept DEF enqueue, appears
  <1>3. ASSUME NEW w \in Worker, claim_select(w) PROVE Locks'
    <2>1. PICK t \in Task : t \in selectable(w) /\ lock' = [lock EXCEPT ![t] = w]
      BY <1>3 DEF claim_select, selectable
    <2>2. /\ pc[w] = "claiming" /\ pc' = [pc EXCEPT ![w] = "selected"]
          /\ UNCHANGED <<entry, sample>>
      BY <1>3 DEF claim_select
    <2>3. /\ lock'[t] = w /\ \A u \in Task : u # t => lock'[u] = lock[u]
          /\ \A u \in Task : lock[u] # w
          /\ pc'[w] = "selected" /\ \A v \in Worker : v # w => pc'[v] = pc[v]
      BY <1>0, <2>1, <2>2, NoneAssumption DEF TypeOK
    <2>6. available(t, sample[w])
      BY <2>1 DEF selectable
    <2>7. \A u, x \in Task : lock'[u] # NULL /\ lock'[u] = lock'[x] => u = x
      BY <2>3 DEF Locks
    <2>8. ASSUME NEW u \in Task, lock'[u] # NULL
          PROVE  pc'[lock'[u]] = "selected" /\ available(u, sample[lock[u]])'
      <3>1. CASE u = t
        BY <2>2, <2>3, <2>6, <3>1 DEF available, expiration
      <3>2. CASE u # t
        <4>1. /\ lock'[u] = lock[u] /\ lock[u] \in Worker /\ lock[u] # w
              /\ pc[lock[u]] = "selected" /\ available(u, sample[lock[u]])
          BY <1>0, <2>3, <2>8, <3>2 DEF Locks
        <4>2. QED
          BY <2>2, <2>3, <4>1 DEF available, expiration
      <3>3. QED
        BY <3>1, <3>2
    <2>9. QED
      BY <2>7, <2>8 DEF Locks
  <1>4. ASSUME NEW w \in Worker, quiet(w), ~claim_select(w) PROVE Locks'
    <2>1. UNCHANGED <<now, entry, queued>>
      BY <1>4, QuietRows
    <2>2. \A t \in Task : lock'[t] # NULL => lock'[t] = lock[t] /\ lock[t] # w
      <3>1. CASE abandon(w)
        BY <3>1 DEF abandon
      <3>2. CASE ~abandon(w)
        BY <1>0, <1>4, <3>2 DEF quiet, call_claim, claim_finds_nothing, call_heartbeat,
                                stop_heartbeat, Callers
      <3>3. QED
        BY <3>1, <3>2
    <2>3. \A v \in Worker : v # w => pc'[v] = pc[v] /\ sample'[v] = sample[v]
      BY <1>4, OthersStay DEF works
    <2>4. QED
      BY <1>0, <2>1, <2>2, <2>3, LocksKept
  <1>5. ASSUME NEW w \in Worker, claim_commit(w) PROVE Locks'
    <2>1. PICK t \in Task, k \in Token : commits(w, t, k)
      BY <1>5, CommitFacts
    <2>2. /\ lock[t] = w /\ lock' = [lock EXCEPT ![t] = NULL]
          /\ \A u \in Task : u # t => entry'[u] = entry[u]
      BY <2>1 DEF commits
    <2>3. \A u \in Task : lock'[u] # NULL =>
              u # t /\ lock'[u] = lock[u] /\ lock[u] # w
      BY <2>2, NoneAssumption DEF Locks, TypeOK
    <2>4. \A v \in Worker : v # w => pc'[v] = pc[v] /\ sample'[v] = sample[v]
      BY <1>5, OthersStay DEF works
    <2>5. QED
      BY <1>0, <2>2, <2>3, <2>4, LocksKept
  <1>6. ASSUME NEW w \in Worker, heartbeat(w) \/ disposes(w) PROVE Locks'
    <2>1. lock' = lock /\ lock[claim[w].task] = NULL /\ pc[w] # "selected"
      BY <1>6 DEF heartbeat, disposes, release, finish, unlocked, Callers
    <2>2. \A u \in Task : lock[u] # NULL => entry'[u] = entry[u]
      <3>1. \A u \in Task : lock[u] # NULL => ~renews(w, u) /\ ~gives_up(w, u)
        BY <2>1 DEF renews, gives_up
      <3>2. \A u \in Task : lock[u] # NULL => ~appears(u)
        BY <1>0 DEF appears
      <3>3. \A u \in Task, k \in Token : ~commits(w, u, k)
        BY <1>0, <2>1, NoneAssumption DEF commits
      <3>4. \A u \in Task : changes(w, u)
        BY <1>6, RowChanges DEF works
      <3>5. QED
        BY <3>1, <3>2, <3>3, <3>4 DEF changes
    <2>3. \A v \in Worker : v # w => pc'[v] = pc[v] /\ sample'[v] = sample[v]
      BY <1>6, OthersStay DEF works
    <2>4. QED
      BY <1>0, <2>1, <2>2, <2>3, LocksKept
  <1>7. QED
    BY <1>1, <1>2, <1>3, <1>4, <1>5, <1>6, NextByWhom DEF works

-----------------------------------------------------------------------------

\* No step makes a reading lie in the future.
LEMMA ClockStep == PInv /\ Next => Clock'
  <1> SUFFICES ASSUME PInv, Next PROVE Clock'
    OBVIOUS
  <1> USE DEF PInv
  <1>0. /\ \A t \in Task : entry[t] # NULL /\ entry[t].token # NULL =>
              entry[t].last_heartbeat \in Time /\ entry[t].last_heartbeat <= now
        /\ \A w \in Worker : sample[w] # NULL => sample[w] \in Time /\ sample[w] <= now
        /\ now \in Int
    BY RowFacts DEF Clock, TypeOK, Time
  <1>1. CASE tick
    BY <1>0, <1>1 DEF tick, Clock, Time
  <1>2. ASSUME NEW ids \in SUBSET Task, enqueue(ids) PROVE Clock'
    BY <1>0, <1>2, EnqueueAdds DEF enqueue, appears, Clock
  <1>3. ASSUME NEW w \in Worker, works(w) PROVE Clock'
    <2>1. now' = now
      BY <1>3, QuietRows, RowTypes DEF works
    <2>2. \A v \in Worker : sample'[v] # NULL => sample'[v] <= now
      <3>1. \A v \in Worker : v # w => sample'[v] = sample[v]
        BY <1>3, OthersStay
      <3>2. sample'[w] # NULL => sample'[w] = now \/ sample'[w] = sample[w]
        <4>1. CASE quiet(w)
          BY <4>1 DEF quiet, call_claim, claim_select, claim_finds_nothing,
                      call_heartbeat, stop_heartbeat, abandon, let_go, TypeOK
        <4>2. CASE claim_commit(w) \/ heartbeat(w)
          BY <4>2 DEF claim_commit, heartbeat, TypeOK
        <4>3. CASE disposes(w)
          BY <4>3 DEF disposes, release, finish, let_go, TypeOK
        <4>4. QED
          BY <1>3, <4>1, <4>2, <4>3 DEF works
      <3>3. QED
        BY <1>0, <3>1, <3>2
    <2>3. ASSUME NEW t \in Task, entry'[t] # NULL, entry'[t].token # NULL
          PROVE  entry'[t].last_heartbeat <= now
      <3>1. CASE entry'[t] = entry[t]
        BY <1>0, <2>3, <3>1
      <3>2. CASE \E k \in Token : commits(w, t, k)
        BY <3>2 DEF commits
      <3>3. CASE renews(w, t)
        <4>1. sample[w] # NULL
          BY <3>3 DEF renews, heartbeat, Callers
        <4>2. QED
          BY <1>0, <3>3, <4>1 DEF renews
      <3>4. ~gives_up(w, t) /\ ~appears(t)
        BY <2>3 DEF gives_up, appears
      <3>5. QED
        BY <1>3, <3>1, <3>2, <3>3, <3>4, RowChanges DEF changes
    <2>4. QED
      BY <2>1, <2>2, <2>3 DEF Clock
  <1>4. QED
    BY <1>1, <1>2, <1>3, NextByWhom

\* Unless a claim is written, tokens only disappear.
LEMMA TokensKept ==
    ASSUME PInv,
           \A t \in Task : entry'[t] # NULL /\ entry'[t].token # NULL =>
               entry[t] # NULL /\ entry'[t].token = entry[t].token,
           \A w \in Worker : claim'[w] # NULL => claim'[w] = claim[w]
    PROVE  Tokens'
  <1> USE DEF PInv
  <1>1. \A w \in Worker : claim[w] # NULL => claim[w].token # NULL
    BY ClaimFacts, NoneAssumption
  <1>2. QED
    BY <1>1 DEF Tokens

\* No step gives one token to two claims.
LEMMA TokensStep == PInv /\ Next => Tokens'
  <1> SUFFICES ASSUME PInv, Next PROVE Tokens'
    OBVIOUS
  <1> USE DEF PInv
  <1>1. CASE tick
    BY <1>1, TokensKept DEF tick
  <1>2. ASSUME NEW ids \in SUBSET Task, enqueue(ids) PROVE Tokens'
    BY <1>2, EnqueueAdds, TokensKept DEF enqueue, appears
  <1>3. ASSUME NEW w \in Worker, works(w), ~claim_commit(w) PROVE Tokens'
    <2>1. \A v \in Worker : claim'[v] # NULL => claim'[v] = claim[v]
      <3>1. \A v \in Worker : v # w => claim'[v] = claim[v]
        BY <1>3, OthersStay
      <3>2. claim'[w] = claim[w] \/ claim'[w] = NULL
        BY <1>3 DEF works, quiet, call_claim, claim_select, claim_finds_nothing,
                    call_heartbeat, stop_heartbeat, abandon, heartbeat,
                    disposes, release, finish, let_go, TypeOK
      <3>3. QED
        BY <3>1, <3>2
    <2>2. ASSUME NEW t \in Task, entry'[t] # NULL, entry'[t].token # NULL
          PROVE  entry[t] # NULL /\ entry'[t].token = entry[t].token
      <3>1. \A k \in Token : ~commits(w, t, k)
        <4>2. ASSUME NEW k \in Token, commits(w, t, k) PROVE FALSE
          <5>1. lock[t] = w /\ lock'[t] = NULL /\ claim'[w] = [task |-> t, token |-> k]
            BY <4>2 DEF commits, TypeOK
          <5>2. claim'[w] # NULL /\ claim[w] = NULL
            BY <4>2, <5>1, NoneAssumption DEF commits
          <5>3. QED
            BY <2>1, <5>2
        <4>3. QED
          BY <4>2
      <3>2. ~gives_up(w, t) /\ ~appears(t)
        BY <2>2 DEF gives_up, appears
      <3>3. entry'[t] = entry[t] \/ renews(w, t)
        BY <1>3, <3>1, <3>2, RowChanges DEF changes
      <3>4. QED
        BY <2>2, <3>3 DEF renews, owns
    <2>3. QED
      BY <2>1, <2>2, TokensKept
  <1>4. ASSUME NEW w \in Worker, claim_commit(w) PROVE Tokens'
    <2>1. PICK t \in Task, k \in Token : commits(w, t, k)
      BY <1>4, CommitFacts
    <2>2. /\ entry'[t] # NULL /\ entry'[t].token = k
          /\ \A u \in Task : u # t => entry'[u] = entry[u]
          /\ claim'[w].task = t /\ claim'[w].token = k
          /\ \A v \in Worker : v # w => claim'[v] = claim[v]
          /\ \A u \in Task : entry[u] = NULL \/ entry[u].token # k
          /\ \A v \in Worker : claim[v] = NULL \/ claim[v].token # k
      BY <2>1 DEF commits, TypeOK
    <2>3. QED
      BY <2>2 DEF Tokens
  <1>5. QED
    BY <1>1, <1>2, <1>3, <1>4, NextByWhom DEF works

-----------------------------------------------------------------------------

\* A worker whose claim still stands has its row as it was, unless it renewed
\* it itself: whatever the others do, they do to their own rows.
LEMMA OwnRowKept ==
    ASSUME PInv, NEW v \in Worker, works(v), NEW w \in Worker,
           claim[w] # NULL, claim'[w] = claim[w],
           NEW t \in Task, t = claim[w].task,
           entry'[t] # NULL, entry'[t].token = claim[w].token
    PROVE  entry'[t] = entry[t] \/ (v = w /\ renews(w, t))
  <1> USE DEF PInv
  <1>1. claim[w].token \in Token
    BY ClaimFacts
  <1>2. ~appears(t) /\ ~gives_up(v, t)
    BY <1>1, NoneAssumption DEF appears, gives_up
  <1>3. \A k \in Token : ~commits(v, t, k)
    BY DEF commits
  <1>4. ASSUME renews(v, t) PROVE v = w
    BY <1>4 DEF renews, owns, Tokens, heartbeat, Callers
  <1>5. QED
    BY <1>2, <1>3, <1>4, RowChanges DEF changes

\* Renewing, with the definitions of owns and last_heartbeat expanded.
RenewingOf(w) ==
    beat[w] = "sending" /\ entry[claim[w].task] # NULL
        /\ entry[claim[w].task].token = claim[w].token
    => entry[claim[w].task].last_heartbeat <= sample[w]

\* No heartbeat under way becomes older than the one in the table.
LEMMA RenewingStep == PInv /\ Next => Renewing'
  <1> SUFFICES ASSUME PInv, Next, NEW w \in Worker PROVE RenewingOf(w)'
    BY DEF Renewing, RenewingOf, owns, last_heartbeat
  <1> USE DEF PInv
  <1>0. RenewingOf(w)
    BY DEF Renewing, RenewingOf, owns, last_heartbeat
  <1>1. CASE tick
    BY <1>0, <1>1 DEF tick, RenewingOf
  <1>3. ASSUME NEW ids \in SUBSET Task, enqueue(ids) PROVE RenewingOf(w)'
    <2>1. CASE beat[w] = "sending"
      <3>1. claim[w] # NULL /\ claim'[w] = claim[w]
        BY <1>3, <2>1 DEF enqueue, Callers
      <3>2. PICK t \in Task : t = claim[w].task
        BY <3>1, ClaimFacts
      <3>3. claim[w].token # NULL
        BY <3>1, ClaimFacts, NoneAssumption
      <3>4. entry'[t] = entry[t] \/ entry'[t].token = NULL
        BY <1>3, EnqueueAdds DEF appears
      <3>5. UNCHANGED <<beat, sample, claim>>
        BY <1>3 DEF enqueue
      <3>6. QED
        BY <1>0, <3>1, <3>2, <3>3, <3>4, <3>5 DEF RenewingOf
    <2>2. CASE beat[w] # "sending"
      BY <1>3, <2>2 DEF enqueue, RenewingOf
    <2>3. QED
      BY <2>1, <2>2
  <1>4. ASSUME NEW v \in Worker, works(v), v # w PROVE RenewingOf(w)'
    <2>1. beat'[w] = beat[w] /\ claim'[w] = claim[w] /\ sample'[w] = sample[w]
      BY <1>4, OthersStay
    <2>2. CASE beat[w] = "sending"
      <3>1. claim[w] # NULL
        BY <2>2 DEF Callers
      <3>2. PICK t \in Task : t = claim[w].task
        BY <3>1, ClaimFacts
      <3>3. QED
        BY <1>0, <1>4, <2>1, <3>1, <3>2, OwnRowKept DEF RenewingOf
    <2>3. CASE beat[w] # "sending"
      BY <2>1, <2>3 DEF RenewingOf
    <2>4. QED
      BY <2>2, <2>3
  <1>5. ASSUME call_heartbeat(w) PROVE RenewingOf(w)'
    <2>1. /\ sample'[w] = now /\ UNCHANGED <<entry, claim>> /\ claim[w] # NULL
      BY <1>5 DEF call_heartbeat, TypeOK, Callers
    <2>2. claim[w].task \in Task /\ claim[w].token # NULL
      BY <2>1, ClaimFacts, NoneAssumption
    <2>3. QED
      BY <2>1, <2>2 DEF RenewingOf, Clock
  <1>6. ASSUME works(w), ~call_heartbeat(w) PROVE beat'[w] # "sending"
    <2>1. CASE quiet(w)
      BY <1>6, <2>1 DEF quiet, call_claim, claim_select, claim_finds_nothing,
                        stop_heartbeat, abandon, let_go, Callers, TypeOK
    <2>2. CASE claim_commit(w) \/ heartbeat(w)
      BY <2>2 DEF claim_commit, heartbeat, TypeOK
    <2>3. CASE disposes(w)
      BY <2>3 DEF disposes, release, finish, let_go, TypeOK
    <2>4. QED
      BY <1>6, <2>1, <2>2, <2>3 DEF works
  <1>7. QED
    BY <1>1, <1>3, <1>4, <1>5, <1>6, NextByWhom DEF RenewingOf

-----------------------------------------------------------------------------
(***************************************************************************)
(* A worker that keeps up.                                                 *)
(***************************************************************************)

\* Timeliness of one worker, with t for its task.
TimelyOf(w) ==
    /\ sample[w] # NULL => now <= sample[w] + MaxDelay
    /\ pc[w] \in {"holding", "disposing"} =>
          /\ entry[claim[w].task] # NULL
          /\ entry[claim[w].task].token = claim[w].token
    /\ pc[w] = "holding" => beat[w] \in {"waiting", "sending"}
    /\ beat[w] = "waiting" =>
          /\ now <= due[w]
          /\ due[w] <= entry[claim[w].task].last_heartbeat + MaxDelay + Heartbeat
    /\ beat[w] = "sending" \/ pc[w] = "disposing" =>
          sample[w] <= entry[claim[w].task].last_heartbeat + MaxDelay + Heartbeat

\* The timing of punctual workers, worker by worker.
LEMMA TimelyIsTimelyOf ==
    Timeliness <=> \A w \in Timely : TimelyOf(w)
  BY DEF Timeliness, TimelyOf, owns, last_heartbeat

\* While it has a claim, its lease runs: a heartbeat interval and two delays
\* are less than a lease.
LEMMA TimelyLease ==
    ASSUME PInv, NEW w \in Timely, pc[w] \in {"holding", "disposing"}
    PROVE  \E t \in Task :
             /\ w \in Worker /\ claim[w] # NULL /\ t = claim[w].task
             /\ claim[w].token \in Token
             /\ entry[t] # NULL /\ entry[t].token = claim[w].token
             /\ entry[t].last_heartbeat \in Time
             /\ now < entry[t].last_heartbeat + Lease
  <1> USE DEF PInv
  <1>1. w \in Worker /\ claim[w] # NULL /\ TimelyOf(w)
    BY TimelyAssumption, TimelyIsTimelyOf DEF Callers
  <1>2. PICK t \in Task : t = claim[w].task /\ claim[w].token \in Token
    BY <1>1, ClaimFacts
  <1>3. entry[t] # NULL /\ entry[t].token = claim[w].token
    BY <1>1, <1>2 DEF TimelyOf
  <1>4. entry[t].last_heartbeat \in Time
    BY <1>2, <1>3, RowFacts, NoneAssumption
  <1>5. PICK x \in Int : x = entry[t].last_heartbeat
    BY <1>4 DEF Time
  <1>6. now \in Int /\ Timing
    BY TimingFacts DEF TypeOK, Time
  <1>7. now < x + Lease
    <2>1. CASE beat[w] = "waiting"
      <3>1. due[w] \in Int /\ now <= due[w] /\ due[w] <= x + MaxDelay + Heartbeat
        BY <1>1, <1>2, <1>5, <2>1 DEF TimelyOf, Callers, TypeOK
      <3>2. QED
        BY <1>6, <3>1 DEF Timing
    <2>2. CASE beat[w] = "sending" \/ pc[w] = "disposing"
      <3>1. /\ sample[w] \in Int /\ now <= sample[w] + MaxDelay
            /\ sample[w] <= x + MaxDelay + Heartbeat
        BY <1>1, <1>2, <1>5, <2>2 DEF TimelyOf, Callers, TypeOK, Time
      <3>2. QED
        BY <1>6, <3>1 DEF Timing
    <2>3. QED
      BY <1>1, <2>1, <2>2 DEF TimelyOf
  <1>8. QED
    BY <1>1, <1>2, <1>3, <1>4, <1>5, <1>7

\* So nobody takes its row, and only the worker itself changes it.
LEMMA TimelyRowKept ==
    ASSUME PInv, NEW v \in Worker, works(v),
           NEW w \in Timely, pc[w] \in {"holding", "disposing"},
           NEW t \in Task, t = claim[w].task
    PROVE  \/ entry'[t] = entry[t]
           \/ v = w /\ (renews(w, t) \/ gives_up(w, t))
  <1> USE DEF PInv
  <1>1. /\ w \in Worker /\ claim[w] # NULL
        /\ claim[w].token \in Token
        /\ entry[t] # NULL /\ entry[t].token = claim[w].token
        /\ entry[t].last_heartbeat \in Time
        /\ now < entry[t].last_heartbeat + Lease
    BY TimelyLease
  <1>2. ~appears(t)
    BY <1>1 DEF appears
  <1>3. ASSUME NEW k \in Token, commits(v, t, k) PROVE FALSE
    <2>1. available(t, sample[v]) /\ sample[v] \in Time /\ sample[v] <= now
      BY <1>3 DEF commits
    <2>2. entry[t].last_heartbeat <= sample[v] - Lease
      BY <1>1, <2>1, NoneAssumption DEF available, expiration
    <2>3. PICK x \in Int, y \in Int, z \in Int :
              x = entry[t].last_heartbeat /\ y = sample[v] /\ z = now
      BY <1>1, <2>1 DEF Time, TypeOK
    <2>4. x <= y - Lease /\ y <= z /\ z < x + Lease
      BY <1>1, <2>1, <2>2, <2>3
    <2>5. QED
      BY <2>4, TimingFacts DEF Timing
  <1>4. ASSUME renews(v, t) \/ gives_up(v, t) PROVE v = w
    <2>1. owns(v) /\ t = claim[v].task
      BY <1>4 DEF renews, gives_up
    <2>2. claim[v] # NULL
      BY <1>4 DEF renews, gives_up, heartbeat, disposes, release, finish, Callers
    <2>3. QED
      BY <1>1, <2>1, <2>2 DEF owns, Tokens
  <1>5. QED
    BY <1>2, <1>3, <1>4, RowChanges DEF changes

\* No step makes the heartbeat of a punctual worker too old.
LEMMA TimelyStep == PInv /\ Next => Timeliness'
  <1> SUFFICES ASSUME PInv, Next, NEW w \in Timely PROVE TimelyOf(w)'
    BY TimelyIsTimelyOf DEF TimelyOf, Timeliness, owns, last_heartbeat
  <1> USE DEF PInv
  <1>0. TimelyOf(w) /\ w \in Worker
    BY TimelyIsTimelyOf, TimelyAssumption
  <1>a. Timing /\ now \in Int
    BY TimingFacts DEF TypeOK, Time
  <1>1. CASE tick
    <2>1. /\ now' = now + 1 /\ ~overdue(w)
          /\ UNCHANGED <<entry, pc, claim, sample, beat, due>>
      BY <1>1 DEF tick
    <2>2. sample[w] # NULL => sample[w] \in Int /\ now + 1 <= sample[w] + MaxDelay
      BY <1>0, <1>a, <2>1 DEF overdue, TypeOK, Time, Timing
    <2>3. beat[w] = "waiting" => due[w] \in Int /\ now + 1 <= due[w]
      BY <1>0, <1>a, <2>1 DEF overdue, TypeOK, Callers
    <2>4. QED
      BY <1>0, <2>1, <2>2, <2>3 DEF TimelyOf
  <1>2. ASSUME NEW ids \in SUBSET Task, enqueue(ids) PROVE TimelyOf(w)'
    <2>1. UNCHANGED <<now, pc, claim, sample, beat, due>>
      BY <1>2 DEF enqueue
    <2>2. CASE pc[w] \in {"holding", "disposing"}
      <3>1. PICK t \in Task : t = claim[w].task /\ entry[t] # NULL
        BY <2>2, TimelyLease
      <3>2. entry'[t] = entry[t]
        BY <1>2, <3>1, EnqueueAdds DEF appears
      <3>3. QED
        BY <1>0, <2>1, <3>1, <3>2 DEF TimelyOf
    <2>3. CASE pc[w] \notin {"holding", "disposing"}
      <3>1. beat[w] = "off"
        BY <1>0, <2>3 DEF Callers
      <3>2. QED
        BY <1>0, <2>1, <2>3, <3>1 DEF TimelyOf
    <2>4. QED
      BY <2>2, <2>3
  <1>3. ASSUME NEW v \in Worker, works(v), v # w PROVE TimelyOf(w)'
    <2>1. /\ pc'[w] = pc[w] /\ claim'[w] = claim[w] /\ sample'[w] = sample[w]
          /\ beat'[w] = beat[w] /\ due'[w] = due[w] /\ now' = now
      BY <1>0, <1>3, OthersStay
    <2>2. CASE pc[w] \in {"holding", "disposing"}
      <3>1. PICK t \in Task : t = claim[w].task
        BY <2>2, TimelyLease
      <3>2. entry'[t] = entry[t]
        BY <1>3, <2>2, <3>1, TimelyRowKept
      <3>3. QED
        BY <1>0, <2>1, <3>1, <3>2 DEF TimelyOf
    <2>3. CASE pc[w] \notin {"holding", "disposing"}
      <3>1. beat[w] = "off"
        BY <1>0, <2>3 DEF Callers
      <3>2. QED
        BY <1>0, <2>1, <2>3, <3>1 DEF TimelyOf
    <2>4. QED
      BY <2>2, <2>3
  <1>4. CASE call_claim(w) \/ claim_select(w)
    <2>1. /\ pc'[w] \in {"claiming", "selected"} /\ beat'[w] = beat[w] /\ beat[w] = "off"
          /\ now' = now
          /\ sample'[w] = now \/ sample'[w] = sample[w]
      BY <1>0, <1>4 DEF call_claim, claim_select, TypeOK, Callers
    <2>2. QED
      BY <1>0, <1>a, <2>1 DEF TimelyOf, Timing
  <1>5. CASE claim_finds_nothing(w) \/ abandon(w) \/ disposes(w)
    <2>1. pc'[w] = "idle" /\ sample'[w] = NULL /\ beat'[w] = "off"
      <3>1. CASE claim_finds_nothing(w)
        BY <1>0, <3>1 DEF claim_finds_nothing, TypeOK, Callers
      <3>2. CASE abandon(w) \/ disposes(w)
        BY <1>0, <3>2, LetGo DEF abandon, disposes, release, finish
      <3>3. QED
        BY <1>5, <3>1, <3>2
    <2>2. QED
      BY <2>1 DEF TimelyOf
  <1>6. CASE claim_commit(w)
    <2>1. PICK t \in Task, k \in Token : commits(w, t, k)
      BY <1>0, <1>6, CommitFacts
    <2>2. /\ claim'[w].task = t /\ claim'[w].token = k
          /\ entry'[t] # NULL /\ entry'[t].token = k
          /\ entry'[t].last_heartbeat = sample[w]
          /\ sample[w] \in Time
      BY <1>0, <2>1 DEF commits, TypeOK
    <2>3. /\ pc'[w] = "holding" /\ beat'[w] = "waiting" /\ sample'[w] = NULL
          /\ due'[w] = now + Heartbeat /\ now' = now
      BY <1>0, <1>6 DEF claim_commit, TypeOK
    <2>4. sample[w] # NULL /\ sample[w] \in Int /\ now <= sample[w] + MaxDelay
      BY <1>0, <2>2, NoneAssumption DEF TimelyOf, Time
    <2>5. now <= now + Heartbeat /\ now + Heartbeat <= sample[w] + MaxDelay + Heartbeat
      BY <1>a, <2>4 DEF Timing
    <2>6. QED
      BY <2>2, <2>3, <2>5 DEF TimelyOf
  <1>7. CASE heartbeat(w)
    <2>1. beat[w] = "sending" /\ pc[w] = "holding"
      BY <1>0, <1>7 DEF heartbeat, Callers
    <2>2. PICK t \in Task :
             /\ t = claim[w].task
             /\ entry[t] # NULL /\ entry[t].token = claim[w].token
      BY <2>1, TimelyLease
    <2>3. owns(w)
      BY <2>2 DEF owns
    <2>4. /\ entry'[t] # NULL /\ entry'[t].token = entry[t].token
          /\ entry'[t].last_heartbeat = sample[w] /\ sample[w] \in Time
      BY <1>0, <1>7, <2>2, <2>3, HeartbeatFacts
    <2>5. /\ pc'[w] = "holding" /\ claim'[w] = claim[w] /\ now' = now
          /\ beat'[w] = "waiting" /\ sample'[w] = NULL /\ due'[w] = now + Heartbeat
      BY <1>0, <1>7, <2>1, <2>3 DEF heartbeat, TypeOK
    <2>6. sample[w] # NULL /\ sample[w] \in Int /\ now <= sample[w] + MaxDelay
      BY <1>0, <2>4, NoneAssumption DEF TimelyOf, Time
    <2>7. now <= now + Heartbeat /\ now + Heartbeat <= sample[w] + MaxDelay + Heartbeat
      BY <1>a, <2>6 DEF Timing
    <2>8. QED
      BY <2>2, <2>4, <2>5, <2>7 DEF TimelyOf
  <1>8. CASE call_heartbeat(w) \/ stop_heartbeat(w)
    <2>1. /\ beat[w] = "waiting" /\ pc[w] = "holding"
          /\ UNCHANGED <<now, entry, claim>>
          /\ sample'[w] = now
          /\ pc'[w] \in {"holding", "disposing"} /\ beat'[w] \in {"sending", "off"}
          /\ pc'[w] = "holding" => beat'[w] = "sending"
      BY <1>0, <1>8 DEF call_heartbeat, stop_heartbeat, TypeOK, Callers
    <2>2. PICK t \in Task :
             /\ t = claim[w].task
             /\ entry[t] # NULL /\ entry[t].token = claim[w].token
             /\ entry[t].last_heartbeat \in Time
      BY <2>1, TimelyLease
    <2>3. due[w] \in Int /\ now <= due[w]
            /\ due[w] <= entry[t].last_heartbeat + MaxDelay + Heartbeat
      BY <1>0, <2>1, <2>2 DEF TimelyOf, TypeOK, Callers
    <2>4. /\ now <= entry[t].last_heartbeat + MaxDelay + Heartbeat
          /\ now <= now + MaxDelay
      BY <1>a, <2>2, <2>3 DEF Timing, Time
    <2>5. QED
      BY <2>1, <2>2, <2>4 DEF TimelyOf
  <1>9. QED
    BY <1>0, <1>1, <1>2, <1>3, <1>4, <1>5, <1>6, <1>7, <1>8, NextByWhom
    DEF works, quiet

-----------------------------------------------------------------------------
(***************************************************************************)
(* The invariant, and what follows from it.                                *)
(***************************************************************************)

\* The empty queue satisfies the invariant.
LEMMA InitPInv == Init => PInv
  <1> SUFFICES ASSUME Init PROVE PInv
    OBVIOUS
  <1>1. queued = << >> /\ Order(queued)
    BY EmptySeq DEF Init, Order
  <1>2. TypeOK
    BY <1>1, BoundAssumption DEF Init, TypeOK, Time
  <1>3. Callers /\ Locks /\ Clock /\ Tokens /\ Renewing
    BY DEF Init, Callers, Locks, Clock, Tokens, Renewing
  <1>4. Timeliness
    BY TimelyAssumption DEF Init, Timeliness
  <1>5. QED
    BY <1>1, <1>2, <1>3, <1>4 DEF PInv

\* Every step keeps the invariant.
LEMMA NextPInv == PInv /\ [Next]_vars => PInv'
  <1>1. ASSUME PInv, Next PROVE PInv'
    BY <1>1, TypesStep, LocksStep, ClockStep, TokensStep, RenewingStep, TimelyStep
    DEF PInv
  <1>2. ASSUME PInv, UNCHANGED vars PROVE PInv'
    <2>1. /\ now' = now /\ entry' = entry /\ queued' = queued /\ lock' = lock
          /\ pc' = pc /\ claim' = claim /\ sample' = sample /\ beat' = beat /\ due' = due
      BY <1>2 DEF vars
    <2>2. TypeOK' /\ Order(queued)' /\ Callers'
      BY <1>2, <2>1 DEF PInv, TypeOK, Order, Callers, Time
    <2>3. Locks' /\ Clock' /\ Tokens'
      BY <1>2, <2>1 DEF PInv, Locks, Clock, Tokens, available, expiration
    <2>4. Renewing' /\ Timeliness'
      BY <1>2, <2>1 DEF PInv, Renewing, Timeliness, owns, last_heartbeat
    <2>5. QED
      BY <2>2, <2>3, <2>4 DEF PInv
  <1>3. QED
    BY <1>1, <1>2

\* The invariant holds in every state.
LEMMA QueueTableInvariance == Spec => []PInv
  BY InitPInv, NextPInv, PTL DEF Spec

\* Every variable has its type; the columns of a claim are set together, and
\* the rows in the table are the rows in the order they were queued.
THEOREM TypeCorrect == Spec => []TypeOK
  <1>1. PInv => TypeOK
    BY DEF PInv
  <1>2. QED
    BY QueueTableInvariance, <1>1, PTL

\* A worker that keeps up owns its row from the claim until it has disposed
\* of it: _validate_timing leaves room for two late calls.
THEOREM TimelyWorkersKeepClaims == Spec => []TimelyKeepsClaim
  <1>1. PInv => TimelyKeepsClaim
    BY DEF PInv, Timeliness, TimelyKeepsClaim
  <1>2. QED
    BY QueueTableInvariance, <1>1, PTL

-----------------------------------------------------------------------------
(***************************************************************************)
(* The table implements the interface.                                     *)
(***************************************************************************)

\* What the interface sees of the table.
Owner == [t \in Task |-> IF entry[t] = NULL THEN "Absent"
                         ELSE IF entry[t].token = NULL THEN "Unclaimed"
                         ELSE entry[t].token]

Expired == {t \in Task : /\ entry[t] # NULL
                         /\ entry[t].token # NULL
                         /\ entry[t].last_heartbeat <= now - Lease}

HeldClaims == {<<claim[w].task, claim[w].token>> :
                  w \in {v \in Worker : claim[v] # NULL}}

\* The owner of one entry tells what is in its row.
LEMMA OwnerIs ==
    ASSUME TypeOK
    PROVE  /\ \A t \in Task :
                 /\ Owner[t] = "Absent" <=> entry[t] = NULL
                 /\ Owner[t] = "Unclaimed" <=> entry[t] # NULL /\ entry[t].token = NULL
                 /\ Owner[t] \in Token <=> entry[t] # NULL /\ entry[t].token # NULL
                 /\ Owner[t] \in Token => Owner[t] = entry[t].token
                 /\ entry[t] # NULL /\ entry[t].token # NULL => Owner[t] = entry[t].token
                 /\ \A k \in Token :
                       Owner[t] = k <=> entry[t] # NULL /\ entry[t].token = k
  BY RowFacts, NoneAssumption DEF Owner

\* The steps that touch neither rows nor claims nor the clock are invisible.
LEMMA InvisibleStep ==
    ASSUME UNCHANGED <<now, entry, claim>>
    PROVE  UNCHANGED Q!queue_vars
  BY DEF Q!queue_vars

\* The claims that are held when one worker takes or drops one.
LEMMA HeldTaken ==
    ASSUME TypeOK, NEW w \in Worker, claim[w] = NULL, NEW t \in Task, NEW k \in Token,
           claim' = [claim EXCEPT ![w] = [task |-> t, token |-> k]]
    PROVE  HeldClaims' = HeldClaims \cup {<<t, k>>}
  <1>1. /\ claim'[w] = [task |-> t, token |-> k] /\ claim'[w] # NULL
        /\ \A v \in Worker : v # w => claim'[v] = claim[v]
    BY NoneAssumption DEF TypeOK, Held
  <1>2. HeldClaims' \subseteq HeldClaims \cup {<<t, k>>}
    BY <1>1 DEF HeldClaims
  <1>3. HeldClaims \subseteq HeldClaims'
    BY <1>1 DEF HeldClaims
  <1>4. <<t, k>> \in HeldClaims'
    BY <1>1 DEF HeldClaims
  <1>5. QED
    BY <1>2, <1>3, <1>4

\* Disposing of a claim drops exactly that claim.
LEMMA HeldDropped ==
    ASSUME TypeOK, Tokens, NEW w \in Worker, claim[w] # NULL, let_go(w)
    PROVE  HeldClaims' = HeldClaims \ {<<claim[w].task, claim[w].token>>}
  <1>1. /\ claim'[w] = NULL
        /\ \A v \in Worker : v # w => claim'[v] = claim[v]
    BY LetGo
  <1>2. \A v \in Worker : claim[v] # NULL /\ v # w =>
            <<claim[v].task, claim[v].token>> # <<claim[w].task, claim[w].token>>
    BY DEF Tokens
  <1>3. QED
    BY <1>1, <1>2 DEF HeldClaims

\* The claims held change only with the claims of the workers.
LEMMA HeldSame ==
    ASSUME claim' = claim
    PROVE  HeldClaims' = HeldClaims
  BY DEF HeldClaims

\* The operations of the interface, in terms of what it sees.
LEMMA SeenVariables ==
    /\ Q!queue_vars = <<Owner, Expired, HeldClaims>>
    /\ Q!QueueInit <=> /\ Owner = [t \in Task |-> "Absent"]
                       /\ Expired = {} /\ HeldClaims = {}
  BY DEF Q!queue_vars, Q!QueueInit, Owner, Expired, HeldClaims

\* The operations of the contract, spelled out in the terms of the table: enqueue.
LEMMA SeenEnqueue ==
    \A ids \in SUBSET Task : Q!enqueue(ids) <=>
          /\ Owner' = Q!inserted(Owner, ids)
          /\ Expired' = Expired /\ HeldClaims' = HeldClaims
  BY DEF Q!enqueue, Owner, Expired, HeldClaims

\* Leases run out.
LEMMA SeenExpiry ==
    \A S \in SUBSET Task : Q!leases_expire(S) <=>
          /\ S # {}
          /\ S \subseteq {t \in Task : Owner[t] \in Token} \ Expired
          /\ Expired' = Expired \cup S
          /\ Owner' = Owner /\ HeldClaims' = HeldClaims
  BY DEF Q!leases_expire, Owner, Expired, HeldClaims

\* A claim.
LEMMA SeenClaim ==
    ASSUME NEW t \in Task, NEW k \in Token, NEW in_time \in BOOLEAN,
           Owner[t] = "Unclaimed" \/ t \in Expired,
           \A u \in Task : Owner[u] # k,
           \A c \in HeldClaims : c[2] # k,
           Owner' = [Owner EXCEPT ![t] = k],
           Expired' = IF in_time THEN Expired \ {t} ELSE Expired \cup {t},
           HeldClaims' = HeldClaims \cup {<<t, k>>}
    PROVE  Q!claim(t, k, in_time)
  BY DEF Q!claim, Q!claimable, Q!fresh_tokens, Owner, Expired, HeldClaims

\* A heartbeat.
LEMMA SeenHeartbeat ==
    \A c \in Q!Claim, in_time \in BOOLEAN : Q!heartbeat(c, in_time) <=>
          /\ c \in HeldClaims
          /\ Owner[c[1]] = c[2]
          /\ Expired' = IF in_time THEN Expired \ {c[1]} ELSE Expired
          /\ Owner' = Owner /\ HeldClaims' = HeldClaims
  BY DEF Q!heartbeat, Q!is_current, Owner, Expired, HeldClaims

\* A release.
LEMMA SeenRelease ==
    \A c \in Q!Claim : Q!release(c) <=>
          /\ c \in HeldClaims
          /\ Owner' = IF Owner[c[1]] = c[2]
                      THEN [Owner EXCEPT ![c[1]] = "Unclaimed"] ELSE Owner
          /\ Expired' = IF Owner[c[1]] = c[2] THEN Expired \ {c[1]} ELSE Expired
          /\ HeldClaims' = HeldClaims \ {c}
  BY DEF Q!release, Q!is_current, Q!lease_ended, Owner, Expired, HeldClaims

\* A finish.
LEMMA SeenFinish ==
    \A c \in Q!Claim, ids \in SUBSET Task : Q!finish(c, ids) <=>
          /\ c \in HeldClaims
          /\ Owner' = IF Owner[c[1]] = c[2]
                      THEN Q!inserted([Owner EXCEPT ![c[1]] = "Absent"], ids) ELSE Owner
          /\ Expired' = IF Owner[c[1]] = c[2] THEN Expired \ {c[1]} ELSE Expired
          /\ HeldClaims' = HeldClaims \ {c}
  BY DEF Q!finish, Q!is_current, Q!lease_ended, Owner, Expired, HeldClaims

\* A holder that forgets its claim.
LEMMA SeenForget ==
    \A c \in Q!Claim : Q!forget(c) <=>
          /\ c \in HeldClaims
          /\ HeldClaims' = HeldClaims \ {c}
          /\ Owner' = Owner /\ Expired' = Expired
  BY DEF Q!forget, Owner, Expired, HeldClaims

-----------------------------------------------------------------------------

\* What a row shows, before and after a step.
LEMMA OwnerShown ==
    /\ Owner = [t \in Task |-> Owner[t]] /\ Owner' = [t \in Task |-> Owner'[t]]
    /\ \A t \in Task : Owner[t] = IF entry[t] = NULL THEN "Absent"
                                  ELSE IF entry[t].token = NULL THEN "Unclaimed"
                                  ELSE entry[t].token
    /\ \A t \in Task : Owner'[t] = IF entry'[t] = NULL THEN "Absent"
                                   ELSE IF entry'[t].token = NULL THEN "Unclaimed"
                                   ELSE entry'[t].token
  BY DEF Owner

\* An entry is expired by its last heartbeat and the clock.
LEMMA ExpiredShown ==
    \A t \in Task :
        /\ t \in Expired <=> /\ entry[t] # NULL /\ entry[t].token # NULL
                             /\ entry[t].last_heartbeat <= now - Lease
        /\ t \in Expired' <=> /\ entry'[t] # NULL /\ entry'[t].token # NULL
                              /\ entry'[t].last_heartbeat <= now' - Lease
  BY DEF Expired

\* The expired entries are tasks.
LEMMA ExpiredSubsets == Expired \in SUBSET Task /\ Expired' \in SUBSET Task
  BY DEF Expired

\* The claim of a worker as the interface knows it.
LEMMA HeldClaim ==
    ASSUME TypeOK, NEW w \in Worker, claim[w] # NULL
    PROVE  \E c \in Q!Claim :
             /\ c = <<claim[w].task, claim[w].token>> /\ c \in HeldClaims
             /\ c[1] = claim[w].task /\ c[2] = claim[w].token
             /\ c[1] \in Task /\ c[2] \in Token
             /\ Owner[c[1]] = c[2] <=> owns(w)
  <1>1. PICK t \in Task, k \in Token : t = claim[w].task /\ k = claim[w].token
    BY ClaimFacts
  <1>2. <<t, k>> \in Q!Claim /\ <<t, k>> \in HeldClaims
    BY <1>1 DEF Q!Claim, HeldClaims
  <1>3. Owner[t] = k <=> owns(w)
    BY <1>1, OwnerIs DEF owns
  <1>4. QED
    BY <1>1, <1>2, <1>3

\* Time passes: leases run out.
LEMMA TickRefines == ASSUME PInv, tick PROVE [Q!QueueNext]_(Q!queue_vars)
  <1> USE DEF PInv
  <1>1. /\ now \in Int /\ now' = now + 1 /\ UNCHANGED <<entry, claim>>
    BY DEF tick, TypeOK, Time
  <1>2. Owner' = Owner /\ HeldClaims' = HeldClaims
    BY <1>1, HeldSame, OwnerShown
  <1>3. \A t \in Task : entry[t] # NULL /\ entry[t].token # NULL =>
            entry[t].last_heartbeat \in Int
    BY RowFacts DEF Time
  <1>4. Expired \subseteq Expired'
    <2>1. ASSUME NEW t \in Task, t \in Expired PROVE t \in Expired'
      <3>1. /\ entry'[t] # NULL /\ entry'[t].token # NULL
            /\ entry'[t].last_heartbeat = entry[t].last_heartbeat
            /\ entry[t].last_heartbeat \in Int
            /\ entry[t].last_heartbeat <= now - Lease
        BY <1>1, <1>3, <2>1, ExpiredShown
      <3>2. entry[t].last_heartbeat <= now' - Lease
        BY <1>1, <3>1, TimingFacts DEF Timing
      <3>3. QED
        BY <3>1, <3>2, ExpiredShown
    <2>2. QED
      BY <2>1, ExpiredSubsets
  <1>5. \A t \in Expired' : Owner[t] \in Token
    BY <1>1, ExpiredShown, ExpiredSubsets, OwnerIs
  <1>6. CASE Expired' = Expired
    BY <1>2, <1>6, SeenVariables DEF Q!queue_vars, Owner, Expired, HeldClaims
  <1>7. CASE Expired' # Expired
    <2>1. PICK S \in SUBSET Task : S = Expired' \ Expired
      BY ExpiredSubsets
    <2>2. /\ S # {} /\ Expired' = Expired \cup S
          /\ S \subseteq {t \in Task : Owner[t] \in Token} \ Expired
      BY <1>4, <1>5, <1>7, <2>1
    <2>3. Q!leases_expire(S)
      BY <1>2, <2>2, SeenExpiry
    <2>4. QED
      BY <2>3 DEF Q!QueueNext
  <1>8. QED
    BY <1>6, <1>7

\* enqueue is the enqueue of the contract.
LEMMA EnqueueRefines ==
    ASSUME PInv, NEW ids \in SUBSET Task, enqueue(ids)
    PROVE  Q!QueueNext
  <1> USE DEF PInv
  <1>1. UNCHANGED <<now, claim>>
    BY DEF enqueue
  <1>2. \A t \in Task : Owner'[t] =
            IF t \in ids /\ Owner[t] = "Absent" THEN "Unclaimed" ELSE Owner[t]
    <2>1. \A t \in Task : Owner[t] = "Absent" <=> entry[t] = NULL
      BY OwnerIs
    <2>2. QED
      BY <2>1, EnqueueFacts, OwnerShown
  <1>3. Owner' = Q!inserted(Owner, ids)
    BY <1>2, OwnerShown DEF Q!inserted
  <1>4. Expired' = Expired
    <2>1. \A t \in Task : t \in Expired' <=> t \in Expired
      BY <1>1, EnqueueFacts, ExpiredShown
    <2>2. QED
      BY <2>1, ExpiredSubsets
  <1>5. Q!enqueue(ids)
    BY <1>1, <1>3, <1>4, HeldSame, SeenEnqueue
  <1>6. QED
    BY <1>5 DEF Q!QueueNext

\* Nothing the interface sees, or a claim that is forgotten.
LEMMA QuietRefines ==
    ASSUME PInv, NEW w \in Worker, quiet(w)
    PROVE  [Q!QueueNext]_(Q!queue_vars)
  <1> USE DEF PInv
  <1>1. UNCHANGED <<now, entry>>
    BY QuietRows
  <1>2. CASE claim' = claim
    BY <1>1, <1>2, InvisibleStep
  <1>3. CASE claim' # claim
    <2>1. abandon(w)
      BY <1>3 DEF quiet, call_claim, claim_select, claim_finds_nothing,
                  call_heartbeat, stop_heartbeat
    <2>2. let_go(w) /\ claim[w] # NULL
      BY <1>3, <2>1 DEF abandon, let_go, TypeOK
    <2>3. PICK c \in Q!Claim :
              c = <<claim[w].task, claim[w].token>> /\ c \in HeldClaims
      BY <2>2, HeldClaim
    <2>4. HeldClaims' = HeldClaims \ {c}
      BY <2>2, <2>3, HeldDropped
    <2>5. Owner' = Owner /\ Expired' = Expired
      BY <1>1 DEF Owner, Expired
    <2>6. Q!forget(c)
      BY <2>3, <2>4, <2>5, SeenForget
    <2>7. QED
      BY <2>6 DEF Q!QueueNext
  <1>4. QED
    BY <1>2, <1>3

\* A claim is granted on an entry that is free, or whose lease has run out by
\* the time of the reading, and so by now.
LEMMA CommitRefines ==
    ASSUME PInv, NEW w \in Worker, claim_commit(w)
    PROVE  Q!QueueNext
  <1> USE DEF PInv
  <1>1. PICK t \in Task, k \in Token : commits(w, t, k)
    BY CommitFacts
  <1>2. now' = now
    BY DEF claim_commit
  <1>3. PICK in_time \in BOOLEAN : in_time <=> ~(sample[w] <= now - Lease)
    OBVIOUS
  <1>4. HeldClaims' = HeldClaims \cup {<<t, k>>}
    BY <1>1, HeldTaken DEF commits
  <1>5. Owner' = [Owner EXCEPT ![t] = k]
    <2>1. Owner'[t] = k /\ \A u \in Task : u # t => Owner'[u] = Owner[u]
      BY <1>1, OwnerShown, NoneAssumption DEF commits
    <2>2. QED
      BY <2>1, OwnerShown
  <1>6. Expired' = IF in_time THEN Expired \ {t} ELSE Expired \cup {t}
    <2>1. t \in Expired' <=> ~in_time
      BY <1>1, <1>2, <1>3, ExpiredShown, NoneAssumption DEF commits
    <2>2. \A u \in Task : u # t => (u \in Expired' <=> u \in Expired)
      BY <1>1, <1>2, ExpiredShown DEF commits
    <2>3. QED
      BY <2>1, <2>2, ExpiredSubsets
  <1>7. Owner[t] = "Unclaimed" \/ t \in Expired
    <2>1. /\ entry[t] # NULL
          /\ entry[t].token = NULL \/ entry[t].last_heartbeat <= sample[w] - Lease
          /\ sample[w] \in Int /\ sample[w] <= now /\ now \in Int
      BY <1>1 DEF commits, available, expiration, TypeOK, Time
    <2>2. CASE entry[t].token = NULL
      BY <2>1, <2>2, OwnerShown
    <2>3. CASE entry[t].token # NULL
      <3>1. entry[t].last_heartbeat \in Int
        BY <2>1, <2>3, RowFacts DEF Time
      <3>2. entry[t].last_heartbeat <= now - Lease
        BY <2>1, <2>3, <3>1, TimingFacts DEF Timing
      <3>3. QED
        BY <2>1, <2>3, <3>2, ExpiredShown
    <2>4. QED
      BY <2>2, <2>3
  <1>8. \A u \in Task : Owner[u] # k
    BY <1>1, OwnerIs DEF commits
  <1>9. \A c \in HeldClaims : c[2] # k
    BY <1>1 DEF commits, HeldClaims
  <1>10. Q!claim(t, k, in_time)
    BY <1>4, <1>5, <1>6, <1>7, <1>8, <1>9, SeenClaim
  <1>11. QED
    BY <1>10 DEF Q!QueueNext

\* A heartbeat renews the lease from its reading; one that comes too late
\* finds the lease already expired.
LEMMA HeartbeatRefines ==
    ASSUME PInv, NEW w \in Worker, heartbeat(w)
    PROVE  [Q!QueueNext]_(Q!queue_vars)
  <1> USE DEF PInv
  <1>1. UNCHANGED <<now, claim>> /\ beat[w] = "sending"
    BY DEF heartbeat
  <1>2. PICK t \in Task :
             /\ claim[w] # NULL /\ t = claim[w].task
             /\ sample[w] \in Time /\ sample[w] <= now
             /\ \A u \in Task : u # t => entry'[u] = entry[u]
             /\ owns(w) => /\ entry'[t] # NULL
                           /\ entry'[t].token = entry[t].token
                           /\ entry'[t].last_heartbeat = sample[w]
             /\ ~owns(w) => entry' = entry
    BY HeartbeatFacts
  <1>3. CASE ~owns(w)
    BY <1>1, <1>2, <1>3, InvisibleStep
  <1>4. CASE owns(w)
    <2>1. PICK c \in Q!Claim :
             /\ c \in HeldClaims /\ c[1] = t /\ c[2] \in Token
             /\ Owner[c[1]] = c[2]
      BY <1>2, <1>4, HeldClaim
    <2>2. PICK in_time \in BOOLEAN : in_time <=> ~(sample[w] <= now - Lease)
      OBVIOUS
    <2>3. entry[t] # NULL /\ entry[t].token # NULL
      BY <1>2, <1>4, ClaimFacts, NoneAssumption DEF owns
    <2>4. Owner' = Owner
      <3>1. \A u \in Task : Owner'[u] = Owner[u]
        BY <1>2, <1>4, <2>3, OwnerShown
      <3>2. QED
        BY <3>1, OwnerShown
    <2>5. t \in Expired' <=> ~in_time
      BY <1>1, <1>2, <1>4, <2>2, <2>3, ExpiredShown
    <2>6. ~in_time => t \in Expired
      <3>1. entry[t].last_heartbeat <= sample[w]
        BY <1>1, <1>2, <1>4 DEF Renewing, last_heartbeat
      <3>2. entry[t].last_heartbeat \in Int /\ sample[w] \in Int /\ now \in Int
        BY <1>2, <2>3, RowFacts DEF Time, TypeOK
      <3>3. sample[w] <= now - Lease => entry[t].last_heartbeat <= now - Lease
        BY <3>1, <3>2, TimingFacts DEF Timing
      <3>4. QED
        BY <2>2, <2>3, <3>3, ExpiredShown
    <2>7. \A u \in Task : u # t => (u \in Expired' <=> u \in Expired)
      BY <1>1, <1>2, ExpiredShown
    <2>8. Expired' = IF in_time THEN Expired \ {t} ELSE Expired
      BY <2>5, <2>6, <2>7, ExpiredSubsets
    <2>9. Q!heartbeat(c, in_time)
      BY <1>1, <2>1, <2>4, <2>8, HeldSame, SeenHeartbeat
    <2>10. QED
      BY <2>1, <2>9 DEF Q!QueueNext
  <1>5. QED
    BY <1>3, <1>4

\* release is the release of the contract, or a stale one.
LEMMA ReleaseRefines ==
    ASSUME PInv, NEW w \in Worker, release(w)
    PROVE  Q!QueueNext
  <1> USE DEF PInv
  <1>1. now' = now /\ let_go(w)
    BY DEF release
  <1>2. PICK t \in Task :
             /\ claim[w] # NULL /\ t = claim[w].task
             /\ \A u \in Task : u # t => entry'[u] = entry[u]
             /\ owns(w) => entry'[t] # NULL /\ entry'[t].token = NULL
             /\ ~owns(w) => entry' = entry
    BY ReleaseFacts
  <1>3. PICK c \in Q!Claim :
             /\ c = <<claim[w].task, claim[w].token>> /\ c \in HeldClaims
             /\ c[1] = t
             /\ Owner[c[1]] = c[2] <=> owns(w)
    BY <1>2, HeldClaim
  <1>4. HeldClaims' = HeldClaims \ {c}
    BY <1>1, <1>2, <1>3, HeldDropped
  <1>5. Owner' = IF owns(w) THEN [Owner EXCEPT ![t] = "Unclaimed"] ELSE Owner
    <2>1. \A u \in Task : Owner'[u] = IF owns(w) /\ u = t THEN "Unclaimed" ELSE Owner[u]
      BY <1>2, OwnerShown
    <2>2. QED
      BY <2>1, OwnerShown
  <1>6. Expired' = IF owns(w) THEN Expired \ {t} ELSE Expired
    <2>1. \A u \in Task : u \in Expired' <=> u \in Expired /\ ~(owns(w) /\ u = t)
      BY <1>1, <1>2, ExpiredShown
    <2>2. QED
      BY <2>1, ExpiredSubsets
  <1>7. Q!release(c)
    BY <1>3, <1>4, <1>5, <1>6, SeenRelease
  <1>8. QED
    BY <1>7 DEF Q!QueueNext

\* finish is the finish of the contract, or a stale one.
LEMMA FinishRefines ==
    ASSUME PInv, NEW w \in Worker, NEW ids \in SUBSET Task, finish(w, ids)
    PROVE  Q!QueueNext
  <1> USE DEF PInv
  <1>1. now' = now /\ let_go(w)
    BY DEF finish
  <1>2. PICK t \in Task :
             /\ claim[w] # NULL /\ t = claim[w].task
             /\ new_row # NULL /\ new_row.token = NULL
             /\ owns(w) =>
                   /\ entry'[t] = IF t \in ids THEN new_row ELSE NULL
                   /\ \A u \in Task : u # t => entry'[u] =
                         IF u \in ids /\ entry[u] = NULL THEN new_row ELSE entry[u]
             /\ ~owns(w) => entry' = entry
    BY FinishFacts
  <1>3. PICK c \in Q!Claim :
             /\ c = <<claim[w].task, claim[w].token>> /\ c \in HeldClaims
             /\ c[1] = t
             /\ Owner[c[1]] = c[2] <=> owns(w)
    BY <1>2, HeldClaim
  <1>4. HeldClaims' = HeldClaims \ {c}
    BY <1>1, <1>2, <1>3, HeldDropped
  <1>5. Owner' = IF owns(w) THEN Q!inserted([Owner EXCEPT ![t] = "Absent"], ids)
                            ELSE Owner
    <2>1. CASE owns(w)
      <3>1. \A u \in Task : Owner[u] = "Absent" <=> entry[u] = NULL
        BY OwnerIs
      <3>2. Owner'[t] = IF t \in ids THEN "Unclaimed" ELSE "Absent"
        BY <1>2, <2>1, OwnerShown
      <3>3. \A u \in Task : u # t => Owner'[u] =
                IF u \in ids /\ Owner[u] = "Absent" THEN "Unclaimed" ELSE Owner[u]
        BY <1>2, <2>1, <3>1, OwnerShown
      <3>4. PICK rest \in [Task -> Token \cup {"Absent", "Unclaimed"}] :
                rest = [Owner EXCEPT ![t] = "Absent"]
        <4>1. Owner \in [Task -> Token \cup {"Absent", "Unclaimed"}]
          BY RowFacts DEF Owner
        <4>2. QED
          BY <4>1
      <3>5. \A u \in Task : Owner'[u] =
                IF u \in ids /\ rest[u] = "Absent" THEN "Unclaimed" ELSE rest[u]
        BY <3>2, <3>3, <3>4, OwnerShown
      <3>6. Owner' = Q!inserted(rest, ids)
        BY <3>5, OwnerShown DEF Q!inserted
      <3>7. QED
        BY <2>1, <3>4, <3>6
    <2>2. CASE ~owns(w)
      BY <1>2, <2>2 DEF Owner
    <2>3. QED
      BY <2>1, <2>2
  <1>6. Expired' = IF owns(w) THEN Expired \ {t} ELSE Expired
    <2>1. \A u \in Task : u \in Expired' <=> u \in Expired /\ ~(owns(w) /\ u = t)
      BY <1>1, <1>2, ExpiredShown
    <2>2. QED
      BY <2>1, ExpiredSubsets
  <1>7. Q!finish(c, ids)
    BY <1>3, <1>4, <1>5, <1>6, SeenFinish
  <1>8. QED
    BY <1>7 DEF Q!QueueNext

\* The table with its clock, locks and late calls keeps the promises of the
\* interface: an entry changes hands only when its lease has really run out.
THEOREM TableImplementsInterface == Spec => ImplementsExecutionQueue
  <1>1. Init => Q!QueueInit
    BY DEF Init, Q!QueueInit
  <1>2. PInv /\ [Next]_vars => [Q!QueueNext]_(Q!queue_vars)
    <2> SUFFICES ASSUME PInv, [Next]_vars PROVE [Q!QueueNext]_(Q!queue_vars)
      OBVIOUS
    <2>1. CASE UNCHANGED vars
      BY <2>1, InvisibleStep DEF vars
    <2>2. CASE tick
      BY <2>2, TickRefines
    <2>3. ASSUME NEW ids \in SUBSET Task, enqueue(ids)
          PROVE  [Q!QueueNext]_(Q!queue_vars)
      BY <2>3, EnqueueRefines
    <2>4. ASSUME NEW w \in Worker, works(w)
          PROVE  [Q!QueueNext]_(Q!queue_vars)
      BY <2>4, QuietRefines, CommitRefines, HeartbeatRefines, ReleaseRefines,
         FinishRefines DEF works, disposes
    <2>5. QED
      BY <2>1, <2>2, <2>3, <2>4, NextByWhom
  <1>3. QED
    BY <1>1, <1>2, QueueTableInvariance, PTL
    DEF Spec, ImplementsExecutionQueue, Q!QueueSpec

=============================================================================
