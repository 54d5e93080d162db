------------------------ MODULE QueueInsertionsProofs ------------------------
(***************************************************************************)
(* Proofs about the queue contract, and about the insertions row by row,   *)
(* for any tasks and dependencies, any number of workers, and any number   *)
(* of others that enqueue.                                                 *)
(***************************************************************************)
EXTENDS QueueInsertions, FiniteSetTheorems, SequenceTheorems, TLAPS

-----------------------------------------------------------------------------
(***************************************************************************)
(* The queue contract, for any sets of tasks and tokens.                   *)
(***************************************************************************)

\* An empty queue satisfies the invariant.
LEMMA QInitInv == QueueInit => QueueTypeOK
  BY TokenAssumption DEF QueueInit, QueueTypeOK

\* Inserting entries gives a token to nobody.
LEMMA InsertedKeepsTokens ==
    ASSUME NEW entries \in [Task -> Token \cup {Absent, Unclaimed}],
           NEW ids \in SUBSET Task
    PROVE  /\ inserted(entries, ids) \in [Task -> Token \cup {Absent, Unclaimed}]
           /\ \A t \in Task : /\ inserted(entries, ids)[t] \in Token
                                    <=> entries[t] \in Token
                              /\ entries[t] \in Token
                                    => inserted(entries, ids)[t] = entries[t]
  BY TokenAssumption DEF inserted

\* Every operation of the queue keeps the invariant.
LEMMA QNextInv == QueueTypeOK /\ [QueueNext]_queue_vars => QueueTypeOK'
  <1> SUFFICES ASSUME QueueTypeOK, [QueueNext]_queue_vars PROVE QueueTypeOK'
    OBVIOUS
  <1> USE TokenAssumption
  <1>1. ASSUME NEW ids \in SUBSET Task, enqueue(ids) PROVE QueueTypeOK'
    BY <1>1, InsertedKeepsTokens DEF enqueue, QueueTypeOK
  <1>2. ASSUME NEW S \in SUBSET Task, leases_expire(S) PROVE QueueTypeOK'
    BY <1>2 DEF leases_expire, QueueTypeOK
  <1>3. ASSUME NEW t \in Task, NEW k \in Token, NEW in_time \in BOOLEAN,
               claim(t, k, in_time)
        PROVE  QueueTypeOK'
    BY <1>3 DEF claim, QueueTypeOK, Claim
  <1>4. ASSUME NEW c \in Claim, NEW in_time \in BOOLEAN, heartbeat(c, in_time)
        PROVE  QueueTypeOK'
    BY <1>4 DEF heartbeat, QueueTypeOK
  <1>5. ASSUME NEW c \in Claim, release(c) PROVE QueueTypeOK'
    <2>1. /\ held' \subseteq held
          /\ \A t \in Task : owner'[t] = owner[t] \/ owner'[t] = Unclaimed
          /\ owner' \in [Task -> Token \cup {Absent, Unclaimed}]
      BY <1>5 DEF release, lease_ended, QueueTypeOK, Claim
    <2>2. \A t \in expired' : t \in Task /\ owner'[t] \in Token
      BY <1>5 DEF release, lease_ended, QueueTypeOK, Claim, is_current
    <2>3. QED
      BY <2>1, <2>2 DEF QueueTypeOK
  <1>6. ASSUME NEW c \in Claim, forget(c) PROVE QueueTypeOK'
    BY <1>6 DEF forget, QueueTypeOK
  <1>7. ASSUME NEW c \in Claim, NEW ids \in SUBSET Task, finish(c, ids)
        PROVE  QueueTypeOK'
    <2> DEFINE rest == [owner EXCEPT ![c[1]] = Absent]
    <2>0. c[1] \in Task
      BY DEF Claim
    <2>1. /\ rest \in [Task -> Token \cup {Absent, Unclaimed}]
          /\ rest[c[1]] = Absent
          /\ \A t \in Task : t # c[1] => rest[t] = owner[t]
      BY <2>0 DEF QueueTypeOK
    <2> HIDE DEF rest
    <2>2. /\ inserted(rest, ids) \in [Task -> Token \cup {Absent, Unclaimed}]
          /\ \A t \in Task : /\ inserted(rest, ids)[t] \in Token <=> rest[t] \in Token
                             /\ rest[t] \in Token => inserted(rest, ids)[t] = rest[t]
      BY <2>1, InsertedKeepsTokens
    <2>3. owner' = IF is_current(c) THEN inserted(rest, ids) ELSE owner
      BY <1>7 DEF finish, lease_ended, rest
    <2>4. /\ held' \subseteq held
          /\ owner' \in [Task -> Token \cup {Absent, Unclaimed}]
          /\ \A t \in Task : owner'[t] \in Token => owner'[t] = owner[t]
      BY <1>7, <2>1, <2>2, <2>3 DEF finish, lease_ended, QueueTypeOK
    <2>5. \A t \in expired' : t \in Task /\ owner'[t] \in Token
      BY <1>7, <2>1, <2>2, <2>3 DEF finish, lease_ended, QueueTypeOK
    <2>6. QED
      BY <2>4, <2>5 DEF QueueTypeOK
  <1>8. CASE UNCHANGED queue_vars
    BY <1>8 DEF queue_vars, QueueTypeOK
  <1>9. QED
    BY <1>1, <1>2, <1>3, <1>4, <1>5, <1>6, <1>7, <1>8 DEF QueueNext

\* A claim that lost its entry never becomes current again: only claim()
\* writes a token into an entry, and it draws one that nobody holds.
THEOREM StaleClaimsStayStale == QueueSpec => StaleStaysStale
  <1>1. QueueTypeOK /\ [QueueNext]_queue_vars
          => [\A c \in held : ~is_current(c) /\ c \in held' => ~is_current(c)']_queue_vars
    <2> SUFFICES ASSUME QueueTypeOK, QueueNext, NEW c \in held, ~is_current(c), c \in held'
                 PROVE  ~is_current(c)'
      OBVIOUS
    <2> USE TokenAssumption DEF is_current
    <2>0. c[1] \in Task /\ c[2] \in Token
      BY DEF QueueTypeOK, Claim
    <2>1. ASSUME NEW ids \in SUBSET Task, enqueue(ids) PROVE owner'[c[1]] # c[2]
      BY <2>0, <2>1, InsertedKeepsTokens DEF enqueue, QueueTypeOK
    <2>2. ASSUME NEW t \in Task, NEW k \in Token, NEW in_time \in BOOLEAN,
                 claim(t, k, in_time)
          PROVE  owner'[c[1]] # c[2]
      BY <2>0, <2>2 DEF claim, fresh_tokens, QueueTypeOK
    <2>3. ASSUME NEW d \in Claim, release(d) PROVE owner'[c[1]] # c[2]
      BY <2>0, <2>3 DEF release, lease_ended, QueueTypeOK
    <2>4. ASSUME NEW d \in Claim, NEW ids \in SUBSET Task, finish(d, ids)
          PROVE  owner'[c[1]] # c[2]
      <3> DEFINE rest == [owner EXCEPT ![d[1]] = Absent]
      <3>1. /\ rest \in [Task -> Token \cup {Absent, Unclaimed}]
            /\ rest[c[1]] # c[2]
        BY <2>0 DEF QueueTypeOK, Claim
      <3>2. owner' = IF is_current(d) THEN inserted(rest, ids) ELSE owner
        BY <2>4 DEF finish, lease_ended
      <3> HIDE DEF rest
      <3>3. inserted(rest, ids)[c[1]] # c[2]
        BY <2>0, <3>1, InsertedKeepsTokens
      <3>4. QED
        BY <3>2, <3>3
    <2>5. ASSUME NEW S \in SUBSET Task, leases_expire(S) PROVE owner'[c[1]] # c[2]
      BY <2>5 DEF leases_expire
    <2>6. ASSUME NEW d \in Claim, forget(d) PROVE owner'[c[1]] # c[2]
      BY <2>6 DEF forget
    <2>7. ASSUME NEW d \in Claim, NEW in_time \in BOOLEAN, heartbeat(d, in_time)
          PROVE  owner'[c[1]] # c[2]
      BY <2>7 DEF heartbeat
    <2>8. QED
      BY <2>1, <2>2, <2>3, <2>4, <2>5, <2>6, <2>7 DEF QueueNext
  <1>2. QED
    BY QInitInv, QNextInv, <1>1, PTL DEF QueueSpec, StaleStaysStale

\* A claim that is still held loses its entry only after its lease has run out:
\* release() and finish() of others fail the ownership test, enqueue() skips the
\* id, and claim() takes free entries and expired ones.
THEOREM LiveClaimsKept == QueueSpec => OnlyExpiredClaimsLost
  <1>1. QueueTypeOK /\ [QueueNext]_queue_vars
          => [\A c \in held : is_current(c) /\ c \in held' /\ ~is_current(c)'
                 => c[1] \in expired]_queue_vars
    <2> SUFFICES ASSUME QueueTypeOK, QueueNext, NEW c \in held, is_current(c),
                        c \in held', c[1] \notin expired
                 PROVE  is_current(c)'
      OBVIOUS
    <2> USE TokenAssumption DEF is_current
    <2>0. c \in Claim /\ c[1] \in Task /\ c[2] \in Token /\ c = <<c[1], c[2]>>
      BY DEF QueueTypeOK, Claim
    <2>1. ASSUME NEW ids \in SUBSET Task, enqueue(ids) PROVE owner'[c[1]] = c[2]
      BY <2>0, <2>1, InsertedKeepsTokens DEF enqueue, QueueTypeOK
    <2>2. ASSUME NEW t \in Task, NEW k \in Token, NEW in_time \in BOOLEAN,
                 claim(t, k, in_time)
          PROVE  owner'[c[1]] = c[2]
      <3>1. t # c[1]
        BY <2>0, <2>2 DEF claim, claimable
      <3>2. QED
        BY <2>0, <2>2, <3>1 DEF claim, QueueTypeOK
    <2>3. ASSUME NEW d \in Claim, release(d) PROVE owner'[c[1]] = c[2]
      <3>1. d # c
        BY <2>3 DEF release
      <3>2. is_current(d) => d[1] # c[1]
        BY <2>0, <3>1 DEF Claim
      <3>3. QED
        BY <2>0, <2>3, <3>2 DEF release, QueueTypeOK
    <2>4. ASSUME NEW d \in Claim, NEW ids \in SUBSET Task, finish(d, ids)
          PROVE  owner'[c[1]] = c[2]
      <3> DEFINE rest == [owner EXCEPT ![d[1]] = Absent]
      <3>1. d # c
        BY <2>4 DEF finish
      <3>2. is_current(d) => d[1] # c[1]
        BY <2>0, <3>1 DEF Claim
      <3>3. /\ rest \in [Task -> Token \cup {Absent, Unclaimed}]
            /\ is_current(d) => rest[c[1]] = c[2]
        BY <2>0, <3>2 DEF QueueTypeOK
      <3>4. owner' = IF is_current(d) THEN inserted(rest, ids) ELSE owner
        BY <2>4 DEF finish
      <3> HIDE DEF rest
      <3>5. is_current(d) => inserted(rest, ids)[c[1]] = c[2]
        BY <2>0, <3>3, InsertedKeepsTokens
      <3>6. QED
        BY <3>4, <3>5
    <2>5. ASSUME NEW S \in SUBSET Task, leases_expire(S) PROVE owner'[c[1]] = c[2]
      BY <2>5 DEF leases_expire
    <2>6. ASSUME NEW d \in Claim, forget(d) PROVE owner'[c[1]] = c[2]
      BY <2>6 DEF forget
    <2>7. ASSUME NEW d \in Claim, NEW in_time \in BOOLEAN, heartbeat(d, in_time)
          PROVE  owner'[c[1]] = c[2]
      BY <2>7 DEF heartbeat
    <2>8. QED
      BY <2>1, <2>2, <2>3, <2>4, <2>5, <2>6, <2>7 DEF QueueNext
  <1>2. QED
    BY QInitInv, QNextInv, <1>1, PTL DEF QueueSpec, OnlyExpiredClaimsLost

-----------------------------------------------------------------------------
(***************************************************************************)
(* The sessions that insert row by row.                                    *)
(***************************************************************************)

\* A worker has a claim of its own.
UniqueJobs ==
    \A v, w \in Worker : job[v] # NULL /\ job[v] = job[w] => v = w

\* A row that is being deleted is the worker's own; a finish that has deleted
\* nothing had lost its claim, and inserts nothing.
Deleting ==
    /\ \A s \in Session : deleted[s] # {} =>
          /\ s \in Worker /\ job[s] # NULL
          /\ deleted[s] = {task_of(s)} /\ is_current(job[s])
    /\ \A w \in Worker : pc[w] = "inserting" /\ deleted[w] = {} =>
          /\ todo[w] = << >> /\ inserted_rows[w] = {}
          /\ ~is_current(job[w])

\* No row is in two open transactions, and one that is being inserted has no
\* committed version.
Exclusive ==
    /\ \A s, r \in Session : s # r => dirty(s) \cap dirty(r) = {}
    /\ \A s \in Session : \A t \in inserted_rows[s] : owner[t] = Absent

\* The tasks that a worker has inserted or is going to.
listed(w) == ToSet(todo[w]) \cup inserted_rows[w]

\* A worker inserts children of its task without an open dependency, each
\* released by it alone.
Releasing ==
    /\ \A w \in Worker : \A c \in listed(w) :
          /\ job[w] # NULL /\ c \in ToSet(Children[task_of(w)])
          /\ \A p \in parents(c) : status[p] = "COMPLETED"
    /\ \A v, w \in Worker : v # w => listed(v) \cap listed(w) = {}

\* The inductive invariant.
RowInv ==
    /\ TypeOK /\ UniqueJobs /\ Deleting /\ Exclusive /\ Releasing

\* TypeOK, but for the queue.
SessionTypes ==
    /\ status \in [Task -> {"PENDING", "RUNNING", "COMPLETED"}]
    /\ pc \in [Session -> {"idle", "claimed", "processed", "inserting", "dead"}]
    /\ job \in [Worker -> Claim \cup {NULL}]
    /\ todo \in [Session -> Seq(Task)]
    /\ deleted \in [Session -> SUBSET Task]
    /\ inserted_rows \in [Session -> SUBSET Task]
    /\ held = {job[w] : w \in {v \in Worker : job[v] # NULL}}
    /\ \A s \in Session :
          /\ pc[s] \notin {"inserting", "processed"} => todo[s] = << >>
          /\ deleted[s] \cup inserted_rows[s] # {} => pc[s] = "inserting"
          /\ deleted[s] \cap inserted_rows[s] = {}
          /\ s \in Worker => (job[s] = NULL <=> pc[s] \in {"idle", "dead"})

\* Types of the queue and types of the sessions.
LEMMA TypesSplit == TypeOK <=> QueueTypeOK /\ SessionTypes
  BY Zenon DEF TypeOK, SessionTypes

\* What a step keeps besides the queue's own invariant.
SessionInv == SessionTypes /\ UniqueJobs /\ Deleting /\ Exclusive /\ Releasing

\* What is kept by the sessions and what by the queue.
LEMMA InvSplit == RowInv <=> SessionInv /\ QueueTypeOK
  BY TypesSplit, Zenon DEF RowInv, SessionInv

-----------------------------------------------------------------------------

\* Taking the first id of a list.
LEMMA HeadOfList ==
    ASSUME NEW list \in Seq(Task), list # << >>
    PROVE  /\ Head(list) \in Task /\ Head(list) \in ToSet(list)
           /\ Tail(list) \in Seq(Task) /\ ToSet(Tail(list)) \subseteq ToSet(list)
  <1>1. /\ Len(list) \in Nat /\ Len(list) > 0 /\ DOMAIN list = 1..Len(list)
        /\ Head(list) = list[1] /\ Head(list) \in Task
    BY HeadTailProperties, EmptySeq, LenProperties
  <1>2. /\ Tail(list) \in Seq(Task) /\ Len(Tail(list)) = Len(list) - 1
        /\ \A i \in 1..Len(Tail(list)) : Tail(list)[i] = list[i + 1]
    BY HeadTailProperties
  <1>3. DOMAIN Tail(list) = 1..(Len(list) - 1)
    BY <1>2, LenProperties
  <1>4. Head(list) \in ToSet(list)
    BY <1>1 DEF ToSet
  <1>5. ASSUME NEW i \in DOMAIN Tail(list) PROVE Tail(list)[i] \in ToSet(list)
    <2>1. i + 1 \in DOMAIN list /\ Tail(list)[i] = list[i + 1]
      BY <1>1, <1>2, <1>3
    <2>2. QED
      BY <2>1 DEF ToSet
  <1>6. ToSet(Tail(list)) \subseteq ToSet(list)
    BY <1>5 DEF ToSet
  <1>7. QED
    BY <1>1, <1>2, <1>4, <1>6

\* The lists of a set of tasks.
LEMMA ListsOfSet ==
    ASSUME NEW S \in SUBSET Task, NEW ids \in SetToSeqs(S)
    PROVE  ids \in Seq(Task) /\ ToSet(ids) \subseteq S
  <1>1. IsFiniteSet(S) /\ Cardinality(S) \in Nat
    BY TaskAssumption, FS_Subset, FS_CardinalityType
  <1>2. ids \in [1..Cardinality(S) -> S]
    BY DEF SetToSeqs
  <1>3. ids \in [1..Cardinality(S) -> Task]
    BY <1>2
  <1>4. ids \in Seq(Task)
    BY <1>1, <1>3, IsASeq
  <1>5. QED
    BY <1>2, <1>4 DEF ToSet

\* Facts about the empty list.
LEMMA EmptyList == ToSet(<< >>) = {} /\ << >> \in Seq(Task)
  BY DEF ToSet

\* No task depends on itself.
LEMMA NotOwnChild ==
    ASSUME NEW t \in Task
    PROVE  t \notin ToSet(Children[t])
  <1>1. {t} \in (SUBSET Task) \ {{}}
    OBVIOUS
  <1>2. \E u \in {t} : ToSet(Children[u]) \cap {t} = {}
    BY <1>1, ChildrenAssumption
  <1>3. QED
    BY <1>2

\* What a claim of a worker is.
LEMMA JobFacts ==
    ASSUME SessionTypes, NEW w \in Worker, job[w] # NULL
    PROVE  /\ job[w] \in Claim /\ job[w] \in held
           /\ job[w][1] \in Task /\ job[w][2] \in Token /\ task_of(w) = job[w][1]
           /\ job[w] = <<job[w][1], job[w][2]>>
  <1>1. job[w] \in Claim /\ job[w] \in held
    BY DEF SessionTypes
  <1>2. QED
    BY <1>1 DEF Claim, task_of

\* A session has dropped its transaction and its claim; the others go on.
drops(s) ==
    /\ todo' = [todo EXCEPT ![s] = << >>]
    /\ deleted' = [deleted EXCEPT ![s] = {}]
    /\ inserted_rows' = [inserted_rows EXCEPT ![s] = {}]
    /\ job' = [w \in Worker |-> IF w = s THEN NULL ELSE job[w]]
    /\ held' = IF s \in Worker THEN held \ {job[s]} ELSE held
    /\ pc' = [pc EXCEPT ![s] = IF s \in Enqueuer THEN "idle" ELSE pc'[s]]
    /\ pc'[s] \in {"idle", "dead"}
    /\ status' = status

\* A session that ends lets go of everything it had open.
LEMMA DropFacts ==
    ASSUME RowInv, NEW s \in Session, drops(s)
    PROVE  /\ SessionTypes' /\ UniqueJobs'
           /\ s \in Worker => job'[s] = NULL
           /\ \A w \in Worker : w # s => job'[w] = job[w]
           /\ pc'[s] # "inserting"
           /\ todo'[s] = << >> /\ deleted'[s] = {} /\ inserted_rows'[s] = {}
           /\ \A r \in Session : r # s =>
                 /\ pc'[r] = pc[r] /\ todo'[r] = todo[r]
                 /\ deleted'[r] = deleted[r] /\ inserted_rows'[r] = inserted_rows[r]
  <1>1. SessionTypes /\ UniqueJobs
    BY InvSplit DEF SessionInv
  <1> USE DEF Session
  <1>2. /\ s \in Worker => job'[s] = NULL
        /\ \A w \in Worker : w # s => job'[w] = job[w]
        /\ job' \in [Worker -> Claim \cup {NULL}]
    BY <1>1 DEF drops, SessionTypes
  <1>3. /\ todo'[s] = << >> /\ deleted'[s] = {} /\ inserted_rows'[s] = {}
        /\ pc'[s] \in {"idle", "dead"}
        /\ \A r \in Session : r # s =>
              /\ pc'[r] = pc[r] /\ todo'[r] = todo[r]
              /\ deleted'[r] = deleted[r] /\ inserted_rows'[r] = inserted_rows[r]
    BY <1>1 DEF drops, SessionTypes
  <1>4. /\ todo' \in [Session -> Seq(Task)]
        /\ deleted' \in [Session -> SUBSET Task]
        /\ inserted_rows' \in [Session -> SUBSET Task]
        /\ pc' \in [Session -> {"idle", "claimed", "processed", "inserting", "dead"}]
        /\ status' \in [Task -> {"PENDING", "RUNNING", "COMPLETED"}]
    BY <1>1, EmptyList DEF drops, SessionTypes
  <1>5. held' = {job'[w] : w \in {v \in Worker : job'[v] # NULL}}
    <2>1. held = {job[w] : w \in {v \in Worker : job[v] # NULL}}
      BY <1>1 DEF SessionTypes
    <2>2. CASE s \in Worker
      <3>1. held' = held \ {job[s]}
        BY <2>2 DEF drops
      <3>2. \A w \in Worker : w # s /\ job[w] # NULL => job[w] # job[s]
        BY <1>1, <2>2 DEF UniqueJobs
      <3>3. ASSUME NEW w \in Worker, job'[w] # NULL PROVE job'[w] \in held'
        BY <1>2, <2>1, <3>1, <3>2, <3>3
      <3>4. ASSUME NEW c \in held'
            PROVE  \E w \in Worker : job'[w] # NULL /\ c = job'[w]
        BY <1>2, <2>1, <3>1, <3>4
      <3>5. QED
        BY <3>3, <3>4
    <2>3. CASE s \notin Worker
      <3>1. held' = held /\ \A w \in Worker : job'[w] = job[w]
        BY <1>2, <2>3 DEF drops
      <3>2. QED
        BY <2>1, <3>1
    <2>4. QED
      BY <2>2, <2>3
  <1>6. SessionTypes'
    <2>1. \A r \in Session :
              /\ pc'[r] \notin {"inserting", "processed"} => todo'[r] = << >>
              /\ deleted'[r] \cup inserted_rows'[r] # {} => pc'[r] = "inserting"
              /\ deleted'[r] \cap inserted_rows'[r] = {}
              /\ r \in Worker => (job'[r] = NULL <=> pc'[r] \in {"idle", "dead"})
      BY <1>1, <1>2, <1>3 DEF SessionTypes
    <2>2. QED
      BY <1>2, <1>4, <1>5, <2>1 DEF SessionTypes
  <1>7. UniqueJobs'
    BY <1>1, <1>2 DEF UniqueJobs
  <1>8. QED
    BY <1>2, <1>3, <1>6, <1>7

\* What the others were inserting and releasing, they still are.
LEMMA DropKeeps ==
    ASSUME RowInv, NEW s \in Session, drops(s)
    PROVE  /\ \A r, q \in Session : r # q => dirty(r)' \cap dirty(q)' = {}
           /\ Releasing'
  <1>1. SessionTypes /\ Exclusive /\ Releasing
    BY InvSplit DEF SessionInv
  <1>2. /\ todo'[s] = << >> /\ deleted'[s] = {} /\ inserted_rows'[s] = {}
        /\ \A r \in Session : r # s =>
              /\ todo'[r] = todo[r]
              /\ deleted'[r] = deleted[r] /\ inserted_rows'[r] = inserted_rows[r]
        /\ \A w \in Worker : w # s => job'[w] = job[w]
        /\ status' = status
    BY DropFacts DEF drops
  <1>3. \A r, q \in Session : r # q => dirty(r)' \cap dirty(q)' = {}
    BY <1>1, <1>2 DEF Exclusive, dirty
  <1>4. \A w \in Worker : listed(w)' = IF w = s THEN {} ELSE listed(w)
    BY <1>2, EmptyList DEF listed, Session
  <1>5. Releasing'
    <2>1. ASSUME NEW w \in Worker, NEW c \in listed(w)'
          PROVE  /\ job'[w] # NULL /\ c \in ToSet(Children[task_of(w)'])
                 /\ \A p \in parents(c) : status'[p] = "COMPLETED"
      BY <1>1, <1>2, <1>4, <2>1 DEF Releasing, task_of
    <2>2. \A v, w \in Worker : v # w => listed(v)' \cap listed(w)' = {}
      BY <1>1, <1>4 DEF Releasing
    <2>3. QED
      BY <2>1, <2>2 DEF Releasing, parents, task_of
  <1>6. QED
    BY <1>3, <1>5

-----------------------------------------------------------------------------
(***************************************************************************)
(* Every step keeps what belongs to the sessions.                          *)
(***************************************************************************)

\* The row that a session inserts next is nobody else's, and not the one its
\* own transaction has deleted.
LEMMA InsertedRow ==
    ASSUME RowInv, NEW s \in Session, insert_row(s)
    PROVE  \E h \in Task :
             /\ h = Head(todo[s]) /\ h \in ToSet(todo[s])
             /\ h \notin deleted[s]
             /\ \A r \in Session : r # s => h \notin dirty(r)
             /\ todo'[s] \in Seq(Task) /\ ToSet(todo'[s]) \subseteq ToSet(todo[s])
             /\ \A r \in Session : r # s => todo'[r] = todo[r]
             /\ todo' \in [Session -> Seq(Task)]
             /\ inserted_rows' \in [Session -> SUBSET Task]
             /\ \A r \in Session : r # s => inserted_rows'[r] = inserted_rows[r]
             /\ inserted_rows'[s] = IF owner[h] = Absent THEN inserted_rows[s] \cup {h}
                                                         ELSE inserted_rows[s]
  <1>1. SessionTypes /\ Deleting /\ Releasing
    BY InvSplit DEF SessionInv
  <1>2. todo[s] \in Seq(Task) /\ todo[s] # << >> /\ pc[s] = "inserting"
    BY <1>1 DEF SessionTypes, insert_row
  <1>3. PICK h \in Task : h = Head(todo[s]) /\ h \in ToSet(todo[s])
    BY <1>2, HeadOfList
  <1>4. \A r \in Session : r # s => h \notin dirty(r)
    BY <1>2, <1>3 DEF insert_row, waits_for
  <1>5. h \notin deleted[s]
    <2>1. CASE deleted[s] = {}
      BY <2>1
    <2>2. CASE deleted[s] # {}
      <3>1. s \in Worker /\ job[s] # NULL /\ deleted[s] = {task_of(s)}
        BY <1>1, <2>2 DEF Deleting
      <3>2. h \in ToSet(Children[task_of(s)])
        BY <1>1, <1>3, <3>1 DEF Releasing, listed
      <3>3. task_of(s) \in Task
        BY <1>1, <3>1, JobFacts
      <3>4. QED
        BY <3>1, <3>2, <3>3, NotOwnChild
    <2>3. QED
      BY <2>1, <2>2
  <1>6. todo' = [todo EXCEPT ![s] = Tail(todo[s])]
    BY <1>1 DEF insert_row, SessionTypes
  <1>7. Tail(todo[s]) \in Seq(Task) /\ ToSet(Tail(todo[s])) \subseteq ToSet(todo[s])
    BY <1>2, HeadOfList
  <1>8. /\ todo'[s] \in Seq(Task) /\ ToSet(todo'[s]) \subseteq ToSet(todo[s])
        /\ \A r \in Session : r # s => todo'[r] = todo[r]
        /\ todo' \in [Session -> Seq(Task)]
    BY <1>1, <1>6, <1>7 DEF SessionTypes
  <1>9. inserted_rows' = IF owner[h] = Absent
                         THEN [inserted_rows EXCEPT ![s] = @ \cup {h}] ELSE inserted_rows
    BY <1>3, <1>5 DEF insert_row, no_conflict
  <1>10. /\ inserted_rows' \in [Session -> SUBSET Task]
         /\ \A r \in Session : r # s => inserted_rows'[r] = inserted_rows[r]
         /\ inserted_rows'[s] = IF owner[h] = Absent THEN inserted_rows[s] \cup {h}
                                                     ELSE inserted_rows[s]
    BY <1>1, <1>9 DEF SessionTypes
  <1>11. QED
    BY <1>3, <1>4, <1>5, <1>8, <1>10

\* Inserting one id keeps the invariant of the sessions.
LEMMA InsertStep ==
    ASSUME RowInv, NEW s \in Session, insert_row(s)
    PROVE  SessionInv'
  <1>1. SessionTypes /\ UniqueJobs /\ Deleting /\ Exclusive /\ Releasing
    BY InvSplit DEF SessionInv
  <1>2. UNCHANGED <<owner, expired, held, status, pc, job, deleted>> /\ pc[s] = "inserting"
    BY DEF insert_row, queue_vars
  <1>3. PICK h \in Task :
             /\ h \in ToSet(todo[s]) /\ h \notin deleted[s]
             /\ \A r \in Session : r # s => h \notin dirty(r)
             /\ todo'[s] \in Seq(Task) /\ ToSet(todo'[s]) \subseteq ToSet(todo[s])
             /\ \A r \in Session : r # s => todo'[r] = todo[r]
             /\ todo' \in [Session -> Seq(Task)]
             /\ inserted_rows' \in [Session -> SUBSET Task]
             /\ \A r \in Session : r # s => inserted_rows'[r] = inserted_rows[r]
             /\ inserted_rows'[s] = IF owner[h] = Absent THEN inserted_rows[s] \cup {h}
                                                         ELSE inserted_rows[s]
    BY InsertedRow
  <1>4. SessionTypes'
    <2>1. \A r \in Session :
              /\ pc[r] \notin {"inserting", "processed"} => todo'[r] = << >>
              /\ deleted[r] \cup inserted_rows'[r] # {} => pc[r] = "inserting"
              /\ deleted[r] \cap inserted_rows'[r] = {}
      BY <1>1, <1>2, <1>3 DEF SessionTypes
    <2>2. QED
      BY <1>1, <1>2, <1>3, <2>1 DEF SessionTypes
  <1>5. UniqueJobs'
    BY <1>1, <1>2 DEF UniqueJobs
  <1>6. Deleting'
    <2>1. s \in Worker => deleted[s] # {}
      <3>1. s \in Worker /\ deleted[s] = {} => todo[s] = << >>
        BY <1>1, <1>2 DEF Deleting
      <3>2. QED
        BY <1>3, <3>1, EmptyList
    <2>2. ASSUME NEW r \in Session, deleted'[r] # {}
          PROVE  /\ r \in Worker /\ job'[r] # NULL
                 /\ deleted'[r] = {task_of(r)'} /\ is_current(job[r])'
      BY <1>1, <1>2, <2>2 DEF Deleting, task_of, is_current
    <2>3. ASSUME NEW w \in Worker, pc'[w] = "inserting", deleted'[w] = {}
          PROVE  /\ todo'[w] = << >> /\ inserted_rows'[w] = {}
                 /\ ~is_current(job[w])'
      <3>1. w \in Session /\ w # s /\ todo'[w] = todo[w] /\ inserted_rows'[w] = inserted_rows[w]
        BY <1>2, <1>3, <2>1, <2>3 DEF Session
      <3>2. todo[w] = << >> /\ inserted_rows[w] = {} /\ ~is_current(job[w])
        BY <1>1, <1>2, <2>3 DEF Deleting
      <3>3. QED
        BY <1>2, <3>1, <3>2 DEF is_current
    <2>4. QED
      BY <2>2, <2>3 DEF Deleting
  <1>7. Exclusive'
    <2>1. /\ \A r \in Session : r # s => dirty(r)' = dirty(r)
          /\ dirty(s)' \subseteq dirty(s) \cup {h}
      BY <1>2, <1>3 DEF dirty
    <2>2. \A r, q \in Session : r # q => dirty(r)' \cap dirty(q)' = {}
      BY <1>1, <1>3, <2>1 DEF Exclusive
    <2>3. ASSUME NEW r \in Session, NEW t \in inserted_rows'[r] PROVE owner'[t] = Absent
      BY <1>1, <1>2, <1>3, <2>3 DEF Exclusive
    <2>4. QED
      BY <2>2, <2>3 DEF Exclusive
  <1>8. \A w \in Worker : listed(w)' \subseteq listed(w)
    BY <1>3 DEF listed, Session
  <1>9. Releasing'
    BY <1>1, <1>2, <1>8 DEF Releasing, task_of, parents
  <1>10. QED
    BY <1>4, <1>5, <1>6, <1>7, <1>9 DEF SessionInv

\* The rows that the session does not touch stay as they are.
LEMMA CommitStep ==
    ASSUME RowInv, NEW s \in Session, commit(s)
    PROVE  SessionInv'
  <1>1. SessionTypes /\ UniqueJobs /\ Deleting /\ Exclusive /\ Releasing /\ QueueTypeOK
    BY InvSplit DEF SessionInv
  <1>2. drops(s)
    BY <1>1 DEF commit, ended, drops, SessionTypes
  <1>3. /\ SessionTypes' /\ UniqueJobs'
        /\ s \in Worker => job'[s] = NULL
        /\ \A w \in Worker : w # s => job'[w] = job[w]
        /\ pc'[s] # "inserting"
        /\ deleted'[s] = {} /\ inserted_rows'[s] = {}
        /\ \A r \in Session : r # s =>
              /\ pc'[r] = pc[r] /\ todo'[r] = todo[r]
              /\ deleted'[r] = deleted[r] /\ inserted_rows'[r] = inserted_rows[r]
    BY <1>2, DropFacts
  <1>4. \A t \in Task : owner'[t] = IF t \in inserted_rows[s] THEN Unclaimed
                                    ELSE IF t \in deleted[s] THEN Absent ELSE owner[t]
    BY DEF commit
  <1>5. \A r \in Session : r # s => \A t \in dirty(r) : owner'[t] = owner[t]
    BY <1>1, <1>4 DEF Exclusive, dirty, SessionTypes
  <1>6. \A t \in Task : owner'[t] \in Token => owner'[t] = owner[t]
    BY <1>4, TokenAssumption
  <1>7. Deleting'
    <2>1. ASSUME NEW r \in Session, deleted'[r] # {}
          PROVE  /\ r \in Worker /\ job'[r] # NULL
                 /\ deleted'[r] = {task_of(r)'} /\ is_current(job[r])'
      <3>1. r # s /\ deleted'[r] = deleted[r]
        BY <1>3, <2>1
      <3>2. /\ r \in Worker /\ job[r] # NULL /\ job'[r] = job[r]
            /\ deleted[r] = {task_of(r)} /\ is_current(job[r])
        BY <1>1, <1>3, <2>1, <3>1 DEF Deleting
      <3>3. owner'[task_of(r)] = owner[task_of(r)]
        BY <1>5, <3>1, <3>2 DEF dirty
      <3>4. QED
        BY <3>1, <3>2, <3>3 DEF is_current, task_of
    <2>2. ASSUME NEW w \in Worker, pc'[w] = "inserting", deleted'[w] = {}
          PROVE  /\ todo'[w] = << >> /\ inserted_rows'[w] = {}
                 /\ ~is_current(job[w])'
      <3>1. w # s
        BY <1>3, <2>2
      <3>2. /\ todo'[w] = << >> /\ inserted_rows'[w] = {}
            /\ job'[w] = job[w] /\ ~is_current(job[w]) /\ pc[w] = "inserting"
        BY <1>1, <1>3, <2>2, <3>1 DEF Deleting, Session
      <3>3. job[w] # NULL
        BY <1>1, <3>2 DEF SessionTypes, Session
      <3>4. job[w][1] \in Task /\ job[w][2] \in Token
        BY <1>1, <3>3, JobFacts
      <3>5. owner'[job[w][1]] # job[w][2]
        BY <1>6, <3>2, <3>4 DEF is_current
      <3>6. QED
        BY <3>2, <3>5 DEF is_current
    <2>3. QED
      BY <2>1, <2>2 DEF Deleting
  <1>8. Exclusive'
    <2>1. \A r \in Session : \A t \in inserted_rows'[r] : owner'[t] = Absent
      BY <1>1, <1>3, <1>5 DEF Exclusive, dirty
    <2>2. QED
      BY <1>2, <2>1, DropKeeps DEF Exclusive
  <1>9. QED
    BY <1>2, <1>3, <1>7, <1>8, DropKeeps DEF SessionInv

\* So does the rollback of a deadlock victim.
LEMMA VictimStep ==
    ASSUME RowInv, NEW s \in Session, deadlock_victim(s)
    PROVE  SessionInv'
  <1>1. SessionTypes /\ UniqueJobs /\ Deleting /\ Exclusive /\ Releasing
    BY InvSplit DEF SessionInv
  <1>2. drops(s) /\ owner' = owner
    BY <1>1 DEF deadlock_victim, rolled_back, after_abort, drops, SessionTypes
  <1>3. /\ SessionTypes' /\ UniqueJobs'
        /\ \A w \in Worker : w # s => job'[w] = job[w]
        /\ pc'[s] # "inserting"
        /\ deleted'[s] = {} /\ inserted_rows'[s] = {}
        /\ \A r \in Session : r # s =>
              /\ pc'[r] = pc[r] /\ todo'[r] = todo[r]
              /\ deleted'[r] = deleted[r] /\ inserted_rows'[r] = inserted_rows[r]
    BY <1>2, DropFacts
  <1>4. Deleting'
    BY <1>1, <1>2, <1>3 DEF Deleting, is_current, task_of, Session
  <1>5. Exclusive'
    <2>1. \A r \in Session : \A t \in inserted_rows'[r] : owner'[t] = Absent
      BY <1>1, <1>2, <1>3 DEF Exclusive
    <2>2. QED
      BY <1>2, <2>1, DropKeeps DEF Exclusive
  <1>6. QED
    BY <1>2, <1>3, <1>4, <1>5, DropKeeps DEF SessionInv

\* A list of its own for a session that has none changes nothing for the others.
LEMMA EnqueueStep ==
    ASSUME RowInv, NEW e \in Enqueuer, enqueue_runnable(e)
    PROVE  SessionInv'
  <1>1. SessionTypes /\ UniqueJobs /\ Deleting /\ Exclusive /\ Releasing
    BY InvSplit DEF SessionInv
  <1>2. e \in Session /\ e \notin Worker /\ Worker \subseteq Session
    BY SessionAssumption DEF Session
  <1>3. UNCHANGED <<owner, expired, held, status, job, deleted, inserted_rows>>
    BY DEF enqueue_runnable, queue_vars
  <1>4. runnable_ids \in SUBSET Task
    BY DEF runnable_ids
  <1>5. PICK ids \in SetToSeqs(runnable_ids) : todo' = [todo EXCEPT ![e] = ids]
    BY DEF enqueue_runnable
  <1>6. ids \in Seq(Task)
    BY <1>4, <1>5, ListsOfSet
  <1>7. pc' = [pc EXCEPT ![e] = "inserting"]
    BY DEF enqueue_runnable
  <1>8. /\ todo' \in [Session -> Seq(Task)]
        /\ \A r \in Session : r # e => todo'[r] = todo[r]
        /\ pc' \in [Session -> {"idle", "claimed", "processed", "inserting", "dead"}]
        /\ pc'[e] = "inserting"
        /\ \A r \in Session : r # e => pc'[r] = pc[r]
    BY <1>1, <1>2, <1>5, <1>6, <1>7 DEF SessionTypes
  <1>9. SessionTypes'
    BY <1>1, <1>2, <1>3, <1>8 DEF SessionTypes
  <1>10. \A w \in Worker : pc'[w] = pc[w] /\ todo'[w] = todo[w]
    BY <1>2, <1>8
  <1>11. UniqueJobs' /\ Exclusive'
    BY <1>1, <1>3 DEF UniqueJobs, Exclusive, dirty
  <1>12. Deleting'
    BY <1>1, <1>3, <1>10 DEF Deleting, task_of, is_current
  <1>13. Releasing'
    BY <1>1, <1>3, <1>10 DEF Releasing, listed, task_of, parents
  <1>14. QED
    BY <1>9, <1>11, <1>12, <1>13 DEF SessionInv

\* The entry a worker claims is nobody's: no claim that another one holds has
\* the token, and no row of an open transaction is taken.
LEMMA ClaimStep ==
    ASSUME RowInv, NEW w \in Worker, claim_entry(w)
    PROVE  SessionInv'
  <1>1. /\ SessionTypes /\ UniqueJobs /\ Deleting /\ Exclusive /\ Releasing
        /\ QueueTypeOK
    BY InvSplit DEF SessionInv
  <1> USE DEF Session
  <1>2. PICK t \in Task, k \in fresh_tokens :
          ~skipped(t) /\ claim(t, k, TRUE) /\ job' = [job EXCEPT ![w] = <<t, k>>]
    BY DEF claim_entry
  <1>3. /\ k \in Token /\ (\A u \in Task : owner[u] # k) /\ \A c \in held : c[2] # k
    BY <1>2 DEF fresh_tokens
  <1>4. /\ UNCHANGED <<status, todo, deleted, inserted_rows>>
        /\ pc[w] = "idle" /\ pc' = [pc EXCEPT ![w] = "claimed"]
    BY DEF claim_entry
  <1>5. /\ owner' = [owner EXCEPT ![t] = k] /\ held' = held \cup {<<t, k>>}
        /\ owner[t] # Absent
    <2>1. claimable(t) => owner[t] # Absent
      BY <1>1, TokenAssumption DEF claimable, QueueTypeOK
    <2>2. QED
      BY <1>2, <2>1 DEF claim
  <1>6. /\ owner' \in [Task -> Token \cup {Absent, Unclaimed}] /\ owner'[t] = k
        /\ \A u \in Task : u # t => owner'[u] = owner[u]
    BY <1>1, <1>3, <1>5 DEF QueueTypeOK
  <1>7. /\ job' \in [Worker -> Claim \cup {NULL}] /\ job'[w] = <<t, k>>
        /\ \A v \in Worker : v # w => job'[v] = job[v]
        /\ pc' \in [Session -> {"idle", "claimed", "processed", "inserting", "dead"}]
        /\ pc'[w] = "claimed" /\ \A s \in Session : s # w => pc'[s] = pc[s]
        /\ <<t, k>> # NULL
    BY <1>1, <1>2, <1>3, <1>4, NoneAssumption DEF SessionTypes, Claim
  <1>8. job[w] = NULL /\ todo[w] = << >> /\ deleted[w] = {} /\ inserted_rows[w] = {}
    BY <1>1, <1>4 DEF SessionTypes
  <1>9. \A v \in Worker : v # w /\ job[v] # NULL => job[v][2] # k
    BY <1>1, <1>3, JobFacts
  <1>10. SessionTypes'
    <2>1. held' = {job'[v] : v \in {u \in Worker : job'[u] # NULL}}
      <3>1. held = {job[v] : v \in {u \in Worker : job[u] # NULL}}
        BY <1>1 DEF SessionTypes
      <3>2. ASSUME NEW v \in Worker, job'[v] # NULL PROVE job'[v] \in held'
        BY <1>5, <1>7, <3>1, <3>2
      <3>3. ASSUME NEW c \in held'
            PROVE  \E v \in Worker : job'[v] # NULL /\ c = job'[v]
        <4>1. CASE c = <<t, k>>
          BY <1>7, <4>1
        <4>2. CASE c \in held
          BY <1>7, <1>8, <3>1, <4>2
        <4>3. QED
          BY <1>5, <3>3, <4>1, <4>2
      <3>4. QED
        BY <3>2, <3>3
    <2>2. ASSUME NEW s \in Session
          PROVE  /\ pc'[s] \notin {"inserting", "processed"} => todo[s] = << >>
                 /\ deleted[s] \cup inserted_rows[s] # {} => pc'[s] = "inserting"
                 /\ deleted[s] \cap inserted_rows[s] = {}
                 /\ s \in Worker => (job'[s] = NULL <=> pc'[s] \in {"idle", "dead"})
      <3>1. CASE s = w
        BY <1>7, <1>8, <3>1
      <3>2. CASE s # w
        BY <1>1, <1>7, <3>2 DEF SessionTypes
      <3>3. QED
        BY <3>1, <3>2
    <2>3. QED
      BY <1>1, <1>4, <1>7, <2>1, <2>2 DEF SessionTypes
  <1>11. UniqueJobs'
    BY <1>1, <1>7, <1>9 DEF UniqueJobs
  <1>12. Deleting'
    <2>1. ASSUME NEW s \in Session, deleted[s] # {}
          PROVE  /\ s \in Worker /\ job'[s] # NULL
                 /\ deleted[s] = {task_of(s)'} /\ is_current(job[s])'
      <3>1. s # w
        BY <1>8, <2>1
      <3>2. /\ s \in Worker /\ job[s] # NULL /\ job'[s] = job[s]
            /\ deleted[s] = {task_of(s)} /\ is_current(job[s])
        BY <1>1, <1>7, <2>1, <3>1 DEF Deleting
      <3>3. task_of(s) \in Task /\ task_of(s) # t
        BY <1>1, <1>2, <3>2, JobFacts DEF skipped
      <3>4. QED
        BY <1>6, <3>2, <3>3 DEF is_current, task_of
    <2>2. ASSUME NEW v \in Worker, pc'[v] = "inserting", deleted[v] = {}
          PROVE  /\ todo[v] = << >> /\ inserted_rows[v] = {}
                 /\ ~is_current(job[v])'
      <3>1. v # w
        BY <1>7, <2>2
      <3>2. pc[v] = "inserting" /\ job'[v] = job[v]
        BY <1>7, <2>2, <3>1
      <3>3. /\ todo[v] = << >> /\ inserted_rows[v] = {} /\ ~is_current(job[v])
            /\ job[v] # NULL
        BY <1>1, <2>2, <3>2 DEF Deleting, SessionTypes
      <3>4. job[v][1] \in Task /\ job[v][2] # k
        BY <1>1, <1>9, <3>1, <3>3, JobFacts
      <3>5. owner'[job[v][1]] # job[v][2]
        BY <1>6, <3>3, <3>4 DEF is_current
      <3>6. QED
        BY <3>2, <3>3, <3>5 DEF is_current
    <2>3. QED
      BY <1>4, <2>1, <2>2 DEF Deleting
  <1>13. Exclusive'
    <2>1. ASSUME NEW s \in Session, NEW u \in inserted_rows[s] PROVE owner'[u] = Absent
      BY <1>1, <1>5, <1>6, <2>1 DEF Exclusive, SessionTypes
    <2>2. QED
      BY <1>1, <1>4, <2>1 DEF Exclusive, dirty
  <1>14. Releasing'
    <2>1. \A v \in Worker : listed(v)' = listed(v) /\ (listed(v) # {} => v # w)
      BY <1>4, <1>8, EmptyList DEF listed
    <2>2. QED
      BY <1>1, <1>4, <1>7, <2>1 DEF Releasing, task_of, parents
  <1>15. QED
    BY <1>10, <1>11, <1>12, <1>13, <1>14 DEF SessionInv

\* A task that starts is nobody's parent that is done.
LEMMA StartStep ==
    ASSUME RowInv, NEW w \in Worker, start_task(w)
    PROVE  SessionInv'
  <1>1. SessionTypes /\ UniqueJobs /\ Deleting /\ Exclusive /\ Releasing
    BY InvSplit DEF SessionInv
  <1>2. UNCHANGED <<owner, expired, held, pc, job, todo, deleted, inserted_rows>>
    BY DEF start_task, queue_vars, session_vars
  <1>3. /\ status' = [status EXCEPT ![task_of(w)] = "RUNNING"]
        /\ status[task_of(w)] = "PENDING"
    BY DEF start_task
  <1>4. /\ status' \in [Task -> {"PENDING", "RUNNING", "COMPLETED"}]
        /\ \A p \in Task : status[p] = "COMPLETED" => status'[p] = "COMPLETED"
    BY <1>1, <1>3 DEF SessionTypes
  <1>5. SessionTypes'
    BY <1>1, <1>2, <1>4 DEF SessionTypes
  <1>6. UniqueJobs' /\ Exclusive'
    BY <1>1, <1>2 DEF UniqueJobs, Exclusive, dirty
  <1>7. Deleting'
    BY <1>1, <1>2 DEF Deleting, is_current, task_of
  <1>8. \A c \in Task : parents(c) \subseteq Task
    BY DEF parents
  <1>9. Releasing'
    BY <1>1, <1>2, <1>4 DEF Releasing, listed, task_of, parents
  <1>10. QED
    BY <1>5, <1>6, <1>7, <1>9 DEF SessionInv
\* What a completion releases: children whose other parents are done.
LEMMA ReleasedList ==
    ASSUME NEW t \in Task, NEW ids \in released_lists(t)
    PROVE  /\ ids \in Seq(Task)
           /\ \A c \in ToSet(ids) :
                 /\ c \in Task /\ c \in ToSet(Children[t])
                 /\ \A p \in parents(c) \ {t} : status[p] = "COMPLETED"
  <1>1. Children[t] \in Seq(Task)
    BY ChildrenAssumption
  <1>2. ToSet(Children[t]) \subseteq Task
    <2>1. \A i \in DOMAIN Children[t] : Children[t][i] \in Task
      BY <1>1, LenProperties, ElementOfSeq
    <2>2. QED
      BY <2>1 DEF ToSet
  <1>3. released(t) \in SUBSET Task
    BY <1>2 DEF released
  <1>4. ids \in SetToSeqs(released(t))
    BY DEF released_lists
  <1>5. ids \in Seq(Task) /\ ToSet(ids) \subseteq released(t)
    BY <1>3, <1>4, ListsOfSet
  <1>6. QED
    BY <1>2, <1>5 DEF released

\* A child that nobody but its last parent can release: while it was not yet
\* released, one of its parents, this one, was not done.
LEMMA CompleteStep ==
    ASSUME RowInv, NEW w \in Worker, complete_task(w)
    PROVE  SessionInv'
  <1>1. SessionTypes /\ UniqueJobs /\ Deleting /\ Exclusive /\ Releasing
    BY InvSplit DEF SessionInv
  <1> USE DEF Session
  <1>2. /\ UNCHANGED <<owner, expired, held, job, deleted, inserted_rows>>
        /\ pc[w] = "claimed" /\ pc' = [pc EXCEPT ![w] = "processed"]
    BY DEF complete_task, queue_vars
  <1>3. job[w] # NULL /\ todo[w] = << >> /\ inserted_rows[w] = {} /\ deleted[w] = {}
    BY <1>1, <1>2 DEF SessionTypes
  <1>4. task_of(w) \in Task
    BY <1>1, <1>3, JobFacts
  <1>5. /\ pc' \in [Session -> {"idle", "claimed", "processed", "inserting", "dead"}]
        /\ pc'[w] = "processed" /\ \A s \in Session : s # w => pc'[s] = pc[s]
    BY <1>1, <1>2 DEF SessionTypes
  <1>6. /\ todo' \in [Session -> Seq(Task)]
        /\ \A s \in Session : s # w => todo'[s] = todo[s]
        /\ status' \in [Task -> {"PENDING", "RUNNING", "COMPLETED"}]
        /\ \A p \in Task : status[p] = "COMPLETED" => status'[p] = "COMPLETED"
        /\ \A c \in ToSet(todo'[w]) :
              /\ c \in Task /\ c \in ToSet(Children[task_of(w)])
              /\ status[task_of(w)] # "COMPLETED"
              /\ \A p \in parents(c) : status'[p] = "COMPLETED"
    <2>1. CASE /\ status[task_of(w)] = "RUNNING"
               /\ status' = [status EXCEPT ![task_of(w)] = "COMPLETED"]
               /\ \E ids \in released_lists(task_of(w)) : todo' = [todo EXCEPT ![w] = ids]
      <3>1. PICK ids \in released_lists(task_of(w)) : todo' = [todo EXCEPT ![w] = ids]
        BY <2>1
      <3>2. PICK t \in Task : t = task_of(w)
        BY <1>4
      <3>3. ids \in released_lists(t)
        BY <3>2
      <3>4. /\ ids \in Seq(Task)
            /\ \A c \in ToSet(ids) :
                  /\ c \in Task /\ c \in ToSet(Children[t])
                  /\ \A p \in parents(c) \ {t} : status[p] = "COMPLETED"
        BY <3>3, ReleasedList
      <3>5. /\ todo' \in [Session -> Seq(Task)] /\ todo'[w] = ids
            /\ \A s \in Session : s # w => todo'[s] = todo[s]
        BY <1>1, <3>1, <3>4 DEF SessionTypes
      <3>6. /\ status' \in [Task -> {"PENDING", "RUNNING", "COMPLETED"}]
            /\ status'[t] = "COMPLETED"
            /\ \A p \in Task : status[p] = "COMPLETED" => status'[p] = "COMPLETED"
        BY <1>1, <2>1, <3>2 DEF SessionTypes
      <3>7. ASSUME NEW c \in ToSet(ids), NEW p \in parents(c)
            PROVE  status'[p] = "COMPLETED"
        BY <3>4, <3>6 DEF parents
      <3>8. status[t] # "COMPLETED"
        BY <2>1, <3>2
      <3>9. QED
        BY <3>2, <3>4, <3>5, <3>6, <3>7, <3>8
    <2>2. CASE status[task_of(w)] = "COMPLETED" /\ UNCHANGED <<status, todo>>
      BY <1>1, <1>3, <2>2, EmptyList DEF SessionTypes
    <2>3. QED
      BY <2>1, <2>2 DEF complete_task
  <1>7. SessionTypes'
    <2>1. ASSUME NEW s \in Session
          PROVE  /\ pc'[s] \notin {"inserting", "processed"} => todo'[s] = << >>
                 /\ deleted[s] \cup inserted_rows[s] # {} => pc'[s] = "inserting"
                 /\ s \in Worker => (job[s] = NULL <=> pc'[s] \in {"idle", "dead"})
      <3>1. CASE s = w
        BY <1>3, <1>5, <3>1
      <3>2. CASE s # w
        BY <1>1, <1>5, <1>6, <3>2 DEF SessionTypes
      <3>3. QED
        BY <3>1, <3>2
    <2>2. QED
      BY <1>1, <1>2, <1>5, <1>6, <2>1 DEF SessionTypes
  <1>8. UniqueJobs' /\ Exclusive'
    BY <1>1, <1>2 DEF UniqueJobs, Exclusive, dirty
  <1>9. Deleting'
    <2>1. ASSUME NEW s \in Session, deleted'[s] # {}
          PROVE  /\ s \in Worker /\ job'[s] # NULL
                 /\ deleted'[s] = {task_of(s)'} /\ is_current(job[s])'
      BY <1>1, <1>2, <2>1 DEF Deleting, task_of, is_current
    <2>2. ASSUME NEW v \in Worker, pc'[v] = "inserting", deleted'[v] = {}
          PROVE  /\ todo'[v] = << >> /\ inserted_rows'[v] = {} /\ ~is_current(job[v])'
      <3>1. v # w
        BY <1>5, <2>2
      <3>2. pc[v] = "inserting" /\ todo'[v] = todo[v]
        BY <1>5, <1>6, <2>2, <3>1
      <3>3. QED
        BY <1>1, <1>2, <2>2, <3>2 DEF Deleting, is_current
    <2>3. QED
      BY <2>1, <2>2 DEF Deleting
  <1>10. Releasing'
    <2>1. /\ \A v \in Worker : v # w => listed(v)' = listed(v)
          /\ listed(w)' = ToSet(todo'[w])
      BY <1>2, <1>3, <1>6 DEF listed
    <2>2. ASSUME NEW v \in Worker, NEW c \in listed(v)'
          PROVE  /\ job[v] # NULL /\ c \in ToSet(Children[task_of(v)])
                 /\ \A p \in parents(c) : status'[p] = "COMPLETED"
      <3>1. CASE v = w
        BY <1>3, <1>6, <2>1, <2>2, <3>1
      <3>2. CASE v # w
        <4>1. c \in listed(v)
          BY <2>1, <2>2, <3>2
        <4>2. /\ job[v] # NULL /\ c \in ToSet(Children[task_of(v)])
              /\ \A p \in parents(c) : status[p] = "COMPLETED"
          BY <1>1, <4>1 DEF Releasing
        <4>3. QED
          BY <1>6, <4>2 DEF parents
      <3>3. QED
        BY <3>1, <3>2
    <2>3. ASSUME NEW v \in Worker, v # w PROVE listed(v)' \cap listed(w)' = {}
      <3>1. ASSUME NEW c \in listed(v)', c \in listed(w)' PROVE FALSE
        <4>1. \A p \in parents(c) : status[p] = "COMPLETED"
          BY <1>1, <2>1, <2>3, <3>1 DEF Releasing
        <4>2. task_of(w) \in parents(c) /\ status[task_of(w)] # "COMPLETED"
          BY <1>4, <1>6, <2>1, <3>1 DEF parents
        <4>3. QED
          BY <4>1, <4>2
      <3>2. QED
        BY <3>1
    <2>4. ASSUME NEW u \in Worker, NEW v \in Worker, u # v
          PROVE  listed(u)' \cap listed(v)' = {}
      <3>1. CASE u = w
        BY <2>3, <2>4, <3>1
      <3>2. CASE v = w
        BY <2>3, <2>4, <3>2
      <3>3. CASE u # w /\ v # w
        BY <1>1, <2>1, <2>4, <3>3 DEF Releasing
      <3>4. QED
        BY <3>1, <3>2, <3>3
    <2>5. QED
      BY <1>2, <2>2, <2>4 DEF Releasing, task_of, parents
  <1>11. QED
    BY <1>7, <1>8, <1>9, <1>10 DEF SessionInv

\* A finish deletes its own entry or, without its claim, nothing.
LEMMA DeleteStep ==
    ASSUME RowInv, NEW w \in Worker, finish_deletes(w)
    PROVE  SessionInv'
  <1>1. /\ SessionTypes /\ UniqueJobs /\ Deleting /\ Exclusive /\ Releasing
        /\ QueueTypeOK
    BY InvSplit DEF SessionInv
  <1> USE DEF Session
  <1>2. /\ UNCHANGED <<owner, expired, held, status, job, inserted_rows>>
        /\ pc[w] = "processed" /\ pc' = [pc EXCEPT ![w] = "inserting"]
    BY DEF finish_deletes, queue_vars
  <1>3. job[w] # NULL /\ inserted_rows[w] = {} /\ deleted[w] = {}
    BY <1>1, <1>2 DEF SessionTypes
  <1>4. /\ task_of(w) \in Task /\ job[w] \in held /\ job[w][2] \in Token
        /\ task_of(w) = job[w][1]
    BY <1>1, <1>3, JobFacts
  <1>5. /\ pc' \in [Session -> {"idle", "claimed", "processed", "inserting", "dead"}]
        /\ pc'[w] = "inserting" /\ \A s \in Session : s # w => pc'[s] = pc[s]
    BY <1>1, <1>2 DEF SessionTypes
  <1>6. /\ todo' \in [Session -> Seq(Task)] /\ deleted' \in [Session -> SUBSET Task]
        /\ \A s \in Session : s # w => todo'[s] = todo[s] /\ deleted'[s] = deleted[s]
        /\ \/ is_current(job[w]) /\ deleted'[w] = {task_of(w)} /\ todo'[w] = todo[w]
           \/ ~is_current(job[w]) /\ deleted'[w] = {} /\ todo'[w] = << >>
    <2>1. CASE is_current(job[w])
      <3>1. deleted' = [deleted EXCEPT ![w] = {task_of(w)}] /\ todo' = todo
        BY <2>1 DEF finish_deletes
      <3>2. QED
        BY <1>1, <1>4, <2>1, <3>1 DEF SessionTypes
    <2>2. CASE ~is_current(job[w])
      <3>1. todo' = [todo EXCEPT ![w] = << >>] /\ deleted' = deleted
        BY <2>2 DEF finish_deletes
      <3>2. QED
        BY <1>1, <1>3, <2>2, <3>1, EmptyList DEF SessionTypes
    <2>3. QED
      BY <2>1, <2>2
  <1>7. SessionTypes'
    <2>1. ASSUME NEW s \in Session
          PROVE  /\ pc'[s] \notin {"inserting", "processed"} => todo'[s] = << >>
                 /\ deleted'[s] \cup inserted_rows[s] # {} => pc'[s] = "inserting"
                 /\ deleted'[s] \cap inserted_rows[s] = {}
                 /\ s \in Worker => (job[s] = NULL <=> pc'[s] \in {"idle", "dead"})
      <3>1. CASE s = w
        BY <1>3, <1>5, <3>1
      <3>2. CASE s # w
        BY <1>1, <1>5, <1>6, <3>2 DEF SessionTypes
      <3>3. QED
        BY <3>1, <3>2
    <2>2. QED
      BY <1>1, <1>2, <1>5, <1>6, <2>1 DEF SessionTypes
  <1>8. UniqueJobs'
    BY <1>1, <1>2 DEF UniqueJobs
  <1>9. Deleting'
    <2>1. ASSUME NEW s \in Session, deleted'[s] # {}
          PROVE  /\ s \in Worker /\ job'[s] # NULL
                 /\ deleted'[s] = {task_of(s)'} /\ is_current(job[s])'
      <3>1. CASE s = w
        BY <1>2, <1>3, <1>6, <2>1, <3>1 DEF task_of, is_current
      <3>2. CASE s # w
        BY <1>1, <1>2, <1>6, <2>1, <3>2 DEF Deleting, task_of, is_current
      <3>3. QED
        BY <3>1, <3>2
    <2>2. ASSUME NEW v \in Worker, pc'[v] = "inserting", deleted'[v] = {}
          PROVE  /\ todo'[v] = << >> /\ inserted_rows'[v] = {} /\ ~is_current(job[v])'
      <3>1. CASE v = w
        BY <1>2, <1>3, <1>6, <2>2, <3>1 DEF is_current
      <3>2. CASE v # w
        <4>1. pc[v] = "inserting" /\ todo'[v] = todo[v] /\ deleted[v] = {}
          BY <1>5, <1>6, <2>2, <3>2
        <4>2. QED
          BY <1>1, <1>2, <4>1 DEF Deleting, is_current
      <3>3. QED
        BY <3>1, <3>2
    <2>3. QED
      BY <2>1, <2>2 DEF Deleting
  <1>10. Exclusive'
    <2>1. \A s \in Session : s # w => dirty(s)' = dirty(s)
      BY <1>2, <1>6 DEF dirty
    <2>2. dirty(w)' \subseteq {task_of(w)} /\ (dirty(w)' # {} => is_current(job[w]))
      BY <1>2, <1>3, <1>6 DEF dirty
    <2>3. ASSUME NEW s \in Session, s # w, is_current(job[w])
          PROVE  task_of(w) \notin dirty(s)
      <3>1. owner[task_of(w)] \in Token
        BY <1>4, <2>3 DEF is_current
      <3>2. task_of(w) \notin inserted_rows[s]
        BY <1>1, <3>1, TokenAssumption DEF Exclusive
      <3>3. ASSUME task_of(w) \in deleted[s] PROVE FALSE
        <4>1. /\ s \in Worker /\ job[s] # NULL
              /\ task_of(w) = task_of(s) /\ is_current(job[s])
          BY <1>1, <3>3 DEF Deleting
        <4>2. job[s] = job[w]
          <5>1. job[s] = <<job[s][1], job[s][2]>> /\ job[w] = <<job[w][1], job[w][2]>>
            BY <1>1, <1>3, <4>1, JobFacts
          <5>2. job[s][1] = job[w][1] /\ job[s][2] = job[w][2]
            BY <2>3, <4>1 DEF task_of, is_current
          <5>3. QED
            BY <5>1, <5>2
        <4>3. QED
          BY <1>1, <2>3, <4>1, <4>2 DEF UniqueJobs
      <3>4. QED
        BY <3>2, <3>3 DEF dirty
    <2>4. ASSUME NEW s \in Session, s # w
          PROVE  dirty(s)' \cap dirty(w)' = {}
      BY <2>1, <2>2, <2>3, <2>4
    <2>5. ASSUME NEW r \in Session, NEW s \in Session, r # s
          PROVE  dirty(r)' \cap dirty(s)' = {}
      <3>1. CASE r = w
        BY <2>4, <2>5, <3>1
      <3>2. CASE s = w
        BY <2>4, <2>5, <3>2
      <3>3. CASE r # w /\ s # w
        BY <1>1, <2>1, <2>5, <3>3 DEF Exclusive
      <3>4. QED
        BY <3>1, <3>2, <3>3
    <2>6. QED
      BY <1>1, <1>2, <2>5 DEF Exclusive
  <1>11. Releasing'
    <2>1. \A v \in Worker : listed(v)' \subseteq listed(v)
      BY <1>2, <1>6, EmptyList DEF listed
    <2>2. QED
      BY <1>1, <1>2, <2>1 DEF Releasing, task_of, parents
  <1>12. QED
    BY <1>7, <1>8, <1>9, <1>10, <1>11 DEF SessionInv

\* So does a lease that runs out.
LEMMA ExpiryStep ==
    ASSUME RowInv, NEW t \in Task, lease_expires(t)
    PROVE  SessionInv'
  <1>1. SessionTypes /\ UniqueJobs /\ Deleting /\ Exclusive /\ Releasing
    BY InvSplit DEF SessionInv
  <1>2. UNCHANGED <<owner, held, status, pc, job, todo, deleted, inserted_rows>>
    BY DEF lease_expires, leases_expire, session_vars
  <1>3. SessionTypes' /\ UniqueJobs' /\ Exclusive'
    BY <1>1, <1>2 DEF SessionTypes, UniqueJobs, Exclusive, dirty
  <1>4. Deleting' /\ Releasing'
    BY <1>1, <1>2 DEF Deleting, is_current, task_of, Releasing, listed, parents
  <1>5. QED
    BY <1>3, <1>4 DEF SessionInv

\* A heartbeat changes only the lease of its entry.
LEMMA HeartbeatStep ==
    ASSUME RowInv, NEW w \in Worker, heartbeat_entry(w)
    PROVE  SessionInv'
  <1>1. SessionTypes /\ UniqueJobs /\ Deleting /\ Exclusive /\ Releasing
    BY InvSplit DEF SessionInv
  <1>2. UNCHANGED <<owner, held, status, pc, job, todo, deleted, inserted_rows>>
    BY DEF heartbeat_entry, heartbeat, session_vars
  <1>3. SessionTypes' /\ UniqueJobs' /\ Exclusive'
    BY <1>1, <1>2 DEF SessionTypes, UniqueJobs, Exclusive, dirty
  <1>4. Deleting' /\ Releasing'
    BY <1>1, <1>2 DEF Deleting, is_current, task_of, Releasing, listed, parents
  <1>5. QED
    BY <1>3, <1>4 DEF SessionInv

\* A worker that is between two statements has a claim and nothing open.
LEMMA BetweenStatements ==
    ASSUME RowInv, NEW w \in Worker, pc[w] \in {"claimed", "processed"}
    PROVE  /\ w \in Session /\ job[w] # NULL
           /\ deleted[w] = {} /\ inserted_rows[w] = {}
           /\ job[w] \in Claim /\ job[w] \in held
           /\ job[w][1] \in Task /\ job[w][2] \in Token
  <1>1. SessionTypes
    BY InvSplit DEF SessionInv
  <1>2. w \in Session /\ job[w] # NULL /\ deleted[w] = {} /\ inserted_rows[w] = {}
    BY <1>1 DEF SessionTypes, Session
  <1>3. QED
    BY <1>1, <1>2, JobFacts

\* The entry that a worker gives back is in no transaction of another one.
LEMMA ReleaseStep ==
    ASSUME RowInv, NEW w \in Worker, release_entry(w)
    PROVE  SessionInv'
  <1>1. /\ SessionTypes /\ UniqueJobs /\ Deleting /\ Exclusive /\ Releasing
        /\ QueueTypeOK
    BY InvSplit DEF SessionInv
  <1>2. /\ w \in Session /\ job[w] # NULL
        /\ job[w][1] \in Task /\ job[w][2] \in Token
    BY BetweenStatements DEF release_entry
  <1>3. drops(w)
    BY <1>1, <1>2 DEF release_entry, release, ended, drops, SessionTypes
  <1>4. /\ SessionTypes' /\ UniqueJobs'
        /\ \A v \in Worker : v # w => job'[v] = job[v]
        /\ pc'[w] # "inserting"
        /\ deleted'[w] = {} /\ inserted_rows'[w] = {}
        /\ \A r \in Session : r # w =>
              /\ pc'[r] = pc[r] /\ todo'[r] = todo[r]
              /\ deleted'[r] = deleted[r] /\ inserted_rows'[r] = inserted_rows[r]
    BY <1>2, <1>3, DropFacts
  <1>5. \A t \in Task : owner'[t] = IF is_current(job[w]) /\ t = job[w][1]
                                    THEN Unclaimed ELSE owner[t]
    BY <1>1, <1>2 DEF release_entry, release, QueueTypeOK
  <1>6. Deleting'
    <2>1. ASSUME NEW r \in Session, deleted'[r] # {}
          PROVE  /\ r \in Worker /\ job'[r] # NULL
                 /\ deleted'[r] = {task_of(r)'} /\ is_current(job[r])'
      <3>1. r # w /\ deleted'[r] = deleted[r]
        BY <1>4, <2>1
      <3>2. /\ r \in Worker /\ job[r] # NULL /\ job'[r] = job[r]
            /\ deleted[r] = {task_of(r)} /\ is_current(job[r])
        BY <1>1, <1>4, <2>1, <3>1 DEF Deleting
      <3>3. job[r] # job[w]
        BY <1>1, <3>1, <3>2 DEF UniqueJobs
      <3>4. /\ job[r] = <<job[r][1], job[r][2]>> /\ job[w] = <<job[w][1], job[w][2]>>
            /\ job[r][1] \in Task
        BY <1>1, <1>2, <3>2, JobFacts
      <3>5. ~(is_current(job[w]) /\ job[r][1] = job[w][1])
        BY <3>2, <3>3, <3>4 DEF is_current
      <3>6. owner'[job[r][1]] = job[r][2]
        BY <1>5, <3>2, <3>4, <3>5 DEF is_current
      <3>7. QED
        BY <3>1, <3>2, <3>6 DEF is_current, task_of
    <2>2. ASSUME NEW v \in Worker, pc'[v] = "inserting", deleted'[v] = {}
          PROVE  /\ todo'[v] = << >> /\ inserted_rows'[v] = {}
                 /\ ~is_current(job[v])'
      <3>1. v # w
        BY <1>4, <2>2
      <3>2. /\ todo'[v] = << >> /\ inserted_rows'[v] = {}
            /\ job'[v] = job[v] /\ ~is_current(job[v]) /\ pc[v] = "inserting"
        BY <1>1, <1>4, <2>2, <3>1 DEF Deleting, Session
      <3>3. job[v] # NULL
        BY <1>1, <3>2 DEF SessionTypes, Session
      <3>4. job[v][1] \in Task /\ job[v][2] \in Token
        BY <1>1, <3>3, JobFacts
      <3>5. owner'[job[v][1]] # job[v][2]
        BY <1>5, <3>2, <3>4, TokenAssumption DEF is_current
      <3>6. QED
        BY <3>2, <3>5 DEF is_current
    <2>3. QED
      BY <2>1, <2>2 DEF Deleting
  <1>7. Exclusive'
    <2>1. ASSUME NEW r \in Session, NEW t \in inserted_rows'[r]
          PROVE  owner'[t] = Absent
      <3>0. t \in inserted_rows[r]
        BY <1>4, <2>1
      <3>1. t \in inserted_rows[r] /\ t \in Task /\ owner[t] = Absent
        <4>1. inserted_rows[r] \in SUBSET Task
          BY <1>1 DEF SessionTypes
        <4>2. owner[t] = Absent
          BY <1>1, <3>0 DEF Exclusive
        <4>3. QED
          BY <3>0, <4>1, <4>2
      <3>2. is_current(job[w]) => t # job[w][1]
        BY <1>2, <3>1, TokenAssumption DEF is_current
      <3>3. QED
        BY <1>5, <3>1, <3>2
    <2>2. QED
      BY <1>2, <1>3, <2>1, DropKeeps DEF Exclusive
  <1>8. QED
    BY <1>2, <1>3, <1>4, <1>6, <1>7, DropKeeps DEF SessionInv

\* A claim that is given up leaves the rows as they are.
LEMMA AbandonStep ==
    ASSUME RowInv, NEW w \in Worker, abandon(w)
    PROVE  SessionInv'
  <1>1. SessionTypes /\ UniqueJobs /\ Deleting /\ Exclusive /\ Releasing
    BY InvSplit DEF SessionInv
  <1>2. w \in Session /\ job[w] # NULL
    BY BetweenStatements DEF abandon
  <1>3. drops(w) /\ owner' = owner
    BY <1>1, <1>2 DEF abandon, forget, ended, drops, SessionTypes
  <1>4. /\ SessionTypes' /\ UniqueJobs'
        /\ \A v \in Worker : v # w => job'[v] = job[v]
        /\ pc'[w] # "inserting"
        /\ deleted'[w] = {} /\ inserted_rows'[w] = {}
        /\ \A r \in Session : r # w =>
              /\ pc'[r] = pc[r] /\ todo'[r] = todo[r]
              /\ deleted'[r] = deleted[r] /\ inserted_rows'[r] = inserted_rows[r]
    BY <1>2, <1>3, DropFacts
  <1>5. Deleting'
    BY <1>1, <1>3, <1>4 DEF Deleting, is_current, task_of, Session
  <1>6. Exclusive'
    <2>1. \A r \in Session : \A t \in inserted_rows'[r] : owner'[t] = Absent
      BY <1>1, <1>3, <1>4 DEF Exclusive
    <2>2. QED
      BY <1>2, <1>3, <2>1, DropKeeps DEF Exclusive
  <1>7. QED
    BY <1>2, <1>3, <1>4, <1>5, <1>6, DropKeeps DEF SessionInv

-----------------------------------------------------------------------------
(***************************************************************************)
(* Every step is one of the queue interface, or none.                      *)
(***************************************************************************)

\* A commit of one that enqueues is an enqueue; that of a worker is a finish.
LEMMA CommitIsAtomic ==
    ASSUME RowInv, NEW s \in Session, commit(s)
    PROVE  QueueNext
  <1>1. /\ SessionTypes /\ UniqueJobs /\ Deleting /\ Exclusive /\ Releasing
        /\ QueueTypeOK
    BY InvSplit DEF SessionInv
  <1>2. inserted_rows[s] \in SUBSET Task /\ deleted[s] \cap inserted_rows[s] = {}
    BY <1>1 DEF SessionTypes
  <1>3. \A t \in inserted_rows[s] : owner[t] = Absent
    BY <1>1 DEF Exclusive
  <1>4. /\ owner' = [t \in Task |-> IF t \in inserted_rows[s] THEN Unclaimed
                                    ELSE IF t \in deleted[s] THEN Absent ELSE owner[t]]
        /\ expired' = expired \ deleted[s] /\ pc[s] = "inserting"
        /\ held' = IF s \in Worker THEN held \ {job[s]} ELSE held
    BY DEF commit
  <1>5. CASE s \notin Worker
    <2>1. deleted[s] = {}
      BY <1>1, <1>5 DEF Deleting
    <2>2. enqueue(inserted_rows[s])
      BY <1>1, <1>2, <1>3, <1>4, <1>5, <2>1 DEF enqueue, inserted, QueueTypeOK
    <2>3. QED
      BY <1>2, <2>2 DEF QueueNext
  <1>6. CASE s \in Worker
    <2>1. job[s] # NULL
      BY <1>1, <1>4, <1>6 DEF SessionTypes
    <2>2. job[s] \in Claim /\ job[s] \in held /\ task_of(s) = job[s][1] /\ job[s][1] \in Task
      BY <1>1, <1>6, <2>1, JobFacts
    <2>3. finish(job[s], inserted_rows[s])
      <3>1. CASE deleted[s] = {}
        <4>1. inserted_rows[s] = {} /\ ~is_current(job[s])
          BY <1>1, <1>4, <1>6, <3>1 DEF Deleting
        <4>2. owner' = owner /\ expired' = expired
          BY <1>1, <1>4, <3>1, <4>1 DEF QueueTypeOK
        <4>3. QED
          BY <1>4, <1>6, <2>2, <4>1, <4>2 DEF finish, lease_ended
      <3>2. CASE deleted[s] # {}
        <4>1. deleted[s] = {job[s][1]} /\ is_current(job[s])
          BY <1>1, <2>2, <3>2 DEF Deleting
        <4>2. owner' = inserted([owner EXCEPT ![job[s][1]] = Absent], inserted_rows[s])
          BY <1>1, <1>2, <1>3, <1>4, <2>2, <4>1 DEF inserted, QueueTypeOK
        <4>3. QED
          BY <1>4, <1>6, <2>2, <4>1, <4>2 DEF finish, lease_ended
      <3>3. QED
        BY <3>1, <3>2
    <2>4. QED
      BY <1>2, <2>2, <2>3 DEF QueueNext
  <1>7. QED
    BY <1>5, <1>6

\* An aborted worker forgets its claim; the entry is as it was.
LEMMA VictimForgets ==
    ASSUME RowInv, NEW s \in Session, deadlock_victim(s)
    PROVE  [QueueNext]_queue_vars
  <1>1. SessionTypes
    BY InvSplit DEF SessionInv
  <1>2. /\ UNCHANGED <<owner, expired>>
        /\ held' = IF s \in Worker THEN held \ {job[s]} ELSE held
    BY DEF deadlock_victim
  <1>3. CASE s \notin Worker
    BY <1>2, <1>3 DEF queue_vars
  <1>4. CASE s \in Worker
    <2>1. \E r \in Session : waits_for(s, r)
      BY DEF deadlock_victim, circle
    <2>2. job[s] # NULL
      BY <1>1, <1>4, <2>1 DEF waits_for, SessionTypes, Session
    <2>3. forget(job[s]) /\ job[s] \in Claim
      BY <1>1, <1>2, <1>4, <2>2, JobFacts DEF forget
    <2>4. QED
      BY <2>3 DEF QueueNext
  <1>5. QED
    BY <1>3, <1>4

\* The step of the queue that each step of a session, or of the clock, is.
LEMMA StepImplements ==
    ASSUME RowInv, InsertionNext
    PROVE  [QueueNext]_queue_vars
  <1>1. ASSUME NEW s \in Session, insert_row(s) PROVE [QueueNext]_queue_vars
    BY <1>1 DEF insert_row
  <1>2. ASSUME NEW e \in Enqueuer, enqueue_runnable(e) PROVE [QueueNext]_queue_vars
    BY <1>2 DEF enqueue_runnable
  <1>3. ASSUME NEW w \in Worker, claim_entry(w) PROVE [QueueNext]_queue_vars
    <2>1. PICK t \in Task, k \in fresh_tokens : claim(t, k, TRUE)
      BY <1>3 DEF claim_entry
    <2>2. k \in Token
      BY DEF fresh_tokens
    <2>3. QED
      BY <2>1, <2>2 DEF QueueNext
  <1>4. ASSUME NEW w \in Worker, start_task(w) PROVE [QueueNext]_queue_vars
    BY <1>4 DEF start_task
  <1>5. ASSUME NEW w \in Worker, complete_task(w) PROVE [QueueNext]_queue_vars
    BY <1>5 DEF complete_task
  <1>6. ASSUME NEW w \in Worker, finish_deletes(w) PROVE [QueueNext]_queue_vars
    BY <1>6 DEF finish_deletes
  <1>7. ASSUME NEW t \in Task, lease_expires(t) PROVE [QueueNext]_queue_vars
    <2>1. leases_expire({t}) /\ {t} \in SUBSET Task
      BY <1>7 DEF lease_expires
    <2>2. QED
      BY <2>1 DEF QueueNext
  <1>8. ASSUME NEW w \in Worker, heartbeat_entry(w) \/ release_entry(w) \/ abandon(w)
        PROVE  [QueueNext]_queue_vars
    <2>1. job[w] \in Claim
      BY <1>8, BetweenStatements DEF heartbeat_entry, release_entry, abandon
    <2>2. QED
      BY <1>8, <2>1 DEF heartbeat_entry, release_entry, abandon, QueueNext
  <1>9. QED
    BY <1>1, <1>2, <1>3, <1>4, <1>5, <1>6, <1>7, <1>8, CommitIsAtomic, VictimForgets
    DEF InsertionNext

-----------------------------------------------------------------------------
(***************************************************************************)
(* The theorems.                                                           *)
(***************************************************************************)

\* The initial state satisfies the invariant.
LEMMA InsertionsStartWell == InsertionInit => RowInv
  <1> SUFFICES ASSUME InsertionInit PROVE RowInv
    OBVIOUS
  <1>1. QueueTypeOK
    BY QInitInv DEF InsertionInit
  <1>2. /\ owner = [t \in Task |-> Absent] /\ held = {}
        /\ status = [t \in Task |-> "PENDING"] /\ pc = [s \in Session |-> "idle"]
        /\ job = [w \in Worker |-> NULL] /\ todo = [s \in Session |-> << >>]
        /\ deleted = [s \in Session |-> {}] /\ inserted_rows = [s \in Session |-> {}]
    BY DEF InsertionInit, QueueInit
  <1>3. /\ \A s \in Session : /\ pc[s] = "idle" /\ todo[s] = << >>
                              /\ deleted[s] = {} /\ inserted_rows[s] = {}
        /\ \A w \in Worker : w \in Session /\ job[w] = NULL
    BY <1>2 DEF Session
  <1>4. SessionTypes
    <2>1. todo \in [Session -> Seq(Task)]
      BY <1>2, EmptyList
    <2>2. {job[w] : w \in {v \in Worker : job[v] # NULL}} = {}
      BY <1>3
    <2>3. QED
      BY <1>2, <1>3, <2>1, <2>2 DEF SessionTypes
  <1>5. UniqueJobs /\ Deleting /\ Exclusive
    BY <1>3 DEF UniqueJobs, Deleting, Exclusive, dirty
  <1>6. Releasing
    BY <1>3, EmptyList DEF Releasing, listed
  <1>7. QED
    BY <1>1, <1>4, <1>5, <1>6, InvSplit DEF SessionInv

\* Every step, of whichever session, keeps the invariant.
LEMMA InsertionsKeepInv == RowInv /\ [InsertionNext]_insertion_vars => RowInv'
  <1>1. ASSUME RowInv, InsertionNext PROVE RowInv'
    <2>1. QueueTypeOK'
      BY <1>1, InvSplit, StepImplements, QNextInv
    <2>2. SessionInv'
      BY <1>1, InsertStep, CommitStep, VictimStep, EnqueueStep, ClaimStep, StartStep,
         CompleteStep, DeleteStep, ExpiryStep, HeartbeatStep, ReleaseStep, AbandonStep
      DEF InsertionNext
    <2>3. QED
      BY <2>1, <2>2, InvSplit, PTL
  <1>2. ASSUME RowInv, UNCHANGED insertion_vars PROVE RowInv'
    <2>1. UNCHANGED <<owner, expired, held, status, pc, job, todo, deleted, inserted_rows>>
      BY <1>2 DEF insertion_vars, queue_vars, session_vars
    <2>2. SessionInv /\ QueueTypeOK
      BY <1>2, InvSplit
    <2>3. QueueTypeOK'
      BY <2>1, <2>2, QNextInv DEF queue_vars
    <2>4. SessionTypes' /\ UniqueJobs' /\ Deleting' /\ Exclusive'
      BY <2>1, <2>2 DEF SessionInv, SessionTypes, UniqueJobs, Deleting, Exclusive,
         dirty, is_current, task_of
    <2>5. Releasing'
      BY <2>1, <2>2 DEF SessionInv, Releasing, listed, parents, task_of
    <2>6. QED
      BY <2>3, <2>4, <2>5, InvSplit, PTL DEF SessionInv
  <1>3. QED
    BY <1>1, <1>2

\* The invariant holds in every state.
LEMMA RowInvHolds == InsertionSpec => []RowInv
  BY InsertionsStartWell, InsertionsKeepInv, PTL DEF InsertionSpec

\* Every variable has its type, and what a session holds fits where it stands:
\* whatever enqueue() and finish() meet, rows are changed by open INSERTs only.
THEOREM InsertionsTypeCorrect == InsertionSpec => []TypeOK
  <1>1. RowInv => TypeOK
    BY DEF RowInv
  <1>2. QED
    BY RowInvHolds, <1>1, PTL

\* Row by row, with waits, deadlocks and rollbacks, enqueue() and finish() are
\* the atomic operations of the queue interface.
THEOREM RowsImplementQueue == InsertionSpec => ImplementsExecutionQueue
  <1>1. InsertionInit => QueueInit
    BY DEF InsertionInit
  <1>2. RowInv /\ [InsertionNext]_insertion_vars => [QueueNext]_queue_vars
    BY StepImplements DEF insertion_vars
  <1>3. QED
    BY RowInvHolds, <1>1, <1>2, PTL DEF InsertionSpec, ImplementsExecutionQueue, QueueSpec

\* Workers that finish never deadlock among themselves: what one of them waits
\* for is the deleted row of a child of its task, and the dependencies have no
\* cycle.
THEOREM WorkersNeverDeadlock == InsertionSpec => []FinishesNeverDeadlock
  <1>1. RowInv => FinishesNeverDeadlock
    <2> SUFFICES ASSUME RowInv, NEW S \in SUBSET Worker, circle(S) PROVE FALSE
      BY DEF FinishesNeverDeadlock
    <2>1. SessionTypes /\ Deleting /\ Releasing
      BY InvSplit DEF SessionInv
    <2> DEFINE T == {task_of(s) : s \in S}
    <2>2. ASSUME NEW s \in S
          PROVE  /\ task_of(s) \in Task
                 /\ \E r \in S : task_of(r) \in ToSet(Children[task_of(s)])
      <3>1. PICK r \in S : waits_for(s, r)
        BY DEF circle
      <3>2. s \in Worker /\ r \in Worker /\ s \in Session /\ r \in Session /\ r # s
        BY <3>1 DEF Session, waits_for
      <3>3. job[s] # NULL
        BY <2>1, <3>1, <3>2 DEF waits_for, SessionTypes
      <3>4. task_of(s) \in Task
        BY <2>1, <3>2, <3>3, JobFacts
      <3>5. todo[s] \in Seq(Task) /\ todo[s] # << >> /\ Head(todo[s]) \in dirty(r)
        BY <2>1, <3>1, <3>2 DEF waits_for, SessionTypes
      <3>6. Head(todo[s]) \in listed(s)
        BY <3>5, HeadOfList DEF listed
      <3>7. Head(todo[s]) \in ToSet(Children[task_of(s)])
        BY <2>1, <3>2, <3>6 DEF Releasing
      <3>8. Head(todo[s]) \notin inserted_rows[r]
        BY <2>1, <3>2, <3>6 DEF Releasing, listed
      <3>9. Head(todo[s]) = task_of(r)
        BY <2>1, <3>2, <3>5, <3>8 DEF dirty, Deleting
      <3>10. QED
        BY <3>4, <3>7, <3>9
    <2>3. T \in (SUBSET Task) \ {{}}
      BY <2>2 DEF circle
    <2>4. PICK t \in T : ToSet(Children[t]) \cap T = {}
      BY <2>3, ChildrenAssumption
    <2>5. QED
      BY <2>2, <2>4
  <1>2. QED
    BY RowInvHolds, <1>1, PTL

=============================================================================
