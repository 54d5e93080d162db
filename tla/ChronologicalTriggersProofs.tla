--------------------- MODULE ChronologicalTriggersProofs ---------------------
(***************************************************************************)
(* Proofs about scheduled starts, for any number of triggers and           *)
(* Schedulers, any intervals and ends, and any number of crashes.          *)
(***************************************************************************)
EXTENDS ChronologicalTriggers, SequenceTheorems, TLAPS

\* A Scheduler locks a row that is due, and until it lets go nobody removes
\* the row: the occurrence it starts is really there.
LockedScheduled ==
    \A tr \in Trigger : lock[tr] # NULL => next_run_at[tr] # NULL

\* The inductive invariant.
SInv ==
    /\ TypeOK
    /\ started \in [Trigger -> Seq(Occurrence)]
    /\ LockedScheduled
    /\ ScheduleMatchesExecutions

\* The part of ScheduleMatchesExecutions about one trigger.
ScheduleMatches(tr) ==
    LET n == Len(started[tr]) IN
    /\ n > 0 => started[tr][1] = first[tr]
    /\ \A i \in 1..(n - 1) :
          started[tr][i + 1] = next_occurrence(tr, started[tr][i])
    /\ next_run_at[tr] = IF n = 0 THEN first[tr]
                                  ELSE next_occurrence(tr, started[tr][n])

-----------------------------------------------------------------------------

\* A later occurrence of a trigger is a moment, or the schedule is over.
LEMMA NextOccurrenceType ==
    ASSUME NEW tr \in Trigger, NEW after \in Occurrence
    PROVE  next_occurrence(tr, after) \in {NULL} \cup Occurrence
  BY IntervalAssumption DEF next_occurrence, Occurrence

\* Ending a transaction frees what the Scheduler had locked, nothing else.
LEMMA EndTransactionTypes ==
    ASSUME TypeOK, NEW s \in Scheduler, end_transaction(s)
    PROVE  /\ lock' \in [Trigger -> Scheduler \cup {NULL}]
           /\ pc' \in [Scheduler -> {"idle", "selecting", "processing", "stopped"}]
           /\ reading' \in [Scheduler -> Time \cup {NULL}]
           /\ \A r \in Scheduler :
                  pc'[r] = "processing" <=> \E tr \in Trigger : lock'[tr] = r
           /\ \A tr \in Trigger : lock'[tr] # NULL => lock'[tr] = lock[tr] /\ lock[tr] # s
  <1> USE DEF TypeOK, end_transaction
  <1>1. \A tr \in Trigger : lock'[tr] = IF lock[tr] = s THEN NULL ELSE lock[tr]
    OBVIOUS
  <1>2. \A r \in Scheduler : pc'[r] = IF r = s THEN "idle" ELSE pc[r]
    OBVIOUS
  <1>3. \A r \in Scheduler :
            pc'[r] = "processing" <=> \E tr \in Trigger : lock'[tr] = r
    BY <1>1, <1>2, NoneAssumption
  <1>4. QED
    BY <1>1, <1>3

\* Steps that leave the schedule, the history and the locks alone.
LEMMA ScheduleUntouched ==
    ASSUME SInv, UNCHANGED <<next_run_at, first, started>>
    PROVE  ScheduleMatchesExecutions' /\ started' \in [Trigger -> Seq(Occurrence)]
  BY DEF SInv, ScheduleMatchesExecutions, next_occurrence

\* A trigger without a schedule has started nothing.
LEMMA NotCreatedYet ==
    ASSUME SInv, NEW tr \in Trigger, first[tr] = NULL
    PROVE  next_run_at[tr] = NULL /\ lock[tr] = NULL /\ started[tr] = << >>
  <1>1. started[tr] \in Seq(Occurrence) /\ ScheduleMatches(tr)
    BY DEF SInv, ScheduleMatchesExecutions, ScheduleMatches
  <1>2. Len(started[tr]) = 0
    <2>1. Len(started[tr]) > 0 => started[tr][1] \in Occurrence
      BY <1>1
    <2>2. QED
      BY <1>1, <2>1, NoneAssumption DEF ScheduleMatches, Occurrence
  <1>3. started[tr] = << >>
    BY <1>1, <1>2
  <1>4. QED
    BY <1>1, <1>2, <1>3 DEF ScheduleMatches, SInv, LockedScheduled

-----------------------------------------------------------------------------

\* No schedules and idle Schedulers satisfy the invariant.
LEMMA InitSInv == Init => SInv
  <1> SUFFICES ASSUME Init PROVE SInv
    OBVIOUS
  <1>1. started \in [Trigger -> Seq(Occurrence)] /\ \A tr \in Trigger : started[tr] = << >>
    BY DEF Init
  <1>2. TypeOK
    BY <1>1, NoneAssumption, BoundsAssumption DEF Init, TypeOK, Time, Occurrence
  <1>3. LockedScheduled /\ ScheduleMatchesExecutions
    BY <1>1 DEF Init, LockedScheduled, ScheduleMatchesExecutions
  <1>4. QED
    BY <1>1, <1>2, <1>3 DEF SInv

\* Creating a trigger: its schedule begins with the first occurrence.
LEMMA InitializeSInv ==
    ASSUME SInv, NEW tr \in Trigger, initialize(tr)
    PROVE  SInv'
  <1> USE DEF SInv
  <1>1. now \in Occurrence /\ next_occurrence(tr, now) \in Occurrence
    BY NextOccurrenceType, BoundsAssumption
    DEF initialize, TypeOK, Time, Occurrence
  <1>2. next_run_at[tr] = NULL /\ lock[tr] = NULL /\ started[tr] = << >>
    BY NotCreatedYet DEF initialize
  <1>3. TypeOK'
    BY <1>1 DEF initialize, TypeOK
  <1>4. LockedScheduled'
    BY <1>1, <1>2 DEF initialize, LockedScheduled, TypeOK
  <1>5. ScheduleMatchesExecutions'
    <2> SUFFICES ASSUME NEW u \in Trigger PROVE ScheduleMatches(u)'
      BY DEF ScheduleMatchesExecutions, ScheduleMatches
    <2>1. CASE u = tr
      BY <1>2, <2>1 DEF initialize, ScheduleMatches, TypeOK
    <2>2. CASE u # tr
      <3>1. /\ next_run_at'[u] = next_run_at[u] /\ first'[u] = first[u]
            /\ started' = started
        BY <2>2 DEF initialize, TypeOK
      <3>2. ScheduleMatches(u)
        BY DEF ScheduleMatchesExecutions, ScheduleMatches
      <3>3. QED
        BY <3>1, <3>2 DEF ScheduleMatches, next_occurrence
    <2>3. QED
      BY <2>1, <2>2
  <1>6. QED
    BY <1>3, <1>4, <1>5 DEF initialize

\* Processing an occurrence: it is appended to what was started and the
\* schedule advances from it, in one commit.
LEMMA ProcessDueSInv ==
    ASSUME SInv, NEW s \in Scheduler, process_due(s)
    PROVE  SInv'
  <1> USE DEF SInv
  <1>1. PICK tr \in Trigger :
            /\ lock[tr] = s
            /\ next_run_at' = update_next_run(tr, advanced(tr, s))
            /\ started' = [started EXCEPT ![tr] = Append(@, next_run_at[tr])]
    BY DEF process_due
  <1>2. end_transaction(s) /\ UNCHANGED <<now, first, crashes>>
    BY DEF process_due
  <1>3. next_run_at[tr] \in Occurrence
    BY <1>1, NoneAssumption DEF LockedScheduled, TypeOK
  <1>4. next_occurrence(tr, next_run_at[tr]) \in {NULL} \cup Occurrence
    BY <1>3, NextOccurrenceType
  <1>5. /\ next_run_at' = [next_run_at EXCEPT ![tr] = next_occurrence(tr, next_run_at[tr])]
        /\ next_run_at' \in [Trigger -> {NULL} \cup Occurrence]
    BY <1>1, <1>4 DEF update_next_run, advanced, TypeOK
  <1>6. /\ started' \in [Trigger -> Seq(Occurrence)]
        /\ started'[tr] = Append(started[tr], next_run_at[tr])
        /\ \A u \in Trigger : u # tr => started'[u] = started[u]
    BY <1>1, <1>3, AppendProperties
  <1>7. TypeOK'
    <2>1. \A u \in Trigger : \A i \in DOMAIN started'[u] : started'[u][i] \in Occurrence
      BY <1>6, ElementOfSeq
    <2>2. QED
      BY <1>2, <1>5, <2>1, EndTransactionTypes DEF TypeOK
  <1>8. LockedScheduled'
    BY <1>1, <1>2, <1>5, EndTransactionTypes DEF LockedScheduled, TypeOK
  <1>9. ScheduleMatchesExecutions'
    <2> SUFFICES ASSUME NEW u \in Trigger PROVE ScheduleMatches(u)'
      BY DEF ScheduleMatchesExecutions, ScheduleMatches
    <2>0. ScheduleMatches(u)
      BY DEF ScheduleMatchesExecutions, ScheduleMatches
    <2>1. CASE u = tr
      <3> DEFINE n == Len(started[tr])
      <3>1. /\ n \in Nat /\ Len(started'[tr]) = n + 1
            /\ started'[tr][n + 1] = next_run_at[tr]
            /\ \A i \in 1..n : started'[tr][i] = started[tr][i]
        BY <1>3, <1>6, AppendProperties, LenProperties
      <3>2. started'[tr][1] = first'[tr]
        BY <1>2, <2>0, <2>1, <3>1 DEF ScheduleMatches
      <3>3. \A i \in 1..n :
                started'[tr][i + 1] = next_occurrence(tr, started'[tr][i])
        <4> SUFFICES ASSUME NEW i \in 1..n
                     PROVE  started'[tr][i + 1] = next_occurrence(tr, started'[tr][i])
          OBVIOUS
        <4>1. CASE i = n
          <5>1. n > 0 /\ next_run_at[tr] = next_occurrence(tr, started[tr][n])
            BY <2>0, <2>1, <3>1, <4>1 DEF ScheduleMatches
          <5>2. QED
            BY <3>1, <4>1, <5>1
        <4>2. CASE i # n
          <5>1. i \in 1..(n - 1) /\ i + 1 \in 1..n
            BY <3>1, <4>2
          <5>2. started[tr][i + 1] = next_occurrence(tr, started[tr][i])
            BY <2>0, <2>1, <5>1 DEF ScheduleMatches
          <5>3. QED
            BY <3>1, <5>1, <5>2
        <4>3. QED
          BY <4>1, <4>2
      <3>4. next_run_at'[tr] = next_occurrence(tr, started'[tr][n + 1])
        BY <1>5, <3>1 DEF TypeOK
      <3>5. \A after : next_occurrence(tr, after)' = next_occurrence(tr, after)
        BY DEF next_occurrence
      <3> HIDE DEF n
      <3>6. QED
        BY <2>1, <3>1, <3>2, <3>3, <3>4, <3>5 DEF ScheduleMatches, next_occurrence
    <2>2. CASE u # tr
      BY <1>2, <1>5, <1>6, <2>0, <2>2 DEF ScheduleMatches, next_occurrence, TypeOK
    <2>3. QED
      BY <2>1, <2>2
  <1>10. QED
    BY <1>6, <1>7, <1>8, <1>9

\* Every other step of a Scheduler or the clock leaves the schedule alone and
\* locks only rows that are due.
LEMMA OtherStepsSInv ==
    ASSUME SInv,
           \/ tick
           \/ \E s \in Scheduler :
                 \/ call_process_next_due(s) \/ get_next_due(s) \/ nothing_due(s)
                 \/ process_raises(s) \/ crash(s) \/ stop(s)
    PROVE  SInv'
  <1> USE DEF SInv
  <1>0. UNCHANGED <<next_run_at, first, started>>
    BY DEF tick, call_process_next_due, get_next_due, nothing_due, process_raises,
           crash, stop
  <1>1. ASSUME tick PROVE TypeOK' /\ LockedScheduled'
    BY <1>1, BoundsAssumption DEF tick, TypeOK, LockedScheduled, Time
  <1>2. ASSUME NEW s \in Scheduler, call_process_next_due(s) \/ stop(s)
        PROVE  TypeOK' /\ LockedScheduled'
    <2>1. LockedScheduled'
      BY <1>2 DEF call_process_next_due, stop, LockedScheduled
    <2>2. \A r \in Scheduler : pc'[r] = "processing" <=> pc[r] = "processing"
      BY <1>2 DEF call_process_next_due, stop, TypeOK
    <2>5. /\ pc' \in [Scheduler -> {"idle", "selecting", "processing", "stopped"}]
          /\ reading' \in [Scheduler -> Time \cup {NULL}]
      <3>1. CASE call_process_next_due(s)
        BY <3>1 DEF call_process_next_due, TypeOK
      <3>2. CASE stop(s)
        BY <3>2 DEF stop, TypeOK
      <3>3. QED
        BY <1>2, <3>1, <3>2
    <2>6. UNCHANGED <<now, lock, crashes>>
      BY <1>2 DEF call_process_next_due, stop
    <2>3. TypeOK'
      BY <1>0, <2>2, <2>5, <2>6 DEF TypeOK, Time
    <2>4. QED
      BY <2>1, <2>3
  <1>3. ASSUME NEW s \in Scheduler, get_next_due(s)
        PROVE  TypeOK' /\ LockedScheduled'
    <2>1. PICK tr \in Trigger :
              /\ lock[tr] = NULL /\ next_run_at[tr] # NULL
              /\ lock' = [lock EXCEPT ![tr] = s]
      BY <1>3 DEF get_next_due, due, lockable, is_due
    <2>2. \A r \in Scheduler : pc'[r] = IF r = s THEN "processing" ELSE pc[r]
      BY <1>3 DEF get_next_due, TypeOK
    <2>3. \A u \in Trigger : lock'[u] = IF u = tr THEN s ELSE lock[u]
      BY <2>1 DEF TypeOK
    <2>4. \A r \in Scheduler :
              pc'[r] = "processing" <=> \E u \in Trigger : lock'[u] = r
      BY <2>1, <2>2, <2>3, NoneAssumption DEF TypeOK
    <2>5. TypeOK'
      BY <1>3, <2>1, <2>4 DEF get_next_due, TypeOK
    <2>6. LockedScheduled'
      BY <1>0, <2>1, <2>3 DEF LockedScheduled
    <2>7. QED
      BY <2>5, <2>6
  <1>4. ASSUME NEW s \in Scheduler, nothing_due(s)
        PROVE  TypeOK' /\ LockedScheduled'
    <2>1. \A r \in Scheduler : pc'[r] = "processing" <=> pc[r] = "processing"
      BY <1>4 DEF nothing_due, TypeOK
    <2>2. QED
      BY <1>4, <2>1 DEF nothing_due, TypeOK, LockedScheduled
  <1>5. ASSUME NEW s \in Scheduler, process_raises(s) \/ crash(s)
        PROVE  TypeOK' /\ LockedScheduled'
    <2>1. end_transaction(s) /\ UNCHANGED now /\ crashes' \in 0..MaxCrashes
      BY <1>5, BoundsAssumption DEF process_raises, crash, TypeOK
    <2>2. TypeOK'
      BY <1>0, <2>1, EndTransactionTypes DEF TypeOK
    <2>3. LockedScheduled'
      BY <1>0, <2>1, EndTransactionTypes DEF LockedScheduled
    <2>4. QED
      BY <2>2, <2>3
  <1>6. TypeOK' /\ LockedScheduled'
    BY <1>1, <1>2, <1>3, <1>4, <1>5
  <1>7. QED
    BY <1>0, <1>6, ScheduleUntouched

\* Every step of a Scheduler or of the clock keeps the invariant.
LEMMA NextSInv == SInv /\ [Next]_vars => SInv'
  <1>1. ASSUME SInv, Next PROVE SInv'
    BY <1>1, InitializeSInv, ProcessDueSInv, OtherStepsSInv DEF Next, loop
  <1>2. ASSUME SInv, UNCHANGED vars PROVE SInv'
    BY <1>2, ScheduleUntouched DEF SInv, vars, TypeOK, LockedScheduled
  <1>3. QED
    BY <1>1, <1>2

\* The invariant holds in every state.
LEMMA ScheduleInvariance == Spec => []SInv
  BY InitSInv, NextSInv, PTL DEF Spec

-----------------------------------------------------------------------------

\* Every variable keeps its type; exactly the processing Schedulers hold locks.
THEOREM TypeCorrect == Spec => []TypeOK
  <1>1. SInv => TypeOK
    BY DEF SInv
  <1>2. QED
    BY ScheduleInvariance, <1>1, PTL

\* No occurrence is started twice or skipped, whichever Schedulers take part
\* and wherever they crash: the executions are the schedule so far.
THEOREM OccurrencesExactlyOnce == Spec => []ScheduleMatchesExecutions
  <1>1. SInv => ScheduleMatchesExecutions
    BY DEF SInv
  <1>2. QED
    BY ScheduleInvariance, <1>1, PTL

=============================================================================
