--------------------------- MODULE ExecutionQueue ---------------------------
(***************************************************************************)
(* What execution_queue/interface.py promises the rest of the platform: a  *)
(* set of entries, at most one per task, each of them free or leased to one*)
(* claim.  Time is abstract: a lease may run out at any moment it is not   *)
(* renewed.  PostgresExecutionQueue.tla models the table, the clock and the*)
(* SQL, and is proved to implement this module.                            *)
(*                                                                         *)
(* A claim is a pair <<task, token>>.  Tokens are uuid4 values: fresh means*)
(* known to no entry and no client, so a token that everybody forgot may   *)
(* be drawn again and the token set stays finite.                          *)
(***************************************************************************)
CONSTANTS
    Task,       \* task execution identifiers
    Token,      \* claim tokens
    Absent,     \* the task has no entry
    Unclaimed   \* the entry has no claim

ASSUME TokenAssumption == Absent # Unclaimed /\ {Absent, Unclaimed} \cap Token = {}

VARIABLES
    owner,      \* task -> Absent, Unclaimed, or the token of its claim
    expired,    \* tasks whose current lease has run out
    held        \* claims that some client still holds

queue_vars == <<owner, expired, held>>

Claim == Task \X Token

tokens_not_in_the_table == {k \in Token : \A t \in Task : owner[t] # k}

fresh_tokens ==
    {k \in Token : /\ \A t \in Task : owner[t] # k
                   /\ \A c \in held : c[2] # k}

is_current(c) == owner[c[1]] = c[2]

\* Every variable has its type, and only leased entries can expire.
QueueTypeOK ==
    /\ owner \in [Task -> Token \cup {Absent, Unclaimed}]
    /\ expired \in SUBSET {t \in Task : owner[t] \in Token}
    /\ held \in SUBSET Claim

QueueInit ==
    /\ owner = [t \in Task |-> Absent]
    /\ expired = {}
    /\ held = {}

-----------------------------------------------------------------------------

\* The entries after inserting ids, skipping those present.
inserted(entries, ids) ==
    [t \in Task |-> IF t \in ids /\ entries[t] = Absent THEN Unclaimed
                                                        ELSE entries[t]]

enqueue(ids) ==
    /\ owner' = inserted(owner, ids)
    /\ UNCHANGED <<expired, held>>

claimable_if_unclaimed(t) == owner[t] = Unclaimed

claimable(t) == owner[t] = Unclaimed \/ t \in expired

\* A lease counts from the moment the caller read its clock: one that took too
\* long to reach the table is granted, or renewed, expired (in_time = FALSE).
claim(t, k, in_time) ==
    /\ claimable(t)
    /\ k \in fresh_tokens
    /\ owner' = [owner EXCEPT ![t] = k]
    /\ expired' = IF in_time THEN expired \ {t} ELSE expired \cup {t}
    /\ held' = held \cup {<<t, k>>}

heartbeat(c, in_time) ==
    /\ c \in held
    /\ is_current(c)
    /\ expired' = IF in_time THEN expired \ {c[1]} ELSE expired
    /\ UNCHANGED <<owner, held>>

\* The lease of an entry ends with its claim.
lease_ended(c) == IF is_current(c) THEN expired \ {c[1]} ELSE expired

release(c) ==
    /\ c \in held
    /\ owner' = IF is_current(c) THEN [owner EXCEPT ![c[1]] = Unclaimed] ELSE owner
    /\ expired' = lease_ended(c)
    /\ held' = held \ {c}

finish(c, ids) ==
    /\ c \in held
    /\ owner' = IF is_current(c)
                THEN inserted([owner EXCEPT ![c[1]] = Absent], ids) ELSE owner
    /\ expired' = lease_ended(c)
    /\ held' = held \ {c}

\* The client dies or gives its claim up; the entry is left to expire.
forget(c) ==
    /\ c \in held
    /\ held' = held \ {c}
    /\ UNCHANGED <<owner, expired>>

\* Time passes.
leases_expire(S) ==
    /\ S # {}
    /\ S \subseteq {t \in Task : owner[t] \in Token} \ expired
    /\ expired' = expired \cup S
    /\ UNCHANGED <<owner, held>>

QueueNext ==
    \/ \E ids \in SUBSET Task : enqueue(ids) \/ leases_expire(ids)
    \/ \E t \in Task, k \in Token, in_time \in BOOLEAN : claim(t, k, in_time)
    \/ \E c \in Claim, in_time \in BOOLEAN : heartbeat(c, in_time)
    \/ \E c \in Claim : release(c) \/ forget(c)
    \/ \E c \in Claim, ids \in SUBSET Task : finish(c, ids)

QueueSpec == QueueInit /\ [][QueueNext]_queue_vars

-----------------------------------------------------------------------------

\* A claim that has lost its entry never gets it back, however long its
\* holder sleeps: a stale worker's heartbeat, release and finish stay without
\* effect.
StaleStaysStale ==
    [][\A c \in held : ~is_current(c) /\ c \in held' => ~is_current(c)']_queue_vars

\* A claim loses its entry while it is held only after its lease has run out:
\* nobody else's claim, release or finish, and no second insertion of the id,
\* takes an entry from a holder that renews in time.
OnlyExpiredClaimsLost ==
    [][\A c \in held : is_current(c) /\ c \in held' /\ ~is_current(c)'
            => c[1] \in expired]_queue_vars

=============================================================================
