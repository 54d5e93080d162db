---------------------- MODULE MCPostgresExecutionQueue ----------------------
(***************************************************************************)
(* One worker that keeps up and one that may stall.  A lease of three      *)
(* heartbeats of two ticks, timely calls of up to one tick, two entries, so*)
(* that finish can insert one while the other is leased, and a clock that  *)
(* runs past the end of a renewed lease.                                   *)
(***************************************************************************)
EXTENDS PostgresExecutionQueue, TLC

\* Any two tokens that are fresh are interchangeable, so the CHOOSE of
\* fresh_token does not break the symmetry.
MCSymmetry == Permutations(Task) \cup Permutations(Token)

=============================================================================
