------------------------- MODULE MCQueueInsertions -------------------------
(***************************************************************************)
(* a releases b and e, and whichever of a and b completes last releases d: *)
(* the Reconciler may queue b while the finish of a is open, and then the  *)
(* finish of a waits for that of b, which has a list of its own; and it may*)
(* list b and e in the order opposite to that of a, a deadlock.            *)
(***************************************************************************)
EXTENDS QueueInsertions

MCTask == {"a", "b", "d", "e"}
MCChildren == [t \in MCTask |-> CASE t = "a" -> <<"d", "b", "e">>
                                  [] t = "b" -> <<"d">>
                                  [] OTHER -> << >>]

MCSymmetry == Permutations(Worker)

=============================================================================
