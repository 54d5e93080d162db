---------------------- MODULE MCRepositoryTransactions ----------------------
(***************************************************************************)
(* One execution of two roots that share two children, {a, b} -> {c, d}.   *)
(***************************************************************************)
EXTENDS RepositoryTransactions, TLC

MCTask == {"a", "b", "c", "d"}
MCTaskOrder == <<"a", "b", "c", "d">>
MCWorkflowOf == [t \in MCTask |-> "w"]
MCParents == [t \in MCTask |-> IF t \in {"c", "d"} THEN {"a", "b"} ELSE {}]
MCMaxTries == [t \in MCTask |-> IF t = "a" THEN 2 ELSE 1]

MCSymmetry == Permutations(Session)

=============================================================================
