----------------------------- MODULE MCPlatform -----------------------------
(***************************************************************************)
(* One execution a -> {b, c}; b may be tried twice.                        *)
(***************************************************************************)
EXTENDS Platform, TLC

MCTask == {"a", "b", "c"}
MCWorkflowOf == [t \in MCTask |-> "w"]
MCParents == [t \in MCTask |-> IF t = "a" THEN {} ELSE {"a"}]
MCMaxTries == [t \in MCTask |-> IF t = "b" THEN 2 ELSE 1]

\* A chain a -> b for the liveness run.
MCChainTask == {"a", "b"}
MCChainWorkflowOf == [t \in MCChainTask |-> "w"]
MCChainParents == [t \in MCChainTask |-> IF t = "a" THEN {} ELSE {"a"}]
MCChainMaxTries == [t \in MCChainTask |-> 1]

MCSymmetry == Permutations(Worker)

=============================================================================
