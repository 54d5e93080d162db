------------------------ MODULE MCWorkflowApi ------------------------
(***************************************************************************)
(* Two executions: a diamond a -> {b, c} -> d and a single task e.         *)
(***************************************************************************)
EXTENDS WorkflowApi, TLC

MCWorkflow == {"w1", "w2"}
MCTask == {"a", "b", "c", "d", "e"}
MCWorkflowOf == [t \in MCTask |-> IF t = "e" THEN "w2" ELSE "w1"]
MCParents == [t \in MCTask |-> CASE t \in {"a", "e"} -> {}
                                 [] t \in {"b", "c"} -> {"a"}
                                 [] t = "d" -> {"b", "c"}]
MCMaxTries == [t \in MCTask |-> IF t = "b" THEN 2 ELSE 1]

MCSymmetry == Permutations(Output)

=============================================================================
