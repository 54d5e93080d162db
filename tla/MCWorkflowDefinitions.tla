---------------------- MODULE MCWorkflowDefinitions -------------------------
(***************************************************************************)
(* All dependency graphs over four tasks, self-dependencies excepted; all  *)
(* requests of up to two tasks with every defect the service looks for:    *)
(* repeated keys, repeated, unknown and self dependencies, no tries, an    *)
(* unknown plugin or one that refuses its configuration; and two tasks with*)
(* up to two triggers of every kind, enabled or not.                       *)
(***************************************************************************)
EXTENDS WorkflowDefinitions

MCKey == {"a", "b", "c", "d"}
MCOrder == <<"a", "b", "c", "d">>

SoundTask(key, dependencies) ==
    [key |-> key, dependencies |-> SetToSeq(dependencies), max_tries |-> 1,
     known |-> TRUE, configured |-> TRUE]

Graphs4 ==
    {[i \in 1..4 |-> SoundTask(MCOrder[i], graph[MCOrder[i]])] :
        graph \in {g \in [MCKey -> SUBSET MCKey] : \A k \in MCKey : k \notin g[k]}}

AnyTask ==
    [key : {"a", "b"}, dependencies : BoundedSeq({"a", "b", "c"}, 2),
     max_tries : {0, 1}, known : BOOLEAN, configured : {TRUE}]
    \cup {[SoundTask("a", {}) EXCEPT !.configured = FALSE]}

MCRequests ==
    [tasks : Graphs4 \cup BoundedSeq(AnyTask, 2), triggers : {<< >>}, enabled : {TRUE}]
    \cup [tasks : {<<SoundTask("a", {}), SoundTask("b", {"a"})>>},
          triggers : BoundedSeq(TriggerInput, 2), enabled : BOOLEAN]

\* Requests with two tasks, for the runs that look for one counterexample.
MCPairs ==
    [tasks : {<<SoundTask("a", A), SoundTask("b", B)>> : A \in {{}, {"b"}}, B \in {{}, {"a"}}},
     triggers : BoundedSeq(TriggerInput, 2), enabled : {TRUE}]

=============================================================================
