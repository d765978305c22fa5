------------------------------- MODULE MCWorker -------------------------------
(* Worker with the real plan of the orchestrator and a single project. *)
EXTENDS Worker, TLC

Summaries == {"processed", "bounded"} \X (0..MaxHandoffs)

OneProject == [e \in Executions |-> CHOOSE p \in Projects : TRUE]

\* One budget check within the limit, one just over it.
AtTheLimit == {MaxDurationMs, MaxDurationMs + 1}

WithinTheLimit == {MaxDurationMs}

\* A chain of three subtasks, for the runs in which two workers are inside one
\* execution at once: with two handoffs its last agent is out of reach.
ChainAgents == {"dev_architect", "bug_hunter", "analyst"}

ChainDependsOn ==
    [a \in ChainAgents |->
        CASE a = "dev_architect" -> {}
          [] a = "bug_hunter"    -> {"dev_architect"}
          [] a = "analyst"       -> {"bug_hunter"}]

Symmetry == Permutations(Workers)

=============================================================================
