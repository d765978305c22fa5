------------------------------ MODULE MCLifecycle ------------------------------
(* Lifecycle with a plan of two subtasks, a single project and one scenario. *)
EXTENDS Lifecycle, TLC

OneProject == [e \in Executions |-> CHOOSE p \in Projects : TRUE]

Summaries == {"processed", "bounded"} \X (0..MaxHandoffs)

AtTheLimit == {MaxDurationMs, MaxDurationMs + 1}

WithinTheLimit == {MaxDurationMs}

PairAgents == {"dev_architect", "bug_hunter"}

PairDependsOn ==
    [a \in PairAgents |-> IF a = "bug_hunter" THEN {"dev_architect"} ELSE {}]

Scenario == [k \in Keys |-> k]

Catalog == INSTANCE Scenarios

CompleteOrNot == {Catalog!InvestigationInputs, Catalog!InvestigationInputs \ {"order_id"}}

Symmetry == Permutations(Executions)

=============================================================================
