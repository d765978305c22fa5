--------------------------- MODULE MCStartExecution ---------------------------
(* StartExecution with the real plan, a single project, and the inputs of a *)
(* scenario complete or one short.                                          *)
EXTENDS StartExecution, TLC

CONSTANT Earlier    \* requests that were answered before the clock left 0

OneProject == [e \in Executions |-> CHOOSE p \in Projects : TRUE]

\* A key of /executions/run and keys of /scenarios/run.
Scenario == [k \in Keys |-> IF k = "plain" THEN "default" ELSE k]

CompleteOrNot == {InvestigationInputs, InvestigationInputs \ {"order_id"}}

Symmetry == Permutations(Earlier) \cup Permutations(Executions \ Earlier)

(***************************************************************************)
(* A state that Spec reaches: the earlier requests all listed an empty     *)
(* table before any of them inserted its row, and were answered at time 0  *)
(* with the executions they created.  The requests that follow can then    *)
(* list more rows than they insert themselves.                             *)
(***************************************************************************)
InitAfterEarlier ==
    /\ status = [e \in Executions |-> IF e \in Earlier THEN "queued" ELSE "absent"]
    /\ subtask = [e \in Executions |->
                    [a \in Agents |-> IF e \in Earlier THEN "pending" ELSE "absent"]]
    /\ audit = [e \in Executions |-> IF e \in Earlier THEN CreationEvents ELSE {}]
    /\ queue = Earlier
    /\ MemoryInit
    /\ clock = 0
    /\ at = [r \in Executions |-> IF r \in Earlier THEN "returned" ELSE "idle"]
    /\ key \in [Executions -> Keys]
    /\ inputs \in {i \in [Executions -> GivenInputs \cup {{}}] :
                     \A r \in Executions :
                        IF ThroughScenario(r)
                        THEN r \in Earlier => ValidInputs(ScenarioOf[key[r]], i[r])
                        ELSE i[r] = {}}
    /\ now = [r \in Executions |-> 0]
    /\ before = [r \in Executions |-> {}]
    /\ sawFirst = [r \in Executions |-> {}]
    /\ seen = [r \in Executions |-> {}]
    /\ match = [r \in Executions |-> r]
    /\ reused = [r \in Executions |-> FALSE]

SpecAfterEarlier == InitAfterEarlier /\ [][Next]_vars

=============================================================================
