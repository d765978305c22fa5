----------------------------- MODULE Orchestrator -----------------------------
(***************************************************************************)
(* The fixed plan of Orchestrator.plan_subtasks: which specialists an      *)
(* execution is split over and which of them each one waits for; and what  *)
(* the specialists answer, with the provider that is wired in.             *)
(***************************************************************************)
EXTENDS Naturals, FiniteSets

PlanAgents == {"dev_architect", "bug_hunter", "qa", "ops_sentinel", "analyst"}

PlanDependsOn ==
    [a \in PlanAgents |->
        CASE a = "dev_architect" -> {}
          [] a = "bug_hunter"    -> {"dev_architect"}
          [] a = "qa"            -> {"bug_hunter"}
          [] a = "ops_sentinel"  -> {"dev_architect"}
          [] a = "analyst"       -> {"qa", "ops_sentinel"}]

\* The specialists get_orchestrator configures.
Specialists == {"dev_architect", "bug_hunter", "qa", "ops_sentinel", "analyst"}

\* The execution_plan of an answer: the specialists do not ask the provider for it.
BasePlan == {"assess", "apply", "validate"}

AnalystPlan == {"prioritize", "assign", "verify"}

\* Orchestrator.run, for a specialist that is configured.
ExecutionPlan(a) == IF a = "analyst" THEN AnalystPlan ELSE BasePlan

(***************************************************************************)
(* A set of agents that contains, with each agent, everything it waits     *)
(* for: what a worker can have done when it respects the plan.             *)
(***************************************************************************)
Closed(S, dependsOn) == \A a \in S : dependsOn[a] \subseteq S

\* Agents that no worker reaches in max handoffs: what they wait for takes max
\* or more subtasks.
OutOfReach(agents, dependsOn, max) ==
    {a \in agents :
        \A S \in SUBSET agents :
            Closed(S, dependsOn) /\ dependsOn[a] \subseteq S => Cardinality(S) >= max}
=============================================================================
