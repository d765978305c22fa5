-------------------------------- MODULE Budget --------------------------------
(***************************************************************************)
(* BudgetEnforcer.check: which limit, if any, an execution has exceeded.   *)
(***************************************************************************)
EXTENDS Naturals

CONSTANTS MaxSteps, MaxToolCalls, MaxDurationMs

ASSUME BudgetAssumption ==
    MaxSteps \in Nat /\ MaxToolCalls \in Nat /\ MaxDurationMs \in Nat

\* Slip: the limits are inclusive.
CutoffReasonAtLimit(steps, toolCalls, elapsed) ==
    CASE elapsed >= MaxDurationMs -> "max_duration_ms"
      [] elapsed < MaxDurationMs /\ toolCalls >= MaxToolCalls -> "max_tool_calls"
      [] elapsed < MaxDurationMs /\ toolCalls < MaxToolCalls /\ steps >= MaxSteps -> "max_steps"
      [] OTHER -> "none"

\* The limit that stops the execution, in the order of PRIORITY, or "none".
CutoffReason(steps, toolCalls, elapsed) ==
    CASE elapsed > MaxDurationMs -> "max_duration_ms"
      [] elapsed <= MaxDurationMs /\ toolCalls > MaxToolCalls -> "max_tool_calls"
      [] elapsed <= MaxDurationMs /\ toolCalls <= MaxToolCalls /\ steps > MaxSteps -> "max_steps"
      [] OTHER -> "none"

=============================================================================
