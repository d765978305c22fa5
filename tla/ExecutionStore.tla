---------------------------- MODULE ExecutionStore ----------------------------
(***************************************************************************)
(* What the API process and the workers share: the tables of Postgres and  *)
(* the job queue in Redis.  Each repository call opens its own connection  *)
(* and commits, so each is one step; nothing spans two of them.            *)
(***************************************************************************)
EXTENDS DecisionMemory, Orchestrator

CONSTANTS
    Executions,      \* execution ids
    Agents,          \* the specialists a plan names
    DependsOn,       \* what each waits for
    ProjectOf        \* the project of each execution

ASSUME StoreAssumption ==
    /\ DependsOn \in [Agents -> SUBSET Agents]
    /\ ProjectOf \in [Executions -> Projects]

VARIABLES
    status,      \* executions.status, "absent" while there is no row
    subtask,     \* subtasks.status of each agent, "absent" while there is no row
    audit,       \* the event types in each execution's audit trail
    queue        \* executions whose job is in the queue and not acknowledged

storeVars == <<status, subtask, audit, queue, memory>>

StatusValues ==
    {"absent", "queued", "running", "completed", "bounded_completion", "failed"}

Terminal == {"completed", "bounded_completion", "failed"}

SubtaskValues == {"absent", "pending", "running", "completed"}

CreationEvents == {"queued", "subtasks_created", "enqueued"}

AuditEvents ==
    CreationEvents \cup
    {"idempotency_reused", "lock_skipped", "started", "subtask_started",
     "tool_envelope", "subtask_completed", "handoff_cutoff", "completed",
     "budget_cutoff", "failed"}

StoreTypeOK ==
    /\ status \in [Executions -> StatusValues]
    /\ subtask \in [Executions -> [Agents -> SubtaskValues]]
    /\ audit \in [Executions -> SUBSET AuditEvents]
    /\ queue \in SUBSET Executions
    /\ memory \in [Projects -> Seq(Entry)]

\* AuditRepository.append(build_event(e, event, ...)).
Log(e, event) == audit' = [audit EXCEPT ![e] = @ \cup {event}]

\* ExecutionRepository.get(e), then update(replace(record, status = s)).
SetStatus(e, s) == status' = [status EXCEPT ![e] = s]

SetSubtask(e, a, s) == subtask' = [subtask EXCEPT ![e][a] = s]

=============================================================================
