-------------------------------- MODULE Worker --------------------------------
(***************************************************************************)
(* run_execution_job: the job an ARQ worker runs for an execution, with    *)
(* FinalizeExecutionUseCase, the per-execution lock and the subtask loop.  *)
(*                                                                         *)
(* A step is one call on Postgres or Redis together with the local         *)
(* computation around it; another worker can run between any two steps.    *)
(* The queue is external: a job stays in it until its worker ends it, may  *)
(* be delivered again before that, and at most MaxDeliveries times.        *)
(***************************************************************************)
EXTENDS ExecutionStore, Budget

CONSTANTS
    Workers,
    None,              \* no job, no subtask in hand
    MaxHandoffs,       \* 3 in the code
    Elapsed,           \* the elapsed times a budget check may observe
    UnpackedNames,     \* names on the left of the first assignment
    RepositoryCount,   \* repositories get_repositories() returns
    Faults,            \* the faults that may happen
    MaxDeliveries      \* bound on the deliveries of one job

ASSUME WorkerAssumption ==
    /\ None \notin Executions \cup Agents
    /\ Agents \subseteq Specialists    \* Orchestrator.run raises for another
    /\ MaxHandoffs \in Nat
    /\ Elapsed \subseteq Nat
    /\ UnpackedNames \in Nat /\ RepositoryCount \in Nat
    /\ Faults \subseteq {"crash", "raise", "expire"}
    /\ MaxDeliveries \in Nat
    /\ {"processed", "bounded"} \X (0..MaxHandoffs) \subseteq Contents

VARIABLES
    pc,            \* where each worker is
    job,           \* the execution whose job it runs
    run,           \* its local variables
    lock,          \* whether the Redis key lock:execution:<e> exists
    deliveries,    \* history: how often each job was delivered
    faults         \* history: what went wrong for each execution

localVars  == <<pc, job, run>>
workerVars == <<pc, job, run, lock, deliveries, faults>>
vars       == <<storeVars, workerVars>>

(***************************************************************************)
(* Where a worker holds the lock, and which of those places are inside the *)
(* try block (an exception is recorded by fail()).                         *)
(***************************************************************************)
TryBlock ==
    {"mark", "audit_started", "list", "loop", "announce", "tool", "finish",
     "announce_done", "complete", "audit_completed", "read_latest",
     "add_memory", "bound", "audit_cutoff"}
Handler  == {"fail", "audit_failed"}
Held     == {"load", "release"} \cup TryBlock \cup Handler
Labels   == {"idle", "unpack", "acquire", "skip"} \cup Held

RunValues ==
    [todo: SUBSET Agents, done: SUBSET Agents, cur: Agents \cup {None},
     handoffs: Nat, bounded: BOOLEAN, latest: Nat]

Fresh == [todo |-> {}, done |-> {}, cur |-> None,
          handoffs |-> 0, bounded |-> FALSE, latest |-> 0]

FaultValues == {"crash", "expire", "raise", "lost"}

TypeOK ==
    /\ StoreTypeOK
    /\ pc \in [Workers -> Labels]
    /\ job \in [Workers -> Executions \cup {None}]
    /\ \A w \in Workers : pc[w] # "idle" => job[w] \in Executions
    /\ run \in [Workers -> RunValues]
    /\ lock \in [Executions -> BOOLEAN]
    /\ deliveries \in [Executions -> Nat]
    /\ faults \in [Executions -> SUBSET FaultValues]

WorkerInit ==
    /\ pc = [w \in Workers |-> "idle"]
    /\ job = [w \in Workers |-> None]
    /\ run = [w \in Workers |-> Fresh]
    /\ lock = [e \in Executions |-> FALSE]
    /\ deliveries = [e \in Executions |-> 0]
    /\ faults = [e \in Executions |-> {}]

(***************************************************************************)
(* Started on its own, a worker finds jobs of executions the API has       *)
(* finished creating, or jobs whose execution has no row any more.         *)
(***************************************************************************)
Init ==
    /\ status \in [Executions -> {"absent", "queued"}]
    /\ subtask = [e \in Executions |->
                    [a \in Agents |-> IF status[e] = "absent" THEN "absent" ELSE "pending"]]
    /\ audit = [e \in Executions |-> IF status[e] = "absent" THEN {} ELSE CreationEvents]
    /\ queue = Executions
    /\ MemoryInit
    /\ WorkerInit

-----------------------------------------------------------------------------

Go(w, label) == pc' = [pc EXCEPT ![w] = label]

Step(w, from, to) == pc[w] = from /\ Go(w, to)

\* The job function returns or raises: ARQ acknowledges the job either way.
EndJob(w) ==
    /\ queue' = queue \ {job[w]}
    /\ Go(w, "idle")
    /\ job' = [job EXCEPT ![w] = None]
    /\ run' = [run EXCEPT ![w] = Fresh]

Blame(e, fault) == faults' = [faults EXCEPT ![e] = @ \cup {fault}]

\* ARQ hands a job to a free worker.
Deliver(w, e) ==
    /\ Step(w, "idle", "unpack")
    /\ e \in queue
    /\ deliveries[e] < MaxDeliveries
    /\ job' = [job EXCEPT ![w] = e]
    /\ deliveries' = [deliveries EXCEPT ![e] = @ + 1]
    /\ UNCHANGED <<storeVars, run, lock, faults>>

\* The first statement raises ValueError unless the names match the tuple.
Unpack(w) ==
    /\ pc[w] = "unpack"
    /\ IF UnpackedNames = RepositoryCount
       THEN Go(w, "acquire") /\ UNCHANGED <<queue, job, run>>
       ELSE EndJob(w)
    /\ UNCHANGED <<status, subtask, audit, memory, lock, deliveries, faults>>

\* SET lock:execution:<e> NX EX ttl.
Acquire(w) ==
    /\ pc[w] = "acquire"
    /\ Go(w, IF lock[job[w]] THEN "skip" ELSE "load")
    /\ lock' = [lock EXCEPT ![job[w]] = TRUE]
    /\ UNCHANGED <<storeVars, job, run, deliveries, faults>>

\* Slip: the event is recorded and the return after it forgotten.
AuditSkippedGoesOn(w) ==
    /\ Step(w, "skip", "load")
    /\ Log(job[w], "lock_skipped")
    /\ UNCHANGED <<status, subtask, queue, memory, job, run, lock, deliveries, faults>>

AuditSkipped(w) ==
    /\ pc[w] = "skip"
    /\ Log(job[w], "lock_skipped")
    /\ EndJob(w)
    /\ UNCHANGED <<status, subtask, memory, lock, deliveries, faults>>

\* Slip: return without releasing when there is no row.
LoadKeepingLock(w) ==
    /\ pc[w] = "load"
    /\ IF status[job[w]] = "absent"
       THEN EndJob(w)
       ELSE Go(w, "mark") /\ UNCHANGED <<queue, job, run>>
    /\ UNCHANGED <<status, subtask, audit, memory, lock, deliveries, faults>>

Load(w) ==
    /\ pc[w] = "load"
    /\ Go(w, IF status[job[w]] = "absent" THEN "release" ELSE "mark")
    /\ UNCHANGED <<storeVars, job, run, lock, deliveries, faults>>

\* mark_running
MarkRunning(w) ==
    /\ Step(w, "mark", "audit_started")
    /\ SetStatus(job[w], "running")
    /\ UNCHANGED <<subtask, audit, queue, memory, job, run, lock, deliveries, faults>>

AuditStarted(w) ==
    /\ Step(w, "audit_started", "list")
    /\ Log(job[w], "started")
    /\ UNCHANGED <<status, subtask, queue, memory, job, run, lock, deliveries, faults>>

\* The rows share one created_at, so ORDER BY created_at gives them in any
\* order: the loop takes them from todo one by one.
ListSubtasks(w) ==
    /\ Step(w, "list", "loop")
    /\ run' = [run EXCEPT ![w].todo = {a \in Agents : subtask[job[w]][a] # "absent"}]
    /\ UNCHANGED <<storeVars, job, lock, deliveries, faults>>

\* Slip: any dependency done is enough.
ReadyOnAny(w, a) == DependsOn[a] = {} \/ DependsOn[a] \cap run[w].done # {}

Ready(w, a) == DependsOn[a] \subseteq run[w].done

\* A dependency is not done: continue.  The loop never comes back to a.
SkipSubtask(w) ==
    /\ pc[w] = "loop"
    /\ \E a \in run[w].todo :
          /\ ~ Ready(w, a)
          /\ run' = [run EXCEPT ![w].todo = @ \ {a}]
    /\ UNCHANGED <<storeVars, pc, job, lock, deliveries, faults>>

TakeUp(r, a) ==
    [todo |-> r.todo \ {a}, done |-> r.done, cur |-> a,
     handoffs |-> r.handoffs + 1, bounded |-> r.bounded, latest |-> r.latest]

HandOff(w) ==
    /\ Step(w, "loop", "announce")
    /\ run[w].handoffs < MaxHandoffs
    /\ \E a \in run[w].todo :
          /\ Ready(w, a)
          /\ run' = [run EXCEPT ![w] = TakeUp(run[w], a)]
          /\ SetSubtask(job[w], a, "running")
    /\ UNCHANGED <<status, audit, queue, memory, job, lock, deliveries, faults>>

\* Slip: return instead of break.
HandOffCutoffReturns(w) ==
    /\ Step(w, "loop", "release")
    /\ run[w].handoffs >= MaxHandoffs
    /\ \E a \in run[w].todo : Ready(w, a)
    /\ Log(job[w], "handoff_cutoff")
    /\ UNCHANGED <<status, subtask, queue, memory, job, run, lock, deliveries, faults>>

\* One subtask too many is ready: break.
HandOffCutoff(w) ==
    /\ Step(w, "loop", "complete")
    /\ run[w].handoffs >= MaxHandoffs
    /\ \E a \in run[w].todo : Ready(w, a)
    /\ Log(job[w], "handoff_cutoff")
    /\ UNCHANGED <<status, subtask, queue, memory, job, run, lock, deliveries, faults>>

AuditSubtaskStarted(w) ==
    /\ Step(w, "announce", "tool")
    /\ Log(job[w], "subtask_started")
    /\ UNCHANGED <<status, subtask, queue, memory, job, run, lock, deliveries, faults>>

\* Slip: the bounded status is set before complete() instead of after it.
RunToolBoundsFirst(w) ==
    /\ pc[w] = "tool"
    /\ Log(job[w], "tool_envelope")
    /\ \E ms \in Elapsed :
          LET over == CutoffReason(run[w].handoffs, run[w].handoffs, ms) # "none" IN
          /\ Go(w, IF over THEN "complete" ELSE "finish")
          /\ run' = [run EXCEPT ![w].bounded = over]
          /\ IF over THEN SetStatus(job[w], "bounded_completion") ELSE UNCHANGED status
    /\ UNCHANGED <<subtask, queue, memory, job, lock, deliveries, faults>>

\* The tool probe, its envelope event, and the budget check that follows; a
\* subtask is one step and one tool call.
RunTool(w) ==
    /\ pc[w] = "tool"
    /\ Log(job[w], "tool_envelope")
    /\ \E ms \in Elapsed :
          LET over == CutoffReason(run[w].handoffs, run[w].handoffs, ms) # "none" IN
          /\ Go(w, IF over THEN "complete" ELSE "finish")
          /\ run' = [run EXCEPT ![w].bounded = over]
    /\ UNCHANGED <<status, subtask, queue, memory, job, lock, deliveries, faults>>

\* Slip: every subtask is stored as the analyst's incomplete one would be.
FinishSubtaskPartial(w) ==
    /\ Step(w, "finish", "announce_done")
    /\ SetSubtask(job[w], run[w].cur, "partial")
    /\ UNCHANGED <<status, audit, queue, memory, job, run, lock, deliveries, faults>>

\* Slip: the second update of the subtask row is forgotten.
FinishSubtaskUnsaved(w) ==
    /\ Step(w, "finish", "announce_done")
    /\ UNCHANGED <<status, subtask, audit, queue, memory, job, run, lock, deliveries, faults>>

\* What a subtask ends as; an analyst without a plan also leaves an event.
SubtaskResult(a) ==
    IF a = "analyst" /\ ExecutionPlan(a) = {} THEN "partial" ELSE "completed"

\* The specialist answers and the row is updated.
FinishSubtask(w) ==
    /\ Step(w, "finish", "announce_done")
    /\ SetSubtask(job[w], run[w].cur, SubtaskResult(run[w].cur))
    /\ IF SubtaskResult(run[w].cur) = "partial"
       THEN Log(job[w], "analyst_plan_invalid")
       ELSE UNCHANGED audit
    /\ UNCHANGED <<status, queue, memory, job, run, lock, deliveries, faults>>

AuditSubtaskDone(w) ==
    /\ Step(w, "announce_done", "loop")
    /\ Log(job[w], "subtask_completed")
    /\ run' = [run EXCEPT ![w].done = @ \cup {run[w].cur}]
    /\ UNCHANGED <<status, subtask, queue, memory, job, lock, deliveries, faults>>

\* complete(): status, event, newest decision, new decision.
CompleteStatus(w) ==
    /\ pc[w] = "complete" \/ (pc[w] = "loop" /\ run[w].todo = {})
    /\ Go(w, "audit_completed")
    /\ SetStatus(job[w], "completed")
    /\ UNCHANGED <<subtask, audit, queue, memory, job, run, lock, deliveries, faults>>

AuditCompleted(w) ==
    /\ Step(w, "audit_completed", "read_latest")
    /\ Log(job[w], "completed")
    /\ UNCHANGED <<status, subtask, queue, memory, job, run, lock, deliveries, faults>>

ReadLatest(w) ==
    /\ Step(w, "read_latest", "add_memory")
    /\ \E i \in Latest(ProjectOf[job[w]]) : run' = [run EXCEPT ![w].latest = i]
    /\ UNCHANGED <<storeVars, job, lock, deliveries, faults>>

Summary(w) == IF run[w].bounded
              THEN <<"bounded", run[w].handoffs>>
              ELSE <<"processed", Cardinality(run[w].done)>>

\* Slip: a bounded completion leaves no decision.
AddMemoryUnlessBounded(w) ==
    /\ pc[w] = "add_memory"
    /\ IF run[w].bounded
       THEN UNCHANGED memory
       ELSE AddDecision(ProjectOf[job[w]], run[w].latest, Summary(w))
    /\ Go(w, IF run[w].bounded THEN "bound" ELSE "release")
    /\ UNCHANGED <<status, subtask, audit, queue, job, run, lock, deliveries, faults>>

AddMemory(w) ==
    /\ pc[w] = "add_memory"
    /\ AddDecision(ProjectOf[job[w]], run[w].latest, Summary(w))
    /\ Go(w, IF run[w].bounded THEN "bound" ELSE "release")
    /\ UNCHANGED <<status, subtask, audit, queue, job, run, lock, deliveries, faults>>

\* After a budget cutoff complete() has set "completed"; correct it.
Bound(w) ==
    /\ Step(w, "bound", "audit_cutoff")
    /\ SetStatus(job[w], "bounded_completion")
    /\ UNCHANGED <<subtask, audit, queue, memory, job, run, lock, deliveries, faults>>

\* Slip: the reason of the cutoff is not audited.
AuditCutoffSilent(w) ==
    /\ Step(w, "audit_cutoff", "release")
    /\ UNCHANGED <<storeVars, job, run, lock, deliveries, faults>>

AuditCutoff(w) ==
    /\ Step(w, "audit_cutoff", "release")
    /\ Log(job[w], "budget_cutoff")
    /\ UNCHANGED <<status, subtask, queue, memory, job, run, lock, deliveries, faults>>

\* fail()
FailStatus(w) ==
    /\ Step(w, "fail", "audit_failed")
    /\ SetStatus(job[w], "failed")
    /\ UNCHANGED <<subtask, audit, queue, memory, job, run, lock, deliveries, faults>>

AuditFailed(w) ==
    /\ Step(w, "audit_failed", "release")
    /\ Log(job[w], "failed")
    /\ UNCHANGED <<status, subtask, queue, memory, job, run, lock, deliveries, faults>>

\* DEL lock:execution:<e>, whoever set it.
Release(w) ==
    /\ pc[w] = "release"
    /\ lock' = [lock EXCEPT ![job[w]] = FALSE]
    /\ EndJob(w)
    /\ UNCHANGED <<status, subtask, audit, memory, deliveries, faults>>

WorkerStep(w) ==
    \/ Unpack(w) \/ Acquire(w) \/ AuditSkipped(w) \/ Load(w)
    \/ MarkRunning(w) \/ AuditStarted(w) \/ ListSubtasks(w)
    \/ SkipSubtask(w) \/ HandOff(w) \/ HandOffCutoff(w)
    \/ AuditSubtaskStarted(w) \/ RunTool(w) \/ FinishSubtask(w) \/ AuditSubtaskDone(w)
    \/ CompleteStatus(w) \/ AuditCompleted(w) \/ ReadLatest(w) \/ AddMemory(w)
    \/ Bound(w) \/ AuditCutoff(w) \/ FailStatus(w) \/ AuditFailed(w) \/ Release(w)

-----------------------------------------------------------------------------

\* Slip: try/finally without an except branch.
RaiseUnrecorded(w) ==
    /\ "raise" \in Faults
    /\ pc[w] \in TryBlock
    /\ Go(w, "release")
    /\ Blame(job[w], "raise")
    /\ UNCHANGED <<storeVars, job, run, lock, deliveries>>

\* A call of the try block raises: the except branch records the failure.
Raise(w) ==
    /\ "raise" \in Faults
    /\ pc[w] \in TryBlock
    /\ Go(w, "fail")
    /\ Blame(job[w], "raise")
    /\ UNCHANGED <<storeVars, job, run, lock, deliveries>>

\* fail() itself raises: finally releases the lock and nothing is recorded.
RaiseInHandler(w) ==
    /\ "raise" \in Faults
    /\ pc[w] \in Handler
    /\ Go(w, "release")
    /\ Blame(job[w], "lost")
    /\ UNCHANGED <<storeVars, job, run, lock, deliveries>>

\* A call outside the try block raises: the job ends where it is.
RaiseOutside(w) ==
    /\ "raise" \in Faults
    /\ pc[w] \in {"acquire", "skip", "load", "release"}
    /\ EndJob(w)
    /\ Blame(job[w], "lost")
    /\ UNCHANGED <<status, subtask, audit, memory, lock, deliveries>>

\* The worker process dies; its job is not acknowledged.
Crash(w) ==
    /\ "crash" \in Faults
    /\ pc[w] # "idle"
    /\ Go(w, "idle")
    /\ job' = [job EXCEPT ![w] = None]
    /\ run' = [run EXCEPT ![w] = Fresh]
    /\ Blame(job[w], "crash")
    /\ UNCHANGED <<storeVars, lock, deliveries>>

Holders(e) == {w \in Workers : pc[w] \in Held /\ job[w] = e}

\* Slip: SET NX without EX.
ExpireLockNever(e) ==
    /\ lock[e]
    /\ Holders(e) # {} /\ Holders(e) = {}
    /\ UNCHANGED vars

\* The TTL of the lock runs out: of one nobody holds any more, or (a fault)
\* of one whose job takes longer than the TTL.
ExpireLock(e) ==
    /\ lock[e]
    /\ lock' = [lock EXCEPT ![e] = FALSE]
    /\ IF Holders(e) = {}
       THEN UNCHANGED faults
       ELSE "expire" \in Faults /\ Blame(e, "expire")
    /\ UNCHANGED <<storeVars, localVars, deliveries>>

\* Nobody has a job in hand.
AllIdle ==
    /\ \A w \in Workers : pc[w] = "idle"
    /\ UNCHANGED vars

WorkerNext ==
    \/ \E w \in Workers, e \in Executions : Deliver(w, e)
    \/ \E w \in Workers : WorkerStep(w)
    \/ \E w \in Workers : Raise(w) \/ RaiseInHandler(w) \/ RaiseOutside(w) \/ Crash(w)
    \/ \E e \in Executions : ExpireLock(e)

Next == WorkerNext \/ AllIdle

Spec == Init /\ [][Next]_vars

\* A worker process runs its job to the end and takes the next one; Redis
\* expires keys.
WorkerFairness ==
    /\ \A w \in Workers : WF_vars(WorkerStep(w))
    /\ \A w \in Workers : WF_vars(\E e \in Executions : Deliver(w, e))
    /\ \A e \in Executions : WF_vars(ExpireLock(e))

FairSpec == Spec /\ WorkerFairness

-----------------------------------------------------------------------------

\* At most one worker is between acquire and release for an execution, unless
\* the lock expired under a worker: DEL by a crashed, failed or skipped job
\* never opens the door to a second one (worker.py, lines 25-32 and 114-115).
MutualExclusion ==
    \A e \in Executions :
        "expire" \notin faults[e] =>
            \A v, w \in Holders(e) : v = w

\* A lock nobody holds was left by a crash or by an exception outside the try
\* block (executions.get and the two release calls, lines 29-31 and 115).
NoLockLeak ==
    \A e \in Executions :
        lock[e] /\ Holders(e) = {} => faults[e] \cap {"crash", "lost"} # {}

\* A subtask is set running only when the rows of everything it waits for say
\* completed, also in a second delivery that starts over on the rows of the
\* first; only a lock that expired under a worker can mix two runs.
DependenciesFirst ==
    [][\A e \in Executions : \A a \in Agents :
         /\ subtask[e][a] # "running" /\ subtask'[e][a] = "running"
         /\ "expire" \notin faults[e]
         => \A d \in DependsOn[a] : subtask[e][d] = "completed"]_vars

\* A subtask whose dependencies take MaxHandoffs or more subtasks is never
\* started, in any order of the rows, whatever fails and is delivered again:
\* each run starts counting from nothing (lines 35-51).
NeverReached ==
    \A e \in Executions : \A a \in OutOfReach(Agents, DependsOn, MaxHandoffs) :
        subtask[e][a] \in {"absent", "pending"}

\* An execution left running, with no job to continue it, was left there by a
\* crash or by an exception in fail() or release(); an exception in the work
\* itself, a skipped duplicate or a slow job does not strand it.
StrandedOnlyByCrash ==
    \A e \in Executions :
        /\ status[e] = "running"
        /\ e \notin queue
        /\ \A w \in Workers : job[w] # e
        => faults[e] \cap {"crash", "lost"} # {}

Promise == INSTANCE ExecutionPromise WITH
               MayRaise <- "raise" \in Faults,
               MayRestart <- MaxDeliveries > 1,
               abandoned <- {e \in Executions : faults[e] \cap {"crash", "lost"} # {}}

\* Unless a lock expires under a worker, the statuses of an execution follow the
\* promise of the API: nothing the job does in any order, with exceptions,
\* crashes and second deliveries, moves an execution along any other path.
KeepsPromise == Promise!Safety

\* The final status of an execution changes only from completed, to
\* bounded_completion by the worker that ran out of budget or to failed after
\* an exception in the last calls of complete(); or when its job is delivered
\* again, for nothing in the job looks at the status before starting over.
FinalStatusHolds ==
    [][\A e \in Executions :
         /\ status[e] \in Terminal /\ status'[e] # status[e]
         /\ deliveries[e] <= 1
         => /\ status[e] = "completed" \/ "raise" \in faults[e]
            /\ \/ status'[e] = "bounded_completion"
               \/ status'[e] = "failed" /\ "raise" \in faults[e]]_vars

\* When nobody works on an execution whose job was delivered once and met no
\* fault, its timeline tells its status: what a client polls and what it reads
\* in the timeline agree (the two are written by separate transactions).
TimelineMatchesStatus ==
    \A e \in Executions :
        /\ deliveries[e] = 1 /\ faults[e] = {}
        /\ \A w \in Workers : job[w] # e
        => /\ status[e] \in Terminal => {"started", "completed"} \subseteq audit[e]
           /\ status[e] = "bounded_completion" <=> "budget_cutoff" \in audit[e]
           /\ status[e] # "running"

\* Each project has one decision per completed execution once every worker is
\* idle, if no job was delivered twice or met a fault.
DecisionsMatchCompletions ==
    /\ \A e \in Executions : deliveries[e] <= 1 /\ faults[e] = {}
    /\ \A w \in Workers : pc[w] = "idle"
    => \A p \in Projects :
         Len(memory[p]) = Cardinality({e \in Executions :
                                          ProjectOf[e] = p /\ status[e] \in Terminal})

\* What the budget of an execution pays for: that many subtasks, a step and a
\* tool call each.
Affordable(n) == n <= MaxSteps /\ n <= MaxToolCalls

\* The n-th subtask was the first that the budget did not pay for, or the time was up.
CutOffAt(n) ==
    /\ n > 0 /\ Affordable(n - 1)
    /\ ~ Affordable(n) \/ \E ms \in Elapsed : ms > MaxDurationMs

\* The decisions of a project tell how the budgets were met: a run recorded as
\* processed finished no more subtasks than its budget pays for, and one recorded
\* as bounded was cut off by the first subtask it could not pay for, or by its
\* duration, but not by meeting a limit exactly (enforcer.py, lines 16-21;
\* worker.py, lines 82-84 and 109-110), whichever of two deliveries wrote it.
DecisionsTellBudget ==
    \A p \in Projects : \A i \in DOMAIN memory[p] :
        LET told == memory[p][i].content IN
        IF told[1] = "bounded" THEN CutOffAt(told[2]) ELSE Affordable(told[2])

\* Every queued execution that exists is brought to a final status.
EventuallySettled ==
    \A e \in Executions : status[e] = "queued" ~> status[e] \in Terminal

\* No lock survives: every execution can be locked again eventually.
LocksAreReleased ==
    \A e \in Executions : []<>(~ lock[e])

=============================================================================
