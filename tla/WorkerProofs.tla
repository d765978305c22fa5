----------------------------- MODULE WorkerProofs -----------------------------
(***************************************************************************)
(* run_execution_job for any number of executions, workers, subtasks and   *)
(* deliveries, and any faults: the types, which subtasks a run can reach,  *)
(* who holds the lock and who can leave it behind, how the status moves,   *)
(* on what a subtask is started, and that timeline and decisions agree     *)
(* with the status.                                                        *)
(***************************************************************************)
EXTENDS Worker, DecisionMemoryProofs, FiniteSetTheorems

SubtaskSteps == {"announce", "tool", "finish", "announce_done"}

\* What a run has done is closed under dependencies and takes at most one
\* handoff each; the subtask in hand has its own.
Counts(w) ==
    LET r == run[w] IN
    /\ r.handoffs <= MaxHandoffs
    /\ IsFiniteSet(r.done)
    /\ Cardinality(r.done) <= r.handoffs
    /\ Closed(r.done, DependsOn)
    /\ pc[w] \in SubtaskSteps =>
         /\ r.cur \in Agents
         /\ DependsOn[r.cur] \subseteq r.done
         /\ Cardinality(r.done) < r.handoffs

\* The entry a worker read is one of its project.
Reads(w) ==
    pc[w] = "add_memory" => run[w].latest \in 0..Len(memory[ProjectOf[job[w]]])

TypeInv == TypeOK /\ \A w \in Workers : Counts(w) /\ Reads(w)

LEMMA InitType == Init => TypeInv
<1> SUFFICES ASSUME Init PROVE TypeInv
  OBVIOUS
<1> USE DEF Init, WorkerInit, MemoryInit
<1>1. StoreTypeOK
  BY DEF StoreTypeOK, StatusValues, SubtaskValues, AuditEvents, CreationEvents
<1>2. TypeOK
  <2>1. Fresh \in RunValues
    BY DEF Fresh, RunValues
  <2> QED
    BY <1>1, <2>1 DEF TypeOK, Labels
<1>3. ASSUME NEW w \in Workers PROVE Counts(w) /\ Reads(w)
  <2>1. IsFiniteSet({}) /\ Cardinality({}) = 0
    BY FS_EmptySet
  <2>2. run[w] = Fresh /\ pc[w] = "idle"
    OBVIOUS
  <2>3. run[w].done = {} /\ run[w].handoffs = 0
    BY <2>2 DEF Fresh
  <2> HIDE DEF Init, WorkerInit, MemoryInit
  <2> QED
    BY <2>1, <2>2, <2>3, WorkerAssumption DEF Counts, Reads, Closed, SubtaskSteps
<1> QED
  BY <1>2, <1>3 DEF TypeInv

\* A worker whose local variables stay, and whose project's memory does not
\* shrink, keeps its counts and its reading.
LEMMA LocalFrame ==
    ASSUME TypeInv, NEW v \in Workers, run'[v] = run[v],
           pc'[v] \in SubtaskSteps => pc[v] \in SubtaskSteps
    PROVE  Counts(v)'
  BY DEF TypeInv, Counts

LEMMA ReadsFrame ==
    ASSUME TypeInv, NEW v \in Workers, run'[v] = run[v], job'[v] = job[v],
           memory' = memory,
           pc'[v] = "add_memory" => pc[v] = "add_memory"
    PROVE  Reads(v)'
  BY DEF TypeInv, Reads

\* A worker that ends its job starts the next one from nothing.
LEMMA FreshLocal ==
    ASSUME NEW v \in Workers, run'[v] = Fresh, pc'[v] = "idle"
    PROVE  Counts(v)' /\ Reads(v)'
<1>1. IsFiniteSet({}) /\ Cardinality({}) = 0
  BY FS_EmptySet
<1>2. run'[v].done = {} /\ run'[v].handoffs = 0
  BY DEF Fresh
<1> QED
  BY <1>1, <1>2, WorkerAssumption DEF Counts, Reads, Closed, SubtaskSteps

\* No specialist answers without a plan: no subtask ends as partial.
LEMMA EveryPlanIsFull ==
    ASSUME NEW a PROVE SubtaskResult(a) = "completed"
<1>1. AnalystPlan # {}
  BY DEF AnalystPlan
<1> QED
  BY <1>1 DEF SubtaskResult, ExecutionPlan

\* The decision of a worker: one more entry of its project, and of no other.
LEMMA AddsOne ==
    ASSUME TypeInv, NEW w \in Workers, AddMemory(w)
    PROVE  /\ job[w] \in Executions /\ ProjectOf[job[w]] \in Projects /\ MemoryType'
           /\ MemoryType /\ Len(memory'[ProjectOf[job[w]]]) = Len(memory[ProjectOf[job[w]]]) + 1
           /\ \A q \in Projects \ {ProjectOf[job[w]]} : memory'[q] = memory[q]
           /\ memory'[ProjectOf[job[w]]][Len(memory[ProjectOf[job[w]]]) + 1].content = Summary(w)
           /\ \A i \in 1..Len(memory[ProjectOf[job[w]]]) :
                memory'[ProjectOf[job[w]]][i].content = memory[ProjectOf[job[w]]][i].content
<1> DEFINE p == ProjectOf[job[w]]
<1>1. /\ job[w] \in Executions /\ p \in Projects /\ MemoryType
      /\ run[w] \in RunValues /\ Counts(w)
  BY StoreAssumption DEF AddMemory, TypeInv, TypeOK, StoreTypeOK, MemoryType
<1>2. Summary(w) \in Contents
  <2>1. run[w].handoffs \in 0..MaxHandoffs /\ Cardinality(run[w].done) \in 0..MaxHandoffs
    BY <1>1, FS_CardinalityType, WorkerAssumption DEF Counts, RunValues
  <2>2. /\ <<"bounded", run[w].handoffs>> \in {"processed", "bounded"} \X (0..MaxHandoffs)
        /\ <<"processed", Cardinality(run[w].done)>> \in {"processed", "bounded"} \X (0..MaxHandoffs)
    BY <2>1
  <2> QED
    BY <2>2, WorkerAssumption DEF Summary
<1>3. run[w].latest \in 0..Len(memory[p])
  BY DEF AddMemory, TypeInv, Reads
<1>4. AddDecision(p, run[w].latest, Summary(w))
  BY DEF AddMemory
<1> HIDE DEF p
<1>5. /\ MemoryType' /\ Len(memory'[p]) = Len(memory[p]) + 1
      /\ \A q \in Projects \ {p} : memory'[q] = memory[q]
      /\ memory'[p][Len(memory[p]) + 1].content = Summary(w)
      /\ \A i \in 1..Len(memory[p]) : memory'[p][i].content = memory[p][i].content
  BY <1>1, <1>2, <1>3, <1>4, AddDecisionAppends
<1> QED
  BY <1>1, <1>5 DEF p

LEMMA TypeStep == TypeInv /\ [Next]_vars => TypeInv'
<1> SUFFICES ASSUME TypeInv, [Next]_vars PROVE TypeInv'
  OBVIOUS
<1> USE DEF TypeInv, TypeOK, StoreTypeOK, storeVars, localVars
<1> USE DEF Labels, Held, TryBlock, Handler
<1>1. ASSUME NEW w \in Workers, MarkRunning(w) PROVE TypeInv'
  <2>1. TypeOK'
    BY <1>1 DEF MarkRunning, Step, Go, SetStatus, SetSubtask, Log, Blame,
                 StatusValues, SubtaskValues, AuditEvents, FaultValues
  <2>2. ASSUME NEW v \in Workers PROVE Counts(v)' /\ Reads(v)'
    BY <1>1, LocalFrame, ReadsFrame DEF MarkRunning, Step, Go, SubtaskSteps
  <2> QED
    BY <2>1, <2>2
<1>2. ASSUME NEW w \in Workers, AuditStarted(w) PROVE TypeInv'
  <2>1. TypeOK'
    BY <1>2 DEF AuditStarted, Step, Go, SetStatus, SetSubtask, Log, Blame,
                 StatusValues, SubtaskValues, AuditEvents, FaultValues
  <2>2. ASSUME NEW v \in Workers PROVE Counts(v)' /\ Reads(v)'
    BY <1>2, LocalFrame, ReadsFrame DEF AuditStarted, Step, Go, SubtaskSteps
  <2> QED
    BY <2>1, <2>2
<1>3. ASSUME NEW w \in Workers, HandOffCutoff(w) PROVE TypeInv'
  <2>1. TypeOK'
    BY <1>3 DEF HandOffCutoff, Step, Go, SetStatus, SetSubtask, Log, Blame,
                 StatusValues, SubtaskValues, AuditEvents, FaultValues
  <2>2. ASSUME NEW v \in Workers PROVE Counts(v)' /\ Reads(v)'
    BY <1>3, LocalFrame, ReadsFrame DEF HandOffCutoff, Step, Go, SubtaskSteps
  <2> QED
    BY <2>1, <2>2
<1>4. ASSUME NEW w \in Workers, AuditSubtaskStarted(w) PROVE TypeInv'
  <2>1. TypeOK'
    BY <1>4 DEF AuditSubtaskStarted, Step, Go, SetStatus, SetSubtask, Log, Blame,
                 StatusValues, SubtaskValues, AuditEvents, FaultValues
  <2>2. ASSUME NEW v \in Workers PROVE Counts(v)' /\ Reads(v)'
    BY <1>4, LocalFrame, ReadsFrame DEF AuditSubtaskStarted, Step, Go, SubtaskSteps
  <2> QED
    BY <2>1, <2>2
<1>5. ASSUME NEW w \in Workers, FinishSubtask(w) PROVE TypeInv'
  <2>1. TypeOK'
    BY <1>5, EveryPlanIsFull DEF FinishSubtask, Step, Go, SetStatus, SetSubtask, Log, Blame,
                 StatusValues, SubtaskValues, AuditEvents, FaultValues
  <2>2. ASSUME NEW v \in Workers PROVE Counts(v)' /\ Reads(v)'
    BY <1>5, EveryPlanIsFull, LocalFrame, ReadsFrame DEF FinishSubtask, Step, Go, SubtaskSteps
  <2> QED
    BY <2>1, <2>2
<1>6. ASSUME NEW w \in Workers, CompleteStatus(w) PROVE TypeInv'
  <2>1. TypeOK'
    BY <1>6 DEF CompleteStatus, Step, Go, SetStatus, SetSubtask, Log, Blame,
                 StatusValues, SubtaskValues, AuditEvents, FaultValues
  <2>2. ASSUME NEW v \in Workers PROVE Counts(v)' /\ Reads(v)'
    BY <1>6, LocalFrame, ReadsFrame DEF CompleteStatus, Step, Go, SubtaskSteps
  <2> QED
    BY <2>1, <2>2
<1>7. ASSUME NEW w \in Workers, AuditCompleted(w) PROVE TypeInv'
  <2>1. TypeOK'
    BY <1>7 DEF AuditCompleted, Step, Go, SetStatus, SetSubtask, Log, Blame,
                 StatusValues, SubtaskValues, AuditEvents, FaultValues
  <2>2. ASSUME NEW v \in Workers PROVE Counts(v)' /\ Reads(v)'
    BY <1>7, LocalFrame, ReadsFrame DEF AuditCompleted, Step, Go, SubtaskSteps
  <2> QED
    BY <2>1, <2>2
<1>8. ASSUME NEW w \in Workers, Bound(w) PROVE TypeInv'
  <2>1. TypeOK'
    BY <1>8 DEF Bound, Step, Go, SetStatus, SetSubtask, Log, Blame,
                 StatusValues, SubtaskValues, AuditEvents, FaultValues
  <2>2. ASSUME NEW v \in Workers PROVE Counts(v)' /\ Reads(v)'
    BY <1>8, LocalFrame, ReadsFrame DEF Bound, Step, Go, SubtaskSteps
  <2> QED
    BY <2>1, <2>2
<1>9. ASSUME NEW w \in Workers, AuditCutoff(w) PROVE TypeInv'
  <2>1. TypeOK'
    BY <1>9 DEF AuditCutoff, Step, Go, SetStatus, SetSubtask, Log, Blame,
                 StatusValues, SubtaskValues, AuditEvents, FaultValues
  <2>2. ASSUME NEW v \in Workers PROVE Counts(v)' /\ Reads(v)'
    BY <1>9, LocalFrame, ReadsFrame DEF AuditCutoff, Step, Go, SubtaskSteps
  <2> QED
    BY <2>1, <2>2
<1>10. ASSUME NEW w \in Workers, FailStatus(w) PROVE TypeInv'
  <2>1. TypeOK'
    BY <1>10 DEF FailStatus, Step, Go, SetStatus, SetSubtask, Log, Blame,
                 StatusValues, SubtaskValues, AuditEvents, FaultValues
  <2>2. ASSUME NEW v \in Workers PROVE Counts(v)' /\ Reads(v)'
    BY <1>10, LocalFrame, ReadsFrame DEF FailStatus, Step, Go, SubtaskSteps
  <2> QED
    BY <2>1, <2>2
<1>11. ASSUME NEW w \in Workers, AuditFailed(w) PROVE TypeInv'
  <2>1. TypeOK'
    BY <1>11 DEF AuditFailed, Step, Go, SetStatus, SetSubtask, Log, Blame,
                 StatusValues, SubtaskValues, AuditEvents, FaultValues
  <2>2. ASSUME NEW v \in Workers PROVE Counts(v)' /\ Reads(v)'
    BY <1>11, LocalFrame, ReadsFrame DEF AuditFailed, Step, Go, SubtaskSteps
  <2> QED
    BY <2>1, <2>2
<1>12. ASSUME NEW w \in Workers, Acquire(w) PROVE TypeInv'
  <2>1. TypeOK'
    BY <1>12 DEF Acquire, Step, Go, SetStatus, SetSubtask, Log, Blame,
                 StatusValues, SubtaskValues, AuditEvents, FaultValues
  <2>2. ASSUME NEW v \in Workers PROVE Counts(v)' /\ Reads(v)'
    BY <1>12, LocalFrame, ReadsFrame DEF Acquire, Step, Go, SubtaskSteps
  <2> QED
    BY <2>1, <2>2
<1>13. ASSUME NEW w \in Workers, Load(w) PROVE TypeInv'
  <2>1. TypeOK'
    BY <1>13 DEF Load, Step, Go, SetStatus, SetSubtask, Log, Blame,
                 StatusValues, SubtaskValues, AuditEvents, FaultValues
  <2>2. ASSUME NEW v \in Workers PROVE Counts(v)' /\ Reads(v)'
    BY <1>13, LocalFrame, ReadsFrame DEF Load, Step, Go, SubtaskSteps
  <2> QED
    BY <2>1, <2>2
<1>14. ASSUME NEW w \in Workers, Raise(w) PROVE TypeInv'
  <2>1. TypeOK'
    BY <1>14 DEF Raise, Step, Go, SetStatus, SetSubtask, Log, Blame,
                 StatusValues, SubtaskValues, AuditEvents, FaultValues
  <2>2. ASSUME NEW v \in Workers PROVE Counts(v)' /\ Reads(v)'
    BY <1>14, LocalFrame, ReadsFrame DEF Raise, Step, Go, SubtaskSteps
  <2> QED
    BY <2>1, <2>2
<1>15. ASSUME NEW w \in Workers, RaiseInHandler(w) PROVE TypeInv'
  <2>1. TypeOK'
    BY <1>15 DEF RaiseInHandler, Step, Go, SetStatus, SetSubtask, Log, Blame,
                 StatusValues, SubtaskValues, AuditEvents, FaultValues
  <2>2. ASSUME NEW v \in Workers PROVE Counts(v)' /\ Reads(v)'
    BY <1>15, LocalFrame, ReadsFrame DEF RaiseInHandler, Step, Go, SubtaskSteps
  <2> QED
    BY <2>1, <2>2
<1>16. ASSUME NEW w \in Workers, AuditSkipped(w) PROVE TypeInv'
  <2>0. Fresh \in RunValues
    BY DEF Fresh, RunValues
  <2>1. TypeOK'
    BY <1>16, <2>0 DEF AuditSkipped, EndJob, Go, Log, Blame, AuditEvents, FaultValues
  <2>2. ASSUME NEW v \in Workers PROVE Counts(v)' /\ Reads(v)'
    <3>1. CASE v = w
      BY <1>16, <3>1, FreshLocal DEF AuditSkipped, EndJob, Go
    <3>2. CASE v # w
      BY <1>16, <3>2, LocalFrame, ReadsFrame DEF AuditSkipped, EndJob, Go
    <3> QED
      BY <3>1, <3>2
  <2> QED
    BY <2>1, <2>2
<1>17. ASSUME NEW w \in Workers, Release(w) PROVE TypeInv'
  <2>0. Fresh \in RunValues
    BY DEF Fresh, RunValues
  <2>1. TypeOK'
    BY <1>17, <2>0 DEF Release, EndJob, Go, Log, Blame, AuditEvents, FaultValues
  <2>2. ASSUME NEW v \in Workers PROVE Counts(v)' /\ Reads(v)'
    <3>1. CASE v = w
      BY <1>17, <3>1, FreshLocal DEF Release, EndJob, Go
    <3>2. CASE v # w
      BY <1>17, <3>2, LocalFrame, ReadsFrame DEF Release, EndJob, Go
    <3> QED
      BY <3>1, <3>2
  <2> QED
    BY <2>1, <2>2
<1>18. ASSUME NEW w \in Workers, RaiseOutside(w) PROVE TypeInv'
  <2>0. Fresh \in RunValues
    BY DEF Fresh, RunValues
  <2>1. TypeOK'
    BY <1>18, <2>0 DEF RaiseOutside, EndJob, Go, Log, Blame, AuditEvents, FaultValues
  <2>2. ASSUME NEW v \in Workers PROVE Counts(v)' /\ Reads(v)'
    <3>1. CASE v = w
      BY <1>18, <3>1, FreshLocal DEF RaiseOutside, EndJob, Go
    <3>2. CASE v # w
      BY <1>18, <3>2, LocalFrame, ReadsFrame DEF RaiseOutside, EndJob, Go
    <3> QED
      BY <3>1, <3>2
  <2> QED
    BY <2>1, <2>2
<1>19. ASSUME NEW w \in Workers, Crash(w) PROVE TypeInv'
  <2>0. Fresh \in RunValues
    BY DEF Fresh, RunValues
  <2>1. TypeOK'
    BY <1>19, <2>0 DEF Crash, EndJob, Go, Log, Blame, AuditEvents, FaultValues
  <2>2. ASSUME NEW v \in Workers PROVE Counts(v)' /\ Reads(v)'
    <3>1. CASE v = w
      BY <1>19, <3>1, FreshLocal DEF Crash, EndJob, Go
    <3>2. CASE v # w
      BY <1>19, <3>2, LocalFrame, ReadsFrame DEF Crash, EndJob, Go
    <3> QED
      BY <3>1, <3>2
  <2> QED
    BY <2>1, <2>2
<1>20. ASSUME NEW w \in Workers, Unpack(w) PROVE TypeInv'
  <2>0. Fresh \in RunValues
    BY DEF Fresh, RunValues
  <2>1. CASE UnpackedNames = RepositoryCount
    <3>1. TypeOK'
      BY <1>20, <2>1 DEF Unpack, Go
    <3>2. ASSUME NEW v \in Workers PROVE Counts(v)' /\ Reads(v)'
      BY <1>20, <2>1, LocalFrame, ReadsFrame DEF Unpack, Go, SubtaskSteps
    <3> QED
      BY <3>1, <3>2
  <2>2. CASE UnpackedNames # RepositoryCount
    <3>1. TypeOK'
      BY <1>20, <2>0, <2>2 DEF Unpack, EndJob, Go
    <3>2. ASSUME NEW v \in Workers PROVE Counts(v)' /\ Reads(v)'
      <4>1. CASE v = w
        BY <1>20, <2>2, <4>1, FreshLocal DEF Unpack, EndJob, Go
      <4>2. CASE v # w
        BY <1>20, <2>2, <4>2, LocalFrame, ReadsFrame DEF Unpack, EndJob, Go
      <4> QED
        BY <4>1, <4>2
    <3> QED
      BY <3>1, <3>2
  <2> QED
    BY <2>1, <2>2
<1>21. ASSUME NEW w \in Workers, ListSubtasks(w) PROVE TypeInv'
  <2> DEFINE r == [run[w] EXCEPT !.todo = {a \in Agents : subtask[job[w]][a] # "absent"}]
  <2>1. r \in RunValues /\ r.done = run[w].done /\ r.handoffs = run[w].handoffs
    BY DEF RunValues
  <2>2. run' = [run EXCEPT ![w] = r]
    BY <1>21 DEF ListSubtasks
  <2> HIDE DEF r
  <2>3. TypeOK'
    BY <1>21, <2>1, <2>2 DEF ListSubtasks, Step, Go
  <2>4. ASSUME NEW v \in Workers PROVE Counts(v)' /\ Reads(v)'
    <3>1. CASE v = w
      BY <1>21, <3>1, <2>1, <2>2 DEF ListSubtasks, Step, Go, Counts, Reads, SubtaskSteps
    <3>2. CASE v # w
      BY <1>21, <3>2, <2>2, LocalFrame, ReadsFrame DEF ListSubtasks, Step, Go
    <3> QED
      BY <3>1, <3>2
  <2> QED
    BY <2>3, <2>4
<1>22. ASSUME NEW w \in Workers, SkipSubtask(w) PROVE TypeInv'
  <2>1. PICK a \in run[w].todo : run' = [run EXCEPT ![w].todo = @ \ {a}]
    BY <1>22 DEF SkipSubtask
  <2> DEFINE r == [run[w] EXCEPT !.todo = @ \ {a}]
  <2>2. r \in RunValues /\ r.done = run[w].done /\ r.handoffs = run[w].handoffs
    BY DEF RunValues
  <2>3. run' = [run EXCEPT ![w] = r]
    BY <2>1
  <2> HIDE DEF r
  <2>4. TypeOK'
    BY <1>22, <2>2, <2>3 DEF SkipSubtask
  <2>5. ASSUME NEW v \in Workers PROVE Counts(v)' /\ Reads(v)'
    <3>1. CASE v = w
      BY <1>22, <3>1, <2>2, <2>3 DEF SkipSubtask, Counts, Reads, SubtaskSteps
    <3>2. CASE v # w
      BY <1>22, <3>2, <2>3, LocalFrame, ReadsFrame DEF SkipSubtask
    <3> QED
      BY <3>1, <3>2
  <2> QED
    BY <2>4, <2>5
<1>23. ASSUME NEW w \in Workers, HandOff(w) PROVE TypeInv'
  <2>1. PICK a \in run[w].todo :
           /\ Ready(w, a)
           /\ run' = [run EXCEPT ![w] = TakeUp(run[w], a)]
           /\ SetSubtask(job[w], a, "running")
    BY <1>23 DEF HandOff
  <2> DEFINE r == TakeUp(run[w], a)
  <2>2. /\ r \in RunValues /\ a \in Agents
        /\ r.done = run[w].done /\ r.handoffs = run[w].handoffs + 1 /\ r.cur = a
    BY DEF RunValues, TakeUp
  <2>3. run' = [run EXCEPT ![w] = r]
    BY <2>1
  <2> HIDE DEF r
  <2>4. TypeOK'
    <3>1. subtask' \in [Executions -> [Agents -> SubtaskValues]]
      <4>1. subtask' = [subtask EXCEPT ![job[w]][a] = "running"]
        BY <2>1 DEF SetSubtask
      <4>2. job[w] \in Executions
        BY <1>23 DEF HandOff, Step
      <4> QED
        BY <4>1, <4>2, <2>2 DEF SubtaskValues
    <3>2. run' \in [Workers -> RunValues]
      BY <2>2, <2>3
    <3> QED
      BY <1>23, <3>1, <3>2 DEF HandOff, Step, Go
  <2>5. ASSUME NEW v \in Workers PROVE Counts(v)' /\ Reads(v)'
    <3>1. CASE v = w
      <4>1. run[w].handoffs \in Nat /\ run[w].handoffs + 1 <= MaxHandoffs
        BY <1>23, WorkerAssumption DEF HandOff, RunValues
      <4>2. Cardinality(run[w].done) \in Nat
        BY FS_CardinalityType DEF Counts
      <4>3. DependsOn[a] \subseteq run[w].done
        BY <2>1 DEF Ready
      <4>4. pc'[w] = "announce" /\ run'[w] = r
        BY <1>23, <2>3 DEF HandOff, Step, Go
      <4> QED
        BY <3>1, <2>2, <4>1, <4>2, <4>3, <4>4 DEF Counts, Reads
    <3>2. CASE v # w
      BY <1>23, <3>2, <2>3, LocalFrame, ReadsFrame DEF HandOff, Step, Go
    <3> QED
      BY <3>1, <3>2
  <2> QED
    BY <2>4, <2>5
<1>24. ASSUME NEW w \in Workers, RunTool(w) PROVE TypeInv'
  <2>1. PICK ms \in Elapsed :
           LET over == CutoffReason(run[w].handoffs, run[w].handoffs, ms) # "none" IN
           /\ Go(w, IF over THEN "complete" ELSE "finish")
           /\ run' = [run EXCEPT ![w].bounded = over]
    BY <1>24 DEF RunTool
  <2> DEFINE over == CutoffReason(run[w].handoffs, run[w].handoffs, ms) # "none"
             r == [run[w] EXCEPT !.bounded = over]
  <2>2. /\ r \in RunValues
        /\ r.done = run[w].done /\ r.handoffs = run[w].handoffs /\ r.cur = run[w].cur
    <3> HIDE DEF over
    <3>1. over \in BOOLEAN
      BY DEF over
    <3> QED
      BY <3>1 DEF RunValues
  <2>3. /\ run' = [run EXCEPT ![w] = r]
        /\ pc' = [pc EXCEPT ![w] = "complete"] \/ pc' = [pc EXCEPT ![w] = "finish"]
    BY <2>1 DEF Go
  <2> HIDE DEF r, over
  <2>4. TypeOK'
    BY <1>24, <2>2, <2>3 DEF RunTool, Log, AuditEvents
  <2>5. ASSUME NEW v \in Workers PROVE Counts(v)' /\ Reads(v)'
    <3>1. CASE v = w
      BY <1>24, <3>1, <2>2, <2>3 DEF RunTool, Counts, Reads, SubtaskSteps
    <3>2. CASE v # w
      BY <1>24, <3>2, <2>3, LocalFrame, ReadsFrame DEF RunTool
    <3> QED
      BY <3>1, <3>2
  <2> QED
    BY <2>4, <2>5
<1>25. ASSUME NEW w \in Workers, AuditSubtaskDone(w) PROVE TypeInv'
  <2> DEFINE a == run[w].cur
             r == [run[w] EXCEPT !.done = @ \cup {a}]
  <2>1. pc[w] = "announce_done" /\ a \in Agents /\ DependsOn[a] \subseteq run[w].done
    BY <1>25 DEF AuditSubtaskDone, Step, Counts, SubtaskSteps
  <2>2. r \in RunValues /\ r.done = run[w].done \cup {a} /\ r.handoffs = run[w].handoffs
    BY <2>1 DEF RunValues
  <2>3. run' = [run EXCEPT ![w] = r]
    BY <1>25 DEF AuditSubtaskDone
  <2>4. /\ IsFiniteSet(run[w].done \cup {a})
        /\ Cardinality(run[w].done \cup {a}) <= run[w].handoffs
    <3>1. /\ IsFiniteSet(run[w].done) /\ Cardinality(run[w].done) \in Nat
          /\ run[w].handoffs \in Nat
          /\ Cardinality(run[w].done) < run[w].handoffs
      BY <2>1, FS_CardinalityType DEF Counts, SubtaskSteps, RunValues
    <3>2. \/ Cardinality(run[w].done \cup {a}) = Cardinality(run[w].done)
          \/ Cardinality(run[w].done \cup {a}) = Cardinality(run[w].done) + 1
      BY <3>1, FS_AddElement
    <3>3. IsFiniteSet(run[w].done \cup {a})
      BY <3>1, FS_AddElement
    <3> QED
      BY <3>1, <3>2, <3>3
  <2>5. Closed(run[w].done \cup {a}, DependsOn)
    BY <2>1 DEF Counts, Closed
  <2> HIDE DEF r, a
  <2>6. TypeOK'
    BY <1>25, <2>2, <2>3 DEF AuditSubtaskDone, Step, Go, Log, AuditEvents
  <2>7. ASSUME NEW v \in Workers PROVE Counts(v)' /\ Reads(v)'
    <3>1. CASE v = w
      <4>1. run'[w] = r /\ pc'[w] = "loop"
        BY <1>25, <2>3 DEF AuditSubtaskDone, Step, Go
      <4>2. run[w].handoffs <= MaxHandoffs
        BY DEF Counts
      <4> QED
        BY <3>1, <4>1, <4>2, <2>2, <2>4, <2>5 DEF Counts, Reads, SubtaskSteps
    <3>2. CASE v # w
      BY <1>25, <3>2, <2>3, LocalFrame, ReadsFrame DEF AuditSubtaskDone, Step, Go
    <3> QED
      BY <3>1, <3>2
  <2> QED
    BY <2>6, <2>7
<1>26. ASSUME NEW w \in Workers, ReadLatest(w) PROVE TypeInv'
  <2>1. PICK i \in Latest(ProjectOf[job[w]]) : run' = [run EXCEPT ![w].latest = i]
    BY <1>26 DEF ReadLatest
  <2>2. job[w] \in Executions /\ ProjectOf[job[w]] \in Projects /\ MemoryType
    BY <1>26, StoreAssumption DEF ReadLatest, Step, MemoryType
  <2>3. i \in 0..Len(memory[ProjectOf[job[w]]]) /\ Len(memory[ProjectOf[job[w]]]) \in Nat
    BY <2>1, <2>2, LatestInRange DEF MemoryType
  <2> DEFINE r == [run[w] EXCEPT !.latest = i]
  <2>4. /\ r \in RunValues /\ r.latest = i
        /\ r.done = run[w].done /\ r.handoffs = run[w].handoffs
    <3>1. i \in Nat
      BY <2>3
    <3> QED
      BY <3>1 DEF RunValues
  <2>5. run' = [run EXCEPT ![w] = r]
    BY <2>1
  <2> HIDE DEF r
  <2>6. TypeOK'
    BY <1>26, <2>4, <2>5 DEF ReadLatest, Step, Go
  <2>7. ASSUME NEW v \in Workers PROVE Counts(v)' /\ Reads(v)'
    <3>1. CASE v = w
      BY <1>26, <3>1, <2>3, <2>4, <2>5 DEF ReadLatest, Step, Go, Counts, Reads, SubtaskSteps
    <3>2. CASE v # w
      BY <1>26, <3>2, <2>5, LocalFrame, ReadsFrame DEF ReadLatest, Step, Go
    <3> QED
      BY <3>1, <3>2
  <2> QED
    BY <2>6, <2>7
<1>27. ASSUME NEW w \in Workers, AddMemory(w) PROVE TypeInv'
  <2> DEFINE p == ProjectOf[job[w]]
  <2>1. job[w] \in Executions /\ p \in Projects /\ MemoryType
    BY <1>27, AddsOne, StoreAssumption DEF MemoryType
  <2>4. /\ MemoryType'
        /\ Len(memory'[p]) = Len(memory[p]) + 1
        /\ \A q \in Projects \ {p} : memory'[q] = memory[q]
    BY <1>27, AddsOne
  <2>5. /\ pc' = [pc EXCEPT ![w] = "bound"] \/ pc' = [pc EXCEPT ![w] = "release"]
        /\ UNCHANGED <<status, subtask, audit, queue, job, run, lock, deliveries, faults>>
    BY <1>27 DEF AddMemory, Go
  <2>6. TypeOK'
    BY <2>1, <2>4, <2>5 DEF MemoryType
  <2>7. ASSUME NEW v \in Workers PROVE Counts(v)' /\ Reads(v)'
    <3>1. Counts(v)'
      BY <2>5, LocalFrame DEF SubtaskSteps
    <3>2. CASE pc'[v] = "add_memory"
      <4>1. pc[v] = "add_memory" /\ job[v] \in Executions /\ ProjectOf[job[v]] \in Projects
        BY <3>2, <2>5, StoreAssumption
      <4>2. Len(memory[p]) \in Nat /\ Len(memory[ProjectOf[job[v]]]) \in Nat
        BY <2>1, <4>1 DEF MemoryType
      <4> QED
        BY <4>1, <4>2, <3>1, <2>4, <2>5 DEF Reads
    <3> QED
      BY <3>1, <3>2 DEF Reads
  <2> QED
    BY <2>6, <2>7
<1>28. ASSUME NEW w \in Workers, NEW e \in Executions, Deliver(w, e) PROVE TypeInv'
  <2>1. TypeOK'
    BY <1>28 DEF Deliver, Step, Go
  <2>2. ASSUME NEW v \in Workers PROVE Counts(v)' /\ Reads(v)'
    <3>1. Counts(v)'
      BY <1>28, LocalFrame DEF Deliver, Step, Go, SubtaskSteps
    <3>2. Reads(v)'
      <4>1. CASE v = w
        BY <1>28, <4>1 DEF Deliver, Step, Go, Reads
      <4>2. CASE v # w
        BY <1>28, <4>2, ReadsFrame DEF Deliver, Step, Go
      <4> QED
        BY <4>1, <4>2
    <3> QED
      BY <3>1, <3>2
  <2> QED
    BY <2>1, <2>2
<1>29. ASSUME NEW e \in Executions, ExpireLock(e) PROVE TypeInv'
  <2>1. faults' \in [Executions -> SUBSET FaultValues]
    <3>1. faults' = faults \/ faults' = [faults EXCEPT ![e] = @ \cup {"expire"}]
      BY <1>29 DEF ExpireLock, Blame
    <3>2. faults \in [Executions -> SUBSET FaultValues] /\ {"expire"} \subseteq FaultValues
      BY DEF FaultValues
    <3>3. [faults EXCEPT ![e] = @ \cup {"expire"}] \in [Executions -> SUBSET FaultValues]
      BY <3>2
    <3> QED
      BY <3>1, <3>2, <3>3
  <2>3. TypeOK'
    BY <1>29, <2>1 DEF ExpireLock
  <2>2. ASSUME NEW v \in Workers PROVE Counts(v)' /\ Reads(v)'
    BY <1>29, LocalFrame, ReadsFrame DEF ExpireLock
  <2> QED
    BY <2>2, <2>3
<1>30. ASSUME UNCHANGED vars PROVE TypeInv'
  BY <1>30 DEF vars, workerVars, Counts, Reads
<1> QED
  BY <1>1, <1>2, <1>3, <1>4, <1>5, <1>6, <1>7, <1>8, <1>9, <1>10, <1>11, <1>12, <1>13, <1>14, <1>15, <1>16, <1>17, <1>18, <1>19, <1>20, <1>21, <1>22, <1>23, <1>24, <1>25, <1>26, <1>27, <1>28, <1>29, <1>30
     DEF Next, WorkerNext, WorkerStep, AllIdle

\* The variables keep their types, whatever the schedule and the faults.
THEOREM TypeCorrect == Spec => []TypeOK
<1>1. TypeInv => TypeOK
  BY DEF TypeInv
<1> QED
  BY InitType, TypeStep, <1>1, PTL DEF Spec

-----------------------------------------------------------------------------

(***************************************************************************)
(* Which subtasks the handoff limit leaves out, for any plan and limit.    *)
(***************************************************************************)
Far == OutOfReach(Agents, DependsOn, MaxHandoffs)

ReachInv == TypeInv /\ NeverReached

\* What a worker may take up with fewer than MaxHandoffs subtasks done is in
\* reach: the done subtasks are the closed set that shows it.
LEMMA InReach ==
    ASSUME TypeInv, NEW w \in Workers, NEW a \in Agents,
           DependsOn[a] \subseteq run[w].done,
           Cardinality(run[w].done) < MaxHandoffs
    PROVE  a \notin Far
<1>1. run[w].done \in SUBSET Agents
  BY DEF TypeInv, TypeOK, RunValues
<1>2. Closed(run[w].done, DependsOn) /\ IsFiniteSet(run[w].done)
  BY DEF TypeInv, Counts
<1>3. Cardinality(run[w].done) \in Nat /\ MaxHandoffs \in Nat
  BY <1>2, FS_CardinalityType, WorkerAssumption
<1>4. ~ (Cardinality(run[w].done) >= MaxHandoffs)
  BY <1>3
<1> QED
  BY <1>1, <1>2, <1>4 DEF Far, OutOfReach

LEMMA InitReach == Init => ReachInv
<1>1. Init => NeverReached
  BY DEF Init, NeverReached, OutOfReach
<1> QED
  BY <1>1, InitType DEF ReachInv

\* The step sets the row of one subtask that is in reach.
LEMMA NearStep ==
    ASSUME NeverReached, subtask \in [Executions -> [Agents -> SubtaskValues]],
           NEW e \in Executions, NEW a \in Agents, a \notin Far, NEW s,
           SetSubtask(e, a, s)
    PROVE  NeverReached'
<1>1. subtask' = [subtask EXCEPT ![e][a] = s]
  BY DEF SetSubtask
<1> SUFFICES ASSUME NEW x \in Executions, NEW b \in Far PROVE subtask'[x][b] \in {"absent", "pending"}
  BY DEF NeverReached, Far
<1>2. b \in Agents /\ b # a
  BY DEF Far, OutOfReach
<1>3. subtask'[x][b] = subtask[x][b]
  BY <1>1, <1>2
<1> QED
  BY <1>3 DEF NeverReached, Far

LEMMA ReachStep == ReachInv /\ [Next]_vars => ReachInv'
<1> SUFFICES ASSUME ReachInv, [Next]_vars PROVE ReachInv'
  OBVIOUS
<1>1. TypeInv /\ TypeInv' /\ NeverReached
  BY TypeStep DEF ReachInv
<1>2. /\ subtask \in [Executions -> [Agents -> SubtaskValues]]
      /\ run \in [Workers -> RunValues]
      /\ \A w \in Workers : Counts(w)
      /\ \A w \in Workers : pc[w] # "idle" => job[w] \in Executions
      /\ MaxHandoffs \in Nat
  BY <1>1, WorkerAssumption DEF TypeInv, TypeOK, StoreTypeOK
<1>3. ASSUME subtask' = subtask PROVE NeverReached'
  BY <1>1, <1>3 DEF NeverReached
<1>4. ASSUME NEW w \in Workers, HandOff(w) PROVE NeverReached'
  <2>1. PICK a \in run[w].todo : Ready(w, a) /\ SetSubtask(job[w], a, "running")
    BY <1>4 DEF HandOff
  <2>2. a \in Agents /\ job[w] \in Executions
    BY <1>2, <1>4 DEF HandOff, Step, RunValues
  <2>3. Cardinality(run[w].done) < MaxHandoffs
    <3>1. Cardinality(run[w].done) \in Nat /\ run[w].handoffs \in Nat
      BY <1>2, FS_CardinalityType DEF Counts, RunValues
    <3>2. run[w].handoffs < MaxHandoffs /\ Cardinality(run[w].done) <= run[w].handoffs
      BY <1>2, <1>4 DEF HandOff, Counts
    <3> QED
      BY <1>2, <3>1, <3>2
  <2>4. a \notin Far
    BY <1>1, <2>1, <2>2, <2>3, InReach DEF Ready
  <2> QED
    BY <1>1, <1>2, <2>1, <2>2, <2>4, NearStep
<1>5. ASSUME NEW w \in Workers, FinishSubtask(w) PROVE NeverReached'
  <2>1. pc[w] = "finish" /\ SetSubtask(job[w], run[w].cur, "completed")
    BY <1>5, EveryPlanIsFull DEF FinishSubtask, Step
  <2>2. /\ run[w].cur \in Agents /\ DependsOn[run[w].cur] \subseteq run[w].done
        /\ Cardinality(run[w].done) < run[w].handoffs
        /\ run[w].handoffs <= MaxHandoffs
    BY <1>2, <2>1 DEF Counts, SubtaskSteps
  <2>3. Cardinality(run[w].done) < MaxHandoffs
    <3>1. Cardinality(run[w].done) \in Nat /\ run[w].handoffs \in Nat
      BY <1>2, FS_CardinalityType DEF Counts, RunValues
    <3> QED
      BY <1>2, <2>2, <3>1
  <2>4. run[w].cur \notin Far /\ job[w] \in Executions
    BY <1>1, <1>2, <2>1, <2>2, <2>3, InReach
  <2> QED
    BY <1>1, <1>2, <2>1, <2>2, <2>4, NearStep
<1>6. ASSUME NEW w \in Workers,
             Unpack(w) \/ Acquire(w) \/ AuditSkipped(w) \/ Load(w) \/ MarkRunning(w)
             \/ AuditStarted(w) \/ ListSubtasks(w) \/ SkipSubtask(w) \/ HandOffCutoff(w)
             \/ AuditSubtaskStarted(w) \/ RunTool(w) \/ AuditSubtaskDone(w)
      PROVE  subtask' = subtask
  BY <1>6 DEF Unpack, Acquire, AuditSkipped, Load, MarkRunning, AuditStarted, ListSubtasks,
              SkipSubtask, HandOffCutoff, AuditSubtaskStarted, RunTool, AuditSubtaskDone,
              storeVars
<1>7. ASSUME NEW w \in Workers,
             CompleteStatus(w) \/ AuditCompleted(w) \/ ReadLatest(w) \/ AddMemory(w)
             \/ Bound(w) \/ AuditCutoff(w) \/ FailStatus(w) \/ AuditFailed(w) \/ Release(w)
             \/ Raise(w) \/ RaiseInHandler(w) \/ RaiseOutside(w) \/ Crash(w)
      PROVE  subtask' = subtask
  BY <1>7 DEF CompleteStatus, AuditCompleted, ReadLatest, AddMemory, Bound, AuditCutoff,
              FailStatus, AuditFailed, Release, Raise, RaiseInHandler, RaiseOutside, Crash,
              storeVars
<1>8. ASSUME (\E w \in Workers, e \in Executions : Deliver(w, e))
             \/ (\E e \in Executions : ExpireLock(e)) \/ UNCHANGED vars
      PROVE  subtask' = subtask
  BY <1>8 DEF Deliver, ExpireLock, vars, storeVars
<1>9. NeverReached'
  BY <1>3, <1>4, <1>5, <1>6, <1>7, <1>8 DEF Next, WorkerNext, WorkerStep, AllIdle
<1> QED
  BY <1>1, <1>9 DEF ReachInv

\* A subtask whose dependencies take as many subtasks as the handoff limit allows
\* is never started: for the plan and the limit of the code, the analyst's.
THEOREM FarIsNeverReached == Spec => []NeverReached
<1>1. ReachInv => NeverReached
  BY DEF ReachInv
<1> QED
  BY InitReach, ReachStep, <1>1, PTL DEF Spec

-----------------------------------------------------------------------------

(***************************************************************************)
(* Mutual exclusion is not inductive: Acquire lets a worker in when the    *)
(* key is gone, so the key must be there while anybody is inside.          *)
(***************************************************************************)
OneHolder(e) ==
    "expire" \notin faults[e] =>
        \A w \in Holders(e) : lock[e] /\ \A v \in Holders(e) : v = w

LeftByFault(e) ==
    lock[e] /\ Holders(e) = {} => faults[e] \cap {"crash", "lost"} # {}

LockInv == TypeInv /\ \A e \in Executions : OneHolder(e) /\ LeftByFault(e)

\* A step that neither touches the lock nor moves a worker in or out of the
\* guarded part of the job.
Outside ==
    /\ lock' = lock
    /\ \A e \in Executions : faults[e] \subseteq faults'[e]
    /\ \A v \in Workers :
          /\ pc'[v] \in Held <=> pc[v] \in Held
          /\ pc[v] \in Held => job'[v] = job[v]

LEMMA LockFrame == LockInv /\ Outside => \A e \in Executions : (OneHolder(e) /\ LeftByFault(e))'
<1> SUFFICES ASSUME LockInv, Outside, NEW e \in Executions
             PROVE  (OneHolder(e) /\ LeftByFault(e))'
  OBVIOUS
<1>1. Holders(e)' = Holders(e)
  BY DEF Holders, Outside
<1>2. lock' = lock /\ faults[e] \subseteq faults'[e]
  BY DEF Outside
<1>3. OneHolder(e) /\ LeftByFault(e)
  BY DEF LockInv
<1>4. OneHolder(e)'
  BY <1>1, <1>2, <1>3 DEF OneHolder
<1>5. LeftByFault(e)'
  BY <1>1, <1>2, <1>3 DEF LeftByFault
<1> QED
  BY <1>4, <1>5

\* A worker that stops where it is leaves the lock to the fault it is blamed on.
LEMMA LockDropped ==
    ASSUME LockInv, NEW w \in Workers, job[w] \in Executions,
           NEW f \in {"crash", "lost"},
           lock' = lock, Blame(job[w], f),
           pc' = [pc EXCEPT ![w] = "idle"], job' = [job EXCEPT ![w] = None]
    PROVE  \A e \in Executions : (OneHolder(e) /\ LeftByFault(e))'
<1> SUFFICES ASSUME NEW e \in Executions PROVE (OneHolder(e) /\ LeftByFault(e))'
  OBVIOUS
<1>1. "idle" \notin Held
  BY DEF Held, TryBlock, Handler
<1>2. Holders(e)' = Holders(e) \ {w}
  BY <1>1 DEF Holders, LockInv, TypeInv, TypeOK
<1>3. faults' = [faults EXCEPT ![job[w]] = @ \cup {f}] /\ faults[e] \subseteq faults'[e]
  BY DEF Blame, LockInv, TypeInv, TypeOK
<1>4. OneHolder(e)'
  BY <1>2, <1>3 DEF OneHolder, LockInv
<1>5. LeftByFault(e)'
  <2>1. CASE e = job[w]
    BY <1>3, <2>1 DEF LeftByFault, LockInv, TypeInv, TypeOK
  <2>2. CASE e # job[w]
    <3>1. Holders(e)' = Holders(e)
      BY <1>2, <2>2 DEF Holders
    <3> QED
      BY <3>1, <1>3 DEF LeftByFault, LockInv
  <2> QED
    BY <2>1, <2>2
<1> QED
  BY <1>4, <1>5

LEMMA InitLock == Init => LockInv
<1> SUFFICES ASSUME Init PROVE LockInv
  OBVIOUS
<1>1. \A e \in Executions : lock[e] = FALSE /\ Holders(e) = {}
  BY DEF Init, WorkerInit, Holders, Held, TryBlock, Handler
<1> QED
  BY <1>1, InitType DEF LockInv, OneHolder, LeftByFault

LEMMA LockStep == LockInv /\ [Next]_vars => LockInv'
<1> SUFFICES ASSUME LockInv, [Next]_vars PROVE LockInv'
  OBVIOUS
<1>1. TypeInv /\ TypeInv'
  BY TypeStep DEF LockInv
<1> SUFFICES \A e \in Executions : (OneHolder(e) /\ LeftByFault(e))'
  BY <1>1 DEF LockInv
<1>2. /\ pc \in [Workers -> Labels] /\ job \in [Workers -> Executions \cup {None}]
      /\ lock \in [Executions -> BOOLEAN]
      /\ faults \in [Executions -> SUBSET FaultValues]
      /\ \A w \in Workers : pc[w] # "idle" => job[w] \in Executions
  BY <1>1 DEF TypeInv, TypeOK
<1>3. ASSUME NEW w \in Workers,
             MarkRunning(w) \/ AuditStarted(w) \/ ListSubtasks(w) \/ SkipSubtask(w)
             \/ HandOff(w) \/ HandOffCutoff(w) \/ AuditSubtaskStarted(w)
             \/ FinishSubtask(w) \/ AuditSubtaskDone(w)
      PROVE  Outside
  BY <1>2, <1>3 DEF Outside, MarkRunning, AuditStarted, ListSubtasks, SkipSubtask, HandOff,
                    HandOffCutoff, AuditSubtaskStarted, FinishSubtask, AuditSubtaskDone,
                    Step, Go, Held, TryBlock, Handler, storeVars
<1>4. ASSUME NEW w \in Workers,
             CompleteStatus(w) \/ AuditCompleted(w) \/ ReadLatest(w) \/ Bound(w)
             \/ AuditCutoff(w) \/ FailStatus(w) \/ AuditFailed(w) \/ Load(w)
      PROVE  Outside
  BY <1>2, <1>4 DEF Outside, CompleteStatus, AuditCompleted, ReadLatest, Bound,
                    AuditCutoff, FailStatus, AuditFailed, Load,
                    Step, Go, Held, TryBlock, Handler, storeVars
<1>5. ASSUME NEW w \in Workers, RunTool(w) PROVE Outside
  <2>1. /\ pc[w] = "tool"
        /\ pc' = [pc EXCEPT ![w] = "complete"] \/ pc' = [pc EXCEPT ![w] = "finish"]
        /\ lock' = lock /\ faults' = faults /\ job' = job
    BY <1>5 DEF RunTool, Go
  <2> QED
    BY <1>2, <2>1 DEF Outside, Held, TryBlock, Handler
<1>6. ASSUME NEW w \in Workers, AddMemory(w) PROVE Outside
  <2>1. /\ pc[w] = "add_memory"
        /\ pc' = [pc EXCEPT ![w] = "bound"] \/ pc' = [pc EXCEPT ![w] = "release"]
        /\ lock' = lock /\ faults' = faults /\ job' = job
    BY <1>6 DEF AddMemory, Go
  <2> QED
    BY <1>2, <2>1 DEF Outside, Held, TryBlock, Handler
<1>7. ASSUME NEW w \in Workers, Raise(w) \/ RaiseInHandler(w) PROVE Outside
  <2>1. /\ pc[w] \in TryBlock \cup Handler
        /\ pc' = [pc EXCEPT ![w] = "fail"] \/ pc' = [pc EXCEPT ![w] = "release"]
        /\ lock' = lock /\ job' = job
        /\ \E f \in {"raise", "lost"} : faults' = [faults EXCEPT ![job[w]] = @ \cup {f}]
    BY <1>7 DEF Raise, RaiseInHandler, Go, Blame
  <2>2. \A e \in Executions : faults[e] \subseteq faults'[e]
    BY <1>2, <2>1
  <2> QED
    BY <1>2, <2>1, <2>2 DEF Outside, Held, Handler
<1>8. ASSUME NEW w \in Workers, Unpack(w) \/ AuditSkipped(w) PROVE Outside
  BY <1>2, <1>8 DEF Outside, Unpack, AuditSkipped, EndJob, Go, Held, TryBlock, Handler
<1>9. ASSUME NEW w \in Workers, NEW e \in Executions, Deliver(w, e) PROVE Outside
  BY <1>2, <1>9 DEF Outside, Deliver, Step, Go, Held, TryBlock, Handler
<1>10. ASSUME NEW w \in Workers, Acquire(w)
       PROVE  \A e \in Executions : (OneHolder(e) /\ LeftByFault(e))'
  <2>0. /\ pc[w] = "acquire" /\ job[w] \in Executions /\ job' = job /\ faults' = faults
        /\ lock' = [lock EXCEPT ![job[w]] = TRUE]
    BY <1>2, <1>10 DEF Acquire
  <2>1. CASE lock[job[w]]
    <3>1. pc' = [pc EXCEPT ![w] = "skip"] /\ lock' = lock
      BY <1>2, <1>10, <2>0, <2>1 DEF Acquire, Go
    <3>2. Outside
      BY <1>2, <2>0, <3>1 DEF Outside, Held, TryBlock, Handler
    <3> QED
      BY <3>2, LockFrame
  <2>2. CASE ~ lock[job[w]]
    <3>1. pc' = [pc EXCEPT ![w] = "load"]
      BY <1>10, <2>2 DEF Acquire, Go
    <3> SUFFICES ASSUME NEW e \in Executions PROVE (OneHolder(e) /\ LeftByFault(e))'
      OBVIOUS
    <3>2. OneHolder(e) /\ LeftByFault(e)
      BY DEF LockInv
    <3>3. CASE e = job[w]
      <4>1. Holders(e)' = Holders(e) \cup {w} /\ lock'[e]
        BY <1>2, <2>0, <3>1, <3>3 DEF Holders, Held
      <4>2. "expire" \notin faults[e] => Holders(e) = {}
        BY <3>2, <2>2, <3>3 DEF OneHolder
      <4>3. OneHolder(e)'
        BY <4>1, <4>2, <2>0 DEF OneHolder
      <4>4. LeftByFault(e)'
        BY <4>1 DEF LeftByFault
      <4> QED
        BY <4>3, <4>4
    <3>4. CASE e # job[w]
      <4>1. Holders(e)' = Holders(e) /\ lock'[e] = lock[e]
        BY <1>2, <2>0, <3>1, <3>4 DEF Holders, Held
      <4>2. OneHolder(e)'
        BY <4>1, <3>2, <2>0 DEF OneHolder
      <4>3. LeftByFault(e)'
        BY <4>1, <3>2, <2>0 DEF LeftByFault
      <4> QED
        BY <4>2, <4>3
    <3> QED
      BY <3>3, <3>4
  <2> QED
    BY <2>1, <2>2
<1>11. ASSUME NEW w \in Workers, Release(w)
       PROVE  \A e \in Executions : (OneHolder(e) /\ LeftByFault(e))'
  <2>1. /\ pc[w] = "release" /\ job[w] \in Executions /\ faults' = faults
        /\ lock' = [lock EXCEPT ![job[w]] = FALSE]
        /\ pc' = [pc EXCEPT ![w] = "idle"] /\ job' = [job EXCEPT ![w] = None]
    BY <1>2, <1>11 DEF Release, EndJob, Go
  <2> SUFFICES ASSUME NEW e \in Executions PROVE (OneHolder(e) /\ LeftByFault(e))'
    OBVIOUS
  <2>2. OneHolder(e) /\ LeftByFault(e)
    BY DEF LockInv
  <2>3. Holders(e)' = Holders(e) \ {w}
    BY <1>2, <2>1 DEF Holders, Held, TryBlock, Handler
  <2>4. CASE e = job[w]
    <3>1. ~ lock'[e] /\ w \in Holders(e)
      BY <1>2, <2>1, <2>4 DEF Holders, Held
    <3>2. OneHolder(e)'
      BY <2>1, <2>2, <2>3, <3>1 DEF OneHolder
    <3>3. LeftByFault(e)'
      BY <3>1 DEF LeftByFault
    <3> QED
      BY <3>2, <3>3
  <2>5. CASE e # job[w]
    <3>1. Holders(e)' = Holders(e) /\ lock'[e] = lock[e]
      BY <1>2, <2>1, <2>3, <2>5 DEF Holders
    <3>2. OneHolder(e)'
      BY <3>1, <2>1, <2>2 DEF OneHolder
    <3>3. LeftByFault(e)'
      BY <3>1, <2>1, <2>2 DEF LeftByFault
    <3> QED
      BY <3>2, <3>3
  <2> QED
    BY <2>4, <2>5
<1>12. ASSUME NEW w \in Workers, RaiseOutside(w)
       PROVE  \A e \in Executions : (OneHolder(e) /\ LeftByFault(e))'
  <2>1. job[w] \in Executions
    BY <1>2, <1>12 DEF RaiseOutside
  <2> QED
    BY <1>12, <2>1, LockDropped DEF RaiseOutside, EndJob, Go
<1>13. ASSUME NEW w \in Workers, Crash(w)
       PROVE  \A e \in Executions : (OneHolder(e) /\ LeftByFault(e))'
  <2>1. job[w] \in Executions
    BY <1>2, <1>13 DEF Crash
  <2> QED
    BY <1>13, <2>1, LockDropped DEF Crash, Go
<1>14. ASSUME NEW x \in Executions, ExpireLock(x)
       PROVE  \A e \in Executions : (OneHolder(e) /\ LeftByFault(e))'
  <2>1. /\ lock' = [lock EXCEPT ![x] = FALSE] /\ pc' = pc /\ job' = job
        /\ \/ Holders(x) = {} /\ faults' = faults
           \/ faults' = [faults EXCEPT ![x] = @ \cup {"expire"}]
    BY <1>14 DEF ExpireLock, Blame, localVars
  <2> SUFFICES ASSUME NEW e \in Executions PROVE (OneHolder(e) /\ LeftByFault(e))'
    OBVIOUS
  <2>2. OneHolder(e) /\ LeftByFault(e) /\ Holders(e)' = Holders(e)
    BY <2>1 DEF LockInv, Holders
  <2>3. CASE e = x
    <3>1. ~ lock'[e] /\ (Holders(e) = {} \/ "expire" \in faults'[e])
      BY <1>2, <2>1, <2>3
    <3> QED
      BY <2>2, <3>1 DEF OneHolder, LeftByFault
  <2>4. CASE e # x
    <3>1. lock'[e] = lock[e] /\ faults'[e] = faults[e]
      BY <1>2, <2>1, <2>4
    <3>2. OneHolder(e)'
      BY <2>2, <3>1 DEF OneHolder
    <3>3. LeftByFault(e)'
      BY <2>2, <3>1 DEF LeftByFault
    <3> QED
      BY <3>2, <3>3
  <2> QED
    BY <2>3, <2>4
<1>15. ASSUME UNCHANGED vars PROVE Outside
  BY <1>15 DEF Outside, vars, workerVars
<1> QED
  BY <1>3, <1>4, <1>5, <1>6, <1>7, <1>8, <1>9, <1>10, <1>11, <1>12, <1>13, <1>14, <1>15, LockFrame
     DEF Next, WorkerNext, WorkerStep, AllIdle

LEMMA LockAlways == Spec => []LockInv
  BY InitLock, LockStep, PTL DEF Spec

\* Two workers are never inside the same execution, with any crashes, exceptions
\* and second deliveries, unless the lock expired under one of them.
THEOREM MutuallyExclusive == Spec => []MutualExclusion
<1>1. LockInv => MutualExclusion
  BY DEF LockInv, OneHolder, MutualExclusion
<1> QED
  BY LockAlways, <1>1, PTL

\* Only a crash or an exception outside the try block leaves a lock behind.
THEOREM NoLeak == Spec => []NoLockLeak
<1>1. LockInv => NoLockLeak
  BY DEF LockInv, LeftByFault, NoLockLeak
<1> QED
  BY LockAlways, <1>1, PTL

-----------------------------------------------------------------------------

(***************************************************************************)
(* The status of an execution and the place of the worker that has its     *)
(* job.  The two agree while nobody else can be inside: the lock did not   *)
(* expire under a worker, or the job was delivered only once.              *)
(***************************************************************************)
Early     == {"unpack", "acquire", "skip", "load", "mark"}
Working   == {"audit_started", "list", "loop", "announce", "tool", "finish",
              "announce_done", "complete"}
Recording == {"audit_completed", "read_latest", "add_memory", "bound"}

Alone(e) == "expire" \notin faults[e] \/ deliveries[e] <= 1

Placed(w) ==
    pc[w] # "idle" /\ Alone(job[w]) =>
        /\ pc[w] \in Working => status[job[w]] = "running"
        /\ pc[w] \in Recording => status[job[w]] = "completed"
        /\ pc[w] = "audit_cutoff" => status[job[w]] = "bounded_completion"
        /\ pc[w] \in Early /\ deliveries[job[w]] <= 1 => status[job[w]] \in {"absent", "queued"}
        /\ pc[w] \in {"mark"} \cup Handler => status[job[w]] # "absent"
        /\ pc[w] \in Handler => "raise" \in Faults /\ "raise" \in faults[job[w]]

\* What the number of deliveries says of an execution.
Delivered(e) ==
    /\ deliveries[e] <= MaxDeliveries
    /\ status[e] \notin {"absent", "queued"} => deliveries[e] >= 1
    /\ \A w \in Workers : job[w] = e => deliveries[e] >= 1
    /\ \A v, w \in Workers : v # w /\ job[v] = e /\ job[w] = e => deliveries[e] >= 2
    /\ "expire" \in faults[e] => "expire" \in Faults

\* Somebody will bring a running execution to its end, unless it was broken off.
Attended(e) ==
    status[e] = "running" =>
        \/ faults[e] \cap {"crash", "lost"} # {}
        \/ \E w \in Workers : job[w] = e /\ pc[w] \in Working \cup {"fail"}

StatusInv ==
    /\ LockInv
    /\ \A w \in Workers : Placed(w)
    /\ \A e \in Executions : Delivered(e) /\ Attended(e)

\* One worker moves: what it may do to its own execution and to no other.
Moves(w) ==
    /\ \A v \in Workers : v # w => pc'[v] = pc[v] /\ job'[v] = job[v]
    /\ job'[w] \in {job[w], None}
    /\ deliveries' = deliveries
    /\ \A e \in Executions :
          /\ faults[e] \subseteq faults'[e]
          /\ "expire" \in faults'[e] => "expire" \in faults[e]
          /\ e # job[w] => status'[e] = status[e]
    /\ status' = status \/ pc[w] \in Held

\* After its step w still attends its execution if it did, or is blamed.
Attends(w) ==
    status'[job[w]] = "running" =>
        \/ faults'[job[w]] \cap {"crash", "lost"} # {}
        \/ job'[w] = job[w] /\ pc'[w] \in Working \cup {"fail"}
        \/ status' = status /\ pc[w] \notin Working \cup {"fail"}

\* A worker that holds the lock of an execution nobody else can be inside.
LEMMA Sole ==
    ASSUME StatusInv, NEW v \in Workers, NEW w \in Workers,
           job[v] \in Executions, job[v] = job[w], Alone(job[v]),
           pc[w] \in Held, pc[v] \in Held \/ deliveries[job[v]] <= 1
    PROVE  v = w
<1>1. OneHolder(job[v]) /\ Delivered(job[v])
  BY DEF StatusInv, LockInv
<1>2. deliveries[job[v]] \in Nat
  BY DEF StatusInv, LockInv, TypeInv, TypeOK
<1>3. CASE deliveries[job[v]] <= 1
  BY <1>1, <1>2, <1>3 DEF Delivered
<1>4. CASE ~ (deliveries[job[v]] <= 1)
  <2>1. "expire" \notin faults[job[v]] /\ v \in Holders(job[v]) /\ w \in Holders(job[v])
    BY <1>4 DEF Alone, Holders
  <2> QED
    BY <1>1, <2>1 DEF OneHolder
<1> QED
  BY <1>3, <1>4

LEMMA StatusFrame ==
    ASSUME StatusInv, NEW w \in Workers, pc[w] # "idle", Moves(w), Attends(w), Placed(w)'
    PROVE  /\ \A v \in Workers : Placed(v)'
           /\ \A e \in Executions : (Delivered(e) /\ Attended(e))'
<1>1. /\ job[w] \in Executions /\ None \notin Executions
      /\ deliveries \in [Executions -> Nat]
      /\ \A v \in Workers : pc[v] # "idle" => job[v] \in Executions
  BY WorkerAssumption DEF StatusInv, LockInv, TypeInv, TypeOK
<1>2. ASSUME NEW v \in Workers, v # w PROVE Placed(v)'
  <2> SUFFICES ASSUME pc[v] # "idle", Alone(job[v])' PROVE Placed(v)'
    BY <1>2 DEF Placed, Moves
  <2>1. /\ pc'[v] = pc[v] /\ job'[v] = job[v] /\ job[v] \in Executions
        /\ deliveries' = deliveries /\ faults[job[v]] \subseteq faults'[job[v]]
    BY <1>1, <1>2 DEF Moves
  <2>2. Alone(job[v]) /\ Placed(v)
    BY <2>1 DEF Alone, StatusInv
  <2>3. CASE status'[job[v]] = status[job[v]]
    BY <2>1, <2>2, <2>3 DEF Placed
  <2>4. CASE status'[job[v]] # status[job[v]]
    <3>1. job[v] = job[w] /\ pc[w] \in Held
      BY <2>1, <2>4 DEF Moves
    <3>2. pc[v] \notin Held /\ ~ (deliveries[job[v]] <= 1)
      BY <1>2, <2>1, <2>2, <3>1, Sole
    <3> QED
      BY <2>1, <3>2 DEF Placed, Held, TryBlock, Handler, Working, Recording
  <2> QED
    BY <2>3, <2>4
<1>3. ASSUME NEW e \in Executions PROVE Delivered(e)'
  <2>1. Delivered(e) /\ deliveries' = deliveries
    BY DEF StatusInv, Moves
  <2>2. \A v \in Workers : job'[v] = e => job[v] = e
    BY <1>1 DEF Moves
  <2>3. "expire" \in faults'[e] => "expire" \in Faults
    BY <2>1 DEF Delivered, Moves
  <2>4. status'[e] \notin {"absent", "queued"} => deliveries[e] >= 1
    <3>1. CASE e = job[w]
      BY <2>1, <3>1 DEF Delivered
    <3>2. CASE e # job[w]
      BY <2>1, <3>2 DEF Delivered, Moves
    <3> QED
      BY <3>1, <3>2
  <2> QED
    BY <2>1, <2>2, <2>3, <2>4 DEF Delivered
<1>4. ASSUME NEW e \in Executions PROVE Attended(e)'
  <2> SUFFICES ASSUME status'[e] = "running", faults'[e] \cap {"crash", "lost"} = {}
               PROVE  \E v \in Workers : job'[v] = e /\ pc'[v] \in Working \cup {"fail"}
    BY DEF Attended
  <2>1. Attended(e) /\ faults[e] \cap {"crash", "lost"} = {}
    BY DEF StatusInv, Moves
  <2>2. CASE e # job[w]
    <3>1. PICK v \in Workers : job[v] = e /\ pc[v] \in Working \cup {"fail"}
      BY <2>1, <2>2 DEF Attended, Moves
    <3>2. v # w
      BY <2>2, <3>1
    <3> QED
      BY <3>1, <3>2 DEF Moves
  <2>3. CASE e = job[w] /\ job'[w] = job[w] /\ pc'[w] \in Working \cup {"fail"}
    BY <2>3
  <2>4. CASE e = job[w] /\ status' = status /\ pc[w] \notin Working \cup {"fail"}
    <3>1. PICK v \in Workers : job[v] = e /\ pc[v] \in Working \cup {"fail"}
      BY <2>1, <2>4 DEF Attended
    <3>2. v # w
      BY <2>4, <3>1
    <3> QED
      BY <3>1, <3>2 DEF Moves
  <2> QED
    BY <2>2, <2>3, <2>4 DEF Attends
<1> QED
  BY <1>2, <1>3, <1>4

LEMMA InitStatus == Init => StatusInv
<1> SUFFICES ASSUME Init PROVE StatusInv
  OBVIOUS
<1>1. ASSUME NEW w \in Workers PROVE Placed(w)
  BY DEF Init, WorkerInit, Placed
<1>2. ASSUME NEW e \in Executions PROVE Delivered(e) /\ Attended(e)
  <2>1. \A w \in Workers : job[w] # e
    BY WorkerAssumption DEF Init, WorkerInit
  <2>2. status[e] \in {"absent", "queued"} /\ deliveries[e] = 0 /\ faults[e] = {}
    BY DEF Init, WorkerInit
  <2> QED
    BY <2>1, <2>2, WorkerAssumption DEF Delivered, Attended
<1> QED
  BY <1>1, <1>2, InitLock DEF StatusInv

LEMMA StatusStep == StatusInv /\ [Next]_vars => StatusInv'
<1> SUFFICES ASSUME StatusInv, [Next]_vars PROVE StatusInv'
  OBVIOUS
<1> DEFINE Kept == /\ \A v \in Workers : Placed(v)'
                   /\ \A e \in Executions : (Delivered(e) /\ Attended(e))'
<1>1. LockInv'
  BY LockStep DEF StatusInv
<1> SUFFICES Kept
  BY <1>1 DEF StatusInv
<1>2. /\ pc \in [Workers -> Labels] /\ job \in [Workers -> Executions \cup {None}]
      /\ status \in [Executions -> StatusValues]
      /\ faults \in [Executions -> SUBSET FaultValues]
      /\ deliveries \in [Executions -> Nat]
      /\ \A w \in Workers : pc[w] # "idle" => job[w] \in Executions
      /\ None \notin Executions
  BY WorkerAssumption DEF StatusInv, LockInv, TypeInv, TypeOK, StoreTypeOK
<1>3. \A w \in Workers : Placed(w)
  BY DEF StatusInv
<1> USE DEF Step, Go
<1>4. ASSUME NEW w \in Workers, MarkRunning(w) PROVE Kept
  <2>1. /\ pc[w] = "mark" /\ pc' = [pc EXCEPT ![w] = "audit_started"]
        /\ status' = [status EXCEPT ![job[w]] = "running"]
        /\ job' = job /\ deliveries' = deliveries /\ faults' = faults
    BY <1>4 DEF MarkRunning, SetStatus
  <2>2. Moves(w) /\ Attends(w)
    BY <1>2, <2>1 DEF Moves, Attends, Held, TryBlock, Working
  <2>3. Placed(w)'
    BY <1>2, <2>1 DEF Placed, Early, Working, Recording, Handler
  <2> QED
    BY <2>1, <2>2, <2>3, StatusFrame
<1>5. ASSUME NEW w \in Workers, CompleteStatus(w) PROVE Kept
  <2>1. /\ pc[w] \in {"complete", "loop"} /\ pc' = [pc EXCEPT ![w] = "audit_completed"]
        /\ status' = [status EXCEPT ![job[w]] = "completed"]
        /\ job' = job /\ deliveries' = deliveries /\ faults' = faults
    BY <1>5 DEF CompleteStatus, SetStatus
  <2>2. Moves(w) /\ Attends(w)
    BY <1>2, <2>1 DEF Moves, Attends, Held, TryBlock, Working
  <2>3. Placed(w)'
    BY <1>2, <2>1 DEF Placed, Early, Working, Recording, Handler
  <2> QED
    BY <2>1, <2>2, <2>3, StatusFrame
<1>6. ASSUME NEW w \in Workers, Bound(w) PROVE Kept
  <2>1. /\ pc[w] = "bound" /\ pc' = [pc EXCEPT ![w] = "audit_cutoff"]
        /\ status' = [status EXCEPT ![job[w]] = "bounded_completion"]
        /\ job' = job /\ deliveries' = deliveries /\ faults' = faults
    BY <1>6 DEF Bound, SetStatus
  <2>2. Moves(w) /\ Attends(w)
    BY <1>2, <2>1 DEF Moves, Attends, Held, TryBlock, Working
  <2>3. Placed(w)'
    BY <1>2, <2>1 DEF Placed, Early, Working, Recording, Handler
  <2> QED
    BY <2>1, <2>2, <2>3, StatusFrame
<1>7. ASSUME NEW w \in Workers, FailStatus(w) PROVE Kept
  <2>1. /\ pc[w] = "fail" /\ pc' = [pc EXCEPT ![w] = "audit_failed"]
        /\ status' = [status EXCEPT ![job[w]] = "failed"]
        /\ job' = job /\ deliveries' = deliveries /\ faults' = faults
    BY <1>7 DEF FailStatus, SetStatus
  <2>2. Moves(w) /\ Attends(w)
    BY <1>2, <2>1 DEF Moves, Attends, Held, TryBlock, Handler, Working
  <2>3. Placed(w)'
    BY <1>2, <1>3, <2>1 DEF Placed, Alone, Early, Working, Recording, Handler
  <2> QED
    BY <2>1, <2>2, <2>3, StatusFrame
<1> DEFINE Walks(w) == /\ pc[w] # "idle" /\ job' = job
                       /\ UNCHANGED <<status, deliveries, faults>>
<1>8. ASSUME NEW w \in Workers, Walks(w), NEW to, pc' = [pc EXCEPT ![w] = to],
             Placed(w)', pc[w] \in Working \cup {"fail"} => to \in Working \cup {"fail"}
      PROVE  Kept
  <2>1. Moves(w) /\ Attends(w)
    BY <1>2, <1>8 DEF Moves, Attends
  <2> QED
    BY <1>8, <2>1, StatusFrame
<1>9. ASSUME NEW w \in Workers,
             AuditStarted(w) \/ ListSubtasks(w) \/ HandOff(w) \/ AuditSubtaskStarted(w)
             \/ FinishSubtask(w) \/ AuditSubtaskDone(w) \/ HandOffCutoff(w)
      PROVE  Kept
  <2>1. /\ Walks(w) /\ pc[w] \in Working
        /\ \E to \in Working : pc' = [pc EXCEPT ![w] = to]
    BY <1>9 DEF AuditStarted, ListSubtasks, HandOff, AuditSubtaskStarted, FinishSubtask,
                AuditSubtaskDone, HandOffCutoff, Working, storeVars
  <2>2. Placed(w)'
    BY <1>2, <1>3, <2>1 DEF Placed, Alone, Early, Working, Recording, Handler
  <2> QED
    BY <1>8, <2>1, <2>2
<1>10. ASSUME NEW w \in Workers, RunTool(w) PROVE Kept
  <2>1. /\ Walks(w) /\ pc[w] \in Working
        /\ \E to \in Working : pc' = [pc EXCEPT ![w] = to]
    BY <1>10 DEF RunTool, Working
  <2>2. Placed(w)'
    BY <1>2, <1>3, <2>1 DEF Placed, Alone, Early, Working, Recording, Handler
  <2> QED
    BY <1>8, <2>1, <2>2
<1>11. ASSUME NEW w \in Workers,
              AuditCompleted(w) \/ ReadLatest(w) \/ AuditCutoff(w) \/ AuditFailed(w)
       PROVE  Kept
  <2>1. /\ Walks(w) /\ pc[w] \notin Working \cup {"fail"}
        /\ \/ pc[w] \in Recording /\ \E to \in Recording : pc' = [pc EXCEPT ![w] = to]
           \/ pc' = [pc EXCEPT ![w] = "release"]
    BY <1>11 DEF AuditCompleted, ReadLatest, AuditCutoff, AuditFailed, Working, Recording, storeVars
  <2>2. Placed(w)'
    BY <1>2, <1>3, <2>1 DEF Placed, Alone, Early, Working, Recording, Handler
  <2> QED
    BY <1>8, <2>1, <2>2
<1>12. ASSUME NEW w \in Workers, AddMemory(w) PROVE Kept
  <2>1. /\ Walks(w) /\ pc[w] = "add_memory"
        /\ pc' = [pc EXCEPT ![w] = "bound"] \/ pc' = [pc EXCEPT ![w] = "release"]
    BY <1>12 DEF AddMemory
  <2>2. Placed(w)'
    BY <1>2, <1>3, <2>1 DEF Placed, Alone, Early, Working, Recording, Handler
  <2> QED
    BY <1>8, <2>1, <2>2 DEF Working
<1>13. ASSUME NEW w \in Workers, SkipSubtask(w) PROVE Kept
  <2>1. Walks(w) /\ pc[w] = "loop" /\ pc' = [pc EXCEPT ![w] = "loop"]
    BY <1>2, <1>13 DEF SkipSubtask, storeVars
  <2>2. Placed(w)'
    BY <1>2, <1>3, <2>1 DEF Placed, Alone, Early, Working, Recording, Handler
  <2> QED
    BY <1>8, <2>1, <2>2 DEF Working
<1>14. ASSUME NEW w \in Workers, Acquire(w) PROVE Kept
  <2>1. /\ Walks(w) /\ pc[w] = "acquire"
        /\ pc' = [pc EXCEPT ![w] = "skip"] \/ pc' = [pc EXCEPT ![w] = "load"]
    BY <1>14 DEF Acquire, storeVars
  <2>2. Placed(w)'
    BY <1>2, <1>3, <2>1 DEF Placed, Alone, Early, Working, Recording, Handler
  <2> QED
    BY <1>8, <2>1, <2>2 DEF Working
<1>15. ASSUME NEW w \in Workers, Load(w) PROVE Kept
  <2>1. /\ Walks(w) /\ pc[w] = "load"
        /\ \/ pc' = [pc EXCEPT ![w] = "release"]
           \/ pc' = [pc EXCEPT ![w] = "mark"] /\ status[job[w]] # "absent"
    BY <1>15 DEF Load, storeVars
  <2>2. Placed(w)'
    BY <1>2, <1>3, <2>1 DEF Placed, Alone, Early, Working, Recording, Handler
  <2> QED
    BY <1>8, <2>1, <2>2 DEF Working
<1> DEFINE Stops(w) == /\ pc[w] # "idle" /\ pc' = [pc EXCEPT ![w] = "idle"]
                       /\ job' = [job EXCEPT ![w] = None]
                       /\ UNCHANGED <<status, deliveries>>
<1>16. ASSUME NEW w \in Workers, Stops(w),
              \/ faults' = faults /\ pc[w] \notin Working \cup {"fail"}
              \/ \E f \in {"crash", "lost"} : faults' = [faults EXCEPT ![job[w]] = @ \cup {f}]
       PROVE  Kept
  <2>1. Placed(w)'
    BY <1>2, <1>16 DEF Placed
  <2>2. job[w] \in Executions
    BY <1>2, <1>16
  <2>3. Moves(w) /\ Attends(w)
    BY <1>2, <1>16, <2>2 DEF Moves, Attends
  <2> QED
    BY <1>16, <2>1, <2>3, StatusFrame
<1>17. ASSUME NEW w \in Workers, Unpack(w) PROVE Kept
  <2>1. CASE UnpackedNames = RepositoryCount
    <3>1. Walks(w) /\ pc[w] = "unpack" /\ pc' = [pc EXCEPT ![w] = "acquire"]
      BY <1>17, <2>1 DEF Unpack
    <3>2. Placed(w)'
      BY <1>2, <1>3, <3>1 DEF Placed, Alone, Early, Working, Recording, Handler
    <3> QED
      BY <1>8, <3>1, <3>2 DEF Working
  <2>2. CASE UnpackedNames # RepositoryCount
    BY <1>16, <1>17, <2>2 DEF Unpack, EndJob, Working
  <2> QED
    BY <2>1, <2>2
<1>18. ASSUME NEW w \in Workers, AuditSkipped(w) \/ Release(w) PROVE Kept
  <2>1. Stops(w) /\ faults' = faults /\ pc[w] \in {"skip", "release"}
    BY <1>18 DEF AuditSkipped, Release, EndJob
  <2> QED
    BY <1>16, <2>1 DEF Working
<1>19. ASSUME NEW w \in Workers, RaiseOutside(w) \/ Crash(w) PROVE Kept
  <2>1. /\ Stops(w)
        /\ \E f \in {"crash", "lost"} : faults' = [faults EXCEPT ![job[w]] = @ \cup {f}]
    BY <1>19 DEF RaiseOutside, Crash, EndJob, Blame, storeVars
  <2> QED
    BY <1>16, <2>1
<1>20. ASSUME NEW w \in Workers, Raise(w) PROVE Kept
  <2>1. /\ pc[w] \in TryBlock /\ pc' = [pc EXCEPT ![w] = "fail"] /\ "raise" \in Faults
        /\ faults' = [faults EXCEPT ![job[w]] = @ \cup {"raise"}]
        /\ job' = job /\ status' = status /\ deliveries' = deliveries
    BY <1>20 DEF Raise, Blame, storeVars
  <2>2. job[w] \in Executions /\ pc[w] # "idle"
    BY <1>2, <2>1 DEF TryBlock
  <2>3. Moves(w) /\ Attends(w)
    BY <1>2, <2>1, <2>2 DEF Moves, Attends
  <2>4. Alone(job[w])' => Alone(job[w])
    BY <1>2, <2>1, <2>2 DEF Alone
  <2>5. pc[w] \in {"mark", "audit_cutoff"} \cup Working \cup Recording
    BY <2>1 DEF TryBlock, Working, Recording
  <2>6. Alone(job[w]) => status[job[w]] # "absent"
    BY <1>3, <2>2, <2>5 DEF Placed
  <2>7. Placed(w)'
    BY <1>2, <2>1, <2>2, <2>4, <2>6 DEF Placed, Alone, Early, Working, Recording, Handler
  <2> QED
    BY <2>2, <2>3, <2>7, StatusFrame
<1>21. ASSUME NEW w \in Workers, RaiseInHandler(w) PROVE Kept
  <2>1. /\ pc[w] \in Handler /\ pc' = [pc EXCEPT ![w] = "release"]
        /\ faults' = [faults EXCEPT ![job[w]] = @ \cup {"lost"}]
        /\ job' = job /\ status' = status /\ deliveries' = deliveries
    BY <1>21 DEF RaiseInHandler, Blame, storeVars
  <2>2. job[w] \in Executions /\ pc[w] # "idle"
    BY <1>2, <2>1 DEF Handler
  <2>3. Moves(w) /\ Attends(w)
    BY <1>2, <2>1, <2>2 DEF Moves, Attends
  <2>4. Placed(w)'
    BY <1>2, <2>1 DEF Placed, Early, Working, Recording, Handler
  <2> QED
    BY <2>2, <2>3, <2>4, StatusFrame
<1>22. ASSUME NEW w \in Workers, NEW x \in Executions, Deliver(w, x) PROVE Kept
  <2>1. /\ pc[w] = "idle" /\ pc' = [pc EXCEPT ![w] = "unpack"]
        /\ job' = [job EXCEPT ![w] = x] /\ deliveries[x] < MaxDeliveries
        /\ deliveries' = [deliveries EXCEPT ![x] = @ + 1]
        /\ status' = status /\ faults' = faults
    BY <1>22 DEF Deliver, storeVars
  <2>2. \A e \in Executions : /\ deliveries[e] \in Nat /\ Delivered(e) /\ Attended(e)
                              /\ deliveries'[e] = IF e = x THEN deliveries[e] + 1 ELSE deliveries[e]
    BY <1>2, <2>1 DEF StatusInv
  <2>3. ASSUME NEW v \in Workers, v # w PROVE Placed(v)'
    <3>1. pc'[v] = pc[v] /\ job'[v] = job[v] /\ Placed(v)
      BY <1>2, <1>3, <2>1, <2>3
    <3>2. CASE pc[v] = "idle"
      BY <3>1, <3>2 DEF Placed
    <3>3. CASE pc[v] # "idle"
      <4>1. job[v] \in Executions /\ deliveries'[job[v]] >= deliveries[job[v]]
        BY <1>2, <2>2, <3>3
      <4>2. Alone(job[v])' => Alone(job[v])
        BY <2>1, <2>2, <3>1, <4>1 DEF Alone
      <4>3. deliveries'[job[v]] <= 1 => deliveries[job[v]] <= 1
        BY <2>2, <4>1
      <4> QED
        BY <2>1, <3>1, <3>3, <4>2, <4>3 DEF Placed
    <3> QED
      BY <3>2, <3>3
  <2>4. Placed(w)'
    <3>1. pc'[w] = "unpack" /\ job'[w] = x
      BY <1>2, <2>1
    <3>2. deliveries'[x] <= 1 => status[x] \in {"absent", "queued"}
      BY <2>2 DEF Delivered
    <3> QED
      BY <2>1, <3>1, <3>2 DEF Placed, Working, Recording, Handler
  <2>5. ASSUME NEW e \in Executions PROVE Delivered(e)'
    <3>1. Delivered(e) /\ deliveries[e] \in Nat /\ MaxDeliveries \in Nat
      BY <2>2, WorkerAssumption
    <3>2. CASE e = x
      <4>1. deliveries'[e] = deliveries[e] + 1 /\ deliveries[e] < MaxDeliveries
        BY <2>1, <2>2, <3>2
      <4>2. \A u \in Workers : u # w => job'[u] = job[u]
        BY <1>2, <2>1
      <4>3. \A u, v \in Workers : u # v /\ job'[u] = e /\ job'[v] = e => deliveries'[e] >= 2
        BY <3>1, <4>1, <4>2 DEF Delivered
      <4> QED
        BY <2>1, <3>1, <4>1, <4>3 DEF Delivered
    <3>3. CASE e # x
      <4>1. deliveries'[e] = deliveries[e] /\ \A u \in Workers : job'[u] = e => job[u] = e
        BY <1>2, <2>1, <2>2, <3>3
      <4> QED
        BY <2>1, <3>1, <4>1 DEF Delivered
    <3> QED
      BY <3>2, <3>3
  <2>6. ASSUME NEW e \in Executions PROVE Attended(e)'
    <3>1. \A v \in Workers : pc[v] \in Working \cup {"fail"} => pc'[v] = pc[v] /\ job'[v] = job[v]
      BY <1>2, <2>1 DEF Working
    <3> QED
      BY <2>1, <2>2, <3>1 DEF Attended
  <2> QED
    BY <2>3, <2>4, <2>5, <2>6
<1>23. ASSUME NEW x \in Executions, ExpireLock(x) PROVE Kept
  <2>1. /\ pc' = pc /\ job' = job /\ status' = status /\ deliveries' = deliveries
        /\ \/ faults' = faults
           \/ "expire" \in Faults /\ faults' = [faults EXCEPT ![x] = @ \cup {"expire"}]
    BY <1>23 DEF ExpireLock, Blame, storeVars, localVars
  <2>2. \A e \in Executions : /\ faults[e] \subseteq faults'[e] /\ Delivered(e) /\ Attended(e)
                              /\ "expire" \in faults'[e] => "expire" \in Faults
    BY <1>2, <2>1 DEF StatusInv, Delivered
  <2>3. ASSUME NEW v \in Workers PROVE Placed(v)'
    BY <1>2, <1>3, <2>1, <2>2 DEF Placed, Alone
  <2>4. ASSUME NEW e \in Executions PROVE Delivered(e)'
    BY <2>1, <2>2 DEF Delivered
  <2>5. ASSUME NEW e \in Executions PROVE Attended(e)'
    BY <2>1, <2>2 DEF Attended
  <2> QED
    BY <2>3, <2>4, <2>5
<1>24. ASSUME UNCHANGED vars PROVE Kept
  BY <1>24 DEF StatusInv, vars, storeVars, workerVars, Placed, Alone, Delivered, Attended
<1> QED
  BY <1>4, <1>5, <1>6, <1>7, <1>9, <1>10, <1>11, <1>12, <1>13, <1>14, <1>15, <1>17, <1>18,
     <1>19, <1>20, <1>21, <1>22, <1>23, <1>24
     DEF Next, WorkerNext, WorkerStep, AllIdle

LEMMA StatusAlways == Spec => []StatusInv
  BY InitStatus, StatusStep, PTL DEF Spec

\* An execution is left running only by a crash or by an exception in fail() or
\* release(): whoever set it running answers for it until it ends.
THEOREM StrandedByCrash == Spec => []StrandedOnlyByCrash
<1>1. StatusInv => StrandedOnlyByCrash
  BY DEF StatusInv, Attended, StrandedOnlyByCrash
<1> QED
  BY StatusAlways, <1>1, PTL

\* The steps that write the status, and the places they are taken from.
LEMMA StatusWriters ==
    ASSUME StatusInv, [Next]_vars, status' # status
    PROVE  \E w \in Workers :
              MarkRunning(w) \/ CompleteStatus(w) \/ Bound(w) \/ FailStatus(w)
<1>1. ASSUME NEW w \in Workers,
             Unpack(w) \/ Acquire(w) \/ AuditSkipped(w) \/ Load(w) \/ AuditStarted(w)
             \/ ListSubtasks(w) \/ SkipSubtask(w) \/ HandOff(w) \/ HandOffCutoff(w)
             \/ AuditSubtaskStarted(w) \/ RunTool(w) \/ FinishSubtask(w)
      PROVE  status' = status
  BY <1>1 DEF Unpack, Acquire, AuditSkipped, Load, AuditStarted, ListSubtasks, SkipSubtask,
              HandOff, HandOffCutoff, AuditSubtaskStarted, RunTool, FinishSubtask, storeVars
<1>2. ASSUME NEW w \in Workers,
             AuditSubtaskDone(w) \/ AuditCompleted(w) \/ ReadLatest(w) \/ AddMemory(w)
             \/ AuditCutoff(w) \/ AuditFailed(w) \/ Release(w)
             \/ Raise(w) \/ RaiseInHandler(w) \/ RaiseOutside(w) \/ Crash(w)
      PROVE  status' = status
  BY <1>2 DEF AuditSubtaskDone, AuditCompleted, ReadLatest, AddMemory, AuditCutoff,
              AuditFailed, Release, Raise, RaiseInHandler, RaiseOutside, Crash, storeVars
<1>3. ASSUME (\E w \in Workers, e \in Executions : Deliver(w, e))
             \/ (\E e \in Executions : ExpireLock(e)) \/ UNCHANGED vars
      PROVE  status' = status
  BY <1>3 DEF Deliver, ExpireLock, vars, storeVars
<1> QED
  BY <1>1, <1>2, <1>3 DEF Next, WorkerNext, WorkerStep, AllIdle

\* What such a step does to the execution of a worker nobody else can disturb.
LEMMA StatusPath ==
    ASSUME StatusInv, NEW w \in Workers, Alone(job[w]),
           MarkRunning(w) \/ CompleteStatus(w) \/ Bound(w) \/ FailStatus(w)
    PROVE  \E from, to \in StatusValues :
              /\ job[w] \in Executions /\ status[job[w]] = from
              /\ status' = [status EXCEPT ![job[w]] = to]
              /\ \/ /\ to = "running" /\ from # "absent"
                    /\ deliveries[job[w]] <= 1 => from = "queued"
                 \/ to = "completed" /\ from = "running"
                 \/ to = "bounded_completion" /\ from = "completed"
                 \/ to = "failed" /\ from # "absent" /\ "raise" \in Faults \cap faults[job[w]]
<1>1. /\ status \in [Executions -> StatusValues] /\ Placed(w)
      /\ \A v \in Workers : pc[v] # "idle" => job[v] \in Executions
  BY DEF StatusInv, LockInv, TypeInv, TypeOK, StoreTypeOK
<1>2. CASE MarkRunning(w)
  BY <1>1, <1>2 DEF MarkRunning, SetStatus, Step, Placed, Early, StatusValues
<1>3. CASE CompleteStatus(w)
  BY <1>1, <1>3 DEF CompleteStatus, SetStatus, Placed, Working, StatusValues
<1>4. CASE Bound(w)
  BY <1>1, <1>4 DEF Bound, SetStatus, Step, Placed, Recording, StatusValues
<1>5. CASE FailStatus(w)
  BY <1>1, <1>5 DEF FailStatus, SetStatus, Step, Placed, Handler, StatusValues
<1> QED
  BY <1>2, <1>3, <1>4, <1>5

\* How one step changes a final status.
LEMMA FinalStep ==
    ASSUME StatusInv, [Next]_vars, NEW e \in Executions,
           status[e] \in Terminal, status'[e] # status[e], deliveries[e] <= 1
    PROVE  /\ status[e] = "completed" \/ "raise" \in faults[e]
           /\ \/ status'[e] = "bounded_completion"
              \/ status'[e] = "failed" /\ "raise" \in faults[e]
<1>1. PICK w \in Workers : MarkRunning(w) \/ CompleteStatus(w) \/ Bound(w) \/ FailStatus(w)
  BY StatusWriters
<1>2. job[w] = e
  <2>1. \E s : status' = [status EXCEPT ![job[w]] = s]
    BY <1>1 DEF MarkRunning, CompleteStatus, Bound, FailStatus, SetStatus
  <2>2. status \in [Executions -> StatusValues]
    BY DEF StatusInv, LockInv, TypeInv, TypeOK, StoreTypeOK
  <2> QED
    BY <2>1, <2>2
<1>3. Alone(job[w])
  BY <1>2 DEF Alone
<1>4. status \in [Executions -> StatusValues]
  BY DEF StatusInv, LockInv, TypeInv, TypeOK, StoreTypeOK
<1> QED
  BY <1>1, <1>2, <1>3, <1>4, StatusPath DEF Terminal

\* The final status of an execution that was delivered once changes only from
\* completed to bounded_completion, or to failed after an exception.
THEOREM FinalHolds == Spec => FinalStatusHolds
<1> DEFINE Holds ==
      \A e \in Executions :
         /\ status[e] \in Terminal /\ status'[e] # status[e]
         /\ deliveries[e] <= 1
         => /\ status[e] = "completed" \/ "raise" \in faults[e]
            /\ \/ status'[e] = "bounded_completion"
               \/ status'[e] = "failed" /\ "raise" \in faults[e]
<1>1. StatusInv /\ [Next]_vars => [Holds]_vars
  BY FinalStep
<1> QED
  BY StatusAlways, <1>1, PTL DEF Spec, FinalStatusHolds

\* A step of the job is a step of the promise, or changes nothing it speaks of.
LEMMA PromiseStep ==
    ASSUME "expire" \notin Faults, StatusInv, [Next]_vars
    PROVE  [Promise!Next]_(Promise!promiseVars)
<1> DEFINE Broken == {e \in Executions : faults[e] \cap {"crash", "lost"} # {}}
<1> SUFFICES Promise!Next \/ (status' = status /\ Broken' = Broken)
  BY DEF Promise!promiseVars
<1>1. /\ status \in [Executions -> StatusValues]
      /\ faults \in [Executions -> SUBSET FaultValues]
      /\ deliveries \in [Executions -> Nat]
      /\ \A w \in Workers : pc[w] # "idle" => job[w] \in Executions
      /\ \A e \in Executions : Delivered(e)
  BY DEF StatusInv, LockInv, TypeInv, TypeOK, StoreTypeOK
<1>2. \A e \in Executions : Alone(e)
  BY <1>1 DEF Delivered, Alone
<1>3. ASSUME NEW w \in Workers,
             MarkRunning(w) \/ CompleteStatus(w) \/ Bound(w) \/ FailStatus(w)
      PROVE  Promise!Next \/ (status' = status /\ Broken' = Broken)
  <2>1. job[w] \in Executions /\ faults' = faults
    BY <1>1, <1>3 DEF MarkRunning, CompleteStatus, Bound, FailStatus, Step
  <2> DEFINE e == job[w]
  <2>2. PICK from, to \in StatusValues :
           /\ status[e] = from /\ status' = [status EXCEPT ![e] = to]
           /\ \/ /\ to = "running" /\ from # "absent"
                 /\ deliveries[e] <= 1 => from = "queued"
              \/ to = "completed" /\ from = "running"
              \/ to = "bounded_completion" /\ from = "completed"
              \/ to = "failed" /\ from # "absent" /\ "raise" \in Faults
    BY <1>2, <1>3, <2>1, StatusPath
  <2>3. Broken' = Broken
    BY <2>1
  <2>4. CASE from = to
    BY <1>1, <2>1, <2>2, <2>3, <2>4
  <2>5. CASE from # to /\ to = "running"
    <3>1. CASE from = "queued"
      BY <2>1, <2>2, <2>3, <2>5, <3>1 DEF Promise!Next, Promise!Begin, Promise!Move
    <3>2. CASE from # "queued"
      <4>1. MaxDeliveries > 1
        BY <1>1, <2>1, <2>2, <2>5, <3>2, WorkerAssumption DEF Delivered
      <4>2. from \in {"completed", "bounded_completion", "failed"}
        BY <2>2, <2>5, <3>2 DEF StatusValues
      <4> QED
        BY <2>1, <2>2, <2>3, <2>5, <4>1, <4>2 DEF Promise!Next, Promise!Restart, Promise!Move
    <3> QED
      BY <3>1, <3>2
  <2>6. CASE to = "completed" /\ from = "running"
    BY <2>1, <2>2, <2>3, <2>6 DEF Promise!Next, Promise!Finish, Promise!Move
  <2>7. CASE to = "bounded_completion" /\ from = "completed"
    BY <2>1, <2>2, <2>3, <2>7 DEF Promise!Next, Promise!Correct, Promise!Move
  <2>8. CASE from # to /\ to = "failed" /\ from # "absent" /\ "raise" \in Faults
    <3>1. from \in {"queued", "running", "completed", "bounded_completion"}
      BY <2>8 DEF StatusValues
    <3> QED
      BY <2>1, <2>2, <2>3, <2>8, <3>1 DEF Promise!Next, Promise!Fail, Promise!Move
  <2> QED
    BY <2>2, <2>4, <2>5, <2>6, <2>7, <2>8
<1>4. ASSUME NEW w \in Workers, RaiseInHandler(w) \/ RaiseOutside(w) \/ Crash(w)
      PROVE  Promise!Next
  <2>1. /\ pc[w] # "idle" /\ status' = status
        /\ \E f \in {"crash", "lost"} : faults' = [faults EXCEPT ![job[w]] = @ \cup {f}]
    BY <1>4 DEF RaiseInHandler, RaiseOutside, Crash, Blame, Handler, storeVars
  <2>2. job[w] \in Executions
    BY <1>1, <2>1
  <2>3. Broken' = Broken \cup {job[w]}
    BY <1>1, <2>1, <2>2
  <2> QED
    BY <2>1, <2>2, <2>3 DEF Promise!Next, Promise!Abandon
<1>5. ASSUME NEW w \in Workers, Raise(w) PROVE status' = status /\ Broken' = Broken
  <2>1. /\ pc[w] # "idle" /\ status' = status
        /\ faults' = [faults EXCEPT ![job[w]] = @ \cup {"raise"}]
    BY <1>5 DEF Raise, Blame, TryBlock, storeVars
  <2>2. job[w] \in Executions
    BY <1>1, <2>1
  <2> QED
    BY <1>1, <2>1, <2>2
<1>6. ASSUME faults' = faults,
             ~ \E w \in Workers :
                 MarkRunning(w) \/ CompleteStatus(w) \/ Bound(w) \/ FailStatus(w)
      PROVE  status' = status /\ Broken' = Broken
  BY <1>6, StatusWriters
<1>7. ASSUME NEW w \in Workers,
             Unpack(w) \/ Acquire(w) \/ AuditSkipped(w) \/ Load(w) \/ AuditStarted(w)
             \/ ListSubtasks(w) \/ SkipSubtask(w) \/ HandOff(w) \/ HandOffCutoff(w)
             \/ AuditSubtaskStarted(w) \/ RunTool(w) \/ FinishSubtask(w)
      PROVE  faults' = faults
  BY <1>7 DEF Unpack, Acquire, AuditSkipped, Load, AuditStarted, ListSubtasks, SkipSubtask,
              HandOff, HandOffCutoff, AuditSubtaskStarted, RunTool, FinishSubtask
<1>8. ASSUME NEW w \in Workers,
             AuditSubtaskDone(w) \/ AuditCompleted(w) \/ ReadLatest(w) \/ AddMemory(w)
             \/ AuditCutoff(w) \/ AuditFailed(w) \/ Release(w)
      PROVE  faults' = faults
  BY <1>8 DEF AuditSubtaskDone, AuditCompleted, ReadLatest, AddMemory, AuditCutoff,
              AuditFailed, Release
<1>9. ASSUME (\E w \in Workers, e \in Executions : Deliver(w, e))
             \/ (\E e \in Executions : ExpireLock(e)) \/ UNCHANGED vars
      PROVE  faults' = faults
  BY <1>9 DEF Deliver, ExpireLock, vars, workerVars
<1> QED
  BY <1>3, <1>4, <1>5, <1>6, <1>7, <1>8, <1>9 DEF Next, WorkerNext, WorkerStep, AllIdle

\* While no lock expires under a worker, the statuses of every execution follow
\* the steps the API promises.
THEOREM PromiseKept ==
    ASSUME "expire" \notin Faults PROVE Spec => KeepsPromise
<1>1. Init => Promise!Init
  BY DEF Init, WorkerInit, Promise!Init
<1>2. StatusInv /\ [Next]_vars => [Promise!Next]_(Promise!promiseVars)
  BY PromiseStep
<1> QED
  BY StatusAlways, <1>1, <1>2, PTL DEF Spec, KeepsPromise, Promise!Safety

-----------------------------------------------------------------------------

(***************************************************************************)
(* What a run has done is what the rows say, while nobody else can write   *)
(* them.                                                                   *)
(***************************************************************************)
Looping == {"loop"} \cup SubtaskSteps

Rows(w) ==
    /\ pc[w] \in {"idle", "audit_started", "list"} \cup Early => run[w].done = {}
    /\ pc[w] \in Looping => run[w].done \cap run[w].todo = {}
    /\ pc[w] \in SubtaskSteps => run[w].cur \notin run[w].done \cup run[w].todo
    /\ pc[w] \in Looping /\ Alone(job[w]) =>
          \A d \in run[w].done : subtask[job[w]][d] = "completed"
    /\ pc[w] = "announce_done" /\ Alone(job[w]) =>
          subtask[job[w]][run[w].cur] = "completed"

RowsInv == StatusInv /\ \A w \in Workers : Rows(w)

\* Only w moves, and writes the rows of its execution only with the lock.
Writes(w) ==
    /\ \A v \in Workers : v # w => pc'[v] = pc[v] /\ job'[v] = job[v] /\ run'[v] = run[v]
    /\ \A e \in Executions :
          /\ faults[e] \subseteq faults'[e]
          /\ deliveries'[e] \in Nat /\ deliveries[e] <= deliveries'[e]
          /\ subtask'[e] # subtask[e] => e = job[w] /\ pc[w] \in Held

LEMMA RowsFrame ==
    ASSUME RowsInv, NEW w \in Workers, Writes(w), Rows(w)'
    PROVE  \A v \in Workers : Rows(v)'
<1> SUFFICES ASSUME NEW v \in Workers, v # w PROVE Rows(v)'
  OBVIOUS
<1>1. pc'[v] = pc[v] /\ job'[v] = job[v] /\ run'[v] = run[v] /\ Rows(v)
  BY DEF RowsInv, Writes
<1>2. CASE pc[v] \notin Looping
  BY <1>1, <1>2 DEF Rows, Looping, SubtaskSteps
<1>3. CASE pc[v] \in Looping
  <2>1. job[v] \in Executions /\ deliveries[job[v]] \in Nat /\ deliveries \in [Executions -> Nat]
    BY <1>3 DEF RowsInv, StatusInv, LockInv, TypeInv, TypeOK, Looping, SubtaskSteps
  <2>2. Alone(job[v])' => Alone(job[v])
    <3>1. /\ faults[job[v]] \subseteq faults'[job[v]]
          /\ deliveries'[job[v]] \in Nat /\ deliveries[job[v]] <= deliveries'[job[v]]
      BY <2>1 DEF Writes
    <3> QED
      BY <1>1, <2>1, <3>1 DEF Alone
  <2>3. ASSUME Alone(job[v]) PROVE subtask'[job[v]] = subtask[job[v]]
    <3>1. pc[v] \in Held
      BY <1>3 DEF Looping, SubtaskSteps, Held, TryBlock
    <3> QED
      BY <2>1, <2>3, <3>1, Sole DEF RowsInv, Writes
  <2> QED
    BY <1>1, <1>3, <2>2, <2>3 DEF Rows, Looping
<1> QED
  BY <1>2, <1>3

LEMMA RowsStep == RowsInv /\ [Next]_vars => RowsInv'
<1> SUFFICES ASSUME RowsInv, [Next]_vars PROVE RowsInv'
  OBVIOUS
<1>1. StatusInv'
  BY StatusStep DEF RowsInv
<1> DEFINE Kept == \A v \in Workers : Rows(v)'
<1> SUFFICES Kept
  BY <1>1 DEF RowsInv
<1>2. /\ pc \in [Workers -> Labels] /\ job \in [Workers -> Executions \cup {None}]
      /\ run \in [Workers -> RunValues]
      /\ subtask \in [Executions -> [Agents -> SubtaskValues]]
      /\ faults \in [Executions -> SUBSET FaultValues]
      /\ deliveries \in [Executions -> Nat]
      /\ \A w \in Workers : pc[w] # "idle" => job[w] \in Executions
      /\ \A w \in Workers : Rows(w) /\ Counts(w)
  BY DEF RowsInv, StatusInv, LockInv, TypeInv, TypeOK, StoreTypeOK
<1> USE DEF Step, Go
\* Steps that write neither the rows nor the local variables.
<1> DEFINE Quiet == /\ subtask' = subtask /\ deliveries' = deliveries
                    /\ \A e \in Executions : faults[e] \subseteq faults'[e]
<1>3. ASSUME NEW w \in Workers, Quiet, run' = run, job' = job,
             NEW to, pc' = [pc EXCEPT ![w] = to],
             to \in Looping => pc[w] \in Looping,
             to \in SubtaskSteps => pc[w] \in SubtaskSteps,
             to = "announce_done" => pc[w] = "announce_done",
             to \in {"idle", "audit_started", "list"} \cup Early =>
                pc[w] \in {"idle", "audit_started", "list"} \cup Early
      PROVE  Kept
  <2>1. Writes(w)
    BY <1>2, <1>3 DEF Writes
  <2>2. pc'[w] = to /\ run'[w] = run[w] /\ job'[w] = job[w]
    BY <1>2, <1>3
  <2>3. to \in Looping => job[w] \in Executions
    BY <1>2, <1>3 DEF Looping, SubtaskSteps
  <2>4. to \in Looping /\ Alone(job[w])' => Alone(job[w])
    BY <1>2, <1>3, <2>3 DEF Alone
  <2>5. Rows(w)'
    BY <1>2, <1>3, <2>2, <2>4 DEF Rows, Looping, SubtaskSteps
  <2> QED
    BY <2>1, <2>5, RowsFrame
<1>4. ASSUME NEW w \in Workers, Quiet, pc' = [pc EXCEPT ![w] = "idle"],
             job' = [job EXCEPT ![w] = None], run' = [run EXCEPT ![w] = Fresh]
      PROVE  Kept
  <2>1. Writes(w)
    BY <1>2, <1>4 DEF Writes
  <2>2. pc'[w] = "idle" /\ run'[w].done = {}
    BY <1>2, <1>4 DEF Fresh
  <2>3. Rows(w)'
    BY <2>2 DEF Rows, Looping, SubtaskSteps
  <2> QED
    BY <2>1, <2>3, RowsFrame
<1>5. ASSUME NEW w \in Workers,
             MarkRunning(w) \/ AuditStarted(w) \/ HandOffCutoff(w) \/ AuditSubtaskStarted(w)
             \/ CompleteStatus(w) \/ AuditCompleted(w) \/ Load(w) \/ Acquire(w)
      PROVE  Kept
  <2>1. Quiet /\ run' = run /\ job' = job
    BY <1>5 DEF MarkRunning, AuditStarted, HandOffCutoff, AuditSubtaskStarted, CompleteStatus,
                AuditCompleted, Load, Acquire, storeVars
  <2>2. \E to : /\ pc' = [pc EXCEPT ![w] = to]
                /\ to \in Looping => pc[w] \in Looping
                /\ to \in SubtaskSteps => pc[w] \in SubtaskSteps
                /\ to = "announce_done" => pc[w] = "announce_done"
                /\ to \in {"idle", "audit_started", "list"} \cup Early =>
                      pc[w] \in {"idle", "audit_started", "list"} \cup Early
    BY <1>5 DEF MarkRunning, AuditStarted, HandOffCutoff, AuditSubtaskStarted, CompleteStatus,
                AuditCompleted, Load, Acquire, Looping, SubtaskSteps, Early
  <2> QED
    BY <1>3, <2>1, <2>2
<1>6. ASSUME NEW w \in Workers,
             AddMemory(w) \/ Bound(w) \/ AuditCutoff(w) \/ FailStatus(w) \/ AuditFailed(w)
             \/ Raise(w) \/ RaiseInHandler(w)
      PROVE  Kept
  <2>1. Quiet /\ run' = run /\ job' = job
    <3>1. subtask' = subtask /\ deliveries' = deliveries /\ run' = run /\ job' = job
      BY <1>6 DEF AddMemory, Bound, AuditCutoff, FailStatus, AuditFailed, Raise,
                  RaiseInHandler, storeVars
    <3>2. faults' = faults \/ \E f : faults' = [faults EXCEPT ![job[w]] = @ \cup {f}]
      BY <1>6 DEF AddMemory, Bound, AuditCutoff, FailStatus, AuditFailed, Raise,
                  RaiseInHandler, Blame
    <3>3. \A e \in Executions : faults[e] \subseteq faults'[e]
      BY <1>2, <3>2
    <3> QED
      BY <3>1, <3>3
  <2>2. \E to \in {"bound", "release", "audit_cutoff", "audit_failed", "fail"} :
           pc' = [pc EXCEPT ![w] = to]
    BY <1>6 DEF AddMemory, Bound, AuditCutoff, FailStatus, AuditFailed, Raise, RaiseInHandler
  <2> QED
    BY <1>3, <2>1, <2>2 DEF Looping, SubtaskSteps, Early
<1>7. ASSUME NEW w \in Workers, Unpack(w) PROVE Kept
  <2>1. CASE UnpackedNames = RepositoryCount
    <3>1. /\ Quiet /\ run' = run /\ job' = job
          /\ pc[w] = "unpack" /\ pc' = [pc EXCEPT ![w] = "acquire"]
      BY <1>7, <2>1 DEF Unpack
    <3> QED
      BY <1>3, <3>1 DEF Looping, SubtaskSteps, Early
  <2>2. CASE UnpackedNames # RepositoryCount
    BY <1>4, <1>7, <2>2 DEF Unpack, EndJob
  <2> QED
    BY <2>1, <2>2
<1>8. ASSUME NEW w \in Workers, AuditSkipped(w) \/ Release(w) \/ RaiseOutside(w) \/ Crash(w)
      PROVE  Kept
  <2>1. /\ subtask' = subtask /\ deliveries' = deliveries
        /\ pc' = [pc EXCEPT ![w] = "idle"] /\ job' = [job EXCEPT ![w] = None]
        /\ run' = [run EXCEPT ![w] = Fresh]
    BY <1>8 DEF AuditSkipped, Release, RaiseOutside, Crash, EndJob, storeVars
  <2>2. faults' = faults \/ \E f : faults' = [faults EXCEPT ![job[w]] = @ \cup {f}]
    BY <1>8 DEF AuditSkipped, Release, RaiseOutside, Crash, Blame
  <2>3. \A e \in Executions : faults[e] \subseteq faults'[e]
    BY <1>2, <2>2
  <2> QED
    BY <1>4, <2>1, <2>3
<1>9. ASSUME NEW w \in Workers, ListSubtasks(w) PROVE Kept
  <2>1. /\ pc[w] = "list" /\ pc' = [pc EXCEPT ![w] = "loop"] /\ job' = job
        /\ subtask' = subtask /\ deliveries' = deliveries /\ faults' = faults
        /\ \E S : run' = [run EXCEPT ![w].todo = S]
    BY <1>9 DEF ListSubtasks, storeVars
  <2>2. run[w] \in RunValues /\ run[w].done = {}
    BY <1>2, <2>1 DEF Rows
  <2>3. pc'[w] = "loop" /\ run'[w].done = {}
    BY <1>2, <2>1, <2>2 DEF RunValues
  <2>4. Rows(w)'
    BY <2>3 DEF Rows, Looping, SubtaskSteps, Early
  <2>5. Writes(w)
    BY <1>2, <2>1 DEF Writes
  <2> QED
    BY <2>4, <2>5, RowsFrame
<1>10. ASSUME NEW w \in Workers, SkipSubtask(w) PROVE Kept
  <2>1. /\ pc[w] = "loop" /\ pc' = pc /\ job' = job
        /\ subtask' = subtask /\ deliveries' = deliveries /\ faults' = faults
        /\ \E a : run' = [run EXCEPT ![w].todo = @ \ {a}]
    BY <1>10 DEF SkipSubtask, storeVars
  <2>2. run[w] \in RunValues /\ Rows(w)
    BY <1>2
  <2>3. /\ run'[w].done = run[w].done /\ run'[w].todo \subseteq run[w].todo
        /\ \A v \in Workers : v # w => run'[v] = run[v]
    BY <1>2, <2>1, <2>2 DEF RunValues
  <2>4. Rows(w)'
    BY <2>1, <2>2, <2>3 DEF Rows, Alone, Looping, SubtaskSteps, Early
  <2>5. Writes(w)
    BY <1>2, <2>1, <2>3 DEF Writes
  <2> QED
    BY <2>4, <2>5, RowsFrame
<1>11. ASSUME NEW w \in Workers, HandOff(w) PROVE Kept
  <2>1. PICK a \in run[w].todo : /\ run' = [run EXCEPT ![w] = TakeUp(run[w], a)]
                                 /\ SetSubtask(job[w], a, "running")
    BY <1>11 DEF HandOff
  <2>2. /\ pc[w] = "loop" /\ pc' = [pc EXCEPT ![w] = "announce"] /\ job' = job
        /\ deliveries' = deliveries /\ faults' = faults
        /\ subtask' = [subtask EXCEPT ![job[w]][a] = "running"]
    BY <1>11, <2>1 DEF HandOff, SetSubtask
  <2>3. run[w] \in RunValues /\ Rows(w) /\ job[w] \in Executions
    BY <1>2, <2>2
  <2>4. /\ run'[w].done = run[w].done /\ run'[w].todo = run[w].todo \ {a} /\ run'[w].cur = a
        /\ pc'[w] = "announce" /\ job'[w] = job[w]
        /\ \A v \in Workers : v # w => run'[v] = run[v]
    BY <1>2, <2>1, <2>2 DEF TakeUp
  <2>5. a \notin run[w].done /\ run[w].done \subseteq Agents
    BY <2>1, <2>2, <2>3 DEF Rows, Looping, RunValues
  <2>6. \A d \in run[w].done : subtask'[job[w]][d] = subtask[job[w]][d]
    BY <1>2, <2>2, <2>3, <2>5
  <2>7. run[w].done \cap run[w].todo = {}
    BY <2>2, <2>3 DEF Rows, Looping
  <2>8. Alone(job[w])' => Alone(job[w])
    BY <2>2 DEF Alone
  <2>9. Alone(job[w]) => \A d \in run[w].done : subtask'[job[w]][d] = "completed"
    BY <2>2, <2>3, <2>6 DEF Rows, Looping
  <2>10. Rows(w)'
    BY <2>2, <2>4, <2>5, <2>7, <2>8, <2>9 DEF Rows, Looping, SubtaskSteps, Early
  <2>11. Writes(w)
    BY <1>2, <2>2, <2>3, <2>4 DEF Writes, Held, TryBlock
  <2> QED
    BY <2>10, <2>11, RowsFrame
<1>12. ASSUME NEW w \in Workers, RunTool(w) PROVE Kept
  <2>1. /\ pc[w] = "tool" /\ job' = job
        /\ pc' = [pc EXCEPT ![w] = "complete"] \/ pc' = [pc EXCEPT ![w] = "finish"]
        /\ subtask' = subtask /\ deliveries' = deliveries /\ faults' = faults
        /\ \E over : run' = [run EXCEPT ![w].bounded = over]
    BY <1>12 DEF RunTool
  <2>2. run[w] \in RunValues /\ Rows(w)
    BY <1>2
  <2>3. /\ run'[w].done = run[w].done /\ run'[w].todo = run[w].todo /\ run'[w].cur = run[w].cur
        /\ \A v \in Workers : v # w => run'[v] = run[v]
    BY <1>2, <2>1, <2>2 DEF RunValues
  <2>4. pc'[w] \in {"complete", "finish"} /\ job'[w] = job[w]
    BY <1>2, <2>1
  <2>5. Rows(w)'
    BY <2>1, <2>2, <2>3, <2>4 DEF Rows, Alone, Looping, SubtaskSteps, Early
  <2>6. Writes(w)
    BY <1>2, <2>1, <2>3 DEF Writes
  <2> QED
    BY <2>5, <2>6, RowsFrame
<1>13. ASSUME NEW w \in Workers, FinishSubtask(w) PROVE Kept
  <2>1. /\ pc[w] = "finish" /\ pc' = [pc EXCEPT ![w] = "announce_done"] /\ job' = job
        /\ deliveries' = deliveries /\ faults' = faults /\ run' = run
        /\ subtask' = [subtask EXCEPT ![job[w]][run[w].cur] = "completed"]
    BY <1>13, EveryPlanIsFull DEF FinishSubtask, SetSubtask
  <2>2. /\ run[w] \in RunValues /\ Rows(w) /\ job[w] \in Executions
        /\ run[w].cur \in Agents /\ run[w].done \subseteq Agents
    BY <1>2, <2>1 DEF Counts, SubtaskSteps, RunValues
  <2>3. /\ subtask'[job[w]][run[w].cur] = "completed"
        /\ \A d \in run[w].done :
              subtask[job[w]][d] = "completed" => subtask'[job[w]][d] = "completed"
    BY <1>2, <2>1, <2>2
  <2>4. Rows(w)'
    BY <1>2, <2>1, <2>2, <2>3 DEF Rows, Alone, Looping, SubtaskSteps, Early
  <2>5. Writes(w)
    BY <1>2, <2>1, <2>2 DEF Writes, Held, TryBlock
  <2> QED
    BY <2>4, <2>5, RowsFrame
<1>14. ASSUME NEW w \in Workers, AuditSubtaskDone(w) PROVE Kept
  <2>1. /\ pc[w] = "announce_done" /\ pc' = [pc EXCEPT ![w] = "loop"] /\ job' = job
        /\ subtask' = subtask /\ deliveries' = deliveries /\ faults' = faults
        /\ run' = [run EXCEPT ![w].done = @ \cup {run[w].cur}]
    BY <1>14 DEF AuditSubtaskDone
  <2>2. run[w] \in RunValues /\ Rows(w)
    BY <1>2
  <2>3. /\ run'[w].done = run[w].done \cup {run[w].cur} /\ run'[w].todo = run[w].todo
        /\ pc'[w] = "loop" /\ job'[w] = job[w]
        /\ \A v \in Workers : v # w => run'[v] = run[v]
    BY <1>2, <2>1, <2>2 DEF RunValues
  <2>4. Rows(w)'
    BY <2>1, <2>2, <2>3 DEF Rows, Alone, Looping, SubtaskSteps, Early
  <2>5. Writes(w)
    BY <1>2, <2>1, <2>3 DEF Writes
  <2> QED
    BY <2>4, <2>5, RowsFrame
<1>15. ASSUME NEW w \in Workers, ReadLatest(w) PROVE Kept
  <2>1. /\ pc' = [pc EXCEPT ![w] = "add_memory"] /\ job' = job
        /\ subtask' = subtask /\ deliveries' = deliveries /\ faults' = faults
        /\ \E i : run' = [run EXCEPT ![w].latest = i]
    BY <1>15 DEF ReadLatest, storeVars
  <2>2. pc'[w] = "add_memory" /\ \A v \in Workers : v # w => run'[v] = run[v]
    BY <1>2, <2>1
  <2>3. Rows(w)'
    BY <2>2 DEF Rows, Looping, SubtaskSteps, Early
  <2>4. Writes(w)
    BY <1>2, <2>1, <2>2 DEF Writes
  <2> QED
    BY <2>3, <2>4, RowsFrame
<1>16. ASSUME NEW w \in Workers, NEW x \in Executions, Deliver(w, x) PROVE Kept
  <2>1. /\ pc[w] = "idle" /\ pc' = [pc EXCEPT ![w] = "unpack"]
        /\ job' = [job EXCEPT ![w] = x] /\ run' = run
        /\ deliveries' = [deliveries EXCEPT ![x] = @ + 1]
        /\ subtask' = subtask /\ faults' = faults
    BY <1>16 DEF Deliver, storeVars
  <2>2. pc'[w] = "unpack" /\ run'[w].done = {}
    BY <1>2, <2>1 DEF Rows
  <2>3. Rows(w)'
    BY <2>2 DEF Rows, Looping, SubtaskSteps
  <2>4. \A e \in Executions : deliveries'[e] \in Nat /\ deliveries[e] <= deliveries'[e]
    BY <1>2, <2>1
  <2>5. Writes(w)
    BY <1>2, <2>1, <2>4 DEF Writes
  <2> QED
    BY <2>3, <2>5, RowsFrame
<1>17. ASSUME (\E x \in Executions : ExpireLock(x)) \/ UNCHANGED vars PROVE Kept
  <2>1. /\ pc' = pc /\ job' = job /\ run' = run
        /\ subtask' = subtask /\ deliveries' = deliveries
    BY <1>17 DEF ExpireLock, storeVars, localVars, vars, workerVars
  <2>2. \E x : faults' = faults \/ faults' = [faults EXCEPT ![x] = @ \cup {"expire"}]
    BY <1>17 DEF ExpireLock, Blame, vars, workerVars
  <2>3. \A e \in Executions : faults[e] \subseteq faults'[e]
    BY <1>2, <2>2
  <2>4. ASSUME NEW v \in Workers PROVE Rows(v)'
    <3>1. pc[v] \in Looping => job[v] \in Executions
      BY <1>2 DEF Looping, SubtaskSteps
    <3>2. pc[v] \in Looping /\ Alone(job[v])' => Alone(job[v])
      BY <2>1, <2>3, <3>1 DEF Alone
    <3> QED
      BY <1>2, <2>1, <3>2 DEF Rows, Looping, SubtaskSteps
  <2> QED
    BY <2>4
<1> QED
  BY <1>5, <1>6, <1>7, <1>8, <1>9, <1>10, <1>11, <1>12, <1>13, <1>14, <1>15, <1>16, <1>17
     DEF Next, WorkerNext, WorkerStep, AllIdle

LEMMA InitRows == Init => RowsInv
<1> SUFFICES ASSUME Init, NEW w \in Workers PROVE Rows(w)
  BY InitStatus DEF RowsInv
<1>1. pc[w] = "idle" /\ run[w].done = {}
  BY DEF Init, WorkerInit, Fresh
<1> QED
  BY <1>1 DEF Rows, Looping, SubtaskSteps

\* What holds when a step starts a subtask.
LEMMA FirstStep ==
    ASSUME RowsInv, [Next]_vars, NEW e \in Executions, NEW a \in Agents,
           subtask[e][a] # "running", subtask'[e][a] = "running",
           "expire" \notin faults[e], NEW d \in DependsOn[a]
    PROVE  subtask[e][d] = "completed"
<1>1. /\ subtask \in [Executions -> [Agents -> SubtaskValues]]
      /\ \A w \in Workers : pc[w] # "idle" => job[w] \in Executions
      /\ \A w \in Workers : Rows(w) /\ Counts(w)
  BY DEF RowsInv, StatusInv, LockInv, TypeInv, TypeOK, StoreTypeOK
<1>2. ASSUME NEW w \in Workers, HandOff(w) PROVE subtask[e][d] = "completed"
  <2>1. PICK b \in run[w].todo : Ready(w, b) /\ SetSubtask(job[w], b, "running")
    BY <1>2 DEF HandOff
  <2>2. pc[w] = "loop" /\ job[w] \in Executions
    BY <1>1, <1>2 DEF HandOff, Step
  <2>3. b = a /\ job[w] = e
    BY <1>1, <2>1, <2>2 DEF SetSubtask
  <2>4. d \in run[w].done /\ Alone(job[w])
    BY <2>1, <2>3 DEF Ready, Alone
  <2> QED
    BY <1>1, <2>2, <2>3, <2>4 DEF Rows, Looping
<1>3. ASSUME NEW w \in Workers, FinishSubtask(w) PROVE FALSE
  <2>1. pc[w] = "finish" /\ subtask' = [subtask EXCEPT ![job[w]][run[w].cur] = "completed"]
    BY <1>3, EveryPlanIsFull DEF FinishSubtask, Step, SetSubtask
  <2>2. job[w] \in Executions /\ run[w].cur \in Agents
    BY <1>1, <2>1 DEF Counts, SubtaskSteps
  <2> QED
    BY <1>1, <2>1, <2>2
<1>4. ASSUME NEW w \in Workers,
             Unpack(w) \/ Acquire(w) \/ AuditSkipped(w) \/ Load(w) \/ MarkRunning(w)
             \/ AuditStarted(w) \/ ListSubtasks(w) \/ SkipSubtask(w) \/ HandOffCutoff(w)
             \/ AuditSubtaskStarted(w) \/ RunTool(w) \/ AuditSubtaskDone(w)
      PROVE  subtask' = subtask
  BY <1>4 DEF Unpack, Acquire, AuditSkipped, Load, MarkRunning, AuditStarted, ListSubtasks,
              SkipSubtask, HandOffCutoff, AuditSubtaskStarted, RunTool, AuditSubtaskDone,
              storeVars
<1>5. ASSUME NEW w \in Workers,
             CompleteStatus(w) \/ AuditCompleted(w) \/ ReadLatest(w) \/ AddMemory(w)
             \/ Bound(w) \/ AuditCutoff(w) \/ FailStatus(w) \/ AuditFailed(w) \/ Release(w)
             \/ Raise(w) \/ RaiseInHandler(w) \/ RaiseOutside(w) \/ Crash(w)
      PROVE  subtask' = subtask
  BY <1>5 DEF CompleteStatus, AuditCompleted, ReadLatest, AddMemory, Bound, AuditCutoff,
              FailStatus, AuditFailed, Release, Raise, RaiseInHandler, RaiseOutside, Crash,
              storeVars
<1>6. ASSUME (\E w \in Workers, x \in Executions : Deliver(w, x))
             \/ (\E x \in Executions : ExpireLock(x)) \/ UNCHANGED vars
      PROVE  subtask' = subtask
  BY <1>6 DEF Deliver, ExpireLock, vars, storeVars
<1> QED
  BY <1>2, <1>3, <1>4, <1>5, <1>6 DEF Next, WorkerNext, WorkerStep, AllIdle

\* A subtask starts only on completed dependencies: for every plan, any number of
\* workers and deliveries and all faults, unless a lock expired under a worker.
THEOREM InOrder == Spec => DependenciesFirst
<1> DEFINE First ==
      \A e \in Executions : \A a \in Agents :
         /\ subtask[e][a] # "running" /\ subtask'[e][a] = "running"
         /\ "expire" \notin faults[e]
         => \A d \in DependsOn[a] : subtask[e][d] = "completed"
<1>1. RowsInv /\ [Next]_vars => [First]_vars
  BY FirstStep
<1> QED
  BY InitRows, RowsStep, <1>1, PTL DEF Spec, DependenciesFirst

-----------------------------------------------------------------------------

\* A step of a worker's own job, or one that ends it early.
JobStep(w) == WorkerStep(w) \/ Raise(w) \/ RaiseInHandler(w) \/ RaiseOutside(w) \/ Crash(w)

\* Such a step concerns the execution in hand and no other.
Keeps(w) ==
    /\ pc[w] # "idle" /\ job[w] \in Executions
    /\ Moves(w)
    /\ \A e \in Executions : e # job[w] => audit'[e] = audit[e] /\ (e \in queue' <=> e \in queue)

LEMMA OwnStep ==
    ASSUME TypeInv, NEW w \in Workers, JobStep(w)
    PROVE  Keeps(w)
<1>1. /\ pc \in [Workers -> Labels] /\ job \in [Workers -> Executions \cup {None}]
      /\ status \in [Executions -> StatusValues] /\ audit \in [Executions -> SUBSET AuditEvents]
      /\ faults \in [Executions -> SUBSET FaultValues]
      /\ pc[w] # "idle" => job[w] \in Executions
  BY DEF TypeInv, TypeOK, StoreTypeOK
<1> USE DEF Keeps, Moves, Step, Go, Log, SetStatus, Held, TryBlock, Handler
<1>2. CASE Unpack(w) \/ Acquire(w) \/ AuditSkipped(w) \/ Load(w) \/ MarkRunning(w)
           \/ AuditStarted(w) \/ ListSubtasks(w)
  BY <1>1, <1>2 DEF Unpack, Acquire, AuditSkipped, Load, MarkRunning, AuditStarted, ListSubtasks,
                    EndJob, storeVars
<1>3. CASE SkipSubtask(w) \/ HandOff(w) \/ HandOffCutoff(w) \/ AuditSubtaskStarted(w)
           \/ AuditSubtaskDone(w) \/ CompleteStatus(w) \/ AuditCompleted(w) \/ ReadLatest(w)
  BY <1>1, <1>3 DEF SkipSubtask, HandOff, HandOffCutoff, AuditSubtaskStarted,
                    AuditSubtaskDone, CompleteStatus, AuditCompleted, ReadLatest, storeVars
<1>4. CASE RunTool(w)
  <2>1. /\ pc[w] = "tool" /\ audit' = [audit EXCEPT ![job[w]] = @ \cup {"tool_envelope"}]
        /\ UNCHANGED <<status, queue, job, deliveries, faults>>
        /\ \E to : pc' = [pc EXCEPT ![w] = to]
    BY <1>4 DEF RunTool
  <2> QED
    BY <1>1, <2>1
<1>5. CASE FinishSubtask(w)
  BY <1>1, <1>5, EveryPlanIsFull DEF FinishSubtask
<1>6. CASE AddMemory(w) \/ Bound(w) \/ AuditCutoff(w) \/ FailStatus(w) \/ AuditFailed(w)
           \/ Release(w)
  BY <1>1, <1>6 DEF AddMemory, Bound, AuditCutoff, FailStatus, AuditFailed, Release, EndJob
<1>7. CASE Raise(w) \/ RaiseInHandler(w) \/ RaiseOutside(w) \/ Crash(w)
  <2>1. /\ pc[w] # "idle" /\ status' = status /\ audit' = audit /\ deliveries' = deliveries
        /\ queue' \in {queue, queue \ {job[w]}}
        /\ \/ job' = job
           \/ job' = [job EXCEPT ![w] = None]
        /\ \E to : pc' = [pc EXCEPT ![w] = to]
        /\ \E f \in {"raise", "crash", "lost"} : faults' = [faults EXCEPT ![job[w]] = @ \cup {f}]
    BY <1>7 DEF Raise, RaiseInHandler, RaiseOutside, Crash, EndJob, Blame, storeVars
  <2>2. job'[w] \in {job[w], None}
    BY <1>1, <2>1
  <2>3. \A e \in Executions : faults[e] \subseteq faults'[e]
                              /\ ("expire" \in faults'[e] => "expire" \in faults[e])
    BY <1>1, <2>1
  <2>4. \A v \in Workers : v # w => pc'[v] = pc[v] /\ job'[v] = job[v]
    BY <1>1, <2>1
  <2> QED
    BY <1>1, <2>1, <2>2, <2>3, <2>4
<1> QED
  BY <1>2, <1>3, <1>4, <1>5, <1>6, <1>7 DEF JobStep, WorkerStep

-----------------------------------------------------------------------------

(***************************************************************************)
(* The timeline and the status of an execution whose job was delivered     *)
(* once and met no fault.  They are written by separate transactions, so   *)
(* between the two the place of the worker tells which is behind.          *)
(***************************************************************************)
Busy == Working \cup Recording \cup {"audit_cutoff"}

Settled(e) ==
    \/ status[e] \in {"absent", "queued"} /\ "budget_cutoff" \notin audit[e]
    \/ /\ status[e] \in {"completed", "bounded_completion"}
       /\ {"started", "completed"} \subseteq audit[e]
       /\ status[e] = "bounded_completion" <=> "budget_cutoff" \in audit[e]

Noted(e, place) ==
    /\ "budget_cutoff" \notin audit[e]
    /\ place # "audit_started" => "started" \in audit[e]
    /\ place \in {"read_latest", "add_memory", "bound", "audit_cutoff"} => "completed" \in audit[e]

Smooth(e) == deliveries[e] <= 1 /\ faults[e] = {}

Told(e) ==
    Smooth(e) =>
        /\ (\A w \in Workers : job[w] = e => pc[w] \notin Busy) => Settled(e)
        /\ \A w \in Workers : job[w] = e /\ pc[w] \in Busy => Noted(e, pc[w])

ToldInv == StatusInv /\ \A e \in Executions : Told(e)

\* What the worker of a smooth execution owes its timeline after a step.
Tells(w, e) ==
    IF pc'[w] \in Busy
    THEN job'[w] = e /\ Noted(e, pc[w])'
    ELSE Settled(e)'

\* The only worker of an execution that was delivered once.
LEMMA OnlyWorker ==
    ASSUME StatusInv, NEW w \in Workers, job[w] \in Executions, deliveries[job[w]] <= 1,
           NEW v \in Workers, job[v] = job[w]
    PROVE  v = w
<1>1. Delivered(job[w]) /\ deliveries[job[w]] \in Nat
  BY DEF StatusInv, LockInv, TypeInv, TypeOK
<1> QED
  BY <1>1 DEF Delivered

LEMMA ToldFrame ==
    ASSUME ToldInv, NEW w \in Workers, Keeps(w),
           NEW e \in Executions,
           e = job[w] /\ deliveries[e] <= 1 /\ faults'[e] = {} => Tells(w, e)
    PROVE  Told(e)'
<1>1. /\ deliveries' = deliveries /\ None \notin Executions
      /\ faults'[e] = {} => faults[e] = {}
      /\ \A v \in Workers : v # w => pc'[v] = pc[v] /\ job'[v] = job[v]
      /\ job'[w] \in {job[w], None}
  BY WorkerAssumption DEF Keeps, Moves
<1> SUFFICES ASSUME Smooth(e)'
             PROVE  /\ (\A v \in Workers : job'[v] = e => pc'[v] \notin Busy) => Settled(e)'
                    /\ \A v \in Workers : job'[v] = e /\ pc'[v] \in Busy => Noted(e, pc[v])'
  BY DEF Told
<1>2. Smooth(e) /\ Told(e)
  BY <1>1 DEF Smooth, ToldInv
<1>3. CASE e # job[w]
  <2>1. status'[e] = status[e] /\ audit'[e] = audit[e]
    BY <1>3 DEF Keeps, Moves
  <2>2. \A v \in Workers : job'[v] = e <=> job[v] = e
    BY <1>1, <1>3
  <2>3. \A v \in Workers : job'[v] = e => pc'[v] = pc[v]
    BY <1>1, <1>3
  <2> QED
    BY <1>2, <2>1, <2>2, <2>3 DEF Told, Settled, Noted
<1>4. CASE e = job[w]
  <2>1. \A v \in Workers : job'[v] = e => v = w
    <3>1. \A v \in Workers : job[v] = e => v = w
      BY <1>2, <1>4, OnlyWorker DEF Smooth, ToldInv
    <3> QED
      BY <1>1, <3>1
  <2>2. Tells(w, e)
    BY <1>1, <1>2, <1>4 DEF Smooth
  <2> QED
    BY <2>1, <2>2, <1>4 DEF Tells
<1> QED
  BY <1>3, <1>4

LEMMA ToldInit == Init => ToldInv
<1> SUFFICES ASSUME Init, NEW e \in Executions PROVE Told(e)
  BY InitStatus DEF ToldInv
<1>1. /\ status[e] \in {"absent", "queued"} /\ "budget_cutoff" \notin audit[e]
      /\ \A w \in Workers : pc[w] = "idle"
  BY DEF Init, WorkerInit, CreationEvents
<1> QED
  BY <1>1 DEF Told, Settled, Busy, Working, Recording

LEMMA ToldStep == ToldInv /\ [Next]_vars => ToldInv'
<1> SUFFICES ASSUME ToldInv, [Next]_vars, NEW e \in Executions PROVE Told(e)'
  BY StatusStep DEF ToldInv
<1>1. /\ StatusInv /\ TypeInv
      /\ pc \in [Workers -> Labels] /\ job \in [Workers -> Executions \cup {None}]
      /\ status \in [Executions -> StatusValues] /\ audit \in [Executions -> SUBSET AuditEvents]
      /\ faults \in [Executions -> SUBSET FaultValues]
      /\ deliveries \in [Executions -> Nat]
      /\ \A w \in Workers : Placed(w)
  BY DEF ToldInv, StatusInv, LockInv, TypeInv, TypeOK, StoreTypeOK
<1>2. ASSUME NEW w \in Workers, JobStep(w) PROVE Told(e)'
  <2>1. Keeps(w)
    BY <1>1, <1>2, OwnStep
  <2>2. SUFFICES ASSUME e = job[w], deliveries[e] <= 1, faults'[e] = {} PROVE Tells(w, e)
    BY <2>1, <2>2, ToldFrame
  <2>3. pc[w] # "idle" /\ e \in Executions /\ faults[e] = {}
    <3>1. e \in Executions /\ pc[w] # "idle"
      BY <2>1, <2>2 DEF Keeps
    <3>2. faults[e] \subseteq faults'[e]
      BY <2>1, <3>1 DEF Keeps, Moves
    <3> QED
      BY <2>2, <3>1, <3>2
  <2>4. \A v \in Workers : job[v] = e => v = w
    BY <1>1, <2>2, <2>3, OnlyWorker
  <2>5. Told(e) /\ Smooth(e) /\ Alone(e) /\ Placed(w)
    BY <1>1, <2>2, <2>3 DEF ToldInv, Smooth, Alone
  <2>6. /\ pc[w] \in Busy => Noted(e, pc[w])
        /\ pc[w] \notin Busy => Settled(e)
    BY <2>2, <2>4, <2>5 DEF Told
  <2>7. /\ pc[w] \in Working => status[e] = "running"
        /\ pc[w] \in Recording => status[e] = "completed"
        /\ pc[w] = "audit_cutoff" => status[e] = "bounded_completion"
        /\ pc[w] \in Early => status[e] \in {"absent", "queued"}
        /\ pc[w] \notin Handler
    BY <2>2, <2>3, <2>5 DEF Placed
  <2> USE DEF Step, Go, Log, SetStatus
  <2>8. CASE Unpack(w) \/ Acquire(w) \/ AuditSkipped(w) \/ Load(w) \/ Release(w)
    <3>1. /\ status' = status
          /\ ("budget_cutoff" \in audit'[e]) = ("budget_cutoff" \in audit[e])
          /\ audit[e] \subseteq audit'[e]
      BY <1>1, <2>2, <2>3, <2>8 DEF Unpack, Acquire, AuditSkipped, Load, Release, EndJob, storeVars
    <3>2. pc[w] \notin Busy /\ pc'[w] \notin Busy
      BY <1>1, <2>8 DEF Unpack, Acquire, AuditSkipped, Load, Release, EndJob, Busy, Working, Recording
    <3> QED
      BY <2>2, <2>6, <3>1, <3>2 DEF Tells, Settled
  <2>9. CASE MarkRunning(w)
    <3>1. /\ pc[w] = "mark" /\ pc'[w] = "audit_started" /\ job' = job /\ audit' = audit
      BY <1>1, <2>9 DEF MarkRunning
    <3>2. Settled(e) /\ status[e] \in {"absent", "queued"}
      BY <2>6, <2>7, <3>1 DEF Early, Busy, Working, Recording
    <3> QED
      BY <2>2, <3>1, <3>2 DEF Tells, Noted, Settled, Busy, Working
  <2>10. CASE AuditStarted(w) \/ ListSubtasks(w) \/ SkipSubtask(w) \/ HandOff(w)
              \/ HandOffCutoff(w) \/ AuditSubtaskStarted(w) \/ AuditSubtaskDone(w)
    <3>1. /\ pc[w] \in Busy /\ pc'[w] \in Busy /\ job' = job
          /\ pc'[w] \notin {"audit_started", "read_latest", "add_memory", "bound", "audit_cutoff"}
          /\ pc[w] # "audit_started" \/ "started" \in audit'[e]
      BY <1>1, <2>2, <2>3, <2>10 DEF AuditStarted, ListSubtasks, SkipSubtask, HandOff, HandOffCutoff,
                  AuditSubtaskStarted, AuditSubtaskDone, Busy, Working, storeVars
    <3>2. /\ audit[e] \subseteq audit'[e]
          /\ "budget_cutoff" \in audit'[e] => "budget_cutoff" \in audit[e]
      BY <1>1, <2>2, <2>3, <2>10 DEF AuditStarted, ListSubtasks, SkipSubtask, HandOff, HandOffCutoff,
                  AuditSubtaskStarted, AuditSubtaskDone, storeVars
    <3> QED
      BY <2>2, <2>6, <3>1, <3>2 DEF Tells, Noted
  <2>11. CASE RunTool(w) \/ FinishSubtask(w)
    <3>1. /\ pc[w] \in {"tool", "finish"} /\ pc'[w] \in {"complete", "finish", "announce_done"}
          /\ job' = job
          /\ audit' = audit \/ audit' = [audit EXCEPT ![job[w]] = @ \cup {"tool_envelope"}]
      BY <1>1, <2>11, EveryPlanIsFull DEF RunTool, FinishSubtask
    <3>2. /\ audit[e] \subseteq audit'[e]
          /\ "budget_cutoff" \in audit'[e] => "budget_cutoff" \in audit[e]
      BY <1>1, <2>2, <2>3, <3>1
    <3> QED
      BY <2>2, <2>6, <3>1, <3>2 DEF Tells, Noted, Busy, Working
  <2>12. CASE CompleteStatus(w) \/ AuditCompleted(w) \/ ReadLatest(w) \/ Bound(w)
    <3>1. /\ pc[w] \in Busy \ {"audit_started"} /\ pc'[w] \in Busy /\ job' = job
          /\ pc'[w] \in {"read_latest", "add_memory", "bound", "audit_cutoff"} =>
                \/ pc[w] \in {"read_latest", "add_memory", "bound", "audit_cutoff"}
                \/ "completed" \in audit'[e]
      BY <1>1, <2>2, <2>3, <2>12 DEF CompleteStatus, AuditCompleted, ReadLatest, Bound, Busy, Working,
                  Recording, storeVars
    <3>2. /\ audit[e] \subseteq audit'[e]
          /\ "budget_cutoff" \in audit'[e] => "budget_cutoff" \in audit[e]
      BY <1>1, <2>2, <2>3, <2>12 DEF CompleteStatus, AuditCompleted, ReadLatest, Bound, storeVars
    <3> QED
      BY <2>2, <2>6, <3>1, <3>2 DEF Tells, Noted
  <2>13. CASE AddMemory(w)
    <3>1. /\ pc[w] = "add_memory" /\ pc'[w] \in {"bound", "release"} /\ job' = job
          /\ status' = status /\ audit' = audit
      BY <1>1, <2>13 DEF AddMemory
    <3>2. Noted(e, "add_memory") /\ status[e] = "completed"
      BY <2>6, <2>7, <3>1 DEF Busy, Recording
    <3> QED
      BY <2>2, <3>1, <3>2 DEF Tells, Noted, Settled, Busy, Working, Recording
  <2>14. CASE AuditCutoff(w)
    <3>1. /\ pc[w] = "audit_cutoff" /\ pc'[w] = "release"
          /\ status' = status /\ audit' = [audit EXCEPT ![e] = @ \cup {"budget_cutoff"}]
      BY <1>1, <2>2, <2>14 DEF AuditCutoff
    <3>2. Noted(e, "audit_cutoff") /\ status[e] = "bounded_completion"
      BY <2>6, <2>7, <3>1 DEF Busy
    <3>3. {"started", "completed", "budget_cutoff"} \subseteq audit'[e]
      BY <1>1, <2>3, <3>1, <3>2 DEF Noted
    <3> QED
      BY <2>2, <3>1, <3>2, <3>3 DEF Tells, Settled, Busy, Working, Recording
  <2>15. CASE FailStatus(w) \/ AuditFailed(w)
    BY <2>7, <2>15 DEF FailStatus, AuditFailed, Handler
  <2>16. CASE Raise(w) \/ RaiseInHandler(w) \/ RaiseOutside(w) \/ Crash(w)
    <3>1. \E f : faults' = [faults EXCEPT ![e] = @ \cup {f}]
      BY <2>2, <2>16 DEF Raise, RaiseInHandler, RaiseOutside, Crash, Blame
    <3> QED
      BY <1>1, <2>2, <2>3, <3>1
  <2> QED
    BY <1>2, <2>8, <2>9, <2>10, <2>11, <2>12, <2>13, <2>14, <2>15, <2>16 DEF JobStep, WorkerStep
<1>3. ASSUME NEW w \in Workers, NEW x \in Executions, Deliver(w, x) PROVE Told(e)'
  <2>1. /\ pc[w] = "idle" /\ pc' = [pc EXCEPT ![w] = "unpack"]
        /\ job' = [job EXCEPT ![w] = x]
        /\ deliveries' = [deliveries EXCEPT ![x] = @ + 1]
        /\ status' = status /\ audit' = audit /\ faults' = faults
    BY <1>3 DEF Deliver, Step, Go, storeVars
  <2>2. Smooth(e)' => Smooth(e)
    BY <1>1, <2>1 DEF Smooth
  <2>3. \A v \in Workers : pc[v] \in Busy \/ pc'[v] \in Busy => pc'[v] = pc[v] /\ job'[v] = job[v]
    BY <1>1, <2>1 DEF Busy, Working, Recording
  <2> QED
    BY <2>1, <2>2, <2>3 DEF ToldInv, Told, Settled, Noted
<1>4. ASSUME (\E x \in Executions : ExpireLock(x)) \/ UNCHANGED vars PROVE Told(e)'
  <2>1. UNCHANGED <<pc, job, deliveries, status, audit>> /\ faults[e] \subseteq faults'[e]
    BY <1>1, <1>4 DEF ExpireLock, Blame, storeVars, localVars, vars, workerVars
  <2> QED
    BY <2>1 DEF ToldInv, Told, Smooth, Settled, Noted
<1> QED
  BY <1>2, <1>3, <1>4 DEF Next, WorkerNext, AllIdle, JobStep

LEMMA ToldSays == ToldInv => TimelineMatchesStatus
  BY DEF ToldInv, Told, Smooth, Settled, TimelineMatchesStatus, Terminal

\* The timeline of an execution tells its status once its job has ended, when the
\* job was delivered once and met no fault, whatever the other executions meet.
THEOREM TimelineTells == Spec => []TimelineMatchesStatus
  BY ToldInit, ToldStep, ToldSays, PTL DEF Spec

-----------------------------------------------------------------------------

(***************************************************************************)
(* The decisions of a project and its final executions.  complete() sets   *)
(* the status two calls before it writes the decision, so the executions a *)
(* worker is between the two of are still to be counted.                   *)
(***************************************************************************)
Writing == {"audit_completed", "read_latest", "add_memory"}

Decided(e) == status[e] \in Terminal /\ \A w \in Workers : job[w] = e => pc[w] \notin Writing

DecidedOf(p) == {e \in Executions : ProjectOf[e] = p /\ Decided(e)}

Counted ==
    (\A e \in Executions : Smooth(e)) =>
        \A p \in Projects :
            IsFiniteSet(DecidedOf(p)) /\ Len(memory[p]) = Cardinality(DecidedOf(p))

CountInv == StatusInv /\ Counted

\* Of the steps of a smooth job only AddMemory makes its execution count.
LEMMA DecidedStep ==
    ASSUME StatusInv, NEW w \in Workers, JobStep(w), ~ AddMemory(w),
           NEW e \in Executions, e = job[w], deliveries[e] <= 1, faults'[e] = {}
    PROVE  Decided(e)' <=> Decided(e)
<1>1. /\ TypeInv /\ Placed(w)
      /\ pc \in [Workers -> Labels] /\ job \in [Workers -> Executions \cup {None}]
      /\ status \in [Executions -> StatusValues]
      /\ faults \in [Executions -> SUBSET FaultValues]
  BY DEF StatusInv, LockInv, TypeInv, TypeOK, StoreTypeOK
<1>2. Keeps(w)
  BY <1>1, OwnStep
<1>3. pc[w] # "idle" /\ faults[e] = {} /\ Alone(e)
  <2>1. pc[w] # "idle" /\ faults[e] \subseteq faults'[e]
    BY <1>2 DEF Keeps, Moves
  <2> QED
    BY <2>1 DEF Alone
<1>4. \A v \in Workers : job[v] = e <=> v = w
  BY OnlyWorker
<1>5. \A v \in Workers : job'[v] = e => v = w
  BY <1>2, <1>4, WorkerAssumption DEF Keeps, Moves
<1>6. /\ pc[w] \in Working => status[e] = "running"
      /\ pc[w] \in Recording => status[e] = "completed"
      /\ pc[w] \in Early => status[e] \in {"absent", "queued"}
      /\ pc[w] \notin Handler
  BY <1>1, <1>3 DEF Placed
<1>7. Decided(e) <=> status[e] \in Terminal /\ pc[w] \notin Writing
  BY <1>4 DEF Decided
<1>8. Decided(e)' <=> status'[e] \in Terminal /\ (job'[w] = e => pc'[w] \notin Writing)
  BY <1>5 DEF Decided
<1>9. SUFFICES (status'[e] \in Terminal /\ (job'[w] = e => pc'[w] \notin Writing))
               <=> (status[e] \in Terminal /\ pc[w] \notin Writing)
  BY <1>7, <1>8
<1> USE DEF Step, Go, Writing
<1>10. CASE Unpack(w) \/ Acquire(w) \/ AuditSkipped(w) \/ Load(w) \/ Release(w)
            \/ AuditStarted(w) \/ ListSubtasks(w) \/ SkipSubtask(w) \/ HandOff(w)
            \/ HandOffCutoff(w) \/ AuditSubtaskStarted(w) \/ AuditSubtaskDone(w)
            \/ RunTool(w) \/ FinishSubtask(w) \/ AuditCutoff(w)
  <2>1. status' = status /\ pc[w] \notin Writing /\ pc'[w] \notin Writing
    BY <1>1, <1>10 DEF Unpack, Acquire, AuditSkipped, Load, Release, AuditStarted, ListSubtasks,
                SkipSubtask, HandOff, HandOffCutoff, AuditSubtaskStarted, AuditSubtaskDone,
                RunTool, FinishSubtask, AuditCutoff, EndJob, storeVars
  <2> QED
    BY <2>1
<1>11. CASE MarkRunning(w)
  BY <1>1, <1>6, <1>11 DEF MarkRunning, SetStatus, Early, Terminal
<1>12. CASE CompleteStatus(w)
  <2>1. pc[w] \in Working /\ pc'[w] = "audit_completed" /\ job' = job
    BY <1>1, <1>12 DEF CompleteStatus, Working
  <2> QED
    BY <1>6, <2>1 DEF Terminal
<1>13. CASE AuditCompleted(w) \/ ReadLatest(w)
  BY <1>1, <1>13 DEF AuditCompleted, ReadLatest, storeVars
<1>14. CASE Bound(w)
  <2>1. /\ pc[w] = "bound" /\ pc'[w] = "audit_cutoff"
        /\ status'[e] = "bounded_completion"
    BY <1>1, <1>14 DEF Bound, SetStatus
  <2> QED
    BY <1>6, <2>1 DEF Recording, Terminal
<1>15. CASE FailStatus(w) \/ AuditFailed(w)
  BY <1>6, <1>15 DEF FailStatus, AuditFailed, Handler
<1>16. CASE Raise(w) \/ RaiseInHandler(w) \/ RaiseOutside(w) \/ Crash(w)
  <2>1. \E f : faults' = [faults EXCEPT ![e] = @ \cup {f}]
    BY <1>16 DEF Raise, RaiseInHandler, RaiseOutside, Crash, Blame
  <2> QED
    BY <1>1, <2>1
<1> QED
  BY <1>10, <1>11, <1>12, <1>13, <1>14, <1>15, <1>16 DEF JobStep, WorkerStep

\* A step that neither writes a decision nor makes an execution count.
LEMMA CountFrame ==
    ASSUME Counted, memory' = memory,
           \A e \in Executions : Smooth(e)' => Smooth(e),
           (\A e \in Executions : Smooth(e)') => \A e \in Executions : Decided(e)' <=> Decided(e)
    PROVE  Counted'
<1> SUFFICES ASSUME \A e \in Executions : Smooth(e)', NEW p \in Projects
             PROVE  IsFiniteSet(DecidedOf(p)') /\ Len(memory'[p]) = Cardinality(DecidedOf(p)')
  BY DEF Counted
<1>1. DecidedOf(p)' = DecidedOf(p)
  BY DEF DecidedOf
<1>2. IsFiniteSet(DecidedOf(p)) /\ Len(memory[p]) = Cardinality(DecidedOf(p))
  BY DEF Counted
<1> QED
  BY <1>1, <1>2

LEMMA CountInit == Init => CountInv
<1> SUFFICES ASSUME Init, NEW p \in Projects
             PROVE  IsFiniteSet(DecidedOf(p)) /\ Len(memory[p]) = Cardinality(DecidedOf(p))
  BY InitStatus DEF CountInv, Counted
<1>1. DecidedOf(p) = {} /\ memory[p] = <<>>
  BY DEF Init, MemoryInit, DecidedOf, Decided, Terminal
<1> QED
  BY <1>1, FS_EmptySet

LEMMA CountStep == CountInv /\ [Next]_vars => CountInv'
<1> SUFFICES ASSUME CountInv, [Next]_vars PROVE Counted'
  BY StatusStep DEF CountInv
<1>1. /\ StatusInv /\ TypeInv /\ Counted
      /\ pc \in [Workers -> Labels] /\ job \in [Workers -> Executions \cup {None}]
      /\ faults \in [Executions -> SUBSET FaultValues]
      /\ deliveries \in [Executions -> Nat]
  BY DEF CountInv, StatusInv, LockInv, TypeInv, TypeOK
<1>2. ASSUME NEW w \in Workers, JobStep(w), ~ AddMemory(w) PROVE Counted'
  <2>1. Keeps(w)
    BY <1>1, <1>2, OwnStep
  <2>2. memory' = memory
    BY <1>2 DEF JobStep, WorkerStep, Unpack, Acquire, AuditSkipped, Load, MarkRunning, AuditStarted,
                ListSubtasks, SkipSubtask, HandOff, HandOffCutoff, AuditSubtaskStarted, RunTool,
                FinishSubtask, AuditSubtaskDone, CompleteStatus, AuditCompleted, ReadLatest, Bound,
                AuditCutoff, FailStatus, AuditFailed, Release, Raise, RaiseInHandler, RaiseOutside,
                Crash, storeVars
  <2>3. \A e \in Executions : Smooth(e)' => Smooth(e)
    BY <2>1 DEF Keeps, Moves, Smooth
  <2>4. ASSUME NEW e \in Executions, Smooth(e)' PROVE Decided(e)' <=> Decided(e)
    <3>1. CASE e = job[w]
      <4>1. deliveries[e] <= 1 /\ faults'[e] = {}
        BY <2>1, <2>4 DEF Keeps, Moves, Smooth
      <4> QED
        BY <1>1, <1>2, <3>1, <4>1, DecidedStep
    <3>2. CASE e # job[w]
      <4>1. status'[e] = status[e]
        BY <2>1, <3>2 DEF Keeps, Moves
      <4>2. \A v \in Workers : job'[v] = e <=> job[v] = e
        BY <2>1, <3>2, WorkerAssumption DEF Keeps, Moves
      <4>3. \A v \in Workers : job[v] = e => pc'[v] = pc[v]
        BY <2>1, <3>2 DEF Keeps, Moves
      <4> QED
        BY <4>1, <4>2, <4>3 DEF Decided
    <3> QED
      BY <3>1, <3>2
  <2> QED
    BY <1>1, <2>2, <2>3, <2>4, CountFrame
<1>3. ASSUME NEW w \in Workers, AddMemory(w) PROVE Counted'
  <2> DEFINE p == ProjectOf[job[w]]
  <2>1. /\ job[w] \in Executions /\ p \in Projects
        /\ Len(memory'[p]) = Len(memory[p]) + 1
        /\ \A q \in Projects \ {p} : memory'[q] = memory[q]
    BY <1>1, <1>3, AddsOne
  <2>2. /\ pc[w] = "add_memory" /\ pc'[w] \in {"bound", "release"}
        /\ \A v \in Workers : v # w => pc'[v] = pc[v]
        /\ UNCHANGED <<status, job, deliveries, faults>>
    BY <1>1, <1>3 DEF AddMemory, Go
  <2> SUFFICES ASSUME \A e \in Executions : Smooth(e)', NEW q \in Projects
               PROVE  IsFiniteSet(DecidedOf(q)') /\ Len(memory'[q]) = Cardinality(DecidedOf(q)')
    BY DEF Counted
  <2>3. \A e \in Executions : Smooth(e)
    BY <2>2 DEF Smooth
  <2>4. IsFiniteSet(DecidedOf(q)) /\ Len(memory[q]) = Cardinality(DecidedOf(q))
    BY <1>1, <2>3 DEF Counted
  <2>5. \A v \in Workers : job[v] = job[w] => v = w
    BY <1>1, <2>1, <2>3, OnlyWorker DEF Smooth
  <2>6. status[job[w]] = "completed"
    BY <1>1, <2>1, <2>2, <2>3 DEF StatusInv, Placed, Smooth, Alone, Recording
  <2>7. job[w] \notin DecidedOf(q)
    BY <2>2 DEF DecidedOf, Decided, Writing
  <2>8. \A e \in Executions : Decided(e)' <=> Decided(e) \/ e = job[w]
    BY <2>1, <2>2, <2>5, <2>6 DEF Decided, Writing, Terminal
  <2>9. DecidedOf(q)' = IF q = p THEN DecidedOf(q) \cup {job[w]} ELSE DecidedOf(q)
    BY <2>1, <2>8 DEF DecidedOf
  <2> QED
    BY <2>1, <2>4, <2>7, <2>9, FS_AddElement
<1>4. ASSUME NEW w \in Workers, NEW x \in Executions, Deliver(w, x) PROVE Counted'
  <2>1. /\ pc[w] = "idle" /\ pc' = [pc EXCEPT ![w] = "unpack"]
        /\ job' = [job EXCEPT ![w] = x]
        /\ deliveries' = [deliveries EXCEPT ![x] = @ + 1]
        /\ memory' = memory /\ status' = status /\ faults' = faults
    BY <1>4 DEF Deliver, Step, Go, storeVars
  <2>2. \A e \in Executions : Smooth(e)' => Smooth(e)
    BY <1>1, <2>1 DEF Smooth
  <2>3. \A v \in Workers :
          pc[v] \in Writing \/ pc'[v] \in Writing => pc'[v] = pc[v] /\ job'[v] = job[v]
    BY <1>1, <2>1 DEF Writing
  <2>4. \A e \in Executions : Decided(e)' <=> Decided(e)
    BY <2>1, <2>3 DEF Decided
  <2> QED
    BY <1>1, <2>1, <2>2, <2>4, CountFrame
<1>5. ASSUME (\E x \in Executions : ExpireLock(x)) \/ UNCHANGED vars PROVE Counted'
  <2>1. UNCHANGED <<pc, job, deliveries, status, memory>>
    BY <1>5 DEF ExpireLock, storeVars, localVars, vars, workerVars
  <2>2. \A e \in Executions : faults[e] \subseteq faults'[e]
    BY <1>1, <1>5 DEF ExpireLock, Blame, vars, workerVars
  <2>3. \A e \in Executions : (Smooth(e)' => Smooth(e)) /\ (Decided(e)' <=> Decided(e))
    BY <2>1, <2>2 DEF Smooth, Decided
  <2> QED
    BY <1>1, <2>1, <2>3, CountFrame
<1> QED
  BY <1>2, <1>3, <1>4, <1>5 DEF Next, WorkerNext, AllIdle, JobStep

LEMMA DecidedWhenIdle == CountInv => DecisionsMatchCompletions
<1> SUFFICES ASSUME CountInv, \A e \in Executions : deliveries[e] <= 1 /\ faults[e] = {},
                    \A w \in Workers : pc[w] = "idle", NEW p \in Projects
             PROVE  Len(memory[p]) = Cardinality({e \in Executions :
                                        ProjectOf[e] = p /\ status[e] \in Terminal})
  BY DEF DecisionsMatchCompletions
<1>1. DecidedOf(p) = {e \in Executions : ProjectOf[e] = p /\ status[e] \in Terminal}
  BY DEF DecidedOf, Decided, Writing
<1> QED
  BY <1>1 DEF CountInv, Counted, Smooth

\* A project has exactly one decision per final execution once every worker is
\* idle, however its jobs interleaved, if none was delivered twice or met a fault.
THEOREM OneDecisionEach == Spec => []DecisionsMatchCompletions
  BY CountInit, CountStep, DecidedWhenIdle, PTL DEF Spec

-----------------------------------------------------------------------------

(***************************************************************************)
(* What the decisions say of the budget.  A run checks it after every      *)
(* subtask, so a place of the loop outside a subtask is reached only with  *)
(* a count the budget pays for, and inside a subtask the count is one more *)
(* than that at most.                                                      *)
(***************************************************************************)
WithinBudget ==
    {"idle", "unpack", "acquire", "skip", "load", "mark", "audit_started", "list", "loop",
     "finish", "announce_done"}

Completing == {"complete", "audit_completed", "read_latest", "add_memory"}

Paced(w) ==
    LET n == run[w].handoffs IN
    /\ pc[w] \in WithinBudget => ~ run[w].bounded /\ Affordable(n)
    /\ pc[w] \in {"announce", "tool"} => n > 0 /\ Affordable(n - 1)
    /\ pc[w] \in Completing => IF run[w].bounded THEN CutOffAt(n) ELSE Affordable(n)

BudgetInv == TypeInv /\ DecisionsTellBudget /\ \A w \in Workers : Paced(w)

\* The enforcer lets a run go on exactly when the limits are not exceeded.
LEMMA Enforced ==
    ASSUME NEW n \in Nat, NEW ms \in Elapsed
    PROVE  /\ CutoffReason(n, n, ms) = "none" => Affordable(n)
           /\ CutoffReason(n, n, ms) # "none" => ~ Affordable(n) \/ ms > MaxDurationMs
  BY BudgetAssumption, WorkerAssumption DEF CutoffReason, Affordable

\* A worker that keeps its place and its variables keeps its pace; one that ends
\* its job has spent nothing.
LEMMA PacedFrame ==
    ASSUME NEW v \in Workers, Paced(v), run'[v] = run[v],
           \/ pc'[v] = pc[v]
           \/ pc[v] \in WithinBudget /\ pc'[v] \in WithinBudget \cup Completing
           \/ pc[v] \in Completing /\ pc'[v] \in Completing
           \/ pc[v] = "announce" /\ pc'[v] = "tool"
           \/ pc'[v] \in {"bound", "audit_cutoff", "fail", "audit_failed", "release"}
    PROVE  Paced(v)'
  BY DEF Paced, WithinBudget, Completing, Affordable, CutOffAt

LEMMA PacedAfresh ==
    ASSUME NEW v \in Workers, run'[v] = Fresh, pc'[v] = "idle"
    PROVE  Paced(v)'
<1>1. ~ run'[v].bounded /\ run'[v].handoffs = 0
  BY DEF Fresh
<1> QED
  BY <1>1, BudgetAssumption DEF Paced, WithinBudget, Completing, Affordable

LEMMA BudgetInit == Init => BudgetInv
<1> SUFFICES ASSUME Init PROVE DecisionsTellBudget /\ \A w \in Workers : Paced(w)
  BY InitType DEF BudgetInv
<1>1. DecisionsTellBudget
  BY DEF Init, MemoryInit, DecisionsTellBudget
<1>2. ASSUME NEW w \in Workers PROVE Paced(w)
  <2>1. run[w] = Fresh /\ pc[w] = "idle"
    BY DEF Init, WorkerInit
  <2>2. ~ run[w].bounded /\ run[w].handoffs = 0
    BY <2>1 DEF Fresh
  <2> QED
    BY <2>1, <2>2, BudgetAssumption DEF Paced, WithinBudget, Completing, Affordable
<1> QED
  BY <1>1, <1>2

\* Every step but AddMemory leaves the decisions alone.
LEMMA PaceStep ==
    ASSUME BudgetInv, NEW w \in Workers, JobStep(w)
    PROVE  \A v \in Workers : Paced(v)'
<1> SUFFICES ASSUME NEW v \in Workers PROVE Paced(v)'
  OBVIOUS
<1>1. /\ pc \in [Workers -> Labels] /\ run \in [Workers -> RunValues]
      /\ Paced(v) /\ Paced(w) /\ run[w].handoffs \in Nat
  BY DEF BudgetInv, TypeInv, TypeOK, RunValues
<1>2. CASE v # w
  <2>1. pc'[v] = pc[v] /\ run'[v] = run[v]
    <3>1. CASE RunTool(w)
      <4>1. PICK p1, r1 : pc' = [pc EXCEPT ![w] = p1] /\ run' = [run EXCEPT ![w].bounded = r1]
        BY <3>1 DEF RunTool, Go
      <4> QED
        BY <1>1, <1>2, <4>1
    <3>2. CASE HandOff(w) \/ SkipSubtask(w) \/ ListSubtasks(w) \/ ReadLatest(w)
               \/ AuditSubtaskDone(w)
      BY <1>1, <1>2, <3>2 DEF HandOff, SkipSubtask, ListSubtasks, ReadLatest, AuditSubtaskDone,
                              Step, Go
    <3>3. CASE ~ (\/ RunTool(w) \/ HandOff(w) \/ SkipSubtask(w) \/ ListSubtasks(w)
                  \/ ReadLatest(w) \/ AuditSubtaskDone(w))
      BY <1>1, <1>2, <3>3
         DEF JobStep, WorkerStep, Unpack, Acquire, AuditSkipped, Load, MarkRunning, AuditStarted,
             HandOffCutoff, AuditSubtaskStarted, FinishSubtask, CompleteStatus, AuditCompleted,
             AddMemory, Bound, AuditCutoff, FailStatus, AuditFailed, Release, Raise,
             RaiseInHandler, RaiseOutside, Crash, Step, Go, EndJob
    <3> QED
      BY <3>1, <3>2, <3>3
  <2> QED
    BY <1>1, <2>1, PacedFrame
<1>3. CASE v = w
  <2>1. CASE Acquire(w) \/ Load(w) \/ MarkRunning(w) \/ AuditStarted(w)
             \/ HandOffCutoff(w) \/ AuditSubtaskStarted(w) \/ FinishSubtask(w)
             \/ CompleteStatus(w) \/ AuditCompleted(w) \/ AddMemory(w) \/ Bound(w)
             \/ AuditCutoff(w) \/ FailStatus(w) \/ AuditFailed(w)
    BY <1>1, <1>3, <2>1, PacedFrame
       DEF Acquire, Load, MarkRunning, AuditStarted, HandOffCutoff, AuditSubtaskStarted,
           FinishSubtask, CompleteStatus, AuditCompleted, AddMemory, Bound, AuditCutoff,
           FailStatus, AuditFailed, Step, Go, WithinBudget, Completing
  <2>2. CASE AuditSkipped(w) \/ Release(w) \/ RaiseOutside(w) \/ Crash(w)
    BY <1>1, <1>3, <2>2, PacedAfresh DEF AuditSkipped, Release, RaiseOutside, Crash, EndJob, Go
  <2>3. CASE Raise(w) \/ RaiseInHandler(w)
    BY <1>1, <1>3, <2>3, PacedFrame DEF Raise, RaiseInHandler, Go
  <2>4. CASE Unpack(w)
    <3>1. CASE UnpackedNames = RepositoryCount
      BY <1>1, <1>3, <2>4, <3>1, PacedFrame DEF Unpack, Go, WithinBudget
    <3>2. CASE UnpackedNames # RepositoryCount
      BY <1>1, <1>3, <2>4, <3>2, PacedAfresh DEF Unpack, EndJob, Go
    <3> QED
      BY <3>1, <3>2
  <2>5. CASE ListSubtasks(w) \/ SkipSubtask(w) \/ AuditSubtaskDone(w) \/ ReadLatest(w)
    <3>1. run'[w].handoffs = run[w].handoffs /\ run'[w].bounded = run[w].bounded
      BY <1>1, <2>5 DEF ListSubtasks, SkipSubtask, AuditSubtaskDone, ReadLatest, RunValues
    <3>2. \/ pc[w] \in WithinBudget /\ pc'[w] \in WithinBudget
          \/ pc[w] = "read_latest" /\ pc'[w] = "add_memory"
      BY <1>1, <2>5 DEF ListSubtasks, SkipSubtask, AuditSubtaskDone, ReadLatest, Step, Go,
                        WithinBudget
    <3> QED
      BY <1>1, <1>3, <3>1, <3>2 DEF Paced, WithinBudget, Completing, Affordable, CutOffAt
  <2>6. CASE HandOff(w)
    <3>1. /\ pc[w] = "loop" /\ pc'[w] = "announce"
          /\ \E a \in run[w].todo : run'[w] = TakeUp(run[w], a)
      BY <1>1, <2>6 DEF HandOff, Step, Go
    <3>2. run'[w].handoffs = run[w].handoffs + 1
      BY <3>1 DEF TakeUp
    <3>3. Affordable(run[w].handoffs)
      BY <1>1, <3>1 DEF Paced, WithinBudget
    <3> QED
      BY <1>1, <1>3, <3>1, <3>2, <3>3 DEF Paced, WithinBudget, Completing, Affordable
  <2>7. CASE RunTool(w)
    <3>1. PICK ms \in Elapsed :
             LET over == CutoffReason(run[w].handoffs, run[w].handoffs, ms) # "none" IN
             /\ Go(w, IF over THEN "complete" ELSE "finish")
             /\ run' = [run EXCEPT ![w].bounded = over]
      BY <2>7 DEF RunTool
    <3> DEFINE n == run[w].handoffs
    <3>2. n > 0 /\ Affordable(n - 1)
      BY <1>1, <2>7 DEF RunTool, Paced
    <3>3. CASE CutoffReason(n, n, ms) = "none"
      <4>1. pc'[w] = "finish" /\ ~ run'[w].bounded /\ run'[w].handoffs = n
        BY <1>1, <3>1, <3>3 DEF Go, RunValues
      <4>2. Affordable(n)
        BY <1>1, <3>3, Enforced
      <4> QED
        BY <1>3, <4>1, <4>2 DEF Paced, WithinBudget, Completing, Affordable
    <3>4. CASE CutoffReason(n, n, ms) # "none"
      <4>1. pc'[w] = "complete" /\ run'[w].bounded /\ run'[w].handoffs = n
        BY <1>1, <3>1, <3>4 DEF Go, RunValues
      <4>2. CutOffAt(n)
        BY <1>1, <3>2, <3>4, Enforced DEF CutOffAt
      <4> QED
        BY <1>3, <4>1, <4>2 DEF Paced, WithinBudget, Completing, Affordable, CutOffAt
    <3> QED
      BY <3>3, <3>4
  <2> QED
    BY <2>1, <2>2, <2>3, <2>4, <2>5, <2>6, <2>7 DEF JobStep, WorkerStep
<1> QED
  BY <1>2, <1>3

LEMMA BudgetStep == BudgetInv /\ [Next]_vars => BudgetInv'
<1> SUFFICES ASSUME BudgetInv, [Next]_vars
             PROVE  DecisionsTellBudget' /\ \A w \in Workers : Paced(w)'
  BY TypeStep DEF BudgetInv
<1>1. TypeInv /\ DecisionsTellBudget /\ pc \in [Workers -> Labels]
  BY DEF BudgetInv, TypeInv, TypeOK
<1>2. ASSUME memory' = memory PROVE DecisionsTellBudget'
  BY <1>1, <1>2 DEF DecisionsTellBudget, CutOffAt, Affordable
<1>3. ASSUME NEW w \in Workers, JobStep(w), ~ AddMemory(w) PROVE memory' = memory
  BY <1>3 DEF JobStep, WorkerStep, Unpack, Acquire, AuditSkipped, Load, MarkRunning, AuditStarted,
              ListSubtasks, SkipSubtask, HandOff, HandOffCutoff, AuditSubtaskStarted, RunTool,
              FinishSubtask, AuditSubtaskDone, CompleteStatus, AuditCompleted, ReadLatest, Bound,
              AuditCutoff, FailStatus, AuditFailed, Release, Raise, RaiseInHandler, RaiseOutside,
              Crash, storeVars
<1>4. ASSUME NEW w \in Workers, AddMemory(w) PROVE DecisionsTellBudget'
  <2> DEFINE p == ProjectOf[job[w]]
             told == Summary(w)
  <2>1. /\ p \in Projects /\ MemoryType /\ MemoryType'
        /\ Len(memory'[p]) = Len(memory[p]) + 1
        /\ \A q \in Projects \ {p} : memory'[q] = memory[q]
        /\ memory'[p][Len(memory[p]) + 1].content = told
        /\ \A i \in 1..Len(memory[p]) : memory'[p][i].content = memory[p][i].content
    BY <1>1, <1>4, AddsOne
  <2>2. IF told[1] = "bounded" THEN CutOffAt(told[2]) ELSE Affordable(told[2])
    <3>1. pc[w] = "add_memory" /\ Paced(w) /\ Counts(w) /\ run[w].handoffs \in Nat
      BY <1>1, <1>4 DEF AddMemory, BudgetInv, TypeInv, TypeOK, RunValues
    <3>2. CASE run[w].bounded
      BY <3>1, <3>2 DEF Paced, Completing, Summary
    <3>3. CASE ~ run[w].bounded
      <4>1. Cardinality(run[w].done) \in Nat /\ Cardinality(run[w].done) <= run[w].handoffs
        BY <3>1, FS_CardinalityType DEF Counts
      <4>2. Affordable(run[w].handoffs)
        BY <3>1, <3>3 DEF Paced, Completing
      <4>3. Affordable(Cardinality(run[w].done))
        BY <3>1, <4>1, <4>2, BudgetAssumption DEF Affordable
      <4> QED
        BY <3>3, <4>3 DEF Summary
    <3> QED
      BY <3>2, <3>3
  <2> SUFFICES ASSUME NEW q \in Projects, NEW i \in DOMAIN memory'[q]
               PROVE  LET t == memory'[q][i].content IN
                      IF t[1] = "bounded" THEN CutOffAt(t[2]) ELSE Affordable(t[2])
    BY DEF DecisionsTellBudget, CutOffAt, Affordable
  <2> HIDE DEF told
  <2>3. CASE q # p
    BY <1>1, <2>1, <2>3 DEF DecisionsTellBudget
  <2>4. CASE q = p
    <3>1. /\ DOMAIN memory[p] = 1..Len(memory[p]) /\ DOMAIN memory'[p] = 1..Len(memory'[p])
          /\ Len(memory[p]) \in Nat
      BY <2>1 DEF MemoryType
    <3>2. CASE i = Len(memory[p]) + 1
      BY <2>1, <2>2, <2>4, <3>2
    <3>3. CASE i # Len(memory[p]) + 1
      <4>1. i \in 1..Len(memory[p])
        BY <2>1, <2>4, <3>1, <3>3
      <4> QED
        BY <1>1, <2>1, <2>4, <3>1, <4>1 DEF DecisionsTellBudget
    <3> QED
      BY <3>2, <3>3
  <2> QED
    BY <2>3, <2>4
<1>5. ASSUME NEW w \in Workers, JobStep(w)
      PROVE  DecisionsTellBudget' /\ \A v \in Workers : Paced(v)'
  BY <1>2, <1>3, <1>4, <1>5, PaceStep
<1>6. ASSUME NEW w \in Workers, NEW x \in Executions, Deliver(w, x)
      PROVE  DecisionsTellBudget' /\ \A v \in Workers : Paced(v)'
  <2>1. /\ memory' = memory /\ run' = run
        /\ pc[w] = "idle" /\ pc' = [pc EXCEPT ![w] = "unpack"]
    BY <1>6 DEF Deliver, Step, Go, storeVars
  <2>2. ASSUME NEW v \in Workers PROVE Paced(v)'
    BY <1>1, <2>1, PacedFrame DEF BudgetInv, WithinBudget
  <2> QED
    BY <1>2, <2>1, <2>2
<1>7. ASSUME (\E x \in Executions : ExpireLock(x)) \/ UNCHANGED vars
      PROVE  DecisionsTellBudget' /\ \A v \in Workers : Paced(v)'
  <2>1. UNCHANGED <<pc, run, memory>>
    BY <1>7 DEF ExpireLock, storeVars, localVars, vars, workerVars
  <2>2. ASSUME NEW v \in Workers PROVE Paced(v)'
    BY <2>1, PacedFrame DEF BudgetInv
  <2> QED
    BY <1>2, <2>1, <2>2
<1> QED
  BY <1>5, <1>6, <1>7 DEF Next, WorkerNext, AllIdle, JobStep

\* What the decisions of a project say of the budgets is true for all limits,
\* plans and schedules, whatever fails and however often a job is delivered: a
\* run at a limit goes on, and the first subtask beyond it cuts the run off.
THEOREM BudgetTold == Spec => []DecisionsTellBudget
<1>1. BudgetInv => DecisionsTellBudget
  BY DEF BudgetInv
<1> QED
  BY BudgetInit, BudgetStep, <1>1, PTL DEF Spec

=============================================================================
