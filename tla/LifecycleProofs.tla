---------------------------- MODULE LifecycleProofs ----------------------------
(***************************************************************************)
(* The whole path of an execution, for any number of requests and workers: *)
(* requests keep what the workers rely on, workers keep what the requests  *)
(* rely on, and together they keep the promise of the API.                 *)
(***************************************************************************)
EXTENDS Lifecycle, WorkerProofs

SP == INSTANCE StartProofs

LEMMA StartAssumed ==
    /\ Window \in Nat /\ Limit \in Nat \ {0} /\ MaxClock \in Nat
    /\ RequestFaults \in BOOLEAN
    /\ ScenarioOf \in [Keys -> STRING]
    /\ GivenInputs \subseteq SUBSET SP!InvestigationInputs
  BY LifecycleAssumption DEF SP!InvestigationInputs, S!InvestigationInputs

-----------------------------------------------------------------------------

(***************************************************************************)
(* The requests of Lifecycle are those the theorems of StartProofs are     *)
(* about.                                                                  *)
(***************************************************************************)
LEMMA SameListings == S!Listings = SP!Listings
<1>1. \A x : S!Cardinality(x) = SP!Cardinality(x)
  BY DEF S!Cardinality, SP!Cardinality
<1>2. S!Existing = SP!Existing
  BY DEF S!Existing, SP!Existing
<1>3. \A e : S!CreatedAt(e) = SP!CreatedAt(e)
  BY DEF S!CreatedAt, SP!CreatedAt
<1> QED
  BY <1>1, <1>2, <1>3 DEF S!Listings, SP!Listings

LEMMA SameCandidates == ASSUME NEW r, NEW L PROVE S!Candidates(r, L) = SP!Candidates(r, L)
  BY DEF S!Candidates, SP!Candidates, S!CreatedAt, SP!CreatedAt

LEMMA SameStart == S!StartNext => SP!StartNext
<1> USE DEF S!Advance, SP!Advance, S!GoTo, SP!GoTo, S!Return, SP!Return, S!Log, SP!Log,
            S!SetStatus, SP!SetStatus, S!ThroughScenario, SP!ThroughScenario, S!ValidInputs,
            SP!ValidInputs, S!Has, SP!Has, S!Catalog, SP!Catalog, S!InvestigationInputs,
            SP!InvestigationInputs, S!storeVars, SP!storeVars, S!Existing, SP!Existing
<1>1. ASSUME NEW r \in Executions, S!InvalidInputs(r) \/ S!ReadBefore(r) \/ S!ReadClock(r)
      PROVE  SP!InvalidInputs(r) \/ SP!ReadBefore(r) \/ SP!ReadClock(r)
  BY <1>1, SameListings DEF S!InvalidInputs, SP!InvalidInputs, S!ReadBefore, SP!ReadBefore,
     S!ReadClock, SP!ReadClock
<1>2. ASSUME NEW r \in Executions, S!ListRecent(r) PROVE SP!ListRecent(r)
  BY <1>2, SameListings, SameCandidates DEF S!ListRecent, SP!ListRecent
<1>3. ASSUME NEW r \in Executions, S!AuditReused(r) \/ S!Create(r) \/ S!CreateSubtasks(r)
      PROVE  SP!AuditReused(r) \/ SP!Create(r) \/ SP!CreateSubtasks(r)
  BY <1>3 DEF S!AuditReused, SP!AuditReused, S!Create, SP!Create, S!CreateSubtasks,
     SP!CreateSubtasks
<1>4. ASSUME NEW r \in Executions,
             S!AuditQueued(r) \/ S!AuditPlanned(r) \/ S!Enqueue(r) \/ S!AuditEnqueued(r)
      PROVE  SP!AuditQueued(r) \/ SP!AuditPlanned(r) \/ SP!Enqueue(r) \/ SP!AuditEnqueued(r)
  BY <1>4 DEF S!AuditQueued, SP!AuditQueued, S!AuditPlanned, SP!AuditPlanned, S!Enqueue,
     SP!Enqueue, S!AuditEnqueued, SP!AuditEnqueued
<1>5. ASSUME NEW r \in Executions, S!RequestRaises(r) PROVE SP!RequestRaises(r)
  BY <1>5 DEF S!RequestRaises, SP!RequestRaises
<1>6. S!Tick => SP!Tick
  BY DEF S!Tick, SP!Tick
<1> QED
  BY <1>1, <1>2, <1>3, <1>4, <1>5, <1>6
     DEF S!StartNext, SP!StartNext, S!RequestStep, SP!RequestStep

\* What requests establish of themselves survives their own steps.
LEMMA StartKept == SP!IStart /\ S!StartNext => SP!IStart'
<1>1. SP!IStart /\ SP!StartNext => SP!IStart'
  BY StartAssumed, StoreAssumption, BackendAssumption, SP!StartStep DEF SP!Next
<1> QED
  BY <1>1, SameStart

-----------------------------------------------------------------------------

(***************************************************************************)
(* What a request and the jobs of its execution know of each other.        *)
(***************************************************************************)
ToEnqueue ==
    {"idle", "now", "list", "reuse", "create", "plan", "audit_queued", "audit_planned", "enqueue"}

Enqueued(e) == e \in queue \/ deliveries[e] >= 1

Asked(r) ==
    /\ at[r] \in ToEnqueue => ~ Enqueued(r)
    /\ at[r] = "audit_enqueued" => Enqueued(r)
    /\ at[r] = "reuse" => match[r] # r
    /\ at[r] = "returned" /\ match[r] = r => Enqueued(r)
    /\ Enqueued(r) => status[r] # "absent"

RequestInv == SP!IStart /\ \A r \in Executions : Asked(r)

\* What a step of a request does to the tables and the queue.
Asks ==
    /\ memory' = memory /\ UNCHANGED workerVars
    /\ queue \subseteq queue'
    /\ \A e \in Executions :
          /\ \/ status'[e] = status[e]
             \/ at[e] = "create" /\ status[e] = "absent" /\ status'[e] = "queued"
          /\ \/ subtask'[e] = subtask[e]
             \/ at[e] = "plan" /\ subtask'[e] = [a \in Agents |-> "pending"]
          /\ audit[e] \subseteq audit'[e]
          /\ audit'[e] \subseteq audit[e] \cup CreationEvents \cup {"idempotency_reused"}
          /\ e \in queue' => e \in queue \/ at[e] = "enqueue"

LEMMA AsksStep ==
    ASSUME SP!IStart, S!StartNext, UNCHANGED workerVars
    PROVE  Asks
<1>1. /\ status \in [Executions -> SP!StatusValues]
      /\ subtask \in [Executions -> [Agents -> SP!SubtaskValues]]
      /\ audit \in [Executions -> SUBSET SP!AuditEvents]
      /\ match \in [Executions -> Executions]
      /\ \A r \in Executions : at[r] = "create" => status[r] = "absent"
  BY DEF SP!IStart, SP!TypeOK, SP!StoreTypeOK, SP!Written, SP!Unwritten
<1> USE DEF Asks, S!Advance, S!GoTo, S!Log, S!SetStatus, S!storeVars, CreationEvents
<1>2. ASSUME NEW r \in Executions,
             S!InvalidInputs(r) \/ S!ReadBefore(r) \/ S!ReadClock(r) \/ S!ListRecent(r)
             \/ S!RequestRaises(r)
      PROVE  Asks
  BY <1>2 DEF S!InvalidInputs, S!ReadBefore, S!ReadClock, S!ListRecent, S!RequestRaises
<1>3. ASSUME NEW r \in Executions, S!AuditReused(r) PROVE Asks
  BY <1>1, <1>3 DEF S!AuditReused
<1>4. ASSUME NEW r \in Executions, S!Create(r) PROVE Asks
  BY <1>1, <1>4 DEF S!Create
<1>5. ASSUME NEW r \in Executions, S!CreateSubtasks(r) PROVE Asks
  BY <1>1, <1>5 DEF S!CreateSubtasks
<1>6. ASSUME NEW r \in Executions, S!AuditQueued(r) \/ S!AuditPlanned(r) \/ S!AuditEnqueued(r)
      PROVE  Asks
  BY <1>1, <1>6 DEF S!AuditQueued, S!AuditPlanned, S!AuditEnqueued
<1>7. ASSUME NEW r \in Executions, S!Enqueue(r) PROVE Asks
  BY <1>1, <1>7 DEF S!Enqueue
<1>8. S!Tick => Asks
  BY DEF S!Tick
<1> QED
  BY <1>2, <1>3, <1>4, <1>5, <1>6, <1>7, <1>8 DEF S!StartNext, S!RequestStep

LEMMA AskedStep ==
    ASSUME RequestInv, S!StartNext, UNCHANGED workerVars
    PROVE  RequestInv'
<1>1. SP!IStart'
  BY StartKept DEF RequestInv
<1> SUFFICES ASSUME NEW q \in Executions PROVE Asked(q)'
  BY <1>1 DEF RequestInv
<1>2. /\ at \in [Executions -> SP!RequestLabels] /\ match \in [Executions -> Executions]
      /\ status \in [Executions -> SP!StatusValues]
      /\ \A r \in Executions : SP!Written(r) /\ SP!Reuses(r) /\ Asked(r)
      /\ deliveries' = deliveries
  BY DEF RequestInv, SP!IStart, SP!TypeOK, SP!StoreTypeOK, workerVars
<1>3. Asks
  BY AsksStep DEF RequestInv
<1>4. Enqueued(q)' <=> Enqueued(q) \/ (q \in queue' /\ at[q] = "enqueue")
  BY <1>2, <1>3 DEF Enqueued, Asks
<1>5. CASE UNCHANGED <<at[q], match[q], status[q]>> /\ (q \in queue' => q \in queue)
  BY <1>2, <1>4, <1>5 DEF Asked, ToEnqueue, Enqueued
<1> USE DEF S!Advance, S!GoTo, S!storeVars
<1>6. ASSUME NEW r \in Executions, r # q, S!RequestStep(r) \/ S!RequestRaises(r)
      PROVE  UNCHANGED <<at[q], match[q], status[q]>> /\ (q \in queue' => q \in queue)
  <2>1. CASE S!InvalidInputs(r) \/ S!ReadBefore(r) \/ S!ReadClock(r) \/ S!RequestRaises(r)
    BY <1>2, <1>6, <2>1 DEF S!InvalidInputs, S!ReadBefore, S!ReadClock, S!RequestRaises
  <2>2. CASE S!ListRecent(r)
    BY <1>2, <1>6, <2>2 DEF S!ListRecent
  <2>3. CASE S!AuditReused(r) \/ S!AuditEnqueued(r)
    BY <1>2, <1>6, <2>3 DEF S!AuditReused, S!AuditEnqueued, S!Return
  <2>4. CASE S!Create(r) \/ S!CreateSubtasks(r) \/ S!AuditQueued(r) \/ S!AuditPlanned(r)
             \/ S!Enqueue(r)
    BY <1>2, <1>6, <2>4 DEF S!Create, S!CreateSubtasks, S!AuditQueued, S!AuditPlanned,
       S!Enqueue, S!SetStatus
  <2> QED
    BY <1>6, <2>1, <2>2, <2>3, <2>4 DEF S!RequestStep
<1>7. CASE S!InvalidInputs(q) \/ S!ReadBefore(q) \/ S!ReadClock(q)
  BY <1>2, <1>4, <1>7 DEF S!InvalidInputs, S!ReadBefore, S!ReadClock, Asked, ToEnqueue, SP!Written,
     SP!Reuses, S!ThroughScenario, SP!Unwritten
<1>8. CASE S!ListRecent(q)
  <2>1. PICK L \in S!Listings :
           IF S!Candidates(q, L) = {}
           THEN S!GoTo(q, "create") /\ UNCHANGED match
           ELSE /\ S!GoTo(q, "reuse")
                /\ \E e \in S!Candidates(q, L) : match' = [match EXCEPT ![q] = e]
    BY <1>8 DEF S!ListRecent
  <2>2. UNCHANGED <<status, queue>> /\ at[q] = "list"
    BY <1>8 DEF S!ListRecent
  <2>3. ~ Enqueued(q) /\ ~ Enqueued(q)'
    BY <1>2, <1>4, <2>2 DEF Asked, ToEnqueue
  <2>4. CASE S!Candidates(q, L) = {}
    BY <1>2, <2>1, <2>2, <2>3, <2>4 DEF Asked, ToEnqueue
  <2>5. ASSUME NEW e \in S!Candidates(q, L), match' = [match EXCEPT ![q] = e], S!GoTo(q, "reuse")
        PROVE  Asked(q)'
    <3>1. e # q
      BY <1>2, <2>2 DEF S!Candidates, S!Listings, S!Existing, SP!Written, SP!Unwritten
    <3> QED
      BY <1>2, <2>3, <2>5, <3>1 DEF Asked, ToEnqueue
  <2> QED
    BY <2>1, <2>4, <2>5
<1>9. CASE S!AuditReused(q)
  BY <1>2, <1>4, <1>9 DEF S!AuditReused, S!Return, Asked, ToEnqueue
<1>10. CASE S!Create(q) \/ S!CreateSubtasks(q) \/ S!AuditQueued(q) \/ S!AuditPlanned(q)
  BY <1>2, <1>4, <1>10 DEF S!Create, S!CreateSubtasks, S!AuditQueued, S!AuditPlanned, Asked,
     ToEnqueue
<1>11. CASE S!Enqueue(q)
  BY <1>2, <1>4, <1>11 DEF S!Enqueue, Asked, ToEnqueue, Enqueued, SP!Written
<1>12. CASE S!AuditEnqueued(q)
  BY <1>2, <1>4, <1>12 DEF S!AuditEnqueued, S!Return, Asked, ToEnqueue
<1>13. CASE S!RequestRaises(q)
  BY <1>2, <1>4, <1>13 DEF S!RequestRaises, Asked, ToEnqueue, Enqueued
<1>14. CASE S!Tick
  BY <1>5, <1>14 DEF S!Tick
<1> QED
  BY <1>5, <1>6, <1>7, <1>8, <1>9, <1>10, <1>11, <1>12, <1>13, <1>14
     DEF S!StartNext, S!RequestStep

-----------------------------------------------------------------------------

\* What a step of a worker leaves of what requests have written.
Serves ==
    /\ queue' \subseteq queue
    /\ \A e \in Executions :
          /\ status'[e] = "absent" <=> status[e] = "absent"
          /\ \A a \in Agents : subtask[e][a] # "absent" => subtask'[e][a] # "absent"
          /\ audit[e] \subseteq audit'[e]
          /\ Enqueued(e)' <=> Enqueued(e)

LEMMA ServesStep ==
    ASSUME StatusInv, \A e \in Executions : Asked(e), [Next]_vars
    PROVE  Serves
<1>1. /\ status \in [Executions -> StatusValues]
      /\ subtask \in [Executions -> [Agents -> SubtaskValues]]
      /\ audit \in [Executions -> SUBSET AuditEvents]
      /\ queue \subseteq Executions
      /\ deliveries \in [Executions -> Nat]
      /\ \A w \in Workers : run[w] \in RunValues /\ Counts(w)
  BY DEF StatusInv, LockInv, TypeInv, TypeOK, StoreTypeOK
<1>2. ASSUME NEW w \in Workers, pc[w] # "idle"
      PROVE  job[w] \in Executions /\ deliveries[job[w]] >= 1 /\ status[job[w]] # "absent"
  <2>1. job[w] \in Executions /\ Delivered(job[w]) /\ Asked(job[w])
    BY <1>2 DEF StatusInv, LockInv, TypeInv, TypeOK
  <2> QED
    BY <2>1 DEF Delivered, Asked, Enqueued
<1> USE DEF Serves, Enqueued, Step, Go, Log, SetStatus, SetSubtask, storeVars
<1>3. ASSUME NEW w \in Workers,
             Unpack(w) \/ Acquire(w) \/ AuditSkipped(w) \/ Load(w) \/ Release(w)
      PROVE  Serves
  <2>1. /\ pc[w] # "idle" /\ UNCHANGED <<status, subtask, deliveries>>
        /\ \A e \in Executions : audit[e] \subseteq audit'[e]
        /\ queue' = queue \/ queue' = queue \ {job[w]}
    BY <1>1, <1>3 DEF Unpack, Acquire, AuditSkipped, Load, Release, EndJob
  <2> QED
    BY <1>1, <1>2, <2>1
<1>4. ASSUME NEW w \in Workers,
             MarkRunning(w) \/ CompleteStatus(w) \/ Bound(w) \/ FailStatus(w)
      PROVE  Serves
  <2>1. /\ pc[w] # "idle" /\ UNCHANGED <<subtask, audit, queue, deliveries>>
        /\ \E s \in StatusValues \ {"absent"} : status' = [status EXCEPT ![job[w]] = s]
    BY <1>4 DEF MarkRunning, CompleteStatus, Bound, FailStatus, StatusValues
  <2> QED
    BY <1>1, <1>2, <2>1
<1>5. ASSUME NEW w \in Workers, HandOff(w) \/ FinishSubtask(w) PROVE Serves
  <2>1. /\ UNCHANGED <<status, audit, queue, deliveries>>
        /\ \E a : \E s \in {"running", "completed"} : subtask' = [subtask EXCEPT ![job[w]][a] = s]
    BY <1>5, EveryPlanIsFull DEF HandOff, FinishSubtask
  <2> QED
    BY <1>1, <2>1
<1>6. ASSUME NEW w \in Workers,
             AuditStarted(w) \/ HandOffCutoff(w) \/ AuditSubtaskStarted(w) \/ AuditSubtaskDone(w)
             \/ AuditCompleted(w) \/ AuditCutoff(w) \/ AuditFailed(w) \/ RunTool(w)
      PROVE  Serves
  <2>1. /\ UNCHANGED <<status, subtask, queue, deliveries>>
        /\ \E event : audit' = [audit EXCEPT ![job[w]] = @ \cup {event}]
    BY <1>6 DEF AuditStarted, HandOffCutoff, AuditSubtaskStarted, AuditSubtaskDone, AuditCompleted,
       AuditCutoff, AuditFailed, RunTool
  <2> QED
    BY <1>1, <2>1
<1>7. ASSUME NEW w \in Workers,
             ListSubtasks(w) \/ SkipSubtask(w) \/ ReadLatest(w) \/ AddMemory(w)
             \/ Raise(w) \/ RaiseInHandler(w)
      PROVE  Serves
  BY <1>7 DEF ListSubtasks, SkipSubtask, ReadLatest, AddMemory, Raise, RaiseInHandler
<1>8. ASSUME NEW w \in Workers, RaiseOutside(w) \/ Crash(w) PROVE Serves
  <2>1. /\ pc[w] # "idle" /\ UNCHANGED <<status, subtask, audit, deliveries>>
        /\ queue' = queue \/ queue' = queue \ {job[w]}
    BY <1>8 DEF RaiseOutside, Crash, EndJob
  <2> QED
    BY <1>1, <1>2, <2>1
<1>9. ASSUME NEW w \in Workers, NEW x \in Executions, Deliver(w, x) PROVE Serves
  <2>1. /\ UNCHANGED storeVars /\ x \in queue
        /\ deliveries' = [deliveries EXCEPT ![x] = @ + 1]
    BY <1>9 DEF Deliver
  <2> QED
    BY <1>1, <2>1
<1>10. ASSUME (\E x \in Executions : ExpireLock(x)) \/ UNCHANGED vars PROVE Serves
  BY <1>10 DEF ExpireLock, vars, workerVars
<1> QED
  BY <1>3, <1>4, <1>5, <1>6, <1>7, <1>8, <1>9, <1>10 DEF Next, WorkerNext, WorkerStep, AllIdle

\* Workers break nothing that requests establish.
LEMMA RequestKept ==
    ASSUME StatusInv, RequestInv, [Next]_vars, UNCHANGED requestVars
    PROVE  RequestInv'
<1>1. Serves
  BY ServesStep DEF RequestInv
<1>2. TypeInv'
  BY TypeStep DEF StatusInv, LockInv
<1> USE DEF requestVars
<1>3. SP!Existing' = SP!Existing
  BY <1>1 DEF SP!Existing, Serves
<1>4. SP!TypeOK'
  <2>1. SP!StoreTypeOK'
    BY <1>2 DEF TypeInv, TypeOK, StoreTypeOK, SP!StoreTypeOK, StatusValues, SP!StatusValues,
       SubtaskValues, SP!SubtaskValues, AuditEvents, SP!AuditEvents, CreationEvents,
       SP!CreationEvents, Entry, SP!Entry, EntryStatus, SP!EntryStatus
  <2> QED
    BY <2>1 DEF RequestInv, SP!IStart, SP!TypeOK
<1>5. SP!IsFiniteSet(SP!Existing)'
  BY <1>3 DEF RequestInv, SP!IStart
<1>6. ASSUME NEW r \in Executions
      PROVE  SP!Written(r)' /\ SP!Reuses(r)' /\ Asked(r)'
  BY <1>1, <1>3 DEF RequestInv, SP!IStart, SP!Written, SP!Reuses, Asked, Serves, SP!Unwritten,
     SP!ThroughScenario
<1>7. ASSUME NEW r \in Executions PROVE SP!Listed(r)' /\ SP!Created(r)'
  BY <1>1, <1>3 DEF RequestInv, SP!IStart, SP!Listed, SP!Created, Serves
<1>8. SP!QueueBacked'
  BY <1>1, <1>2 DEF RequestInv, SP!IStart, SP!QueueBacked, Serves, SP!ThroughScenario, TypeInv,
     TypeOK, StoreTypeOK
<1>9. \A r \in Executions : now'[r] <= clock'
  BY DEF RequestInv, SP!IStart
<1> QED
  BY <1>4, <1>5, <1>6, <1>7, <1>8, <1>9 DEF RequestInv, SP!IStart

-----------------------------------------------------------------------------

(***************************************************************************)
(* Requests break nothing that workers establish: they write only what     *)
(* belongs to an execution no job of which was ever delivered.             *)
(***************************************************************************)
JobInv == RowsInv /\ NeverReached /\ ToldInv /\ Counted /\ BudgetInv

\* The executions a request still writes to are in no worker's hands.
LEMMA Untouched ==
    ASSUME StatusInv, NEW e \in Executions, Asked(e), at[e] \in ToEnqueue
    PROVE  /\ deliveries[e] = 0
           /\ \A w \in Workers : job[w] # e
<1>1. Delivered(e) /\ deliveries[e] \in Nat /\ ~ (deliveries[e] >= 1)
  BY DEF StatusInv, LockInv, TypeInv, TypeOK, Asked, Enqueued
<1> QED
  BY <1>1 DEF Delivered

LEMMA AsksStatus ==
    ASSUME StatusInv, RequestInv, RequestInv', Asks
    PROVE  StatusInv'
<1>1. TypeInv'
  <2>1. StoreTypeOK'
    BY DEF RequestInv, SP!IStart, SP!TypeOK, StoreTypeOK, SP!StoreTypeOK, StatusValues,
       SP!StatusValues, SubtaskValues, SP!SubtaskValues, AuditEvents, SP!AuditEvents,
       CreationEvents, SP!CreationEvents, Entry, SP!Entry, EntryStatus, SP!EntryStatus
  <2> QED
    BY <2>1 DEF StatusInv, LockInv, TypeInv, TypeOK, Asks, workerVars, Counts, Reads
<1>2. \A e \in Executions : OneHolder(e)' /\ LeftByFault(e)'
  BY DEF StatusInv, LockInv, OneHolder, LeftByFault, Holders, Asks, workerVars
<1>3. ASSUME NEW w \in Workers PROVE Placed(w)'
  <2>1. CASE pc[w] = "idle"
    BY <2>1 DEF Placed, Asks, workerVars
  <2>2. CASE pc[w] # "idle"
    <3>1. job[w] \in Executions /\ Placed(w)
      BY <2>2 DEF StatusInv, LockInv, TypeInv, TypeOK
    <3>2. status'[job[w]] = status[job[w]]
      BY <3>1, Untouched DEF RequestInv, Asks, ToEnqueue
    <3> QED
      BY <3>1, <3>2 DEF Placed, Alone, Asks, workerVars
  <2> QED
    BY <2>1, <2>2
<1>4. ASSUME NEW e \in Executions PROVE Delivered(e)' /\ Attended(e)'
  <2>1. /\ UNCHANGED workerVars /\ Delivered(e) /\ Attended(e)
        /\ status'[e] = status[e] \/ status'[e] = "queued"
    BY DEF StatusInv, Asks
  <2> QED
    BY <2>1 DEF Delivered, Attended, workerVars
<1> QED
  BY <1>1, <1>2, <1>3, <1>4 DEF StatusInv, LockInv

LEMMA AsksJob ==
    ASSUME JobInv, RequestInv, RequestInv', Asks
    PROVE  JobInv'
<1>1. StatusInv /\ StatusInv' /\ UNCHANGED workerVars /\ \A e \in Executions : Asked(e)
  BY AsksStatus DEF JobInv, RowsInv, RequestInv, Asks
<1>2. ASSUME NEW w \in Workers PROVE Rows(w)'
  <2>1. Rows(w)
    BY DEF JobInv, RowsInv
  <2>2. CASE pc[w] = "idle"
    BY <1>1, <2>1, <2>2 DEF Rows, Looping, SubtaskSteps, workerVars
  <2>3. CASE pc[w] # "idle"
    <3>1. job[w] \in Executions
      BY <1>1, <2>3 DEF StatusInv, LockInv, TypeInv, TypeOK
    <3>2. subtask'[job[w]] = subtask[job[w]]
      BY <1>1, <3>1, Untouched DEF Asks, ToEnqueue
    <3> QED
      BY <1>1, <2>1, <3>2 DEF Rows, Alone, workerVars
  <2> QED
    BY <2>2, <2>3
<1>3. NeverReached'
  BY DEF NeverReached, OutOfReach, JobInv, Asks
<1>4. ASSUME NEW e \in Executions PROVE Told(e)'
  <2>1. /\ Told(e)
        /\ audit[e] \subseteq audit'[e]
        /\ "budget_cutoff" \in audit'[e] => "budget_cutoff" \in audit[e]
        /\ \/ status'[e] = status[e]
           \/ status[e] = "absent" /\ status'[e] = "queued"
    BY DEF JobInv, ToldInv, Asks, CreationEvents
  <2>2. Settled(e) => Settled(e)'
    BY <2>1 DEF Settled
  <2>3. \A place : Noted(e, place) => Noted(e, place)'
    BY <2>1 DEF Noted
  <2> QED
    BY <1>1, <2>1, <2>2, <2>3 DEF Told, Smooth, workerVars
<1>5. Counted'
  <2>1. memory' = memory /\ \A e \in Executions : Smooth(e)' <=> Smooth(e)
    BY <1>1 DEF Asks, Smooth, workerVars
  <2>2. \A e \in Executions : Decided(e)' <=> Decided(e)
    BY <1>1 DEF Asks, Decided, Terminal, workerVars
  <2> QED
    BY <2>1, <2>2, CountFrame DEF JobInv
<1>6. BudgetInv'
  <2>1. TypeInv' /\ memory' = memory /\ UNCHANGED <<pc, run>>
    BY <1>1 DEF StatusInv, LockInv, Asks, workerVars
  <2>2. DecisionsTellBudget'
    BY <2>1 DEF JobInv, BudgetInv, DecisionsTellBudget, CutOffAt, Affordable
  <2>3. ASSUME NEW w \in Workers PROVE Paced(w)'
    BY <2>1, PacedFrame DEF JobInv, BudgetInv
  <2> QED
    BY <2>1, <2>2, <2>3 DEF BudgetInv
<1> QED
  BY <1>1, <1>2, <1>3, <1>4, <1>5, <1>6 DEF JobInv, RowsInv, ToldInv

-----------------------------------------------------------------------------

LifeInv == RequestInv /\ JobInv

\* A step of the whole is one of a request or one of a worker.
LEMMA LifeCases ==
    ASSUME [LifeNext]_allVars
    PROVE  \/ S!StartNext /\ UNCHANGED workerVars
           \/ [Next]_vars /\ UNCHANGED requestVars
<1>1. Quiet \/ UNCHANGED allVars => UNCHANGED vars /\ UNCHANGED requestVars
  BY DEF Quiet, allVars, vars
<1> QED
  BY <1>1 DEF LifeNext, Next

LEMMA LifeInitial == LifeInit => LifeInv
<1> SUFFICES ASSUME LifeInit PROVE LifeInv
  OBVIOUS
<1> USE DEF LifeInit, S!Init, S!MemoryInit, MemoryInit, WorkerInit
<1>1. SP!IStart
  <2>1. SP!Init
    BY DEF SP!Init, SP!MemoryInit, S!StartInit, SP!StartInit, S!ThroughScenario,
       SP!ThroughScenario
  <2> QED
    BY <2>1, StartAssumed, StoreAssumption, BackendAssumption, SP!StartInitial
<1>2. \A r \in Executions : Asked(r)
  BY DEF S!StartInit, Asked, ToEnqueue, Enqueued
<1>3. TypeInv
  <2>1. StoreTypeOK
    BY DEF StoreTypeOK, StatusValues, SubtaskValues
  <2>2. Fresh \in RunValues
    BY DEF Fresh, RunValues
  <2>3. TypeOK
    BY <2>1, <2>2 DEF TypeOK, Labels
  <2>4. \A w \in Workers : Counts(w) /\ Reads(w)
    <3> SUFFICES ASSUME NEW w \in Workers PROVE Counts(w) /\ Reads(w)
      OBVIOUS
    <3>1. run[w] = Fresh /\ pc[w] = "idle"
      OBVIOUS
    <3>2. IsFiniteSet({}) /\ Cardinality({}) = 0
      BY FS_EmptySet
    <3>3. run[w].done = {} /\ run[w].handoffs = 0
      BY <3>1 DEF Fresh
    <3> HIDE DEF LifeInit, S!Init, S!MemoryInit, MemoryInit, WorkerInit
    <3> QED
      BY <3>1, <3>2, <3>3, WorkerAssumption DEF Counts, Reads, Closed, SubtaskSteps
  <2> QED
    BY <2>3, <2>4 DEF TypeInv
<1>4. StatusInv
  <2>1. \A e \in Executions : OneHolder(e) /\ LeftByFault(e)
    BY DEF OneHolder, LeftByFault, Holders, Held, TryBlock, Handler
  <2>2. \A w \in Workers : Placed(w)
    BY DEF Placed
  <2>3. \A e \in Executions : Delivered(e) /\ Attended(e)
    BY WorkerAssumption DEF Delivered, Attended
  <2> QED
    BY <1>3, <2>1, <2>2, <2>3 DEF StatusInv, LockInv
<1>5. RowsInv /\ NeverReached
  <2>1. \A w \in Workers : Rows(w)
    BY DEF Rows, Looping, SubtaskSteps, Fresh
  <2> QED
    BY <1>4, <2>1 DEF RowsInv, NeverReached, OutOfReach
<1>6. ToldInv
  BY <1>4 DEF ToldInv, Told, Settled, Busy, Working, Recording
<1>7. Counted
  <2> SUFFICES ASSUME NEW p \in Projects
               PROVE  IsFiniteSet(DecidedOf(p)) /\ Len(memory[p]) = Cardinality(DecidedOf(p))
    BY DEF Counted
  <2>1. DecidedOf(p) = {} /\ memory[p] = <<>>
    BY DEF DecidedOf, Decided, Terminal
  <2> QED
    BY <2>1, FS_EmptySet
<1>8. BudgetInv
  <2>1. ASSUME NEW w \in Workers PROVE Paced(w)
    <3>1. run[w] = Fresh /\ pc[w] = "idle"
      OBVIOUS
    <3>2. ~ run[w].bounded /\ run[w].handoffs = 0
      BY <3>1 DEF Fresh
    <3> HIDE DEF LifeInit, S!Init, S!MemoryInit, MemoryInit, WorkerInit
    <3> QED
      BY <3>1, <3>2, BudgetAssumption DEF Paced, WithinBudget, Completing, Affordable
  <2>2. DecisionsTellBudget
    BY DEF DecisionsTellBudget
  <2> QED
    BY <1>3, <2>1, <2>2 DEF BudgetInv
<1> QED
  BY <1>1, <1>2, <1>5, <1>6, <1>7, <1>8 DEF LifeInv, RequestInv, JobInv

LEMMA LifeStep == LifeInv /\ [LifeNext]_allVars => LifeInv'
<1> SUFFICES ASSUME LifeInv, [LifeNext]_allVars PROVE LifeInv'
  OBVIOUS
<1>1. CASE S!StartNext /\ UNCHANGED workerVars
  BY <1>1, AskedStep, AsksStep, AsksJob DEF LifeInv, RequestInv
<1>2. CASE [Next]_vars /\ UNCHANGED requestVars
  <2>1. StatusInv /\ TypeInv
    BY DEF LifeInv, JobInv, RowsInv, StatusInv, LockInv
  <2>2. RequestInv'
    BY <1>2, <2>1, RequestKept DEF LifeInv
  <2>3. JobInv'
    BY <1>2, <2>1, RowsStep, ReachStep, ToldStep, CountStep, BudgetStep
       DEF LifeInv, JobInv, ReachInv, CountInv
  <2> QED
    BY <2>2, <2>3 DEF LifeInv
<1> QED
  BY <1>1, <1>2, LifeCases

\* The requests and the workers together, in any interleaving.
LEMMA LifeAlways == LifeSpec => []LifeInv
  BY LifeInitial, LifeStep, PTL DEF LifeSpec

-----------------------------------------------------------------------------

(***************************************************************************)
(* Whose turn it is with a queued execution.  A worker that is about to    *)
(* read or write its status will do so; one that found the lock taken may  *)
(* drop the job because somebody else has it in hand.                      *)
(***************************************************************************)
Pending == {"load", "mark", "fail"}

Underway(e) == status[e] # "queued" \/ faults[e] \cap {"crash", "lost"} # {}

CaredFor(e) == Underway(e) \/ \E w \in Workers : job[w] = e /\ pc[w] \in Pending

TurnInv ==
    /\ \A e \in Executions : Enqueued(e) => e \in queue \/ CaredFor(e)
    /\ \A w \in Workers : pc[w] \in Held \ Pending => Underway(job[w])
    /\ \A w \in Workers : pc[w] = "skip" => CaredFor(job[w])

\* What the worker of e owes it after a step.
HandsOn(w, e) ==
    /\ Underway(e) => Underway(e)'
    /\ CaredFor(e) => CaredFor(e)'
    /\ e \in queue' \/ CaredFor(e)' \/ ~ Enqueued(e)
    /\ pc'[w] \in Held \ Pending => Underway(e)'
    /\ pc'[w] = "skip" => CaredFor(e)'
    /\ pc'[w] # "idle" => job'[w] = e

LEMMA TurnFrame ==
    ASSUME StatusInv, \A e \in Executions : Asked(e), TurnInv, [Next]_vars,
           NEW w \in Workers, Keeps(w),
           \A e \in Executions : e = job[w] => HandsOn(w, e)
    PROVE  TurnInv'
<1>1. /\ \A e \in Executions : Enqueued(e)' <=> Enqueued(e)
      /\ \A v \in Workers : pc[v] # "idle" => job[v] \in Executions
  BY ServesStep DEF Serves, StatusInv, LockInv, TypeInv, TypeOK
<1>2. ASSUME NEW e \in Executions
      PROVE  /\ Underway(e) => Underway(e)'
             /\ CaredFor(e) => CaredFor(e)'
             /\ e # job[w] => e \in queue' <=> e \in queue
  <2>1. CASE e = job[w]
    BY <2>1 DEF HandsOn
  <2>2. CASE e # job[w]
    <3>1. /\ status'[e] = status[e] /\ faults[e] \subseteq faults'[e]
          /\ \A v \in Workers : job[v] = e => job'[v] = e /\ pc'[v] = pc[v]
          /\ e \in queue' <=> e \in queue
      BY <2>2 DEF Keeps, Moves
    <3> QED
      BY <2>2, <3>1 DEF Underway, CaredFor
  <2> QED
    BY <2>1, <2>2
<1>3. ASSUME NEW e \in Executions, Enqueued(e)' PROVE e \in queue' \/ CaredFor(e)'
  <2>1. CASE e = job[w]
    BY <1>1, <1>3, <2>1 DEF HandsOn
  <2>2. CASE e # job[w]
    BY <1>1, <1>2, <1>3, <2>2 DEF TurnInv
  <2> QED
    BY <2>1, <2>2
<1>4. ASSUME NEW v \in Workers
      PROVE  /\ pc'[v] \in Held \ Pending => Underway(job[v])' /\ job'[v] \in Executions
             /\ pc'[v] = "skip" => CaredFor(job[v])'
  <2>0. "idle" \notin Held
    BY DEF Held, TryBlock, Handler
  <2>1. CASE v = w
    <3>1. PICK e \in Executions : e = job[w] /\ HandsOn(w, e)
      BY DEF Keeps
    <3> QED
      BY <2>0, <2>1, <3>1 DEF HandsOn, Underway, CaredFor
  <2>2. CASE v # w
    <3>1. pc'[v] = pc[v] /\ job'[v] = job[v]
      BY <2>2 DEF Keeps, Moves
    <3> QED
      BY <1>1, <1>2, <2>0, <3>1 DEF TurnInv, Underway, CaredFor
  <2> QED
    BY <2>1, <2>2
<1> QED
  BY <1>3, <1>4 DEF TurnInv


LEMMA TurnStep ==
    ASSUME UnpackedNames = RepositoryCount,
           StatusInv, \A e \in Executions : Asked(e), TurnInv, [Next]_vars
    PROVE  TurnInv'
<1>1. /\ TypeInv
      /\ pc \in [Workers -> Labels] /\ job \in [Workers -> Executions \cup {None}]
      /\ status \in [Executions -> StatusValues]
      /\ faults \in [Executions -> SUBSET FaultValues]
      /\ queue \subseteq Executions
      /\ \A e \in Executions : LeftByFault(e)
  BY DEF StatusInv, LockInv, TypeInv, TypeOK, StoreTypeOK
<1>2. \A e \in Executions : Enqueued(e)' <=> Enqueued(e)
  BY ServesStep DEF Serves
<1>3. ASSUME NEW w \in Workers, JobStep(w) PROVE TurnInv'
  <2>1. Keeps(w)
    BY <1>1, <1>3, OwnStep
  <2> SUFFICES ASSUME NEW e \in Executions, e = job[w] PROVE HandsOn(w, e)
    BY <2>1, TurnFrame
  <2>2. /\ pc[w] # "idle" /\ faults[e] \subseteq faults'[e]
        /\ \A v \in Workers : v # w => pc'[v] = pc[v] /\ job'[v] = job[v]
        /\ status[e] # "absent"
    <3>1. Enqueued(e)
      BY <2>1 DEF Keeps, StatusInv, Delivered, Enqueued
    <3> QED
      BY <2>1, <3>1 DEF Keeps, Moves, Asked
  <2>3. /\ pc[w] \in Held \ Pending => Underway(e)
        /\ pc[w] = "skip" => CaredFor(e)
        /\ pc[w] \in Pending => CaredFor(e)
        /\ Enqueued(e) => e \in queue \/ CaredFor(e)
    BY DEF TurnInv, CaredFor
  \* Another worker that has the execution in hand keeps it.
  <2>4. CaredFor(e) /\ pc[w] \notin Pending /\ status' = status => CaredFor(e)'
    BY <2>2 DEF CaredFor, Underway
  <2>5. Underway(e) /\ status' = status => Underway(e)'
    BY <2>2 DEF Underway
  <2>6. status'[e] # "queued" => Underway(e)' /\ CaredFor(e)'
    BY DEF Underway, CaredFor
  <2> USE DEF Step, Go, Pending, Held, TryBlock, Handler
  <2>7. CASE Unpack(w)
    <3>1. /\ pc[w] = "unpack" /\ pc'[w] = "acquire" /\ job' = job
          /\ queue' = queue /\ status' = status
      BY <1>1, <2>7 DEF Unpack
    <3> QED
      BY <2>3, <2>4, <2>5, <3>1 DEF HandsOn
  <2>8. CASE Acquire(w)
    <3>1. /\ pc[w] = "acquire" /\ job' = job /\ queue' = queue /\ status' = status
          /\ pc'[w] = IF lock[e] THEN "skip" ELSE "load"
      BY <1>1, <2>8 DEF Acquire, storeVars
    <3>2. lock[e] => CaredFor(e)
      <4>1. CASE Holders(e) = {}
        BY <1>1, <4>1 DEF LeftByFault, CaredFor, Underway
      <4>2. ASSUME NEW v \in Holders(e) PROVE CaredFor(e)
        BY <4>2 DEF Holders, TurnInv, CaredFor
      <4> QED
        BY <4>1, <4>2
    <3> QED
      BY <2>3, <2>4, <2>5, <3>1, <3>2 DEF HandsOn
  <2>9. CASE AuditSkipped(w)
    <3>1. /\ pc[w] = "skip" /\ pc'[w] = "idle" /\ status' = status
      BY <1>1, <2>9 DEF AuditSkipped, EndJob
    <3> QED
      BY <2>3, <2>4, <2>5, <3>1 DEF HandsOn
  <2>10. CASE Load(w)
    <3>1. /\ pc[w] = "load" /\ pc'[w] = "mark" /\ job' = job
          /\ queue' = queue /\ status' = status
      BY <1>1, <2>2, <2>10 DEF Load, storeVars
    <3>2. CaredFor(e)'
      BY <3>1 DEF CaredFor
    <3> QED
      BY <2>3, <2>5, <3>1, <3>2 DEF HandsOn
  <2>11. CASE MarkRunning(w) \/ CompleteStatus(w) \/ Bound(w) \/ FailStatus(w)
    <3>1. status'[e] # "queued" /\ pc'[w] # "skip" /\ job' = job
      BY <1>1, <2>11 DEF MarkRunning, CompleteStatus, Bound, FailStatus, SetStatus
    <3> QED
      BY <2>6, <3>1 DEF HandsOn
  <2>12. CASE AuditStarted(w) \/ ListSubtasks(w) \/ SkipSubtask(w) \/ HandOff(w)
              \/ HandOffCutoff(w) \/ AuditSubtaskStarted(w) \/ RunTool(w) \/ FinishSubtask(w)
              \/ AuditSubtaskDone(w) \/ AuditCompleted(w) \/ ReadLatest(w) \/ AddMemory(w)
              \/ AuditCutoff(w) \/ AuditFailed(w)
    <3>1. /\ pc[w] \in Held \ Pending /\ pc'[w] \in Held \ Pending /\ job' = job
          /\ status' = status /\ queue' = queue
      BY <1>1, <2>12 DEF AuditStarted, ListSubtasks, SkipSubtask, HandOff, HandOffCutoff,
         AuditSubtaskStarted, RunTool, FinishSubtask, AuditSubtaskDone, AuditCompleted, ReadLatest,
         AddMemory, AuditCutoff, AuditFailed, storeVars
    <3> QED
      BY <2>3, <2>5, <3>1 DEF HandsOn, CaredFor
  <2>13. CASE Release(w)
    <3>1. pc[w] = "release" /\ pc'[w] = "idle" /\ status' = status
      BY <1>1, <2>13 DEF Release, EndJob
    <3> QED
      BY <2>3, <2>5, <3>1 DEF HandsOn, CaredFor
  <2>14. CASE Raise(w)
    <3>1. /\ pc'[w] = "fail" /\ job' = job /\ queue' = queue /\ status' = status
      BY <1>1, <2>14 DEF Raise, storeVars
    <3>2. CaredFor(e)'
      BY <3>1 DEF CaredFor
    <3> QED
      BY <2>5, <3>1, <3>2 DEF HandsOn
  <2>15. CASE RaiseInHandler(w) \/ RaiseOutside(w) \/ Crash(w)
    <3>1. /\ \E f \in {"crash", "lost"} : faults' = [faults EXCEPT ![e] = @ \cup {f}]
          /\ pc'[w] = "idle" \/ (pc'[w] = "release" /\ job' = job)
      BY <1>1, <2>15 DEF RaiseInHandler, RaiseOutside, Crash, Blame, EndJob
    <3>2. Underway(e)' /\ CaredFor(e)'
      BY <1>1, <3>1 DEF Underway, CaredFor
    <3> QED
      BY <3>1, <3>2 DEF HandsOn
  <2> QED
    BY <1>3, <2>7, <2>8, <2>9, <2>10, <2>11, <2>12, <2>13, <2>14, <2>15 DEF JobStep, WorkerStep
<1>4. ASSUME NEW w \in Workers, NEW x \in Executions, Deliver(w, x) PROVE TurnInv'
  <2>1. /\ pc[w] = "idle" /\ pc' = [pc EXCEPT ![w] = "unpack"]
        /\ job' = [job EXCEPT ![w] = x]
        /\ UNCHANGED <<status, queue, faults>>
    BY <1>4 DEF Deliver, Step, Go, storeVars
  <2>2. \A v \in Workers :
          /\ pc[v] \in Pending => pc'[v] = pc[v] /\ job'[v] = job[v]
          /\ pc'[v] \in Held \cup {"skip"} => pc'[v] = pc[v] /\ job'[v] = job[v]
    BY <1>1, <2>1 DEF Pending, Held, TryBlock, Handler
  <2>3. \A e : (Underway(e) => Underway(e)') /\ (CaredFor(e) => CaredFor(e)')
    BY <2>1, <2>2 DEF Underway, CaredFor
  <2> QED
    BY <1>2, <2>1, <2>2, <2>3 DEF TurnInv, Underway, CaredFor
<1>5. ASSUME (\E x \in Executions : ExpireLock(x)) \/ UNCHANGED vars PROVE TurnInv'
  <2>1. UNCHANGED <<pc, job, status, queue>> /\ \A e \in Executions : faults[e] \subseteq faults'[e]
    BY <1>1, <1>5 DEF ExpireLock, Blame, storeVars, localVars, vars, workerVars
  <2>2. \A w \in Workers : pc[w] # "idle" => job[w] \in Executions
    BY <1>1 DEF TypeInv, TypeOK
  <2> QED
    BY <1>2, <2>1, <2>2 DEF TurnInv, Underway, CaredFor, Held, TryBlock, Handler
<1> QED
  BY <1>3, <1>4, <1>5 DEF Next, WorkerNext, AllIdle, JobStep

LEMMA AsksTurn ==
    ASSUME StatusInv, \A e \in Executions : Asked(e), TurnInv, Asks
    PROVE  TurnInv'
<1>1. \A w \in Workers : pc[w] # "idle" => job[w] \in Executions
  BY DEF StatusInv, LockInv, TypeInv, TypeOK
<1>2. ASSUME NEW e \in Executions, Enqueued(e) PROVE status'[e] = status[e]
  BY <1>2 DEF Asked, Asks, ToEnqueue
<1>3. ASSUME NEW e \in Executions, Enqueued(e)' PROVE e \in queue' \/ Enqueued(e)
  BY <1>3 DEF Enqueued, Asks, workerVars
<1>4. ASSUME NEW w \in Workers, pc[w] # "idle" PROVE status'[job[w]] = status[job[w]]
  BY <1>1, <1>2, <1>4 DEF StatusInv, Delivered, Enqueued
<1> QED
  BY <1>2, <1>3, <1>4 DEF TurnInv, Underway, CaredFor, Asks, workerVars, Held, TryBlock, Handler

LEMMA TurnAlways ==
    ASSUME UnpackedNames = RepositoryCount
    PROVE  LifeSpec => [](LifeInv /\ TurnInv)
<1>1. LifeInit => TurnInv
  BY DEF LifeInit, S!Init, WorkerInit, TurnInv, Enqueued, Held, TryBlock, Handler
<1>2. LifeInv /\ TurnInv /\ [LifeNext]_allVars => TurnInv'
  <2> SUFFICES ASSUME LifeInv, TurnInv, [LifeNext]_allVars PROVE TurnInv'
    OBVIOUS
  <2>1. StatusInv /\ RequestInv
    BY DEF LifeInv, JobInv, RowsInv
  <2>2. CASE S!StartNext /\ UNCHANGED workerVars
    BY <2>1, <2>2, AsksStep, AsksTurn DEF RequestInv
  <2>3. CASE [Next]_vars
    BY <2>1, <2>3, TurnStep DEF RequestInv
  <2> QED
    BY <2>2, <2>3, LifeCases
<1> QED
  BY LifeInitial, LifeStep, <1>1, <1>2, PTL DEF LifeSpec

-----------------------------------------------------------------------------

\* An execution is left queued for good only by a request or a worker that broke
\* off: no duplicate delivery, taken lock or slow job makes a worker drop it.  As
\* deployed the first statement of every job raises, which is why the names must
\* match the repositories.
THEOREM QueuedByFault ==
    ASSUME UnpackedNames = RepositoryCount
    PROVE  LifeSpec => []QueuedForeverOnlyByFault
<1>1. LifeInv /\ TurnInv => QueuedForeverOnlyByFault
  <2> SUFFICES ASSUME LifeInv, TurnInv, NEW e \in Executions,
                      status[e] = "queued", e \notin queue, at[e] = "returned",
                      \A w \in Workers : job[w] # e
               PROVE  faults[e] \cap {"crash", "lost"} # {}
    BY DEF QueuedForeverOnlyByFault, Unanswered
  <2>1. SP!Reuses(e) /\ Asked(e)
    BY DEF LifeInv, RequestInv, SP!IStart
  <2>2. Enqueued(e)
    BY <2>1 DEF SP!Reuses, Asked
  <2> QED
    BY <2>2 DEF TurnInv, CaredFor, Underway
<1> QED
  BY TurnAlways, <1>1, PTL

\* As deployed nothing runs.  Whatever requests come, whoever is answered polls an
\* execution that is queued, and no decision is ever recorded: every job ends at
\* its first statement (worker.py, line 18), and the queue forgets it.
THEOREM DeployedNeverRuns ==
    ASSUME UnpackedNames # RepositoryCount
    PROVE  LifeSpec => [](/\ \A e \in Executions : status[e] \in {"absent", "queued"}
                          /\ \A p \in Projects : memory[p] = <<>>
                          /\ \A e \in Executions : ~ lock[e])
<1> DEFINE Waits ==
      /\ \A e \in Executions : status[e] \in {"absent", "queued"}
      /\ \A p \in Projects : memory[p] = <<>>
      /\ \A e \in Executions : ~ lock[e]
    Stalled == Waits /\ \A w \in Workers : pc[w] \in {"idle", "unpack"}
<1>1. LifeInit => Stalled
  BY DEF LifeInit, S!Init, S!MemoryInit, S!StartInit, WorkerInit
<1>2. LifeInv /\ Stalled /\ [LifeNext]_allVars => Stalled'
  <2> SUFFICES ASSUME LifeInv, Stalled, [LifeNext]_allVars PROVE Stalled'
    OBVIOUS
  <2>1. CASE S!StartNext /\ UNCHANGED workerVars
    <3>1. Asks
      BY <2>1, AsksStep DEF LifeInv, RequestInv
    <3> QED
      BY <3>1 DEF Asks, workerVars
  <2>2. pc \in [Workers -> Labels] /\ lock \in [Executions -> BOOLEAN]
    BY DEF LifeInv, JobInv, RowsInv, StatusInv, LockInv, TypeInv, TypeOK
  <2>3. CASE UNCHANGED vars \/ \E e \in Executions : ExpireLock(e)
    BY <2>2, <2>3 DEF ExpireLock, vars, storeVars, localVars, workerVars
  <2>4. ASSUME NEW w \in Workers, NEW e \in Executions, Deliver(w, e) PROVE Stalled'
    BY <2>2, <2>4 DEF Deliver, Step, Go, storeVars
  \* A job that has begun is at its first statement, and only that or a crash is
  \* open to it.
  <2>5. ASSUME NEW w \in Workers, JobStep(w) PROVE Unpack(w) \/ Crash(w)
    BY <2>5 DEF JobStep, WorkerStep, Acquire, AuditSkipped, Load, MarkRunning, AuditStarted,
       ListSubtasks, SkipSubtask, HandOff, HandOffCutoff, AuditSubtaskStarted, RunTool,
       FinishSubtask, AuditSubtaskDone, CompleteStatus, AuditCompleted, ReadLatest, AddMemory,
       Bound, AuditCutoff, FailStatus, AuditFailed, Release, Raise, RaiseInHandler, RaiseOutside,
       Step, TryBlock, Handler, SubtaskSteps
  <2>6. ASSUME NEW w \in Workers, Unpack(w) \/ Crash(w) PROVE Stalled'
    <3>1. pc' = [pc EXCEPT ![w] = "idle"] /\ UNCHANGED <<status, memory, lock>>
      BY <2>6 DEF Unpack, EndJob, Crash, Go, storeVars
    <3> QED
      BY <2>2, <3>1
  <2> QED
    BY <2>1, <2>3, <2>4, <2>5, <2>6, LifeCases DEF Next, WorkerNext, AllIdle, JobStep
<1> QED
  BY LifeAlways, <1>1, <1>2, PTL DEF LifeSpec

\* Timeline and status of an execution agree once its job has ended, also while
\* requests create, reuse and poll executions around it.
THEOREM LifeTimeline == LifeSpec => []TimelineMatchesStatus
<1>1. LifeInv => TimelineMatchesStatus
  BY ToldSays DEF LifeInv, JobInv
<1> QED
  BY LifeAlways, <1>1, PTL

\* So do the decisions of a project and its final executions, with requests that
\* arrive at any time.
THEOREM LifeDecisions == LifeSpec => []DecisionsMatchCompletions
<1>1. LifeInv => DecisionsMatchCompletions
  BY DecidedWhenIdle DEF LifeInv, JobInv, RowsInv, CountInv
<1> QED
  BY LifeAlways, <1>1, PTL

\* What is proved of workers on their own holds when requests feed them, in the
\* order and at the moments requests choose.
THEOREM WorkersUnharmed ==
    LifeSpec => /\ [](TypeOK /\ MutualExclusion /\ NoLockLeak)
                /\ [](NeverReached /\ StrandedOnlyByCrash /\ DecisionsTellBudget)
                /\ DependenciesFirst
                /\ FinalStatusHolds
<1> DEFINE First ==
      \A e \in Executions : \A a \in Agents :
         /\ subtask[e][a] # "running" /\ subtask'[e][a] = "running"
         /\ "expire" \notin faults[e]
         => \A d \in DependsOn[a] : subtask[e][d] = "completed"
    Holds ==
      \A e \in Executions :
         /\ status[e] \in Terminal /\ status'[e] # status[e]
         /\ deliveries[e] <= 1
         => /\ status[e] = "completed" \/ "raise" \in faults[e]
            /\ \/ status'[e] = "bounded_completion"
               \/ status'[e] = "failed" /\ "raise" \in faults[e]
<1>1. LifeInv => TypeOK /\ MutualExclusion /\ NoLockLeak
  BY DEF LifeInv, JobInv, RowsInv, StatusInv, LockInv, TypeInv, OneHolder, LeftByFault,
         MutualExclusion, NoLockLeak
<1>2. LifeInv => NeverReached /\ StrandedOnlyByCrash /\ DecisionsTellBudget
  BY DEF LifeInv, JobInv, RowsInv, StatusInv, BudgetInv, Attended, StrandedOnlyByCrash
<1>3. LifeInv /\ [LifeNext]_allVars => [First]_vars /\ [Holds]_vars
  <2> SUFFICES ASSUME LifeInv, [LifeNext]_allVars PROVE First /\ Holds
    OBVIOUS
  <2>1. RowsInv /\ StatusInv /\ RequestInv
    BY DEF LifeInv, JobInv, RowsInv
  <2>2. CASE S!StartNext /\ UNCHANGED workerVars
    <3>1. Asks
      BY <2>1, <2>2, AsksStep DEF RequestInv
    <3>2. First
      BY <3>1 DEF Asks
    <3>3. Holds
      BY <3>1 DEF Asks, Terminal
    <3> QED
      BY <3>2, <3>3
  <2>3. CASE [Next]_vars
    <3>1. First
      BY <2>1, <2>3, FirstStep
    <3>2. Holds
      BY <2>1, <2>3, FinalStep
    <3> QED
      BY <3>1, <3>2
  <2> QED
    BY <2>2, <2>3, LifeCases
<1> QED
  BY LifeAlways, <1>1, <1>2, <1>3, PTL DEF LifeSpec, DependenciesFirst, FinalStatusHolds

\* And what is proved of requests on their own holds while workers run what they
\* queued: workers never take back a row, a subtask or an event.
THEOREM RequestsUnharmed ==
    LifeSpec => [](/\ S!QueueBacked /\ S!ReuseIsFresh
                   /\ S!ReusedFlagOnlyMissesRaces /\ S!DuplicateOnlyByRaceOrLimit)
<1>1. SP!IStart => /\ SP!QueueBacked /\ SP!ReuseIsFresh
                   /\ SP!ReusedFlagOnlyMissesRaces /\ SP!DuplicateOnlyByRaceOrLimit
  BY StartAssumed, StoreAssumption, BackendAssumption, SP!StartSays
<1>2. \A x : S!Cardinality(x) = SP!Cardinality(x)
  BY DEF S!Cardinality, SP!Cardinality
<1> USE DEF S!Existing, SP!Existing, S!CreatedAt, SP!CreatedAt, S!ThroughScenario,
            SP!ThroughScenario, S!ValidInputs, SP!ValidInputs, S!Has, SP!Has, S!Catalog,
            SP!Catalog, S!InvestigationInputs, SP!InvestigationInputs
<1>3. SP!QueueBacked => S!QueueBacked
  BY DEF S!QueueBacked, SP!QueueBacked
<1>4. SP!ReuseIsFresh => S!ReuseIsFresh
  BY DEF S!ReuseIsFresh, SP!ReuseIsFresh
<1>5. SP!ReusedFlagOnlyMissesRaces => S!ReusedFlagOnlyMissesRaces
  BY <1>2 DEF S!ReusedFlagOnlyMissesRaces, SP!ReusedFlagOnlyMissesRaces
<1>6. SP!DuplicateOnlyByRaceOrLimit => S!DuplicateOnlyByRaceOrLimit
  BY <1>2 DEF S!DuplicateOnlyByRaceOrLimit, SP!DuplicateOnlyByRaceOrLimit
<1>7. LifeInv => SP!IStart
  BY DEF LifeInv, RequestInv
<1> QED
  BY LifeAlways, <1>1, <1>3, <1>4, <1>5, <1>6, <1>7, PTL

-----------------------------------------------------------------------------

\* A step of a worker moves the promise as it does without requests: an execution
\* a request gave up stays given up.
LEMMA WorkerPromises ==
    ASSUME "expire" \notin Faults, StatusInv, [Next]_vars, UNCHANGED requestVars
    PROVE  [LifePromise!Next]_(LifePromise!promiseVars)
<1> DEFINE Broken == {e \in Executions : faults[e] \cap {"crash", "lost"} # {}}
           GivenUp == {e \in Executions : Unanswered(e) \/ faults[e] \cap {"crash", "lost"} # {}}
<1>1. [Promise!Next]_(Promise!promiseVars)
  BY PromiseStep
<1>2. GivenUp = {e \in Executions : Unanswered(e)} \cup Broken
  OBVIOUS
<1>3. GivenUp' = {e \in Executions : Unanswered(e)} \cup Broken'
  BY DEF Unanswered, requestVars
<1> USE DEF LifePromise!promiseVars, LifePromise!Next, LifePromise!Accept, LifePromise!Begin,
            LifePromise!Finish, LifePromise!Correct, LifePromise!Fail, LifePromise!Restart,
            LifePromise!Move, LifePromise!Abandon
<1>4. CASE Broken' = Broken /\ status' = status
  BY <1>2, <1>3, <1>4
<1>5. ASSUME NEW e \in Executions,
             \/ Promise!Accept(e) \/ Promise!Begin(e) \/ Promise!Finish(e)
             \/ Promise!Correct(e) \/ Promise!Fail(e) \/ Promise!Restart(e)
      PROVE  LifePromise!Next
  <2>1. Broken' = Broken
    BY <1>5 DEF Promise!Accept, Promise!Begin, Promise!Finish, Promise!Correct, Promise!Fail,
       Promise!Restart, Promise!Move
  <2>2. GivenUp' = GivenUp
    BY <1>2, <1>3, <2>1
  <2> QED
    BY <1>5, <2>2 DEF Promise!Accept, Promise!Begin, Promise!Finish, Promise!Correct,
       Promise!Fail, Promise!Restart, Promise!Move
<1>6. ASSUME NEW e \in Executions, Promise!Abandon(e) PROVE LifePromise!Next
  <2>1. Broken' = Broken \cup {e} /\ status' = status
    BY <1>6 DEF Promise!Abandon
  <2>2. GivenUp' = GivenUp \cup {e}
    BY <1>2, <1>3, <2>1
  <2> QED
    BY <2>1, <2>2
<1> QED
  BY <1>1, <1>4, <1>5, <1>6 DEF Promise!Next, Promise!promiseVars

\* A step of a request accepts an execution, gives one up, or does nothing the
\* promise speaks of.
LEMMA RequestPromises ==
    ASSUME RequestInv, S!StartNext, UNCHANGED workerVars
    PROVE  [LifePromise!Next]_(LifePromise!promiseVars)
<1> DEFINE GivenUp == {e \in Executions : Unanswered(e) \/ faults[e] \cap {"crash", "lost"} # {}}
<1>1. /\ at \in [Executions -> SP!RequestLabels] /\ status \in [Executions -> SP!StatusValues]
      /\ faults' = faults
      /\ \A r \in Executions : SP!Written(r)
  BY DEF RequestInv, SP!IStart, SP!TypeOK, SP!StoreTypeOK, workerVars
<1> USE DEF LifePromise!promiseVars, LifePromise!Next, LifePromise!Accept, LifePromise!Move,
            LifePromise!Abandon, Unanswered
<1> USE DEF S!Advance, S!GoTo, S!storeVars
<1>2. ASSUME NEW r \in Executions, S!InvalidInputs(r) \/ S!RequestRaises(r)
      PROVE  LifePromise!Next
  <2>1. status' = status /\ at' = [at EXCEPT ![r] = "raised"]
    BY <1>2 DEF S!InvalidInputs, S!RequestRaises
  <2>2. GivenUp' = GivenUp \cup {r}
    BY <1>1, <2>1
  <2> QED
    BY <2>1, <2>2
<1>3. ASSUME NEW r \in Executions, S!Create(r) PROVE LifePromise!Next
  <2>1. /\ status' = [status EXCEPT ![r] = "queued"] /\ status[r] = "absent"
        /\ at[r] = "create" /\ at' = [at EXCEPT ![r] = "plan"]
    BY <1>1, <1>3 DEF S!Create, S!SetStatus, SP!Written, SP!Unwritten
  <2>2. GivenUp' = GivenUp
    BY <1>1, <2>1
  <2> QED
    BY <2>1, <2>2
<1>4. ASSUME NEW r \in Executions,
             S!ReadBefore(r) \/ S!ReadClock(r) \/ S!ListRecent(r) \/ S!AuditReused(r)
             \/ S!CreateSubtasks(r) \/ S!AuditQueued(r) \/ S!AuditPlanned(r) \/ S!Enqueue(r)
             \/ S!AuditEnqueued(r)
      PROVE  status' = status /\ GivenUp' = GivenUp
  <2>1. /\ status' = status /\ at[r] # "raised"
        /\ \E to : to # "raised" /\ at' = [at EXCEPT ![r] = to]
    BY <1>4 DEF S!ReadBefore, S!ReadClock, S!ListRecent, S!AuditReused, S!CreateSubtasks,
       S!AuditQueued, S!AuditPlanned, S!Enqueue, S!AuditEnqueued, S!Return
  <2>2. \A e \in Executions : Unanswered(e)' <=> Unanswered(e)
    BY <1>1, <2>1
  <2> QED
    BY <1>1, <2>1, <2>2
<1>5. CASE S!Tick
  <2>1. UNCHANGED <<status, at>>
    BY <1>5 DEF S!Tick
  <2> QED
    BY <1>1, <2>1
<1> QED
  BY <1>2, <1>3, <1>4, <1>5 DEF S!StartNext, S!RequestStep

\* The whole system takes only the steps the API promises, while no lock expires
\* under a worker: the status a client polls moves along no other path, whichever
\* requests and jobs fail, crash, race or are repeated.
THEOREM LifeKeepsPromise ==
    ASSUME "expire" \notin Faults PROVE LifeSpec => LifePromise!Safety
<1>1. LifeInit => LifePromise!Init
  BY DEF LifeInit, S!Init, S!StartInit, WorkerInit, LifePromise!Init, Unanswered
<1>2. LifeInv /\ [LifeNext]_allVars => [LifePromise!Next]_(LifePromise!promiseVars)
  <2> SUFFICES ASSUME LifeInv, [LifeNext]_allVars
               PROVE  [LifePromise!Next]_(LifePromise!promiseVars)
    OBVIOUS
  <2>1. StatusInv /\ RequestInv
    BY DEF LifeInv, JobInv, RowsInv
  <2> QED
    BY <2>1, LifeCases, RequestPromises, WorkerPromises
<1> QED
  BY LifeAlways, <1>1, <1>2, PTL DEF LifeSpec, LifePromise!Safety

=============================================================================
