---------------------------- MODULE StartExecution ----------------------------
(***************************************************************************)
(* StartExecutionUseCase.execute, as concurrent API requests run it (the   *)
(* routes /executions/run and /scenarios/run).  A request that creates an  *)
(* execution gives it a fresh uuid, so request r and the execution it      *)
(* would create are one element of Executions.                             *)
(***************************************************************************)
EXTENDS ExecutionStore, Scenarios

CONSTANTS
    Keys,           \* idempotency keys: project, scenario and objective together
    ScenarioOf,     \* key -> scenario_id, "default" for /executions/run
    GivenInputs,    \* bound: the sets of inputs that come with a scenario
    Window,         \* reuse window (30 minutes), in ticks of the clock
    Limit,          \* list_recent(limit=200)
    MaxClock,       \* bound on the clock
    RequestFaults   \* TRUE: any call of a request may raise

ASSUME StartAssumption ==
    /\ Window \in Nat /\ Limit \in Nat \ {0} /\ MaxClock \in Nat
    /\ RequestFaults \in BOOLEAN
    /\ ScenarioOf \in [Keys -> STRING]
    /\ GivenInputs \subseteq SUBSET InvestigationInputs

VARIABLES
    clock,      \* wall clock of the API
    at,         \* where each request is
    key,        \* the idempotency key it computed
    inputs,     \* the scenario inputs that came with it
    now,        \* the time it read first; created_at of what it creates
    before,     \* before_ids of RunScenarioUseCase
    sawFirst,   \* history: the executions that existed at that moment
    seen,       \* history: the executions that existed when it listed them
    match,      \* the execution the loop settled on, or the request itself
    reused      \* the flag RunScenarioUseCase returns

requestVars == <<clock, at, key, inputs, now, before, sawFirst, seen, match, reused>>
vars == <<storeVars, requestVars>>

RequestLabels ==
    {"idle", "now", "list", "reuse", "create", "plan", "audit_queued",
     "audit_planned", "enqueue", "audit_enqueued", "returned", "raised"}

TypeOK ==
    /\ StoreTypeOK
    /\ clock \in Nat
    /\ at \in [Executions -> RequestLabels]
    /\ key \in [Executions -> Keys]
    /\ inputs \in [Executions -> SUBSET InvestigationInputs]
    /\ now \in [Executions -> Nat]
    /\ before \in [Executions -> SUBSET Executions]
    /\ sawFirst \in [Executions -> SUBSET Executions]
    /\ seen \in [Executions -> SUBSET Executions]
    /\ match \in [Executions -> Executions]
    /\ reused \in [Executions -> BOOLEAN]

ThroughScenario(r) == ScenarioOf[key[r]] # "default"

\* The requests still to come have their key, which tells their route, and their
\* inputs chosen at the start.
StartInit ==
    /\ clock = 0
    /\ at = [r \in Executions |-> "idle"]
    /\ key \in [Executions -> Keys]
    /\ inputs \in {i \in [Executions -> GivenInputs \cup {{}}] :
                     \A r \in Executions : ThroughScenario(r) \/ i[r] = {}}
    /\ now = [r \in Executions |-> 0]
    /\ before = [r \in Executions |-> {}]
    /\ sawFirst = [r \in Executions |-> {}]
    /\ seen = [r \in Executions |-> {}]
    /\ match = [r \in Executions |-> r]
    /\ reused = [r \in Executions |-> FALSE]

Init ==
    /\ status = [e \in Executions |-> "absent"]
    /\ subtask = [e \in Executions |-> [a \in Agents |-> "absent"]]
    /\ audit = [e \in Executions |-> {}]
    /\ queue = {}
    /\ MemoryInit
    /\ StartInit

-----------------------------------------------------------------------------

Existing == {e \in Executions : status[e] # "absent"}

\* created_at is the time the creating request read.
CreatedAt(e) == now[e]

\* Slip: ORDER BY created_at without DESC.
ListingsOldestFirst ==
    {L \in SUBSET Existing :
        /\ Cardinality(L) <= Limit
        /\ L # Existing => Cardinality(L) = Limit
        /\ \A e \in L, d \in Existing \ L : CreatedAt(e) <= CreatedAt(d)}

(***************************************************************************)
(* What list_recent(Limit) may return: the Limit most recently created     *)
(* executions.  ORDER BY created_at leaves ties to the database, and       *)
(* created_at is not the order of the INSERTs.                             *)
(***************************************************************************)
Listings ==
    {L \in SUBSET Existing :
        /\ Cardinality(L) <= Limit
        /\ L # Existing => Cardinality(L) = Limit
        /\ \A e \in L, d \in Existing \ L : CreatedAt(d) <= CreatedAt(e)}

\* Slip: no window.
CandidatesOfAnyAge(r, L) ==
    LET same == {e \in L : key[e] = key[r]} IN
    {e \in same : \A d \in same : CreatedAt(d) <= CreatedAt(e)}

\* The candidates among L that the loop may return first: of the key, inside
\* the window, and the most recent of those.
Candidates(r, L) ==
    LET fresh == {e \in L : key[e] = key[r] /\ CreatedAt(e) + Window >= now[r]} IN
    {e \in fresh : \A d \in fresh : CreatedAt(d) <= CreatedAt(e)}

GoTo(r, label) == at' = [at EXCEPT ![r] = label]

Advance(r, from, to) == at[r] = from /\ GoTo(r, to)

\* validate_inputs raises: nothing was written.
InvalidInputs(r) ==
    /\ Advance(r, "idle", "raised")
    /\ ThroughScenario(r) /\ ~ ValidInputs(ScenarioOf[key[r]], inputs[r])
    /\ UNCHANGED <<storeVars, clock, key, inputs, now, before, sawFirst, seen, match, reused>>

\* RunScenarioUseCase lists the executions of the key before it starts one;
\* the window plays no part in it.
ReadBefore(r) ==
    /\ Advance(r, "idle", "now")
    /\ ThroughScenario(r) /\ ValidInputs(ScenarioOf[key[r]], inputs[r])
    /\ \E L \in Listings : before' = [before EXCEPT ![r] = {e \in L : key[e] = key[r]}]
    /\ sawFirst' = [sawFirst EXCEPT ![r] = Existing]
    /\ UNCHANGED <<storeVars, clock, key, inputs, now, seen, match, reused>>

\* now = datetime.now(UTC): the request's window, and the created_at of its
\* execution, are fixed here.
ReadClock(r) ==
    /\ at[r] = IF ThroughScenario(r) THEN "now" ELSE "idle"
    /\ GoTo(r, "list")
    /\ now' = [now EXCEPT ![r] = clock]
    /\ UNCHANGED <<storeVars, clock, key, inputs, before, sawFirst, seen, match, reused>>

\* The loop over list_recent: reuse a candidate, or go on to create.
ListRecent(r) ==
    /\ at[r] = "list"
    /\ seen' = [seen EXCEPT ![r] = Existing]
    /\ \E L \in Listings :
          IF Candidates(r, L) = {}
          THEN GoTo(r, "create") /\ UNCHANGED match
          ELSE /\ GoTo(r, "reuse")
               /\ \E e \in Candidates(r, L) : match' = [match EXCEPT ![r] = e]
    /\ UNCHANGED <<storeVars, clock, key, inputs, now, before, sawFirst, reused>>

\* Slip: the ids are listed again after the start.
ReturnComparedAfter(r) ==
    /\ GoTo(r, "returned")
    /\ reused' = [reused EXCEPT ![r] = key[match[r]] = key[r] /\ match[r] \in Existing]

\* The answer: RunScenarioUseCase compares the id with those it listed before.
Return(r) ==
    /\ GoTo(r, "returned")
    /\ reused' = [reused EXCEPT ![r] = match[r] \in before[r]]

AuditReused(r) ==
    /\ at[r] = "reuse"
    /\ Log(match[r], "idempotency_reused")
    /\ Return(r)
    /\ UNCHANGED <<status, subtask, queue, memory, clock, key, inputs, now, before, sawFirst, seen, match>>

\* Slip: a status of the subtasks.
CreatePending(r) ==
    /\ Advance(r, "create", "plan")
    /\ SetStatus(r, "pending")
    /\ UNCHANGED <<subtask, audit, queue, memory, clock, key, inputs, now, before, sawFirst, seen, match, reused>>

\* Slip: the job is enqueued right after the row is inserted.
CreateAndEnqueue(r) ==
    /\ Advance(r, "create", "plan")
    /\ SetStatus(r, "queued")
    /\ queue' = queue \cup {r}
    /\ UNCHANGED <<subtask, audit, memory, clock, key, inputs, now, before, sawFirst, seen, match, reused>>

Create(r) ==
    /\ Advance(r, "create", "plan")
    /\ SetStatus(r, "queued")
    /\ UNCHANGED <<subtask, audit, queue, memory, clock, key, inputs, now, before, sawFirst, seen, match, reused>>

\* create_many inserts the whole plan in one transaction.
CreateSubtasks(r) ==
    /\ Advance(r, "plan", "audit_queued")
    /\ subtask' = [subtask EXCEPT ![r] = [a \in Agents |-> "pending"]]
    /\ UNCHANGED <<status, audit, queue, memory, clock, key, inputs, now, before, sawFirst, seen, match, reused>>

AuditQueued(r) ==
    /\ Advance(r, "audit_queued", "audit_planned")
    /\ Log(r, "queued")
    /\ UNCHANGED <<status, subtask, queue, memory, clock, key, inputs, now, before, sawFirst, seen, match, reused>>

AuditPlanned(r) ==
    /\ Advance(r, "audit_planned", "enqueue")
    /\ Log(r, "subtasks_created")
    /\ UNCHANGED <<status, subtask, queue, memory, clock, key, inputs, now, before, sawFirst, seen, match, reused>>

\* Slip: the enqueue call is left out, its event is not.
EnqueueForgotten(r) ==
    /\ Advance(r, "enqueue", "audit_enqueued")
    /\ UNCHANGED <<storeVars, clock, key, inputs, now, before, sawFirst, seen, match, reused>>

Enqueue(r) ==
    /\ Advance(r, "enqueue", "audit_enqueued")
    /\ queue' = queue \cup {r}
    /\ UNCHANGED <<status, subtask, audit, memory, clock, key, inputs, now, before, sawFirst, seen, match, reused>>

AuditEnqueued(r) ==
    /\ at[r] = "audit_enqueued"
    /\ Log(r, "enqueued")
    /\ Return(r)
    /\ UNCHANGED <<status, subtask, queue, memory, clock, key, inputs, now, before, sawFirst, seen, match>>

RequestStep(r) ==
    \/ InvalidInputs(r) \/ ReadBefore(r) \/ ReadClock(r) \/ ListRecent(r) \/ AuditReused(r)
    \/ Create(r) \/ CreateSubtasks(r) \/ AuditQueued(r) \/ AuditPlanned(r)
    \/ Enqueue(r) \/ AuditEnqueued(r)

\* A call on Postgres or Redis raises: the request answers 500 and what it has
\* written stays.
RequestRaises(r) ==
    /\ RequestFaults
    /\ at[r] \notin {"idle", "returned", "raised"}
    /\ GoTo(r, "raised")
    /\ UNCHANGED <<storeVars, clock, key, inputs, now, before, sawFirst, seen, match, reused>>

Tick ==
    /\ clock < MaxClock
    /\ clock' = clock + 1
    /\ UNCHANGED <<storeVars, at, key, inputs, now, before, sawFirst, seen, match, reused>>

StartNext ==
    \/ \E r \in Executions : RequestStep(r) \/ RequestRaises(r)
    \/ Tick

AllAnswered ==
    /\ \A r \in Executions : at[r] \in {"returned", "raised"}
    /\ UNCHANGED vars

Next == StartNext \/ AllAnswered

Spec == Init /\ [][Next]_vars

-----------------------------------------------------------------------------

\* A job is in the queue only when a worker that takes it at once finds the
\* row, the whole plan and the two events that precede it, and when whoever asked
\* for a scenario gave all its inputs.
QueueBacked ==
    \A e \in queue :
        /\ ThroughScenario(e) => ValidInputs(ScenarioOf[key[e]], inputs[e])
        /\ status[e] # "absent"
        /\ \A a \in Agents : subtask[e][a] # "absent"
        /\ {"queued", "subtasks_created"} \subseteq audit[e]

\* Two executions of one key exist inside one window only if the request that
\* created the later one listed the table before the earlier one was inserted,
\* or Limit executions at least as recent pushed it out of the listing.
DuplicateOnlyByRaceOrLimit ==
    \A d, e \in Existing :
        /\ d # e
        /\ key[d] = key[e]
        /\ d \in seen[e]
        /\ CreatedAt(d) + Window >= CreatedAt(e)
        => Cardinality({x \in seen[e] \ {d} : CreatedAt(x) >= CreatedAt(d)}) >= Limit

\* A request answers with an execution it did not create only if that execution
\* has its key and was created at most one window before the request, which
\* then created nothing itself (lines 47-53).
ReuseIsFresh ==
    \A r \in Executions :
        at[r] = "returned" /\ match[r] # r =>
            /\ match[r] \in Existing
            /\ key[match[r]] = key[r]
            /\ now[r] <= CreatedAt(match[r]) + Window
            /\ status[r] = "absent"

\* A scenario run that answers "reused" did reuse an execution, and one that
\* reused an execution without saying so was given one that was inserted after
\* its first listing, or that the limit may have hidden from it (run_scenario.py
\* lists, then starts, then compares).
ReusedFlagOnlyMissesRaces ==
    \A r \in Executions :
        at[r] = "returned" /\ ThroughScenario(r) =>
            IF reused[r]
            THEN match[r] # r
            ELSE match[r] = r \/ match[r] \notin sawFirst[r] \/ Cardinality(sawFirst[r]) > Limit

\* README, rule 1: "Janela de idempotência: 30 minutos por idempotency_key".
\* Requests of one key inside one window share one execution.
IdempotentWithinWindow ==
    \A d, e \in Existing :
        d # e /\ key[d] = key[e] => \/ CreatedAt(d) + Window < CreatedAt(e)
                                    \/ CreatedAt(e) + Window < CreatedAt(d)

=============================================================================
