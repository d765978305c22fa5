# Optimus Platform: a TLA+ model of the execution path

Optimus Platform takes an objective over HTTP, plans it as subtasks for five
specialist agents, runs the plan in a background worker under a budget, and
shows the result in a browser console. This directory models the parts of it
where several processes meet: API requests, workers, PostgreSQL, Redis and the
console. TLC checks the models on small instances; TLAPS proves some of the
properties for every value of the constants.

Paths below are relative to the repository's `backend/src/optimus_backend`
unless they begin with `frontend/`.

## The system

| Component | State | Operations | Talks to |
| --- | --- | --- | --- |
| Start of executions (`application/use_cases/start_execution.py`, `run_scenario.py`) | none of its own; rows and jobs it writes | `StartExecutionUseCase.execute`, `RunScenarioUseCase.execute` | scenario catalog; executions, subtasks, audit tables; job queue |
| Scenario catalog (`core/scenarios/catalog.py`) | constant: the inputs each scenario requires | `get`, `validate_inputs` | start of executions, detail of an execution |
| Worker (`infrastructure/queue/worker.py`, `FinalizeExecutionUseCase`) | local: agents done, handoffs, steps; shared: the lock | `run_execution_job`, `mark_running`, `complete`, `fail` | all tables, the Redis lock, the tool executor |
| Decision memory (`MemoryRepository`) | versioned entries of a project | `latest_by_type`, `add`, `approve` | written by `complete` |
| Orchestrator, specialists, budget (`core/orchestrator`, `core/specialists`, `core/budget`) | none | `plan_subtasks`, `run`, `check` | called by the start of executions and the worker |
| Tool executor (`core/tooling`, `core/policy`, `core/execution_guard`, `infrastructure/cache/redis_rate_limiter.py`, `infrastructure/tools`) | two Redis counters per project and tool | `execute`, `allow`, the adapters' `run` | Redis; called by the worker |
| Read side of the API (`api/routes`: lists, timeline, subtasks, scenario detail) | none | `GET` handlers behind `get_current_user` | tables, catalog |
| Console (`frontend/src/app/router.tsx` and its pages) | session, section, selection, lists, timeline, flags; `localStorage` | five asynchronous handlers and an effect | the HTTP API |
| Tenant gateway (`api/middleware`, `resolve_tenant.py`, `redis_tenant_rate_limiter.py`) | keys, tenants, one counter per tenant | `dispatch` | in front of every route |
| Authentication (`authenticate.py`, `api/routes/auth.py`, `redis_sessions.py`) | sessions with a TTL, login attempts per address | `login`, `logout`, `get_current_user` | users table, Redis |
| Agent engine, context builder, task service, sanitizer, telemetry | none | | nothing calls the first three |

How they interact: a request writes the execution, its subtasks and two events
in separate transactions and enqueues a job (no transaction spans two
repository calls, each opens its own connection). ARQ hands the job to some
worker, at least once. The worker takes a lock in Redis, works through the
subtasks, and writes statuses, events and a decision, again one transaction at
a time. The console polls nothing: it reads when the user clicks.

What is hard here:

- every read-then-write pair is two transactions: idempotency (list, then
  insert), decision versions (newest, then insert), status and event;
- jobs are delivered more than once, workers die, locks expire under a slow
  worker, and `DEL` deletes whoever's lock it finds;
- Redis counters are created by `INCR` and given a TTL by a later call;
- calls can raise at any point, inside and outside the `try` block, and inside
  the handler that records the failure;
- handlers of the console overlap, and an answer is applied to whatever the
  state is by then;
- what one part asks for, another does not give: the console sends no key, no
  inputs and an unknown scenario, a login accepts users whom no later request
  finds.

What makes each component correct:

- *start*: no job without its rows or with inputs its scenario refuses; duplicates of a key only where a race or
  the listing limit explains them; reuse only inside the window;
- *worker*: one worker inside an execution at a time, no lock leaked, no
  subtask before what it waits for, no run cut off within its budget or on beyond it, no execution left running except by a crash, a
  final status that stays;
- *memory*: a version history that can be walked back, versions duplicated only
  by overlapping completions, deprecated entries exactly where they should be;
- *tool executor*: never more calls let in than a window allows, and every
  window ends;
- *console*: what is on the screen belongs to one session and one execution,
  was served to somebody who may see it, errors have a cause, sessions end when
  their user says so, no page loads forever;
- *gateway and sessions*: a tenant and an address within their limits and never
  kept out without cause, a session that is over stays over.

## Modules

| Module | Models | State and actions |
| --- | --- | --- |
| `Scenarios` | `ScenarioCatalog` | `Catalog`, `Has`, `ValidInputs` |
| `Orchestrator` | the fixed plan and the specialists | `PlanAgents`, `PlanDependsOn`, `Specialists`, `ExecutionPlan`; `OutOfReach` computes, for any plan, what a limited worker can never reach |
| `Budget` | `BudgetEnforcer.check` | `CutoffReason` |
| `DecisionMemory` | the entries of a project and the repository operations on them | `memory`; `Latest`, `AddDecision`, `Approve` |
| `MemoryWriters` | concurrent `complete` calls of one project | one action per transaction: `ReadLatest`, `Add`, and `ApproveEntry` |
| `ExecutionStore` | what API and workers share | `status`, `subtask`, `audit`, `queue`, `memory`; `SetStatus`, `SetSubtask`, `Log` |
| `StartExecution` | concurrent requests of both routes over the store | one action per call of the two `execute`, `InvalidInputs` for a scenario's refusal; a request and the execution it would create are one identifier |
| `Worker` | concurrent jobs over the store | one action per call of the job, from `Deliver` to `Release`, plus `Raise`, `RaiseInHandler`, `RaiseOutside`, `Crash`, `ExpireLock` |
| `ExecutionPromise` | abstract: the life of an execution as a client sees it | `status`, `abandoned` |
| `Lifecycle` | the whole path of an execution: requests and workers over one store | extends `Worker` and instantiates `StartExecution` over the same store variables; `LifeNext` interleaves the two next-state relations, each leaving the other's variables alone |
| `ToolExecutor` | the pipeline of `execute` with the Redis limiter inside | one action per Redis call; `WindowEnds` is a key's expiry |
| `Console` | `AppRouter`, against any server | one action per click and per answer |
| `Portal` | `Console` against the API | adds what the API knows (`owner`, `alive`) and what it answers (`reply`): `Serve*` for each kind of request, `SessionEnds`; an answer of the console is applied only when it was given |
| `Gate` | what a request passes before its handler: `TenantContextMiddleware` with the Redis counter, `TrustedHostMiddleware`, login with its attempt limiter, logout, `get_current_user`, `ensure_role` | one action per call on Redis or per locked section; `pc` says where each request is. A login and the session it makes are one identifier |
| `*Proofs` | theorems about `DecisionMemory`, `MemoryWriters`, `StartExecution`, `Worker`, `Lifecycle`, `ToolExecutor`, `Console` with `Portal`, and `Gate` | |
| `MC*` | values for TLC: the real plan, smaller plans, users and scenarios, symmetry | |

`MC*.cfg` are the runs; a run has the name of its file.

How the code's data is abstracted:

- `audit` is the *set* of event types of an execution. Order and repetition of
  events are not modelled, their text neither.
- An update of an execution is one step although the code reads the row first:
  the update overwrites the status whatever was read, and no row is ever
  deleted, so the two transactions act on the status as one.
- A subtask is one step and one tool call, so both counts equal the number of
  handoffs; `Elapsed` supplies the times a budget check may see.
- The specialist always returns an execution plan (`ExecutionPlan`), so
  `SubtaskResult` is always `completed`; the worker's `partial` is in the model
  and unreachable (`WorkerProofs!EveryPlanIsFull`).
- The rows of a plan share one `created_at`, hence `ORDER BY created_at` leaves
  their order open: the loop takes the subtasks in any order.
- Ties in `latest_by_type` are left open for both repositories; the in-memory
  one in fact returns the oldest of them.
- `Contents` of a decision is what a summary tells apart: bounded or processed,
  and how many.
- A key of `StartExecution` stands for project, scenario and objective; the
  scenario is a function of it. The inputs of a scenario are the set of names
  given and not empty. They are validated, then dropped: no row holds them and
  they are not in the idempotency key.
- In `Console`, data is whose it is: a session and an execution. `loading`
  stands for the flags of the executions and of the timeline; the agents'
  loading flag always changes with the executions'.
- In `Portal` a handler's requests are answered together, in one step between
  the click and the moment the browser applies the answer. `world` says what is
  behind `API_BASE`: `any` answers as it likes (it is `Console` alone), `api` is
  the API behind a proxy that adds `X-API-Key`, `api_lossy` the same when
  answers get lost or calls fail, `api_keyless` the API alone. Users are stored
  (the users table) or seeded (`ENABLE_DEV_SEED_USER`, in memory); a row is whom
  it belongs to. `Gate` models the same session calls one by one.
- In `ToolExecutor` each request may be any tool. The worker itself only asks
  for the terminal (`echo safe_tool_probe`), without `shell`; the other tools
  are wired in `get_tool_executor` and used by the tests. `Refuse` is the guard's
  exception for a terminal request with `shell`.
- In `Gate` the middleware calls Redis synchronously on the event loop, so a
  process is between `INCR` and `EXPIRE` of one request at a time
  (`LoopIsFree`); the routes run in threads and interleave. A wrong password and
  an unknown user are one case. `get_current_user` reads the session and then a
  row that is never deleted, in one step. `Raise` is any of the external calls
  failing; the answer, 503 or 500, is `error`. The development seed users are in
  `Portal`.
- ARQ, Redis and Postgres are external: `Deliver`, `EndJob`, `ExpireLock`, `WindowEnds`,
  `SessionExpires` model what the code relies on. ARQ acknowledges a job when its function
  returns or raises and delivers it again if the worker died.

Variables commented *history* (`deliveries`, `faults`, `sawFirst`, `seen`,
`readAt`, `wrote`, `inWindow`, `admitted`, `abandoned`, `used`, `late`,
`mixed`, `doubled`, `overtaken`) record what happened, for the properties; no guard of an
action reads them, except `deliveries` for its bound and `used` to keep
session ids fresh. `StartExecution`'s `seen` is such a variable;
`ToolExecutor`'s `seen` is not, it holds the counts `INCR` returned.

Operators whose comment begins with *Slip* are plausible programming errors.
No specification uses them. Putting one in the place of the definition that
follows it must break the property it is listed with in `PROJECT.json`
(`mutants`); that is how each property is known to say something.

## Runs

| Run | Instance | What it shows |
| --- | --- | --- |
| `MCWorkerPlan` | 1 execution, the real plan, 3 handoffs, 2 workers, 2 deliveries, crashes and exceptions | `DependenciesFirst`: a subtask starts only on completed dependencies, also in a second delivery over half-done rows. `NeverReached`: the analyst can never be started: it waits for `qa` and `ops_sentinel`, with what they wait for four subtasks, and the limit is three. `StrandedOnlyByCrash`, `FinalStatusHolds`, `KeepsPromise`: how the status can move and who can leave it at `running` |
| `MCWorkerLock` | 1 execution, a chain of 3 subtasks, a budget of 1 step, 2 workers, 2 deliveries, crashes, exceptions, expiry | `MutualExclusion`, `NoLockLeak`, `LocksAreReleased`; `DecisionsTellBudget`: what is recorded of a run agrees with its budget, at the limit too, whichever delivery recorded it |
| `MCWorkerDeployed` (violation) | 8 names, 9 repositories | `EventuallySettled` fails: see *Disagreements* |
| `MCMemoryInMemory` | 3 writers, 2 contents, in-memory repository | `SupersedesChain`, `DuplicateVersionOnlyByRace`; `DeprecatedByChange`: an entry is deprecated only for a successor with other content, and always then |
| `MCMemoryDeprecates` (violation) | 3 writers, Postgres | `ChangedIsDeprecated` fails |
| `MCStartExecution` | 3 requests after an earlier execution, 3 keys (no scenario, one of the catalog, `health_check`), inputs complete or one short, window 1, clock to 2, limit 2, calls that raise | `QueueBacked`, `DuplicateOnlyByRaceOrLimit`, `ReuseIsFresh`, `ReusedFlagOnlyMissesRaces` |
| `MCStartRace` (violation) | 2 requests, no faults | `IdempotentWithinWindow` fails |
| `MCLifecycle` | 2 requests of one scenario that may raise or be refused, 2 workers, a chain of 2 subtasks, 1 handoff | `FulfilsPromise`: both processes together implement `ExecutionPromise`, with its fairness. `EveryAnswerSettles`, `QueuedForeverOnlyByFault`, `TimelineMatchesStatus`, `DecisionsMatchCompletions` |
| `MCTools` | 2 callers, 3 tools, both limits 1 | `WithinLimits`, `Expiring`, `WindowsEnd` |
| `MCGate` | 3 requests and 2 earlier logins, 2 processes, 1 tenant with limit 1, login limit 2, window 2, clock to 2, calls that raise | `TenantWithinLimit` and `CounterEnds` across windows; `LoginWithinWindow` and `RefusedOnlyIfBusy`: who is let in and who is kept out; `NoUseAfterLogout` |
| `MCGateHost` (violation) | 2 requests, no faults | `HostBeforeProcessing` fails |
| `MCPortal` | 2 sessions, a stored operator and a seeded admin, 2 executions (one `default`, one of the catalog), 2 handlers, reloads, the four worlds | against any server `ScreenBelongsToSession`, `TimelineOfSelection`, `LoadingEnds`, `EndsByItsLogout`; against the API `ScreenWasServed` (what is shown was served with a key to a stored user, and is about a scenario of the catalog), `EveryErrorHasCause` (and the error that hides the workspace stays) |

Bounds, and why they are enough to be interesting:

- `MaxDeliveries = 2`: the second delivery is the first that can meet the rows,
  the lock or the status of an earlier one; a third meets nothing new.
- Two workers: one to hold the lock and one to meet it. Three writers: two that
  race and one that builds on the duplicate.
- `MaxClock = 2` with `Window = 1`: an execution can be inside, exactly at the
  end of, and outside the window. `MCStartExecution` starts with one execution
  (`Earlier`, created at time 0 by a request that found the table empty) and three
  requests to come. With `Limit = 2` the last of them can find three rows and be
  shown two: the limit hides an execution of its key, it creates a duplicate, and
  the exception of `DuplicateOnlyByRaceOrLimit` is what allows it. In the same way
  a first listing can miss what is reused later, which is the limit's case of
  `ReusedFlagOnlyMissesRaces`.
- `Elapsed = {limit, limit + 1}` in `MCWorkerPlan`: the last value that goes on and
  the first that does not. Steps and tool calls cannot reach 25 and 50 under three
  handoffs, so `MCWorkerLock` takes a step limit of 1 and only the time that is
  exactly at its limit: the first subtask meets both limits without being cut off,
  the second is one step too many.
- `MaxHandoffs` is smaller than the plan in every run, so the cutoff happens.
  `MCLifecycle` uses a plan of two and one handoff for the same effect.
- `MaxCalls = 1` in `MCTools`: a call begins only while both of its counters are
  below it, and two callers begin together, so counters reach 2, one above the
  limits. The adapter list is short of one allowed tool, as in the tests, so
  that `NotFound` happens; the deployed list has all of them.
- `MCGate`: the shortest way to use a session after its logout takes three
  requests, login, logout and call; a fourth could only be a second of one of
  them. The login limiter needs more logins than that to reach its limit, so
  `Earlier` has two that are already answered and counted (`InitAtTheLimit` puts
  them in one limiter). `MaxClock = Window`: an attempt can be inside and exactly at
  the end of its window. Tenant limit 1 is passed by the second request.
- `Handlers = 2` bounds the answers that wait at a time: two suffice for one to
  overtake another, to arrive after a logout, or under the next session.
  `Visited` is the pages the user opens by himself; the other pages open only
  through an answer, and no handler reads which of them is open.
- `GivenInputs` has the complete set and one that lacks a name: `validate_inputs`
  refuses any other missing name in the same way.
- `UnpackedNames = 9` everywhere but in `MCWorkerDeployed`: the other runs check
  the job behind its first statement, as it is once that statement is repaired.

Fairness. A worker step and a request step are weakly fair: a thread that can
run does. `Deliver` is weakly fair per worker: an idle ARQ worker polls its
queue. `ExpireLock` and `WindowEnds` are: Redis expires keys. `PortalSettle`
and `Serve` are: the server answers every request, or the browser gives it up,
and it applies what it got. Not fair: faults, the
clock, clients, clicks. `LoadingEnds` and `EveryAnswerSettles` name what they
exclude (endless reloads; a creating request that raised).

## Proofs

`tlapm` checks every proof. Assumptions are those declared with the constants:
finite or infinite sets of workers, executions, agents, any plan, any limits,
any subset of the faults.

| Theorem | Says | Argument |
| --- | --- | --- |
| `WorkerProofs!TypeCorrect` | `Spec => []TypeOK` | `TypeInv`: `TypeOK`, plus what each program location knows: a subtask in hand from `announce` to `announce_done`, at most `MaxHandoffs` handoffs, no more agents done than handoffs, an entry of the memory behind `latest`. Needed because the summary and the new entry are typed only for such values |
| `WorkerProofs!MutuallyExclusive` | `MutualExclusion` | `LockInv`: with `TypeInv`, a worker in `Held` implies the lock exists unless it expired, and two workers are never in `Held` for one execution |
| `WorkerProofs!NoLeak` | `NoLockLeak` | same invariant: a lock has a holder or was left by a fault |
| `WorkerProofs!StrandedByCrash` | `StrandedOnlyByCrash` | `StatusInv`: while nobody else can be inside an execution (`Alone`: no expired lock, or one delivery), the place of its worker tells its status (`Placed`); a `running` execution has a worker that will end it, or was broken off (`Attended`) |
| `WorkerProofs!FinalHolds` | `FinalStatusHolds` | same invariant: with one delivery every write finds the status its program location expects |
| `WorkerProofs!PromiseKept` | `KeepsPromise`, unless `expire` is among the faults: the refinement of `ExecutionPromise`, safety part | same invariant, one step per write of a status: each is a step of the abstract specification, every other action a stutter |
| `WorkerProofs!InOrder` | `DependenciesFirst` | `RowsInv`: what a run has done is `completed` in the rows while it is `Alone`, and what is done, in hand and still to do is disjoint |
| `WorkerProofs!FarIsNeverReached` | `NeverReached` for every plan | the agents done are closed under `DependsOn` and no more than the handoffs, so an agent whose dependencies take `MaxHandoffs` is never ready in time |
| `WorkerProofs!TimelineTells` | `TimelineMatchesStatus` | `ToldInv`: status and event are two transactions, so between them they disagree. For an execution delivered once and without a fault (`Smooth`) the place of its only worker says which of the two is behind (`Busy`), and once no worker has it in hand neither is (`Settled`) |
| `WorkerProofs!OneDecisionEach` | `DecisionsMatchCompletions` | `CountInv`: the length of a project's memory is the number of its final executions that no worker is still about to write the decision of (`Writing`, `DecidedOf`) |
| `WorkerProofs!BudgetTold` | `DecisionsTellBudget` | `BudgetInv`: the budget is checked after every subtask, so outside a subtask the handoffs are within it, and inside one they are at most one more (`Paced`). Needs `TypeInv`: no more agents are done than handoffs were made |
| `StartProofs!StartTypeCorrect` | `TypeOK` | `IStart`, the invariant of all of `StartProofs`; its parts say what a request has written at each place (`Written`), what it reuses (`Reuses`), what it listed (`Listed`), and what it knew when it created (`Created`) |
| `StartProofs!QueuedIsBacked` | `QueueBacked` | `Written`, and that nobody else writes a request's rows |
| `StartProofs!ReusedIsFresh` | `ReuseIsFresh` | `Reuses`: `created_at` and key of an execution never change once it is found |
| `StartProofs!FlagMissesOnlyRaces` | `ReusedFlagOnlyMissesRaces` | `Listed`: a listing shorter than the limit is the whole table, so an execution that is not in `before` came later |
| `StartProofs!DuplicatedOnlyByRaceOrLimit` | `DuplicateOnlyByRaceOrLimit` | a request creates only when its listing held no candidate. Had it held a fresh execution of its key, the most recent of these (there is one, `MostRecent`, by well-foundedness of `>` on a finite set of times) would be a candidate; so each was hidden by `Limit` at least as recent |
| `LifecycleProofs!QueuedByFault` | `LifeSpec => []QueuedForeverOnlyByFault`, if `UnpackedNames = RepositoryCount` | `LifeInv` with `TurnInv`, see below |
| `LifecycleProofs!DeployedNeverRuns` | if they differ, as deployed: nothing leaves `queued`, no lock is taken, no decision recorded | no worker is ever past `unpack` |
| `LifecycleProofs!LifeTimeline`, `LifeDecisions`, `WorkersUnharmed`, `RequestsUnharmed` | what is proved of workers and of requests on their own holds of `LifeSpec` | `LifeInv`: the invariants of both, see below |
| `LifecycleProofs!LifeKeepsPromise` | `LifeSpec => LifePromise!Safety`, unless `expire` is among the faults: the safety part of `FulfilsPromise` | `LifeInv`; an execution counts as given up also when its request raised |
| `MemoryWritersProofs!TypeCorrect`, `ChainHolds` | `TypeOK`, `SupersedesChain` | the entry a writer read exists and keeps its version; `DecisionMemoryProofs` has the lemmas on `AddDecision`, `Approve` and `Latest` |
| `MemoryWritersProofs!DuplicateOnlyByRace` | `DuplicateVersionOnlyByRace` | the version a writer will insert exceeds every version that existed when it read |
| `MemoryWritersProofs!DeprecatedForChange` | `DeprecatedByChange` | an entry's content never changes and its status moves to `deprecated` only together with the insertion of a successor |
| `ToolProofs!LimitsHold` | `WithinLimits` | `ToolInv`: for each counter, the calls let in and the counted callers that read a count within the limit are together at most the count and at most the limit (`Budgeted`). The second group is needed because a caller decides after others have counted |
| `ToolProofs!CountersExpire` | `Expiring` | `ToolInv`: a creator past its `EXPIRE` has given the counter its time to live (`Lives`) |
| `PortalProofs!ScreenCorrect` | `ScreenBelongsToSession` of `Console`, against any server | `ConsoleInv`: a session is handed out once and not before its login is answered (`Handed`, `Begun`), so data of another session can only come with a late answer |
| `PortalProofs!TimelineCorrect` | `TimelineOfSelection` of `Console`, against any server | `LoadInv`: unless loads overlapped, at most one that was started with the browser's session waits (`OneLoad`), and a selection that waits is of the row clicked last (`LastChosen`). Loads of earlier sessions may wait too; their answers are late |
| `PortalProofs!PortalImplementsConsole` | `PortalSpec => Spec` of `Console` | every step of the portal is a step of the console or leaves its variables alone |
| `PortalProofs!PortalTypeCorrect`, `ServedCorrect` | `PortalTypeOK`, `ScreenWasServed` | `IPortal`: an answer that waits was given for a reason (`Granted`), a screen shows only what was answered (`ServedStep`); no run of the console is valid (`NoRun`), so a run adds nothing to it |
| `PortalProofs!LogoutCorrect` | `EndsByItsLogout` | `IPortal`: unless a button was clicked twice, the only logout that waits is of the session on the screen, and it is over on the server once answered (`Ended`, `ClickedOnce`) |
| `PortalProofs!ErrorsCorrect` | `EveryErrorHasCause` | `IPortal`: a refusal that waits has one of the causes, and a cause does not go away (`Refused`, `UnservedStays`) |
| `GateProofs!TenantLimited` | `TenantWithinLimit` | `Inv` has three parts: `Shape` (types, and what a request is at each place), `TenantInv`, `SessionInv`. The count equals the number of requests counted in the window, so one that reads a count within the limit finds fewer than the limit before it. The request still about to call `EXPIRE` must be counted with those that passed: it reads 1 when it decides, whatever was counted since |
| `GateProofs!CounterHasEnd` | `CounterEnds` | `TenantInv`: the request that read 1 is at `expire` until the counter has an end or the call fails |
| `GateProofs!LoggedOutForGood` | `NoUseAfterLogout` | `SessionInv`: the login of a session that was given up is over, because its identifier was known, so no step can save it again |
| `GateProofs!LoginsLimited` | `LoginWithinWindow` | `LoginInv`: an attempt the limiter has judged is in the list of its address, or one made a window or more after it is (`Remembered`). So an attempt that is not overtaken finds every earlier one of its window in the list, and it is the last of any window it belongs to |
| `GateProofs!RefusedForCause` | `RefusedOnlyIfBusy` | `LoginInv`: what is in a list is a judged login of its address (`Listed`), and an attempt keeps its reading once it is judged, so the attempts that kept one out stay |
| `GateProofs!GateTypeCorrect` | `TypeOK` | `Shape`, `InWindow` and `ClockShape` |

How the theorems of the two halves are put together. `LifeInv` is `RequestInv`
(the invariant of `StartProofs`, and `Asked`: a request knows whether its
execution was enqueued, and an enqueued one has its row) with `JobInv` (the invariants of `WorkerProofs`). Neither is
preserved by the other process for free: a worker writes the rows a request
listed, and a request writes rows and the queue that workers read. `Asks` and
`Serves` say all a step of one side can do to the store as the other sees it. A
request touches only executions that were not enqueued yet, and adds events no
worker's property is about (`AsksJob`); a worker moves the status of an enqueued
execution but never makes it absent, unplans it or takes back an event, which
is all that requests rely on (`RequestKept`). So each side keeps the invariant
of the other without either being proved again.

`TurnInv` is for `QueuedByFault`. An enqueued execution that is still `queued`
is in the queue, or is at the place of a worker that will read it or write its
status (`Pending`), or was given up. The hard case is a second delivery that
finds the lock taken and drops the job: then whoever holds the lock has the
execution in hand, or left the lock by a fault (`LeftByFault`), so the drop is
harmless. The hypothesis `UnpackedNames = RepositoryCount` is the job with its
first statement repaired; `DeployedNeverRuns` is the other case, so the two
cover every instance.

Every invariant and every action property of the passing runs is stated by a
theorem. Only model-checked is what needs fairness, which is out of the prover's
reach: `LocksAreReleased`, `EveryAnswerSettles`, `WindowsEnd`, `LoadingEnds`, and
the liveness part of `FulfilsPromise`. `KeepsPromise` and `LifePromise!Safety` are
proved for locks that do not expire under their holder; the runs that check
them have no such expiry either.

## Disagreements between code and documents

Four are runs:

1. `MCWorkerDeployed`: `worker.py` line 18 unpacks eight names, and
   `get_repositories` returns nine values. Every job raises `ValueError`
   before it reads its execution, which stays `queued`. No test calls the job.
2. `MCMemoryDeprecates`: README rule 4 says the earlier version becomes
   `deprecated`; with Postgres the assignment changes a copy.
3. `MCStartRace`: README rule 1 promises one execution per key in 30 minutes;
   two requests at once create two.
4. `MCGateHost`: `main.py` line 24 says `TrustedHostMiddleware` runs outermost
   and rejects a request before any processing. The middleware added last is
   the outermost, which is `TenantContextMiddleware`: the request is counted
   against its tenant first.

Others show in the models as the exceptions that properties name:

- a request that raises between insert and enqueue leaves an execution that
  requests of its key are answered with and that never runs
  (`QueuedForeverOnlyByFault`, `EveryAnswerSettles`);
- an execution with the real plan is `completed` while the analyst's summary was
  never produced (`NeverReached`);
- a job whose worker died is delivered again while its lock still exists, is
  skipped, and the execution stays `running` (`StrandedOnlyByCrash`);
- two completions of one project may write one version
  (`DuplicateVersionOnlyByRace`), against rule 4's additional version;
- a caller that dies between `INCR` and `EXPIRE` leaves a counter that never
  expires, against rule 2's window of 60 seconds (`WindowsEnd`, `abandoned`);
- a login whose clock reading is overtaken by another's can find the list
  already cleared and be let in on top of the limit (`LoginWithinWindow`,
  `overtaken`);
- a tenant whose `EXPIRE` call fails after its `INCR` keeps its counter until
  somebody deletes it (`CounterEnds`, `abandoned`);
- the console shows late answers of an earlier session or selection
  (`ScreenBelongsToSession`, `TimelineOfSelection`), and a second logout click
  can end the next session (`EndsByItsLogout`);
- an execution of `/executions/run` has the scenario `default`, which the
  catalog does not have: its detail raises `KeyError`, and the console, which
  asks for timeline, subtasks and detail together, can never open it
  (`ScreenWasServed`, `EveryErrorHasCause`);
- the console's own run asks for `health_check`, which the catalog does not have
  either, and sends no inputs: every run is refused, and the error hides the
  workspace with its run button until the user logs out or reloads
  (`EveryErrorHasCause`);
- a development seed user can log in, and `get_current_user`, which looks only
  in Postgres, then refuses his session: he sees errors and nothing else
  (`ScreenWasServed`);
- no call of the console sends `X-API-Key`, which the middleware asks of every
  path but the public ones: without a proxy that adds it nothing is ever shown
  (`ScreenWasServed`, world `api_keyless`).

Seen while reading, and reached by no run against the API: `handleRunScenario`
replaces detail and timeline and leaves the subtasks of the execution selected
before, which never shows because its request is always refused.
Outside the models: `run_execution_job` is a plain function, while ARQ expects coroutines; the API adds no CORS headers, so the
console works only from the API's own origin.

## Not modelled, and the plan

Left out for good:

- text: prompts, summaries, formatting, logging, error messages;
- what an adapter reads, runs or prints, and the reports of the Kaiso tools,
  which no policy of an execution allows;
- `AgentEngine`, `ContextBuilder`, `TaskService` and the tool router: no
  execution passes through them. `MemoryRepository.approve`, which has no caller
  either, is modelled, since the history must survive it;
- password hashing (a login has the outcomes right and wrong), schemas beyond
  the two fields `ScenarioRunRequest` requires, settings, deployment files, and
  the one-off migration script;
- `/health`, and the request context, which only logging reads.

Left for later, in this order; each step keeps what is there:

1. The sanitizer as a recursive function against a reference definition.
2. The counters of `Gate` in front of `Portal`, so that the console meets a
   tenant over its limit (today a refusal of world `api_lossy`).
