------------------------------- MODULE Lifecycle -------------------------------
(***************************************************************************)
(* The whole path of an execution: API requests (StartExecution) and       *)
(* workers (Worker) that meet only in the tables and the queue.            *)
(***************************************************************************)
EXTENDS Worker

CONSTANTS
    Keys, ScenarioOf, GivenInputs, Window, Limit, MaxClock, RequestFaults

VARIABLES
    clock, at, key, inputs, now, before, sawFirst, seen, match, reused

S == INSTANCE StartExecution

ASSUME LifecycleAssumption ==
    /\ Window \in Nat /\ Limit \in Nat \ {0} /\ MaxClock \in Nat
    /\ RequestFaults \in BOOLEAN
    /\ ScenarioOf \in [Keys -> STRING]
    /\ GivenInputs \subseteq SUBSET S!InvestigationInputs

requestVars == <<clock, at, key, inputs, now, before, sawFirst, seen, match, reused>>
allVars == <<storeVars, requestVars, workerVars>>

LifeInit == S!Init /\ WorkerInit

\* Every request is answered and every worker waits for a job.
Quiet ==
    /\ \A r \in Executions : at[r] \in {"returned", "raised"}
    /\ \A w \in Workers : pc[w] = "idle"
    /\ UNCHANGED allVars

LifeNext ==
    \/ S!StartNext /\ UNCHANGED workerVars
    \/ WorkerNext /\ UNCHANGED requestVars
    \/ Quiet

LifeSpec == LifeInit /\ [][LifeNext]_allVars

(***************************************************************************)
(* Requests and jobs that have begun go on; a worker that is free takes a  *)
(* job.  Nothing makes a client send a request.                            *)
(***************************************************************************)
LifeFairSpec ==
    /\ LifeSpec
    /\ \A r \in Executions : WF_allVars(at[r] # "idle" /\ S!RequestStep(r) /\ UNCHANGED workerVars)
    /\ \A w \in Workers : WF_allVars(WorkerStep(w) /\ UNCHANGED requestVars)
    /\ \A w \in Workers :
          WF_allVars((\E e \in Executions : Deliver(w, e)) /\ UNCHANGED requestVars)

-----------------------------------------------------------------------------

Unanswered(e) == at[e] = "raised"

\* The promise of the API, with the requests in view: an execution is also given
\* up by a request that raised.
LifePromise == INSTANCE ExecutionPromise WITH
                   MayRaise <- "raise" \in Faults,
                   MayRestart <- MaxDeliveries > 1,
                   abandoned <- {e \in Executions :
                                   Unanswered(e) \/ faults[e] \cap {"crash", "lost"} # {}}

\* The statuses a client sees follow the promise of the API: no step of the two
\* processes, in any interleaving, moves an execution along any other path, and
\* an execution that no request and no worker broke off is begun and ends.
FulfilsPromise == LifePromise!Spec

\* Whoever is answered with an execution, its own or a reused one, eventually
\* finds it in a final status, unless the request that created it raised: then
\* requests of its key are answered with an execution that may never run
\* (start_execution.py, lines 47-53 and 69-76).
EveryAnswerSettles ==
    \A r \in Executions :
        at[r] = "returned" ~> status[match[r]] \in Terminal \/ Unanswered(match[r])

\* An execution left queued, with no job and no request to go on with it, was
\* abandoned by a request that raised or a worker that raised or crashed before
\* its first write; requests that reuse it within the window do not revive it.
QueuedForeverOnlyByFault ==
    \A e \in Executions :
        /\ status[e] = "queued"
        /\ e \notin queue
        /\ at[e] \in {"returned", "raised"}
        /\ \A w \in Workers : job[w] # e
        => Unanswered(e) \/ faults[e] \cap {"crash", "lost"} # {}

=============================================================================
