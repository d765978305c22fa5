--------------------------- MODULE ExecutionPromise ---------------------------
(***************************************************************************)
(* What the API promises about the status of an execution, whatever        *)
(* requests and workers do: the values a client that polls                 *)
(* /executions may see follow one another along these steps only, and one  *)
(* whose request or worker was not broken off is begun and ends.           *)
(***************************************************************************)
CONSTANTS
    Executions,
    MayRaise,       \* calls of a worker may raise
    MayRestart      \* a job may be delivered more than once

VARIABLES
    status,
    abandoned       \* executions whose request or worker was broken off

promiseVars == <<status, abandoned>>

Init ==
    /\ status \in [Executions -> {"absent", "queued"}]
    /\ abandoned = {}

Move(e, from, to) ==
    /\ status[e] \in from
    /\ status' = [status EXCEPT ![e] = to]
    /\ UNCHANGED abandoned

\* A request is accepted, a worker begins, and the work ends.
Accept(e) == Move(e, {"absent"}, "queued")
Begin(e)  == Move(e, {"queued"}, "running")
Finish(e) == Move(e, {"running"}, "completed")

\* A completion that only ran out of budget is relabelled.
Correct(e) == Move(e, {"completed"}, "bounded_completion")

\* An exception, in the very first call at the earliest.
Fail(e) ==
    MayRaise /\ Move(e, {"queued", "running", "completed", "bounded_completion"}, "failed")

Restart(e) == MayRestart /\ Move(e, {"completed", "bounded_completion", "failed"}, "running")

\* Breaking off changes no status.
Abandon(e) ==
    /\ abandoned' = abandoned \cup {e}
    /\ UNCHANGED status

Next ==
    \E e \in Executions :
        \/ Accept(e) \/ Begin(e) \/ Finish(e) \/ Correct(e) \/ Fail(e) \/ Restart(e)
        \/ Abandon(e)

Safety == Init /\ [][Next]_promiseVars

\* An accepted execution is begun, and a begun one ends, unless abandoned.
Spec ==
    /\ Safety
    /\ \A e \in Executions :
          /\ WF_promiseVars(e \notin abandoned /\ Begin(e))
          /\ WF_promiseVars(e \notin abandoned /\ Finish(e))

=============================================================================
