----------------------------- MODULE ToolExecutor -----------------------------
(***************************************************************************)
(* ToolExecutor.execute and the Redis rate limiter it asks: policy, guard, *)
(* two counters, the adapter, the guard again.  The workers that call it   *)
(* share nothing but the counters, and allow() is up to four calls on      *)
(* Redis, so another caller can run between any two of them.               *)
(***************************************************************************)
EXTENDS Naturals, Sequences

CONSTANTS
    Callers,         \* worker processes that run a tool
    Projects,
    Tools,           \* names a request may carry
    AllowedTools,    \* PolicyEngine._allowed_tools
    Registered,      \* adapters of get_tool_executor()
    ProjectLimit, ToolLimit,
    Attempts,        \* how often an adapter tries: retry_count + 1 for http, else 1
    NoRequest,
    MayBreakOff,     \* a caller may die, or Redis may fail, inside allow()
    MaxCalls         \* bound on the count at which a call still begins

Requests == [project : Projects, tool : Tools]

ASSUME ToolAssumption ==
    /\ NoRequest \notin Requests
    /\ AllowedTools \subseteq Tools /\ Registered \subseteq Tools
    /\ ProjectLimit \in Nat /\ ToolLimit \in Nat
    /\ Attempts \in [Registered -> Nat \ {0}]
    /\ MayBreakOff \in BOOLEAN
    /\ MaxCalls \in Nat

VARIABLES
    at,         \* where each caller is in execute()
    req,        \* the request it is in
    seen,       \* the counts its two INCR returned
    tries,      \* failed attempts of the adapter
    envelope,   \* status of the envelope it last got, "raised" for an exception
    count,      \* the Redis counters
    ttl,        \* whether a counter has a time to live
    inWindow,   \* history: callers counted in the current window of a counter
    admitted,   \* history: calls counted in the current window and let in
    abandoned   \* history: counters whose creator broke off before its EXPIRE

counters == <<count, ttl, inWindow, admitted, abandoned>>
toolVars == <<at, req, seen, tries, envelope, counters>>

\* rl:project:<p> and rl:tool:<p>:<tool>
ProjectKey(r) == <<r.project>>
ToolKey(r) == <<r.project, r.tool>>
Keys == {ProjectKey(r) : r \in Requests} \cup {ToolKey(r) : r \in Requests}

Limit(k) == IF Len(k) = 1 THEN ProjectLimit ELSE ToolLimit

PKey(c) == ProjectKey(req[c])
TKey(c) == ToolKey(req[c])

Places == {"out", "incr_project", "incr_tool", "expire_project", "expire_tool", "decide", "run"}
Inside == {"incr_tool", "expire_project", "expire_tool", "decide"}
Outcomes == {"ok", "blocked", "error", "raised"}

Unseen == [project |-> 0, tool |-> 0]

TypeOK ==
    /\ at \in [Callers -> Places]
    /\ req \in [Callers -> Requests \cup {NoRequest}]
    /\ \A c \in Callers : at[c] = "out" <=> req[c] = NoRequest
    /\ seen \in [Callers -> [project : Nat, tool : Nat]]
    /\ tries \in [Callers -> Nat]
    /\ envelope \in [Callers -> Outcomes]
    /\ count \in [Keys -> Nat]
    /\ ttl \in [Keys -> BOOLEAN]
    /\ inWindow \in [Keys -> SUBSET Callers]
    /\ admitted \in [Keys -> Nat]
    /\ abandoned \subseteq Keys
    /\ \A k \in Keys : count[k] = 0 => ~ ttl[k] /\ inWindow[k] = {} /\ admitted[k] = 0

Init ==
    /\ at = [c \in Callers |-> "out"]
    /\ req = [c \in Callers |-> NoRequest]
    /\ seen = [c \in Callers |-> Unseen]
    /\ tries = [c \in Callers |-> 0]
    /\ envelope = [c \in Callers |-> "ok"]
    /\ count = [k \in Keys |-> 0]
    /\ ttl = [k \in Keys |-> FALSE]
    /\ inWindow = [k \in Keys |-> {}]
    /\ admitted = [k \in Keys |-> 0]
    /\ abandoned = {}

-----------------------------------------------------------------------------

Move(c, from, to) == at[c] = from /\ at' = [at EXCEPT ![c] = to]

\* execute() returns an envelope or raises: its local variables are gone.
Answer(c, outcome) ==
    /\ at' = [at EXCEPT ![c] = "out"]
    /\ req' = [req EXCEPT ![c] = NoRequest]
    /\ seen' = [seen EXCEPT ![c] = Unseen]
    /\ tries' = [tries EXCEPT ![c] = 0]
    /\ envelope' = [envelope EXCEPT ![c] = outcome]

\* Whom a counter has counted in its current window.
Counted(k, c) == inWindow' = [inWindow EXCEPT ![k] = @ \cup {c}]

\* The caller whose INCR created a counter, before it has set the time to live.
Creator(c, k) ==
    /\ c \in inWindow[k]
    /\ \/ k = PKey(c) /\ seen[c].project = 1
       \/ k = TKey(c) /\ seen[c].tool = 1

Forgotten(c) == inWindow' = [k \in Keys |-> inWindow[k] \ {c}]

\* The policy answers before anything is counted.
Deny(c, r) ==
    /\ at[c] = "out"
    /\ r.tool \notin AllowedTools
    /\ Answer(c, "blocked")
    /\ UNCHANGED counters

\* The guard raises on a terminal request that asks for a shell.
Refuse(c, r) ==
    /\ at[c] = "out"
    /\ r.tool \in AllowedTools /\ r.tool = "terminal"
    /\ Answer(c, "raised")
    /\ UNCHANGED counters

Begin(c, r) ==
    /\ Move(c, "out", "incr_project")
    /\ r.tool \in AllowedTools
    /\ count[ProjectKey(r)] < MaxCalls /\ count[ToolKey(r)] < MaxCalls
    /\ req' = [req EXCEPT ![c] = r]
    /\ envelope' = [envelope EXCEPT ![c] = "ok"]
    /\ UNCHANGED <<seen, tries, counters>>

IncrProject(c) ==
    /\ Move(c, "incr_project", "incr_tool")
    /\ count' = [count EXCEPT ![PKey(c)] = @ + 1]
    /\ seen' = [seen EXCEPT ![c].project = count[PKey(c)] + 1]
    /\ Counted(PKey(c), c)
    /\ UNCHANGED <<req, tries, envelope, ttl, admitted, abandoned>>

IncrTool(c) ==
    /\ Move(c, "incr_tool", "expire_project")
    /\ count' = [count EXCEPT ![TKey(c)] = @ + 1]
    /\ seen' = [seen EXCEPT ![c].tool = count[TKey(c)] + 1]
    /\ Counted(TKey(c), c)
    /\ UNCHANGED <<req, tries, envelope, ttl, admitted, abandoned>>

\* EXPIRE, by the caller whose INCR created the counter.
ExpireProject(c) ==
    /\ Move(c, "expire_project", "expire_tool")
    /\ ttl' = [ttl EXCEPT ![PKey(c)] = @ \/ (seen[c].project = 1 /\ count[PKey(c)] > 0)]
    /\ UNCHANGED <<req, seen, tries, envelope, count, inWindow, admitted, abandoned>>

\* Slip: one condition for both, so the tool counter can miss its EXPIRE.
ExpireToolWithProject(c) ==
    /\ Move(c, "expire_tool", "decide")
    /\ ttl' = [ttl EXCEPT ![TKey(c)] = @ \/ (seen[c].project = 1 /\ count[TKey(c)] > 0)]
    /\ UNCHANGED <<req, seen, tries, envelope, count, inWindow, admitted, abandoned>>

ExpireTool(c) ==
    /\ Move(c, "expire_tool", "decide")
    /\ ttl' = [ttl EXCEPT ![TKey(c)] = @ \/ (seen[c].tool = 1 /\ count[TKey(c)] > 0)]
    /\ UNCHANGED <<req, seen, tries, envelope, count, inWindow, admitted, abandoned>>

\* Slip: the project's own limit is not compared.
WithinToolLimit(c) == seen[c].tool <= ToolLimit

Within(c) == seen[c].project <= ProjectLimit /\ seen[c].tool <= ToolLimit

LetIn(c) ==
    admitted' = [k \in Keys |-> IF c \in inWindow[k] THEN admitted[k] + 1 ELSE admitted[k]]

\* allow() says no: the call stays counted.
Limited(c) ==
    /\ at[c] = "decide"
    /\ ~ Within(c)
    /\ Answer(c, "blocked")
    /\ Forgotten(c)
    /\ UNCHANGED <<count, ttl, admitted, abandoned>>

\* A tool the policy allows and nobody registered.
NotFound(c) ==
    /\ at[c] = "decide"
    /\ Within(c)
    /\ req[c].tool \notin Registered
    /\ Answer(c, "error")
    /\ LetIn(c) /\ Forgotten(c)
    /\ UNCHANGED <<count, ttl, abandoned>>

Enter(c) ==
    /\ Move(c, "decide", "run")
    /\ Within(c)
    /\ req[c].tool \in Registered
    /\ LetIn(c) /\ Forgotten(c)
    /\ UNCHANGED <<req, seen, tries, envelope, count, ttl, abandoned>>

\* An attempt of HttpTool fails: wait and try again.
TryAgain(c) ==
    /\ at[c] = "run"
    /\ tries[c] + 1 < Attempts[req[c].tool]
    /\ tries' = [tries EXCEPT ![c] = @ + 1]
    /\ UNCHANGED <<at, req, seen, envelope, counters>>

Succeed(c) ==
    /\ at[c] = "run"
    /\ Answer(c, "ok")
    /\ UNCHANGED counters

\* The adapter raises: before its first attempt (HttpTool refuses the method or
\* the domain) or when its last attempt has failed.
GiveUp(c) ==
    /\ at[c] = "run"
    /\ tries[c] = 0 \/ tries[c] + 1 >= Attempts[req[c].tool]
    /\ Answer(c, "error")
    /\ UNCHANGED counters

\* A caller leaves allow() between two calls on Redis.
BreakOff(c) ==
    /\ MayBreakOff
    /\ at[c] \in Inside
    /\ Answer(c, "raised")
    /\ abandoned' = abandoned \cup {k \in Keys : Creator(c, k) /\ ~ ttl[k]}
    /\ Forgotten(c)
    /\ UNCHANGED <<count, ttl, admitted>>

\* The time to live of a counter runs out.
WindowEnds(k) ==
    /\ ttl[k]
    /\ count' = [count EXCEPT ![k] = 0]
    /\ ttl' = [ttl EXCEPT ![k] = FALSE]
    /\ inWindow' = [inWindow EXCEPT ![k] = {}]
    /\ admitted' = [admitted EXCEPT ![k] = 0]
    /\ UNCHANGED <<at, req, seen, tries, envelope, abandoned>>

CallerStep(c) ==
    \/ IncrProject(c) \/ IncrTool(c) \/ ExpireProject(c) \/ ExpireTool(c)
    \/ Limited(c) \/ NotFound(c) \/ Enter(c) \/ TryAgain(c) \/ Succeed(c) \/ GiveUp(c)

Next ==
    \/ \E c \in Callers, r \in Requests : Deny(c, r) \/ Refuse(c, r) \/ Begin(c, r)
    \/ \E c \in Callers : CallerStep(c) \/ BreakOff(c)
    \/ \E k \in Keys : WindowEnds(k)

Spec == Init /\ [][Next]_toolVars

\* A caller goes on, and Redis drops expired keys.
FairSpec ==
    /\ Spec
    /\ \A c \in Callers : WF_toolVars(CallerStep(c))
    /\ \A k \in Keys : WF_toolVars(WindowEnds(k))

-----------------------------------------------------------------------------

\* Of the calls a counter counts between its creation and its expiry, at most its
\* limit are let in, in any interleaving of the callers (README.md, rule 2).
WithinLimits ==
    \A k \in Keys : admitted[k] <= Limit(k)

\* A counter without a time to live is about to get one from the caller that
\* created it, unless that caller broke off between INCR and EXPIRE; another
\* caller never makes up for it (redis_rate_limiter.py, lines 17-23).
Expiring ==
    \A k \in Keys :
        count[k] > 0 /\ ~ ttl[k] =>
            k \in abandoned \/ \E c \in Callers : Creator(c, k)

\* Every window ends, so a project or a tool that hit its limit is let in again,
\* unless the creator of the counter broke off: then it may be blocked for good.
WindowsEnd ==
    \A k \in Keys : []<>(count[k] = 0 \/ k \in abandoned)

=============================================================================
