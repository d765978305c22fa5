--------------------------------- MODULE Gate ---------------------------------
(***************************************************************************)
(* What a request passes on its way to a handler of the API: the tenant    *)
(* middleware with its counter in Redis, the host check, the session; and  *)
(* the two public routes that make and end sessions, login with its        *)
(* in-process attempt limiter.                                             *)
(*                                                                         *)
(* The middleware is a coroutine that calls Redis synchronously, so the    *)
(* event loop of a process is in at most one allow() at a time; the routes *)
(* and their dependencies run in the thread pool and interleave.           *)
(***************************************************************************)
EXTENDS Naturals, FiniteSets

CONSTANTS
    Requests,       \* a login and the session it creates are one identifier
    Earlier,        \* those already answered: logins with a wrong password
    Processes,      \* API processes
    Tenants,
    Keys,           \* API keys of get_tenant_repositories()
    TenantOf,       \* the tenant of each key, None if key or tenant is inactive
    Users,          \* rows of users
    RoleOf,
    Addresses,      \* client addresses
    None,
    TenantLimit,    \* rate_limit_tenant_per_minute
    LoginLimit,     \* rate_limit_login_per_minute
    Window,         \* the 60 seconds of the login limiter
    MaxClock,       \* bound on the monotonic clock
    MayRaise        \* calls on Redis and Postgres may raise

Logins == [kind : {"login"}, process : Processes, trusted : BOOLEAN,
           address : Addresses, user : Users \cup {None}]

\* A client presents a session it was given, or none.
Logouts(given) == [kind : {"logout"}, process : Processes, trusted : BOOLEAN,
                   session : given \cup {None}]

Calls(given) == [kind : {"call"}, process : Processes, trusted : BOOLEAN,
                 key : Keys \cup {None}, session : given \cup {None}, writes : BOOLEAN]

AllRequests == Logins \cup Logouts(Requests) \cup Calls(Requests)

ASSUME GateAssumption ==
    /\ Earlier \subseteq Requests
    /\ IsFiniteSet(Earlier) /\ Cardinality(Earlier) <= LoginLimit
    /\ TenantOf \in [Keys -> Tenants \cup {None}]
    /\ None \notin Tenants \cup Keys \cup Users \cup Requests \cup AllRequests
    /\ RoleOf \in [Users -> {"admin", "operator", "viewer"}]
    /\ TenantLimit \in Nat /\ LoginLimit \in Nat
    /\ Window \in Nat \ {0} /\ MaxClock \in Nat
    /\ MayRaise \in BOOLEAN

VARIABLES
    pc,          \* where each request is
    req,         \* what it asks
    answer,      \* what it was answered
    actor,       \* the user get_current_user found
    count,       \* rl:tenant:<t>
    ttl,         \* whether that counter has a time to live
    session,     \* session:<s>, the user or None
    attempts,    \* _login_attempts of each process: the logins kept per address
    now,         \* time.monotonic()
    stamp,       \* the reading each login attempt made of it
    inWindow,    \* history: requests counted in the current window of a tenant
    abandoned,   \* history: tenants whose EXPIRE call failed
    late,        \* history: requests sent after the logout of their session
    overtaken    \* history: attempts counted after one with a later reading

tenantVars == <<count, ttl, inWindow, abandoned>>
loginVars == <<attempts, stamp, overtaken>>
vars == <<pc, req, answer, actor, session, now, late, tenantVars, loginVars>>

Places == {"client", "key", "expire", "host", "clock", "count", "verify", "save",
           "delete", "session", "handler", "done"}

Answers == {"none", "ok", "bad_key", "tenant_limit", "bad_host", "login_limit",
            "bad_login", "bad_session", "forbidden", "error"}

TypeOK ==
    /\ pc \in [Requests -> Places]
    /\ req \in [Requests -> AllRequests \cup {None}]
    /\ answer \in [Requests -> Answers]
    /\ \A r \in Requests : /\ pc[r] = "client" <=> req[r] = None
                           /\ pc[r] = "done" <=> answer[r] # "none"
    /\ actor \in [Requests -> Users \cup {None}]
    /\ count \in [Tenants -> Nat]
    /\ ttl \in [Tenants -> BOOLEAN]
    /\ session \in [Requests -> Users \cup {None}]
    /\ attempts \in [Processes -> [Addresses -> SUBSET Requests]]
    /\ now \in 0..MaxClock
    /\ stamp \in [Requests -> 0..MaxClock]
    /\ inWindow \in [Tenants -> SUBSET Requests]
    /\ \A t \in Tenants : count[t] = Cardinality(inWindow[t])
    /\ abandoned \subseteq Tenants
    /\ late \subseteq Requests
    /\ overtaken \subseteq Requests

\* The processes have been up for a while: they have counted earlier logins.
Init ==
    /\ pc = [r \in Requests |-> IF r \in Earlier THEN "done" ELSE "client"]
    /\ req \in [Requests -> Logins \cup {None}]
    /\ \A r \in Requests :
          IF r \in Earlier
          THEN req[r] # None /\ req[r].user = None /\ req[r].trusted
          ELSE req[r] = None
    /\ answer = [r \in Requests |-> IF r \in Earlier THEN "bad_login" ELSE "none"]
    /\ actor = [r \in Requests |-> None]
    /\ count = [t \in Tenants |-> 0]
    /\ ttl = [t \in Tenants |-> FALSE]
    /\ session = [r \in Requests |-> None]
    /\ attempts = [p \in Processes |-> [a \in Addresses |->
                      {r \in Earlier : req[r].process = p /\ req[r].address = a}]]
    /\ now = 0
    /\ stamp = [r \in Requests |-> 0]
    /\ inWindow = [t \in Tenants |-> {}]
    /\ abandoned = {}
    /\ late = {}
    /\ overtaken = {}

-----------------------------------------------------------------------------

Go(r, place) == pc' = [pc EXCEPT ![r] = place] /\ UNCHANGED answer

Answer(r, a) ==
    /\ pc' = [pc EXCEPT ![r] = "done"]
    /\ answer' = [answer EXCEPT ![r] = a]

\* Sessions the clients know.
Given == {s \in Requests : answer[s] = "ok" /\ req[s].kind = "login"}

LoggedOut == {req[q].session : q \in {q \in Requests :
                 answer[q] = "ok" /\ req[q].kind = "logout"}}

\* The public paths skip the middleware's checks.
Arrive(r) ==
    /\ pc[r] = "client"
    /\ \E what \in Logins \cup Logouts(Given) \cup Calls(Given) :
          /\ req' = [req EXCEPT ![r] = what]
          /\ Go(r, IF what.kind = "call" THEN "key" ELSE "host")
          /\ late' = IF what.kind = "call" /\ what.session \in LoggedOut
                     THEN late \cup {r} ELSE late
    /\ UNCHANGED <<actor, session, now, tenantVars, loginVars>>

\* ResolveTenantByApiKeyUseCase.execute
Tenant(r) == IF req[r].key = None THEN None ELSE TenantOf[req[r].key]

\* No key, an unknown key, an inactive key or tenant: 401, and nothing counted.
RefuseKey(r) ==
    /\ pc[r] = "key"
    /\ Tenant(r) = None
    /\ Answer(r, "bad_key")
    /\ UNCHANGED <<req, actor, session, now, late, tenantVars, loginVars>>

\* Slip: off by one.
WithinOneMore(n) == n <= TenantLimit + 1

Within(n) == n <= TenantLimit

Decide(r, n) == IF Within(n) THEN Go(r, "host") ELSE Answer(r, "tenant_limit")

LoopIsFree(r) ==
    \A q \in Requests : pc[q] = "expire" => req[q].process # req[r].process

\* Slip: the client of Redis repeats an INCR it believes lost.
IncrTwice(r) ==
    /\ pc[r] = "key"
    /\ Tenant(r) # None
    /\ LoopIsFree(r)
    /\ LET t == Tenant(r) IN
          /\ count' = [count EXCEPT ![t] = @ + 2]
          /\ inWindow' = [inWindow EXCEPT ![t] = @ \cup {r}]
          /\ IF count[t] = 0 THEN Go(r, "expire") ELSE Decide(r, count[t] + 1)
    /\ UNCHANGED <<req, actor, session, now, late, ttl, abandoned, loginVars>>

\* INCR; the first of a window has still to set the time to live.
Incr(r) ==
    /\ pc[r] = "key"
    /\ Tenant(r) # None
    /\ LoopIsFree(r)
    /\ LET t == Tenant(r) IN
          /\ count' = [count EXCEPT ![t] = @ + 1]
          /\ inWindow' = [inWindow EXCEPT ![t] = @ \cup {r}]
          /\ IF count[t] = 0 THEN Go(r, "expire") ELSE Decide(r, count[t] + 1)
    /\ UNCHANGED <<req, actor, session, now, late, ttl, abandoned, loginVars>>

\* Slip: the count is read again, and may have grown.
ExpireIfAlone(r) ==
    /\ pc[r] = "expire"
    /\ ttl' = [ttl EXCEPT ![Tenant(r)] = count[Tenant(r)] = 1]
    /\ Decide(r, 1)
    /\ UNCHANGED <<req, actor, session, now, late, count, inWindow, abandoned, loginVars>>

\* The request whose INCR returned 1 starts the window.
Expire(r) ==
    /\ pc[r] = "expire"
    /\ ttl' = [ttl EXCEPT ![Tenant(r)] = TRUE]
    /\ Decide(r, 1)
    /\ UNCHANGED <<req, actor, session, now, late, count, inWindow, abandoned, loginVars>>

WindowEnds(t) ==
    /\ ttl[t]
    /\ count' = [count EXCEPT ![t] = 0]
    /\ ttl' = [ttl EXCEPT ![t] = FALSE]
    /\ inWindow' = [inWindow EXCEPT ![t] = {}]
    /\ UNCHANGED <<pc, req, answer, actor, session, now, late, abandoned, loginVars>>

\* TrustedHostMiddleware, which was added first and so runs inside.
CheckHost(r) ==
    /\ pc[r] = "host"
    /\ IF req[r].trusted
       THEN Go(r, CASE req[r].kind = "login" -> "clock"
                    [] req[r].kind = "logout" -> "delete"
                    [] req[r].kind = "call" -> "session")
       ELSE Answer(r, "bad_host")
    /\ UNCHANGED <<req, actor, session, now, late, tenantVars, loginVars>>

-----------------------------------------------------------------------------

\* now = time.monotonic(), before the lock is taken.
ReadClock(r) ==
    /\ pc[r] = "clock"
    /\ stamp' = [stamp EXCEPT ![r] = now]
    /\ Go(r, "count")
    /\ UNCHANGED <<req, actor, session, now, late, tenantVars, attempts, overtaken>>

Kept(r) == attempts[req[r].process][req[r].address]

\* Slip: attempts are forgotten one tick too early.
RecentShort(r) == {q \in Kept(r) : stamp[r] + 1 < stamp[q] + Window}

\* Slip: nothing is dropped.
RecentAll(r) == Kept(r)

\* An entry with a later reading than r's own is kept.
Recent(r) == {q \in Kept(r) : stamp[r] < stamp[q] + Window}

\* The body of the lock: drop the old attempts, add this one, compare.
CountAttempt(r) ==
    /\ pc[r] = "count"
    /\ LET kept == Recent(r) \cup {r} IN
          /\ attempts' = [attempts EXCEPT ![req[r].process][req[r].address] = kept]
          /\ IF Cardinality(kept) <= LoginLimit THEN Go(r, "verify") ELSE Answer(r, "login_limit")
    /\ overtaken' = IF \E q \in Kept(r) : stamp[r] < stamp[q] THEN overtaken \cup {r} ELSE overtaken
    /\ UNCHANGED <<req, actor, session, now, late, tenantVars, stamp>>

\* No such user, or another password: the same answer.
Verify(r) ==
    /\ pc[r] = "verify"
    /\ IF req[r].user = None THEN Answer(r, "bad_login") ELSE Go(r, "save")
    /\ UNCHANGED <<req, actor, session, now, late, tenantVars, loginVars>>

\* SETEX of a fresh session id.
SaveSession(r) ==
    /\ pc[r] = "save"
    /\ session' = [session EXCEPT ![r] = req[r].user]
    /\ Answer(r, "ok")
    /\ UNCHANGED <<req, actor, now, late, tenantVars, loginVars>>

\* Slip: the session is left to its time to live.
LogoutLeavesSession(r) ==
    /\ pc[r] = "delete"
    /\ Answer(r, IF req[r].session = None THEN "bad_session" ELSE "ok")
    /\ UNCHANGED <<req, actor, session, now, late, tenantVars, loginVars>>

\* Any session may be given up, the unknown and the expired ones too.
Logout(r) ==
    /\ pc[r] = "delete"
    /\ IF req[r].session = None
       THEN Answer(r, "bad_session") /\ UNCHANGED session
       ELSE Answer(r, "ok") /\ session' = [session EXCEPT ![req[r].session] = None]
    /\ UNCHANGED <<req, actor, now, late, tenantVars, loginVars>>

SessionExpires(s) ==
    /\ session[s] # None
    /\ session' = [session EXCEPT ![s] = None]
    /\ UNCHANGED <<pc, req, answer, actor, now, late, tenantVars, loginVars>>

\* get_current_user; the row of a user who could log in is there.
CurrentUser(r) ==
    /\ pc[r] = "session"
    /\ LET user == IF req[r].session = None THEN None ELSE session[req[r].session] IN
          /\ actor' = [actor EXCEPT ![r] = user]
          /\ IF user = None THEN Answer(r, "bad_session") ELSE Go(r, "handler")
    /\ UNCHANGED <<req, session, now, late, tenantVars, loginVars>>

\* ensure_role, then the use case.
Handle(r) ==
    /\ pc[r] = "handler"
    /\ Answer(r, IF req[r].writes /\ RoleOf[actor[r]] = "viewer" THEN "forbidden" ELSE "ok")
    /\ UNCHANGED <<req, actor, session, now, late, tenantVars, loginVars>>

\* A call on Redis or Postgres raises: 503 from login, 500 elsewhere.
Raise(r) ==
    /\ MayRaise
    /\ \/ pc[r] \in {"expire", "verify", "save", "delete", "session", "handler"}
       \/ pc[r] = "key" /\ Tenant(r) # None
    /\ Answer(r, "error")
    /\ abandoned' = IF pc[r] = "expire" THEN abandoned \cup {Tenant(r)} ELSE abandoned
    /\ UNCHANGED <<req, actor, session, now, late, count, ttl, inWindow, loginVars>>

RequestStep(r) ==
    \/ RefuseKey(r) \/ Incr(r) \/ Expire(r) \/ CheckHost(r)
    \/ ReadClock(r) \/ CountAttempt(r) \/ Verify(r) \/ SaveSession(r)
    \/ Logout(r) \/ CurrentUser(r) \/ Handle(r)

Tick ==
    /\ now < MaxClock
    /\ now' = now + 1
    /\ UNCHANGED <<pc, req, answer, actor, session, late, tenantVars, loginVars>>

AllAnswered ==
    /\ \A r \in Requests : pc[r] = "done"
    /\ UNCHANGED vars

Next ==
    \/ \E r \in Requests : Arrive(r) \/ RequestStep(r) \/ Raise(r)
    \/ \E t \in Tenants : WindowEnds(t)
    \/ \E s \in Requests : SessionExpires(s)
    \/ Tick
    \/ AllAnswered

Spec == Init /\ [][Next]_vars

-----------------------------------------------------------------------------

PassedTenantLimit(r) ==
    pc[r] \notin {"client", "key", "expire"} /\ answer[r] # "tenant_limit"

\* However the requests of a tenant interleave, over any number of processes
\* and across the ends of windows, no more than its limit of one window pass and
\* are served without an exception (redis_tenant_rate_limiter.py, lines 15-20).
\* An exception leaves open whether the request had passed: EXPIRE, which comes
\* before the comparison, may have raised it.
TenantWithinLimit ==
    \A t \in Tenants :
        Cardinality({r \in inWindow[t] : PassedTenantLimit(r) /\ answer[r] # "error"})
            <= TenantLimit

\* A tenant is never locked out for good: its counter has a time to live, or
\* the request that created it is about to set one, unless that call failed
\* (lines 17-19: two calls on Redis, not one).
CounterEnds ==
    \A t \in Tenants \ abandoned :
        count[t] > 0 => ttl[t] \/ \E r \in Requests : pc[r] = "expire" /\ Tenant(r) = t

IsLogin(r) == req[r] # None /\ req[r].kind = "login"

SameLimiter(q, r) == req[q].process = req[r].process /\ req[q].address = req[r].address

LetIn(r) ==
    /\ IsLogin(r)
    /\ \/ pc[r] \in {"verify", "save"}
       \/ answer[r] \in {"ok", "bad_login", "error"}

\* At most LoginLimit attempts of an address are let in within a window, of
\* those counted in the order of their clock readings.  The reading is taken
\* before the lock (auth.py, lines 22-24), so one that is overtaken can find
\* the list already cleared by a later reading, and comes on top.
LoginWithinWindow ==
    \A r \in Requests \ overtaken : LetIn(r) =>
        Cardinality({q \in Requests \ overtaken :
            LetIn(q) /\ SameLimiter(q, r) /\ stamp[q] <= stamp[r] /\ stamp[r] < stamp[q] + Window})
        <= LoginLimit

\* A login that the limiter has counted.
Judged(q) ==
    /\ IsLogin(q)
    /\ \/ pc[q] \in {"verify", "save"}
       \/ answer[q] \in {"ok", "bad_login", "error", "login_limit"}

\* An attempt is refused only if as many others of its address, refused ones
\* included, were counted with readings less than a window before its own: old
\* attempts, other addresses and other processes never keep a client out.  Later
\* readings count as well, but only against an attempt that they overtook on the
\* way to the lock (auth.py, lines 22-30).
RefusedOnlyIfBusy ==
    \A r \in Requests : answer[r] = "login_limit" =>
        Cardinality({q \in Requests \ {r} :
            /\ Judged(q) /\ SameLimiter(q, r)
            /\ stamp[r] < stamp[q] + Window
            /\ stamp[q] <= stamp[r] \/ r \in overtaken}) >= LoginLimit

\* A request sent after the logout of its session was answered reaches no
\* handler, whatever was still on its way when the session ended (auth.py,
\* lines 56-64; dependencies.py, lines 222-231).
NoUseAfterLogout ==
    \A r \in late : pc[r] # "handler" /\ answer[r] \notin {"ok", "forbidden"}

\* main.py, line 24: "TrustedHostMiddleware runs outermost - rejects requests
\* with invalid Host header before any processing".
HostBeforeProcessing ==
    \A t \in Tenants : \A r \in inWindow[t] : req[r].trusted

=============================================================================
