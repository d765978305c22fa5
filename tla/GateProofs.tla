------------------------------ MODULE GateProofs ------------------------------
(***************************************************************************)
(* For any number of requests, processes, tenants and addresses: a tenant  *)
(* stays within its limit, its counter always has an end, no request sent  *)
(* after a logout reaches a handler, and the login limiter lets in and     *)
(* refuses whom it should.                                                 *)
(***************************************************************************)
EXTENDS Gate, FiniteSetTheorems, TLAPS

\* What a request is, given where it is; a session was known when presented.
Fits(r) ==
    /\ pc[r] \in {"key", "expire", "session", "handler"} => req[r] \in Calls(Requests)
    /\ pc[r] \in {"clock", "count", "verify", "save"} => req[r] \in Logins
    /\ pc[r] = "delete" => req[r] \in Logouts(Requests)
    /\ pc[r] = "handler" => actor[r] \in Users
    /\ pc[r] = "expire" => Tenant(r) \in Tenants
    /\ req[r] # None /\ req[r].kind = "logout" /\ req[r].session # None
         => pc[req[r].session] = "done"

Shape ==
    /\ pc \in [Requests -> Places]
    /\ req \in [Requests -> AllRequests \cup {None}]
    /\ answer \in [Requests -> Answers]
    /\ \A r \in Requests : /\ pc[r] = "client" <=> req[r] = None
                           /\ pc[r] = "done" <=> answer[r] # "none"
    /\ actor \in [Requests -> Users \cup {None}]
    /\ count \in [Tenants -> Nat]
    /\ ttl \in [Tenants -> BOOLEAN]
    /\ session \in [Requests -> Users \cup {None}]
    /\ inWindow \in [Tenants -> SUBSET Requests]
    /\ abandoned \subseteq Tenants
    /\ late \subseteq Requests
    /\ \A r \in Requests : Fits(r)

\* The requests that passed the tenant's limit in this window, and those that
\* did and may still fail to set the time to live.
Passed(t) == {r \in inWindow[t] : PassedTenantLimit(r) /\ answer[r] # "error"}
Counted(t) == Passed(t) \cup {r \in inWindow[t] : pc[r] = "expire"}

Bound == IF TenantLimit = 0 THEN 1 ELSE TenantLimit

\* The count is the number of the requests counted, so one that reads a count
\* within the limit finds fewer than the limit before it.
InWindow(t) ==
    /\ IsFiniteSet(inWindow[t])
    /\ count[t] = Cardinality(inWindow[t])
    /\ \A r \in inWindow[t] : pc[r] \notin {"client", "key"}
    /\ Cardinality(Counted(t)) <= Bound
    /\ TenantLimit = 0 => Passed(t) = {}

Ends(t) == count[t] > 0 => ttl[t] \/ \E r \in Requests : pc[r] = "expire" /\ Tenant(r) = t

TenantInv == \A t \in Tenants : InWindow(t) /\ (t \in abandoned \/ Ends(t))

\* A session that was logged out is gone and its login is over, so nothing can
\* bring it back.
Gone(s) == s \in Requests /\ session[s] = None /\ pc[s] = "done"

SessionInv ==
    /\ \A s \in LoggedOut : Gone(s)
    /\ \A r \in late : /\ req[r] \in Calls(Requests)
                       /\ req[r].session \in LoggedOut
    /\ NoUseAfterLogout

Inv == Shape /\ TenantInv /\ SessionInv

-----------------------------------------------------------------------------

LEMMA Kinds ==
    ASSUME NEW q \in AllRequests
    PROVE  /\ q \in Logins <=> q.kind = "login"
           /\ q \in Logouts(Requests) <=> q.kind = "logout"
           /\ q \in Calls(Requests) <=> q.kind = "call"
  BY DEF AllRequests, Logins, Logouts, Calls

LEMMA TenantType ==
    ASSUME NEW r \in Requests, req[r] \in Calls(Requests)
    PROVE  Tenant(r) \in Tenants \cup {None}
  BY GateAssumption DEF Tenant, Calls

\* A request under way moves, or is answered; the others stay where they are.
Moves(r, place) ==
    /\ pc[r] # "done"
    /\ pc' = [pc EXCEPT ![r] = place]
    /\ \/ place # "done" /\ answer' = answer
       \/ place = "done" /\ \E a \in Answers \ {"none"} : answer' = [answer EXCEPT ![r] = a]

LEMMA ShapeMoves ==
    ASSUME Shape, NEW r \in Requests, NEW place \in Places \ {"client"},
           Moves(r, place), pc[r] # "client", req' = req,
           \A q \in Requests \ {r} : actor'[q] = actor[q],
           place \in {"key", "expire", "session", "handler"} => req[r] \in Calls(Requests),
           place \in {"clock", "count", "verify", "save"} => req[r] \in Logins,
           place = "delete" => req[r] \in Logouts(Requests),
           place = "handler" => actor'[r] \in Users,
           place = "expire" => Tenant(r) \in Tenants
    PROVE  /\ pc' \in [Requests -> Places]
           /\ answer' \in [Requests -> Answers]
           /\ \A q \in Requests : /\ pc'[q] = "client" <=> req'[q] = None
                                  /\ pc'[q] = "done" <=> answer'[q] # "none"
           /\ \A q \in Requests : Fits(q)'
<1>1. pc' \in [Requests -> Places] /\ answer' \in [Requests -> Answers]
  BY DEF Shape, Moves
<1>2. ASSUME NEW q \in Requests
      PROVE  /\ pc'[q] = "client" <=> req'[q] = None
             /\ pc'[q] = "done" <=> answer'[q] # "none"
  BY DEF Shape, Moves
<1>3. ASSUME NEW q \in Requests PROVE Fits(q)'
  <2>1. Fits(q) /\ pc \in [Requests -> Places]
    BY DEF Shape
  <2>2. pc'[r] = place /\ \A s \in Requests \ {r} : pc'[s] = pc[s]
    BY <2>1 DEF Moves
  <2>3. \A s : pc[s] = "done" => s # r
    BY DEF Moves
  <2>4. req[q] # None /\ req[q].kind = "logout" /\ req[q].session # None
          => pc'[req[q].session] = "done"
    <3> SUFFICES ASSUME req[q] # None, req[q].kind = "logout", req[q].session # None
                 PROVE  pc'[req[q].session] = "done"
      OBVIOUS
    <3>1. pc[req[q].session] = "done"
      BY <2>1 DEF Fits
    <3>2. req[q].session \in Requests
      <4>1. req[q] \in AllRequests
        BY DEF Shape
      <4> QED
        BY <4>1, Kinds DEF Logouts
    <3> QED
      BY <2>2, <2>3, <3>1, <3>2
  <2>5. Tenant(q)' = Tenant(q)
    BY DEF Tenant
  <2>6. CASE q = r
    BY <2>2, <2>4, <2>5, <2>6 DEF Fits
  <2>7. CASE q # r
    BY <2>1, <2>2, <2>4, <2>5, <2>7 DEF Fits
  <2> QED
    BY <2>6, <2>7
<1> QED
  BY <1>1, <1>2, <1>3

\* A request that neither is nor becomes the one to set a time to live leaves
\* the counters' invariant alone.
LEMMA TenantMoves ==
    ASSUME Shape, TenantInv, NEW r \in Requests, NEW place \in Places,
           Moves(r, place), pc[r] # "expire", place \notin {"client", "expire"},
           place = "key" => pc[r] = "client",
           \A q \in Requests \ {r} : req'[q] = req[q],
           UNCHANGED tenantVars
    PROVE  TenantInv'
<1> SUFFICES ASSUME NEW t \in Tenants PROVE InWindow(t)' /\ (t \in abandoned' \/ Ends(t)')
  BY DEF TenantInv
<1>1. InWindow(t) /\ (t \in abandoned \/ Ends(t))
  BY DEF TenantInv
<1>2. pc'[r] = place /\ \A q \in Requests \ {r} : pc'[q] = pc[q] /\ answer'[q] = answer[q]
  BY DEF Shape, Moves
<1>3. count' = count /\ ttl' = ttl /\ inWindow' = inWindow /\ abandoned' = abandoned
  BY DEF tenantVars
<1>4. inWindow[t] \subseteq Requests
  BY DEF Shape
<1>5. r \in inWindow[t] => pc[r] \notin {"client", "key", "expire", "done"} /\ answer[r] = "none"
  BY <1>1 DEF InWindow, Moves, Shape
<1>6. Passed(t)' \subseteq Passed(t) /\ Counted(t)' \subseteq Counted(t)
  <2>1. \A q \in inWindow[t] : q # r => (pc'[q] = pc[q] /\ answer'[q] = answer[q])
    BY <1>2, <1>4
  <2>2. r \in inWindow[t] => r \in Passed(t)
    BY <1>5 DEF Passed, PassedTenantLimit
  <2>3. Passed(t)' \subseteq Passed(t)
    BY <1>3, <2>1, <2>2 DEF Passed, PassedTenantLimit
  <2> QED
    BY <1>2, <1>3, <1>4, <2>1, <2>3 DEF Counted
<1>7. Cardinality(Counted(t)') <= Bound
  <2>1. IsFiniteSet(Counted(t))
    BY <1>1, FS_Subset DEF InWindow, Counted, Passed
  <2>2. Cardinality(Counted(t)') <= Cardinality(Counted(t))
    BY <1>6, <2>1, FS_Subset
  <2>3. Cardinality(Counted(t)) \in Nat /\ Cardinality(Counted(t)') \in Nat
    BY <1>6, <2>1, FS_Subset, FS_CardinalityType
  <2> QED
    BY <1>1, <2>2, <2>3, GateAssumption DEF InWindow, Bound
<1>8. InWindow(t)'
  <2>1. \A q \in inWindow[t] : pc'[q] \notin {"client", "key"}
    BY <1>1, <1>2, <1>4, <1>5 DEF InWindow
  <2> QED
    BY <1>1, <1>3, <1>6, <1>7, <2>1 DEF InWindow, Bound
<1>9. t \in abandoned' \/ Ends(t)'
  BY <1>1, <1>2, <1>3 DEF Ends, Tenant
<1> QED
  BY <1>8, <1>9

\* A request that does not end a session, and no finished login restores one.
LEMMA SessionMoves ==
    ASSUME Shape, SessionInv, NEW r \in Requests, NEW place \in Places,
           Moves(r, place), pc[r] # "client", req' = req, late' = late,
           ~ (answer'[r] = "ok" /\ req[r] \in Logouts(Requests)),
           r \in late => place # "handler" /\ answer'[r] \notin {"ok", "forbidden"},
           \A s \in Requests : pc[s] = "done" => session'[s] \in {session[s], None}
    PROVE  SessionInv'
<1>1. pc'[r] = place /\ \A q \in Requests \ {r} : pc'[q] = pc[q] /\ answer'[q] = answer[q]
  BY DEF Shape, Moves
<1>2. answer[r] = "none" /\ pc[r] # "done"
  BY DEF Shape, Moves
<1>3. answer'[r] = "ok" => req[r].kind # "logout"
  <2>1. req[r] \in AllRequests
    BY DEF Shape
  <2> QED
    BY <2>1, Kinds
<1>4. LoggedOut' = LoggedOut
  BY <1>1, <1>2, <1>3 DEF LoggedOut
<1>5. \A s \in LoggedOut : Gone(s)'
  <2> SUFFICES ASSUME NEW s \in LoggedOut PROVE Gone(s)'
    OBVIOUS
  <2>1. s \in Requests /\ session[s] = None /\ pc[s] = "done"
    BY DEF SessionInv, Gone
  <2> QED
    BY <1>1, <1>2, <2>1 DEF Gone
<1>6. NoUseAfterLogout'
  BY <1>1 DEF NoUseAfterLogout, SessionInv, Shape
<1> QED
  BY <1>4, <1>5, <1>6 DEF SessionInv

LEMMA InitInv == Init => Inv
<1> SUFFICES ASSUME Init PROVE Inv
  OBVIOUS
<1>1. \A r \in Requests : req[r] # None => pc[r] = "done" /\ req[r] \in Logins
  BY GateAssumption DEF Init
<1>2. \A q \in Logins : q \in AllRequests /\ q # None /\ q.kind = "login"
  BY GateAssumption DEF AllRequests, Logins
<1>3. Shape
  <2>1. \A r \in Requests : Fits(r)
    BY <1>1, <1>2 DEF Init, Fits
  <2>2. req \in [Requests -> AllRequests \cup {None}]
    BY <1>2 DEF Init
  <2>3. \A r \in Requests : /\ pc[r] = "client" <=> req[r] = None
                            /\ pc[r] = "done" <=> answer[r] # "none"
    BY DEF Init
  <2> QED
    BY <2>1, <2>2, <2>3 DEF Init, Shape, Places, Answers
<1>4. TenantInv
  <2> SUFFICES ASSUME NEW t \in Tenants PROVE InWindow(t) /\ Ends(t)
    BY DEF TenantInv
  <2>1. inWindow[t] = {} /\ count[t] = 0
    BY DEF Init
  <2>2. Passed(t) = {} /\ Counted(t) = {}
    BY <2>1 DEF Passed, Counted
  <2> QED
    BY <2>1, <2>2, FS_EmptySet, GateAssumption DEF InWindow, Ends, Bound
<1>5. LoggedOut = {}
  BY DEF Init, LoggedOut
<1>6. SessionInv
  BY <1>5 DEF Init, SessionInv, NoUseAfterLogout
<1> QED
  BY <1>3, <1>4, <1>6 DEF Inv

-----------------------------------------------------------------------------

\* The variables that a move of a request leaves alone keep their types.
LEMMA ShapeRest ==
    ASSUME Shape, UNCHANGED <<req, session, late>>, UNCHANGED tenantVars,
           pc' \in [Requests -> Places], answer' \in [Requests -> Answers],
           actor' \in [Requests -> Users \cup {None}],
           \A q \in Requests : /\ pc'[q] = "client" <=> req'[q] = None
                               /\ pc'[q] = "done" <=> answer'[q] # "none",
           \A q \in Requests : Fits(q)'
    PROVE  Shape'
  BY DEF Shape, tenantVars

\* Steps that change nothing but where a request is and what it was answered.
LEMMA PlainMoves ==
    ASSUME Inv, NEW r \in Requests, NEW place \in Places,
           Moves(r, place), pc[r] \notin {"client", "expire"},
           place \notin {"client", "key", "expire", "handler"},
           UNCHANGED <<req, actor, session, late>>, UNCHANGED tenantVars,
           place = "session" => req[r] \in Calls(Requests),
           place \in {"clock", "count", "verify", "save"} => req[r] \in Logins,
           place = "delete" => req[r] \in Logouts(Requests),
           answer'[r] \in {"ok", "forbidden"} => pc[r] = "handler"
    PROVE  Inv'
<1>1. Shape /\ TenantInv /\ SessionInv
  BY DEF Inv
<1>2. /\ pc' \in [Requests -> Places]
      /\ answer' \in [Requests -> Answers]
      /\ \A q \in Requests : /\ pc'[q] = "client" <=> req'[q] = None
                             /\ pc'[q] = "done" <=> answer'[q] # "none"
      /\ \A q \in Requests : Fits(q)'
  BY <1>1, ShapeMoves
<1>3. Shape'
  BY <1>1, <1>2, ShapeRest DEF Shape
<1>4. TenantInv'
  BY <1>1, TenantMoves
<1>5. r \in late => answer'[r] \notin {"ok", "forbidden"}
  BY <1>1 DEF SessionInv, NoUseAfterLogout
<1>6. ~ (answer'[r] = "ok" /\ req[r] \in Logouts(Requests))
  <2> SUFFICES ASSUME answer'[r] = "ok" PROVE req[r] \notin Logouts(Requests)
    OBVIOUS
  <2>1. req[r] \in Calls(Requests)
    BY <1>1 DEF Shape, Fits
  <2> QED
    BY <2>1 DEF Calls, Logouts
<1>7. SessionInv'
  BY <1>1, <1>5, <1>6, SessionMoves
<1> QED
  BY <1>3, <1>4, <1>7 DEF Inv

PlainStep(r) ==
    \/ RefuseKey(r) \/ CheckHost(r) \/ ReadClock(r) \/ CountAttempt(r)
    \/ Verify(r) \/ Handle(r)
    \/ Raise(r) /\ pc[r] # "expire"

LEMMA PlainSteps == ASSUME Inv, NEW r \in Requests, PlainStep(r) PROVE Inv'
<1> DEFINE Rest == UNCHANGED <<req, actor, session, late>> /\ UNCHANGED tenantVars
<1>1. Shape /\ req[r] \in AllRequests \cup {None} /\ Fits(r)
  BY DEF Inv, Shape
<1>2. pc[r] # "client" => req[r] \in AllRequests
  BY <1>1 DEF Shape
<1>3. ASSUME NEW a \in Answers \ {"none"}, Answer(r, a), Rest,
             pc[r] \notin {"client", "expire", "done"},
             a \in {"ok", "forbidden"} => pc[r] = "handler"
      PROVE  Inv'
  <2>1. Moves(r, "done") /\ answer'[r] = a
    BY <1>1, <1>3 DEF Moves, Answer, Shape
  <2> QED
    BY <1>3, <2>1, PlainMoves DEF Places
<1>4. ASSUME NEW place \in Places, Go(r, place), Rest,
             pc[r] \notin {"client", "expire", "done"},
             place \notin {"client", "key", "expire", "handler", "done"},
             place = "session" => req[r] \in Calls(Requests),
             place \in {"clock", "count", "verify", "save"} => req[r] \in Logins,
             place = "delete" => req[r] \in Logouts(Requests)
      PROVE  Inv'
  <2>1. Moves(r, place) /\ answer' = answer
    BY <1>4 DEF Moves, Go
  <2>2. answer'[r] = "none"
    BY <1>1, <1>4, <2>1 DEF Shape
  <2> QED
    BY <1>4, <2>1, <2>2, PlainMoves
<1>5. CASE RefuseKey(r)
  BY <1>3, <1>5 DEF RefuseKey, Answers, loginVars
<1>6. CASE CheckHost(r)
  <2>1. pc[r] = "host" /\ Rest
    BY <1>6 DEF CheckHost
  <2>2. CASE ~ req[r].trusted
    <3>1. Answer(r, "bad_host")
      BY <1>6, <2>2 DEF CheckHost
    <3> QED
      BY <1>3, <2>1, <3>1 DEF Answers
  <2>3. CASE req[r].trusted /\ req[r] \in Logins
    <3>1. Go(r, "clock")
      BY <1>6, <2>3 DEF CheckHost, Logins
    <3> QED
      BY <1>4, <2>1, <2>3, <3>1 DEF Places
  <2>4. CASE req[r].trusted /\ req[r] \in Logouts(Requests)
    <3>1. Go(r, "delete")
      BY <1>6, <2>4 DEF CheckHost, Logouts
    <3> QED
      BY <1>4, <2>1, <2>4, <3>1 DEF Places
  <2>5. CASE req[r].trusted /\ req[r] \in Calls(Requests)
    <3>1. Go(r, "session")
      BY <1>6, <2>5 DEF CheckHost, Calls
    <3> QED
      BY <1>4, <2>1, <2>5, <3>1 DEF Places
  <2> QED
    BY <1>2, <2>1, <2>2, <2>3, <2>4, <2>5 DEF AllRequests
<1>7. CASE ReadClock(r)
  BY <1>1, <1>4, <1>7 DEF ReadClock, Fits, Places
<1>8. CASE CountAttempt(r)
  <2>1. pc[r] = "count" /\ Rest /\ req[r] \in Logins
    BY <1>1, <1>8 DEF CountAttempt, Fits
  <2>2. Go(r, "verify") \/ Answer(r, "login_limit")
    BY <1>8 DEF CountAttempt
  <2>3. CASE Go(r, "verify")
    BY <1>4, <2>1, <2>3 DEF Places
  <2>4. CASE Answer(r, "login_limit")
    BY <1>3, <2>1, <2>4 DEF Answers
  <2> QED
    BY <2>2, <2>3, <2>4
<1>9. CASE Verify(r)
  <2>1. pc[r] = "verify" /\ Rest /\ req[r] \in Logins
    BY <1>1, <1>9 DEF Verify, Fits
  <2>2. Answer(r, "bad_login") \/ Go(r, "save")
    BY <1>9 DEF Verify
  <2>3. CASE Answer(r, "bad_login")
    BY <1>3, <2>1, <2>3 DEF Answers
  <2>4. CASE Go(r, "save")
    BY <1>4, <2>1, <2>4 DEF Places
  <2> QED
    BY <2>2, <2>3, <2>4
<1>10. CASE Handle(r)
  <2>1. PICK a \in {"ok", "forbidden"} : Answer(r, a)
    BY <1>10 DEF Handle
  <2> QED
    BY <1>3, <1>10, <2>1 DEF Handle, Answers
<1>11. CASE Raise(r) /\ pc[r] # "expire"
  <2>1. Answer(r, "error") /\ Rest /\ pc[r] \notin {"client", "expire", "done"}
    BY <1>11 DEF Raise, tenantVars
  <2> QED
    BY <1>3, <2>1 DEF Answers
<1> QED
  BY <1>5, <1>6, <1>7, <1>8, <1>9, <1>10, <1>11 DEF PlainStep

LEMMA ArriveStep == ASSUME Inv, NEW r \in Requests, Arrive(r) PROVE Inv'
<1>1. Shape /\ TenantInv /\ SessionInv
  BY DEF Inv
<1>2. PICK what \in Logins \cup Logouts(Given) \cup Calls(Given) :
         /\ req' = [req EXCEPT ![r] = what]
         /\ Go(r, IF what.kind = "call" THEN "key" ELSE "host")
         /\ late' = IF what.kind = "call" /\ what.session \in LoggedOut
                    THEN late \cup {r} ELSE late
  BY DEF Arrive
<1>3. /\ pc[r] = "client" /\ answer[r] = "none" /\ answer' = answer /\ actor' = actor
      /\ session' = session /\ UNCHANGED tenantVars
  BY <1>1, <1>2 DEF Arrive, Go, Shape
<1>4. Given \subseteq Requests /\ \A s \in Given : pc[s] = "done"
  BY <1>1 DEF Given, Shape
<1>5. what \in AllRequests /\ what # None
  BY <1>4, GateAssumption DEF AllRequests, Logouts, Calls
<1>6. /\ what.kind = "logout" /\ what.session # None => pc[what.session] = "done"
      /\ what.kind = "call" => what \in Calls(Requests)
  BY <1>4, <1>5, Kinds DEF Logins, Logouts, Calls
<1>7. PICK place \in {"key", "host"} :
         pc' = [pc EXCEPT ![r] = place] /\ (place = "key" => what \in Calls(Requests))
  BY <1>2, <1>6 DEF Go
<1>8. /\ pc'[r] = place /\ req'[r] = what
      /\ \A q \in Requests \ {r} : pc'[q] = pc[q] /\ req'[q] = req[q]
      /\ \A q : pc[q] = "done" => q # r
  BY <1>1, <1>2, <1>3, <1>7 DEF Shape
<1>9. Shape'
  <2>1. ASSUME NEW q \in Requests PROVE Fits(q)'
    <3>1. Fits(q)
      BY <1>1 DEF Shape
    <3>2. CASE q = r
      <4>1. what.kind = "logout" /\ what.session # None => pc'[what.session] = "done"
        <5> SUFFICES ASSUME what.kind = "logout", what.session # None
                     PROVE  pc'[what.session] = "done"
          OBVIOUS
        <5>1. what.session \in Requests
          BY <1>5, Kinds DEF Logouts
        <5> QED
          BY <5>1, <1>6, <1>8
      <4> QED
        BY <1>7, <1>8, <3>2, <4>1 DEF Fits
    <3>3. CASE q # r
      <4>1. req[q] # None /\ req[q].kind = "logout" /\ req[q].session # None
              => pc'[req[q].session] = "done"
        <5> SUFFICES ASSUME req[q] # None, req[q].kind = "logout", req[q].session # None
                     PROVE  pc'[req[q].session] = "done"
          OBVIOUS
        <5>1. req[q] \in AllRequests
          BY <1>1 DEF Shape
        <5>2. req[q].session \in Requests
          BY <5>1, Kinds DEF Logouts
        <5> QED
          BY <3>1, <5>2, <1>8 DEF Fits
      <4> QED
        BY <1>3, <1>8, <3>1, <3>3, <4>1 DEF Fits, Tenant
    <3> QED
      BY <3>2, <3>3
  <2>2. ASSUME NEW q \in Requests
        PROVE  /\ pc'[q] = "client" <=> req'[q] = None
               /\ pc'[q] = "done" <=> answer'[q] # "none"
    BY <1>1, <1>3, <1>5, <1>8 DEF Shape
  <2>3. pc' \in [Requests -> Places] /\ req' \in [Requests -> AllRequests \cup {None}]
    BY <1>1, <1>2, <1>5, <1>7 DEF Shape, Places
  <2>4. late' \subseteq Requests
    BY <1>1, <1>2 DEF Shape
  <2> QED
    BY <1>1, <1>3, <2>1, <2>2, <2>3, <2>4 DEF Shape, tenantVars
<1>10. TenantInv'
  <2>1. Moves(r, place)
    BY <1>3, <1>7 DEF Moves
  <2> QED
    BY <1>1, <1>3, <1>8, <2>1, TenantMoves DEF Places
<1>11. LoggedOut' = LoggedOut
  BY <1>3, <1>8 DEF LoggedOut
<1>12. SessionInv'
  <2>1. \A s \in LoggedOut' : Gone(s)'
    BY <1>1, <1>3, <1>8, <1>11 DEF SessionInv, Gone
  <2>2. ASSUME NEW q \in late'
        PROVE  /\ req'[q] \in Calls(Requests) /\ req'[q].session \in LoggedOut'
               /\ pc'[q] # "handler" /\ answer'[q] \notin {"ok", "forbidden"}
    <3>1. CASE q # r
      BY <1>1, <1>2, <1>3, <1>8, <1>11, <3>1 DEF SessionInv, NoUseAfterLogout, Shape
    <3>2. CASE q = r /\ r \notin late
      BY <1>2, <1>3, <1>6, <1>8, <1>11, <3>2
    <3>3. CASE q = r /\ r \in late
      <4>1. req[r] \in Calls(Requests) /\ req[r] = None
        BY <1>1, <1>3, <3>3 DEF SessionInv, Shape
      <4> QED
        BY <4>1, GateAssumption DEF AllRequests
    <3> QED
      BY <3>1, <3>2, <3>3
  <2> QED
    BY <2>1, <2>2 DEF SessionInv, NoUseAfterLogout
<1> QED
  BY <1>9, <1>10, <1>12 DEF Inv

\* The steps that make, use and end a session.
LEMMA SaveSessionStep == ASSUME Inv, NEW r \in Requests, SaveSession(r) PROVE Inv'
<1>1. Shape /\ TenantInv /\ SessionInv /\ Fits(r)
  BY DEF Inv, Shape
<1>2. /\ pc[r] = "save" /\ session' = [session EXCEPT ![r] = req[r].user]
      /\ Answer(r, "ok") /\ UNCHANGED <<req, actor, late>> /\ UNCHANGED tenantVars
  BY DEF SaveSession
<1>3. Moves(r, "done") /\ req[r] \in Logins
  BY <1>1, <1>2 DEF Moves, Answer, Answers, Fits
<1>4. Shape'
  <2>1. session' \in [Requests -> Users \cup {None}]
    BY <1>1, <1>2, <1>3 DEF Shape, Logins
  <2>2. /\ pc' \in [Requests -> Places]
        /\ answer' \in [Requests -> Answers]
        /\ \A q \in Requests : /\ pc'[q] = "client" <=> req'[q] = None
                               /\ pc'[q] = "done" <=> answer'[q] # "none"
        /\ \A q \in Requests : Fits(q)'
    BY <1>1, <1>2, <1>3, ShapeMoves DEF Places
  <2> QED
    BY <1>1, <1>2, <2>1, <2>2 DEF Shape, tenantVars
<1>5. TenantInv'
  BY <1>1, <1>2, <1>3, TenantMoves DEF Places
<1>6. r \notin late /\ req[r] \notin Logouts(Requests)
  BY <1>1, <1>3 DEF SessionInv, Logins, Calls, Logouts
<1>7. SessionInv'
  <2>1. \A s \in Requests : pc[s] = "done" => session'[s] \in {session[s], None}
    BY <1>1, <1>2 DEF Shape
  <2> QED
    BY <1>1, <1>2, <1>3, <1>6, <2>1, SessionMoves DEF Places
<1> QED
  BY <1>4, <1>5, <1>7 DEF Inv

LEMMA LogoutStep == ASSUME Inv, NEW r \in Requests, Logout(r) PROVE Inv'
<1>1. Shape /\ TenantInv /\ SessionInv /\ Fits(r)
  BY DEF Inv, Shape
<1>2. /\ pc[r] = "delete" /\ UNCHANGED <<req, actor, late>> /\ UNCHANGED tenantVars
      /\ req[r] \in Logouts(Requests)
  BY <1>1 DEF Logout, Fits
<1>3. PICK a \in {"ok", "bad_session"} :
         /\ Answer(r, a)
         /\ a = "ok" => /\ req[r].session # None
                        /\ session' = [session EXCEPT ![req[r].session] = None]
         /\ a = "bad_session" => session' = session
  BY DEF Logout
<1>4. Moves(r, "done") /\ answer'[r] = a
  BY <1>1, <1>2, <1>3 DEF Moves, Answer, Answers, Shape
<1>5. \A s \in Requests : session'[s] \in {session[s], None}
  BY <1>1, <1>3 DEF Shape
<1>6. Shape'
  <2>1. session' \in [Requests -> Users \cup {None}]
    BY <1>1, <1>3, <1>5 DEF Shape
  <2>2. /\ pc' \in [Requests -> Places]
        /\ answer' \in [Requests -> Answers]
        /\ \A q \in Requests : /\ pc'[q] = "client" <=> req'[q] = None
                               /\ pc'[q] = "done" <=> answer'[q] # "none"
        /\ \A q \in Requests : Fits(q)'
    BY <1>1, <1>2, <1>4, ShapeMoves DEF Places
  <2> QED
    BY <1>1, <1>2, <2>1, <2>2 DEF Shape, tenantVars
<1>7. TenantInv'
  BY <1>1, <1>2, <1>4, TenantMoves DEF Places
<1>8. r \notin late
  BY <1>1, <1>2 DEF SessionInv, Calls, Logouts
<1>9. SessionInv'
  <2>1. CASE a = "bad_session"
    BY <1>1, <1>2, <1>4, <1>5, <1>8, <2>1, SessionMoves DEF Places
  <2>2. CASE a = "ok"
    <3>1. /\ req[r].session \in Requests /\ pc[req[r].session] = "done"
          /\ session'[req[r].session] = None
      BY <1>1, <1>2, <1>3, <2>2, GateAssumption DEF Fits, Logouts, AllRequests, Shape
    <3>2. pc'[r] = "done" /\ \A q \in Requests \ {r} : pc'[q] = pc[q] /\ answer'[q] = answer[q]
      BY <1>1, <1>4 DEF Shape, Moves
    <3>3. LoggedOut' \subseteq LoggedOut \cup {req[r].session} /\ LoggedOut \subseteq LoggedOut'
      <4>1. answer[r] = "none"
        BY <1>1, <1>2 DEF Shape
      <4> QED
        BY <1>2, <3>2, <4>1 DEF LoggedOut
    <3>4. \A s \in LoggedOut' : Gone(s)'
      BY <1>1, <1>2, <1>5, <3>1, <3>2, <3>3 DEF SessionInv, Gone
    <3>5. NoUseAfterLogout'
      BY <1>1, <1>2, <1>8, <3>2 DEF SessionInv, NoUseAfterLogout, Shape
    <3> QED
      BY <1>1, <1>2, <3>3, <3>4, <3>5 DEF SessionInv
  <2> QED
    BY <2>1, <2>2
<1> QED
  BY <1>6, <1>7, <1>9 DEF Inv

LEMMA CurrentUserStep == ASSUME Inv, NEW r \in Requests, CurrentUser(r) PROVE Inv'
<1>1. Shape /\ TenantInv /\ SessionInv /\ Fits(r)
  BY DEF Inv, Shape
<1> DEFINE user == IF req[r].session = None THEN None ELSE session[req[r].session]
<1>2. /\ pc[r] = "session" /\ UNCHANGED <<req, session, late>> /\ UNCHANGED tenantVars
      /\ req[r] \in Calls(Requests) /\ actor' = [actor EXCEPT ![r] = user]
  BY <1>1 DEF CurrentUser, Fits
<1>3. user \in Users \cup {None}
  BY <1>1, <1>2 DEF Shape, Calls
<1>4. PICK place \in {"handler", "done"} :
         /\ Moves(r, place)
         /\ place = "handler" => user # None
         /\ answer'[r] \notin {"ok", "forbidden"}
  <2>1. CASE user = None
    <3>1. Answer(r, "bad_session") /\ answer'[r] = "bad_session"
      BY <1>1, <2>1 DEF CurrentUser, Answer, Shape
    <3> QED
      BY <1>2, <3>1 DEF Moves, Answer, Answers
  <2>2. CASE user # None
    <3>1. Go(r, "handler")
      BY <2>2 DEF CurrentUser
    <3>2. answer[r] = "none"
      BY <1>1, <1>2 DEF Shape
    <3> QED
      BY <1>2, <2>2, <3>1, <3>2 DEF Moves, Go
  <2> QED
    BY <2>1, <2>2
<1> HIDE DEF user
<1>5. actor'[r] = user /\ actor' \in [Requests -> Users \cup {None}]
  BY <1>1, <1>2, <1>3 DEF Shape
<1>6. Shape'
  <2>1. /\ pc' \in [Requests -> Places]
        /\ answer' \in [Requests -> Answers]
        /\ \A q \in Requests : /\ pc'[q] = "client" <=> req'[q] = None
                               /\ pc'[q] = "done" <=> answer'[q] # "none"
        /\ \A q \in Requests : Fits(q)'
    <3>1. \A q \in Requests \ {r} : actor'[q] = actor[q]
      BY <1>1, <1>2 DEF Shape
    <3> QED
      BY <1>1, <1>2, <1>3, <1>4, <1>5, <3>1, ShapeMoves DEF Places
  <2> QED
    BY <1>1, <1>2, <1>5, <2>1, ShapeRest
<1>7. TenantInv'
  BY <1>1, <1>2, <1>4, TenantMoves DEF Places
<1>8. r \in late => place # "handler"
  <2> SUFFICES ASSUME r \in late PROVE user = None
    BY <1>4
  <2>1. req[r].session \in LoggedOut /\ session[req[r].session] = None
    BY <1>1 DEF SessionInv, Gone
  <2> QED
    BY <2>1 DEF user
<1>9. SessionInv'
  BY <1>1, <1>2, <1>4, <1>8, SessionMoves DEF Places
<1> QED
  BY <1>6, <1>7, <1>9 DEF Inv

LEMMA SessionExpiresStep == ASSUME Inv, NEW s \in Requests, SessionExpires(s) PROVE Inv'
<1>1. /\ UNCHANGED <<pc, req, answer, actor, late>> /\ UNCHANGED tenantVars
      /\ session' = [session EXCEPT ![s] = None]
  BY DEF SessionExpires
<1>2. Shape'
  BY <1>1 DEF Inv, Shape, Fits, Tenant, tenantVars
<1>3. TenantInv'
  BY <1>1 DEF Inv, TenantInv, InWindow, Counted, Passed, PassedTenantLimit, Ends, Tenant, Bound, tenantVars
<1>4. SessionInv'
  BY <1>1 DEF Inv, Shape, SessionInv, LoggedOut, Gone, NoUseAfterLogout
<1> QED
  BY <1>2, <1>3, <1>4 DEF Inv

\* The steps on a tenant's counter.  What Decide does, as a move.
LEMMA Decided ==
    ASSUME Shape, NEW r \in Requests, NEW n, pc[r] \in {"key", "expire"}, Decide(r, n)
    PROVE  \E place \in {"host", "done"} :
              /\ Moves(r, place)
              /\ place = "host" <=> Within(n)
              /\ answer'[r] = IF Within(n) THEN "none" ELSE "tenant_limit"
<1>1. answer[r] = "none" /\ answer \in [Requests -> Answers]
  BY DEF Shape
<1>2. CASE Within(n)
  BY <1>1, <1>2 DEF Decide, Go, Moves
<1>3. CASE ~ Within(n)
  BY <1>1, <1>3 DEF Decide, Answer, Moves, Answers
<1> QED
  BY <1>2, <1>3

\* A step on a counter by a request that neither is nor becomes part of a
\* session: the invariants that are not about counters.
LEMMA CounterMoves ==
    ASSUME Shape, SessionInv, NEW r \in Requests, NEW place \in {"host", "expire", "done"},
           Moves(r, place), pc[r] \in {"key", "expire"},
           UNCHANGED <<req, actor, session, late>>,
           place = "expire" => Tenant(r) \in Tenants,
           answer'[r] \in {"none", "tenant_limit", "error"},
           count' \in [Tenants -> Nat], ttl' \in [Tenants -> BOOLEAN],
           inWindow' \in [Tenants -> SUBSET Requests], abandoned' \subseteq Tenants
    PROVE  Shape' /\ SessionInv'
<1>1. req[r] \in Calls(Requests)
  BY DEF Shape, Fits
<1>2. /\ pc' \in [Requests -> Places]
      /\ answer' \in [Requests -> Answers]
      /\ \A q \in Requests : /\ pc'[q] = "client" <=> req'[q] = None
                             /\ pc'[q] = "done" <=> answer'[q] # "none"
      /\ \A q \in Requests : Fits(q)'
  BY <1>1, ShapeMoves DEF Places
<1>3. Shape'
  BY <1>2 DEF Shape
<1>4. SessionInv'
  BY SessionMoves DEF Places
<1> QED
  BY <1>3, <1>4

\* A subset of what was counted is within the same bound.
LEMMA CountedShrinks ==
    ASSUME NEW t \in Tenants, InWindow(t), IsFiniteSet(inWindow'[t]),
           count'[t] = Cardinality(inWindow'[t]),
           \A q \in inWindow'[t] : pc'[q] \notin {"client", "key"},
           Counted(t)' \subseteq Counted(t),
           TenantLimit = 0 => Passed(t)' = {}
    PROVE  InWindow(t)'
<1>1. IsFiniteSet(Counted(t))
  BY FS_Subset DEF InWindow, Counted, Passed
<1>2. Cardinality(Counted(t)') <= Cardinality(Counted(t))
  BY <1>1, FS_Subset
<1>3. Cardinality(Counted(t)) \in Nat /\ Cardinality(Counted(t)') \in Nat
  BY <1>1, FS_Subset, FS_CardinalityType
<1> QED
  BY <1>2, <1>3, GateAssumption DEF InWindow, Bound

LEMMA ExpireStep == ASSUME Inv, NEW r \in Requests, Expire(r) PROVE Inv'
<1>1. Shape /\ TenantInv /\ SessionInv /\ Fits(r)
  BY DEF Inv, Shape
<1>2. /\ pc[r] = "expire" /\ ttl' = [ttl EXCEPT ![Tenant(r)] = TRUE]
      /\ Decide(r, 1)
      /\ UNCHANGED <<req, actor, session, now, late, count, inWindow, abandoned, loginVars>>
  BY DEF Expire
<1>3. PICK place \in {"host", "done"} :
         /\ Moves(r, place)
         /\ place = "host" <=> Within(1)
         /\ answer'[r] = IF Within(1) THEN "none" ELSE "tenant_limit"
  BY <1>1, <1>2, Decided
<1>4. Shape' /\ SessionInv'
  <2>1. ttl' \in [Tenants -> BOOLEAN]
    BY <1>1, <1>2 DEF Shape
  <2> QED
    BY <1>1, <1>2, <1>3, <2>1, CounterMoves DEF Shape
<1>5. pc'[r] = place /\ \A q \in Requests \ {r} : pc'[q] = pc[q] /\ answer'[q] = answer[q]
  BY <1>1, <1>3 DEF Shape, Moves
<1>6. ASSUME NEW t \in Tenants PROVE InWindow(t)' /\ (t \in abandoned' \/ Ends(t)')
  <2>1. InWindow(t) /\ (t \in abandoned \/ Ends(t)) /\ inWindow[t] \subseteq Requests
    BY <1>1 DEF TenantInv, Shape
  <2>2. \A q \in inWindow[t] : q # r => (pc'[q] = pc[q] /\ answer'[q] = answer[q])
    BY <1>5, <2>1
  <2>3. r \in inWindow[t] => r \in Counted(t)
    BY <1>2 DEF Counted
  <2>4. Counted(t)' \subseteq Counted(t)
    BY <1>2, <2>2, <2>3 DEF Counted, Passed, PassedTenantLimit
  <2>5. TenantLimit = 0 => Passed(t)' = {}
    <3> SUFFICES ASSUME TenantLimit = 0 PROVE Passed(t)' \subseteq Passed(t)
      BY <2>1 DEF InWindow
    <3>1. answer'[r] = "tenant_limit"
      BY <1>3 DEF Within
    <3> QED
      BY <1>2, <2>2, <3>1 DEF Passed, PassedTenantLimit
  <2>6. \A q \in inWindow'[t] : pc'[q] \notin {"client", "key"}
    BY <1>2, <1>5, <2>1, <2>2 DEF InWindow
  <2>7. InWindow(t)'
    BY <1>2, <2>1, <2>4, <2>5, <2>6, CountedShrinks DEF InWindow
  <2>8. Ends(t) => Ends(t)'
    <3> SUFFICES ASSUME count[t] > 0, Ends(t) PROVE Ends(t)'
      BY <1>2 DEF Ends
    <3>1. CASE Tenant(r) = t
      BY <1>1, <1>2, <3>1 DEF Ends, Shape
    <3>2. CASE Tenant(r) # t
      BY <1>1, <1>2, <1>5, <3>2 DEF Ends, Shape, Tenant
    <3> QED
      BY <3>1, <3>2
  <2> QED
    BY <1>2, <2>1, <2>7, <2>8
<1> QED
  BY <1>4, <1>6 DEF Inv, TenantInv

\* The call that sets the time to live fails.
LEMMA RaiseAtExpireStep ==
    ASSUME Inv, NEW r \in Requests, Raise(r), pc[r] = "expire" PROVE Inv'
<1>1. Shape /\ TenantInv /\ SessionInv /\ Fits(r)
  BY DEF Inv, Shape
<1>2. /\ Answer(r, "error") /\ abandoned' = abandoned \cup {Tenant(r)}
      /\ UNCHANGED <<req, actor, session, now, late, count, ttl, inWindow, loginVars>>
  BY DEF Raise
<1>3. Moves(r, "done") /\ answer'[r] = "error"
  BY <1>1, <1>2 DEF Moves, Answer, Answers, Shape
<1>4. pc'[r] = "done" /\ \A q \in Requests \ {r} : pc'[q] = pc[q] /\ answer'[q] = answer[q]
  BY <1>1, <1>3 DEF Shape, Moves
<1>5. Tenant(r) \in Tenants
  BY <1>1 DEF Fits
<1>6. Shape' /\ SessionInv'
  BY <1>1, <1>2, <1>3, <1>5, CounterMoves DEF Shape
<1>7. ASSUME NEW t \in Tenants PROVE InWindow(t)' /\ (t \in abandoned' \/ Ends(t)')
  <2>1. InWindow(t) /\ (t \in abandoned \/ Ends(t)) /\ inWindow[t] \subseteq Requests
    BY <1>1 DEF TenantInv, Shape
  <2>2. \A q \in inWindow[t] : q # r => (pc'[q] = pc[q] /\ answer'[q] = answer[q])
    BY <1>4, <2>1
  <2>3. Counted(t)' \subseteq Counted(t) /\ Passed(t)' \subseteq Passed(t)
    BY <1>2, <1>3, <1>4, <2>2 DEF Counted, Passed, PassedTenantLimit
  <2>4. \A q \in inWindow'[t] : pc'[q] \notin {"client", "key"}
    BY <1>2, <1>4, <2>1, <2>2 DEF InWindow
  <2>5. InWindow(t)'
    BY <1>2, <2>1, <2>3, <2>4, CountedShrinks DEF InWindow
  <2>6. t \in abandoned' \/ Ends(t)'
    <3>1. CASE t \in abandoned \/ Tenant(r) = t
      BY <1>2, <3>1
    <3>2. CASE Ends(t) /\ Tenant(r) # t
      BY <1>2, <1>4, <3>2 DEF Ends, Tenant
    <3> QED
      BY <2>1, <3>1, <3>2
  <2> QED
    BY <2>5, <2>6
<1> QED
  BY <1>6, <1>7 DEF Inv, TenantInv

LEMMA WindowEndsStep == ASSUME Inv, NEW t \in Tenants, WindowEnds(t) PROVE Inv'
<1>1. /\ UNCHANGED <<pc, req, answer, actor, session, late, abandoned>>
      /\ count' = [count EXCEPT ![t] = 0] /\ ttl' = [ttl EXCEPT ![t] = FALSE]
      /\ inWindow' = [inWindow EXCEPT ![t] = {}]
  BY DEF WindowEnds
<1>2. Shape'
  BY <1>1 DEF Inv, Shape, Fits, Tenant
<1>3. ASSUME NEW u \in Tenants PROVE InWindow(u)' /\ (u \in abandoned' \/ Ends(u)')
  <2>1. InWindow(u) /\ (u \in abandoned \/ Ends(u))
    BY DEF Inv, TenantInv
  <2>2. CASE u = t
    <3>1. inWindow'[u] = {} /\ count'[u] = 0
      BY <1>1, <2>2 DEF Inv, Shape
    <3>2. Passed(u)' = {} /\ Counted(u)' = {}
      BY <3>1 DEF Passed, Counted
    <3> QED
      BY <3>1, <3>2, FS_EmptySet, GateAssumption DEF InWindow, Ends, Bound
  <2>3. CASE u # t
    <3>1. inWindow'[u] = inWindow[u] /\ count'[u] = count[u] /\ ttl'[u] = ttl[u]
      BY <1>1, <2>3 DEF Inv, Shape
    <3>2. Passed(u)' = Passed(u) /\ Counted(u)' = Counted(u)
      BY <1>1, <3>1 DEF Passed, Counted, PassedTenantLimit
    <3> QED
      BY <1>1, <2>1, <3>1, <3>2 DEF InWindow, Ends, Tenant, Bound
  <2> QED
    BY <2>2, <2>3
<1>4. SessionInv'
  BY <1>1 DEF Inv, SessionInv, LoggedOut, Gone, NoUseAfterLogout
<1> QED
  BY <1>2, <1>3, <1>4 DEF Inv, TenantInv

\* INCR: fewer than the limit were counted before a request that reads a count
\* within it, and none before one that reads 1.
LEMMA IncrStep == ASSUME Inv, NEW r \in Requests, Incr(r) PROVE Inv'
<1>1. Shape /\ TenantInv /\ SessionInv /\ Fits(r)
  BY DEF Inv, Shape
<1>2. PICK t \in Tenants :
         /\ t = Tenant(r) /\ pc[r] = "key"
         /\ count' = [count EXCEPT ![t] = @ + 1]
         /\ inWindow' = [inWindow EXCEPT ![t] = @ \cup {r}]
         /\ IF count[t] = 0 THEN Go(r, "expire") ELSE Decide(r, count[t] + 1)
         /\ UNCHANGED <<req, actor, session, now, late, ttl, abandoned, loginVars>>
  <2>1. pc[r] = "key" /\ Tenant(r) # None
    BY DEF Incr
  <2>2. Tenant(r) \in Tenants
    BY <1>1, <2>1, TenantType DEF Fits
  <2> QED
    BY <2>1, <2>2 DEF Incr
<1>4. PICK place \in {"expire", "host", "done"} :
         /\ Moves(r, place)
         /\ place = "expire" <=> count[t] = 0
         /\ place = "host" => Within(count[t] + 1)
         /\ answer'[r] = IF place = "done" THEN "tenant_limit" ELSE "none"
  <2>1. CASE count[t] = 0
    <3>1. Go(r, "expire") /\ answer[r] = "none"
      BY <1>1, <1>2, <2>1 DEF Shape
    <3> QED
      BY <1>2, <2>1, <3>1 DEF Go, Moves
  <2>2. CASE count[t] # 0
    <3>1. Decide(r, count[t] + 1)
      BY <1>2, <2>2
    <3>2. PICK place \in {"host", "done"} :
             /\ Moves(r, place)
             /\ place = "host" <=> Within(count[t] + 1)
             /\ answer'[r] = IF Within(count[t] + 1) THEN "none" ELSE "tenant_limit"
      BY <1>1, <1>2, <3>1, Decided
    <3> QED
      BY <2>2, <3>2
  <2> QED
    BY <2>1, <2>2
<1>5. Shape' /\ SessionInv'
  <2>1. /\ count' \in [Tenants -> Nat] /\ inWindow' \in [Tenants -> SUBSET Requests]
    BY <1>1, <1>2 DEF Shape
  <2>2. Tenant(r) \in Tenants
    BY <1>2
  <2> QED
    BY <1>1, <1>2, <1>4, <2>1, <2>2, CounterMoves DEF Shape
<1>6. pc'[r] = place /\ \A q \in Requests \ {r} : pc'[q] = pc[q] /\ answer'[q] = answer[q]
  BY <1>1, <1>4 DEF Shape, Moves
<1>7. ASSUME NEW u \in Tenants, u # t PROVE InWindow(u)' /\ (u \in abandoned' \/ Ends(u)')
  <2>1. InWindow(u) /\ (u \in abandoned \/ Ends(u)) /\ inWindow[u] \subseteq Requests
    BY <1>1 DEF TenantInv, Shape
  <2>2. r \notin inWindow[u]
    BY <1>2, <2>1 DEF InWindow
  <2>3. inWindow'[u] = inWindow[u] /\ count'[u] = count[u] /\ ttl' = ttl /\ abandoned' = abandoned
    BY <1>1, <1>2, <1>7 DEF Shape
  <2>4. \A q \in inWindow[u] : pc'[q] = pc[q] /\ answer'[q] = answer[q]
    BY <1>6, <2>1, <2>2
  <2>5. Passed(u)' = Passed(u) /\ Counted(u)' = Counted(u)
    BY <2>3, <2>4 DEF Passed, Counted, PassedTenantLimit
  <2>6. InWindow(u)'
    BY <2>1, <2>3, <2>4, <2>5 DEF InWindow, Bound
  <2>7. Ends(u) => Ends(u)'
    BY <1>2, <1>6, <2>3 DEF Ends, Tenant
  <2> QED
    BY <2>1, <2>3, <2>6, <2>7
<1>8. InWindow(t)' /\ (t \in abandoned' \/ Ends(t)')
  <2>1. InWindow(t) /\ (t \in abandoned \/ Ends(t)) /\ inWindow[t] \subseteq Requests
    BY <1>1 DEF TenantInv, Shape
  <2>2. r \notin inWindow[t] /\ IsFiniteSet(inWindow[t]) /\ count[t] = Cardinality(inWindow[t])
    BY <1>2, <2>1 DEF InWindow
  <2>3. inWindow'[t] = inWindow[t] \cup {r} /\ count'[t] = count[t] + 1 /\ count[t] \in Nat
    BY <1>1, <1>2 DEF Shape
  <2>4. IsFiniteSet(inWindow'[t]) /\ count'[t] = Cardinality(inWindow'[t])
    BY <2>2, <2>3, FS_AddElement
  <2>5. \A q \in inWindow[t] : pc'[q] = pc[q] /\ answer'[q] = answer[q]
    BY <1>6, <2>1, <2>2
  <2>6. \A q \in inWindow'[t] : pc'[q] \notin {"client", "key"}
    BY <1>6, <2>1, <2>3, <2>5 DEF InWindow
  <2>7. TenantLimit = 0 => Passed(t)' = {}
    <3> SUFFICES ASSUME TenantLimit = 0 PROVE Passed(t)' \subseteq Passed(t)
      BY <2>1 DEF InWindow
    <3>1. place # "host"
      BY <1>4, <2>3 DEF Within
    <3>2. r \notin Passed(t)'
      BY <1>4, <1>6, <3>1 DEF Passed, PassedTenantLimit
    <3> QED
      BY <2>3, <2>5, <3>2 DEF Passed, PassedTenantLimit
  <2>8. CASE place = "done"
    <3>1. Counted(t)' \subseteq Counted(t)
      BY <1>4, <1>6, <2>3, <2>5, <2>8 DEF Counted, Passed, PassedTenantLimit
    <3>2. InWindow(t)'
      BY <2>1, <2>4, <2>6, <2>7, <3>1, CountedShrinks
    <3> QED
      BY <1>2, <1>4, <2>1, <2>2, <2>3, <2>8, <3>2, FS_EmptySet, <1>6 DEF Ends, Tenant
  <2>9. CASE place # "done"
    <3>1. Counted(t) \subseteq inWindow[t] /\ Counted(t)' \subseteq inWindow'[t]
      BY DEF Counted, Passed
    <3>2. Cardinality(Counted(t)') <= count[t] + 1 /\ Cardinality(Counted(t)') \in Nat
      BY <2>3, <2>4, <3>1, FS_Subset, FS_CardinalityType
    <3>3. count[t] + 1 <= Bound
      BY <1>4, <2>3, <2>9, GateAssumption DEF Within, Bound
    <3>4. InWindow(t)'
      BY <2>3, <2>4, <2>6, <2>7, <3>2, <3>3, GateAssumption DEF InWindow, Bound
    <3>5. t \in abandoned' \/ Ends(t)'
      <4>1. CASE count[t] = 0
        BY <1>2, <1>4, <1>6, <4>1 DEF Ends, Tenant
      <4>2. CASE count[t] # 0
        BY <1>2, <1>6, <2>1, <2>3, <4>2 DEF Ends, Tenant
      <4> QED
        BY <4>1, <4>2
    <3> QED
      BY <3>4, <3>5
  <2> QED
    BY <2>8, <2>9
<1>9. TenantInv'
  BY <1>7, <1>8 DEF TenantInv
<1> QED
  BY <1>5, <1>9 DEF Inv

LEMMA StepInv == Inv /\ [Next]_vars => Inv'
<1> SUFFICES ASSUME Inv, [Next]_vars PROVE Inv'
  OBVIOUS
<1>1. ASSUME UNCHANGED <<pc, req, answer, actor, session, late>>, UNCHANGED tenantVars PROVE Inv'
  <2>1. Shape'
    BY <1>1 DEF Inv, Shape, Fits, Tenant, tenantVars
  <2>2. TenantInv'
    BY <1>1 DEF Inv, TenantInv, InWindow, Counted, Passed, PassedTenantLimit, Ends, Tenant,
                Bound, tenantVars
  <2>3. SessionInv'
    BY <1>1 DEF Inv, SessionInv, LoggedOut, Gone, NoUseAfterLogout
  <2> QED
    BY <2>1, <2>2, <2>3 DEF Inv
<1>2. ASSUME NEW r \in Requests, Arrive(r) \/ RequestStep(r) \/ Raise(r) PROVE Inv'
  <2>1. CASE Arrive(r)
    BY <2>1, ArriveStep
  <2>2. CASE RequestStep(r)
    <3>1. CASE PlainStep(r)
      BY <3>1, PlainSteps
    <3>2. CASE Incr(r)
      BY <3>2, IncrStep
    <3>3. CASE Expire(r)
      BY <3>3, ExpireStep
    <3>4. CASE SaveSession(r)
      BY <3>4, SaveSessionStep
    <3>5. CASE Logout(r)
      BY <3>5, LogoutStep
    <3>6. CASE CurrentUser(r)
      BY <3>6, CurrentUserStep
    <3> QED
      BY <2>2, <3>1, <3>2, <3>3, <3>4, <3>5, <3>6 DEF RequestStep, PlainStep
  <2>3. CASE Raise(r)
    BY <2>3, PlainSteps, RaiseAtExpireStep DEF PlainStep
  <2> QED
    BY <1>2, <2>1, <2>2, <2>3
<1>3. CASE \E t \in Tenants : WindowEnds(t)
  BY <1>3, WindowEndsStep
<1>4. CASE \E s \in Requests : SessionExpires(s)
  BY <1>4, SessionExpiresStep
<1>5. CASE Tick \/ AllAnswered \/ UNCHANGED vars
  BY <1>1, <1>5 DEF Tick, AllAnswered, vars
<1> QED
  BY <1>2, <1>3, <1>4, <1>5 DEF Next

\* The inductive invariant holds in every reachable state.
THEOREM GateInv == Spec => []Inv
  BY InitInv, StepInv, PTL DEF Spec

\* No request sent after the logout of its session was answered reaches a
\* handler: nothing puts a session back once its login is over.
THEOREM LoggedOutForGood == Spec => []NoUseAfterLogout
<1>1. Inv => NoUseAfterLogout
  BY DEF Inv, SessionInv
<1> QED
  BY <1>1, GateInv, PTL

\* The counter of a tenant whose EXPIRE never failed comes to an end.
THEOREM CounterHasEnd == Spec => []CounterEnds
<1>1. Inv => CounterEnds
  BY DEF Inv, TenantInv, Ends, CounterEnds
<1> QED
  BY <1>1, GateInv, PTL

\* However the requests of a tenant interleave, over any number of processes,
\* no more than its limit pass in one window.
THEOREM TenantLimited == Spec => []TenantWithinLimit
<1>1. Inv => TenantWithinLimit
  <2> SUFFICES ASSUME Inv, NEW t \in Tenants PROVE Cardinality(Passed(t)) <= TenantLimit
    BY DEF TenantWithinLimit, Passed
  <2>1. InWindow(t)
    BY DEF Inv, TenantInv
  <2>2. CASE TenantLimit = 0
    BY <2>1, <2>2, FS_EmptySet DEF InWindow
  <2>3. CASE TenantLimit # 0
    <3>1. IsFiniteSet(Counted(t)) /\ Passed(t) \subseteq Counted(t)
      BY <2>1, FS_Subset DEF InWindow, Counted, Passed
    <3>2. /\ Cardinality(Passed(t)) <= Cardinality(Counted(t))
          /\ Cardinality(Passed(t)) \in Nat /\ Cardinality(Counted(t)) \in Nat
      BY <3>1, FS_Subset, FS_CardinalityType
    <3> QED
      BY <2>1, <2>3, <3>2, GateAssumption DEF InWindow, Bound
  <2> QED
    BY <2>2, <2>3
<1> QED
  BY <1>1, GateInv, PTL

-----------------------------------------------------------------------------

(***************************************************************************)
(* The login limiter.  An attempt it has counted is in the list of its     *)
(* address, or one made a window or more after it is; so an attempt that   *)
(* is not overtaken finds in the list every earlier one of its window.     *)
(***************************************************************************)
ClockShape ==
    /\ now \in 0..MaxClock
    /\ stamp \in [Requests -> 0..MaxClock]
    /\ \A q \in Requests : stamp[q] <= now
    /\ attempts \in [Processes -> [Addresses -> SUBSET Requests]]
    /\ overtaken \subseteq Requests
    /\ IsFiniteSet({q \in Requests : req[q] # None})

Listed ==
    \A p \in Processes, a \in Addresses : \A q \in attempts[p][a] :
        Judged(q) /\ req[q].process = p /\ req[q].address = a

Remembered(q) == q \in Kept(q) \/ \E z \in Kept(q) : stamp[q] + Window <= stamp[z]

Rivals(r) ==
    {q \in Requests \ {r} :
        /\ Judged(q) /\ SameLimiter(q, r)
        /\ stamp[r] < stamp[q] + Window
        /\ stamp[q] <= stamp[r] \/ r \in overtaken}

Peers(r) ==
    {q \in Requests \ overtaken :
        LetIn(q) /\ SameLimiter(q, r) /\ stamp[q] <= stamp[r] /\ stamp[r] < stamp[q] + Window}

LoginInv ==
    /\ ClockShape
    /\ Listed
    /\ \A q \in Requests : Judged(q) => Remembered(q)
    /\ LoginWithinWindow
    /\ RefusedOnlyIfBusy

LEMMA LoginFinite ==
    ASSUME ClockShape, NEW r \in Requests
    PROVE  IsFiniteSet(Rivals(r)) /\ IsFiniteSet(Peers(r))
<1>1. /\ Rivals(r) \subseteq {q \in Requests : req[q] # None}
      /\ Peers(r) \subseteq {q \in Requests : req[q] # None}
  BY DEF Rivals, Peers, LetIn, Judged, IsLogin
<1> QED
  BY <1>1, FS_Subset DEF ClockShape

\* Peers may become fewer and rivals more.
LEMMA PeersShrink ==
    ASSUME ClockShape, NEW r \in Requests, Cardinality(Peers(r)) <= LoginLimit, Peers(r)' \subseteq Peers(r)
    PROVE  Cardinality(Peers(r)') <= LoginLimit
<1>1. Cardinality(Peers(r)') <= Cardinality(Peers(r)) /\ IsFiniteSet(Peers(r)')
  BY LoginFinite, FS_Subset
<1>2. Cardinality(Peers(r)') \in Nat /\ Cardinality(Peers(r)) \in Nat
  BY <1>1, LoginFinite, FS_CardinalityType
<1> QED
  BY <1>1, <1>2, GateAssumption

LEMMA RivalsGrow ==
    ASSUME ClockShape', NEW r \in Requests, Cardinality(Rivals(r)) >= LoginLimit,
           Rivals(r) \subseteq Rivals(r)'
    PROVE  Cardinality(Rivals(r)') >= LoginLimit
<1>1. IsFiniteSet(Rivals(r)')
  <2>1. Rivals(r)' \subseteq {q \in Requests : req'[q] # None}
    BY DEF Rivals, Judged, IsLogin
  <2> QED
    BY <2>1, FS_Subset DEF ClockShape
<1>2. Cardinality(Rivals(r)) <= Cardinality(Rivals(r)') /\ IsFiniteSet(Rivals(r))
  BY <1>1, FS_Subset
<1>3. Cardinality(Rivals(r)') \in Nat /\ Cardinality(Rivals(r)) \in Nat
  BY <1>1, <1>2, FS_CardinalityType
<1> QED
  BY <1>2, <1>3, GateAssumption

LEMMA InitLogin == Init => LoginInv
<1> SUFFICES ASSUME Init PROVE LoginInv
  OBVIOUS
<1>1. /\ \A q \in Requests : req[q] # None <=> q \in Earlier
      /\ \A q \in Earlier : /\ q \in Requests /\ req[q] \in Logins
                            /\ answer[q] = "bad_login" /\ IsLogin(q)
  BY GateAssumption DEF Init, Logins, IsLogin
<1>2. /\ now = 0 /\ overtaken = {} /\ \A q \in Requests : stamp[q] = 0
      /\ stamp \in [Requests -> 0..MaxClock] /\ now \in 0..MaxClock
  BY GateAssumption DEF Init
<1>3. attempts \in [Processes -> [Addresses -> SUBSET Requests]]
  BY <1>1 DEF Init
<1>4. {q \in Requests : req[q] # None} \subseteq Earlier
  BY <1>1
<1>5. ClockShape
  BY <1>1, <1>2, <1>3, <1>4, FS_Subset, GateAssumption DEF ClockShape
<1>6. Listed
  BY <1>1 DEF Init, Listed, Judged
<1>7. ASSUME NEW q \in Requests, Judged(q) PROVE Remembered(q)
  <2>1. q \in Earlier /\ req[q].process \in Processes /\ req[q].address \in Addresses
    BY <1>1, <1>7 DEF Judged, IsLogin, Logins
  <2> QED
    BY <2>1 DEF Init, Remembered, Kept
<1>8. ASSUME NEW r \in Requests PROVE Cardinality(Peers(r)) <= LoginLimit
  <2>1. Peers(r) \subseteq Earlier
    BY <1>1 DEF Peers, LetIn, IsLogin
  <2>2. Cardinality(Peers(r)) <= Cardinality(Earlier) /\ IsFiniteSet(Peers(r))
    BY <2>1, FS_Subset, GateAssumption
  <2>3. Cardinality(Peers(r)) \in Nat /\ Cardinality(Earlier) \in Nat
    BY <2>2, FS_CardinalityType, GateAssumption
  <2> QED
    BY <2>2, <2>3, GateAssumption
<1>9. RefusedOnlyIfBusy
  BY DEF Init, RefusedOnlyIfBusy
<1> QED
  BY <1>5, <1>6, <1>7, <1>8, <1>9 DEF LoginInv, LoginWithinWindow, Peers

\* A step that counts no attempt and reads no clock.
LEMMA LoginFrame ==
    ASSUME LoginInv, UNCHANGED <<req, loginVars>>, now' \in 0..MaxClock, now <= now',
           \A q \in Requests : /\ Judged(q)' <=> Judged(q)
                               /\ LetIn(q)' => LetIn(q)
                               /\ answer'[q] = "login_limit" => answer[q] = "login_limit"
    PROVE  LoginInv'
<1>0. attempts' = attempts /\ stamp' = stamp /\ overtaken' = overtaken /\ req' = req
  BY DEF loginVars
<1>1. ClockShape'
  <2>1. now \in 0..MaxClock /\ \A q \in Requests : stamp[q] \in 0..MaxClock
    BY DEF LoginInv, ClockShape
  <2> QED
    BY <1>0, <2>1, GateAssumption DEF LoginInv, ClockShape
<1>2. Listed'
  BY <1>0 DEF LoginInv, Listed, ClockShape
<1>3. \A q \in Requests : Judged(q)' => Remembered(q)'
  BY <1>0 DEF LoginInv, Remembered, Kept
<1>4. LoginWithinWindow'
  <2> SUFFICES ASSUME NEW r \in Requests \ overtaken, LetIn(r)'
               PROVE  Cardinality(Peers(r)') <= LoginLimit
    BY <1>0 DEF LoginWithinWindow, Peers
  <2>1. Peers(r)' \subseteq Peers(r)
    BY <1>0 DEF Peers, SameLimiter
  <2>2. Cardinality(Peers(r)) <= LoginLimit
    BY DEF LoginInv, LoginWithinWindow, Peers
  <2> QED
    BY <2>1, <2>2, PeersShrink DEF LoginInv
<1>5. RefusedOnlyIfBusy'
  <2> SUFFICES ASSUME NEW q \in Requests, answer'[q] = "login_limit"
               PROVE  Cardinality(Rivals(q)') >= LoginLimit
    BY DEF RefusedOnlyIfBusy, Rivals
  <2>1. Rivals(q)' = Rivals(q)
    BY <1>0 DEF Rivals, SameLimiter
  <2> QED
    BY <2>1 DEF LoginInv, RefusedOnlyIfBusy, Rivals
<1> QED
  BY <1>1, <1>2, <1>3, <1>4, <1>5 DEF LoginInv

\* A request that is no login, or a login before or after the limiter, moves.
LEMMA LoginMoves ==
    ASSUME Shape, LoginInv, NEW r \in Requests, UNCHANGED <<req, now, loginVars>>,
           pc[r] # "client", answer[r] = "none", answer'[r] # "login_limit",
           \A q \in Requests \ {r} : pc'[q] = pc[q] /\ answer'[q] = answer[q],
           req[r].kind = "login" =>
               \/ /\ pc[r] \in {"verify", "save"}
                  /\ pc'[r] = "save" \/ answer'[r] \in {"ok", "bad_login", "error"}
               \/ /\ pc[r] = "host"
                  /\ pc'[r] \notin {"verify", "save"} /\ answer'[r] \in {"none", "bad_host"}
    PROVE  LoginInv'
<1>1. now \in 0..MaxClock
  BY DEF LoginInv, ClockShape
<1>2. ASSUME NEW q \in Requests
      PROVE  /\ Judged(q)' <=> Judged(q)
             /\ LetIn(q)' => LetIn(q)
             /\ answer'[q] = "login_limit" => answer[q] = "login_limit"
  <2>1. CASE q # r
    BY <2>1 DEF Judged, LetIn, IsLogin
  <2>2. CASE q = r
    BY <2>2 DEF Judged, LetIn, IsLogin, Shape
  <2> QED
    BY <2>1, <2>2
<1>3. now <= now'
  BY <1>1, GateAssumption
<1> QED
  BY <1>1, <1>2, <1>3, LoginFrame
LEMMA ArriveLogin ==
    ASSUME Shape, LoginInv, NEW r \in Requests, Arrive(r)
    PROVE  LoginInv'
<1>1. PICK what \in Logins \cup Logouts(Given) \cup Calls(Given) :
         req' = [req EXCEPT ![r] = what]
  BY DEF Arrive
<1>2. /\ pc[r] = "client" /\ answer[r] = "none" /\ answer' = answer /\ req[r] = None
      /\ UNCHANGED <<now, attempts, stamp, overtaken>>
  BY DEF Arrive, Go, Shape, loginVars
<1>3. /\ pc'[r] \in {"key", "host"}
      /\ \A q \in Requests \ {r} : pc'[q] = pc[q] /\ req'[q] = req[q]
  BY <1>1 DEF Arrive, Go, Shape
<1>4. /\ ~ Judged(r) /\ ~ Judged(r)' /\ ~ LetIn(r)'
      /\ \A q \in Requests \ {r} : (Judged(q)' <=> Judged(q)) /\ (LetIn(q)' <=> LetIn(q))
  BY <1>2, <1>3 DEF Judged, LetIn, IsLogin
<1>5. ClockShape'
  <2>1. {q \in Requests : req'[q] # None} \subseteq {q \in Requests : req[q] # None} \cup {r}
    BY <1>3
  <2>2. IsFiniteSet({q \in Requests : req[q] # None} \cup {r})
    BY FS_AddElement DEF LoginInv, ClockShape
  <2>3. IsFiniteSet({q \in Requests : req'[q] # None})
    BY <2>1, <2>2, FS_Subset
  <2> QED
    BY <1>2, <2>3 DEF LoginInv, ClockShape
<1>6. Listed'
  <2> SUFFICES ASSUME NEW p \in Processes, NEW a \in Addresses, NEW q \in attempts[p][a]
               PROVE  Judged(q)' /\ req'[q].process = p /\ req'[q].address = a
    BY <1>2 DEF Listed
  <2>1. Judged(q) /\ req[q].process = p /\ req[q].address = a /\ q \in Requests
    BY DEF LoginInv, Listed, ClockShape
  <2> QED
    BY <1>3, <1>4, <2>1
<1>7. ASSUME NEW q \in Requests, Judged(q)' PROVE Remembered(q)'
  <2>1. q # r /\ Remembered(q) /\ req'[q] = req[q]
    BY <1>3, <1>4, <1>7 DEF LoginInv
  <2> QED
    BY <1>2, <2>1 DEF Remembered, Kept
<1>8. LoginWithinWindow'
  <2> SUFFICES ASSUME NEW q \in Requests \ overtaken, LetIn(q)'
               PROVE  Cardinality(Peers(q)') <= LoginLimit
    BY <1>2 DEF LoginWithinWindow, Peers
  <2>1. q # r /\ LetIn(q)
    BY <1>4
  <2>2. Peers(q)' \subseteq Peers(q)
    BY <1>2, <1>3, <1>4, <2>1 DEF Peers, SameLimiter
  <2>3. Cardinality(Peers(q)) <= LoginLimit
    BY <2>1 DEF LoginInv, LoginWithinWindow, Peers
  <2> QED
    BY <2>2, <2>3, PeersShrink DEF LoginInv
<1>9. RefusedOnlyIfBusy'
  <2> SUFFICES ASSUME NEW q \in Requests, answer'[q] = "login_limit"
               PROVE  Cardinality(Rivals(q)') >= LoginLimit
    BY DEF RefusedOnlyIfBusy, Rivals
  <2>1. q # r /\ Cardinality(Rivals(q)) >= LoginLimit
    BY <1>2 DEF LoginInv, RefusedOnlyIfBusy, Rivals
  <2>2. Rivals(q) \subseteq Rivals(q)'
    BY <1>2, <1>3, <1>4, <2>1 DEF Rivals, SameLimiter
  <2> QED
    BY <1>5, <2>1, <2>2, RivalsGrow
<1> QED
  BY <1>5, <1>6, <1>7, <1>8, <1>9 DEF LoginInv

\* The clock only moves on, so a reading that is taken makes r a rival of more.
LEMMA ReadClockLogin ==
    ASSUME Shape, LoginInv, NEW r \in Requests, ReadClock(r)
    PROVE  LoginInv'
<1>1. /\ pc[r] = "clock" /\ answer[r] = "none" /\ answer' = answer
      /\ pc'[r] = "count" /\ \A q \in Requests \ {r} : pc'[q] = pc[q]
      /\ UNCHANGED <<req, now, attempts, overtaken>>
  BY DEF ReadClock, Go, Shape
<1>2. /\ stamp \in [Requests -> 0..MaxClock] /\ now \in 0..MaxClock /\ stamp[r] <= now
      /\ stamp' = [stamp EXCEPT ![r] = now]
  BY DEF ReadClock, LoginInv, ClockShape
<1>3. /\ ~ Judged(r) /\ ~ LetIn(r)'
      /\ \A q \in Requests : (Judged(q)' <=> Judged(q)) /\ (LetIn(q)' <=> LetIn(q))
  BY <1>1 DEF Judged, LetIn, IsLogin
<1>4. /\ stamp'[r] = now /\ \A q \in Requests \ {r} : stamp'[q] = stamp[q]
      /\ \A q \in Requests : stamp[q] \in Nat /\ stamp'[q] \in Nat /\ stamp[q] <= stamp'[q]
  BY <1>2, GateAssumption
<1>5. ClockShape'
  BY <1>1, <1>2, <1>4, GateAssumption DEF LoginInv, ClockShape
<1>6. Listed'
  BY <1>1, <1>3 DEF LoginInv, Listed, ClockShape
<1>7. ASSUME NEW q \in Requests, Judged(q)' PROVE Remembered(q)'
  <2>1. /\ q # r /\ Remembered(q) /\ Kept(q)' = Kept(q)
    BY <1>1, <1>3, <1>7 DEF LoginInv, Kept
  <2>2. ASSUME NEW z \in Kept(q) PROVE z \in Requests \ {r}
    <3>1. req[q].process \in Processes /\ req[q].address \in Addresses
      <4>1. req[q] \in AllRequests
        BY <1>3, <1>7 DEF Shape, Judged, IsLogin
      <4> QED
        BY <1>3, <1>7, <4>1, Kinds DEF Judged, IsLogin, Logins
    <3> QED
      BY <1>3, <3>1 DEF LoginInv, Listed, Kept, ClockShape
  <2> QED
    BY <1>4, <2>1, <2>2 DEF Remembered
<1>8. LoginWithinWindow'
  <2> SUFFICES ASSUME NEW q \in Requests \ overtaken, LetIn(q)'
               PROVE  Cardinality(Peers(q)') <= LoginLimit
    BY <1>1 DEF LoginWithinWindow, Peers
  <2>1. q # r /\ LetIn(q)
    BY <1>3
  <2>2. Peers(q)' \subseteq Peers(q)
    BY <1>1, <1>3, <1>4, <2>1 DEF Peers, SameLimiter
  <2>3. Cardinality(Peers(q)) <= LoginLimit
    BY <2>1 DEF LoginInv, LoginWithinWindow, Peers
  <2> QED
    BY <2>2, <2>3, PeersShrink DEF LoginInv
<1>9. RefusedOnlyIfBusy'
  <2> SUFFICES ASSUME NEW q \in Requests, answer'[q] = "login_limit"
               PROVE  Cardinality(Rivals(q)') >= LoginLimit
    BY DEF RefusedOnlyIfBusy, Rivals
  <2>1. q # r /\ Cardinality(Rivals(q)) >= LoginLimit
    BY <1>1 DEF LoginInv, RefusedOnlyIfBusy, Rivals
  <2>2. Rivals(q) \subseteq Rivals(q)'
    BY <1>1, <1>3, <1>4, <2>1 DEF Rivals, SameLimiter
  <2> QED
    BY <1>5, <2>1, <2>2, RivalsGrow
<1> QED
  BY <1>5, <1>6, <1>7, <1>8, <1>9 DEF LoginInv

(***************************************************************************)
(* The attempt that is counted.  Unless it is overtaken, every attempt of  *)
(* its window is in the list it finds, and it is the last of the window of *)
(* any other it belongs to: so that window is its own.                     *)
(***************************************************************************)
LEMMA CountLogin ==
    ASSUME Shape, LoginInv, NEW r \in Requests, CountAttempt(r)
    PROVE  LoginInv'
<1> DEFINE kept == Recent(r) \cup {r}
           p == req[r].process
           a == req[r].address
<1>1. /\ pc[r] = "count" /\ answer[r] = "none" /\ req[r] \in Logins
      /\ UNCHANGED <<req, now, stamp>> /\ IsLogin(r)
  <2>1. Fits(r)
    BY DEF Shape
  <2> QED
    BY <2>1, GateAssumption DEF CountAttempt, Shape, Fits, IsLogin, Logins
<1>2. /\ \/ pc'[r] = "verify" /\ answer'[r] = "none" /\ Cardinality(kept) <= LoginLimit
         \/ /\ pc'[r] = "done" /\ answer'[r] = "login_limit"
            /\ ~ (Cardinality(kept) <= LoginLimit)
      /\ \A q \in Requests \ {r} : pc'[q] = pc[q] /\ answer'[q] = answer[q]
  <2>1. pc \in [Requests -> Places] /\ answer \in [Requests -> Answers]
    BY DEF Shape
  <2>2. IF Cardinality(kept) <= LoginLimit THEN Go(r, "verify") ELSE Answer(r, "login_limit")
    BY DEF CountAttempt
  <2>3. CASE Cardinality(kept) <= LoginLimit
    <3>1. pc' = [pc EXCEPT ![r] = "verify"] /\ answer' = answer
      BY <2>2, <2>3 DEF Go
    <3> QED
      BY <1>1, <2>1, <2>3, <3>1
  <2>4. CASE ~ (Cardinality(kept) <= LoginLimit)
    <3>1. pc' = [pc EXCEPT ![r] = "done"] /\ answer' = [answer EXCEPT ![r] = "login_limit"]
      BY <2>2, <2>4 DEF Answer
    <3> QED
      BY <2>1, <2>4, <3>1
  <2> QED
    BY <2>3, <2>4
<1>3. /\ attempts' = [attempts EXCEPT ![p][a] = kept]
      /\ overtaken' = IF \E q \in Kept(r) : stamp[r] < stamp[q] THEN overtaken \cup {r} ELSE overtaken
  BY DEF CountAttempt
<1>4. /\ p \in Processes /\ a \in Addresses
      /\ attempts \in [Processes -> [Addresses -> SUBSET Requests]]
      /\ Kept(r) \subseteq Requests
      /\ \A q \in Requests : stamp[q] \in Nat
  BY <1>1, GateAssumption DEF Logins, LoginInv, ClockShape, Kept
<1>5. /\ attempts' \in [Processes -> [Addresses -> SUBSET Requests]]
      /\ attempts'[p][a] = kept
      /\ \A x \in Processes, y \in Addresses : x # p \/ y # a => attempts'[x][y] = attempts[x][y]
  BY <1>3, <1>4 DEF Recent
<1>6. /\ ~ Judged(r) /\ Judged(r)' /\ r \notin Kept(r)
      /\ \A q \in Requests \ {r} : (Judged(q)' <=> Judged(q)) /\ (LetIn(q)' <=> LetIn(q))
  <2>1. ~ Judged(r) /\ Judged(r)'
    BY <1>1, <1>2 DEF Judged, IsLogin
  <2>2. r \notin Kept(r)
    BY <1>4, <2>1 DEF LoginInv, Listed, Kept
  <2>3. \A q \in Requests \ {r} : (Judged(q)' <=> Judged(q)) /\ (LetIn(q)' <=> LetIn(q))
    BY <1>1, <1>2 DEF Judged, LetIn, IsLogin
  <2> QED
    BY <2>1, <2>2, <2>3
<1>7. ASSUME NEW q \in Requests, IsLogin(q)
      PROVE  req[q].process \in Processes /\ req[q].address \in Addresses
  <2>1. req[q] \in AllRequests
    BY <1>7 DEF Shape, IsLogin
  <2> QED
    BY <1>7, <2>1, Kinds DEF IsLogin, Logins
<1> HIDE DEF p, a, kept
<1>8. ASSUME NEW q \in Requests, SameLimiter(q, r)
      PROVE  Kept(q) = Kept(r) /\ Kept(q)' = kept
  BY <1>1, <1>5, <1>8 DEF SameLimiter, Kept, p, a
<1>9. ASSUME NEW q \in Requests, IsLogin(q), ~ SameLimiter(q, r) PROVE Kept(q)' = Kept(q)
  BY <1>1, <1>5, <1>7, <1>9 DEF SameLimiter, Kept, p, a
<1>10. ClockShape'
  BY <1>1, <1>3, <1>5 DEF LoginInv, ClockShape
<1>11. Listed'
  <2> SUFFICES ASSUME NEW x \in Processes, NEW y \in Addresses, NEW q \in attempts'[x][y]
               PROVE  Judged(q)' /\ req[q].process = x /\ req[q].address = y
    BY <1>1 DEF Listed
  <2>1. CASE q = r
    <3>1. x = p /\ y = a
      BY <1>4, <1>5, <1>6, <2>1 DEF LoginInv, Listed
    <3> QED
      BY <1>6, <2>1, <3>1 DEF p, a
  <2>2. CASE q # r
    <3>1. q \in attempts[x][y]
      BY <1>5, <2>2 DEF kept, Recent, Kept, p, a
    <3> QED
      BY <1>4, <1>6, <2>2, <3>1 DEF LoginInv, Listed
  <2> QED
    BY <2>1, <2>2
<1>12. ASSUME NEW q \in Requests, Judged(q)' PROVE Remembered(q)'
  <2>1. CASE q = r
    BY <1>8, <2>1 DEF Remembered, SameLimiter, kept
  <2>2. CASE q # r
    <3>1. Judged(q) /\ Remembered(q) /\ IsLogin(q)
      BY <1>6, <1>12, <2>2 DEF LoginInv, Judged
    <3>2. CASE ~ SameLimiter(q, r)
      BY <1>1, <1>9, <3>1, <3>2 DEF Remembered
    <3>3. CASE SameLimiter(q, r)
      <4>1. PICK z \in Kept(r) : z = q \/ stamp[q] + Window <= stamp[z]
        BY <1>8, <3>1, <3>3 DEF Remembered
      <4>2. CASE stamp[r] < stamp[z] + Window
        BY <1>1, <1>8, <3>3, <4>1, <4>2 DEF Remembered, kept, Recent
      <4>3. CASE stamp[z] + Window <= stamp[r]
        <5>1. stamp[q] + Window <= stamp[r]
          BY <1>4, <4>1, <4>3, GateAssumption
        <5> QED
          BY <1>1, <1>8, <3>3, <5>1 DEF Remembered, kept
      <4> QED
        BY <1>4, <4>2, <4>3, GateAssumption
    <3> QED
      BY <3>2, <3>3
  <2> QED
    BY <2>1, <2>2
<1>13. LoginWithinWindow'
  <2> SUFFICES ASSUME NEW s \in Requests \ overtaken', LetIn(s)'
               PROVE  Cardinality(Peers(s)') <= LoginLimit
    BY DEF LoginWithinWindow, Peers
  <2>1. ASSUME r \notin overtaken', LetIn(r)' PROVE Cardinality(Peers(r)') <= LoginLimit
    <3>1. Cardinality(kept) <= LoginLimit
      BY <1>2, <2>1 DEF LetIn
    <3>2. \A z \in Kept(r) : stamp[z] <= stamp[r]
      BY <1>3, <1>4, <2>1
    <3>3. ASSUME NEW q \in Peers(r)' PROVE q \in kept
      <4>1. /\ q \in Requests /\ LetIn(q)' /\ SameLimiter(q, r)
            /\ stamp[r] < stamp[q] + Window
        BY <1>1, <3>3 DEF Peers, SameLimiter
      <4>2. CASE q = r
        BY <4>2 DEF kept
      <4>3. CASE q # r
        <5>1. Judged(q)
          BY <1>6, <4>1, <4>3 DEF Judged, LetIn, IsLogin
        <5>2. q \in Kept(r) \/ \E z \in Kept(r) : stamp[q] + Window <= stamp[z]
          BY <1>8, <4>1, <5>1 DEF LoginInv, Remembered
        <5>3. q \in Kept(r)
          BY <1>4, <3>2, <4>1, <5>2, GateAssumption
        <5> QED
          BY <4>1, <5>3 DEF kept, Recent
      <4> QED
        BY <4>2, <4>3
    <3>4. IsFiniteSet(kept)
      <4>1. Recent(r) \subseteq {q \in Requests : req[q] # None}
        BY <1>4 DEF Recent, LoginInv, Listed, Judged, IsLogin, Kept, p, a
      <4> QED
        BY <4>1, FS_Subset, FS_AddElement DEF LoginInv, ClockShape, kept
    <3>5. /\ Cardinality(Peers(r)') <= Cardinality(kept)
          /\ Cardinality(Peers(r)') \in Nat /\ Cardinality(kept) \in Nat
      BY <3>3, <3>4, FS_Subset, FS_CardinalityType
    <3> QED
      BY <3>1, <3>5, GateAssumption
  <2>2. CASE s = r
    BY <2>1, <2>2
  <2>3. CASE s # r
    <3>1. s \notin overtaken /\ LetIn(s)
      BY <1>3, <1>6, <2>3
    <3>2. CASE r \notin Peers(s)'
      <4>1. Peers(s)' \subseteq Peers(s)
        BY <1>1, <1>3, <1>6, <3>2 DEF Peers, SameLimiter
      <4>2. Cardinality(Peers(s)) <= LoginLimit
        BY <3>1 DEF LoginInv, LoginWithinWindow, Peers
      <4> QED
        BY <4>1, <4>2, PeersShrink DEF LoginInv
    <3>3. CASE r \in Peers(s)'
      <4>1. /\ r \notin overtaken' /\ LetIn(r)' /\ SameLimiter(s, r)
            /\ stamp[r] <= stamp[s] /\ stamp[s] < stamp[r] + Window
        BY <1>1, <3>3 DEF Peers, SameLimiter
      <4>2. \A z \in Kept(r) : stamp[z] <= stamp[r]
        BY <1>3, <1>4, <4>1
      <4>3. Judged(s)
        BY <3>1 DEF Judged, LetIn, IsLogin
      <4>4. s \in Kept(r) \/ \E z \in Kept(r) : stamp[s] + Window <= stamp[z]
        BY <1>8, <4>1, <4>3 DEF LoginInv, Remembered
      <4>5. stamp[s] = stamp[r]
        BY <1>4, <4>1, <4>2, <4>4, GateAssumption
      <4>6. Peers(s)' = Peers(r)'
        BY <1>1, <4>1, <4>5 DEF Peers, SameLimiter
      <4> QED
        BY <2>1, <4>1, <4>6
    <3> QED
      BY <3>2, <3>3
  <2> QED
    BY <2>2, <2>3
<1>14. RefusedOnlyIfBusy'
  <2> SUFFICES ASSUME NEW q \in Requests, answer'[q] = "login_limit"
               PROVE  Cardinality(Rivals(q)') >= LoginLimit
    BY DEF RefusedOnlyIfBusy, Rivals
  <2>1. CASE q # r
    <3>1. Cardinality(Rivals(q)) >= LoginLimit
      BY <1>2, <2>1 DEF LoginInv, RefusedOnlyIfBusy, Rivals
    <3>2. Rivals(q) \subseteq Rivals(q)'
      BY <1>1, <1>3, <1>6, <2>1 DEF Rivals, SameLimiter
    <3> QED
      BY <1>10, <3>1, <3>2, RivalsGrow
  <2>2. CASE q = r
    <3>1. ~ (Cardinality(kept) <= LoginLimit)
      BY <1>2, <2>2
    <3>2. Recent(r) \subseteq Rivals(r)'
      <4> SUFFICES ASSUME NEW z \in Recent(r) PROVE z \in Rivals(r)'
        OBVIOUS
      <4>1. z \in Kept(r) /\ stamp[r] < stamp[z] + Window
        BY DEF Recent
      <4>2. Judged(z) /\ SameLimiter(z, r) /\ z \in Requests \ {r}
        BY <1>4, <1>6, <4>1 DEF LoginInv, Listed, Kept, SameLimiter, p, a
      <4>3. stamp[z] <= stamp[r] \/ r \in overtaken'
        BY <1>3, <1>4, <4>1, <4>2
      <4> QED
        BY <1>1, <1>6, <4>1, <4>2, <4>3 DEF Rivals, SameLimiter
    <3>3. IsFiniteSet(Rivals(r)') /\ IsFiniteSet(Recent(r))
      <4>1. Rivals(r)' \subseteq {q2 \in Requests : req'[q2] # None}
        BY DEF Rivals, Judged, IsLogin
      <4> QED
        BY <1>10, <3>2, <4>1, FS_Subset DEF ClockShape
    <3>4. Cardinality(kept) = Cardinality(Recent(r)) + 1
      BY <1>6, <3>3, FS_AddElement DEF kept, Recent
    <3>5. /\ Cardinality(Recent(r)) <= Cardinality(Rivals(r)')
          /\ Cardinality(Recent(r)) \in Nat /\ Cardinality(Rivals(r)') \in Nat
      BY <3>2, <3>3, FS_Subset, FS_CardinalityType
    <3> QED
      BY <2>2, <3>1, <3>4, <3>5, GateAssumption
  <2> QED
    BY <2>1, <2>2
<1> QED
  BY <1>10, <1>11, <1>12, <1>13, <1>14 DEF LoginInv

LEMMA LoginStep == Shape /\ LoginInv /\ [Next]_vars => LoginInv'
<1> SUFFICES ASSUME Shape, LoginInv, [Next]_vars PROVE LoginInv'
  OBVIOUS
<1>1. ASSUME NEW r \in Requests, CheckHost(r) \/ Verify(r) \/ SaveSession(r)
      PROVE  LoginInv'
  <2>1. /\ UNCHANGED <<req, now, loginVars>> /\ Fits(r) /\ req[r] \in AllRequests
        /\ pc[r] \in {"host", "verify", "save"} /\ answer[r] = "none"
        /\ pc \in [Requests -> Places] /\ answer \in [Requests -> Answers]
    BY <1>1 DEF CheckHost, Verify, SaveSession, Shape
  <2>2. CASE CheckHost(r)
    <3>1. pc[r] = "host" /\ (Answer(r, "bad_host") \/ \E x \in {"clock", "delete", "session"} : Go(r, x))
      BY <2>1, <2>2, Kinds DEF CheckHost, AllRequests, Logins, Logouts, Calls
    <3> QED
      BY <2>1, <3>1, LoginMoves DEF Answer, Go
  <2>3. CASE Verify(r)
    <3>1. pc[r] = "verify" /\ (Answer(r, "bad_login") \/ Go(r, "save"))
      BY <2>3 DEF Verify
    <3> QED
      BY <2>1, <3>1, LoginMoves DEF Answer, Go
  <2>4. CASE SaveSession(r)
    <3>1. pc[r] = "save" /\ Answer(r, "ok")
      BY <2>4 DEF SaveSession
    <3> QED
      BY <2>1, <3>1, LoginMoves DEF Answer
  <2> QED
    BY <1>1, <2>2, <2>3, <2>4
<1>2. ASSUME NEW r \in Requests,
             \/ RefuseKey(r) \/ Incr(r) \/ Expire(r) \/ Logout(r) \/ CurrentUser(r) \/ Handle(r)
      PROVE  LoginInv'
  <2>1. /\ UNCHANGED <<req, now, loginVars>> /\ answer[r] = "none"
        /\ pc[r] \in {"key", "expire", "delete", "session", "handler"}
        /\ pc \in [Requests -> Places] /\ answer \in [Requests -> Answers]
    BY <1>2 DEF RefuseKey, Incr, Expire, Logout, CurrentUser, Handle, Shape, loginVars
  <2>2. req[r].kind # "login"
    <3>1. Fits(r)
      BY DEF Shape
    <3> QED
      BY <2>1, <3>1 DEF Fits, Calls, Logouts
  <2>3. \/ \E x \in Places : Go(r, x)
        \/ \E x \in Answers \ {"login_limit"} : Answer(r, x)
    BY <1>2 DEF RefuseKey, Incr, Expire, Decide, Logout, CurrentUser, Handle, Places, Answers
  <2>4. answer'[r] # "login_limit" /\ \A q \in Requests \ {r} : pc'[q] = pc[q] /\ answer'[q] = answer[q]
    BY <2>1, <2>3 DEF Go, Answer
  <2> QED
    BY <2>1, <2>2, <2>4, LoginMoves
<1>3. ASSUME NEW r \in Requests, Raise(r) PROVE LoginInv'
  <2>1. /\ UNCHANGED <<req, now, loginVars>> /\ answer[r] = "none" /\ Answer(r, "error")
        /\ pc[r] \in {"key", "expire", "verify", "save", "delete", "session", "handler"}
        /\ pc \in [Requests -> Places] /\ answer \in [Requests -> Answers]
    BY <1>3 DEF Raise, Shape
  <2>2. req[r].kind = "login" => pc[r] \in {"verify", "save"}
    <3>1. Fits(r)
      BY DEF Shape
    <3> QED
      BY <2>1, <3>1 DEF Fits, Calls, Logouts
  <2>3. answer'[r] = "error" /\ \A q \in Requests \ {r} : pc'[q] = pc[q] /\ answer'[q] = answer[q]
    BY <2>1 DEF Answer
  <2> QED
    BY <2>1, <2>2, <2>3, LoginMoves
<1>4. ASSUME UNCHANGED <<pc, req, answer, loginVars>>, now' \in 0..MaxClock, now <= now'
      PROVE  LoginInv'
  <2>1. \A q \in Requests : (Judged(q)' <=> Judged(q)) /\ (LetIn(q)' <=> LetIn(q))
    BY <1>4 DEF Judged, LetIn, IsLogin
  <2> QED
    BY <1>4, <2>1, LoginFrame
<1>5. now \in 0..MaxClock /\ now <= now
  <2>1. now \in 0..MaxClock
    BY DEF LoginInv, ClockShape
  <2> QED
    BY <2>1, GateAssumption
<1>6. CASE Tick
  <2>1. now' \in 0..MaxClock /\ now <= now'
    BY <1>5, <1>6, GateAssumption DEF Tick
  <2> QED
    BY <1>4, <1>6, <2>1 DEF Tick
<1>7. ASSUME NEW t \in Tenants, WindowEnds(t) PROVE LoginInv'
  BY <1>4, <1>5, <1>7 DEF WindowEnds
<1>8. ASSUME NEW s \in Requests, SessionExpires(s) PROVE LoginInv'
  BY <1>4, <1>5, <1>8 DEF SessionExpires
<1>9. CASE AllAnswered \/ UNCHANGED vars
  BY <1>4, <1>5, <1>9 DEF AllAnswered, vars
<1> QED
  BY <1>1, <1>2, <1>3, <1>6, <1>7, <1>8, <1>9, ArriveLogin, ReadClockLogin, CountLogin
     DEF Next, RequestStep

\* The limiter's invariant, with the shape of the requests it needs.
LEMMA LoginAlways == Spec => [](Inv /\ LoginInv)
<1>1. Inv => Shape
  BY DEF Inv
<1> QED
  BY <1>1, InitInv, StepInv, InitLogin, LoginStep, PTL DEF Spec

\* Every reachable state of the gateway is well typed.
THEOREM GateTypeCorrect == Spec => []TypeOK
<1>1. Inv /\ LoginInv => TypeOK
  BY DEF Inv, Shape, TenantInv, InWindow, LoginInv, ClockShape, TypeOK
<1> QED
  BY <1>1, LoginAlways, PTL

\* For any number of logins, threads and processes: no more attempts of an
\* address than the limit are let in within a window, except those overtaken
\* between their reading of the clock and the lock (auth.py, lines 22-30).
THEOREM LoginsLimited == Spec => []LoginWithinWindow
<1>1. LoginInv => LoginWithinWindow
  BY DEF LoginInv
<1> QED
  BY <1>1, LoginAlways, PTL

\* An attempt is refused only because of as many counted ones of its address, read
\* less than a window before it, or after it if they overtook it (auth.py, lines
\* 22-30).
THEOREM RefusedForCause == Spec => []RefusedOnlyIfBusy
<1>1. LoginInv => RefusedOnlyIfBusy
  BY DEF LoginInv
<1> QED
  BY <1>1, LoginAlways, PTL

===============================================================================
