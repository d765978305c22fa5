------------------------------- MODULE Console -------------------------------
(***************************************************************************)
(* AppRouter, the state of the browser console.  JavaScript runs one piece *)
(* of a handler at a time; every await lets the user click on and another  *)
(* handler finish first.  An answer is applied to whatever the state is by *)
(* then: handlers keep the session and the execution of the click that     *)
(* started them.  Data on screen is abstracted to whom it belongs: the     *)
(* session it was fetched with and the execution it is about.              *)
(***************************************************************************)
EXTENDS Naturals, FiniteSets

CONSTANTS
    Sessions,       \* session ids the server hands out
    Executions,     \* executions the lists show
    Handlers,       \* bound: handlers that wait at a time
    None,
    MayFail,        \* requests may be refused or lost
    MayReload,      \* the user may load the page again
    Visited         \* bound: pages the user goes to on his own

ASSUME ConsoleAssumption ==
    /\ None \notin Sessions \cup Executions
    /\ MayFail \in BOOLEAN /\ MayReload \in BOOLEAN
    /\ Visited \subseteq {"landing", "dashboard", "workspace", "logs", "agents"}

VARIABLES
    session,    \* sessionId, role and their copies in localStorage
    section,    \* the page
    selected,   \* selectedExecutionId
    listed,     \* session the executions and agents were fetched with
    events,     \* whose timeline is shown
    subtasks,   \* whose subtasks are shown
    detail,     \* whose scenario detail is shown
    loading,    \* loadingExecutions, with it loadingAgents, and loadingTimeline
    error,      \* executionsError, agentsError and timelineError
    handler,    \* what each waiting handler will do
    used,       \* history: sessions handed out
    late,       \* history: an answer for another session was applied
    mixed,      \* history: a selection and another load of the timeline overlapped
    doubled     \* history: login or logout was clicked while one was waiting

screen == <<listed, events, subtasks, detail>>
history == <<used, late, mixed, doubled>>
consoleVars == <<session, section, selected, screen, loading, error, handler, history>>

Sections == {"landing", "dashboard", "workspace", "logs", "agents"}
Kinds == {"login", "boot", "select", "run", "run_load", "logout"}

\* Data of an execution, fetched with a session, or nothing.
Data == [session : Sessions, execution : Executions] \cup {None}

Idle == [kind |-> "idle", session |-> None, execution |-> None]

TypeOK ==
    /\ session \in Sessions \cup {None}
    /\ section \in Sections
    /\ selected \in Executions \cup {None}
    /\ listed \in Sessions \cup {None}
    /\ events \in Data /\ subtasks \in Data /\ detail \in Data
    /\ loading \in SUBSET {"executions", "timeline"}
    /\ error \in SUBSET {"executions", "agents", "timeline"}
    /\ handler \in [Handlers -> [kind : Kinds \cup {"idle"},
                                 session : Sessions \cup {None},
                                 execution : Executions \cup {None}]]
    /\ used \in SUBSET Sessions
    /\ late \in BOOLEAN /\ mixed \in BOOLEAN /\ doubled \in BOOLEAN

Init ==
    /\ session = None /\ section = "landing" /\ selected = None
    /\ listed = None /\ events = None /\ subtasks = None /\ detail = None
    /\ loading = {} /\ error = {}
    /\ handler = [h \in Handlers |-> Idle]
    /\ used = {} /\ late = FALSE /\ mixed = FALSE /\ doubled = FALSE

-----------------------------------------------------------------------------

Waiting(kinds) == {h \in Handlers : handler[h].kind \in kinds}

\* A handler starts: it sends its first request with the session of this render.
Send(h, kind, x) ==
    /\ handler[h] = Idle
    /\ handler' = [handler EXCEPT ![h] = [kind |-> kind, session |-> session, execution |-> x]]

End(h) == handler' = [handler EXCEPT ![h] = Idle]

Is(h, kind) == handler[h].kind = kind

Answered(h) == [session |-> handler[h].session, execution |-> handler[h].execution]

\* An answer is applied under another session than it was asked for with.
Lateness(h) == late' = (late \/ session # handler[h].session)

\* The table and the button of the workspace are on the screen.
InWorkspace ==
    section = "workspace" /\ "executions" \notin loading \cup error

Navigate(s) ==
    /\ section' = s
    /\ UNCHANGED <<session, selected, screen, loading, error, handler, history>>

Doubled(kind) == doubled' = (doubled \/ Waiting({kind}) # {})

\* The form is shown on every page but the landing page while there is no session.
Login(h) ==
    /\ session = None /\ section # "landing"
    /\ Send(h, "login", None)
    /\ Doubled("login")
    /\ UNCHANGED <<session, section, selected, screen, loading, error, used, late, mixed>>

\* setSessionId; the effect on it starts loadBootData.
LoginSucceeds(h, s) ==
    /\ Is(h, "login")
    /\ s \notin used
    /\ used' = used \cup {s}
    /\ session' = s
    /\ section' = "dashboard"
    /\ loading' = loading \cup {"executions"}
    /\ error' = error \ {"executions", "agents"}
    /\ handler' = [handler EXCEPT ![h] = [kind |-> "boot", session |-> s, execution |-> None]]
    /\ Lateness(h)
    /\ UNCHANGED <<selected, screen, mixed, doubled>>

LoginFails(h) ==
    /\ MayFail
    /\ Is(h, "login")
    /\ End(h)
    /\ UNCHANGED <<session, section, selected, screen, loading, error, history>>

\* Both answers of loadBootData are there.
Boot(h) ==
    /\ Is(h, "boot")
    /\ listed' = handler[h].session
    /\ loading' = loading \ {"executions"}
    /\ Lateness(h)
    /\ End(h)
    /\ UNCHANGED <<session, section, selected, events, subtasks, detail, error, used, mixed, doubled>>

\* Slip: the flag is cleared after the answer, not in finally.
BootFailsLoading(h) ==
    /\ MayFail
    /\ Is(h, "boot")
    /\ error' = error \cup {"executions", "agents"}
    /\ End(h)
    /\ UNCHANGED <<session, section, selected, screen, loading, history>>

BootFails(h) ==
    /\ MayFail
    /\ Is(h, "boot")
    /\ loading' = loading \ {"executions"}
    /\ error' = error \cup {"executions", "agents"}
    /\ End(h)
    /\ UNCHANGED <<session, section, selected, screen, history>>

\* Two loads of the timeline overlap; a selection on its own sets things right.
Overlap(kind) ==
    mixed' = \/ Waiting({"select", "run", "run_load"}) # {}
             \/ kind = "run" /\ mixed

\* Slip: the id is not set when the row is clicked.
SelectUnset(h, e) ==
    /\ session # None
    /\ InWorkspace /\ listed # None
    /\ Send(h, "select", e)
    /\ loading' = loading \cup {"timeline"}
    /\ error' = error \ {"timeline"}
    /\ Overlap("select")
    /\ UNCHANGED <<session, section, selected, screen, used, late, doubled>>

\* A row of the table is clicked.
Select(h, e) ==
    /\ session # None
    /\ InWorkspace /\ listed # None
    /\ Send(h, "select", e)
    /\ selected' = e
    /\ loading' = loading \cup {"timeline"}
    /\ error' = error \ {"timeline"}
    /\ Overlap("select")
    /\ UNCHANGED <<session, section, screen, used, late, doubled>>

\* Rows that a late answer left on the screen: the handler returns at once.
SelectLoggedOut(e) ==
    /\ session = None
    /\ InWorkspace /\ listed # None
    /\ selected' = e
    /\ UNCHANGED <<session, section, screen, loading, error, handler, history>>

\* The three answers of a selection are there.
Selected(h) ==
    /\ Is(h, "select")
    /\ events' = Answered(h) /\ subtasks' = Answered(h) /\ detail' = Answered(h)
    /\ section' = "workspace"
    /\ loading' = loading \ {"timeline"}
    /\ Lateness(h)
    /\ End(h)
    /\ UNCHANGED <<session, selected, listed, error, used, mixed, doubled>>

\* One of the three requests fails: nothing of the others is shown.
SelectFails(h) ==
    /\ MayFail
    /\ Is(h, "select")
    /\ events' = None /\ subtasks' = None /\ detail' = None
    /\ section' = "logs"
    /\ loading' = loading \ {"timeline"}
    /\ error' = error \cup {"timeline"}
    /\ End(h)
    /\ UNCHANGED <<session, selected, listed, history>>

\* The button of the workspace: POST /scenarios/run, then two GETs.
Run(h) ==
    /\ session # None
    /\ InWorkspace
    /\ Send(h, "run", None)
    /\ Overlap("run")
    /\ UNCHANGED <<session, section, selected, screen, loading, error, used, late, doubled>>

RunAccepted(h, e) ==
    /\ Is(h, "run")
    /\ handler' = [handler EXCEPT ![h] = [kind |-> "run_load", session |-> handler[h].session,
                                          execution |-> e]]
    /\ UNCHANGED <<session, section, selected, screen, loading, error, history>>

\* The subtasks of what was selected before stay.
RunShown(h) ==
    /\ Is(h, "run_load")
    /\ detail' = Answered(h) /\ events' = Answered(h)
    /\ selected' = handler[h].execution
    /\ section' = "logs"
    /\ Lateness(h)
    /\ End(h)
    /\ UNCHANGED <<session, listed, subtasks, loading, error, used, mixed, doubled>>

RunFails(h) ==
    /\ MayFail
    /\ Is(h, "run") \/ Is(h, "run_load")
    /\ error' = error \cup {"executions"}
    /\ End(h)
    /\ UNCHANGED <<session, section, selected, screen, loading, history>>

Logout(h) ==
    /\ session # None
    /\ Send(h, "logout", None)
    /\ Doubled("logout")
    /\ UNCHANGED <<session, section, selected, screen, loading, error, used, late, mixed>>

\* Slip: the scenario detail of the last execution is left.
LoggedOutKeepingDetail(h) ==
    /\ Is(h, "logout")
    /\ session' = None /\ section' = "landing" /\ selected' = None
    /\ listed' = None /\ events' = None /\ subtasks' = None
    /\ error' = {}
    /\ late' = FALSE /\ mixed' = FALSE
    /\ End(h)
    /\ UNCHANGED <<detail, loading, used, doubled>>

\* Slip: a section no branch of the page renders.
LoggedOutToLogin(h) ==
    /\ Is(h, "logout")
    /\ session' = None /\ section' = "login" /\ selected' = None
    /\ listed' = None /\ events' = None /\ subtasks' = None /\ detail' = None
    /\ error' = {}
    /\ late' = FALSE /\ mixed' = FALSE
    /\ End(h)
    /\ UNCHANGED <<loading, used, doubled>>

\* The answer of /auth/logout does not matter: clear everything.
LoggedOut(h) ==
    /\ Is(h, "logout")
    /\ session' = None /\ section' = "landing" /\ selected' = None
    /\ listed' = None /\ events' = None /\ subtasks' = None /\ detail' = None
    /\ error' = {}
    /\ late' = FALSE /\ mixed' = FALSE
    /\ End(h)
    /\ UNCHANGED <<loading, used, doubled>>

\* The page is loaded again: only localStorage survives.
Reload ==
    /\ MayReload
    /\ section' = "landing" /\ selected' = None
    /\ listed' = None /\ events' = None /\ subtasks' = None /\ detail' = None
    /\ error' = {}
    /\ late' = FALSE /\ mixed' = FALSE /\ doubled' = FALSE
    /\ IF session = None
       THEN loading' = {} /\ handler' = [h \in Handlers |-> Idle]
       ELSE /\ loading' = {"executions"}
            /\ \E b \in Handlers :
                  handler' = [h \in Handlers |->
                                IF h = b
                                THEN [kind |-> "boot", session |-> session, execution |-> None]
                                ELSE Idle]
    /\ UNCHANGED <<session, used>>

Click(h) ==
    \/ Login(h) \/ Run(h) \/ Logout(h)
    \/ \E e \in Executions : Select(h, e)

\* The pending request of a handler settles.
Settle(h) ==
    \/ \E s \in Sessions : LoginSucceeds(h, s)
    \/ LoginFails(h) \/ Boot(h) \/ BootFails(h)
    \/ Selected(h) \/ SelectFails(h)
    \/ \E e \in Executions : RunAccepted(h, e)
    \/ RunShown(h) \/ RunFails(h) \/ LoggedOut(h)

Next ==
    \/ \E h \in Handlers : Click(h) \/ Settle(h)
    \/ \E e \in Executions : SelectLoggedOut(e)
    \/ \E s \in Visited : Navigate(s)
    \/ Reload

Spec == Init /\ [][Next]_consoleVars

\* The browser settles every request.
FairSpec == Spec /\ \A h \in Handlers : WF_consoleVars(Settle(h))

-----------------------------------------------------------------------------

\* Everything on the screen was fetched with the session of the user who looks at
\* it, and nothing is left after a logout, unless an answer came in late, under
\* another session than it was asked for with.
ScreenBelongsToSession ==
    ~ late =>
        /\ listed \in {None, session}
        /\ \A d \in {events, subtasks, detail} : d # None => d.session = session

\* The timeline on the logs page is that of the execution the page names, and the
\* detail in the workspace is of the same one, once nothing is loading; only
\* loads that overlap can mix two executions.
TimelineOfSelection ==
    ~ late /\ ~ mixed /\ "timeline" \notin loading /\ events # None =>
        events.execution = selected /\ detail = events

=============================================================================
