-------------------------------- MODULE Portal --------------------------------
(***************************************************************************)
(* The browser console against the API it calls: sessions and users, the   *)
(* key the gateway asks for, the roles and the scenario catalog.  The      *)
(* server answers a handler's requests in one step, at any time between    *)
(* the click and the moment the browser applies the answer.                *)
(***************************************************************************)
EXTENDS Console, Scenarios

CONSTANTS
    StoredUsers,    \* users of the users table
    SeedUsers,      \* the user ENABLE_DEV_SEED_USER adds in memory, if any
    RoleOf,         \* user -> role
    ScenarioOf,     \* execution -> scenario_id
    Worlds          \* bound: the servers the console is put against

Users == StoredUsers \cup SeedUsers

ASSUME PortalAssumption ==
    /\ StoredUsers \cap SeedUsers = {} /\ None \notin Users
    /\ RoleOf \in [Users -> {"admin", "operator", "viewer"}]
    /\ ScenarioOf \in [Executions -> STRING]
    /\ {"none", "refused", "ok"} \cap (Sessions \cup Executions) = {}

(***************************************************************************)
(* "any": a server that answers as it likes; "api": the API behind a proxy *)
(* that adds X-API-Key, no request is lost; "api_lossy": answers may be    *)
(* lost and calls of the API may fail; "api_keyless": the API alone.       *)
(***************************************************************************)
ASSUME WorldsAssumption == Worlds \subseteq {"any", "api", "api_lossy", "api_keyless"}

VARIABLES
    world,  \* what is behind API_BASE
    owner,  \* session -> user, None before the login that creates it
    alive,  \* sessions the session repository holds
    reply   \* what the server has answered each waiting handler

serverVars == <<world, owner, alive, reply>>
vars == <<consoleVars, serverVars>>

PortalTypeOK ==
    /\ TypeOK
    /\ world \in Worlds
    /\ owner \in [Sessions -> Users \cup {None}]
    /\ alive \in SUBSET Sessions
    /\ reply \in [Handlers -> {"none", "refused", "ok"} \cup Sessions \cup Executions]

PortalInit ==
    /\ Init
    /\ world \in Worlds
    /\ owner = [s \in Sessions |-> None]
    /\ alive = {}
    /\ reply = [h \in Handlers |-> "none"]

-----------------------------------------------------------------------------

\* What handleRunScenario posts: runScenario sends no inputs.
ConsoleRun == [scenario_id |-> "health_check"]

\* The fields ScenarioRunRequest requires, that this model tells apart.
WellFormed(request) == {"scenario_id", "inputs"} \subseteq DOMAIN request

Asks(h) == world # "any" /\ reply[h] = "none" /\ handler[h] # Idle

Answer(h, x) == reply' = [reply EXCEPT ![h] = x]

\* Slip: the users of the login, seed users among them.
CurrentUserComposite(s) == s \in alive /\ owner[s] \in Users

\* Slip: with a seed user, only he is looked up.
CurrentUserSeedOnly(s) ==
    s \in alive /\ owner[s] \in IF SeedUsers = {} THEN StoredUsers ELSE SeedUsers

\* get_current_user: the session is held and its user is in the users table.
CurrentUser(s) == s \in alive /\ owner[s] \in StoredUsers

\* A private path: the gateway wants a key the console does not send.
Authorised(s) == world # "api_keyless" /\ CurrentUser(s)

\* execute of the login: a session of a user, stored or seeded, whose password is
\* right.
ServeLogin(h) ==
    /\ Asks(h) /\ Is(h, "login")
    /\ \E s \in Sessions, u \in Users :
          /\ owner[s] = None
          /\ owner' = [owner EXCEPT ![s] = u]
          /\ alive' = alive \cup {s}
          /\ Answer(h, s)
    /\ UNCHANGED <<consoleVars, world>>

\* Wrong credentials, too many attempts, or no session could be saved.
RefuseLogin(h) ==
    /\ Asks(h) /\ Is(h, "login")
    /\ Answer(h, "refused")
    /\ UNCHANGED <<consoleVars, world, owner, alive>>

\* Slip: the session is left to its time to live.
ServeLogoutKeeping(h) ==
    /\ Asks(h) /\ Is(h, "logout")
    /\ Answer(h, "ok")
    /\ UNCHANGED <<consoleVars, world, owner, alive>>

\* Anybody's session id will do, and no key.
ServeLogout(h) ==
    /\ Asks(h) /\ Is(h, "logout")
    /\ alive' = alive \ {handler[h].session}
    /\ Answer(h, "ok")
    /\ UNCHANGED <<consoleVars, world, owner>>

\* GET /executions/ and /agents/catalog.
ServeBoot(h) ==
    /\ Asks(h) /\ Is(h, "boot")
    /\ Answer(h, IF Authorised(handler[h].session) THEN "ok" ELSE "refused")
    /\ UNCHANGED <<consoleVars, world, owner, alive>>

\* The timeline and the subtasks are there for every execution, the detail only
\* when the catalog has its scenario: get raises and the answer is 500.
ServeExecution(h) ==
    /\ Asks(h) /\ handler[h].kind \in {"select", "run_load"}
    /\ Answer(h, IF /\ Authorised(handler[h].session)
                    /\ Has(ScenarioOf[handler[h].execution])
                 THEN "ok" ELSE "refused")
    /\ UNCHANGED <<consoleVars, world, owner, alive>>

MayRun(s, request) ==
    /\ Authorised(s)
    /\ RoleOf[owner[s]] \in {"admin", "operator"}
    /\ WellFormed(request)
    /\ ValidInputs(request.scenario_id, request.inputs)

\* POST /scenarios/run: an execution of the scenario, new or reused.
ServeRun(h) ==
    /\ Asks(h) /\ Is(h, "run")
    /\ \/ /\ MayRun(handler[h].session, ConsoleRun)
          /\ \E e \in Executions : ScenarioOf[e] = ConsoleRun.scenario_id /\ Answer(h, e)
       \/ /\ ~ MayRun(handler[h].session, ConsoleRun)
          /\ Answer(h, "refused")
    /\ UNCHANGED <<consoleVars, world, owner, alive>>

Serve(h) ==
    \/ ServeLogin(h) \/ RefuseLogin(h) \/ ServeLogout(h)
    \/ ServeBoot(h) \/ ServeExecution(h) \/ ServeRun(h)

\* The time to live is over, or the process that keeps sessions in memory restarts.
SessionEnds(s) ==
    /\ s \in alive
    /\ alive' = alive \ {s}
    /\ UNCHANGED <<consoleVars, world, owner, reply>>

Carries(h, x) == world = "any" \/ reply[h] = x

Failed(h) == world \in {"any", "api_lossy"} \/ reply[h] = "refused"

\* The browser applies an answer, or notices that it will get none.
PortalSettle(h) ==
    /\ \/ \E s \in Sessions : Carries(h, s) /\ LoginSucceeds(h, s)
       \/ Carries(h, "ok") /\ (Boot(h) \/ Selected(h) \/ RunShown(h) \/ LoggedOut(h))
       \/ \E e \in Executions : Carries(h, e) /\ RunAccepted(h, e)
       \/ Failed(h) /\ (LoginFails(h) \/ BootFails(h) \/ SelectFails(h) \/ RunFails(h) \/ LoggedOut(h))
    /\ Answer(h, "none")
    /\ UNCHANGED <<world, owner, alive>>

\* The answers still on their way are for a page that is gone.
PortalReload ==
    /\ Reload
    /\ reply' = [h \in Handlers |-> "none"]
    /\ UNCHANGED <<world, owner, alive>>

PortalClick ==
    /\ \/ \E h \in Handlers : Click(h)
       \/ \E e \in Executions : SelectLoggedOut(e)
       \/ \E s \in Visited : Navigate(s)
    /\ UNCHANGED serverVars

PortalNext ==
    \/ PortalClick
    \/ \E h \in Handlers : PortalSettle(h) \/ Serve(h)
    \/ \E s \in Sessions : SessionEnds(s)
    \/ PortalReload

PortalSpec == PortalInit /\ [][PortalNext]_vars

\* The server answers every request, the browser applies every answer.
PortalFairSpec ==
    /\ PortalSpec
    /\ \A h \in Handlers : WF_vars(PortalSettle(h)) /\ WF_vars(Serve(h))

-----------------------------------------------------------------------------

(***************************************************************************)
(* A session ends in the browser by the logout its user asked for, and     *)
(* then on the server too when no request is lost (/auth/logout is public  *)
(* and answers any session), unless the login or the logout button was     *)
(* clicked twice: a slow second answer would end or replace the session    *)
(* that came after.                                                        *)
(***************************************************************************)
EndsByItsLogout ==
    [][session # None /\ session' # session /\ ~ doubled =>
         /\ session' = None
         /\ \E h \in Handlers : Is(h, "logout") /\ handler[h].session = session
         /\ world \in {"api", "api_keyless"} => session \notin alive]_vars

\* No page shows its loading text forever, whatever requests fail, unless the user
\* loads it again and again.
LoadingEnds ==
    \A l \in {"executions", "timeline"} :
        []<><<PortalReload>>_vars \/ (l \in loading ~> l \notin loading)

(***************************************************************************)
(* Whatever is on the screen was served by the API to a session of a user  *)
(* in the users table, with a key, and is about an execution of the        *)
(* catalog.  The console alone is never served, a seed user sees nothing   *)
(* after the login that accepts him, an execution of /executions/run is    *)
(* never shown.                                                            *)
(***************************************************************************)
ScreenWasServed ==
    world # "any" =>
        /\ listed # None => world # "api_keyless" /\ owner[listed] \in StoredUsers
        /\ \A d \in {events, subtasks, detail} :
              d # None => /\ world # "api_keyless"
                          /\ owner[d.session] \in StoredUsers
                          /\ Has(ScenarioOf[d.execution])

\* The session of a handler is of no use to get_current_user.
Unserved(h) ==
    handler[h].session \notin alive \/ owner[handler[h].session] \in SeedUsers

(***************************************************************************)
(* With a key and no lost request, a page turns into an error only because *)
(* the session has ended or belongs to a seed user, because an execution   *)
(* outside the catalog was opened, or because the run button was pressed;  *)
(* and an error that hides the workspace stays until another session or a  *)
(* reload (router.tsx, lines 37-38, 95-97 and 117-119).                    *)
(***************************************************************************)
EveryErrorHasCause ==
    [][/\ world = "api" =>
           /\ "agents" \in error' \ error =>
                 \E h \in Handlers : Is(h, "boot") /\ Unserved(h)
           /\ "executions" \in error' \ error =>
                 \E h \in Handlers : Is(h, "run") \/ (Is(h, "boot") /\ Unserved(h))
           /\ "timeline" \in error' \ error =>
                 \E h \in Handlers :
                     /\ Is(h, "select")
                     /\ Unserved(h) \/ ~ Has(ScenarioOf[handler[h].execution])
       /\ "executions" \in error \ error' => session' # session \/ section' = "landing"]_vars

=============================================================================
