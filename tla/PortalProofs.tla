----------------------------- MODULE PortalProofs -----------------------------
(***************************************************************************)
(* The console and the API for any number of sessions, executions, users   *)
(* and handlers, and for every server the module describes.                *)
(***************************************************************************)
EXTENDS Portal, TLAPS

\* The clicks one by one.
LEMMA ClickCases ==
    ASSUME PortalClick
    PROVE  /\ UNCHANGED serverVars
           /\ \/ \E h \in Handlers :
                    \/ Login(h) \/ Run(h) \/ Logout(h)
                    \/ \E e \in Executions : Select(h, e)
              \/ \E e \in Executions : SelectLoggedOut(e)
              \/ \E s \in Visited : Navigate(s)
  BY DEF PortalClick, Click

\* What a handler that waits was started with: a login without a session, every
\* other with one, and those about an execution with that.
Begun ==
    \A h \in Handlers :
        /\ Is(h, "login") => handler[h].session = None
        /\ handler[h].kind \in {"boot", "select", "run", "run_load", "logout"} =>
              handler[h].session \in Sessions
        /\ handler[h].kind \in {"select", "run_load"} => handler[h].execution \in Executions

\* Every step of the console, whatever lets it happen, keeps its types.
LEMMA ConsoleTypeStep ==
    ASSUME TypeOK, Begun, [Next]_consoleVars
    PROVE  TypeOK'
<1> USE DEF TypeOK, Data, Sections, Kinds, screen, history
<1>a. Idle \in [kind : Kinds \cup {"idle"}, session : Sessions \cup {None},
                execution : Executions \cup {None}]
  BY DEF Idle
<1>b. ASSUME NEW h \in Handlers, End(h)
      PROVE  handler' \in [Handlers -> [kind : Kinds \cup {"idle"},
                                        session : Sessions \cup {None},
                                        execution : Executions \cup {None}]]
  BY <1>a, <1>b DEF End
<1>c. ASSUME NEW h \in Handlers, NEW k \in Kinds, NEW x \in Executions \cup {None}, Send(h, k, x)
      PROVE  handler' \in [Handlers -> [kind : Kinds \cup {"idle"},
                                        session : Sessions \cup {None},
                                        execution : Executions \cup {None}]]
  BY <1>c DEF Send
<1>1. ASSUME NEW h \in Handlers, Login(h) PROVE TypeOK'
  BY <1>1, <1>c DEF Login, Doubled
<1>2. ASSUME NEW h \in Handlers, Run(h) PROVE TypeOK'
  BY <1>2, <1>c DEF Run, Overlap
<1>3. ASSUME NEW h \in Handlers, Logout(h) PROVE TypeOK'
  BY <1>3, <1>c DEF Logout, Doubled
<1>4. ASSUME NEW h \in Handlers, NEW e \in Executions, Select(h, e) PROVE TypeOK'
  BY <1>4, <1>c DEF Select, Overlap
<1>5. ASSUME NEW h \in Handlers, NEW s \in Sessions, LoginSucceeds(h, s) PROVE TypeOK'
  BY <1>5 DEF LoginSucceeds, Lateness
<1>6. ASSUME NEW h \in Handlers, LoginFails(h) PROVE TypeOK'
  BY <1>6, <1>b DEF LoginFails
<1>7. ASSUME NEW h \in Handlers, BootFails(h) PROVE TypeOK'
  BY <1>7, <1>b DEF BootFails
<1>8. ASSUME NEW h \in Handlers, RunFails(h) PROVE TypeOK'
  BY <1>8, <1>b DEF RunFails
<1>9. ASSUME NEW h \in Handlers, Boot(h) PROVE TypeOK'
  BY <1>9, <1>b DEF Boot, Lateness
<1>10. ASSUME NEW h \in Handlers, SelectFails(h) PROVE TypeOK'
  BY <1>10, <1>b DEF SelectFails
<1>11. ASSUME NEW h \in Handlers, LoggedOut(h) PROVE TypeOK'
  BY <1>11, <1>b DEF LoggedOut
<1>12. ASSUME NEW h \in Handlers, NEW e \in Executions, RunAccepted(h, e) PROVE TypeOK'
  BY <1>12 DEF RunAccepted
<1>13. ASSUME NEW h \in Handlers, Selected(h) PROVE TypeOK'
  <2>1. Answered(h) \in Data
    BY <1>13 DEF Selected, Is, Answered, Begun
  <2> QED
    BY <1>13, <2>1, <1>b DEF Selected, Lateness
<1>14. ASSUME NEW h \in Handlers, RunShown(h) PROVE TypeOK'
  <2>1. Answered(h) \in Data /\ handler[h].execution \in Executions
    BY <1>14 DEF RunShown, Is, Answered, Begun
  <2> QED
    BY <1>14, <2>1, <1>b DEF RunShown, Lateness
<1>15. ASSUME NEW e \in Executions, SelectLoggedOut(e) PROVE TypeOK'
  BY <1>15 DEF SelectLoggedOut
<1>16. ASSUME NEW s \in Visited, Navigate(s) PROVE TypeOK'
  BY <1>16, ConsoleAssumption DEF Navigate
<1>17. CASE Reload
  <2>1. CASE session = None
    BY <1>17, <2>1, <1>a DEF Reload
  <2>2. CASE session # None
    <3>1. PICK b \in Handlers :
             handler' = [h \in Handlers |->
                           IF h = b
                           THEN [kind |-> "boot", session |-> session, execution |-> None]
                           ELSE Idle]
      BY <1>17, <2>2 DEF Reload
    <3>2. handler' \in [Handlers -> [kind : Kinds \cup {"idle"},
                                     session : Sessions \cup {None},
                                     execution : Executions \cup {None}]]
      BY <3>1, <1>a
    <3> QED
      BY <1>17, <2>2, <3>2 DEF Reload
  <2> QED
    BY <2>1, <2>2
<1>18. CASE UNCHANGED consoleVars
  BY <1>18 DEF consoleVars
<1> QED
  BY <1>1, <1>2, <1>3, <1>4, <1>5, <1>6, <1>7, <1>8, <1>9, <1>10, <1>11,
     <1>12, <1>13, <1>14, <1>15, <1>16, <1>17, <1>18
     DEF Next, Click, Settle

\* The session of the browser is one the server handed out.
Handed == session # None => session \in used

LEMMA HandedStep ==
    ASSUME Handed, [Next]_consoleVars
    PROVE  Handed'
<1>1. ASSUME UNCHANGED <<session, used>> PROVE Handed'
  BY <1>1 DEF Handed
<1>2. ASSUME NEW h \in Handlers, Click(h) PROVE UNCHANGED <<session, used>>
  BY <1>2 DEF Click, Login, Run, Logout, Select, history
<1>3. ASSUME NEW h \in Handlers, Settle(h) PROVE Handed'
  <2>1. ASSUME NEW s \in Sessions, LoginSucceeds(h, s) PROVE Handed'
    BY <2>1 DEF LoginSucceeds, Handed
  <2>2. ASSUME LoggedOut(h) PROVE Handed'
    BY <2>2 DEF LoggedOut, Handed
  <2>3. ASSUME \/ LoginFails(h) \/ Boot(h) \/ BootFails(h) \/ Selected(h) \/ SelectFails(h)
               \/ RunShown(h) \/ RunFails(h) \/ (\E e \in Executions : RunAccepted(h, e))
        PROVE  UNCHANGED <<session, used>>
    BY <2>3 DEF LoginFails, Boot, BootFails, Selected, SelectFails, RunShown, RunFails,
                RunAccepted, history
  <2> QED
    BY <1>1, <1>3, <2>1, <2>2, <2>3 DEF Settle
<1>4. ASSUME NEW e \in Executions, SelectLoggedOut(e) PROVE UNCHANGED <<session, used>>
  BY <1>4 DEF SelectLoggedOut, history
<1>5. ASSUME NEW s \in Visited, Navigate(s) PROVE UNCHANGED <<session, used>>
  BY <1>5 DEF Navigate, history
<1>6. CASE Reload
  BY <1>1, <1>6 DEF Reload
<1>7. CASE UNCHANGED consoleVars
  BY <1>1, <1>7 DEF consoleVars, history
<1> QED
  BY <1>1, <1>2, <1>3, <1>4, <1>5, <1>6, <1>7 DEF Next

LEMMA BegunStep ==
    ASSUME TypeOK, Begun, [Next]_consoleVars
    PROVE  Begun'
<1> USE DEF Is
<1>a. ASSUME NEW h \in Handlers, End(h) PROVE Begun'
  BY <1>a DEF End, Idle, Begun, TypeOK
<1>b. ASSUME NEW h \in Handlers, session = None, Send(h, "login", None) PROVE Begun'
  BY <1>b DEF Send, Begun, TypeOK
<1>c. ASSUME NEW h \in Handlers, session # None, NEW k \in {"run", "logout"}, Send(h, k, None)
      PROVE  Begun'
  BY <1>c DEF Send, Begun, TypeOK
<1>d. ASSUME NEW h \in Handlers, session # None, NEW e \in Executions, Send(h, "select", e)
      PROVE  Begun'
  BY <1>d DEF Send, Begun, TypeOK
<1>e. ASSUME UNCHANGED handler PROVE Begun'
  BY <1>e DEF Begun
<1>1. ASSUME NEW h \in Handlers, Login(h) \/ Run(h) \/ Logout(h) PROVE Begun'
  BY <1>1, <1>b, <1>c DEF Login, Run, Logout
<1>2. ASSUME NEW h \in Handlers, NEW e \in Executions, Select(h, e) PROVE Begun'
  BY <1>2, <1>d DEF Select
<1>3. ASSUME NEW h \in Handlers, NEW s \in Sessions, LoginSucceeds(h, s) PROVE Begun'
  BY <1>3 DEF LoginSucceeds, Begun, TypeOK
<1>4. ASSUME NEW h \in Handlers,
             \/ LoginFails(h) \/ Boot(h) \/ BootFails(h) \/ Selected(h) \/ SelectFails(h)
             \/ RunShown(h) \/ RunFails(h) \/ LoggedOut(h)
      PROVE  Begun'
  BY <1>4, <1>a DEF LoginFails, Boot, BootFails, Selected, SelectFails, RunShown, RunFails, LoggedOut
<1>5. ASSUME NEW h \in Handlers, NEW e \in Executions, RunAccepted(h, e) PROVE Begun'
  BY <1>5 DEF RunAccepted, Begun, TypeOK
<1>6. ASSUME NEW e \in Executions, SelectLoggedOut(e) PROVE Begun'
  BY <1>6, <1>e DEF SelectLoggedOut
<1>7. ASSUME NEW s \in Visited, Navigate(s) PROVE Begun'
  BY <1>7, <1>e DEF Navigate
<1>8. CASE Reload
  BY <1>8 DEF Reload, Idle, Begun, TypeOK
<1>9. CASE UNCHANGED consoleVars
  BY <1>9, <1>e DEF consoleVars
<1> QED
  BY <1>1, <1>2, <1>3, <1>4, <1>5, <1>6, <1>7, <1>8, <1>9 DEF Next, Click, Settle

\* A step that leaves the session and the data, or empties the data, and an answer
\* that is applied: what is shown stays with the session, or late is set.
LEMMA ScreenStep ==
    ASSUME TypeOK, Begun, ScreenBelongsToSession, [Next]_consoleVars
    PROVE  ScreenBelongsToSession'
<1> USE DEF ScreenBelongsToSession, screen, history
<1>1. ASSUME NEW h \in Handlers, Login(h) \/ Run(h) \/ Logout(h) PROVE ScreenBelongsToSession'
  BY <1>1 DEF Login, Run, Logout
<1>2. ASSUME NEW h \in Handlers, NEW e \in Executions, Select(h, e)
      PROVE  ScreenBelongsToSession'
  BY <1>2 DEF Select
<1>3. ASSUME NEW h \in Handlers, NEW s \in Sessions, LoginSucceeds(h, s)
      PROVE  ScreenBelongsToSession'
  <2>1. handler[h].session = None
    BY <1>3 DEF LoginSucceeds, Begun
  <2>2. late' = (late \/ session # None) /\ UNCHANGED screen
    BY <1>3, <2>1 DEF LoginSucceeds, Lateness
  <2>3. ASSUME ~ late' PROVE listed = None /\ events = None /\ subtasks = None /\ detail = None
    <3>1. ~ late /\ session = None
      BY <2>2, <2>3
    <3>2. ASSUME NEW d \in {events, subtasks, detail} PROVE d = None
      <4>1. d # None => d.session \in Sessions
        BY DEF TypeOK, Data
      <4> QED
        BY <3>1, <4>1, ConsoleAssumption
    <3> QED
      BY <3>1, <3>2
  <2> QED
    BY <2>2, <2>3
<1>4. ASSUME NEW h \in Handlers, LoginFails(h) \/ BootFails(h) \/ RunFails(h)
      PROVE  ScreenBelongsToSession'
  BY <1>4 DEF LoginFails, BootFails, RunFails
<1>5. ASSUME NEW h \in Handlers, Boot(h) PROVE ScreenBelongsToSession'
  BY <1>5 DEF Boot, Lateness
<1>6. ASSUME NEW h \in Handlers, Selected(h) PROVE ScreenBelongsToSession'
  <2>1. /\ late' = (late \/ session # handler[h].session)
        /\ UNCHANGED <<session, listed>>
        /\ events' = Answered(h) /\ subtasks' = Answered(h) /\ detail' = Answered(h)
    BY <1>6 DEF Selected, Lateness
  <2>2. Answered(h).session = handler[h].session
    BY DEF Answered
  <2> QED
    BY <2>1, <2>2
<1>7. ASSUME NEW h \in Handlers, SelectFails(h) \/ LoggedOut(h) PROVE ScreenBelongsToSession'
  BY <1>7 DEF SelectFails, LoggedOut
<1>8. ASSUME NEW h \in Handlers, RunShown(h) PROVE ScreenBelongsToSession'
  <2>1. /\ late' = (late \/ session # handler[h].session)
        /\ UNCHANGED <<session, listed, subtasks>>
        /\ events' = Answered(h) /\ detail' = Answered(h)
    BY <1>8 DEF RunShown, Lateness
  <2>2. Answered(h).session = handler[h].session
    BY DEF Answered
  <2> QED
    BY <2>1, <2>2
<1>9. ASSUME NEW h \in Handlers, NEW e \in Executions, RunAccepted(h, e)
      PROVE  ScreenBelongsToSession'
  BY <1>9 DEF RunAccepted
<1>10. ASSUME NEW e \in Executions, SelectLoggedOut(e) PROVE ScreenBelongsToSession'
  BY <1>10 DEF SelectLoggedOut
<1>11. ASSUME NEW s \in Visited, Navigate(s) PROVE ScreenBelongsToSession'
  BY <1>11 DEF Navigate
<1>12. CASE Reload
  BY <1>12 DEF Reload
<1>13. CASE UNCHANGED consoleVars
  BY <1>13 DEF consoleVars
<1> QED
  BY <1>1, <1>2, <1>3, <1>4, <1>5, <1>6, <1>7, <1>8, <1>9, <1>10, <1>11, <1>12, <1>13
     DEF Next, Click, Settle

ConsoleInv == TypeOK /\ Begun /\ Handed /\ ScreenBelongsToSession

LEMMA ConsoleInitial == Init => ConsoleInv
<1> SUFFICES ASSUME Init PROVE ConsoleInv
  OBVIOUS
<1>1. Idle \in [kind : Kinds \cup {"idle"}, session : Sessions \cup {None},
                execution : Executions \cup {None}]
  BY DEF Idle
<1>2. TypeOK
  BY <1>1 DEF Init, TypeOK, Data, Sections
<1>3. Begun
  BY DEF Init, Begun, Is, Idle
<1>4. ScreenBelongsToSession /\ Handed
  BY DEF Init, ScreenBelongsToSession, Handed
<1> QED
  BY <1>2, <1>3, <1>4 DEF ConsoleInv

(***************************************************************************)
(* The page of any browser, whatever the server answers and the user       *)
(* clicks: AppRouter shows only what was fetched with its session, unless  *)
(* an answer came in late (router.tsx).                                    *)
(***************************************************************************)
THEOREM ScreenCorrect == Spec => []ScreenBelongsToSession
<1>1. Init => ConsoleInv
  BY ConsoleInitial
<1>2. ConsoleInv /\ [Next]_consoleVars => ConsoleInv'
  BY ConsoleTypeStep, BegunStep, HandedStep, ScreenStep DEF ConsoleInv
<1>3. ConsoleInv => ScreenBelongsToSession
  BY DEF ConsoleInv
<1> QED
  BY <1>1, <1>2, <1>3, PTL DEF Spec

(***************************************************************************)
(* Of the loads of the timeline that wait, only one was started with the   *)
(* session of the browser, unless loads overlapped; and a selection is of  *)
(* the row that was clicked last.                                          *)
(***************************************************************************)
Loads == {"select", "run", "run_load"}

Given == \A h \in Handlers : handler[h].session \in used \cup {None}

OneLoad ==
    ~ mixed =>
        \A g, h \in Handlers :
            /\ handler[g].kind \in Loads /\ handler[g].session = session
            /\ handler[h].kind \in Loads /\ handler[h].session = session
            => g = h

LastChosen ==
    ~ late /\ ~ mixed =>
        \A h \in Handlers :
            Is(h, "select") /\ handler[h].session = session => selected = handler[h].execution

LoadInv == Given /\ OneLoad /\ LastChosen /\ TimelineOfSelection

\* Handlers that end or stay as they are, under the session they had.
LEMMA FewerLoads ==
    ASSUME OneLoad, session' = session, mixed' = mixed,
           \A h \in Handlers :
               handler'[h].kind \in Loads =>
                   handler[h].kind \in Loads /\ handler'[h].session = handler[h].session
    PROVE  OneLoad'
  BY DEF OneLoad

\* Under a new session, or none, nobody has started a load yet.
LEMMA NoLoads ==
    ASSUME \A h \in Handlers : handler'[h].kind \in Loads => handler'[h].session # session'
    PROVE  OneLoad' /\ LastChosen'
  BY DEF OneLoad, LastChosen, Loads, Is

\* A load that waits alone.
LEMMA FirstLoad ==
    ASSUME TypeOK, NEW h \in Handlers, NEW k \in {"select", "run"}, NEW x \in Executions \cup {None},
           Send(h, k, x), Overlap(k), ~ mixed'
    PROVE  /\ \A g \in Handlers : handler[g].kind \notin Loads
           /\ \A g \in Handlers : handler'[g].kind \in Loads => g = h
           /\ handler'[h] = [kind |-> k, session |-> session, execution |-> x]
           /\ OneLoad'
<1>1. \A g \in Handlers : handler[g].kind \notin Loads
  BY DEF Overlap, Waiting, Loads
<1>2. /\ \A g \in Handlers : handler'[g].kind \in Loads => g = h
      /\ handler'[h] = [kind |-> k, session |-> session, execution |-> x]
  BY <1>1 DEF Send, TypeOK
<1> QED
  BY <1>1, <1>2 DEF OneLoad

LEMMA LoadStep ==
    ASSUME TypeOK, Begun, Handed, ScreenBelongsToSession, LoadInv, [Next]_consoleVars
    PROVE  LoadInv'
<1> USE DEF LoadInv, screen, history, Is
<1>1. ASSUME UNCHANGED <<session, selected, events, detail, loading, mixed, used, late>>,
             \A h \in Handlers :
                 /\ handler'[h].session \in {None, session, handler[h].session}
                 /\ handler'[h].kind \in Loads =>
                        handler[h].kind \in Loads /\ handler'[h].session = handler[h].session
                 /\ handler'[h].kind = "select" => handler'[h] = handler[h]
      PROVE  LoadInv'
  <2>1. OneLoad'
    BY <1>1, FewerLoads
  <2>2. Given' /\ LastChosen' /\ TimelineOfSelection'
    BY <1>1 DEF Given, Handed, LastChosen, TimelineOfSelection
  <2> QED
    BY <2>1, <2>2
<1>2. ASSUME NEW h \in Handlers, Login(h) \/ Logout(h) PROVE LoadInv'
  <2>1. UNCHANGED <<session, selected, events, detail, loading, mixed, used, late>>
    BY <1>2 DEF Login, Logout
  <2>2. PICK k \in {"login", "logout"} : Send(h, k, None)
    BY <1>2 DEF Login, Logout
  <2> QED
    BY <1>1, <2>1, <2>2 DEF Send, TypeOK, Loads
<1>3. ASSUME NEW h \in Handlers, NEW e \in Executions, Select(h, e) PROVE LoadInv'
  <2>1. /\ Send(h, "select", e) /\ Overlap("select")
        /\ selected' = e /\ "timeline" \in loading'
        /\ UNCHANGED <<session, used, late>>
    BY <1>3 DEF Select
  <2>2. Given'
    BY <2>1 DEF Send, Given, Handed, TypeOK
  <2>3. OneLoad' /\ LastChosen'
    <3>1. CASE ~ mixed'
      <4>1. /\ OneLoad' /\ \A g \in Handlers : handler'[g].kind \in Loads => g = h
            /\ handler'[h] = [kind |-> "select", session |-> session, execution |-> e]
        BY <2>1, <3>1, FirstLoad
      <4> QED
        BY <2>1, <4>1 DEF LastChosen, Loads
    <3>2. CASE mixed'
      BY <3>2 DEF OneLoad, LastChosen
    <3> QED
      BY <3>1, <3>2
  <2>4. TimelineOfSelection'
    BY <2>1 DEF TimelineOfSelection
  <2> QED
    BY <2>2, <2>3, <2>4
<1>4. ASSUME NEW h \in Handlers, Run(h) PROVE LoadInv'
  <2>1. /\ Send(h, "run", None) /\ Overlap("run")
        /\ UNCHANGED <<session, selected, events, detail, loading, used, late>>
    BY <1>4 DEF Run
  <2>2. Given'
    BY <2>1 DEF Send, Given, Handed, TypeOK
  <2>3. OneLoad' /\ LastChosen'
    <3>1. CASE ~ mixed'
      <4>1. /\ OneLoad' /\ \A g \in Handlers : handler'[g].kind \in Loads => g = h
            /\ handler'[h] = [kind |-> "run", session |-> session, execution |-> None]
        BY <2>1, <3>1, FirstLoad
      <4> QED
        BY <4>1 DEF LastChosen, Loads
    <3>2. CASE mixed'
      BY <3>2 DEF OneLoad, LastChosen
    <3> QED
      BY <3>1, <3>2
  <2>4. mixed => mixed'
    BY <2>1 DEF Overlap, TypeOK
  <2>5. TimelineOfSelection'
    BY <2>1, <2>4 DEF TimelineOfSelection
  <2> QED
    BY <2>2, <2>3, <2>5
<1>5. ASSUME NEW h \in Handlers, NEW s \in Sessions, LoginSucceeds(h, s) PROVE LoadInv'
  <2>1. /\ s \notin used /\ used' = used \cup {s} /\ session' = s
        /\ handler[h].session = None
        /\ handler' = [handler EXCEPT ![h] = [kind |-> "boot", session |-> s, execution |-> None]]
        /\ UNCHANGED <<selected, events, detail, mixed>>
        /\ "timeline" \in loading => "timeline" \in loading'
        /\ late' = (late \/ session # None)
    BY <1>5 DEF LoginSucceeds, Begun, Lateness
  <2>2. Given'
    BY <2>1 DEF Given, TypeOK
  <2>3. \A g \in Handlers : handler'[g].kind \in Loads => handler'[g].session # session'
    BY <2>1, ConsoleAssumption DEF Given, TypeOK, Loads
  <2>4. TimelineOfSelection'
    BY <2>1 DEF TimelineOfSelection, TypeOK
  <2> QED
    BY <2>2, <2>3, <2>4, NoLoads
<1>6. ASSUME NEW h \in Handlers, LoginFails(h) \/ RunFails(h) PROVE LoadInv'
  <2>1. /\ UNCHANGED <<session, selected, events, detail, loading, mixed, used, late>>
        /\ End(h)
    BY <1>6 DEF LoginFails, RunFails
  <2> QED
    BY <1>1, <2>1 DEF End, Idle, TypeOK, Loads
<1>7. ASSUME NEW h \in Handlers, Boot(h) \/ BootFails(h) PROVE LoadInv'
  <2>1. /\ UNCHANGED <<session, selected, events, detail, mixed, used>>
        /\ loading' = loading \ {"executions"} /\ (late => late')
        /\ End(h)
    <3>1. CASE Boot(h)
      BY <3>1 DEF Boot, Lateness
    <3>2. CASE BootFails(h)
      BY <3>2 DEF BootFails
    <3> QED
      BY <1>7, <3>1, <3>2
  <2>2. OneLoad'
    BY <2>1, FewerLoads DEF End, Idle, TypeOK, Loads
  <2>3. Given' /\ LastChosen'
    BY <2>1 DEF End, Idle, Given, LastChosen, TypeOK
  <2>4. TimelineOfSelection'
    BY <2>1 DEF TimelineOfSelection
  <2> QED
    BY <2>2, <2>3, <2>4
<1>8. ASSUME NEW h \in Handlers, Selected(h) PROVE LoadInv'
  <2>1. /\ Is(h, "select")
        /\ UNCHANGED <<session, selected, mixed, used>>
        /\ events' = Answered(h) /\ detail' = Answered(h)
        /\ late' = (late \/ session # handler[h].session)
        /\ End(h)
    BY <1>8 DEF Selected, Lateness
  <2>2. OneLoad'
    BY <2>1, FewerLoads DEF End, Idle, TypeOK, Loads
  <2>3. Given' /\ LastChosen'
    BY <2>1 DEF End, Idle, Given, LastChosen, TypeOK
  <2>4. TimelineOfSelection'
    <3>1. ASSUME ~ late', ~ mixed' PROVE selected = handler[h].execution
      BY <2>1, <3>1 DEF LastChosen, TypeOK
    <3>2. Answered(h).execution = handler[h].execution
      BY DEF Answered
    <3> QED
      BY <2>1, <3>1, <3>2 DEF TimelineOfSelection
  <2> QED
    BY <2>2, <2>3, <2>4
<1>9. ASSUME NEW h \in Handlers, SelectFails(h) PROVE LoadInv'
  <2>1. /\ UNCHANGED <<session, selected, mixed, used, late>>
        /\ events' = None
        /\ End(h)
    BY <1>9 DEF SelectFails
  <2>2. OneLoad'
    BY <2>1, FewerLoads DEF End, Idle, TypeOK, Loads
  <2> QED
    BY <2>1, <2>2 DEF End, Idle, Given, LastChosen, TypeOK, TimelineOfSelection
<1>10. ASSUME NEW h \in Handlers, NEW e \in Executions, RunAccepted(h, e) PROVE LoadInv'
  <2>1. /\ Is(h, "run")
        /\ handler' = [handler EXCEPT ![h] = [kind |-> "run_load", session |-> handler[h].session,
                                              execution |-> e]]
        /\ UNCHANGED <<session, selected, events, detail, loading, mixed, used, late>>
    BY <1>10 DEF RunAccepted
  <2> QED
    BY <1>1, <2>1 DEF TypeOK, Loads
<1>11. ASSUME NEW h \in Handlers, RunShown(h) PROVE LoadInv'
  <2>1. /\ Is(h, "run_load")
        /\ UNCHANGED <<session, mixed, used>>
        /\ events' = Answered(h) /\ detail' = Answered(h) /\ selected' = handler[h].execution
        /\ late' = (late \/ session # handler[h].session)
        /\ End(h)
    BY <1>11 DEF RunShown, Lateness
  <2>2. OneLoad'
    BY <2>1, FewerLoads DEF End, Idle, TypeOK, Loads
  <2>3. Given'
    BY <2>1 DEF End, Idle, Given, TypeOK
  <2>4. LastChosen'
    <3>1. ASSUME ~ late', ~ mixed', NEW g \in Handlers,
                 handler'[g].kind = "select", handler'[g].session = session
          PROVE  FALSE
      <4>1. g # h /\ handler[g] = handler'[g]
        BY <2>1, <3>1 DEF End, Idle, TypeOK
      <4> QED
        BY <2>1, <3>1, <4>1 DEF OneLoad, Loads, TypeOK
    <3> QED
      BY <2>1, <3>1 DEF LastChosen
  <2>5. Answered(h).execution = handler[h].execution
    BY DEF Answered
  <2> QED
    BY <2>1, <2>2, <2>3, <2>4, <2>5 DEF TimelineOfSelection
<1>12. ASSUME NEW h \in Handlers, LoggedOut(h) PROVE LoadInv'
  <2>1. session' = None /\ events' = None /\ UNCHANGED used /\ End(h)
    BY <1>12 DEF LoggedOut
  <2>2. \A g \in Handlers : handler'[g].kind \in Loads => handler'[g].session # session'
    BY <2>1, ConsoleAssumption DEF End, Idle, Begun, TypeOK, Loads
  <2> QED
    BY <2>1, <2>2, NoLoads DEF End, Idle, Given, TypeOK, TimelineOfSelection
<1>13. ASSUME NEW e \in Executions, SelectLoggedOut(e) PROVE LoadInv'
  <2>1. /\ session = None /\ listed # None
        /\ UNCHANGED <<session, handler, used, late, mixed>>
    BY <1>13 DEF SelectLoggedOut
  <2>2. late'
    BY <2>1 DEF ScreenBelongsToSession
  <2>3. OneLoad'
    BY <2>1, FewerLoads
  <2> QED
    BY <2>1, <2>2, <2>3 DEF Given, LastChosen, TimelineOfSelection
<1>14. ASSUME NEW s \in Visited, Navigate(s) PROVE LoadInv'
  BY <1>1, <1>14 DEF Navigate
<1>15. CASE Reload
  <2>1. /\ events' = None /\ UNCHANGED used
        /\ \A h \in Handlers : /\ handler'[h].session \in {None, session}
                               /\ handler'[h].kind \in {"idle", "boot"}
    BY <1>15 DEF Reload, Idle
  <2> QED
    BY <2>1, NoLoads DEF Given, Handed, TimelineOfSelection, Loads
<1>16. CASE UNCHANGED consoleVars
  BY <1>1, <1>16 DEF consoleVars
<1> QED
  BY <1>2, <1>3, <1>4, <1>5, <1>6, <1>7, <1>8, <1>9, <1>10, <1>11, <1>12, <1>13,
     <1>14, <1>15, <1>16 DEF Next, Click, Settle

LEMMA LoadInitial == Init => LoadInv
  BY DEF Init, LoadInv, Given, OneLoad, LastChosen, TimelineOfSelection, Idle, Is, Loads

(***************************************************************************)
(* For any server and any number of handlers that wait: the timeline, and  *)
(* the detail with it, are of the execution the page names, unless loads   *)
(* of the timeline overlapped or an answer came in late (router.tsx).      *)
(***************************************************************************)
THEOREM TimelineCorrect == Spec => []TimelineOfSelection
<1>1. Init => ConsoleInv /\ LoadInv
  BY ConsoleInitial, LoadInitial
<1>2. ConsoleInv /\ LoadInv /\ [Next]_consoleVars => (ConsoleInv /\ LoadInv)'
  BY ConsoleTypeStep, BegunStep, HandedStep, ScreenStep, LoadStep DEF ConsoleInv
<1>3. LoadInv => TimelineOfSelection
  BY DEF LoadInv
<1> QED
  BY <1>1, <1>2, <1>3, PTL DEF Spec

\* A step of the whole is a step of the console or leaves the browser alone.
LEMMA StepMap == [PortalNext]_vars => [Next]_consoleVars
<1> SUFFICES ASSUME [PortalNext]_vars PROVE [Next]_consoleVars
  OBVIOUS
<1>1. CASE PortalClick
  BY <1>1 DEF PortalClick, Next
<1>2. ASSUME NEW h \in Handlers, PortalSettle(h) PROVE Next
  <2>1. Settle(h)
    BY <1>2 DEF PortalSettle, Settle
  <2> QED
    BY <2>1 DEF Next
<1>3. ASSUME NEW h \in Handlers, Serve(h) PROVE UNCHANGED consoleVars
  BY <1>3 DEF Serve, ServeLogin, RefuseLogin, ServeLogout, ServeBoot, ServeExecution, ServeRun
<1>4. ASSUME NEW s \in Sessions, SessionEnds(s) PROVE UNCHANGED consoleVars
  BY <1>4 DEF SessionEnds
<1>5. CASE PortalReload
  BY <1>5 DEF PortalReload, Next
<1>6. CASE UNCHANGED vars
  BY <1>6 DEF vars
<1> QED
  BY <1>1, <1>2, <1>3, <1>4, <1>5, <1>6 DEF PortalNext

(***************************************************************************)
(* The API is one of the servers the console is specified against: every   *)
(* behaviour of the two together is one of the console.                    *)
(***************************************************************************)
THEOREM PortalImplementsConsole == PortalSpec => Spec
<1>1. PortalInit => Init
  BY DEF PortalInit
<1> QED
  BY <1>1, StepMap, PTL DEF PortalSpec, Spec

-----------------------------------------------------------------------------

(***************************************************************************)
(* What an answer on its way says of the server: it was given to a handler *)
(* that waits, and if it is a grant or a refusal, then for a reason that   *)
(* stays true, because a session keeps its user and does not come back.    *)
(***************************************************************************)
Idles == \A h \in Handlers : handler[h] = Idle => reply[h] = "none"

Owned ==
    /\ session # None => owner[session] # None
    /\ \A h \in Handlers :
          /\ handler[h].session # None => owner[handler[h].session] # None
          /\ Is(h, "login") /\ reply[h] \in Sessions => owner[reply[h]] # None

Granted ==
    \A h \in Handlers :
        /\ handler[h].kind \in {"boot", "select"} /\ reply[h] = "ok" =>
              world # "api_keyless" /\ owner[handler[h].session] \in StoredUsers
        /\ Is(h, "select") /\ reply[h] = "ok" => Has(ScenarioOf[handler[h].execution])
        /\ Is(h, "run") => reply[h] \notin Executions
        /\ ~ Is(h, "run_load")

Refused ==
    \A h \in Handlers :
        world = "api" /\ reply[h] = "refused" =>
            /\ Is(h, "boot") => Unserved(h)
            /\ Is(h, "select") => Unserved(h) \/ ~ Has(ScenarioOf[handler[h].execution])

Ended ==
    \A h \in Handlers :
        Is(h, "logout") =>
            /\ reply[h] \in {"none", "ok"}
            /\ reply[h] = "ok" => handler[h].session \notin alive

ServerInv == world # "any" => Owned /\ Granted /\ Refused /\ Ended

PortalInv == PortalTypeOK /\ ConsoleInv /\ Idles /\ ServerInv /\ ScreenWasServed

\* A session keeps its user, and one that has ended does not come back.
LEMMA SessionsEnd ==
    ASSUME PortalTypeOK, [PortalNext]_vars
    PROVE  /\ world' = world
           /\ \A s \in Sessions :
                 owner[s] # None => owner'[s] = owner[s] /\ (s \in alive' => s \in alive)
<1>1. CASE PortalClick
  BY <1>1 DEF PortalClick, serverVars
<1>2. ASSUME NEW h \in Handlers, PortalSettle(h) PROVE UNCHANGED <<world, owner, alive>>
  BY <1>2 DEF PortalSettle
<1>3. ASSUME NEW h \in Handlers, ServeLogin(h)
      PROVE  /\ world' = world
             /\ \A s \in Sessions :
                   owner[s] # None => owner'[s] = owner[s] /\ (s \in alive' => s \in alive)
  BY <1>3 DEF ServeLogin, PortalTypeOK
<1>4. ASSUME NEW h \in Handlers,
             RefuseLogin(h) \/ ServeLogout(h) \/ ServeBoot(h) \/ ServeExecution(h) \/ ServeRun(h)
      PROVE  UNCHANGED <<world, owner>> /\ alive' \subseteq alive
  BY <1>4 DEF RefuseLogin, ServeLogout, ServeBoot, ServeExecution, ServeRun
<1>5. ASSUME NEW s \in Sessions, SessionEnds(s)
      PROVE  UNCHANGED <<world, owner>> /\ alive' \subseteq alive
  BY <1>5 DEF SessionEnds
<1>6. CASE PortalReload
  BY <1>6 DEF PortalReload
<1>7. CASE UNCHANGED vars
  BY <1>7 DEF vars, serverVars
<1> QED
  BY <1>1, <1>2, <1>3, <1>4, <1>5, <1>6, <1>7 DEF PortalNext, Serve

\* For a handler, a step is one of the server that answers it, or ends what it
\* waited for, or leaves it and its answer alone.
LEMMA Replies ==
    ASSUME PortalTypeOK, Idles, [PortalNext]_vars, NEW g \in Handlers
    PROVE  \/ reply'[g] = "none"
           \/ handler'[g] = handler[g] /\ reply'[g] = reply[g]
           \/ Serve(g) /\ handler' = handler
<1> USE DEF PortalTypeOK, TypeOK
<1>1. ASSUME NEW h \in Handlers, NEW k, NEW x, Send(h, k, x), reply' = reply
      PROVE  reply'[g] = "none" \/ (handler'[g] = handler[g] /\ reply'[g] = reply[g])
  BY <1>1 DEF Send, Idles
<1>2. CASE PortalClick
  <2>1. UNCHANGED reply
    BY <1>2, ClickCases DEF serverVars
  <2>2. ASSUME NEW h \in Handlers, Login(h) \/ Run(h) \/ Logout(h)
        PROVE  reply'[g] = "none" \/ (handler'[g] = handler[g] /\ reply'[g] = reply[g])
    BY <1>1, <2>1, <2>2 DEF Login, Run, Logout
  <2>3. ASSUME NEW h \in Handlers, NEW e \in Executions, Select(h, e)
        PROVE  reply'[g] = "none" \/ (handler'[g] = handler[g] /\ reply'[g] = reply[g])
    BY <1>1, <2>1, <2>3 DEF Select
  <2>4. ASSUME NEW e \in Executions, SelectLoggedOut(e) PROVE handler' = handler
    BY <2>4 DEF SelectLoggedOut
  <2>5. ASSUME NEW s \in Visited, Navigate(s) PROVE handler' = handler
    BY <2>5 DEF Navigate
  <2> QED
    BY <1>2, <2>1, <2>2, <2>3, <2>4, <2>5, ClickCases
<1>3. ASSUME NEW h \in Handlers, PortalSettle(h)
      PROVE  reply'[g] = "none" \/ (handler'[g] = handler[g] /\ reply'[g] = reply[g])
  <2>1. reply' = [reply EXCEPT ![h] = "none"]
    BY <1>3 DEF PortalSettle, Answer
  <2>2. Settle(h)
    BY <1>3 DEF PortalSettle, Settle
  <2>3. \E r : handler' = [handler EXCEPT ![h] = r]
    BY <2>2 DEF Settle, LoginSucceeds, LoginFails, Boot, BootFails, Selected, SelectFails,
                RunAccepted, RunShown, RunFails, LoggedOut, End
  <2> QED
    BY <2>1, <2>3
<1>4. ASSUME NEW h \in Handlers, Serve(h)
      PROVE  /\ handler' = handler
             /\ h # g => reply'[g] = reply[g]
  BY <1>4 DEF Serve, ServeLogin, RefuseLogin, ServeLogout, ServeBoot, ServeExecution, ServeRun,
              Answer, consoleVars
<1>5. ASSUME NEW s \in Sessions, SessionEnds(s) PROVE handler' = handler /\ reply' = reply
  BY <1>5 DEF SessionEnds, consoleVars
<1>6. CASE PortalReload
  BY <1>6 DEF PortalReload
<1>7. CASE UNCHANGED vars
  BY <1>7 DEF vars, consoleVars, serverVars
<1> QED
  BY <1>2, <1>3, <1>4, <1>5, <1>6, <1>7 DEF PortalNext

LEMMA PortalTypeStep ==
    ASSUME PortalTypeOK, Begun, [PortalNext]_vars
    PROVE  PortalTypeOK'
<1>1. TypeOK'
  BY StepMap, ConsoleTypeStep DEF PortalTypeOK
<1> USE DEF PortalTypeOK
<1>2. CASE PortalClick
  BY <1>1, <1>2 DEF PortalClick, serverVars
<1>3. ASSUME NEW h \in Handlers, PortalSettle(h) PROVE PortalTypeOK'
  BY <1>1, <1>3 DEF PortalSettle, Answer
<1>4. ASSUME NEW h \in Handlers, ServeLogin(h) PROVE PortalTypeOK'
  BY <1>1, <1>4 DEF ServeLogin, Answer
<1>5. ASSUME NEW h \in Handlers,
             RefuseLogin(h) \/ ServeLogout(h) \/ ServeBoot(h) \/ ServeExecution(h)
      PROVE  PortalTypeOK'
  BY <1>1, <1>5 DEF RefuseLogin, ServeLogout, ServeBoot, ServeExecution, Answer
<1>6. ASSUME NEW h \in Handlers, ServeRun(h) PROVE PortalTypeOK'
  BY <1>1, <1>6 DEF ServeRun, Answer
<1>7. ASSUME NEW s \in Sessions, SessionEnds(s) PROVE PortalTypeOK'
  BY <1>1, <1>7 DEF SessionEnds
<1>8. CASE PortalReload
  BY <1>1, <1>8 DEF PortalReload
<1>9. CASE UNCHANGED vars
  BY <1>1, <1>9 DEF vars, serverVars
<1> QED
  BY <1>2, <1>3, <1>4, <1>5, <1>6, <1>7, <1>8, <1>9 DEF PortalNext, Serve

LEMMA IdlesStep ==
    ASSUME PortalTypeOK, Idles, [PortalNext]_vars
    PROVE  Idles'
<1> SUFFICES ASSUME NEW g \in Handlers, handler'[g] = Idle PROVE reply'[g] = "none"
  BY DEF Idles
<1>1. ~ (Serve(g) /\ handler' = handler)
  BY DEF Serve, ServeLogin, RefuseLogin, ServeLogout, ServeBoot, ServeExecution, ServeRun, Asks
<1> QED
  BY <1>1, Replies DEF Idles

\* No request of the console can be accepted as a run: it has no inputs.
LEMMA NoRun == ASSUME NEW s PROVE ~ MayRun(s, ConsoleRun)
<1>1. DOMAIN ConsoleRun = {"scenario_id"}
  BY DEF ConsoleRun
<1> QED
  BY <1>1 DEF MayRun, WellFormed

\* Words are not sessions or executions.
LEMMA Words ==
    ASSUME NEW x \in {"none", "refused", "ok"}
    PROVE  x \notin Sessions /\ x \notin Executions
  BY PortalAssumption

LEMMA GrantedStep ==
    ASSUME PortalTypeOK, Begun, Idles, Owned, Granted, world # "any", [PortalNext]_vars
    PROVE  Granted'
<1> DEFINE G(g) == /\ handler[g].kind \in {"boot", "select"} /\ reply[g] = "ok" =>
                         world # "api_keyless" /\ owner[handler[g].session] \in StoredUsers
                   /\ Is(g, "select") /\ reply[g] = "ok" => Has(ScenarioOf[handler[g].execution])
                   /\ Is(g, "run") => reply[g] \notin Executions
<1>0. ASSUME NEW g \in Handlers PROVE ~ Is(g, "run_load")'
  <2>1. ASSUME NEW h \in Handlers, NEW e \in Executions, RunAccepted(h, e)
        PROVE  ~ Carries(h, e)
    BY <2>1 DEF RunAccepted, Granted, Carries
  <2>2. ~ Is(g, "run_load")
    BY DEF Granted
  <2>3. ASSUME NEW h \in Handlers, NEW x, NEW k \in Kinds \ {"run_load"}, Send(h, k, x)
        PROVE  ~ Is(g, "run_load")'
    BY <2>2, <2>3 DEF Send, Is, PortalTypeOK, TypeOK
  <2>4. CASE PortalClick
    BY <2>2, <2>3, <2>4 DEF PortalClick, Click, Login, Run, Logout, Select, SelectLoggedOut,
                            Navigate, Is, Kinds
  <2>5. ASSUME NEW h \in Handlers, PortalSettle(h) PROVE ~ Is(g, "run_load")'
    <3>1. ASSUME End(h) PROVE ~ Is(g, "run_load")'
      BY <2>2, <3>1 DEF End, Idle, Is, PortalTypeOK, TypeOK
    <3>2. ASSUME NEW s \in Sessions, LoginSucceeds(h, s) PROVE ~ Is(g, "run_load")'
      BY <2>2, <3>2 DEF LoginSucceeds, Is, PortalTypeOK, TypeOK
    <3> QED
      BY <2>1, <2>5, <3>1, <3>2 DEF PortalSettle, Boot, Selected, RunShown, LoginFails, BootFails,
                                    SelectFails, RunFails, LoggedOut
  <2>6. ASSUME NEW h \in Handlers, Serve(h) PROVE handler' = handler
    BY <2>6 DEF Serve, ServeLogin, RefuseLogin, ServeLogout, ServeBoot, ServeExecution, ServeRun,
                consoleVars
  <2>7. ASSUME NEW s \in Sessions, SessionEnds(s) PROVE handler' = handler
    BY <2>7 DEF SessionEnds, consoleVars
  <2>8. CASE PortalReload
    BY <2>8 DEF PortalReload, Reload, Idle, Is
  <2>9. CASE UNCHANGED vars
    BY <2>2, <2>9 DEF vars, consoleVars, Is
  <2> QED
    BY <2>2, <2>4, <2>5, <2>6, <2>7, <2>8, <2>9 DEF PortalNext, Is
<1> SUFFICES ASSUME NEW g \in Handlers PROVE G(g)'
  BY <1>0 DEF Granted
<1>1. CASE reply'[g] = "none"
  BY <1>1, Words
<1>2. CASE handler'[g] = handler[g] /\ reply'[g] = reply[g]
  <2>1. G(g)
    BY DEF Granted
  <2>2. handler[g].kind \in {"boot", "select"} =>
            handler[g].session \in Sessions /\ owner[handler[g].session] # None
    BY ConsoleAssumption DEF Begun, Owned
  <2> QED
    BY <1>2, <2>1, <2>2, SessionsEnd DEF Is
<1>3. CASE Serve(g) /\ handler' = handler
  <2>0. DOMAIN reply = Handlers
    BY DEF PortalTypeOK
  <2>1. ASSUME ServeLogin(g) \/ RefuseLogin(g) \/ ServeLogout(g)
        PROVE  handler[g].kind \in {"login", "logout"}
    BY <2>1 DEF ServeLogin, RefuseLogin, ServeLogout, Is
  <2>2. CASE ServeBoot(g)
    BY <1>3, <2>0, <2>2 DEF ServeBoot, Answer, Is, Authorised, CurrentUser
  <2>3. CASE ServeExecution(g)
    BY <1>3, <2>0, <2>3 DEF ServeExecution, Answer, Is, Authorised, CurrentUser
  <2>4. CASE ServeRun(g)
    <3>1. reply' = [reply EXCEPT ![g] = "refused"] /\ Is(g, "run")
      BY <2>4, NoRun DEF ServeRun, Answer
    <3> QED
      BY <1>3, <2>0, <3>1, Words DEF Is
  <2> QED
    BY <1>3, <2>1, <2>2, <2>3, <2>4 DEF Serve, Is
<1> QED
  BY <1>1, <1>2, <1>3, Replies

\* Whom get_current_user turns away, it turns away for good.
LEMMA UnservedStays ==
    ASSUME PortalTypeOK, [PortalNext]_vars, NEW g \in Handlers, handler'[g] = handler[g],
           handler[g].session \in Sessions, owner[handler[g].session] # None, Unserved(g)
    PROVE  Unserved(g)'
  BY SessionsEnd DEF Unserved

LEMMA RefusedStep ==
    ASSUME PortalTypeOK, Begun, Idles, Owned, Refused, world # "any", [PortalNext]_vars
    PROVE  Refused'
<1> DEFINE R(g) == world = "api" /\ reply[g] = "refused" =>
                      /\ Is(g, "boot") => Unserved(g)
                      /\ Is(g, "select") => Unserved(g) \/ ~ Has(ScenarioOf[handler[g].execution])
<1> SUFFICES ASSUME NEW g \in Handlers PROVE R(g)'
  BY DEF Refused
<1>a. handler[g].kind \in {"boot", "select"} =>
          handler[g].session \in Sessions /\ owner[handler[g].session] # None
  BY ConsoleAssumption DEF Begun, Owned
<1>1. CASE reply'[g] = "none"
  BY <1>1
<1>2. CASE handler'[g] = handler[g] /\ reply'[g] = reply[g]
  <2>1. R(g)
    BY DEF Refused
  <2>2. ASSUME handler[g].kind \in {"boot", "select"}, Unserved(g) PROVE Unserved(g)'
    BY <1>a, <1>2, <2>2, UnservedStays
  <2>3. world' = world
    BY SessionsEnd
  <2> QED
    BY <1>2, <2>1, <2>2, <2>3 DEF Is
<1>3. CASE Serve(g) /\ handler' = handler
  <2>0. DOMAIN reply = Handlers
    BY DEF PortalTypeOK
  <2>1. ASSUME ServeLogin(g) \/ RefuseLogin(g) \/ ServeLogout(g) \/ ServeRun(g)
        PROVE  handler[g].kind \in {"login", "logout", "run"}
    BY <2>1 DEF ServeLogin, RefuseLogin, ServeLogout, ServeRun, Is
  <2>2. ASSUME handler[g].kind \in {"boot", "select"}, ~ CurrentUser(handler[g].session)
        PROVE  Unserved(g)
    <3>1. owner[handler[g].session] \in Users
      BY <1>a, <2>2 DEF PortalTypeOK
    <3> QED
      BY <2>2, <3>1 DEF CurrentUser, Unserved, Users
  <2>3. CASE ServeBoot(g)
    <3>1. UNCHANGED <<world, owner, alive>> /\ Is(g, "boot")
      BY <2>3 DEF ServeBoot
    <3>2. world = "api" /\ reply'[g] = "refused" => ~ CurrentUser(handler[g].session)
      BY <2>0, <2>3 DEF ServeBoot, Answer, Authorised
    <3> QED
      BY <1>3, <2>2, <3>1, <3>2 DEF Is, Unserved
  <2>4. CASE ServeExecution(g)
    <3>1. UNCHANGED <<world, owner, alive>> /\ handler[g].kind \in {"select", "run_load"}
      BY <2>4 DEF ServeExecution
    <3>2. world = "api" /\ reply'[g] = "refused" =>
              ~ CurrentUser(handler[g].session) \/ ~ Has(ScenarioOf[handler[g].execution])
      BY <2>0, <2>4 DEF ServeExecution, Answer, Authorised
    <3> QED
      BY <1>3, <2>2, <3>1, <3>2 DEF Is, Unserved
  <2> QED
    BY <1>3, <2>1, <2>3, <2>4 DEF Serve, Is
<1> QED
  BY <1>1, <1>2, <1>3, Replies

LEMMA EndedStep ==
    ASSUME PortalTypeOK, Begun, Idles, Owned, Ended, world # "any", [PortalNext]_vars
    PROVE  Ended'
<1> DEFINE E(g) == Is(g, "logout") =>
                      /\ reply[g] \in {"none", "ok"}
                      /\ reply[g] = "ok" => handler[g].session \notin alive
<1> SUFFICES ASSUME NEW g \in Handlers PROVE E(g)'
  BY DEF Ended
<1>1. CASE reply'[g] = "none"
  BY <1>1
<1>2. CASE handler'[g] = handler[g] /\ reply'[g] = reply[g]
  <2>1. E(g)
    BY DEF Ended
  <2>2. Is(g, "logout") => handler[g].session \in Sessions /\ owner[handler[g].session] # None
    BY ConsoleAssumption DEF Begun, Owned, Is
  <2> QED
    BY <1>2, <2>1, <2>2, SessionsEnd DEF Is
<1>3. CASE Serve(g) /\ handler' = handler
  <2>0. DOMAIN reply = Handlers
    BY DEF PortalTypeOK
  <2>1. CASE ServeLogout(g)
    <3>1. reply'[g] = "ok" /\ alive' = alive \ {handler[g].session}
      BY <2>0, <2>1 DEF ServeLogout, Answer
    <3> QED
      BY <1>3, <3>1
  <2>2. ASSUME ServeLogin(g) \/ RefuseLogin(g) \/ ServeBoot(g) \/ ServeExecution(g) \/ ServeRun(g)
        PROVE  handler[g].kind # "logout"
    BY <2>2 DEF ServeLogin, RefuseLogin, ServeBoot, ServeExecution, ServeRun, Is
  <2> QED
    BY <1>3, <2>1, <2>2 DEF Serve, Is
<1> QED
  BY <1>1, <1>2, <1>3, Replies

\* What a step makes of the session, of the sessions of handlers and of the answer
\* a login waits for: nothing, or a session the server knows.
LEMMA OwnedStep ==
    ASSUME PortalTypeOK, Begun, Idles, Owned, world # "any", [PortalNext]_vars
    PROVE  Owned'
<1> USE DEF PortalTypeOK, TypeOK
<1>a. ASSUME NEW s, s \in Sessions \/ s = None, s # None => owner[s] # None
      PROVE  s # None => owner'[s] # None
  BY <1>a, SessionsEnd
<1>1. session' # None => owner'[session'] # None
  <2>1. ASSUME UNCHANGED <<session, used>>
        PROVE  session' # None => owner'[session'] # None
    BY <1>a, <2>1 DEF Owned
  <2>2. ASSUME NEW h \in Handlers, PortalSettle(h)
        PROVE  session' # None => owner'[session'] # None
    <3>1. ASSUME NEW s \in Sessions, Carries(h, s), LoginSucceeds(h, s)
          PROVE  session' = s /\ owner[s] # None
      BY <3>1 DEF Carries, LoginSucceeds, Owned
    <3>2. ASSUME \/ Boot(h) \/ Selected(h) \/ RunShown(h) \/ (\E e \in Executions : RunAccepted(h, e))
                 \/ LoginFails(h) \/ BootFails(h) \/ SelectFails(h) \/ RunFails(h)
          PROVE  UNCHANGED <<session, used>>
      BY <3>2 DEF Boot, Selected, RunShown, RunAccepted, LoginFails, BootFails, SelectFails,
                  RunFails, history
    <3>3. ASSUME LoggedOut(h) PROVE session' = None
      BY <3>3 DEF LoggedOut
    <3> QED
      BY <1>a, <2>1, <2>2, <3>1, <3>2, <3>3 DEF PortalSettle
  <2>3. CASE PortalClick
    BY <2>1, <2>3 DEF PortalClick, Click, Login, Run, Logout, Select, SelectLoggedOut, Navigate, history
  <2>4. ASSUME NEW h \in Handlers, Serve(h) PROVE UNCHANGED <<session, used>>
    BY <2>4 DEF Serve, ServeLogin, RefuseLogin, ServeLogout, ServeBoot, ServeExecution, ServeRun,
                consoleVars, history
  <2>5. ASSUME NEW s \in Sessions, SessionEnds(s) PROVE UNCHANGED <<session, used>>
    BY <2>5 DEF SessionEnds, consoleVars, history
  <2>6. CASE PortalReload
    BY <2>1, <2>6 DEF PortalReload, Reload
  <2>7. CASE UNCHANGED vars
    BY <2>1, <2>7 DEF vars, consoleVars, history
  <2> QED
    BY <2>1, <2>2, <2>3, <2>4, <2>5, <2>6, <2>7 DEF PortalNext
<1>2. ASSUME NEW g \in Handlers
      PROVE  handler'[g].session # None => owner'[handler'[g].session] # None
  <2>1. ASSUME handler'[g].session \in {handler[g].session, session, session', None}
        PROVE  handler'[g].session # None => owner'[handler'[g].session] # None
    BY <1>1, <1>a, <2>1 DEF Owned
  <2>2. handler'[g].session \in {handler[g].session, session, session', None}
    <3>1. ASSUME NEW h \in Handlers, NEW k, NEW x, Send(h, k, x)
          PROVE  handler'[g].session \in {handler[g].session, session, session', None}
      BY <3>1 DEF Send
    <3>2. CASE PortalClick
      BY <3>1, <3>2 DEF PortalClick, Click, Login, Run, Logout, Select, SelectLoggedOut, Navigate
    <3>3. ASSUME NEW h \in Handlers, PortalSettle(h)
          PROVE  handler'[g].session \in {handler[g].session, session, session', None}
      <4>1. ASSUME End(h) PROVE handler'[g].session \in {handler[g].session, None}
        BY <4>1 DEF End, Idle
      <4>2. ASSUME NEW s \in Sessions, LoginSucceeds(h, s)
            PROVE  handler'[g].session \in {handler[g].session, session'}
        BY <4>2 DEF LoginSucceeds
      <4>3. ASSUME NEW e \in Executions, RunAccepted(h, e)
            PROVE  handler'[g].session = handler[g].session
        BY <4>3 DEF RunAccepted
      <4> QED
        BY <3>3, <4>1, <4>2, <4>3 DEF PortalSettle, Boot, Selected, RunShown, LoginFails, BootFails,
                                      SelectFails, RunFails, LoggedOut
    <3>4. ASSUME NEW h \in Handlers, Serve(h) PROVE handler' = handler
      BY <3>4 DEF Serve, ServeLogin, RefuseLogin, ServeLogout, ServeBoot, ServeExecution, ServeRun,
                  consoleVars
    <3>5. ASSUME NEW s \in Sessions, SessionEnds(s) PROVE handler' = handler
      BY <3>5 DEF SessionEnds, consoleVars
    <3>6. CASE PortalReload
      BY <3>6 DEF PortalReload, Reload, Idle
    <3>7. CASE UNCHANGED vars
      BY <3>7 DEF vars, consoleVars
    <3> QED
      BY <3>2, <3>3, <3>4, <3>5, <3>6, <3>7 DEF PortalNext
  <2> QED
    BY <2>1, <2>2
<1>3. ASSUME NEW g \in Handlers, Is(g, "login")', reply'[g] \in Sessions
      PROVE  owner'[reply'[g]] # None
  <2>1. reply'[g] # "none"
    BY <1>3, Words
  <2>2. CASE handler'[g] = handler[g] /\ reply'[g] = reply[g]
    <3>1. Is(g, "login") /\ reply[g] \in Sessions
      BY <1>3, <2>2 DEF Is
    <3>2. owner[reply[g]] # None
      BY <3>1 DEF Owned
    <3>3. owner'[reply[g]] = owner[reply[g]]
      BY <3>1, <3>2, SessionsEnd
    <3> QED
      BY <2>2, <3>2, <3>3
  <2>3. CASE Serve(g) /\ handler' = handler
    <3>1. Is(g, "login")
      BY <1>3, <2>3 DEF Is
    <3>2. CASE ServeLogin(g)
      <4>1. PICK s \in Sessions, u \in Users : owner' = [owner EXCEPT ![s] = u] /\ reply'[g] = s
        BY <3>2 DEF ServeLogin, Answer
      <4> QED
        BY <4>1, PortalAssumption
    <3>3. CASE RefuseLogin(g)
      BY <1>3, <3>3, Words DEF RefuseLogin, Answer
    <3> QED
      BY <2>3, <3>1, <3>2, <3>3 DEF Serve, ServeLogout, ServeBoot, ServeExecution, ServeRun, Is
  <2> QED
    BY <2>1, <2>2, <2>3, Replies
<1> QED
  BY <1>1, <1>2, <1>3 DEF Owned

\* What a step puts on the screen: what was there, nothing, or an answer that was
\* granted.  The run button adds nothing, as no run is accepted.
LEMMA ServedStep ==
    ASSUME PortalTypeOK, Begun, Idles, Owned, Granted, ScreenWasServed, world # "any", [PortalNext]_vars
    PROVE  ScreenWasServed'
<1> DEFINE Served(s)    == world # "api_keyless" /\ owner[s] \in StoredUsers
           ServedDatum(d) == Served(d.session) /\ Has(ScenarioOf[d.execution])
<1>a. /\ world' = world
      /\ \A s \in Sessions : Served(s) => Served(s)'
  BY SessionsEnd, PortalAssumption DEF Users
<1>b. /\ listed # None => listed \in Sessions /\ Served(listed)
      /\ \A d \in {events, subtasks, detail} :
            d # None => d.session \in Sessions /\ ServedDatum(d)
  BY DEF ScreenWasServed, PortalTypeOK, TypeOK, Data
<1>c. ASSUME UNCHANGED screen PROVE ScreenWasServed'
  BY <1>a, <1>b, <1>c DEF ScreenWasServed, screen
<1>d. ASSUME UNCHANGED listed, events' = None, subtasks' = None, detail' = None PROVE ScreenWasServed'
  BY <1>a, <1>b, <1>d DEF ScreenWasServed
<1>e. ASSUME listed' = None, events' = None, subtasks' = None, detail' = None PROVE ScreenWasServed'
  BY <1>a, <1>e DEF ScreenWasServed
<1>1. ASSUME NEW h \in Handlers, PortalSettle(h) PROVE ScreenWasServed'
  <2>1. ASSUME Carries(h, "ok"), Boot(h) PROVE ScreenWasServed'
    <3>1. reply[h] = "ok" /\ Is(h, "boot") /\ listed' = handler[h].session
      BY <2>1 DEF Carries, Boot
    <3>2. UNCHANGED <<events, subtasks, detail>>
      BY <2>1 DEF Boot
    <3>3. handler[h].session \in Sessions /\ Served(handler[h].session)
      BY <3>1 DEF Granted, Begun, Is
    <3> QED
      BY <1>a, <1>b, <3>1, <3>2, <3>3 DEF ScreenWasServed
  <2>2. ASSUME Carries(h, "ok"), Selected(h) PROVE ScreenWasServed'
    <3>1. /\ reply[h] = "ok" /\ Is(h, "select") /\ UNCHANGED listed
          /\ events' = Answered(h) /\ subtasks' = Answered(h) /\ detail' = Answered(h)
      BY <2>2 DEF Carries, Selected
    <3>2. handler[h].session \in Sessions /\ Served(handler[h].session)
          /\ Has(ScenarioOf[handler[h].execution])
      BY <3>1 DEF Granted, Begun, Is
    <3>3. Answered(h).session = handler[h].session /\ Answered(h).execution = handler[h].execution
      BY DEF Answered
    <3> QED
      BY <1>a, <1>b, <3>1, <3>2, <3>3 DEF ScreenWasServed
  <2>3. ~ RunShown(h)
    BY DEF RunShown, Granted
  <2>4. ASSUME NEW e \in Executions, RunAccepted(h, e) PROVE ScreenWasServed'
    BY <1>c, <2>4 DEF RunAccepted
  <2>5. ASSUME NEW s \in Sessions, LoginSucceeds(h, s) PROVE ScreenWasServed'
    BY <1>c, <2>5 DEF LoginSucceeds
  <2>6. ASSUME LoginFails(h) \/ BootFails(h) \/ RunFails(h) PROVE ScreenWasServed'
    BY <1>c, <2>6 DEF LoginFails, BootFails, RunFails
  <2>7. ASSUME SelectFails(h) PROVE ScreenWasServed'
    BY <1>d, <2>7 DEF SelectFails
  <2>8. ASSUME LoggedOut(h) PROVE ScreenWasServed'
    BY <1>e, <2>8 DEF LoggedOut
  <2> QED
    BY <1>1, <2>1, <2>2, <2>3, <2>4, <2>5, <2>6, <2>7, <2>8 DEF PortalSettle
<1>2. CASE PortalClick
  BY <1>c, <1>2 DEF PortalClick, Click, Login, Run, Logout, Select, SelectLoggedOut, Navigate, screen
<1>3. ASSUME NEW h \in Handlers, Serve(h) PROVE UNCHANGED screen
  BY <1>3 DEF Serve, ServeLogin, RefuseLogin, ServeLogout, ServeBoot, ServeExecution, ServeRun,
              consoleVars, screen
<1>4. ASSUME NEW s \in Sessions, SessionEnds(s) PROVE UNCHANGED screen
  BY <1>4 DEF SessionEnds, consoleVars, screen
<1>5. CASE PortalReload
  BY <1>e, <1>5 DEF PortalReload, Reload
<1>6. CASE UNCHANGED vars
  BY <1>c, <1>6 DEF vars, consoleVars, screen
<1> QED
  BY <1>1, <1>2, <1>3, <1>c, <1>4, <1>5, <1>6 DEF PortalNext

(***************************************************************************)
(* Clicked once, the login is waiting only while there is no session and   *)
(* the logout only while the session is its own.                           *)
(***************************************************************************)
ClickedOnce ==
    ~ doubled =>
        /\ \A h \in Handlers : Is(h, "login") => session = None
        /\ \A h \in Handlers : Is(h, "logout") => handler[h].session = session
        /\ \A g, h \in Handlers : \A k \in {"login", "logout"} : Is(g, k) /\ Is(h, k) => g = h

LEMMA ClickedOnceStep ==
    ASSUME TypeOK, Begun, ClickedOnce, [Next]_consoleVars
    PROVE  ClickedOnce'
<1>a. ASSUME NEW h \in Handlers, Is(h, "logout") PROVE handler[h].session \in Sessions
  BY <1>a DEF Begun, Is
<1>b. DOMAIN handler = Handlers
  BY DEF TypeOK
<1>1. ASSUME NEW h \in Handlers, NEW k, k \notin {"login", "logout"}, NEW s, NEW x,
             handler' = [handler EXCEPT ![h] = [kind |-> k, session |-> s, execution |-> x]],
             UNCHANGED <<session, doubled>>
      PROVE  ClickedOnce'
  BY <1>b, <1>1 DEF ClickedOnce, Is
<1>2. ASSUME NEW h \in Handlers, Login(h) \/ Logout(h) PROVE ClickedOnce'
  <2>1. PICK k \in {"login", "logout"} :
           /\ handler' = [handler EXCEPT ![h] = [kind |-> k, session |-> session, execution |-> None]]
           /\ doubled' = (doubled \/ Waiting({k}) # {})
           /\ k = "login" => session = None
           /\ k = "logout" => session # None
           /\ session' = session
    BY <1>2 DEF Login, Logout, Send, Doubled
  <2>2. ASSUME ~ doubled' PROVE ~ doubled /\ \A g \in Handlers : ~ Is(g, k)
    BY <2>1, <2>2 DEF Waiting, Is
  <2>3. CASE k = "login"
    BY <1>b, <2>1, <2>2, <2>3 DEF ClickedOnce, Is
  <2>4. CASE k = "logout"
    BY <1>b, <2>1, <2>2, <2>4 DEF ClickedOnce, Is
  <2> QED
    BY <2>1, <2>3, <2>4
<1>3. ASSUME NEW h \in Handlers, Run(h) PROVE ClickedOnce'
  BY <1>1, <1>3 DEF Run, Send
<1>4. ASSUME NEW h \in Handlers, NEW e \in Executions, Select(h, e) PROVE ClickedOnce'
  BY <1>1, <1>4 DEF Select, Send
<1>5. ASSUME NEW h \in Handlers, NEW s \in Sessions, LoginSucceeds(h, s) PROVE ClickedOnce'
  <2>1. /\ Is(h, "login") /\ session' = s /\ doubled' = doubled
        /\ handler' = [handler EXCEPT ![h] = [kind |-> "boot", session |-> s, execution |-> None]]
    BY <1>5 DEF LoginSucceeds
  <2>2. ASSUME ~ doubled
        PROVE  \A g \in Handlers : ~ Is(g, "logout") /\ (Is(g, "login") => g = h)
    BY <1>a, <2>1, <2>2, ConsoleAssumption DEF ClickedOnce
  <2> QED
    BY <1>b, <2>1, <2>2 DEF ClickedOnce, Is
<1>6. ASSUME NEW h \in Handlers, NEW e \in Executions, RunAccepted(h, e) PROVE ClickedOnce'
  BY <1>1, <1>6 DEF RunAccepted, history
<1>7. ASSUME NEW h \in Handlers,
             \/ LoginFails(h) \/ Boot(h) \/ BootFails(h) \/ Selected(h) \/ SelectFails(h)
             \/ RunShown(h) \/ RunFails(h)
      PROVE  ClickedOnce'
  <2>1. End(h) /\ UNCHANGED <<session, doubled>>
    BY <1>7 DEF LoginFails, Boot, BootFails, Selected, SelectFails, RunShown, RunFails, history
  <2> QED
    BY <1>1, <2>1 DEF End, Idle
<1>8. ASSUME NEW h \in Handlers, LoggedOut(h) PROVE ClickedOnce'
  <2>1. /\ Is(h, "logout") /\ session' = None /\ doubled' = doubled
        /\ handler' = [handler EXCEPT ![h] = Idle]
    BY <1>8 DEF LoggedOut, End
  <2>2. ASSUME ~ doubled
        PROVE  \A g \in Handlers : ~ Is(g, "login") /\ (Is(g, "logout") => g = h)
    BY <1>a, <2>1, <2>2, ConsoleAssumption DEF ClickedOnce
  <2> QED
    BY <1>b, <2>1, <2>2 DEF ClickedOnce, Is, Idle
<1>9. ASSUME NEW e \in Executions, SelectLoggedOut(e) PROVE ClickedOnce'
  BY <1>9 DEF SelectLoggedOut, ClickedOnce, Is, history
<1>10. ASSUME NEW s \in Visited, Navigate(s) PROVE ClickedOnce'
  BY <1>10 DEF Navigate, ClickedOnce, Is, history
<1>11. CASE Reload
  BY <1>11 DEF Reload, ClickedOnce, Is, Idle
<1>12. CASE UNCHANGED consoleVars
  BY <1>12 DEF consoleVars, ClickedOnce, Is, history
<1> QED
  BY <1>2, <1>3, <1>4, <1>5, <1>6, <1>7, <1>8, <1>9, <1>10, <1>11, <1>12 DEF Next, Click, Settle

IPortal == PortalInv /\ ClickedOnce

LEMMA PortalInitial == PortalInit => IPortal
<1> SUFFICES ASSUME PortalInit PROVE IPortal
  OBVIOUS
<1>1. ConsoleInv
  BY ConsoleInitial DEF PortalInit
<1>2. PortalTypeOK
  BY <1>1 DEF PortalInit, PortalTypeOK, ConsoleInv
<1>3. Idles
  BY DEF PortalInit, Idles
<1>4. ASSUME NEW h \in Handlers PROVE handler[h] = Idle /\ reply[h] = "none"
  BY DEF PortalInit, Init
<1>5. ServerInv
  BY <1>4, Words DEF PortalInit, Init, ServerInv, Owned, Granted, Refused, Ended, Is, Idle
<1>6. ScreenWasServed
  BY DEF PortalInit, Init, ScreenWasServed
<1>7. ClickedOnce
  BY <1>4 DEF ClickedOnce, Is, Idle
<1> QED
  BY <1>1, <1>2, <1>3, <1>5, <1>6, <1>7 DEF IPortal, PortalInv

LEMMA PortalStep == IPortal /\ [PortalNext]_vars => IPortal'
<1> SUFFICES ASSUME IPortal, [PortalNext]_vars PROVE IPortal'
  OBVIOUS
<1>1. PortalTypeOK /\ ConsoleInv /\ Idles /\ ServerInv /\ ScreenWasServed /\ ClickedOnce
  BY DEF IPortal, PortalInv
<1>2. PortalTypeOK' /\ Idles'
  BY <1>1, PortalTypeStep, IdlesStep DEF ConsoleInv
<1>3. ConsoleInv' /\ ClickedOnce'
  BY <1>1, StepMap, ConsoleTypeStep, BegunStep, HandedStep, ScreenStep, ClickedOnceStep DEF ConsoleInv
<1>4. world' = world
  BY <1>1, SessionsEnd
<1>5. ServerInv' /\ ScreenWasServed'
  <2>1. CASE world = "any"
    BY <1>4, <2>1 DEF ServerInv, ScreenWasServed
  <2>2. CASE world # "any"
    BY <1>1, <2>2, OwnedStep, GrantedStep, RefusedStep, EndedStep, ServedStep DEF ServerInv, ConsoleInv
  <2> QED
    BY <2>1, <2>2
<1> QED
  BY <1>2, <1>3, <1>5 DEF IPortal, PortalInv

THEOREM PortalInvariant == PortalSpec => []IPortal
  BY PortalInitial, PortalStep, PTL DEF PortalSpec

\* The types of the console and of the server it is put against.
THEOREM PortalTypeCorrect == PortalSpec => []PortalTypeOK
<1>1. IPortal => PortalTypeOK
  BY DEF IPortal, PortalInv
<1> QED
  BY <1>1, PortalInvariant, PTL

(***************************************************************************)
(* For any number of users, sessions and executions: the console alone     *)
(* shows nothing, and behind a proxy with a key only what a stored user's  *)
(* session was given, about executions of the catalog.                     *)
(***************************************************************************)
THEOREM ServedCorrect == PortalSpec => []ScreenWasServed
<1>1. IPortal => ScreenWasServed
  BY DEF IPortal, PortalInv
<1> QED
  BY <1>1, PortalInvariant, PTL

\* Who changes the session: a login that is answered, and the end of a logout.
LEMMA SessionChange ==
    ASSUME [PortalNext]_vars, session' # session
    PROVE  \E h \in Handlers :
              \/ \E s \in Sessions : LoginSucceeds(h, s)
              \/ /\ LoggedOut(h)
                 /\ world = "any" \/ reply[h] = "ok" \/ Failed(h)
                 /\ UNCHANGED alive
<1>1. ~ PortalClick
  BY DEF PortalClick, Click, Login, Run, Logout, Select, SelectLoggedOut, Navigate
<1>2. ASSUME NEW h \in Handlers PROVE ~ Serve(h)
  BY DEF Serve, ServeLogin, RefuseLogin, ServeLogout, ServeBoot, ServeExecution, ServeRun, consoleVars
<1>3. ASSUME NEW s \in Sessions PROVE ~ SessionEnds(s)
  BY DEF SessionEnds, consoleVars
<1>4. ~ PortalReload
  BY DEF PortalReload, Reload
<1>5. ~ UNCHANGED vars
  BY DEF vars, consoleVars
<1>6. PICK h \in Handlers : PortalSettle(h)
  BY <1>1, <1>2, <1>3, <1>4, <1>5 DEF PortalNext
<1>7. ~ (\/ Boot(h) \/ Selected(h) \/ RunShown(h) \/ LoginFails(h) \/ BootFails(h)
         \/ SelectFails(h) \/ RunFails(h) \/ \E e \in Executions : RunAccepted(h, e))
  BY DEF Boot, Selected, RunShown, RunAccepted, LoginFails, BootFails, SelectFails, RunFails
<1> QED
  BY <1>6, <1>7 DEF PortalSettle, Carries

(***************************************************************************)
(* A session ends in the browser by the logout of its user, and where no   *)
(* answer is lost it has ended on the server by then (router.tsx, lines    *)
(* 122-144, with auth.py).                                                 *)
(***************************************************************************)
THEOREM LogoutCorrect == PortalSpec => EndsByItsLogout
<1>1. ASSUME IPortal, [PortalNext]_vars, session # None, session' # session, ~ doubled
      PROVE  /\ session' = None
             /\ \E h \in Handlers : Is(h, "logout") /\ handler[h].session = session
             /\ world \in {"api", "api_keyless"} => session \notin alive
  <2>1. ASSUME NEW h \in Handlers, NEW s \in Sessions PROVE ~ LoginSucceeds(h, s)
    BY <1>1 DEF LoginSucceeds, IPortal, ClickedOnce
  <2>2. PICK h \in Handlers : LoggedOut(h) /\ (world = "any" \/ reply[h] = "ok" \/ Failed(h))
    BY <1>1, <2>1, SessionChange
  <2>3. session' = None /\ Is(h, "logout")
    BY <2>2 DEF LoggedOut
  <2>4. handler[h].session = session
    BY <1>1, <2>3 DEF IPortal, ClickedOnce
  <2>5. ASSUME world \in {"api", "api_keyless"} PROVE session \notin alive
    <3>1. reply[h] \in {"none", "ok"} /\ (reply[h] = "ok" => session \notin alive)
      BY <1>1, <2>3, <2>4, <2>5 DEF IPortal, PortalInv, ServerInv, Ended
    <3>2. reply[h] = "ok"
      BY <2>2, <2>5, <3>1 DEF Failed
    <3> QED
      BY <3>1, <3>2
  <2> QED
    BY <2>3, <2>4, <2>5
<1>2. IPortal /\ [PortalNext]_vars =>
        [session # None /\ session' # session /\ ~ doubled =>
            /\ session' = None
            /\ \E h \in Handlers : Is(h, "logout") /\ handler[h].session = session
            /\ world \in {"api", "api_keyless"} => session \notin alive]_vars
  BY <1>1
<1> QED
  BY <1>2, PortalInvariant, PTL DEF PortalSpec, EndsByItsLogout

\* Who puts an error on the page, and who takes that of the executions away.
LEMMA ErrorChange ==
    ASSUME [PortalNext]_vars, error' # error
    PROVE  \/ \E h \in Handlers :
                 \/ Failed(h) /\ (BootFails(h) \/ SelectFails(h) \/ RunFails(h))
                 \/ LoggedOut(h)
                 \/ \E s \in Sessions : LoginSucceeds(h, s)
                 \/ \E e \in Executions : Select(h, e)
           \/ Reload
<1>1. ASSUME NEW h \in Handlers PROVE ~ Serve(h)
  BY DEF Serve, ServeLogin, RefuseLogin, ServeLogout, ServeBoot, ServeExecution, ServeRun, consoleVars
<1>2. ASSUME NEW s \in Sessions PROVE ~ SessionEnds(s)
  BY DEF SessionEnds, consoleVars
<1>3. ~ UNCHANGED vars
  BY DEF vars, consoleVars
<1>4. CASE PortalClick
  <2>1. PICK h \in Handlers : \E e \in Executions : Select(h, e)
    BY <1>4, ClickCases DEF Login, Run, Logout, SelectLoggedOut, Navigate
  <2> QED
    BY <2>1
<1>5. ASSUME NEW h \in Handlers, PortalSettle(h)
      PROVE  \/ Failed(h) /\ (BootFails(h) \/ SelectFails(h) \/ RunFails(h))
             \/ LoggedOut(h)
             \/ \E s \in Sessions : LoginSucceeds(h, s)
  <2>1. ~ (\/ Boot(h) \/ Selected(h) \/ RunShown(h) \/ LoginFails(h)
           \/ \E e \in Executions : RunAccepted(h, e))
    BY DEF Boot, Selected, RunShown, RunAccepted, LoginFails
  <2> QED
    BY <1>5, <2>1 DEF PortalSettle
<1>6. CASE PortalReload
  BY <1>6 DEF PortalReload
<1> QED
  BY <1>1, <1>2, <1>3, <1>4, <1>5, <1>6 DEF PortalNext

(***************************************************************************)
(* Behind a proxy with a key, and when nothing is lost, an error on a page *)
(* has one of the causes listed, and the one that hides the workspace ends *)
(* with a new session or a return to the landing page only.                *)
(***************************************************************************)
THEOREM ErrorsCorrect == PortalSpec => EveryErrorHasCause
<1> DEFINE Cause ==
        /\ "agents" \in error' \ error =>
              \E h \in Handlers : Is(h, "boot") /\ Unserved(h)
        /\ "executions" \in error' \ error =>
              \E h \in Handlers : Is(h, "run") \/ (Is(h, "boot") /\ Unserved(h))
        /\ "timeline" \in error' \ error =>
              \E h \in Handlers :
                  /\ Is(h, "select")
                  /\ Unserved(h) \/ ~ Has(ScenarioOf[handler[h].execution])
    Stays == "executions" \in error \ error' => session' # session \/ section' = "landing"
<1>1. ASSUME IPortal, [PortalNext]_vars, world = "api" PROVE Cause
  <2>0. Refused /\ Granted
    BY <1>1 DEF IPortal, PortalInv, ServerInv
  <2>1. CASE error' = error
    BY <2>1
  <2>2. ASSUME NEW h \in Handlers, Failed(h), BootFails(h) PROVE Cause
    <3>1. error' = error \cup {"executions", "agents"} /\ Is(h, "boot") /\ Unserved(h)
      BY <1>1, <2>0, <2>2 DEF BootFails, Failed, Refused
    <3> QED
      BY <3>1
  <2>3. ASSUME NEW h \in Handlers, Failed(h), SelectFails(h) PROVE Cause
    <3>1. /\ error' = error \cup {"timeline"} /\ Is(h, "select")
          /\ Unserved(h) \/ ~ Has(ScenarioOf[handler[h].execution])
      BY <1>1, <2>0, <2>3 DEF SelectFails, Failed, Refused
    <3> QED
      BY <3>1
  <2>4. ASSUME NEW h \in Handlers, RunFails(h) PROVE Cause
    <3>1. error' = error \cup {"executions"} /\ Is(h, "run")
      BY <2>0, <2>4 DEF RunFails, Granted
    <3> QED
      BY <3>1
  <2>5. ASSUME NEW h \in Handlers,
               LoggedOut(h) \/ (\E s \in Sessions : LoginSucceeds(h, s))
                            \/ (\E e \in Executions : Select(h, e))
        PROVE  error' \subseteq error
    BY <2>5, <1>1 DEF LoggedOut, LoginSucceeds, Select
  <2>6. Reload => error' \subseteq error
    BY DEF Reload
  <2> QED
    BY <1>1, <2>1, <2>2, <2>3, <2>4, <2>5, <2>6, ErrorChange
<1>2. ASSUME IPortal, [PortalNext]_vars PROVE Stays
  <2>1. CASE error' = error
    BY <2>1
  <2>2. ASSUME NEW h \in Handlers, NEW s \in Sessions, LoginSucceeds(h, s) PROVE Stays
    <3>1. s \notin used /\ session' = s
      BY <2>2 DEF LoginSucceeds
    <3>2. session # s
      BY <1>2, <3>1, ConsoleAssumption DEF IPortal, PortalInv, ConsoleInv, Handed
    <3> QED
      BY <3>1, <3>2
  <2>3. ASSUME NEW h \in Handlers, LoggedOut(h) PROVE Stays
    BY <2>3 DEF LoggedOut
  <2>4. ASSUME NEW h \in Handlers,
               BootFails(h) \/ SelectFails(h) \/ RunFails(h) \/ (\E e \in Executions : Select(h, e))
        PROVE  error \ {"timeline"} \subseteq error'
    BY <2>4 DEF BootFails, SelectFails, RunFails, Select
  <2>5. Reload => Stays
    BY DEF Reload
  <2> QED
    BY <1>2, <2>1, <2>2, <2>3, <2>4, <2>5, ErrorChange
<1>3. IPortal /\ [PortalNext]_vars => [(world = "api" => Cause) /\ Stays]_vars
  BY <1>1, <1>2
<1> QED
  BY <1>3, PortalInvariant, PTL DEF PortalSpec, EveryErrorHasCause

=============================================================================
