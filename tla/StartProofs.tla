------------------------------ MODULE StartProofs ------------------------------
(***************************************************************************)
(* For any number of concurrent requests, keys, scenarios and faults: what *)
(* is queued can be worked on, an execution is reused only when it is      *)
(* fresh, and one is duplicated only by a race or the limit of a listing.  *)
(***************************************************************************)
EXTENDS StartExecution, FiniteSetTheorems, WellFoundedInduction, TLAPS

\* A request before the INSERT of its execution.
Unwritten == {"idle", "now", "list", "reuse", "create"}

\* What a request has written by the time it is at each of its calls.
Written(r) ==
    /\ at[r] \in Unwritten => status[r] = "absent"
    /\ at[r] \in {"plan", "audit_queued", "audit_planned", "enqueue", "audit_enqueued"} =>
           status[r] # "absent"
    /\ at[r] \in {"audit_queued", "audit_planned", "enqueue", "audit_enqueued"} =>
           \A a \in Agents : subtask[r][a] # "absent"
    /\ at[r] \in {"audit_planned", "enqueue", "audit_enqueued"} => "queued" \in audit[r]
    /\ at[r] \in {"enqueue", "audit_enqueued"} => "subtasks_created" \in audit[r]
    /\ at[r] \notin {"idle", "raised"} /\ ThroughScenario(r) =>
           ValidInputs(ScenarioOf[key[r]], inputs[r])

\* What holds of an execution that was reused, from the moment it was found.
Reuses(r) ==
    match[r] # r =>
        /\ at[r] \in {"reuse", "returned", "raised"}
        /\ match[r] \in Existing
        /\ key[match[r]] = key[r]
        /\ now[r] <= now[match[r]] + Window
        /\ status[r] = "absent"

\* What the first listing of a scenario run saw, and the flag made of it.
Listed(r) ==
    /\ sawFirst[r] \subseteq Existing
    /\ r \notin sawFirst[r]
    /\ before[r] \subseteq sawFirst[r]
    /\ Cardinality(sawFirst[r]) <= Limit =>
           \A e \in sawFirst[r] : key[e] = key[r] => e \in before[r]
    /\ at[r] = "returned" => (reused[r] <=> match[r] \in before[r])

\* What the second listing of a request that went on to create had not shown it.
Created(r) ==
    /\ seen[r] \subseteq Existing
    /\ \A d \in seen[r] :
           /\ at[r] = "create" \/ status[r] # "absent"
           /\ d # r /\ key[d] = key[r]
           /\ now[d] + Window >= now[r]
           => Cardinality({x \in seen[r] \ {d} : now[x] >= now[d]}) >= Limit

IStart ==
    /\ TypeOK
    /\ IsFiniteSet(Existing)
    /\ \A r \in Executions : now[r] <= clock
    /\ \A r \in Executions : Written(r)
    /\ QueueBacked
    /\ \A r \in Executions : Reuses(r)
    /\ \A r \in Executions : Listed(r)
    /\ \A r \in Executions : Created(r)

-----------------------------------------------------------------------------

\* The steps of Next, one by one.
LEMMA StepCases ==
    ASSUME [Next]_vars
    PROVE  \/ \E r \in Executions : InvalidInputs(r) \/ ReadBefore(r) \/ ReadClock(r)
           \/ \E r \in Executions : ListRecent(r) \/ AuditReused(r) \/ Create(r)
           \/ \E r \in Executions : CreateSubtasks(r) \/ AuditQueued(r) \/ AuditPlanned(r)
           \/ \E r \in Executions : Enqueue(r) \/ AuditEnqueued(r) \/ RequestRaises(r)
           \/ Tick
           \/ UNCHANGED vars
  BY DEF Next, StartNext, RequestStep, AllAnswered

\* A set of numbers that is not empty has a least one.
LEMMA Least ==
    ASSUME NEW T \in SUBSET Nat, T # {}
    PROVE  \E x \in T : \A y \in T : x <= y
<1> DEFINE R == {ss \in Nat \X Nat : ss[1] < ss[2]}
<1>1. IsWellFoundedOn(R, Nat)
  BY NatLessThanWellFounded DEF OpToRel
<1>2. PICK x \in T : \A y \in T : ~ (<<y, x>> \in R)
  BY <1>1, WFMin
<1>3. ASSUME NEW y \in T PROVE x <= y
  <2>1. x \in Nat /\ y \in Nat
    OBVIOUS
  <2>2. <<y, x>> \notin R
    BY <1>2
  <2>3. <<y, x>> \in Nat \X Nat
    BY <2>1
  <2>4. ~ (y < x)
    BY <2>2, <2>3
  <2> QED
    BY <2>1, <2>4
<1> QED
  BY <1>3

LEMMA ListingsExist ==
    ASSUME TypeOK, NEW L \in Listings
    PROVE  L \subseteq Existing /\ L \subseteq Executions
  BY DEF Listings, Existing

LEMMA StartTypeStep ==
    ASSUME TypeOK, [Next]_vars
    PROVE  TypeOK'
<1> USE DEF TypeOK, StoreTypeOK, RequestLabels, GoTo, Advance, Log, SetStatus, storeVars
<1>1. ASSUME NEW r \in Executions, InvalidInputs(r) PROVE TypeOK'
  BY <1>1 DEF InvalidInputs
<1>2. ASSUME NEW r \in Executions, ReadBefore(r) PROVE TypeOK'
  <2>1. PICK L \in Listings : before' = [before EXCEPT ![r] = {e \in L : key[e] = key[r]}]
    BY <1>2 DEF ReadBefore
  <2>2. before' \in [Executions -> SUBSET Executions]
    BY <2>1, ListingsExist
  <2>3. Existing \subseteq Executions
    BY DEF Existing
  <2> QED
    BY <1>2, <2>2, <2>3 DEF ReadBefore
<1>3. ASSUME NEW r \in Executions, ReadClock(r) PROVE TypeOK'
  BY <1>3 DEF ReadClock
<1>4. ASSUME NEW r \in Executions, ListRecent(r) PROVE TypeOK'
  <2>1. Existing \subseteq Executions
    BY DEF Existing
  <2>2. match' \in [Executions -> Executions] /\ at' \in [Executions -> RequestLabels]
    <3>1. PICK L \in Listings :
             IF Candidates(r, L) = {}
             THEN GoTo(r, "create") /\ UNCHANGED match
             ELSE /\ GoTo(r, "reuse")
                  /\ \E e \in Candidates(r, L) : match' = [match EXCEPT ![r] = e]
      BY <1>4 DEF ListRecent
    <3>2. Candidates(r, L) \subseteq Executions
      BY ListingsExist DEF Candidates
    <3>3. at' = [at EXCEPT ![r] = "create"] \/ at' = [at EXCEPT ![r] = "reuse"]
      BY <3>1
    <3>4. match' = match \/ \E e \in Candidates(r, L) : match' = [match EXCEPT ![r] = e]
      BY <3>1
    <3>5. match' \in [Executions -> Executions]
      BY <3>2, <3>4
    <3>6. at' \in [Executions -> RequestLabels]
      BY <3>3
    <3> QED
      BY <3>5, <3>6
  <2> QED
    BY <1>4, <2>1, <2>2 DEF ListRecent
<1>5. ASSUME NEW r \in Executions, AuditReused(r) PROVE TypeOK'
  BY <1>5 DEF AuditReused, Return, AuditEvents, CreationEvents
<1>6. ASSUME NEW r \in Executions, Create(r) PROVE TypeOK'
  BY <1>6 DEF Create, StatusValues
<1>7. ASSUME NEW r \in Executions, CreateSubtasks(r) PROVE TypeOK'
  BY <1>7 DEF CreateSubtasks, SubtaskValues
<1>8. ASSUME NEW r \in Executions, AuditQueued(r) PROVE TypeOK'
  BY <1>8 DEF AuditQueued, AuditEvents, CreationEvents
<1>9. ASSUME NEW r \in Executions, AuditPlanned(r) PROVE TypeOK'
  BY <1>9 DEF AuditPlanned, AuditEvents, CreationEvents
<1>10. ASSUME NEW r \in Executions, Enqueue(r) PROVE TypeOK'
  BY <1>10 DEF Enqueue
<1>11. ASSUME NEW r \in Executions, AuditEnqueued(r) PROVE TypeOK'
  BY <1>11 DEF AuditEnqueued, Return, AuditEvents, CreationEvents
<1>12. ASSUME NEW r \in Executions, RequestRaises(r) PROVE TypeOK'
  BY <1>12 DEF RequestRaises
<1>13. CASE Tick
  BY <1>13 DEF Tick
<1>14. CASE UNCHANGED vars
  BY <1>14 DEF vars, requestVars
<1> QED
  BY StepCases, <1>1, <1>2, <1>3, <1>4, <1>5, <1>6, <1>7, <1>8, <1>9, <1>10, <1>11,
     <1>12, <1>13, <1>14


-----------------------------------------------------------------------------

\* A request changes nothing of another but its audit trail, which only grows.
LEMMA Others ==
    ASSUME TypeOK, NEW r \in Executions, NEW q \in Executions, q # r,
           RequestStep(r) \/ RequestRaises(r)
    PROVE  /\ UNCHANGED <<at[q], status[q], subtask[q], now[q], before[q], sawFirst[q],
                          seen[q], match[q], reused[q]>>
           /\ audit[q] \subseteq audit'[q]
           /\ q \in queue' <=> q \in queue
<1> USE DEF TypeOK, StoreTypeOK, GoTo, Advance, Log, SetStatus, storeVars
<1>1. CASE InvalidInputs(r) \/ ReadBefore(r) \/ ReadClock(r)
  BY <1>1 DEF InvalidInputs, ReadBefore, ReadClock
<1>2. CASE ListRecent(r)
  <2>1. at'[q] = at[q] /\ match'[q] = match[q]
    BY <1>2 DEF ListRecent
  <2> QED
    BY <1>2, <2>1 DEF ListRecent
<1>3. CASE AuditReused(r) \/ Create(r) \/ CreateSubtasks(r)
  BY <1>3 DEF AuditReused, Return, Create, CreateSubtasks
<1>4. CASE AuditQueued(r) \/ AuditPlanned(r) \/ Enqueue(r)
  BY <1>4 DEF AuditQueued, AuditPlanned, Enqueue
<1>5. CASE AuditEnqueued(r) \/ RequestRaises(r)
  BY <1>5 DEF AuditEnqueued, Return, RequestRaises
<1> QED
  BY <1>1, <1>2, <1>3, <1>4, <1>5 DEF RequestStep

\* Rows are not removed, and the time and the key of an execution stay.
LEMMA Grows ==
    ASSUME TypeOK, \A r \in Executions : Written(r), [Next]_vars
    PROVE  /\ key' = key /\ inputs' = inputs
           /\ \A e \in Existing : e \in Existing' /\ now'[e] = now[e]
           /\ Existing' = Existing \/ \E r \in Executions : Existing' = Existing \cup {r}
<1> USE DEF TypeOK, StoreTypeOK, GoTo, Advance, Log, storeVars, Existing
<1>1. key' = key /\ inputs' = inputs
  BY StepCases DEF InvalidInputs, ReadBefore, ReadClock, ListRecent, AuditReused, Create,
     CreateSubtasks, AuditQueued, AuditPlanned, Enqueue, AuditEnqueued, RequestRaises, Tick,
     vars, requestVars
<1>2. CASE \E r \in Executions : ReadClock(r)
  <2>1. PICK r \in Executions : ReadClock(r)
    BY <1>2
  <2>2. status' = status /\ r \notin Existing /\ now' = [now EXCEPT ![r] = clock]
    BY <2>1 DEF ReadClock, Written, Unwritten
  <2> QED
    BY <2>2, <1>1
<1>3. CASE \E r \in Executions : Create(r)
  <2>1. PICK r \in Executions : Create(r)
    BY <1>3
  <2>2. status' = [status EXCEPT ![r] = "queued"] /\ now' = now
    BY <2>1 DEF Create, SetStatus
  <2>3. Existing' = Existing \cup {r}
    BY <2>2
  <2> QED
    BY <2>2, <2>3, <1>1
<1>4. CASE status' = status /\ now' = now
  BY <1>4, <1>1
<1> QED
  BY StepCases, <1>2, <1>3, <1>4 DEF InvalidInputs, ReadBefore, ListRecent, AuditReused,
     CreateSubtasks, AuditQueued, AuditPlanned, Enqueue, AuditEnqueued, RequestRaises, Tick,
     vars, requestVars

LEMMA FiniteStep ==
    ASSUME TypeOK, \A r \in Executions : Written(r), IsFiniteSet(Existing), [Next]_vars
    PROVE  IsFiniteSet(Existing')
  BY Grows, FS_AddElement

LEMMA ClockStep ==
    ASSUME TypeOK, \A r \in Executions : now[r] <= clock, [Next]_vars,
           NEW q \in Executions
    PROVE  now'[q] <= clock'
<1>1. CASE \E r \in Executions : ReadClock(r)
  BY <1>1 DEF TypeOK, ReadClock
<1>2. CASE Tick
  BY <1>2 DEF TypeOK, Tick
<1>3. CASE now' = now /\ clock' = clock
  BY <1>3
<1> QED
  BY StepCases, <1>1, <1>2, <1>3 DEF InvalidInputs, ReadBefore, ListRecent, AuditReused,
     Create, CreateSubtasks, AuditQueued, AuditPlanned, Enqueue, AuditEnqueued,
     RequestRaises, vars, requestVars

\* Whose step it is.
LEMMA WhoseStep ==
    ASSUME [Next]_vars
    PROVE  \/ \E r \in Executions : RequestStep(r) \/ RequestRaises(r)
           \/ /\ UNCHANGED <<storeVars, at, key, inputs, now, before, sawFirst, seen, match, reused>>
              /\ clock' = clock \/ clock' = clock + 1
  BY DEF Next, StartNext, AllAnswered, Tick, vars, requestVars

LEMMA WrittenStep ==
    ASSUME TypeOK, \A r \in Executions : Written(r), [Next]_vars, NEW q \in Executions
    PROVE  Written(q)'
<1> USE DEF TypeOK, StoreTypeOK, GoTo, Advance, Log, SetStatus, storeVars, Unwritten,
            ThroughScenario
<1>0. key' = key /\ inputs' = inputs /\ Written(q)
  BY Grows
<1>1. ASSUME NEW r \in Executions, RequestStep(r) \/ RequestRaises(r), q # r PROVE Written(q)'
  BY <1>0, <1>1, Others DEF Written
<1>2. CASE InvalidInputs(q) \/ ReadBefore(q) \/ ReadClock(q)
  BY <1>0, <1>2 DEF InvalidInputs, ReadBefore, ReadClock, Written
<1>3. CASE ListRecent(q)
  <2>1. at'[q] \in {"reuse", "create"} /\ at[q] = "list" /\ UNCHANGED <<status, subtask, audit>>
    BY <1>3 DEF ListRecent
  <2> QED
    BY <1>0, <2>1 DEF Written
<1>4. CASE AuditReused(q)
  BY <1>0, <1>4 DEF AuditReused, Return, Written
<1>5. CASE Create(q) \/ CreateSubtasks(q)
  BY <1>0, <1>5 DEF Create, CreateSubtasks, Written
<1>6. CASE AuditQueued(q) \/ AuditPlanned(q) \/ Enqueue(q)
  BY <1>0, <1>6 DEF AuditQueued, AuditPlanned, Enqueue, Written
<1>7. CASE AuditEnqueued(q) \/ RequestRaises(q)
  BY <1>0, <1>7 DEF AuditEnqueued, Return, RequestRaises, Written
<1>8. CASE UNCHANGED <<status, subtask, audit, at, key, inputs>>
  BY <1>0, <1>8 DEF Written
<1>9. CASE \E r \in Executions : RequestStep(r) \/ RequestRaises(r)
  BY <1>9, <1>1, <1>2, <1>3, <1>4, <1>5, <1>6, <1>7 DEF RequestStep
<1> QED
  BY WhoseStep, <1>8, <1>9

LEMMA QueueStep ==
    ASSUME TypeOK, \A r \in Executions : Written(r), QueueBacked, [Next]_vars
    PROVE  QueueBacked'
<1> USE DEF TypeOK, StoreTypeOK, GoTo, Advance, Log, SetStatus, storeVars, ThroughScenario
<1>0. key' = key /\ inputs' = inputs
  BY Grows
<1>1. SUFFICES ASSUME NEW e \in Executions, e \in queue'
               PROVE  /\ ThroughScenario(e)' => ValidInputs(ScenarioOf[key[e]], inputs[e])'
                      /\ status'[e] # "absent"
                      /\ \A a \in Agents : subtask'[e][a] # "absent"
                      /\ {"queued", "subtasks_created"} \subseteq audit'[e]
  <2>1. queue' \subseteq Executions
    BY StartTypeStep
  <2> QED
    BY <2>1, <1>1 DEF QueueBacked
<1>2. CASE Enqueue(e)
  BY <1>0, <1>2 DEF Enqueue, Written
<1>3. CASE e \in queue /\ UNCHANGED <<status, subtask>>
  <2>1. audit[e] \subseteq audit'[e]
    BY StepCases DEF InvalidInputs, ReadBefore, ReadClock, ListRecent, AuditReused, Create,
       CreateSubtasks, AuditQueued, AuditPlanned, Enqueue, AuditEnqueued, RequestRaises, Tick,
       vars, requestVars
  <2> QED
    BY <1>0, <1>3, <2>1 DEF QueueBacked
<1>4. CASE e \in queue /\ \E r \in Executions : Create(r) \/ CreateSubtasks(r)
  <2>1. PICK r \in Executions : Create(r) \/ CreateSubtasks(r)
    BY <1>4
  <2>2. audit' = audit
    BY <2>1 DEF Create, CreateSubtasks
  <2>3. status'[e] # "absent"
    BY <1>4, <2>1 DEF QueueBacked, Create, CreateSubtasks
  <2>4. ASSUME NEW a \in Agents PROVE subtask'[e][a] # "absent"
    BY <1>4, <2>1 DEF QueueBacked, Create, CreateSubtasks
  <2> QED
    BY <1>0, <1>4, <2>2, <2>3, <2>4 DEF QueueBacked
<1>5. e \in queue \/ Enqueue(e)
  BY <1>1, StepCases DEF InvalidInputs, ReadBefore, ReadClock, ListRecent, AuditReused, Create,
     CreateSubtasks, AuditQueued, AuditPlanned, Enqueue, AuditEnqueued, RequestRaises, Tick,
     vars, requestVars
<1>6. \/ UNCHANGED <<status, subtask>>
      \/ \E r \in Executions : Create(r) \/ CreateSubtasks(r)
  BY StepCases DEF InvalidInputs, ReadBefore, ReadClock, ListRecent, AuditReused,
     AuditQueued, AuditPlanned, Enqueue, AuditEnqueued, RequestRaises, Tick, vars, requestVars
<1> QED
  BY <1>2, <1>3, <1>4, <1>5, <1>6


LEMMA ReusesStep ==
    ASSUME TypeOK, \A r \in Executions : Written(r), \A r \in Executions : Reuses(r),
           [Next]_vars, NEW q \in Executions
    PROVE  Reuses(q)'
<1> USE DEF TypeOK, StoreTypeOK, GoTo, Advance, storeVars
<1>0. /\ key' = key
      /\ \A e \in Existing : e \in Existing' /\ now'[e] = now[e]
      /\ Reuses(q) /\ Written(q)
  BY Grows
<1>1. CASE UNCHANGED <<at[q], match[q], now[q], status[q]>>
  BY <1>0, <1>1 DEF Reuses
<1>2. ASSUME NEW r \in Executions, RequestStep(r) \/ RequestRaises(r), q # r PROVE Reuses(q)'
  BY <1>1, <1>2, Others
<1>3. CASE ListRecent(q)
  <2>1. PICK L \in Listings :
           IF Candidates(q, L) = {}
           THEN GoTo(q, "create") /\ UNCHANGED match
           ELSE /\ GoTo(q, "reuse")
                /\ \E e \in Candidates(q, L) : match' = [match EXCEPT ![q] = e]
    BY <1>3 DEF ListRecent
  <2>2. UNCHANGED <<status, now>> /\ at[q] = "list"
    BY <1>3 DEF ListRecent
  <2>3. match[q] = q
    BY <1>0, <2>2 DEF Reuses
  <2>4. CASE Candidates(q, L) = {}
    BY <2>1, <2>3, <2>4 DEF Reuses
  <2>5. ASSUME NEW e \in Candidates(q, L), match' = [match EXCEPT ![q] = e], GoTo(q, "reuse")
        PROVE  Reuses(q)'
    <3>1. e \in Existing /\ key[e] = key[q] /\ now[e] + Window >= now[q]
      BY <2>5, ListingsExist DEF Candidates, CreatedAt
    <3>2. match'[q] = e /\ at'[q] = "reuse" /\ now' = now /\ status'[q] = "absent"
      BY <1>0, <2>2, <2>5 DEF Written, Unwritten
    <3>3. now[e] \in Nat /\ now[q] \in Nat /\ Window \in Nat
      BY <3>1, StartAssumption DEF Existing
    <3> QED
      BY <1>0, <3>1, <3>2, <3>3 DEF Reuses
  <2> QED
    BY <2>1, <2>4, <2>5
<1>4. CASE InvalidInputs(q) \/ ReadBefore(q) \/ ReadClock(q)
  <2>1. match[q] = q
    BY <1>0, <1>4 DEF Reuses, InvalidInputs, ReadBefore, ReadClock
  <2> QED
    BY <1>4, <2>1 DEF Reuses, InvalidInputs, ReadBefore, ReadClock
<1>5. CASE AuditReused(q)
  BY <1>0, <1>5 DEF AuditReused, Return, Reuses
<1>6. CASE Create(q) \/ CreateSubtasks(q) \/ AuditQueued(q)
  <2>1. match[q] = q /\ match' = match
    BY <1>0, <1>6 DEF Reuses, Create, CreateSubtasks, AuditQueued
  <2> QED
    BY <2>1 DEF Reuses
<1>7. CASE AuditPlanned(q) \/ Enqueue(q) \/ AuditEnqueued(q)
  <2>1. match[q] = q /\ match' = match
    BY <1>0, <1>7 DEF Reuses, AuditPlanned, Enqueue, AuditEnqueued
  <2> QED
    BY <2>1 DEF Reuses
<1>8. CASE RequestRaises(q)
  BY <1>0, <1>8 DEF RequestRaises, Reuses
<1>9. CASE \E r \in Executions : RequestStep(r) \/ RequestRaises(r)
  BY <1>9, <1>2, <1>3, <1>4, <1>5, <1>6, <1>7, <1>8 DEF RequestStep
<1> QED
  BY WhoseStep, <1>1, <1>9

LEMMA WholeListing ==
    ASSUME IsFiniteSet(Existing), NEW L \in Listings, Cardinality(Existing) <= Limit
    PROVE  L = Existing
<1>1. L \subseteq Existing
  BY DEF Listings
<1>2. /\ Cardinality(L) \in Nat /\ Cardinality(Existing) \in Nat
      /\ Cardinality(L) <= Cardinality(Existing)
      /\ Cardinality(L) = Cardinality(Existing) => L = Existing
  BY <1>1, FS_Subset, FS_CardinalityType
<1>3. L # Existing => Cardinality(L) = Limit
  BY DEF Listings
<1> QED
  BY <1>2, <1>3, StartAssumption

LEMMA ListedStep ==
    ASSUME TypeOK, \A r \in Executions : Written(r), \A r \in Executions : Listed(r),
           IsFiniteSet(Existing), [Next]_vars, NEW q \in Executions
    PROVE  Listed(q)'
<1> USE DEF TypeOK, StoreTypeOK, GoTo, Advance, storeVars
<1>0. /\ key' = key
      /\ \A e \in Existing : e \in Existing'
      /\ Listed(q) /\ Written(q)
  BY Grows
<1>1. CASE UNCHANGED <<at[q], sawFirst[q], before[q], match[q], reused[q]>>
  BY <1>0, <1>1 DEF Listed
<1>2. ASSUME NEW r \in Executions, RequestStep(r) \/ RequestRaises(r), q # r PROVE Listed(q)'
  BY <1>1, <1>2, Others
<1>3. CASE ReadBefore(q)
  <2>1. PICK L \in Listings : before' = [before EXCEPT ![q] = {e \in L : key[e] = key[q]}]
    BY <1>3 DEF ReadBefore
  <2>2. /\ sawFirst'[q] = Existing /\ at'[q] = "now" /\ q \notin Existing
        /\ before'[q] = {e \in L : key[e] = key[q]}
    BY <1>0, <1>3, <2>1 DEF ReadBefore, Written, Unwritten, Existing
  <2>3. L \subseteq Existing
    BY DEF Listings
  <2>4. Cardinality(Existing) <= Limit => L = Existing
    BY WholeListing
  <2> QED
    BY <1>0, <2>2, <2>3, <2>4 DEF Listed
<1>4. CASE /\ UNCHANGED <<sawFirst[q], before[q]>> /\ at'[q] # "returned"
  BY <1>0, <1>4 DEF Listed
<1>5. CASE AuditReused(q) \/ AuditEnqueued(q)
  <2>1. UNCHANGED <<sawFirst, before, match>>
    BY <1>5 DEF AuditReused, AuditEnqueued
  <2>2. reused'[q] = (match[q] \in before[q])
    BY <1>5 DEF AuditReused, AuditEnqueued, Return
  <2> QED
    BY <1>0, <2>1, <2>2 DEF Listed
<1>6. CASE InvalidInputs(q) \/ ReadClock(q) \/ ListRecent(q)
  BY <1>4, <1>6 DEF InvalidInputs, ReadClock, ListRecent
<1>7. CASE Create(q) \/ CreateSubtasks(q) \/ AuditQueued(q)
  BY <1>4, <1>7 DEF Create, CreateSubtasks, AuditQueued
<1>8. CASE AuditPlanned(q) \/ Enqueue(q) \/ RequestRaises(q)
  BY <1>4, <1>8 DEF AuditPlanned, Enqueue, RequestRaises
<1>9. CASE \E r \in Executions : RequestStep(r) \/ RequestRaises(r)
  BY <1>9, <1>2, <1>3, <1>5, <1>6, <1>7, <1>8 DEF RequestStep
<1> QED
  BY WhoseStep, <1>1, <1>9

\* Among executions that are fresh there is a most recent one, so when there is
\* no candidate none in the listing is fresh.
LEMMA MostRecent ==
    ASSUME TypeOK, \A r \in Executions : now[r] <= clock,
           NEW L \in Listings, NEW r \in Executions, Candidates(r, L) = {},
           NEW d \in L, key[d] = key[r]
    PROVE  now[d] + Window < now[r]
<1> DEFINE fresh == {e \in L : key[e] = key[r] /\ now[e] + Window >= now[r]}
           ages == {clock - now[e] : e \in fresh}
<1>1. fresh \subseteq Executions
  BY ListingsExist
<1>2. \A e \in Executions : now[e] \in Nat /\ now[e] <= clock /\ clock \in Nat
  BY DEF TypeOK
<1>3. SUFFICES ASSUME d \in fresh PROVE FALSE
  BY <1>2, ListingsExist, StartAssumption
<1>4. ages \in SUBSET Nat /\ ages # {}
  BY <1>1, <1>2, <1>3
<1>5. PICK x \in ages : \A y \in ages : x <= y
  BY <1>4, Least
<1>6. PICK e \in fresh : x = clock - now[e]
  OBVIOUS
<1>7. ASSUME NEW c \in fresh PROVE now[c] <= now[e]
  <2>1. clock - now[e] <= clock - now[c]
    BY <1>5, <1>6
  <2> QED
    BY <1>1, <1>2, <2>1
<1>8. e \in Candidates(r, L)
  BY <1>7 DEF Candidates, CreatedAt
<1> QED
  BY <1>8

LEMMA CreatedStep ==
    ASSUME TypeOK, \A r \in Executions : Written(r), \A r \in Executions : Created(r),
           \A r \in Executions : now[r] <= clock,
           IsFiniteSet(Existing), [Next]_vars, NEW q \in Executions
    PROVE  Created(q)'
<1> USE DEF TypeOK, StoreTypeOK, GoTo, Advance, SetStatus, storeVars
<1> DEFINE Newer(d) == {x \in seen[q] \ {d} : now[x] >= now[d]}
<1>0. /\ key' = key
      /\ \A e \in Existing : e \in Existing' /\ now'[e] = now[e]
      /\ Created(q) /\ Written(q)
  BY Grows
<1>1. ASSUME UNCHANGED <<now[q], seen[q]>>,
             at'[q] = "create" \/ status'[q] # "absent" => at[q] = "create" \/ status[q] # "absent"
      PROVE  Created(q)'
  <2>1. seen[q] \subseteq Existing'
    BY <1>0 DEF Created
  <2>2. ASSUME NEW d \in seen[q],
               at'[q] = "create" \/ status'[q] # "absent",
               d # q, key[d] = key[q], now'[d] + Window >= now'[q]
        PROVE  Cardinality({x \in seen[q] \ {d} : now'[x] >= now'[d]}) >= Limit
    <3>1. \A x \in seen[q] : now'[x] = now[x]
      BY <1>0 DEF Created
    <3>2. {x \in seen[q] \ {d} : now'[x] >= now'[d]} = Newer(d)
      BY <3>1
    <3>3. now[d] + Window >= now[q]
      BY <1>1, <2>2, <3>1
    <3> QED
      BY <1>0, <1>1, <2>2, <3>2, <3>3 DEF Created
  <2> QED
    BY <1>0, <1>1, <2>1, <2>2 DEF Created
<1>2. CASE UNCHANGED <<now[q], seen[q], at[q], status[q]>>
  BY <1>1, <1>2
<1>3. ASSUME NEW r \in Executions, RequestStep(r) \/ RequestRaises(r), q # r PROVE Created(q)'
  BY <1>2, <1>3, Others
<1>4. CASE ListRecent(q)
  <2>1. PICK L \in Listings :
           IF Candidates(q, L) = {}
           THEN GoTo(q, "create") /\ UNCHANGED match
           ELSE /\ GoTo(q, "reuse")
                /\ \E e \in Candidates(q, L) : match' = [match EXCEPT ![q] = e]
    BY <1>4 DEF ListRecent
  <2>2. /\ seen'[q] = Existing /\ status' = status /\ now' = now
        /\ status[q] = "absent"
    BY <1>0, <1>4 DEF ListRecent, Written, Unwritten
  <2>3. CASE Candidates(q, L) # {}
    <3>1. at'[q] = "reuse"
      BY <2>1, <2>3
    <3> QED
      BY <1>0, <2>2, <3>1 DEF Created
  <2>4. ASSUME Candidates(q, L) = {}, NEW d \in Existing, d # q, key[d] = key[q],
               now[d] + Window >= now[q]
        PROVE  Cardinality({x \in Existing \ {d} : now[x] >= now[d]}) >= Limit
    <3> DEFINE N == {x \in Existing \ {d} : now[x] >= now[d]}
    <3>1. d \notin L
      <4>1. now[d] \in Nat /\ now[q] \in Nat /\ Window \in Nat
        BY StartAssumption DEF Existing
      <4>2. SUFFICES ASSUME d \in L PROVE FALSE
        OBVIOUS
      <4>3. now[d] + Window < now[q]
        BY <2>4, <4>2, MostRecent
      <4> QED
        BY <2>4, <4>1, <4>3
    <3>2. Cardinality(L) = Limit
      BY <3>1 DEF Listings
    <3>3. L \subseteq N
      <4>1. \A e \in L : now[d] <= now[e]
        BY <3>1 DEF Listings, CreatedAt
      <4>2. \A e \in Executions : now[e] \in Nat
        OBVIOUS
      <4>3. L \subseteq Existing /\ Existing \subseteq Executions
        BY DEF Listings, Existing
      <4> QED
        BY <3>1, <4>1, <4>2, <4>3
    <3>4. IsFiniteSet(N)
      BY FS_Subset
    <3>5. Cardinality(L) <= Cardinality(N) /\ Cardinality(N) \in Nat
      BY <3>3, <3>4, FS_Subset, FS_CardinalityType
    <3> HIDE DEF N
    <3>6. Limit \in Nat
      BY StartAssumption
    <3>7. Cardinality(N) >= Limit
      BY <3>2, <3>5, <3>6
    <3> QED
      BY <3>7 DEF N
  <2>5. CASE Candidates(q, L) = {}
    BY <1>0, <2>2, <2>4, <2>5 DEF Created
  <2> QED
    BY <2>3, <2>5
<1>5. CASE ReadClock(q)
  <2>1. /\ seen'[q] = seen[q] /\ at'[q] = "list" /\ status'[q] = "absent"
    BY <1>0, <1>5 DEF ReadClock, Written, Unwritten
  <2> QED
    BY <1>0, <2>1 DEF Created
<1>6. CASE Create(q)
  BY <1>1, <1>6 DEF Create
<1>7. CASE InvalidInputs(q) \/ ReadBefore(q) \/ AuditReused(q)
  <2>1. UNCHANGED <<now, seen, status>> /\ at'[q] # "create"
    BY <1>7 DEF InvalidInputs, ReadBefore, AuditReused, Return
  <2> QED
    BY <1>1, <2>1
<1>8. CASE CreateSubtasks(q) \/ AuditQueued(q) \/ AuditPlanned(q)
  <2>1. UNCHANGED <<now, seen, status>> /\ at'[q] # "create"
    BY <1>8 DEF CreateSubtasks, AuditQueued, AuditPlanned
  <2> QED
    BY <1>1, <2>1
<1>9. CASE Enqueue(q) \/ AuditEnqueued(q) \/ RequestRaises(q)
  <2>1. UNCHANGED <<now, seen, status>> /\ at'[q] # "create"
    BY <1>9 DEF Enqueue, AuditEnqueued, Return, RequestRaises
  <2> QED
    BY <1>1, <2>1
<1>10. CASE \E r \in Executions : RequestStep(r) \/ RequestRaises(r)
  BY <1>10, <1>3, <1>4, <1>5, <1>6, <1>7, <1>8, <1>9 DEF RequestStep
<1> QED
  BY WhoseStep, <1>2, <1>10

-----------------------------------------------------------------------------

LEMMA StartInitial == Init => IStart
<1> SUFFICES ASSUME Init PROVE IStart
  OBVIOUS
<1> USE DEF Init, StartInit, MemoryInit
<1>1. TypeOK
  <2>1. inputs \in [Executions -> SUBSET InvestigationInputs]
    BY StartAssumption
  <2>2. memory \in [Projects -> Seq(Entry)]
    OBVIOUS
  <2> QED
    BY <2>1, <2>2 DEF TypeOK, StoreTypeOK, StatusValues, SubtaskValues, RequestLabels
<1>2. Existing = {}
  BY DEF Existing
<1>3. IsFiniteSet(Existing)
  BY <1>2, FS_EmptySet
<1>4. \A r \in Executions : Written(r) /\ Reuses(r) /\ now[r] <= clock
  BY DEF Written, Unwritten, Reuses
<1>5. \A r \in Executions : Listed(r) /\ Created(r)
  BY DEF Listed, Created
<1>6. QueueBacked
  BY DEF QueueBacked
<1> QED
  BY <1>1, <1>3, <1>4, <1>5, <1>6 DEF IStart

LEMMA StartStep == IStart /\ [Next]_vars => IStart'
<1> SUFFICES ASSUME IStart, [Next]_vars PROVE IStart'
  OBVIOUS
<1>1. TypeOK' /\ IsFiniteSet(Existing)' /\ QueueBacked'
  BY StartTypeStep, FiniteStep, QueueStep DEF IStart
<1>2. \A r \in Executions : now'[r] <= clock' /\ Written(r)' /\ Reuses(r)'
  BY ClockStep, WrittenStep, ReusesStep DEF IStart
<1>3. \A r \in Executions : Listed(r)' /\ Created(r)'
  BY ListedStep, CreatedStep DEF IStart
<1> QED
  BY <1>1, <1>2, <1>3 DEF IStart

LEMMA FlagListed == IStart => ReusedFlagOnlyMissesRaces
<1> SUFFICES ASSUME IStart, NEW r \in Executions, at[r] = "returned"
             PROVE  IF reused[r]
                    THEN match[r] # r
                    ELSE \/ match[r] = r \/ match[r] \notin sawFirst[r]
                         \/ Cardinality(sawFirst[r]) > Limit
  BY DEF ReusedFlagOnlyMissesRaces
<1>1. Listed(r) /\ Reuses(r)
  BY DEF IStart
<1>2. CASE reused[r]
  BY <1>1, <1>2 DEF Listed
<1>3. CASE ~ reused[r]
  <2>1. SUFFICES ASSUME match[r] # r, match[r] \in sawFirst[r]
                 PROVE  Cardinality(sawFirst[r]) > Limit
    BY <1>3
  <2>2. key[match[r]] = key[r]
    BY <1>1, <2>1 DEF Reuses
  <2>3. ~ (Cardinality(sawFirst[r]) <= Limit)
    BY <1>1, <1>3, <2>1, <2>2 DEF Listed
  <2>4. IsFiniteSet(Existing) /\ sawFirst[r] \subseteq Existing
    BY <1>1 DEF IStart, Listed
  <2>5. Cardinality(sawFirst[r]) \in Nat
    BY <2>4, FS_Subset, FS_CardinalityType
  <2> QED
    BY <2>3, <2>5, StartAssumption
<1> QED
  BY <1>2, <1>3

LEMMA DuplicateListed == IStart => DuplicateOnlyByRaceOrLimit
<1> SUFFICES ASSUME IStart, NEW d \in Existing, NEW e \in Existing, d # e, key[d] = key[e],
                    d \in seen[e], now[d] + Window >= now[e]
             PROVE  Cardinality({x \in seen[e] \ {d} : now[x] >= now[d]}) >= Limit
  BY DEF DuplicateOnlyByRaceOrLimit, CreatedAt
<1>1. e \in Executions /\ status[e] # "absent"
  BY DEF Existing
<1> QED
  BY <1>1 DEF IStart, Created

\* All that the invariant says of requests and what they are answered.
LEMMA StartSays ==
    IStart => QueueBacked /\ ReuseIsFresh /\ ReusedFlagOnlyMissesRaces /\ DuplicateOnlyByRaceOrLimit
<1>1. IStart => QueueBacked
  BY DEF IStart
<1>2. IStart => ReuseIsFresh
  BY DEF IStart, Reuses, ReuseIsFresh, CreatedAt
<1> QED
  BY <1>1, <1>2, FlagListed, DuplicateListed

\* The inductive invariant of concurrent starts.
THEOREM StartInvariant == Spec => []IStart
  BY StartInitial, StartStep, PTL DEF Spec

\* The variables keep their types.
THEOREM StartTypeCorrect == Spec => []TypeOK
<1>1. IStart => TypeOK
  BY DEF IStart
<1> QED
  BY StartInvariant, <1>1, PTL

\* Whatever fails, a queued job can be worked on at once: its row, its whole plan
\* and the two events are there, and the inputs of its scenario were complete.
THEOREM QueuedIsBacked == Spec => []QueueBacked
  BY StartInvariant, StartSays, PTL

\* A request is answered with an execution of its own key that is at most one
\* window old, or with the one it created.
THEOREM ReusedIsFresh == Spec => []ReuseIsFresh
  BY StartInvariant, StartSays, PTL

\* The flag of a scenario run is wrong only about an execution that was inserted
\* after its first listing, or hidden from it by the limit.
THEOREM FlagMissesOnlyRaces == Spec => []ReusedFlagOnlyMissesRaces
  BY StartInvariant, StartSays, PTL

\* For any number of requests, keys and limits: two executions of one key inside
\* one window mean a race of the two requests, or a listing that was too short.
THEOREM DuplicatedOnlyByRaceOrLimit == Spec => []DuplicateOnlyByRaceOrLimit
  BY StartInvariant, StartSays, PTL

=============================================================================
