------------------------------ MODULE ToolProofs ------------------------------
(***************************************************************************)
(* The two counters of the rate limiter for any number of callers,         *)
(* projects and tools, any limits, and callers that break off anywhere.    *)
(***************************************************************************)
EXTENDS ToolExecutor, FiniteSetTheorems, TLAPS

\* What INCR returned to a caller for one of its two counters.
SeenBy(c, k) == IF k = PKey(c) THEN seen[c].project ELSE seen[c].tool

\* The callers a counter counted that may still be let in because of it.
Low(k) == {c \in inWindow[k] : SeenBy(c, k) <= Limit(k)}

\* A caller is counted by its own counters, from each INCR to the decision.
Place(c) ==
    /\ \A k \in Keys : c \in inWindow[k] => k \in {PKey(c), TKey(c)}
    /\ at[c] \notin Inside => \A k \in Keys : c \notin inWindow[k]
    /\ at[c] = "incr_tool" => c \notin inWindow[TKey(c)]

\* A counter that let in, or may let in, as many as it counted up to its limit.
Budgeted(k) ==
    /\ IsFiniteSet(inWindow[k])
    /\ admitted[k] + Cardinality(Low(k)) <= count[k]
    /\ admitted[k] + Cardinality(Low(k)) <= Limit(k)

\* A creator that is past its EXPIRE has given the counter its time to live.
Lives(c) ==
    /\ /\ at[c] \in {"expire_tool", "decide"}
       /\ c \in inWindow[PKey(c)] /\ seen[c].project = 1
       => ttl[PKey(c)]
    /\ /\ at[c] = "decide"
       /\ c \in inWindow[TKey(c)] /\ seen[c].tool = 1
       => ttl[TKey(c)]

ToolInv ==
    /\ TypeOK
    /\ \A c \in Callers : Place(c) /\ Lives(c)
    /\ \A k \in Keys : Budgeted(k)
    /\ Expiring

-----------------------------------------------------------------------------

LEMMA KeyFacts ==
    ASSUME NEW c, req[c] \in Requests
    PROVE  /\ PKey(c) \in Keys /\ TKey(c) \in Keys /\ PKey(c) # TKey(c)
           /\ Limit(PKey(c)) = ProjectLimit /\ Limit(TKey(c)) = ToolLimit
<1>1. PKey(c) = <<req[c].project>> /\ TKey(c) = <<req[c].project, req[c].tool>>
  BY DEF PKey, TKey, ProjectKey, ToolKey
<1>2. Len(PKey(c)) = 1 /\ Len(TKey(c)) = 2
  BY <1>1
<1>3. PKey(c) \in Keys /\ TKey(c) \in Keys
  BY DEF Keys, PKey, TKey
<1> QED
  BY <1>2, <1>3 DEF Limit

LEMMA LimitType == \A k \in Keys : Limit(k) \in Nat
  BY ToolAssumption DEF Limit

\* The number of callers that may still be let in.
LEMMA LowType ==
    ASSUME NEW k \in Keys, IsFiniteSet(inWindow[k])
    PROVE  IsFiniteSet(Low(k)) /\ Cardinality(Low(k)) \in Nat
<1>1. Low(k) \subseteq inWindow[k]
  BY DEF Low
<1> QED
  BY <1>1, FS_Subset, FS_CardinalityType

LEMMA InitTool == Init => ToolInv
<1> SUFFICES ASSUME Init PROVE ToolInv
  OBVIOUS
<1> USE DEF Init
<1>1. TypeOK
  BY DEF TypeOK, Places, Outcomes, Unseen
<1>2. ASSUME NEW c \in Callers PROVE Place(c)
  BY DEF Place, Inside
<1>3. ASSUME NEW c \in Callers PROVE Lives(c)
  BY DEF Lives
<1>4. ASSUME NEW k \in Keys PROVE Budgeted(k)
  <2>1. Low(k) = {} /\ inWindow[k] = {} /\ admitted[k] = 0 /\ count[k] = 0
    BY DEF Low
  <2>2. IsFiniteSet({}) /\ Cardinality({}) = 0
    BY FS_EmptySet
  <2> QED
    BY <2>1, <2>2, LimitType DEF Budgeted
<1>5. Expiring
  BY DEF Expiring
<1> QED
  BY <1>1, <1>2, <1>3, <1>4, <1>5 DEF ToolInv

-----------------------------------------------------------------------------

\* INCR of a counter: the caller may be let in because of it only if the count
\* it read is within the limit, and then so many were let in before it.
LEMMA IncrBudget ==
    ASSUME ToolInv, NEW c \in Callers, NEW k \in Keys,
           c \notin inWindow[k],
           count' = [count EXCEPT ![k] = @ + 1],
           Counted(k, c), admitted' = admitted, req' = req,
           SeenBy(c, k)' = count[k] + 1,
           \A d \in Callers : \A x \in Keys :
              d \in inWindow[x] => SeenBy(d, x)' = SeenBy(d, x)
    PROVE  \A x \in Keys : Budgeted(x)'
<1> SUFFICES ASSUME NEW x \in Keys PROVE Budgeted(x)'
  OBVIOUS
<1>1. /\ count \in [Keys -> Nat] /\ admitted \in [Keys -> Nat]
      /\ inWindow \in [Keys -> SUBSET Callers] /\ Limit(x) \in Nat
  BY LimitType DEF ToolInv, TypeOK
<1>2. Budgeted(x)
  BY DEF ToolInv
<1>3. IsFiniteSet(Low(x)) /\ Cardinality(Low(x)) \in Nat
  BY <1>2, LowType DEF Budgeted
<1>4. inWindow'[x] = IF x = k THEN inWindow[k] \cup {c} ELSE inWindow[x]
  BY <1>1 DEF Counted
<1>5. IsFiniteSet(inWindow'[x])
  BY <1>2, <1>4, FS_AddElement DEF Budgeted
<1>6. CASE x # k
  <2>1. inWindow'[x] = inWindow[x] /\ count'[x] = count[x]
    BY <1>1, <1>4, <1>6
  <2>2. Low(x)' = Low(x)
    BY <1>1, <2>1 DEF Low
  <2> QED
    BY <1>2, <1>5, <2>1, <2>2 DEF Budgeted
<1>7. CASE x = k
  <2>1. count'[x] = count[x] + 1
    BY <1>1, <1>7
  <2>2. CASE count[k] + 1 <= Limit(k)
    <3>1. Low(x)' = Low(x) \cup {c}
      BY <1>1, <1>4, <1>7, <2>2 DEF Low
    <3>2. c \notin Low(x)
      BY <1>7 DEF Low
    <3>3. Cardinality(Low(x)') = Cardinality(Low(x)) + 1
      BY <1>3, <3>1, <3>2, FS_AddElement
    <3> QED
      BY <1>1, <1>2, <1>3, <1>5, <1>7, <2>1, <2>2, <3>3 DEF Budgeted
  <2>3. CASE ~ (count[k] + 1 <= Limit(k))
    <3>1. Low(x)' = Low(x)
      BY <1>1, <1>4, <1>7, <2>3 DEF Low
    <3> QED
      BY <1>1, <1>2, <1>3, <1>5, <2>1, <3>1 DEF Budgeted
  <2> QED
    BY <2>2, <2>3
<1> QED
  BY <1>6, <1>7

\* A caller is forgotten: let in by counters that read a count within their
\* limit to it, or not let in at all.
LEMMA LeaveBudget ==
    ASSUME ToolInv, NEW c \in Callers, Forgotten(c), count' = count,
           \A d \in Callers : \A x \in Keys :
              d # c /\ d \in inWindow[x] => SeenBy(d, x)' = SeenBy(d, x),
           \/ admitted' = admitted
           \/ LetIn(c) /\ \A x \in Keys : c \in inWindow[x] => SeenBy(c, x) <= Limit(x)
    PROVE  \A x \in Keys : Budgeted(x)'
<1> SUFFICES ASSUME NEW x \in Keys PROVE Budgeted(x)'
  OBVIOUS
<1>1. /\ count \in [Keys -> Nat] /\ admitted \in [Keys -> Nat]
      /\ inWindow \in [Keys -> SUBSET Callers] /\ Limit(x) \in Nat
  BY LimitType DEF ToolInv, TypeOK
<1>2. Budgeted(x)
  BY DEF ToolInv
<1>3. IsFiniteSet(Low(x)) /\ Cardinality(Low(x)) \in Nat
  BY <1>2, LowType DEF Budgeted
<1>4. inWindow'[x] = inWindow[x] \ {c}
  BY DEF Forgotten
<1>5. IsFiniteSet(inWindow'[x])
  BY <1>2, <1>4, FS_RemoveElement DEF Budgeted
<1>6. Low(x)' = Low(x) \ {c}
  BY <1>1, <1>4 DEF Low
<1>7. /\ IsFiniteSet(Low(x)')
      /\ Cardinality(Low(x)') = IF c \in Low(x) THEN Cardinality(Low(x)) - 1 ELSE Cardinality(Low(x))
  BY <1>3, <1>6, FS_RemoveElement
<1>8. \/ admitted'[x] = admitted[x]
      \/ c \in Low(x) /\ admitted'[x] = admitted[x] + 1
  BY DEF LetIn, Low
<1>9. Cardinality(Low(x)') \in Nat /\ Cardinality(Low(x)') <= Cardinality(Low(x))
  BY <1>3, <1>7, FS_CardinalityType
<1> QED
  BY <1>1, <1>2, <1>3, <1>5, <1>7, <1>8, <1>9 DEF Budgeted

\* A step that counts nobody and forgets nobody.
LEMMA SameBudget ==
    ASSUME ToolInv, count' = count, admitted' = admitted, inWindow' = inWindow,
           \A d \in Callers : \A x \in Keys :
              d \in inWindow[x] => SeenBy(d, x)' = SeenBy(d, x)
    PROVE  \A x \in Keys : Budgeted(x)'
<1> SUFFICES ASSUME NEW x \in Keys PROVE Budgeted(x)'
  OBVIOUS
<1>1. Low(x)' = Low(x)
  BY DEF Low, ToolInv, TypeOK
<1> QED
  BY <1>1 DEF Budgeted, ToolInv

\* The callers that do not move keep their places.
LEMMA OthersStay ==
    ASSUME ToolInv, NEW c \in Callers,
           \A d \in Callers : d # c =>
              /\ at'[d] = at[d] /\ req'[d] = req[d] /\ seen'[d] = seen[d]
              /\ \A k \in Keys : d \in inWindow'[k] =>
                    d \in inWindow[k] /\ (ttl[k] => ttl'[k])
    PROVE  \A d \in Callers : d # c => Place(d)' /\ Lives(d)'
<1> SUFFICES ASSUME NEW d \in Callers, d # c PROVE Place(d)' /\ Lives(d)'
  OBVIOUS
<1>1. /\ at'[d] = at[d] /\ req'[d] = req[d] /\ seen'[d] = seen[d]
      /\ \A k \in Keys : d \in inWindow'[k] => d \in inWindow[k] /\ (ttl[k] => ttl'[k])
      /\ PKey(d)' = PKey(d) /\ TKey(d)' = TKey(d)
  BY DEF PKey, TKey
<1>2. Place(d) /\ Lives(d)
  BY DEF ToolInv
<1>3. at[d] # "out" => req[d] \in Requests
  BY DEF ToolInv, TypeOK
<1>4. at[d] # "out" => PKey(d) \in Keys /\ TKey(d) \in Keys
  BY <1>3, KeyFacts
<1>5. Place(d)'
  BY <1>1, <1>2, <1>4 DEF Place, Inside
<1>6. Lives(d)'
  BY <1>1, <1>2, <1>4 DEF Lives
<1> QED
  BY <1>5, <1>6

\* What a caller that stays was told, and whether it created a counter, stay too.
LEMMA SeenStays ==
    ASSUME NEW d, NEW k, req'[d] = req[d], seen'[d] = seen[d]
    PROVE  /\ SeenBy(d, k)' = SeenBy(d, k)
           /\ Creator(d, k) /\ d \in inWindow'[k] => Creator(d, k)'
  BY DEF SeenBy, Creator, PKey, TKey

\* A caller that is in none of the windows is the creator of no counter.
LEMMA Outsider ==
    ASSUME ToolInv, NEW c \in Callers, at[c] \notin Inside
    PROVE  \A k \in Keys : c \notin inWindow[k] /\ ~ Creator(c, k)
  BY DEF ToolInv, Place, Creator

\* Creators that stay keep a counter from being nobody's.
LEMMA ExpiringFrame ==
    ASSUME ToolInv, abandoned' = abandoned, count' = count,
           \A k \in Keys : ttl[k] => ttl'[k],
           \A k \in Keys : \A d \in Callers : Creator(d, k) =>
              req'[d] = req[d] /\ seen'[d] = seen[d] /\ d \in inWindow'[k]
    PROVE  Expiring'
<1> SUFFICES ASSUME NEW k \in Keys, count[k] > 0, ~ ttl'[k], k \notin abandoned
             PROVE  \E d \in Callers : Creator(d, k)'
  BY DEF Expiring
<1>1. PICK d \in Callers : Creator(d, k)
  BY DEF ToolInv, Expiring
<1>2. Creator(d, k)'
  BY <1>1, SeenStays
<1> QED
  BY <1>2

\* execute() answers from a place outside allow().
LEMMA AnswerOutside ==
    ASSUME ToolInv, NEW c \in Callers, at[c] \notin Inside,
           NEW o \in Outcomes, Answer(c, o), UNCHANGED counters
    PROVE  ToolInv'
<1>1. /\ at' = [at EXCEPT ![c] = "out"] /\ req' = [req EXCEPT ![c] = NoRequest]
      /\ seen' = [seen EXCEPT ![c] = Unseen] /\ tries' = [tries EXCEPT ![c] = 0]
      /\ envelope' = [envelope EXCEPT ![c] = o]
      /\ count' = count /\ ttl' = ttl /\ inWindow' = inWindow
      /\ admitted' = admitted /\ abandoned' = abandoned
  BY DEF Answer, counters
<1>2. TypeOK'
  BY <1>1 DEF ToolInv, TypeOK, Places, Unseen
<1>3. \A d \in Callers : d # c => at'[d] = at[d] /\ req'[d] = req[d] /\ seen'[d] = seen[d]
  BY <1>1 DEF ToolInv, TypeOK
<1>4. \A d \in Callers : d # c => Place(d)' /\ Lives(d)'
  BY <1>1, <1>3, OthersStay
<1>5. Place(c)' /\ Lives(c)'
  BY <1>1, Outsider DEF ToolInv, TypeOK, Place, Lives, Inside
<1>6. \A k \in Keys : Budgeted(k)'
  <2>1. \A d \in Callers : \A x \in Keys : d \in inWindow[x] => SeenBy(d, x)' = SeenBy(d, x)
    BY <1>3, Outsider, SeenStays
  <2> QED
    BY <1>1, <2>1, SameBudget
<1>7. Expiring'
  <2>1. \A k \in Keys : \A d \in Callers : Creator(d, k) => d # c /\ d \in inWindow[k]
    BY Outsider DEF Creator
  <2> QED
    BY <1>1, <1>3, <2>1, ExpiringFrame
<1> QED
  BY <1>2, <1>4, <1>5, <1>6, <1>7 DEF ToolInv

LEMMA BeginStep ==
    ASSUME ToolInv, NEW c \in Callers, NEW r \in Requests, Begin(c, r)
    PROVE  ToolInv'
<1>1. /\ at[c] = "out" /\ at' = [at EXCEPT ![c] = "incr_project"]
      /\ req' = [req EXCEPT ![c] = r] /\ envelope' = [envelope EXCEPT ![c] = "ok"]
      /\ seen' = seen /\ tries' = tries /\ count' = count /\ ttl' = ttl
      /\ inWindow' = inWindow /\ admitted' = admitted /\ abandoned' = abandoned
  BY DEF Begin, Move, counters
<1>2. TypeOK'
  BY <1>1, ToolAssumption DEF ToolInv, TypeOK, Places, Outcomes
<1>3. \A d \in Callers : d # c => at'[d] = at[d] /\ req'[d] = req[d] /\ seen'[d] = seen[d]
  BY <1>1 DEF ToolInv, TypeOK
<1>4. at[c] \notin Inside
  BY <1>1 DEF Inside
<1>5. \A d \in Callers : d # c => Place(d)' /\ Lives(d)'
  BY <1>1, <1>3, OthersStay
<1>6. Place(c)' /\ Lives(c)'
  BY <1>1, <1>4, Outsider DEF ToolInv, TypeOK, Place, Lives, Inside
<1>7. \A k \in Keys : Budgeted(k)'
  <2>1. \A d \in Callers : \A x \in Keys : d \in inWindow[x] => SeenBy(d, x)' = SeenBy(d, x)
    BY <1>3, <1>4, Outsider, SeenStays
  <2> QED
    BY <1>1, <2>1, SameBudget
<1>8. Expiring'
  <2>1. \A k \in Keys : \A d \in Callers : Creator(d, k) => d # c /\ d \in inWindow[k]
    BY <1>4, Outsider DEF Creator
  <2> QED
    BY <1>1, <1>3, <2>1, ExpiringFrame
<1> QED
  BY <1>2, <1>5, <1>6, <1>7, <1>8 DEF ToolInv

LEMMA IncrProjectStep ==
    ASSUME ToolInv, NEW c \in Callers, IncrProject(c)
    PROVE  ToolInv'
<1>0. PICK k : k = PKey(c)
  OBVIOUS
<1>1. /\ at[c] = "incr_project" /\ at' = [at EXCEPT ![c] = "incr_tool"]
      /\ count' = [count EXCEPT ![k] = @ + 1]
      /\ seen' = [seen EXCEPT ![c].project = count[k] + 1]
      /\ inWindow' = [inWindow EXCEPT ![k] = @ \cup {c}]
      /\ req' = req /\ tries' = tries /\ envelope' = envelope
      /\ ttl' = ttl /\ admitted' = admitted /\ abandoned' = abandoned
  BY <1>0 DEF IncrProject, Move, Counted
<1>2. req[c] \in Requests /\ at[c] \notin Inside
  BY <1>1 DEF ToolInv, TypeOK, Inside
<1>3. k \in Keys /\ TKey(c) \in Keys /\ k # TKey(c) /\ PKey(c)' = k /\ TKey(c)' = TKey(c)
  <2>1. PKey(c)' = PKey(c) /\ TKey(c)' = TKey(c)
    BY <1>1 DEF PKey, TKey
  <2> QED
    BY <1>0, <1>2, <2>1, KeyFacts
<1>4. count[k] \in Nat /\ \A x \in Keys : c \notin inWindow[x] /\ ~ Creator(c, x)
  BY <1>2, <1>3, Outsider DEF ToolInv, TypeOK
<1>5. TypeOK'
  BY <1>1, <1>3, <1>4 DEF ToolInv, TypeOK, Places
<1>6. \A d \in Callers : d # c => at'[d] = at[d] /\ req'[d] = req[d] /\ seen'[d] = seen[d]
  BY <1>1 DEF ToolInv, TypeOK
<1>7. \A x \in Keys : inWindow'[x] = IF x = k THEN inWindow[k] \cup {c} ELSE inWindow[x]
  BY <1>1 DEF ToolInv, TypeOK
<1>8. \A d \in Callers : d # c => Place(d)' /\ Lives(d)'
  BY <1>1, <1>6, <1>7, OthersStay
<1>9. at'[c] = "incr_tool" /\ seen'[c].project = count[k] + 1
  BY <1>1 DEF ToolInv, TypeOK
<1>10. Place(c)' /\ Lives(c)'
  BY <1>3, <1>4, <1>7, <1>9 DEF Place, Lives, Inside
<1>11. \A x \in Keys : Budgeted(x)'
  <2>1. \A d \in Callers : \A x \in Keys : d \in inWindow[x] => SeenBy(d, x)' = SeenBy(d, x)
    BY <1>4, <1>6, SeenStays
  <2>2. SeenBy(c, k)' = count[k] + 1
    BY <1>3, <1>9 DEF SeenBy
  <2>3. Counted(k, c)
    BY <1>1 DEF Counted
  <2> QED
    BY <1>1, <1>3, <1>4, <2>1, <2>2, <2>3, IncrBudget
<1>12. Expiring'
  <2> SUFFICES ASSUME NEW x \in Keys, count'[x] > 0, ~ ttl[x], x \notin abandoned
               PROVE  \E d \in Callers : Creator(d, x)'
    BY <1>1 DEF Expiring
  <2>1. CASE count[x] > 0
    <3>1. PICK d \in Callers : Creator(d, x)
      BY <2>1 DEF ToolInv, Expiring
    <3>2. d # c /\ d \in inWindow'[x]
      BY <1>4, <1>7, <3>1 DEF Creator
    <3> QED
      BY <1>6, <3>1, <3>2, SeenStays
  <2>2. CASE ~ (count[x] > 0)
    <3>1. x = k /\ count[k] = 0
      BY <1>1, <1>3, <2>2 DEF ToolInv, TypeOK
    <3> QED
      BY <1>3, <1>7, <1>9, <3>1 DEF Creator
  <2> QED
    BY <2>1, <2>2
<1> QED
  BY <1>5, <1>8, <1>10, <1>11, <1>12 DEF ToolInv

LEMMA IncrToolStep ==
    ASSUME ToolInv, NEW c \in Callers, IncrTool(c)
    PROVE  ToolInv'
<1>0. PICK k : k = TKey(c)
  OBVIOUS
<1>1. /\ at[c] = "incr_tool" /\ at' = [at EXCEPT ![c] = "expire_project"]
      /\ count' = [count EXCEPT ![k] = @ + 1]
      /\ seen' = [seen EXCEPT ![c].tool = count[k] + 1]
      /\ inWindow' = [inWindow EXCEPT ![k] = @ \cup {c}]
      /\ req' = req /\ tries' = tries /\ envelope' = envelope
      /\ ttl' = ttl /\ admitted' = admitted /\ abandoned' = abandoned
  BY <1>0 DEF IncrTool, Move, Counted
<1>2. req[c] \in Requests
  BY <1>1 DEF ToolInv, TypeOK
<1>3. k \in Keys /\ PKey(c) \in Keys /\ PKey(c) # k /\ PKey(c)' = PKey(c) /\ TKey(c)' = k
  <2>1. PKey(c)' = PKey(c) /\ TKey(c)' = TKey(c)
    BY <1>1 DEF PKey, TKey
  <2> QED
    BY <1>0, <1>2, <2>1, KeyFacts
<1>4. count[k] \in Nat /\ c \notin inWindow[k]
      /\ \A x \in Keys : c \in inWindow[x] => x = PKey(c)
  BY <1>1, <1>3 DEF ToolInv, TypeOK, Place
<1>5. TypeOK'
  BY <1>1, <1>3, <1>4 DEF ToolInv, TypeOK, Places
<1>6. \A d \in Callers : d # c => at'[d] = at[d] /\ req'[d] = req[d] /\ seen'[d] = seen[d]
  BY <1>1 DEF ToolInv, TypeOK
<1>7. \A x \in Keys : inWindow'[x] = IF x = k THEN inWindow[k] \cup {c} ELSE inWindow[x]
  BY <1>1 DEF ToolInv, TypeOK
<1>8. \A d \in Callers : d # c => Place(d)' /\ Lives(d)'
  BY <1>1, <1>6, <1>7, OthersStay
<1>9. /\ at'[c] = "expire_project" /\ seen'[c].tool = count[k] + 1
      /\ seen'[c].project = seen[c].project
  BY <1>1 DEF ToolInv, TypeOK
<1>10. Place(c)' /\ Lives(c)'
  BY <1>3, <1>4, <1>7, <1>9 DEF Place, Lives, Inside
<1>11. \A x \in Keys : Budgeted(x)'
  <2>1. \A x \in Keys : c \in inWindow[x] => SeenBy(c, x)' = SeenBy(c, x)
    BY <1>3, <1>4, <1>9 DEF SeenBy
  <2>2. \A d \in Callers : \A x \in Keys : d \in inWindow[x] => SeenBy(d, x)' = SeenBy(d, x)
    BY <1>6, <2>1, SeenStays
  <2>3. SeenBy(c, k)' = count[k] + 1
    BY <1>3, <1>9 DEF SeenBy
  <2>4. Counted(k, c)
    BY <1>1 DEF Counted
  <2> QED
    BY <1>1, <1>3, <1>4, <2>2, <2>3, <2>4, IncrBudget
<1>12. Expiring'
  <2> SUFFICES ASSUME NEW x \in Keys, count'[x] > 0, ~ ttl[x], x \notin abandoned
               PROVE  \E d \in Callers : Creator(d, x)'
    BY <1>1 DEF Expiring
  <2>1. CASE count[x] > 0
    <3>1. PICK d \in Callers : Creator(d, x)
      BY <2>1 DEF ToolInv, Expiring
    <3>2. d \in inWindow'[x]
      BY <1>7, <3>1 DEF Creator
    <3>3. CASE d # c
      BY <1>6, <3>1, <3>2, <3>3, SeenStays
    <3>4. CASE d = c
      <4>1. x = PKey(c) /\ seen[c].project = 1
        BY <1>0, <1>3, <1>4, <3>1, <3>4 DEF Creator
      <4> QED
        BY <1>3, <1>9, <3>2, <3>4, <4>1 DEF Creator
    <3> QED
      BY <3>3, <3>4
  <2>2. CASE ~ (count[x] > 0)
    <3>1. x = k /\ count[k] = 0
      BY <1>1, <1>3, <2>2 DEF ToolInv, TypeOK
    <3> QED
      BY <1>3, <1>7, <1>9, <3>1 DEF Creator
  <2> QED
    BY <2>1, <2>2
<1> QED
  BY <1>5, <1>8, <1>10, <1>11, <1>12 DEF ToolInv

\* EXPIRE of one of the counters of a caller.
LEMMA ExpireStep ==
    ASSUME ToolInv, NEW c \in Callers, ExpireProject(c) \/ ExpireTool(c)
    PROVE  ToolInv'
<1>1. /\ \/ at[c] = "expire_project" /\ at' = [at EXCEPT ![c] = "expire_tool"]
         \/ at[c] = "expire_tool" /\ at' = [at EXCEPT ![c] = "decide"]
      /\ req' = req /\ seen' = seen /\ tries' = tries /\ envelope' = envelope
      /\ count' = count /\ inWindow' = inWindow
      /\ admitted' = admitted /\ abandoned' = abandoned
  BY DEF ExpireProject, ExpireTool, Move
<1>2. req[c] \in Requests
  BY <1>1 DEF ToolInv, TypeOK
<1>3. /\ PKey(c) \in Keys /\ TKey(c) \in Keys /\ PKey(c) # TKey(c)
      /\ PKey(c)' = PKey(c) /\ TKey(c)' = TKey(c)
  <2>1. PKey(c)' = PKey(c) /\ TKey(c)' = TKey(c)
    BY <1>1 DEF PKey, TKey
  <2> QED
    BY <1>2, <2>1, KeyFacts
<1>4. /\ ttl \in [Keys -> BOOLEAN]
      /\ \A x \in Keys : c \in inWindow[x] => count[x] > 0
  BY DEF ToolInv, TypeOK
<1>5. /\ ttl' \in [Keys -> BOOLEAN]
      /\ \A x \in Keys : ttl[x] => ttl'[x]
      /\ \A x \in Keys : count[x] = 0 => ttl'[x] = ttl[x]
      /\ at[c] = "expire_project" /\ seen[c].project = 1 /\ c \in inWindow[PKey(c)] => ttl'[PKey(c)]
      /\ at[c] = "expire_tool" /\ seen[c].tool = 1 /\ c \in inWindow[TKey(c)] => ttl'[TKey(c)]
  <2>1. CASE ExpireProject(c)
    <3>1. /\ at[c] = "expire_project"
          /\ ttl' = [ttl EXCEPT ![PKey(c)] = @ \/ (seen[c].project = 1 /\ count[PKey(c)] > 0)]
      BY <2>1 DEF ExpireProject, Move
    <3>2. ttl' \in [Keys -> BOOLEAN]
      BY <1>3, <1>4, <3>1
    <3>3. \A x \in Keys : x # PKey(c) => ttl'[x] = ttl[x]
      BY <1>3, <1>4, <3>1
    <3>4. ttl'[PKey(c)] <=> ttl[PKey(c)] \/ (seen[c].project = 1 /\ count[PKey(c)] > 0)
      BY <1>3, <1>4, <3>1
    <3>5. \A x \in Keys : (ttl[x] => ttl'[x]) /\ (count[x] = 0 => ttl'[x] = ttl[x])
      BY <1>4, <3>2, <3>3, <3>4
    <3> QED
      BY <1>3, <1>4, <3>1, <3>2, <3>4, <3>5
  <2>2. CASE ExpireTool(c)
    <3>1. /\ at[c] = "expire_tool"
          /\ ttl' = [ttl EXCEPT ![TKey(c)] = @ \/ (seen[c].tool = 1 /\ count[TKey(c)] > 0)]
      BY <2>2 DEF ExpireTool, Move
    <3>2. ttl' \in [Keys -> BOOLEAN]
      BY <1>3, <1>4, <3>1
    <3>3. \A x \in Keys : x # TKey(c) => ttl'[x] = ttl[x]
      BY <1>3, <1>4, <3>1
    <3>4. ttl'[TKey(c)] <=> ttl[TKey(c)] \/ (seen[c].tool = 1 /\ count[TKey(c)] > 0)
      BY <1>3, <1>4, <3>1
    <3>5. \A x \in Keys : (ttl[x] => ttl'[x]) /\ (count[x] = 0 => ttl'[x] = ttl[x])
      BY <1>4, <3>2, <3>3, <3>4
    <3> QED
      BY <1>3, <1>4, <3>1, <3>2, <3>4, <3>5
  <2> QED
    BY <2>1, <2>2
<1>6. TypeOK'
  BY <1>1, <1>5 DEF ToolInv, TypeOK, Places
<1>7. \A d \in Callers : d # c => at'[d] = at[d] /\ req'[d] = req[d] /\ seen'[d] = seen[d]
  BY <1>1 DEF ToolInv, TypeOK
<1>8. \A d \in Callers : d # c => Place(d)' /\ Lives(d)'
  BY <1>1, <1>5, <1>7, OthersStay
<1>9. at'[c] \in {"expire_tool", "decide"} /\ (at'[c] = "decide" => at[c] = "expire_tool")
      /\ (at'[c] = "expire_tool" => at[c] = "expire_project")
  BY <1>1 DEF ToolInv, TypeOK
<1>10. Place(c)'
  BY <1>1, <1>3, <1>9 DEF ToolInv, Place, Inside
<1>11. Lives(c)'
  BY <1>1, <1>3, <1>5, <1>9 DEF ToolInv, Lives
<1>12. \A x \in Keys : Budgeted(x)'
  BY <1>1, SeenStays, SameBudget
<1>13. Expiring'
  BY <1>1, <1>5, ExpiringFrame DEF Creator
<1> QED
  BY <1>6, <1>8, <1>10, <1>11, <1>12, <1>13 DEF ToolInv

\* The caller is out of allow(): let in, refused, or broken off.
LEMMA LeaveStep ==
    ASSUME ToolInv, NEW c \in Callers, at[c] \in Inside,
           Forgotten(c), count' = count, ttl' = ttl, TypeOK', at'[c] \notin Inside,
           \A d \in Callers : d # c =>
              at'[d] = at[d] /\ req'[d] = req[d] /\ seen'[d] = seen[d],
           \/ admitted' = admitted
           \/ LetIn(c) /\ Within(c),
           \/ at[c] = "decide" /\ abandoned' = abandoned
           \/ abandoned' = abandoned \cup {k \in Keys : Creator(c, k) /\ ~ ttl[k]}
    PROVE  ToolInv'
<1>1. \A x \in Keys : inWindow'[x] = inWindow[x] \ {c}
  BY DEF Forgotten
<1>2. \A d \in Callers : d # c => Place(d)' /\ Lives(d)'
  BY <1>1, OthersStay
<1>3. Place(c)' /\ Lives(c)'
  BY <1>1 DEF Place, Lives, Inside
<1>4. req[c] \in Requests /\ Place(c) /\ Lives(c)
  BY DEF ToolInv, TypeOK, Inside
<1>5. \A x \in Keys : Budgeted(x)'
  <2>1. \A d \in Callers : \A x \in Keys :
           d # c /\ d \in inWindow[x] => SeenBy(d, x)' = SeenBy(d, x)
    BY SeenStays
  <2>2. Within(c) => \A x \in Keys : c \in inWindow[x] => SeenBy(c, x) <= Limit(x)
    BY <1>4, KeyFacts DEF Within, Place, SeenBy
  <2> QED
    BY <2>1, <2>2, LeaveBudget
<1>6. Expiring'
  <2> SUFFICES ASSUME NEW x \in Keys, count[x] > 0, ~ ttl[x], x \notin abandoned'
               PROVE  \E d \in Callers : Creator(d, x)'
    BY DEF Expiring
  <2>1. PICK d \in Callers : Creator(d, x)
    BY DEF ToolInv, Expiring
  <2>2. d # c
    <3>1. CASE at[c] = "decide"
      BY <1>4, <2>1, <3>1 DEF Lives, Creator
    <3>2. CASE abandoned' = abandoned \cup {k \in Keys : Creator(c, k) /\ ~ ttl[k]}
      BY <2>1, <3>2
    <3> QED
      BY <3>1, <3>2
  <2>3. d \in inWindow'[x]
    BY <1>1, <2>1, <2>2 DEF Creator
  <2> QED
    BY <2>1, <2>2, <2>3, SeenStays
<1> QED
  BY <1>2, <1>3, <1>5, <1>6 DEF ToolInv

LEMMA WindowStep ==
    ASSUME ToolInv, NEW k \in Keys, WindowEnds(k)
    PROVE  ToolInv'
<1>1. /\ count' = [count EXCEPT ![k] = 0] /\ ttl' = [ttl EXCEPT ![k] = FALSE]
      /\ inWindow' = [inWindow EXCEPT ![k] = {}] /\ admitted' = [admitted EXCEPT ![k] = 0]
      /\ at' = at /\ req' = req /\ seen' = seen /\ tries' = tries /\ envelope' = envelope
      /\ abandoned' = abandoned
  BY DEF WindowEnds
<1>2. TypeOK'
  BY <1>1 DEF ToolInv, TypeOK
<1>3. /\ inWindow'[k] = {} /\ count'[k] = 0 /\ admitted'[k] = 0
      /\ \A x \in Keys : x # k => /\ inWindow'[x] = inWindow[x] /\ count'[x] = count[x]
                                  /\ admitted'[x] = admitted[x] /\ ttl'[x] = ttl[x]
  BY <1>1 DEF ToolInv, TypeOK
<1>4. ASSUME NEW d \in Callers PROVE Place(d)' /\ Lives(d)'
  <2>1. Place(d) /\ Lives(d) /\ PKey(d)' = PKey(d) /\ TKey(d)' = TKey(d)
    BY <1>1 DEF ToolInv, PKey, TKey
  <2>2. at[d] # "out" => PKey(d) \in Keys /\ TKey(d) \in Keys
    BY KeyFacts DEF ToolInv, TypeOK
  <2>3. \A x \in Keys : d \in inWindow'[x] => d \in inWindow[x] /\ ttl'[x] = ttl[x]
    BY <1>3
  <2>4. Place(d)'
    BY <1>1, <2>1, <2>2, <2>3 DEF Place, Inside
  <2>5. Lives(d)'
    BY <1>1, <2>1, <2>2, <2>3 DEF Lives
  <2> QED
    BY <2>4, <2>5
<1>5. ASSUME NEW x \in Keys PROVE Budgeted(x)'
  <2>1. CASE x = k
    <3>1. Low(x)' = {}
      BY <1>3, <2>1 DEF Low
    <3>2. IsFiniteSet({}) /\ Cardinality({}) = 0
      BY FS_EmptySet
    <3>3. /\ IsFiniteSet(inWindow'[x])
          /\ admitted'[x] + Cardinality(Low(x)') = 0 /\ count'[x] = 0
      BY <1>3, <2>1, <3>1, <3>2
    <3> QED
      BY <3>3, LimitType DEF Budgeted
  <2>2. CASE x # k
    <3>1. Low(x)' = Low(x)
      BY <1>1, <1>3, <2>2, SeenStays DEF Low, SeenBy, PKey, TKey
    <3> QED
      BY <1>3, <2>2, <3>1 DEF ToolInv, Budgeted
  <2> QED
    BY <2>1, <2>2
<1>6. Expiring'
  <2> SUFFICES ASSUME NEW x \in Keys, count'[x] > 0, ~ ttl'[x], x \notin abandoned
               PROVE  \E d \in Callers : Creator(d, x)'
    BY <1>1 DEF Expiring
  <2>1. x # k
    BY <1>3
  <2>2. PICK d \in Callers : Creator(d, x)
    BY <1>3, <2>1 DEF ToolInv, Expiring
  <2> QED
    BY <1>1, <1>3, <2>1, <2>2, SeenStays DEF Creator
<1> QED
  BY <1>2, <1>4, <1>5, <1>6 DEF ToolInv

LEMMA ToolStep == ToolInv /\ [Next]_toolVars => ToolInv'
<1> SUFFICES ASSUME ToolInv, [Next]_toolVars PROVE ToolInv'
  OBVIOUS
<1>1. ASSUME NEW c \in Callers, NEW r \in Requests, Deny(c, r) \/ Refuse(c, r)
      PROVE  ToolInv'
  <2>1. at[c] \notin Inside /\ UNCHANGED counters
    BY <1>1 DEF Deny, Refuse, Inside
  <2>2. \E o \in Outcomes : Answer(c, o)
    BY <1>1 DEF Deny, Refuse, Outcomes
  <2> QED
    BY <2>1, <2>2, AnswerOutside
<1>2. ASSUME NEW c \in Callers, Succeed(c) \/ GiveUp(c) PROVE ToolInv'
  <2>1. at[c] \notin Inside /\ UNCHANGED counters
    BY <1>2 DEF Succeed, GiveUp, Inside
  <2>2. \E o \in Outcomes : Answer(c, o)
    BY <1>2 DEF Succeed, GiveUp, Outcomes
  <2> QED
    BY <2>1, <2>2, AnswerOutside
<1>3. ASSUME NEW c \in Callers, Limited(c) \/ NotFound(c) \/ BreakOff(c) PROVE ToolInv'
  <2>1. /\ at[c] \in Inside /\ \E o \in Outcomes : Answer(c, o)
        /\ Forgotten(c) /\ count' = count /\ ttl' = ttl
        /\ at' = [at EXCEPT ![c] = "out"] /\ req' = [req EXCEPT ![c] = NoRequest]
        /\ seen' = [seen EXCEPT ![c] = Unseen] /\ tries' = [tries EXCEPT ![c] = 0]
    BY <1>3 DEF Limited, NotFound, BreakOff, Inside, Outcomes, Answer
  <2>2. \/ admitted' = admitted
        \/ LetIn(c) /\ Within(c)
    BY <1>3 DEF Limited, NotFound, BreakOff
  <2>3. \/ at[c] = "decide" /\ abandoned' = abandoned
        \/ abandoned' = abandoned \cup {k \in Keys : Creator(c, k) /\ ~ ttl[k]}
    BY <1>3 DEF Limited, NotFound, BreakOff
  <2>4. abandoned' \subseteq Keys
    BY <2>3 DEF ToolInv, TypeOK
  <2>5. envelope' \in [Callers -> Outcomes]
    BY <2>1 DEF Answer, ToolInv, TypeOK
  <2>6. /\ inWindow' \in [Keys -> SUBSET Callers] /\ \A k \in Keys : inWindow'[k] \subseteq inWindow[k]
        /\ admitted' \in [Keys -> Nat]
        /\ \A k \in Keys : inWindow[k] = {} => admitted'[k] = admitted[k]
    BY <2>1, <2>2 DEF Forgotten, LetIn, ToolInv, TypeOK
  <2>7. TypeOK'
    BY <2>1, <2>4, <2>5, <2>6 DEF ToolInv, TypeOK, Places, Unseen
  <2>8. /\ at'[c] \notin Inside
        /\ \A d \in Callers : d # c => at'[d] = at[d] /\ req'[d] = req[d] /\ seen'[d] = seen[d]
    BY <2>1 DEF Inside, ToolInv, TypeOK
  <2> QED
    BY <2>1, <2>2, <2>3, <2>7, <2>8, LeaveStep
<1>4. ASSUME NEW c \in Callers, Enter(c) PROVE ToolInv'
  <2>1. /\ at[c] = "decide" /\ at' = [at EXCEPT ![c] = "run"] /\ Within(c) /\ LetIn(c)
        /\ Forgotten(c) /\ UNCHANGED <<req, seen, tries, envelope, count, ttl, abandoned>>
    BY <1>4 DEF Enter, Move
  <2>2. /\ inWindow' \in [Keys -> SUBSET Callers] /\ \A k \in Keys : inWindow'[k] \subseteq inWindow[k]
        /\ admitted' \in [Keys -> Nat]
        /\ \A k \in Keys : inWindow[k] = {} => admitted'[k] = admitted[k]
    BY <2>1 DEF Forgotten, LetIn, ToolInv, TypeOK
  <2>3. TypeOK'
    BY <2>1, <2>2 DEF ToolInv, TypeOK, Places
  <2>4. /\ at'[c] \notin Inside /\ at[c] \in Inside
        /\ \A d \in Callers : d # c => at'[d] = at[d]
    BY <2>1 DEF Inside, ToolInv, TypeOK
  <2> QED
    BY <2>1, <2>3, <2>4, LeaveStep
<1>5. ASSUME NEW c \in Callers, TryAgain(c) PROVE ToolInv'
  <2>1. /\ tries' = [tries EXCEPT ![c] = @ + 1]
        /\ UNCHANGED <<at, req, seen, envelope, counters>>
    BY <1>5 DEF TryAgain
  <2>2. TypeOK'
    BY <2>1 DEF ToolInv, TypeOK, counters
  <2> QED
    BY <2>1, <2>2 DEF ToolInv, Place, Lives, Budgeted, Low, SeenBy, Expiring, Creator,
                      PKey, TKey, counters
<1>6. ASSUME UNCHANGED toolVars PROVE ToolInv'
  <2>1. UNCHANGED <<at, req, seen, tries, envelope, counters>>
    BY <1>6 DEF toolVars
  <2>2. TypeOK'
    BY <2>1 DEF ToolInv, TypeOK, counters
  <2> QED
    BY <2>1, <2>2 DEF ToolInv, Place, Lives, Budgeted, Low, SeenBy, Expiring, Creator,
                      PKey, TKey, counters
<1> QED
  BY <1>1, <1>2, <1>3, <1>4, <1>5, <1>6, BeginStep, IncrProjectStep, IncrToolStep, ExpireStep,
     WindowStep DEF Next, CallerStep

LEMMA ToolAlways == Spec => []ToolInv
  BY InitTool, ToolStep, PTL DEF Spec

\* Of the calls counted in a window, at most the limit are let in, in every
\* interleaving of any number of callers, whoever breaks off.
THEOREM LimitsHold == Spec => []WithinLimits
<1>1. ToolInv => WithinLimits
  <2> SUFFICES ASSUME ToolInv, NEW k \in Keys PROVE admitted[k] <= Limit(k)
    BY DEF WithinLimits
  <2>1. Budgeted(k) /\ admitted[k] \in Nat /\ Limit(k) \in Nat
    BY LimitType DEF ToolInv, TypeOK
  <2>2. Cardinality(Low(k)) \in Nat
    BY <2>1, LowType DEF Budgeted
  <2> QED
    BY <2>1, <2>2 DEF Budgeted
<1> QED
  BY ToolAlways, <1>1, PTL

\* A counter without a time to live has its creator on the way to EXPIRE, or a
\* creator that broke off.
THEOREM CountersExpire == Spec => []Expiring
<1>1. ToolInv => Expiring
  BY DEF ToolInv
<1> QED
  BY ToolAlways, <1>1, PTL

=============================================================================
