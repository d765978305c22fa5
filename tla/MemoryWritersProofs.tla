-------------------------- MODULE MemoryWritersProofs --------------------------
(***************************************************************************)
(* For any number of projects, contents and concurrent completions: the    *)
(* decision memory can be walked back version by version, and a version is *)
(* duplicated only by a race.                                              *)
(***************************************************************************)
EXTENDS MemoryWriters, DecisionMemoryProofs

\* A writer that has read holds the newest of the entries it saw.
ReadNewest(w) ==
    LET m == memory[call[w].project] IN
    /\ call[w] \in Calls
    /\ readAt[w] \in 0..Len(m)
    /\ latest[w] \in 0..readAt[w]
    /\ readAt[w] > 0 => latest[w] > 0
    /\ \A i \in 1..readAt[w] : m[i].version <= m[latest[w]].version

\* A writer that is done added the entry of the version after the one it held.
Wrote(w) ==
    LET m == memory[call[w].project] IN
    /\ wrote[w] \in 1..Len(m)
    /\ m[wrote[w]].version = NextVersion(call[w].project, latest[w])

Inv ==
    /\ TypeOK
    /\ SupersedesChain
    /\ \A w \in Writers :
         /\ pc[w] # "read" => ReadNewest(w)
         /\ pc[w] # "done" => wrote[w] = 0
         /\ pc[w] = "done" => Wrote(w)

LEMMA InitInv == Init => Inv
  BY DEF Init, MemoryInit, Inv, TypeOK, SupersedesChain

\* Entries are only added and their versions never change, so what a writer
\* read or wrote stays true of the memory.
LEMMA StaysTrue ==
    ASSUME Inv, MemoryType', NEW w \in Writers,
           UNCHANGED <<pc[w], call[w], latest[w], readAt[w], wrote[w]>>,
           \A q \in Projects :
              /\ Len(memory'[q]) >= Len(memory[q])
              /\ \A i \in 1..Len(memory[q]) : memory'[q][i].version = memory[q][i].version
    PROVE  /\ pc'[w] # "read" => ReadNewest(w)'
           /\ pc'[w] # "done" => wrote'[w] = 0
           /\ pc'[w] = "done" => Wrote(w)'
<1>1. CASE pc[w] = "read"
  BY <1>1 DEF Inv
<1>2. CASE pc[w] # "read"
  <2> DEFINE p == call[w].project
  <2>1. ReadNewest(w) /\ p \in Projects
    BY <1>2 DEF Inv, ReadNewest, Calls
  <2>2. p' = p /\ Len(memory[p]) \in Nat /\ Len(memory'[p]) \in Nat
    BY <2>1 DEF Inv, TypeOK, MemoryType
  <2>3. \A i \in 1..readAt[w] : memory'[p][i].version = memory[p][i].version
    BY <2>1, <2>2 DEF ReadNewest
  <2>4. ReadNewest(w)'
    <3>1. CASE readAt[w] = 0
      BY <3>1, <2>1, <2>2 DEF ReadNewest
    <3>2. CASE readAt[w] > 0
      <4>1. latest[w] \in 1..readAt[w] /\ readAt[w] \in 0..Len(memory[p])
        BY <3>2, <2>1, <2>2 DEF ReadNewest
      <4>2. \A i \in 1..readAt[w] : memory'[p][i].version <= memory'[p][latest[w]].version
        BY <4>1, <2>1, <2>3 DEF ReadNewest
      <4> QED
        BY <3>2, <4>1, <4>2, <2>1, <2>2 DEF ReadNewest
    <3> QED
      BY <3>1, <3>2, <2>1, <2>2 DEF ReadNewest
  <2>5. pc[w] = "done" => Wrote(w)'
    <3> SUFFICES ASSUME pc[w] = "done" PROVE Wrote(w)'
      OBVIOUS
    <3>1. Wrote(w)
      BY DEF Inv
    <3>2. NextVersion(p, latest[w])' = NextVersion(p, latest[w])
      BY <2>1, <2>2, <2>3 DEF NextVersion, ReadNewest
    <3> QED
      BY <3>1, <3>2, <2>1, <2>2 DEF Wrote
  <2> QED
    BY <2>4, <2>5 DEF Inv
<1> QED
  BY <1>1, <1>2

LEMMA StepInv == Inv /\ [Next]_vars => Inv'
<1> SUFFICES ASSUME Inv, [Next]_vars PROVE Inv'
  OBVIOUS
<1>1. MemoryType
  BY DEF Inv, MemoryType, TypeOK
<1>2. ASSUME NEW w \in Writers, ReadLatest(w) PROVE Inv'
  <2>1. PICK c \in Calls : \E i \in Latest(c.project) :
           /\ call' = [call EXCEPT ![w] = c]
           /\ latest' = [latest EXCEPT ![w] = i]
           /\ readAt' = [readAt EXCEPT ![w] = Len(memory[c.project])]
    BY <1>2 DEF ReadLatest
  <2>2. PICK i \in Latest(c.project) :
           /\ call' = [call EXCEPT ![w] = c]
           /\ latest' = [latest EXCEPT ![w] = i]
           /\ readAt' = [readAt EXCEPT ![w] = Len(memory[c.project])]
    BY <2>1
  <2>3. /\ c.project \in Projects
        /\ memory[c.project] \in Seq(Entry)
        /\ Len(memory[c.project]) \in Nat
    BY <1>1 DEF Calls, MemoryType
  <2>4. i \in 0..Len(memory[c.project])
    BY <1>1, <2>3, LatestInRange
  <2>5. memory' = memory /\ wrote' = wrote /\ pc' = [pc EXCEPT ![w] = "add"]
    BY <1>2 DEF ReadLatest
  <2>6. TypeOK'
    BY <2>2, <2>3, <2>4, <2>5 DEF Inv, TypeOK
  <2>7. SupersedesChain'
    BY <2>5 DEF Inv, SupersedesChain
  <2>8. ReadNewest(w)'
    <3>1. call'[w] = c /\ latest'[w] = i /\ readAt'[w] = Len(memory[c.project])
      BY <2>2 DEF Inv, TypeOK
    <3>2. /\ Len(memory[c.project]) > 0 => i > 0
          /\ \A j \in 1..Len(memory[c.project]) :
               memory[c.project][j].version <= memory[c.project][i].version
      BY <2>2, <2>3 DEF Latest
    <3> QED
      BY <2>3, <2>4, <2>5, <3>1, <3>2 DEF ReadNewest
  <2>9. ASSUME NEW v \in Writers
        PROVE  /\ pc'[v] # "read" => ReadNewest(v)'
               /\ pc'[v] # "done" => wrote'[v] = 0
               /\ pc'[v] = "done" => Wrote(v)'
    <3>1. CASE v = w
      BY <3>1, <2>5, <2>8, <1>2 DEF Inv, TypeOK, ReadLatest
    <3>2. CASE v # w
      <4>1. UNCHANGED <<pc[v], call[v], latest[v], readAt[v], wrote[v]>>
        BY <3>2, <2>2, <2>5 DEF Inv, TypeOK
      <4>2. \A q \in Projects : Len(memory[q]) \in Nat
        BY <1>1 DEF MemoryType
      <4> QED
        BY <4>1, <4>2, <2>5, <1>1, StaysTrue DEF MemoryType
    <3> QED
      BY <3>1, <3>2
  <2> QED
    BY <2>6, <2>7, <2>9 DEF Inv
<1>3. ASSUME NEW w \in Writers, Add(w) PROVE Inv'
  <2> DEFINE p == call[w].project
             n == Len(memory[p])
  <2>1. ReadNewest(w) /\ p \in Projects /\ call[w].content \in Contents
    BY <1>3 DEF Inv, Add, ReadNewest, Calls
  <2>2. memory[p] \in Seq(Entry) /\ n \in Nat
    BY <1>1, <2>1 DEF MemoryType
  <2>3. latest[w] \in 0..n
    BY <2>1, <2>2 DEF ReadNewest
  <2>4. /\ MemoryType'
        /\ Len(memory'[p]) = n + 1
        /\ \A q \in Projects \ {p} : memory'[q] = memory[q]
        /\ memory'[p][n + 1].version = NextVersion(p, latest[w])
        /\ memory'[p][n + 1].supersedes = latest[w]
        /\ \A i \in 1..n :
             /\ memory'[p][i].version = memory[p][i].version
             /\ memory'[p][i].supersedes = memory[p][i].supersedes
    BY <1>1, <1>3, <2>1, <2>3, AddDecisionAppends DEF Add
  <2>5. /\ wrote' = [wrote EXCEPT ![w] = n + 1]
        /\ pc' = [pc EXCEPT ![w] = "done"]
        /\ UNCHANGED <<call, latest, readAt>>
    BY <1>3 DEF Add
  <2>6. TypeOK'
    BY <2>2, <2>4, <2>5 DEF Inv, TypeOK, MemoryType
  <2>7. SupersedesChain'
    <3> SUFFICES ASSUME NEW q \in Projects, NEW i \in 1..Len(memory'[q])
                 PROVE  IF memory'[q][i].supersedes = 0
                        THEN memory'[q][i].version = 1
                        ELSE /\ memory'[q][i].supersedes < i
                             /\ memory'[q][i].version
                                  = memory'[q][memory'[q][i].supersedes].version + 1
      BY DEF SupersedesChain
    <3>1. CASE q # p
      BY <3>1, <2>4 DEF Inv, SupersedesChain
    <3>2. CASE q = p /\ i \in 1..n
      <4> DEFINE s == memory[p][i].supersedes
      <4>1. s \in Nat /\ memory'[p][i].supersedes = s
        BY <3>2, <1>1, <2>1, <2>4, EntryTypes
      <4>2. IF s = 0
            THEN memory[p][i].version = 1
            ELSE s < i /\ memory[p][i].version = memory[p][s].version + 1
        BY <3>2, <2>1 DEF Inv, SupersedesChain
      <4>3. s # 0 => memory'[p][s].version = memory[p][s].version
        <5> HIDE DEF s
        <5>1. s # 0 => s \in 1..n
          BY <3>2, <4>1, <4>2, <2>2
        <5> QED
          BY <5>1, <2>4
      <4> HIDE DEF s
      <4> QED
        BY <3>2, <4>1, <4>2, <4>3, <2>4
    <3>3. CASE q = p /\ i = n + 1
      <4>1. /\ memory'[q][i].supersedes = latest[w]
            /\ memory'[q][i].version = NextVersion(p, latest[w])
        BY <3>3, <2>4
      <4>2. CASE latest[w] = 0
        BY <4>1, <4>2 DEF NextVersion
      <4>3. CASE latest[w] # 0
        <5>1. latest[w] \in 1..n /\ latest[w] < i
          BY <4>3, <3>3, <2>2, <2>3
        <5>2. memory'[q][latest[w]].version = memory[p][latest[w]].version
          BY <5>1, <3>3, <2>4
        <5> QED
          BY <4>1, <4>3, <5>1, <5>2 DEF NextVersion
      <4> QED
        BY <4>2, <4>3
    <3> QED
      BY <3>1, <3>2, <3>3, <2>2, <2>4
  <2>8. \A q \in Projects :
           /\ Len(memory'[q]) >= Len(memory[q])
           /\ \A i \in 1..Len(memory[q]) : memory'[q][i].version = memory[q][i].version
    <3> SUFFICES ASSUME NEW q \in Projects
                 PROVE  /\ Len(memory'[q]) >= Len(memory[q])
                        /\ \A i \in 1..Len(memory[q]) :
                             memory'[q][i].version = memory[q][i].version
      OBVIOUS
    <3>1. Len(memory[q]) \in Nat
      BY <1>1 DEF MemoryType
    <3>2. CASE q = p
      BY <3>1, <3>2, <2>4
    <3>3. CASE q # p
      BY <3>1, <3>3, <2>4
    <3> QED
      BY <3>2, <3>3
  <2>9. ReadNewest(w)' /\ Wrote(w)'
    <3>1. ReadNewest(w)'
      <4>1. \A i \in 1..readAt[w] : memory'[p][i].version = memory[p][i].version
        BY <2>1, <2>2, <2>4 DEF ReadNewest
      <4> QED
        <5>1. /\ readAt[w] \in 0..n /\ latest[w] \in 0..readAt[w]
              /\ readAt[w] > 0 => latest[w] \in 1..readAt[w]
          BY <2>1, <2>2 DEF ReadNewest
        <5>2. \A i \in 1..readAt[w] : memory'[p][i].version <= memory'[p][latest[w]].version
          <6> SUFFICES ASSUME NEW i \in 1..readAt[w]
                       PROVE  memory'[p][i].version <= memory'[p][latest[w]].version
            OBVIOUS
          <6>1. latest[w] \in 1..readAt[w]
            BY <5>1, <2>2
          <6>2. memory[p][i].version <= memory[p][latest[w]].version
            BY <2>1 DEF ReadNewest
          <6> QED
            BY <4>1, <6>1, <6>2
        <5> QED
          BY <5>1, <5>2, <2>1, <2>2, <2>4, <2>5 DEF ReadNewest
    <3>2. NextVersion(p, latest[w])' = NextVersion(p, latest[w])
      <4>1. p' = p /\ latest' = latest
        BY <2>5
      <4>2. latest[w] # 0 => memory'[p][latest[w]].version = memory[p][latest[w]].version
        <5>1. latest[w] # 0 => latest[w] \in 1..n
          BY <2>2, <2>3
        <5> QED
          BY <5>1, <2>4
      <4> HIDE DEF p
      <4> QED
        BY <4>1, <4>2 DEF NextVersion
    <3> QED
      BY <3>1, <3>2, <2>2, <2>4, <2>5 DEF Inv, Wrote, TypeOK
  <2>10. ASSUME NEW v \in Writers
         PROVE  /\ pc'[v] # "read" => ReadNewest(v)'
                /\ pc'[v] # "done" => wrote'[v] = 0
                /\ pc'[v] = "done" => Wrote(v)'
    <3>1. CASE v = w
      BY <3>1, <2>5, <2>9 DEF Inv, TypeOK
    <3>2. CASE v # w
      <4>1. UNCHANGED <<pc[v], call[v], latest[v], readAt[v], wrote[v]>>
        BY <3>2, <2>5 DEF Inv, TypeOK
      <4> QED
        BY <4>1, <2>4, <2>8, StaysTrue
    <3> QED
      BY <3>1, <3>2
  <2> QED
    BY <2>6, <2>7, <2>10 DEF Inv
<1>4. ASSUME NEW p \in Projects, ApproveEntry(p) PROVE Inv'
  <2>1. PICK i \in 1..Len(memory[p]) : Approve(p, i)
    BY <1>4 DEF ApproveEntry
  <2>2. /\ MemoryType'
        /\ \A q \in Projects :
             /\ Len(memory'[q]) = Len(memory[q])
             /\ \A j \in 1..Len(memory[q]) :
                  /\ memory'[q][j].version = memory[q][j].version
                  /\ memory'[q][j].supersedes = memory[q][j].supersedes
    BY <1>1, <2>1, ApproveKeeps
  <2>3. UNCHANGED <<pc, call, latest, readAt, wrote>>
    BY <1>4 DEF ApproveEntry
  <2>4. TypeOK'
    BY <2>2, <2>3 DEF Inv, TypeOK, MemoryType
  <2>5. \A q \in Projects : \A j \in 1..Len(memory[q]) :
           Len(memory[q]) \in Nat /\ memory[q][j].supersedes \in Nat
    BY <1>1, EntryTypes
  <2>6. SupersedesChain'
    <3> SUFFICES ASSUME NEW q \in Projects, NEW j \in 1..Len(memory'[q])
                 PROVE  IF memory'[q][j].supersedes = 0
                        THEN memory'[q][j].version = 1
                        ELSE /\ memory'[q][j].supersedes < j
                             /\ memory'[q][j].version
                                  = memory'[q][memory'[q][j].supersedes].version + 1
      BY DEF SupersedesChain
    <3> DEFINE s == memory[q][j].supersedes
    <3>1. /\ j \in 1..Len(memory[q]) /\ Len(memory[q]) \in Nat /\ s \in Nat
          /\ memory'[q][j].supersedes = s
          /\ memory'[q][j].version = memory[q][j].version
      BY <2>2, <2>5
    <3>2. IF s = 0
          THEN memory[q][j].version = 1
          ELSE s < j /\ memory[q][j].version = memory[q][s].version + 1
      BY <3>1 DEF Inv, SupersedesChain
    <3>3. s # 0 => memory'[q][s].version = memory[q][s].version
      BY <3>1, <3>2, <2>2
    <3> HIDE DEF s
    <3> QED
      BY <3>1, <3>2, <3>3
  <2>7. \A q \in Projects : Len(memory'[q]) >= Len(memory[q])
    BY <1>1, <2>2 DEF MemoryType
  <2>8. ASSUME NEW v \in Writers
        PROVE  /\ pc'[v] # "read" => ReadNewest(v)'
               /\ pc'[v] # "done" => wrote'[v] = 0
               /\ pc'[v] = "done" => Wrote(v)'
    BY <2>2, <2>3, <2>7, StaysTrue
  <2> QED
    BY <2>4, <2>6, <2>8 DEF Inv
<1>5. CASE UNCHANGED vars
  BY <1>5 DEF Inv, vars, TypeOK, SupersedesChain, ReadNewest, Wrote, NextVersion, Calls
<1> QED
  BY <1>2, <1>3, <1>4, <1>5 DEF Next, AllDone

\* Every entry of every project derives from an older one of the version just
\* below, whatever the interleaving of any number of completions.
THEOREM ChainHolds == Spec => []SupersedesChain
<1>1. Inv => SupersedesChain
  BY DEF Inv
<1> QED
  BY InitInv, StepInv, <1>1, PTL DEF Spec

\* The variables keep their types.
THEOREM TypeCorrect == Spec => []TypeOK
<1>1. Inv => TypeOK
  BY DEF Inv
<1> QED
  BY InitInv, StepInv, <1>1, PTL DEF Spec

\* What a writer read of a prefix of the memory bounds the versions in it, so
\* an entry of its own version lies beyond that prefix.
LEMMA InvNoDuplicate == Inv => DuplicateVersionOnlyByRace
<1> SUFFICES ASSUME Inv, NEW v \in Writers, NEW w \in Writers,
                    wrote[v] # 0, wrote[v] < wrote[w],
                    call[v].project = call[w].project,
                    memory[call[v].project][wrote[v]].version
                      = memory[call[v].project][wrote[w]].version
             PROVE  readAt[w] < wrote[v]
  BY DEF DuplicateVersionOnlyByRace
<1> DEFINE m == memory[call[w].project]
<1>0. MemoryType
  BY DEF Inv, TypeOK, MemoryType
<1>1. pc[v] = "done" /\ pc[w] = "done"
  BY DEF Inv, TypeOK
<1>2. ReadNewest(w) /\ Wrote(w) /\ Wrote(v)
  BY <1>1 DEF Inv
<1>3. call[w].project \in Projects /\ m \in Seq(Entry) /\ Len(m) \in Nat
  BY <1>2 DEF Inv, TypeOK, ReadNewest, Calls
<1>4. SUFFICES ASSUME wrote[v] <= readAt[w] PROVE FALSE
  BY <1>2, <1>3 DEF ReadNewest, Wrote
<1>5. latest[w] \in 1..Len(m) /\ wrote[v] \in 1..Len(m) /\ wrote[v] \in 1..readAt[w]
  BY <1>2, <1>3, <1>4 DEF ReadNewest, Wrote
<1>6. m[latest[w]].version \in Nat /\ m[wrote[v]].version \in Nat
  BY <1>0, <1>3, <1>5, EntryTypes
<1>7. m[wrote[w]].version = m[latest[w]].version + 1
  BY <1>2, <1>5 DEF Wrote, NextVersion
<1>8. m[wrote[v]].version <= m[latest[w]].version
  BY <1>2, <1>5 DEF ReadNewest
<1> QED
  BY <1>6, <1>7, <1>8

\* A version is used twice only by writers that raced between the read and the
\* insert.
THEOREM DuplicateOnlyByRace == Spec => []DuplicateVersionOnlyByRace
  BY InitInv, StepInv, InvNoDuplicate, PTL DEF Spec

\* Another status at one position of the memory of a project.
LEMMA StatusChange ==
    ASSUME NEW m \in Seq(Entry), NEW l \in 1..Len(m), NEW st \in EntryStatus
    PROVE  LET d == [m EXCEPT ![l].status = st] IN
           /\ d \in Seq(Entry) /\ Len(d) = Len(m)
           /\ \A i \in 1..Len(m) :
                /\ d[i].content = m[i].content
                /\ d[i].supersedes = m[i].supersedes
                /\ d[i].status = IF i = l THEN st ELSE m[i].status
<1>1. \A i \in 1..Len(m) : m[i] \in Entry
  OBVIOUS
<1>2. [m[l] EXCEPT !.status = st] \in Entry
  BY <1>1 DEF Entry
<1>3. \A i \in 1..Len(m) :
        [m EXCEPT ![l].status = st][i] = IF i = l THEN [m[l] EXCEPT !.status = st] ELSE m[i]
  OBVIOUS
<1> QED
  BY <1>1, <1>2, <1>3 DEF Entry

\* What Add(w) does to the entries of its project: the one the writer had read may
\* be deprecated, and a pending one that derives from it comes after them.
LEMMA AddEffect ==
    ASSUME Inv, NEW w \in Writers, Add(w)
    PROVE  LET p == call[w].project  n == Len(memory[p])  l == latest[w] IN
           /\ p \in Projects /\ n \in Nat /\ l \in 0..n
           /\ Len(memory'[p]) = n + 1
           /\ \A q \in Projects \ {p} : memory'[q] = memory[q]
           /\ memory'[p][n + 1].content = call[w].content
           /\ memory'[p][n + 1].status = "pending"
           /\ memory'[p][n + 1].supersedes = l
           /\ \A i \in 1..n :
                /\ memory'[p][i].content = memory[p][i].content
                /\ memory'[p][i].supersedes = memory[p][i].supersedes
                /\ memory'[p][i].status =
                      IF /\ i = l
                         /\ Backend = "in_memory"
                         /\ memory[p][l].content # call[w].content
                      THEN "deprecated"
                      ELSE memory[p][i].status
<1> DEFINE p == call[w].project
           n == Len(memory[p])
           l == latest[w]
           new == [version |-> NextVersion(p, l), content |-> call[w].content,
                   status |-> "pending", supersedes |-> l]
<1>1. ReadNewest(w) /\ p \in Projects
  BY DEF Inv, Add, ReadNewest, Calls
<1>2. memory[p] \in Seq(Entry) /\ n \in Nat /\ memory \in [Projects -> Seq(Entry)]
  BY <1>1 DEF Inv, TypeOK
<1>3. l \in 0..n
  BY <1>1, <1>2 DEF ReadNewest
<1>4. memory' = [memory EXCEPT ![p] = Append(Deprecated(p, l, call[w].content), new)]
  BY DEF Add, AddDecision
<1>5. /\ Deprecated(p, l, call[w].content) \in Seq(Entry)
      /\ Len(Deprecated(p, l, call[w].content)) = n
      /\ \A i \in 1..n :
           /\ Deprecated(p, l, call[w].content)[i].content = memory[p][i].content
           /\ Deprecated(p, l, call[w].content)[i].supersedes = memory[p][i].supersedes
           /\ Deprecated(p, l, call[w].content)[i].status =
                 IF /\ i = l
                    /\ Backend = "in_memory"
                    /\ memory[p][l].content # call[w].content
                 THEN "deprecated"
                 ELSE memory[p][i].status
  <2>1. CASE ~ (l # 0 /\ Backend = "in_memory" /\ memory[p][l].content # call[w].content)
    BY <2>1, <1>2 DEF Deprecated
  <2>2. CASE l # 0 /\ Backend = "in_memory" /\ memory[p][l].content # call[w].content
    <3>1. Deprecated(p, l, call[w].content) = [memory[p] EXCEPT ![l].status = "deprecated"]
      BY <2>2 DEF Deprecated
    <3>2. l \in 1..n /\ "deprecated" \in EntryStatus
      BY <2>2, <1>2, <1>3 DEF EntryStatus
    <3> QED
      BY <2>2, <3>1, <3>2, <1>2, StatusChange
  <2> QED
    BY <2>1, <2>2
<1>6. memory'[p] = Append(Deprecated(p, l, call[w].content), new)
  BY <1>1, <1>2, <1>4
<1>7. \A q \in Projects \ {p} : memory'[q] = memory[q]
  BY <1>2, <1>4
<1> DEFINE d == Deprecated(p, l, call[w].content)
<1>8. /\ Len(memory'[p]) = n + 1
      /\ memory'[p][n + 1] = new
      /\ \A i \in 1..n : memory'[p][i] = d[i]
  <2>1. d \in Seq(Entry) /\ Len(d) = n /\ memory'[p] = Append(d, new)
    BY <1>5, <1>6
  <2> HIDE DEF d, new, n, p, l
  <2> QED
    BY <2>1
<1>9. new.content = call[w].content /\ new.status = "pending" /\ new.supersedes = l
  OBVIOUS
<1> HIDE DEF new, d
<1>10. \A i \in 1..n :
         /\ d[i].content = memory[p][i].content
         /\ d[i].supersedes = memory[p][i].supersedes
         /\ d[i].status =
               IF /\ i = l
                  /\ Backend = "in_memory"
                  /\ memory[p][l].content # call[w].content
               THEN "deprecated"
               ELSE memory[p][i].status
  BY <1>5 DEF d
<1> QED
  BY <1>1, <1>2, <1>3, <1>7, <1>8, <1>9, <1>10

LEMMA DeprecatedStep ==
    ASSUME Inv, DeprecatedByChange, [Next]_vars
    PROVE  DeprecatedByChange'
<1> DEFINE Changes(q, i, s) ==
             memory[q][i].supersedes = s /\ memory[q][i].content # memory[q][s].content
           Kept(q, s) ==
             /\ Backend = "in_memory" /\ memory[q][s].status = "pending" =>
                    \A i \in 1..Len(memory[q]) : ~ Changes(q, i, s)
             /\ memory[q][s].status = "deprecated" =>
                    \E i \in 1..Len(memory[q]) : Changes(q, i, s)
<1>1. \A q \in Projects : \A s \in 1..Len(memory[q]) : Kept(q, s)
  BY DEF DeprecatedByChange
<1>2. SUFFICES ASSUME NEW q \in Projects, NEW s \in 1..Len(memory'[q]) PROVE Kept(q, s)'
  BY DEF DeprecatedByChange
<1>3. Len(memory[q]) \in Nat /\ \A i \in 1..Len(memory[q]) : memory[q][i].supersedes < i
  <2>1. Len(memory[q]) \in Nat
    BY DEF Inv, TypeOK
  <2>2. ASSUME NEW i \in 1..Len(memory[q]) PROVE memory[q][i].supersedes < i
    <3>1. \/ memory[q][i].supersedes = 0
          \/ memory[q][i].supersedes < i
      BY DEF Inv, SupersedesChain
    <3> QED
      BY <3>1, <2>1
  <2> QED
    BY <2>1, <2>2
<1>4. CASE memory'[q] = memory[q]
  BY <1>1, <1>4
<1>5. ASSUME NEW w \in Writers, Add(w), q = call[w].project PROVE Kept(q, s)'
  <2> DEFINE n == Len(memory[q])
             l == latest[w]
             After(i) == /\ memory'[q][i].supersedes = s
                         /\ memory'[q][i].content # memory'[q][s].content
  <2>1. /\ n \in Nat /\ l \in 0..n
        /\ Len(memory'[q]) = n + 1
        /\ memory'[q][n + 1].content = call[w].content
        /\ memory'[q][n + 1].status = "pending"
        /\ memory'[q][n + 1].supersedes = l
        /\ \A i \in 1..n :
             /\ memory'[q][i].content = memory[q][i].content
             /\ memory'[q][i].supersedes = memory[q][i].supersedes
             /\ memory'[q][i].status =
                   IF /\ i = l
                      /\ Backend = "in_memory"
                      /\ memory[q][l].content # call[w].content
                   THEN "deprecated"
                   ELSE memory[q][i].status
    BY <1>5, AddEffect
  <2>0. SUFFICES /\ Backend = "in_memory" /\ memory'[q][s].status = "pending" =>
                        \A i \in 1..Len(memory'[q]) : ~ After(i)
                 /\ memory'[q][s].status = "deprecated" =>
                        \E i \in 1..Len(memory'[q]) : After(i)
    OBVIOUS
  <2>2. CASE s = n + 1
    <3>1. ASSUME NEW i \in 1..Len(memory'[q]) PROVE memory'[q][i].supersedes # s
      <4>1. CASE i = n + 1
        BY <4>1, <2>1, <2>2
      <4>2. CASE i \in 1..n
        BY <4>2, <2>1, <2>2, <1>3
      <4> QED
        BY <4>1, <4>2, <2>1
    <3> QED
      BY <3>1, <2>1, <2>2
  <2>3. CASE s \in 1..n
    <3>1. \A i \in 1..n : After(i) <=> Changes(q, i, s)
      BY <2>1, <2>3
    <3>2. After(n + 1) <=> s = l /\ memory[q][s].content # call[w].content
      <4>1. memory'[q][s].content = memory[q][s].content
        BY <2>1, <2>3
      <4> QED
        BY <4>1, <2>1
    <3>3. Kept(q, s)
      BY <1>1, <2>3
    <3>4. CASE s = l /\ memory[q][s].content # call[w].content
      <4>1. n + 1 \in 1..Len(memory'[q]) /\ After(n + 1)
        BY <3>2, <3>4, <2>1
      <4>2. Backend = "in_memory" => memory'[q][s].status = "deprecated"
        BY <3>4, <2>1, <2>3
      <4>3. Backend # "in_memory" => memory'[q][s].status = memory[q][s].status
        BY <2>1, <2>3
      <4> HIDE DEF n, l, Changes, After
      <4> QED
        BY <4>1, <4>2, <4>3
    <3>5. CASE ~ (s = l /\ memory[q][s].content # call[w].content)
      <4>1. memory'[q][s].status = memory[q][s].status
        BY <3>5, <2>1, <2>3
      <4>2. ~ After(n + 1)
        BY <3>2, <3>5
      <4>3. \A i \in 1..Len(memory'[q]) : i \in 1..n \/ i = n + 1
        BY <2>1
      <4>4. \A i \in 1..n : i \in 1..Len(memory'[q])
        BY <2>1
      <4> HIDE DEF l, Changes, After
      <4>5. Backend = "in_memory" /\ memory'[q][s].status = "pending" =>
                \A i \in 1..Len(memory'[q]) : ~ After(i)
        BY <3>1, <3>3, <4>1, <4>2, <4>3
      <4>6. memory'[q][s].status = "deprecated" => \E i \in 1..Len(memory'[q]) : After(i)
        BY <3>1, <3>3, <4>1, <4>4
      <4> QED
        BY <4>5, <4>6
    <3> QED
      BY <3>4, <3>5
  <2> QED
    BY <2>1, <2>2, <2>3
<1>6. ASSUME NEW p \in Projects, NEW i \in 1..Len(memory[p]), Approve(p, i), q = p
      PROVE  Kept(q, s)'
  <2>1. /\ Len(memory'[q]) = Len(memory[q])
        /\ \A j \in 1..Len(memory[q]) :
             /\ memory'[q][j].content = memory[q][j].content
             /\ memory'[q][j].supersedes = memory[q][j].supersedes
             /\ \/ memory'[q][j].status = memory[q][j].status
                \/ memory'[q][j].status = "approved"
    <3>1. memory'[q] = [memory[q] EXCEPT ![i].status = "approved"]
      BY <1>6 DEF Approve, Inv, TypeOK
    <3>2. memory[q] \in Seq(Entry) /\ i \in 1..Len(memory[q])
      BY <1>6 DEF Inv, TypeOK
    <3>3. \A j \in 1..Len(memory[q]) : memory[q][j] \in Entry
      BY <3>2
    <3> QED
      BY <3>1, <3>2, <3>3 DEF Entry
  <2>2. s \in 1..Len(memory[q]) /\ Kept(q, s)
    BY <2>1, <1>1
  <2>3. \A j \in 1..Len(memory[q]) : Changes(q, j, s)' <=> Changes(q, j, s)
    BY <2>1, <2>2
  <2>4. memory'[q][s].status = memory[q][s].status \/ memory'[q][s].status = "approved"
    BY <2>1, <2>2
  <2> HIDE DEF Changes
  <2> QED
    BY <2>1, <2>2, <2>3, <2>4
<1>7. CASE \E w \in Writers : Add(w)
  <2>1. PICK w \in Writers : Add(w)
    BY <1>7
  <2>2. q # call[w].project => memory'[q] = memory[q]
    BY <2>1, AddEffect
  <2> QED
    BY <2>1, <2>2, <1>4, <1>5
<1>8. CASE \E p \in Projects : ApproveEntry(p)
  <2>1. PICK p \in Projects : \E i \in 1..Len(memory[p]) : Approve(p, i)
    BY <1>8 DEF ApproveEntry
  <2>2. PICK i \in 1..Len(memory[p]) : Approve(p, i)
    BY <2>1
  <2>3. q # p => memory'[q] = memory[q]
    BY <2>2 DEF Approve, Inv, TypeOK
  <2> QED
    BY <2>2, <2>3, <1>4, <1>6
<1>9. CASE memory' = memory
  BY <1>9, <1>4
<1> QED
  BY <1>7, <1>8, <1>9 DEF Next, ReadLatest, AllDone, vars

\* However many completions overlap, an entry is deprecated only for a successor
\* with other content, and with the in-memory repository always then, until it is
\* approved.
THEOREM DeprecatedForChange == Spec => []DeprecatedByChange
<1>1. Init => DeprecatedByChange
  BY DEF Init, MemoryInit, DeprecatedByChange
<1>2. Inv /\ DeprecatedByChange /\ [Next]_vars => DeprecatedByChange'
  BY DeprecatedStep
<1> QED
  BY InitInv, StepInv, <1>1, <1>2, PTL DEF Spec

=============================================================================
