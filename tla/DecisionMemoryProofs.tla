------------------------- MODULE DecisionMemoryProofs -------------------------
(***************************************************************************)
(* Facts about the operations of the decision memory, for every module     *)
(* that uses them.                                                         *)
(***************************************************************************)
EXTENDS DecisionMemory, SequenceTheorems, TLAPS

MemoryType == memory \in [Projects -> Seq(Entry)]

\* The fields of an entry have their types.
LEMMA EntryTypes ==
    ASSUME MemoryType, NEW p \in Projects, NEW i \in 1..Len(memory[p])
    PROVE  /\ Len(memory[p]) \in Nat
           /\ memory[p][i].version \in Nat \ {0}
           /\ memory[p][i].supersedes \in Nat
<1>1. memory[p] \in Seq(Entry)
  BY DEF MemoryType
<1>2. memory[p][i] \in Entry
  BY <1>1
<1> QED
  BY <1>1, <1>2 DEF Entry

\* Marking an entry deprecated changes neither the number of entries nor what
\* any of them says, derives from or counts as.
LEMMA DeprecatedKeeps ==
    ASSUME MemoryType, NEW p \in Projects, NEW latest \in 0..Len(memory[p]), NEW c \in Contents
    PROVE  LET new == Deprecated(p, latest, c) IN
           /\ new \in Seq(Entry)
           /\ Len(new) = Len(memory[p])
           /\ \A i \in 1..Len(memory[p]) :
                /\ new[i].version = memory[p][i].version
                /\ new[i].content = memory[p][i].content
                /\ new[i].supersedes = memory[p][i].supersedes
<1>1. memory[p] \in Seq(Entry)
  BY DEF MemoryType
<1> DEFINE old == memory[p]
           marks == latest # 0 /\ Backend = "in_memory" /\ old[latest].content # c
<1>2. CASE ~ marks
  BY <1>1, <1>2 DEF Deprecated
<1>3. CASE marks
  <2> DEFINE e == [old[latest] EXCEPT !.status = "deprecated"]
             new == [old EXCEPT ![latest] = e]
  <2>1. latest \in 1..Len(old)
    BY <1>1, <1>3
  <2>2. old[latest] \in Entry
    BY <1>1, <2>1
  <2>3. e \in Entry /\ e.version = old[latest].version
        /\ e.content = old[latest].content /\ e.supersedes = old[latest].supersedes
    BY <2>2 DEF Entry, EntryStatus
  <2>4. Deprecated(p, latest, c) = new
    BY <1>3 DEF Deprecated
  <2>5. new \in Seq(Entry) /\ Len(new) = Len(old)
    <3> HIDE DEF e
    <3> QED BY <1>1, <2>1, <2>3, ExceptSeq
  <2>6. \A i \in 1..Len(old) : new[i] = IF i = latest THEN e ELSE old[i]
    <3> HIDE DEF e
    <3> QED BY <1>1, <2>1
  <2> QED
    BY <2>1, <2>3, <2>4, <2>5, <2>6
<1> QED
  BY <1>2, <1>3

\* add() appends one entry of the version after the one that was read, and the
\* older entries keep what they say, derive from and count as.
LEMMA AddDecisionAppends ==
    ASSUME MemoryType, NEW p \in Projects, NEW latest \in 0..Len(memory[p]), NEW c \in Contents,
           AddDecision(p, latest, c)
    PROVE  /\ MemoryType'
           /\ Len(memory'[p]) = Len(memory[p]) + 1
           /\ \A q \in Projects \ {p} : memory'[q] = memory[q]
           /\ memory'[p][Len(memory[p]) + 1].version = NextVersion(p, latest)
           /\ memory'[p][Len(memory[p]) + 1].supersedes = latest
           /\ memory'[p][Len(memory[p]) + 1].content = c
           /\ \A i \in 1..Len(memory[p]) :
                /\ memory'[p][i].version = memory[p][i].version
                /\ memory'[p][i].content = memory[p][i].content
                /\ memory'[p][i].supersedes = memory[p][i].supersedes
<1> DEFINE new == Deprecated(p, latest, c)
           e == [version |-> NextVersion(p, latest), content |-> c,
                 status |-> "pending", supersedes |-> latest]
           n == Len(memory[p])
<1>1. memory[p] \in Seq(Entry) /\ n \in Nat
  BY DEF MemoryType
<1>2. /\ new \in Seq(Entry)
      /\ Len(new) = n
      /\ \A i \in 1..n :
           /\ new[i].version = memory[p][i].version
           /\ new[i].content = memory[p][i].content
           /\ new[i].supersedes = memory[p][i].supersedes
  BY DeprecatedKeeps
<1>3. NextVersion(p, latest) \in Nat \ {0}
  <2>1. CASE latest = 0
    BY <2>1 DEF NextVersion
  <2>2. CASE latest # 0
    <3>1. memory[p][latest] \in Entry
      BY <1>1, <2>2
    <3> QED
      BY <2>2, <3>1 DEF NextVersion, Entry
  <2> QED
    BY <2>1, <2>2
<1>4. e \in Entry /\ e.version = NextVersion(p, latest) /\ e.supersedes = latest /\ e.content = c
  BY <1>1, <1>3 DEF Entry, EntryStatus
<1>5. memory' = [memory EXCEPT ![p] = Append(new, e)]
  BY DEF AddDecision
<1>6. /\ Append(new, e) \in Seq(Entry)
      /\ Len(Append(new, e)) = n + 1
      /\ Append(new, e)[n + 1] = e
      /\ \A i \in 1..n : Append(new, e)[i] = new[i]
  <2> HIDE DEF new, e
  <2> QED BY <1>1, <1>2, <1>4, AppendProperties
<1>7. /\ memory' \in [Projects -> Seq(Entry)]
      /\ memory'[p] = Append(new, e)
      /\ \A q \in Projects \ {p} : memory'[q] = memory[q]
  <2> HIDE DEF new, e
  <2> QED BY <1>5, <1>6 DEF MemoryType
<1> HIDE DEF new, e
<1> QED
  BY <1>2, <1>4, <1>6, <1>7 DEF MemoryType

\* latest_by_type answers with None or with the position of an entry.
LEMMA LatestInRange ==
    ASSUME MemoryType, NEW p \in Projects
    PROVE  Latest(p) \subseteq 0..Len(memory[p])
<1>1. memory[p] \in Seq(Entry) /\ Len(memory[p]) \in Nat
  BY DEF MemoryType
<1> QED
  BY <1>1 DEF Latest

\* approve() changes the status of one entry and nothing else.
LEMMA ApproveKeeps ==
    ASSUME MemoryType, NEW p \in Projects, NEW i \in 1..Len(memory[p]), Approve(p, i)
    PROVE  /\ MemoryType'
           /\ \A q \in Projects :
                /\ Len(memory'[q]) = Len(memory[q])
                /\ \A j \in 1..Len(memory[q]) :
                     /\ memory'[q][j].version = memory[q][j].version
                     /\ memory'[q][j].content = memory[q][j].content
                     /\ memory'[q][j].supersedes = memory[q][j].supersedes
<1> DEFINE old == memory[p]
           e == [old[i] EXCEPT !.status = "approved"]
           new == [old EXCEPT ![i] = e]
<1>1. old \in Seq(Entry) /\ old[i] \in Entry
  BY DEF MemoryType
<1>2. e \in Entry /\ e.version = old[i].version
      /\ e.content = old[i].content /\ e.supersedes = old[i].supersedes
  BY <1>1 DEF Entry, EntryStatus
<1>3. memory' = [memory EXCEPT ![p] = new]
  BY DEF Approve
<1>4. /\ new \in Seq(Entry) /\ Len(new) = Len(old)
      /\ \A j \in 1..Len(old) : new[j] = IF j = i THEN e ELSE old[j]
  <2> HIDE DEF e
  <2> QED BY <1>1, <1>2, ExceptSeq
<1>5. /\ memory' \in [Projects -> Seq(Entry)]
      /\ memory'[p] = new
      /\ \A q \in Projects \ {p} : memory'[q] = memory[q]
  <2> HIDE DEF new
  <2> QED BY <1>3, <1>4 DEF MemoryType
<1> HIDE DEF new, e
<1> QED
  BY <1>2, <1>4, <1>5 DEF MemoryType

=============================================================================
