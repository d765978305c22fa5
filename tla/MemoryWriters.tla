---------------------------- MODULE MemoryWriters ----------------------------
(***************************************************************************)
(* Executions of one project completing concurrently.  The lock of the     *)
(* worker is per execution, so nothing serialises the two database calls   *)
(* (latest_by_type, then add) that different executions of a project make. *)
(***************************************************************************)
EXTENDS DecisionMemory

CONSTANT Writers     \* calls of FinalizeExecutionUseCase.complete

NotYet == [project |-> "none", content |-> "none"]

VARIABLES
    pc,        \* "read", then "add", then "done"
    call,      \* arguments of each call, NotYet before it begins
    latest,    \* the entry latest_by_type returned to each call
    readAt,    \* history: how many entries the project had at that moment
    wrote      \* history: the position of the entry each call added, or 0

vars == <<memory, pc, call, latest, readAt, wrote>>

Calls == [project: Projects, content: Contents]

TypeOK ==
    /\ memory \in [Projects -> Seq(Entry)]
    /\ pc \in [Writers -> {"read", "add", "done"}]
    /\ call \in [Writers -> Calls \cup {NotYet}]
    /\ latest \in [Writers -> Nat]
    /\ readAt \in [Writers -> Nat]
    /\ wrote \in [Writers -> Nat]

Init ==
    /\ MemoryInit
    /\ pc = [w \in Writers |-> "read"]
    /\ call = [w \in Writers |-> NotYet]
    /\ latest = [w \in Writers |-> 0]
    /\ readAt = [w \in Writers |-> 0]
    /\ wrote = [w \in Writers |-> 0]

\* complete() reads the newest decision of its project.
ReadLatest(w) ==
    /\ pc[w] = "read"
    /\ \E c \in Calls : \E i \in Latest(c.project) :
          /\ call' = [call EXCEPT ![w] = c]
          /\ latest' = [latest EXCEPT ![w] = i]
          /\ readAt' = [readAt EXCEPT ![w] = Len(memory[c.project])]
    /\ pc' = [pc EXCEPT ![w] = "add"]
    /\ UNCHANGED <<memory, wrote>>

\* ... and, in another transaction, inserts the entry that follows it.
Add(w) ==
    /\ pc[w] = "add"
    /\ AddDecision(call[w].project, latest[w], call[w].content)
    /\ wrote' = [wrote EXCEPT ![w] = Len(memory[call[w].project]) + 1]
    /\ pc' = [pc EXCEPT ![w] = "done"]
    /\ UNCHANGED <<call, latest, readAt>>

\* The repository operation no code of the backend calls yet.
ApproveEntry(p) ==
    /\ \E i \in 1..Len(memory[p]) : memory[p][i].status # "approved" /\ Approve(p, i)
    /\ UNCHANGED <<pc, call, latest, readAt, wrote>>

AllDone ==
    /\ \A w \in Writers : pc[w] = "done"
    /\ UNCHANGED vars

Next ==
    \/ \E w \in Writers : ReadLatest(w) \/ Add(w)
    \/ \E p \in Projects : ApproveEntry(p)
    \/ AllDone

Spec == Init /\ [][Next]_vars

-----------------------------------------------------------------------------

\* Every entry names the entry it was derived from, which is older and of the
\* version just below: the history of a decision can be walked back to version 1
\* whatever the interleaving of the writers (complete(), lines 119-139).
SupersedesChain ==
    \A p \in Projects : \A i \in 1..Len(memory[p]) :
        LET e == memory[p][i] IN
        IF e.supersedes = 0
        THEN e.version = 1
        ELSE /\ e.supersedes < i
             /\ e.version = memory[p][e.supersedes].version + 1

\* Two entries of a project have one version only if the second writer read
\* the newest entry before the first writer inserted its own: a version is
\* never duplicated by calls that follow one another.
DuplicateVersionOnlyByRace ==
    \A v, w \in Writers :
        /\ wrote[v] # 0
        /\ wrote[v] < wrote[w]
        /\ call[v].project = call[w].project
        /\ memory[call[v].project][wrote[v]].version = memory[call[v].project][wrote[w]].version
        => readAt[w] < wrote[v]

\* With the in-memory repository a superseded entry whose successor says
\* something else is never left pending: it was deprecated, and only an
\* approval can have taken it out of that state since (README rule 4).  With
\* either repository an entry is deprecated only in favour of a successor that
\* says something else: the current decision of a project is never deprecated,
\* however stale the entry was that a writer had read (complete(), line 124).
DeprecatedByChange ==
    \A p \in Projects :
        LET Changes(i, s) ==
                memory[p][i].supersedes = s /\ memory[p][i].content # memory[p][s].content
        IN  \A s \in 1..Len(memory[p]) :
                /\ Backend = "in_memory" /\ memory[p][s].status = "pending" =>
                       \A i \in 1..Len(memory[p]) : ~ Changes(i, s)
                /\ memory[p][s].status = "deprecated" =>
                       \E i \in 1..Len(memory[p]) : Changes(i, s)

\* README, rule 4: "se conteúdo muda, versão anterior vira `deprecated`".
\* Once an entry with other content supersedes it, nobody having approved it
\* since, the earlier version is deprecated.
ChangedIsDeprecated ==
    \A p \in Projects : \A i \in 1..Len(memory[p]) :
        LET s == memory[p][i].supersedes IN
        s # 0 /\ memory[p][s].content # memory[p][i].content
            => memory[p][s].status # "pending"

=============================================================================
