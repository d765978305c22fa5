--------------------------- MODULE DecisionMemory ---------------------------
(***************************************************************************)
(* The decision memory of a project: the entries of type "decision" that   *)
(* FinalizeExecutionUseCase.complete writes, and the repository operations *)
(* it uses (latest_by_type, add) with the one it does not (approve).       *)
(*                                                                         *)
(* memory[p] lists the entries of project p in the order of their INSERTs; *)
(* an entry is identified by its position and 0 stands for None.           *)
(***************************************************************************)
EXTENDS Naturals, Sequences

CONSTANTS
    Projects,    \* project ids
    Contents,    \* what a summary can say (summary[:500])
    Backend      \* which MemoryRepository is wired: "postgres" or "in_memory"

ASSUME BackendAssumption == Backend \in {"postgres", "in_memory"}

VARIABLE memory

EntryStatus == {"pending", "approved", "deprecated"}

Entry == [version: Nat \ {0}, content: Contents, status: EntryStatus, supersedes: Nat]

MemoryInit == memory = [p \in Projects |-> <<>>]

\* Slip: the oldest entry instead of the newest.
LatestAscending(p) ==
    IF memory[p] = <<>>
    THEN {0}
    ELSE {i \in 1..Len(memory[p]) :
            \A j \in 1..Len(memory[p]) : memory[p][i].version <= memory[p][j].version}

(***************************************************************************)
(* What latest_by_type(p, "decision") may return: an entry of the highest  *)
(* version.  ORDER BY version DESC LIMIT 1 leaves ties to the database.    *)
(***************************************************************************)
Latest(p) ==
    IF memory[p] = <<>>
    THEN {0}
    ELSE {i \in 1..Len(memory[p]) :
            \A j \in 1..Len(memory[p]) : memory[p][j].version <= memory[p][i].version}

\* Slip: the count of entries is taken for the version.
NextVersionByCount(p, latest) == Len(memory[p]) + 1

NextVersion(p, latest) == IF latest = 0 THEN 1 ELSE memory[p][latest].version + 1

\* Slip: the comparison is the wrong way round.
DeprecatedWhenEqual(p, latest, content) ==
    IF /\ latest # 0
       /\ Backend = "in_memory"
       /\ memory[p][latest].content = content
    THEN [memory[p] EXCEPT ![latest].status = "deprecated"]
    ELSE memory[p]

\* Slip: a status the schema does not know.
DeprecatedAsObsolete(p, latest, content) ==
    IF /\ latest # 0
       /\ Backend = "in_memory"
       /\ memory[p][latest].content # content
    THEN [memory[p] EXCEPT ![latest].status = "obsolete"]
    ELSE memory[p]

(***************************************************************************)
(* latest.status = "deprecated" when the content changes.  The in-memory   *)
(* repository hands out its own objects, so the assignment is the update;  *)
(* Postgres hands out copies and the port has no operation to write one    *)
(* back, so the assignment is lost.                                        *)
(***************************************************************************)
Deprecated(p, latest, content) ==
    IF /\ latest # 0
       /\ Backend = "in_memory"
       /\ memory[p][latest].content # content
    THEN [memory[p] EXCEPT ![latest].status = "deprecated"]
    ELSE memory[p]

(***************************************************************************)
(* The last part of complete(): mark the entry that was read, insert the   *)
(* new one.  latest was read by an earlier call and may be stale.          *)
(***************************************************************************)
AddDecision(p, latest, content) ==
    memory' = [memory EXCEPT ![p] =
                 Append(Deprecated(p, latest, content),
                        [version    |-> NextVersion(p, latest),
                         content    |-> content,
                         status     |-> "pending",
                         supersedes |-> latest])]

Approve(p, i) == memory' = [memory EXCEPT ![p][i].status = "approved"]

=============================================================================
