-------------------------------- MODULE MCGate --------------------------------
(* Gate with one active key and one user, who may only read. *)
EXTENDS Gate, TLC

OneTenant == [k \in Keys |-> CHOOSE t \in Tenants : TRUE]

Viewers == [u \in Users |-> "viewer"]

Symmetry ==
    Permutations(Requests \ Earlier) \cup Permutations(Earlier) \cup Permutations(Processes)

\* The earlier logins met one limiter, which is then at its limit.
InitAtTheLimit ==
    /\ Init
    /\ \A q, r \in Earlier : SameLimiter(q, r)

SpecAtTheLimit == InitAtTheLimit /\ [][Next]_vars

===============================================================================
