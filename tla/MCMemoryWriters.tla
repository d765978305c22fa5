--------------------------- MODULE MCMemoryWriters ---------------------------
(* MemoryWriters with a symmetric set of writers. *)
EXTENDS MemoryWriters, TLC

Symmetry == Permutations(Writers)

=============================================================================
