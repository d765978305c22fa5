------------------------------- MODULE MCPortal -------------------------------
(* Portal with a stored operator, a seed administrator and two executions, one *)
(* of the catalog.                                                           *)
EXTENDS Portal

CONSTANTS e1, e2, u1, u2

Roles == [u \in {u1, u2} |-> IF u = u1 THEN "operator" ELSE "admin"]

Started == [e \in {e1, e2} |-> IF e = e1 THEN "default" ELSE "kaiso_kds_pos_sync"]

=============================================================================
