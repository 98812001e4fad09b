------------------------ MODULE MCSubtreeInternPool ------------------------
(* Instance of SubtreeInternPool: n0 is the zero node (a stored nil), n1    *)
(* collides with it, n2 does not.                                           *)
EXTENDS SubtreeInternPool

CONSTANTS n0, n1, n2

MCHash == [n \in {n0, n1, n2} |-> IF n = n2 THEN 1 ELSE 0]
=============================================================================
