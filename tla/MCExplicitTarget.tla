--------------------------- MODULE MCExplicitTarget ---------------------------
(* Model of ExplicitTarget for TLC: two TCP connections, two values for   *)
(* Set requests, two triads, and a connection-id counter scaled to three  *)
(* bits that starts, like the code's, at the top half of its range.       *)
EXTENDS ExplicitTarget

CONSTANTS k1, k2, v1, v2, t1, t2

MCConns == {k1, k2}
MCVals == {v1, v2}
MCTriads == {t1, t2}

(* Set values and triads are interchangeable.  Connection slots are not  *)
(* made symmetric: SetsComplete is a liveness property about each slot,   *)
(* and symmetry would let a lasso swap the slots' roles.                  *)
MCSymmetry == Permutations(MCVals)
              \cup Permutations(MCTriads)

=============================================================================
