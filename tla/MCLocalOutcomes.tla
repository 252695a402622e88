--------------------------- MODULE MCLocalOutcomes ---------------------------
(***************************************************************************)
(* Small instances of LocalOutcomes: recorders whose events have different *)
(* lengths, so that one document may leave a tail of another behind it.    *)
(***************************************************************************)
EXTENDS LocalOutcomes, TLC

CONSTANTS r1, r2, r3, p1

Three == {r1, r2, r3}
OnePlanner == {p1}

\* A note makes r1's event the longest; r2's and r3's differ by one byte.
Lengths == [r \in Recorders |-> CASE r = r1 -> 180 [] r = r2 -> 121 [] OTHER -> 120]
=============================================================================
