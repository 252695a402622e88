-------------------------- MODULE MCSharedOutcomes --------------------------
(***************************************************************************)
(* A small instance of SharedOutcomes.  The recorders are interchangeable,  *)
(* in the journal it implements too.                                       *)
(***************************************************************************)
EXTENDS SharedOutcomes, TLC

CONSTANTS r1, r2, r3, p1

Three == {r1, r2, r3}
OnePlanner == {p1}

Interchangeable == Permutations(Recorders)
=============================================================================
