------------------------------ MODULE MCRuntime ------------------------------
(***************************************************************************)
(* A small instance of Runtime: one outcome of an earlier session and two  *)
(* new ones for a window of two, a run of the harness and a ping, on two   *)
(* tokens.                                                                  *)
(***************************************************************************)
EXTENDS Runtime

CONSTANTS r0, r1, r2, p1, ping

Earlier == <<r0>>
Two == {r1, r2}
OnePlanner == {p1}
OnePing == {ping}
=============================================================================
