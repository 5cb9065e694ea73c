----------------------------- MODULE MCBreaker ------------------------------
(* Breaker with four requests: a failure that opens the circuit, a probe,  *)
(* a second probe that follows a reload or a new cycle, and a straggler    *)
(* from before all of them.                                                *)
EXTENDS Breaker

MCRequests == {"r1", "r2", "r3", "r4"}
=============================================================================
