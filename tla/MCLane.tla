------------------------------- MODULE MCLane -------------------------------
(* Two targets.  r1 streams, r2 does not; both start with target a.  r3    *)
(* has a route without failover that leads to b.  Only the context of r1   *)
(* may end early.                                                          *)
EXTENDS Lane

MCRequests == {"r1", "r2", "r3"}
MCTargets  == {"a", "b"}
MCChain    == [r \in Requests |-> IF r = "r3" THEN <<"b", "a">> ELSE <<"a", "b">>]
MCFailover == {"r1", "r2"}
MCHurried  == {"r1"}
MCStream   == {"r1"}
=============================================================================
