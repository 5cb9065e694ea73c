----------------------------- MODULE MCBalance ------------------------------
(* Balance with two micros to the cent.  r1 and r2 belong to u1, who       *)
(* starts without a limit and is given one; r3 to u2, who has what it      *)
(* costs.  Costs of 3, 1 and 2 micros give a debt with a fraction of a     *)
(* cent, one below a cent, and a whole one.  A top-up of two cents settles *)
(* the whole cents of the debt of r1 and leaves one on the balance: that   *)
(* pays for a second collection of r1 by whoever still has it in hand.     *)
EXTENDS Balance

MCRequests  == {"r1", "r2", "r3"}
MCUsers     == {"u1", "u2"}
MCUserOf    == [r \in Requests |-> IF r = "r3" THEN "u2" ELSE "u1"]
MCCost      == [r \in Requests |->
                 CASE r = "r1" -> 3 [] r = "r2" -> 1 [] OTHER -> 2]
MCInitial   == [u \in Users |-> IF u = "u2" THEN 1 ELSE 0]
MCUnlimited == {"u1"}
MCDeltas    == {-1, 1, 2}
=============================================================================
