------------------------------ MODULE MCQuota -------------------------------
(* Quota on three requests of two keys of one user.  The first two share a *)
(* key; the estimates are 2, 0 (reserved as 1) and 2, so that the user's   *)
(* quota of 4 admits some pairs and not all three, and the key's quota of 3 *)
(* exactly its two requests.  The first two may consume all they reserve,  *)
(* the third reports no tokens.                                            *)
EXTENDS Quota

MCRequests  == {"r1", "r2", "r3"}
MCKeys      == {"k1", "k2"}
MCUsers     == {"u1"}
MCKeyOf     == [r \in Requests |-> IF r = "r3" THEN "k2" ELSE "k1"]
MCUserOf    == [r \in Requests |-> "u1"]
MCEst       == [r \in Requests |-> IF r = "r2" THEN 0 ELSE 2]
MCMaxActual == [r \in Requests |-> CASE r = "r1" -> 2 [] r = "r2" -> 1 [] OTHER -> 0]
MCQuotas    == [t \in {"k1", "k2", "u1"} |->
                  CASE t = "k1" -> 3 [] t = "k2" -> 0 [] t = "u1" -> 4]
=============================================================================
