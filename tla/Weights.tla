------------------------------ MODULE Weights -------------------------------
(***************************************************************************)
(* The sum of a natural-valued function over a finite set, counted as the  *)
(* number of its units instead of folded, so that the facts about it       *)
(* follow from the theorems about cardinality.                             *)
(***************************************************************************)
EXTENDS Naturals, FiniteSets

(* The units an element x weighs are the pairs <<x, 1>> .. <<x, w[x]>>.    *)
UnitsOf(w, x) == {x} \X (1 .. w[x])

Units(w, S) == UNION {UnitsOf(w, x) : x \in S}

Total(w, S) == Cardinality(Units(w, S))
=============================================================================
