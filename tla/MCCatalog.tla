----------------------------- MODULE MCCatalog ------------------------------
(* Catalog with two providers of one model each, the first of which may    *)
(* have either of two names, one route, one group and two administrators.  *)
EXTENDS Catalog, TLC

CONSTANTS adm1, adm2

MCProviders  == {"p1", "p2"}
MCModels     == {"m1", "m2"}
MCProviderOf == [m \in Models |-> IF m = "m1" THEN "p1" ELSE "p2"]
MCNamesOf    == [p \in Providers |-> IF p = "p1" THEN {"x", "y"} ELSE {"x"}]
\* A file brings p2 with one model, has another one, in g1, of p1, which may be
\* there or not, and a route over both.
MCFiles == {[providers |-> "p2" :> "off",
             models    |-> {[of |-> "p1", name |-> "x", group |-> "g1"],
                            [of |-> "p2", name |-> "x", group |-> NoGroup]},
             groups    |-> {"g1"},
             routes    |-> "r1" :>
               [enabled |-> TRUE, targets |-> <<[of |-> "p1", name |-> "x", on |-> FALSE],
                                                [of |-> "p2", name |-> "x", on |-> TRUE]>>]]}
On(m)  == [model |-> m, on |-> TRUE]
Off(m) == [model |-> m, on |-> FALSE]
MCAsked == {<<On("m1")>>, <<On("m2")>>, <<Off("m1"), On("m2")>>, <<On("m2"), On("m1")>>}
MCAssigned == {<<"p1", "x">>, <<"p1", "y">>}
MCRecorded == {<<"p1", "x">>}
MCSymmetry   == Permutations(Admins)
=============================================================================
