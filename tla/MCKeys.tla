-------------------------------- MODULE MCKeys --------------------------------
(* One key, two people, one group that exists from the start or not, two models.        *)
EXTENDS Keys, TLC

CONSTANTS key1, ann, bob, grp, m1, m2, root, nobody, e1, e2, c1

\* Exported elsewhere: the group has some list, and the key is in it.
Export(u, m) == [groups |-> grp :> {m},
                 people |-> u :> [active |-> TRUE, group |-> grp],
                 keys   |-> key1 :> [owner |-> u, enabled |-> TRUE, models |-> {}, group |-> grp]]
MCFiles == {Export(u, m) : u \in People, m \in Models}

MCLists == {{}, {m1}, {m2}}

Alike == Permutations({e1, e2}) \cup Permutations({ann, bob}) \cup Permutations({m1, m2})
=============================================================================
