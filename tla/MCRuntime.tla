----------------------------- MODULE MCRuntime ------------------------------
(* Runtime with two credentials, two administrators, one of whom edits     *)
(* them, and two requests; the keys stand for the tables of the snapshot.  *)
EXTENDS Runtime

MCTables == <<"credentials", "keys">>
=============================================================================
