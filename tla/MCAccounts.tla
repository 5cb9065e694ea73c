----------------------------- MODULE MCAccounts -----------------------------
(* The administrator of the first start and one more account, two requests   *)
(* in flight, two passwords.                                                 *)
EXTENDS Accounts, TLC

CONSTANTS root, ann, r1, r2, r3, pw1, pw2

Alike == Permutations(Passwords) \cup Permutations(Requests)

AllOperations == {"login", "setup", "complete", "logout", "change", "reset", "delete",
                  "create", "edit", "link"}
=============================================================================
