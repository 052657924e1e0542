----------------------------- MODULE MCAccounts -----------------------------
(* A small instance of Accounts: two browsers and two threads, alike.      *)
EXTENDS Accounts, TLC

CONSTANTS b1, b2, t1, t2

Alike == Permutations({b1, b2}) \cup Permutations({t1, t2})
=============================================================================
