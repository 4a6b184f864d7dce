----------------------------- MODULE MCAccounts -----------------------------
(***************************************************************************)
(* TLC instance of Accounts: two browsers and one shell.                   *)
(***************************************************************************)
EXTENDS Accounts, TLC

CONSTANTS b1, b2, sh

Browsers == {b1, b2}
Shells   == {sh}
Alike    == Permutations(Browsers)

=============================================================================
