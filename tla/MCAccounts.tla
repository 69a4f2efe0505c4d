----------------------------- MODULE MCAccounts -----------------------------
(* An instance of Accounts for TLC. *)
EXTENDS Accounts, TLC

CONSTANTS p1, p2

\* The provider sends the address of one person only.
MCMails == p1 :> {"verified"} @@ p2 :> {"none"}

Symmetric == Permutations(Browser)
=============================================================================
