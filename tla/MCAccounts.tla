----------------------------- MODULE MCAccounts -----------------------------
(***************************************************************************)
(* The instance of Accounts that TLC checks.                               *)
(***************************************************************************)
EXTENDS Accounts, TLC

Symmetry ==
    Permutations(Ids) \cup Permutations(Names) \cup Permutations(Passwords)
    \cup Permutations(Links) \cup Permutations(Callers)
=============================================================================
