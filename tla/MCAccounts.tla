----------------------------- MODULE MCAccounts -----------------------------
(***************************************************************************)
(* Accounts with two workers, three addresses and a cache of two.          *)
(***************************************************************************)
EXTENDS Accounts, TLC

Symmetry ==
  Permutations(Workers) \cup Permutations(Names) \cup Permutations(Passwords)
    \cup Permutations(Keys)
=============================================================================
