----------------------------- MODULE MCAccounts -----------------------------
(* Model-checking instance of Accounts. *)
EXTENDS Accounts, TLC

Symm == Permutations(Req) \cup Permutations(Email) \cup Permutations(Nonce) \cup Permutations(User)
=============================================================================
