----------------------------- MODULE MCTenants ------------------------------
(* Model-checking instance of Tenants. *)
EXTENDS Tenants, TLC

Symm == Permutations(Call)
=============================================================================
