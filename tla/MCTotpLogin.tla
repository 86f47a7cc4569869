----------------------------- MODULE MCTotpLogin -----------------------------
(* Model-checking instance of TotpLogin. *)
EXTENDS TotpLogin, TLC

Symm == Permutations(Req) \cup Permutations(Chal) \cup Permutations(Secret)
=============================================================================
