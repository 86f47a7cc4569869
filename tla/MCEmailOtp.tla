----------------------------- MODULE MCEmailOtp -----------------------------
(* Model-checking instance of EmailOtp. *)
EXTENDS EmailOtp, TLC

Symm == Permutations(Req)
=============================================================================
