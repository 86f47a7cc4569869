--------------------------- MODULE MCPasswordReset ---------------------------
(* Model-checking instance of PasswordReset. *)
EXTENDS PasswordReset, TLC

Symm == Permutations(Req) \cup Permutations(Token) \cup Permutations(User)
=============================================================================
