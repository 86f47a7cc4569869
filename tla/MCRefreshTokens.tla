--------------------------- MODULE MCRefreshTokens ---------------------------
(* Model-checking instance of RefreshTokens. *)
EXTENDS RefreshTokens, TLC

CONSTANTS u1, a1, m1

MCKindOf == (u1 :> "user") @@ (a1 :> "workspace_admin") @@ (m1 :> "master_admin")

Symm == Permutations(Req) \cup Permutations(Token)
=============================================================================
