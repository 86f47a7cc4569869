--------------------------- MODULE MCPolicyCascade ---------------------------
(* Small instances of PolicyCascade: two workspaces, the first with two apps. *)
EXTENDS PolicyCascade

CONSTANTS w1, w2, a1, a2

MCHome == [a \in {a1, a2} |-> w1]

\* What RangePolicy::new accepts.
Ranges == {s \in {RangePolicy(i, j) : i \in 0..2, j \in 0..2} : s.min <= s.max}

Allowlists == {EnumSetPolicy(S) : S \in SUBSET {"github", "google"}}

MCOrdered == {Ranges, Allowlists, {Free(1), Free(2)}}
=============================================================================
