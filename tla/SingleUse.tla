------------------------------ MODULE SingleUse ------------------------------
(***************************************************************************)
(* What a one-shot token promises: it can be redeemed at most once, and     *)
(* never after it was retired or its row erased.  Redeeming is one atomic   *)
(* step here.  The tables that implement it read the row in one statement   *)
(* and mark it consumed in a later one.                                     *)
(***************************************************************************)
EXTENDS Naturals

CONSTANT Token

VARIABLES
  state,  \* state[t]: "absent", "pending", "spent" or "gone"
  wins    \* how many redemptions of t have succeeded

suVars == <<state, wins>>

Init ==
  /\ state = [t \in Token |-> "absent"]
  /\ wins = [t \in Token |-> 0]

Issue(t) ==
  /\ state[t] = "absent"
  /\ state' = [state EXCEPT ![t] = "pending"]
  /\ UNCHANGED wins

Redeem(t) ==
  /\ state[t] = "pending"
  /\ state' = [state EXCEPT ![t] = "spent"]
  /\ wins' = [wins EXCEPT ![t] = @ + 1]

\* Pending tokens are cancelled together.
Retire(T) ==
  /\ \A t \in T : state[t] = "pending"
  /\ state' = [t \in Token |-> IF t \in T THEN "spent" ELSE state[t]]
  /\ UNCHANGED wins

\* The rows of a deleted owner disappear together.
Erase(T) ==
  /\ \A t \in T : state[t] # "absent"
  /\ state' = [t \in Token |-> IF t \in T THEN "gone" ELSE state[t]]
  /\ UNCHANGED wins

Next ==
  \/ \E t \in Token : Issue(t) \/ Redeem(t)
  \/ \E T \in SUBSET Token : Retire(T) \/ Erase(T)

Spec == Init /\ [][Next]_suVars
=============================================================================
