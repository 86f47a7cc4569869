----------------------------- MODULE MCGateway ------------------------------
(* Model-checking instance of Gateway, and of Boot under it. *)
EXTENDS Gateway, TLC

World(mints, ops, ticks, crash, faulty, setups) ==
  [mints |-> mints, ops |-> ops, ticks |-> ticks, crash |-> crash, bad |-> faulty, setups |-> setups]

\* The boot on its own; two tenants with all roles; a tenant that comes back, over time and
\* over a restart.
MCWorlds == {World(0, 0, 0, 2, 1, 4), World(3, 5, 0, 0, 0, 1), World(3, 4, 1, 0, 0, 1), World(2, 2, 1, 1, 0, 1)}
=============================================================================
