------------------------------ MODULE MCHooks ------------------------------
EXTENDS Hooks, TLC

CONSTANTS e1, e2, a1, a2

\* Entries against the shared deadline; loads against each other and against entries; mail
\* over midnight, with and without a quota.
World(q, loads, enters, calls, mails, ticks, days) ==
  [quota |-> q, left |-> [loads |-> loads, enters |-> enters, calls |-> calls,
                          mails |-> mails, ticks |-> ticks, days |-> days]]
MCWorlds == {World(NoQuota, 1, 3, 1, 0, 2, 0), World(NoQuota, 3, 1, 0, 0, 0, 0), World(NoQuota, 2, 2, 0, 0, 0, 0),
             World(1, 1, 2, 0, 3, 0, 1), World(NoQuota, 2, 1, 0, 2, 0, 1)}

Symmetric == Permutations({e1, e2}) \cup Permutations({a1, a2})
=============================================================================
