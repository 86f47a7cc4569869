----------------------------- MODULE MCRecords -----------------------------
EXTENDS Records, TLC

CONSTANTS a, b

MCUnique == {"tag"}
MCInternal == {"_collections", "_access_rules", "_files"}
MCField == {"owner", "tag"}

\* DDL against DDL and crashes; rules against DDL; records under rules and hooks; files.
World(ddl, rules, records, hook, files, crash) ==
  [ddl |-> ddl, rules |-> rules, records |-> records, hook |-> hook, files |-> files, crash |-> crash]
MCWorlds == {World(3, 0, 0, 0, 0, 1), World(3, 1, 0, 0, 0, 0), World(1, 3, 0, 0, 0, 0), World(2, 0, 1, 1, 0, 0),
             World(1, 1, 3, 0, 0, 0), World(1, 1, 1, 1, 0, 0), World(0, 0, 0, 0, 4, 1)}
Symmetric == Permutations({a, b})
=============================================================================
