----------------------------- MODULE MCRealtime -----------------------------
(* Two connections and two record requests.  Each behaviour explores one    *)
(* side at length: the tokens connections are opened with, or the broker    *)
(* under writes and a change of the rule.                                   *)
EXTENDS Realtime, SubscriptionFilters

MCClientTexts == DOMAIN ClientText

Budget(old, r, n, w, t, ch) ==
  [old |-> old, rule |-> r, now |-> n, writes |-> w, tokens |-> t, rules |-> ch]

MCBudgets ==
  {Budget({LegacyToken}, "deny", 3, 0, 2, 0), Budget({StrangeToken}, "allow", 0, 0, 2, 0),
   Budget({}, "deny", 0, 1, 1, 1), Budget({}, "email", 0, 1, 1, 0), Budget({}, "owner", 0, 2, 1, 0)}

Symmetry == Permutations(Conns) \cup Permutations(Writers)

\* Realtime evaluates a filter in memory, listings in SQL.  Where every field of the record and
\* every literal has a value of its column's type, both let the same records through, all
\* connectives included, if the filter does not use `~`, reads only declared columns other than
\* JSON and only fields that have a value, and asks for equality of numbers only where record and
\* literal are both integers that a double holds, or both floats.  The last excludes a created
\* record's 1.0 and an updated record's 1 from `n = 1`.
FilterPathsAgree == RtInit /\ tokens = {} => Agreement

\* `&&` binds tighter than `||`, `!` tighter than both, and a chain of any of them means the
\* disjunction of the conjunctions between its `||`.
PrecedenceHolds == RtInit /\ tokens = {} => Precedence
=============================================================================
