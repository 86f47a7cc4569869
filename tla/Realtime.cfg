SPECIFICATION RtSpec
CONSTANTS
  Conns = {c1, c2}
  Writers = {w1, w2}
  Ttl = 1
  Leeway = 1
  Capacity = 1
  ClientTexts <- MCClientTexts
  ClientFilter <- client_filter
  RuleFilter <- rule_filter
  Matches <- matches
  Budgets <- MCBudgets
SYMMETRY Symmetry
INVARIANTS NoSilentLoss EventsWithinRule FilterPathsAgree PrecedenceHolds
CHECK_DEADLOCK FALSE
