SPECIFICATION Spec
CONSTANTS
  Orders = {"o1", "o2"}
  Games = {"g1"}
  Bankroll = 3
  Odds = 2
  Forcing = FALSE
  KeyOf <- MCKeyOf
  Terms <- MCTerms
CHECK_DEADLOCK FALSE
INVARIANTS
  ReplayIsAnswered
