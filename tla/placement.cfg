SPECIFICATION Spec
CONSTANTS
  Orders = {"o1", "o2", "o3"}
  Games = {"g1", "g2"}
  Bankroll = 3
  Odds = 2
  Forcing = FALSE
  KeyOf <- MCKeyOf
  Terms <- MCTerms
CHECK_DEADLOCK FALSE
INVARIANTS
  TypeOK
  OnlyRacesOverdraw
  LateOrdersLeaveNoBet
PROPERTIES
  ImplementsDesk
