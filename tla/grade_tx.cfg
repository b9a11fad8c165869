SPECIFICATION FairSpec
CONSTANTS
  Bets = {"b1", "b2"}
  Graders = {"g1", "g2", "g3", "g4"}
  CallOf <- MCCallOf
  Together <- MCTogether
  DayLength = 2
  WeekDays = 2
  Nobody = "nobody"
CHECK_DEADLOCK FALSE
INVARIANTS
  GradeFitsStatus
  SnapshotsCountOnce
  ChartsEndAtBankroll
  PageCountsOnce
PROPERTIES
  ImplementsTally
  GradingEnds
