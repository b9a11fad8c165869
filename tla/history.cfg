SPECIFICATION Spec
CONSTANTS
  Rows = {1, 2, 3, 4}
  Wanted = {"OPEN", "LOST"}
  Limit = 2
  MaxTime = 2
CHECK_DEADLOCK FALSE
INVARIANTS
  NoRowTwice
  SteadyRowsListed
