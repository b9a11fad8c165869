SPECIFICATION FairSpec
CONSTANTS
  FirstWait = 1
  MaxWait = 30
  Waits <- MCWaits
INVARIANTS
  StatusTellsSubscription
  TasksSpanService
PROPERTIES
  TasksGoOn
  ShutdownEnds
