SPECIFICATION FairSpec
CONSTANTS
  Games = {"g1"}
  Singles = {"s2", "s4"}
  Parlays = {"p2"}
  Legs = {"l3", "l4"}
  Results = {"home_by_1"}
  BoxScores = {"early", "full"}
  Timed = {"g1"}
  Requests = {}
  Forcings = {FALSE}
  MaxInbox = 1
  MaxFaults = 1
  ParentOf <- MCParentOf
  Terms <- MCTerms
  ScoreOf <- MCScoreOf
  LinesOf <- MCLinesOf
  NoGame = "no game"
  NoResult = "no result"
  NoBox = "no box"
INVARIANTS
  AnnouncedAsGraded
PROPERTIES
  ImplementsLedger
  PropBetsSettle
