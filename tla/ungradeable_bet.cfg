SPECIFICATION FairSpec
CONSTANTS
  Games = {"g1", "g2"}
  Singles = {"s3"}
  Parlays = {"p3"}
  Legs = {"l6", "l7"}
  Results = {"home_by_1"}
  BoxScores = {}
  Timed = {"g1", "g2"}
  Requests = {}
  Forcings = {FALSE}
  MaxInbox = 1
  MaxFaults = 0
  ParentOf <- MCParentOf
  Terms <- MCTerms
  ScoreOf <- MCScoreOf
  LinesOf <- MCLinesOf
  NoGame = "no game"
  NoResult = "no result"
  NoBox = "no box"
PROPERTIES
  LegsDecide
