SPECIFICATION FairSpec
CONSTANTS
  Games = {"g1"}
  Singles = {}
  Parlays = {"p1"}
  Legs = {"l1", "l5"}
  Results = {"home_by_1"}
  BoxScores = {}
  Timed = {"g1"}
  Requests = {}
  Forcings = {FALSE}
  MaxInbox = 1
  MaxFaults = 1
  ParentOf <- MCParentOf
  Terms <- MCTerms
  ScoreOf <- MCScoreOf
  LinesOf <- MCLinesOf
  NoGame = "no game"
  NoResult = "no result"
  NoBox = "no box"
PROPERTIES
  DecidedParlaysSettle
