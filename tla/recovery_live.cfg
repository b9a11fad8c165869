SPECIFICATION FairSpec
CONSTANTS
  Games = {"g1", "g2"}
  Singles = {"s1"}
  Parlays = {"p1"}
  Legs = {"l1", "l2"}
  Results = {"away_by_1"}
  BoxScores = {}
  Timed = {"g1"}
  Requests = {}
  Forcings = {FALSE}
  MaxInbox = 1
  MaxFaults = 1
  ParentOf <- MCParentOf
  Terms <- MCTerms
  ScoreOf <- MCScoreOf
  LinesOf <- MCLinesOf
  NoGame = "no game"
  NoResult = "no result"
  NoBox = "no box"
PROPERTIES
  ParlaysSettle
  ScoreBetsSettle
  LegsDecide
