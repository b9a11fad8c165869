SPECIFICATION Spec
CONSTANTS
  Games = {"g1"}
  Singles = {"s3"}
  Parlays = {"p1"}
  Legs = {"l1", "l5"}
  Results = {"home_by_1", "away_by_1"}
  BoxScores = {}
  Timed = {"g1"}
  Requests = {"q1"}
  Forcings = {TRUE, FALSE}
  MaxInbox = 1
  MaxFaults = 1
  ParentOf <- MCParentOf
  Terms <- MCTerms
  ScoreOf <- MCScoreOf
  LinesOf <- MCLinesOf
  NoGame = "no game"
  NoResult = "no result"
  NoBox = "no box"
INVARIANTS
  TypeOK
  ParlayMatchesLegs
  DecidedParlayIsOwned
PROPERTIES
  ImplementsLedger
