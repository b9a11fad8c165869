SPECIFICATION Spec
CONSTANTS
  Leagues <- MCLeagues
  Points <- MCPoints
  HalfLines <- MCHalfLines
  Prices <- MCPrices
  LegCount = 3
  Scale = 6
  StreakLength = 4
  BookLength = 3
  Americans <- MCAmericans
  CloseCount = 3
  CloseLines <- MCCloseLines
INVARIANTS
  OppositeSidesMirror
  MoneylinePaysOneSide
  RegulationDecidesSoccerOnly
  BetterLineNeverHurts
  PropSidesMirror
  ParlayRollsOver
  StreaksAreRuns
  CalibrationIsBounded
  ClvSignTellsPayout
  OddsSurviveConversion
  CloseIsComparable
