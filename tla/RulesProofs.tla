---------------------------- MODULE RulesProofs ----------------------------
(***************************************************************************)
(* Theorems about the settlement of score markets, player props and        *)
(* parlays, for every league, score, line and number of legs, and about    *)
(* odds and closing line values.                                           *)
(***************************************************************************)
EXTENDS SettlementRules, Sums

\* The case under examination has the inputs of its kind.
CaseOK ==
  /\ case.kind = "score" => case \in ScoreCases
  /\ case.kind = "prop" => case \in PropCases
  /\ case.kind = "parlay" => case \in ParlayCases
  /\ case.kind = "streak" => case \in StreakCases
  /\ case.kind = "book" => case \in BookCases
  /\ case.kind = "odds" => case \in OddsCases
  /\ case.kind = "close" => case \in CloseCases

LEMMA CaseInvariant == Spec => []CaseOK
<1>1. Init => CaseOK
  BY DEF Init, CaseOK, None
<1>2. CaseOK /\ [Next]_case => CaseOK'
  <2> SUFFICES ASSUME CaseOK, [Next]_case PROVE CaseOK'
    OBVIOUS
  <2>1. CASE TakeCase
    <3>1. \A c \in PropCases : c.kind = "prop"
      BY DEF PropCases
    <3>2. \A c \in ParlayCases : c.kind = "parlay"
      BY DEF ParlayCases
    <3>3. \A c \in StreakCases : c.kind = "streak"
      BY DEF StreakCases
    <3>4. \A c \in BookCases : c.kind = "book"
      BY DEF BookCases
    <3>5. \A c \in CloseCases : c.kind = "close"
      BY DEF CloseCases
    <3>6. (\A c \in ScoreCases : c.kind = "score") /\ (\A c \in OddsCases : c.kind = "odds")
      BY DEF ScoreCases, OddsCases
    <3>7. \/ case' \in ScoreCases \/ case' \in PropCases \/ case' \in ParlayCases
          \/ case' \in StreakCases \/ case' \in BookCases \/ case' \in OddsCases
          \/ case' \in CloseCases
      BY <2>1, Zenon DEF TakeCase
    <3>8. QED
      BY <3>1, <3>2, <3>3, <3>4, <3>5, <3>6, <3>7 DEF CaseOK
  <2>2. CASE DropCase
    BY <2>2 DEF DropCase, None, CaseOK
  <2>3. CASE UNCHANGED case
    BY <2>3 DEF CaseOK
  <2>4. QED
    BY <2>1, <2>2, <2>3 DEF Next
<1>3. QED
  BY <1>1, <1>2, PTL DEF Spec
-----------------------------------------------------------------------------
(***************************************************************************)
(* What grade_bet makes of two sides, two markets and two lines of a score.*)
(***************************************************************************)
LEMMA SidesMirror ==
  ASSUME NEW line \in Int, NEW h \in Int, NEW a \in Int, NEW threeWay \in BOOLEAN
  PROVE  /\ GradeBet("SPREAD", "AWAY", -line, h, a, threeWay)
              = Mirror(GradeBet("SPREAD", "HOME", line, h, a, threeWay))
         /\ GradeBet("TOTAL", "UNDER", line, h, a, threeWay)
              = Mirror(GradeBet("TOTAL", "OVER", line, h, a, threeWay))
         /\ GradeBet("MONEYLINE", "AWAY", 0, h, a, FALSE)
              = Mirror(GradeBet("MONEYLINE", "HOME", 0, h, a, FALSE))
BY DEF GradeBet, Verdict, SelectedMargin, Mirror

LEMMA MoneylineIsSpread ==
  ASSUME NEW h \in Int, NEW a \in Int, NEW threeWay \in BOOLEAN
  PROVE  /\ GradeBet("MONEYLINE", "DRAW", 0, h, a, FALSE) = "ERROR"
         /\ \A side \in {"HOME", "AWAY"} :
              GradeBet("MONEYLINE", side, 0, h, a, FALSE)
                = GradeBet("SPREAD", side, 0, h, a, threeWay)
BY DEF GradeBet, Verdict, SelectedMargin

LEMMA ThreeWayPaysWinner ==
  ASSUME NEW h \in Int, NEW a \in Int, NEW threeWay \in BOOLEAN
  PROVE  /\ \A side \in {"HOME", "DRAW", "AWAY"} :
              GradeBet("MONEYLINE", side, 0, h, a, TRUE)
                = IF side = Winner(h - a) THEN "WON" ELSE "LOST"
         /\ Winner(h - a) \in {"HOME", "DRAW", "AWAY"}
         /\ IF Winner(h - a) = "DRAW" THEN GradeBet("SPREAD", "HOME", 0, h, a, threeWay) = "PUSH"
            ELSE GradeBet("SPREAD", Winner(h - a), 0, h, a, threeWay) = "WON"
BY DEF GradeBet, Verdict, SelectedMargin, Winner

LEMMA LinesAreMonotone ==
  ASSUME NEW line \in Int, NEW h \in Int, NEW a \in Int, NEW threeWay \in BOOLEAN
  PROVE  LET spread(l) == GradeBet("SPREAD", "AWAY", l, h, a, threeWay)
             over(l) == GradeBet("TOTAL", "OVER", l, h, a, threeWay)
         IN  /\ Rank(spread(line)) <= Rank(spread(line + 1))
             /\ Rank(over(line)) <= Rank(over(line - 1))
             /\ spread(line) = "PUSH" => spread(line + 1) # "PUSH" /\ over(line + 1) # "PUSH"
             /\ over(line) = "PUSH" => spread(line + 1) # "PUSH" /\ over(line + 1) # "PUSH"
BY DEF GradeBet, Verdict, SelectedMargin, Rank
-----------------------------------------------------------------------------
\* The case under examination settles on two whole numbers.
LEMMA ScoresAreWhole ==
  ASSUME case \in ScoreCases
  PROVE  \E h, a \in Int : SettlementScores(case.result, case.league) = <<h, a>>
<1>1. case.result \in Results
  BY DEF ScoreCases
<1>2. Points \subseteq Int /\ Missing \in Int
  BY RulesAssumption DEF Missing
<1>3. /\ case.result.home \in Int /\ case.result.away \in Int
      /\ case.result.regHome \in Int /\ case.result.regAway \in Int
  BY <1>1, <1>2 DEF Results
<1>4. QED
  BY <1>3 DEF SettlementScores

\* Its grades are those of the two numbers.
LEMMA GradeOfScore ==
  ASSUME NEW h \in Int, NEW a \in Int, SettlementScores(case.result, case.league) = <<h, a>>
  PROVE  \A market, side, line :
           ScoreGrade(market, side, line, case.result)
             = GradeBet(market, side, line, h, a, IsThreeWay(case.league) /\ market = "MONEYLINE")
<1>1. SettlementScores(case.result, case.league)[1] = h
      /\ SettlementScores(case.result, case.league)[2] = a
  BY SMT
<1>2. QED
  BY <1>1, Zenon DEF ScoreGrade, GradeFromScore

(***************************************************************************)
(* For every score and every line, what the backer of one side of a        *)
(* two-way market wins the backer of the other side loses (grade_bet).     *)
(***************************************************************************)
THEOREM SidesSettleAgainstEachOther == Spec => []OppositeSidesMirror
<1>1. CaseOK => OppositeSidesMirror
  <2> SUFFICES ASSUME case \in ScoreCases PROVE OppositeSidesMirror
    BY DEF CaseOK, OppositeSidesMirror
  <2>1. PICK h, a \in Int : SettlementScores(case.result, case.league) = <<h, a>>
    BY ScoresAreWhole
  <2>2. \A market, side, line :
          ScoreGrade(market, side, line, case.result)
            = GradeBet(market, side, line, h, a, IsThreeWay(case.league) /\ market = "MONEYLINE")
    BY <2>1, GradeOfScore
  <2>3. case.line \in Int /\ IsThreeWay(case.league) \in BOOLEAN
    BY RulesAssumption DEF ScoreCases, IsThreeWay
  <2>4. \A threeWay \in BOOLEAN :
          /\ GradeBet("SPREAD", "AWAY", -case.line, h, a, threeWay)
               = Mirror(GradeBet("SPREAD", "HOME", case.line, h, a, threeWay))
          /\ GradeBet("TOTAL", "UNDER", case.line, h, a, threeWay)
               = Mirror(GradeBet("TOTAL", "OVER", case.line, h, a, threeWay))
          /\ GradeBet("MONEYLINE", "AWAY", 0, h, a, FALSE)
               = Mirror(GradeBet("MONEYLINE", "HOME", 0, h, a, FALSE))
    BY <2>1, <2>3, SidesMirror
  <2>5. ScoreGrade("SPREAD", "AWAY", -case.line, case.result)
          = Mirror(ScoreGrade("SPREAD", "HOME", case.line, case.result))
    BY <2>2, <2>4
  <2>6. ScoreGrade("TOTAL", "UNDER", case.line, case.result)
          = Mirror(ScoreGrade("TOTAL", "OVER", case.line, case.result))
    BY <2>2, <2>4
  <2>7. ~IsThreeWay(case.league) =>
          ScoreGrade("MONEYLINE", "AWAY", 0, case.result)
            = Mirror(ScoreGrade("MONEYLINE", "HOME", 0, case.result))
    BY <2>2, <2>4
  <2>8. QED
    BY <2>5, <2>6, <2>7, Zenon DEF OppositeSidesMirror
<1>2. QED
  BY <1>1, CaseInvariant, PTL

(***************************************************************************)
(* For every score, a two-way moneyline is the spread at line 0, and a     *)
(* three-way one pays exactly the winner or the draw (grade_bet,           *)
(* three_way_moneyline).                                                   *)
(***************************************************************************)
THEOREM MoneylineHasOneWinner == Spec => []MoneylinePaysOneSide
<1>1. CaseOK => MoneylinePaysOneSide
  <2> SUFFICES ASSUME case \in ScoreCases PROVE MoneylinePaysOneSide
    BY DEF CaseOK, MoneylinePaysOneSide
  <2>1. PICK h, a \in Int : SettlementScores(case.result, case.league) = <<h, a>>
    BY ScoresAreWhole
  <2>2. \A market, side, line :
          ScoreGrade(market, side, line, case.result)
            = GradeBet(market, side, line, h, a, IsThreeWay(case.league) /\ market = "MONEYLINE")
    BY <2>1, GradeOfScore
  <2>3. \A side : ScoreGrade("SPREAD", side, 0, case.result)
                    = GradeBet("SPREAD", side, 0, h, a, FALSE)
    BY <2>2
  <2>4. CASE IsThreeWay(case.league)
    <3>1. \A side : ScoreGrade("MONEYLINE", side, 0, case.result)
                      = GradeBet("MONEYLINE", side, 0, h, a, TRUE)
      BY <2>2, <2>4
    <3>2. /\ \A side \in {"HOME", "DRAW", "AWAY"} :
               ScoreGrade("MONEYLINE", side, 0, case.result)
                 = IF side = Winner(h - a) THEN "WON" ELSE "LOST"
          /\ Winner(h - a) \in {"HOME", "DRAW", "AWAY"}
          /\ IF Winner(h - a) = "DRAW" THEN ScoreGrade("SPREAD", "HOME", 0, case.result) = "PUSH"
             ELSE ScoreGrade("SPREAD", Winner(h - a), 0, case.result) = "WON"
      <4>1. /\ \A side \in {"HOME", "DRAW", "AWAY"} :
                 GradeBet("MONEYLINE", side, 0, h, a, TRUE)
                   = IF side = Winner(h - a) THEN "WON" ELSE "LOST"
            /\ Winner(h - a) \in {"HOME", "DRAW", "AWAY"}
            /\ IF Winner(h - a) = "DRAW" THEN GradeBet("SPREAD", "HOME", 0, h, a, FALSE) = "PUSH"
               ELSE GradeBet("SPREAD", Winner(h - a), 0, h, a, FALSE) = "WON"
        BY <2>1, ThreeWayPaysWinner
      <4>2. QED
        BY <2>3, <3>1, <4>1
    <3>3. QED
      BY <2>4, <3>2, Zenon DEF MoneylinePaysOneSide
  <2>5. CASE ~IsThreeWay(case.league)
    <3>1. \A side : ScoreGrade("MONEYLINE", side, 0, case.result)
                      = GradeBet("MONEYLINE", side, 0, h, a, FALSE)
      BY <2>2, <2>5
    <3>2. /\ ScoreGrade("MONEYLINE", "DRAW", 0, case.result) = "ERROR"
          /\ \A side \in {"HOME", "AWAY"} :
               ScoreGrade("MONEYLINE", side, 0, case.result)
                 = ScoreGrade("SPREAD", side, 0, case.result)
      <4>1. /\ GradeBet("MONEYLINE", "DRAW", 0, h, a, FALSE) = "ERROR"
            /\ \A side \in {"HOME", "AWAY"} :
                 GradeBet("MONEYLINE", side, 0, h, a, FALSE) = GradeBet("SPREAD", side, 0, h, a, FALSE)
        BY <2>1, MoneylineIsSpread
      <4>2. QED
        BY <2>3, <3>1, <4>1
    <3>3. QED
      BY <2>5, <3>2, Zenon DEF MoneylinePaysOneSide
  <2>6. QED
    BY <2>4, <2>5
<1>2. QED
  BY <1>1, CaseInvariant, PTL

(***************************************************************************)
(* For every score and every line, half a point more on a spread and half  *)
(* a point less on an OVER never makes a grade worse (grade_bet).          *)
(***************************************************************************)
THEOREM BetterLinesGradeBetter == Spec => []BetterLineNeverHurts
<1>1. CaseOK => BetterLineNeverHurts
  <2> SUFFICES ASSUME case \in ScoreCases PROVE BetterLineNeverHurts
    BY DEF CaseOK, BetterLineNeverHurts
  <2>1. PICK h, a \in Int : SettlementScores(case.result, case.league) = <<h, a>>
    BY ScoresAreWhole
  <2>2. \A market, side, line :
          ScoreGrade(market, side, line, case.result)
            = GradeBet(market, side, line, h, a, IsThreeWay(case.league) /\ market = "MONEYLINE")
    BY <2>1, GradeOfScore
  <2>3. case.line \in Int
    BY RulesAssumption DEF ScoreCases
  <2> DEFINE spread(l) == GradeBet("SPREAD", "AWAY", l, h, a, FALSE)
             over(l) == GradeBet("TOTAL", "OVER", l, h, a, FALSE)
  <2>4. \A l : /\ ScoreGrade("SPREAD", "AWAY", l, case.result) = spread(l)
               /\ ScoreGrade("TOTAL", "OVER", l, case.result) = over(l)
    BY <2>2
  <2>5. /\ Rank(spread(case.line)) <= Rank(spread(case.line + 1))
        /\ Rank(over(case.line)) <= Rank(over(case.line - 1))
        /\ \A grade \in {spread(case.line), over(case.line)} :
             grade = "PUSH" => "PUSH" \notin {spread(case.line + 1), over(case.line + 1)}
    <3> USE <2>1, <2>3
    <3>1. /\ Rank(spread(case.line)) <= Rank(spread(case.line + 1))
          /\ Rank(over(case.line)) <= Rank(over(case.line - 1))
          /\ spread(case.line) = "PUSH" => spread(case.line + 1) # "PUSH" /\ over(case.line + 1) # "PUSH"
          /\ over(case.line) = "PUSH" => spread(case.line + 1) # "PUSH" /\ over(case.line + 1) # "PUSH"
      BY LinesAreMonotone
    <3> HIDE DEF spread, over
    <3>2. QED
      BY <3>1
  <2> HIDE DEF spread, over
  <2>6. /\ Rank(ScoreGrade("SPREAD", "AWAY", case.line, case.result))
             <= Rank(ScoreGrade("SPREAD", "AWAY", case.line + 1, case.result))
        /\ Rank(ScoreGrade("TOTAL", "OVER", case.line, case.result))
             <= Rank(ScoreGrade("TOTAL", "OVER", case.line - 1, case.result))
        /\ \A grade \in {ScoreGrade("SPREAD", "AWAY", case.line, case.result),
                         ScoreGrade("TOTAL", "OVER", case.line, case.result)} :
             grade = "PUSH" => "PUSH" \notin {ScoreGrade("SPREAD", "AWAY", case.line + 1, case.result),
                                             ScoreGrade("TOTAL", "OVER", case.line + 1, case.result)}
    BY <2>4, <2>5
  <2>7. QED
    BY <2>6, Zenon DEF BetterLineNeverHurts
<1>2. QED
  BY <1>1, CaseInvariant, PTL

(***************************************************************************)
(* For every score and every line, the regulation score decides soccer     *)
(* when both its halves are there, and otherwise the final score decides   *)
(* (settlement_scores).                                                    *)
(***************************************************************************)
THEOREM RegulationIsForSoccer == Spec => []RegulationDecidesSoccerOnly
<1>1. CaseOK => RegulationDecidesSoccerOnly
  <2> SUFFICES ASSUME case \in ScoreCases PROVE RegulationDecidesSoccerOnly
    BY DEF CaseOK, RegulationDecidesSoccerOnly
  <2> DEFINE r == case.result
             inRegulation == [home |-> r.regHome, away |-> r.regAway,
                              regHome |-> Missing, regAway |-> Missing]
             atTheEnd == [r EXCEPT !.regHome = Missing, !.regAway = Missing]
             settling == IF /\ case.league \in {"EPL", "FIFA_WC"}
                            /\ Missing \notin {r.regHome, r.regAway}
                         THEN inRegulation ELSE atTheEnd
  <2>1. r \in Results
    BY DEF ScoreCases
  <2>2. SportOf(case.league) = "SOCCER" <=> case.league \in {"EPL", "FIFA_WC"}
    BY DEF SportOf
  <2> DEFINE decides == case.league \in {"EPL", "FIFA_WC"} /\ r.regHome # Missing /\ r.regAway # Missing
  <2>3. SettlementScores(r, case.league)
          = IF decides THEN <<r.regHome, r.regAway>> ELSE <<r.home, r.away>>
    BY <2>2 DEF SettlementScores
  <2>4. /\ SettlementScores(inRegulation, case.league) = <<r.regHome, r.regAway>>
        /\ SettlementScores(atTheEnd, case.league) = <<r.home, r.away>>
    <3>1. /\ atTheEnd.regHome = Missing /\ atTheEnd.home = r.home /\ atTheEnd.away = r.away
          /\ inRegulation.regHome = Missing /\ inRegulation.home = r.regHome
          /\ inRegulation.away = r.regAway
      BY <2>1 DEF Results
    <3> HIDE DEF inRegulation, atTheEnd
    <3>2. QED
      BY <3>1 DEF SettlementScores
  <2>5. settling = IF decides THEN inRegulation ELSE atTheEnd
    OBVIOUS
  <2> HIDE DEF inRegulation, atTheEnd, settling, decides
  <2>6. SettlementScores(r, case.league) = SettlementScores(settling, case.league)
    BY <2>3, <2>4, <2>5
  <2>7. \A market, side : ScoreGrade(market, side, case.line, r)
                            = ScoreGrade(market, side, case.line, settling)
    BY <2>6, Zenon DEF ScoreGrade, GradeFromScore
  <2>8. QED
    BY <2>7, Zenon DEF RegulationDecidesSoccerOnly, settling, inRegulation, atTheEnd
<1>2. QED
  BY <1>1, CaseInvariant, PTL

(***************************************************************************)
(* For all American odds, the closing line value is positive exactly when  *)
(* the bet wins more than it would have at the close (compute_clv).        *)
(***************************************************************************)
THEOREM ClvTellsPayout == Spec => []ClvSignTellsPayout
<1>1. CaseOK => ClvSignTellsPayout
  <2> SUFFICES ASSUME case \in OddsCases PROVE ClvSignTellsPayout
    BY DEF CaseOK, ClvSignTellsPayout
  <2>1. PICK a \in Int, b \in Int : /\ a = case.placed /\ b = case.closing
                                    /\ a >= 100 \/ a <= -100
                                    /\ b >= 100 \/ b <= -100
    BY RulesAssumption DEF OddsCases
  <2> SUFFICES /\ ComputeClv(a, b)[2] > 0
               /\ ComputeClv(a, b)[1] > 0 <=> Pays(a, b)
    BY <2>1, Zenon DEF ClvSignTellsPayout
  <2>2. CASE a > 0 /\ b > 0
    BY <2>1, <2>2 DEF ComputeClv, ImpliedProbability, AmericanToDecimal, Pays, Win
  <2>3. CASE a < 0 /\ b < 0
    BY <2>1, <2>3 DEF ComputeClv, ImpliedProbability, AmericanToDecimal, Pays, Win
  <2>4. CASE a > 0 /\ b < 0
    BY <2>1, <2>4 DEF ComputeClv, ImpliedProbability, AmericanToDecimal, Pays, Win
  <2>5. CASE a < 0 /\ b > 0
    BY <2>1, <2>5 DEF ComputeClv, ImpliedProbability, AmericanToDecimal, Pays, Win
  <2>6. QED
    BY <2>1, <2>2, <2>3, <2>4, <2>5
<1>2. QED
  BY <1>1, CaseInvariant, PTL

-----------------------------------------------------------------------------
(***************************************************************************)
(* Rounding and back.                                                      *)
(***************************************************************************)
LEMMA RoundedIsNear ==
  ASSUME NEW n \in Int, NEW d \in Int, d > 0, NEW k \in Rounded(n, d)
  PROVE  k \in Int /\ 2 * (k * d) - 2 * n <= d /\ 2 * n - 2 * (k * d) <= d
<1>1. n \div d \in Int
  OBVIOUS
<1>2. k \in Int /\ 2 * k * d - 2 * n \in -d..d
  BY <1>1 DEF Rounded
<1>3. 2 * k * d = 2 * (k * d)
  BY <1>2
<1>4. QED
  BY <1>2, <1>3

LEMMA Cancels ==
  ASSUME NEW x \in Int, NEW y \in Int, NEW c \in Int, c > 0, x * c <= y * c
  PROVE  x <= y
OBVIOUS

\* Hundredths of whole numbers are rounded to the numbers.
LEMMA WholeIsKept ==
  ASSUME NEW m \in Int
  PROVE  Rounded(100 * m, 100) = {m}
BY DEF Rounded

LEMMA OddsAreKept ==
  ASSUME NEW a \in Int, a >= 100 \/ a <= -100
  PROVE  DecimalToAmerican(AmericanToDecimal(a)) = {IF a = -100 THEN 100 ELSE a}
<1>1. ASSUME NEW m \in Int, m >= 100 PROVE DecimalToAmerican(<<100 + m, 100>>) = {m}
  <2>1. 100 + m >= 2 * 100 /\ 100 + m - 100 = m
    BY <1>1
  <2>2. DecimalToAmerican(<<100 + m, 100>>) = Rounded(100 * (100 + m - 100), 100)
    BY <2>1 DEF DecimalToAmerican
  <2>3. QED
    BY <2>1, <2>2, WholeIsKept
<1>2. CASE a > 0 \/ a = -100
  <2>1. PICK m \in Int : m >= 100 /\ m = (IF a = -100 THEN 100 ELSE a)
    BY <1>2
  <2>2. AmericanToDecimal(a) = <<100 + m, 100>>
    BY <1>2, <2>1 DEF AmericanToDecimal
  <2>3. QED
    BY <1>1, <2>1, <2>2
<1>3. CASE a < -100
  <2>1. AmericanToDecimal(a) = <<100 - a, -a>> /\ ~(100 - a >= 2 * (-a))
    BY <1>3 DEF AmericanToDecimal
  <2>2. DecimalToAmerican(<<100 - a, -a>>) = {-k : k \in Rounded(100 * (-a), (100 - a) - (-a))}
    BY <2>1 DEF DecimalToAmerican
  <2>3. (100 - a) - (-a) = 100 /\ -a \in Int /\ -(-a) = a
    OBVIOUS
  <2>4. Rounded(100 * (-a), 100) = {-a}
    BY <2>3, WholeIsKept
  <2>5. QED
    BY <1>3, <2>1, <2>2, <2>3, <2>4
<1>4. QED
  BY <1>2, <1>3

\* A result of decimal_to_american is near the exact American odds.
LEMMA ConvertedIsNear ==
  ASSUME NEW n \in Int, NEW d \in Int, d > 0, n > d, NEW r \in DecimalToAmerican(<<n, d>>)
  PROVE  /\ r \in Int
         /\ \/ /\ n >= 2 * d
               /\ 2 * (r * d) <= 200 * (n - d) + d /\ 200 * (n - d) <= 2 * (r * d) + d
            \/ /\ n < 2 * d
               /\ 2 * (-r * (n - d)) <= 200 * d + (n - d)
               /\ 200 * d <= 2 * (-r * (n - d)) + (n - d)
<1>1. CASE n >= 2 * d
  <2>1. r \in Rounded(100 * (n - d), d)
    BY <1>1 DEF DecimalToAmerican
  <2>2. 100 * (n - d) \in Int
    OBVIOUS
  <2>3. r \in Int /\ 2 * (r * d) - 2 * (100 * (n - d)) <= d /\ 2 * (100 * (n - d)) - 2 * (r * d) <= d
    BY <2>1, <2>2, RoundedIsNear
  <2>4. r * d \in Int
    BY <2>3
  <2>5. QED
    BY <1>1, <2>3, <2>4
<1>2. CASE n < 2 * d
  <2>1. PICK k \in Rounded(100 * d, n - d) : r = -k
    BY <1>2 DEF DecimalToAmerican
  <2>2. 100 * d \in Int /\ n - d \in Int /\ n - d > 0
    OBVIOUS
  <2>3. /\ k \in Int
        /\ 2 * (k * (n - d)) - 2 * (100 * d) <= n - d /\ 2 * (100 * d) - 2 * (k * (n - d)) <= n - d
    BY <2>2, RoundedIsNear
  <2>4. -r = k /\ k * (n - d) \in Int
    BY <2>1, <2>2, <2>3
  <2>5. QED
    BY <1>2, <2>1, <2>3, <2>4
<1>3. QED
  BY <1>1, <1>2

\* Halfway between two prices of outsiders, of favourites, and of either.
LEMMA BetweenOutsiders ==
  ASSUME NEW p \in Int, NEW c \in Int, c >= 100, p > c,
         NEW r \in DecimalToAmerican(<<(100 + p) * 100 + (100 + c) * 100, 2 * 100 * 100>>)
  PROVE  r \in Int /\ c <= r /\ r <= p
BY ConvertedIsNear

LEMMA BetweenFavourites ==
  ASSUME NEW p \in Int, NEW c \in Int, p >= 100, c > p,
         NEW r \in DecimalToAmerican(<<(100 + p) * c + (100 + c) * p, 2 * p * c>>)
  PROVE  r \in Int /\ p <= -r /\ -r <= c
<1> DEFINE n == (100 + p) * c + (100 + c) * p
           d == 2 * p * c
           s == p + c
<1>1. /\ n \in Int /\ d \in Int /\ s \in Int /\ s > 0
      /\ n - d = 100 * s /\ d = 2 * (p * c)
  OBVIOUS
<1>2. 100 * c <= p * c /\ 100 * p < c * p /\ c * p = p * c
  OBVIOUS
<1>3. d > 0 /\ n > d /\ n < 2 * d
  <2>1. 100 * s = 100 * p + 100 * c
    OBVIOUS
  <2> HIDE DEF n, d, s
  <2> QED BY <1>1, <1>2, <2>1
<1>4. /\ r \in Int
      /\ 2 * (-r * (n - d)) <= 200 * d + (n - d)
      /\ 200 * d <= 2 * (-r * (n - d)) + (n - d)
  <2> HIDE DEF n, d, s
  <2>1. r \in DecimalToAmerican(<<n, d>>)
    BY DEF n, d
  <2> QED BY <1>1, <1>3, <2>1, ConvertedIsNear
<1>5. -r * (100 * s) = 100 * (-r * s) /\ -r * s \in Int
  BY <1>1, <1>4
<1>6. 2 * (-r * s) <= 4 * (p * c) + s /\ 4 * (p * c) <= 2 * (-r * s) + s
  <2> HIDE DEF n, d, s
  <2> QED BY <1>1, <1>4, <1>5
<1>7. 4 * (p * c) <= 2 * (c * s) /\ 2 * (p * s) <= 4 * (p * c)
  <2>1. p * p <= p * c /\ p * c <= c * c
    OBVIOUS
  <2>2. c * s = p * c + c * c /\ p * s = p * p + p * c
    OBVIOUS
  <2>3. p * p \in Int /\ p * c \in Int /\ c * c \in Int
    OBVIOUS
  <2> HIDE DEF s
  <2> QED BY <2>1, <2>2, <2>3
<1>8. (2 * (-r)) * s <= (2 * c + 1) * s /\ (2 * p) * s <= (2 * (-r) + 1) * s
  <2>1. /\ (2 * (-r)) * s = 2 * (-r * s) /\ (2 * c + 1) * s = 2 * (c * s) + s
        /\ (2 * p) * s = 2 * (p * s) /\ (2 * (-r) + 1) * s = 2 * (-r * s) + s
    BY <1>1, <1>4
  <2>2. p * c \in Int /\ c * s \in Int /\ p * s \in Int
    BY <1>1
  <2> HIDE DEF s
  <2> QED BY <1>1, <1>5, <1>6, <1>7, <2>1, <2>2
<1>9. 2 * (-r) <= 2 * c + 1 /\ 2 * p <= 2 * (-r) + 1
  <2> HIDE DEF n, d, s
  <2> QED BY <1>1, <1>4, <1>8, Cancels
<1>10. QED
  BY <1>4, <1>9

LEMMA BetweenBoth ==
  ASSUME NEW p \in Int, NEW c \in Int, p >= 100, c >= 100,
         NEW r \in DecimalToAmerican(<<(100 + p) * c + (100 + c) * 100, 2 * 100 * c>>)
  PROVE  r \in Int /\ ((100 <= r /\ r <= p) \/ (100 <= -r /\ -r <= c))
<1> DEFINE n == (100 + p) * c + (100 + c) * 100
           d == 2 * 100 * c
           w == p * c
<1>1. n \in Int /\ d \in Int /\ d > 0 /\ n - d = w + 10000 /\ w \in Int /\ d = 200 * c
  OBVIOUS
<1>2. w >= 100 * c /\ w >= 100 * p
  OBVIOUS
<1>3. n > d
  <2> HIDE DEF n, d, w
  <2> QED BY <1>1, <1>2
<1>4. /\ r \in Int
      /\ \/ /\ n >= 2 * d
            /\ 2 * (r * d) <= 200 * (n - d) + d /\ 200 * (n - d) <= 2 * (r * d) + d
         \/ /\ n < 2 * d
            /\ 2 * (-r * (n - d)) <= 200 * d + (n - d)
            /\ 200 * d <= 2 * (-r * (n - d)) + (n - d)
  <2> HIDE DEF n, d, w
  <2>1. r \in DecimalToAmerican(<<n, d>>)
    BY DEF n, d
  <2> QED BY <1>1, <1>3, <2>1, ConvertedIsNear
<1>5. CASE n >= 2 * d
  <2>1. r * d = 200 * (r * c) /\ r * c \in Int
    BY <1>1, <1>4
  <2>2. 2 * (r * c) <= w + 10000 + c /\ w + 10000 <= 2 * (r * c) + c /\ w + 10000 >= 200 * c
    <3> HIDE DEF n, d, w
    <3> QED BY <1>1, <1>4, <1>5, <2>1
  <2>3. 199 * c <= (2 * r) * c /\ (2 * r) * c <= (2 * p + 1) * c
    <3>1. (2 * r) * c = 2 * (r * c) /\ (2 * p + 1) * c = 2 * w + c
      BY <1>4
    <3>2. 10000 <= w
      BY <1>2
    <3> HIDE DEF n, d, w
    <3> QED BY <1>1, <1>2, <2>1, <2>2, <3>1, <3>2
  <2>4. 199 <= 2 * r /\ 2 * r <= 2 * p + 1
    <3> HIDE DEF n, d, w
    <3> QED BY <1>4, <2>3, Cancels
  <2>5. QED
    BY <1>4, <2>4
<1>6. CASE n < 2 * d
  <2> DEFINE e == w + 10000
  <2>1. -r * e \in Int /\ e \in Int /\ e > 0 /\ e < 200 * c
    <3>1. e \in Int /\ e > 0
      BY <1>1, <1>2
    <3>2. -r * e \in Int
      BY <1>4, <3>1
    <3> HIDE DEF n, d, w
    <3> QED BY <1>1, <1>6, <3>1, <3>2
  <2>2. 2 * (-r * e) <= 40000 * c + e /\ 40000 * c <= 2 * (-r * e) + e
    <3>1. ~(n >= 2 * d) /\ n - d = e
      BY <1>1, <1>6
    <3> HIDE DEF n, d, e, w
    <3> QED BY <1>1, <1>4, <2>1, <3>1
  <2>3. (2 * (-r)) * e <= (2 * c + 1) * e /\ 199 * e <= (2 * (-r)) * e
    <3>1. (2 * (-r)) * e = 2 * (-r * e) /\ (2 * c + 1) * e = 2 * (c * e) + e
      BY <1>1, <1>4
    <3>2. 20000 <= e /\ 20000 * c <= c * e /\ c * e \in Int
      <4>1. 20000 <= e
        BY <1>2
      <4> HIDE DEF n, d, e, w
      <4> QED BY <2>1, <4>1
    <3> HIDE DEF n, d, e, w
    <3> QED BY <2>1, <2>2, <3>1, <3>2
  <2>4. 2 * (-r) <= 2 * c + 1 /\ 199 <= 2 * (-r)
    <3> HIDE DEF n, d, e, w
    <3> QED BY <1>4, <2>1, <2>3, Cancels
  <2>5. QED
    BY <1>4, <2>4
<1>7. QED
  BY <1>1, <1>5, <1>6

(***************************************************************************)
(* All American odds survive the conversion but for -100, and the decimal  *)
(* odds halfway between two prices are converted to one between them, on   *)
(* both sides of even odds and across them (american_to_decimal,           *)
(* decimal_to_american).                                                   *)
(***************************************************************************)
THEOREM ConversionKeepsOdds == Spec => []OddsSurviveConversion
<1>1. CaseOK => OddsSurviveConversion
  <2> SUFFICES ASSUME case \in OddsCases PROVE OddsSurviveConversion
    BY DEF CaseOK, OddsSurviveConversion
  <2>1. PICK a \in Int, b \in Int : /\ a = case.placed /\ b = case.closing
                                    /\ a >= 100 \/ a <= -100
                                    /\ b >= 100 \/ b <= -100
    BY RulesAssumption DEF OddsCases
  <2> DEFINE x == AmericanToDecimal(a)
             y == AmericanToDecimal(b)
             between == <<x[1] * y[2] + y[1] * x[2], 2 * x[2] * y[2]>>
  <2>2. ASSUME NEW r \in DecimalToAmerican(between), Pays(a, b)
        PROVE  ~Pays(b, r) /\ ~Pays(r, a)
    <3>1. CASE a > 0 /\ b > 0
      <4>1. between = <<(100 + a) * 100 + (100 + b) * 100, 2 * 100 * 100>>
        BY <3>1 DEF AmericanToDecimal
      <4>2. a > b /\ b >= 100
        BY <2>1, <2>2, <3>1 DEF Pays, Win
      <4> HIDE DEF between
      <4>3. r \in Int /\ b <= r /\ r <= a
        BY <4>1, <4>2, BetweenOutsiders
      <4>4. QED
        BY <3>1, <4>2, <4>3 DEF Pays, Win
    <3>2. CASE a < 0 /\ b < 0
      <4>1. PICK p \in Int, c \in Int : a = -p /\ b = -c /\ p >= 100 /\ c >= 100
        <5>1. -a \in Int /\ -b \in Int /\ a = -(-a) /\ b = -(-b) /\ -a >= 100 /\ -b >= 100
          BY <2>1, <3>2
        <5>2. QED
          BY <5>1
      <4>2. between = <<(100 + p) * c + (100 + c) * p, 2 * p * c>>
        <5>1. x = <<100 + p, p>> /\ y = <<100 + c, c>>
          BY <4>1 DEF AmericanToDecimal
        <5> HIDE DEF x, y
        <5> QED BY <5>1
      <4>3. c > p
        BY <2>2, <3>2, <4>1 DEF Pays, Win
      <4> HIDE DEF between
      <4>4. r \in Int /\ p <= -r /\ -r <= c
        BY <4>1, <4>2, <4>3, BetweenFavourites
      <4>5. QED
        BY <3>2, <4>1, <4>4 DEF Pays, Win
    <3>3. CASE a > 0 /\ b < 0
      <4>1. PICK c \in Int : b = -c /\ c >= 100
        <5>1. -b \in Int /\ b = -(-b) /\ -b >= 100
          BY <2>1, <3>3
        <5>2. QED
          BY <5>1
      <4>2. between = <<(100 + a) * c + (100 + c) * 100, 2 * 100 * c>>
        <5>1. x = <<100 + a, 100>> /\ y = <<100 + c, c>>
          BY <3>3, <4>1 DEF AmericanToDecimal
        <5> HIDE DEF x, y
        <5> QED BY <5>1
      <4> HIDE DEF between
      <4>3. r \in Int /\ ((100 <= r /\ r <= a) \/ (100 <= -r /\ -r <= c))
        BY <2>1, <3>3, <4>1, <4>2, BetweenBoth
      <4>4. CASE 100 <= r /\ r <= a
        <5>1. 10000 <= r * c
          BY <4>1, <4>3, <4>4
        <5>2. Win(b) = <<10000, c>> /\ Win(r) = <<r, 1>> /\ Win(a) = <<a, 1>>
          BY <3>3, <4>1, <4>3, <4>4 DEF Win
        <5>3. QED
          BY <4>1, <4>3, <4>4, <5>1, <5>2 DEF Pays
      <4>5. CASE 100 <= -r /\ -r <= c
        <5>1. 10000 <= a * (-r)
          BY <2>1, <3>3, <4>3, <4>5
        <5>2. Win(b) = <<10000, c>> /\ Win(r) = <<10000, -r>> /\ Win(a) = <<a, 1>>
          BY <3>3, <4>1, <4>3, <4>5 DEF Win
        <5>3. QED
          BY <4>1, <4>3, <4>5, <5>1, <5>2 DEF Pays
      <4>6. QED
        BY <4>3, <4>4, <4>5
    <3>4. CASE a < 0 /\ b > 0
      <4>1. 10000 <= b * (-a)
        BY <2>1, <3>4
      <4>2. QED
        BY <2>2, <3>4, <4>1 DEF Pays, Win
    <3>5. QED
      BY <2>1, <3>1, <3>2, <3>3, <3>4
  <2>3. DecimalToAmerican(x) = {IF a = -100 THEN 100 ELSE a}
    BY <2>1, OddsAreKept
  <2>4. QED
    BY <2>1, <2>2, <2>3, Zenon DEF OddsSurviveConversion
<1>2. QED
  BY <1>1, CaseInvariant, PTL
-----------------------------------------------------------------------------
(***************************************************************************)
(* Player props.                                                           *)
(***************************************************************************)
\* What is counted for the prop of a case.
Counted ==
  SumFunctionOnSet([points |-> case.points, rebounds |-> 1, assists |-> case.assists],
                   StatFields[case.stat])

LEMMA CountedIsNumber ==
  ASSUME case \in PropCases
  PROVE  /\ Counted \in Int /\ case.stat \in DOMAIN StatFields
         /\ StatFields[case.stat] \subseteq {"points", "rebounds", "assists"}
<1> DEFINE line == [points |-> case.points, rebounds |-> 1, assists |-> case.assists]
<1>1. /\ case.points \in Int /\ case.assists \in Int
      /\ case.stat \in {"player_points", "player_points_rebounds_assists"}
  <2>1. /\ case.points \in Points /\ case.assists \in Points
        /\ case.stat \in {"player_points", "player_points_rebounds_assists"}
    BY DEF PropCases
  <2>2. \A n \in Points : n \in Int
    BY RulesAssumption
  <2>3. QED
    BY <2>1, <2>2
<1>2. /\ case.stat \in DOMAIN StatFields
      /\ StatFields[case.stat] \in {{"points"}, {"points", "rebounds", "assists"}}
  <2>1. CASE case.stat = "player_points"
    BY <2>1 DEF StatFields
  <2>2. CASE case.stat = "player_points_rebounds_assists"
    BY <2>2 DEF StatFields
  <2>3. QED
    BY <1>1, <2>1, <2>2
<1>3. IsFiniteSet({"points"}) /\ IsFiniteSet({"points", "rebounds", "assists"})
  <2>1. IsFiniteSet({"points"}) /\ IsFiniteSet({"points"} \cup {"rebounds"})
    BY FS_Singleton, FS_AddElement
  <2>2. IsFiniteSet(({"points"} \cup {"rebounds"}) \cup {"assists"})
    BY <2>1, FS_AddElement
  <2>3. ({"points"} \cup {"rebounds"}) \cup {"assists"} = {"points", "rebounds", "assists"}
    OBVIOUS
  <2>4. QED
    BY <2>1, <2>2, <2>3
<1>4. line["points"] \in Int /\ line["rebounds"] \in Int /\ line["assists"] \in Int
  BY <1>1
<1> HIDE DEF line
<1>5. IsNumeric(line, StatFields[case.stat])
  BY <1>2, <1>3, <1>4 DEF IsNumeric
<1>6. SumFunctionOnSet(line, StatFields[case.stat]) \in Int
  BY <1>5, SumType
<1>7. QED
  BY <1>2, <1>6 DEF Counted, line

\* The player is found and graded; what has no grade is unresolved.
LEMMA PropIsGraded ==
  ASSUME case \in PropCases, NEW propType \in {"YES_NO", "OVER_UNDER", "NONE"},
         NEW side \in {"YES", "NO", "OVER", "UNDER"}, NEW line
  PROVE  PropGrade(propType, side, line) =
           LET type == IF propType # "NONE" THEN propType
                       ELSE IF side \in {"YES", "NO"} THEN "YES_NO" ELSE "OVER_UNDER"
               status == GradePlayerProp(type, side, line, Counted)
           IN  IF status = "ERROR" THEN "UNRESOLVED" ELSE status
<1> DEFINE stats == [points |-> case.points, rebounds |-> 1, assists |-> case.assists]
           box == [home |-> << >>, away |-> [p |-> stats]]
           term == [player |-> "p", stat |-> case.stat, propType |-> propType, side |-> side,
                    line |-> line]
<1>1. PropGrade(propType, side, line) = ResolvePlayerProp(box, term)
  BY DEF PropGrade
<1>2. FindPlayerLine(box, "p") = stats
  BY DEF FindPlayerLine
<1>3. /\ case.stat \in DOMAIN StatFields
      /\ StatFields[case.stat] \subseteq DOMAIN stats
  BY CountedIsNumber
<1>4. Counted = SumFunctionOnSet(stats, StatFields[case.stat])
  BY DEF Counted
<1>5. PropType(term) = IF propType # "NONE" THEN propType
                       ELSE IF side \in {"YES", "NO"} THEN "YES_NO" ELSE "OVER_UNDER"
  BY DEF PropType
<1>6. /\ term.player = "p" /\ term.stat = case.stat /\ term.side = side /\ term.line = line
      /\ term.side # "NONE" /\ term.player # "NONE"
  OBVIOUS
<1> HIDE DEF stats, box, term
<1>7. QED
  BY <1>1, <1>2, <1>3, <1>4, <1>5, <1>6, Zenon DEF ResolvePlayerProp

LEMMA PropGrades ==
  ASSUME NEW line \in Int, NEW n \in Int
  PROVE  /\ GradePlayerProp("OVER_UNDER", "UNDER", line, n)
              = Mirror(GradePlayerProp("OVER_UNDER", "OVER", line, n))
         /\ GradePlayerProp("YES_NO", "NO", line, n) = Mirror(GradePlayerProp("YES_NO", "YES", line, n))
         /\ GradePlayerProp("YES_NO", "YES", line, n) = GradePlayerProp("OVER_UNDER", "OVER", 1, n)
         /\ GradePlayerProp("YES_NO", "OVER", line, n) = "ERROR"
         /\ \A side \in {"YES", "NO"} : GradePlayerProp("YES_NO", side, line, n) \in {"WON", "LOST"}
         /\ \A side \in {"OVER", "UNDER"} : GradePlayerProp("OVER_UNDER", side, line, n) \in Graded
BY DEF GradePlayerProp, Verdict, Mirror, Graded

(***************************************************************************)
(* The two sides of a player prop settle against each other, a YES is an   *)
(* OVER of half a unit, and a row without a prop type settles as the type  *)
(* its side belongs to (grade_player_prop, resolve_player_prop), for all   *)
(* lines and box scores.                                                   *)
(***************************************************************************)
THEOREM PropsSettleAgainstEachOther == Spec => []PropSidesMirror
<1>1. CaseOK => PropSidesMirror
  <2> SUFFICES ASSUME case \in PropCases PROVE PropSidesMirror
    BY DEF CaseOK, PropSidesMirror
  <2>1. PICK line \in Int : line = case.line
    BY RulesAssumption DEF PropCases
  <2>2. PICK n \in Int : n = Counted
    BY CountedIsNumber
  <2> DEFINE grade(type, side) == GradePlayerProp(type, side, line, n)
  <2>3. /\ PropGrade("OVER_UNDER", "UNDER", line) = grade("OVER_UNDER", "UNDER")
        /\ PropGrade("OVER_UNDER", "OVER", line) = grade("OVER_UNDER", "OVER")
        /\ PropGrade("NONE", "OVER", line) = grade("OVER_UNDER", "OVER")
    BY <2>2, PropIsGraded, PropGrades DEF Graded
  <2>4. /\ PropGrade("YES_NO", "YES", line) = grade("YES_NO", "YES")
        /\ PropGrade("YES_NO", "NO", line) = grade("YES_NO", "NO")
        /\ PropGrade("NONE", "YES", line) = grade("YES_NO", "YES")
        /\ PropGrade("YES_NO", "OVER", line) = "UNRESOLVED"
    BY <2>2, PropIsGraded, PropGrades
  <2>5. PropGrade("OVER_UNDER", "OVER", 1) = GradePlayerProp("OVER_UNDER", "OVER", 1, n)
    BY <2>2, PropIsGraded, PropGrades DEF Graded
  <2>6. QED
    BY <2>1, <2>3, <2>4, <2>5, PropGrades DEF PropSidesMirror
<1>2. QED
  BY <1>1, CaseInvariant, PTL
-----------------------------------------------------------------------------
(***************************************************************************)
(* Parlays.                                                                *)
(***************************************************************************)
\* What a leg makes of the stake that is carried to it.
Carry ==
  [p \in (1..LegCount) \X Int |->
     CASE case.legs[p[1]] = "WON" -> p[2] * case.odds[p[1]]
       [] case.legs[p[1]] = "LOST" -> 0
       [] OTHER -> p[2]]

WonTo(k) == {i \in 1..k : case.legs[i] = "WON"}

LEMMA ParlayInputs ==
  ASSUME case \in ParlayCases
  PROVE  /\ LegCount \in Nat /\ IsFiniteSet(1..LegCount)
         /\ DOMAIN case.legs = 1..LegCount
         /\ \A i \in 1..LegCount : /\ case.legs[i] \in Settled \cup {"OPEN"}
                                   /\ case.odds[i] \in Int
         /\ \A k \in 0..LegCount : IsNumeric(case.odds, WonTo(k))
<1>1. LegCount \in Nat /\ IsFiniteSet(1..LegCount)
  BY RulesAssumption, FS_Interval
<1>2. \A x \in Prices : x \in Int
  BY RulesAssumption
<1>3. /\ case.legs \in [1..LegCount -> Settled \cup {"OPEN"}]
      /\ case.odds \in [1..LegCount -> Prices]
  BY DEF ParlayCases
<1>4. \A i \in 1..LegCount : case.odds[i] \in Int
  BY <1>2, <1>3
<1>5. ASSUME NEW k \in 0..LegCount PROVE IsNumeric(case.odds, WonTo(k))
  <2>1. WonTo(k) \in SUBSET (1..LegCount)
    BY <1>1 DEF WonTo
  <2>2. IsFiniteSet(WonTo(k))
    BY <1>1, <2>1, FS_Subset
  <2>3. QED
    BY <1>4, <2>1, <2>2 DEF IsNumeric
<1>6. QED
  BY <1>1, <1>3, <1>4, <1>5

LEMMA CarryIs ==
  ASSUME case \in ParlayCases, NEW i \in 1..LegCount, NEW v \in Int
  PROVE  /\ Carry[<<i, v>>] = CASE case.legs[i] = "WON" -> v * case.odds[i]
                                [] case.legs[i] = "LOST" -> 0
                                [] OTHER -> v
         /\ Carry[<<i, v>>] \in Int
<1>1. case.odds[i] \in Int
  BY ParlayInputs
<1>2. v * case.odds[i] \in Int
  BY <1>1
<1>3. QED
  BY <1>2 DEF Carry

LEMMA CarryFoldable ==
  ASSUME case \in ParlayCases, NEW stake \in Int
  PROVE  Foldable(1..LegCount, Int, stake, Latest(LegCount), Carry)
<1>1. LegCount \in Nat /\ IsFiniteSet(1..LegCount)
  BY ParlayInputs
<1>2. Carry \in [(1..LegCount) \X Int -> Int]
  <2>1. ASSUME NEW p \in (1..LegCount) \X Int PROVE Carry[p] \in Int
    <3>1. p[1] \in 1..LegCount /\ p[2] \in Int /\ p = <<p[1], p[2]>>
      OBVIOUS
    <3>2. QED
      BY <3>1, CarryIs
  <2>2. QED
    BY <2>1 DEF Carry
<1>3. ASSUME NEW T \in SUBSET (1..LegCount), T # {} PROVE Latest(LegCount)[T] \in T
  BY <1>1, <1>3, LatestIsIn
<1>4. QED
  BY <1>1, <1>2, <1>3 DEF Foldable

\* Rolling over is a fold of that.
LEMMA RollOverIsFold ==
  ASSUME case \in ParlayCases, NEW stake \in Int
  PROVE  \E held : /\ IsFold(held, 1..LegCount, Int, stake, Latest(LegCount), Carry)
                   /\ RollOver(stake) = held[1..LegCount]
<1> DEFINE after(held, i) == CASE case.legs[i] = "WON" -> held * case.odds[i]
                               [] case.legs[i] = "LOST" -> 0
                               [] OTHER -> held
           places == [i \in 1..LegCount |-> i]
           Recursive(iter) ==
             iter = [s \in SUBSET (DOMAIN places) |->
                       IF s = {} THEN stake
                       ELSE LET x == Max(s) IN after(iter[s \ {x}], places[x])]
           held == CHOOSE iter : Recursive(iter)
<1>1. DOMAIN places = 1..LegCount /\ \A i \in 1..LegCount : places[i] = i
  OBVIOUS
<1>2. LegCount \in Nat
  BY ParlayInputs
<1>3. \E iter : Recursive(iter)
  <2>1. PICK iter : IsFold(iter, 1..LegCount, Int, stake, Latest(LegCount), Carry)
    BY CarryFoldable, FoldExists
  <2>2. ASSUME NEW s \in SUBSET (1..LegCount), s # {}
        PROVE  iter[s] = after(iter[s \ {Max(s)}], places[Max(s)])
    <3> DEFINE x == Max(s)
    <3>1. x \in s /\ x = Latest(LegCount)[s]
      BY <1>2, <2>2, LatestIsIn
    <3> HIDE DEF x, places
    <3>2. iter[s] = Carry[<<x, iter[s \ {x}]>>] /\ iter[s \ {x}] \in Int
      BY <2>1, <2>2, <3>1 DEF IsFold
    <3>3. x \in 1..LegCount /\ places[x] = x
      BY <1>1, <3>1
    <3>4. iter[s] = after(iter[s \ {x}], x)
      BY <3>2, <3>3, CarryIs
    <3>5. iter[s] = after(iter[s \ {x}], places[x])
      BY <3>3, <3>4
    <3>6. QED
      BY <3>5 DEF x
  <2>3. iter = [s \in SUBSET (1..LegCount) |-> iter[s]] /\ iter[{}] = stake
    BY <2>1 DEF IsFold
  <2> HIDE DEF after, places
  <2>4. Recursive(iter)
    BY <1>1, <2>2, <2>3
  <2>5. QED
    BY <2>4
<1>4. Recursive(held)
  <2> HIDE DEF Recursive
  <2> QED
    BY <1>3
<1> HIDE DEF held
<1>5. IsFold(held, 1..LegCount, Int, stake, Latest(LegCount), Carry)
  <2>1. held[{}] = stake /\ held = [s \in SUBSET (1..LegCount) |-> held[s]]
    <3> HIDE DEF after, places
    <3> QED
      BY <1>1, <1>4
  <2>2. ASSUME NEW T \in SUBSET (1..LegCount), T # {},
               held[T \ {Latest(LegCount)[T]}] \in Int
        PROVE  held[T] = Carry[<<Latest(LegCount)[T], held[T \ {Latest(LegCount)[T]}]>>]
    <3> DEFINE x == Max(T)
    <3>1. x \in T /\ x = Latest(LegCount)[T] /\ x \in 1..LegCount
      BY <1>2, <2>2, LatestIsIn
    <3>2. held[T] = after(held[T \ {x}], places[x])
      <4> HIDE DEF after, places
      <4> QED
        BY <1>1, <1>4, <2>2
    <3> HIDE DEF x, places
    <3>3. held[T \ {x}] \in Int /\ places[x] = x
      BY <1>1, <2>2, <3>1
    <3>4. Carry[<<x, held[T \ {x}]>>] = after(held[T \ {x}], x)
      BY <3>1, <3>3, CarryIs
    <3> HIDE DEF after
    <3>5. QED
      BY <3>1, <3>2, <3>3, <3>4
  <2>3. QED
    BY <2>1, <2>2, CarryFoldable, EquationIsFold
<1>6. RollOver(stake) = held[1..LegCount]
  <2>1. RollOver(stake) = held[DOMAIN places]
    BY DEF RollOver, FoldLeft, MapThenFoldSet, held
  <2>2. QED
    BY <1>1, <2>1
<1>7. QED
  BY <1>5, <1>6

\* After each leg the stake is gone, or multiplied by what was won so far.
LEMMA RollOverIsProduct ==
  ASSUME case \in ParlayCases, NEW stake \in Int
  PROVE  RollOver(stake) = IF \E i \in 1..LegCount : case.legs[i] = "LOST" THEN 0
                           ELSE stake * Product(case.odds, WonLegs(case.legs))
<1>1. PICK held : /\ IsFold(held, 1..LegCount, Int, stake, Latest(LegCount), Carry)
                  /\ RollOver(stake) = held[1..LegCount]
  BY RollOverIsFold
<1> DEFINE lost(k) == \E i \in 1..k : case.legs[i] = "LOST"
           product(k) == Product(case.odds, WonTo(k))
           expected(k) == IF lost(k) THEN 0 ELSE stake * product(k)
           G == {k \in Nat : k \in 0..LegCount => held[1..k] = expected(k)}
<1>2. LegCount \in Nat
  BY ParlayInputs
<1>3. /\ held[1..0] = stake
      /\ \A k \in 0..LegCount : held[1..k] \in Int
      /\ \A k \in 1..LegCount : held[1..k] = Carry[<<k, held[1..(k - 1)]>>]
  BY <1>1, <1>2, FoldOfPrefix
<1>4. 0 \in G
  <2>1. WonTo(0) = {} /\ ~lost(0)
    BY DEF WonTo
  <2>2. product(0) = 1
    BY <2>1, ProductEmpty
  <2> HIDE DEF lost, product
  <2>3. QED
    BY <1>3, <2>1, <2>2
<1>5. ASSUME NEW k \in Nat, k \in G PROVE k + 1 \in G
  <2> SUFFICES ASSUME k + 1 \in 0..LegCount PROVE held[1..(k + 1)] = expected(k + 1)
    OBVIOUS
  <2>1. k \in 0..LegCount /\ k + 1 \in 1..LegCount /\ (k + 1) - 1 = k /\ 1..(k + 1) = (1..k) \cup {k + 1}
    BY <1>2
  <2>2. held[1..k] = expected(k) /\ held[1..k] \in Int /\ held[1..(k + 1)] = Carry[<<k + 1, held[1..k]>>]
    BY <1>3, <1>5, <2>1
  <2>3. IsNumeric(case.odds, WonTo(k)) /\ IsNumeric(case.odds, WonTo(k + 1)) /\ case.odds[k + 1] \in Int
    BY <2>1, ParlayInputs
  <2>4. product(k) \in Int
    BY <2>3, ProductType
  <2>5. held[1..(k + 1)] = CASE case.legs[k + 1] = "WON" -> held[1..k] * case.odds[k + 1]
                            [] case.legs[k + 1] = "LOST" -> 0
                            [] OTHER -> held[1..k]
    BY <2>1, <2>2, CarryIs
  <2>6. lost(k + 1) <=> (lost(k) \/ case.legs[k + 1] = "LOST")
    BY <2>1
  <2>7. CASE case.legs[k + 1] = "WON"
    <3>1. WonTo(k + 1) = WonTo(k) \cup {k + 1} /\ k + 1 \notin WonTo(k)
      BY <2>1, <2>7 DEF WonTo
    <3>2. product(k + 1) = case.odds[k + 1] * product(k)
      BY <2>3, <3>1, ProductWith
    <3>3. held[1..(k + 1)] = held[1..k] * case.odds[k + 1]
      BY <2>5, <2>7
    <3>4. lost(k + 1) <=> lost(k)
      BY <2>6, <2>7
    <3> HIDE DEF lost, product
    <3>5. CASE lost(k)
      <4>1. held[1..k] = 0 /\ expected(k + 1) = 0
        BY <2>2, <3>4, <3>5
      <4>2. QED
        BY <2>3, <3>3, <4>1
    <3>6. CASE ~lost(k)
      <4>1. held[1..k] = stake * product(k) /\ expected(k + 1) = stake * product(k + 1)
        BY <2>2, <3>4, <3>6
      <4> HIDE DEF expected
      <4>2. QED
        BY <2>3, <2>4, <3>2, <3>3, <4>1
    <3>7. QED
      BY <3>5, <3>6
  <2>8. CASE case.legs[k + 1] # "WON"
    <3>1. WonTo(k + 1) = WonTo(k)
      BY <2>1, <2>8 DEF WonTo
    <3>2. product(k + 1) = product(k)
      BY <3>1
    <3> HIDE DEF lost, product
    <3>3. QED
      BY <2>2, <2>5, <2>6, <2>8, <3>2
  <2>9. QED
    BY <2>7, <2>8
<1>6. LegCount \in G
  <2> HIDE DEF G
  <2>1. Nat \subseteq G
    BY <1>4, <1>5, NaturalsIn
  <2>2. QED
    BY <1>2, <2>1
<1>7. held[1..LegCount] = expected(LegCount)
  BY <1>2, <1>6
<1>8. WonTo(LegCount) = WonLegs(case.legs)
  BY ParlayInputs DEF WonTo, WonLegs
<1>9. QED
  BY <1>1, <1>7, <1>8

(***************************************************************************)
(* For any number of legs and any odds, a settled parlay pays what rolling *)
(* the stake over its legs one by one would have paid, and it settles      *)
(* exactly when no leg is open (settle_parlay and profit_loss together).   *)
(***************************************************************************)
THEOREM ParlayPaysRollOver == Spec => []ParlayRollsOver
<1>1. CaseOK => ParlayRollsOver
  <2> SUFFICES ASSUME case \in ParlayCases PROVE ParlayRollsOver
    BY DEF CaseOK, ParlayRollsOver
  <2> DEFINE status == SettleParlay(case.legs)
             odds == Repriced(case.legs, case.odds)
  <2>1. DOMAIN case.legs = 1..LegCount /\ LegCount \in Nat
    BY ParlayInputs
  <2>2. odds = Product(case.odds, WonLegs(case.legs))
    BY DEF Repriced, Product
  <2>3. RollOver(2) = IF \E i \in 1..LegCount : case.legs[i] = "LOST" THEN 0 ELSE 2 * odds
    BY <2>2, RollOverIsProduct
  <2>4. odds \in Int
    <3>1. WonLegs(case.legs) = WonTo(LegCount)
      BY <2>1 DEF WonTo, WonLegs
    <3>2. IsNumeric(case.odds, WonTo(LegCount))
      BY <2>1, ParlayInputs
    <3>3. QED
      BY <2>2, <3>1, <3>2, ProductType
  <2> HIDE DEF odds
  <2>5. CASE \E i \in 1..LegCount : case.legs[i] = "OPEN"
    <3>1. status = "OPEN"
      BY <2>1, <2>5 DEF SettleParlay
    <3>2. QED
      BY <2>5, <3>1 DEF ParlayRollsOver
  <2>6. CASE \A i \in 1..LegCount : case.legs[i] # "OPEN"
    <3>1. CASE \E i \in 1..LegCount : case.legs[i] = "LOST"
      <4>1. status = "LOST"
        BY <2>1, <2>6, <3>1 DEF SettleParlay
      <4>2. ProfitLoss(status, 2, odds) = RollOver(2) - 2
        BY <2>3, <3>1, <4>1 DEF ProfitLoss
      <4>3. QED
        BY <2>6, <4>2 DEF ParlayRollsOver, odds
    <3>2. CASE \A i \in 1..LegCount : case.legs[i] # "LOST" /\ case.legs[i] \in Dropped
      <4>1. status = "PUSH"
        BY <2>1, <2>6, <3>2 DEF SettleParlay
      <4>2. WonLegs(case.legs) = {}
        BY <2>1, <3>2 DEF WonLegs, Dropped
      <4>3. odds = 1
        BY <2>2, <4>2, ProductEmpty
      <4>4. ProfitLoss(status, 2, odds) = RollOver(2) - 2
        BY <2>3, <3>2, <4>1, <4>3 DEF ProfitLoss
      <4>5. QED
        BY <2>6, <4>4 DEF ParlayRollsOver, odds
    <3>3. CASE /\ \A i \in 1..LegCount : case.legs[i] # "LOST"
               /\ ~ \A i \in 1..LegCount : case.legs[i] \in Dropped
      <4>1. status = "WON"
        BY <2>1, <2>6, <3>3 DEF SettleParlay
      <4>2. ProfitLoss(status, 2, odds) = RollOver(2) - 2
        BY <2>3, <2>4, <3>3, <4>1 DEF ProfitLoss
      <4>3. QED
        BY <2>6, <4>2 DEF ParlayRollsOver, odds
    <3>4. QED
      BY <3>1, <3>2, <3>3
  <2>7. QED
    BY <2>5, <2>6
<1>2. QED
  BY <1>1, CaseInvariant, PTL
-----------------------------------------------------------------------------
(***************************************************************************)
(* Closing prices.                                                         *)
(***************************************************************************)
HomeBet == [market |-> "SPREAD", side |-> "HOME", book |-> "a", line |-> case.quote]
ClosingPrices ==
  [market : {"SPREAD", "MONEYLINE"}, side : {"HOME", "AWAY"}, book : {"a", "b"},
   line : Quotes]

Comparable(closes) ==
  {i \in DOMAIN closes : closes[i].market = HomeBet.market /\ closes[i].side = HomeBet.side}
OwnBook(closes) == {i \in Comparable(closes) : closes[i].book = HomeBet.book}

LEMMA DistanceIsNumber ==
  ASSUME case \in CloseCases, NEW close \in ClosingPrices
  PROVE  Distance(HomeBet, close) \in Int
<1>1. close.line \in Quotes /\ HomeBet.line \in Quotes
  BY DEF ClosingPrices, HomeBet, CloseCases
<1>2. \A line \in CloseLines : line \in Int
  BY RulesAssumption
<1>3. \A quote \in Quotes : quote # << >> => quote[1] \in Int
  BY <1>2 DEF Quotes
<1>4. QED
  BY <1>1, <1>3 DEF Distance

LEMMA FirstIsOneOf ==
  ASSUME NEW n \in Nat, NEW places \in SUBSET (1..n), NEW closes
  PROVE  /\ FirstIfAny(closes, places) = << >> <=> places = {}
         /\ places # {} => \E i \in places : FirstIfAny(closes, places) = <<closes[i]>>
<1>1. CASE places = {}
  BY <1>1 DEF FirstIfAny
<1>2. CASE places # {}
  <2>1. IsFiniteSet(places) /\ \A x \in places : x \in Int
    BY PlacesAreFinite
  <2>2. Min(places) \in places
    BY <1>2, <2>1, MinIsLeast
  <2>3. QED
    BY <1>2, <2>2 DEF FirstIfAny
<1>3. QED
  BY <1>1, <1>2

LEMMA MatchIsComparable ==
  ASSUME case \in CloseCases, NEW n \in Nat, NEW closes \in [1..n -> ClosingPrices]
  PROVE  LET pick == MatchClosingLine(HomeBet, closes)
         IN  /\ pick = << >> <=> Comparable(closes) = {}
             /\ OwnBook(closes) # {} => \E i \in OwnBook(closes) : pick = <<closes[i]>>
             /\ OwnBook(closes) = {} /\ Comparable(closes) # {} =>
                  \E i \in Comparable(closes) :
                    /\ pick = <<closes[i]>>
                    /\ \A j \in Comparable(closes) :
                         Distance(HomeBet, closes[i]) <= Distance(HomeBet, closes[j])
<1> DEFINE pick == MatchClosingLine(HomeBet, closes)
           nearest == Nearest(HomeBet, closes, Comparable(closes))
           places == IF OwnBook(closes) # {} THEN OwnBook(closes) ELSE nearest
<1>1. pick = FirstIfAny(closes, places)
  BY DEF MatchClosingLine, Comparable, OwnBook
<1>2. /\ Comparable(closes) \in SUBSET (1..n)
      /\ OwnBook(closes) \in SUBSET Comparable(closes)
      /\ nearest \in SUBSET Comparable(closes)
  BY DEF Comparable, OwnBook, Nearest
<1>3. Comparable(closes) # {} => nearest # {}
  <2> SUFFICES ASSUME Comparable(closes) # {} PROVE nearest # {}
    OBVIOUS
  <2> DEFINE far == [i \in 1..n |-> Distance(HomeBet, closes[i])]
  <2>1. IsFiniteSet(Comparable(closes))
    BY <1>2, PlacesAreFinite
  <2>2. \A i \in Comparable(closes) : far[i] \in Int /\ far[i] = Distance(HomeBet, closes[i])
    BY <1>2, DistanceIsNumber
  <2> HIDE DEF far
  <2>3. \E i \in Comparable(closes) : \A j \in Comparable(closes) : far[i] <= far[j]
    BY <2>1, <2>2, LeastExists
  <2>4. QED
    BY <2>2, <2>3 DEF Nearest
<1>4. \A i \in nearest : \A j \in Comparable(closes) :
        Distance(HomeBet, closes[i]) <= Distance(HomeBet, closes[j])
  BY DEF Nearest
<1> HIDE DEF nearest, pick
<1>5. places \in SUBSET (1..n)
  BY <1>2
<1>6. /\ pick = << >> <=> places = {}
      /\ places # {} => \E i \in places : pick = <<closes[i]>>
  <2> HIDE DEF places
  <2> QED
    BY <1>1, <1>5, FirstIsOneOf
<1>7. pick = << >> <=> Comparable(closes) = {}
  BY <1>2, <1>3, <1>6
<1>8. OwnBook(closes) # {} => \E i \in OwnBook(closes) : pick = <<closes[i]>>
  BY <1>6
<1>9. OwnBook(closes) = {} /\ Comparable(closes) # {} =>
        \E i \in Comparable(closes) :
          /\ pick = <<closes[i]>>
          /\ \A j \in Comparable(closes) :
               Distance(HomeBet, closes[i]) <= Distance(HomeBet, closes[j])
  BY <1>2, <1>3, <1>4, <1>6
<1>10. QED
  BY <1>7, <1>8, <1>9, Zenon DEF pick

(***************************************************************************)
(* Of any number of closing prices, a bet is compared with one of its      *)
(* market and side whenever there is one: of its own book if that quotes   *)
(* it, else with none that is farther from its line than another           *)
(* (match_closing_line); only among equals does the order of the feed      *)
(* choose.                                                                 *)
(***************************************************************************)
THEOREM BetIsComparedWithItsPrice == Spec => []CloseIsComparable
<1>1. CaseOK => CloseIsComparable
  <2> SUFFICES ASSUME case \in CloseCases PROVE CloseIsComparable
    BY DEF CaseOK, CloseIsComparable
  <2> DEFINE closes == case.closes
             turned == Reverse(case.closes)
             n == CloseCount
             pick == MatchClosingLine(HomeBet, closes)
             last == MatchClosingLine(HomeBet, turned)
             far(close) == Distance(HomeBet, close)
  <2>1. n \in Nat /\ closes \in [1..n -> ClosingPrices]
    BY RulesAssumption DEF CloseCases, ClosingPrices
  <2>2. /\ turned \in [1..n -> ClosingPrices]
        /\ \A i \in 1..n : /\ (n - i) + 1 \in 1..n
                           /\ turned[i] = closes[(n - i) + 1]
                           /\ closes[i] = turned[(n - i) + 1]
    <3> HIDE DEF closes, n
    <3>1. Len(closes) = n
      BY <2>1
    <3>2. turned = [i \in 1..n |-> closes[(n - i) + 1]]
      BY <3>1 DEF Reverse, closes
    <3> HIDE DEF turned
    <3>3. \A i \in 1..n : (n - i) + 1 \in 1..n /\ (n - ((n - i) + 1)) + 1 = i
      BY <2>1
    <3>4. QED
      BY <2>1, <3>2, <3>3
  <2> HIDE DEF closes, turned, n
  <2>3. /\ Comparable(closes) = {i \in 1..n : /\ closes[i].market = HomeBet.market
                                              /\ closes[i].side = HomeBet.side}
        /\ \A i \in Comparable(turned) : \E j \in Comparable(closes) : turned[i] = closes[j]
        /\ \A i \in Comparable(closes) : \E j \in Comparable(turned) : closes[i] = turned[j]
        /\ OwnBook(closes) = {} => OwnBook(turned) = {}
    <3>1. DOMAIN closes = 1..n /\ DOMAIN turned = 1..n
      BY <2>1, <2>2
    <3>2. ASSUME NEW i \in Comparable(turned)
          PROVE  (n - i) + 1 \in Comparable(closes) /\ turned[i] = closes[(n - i) + 1]
      BY <2>2, <3>1 DEF Comparable
    <3>3. ASSUME NEW i \in Comparable(closes)
          PROVE  (n - i) + 1 \in Comparable(turned) /\ closes[i] = turned[(n - i) + 1]
      BY <2>2, <3>1 DEF Comparable
    <3>4. ASSUME NEW i \in OwnBook(turned) PROVE (n - i) + 1 \in OwnBook(closes)
      BY <3>2 DEF OwnBook
    <3>5. \A i \in Comparable(turned) : \E j \in Comparable(closes) : turned[i] = closes[j]
      BY <3>2
    <3>6. \A i \in Comparable(closes) : \E j \in Comparable(turned) : closes[i] = turned[j]
      BY <3>3
    <3>7. OwnBook(closes) = {} => OwnBook(turned) = {}
      BY <3>4
    <3>8. QED
      BY <3>1, <3>5, <3>6, <3>7 DEF Comparable
  <2>4. /\ pick = << >> <=> Comparable(closes) = {}
        /\ OwnBook(closes) # {} => \E i \in OwnBook(closes) : pick = <<closes[i]>>
        /\ OwnBook(closes) = {} /\ Comparable(closes) # {} =>
             \E i \in Comparable(closes) :
               /\ pick = <<closes[i]>>
               /\ \A j \in Comparable(closes) : far(closes[i]) <= far(closes[j])
    BY <2>1, MatchIsComparable
  <2>5. OwnBook(turned) = {} /\ Comparable(turned) # {} =>
          \E i \in Comparable(turned) :
            /\ last = <<turned[i]>>
            /\ \A j \in Comparable(turned) : far(turned[i]) <= far(turned[j])
    BY <2>1, <2>2, MatchIsComparable
  <2>6. \A i \in Comparable(closes) : far(closes[i]) \in Int
    BY <2>1, <2>3, DistanceIsNumber
  <2> HIDE DEF pick, last, far
  <2>7. ASSUME OwnBook(closes) = {}, Comparable(closes) # {}
        PROVE  /\ \E i \in Comparable(closes) : pick[1] = closes[i]
               /\ \A j \in Comparable(closes) : far(pick[1]) <= far(closes[j])
               /\ far(pick[1]) = far(last[1])
    <3>1. PICK i \in Comparable(closes) :
            /\ pick = <<closes[i]>>
            /\ \A j \in Comparable(closes) : far(closes[i]) <= far(closes[j])
      BY <2>4, <2>7
    <3>2. PICK k \in Comparable(turned) :
            /\ last = <<turned[k]>>
            /\ \A j \in Comparable(turned) : far(turned[k]) <= far(turned[j])
      BY <2>3, <2>5, <2>7
    <3>3. PICK m \in Comparable(closes) : turned[k] = closes[m]
      BY <2>3
    <3>4. PICK o \in Comparable(turned) : closes[i] = turned[o]
      BY <2>3
    <3>5. far(closes[i]) <= far(closes[m]) /\ far(closes[m]) <= far(closes[i])
      BY <3>1, <3>2, <3>3, <3>4
    <3>6. far(closes[i]) = far(closes[m])
      BY <2>6, <3>5
    <3>7. pick[1] = closes[i] /\ last[1] = closes[m]
      BY <3>1, <3>2, <3>3
    <3>8. QED
      BY <3>1, <3>6, <3>7
  <2>8. ASSUME OwnBook(closes) # {} PROVE \E i \in OwnBook(closes) : pick[1] = closes[i]
    BY <2>4, <2>8
  <2> DEFINE comparable == {i \in 1..CloseCount : /\ case.closes[i].market = HomeBet.market
                                                  /\ case.closes[i].side = HomeBet.side}
             own == {i \in comparable : case.closes[i].book = HomeBet.book}
  <2>9. comparable = Comparable(closes) /\ own = OwnBook(closes)
    BY <2>3 DEF OwnBook, closes, n
  <2>10. /\ pick = << >> <=> comparable = {}
         /\ pick # << >> =>
              /\ \E i \in (IF own # {} THEN own ELSE comparable) : pick[1] = closes[i]
              /\ own = {} => /\ \A i \in comparable : far(pick[1]) <= far(closes[i])
                             /\ far(pick[1]) = far(last[1])
    <3> HIDE DEF comparable, own
    <3> QED
      BY <2>4, <2>7, <2>8, <2>9
  <2>11. QED
    BY <2>10, Zenon DEF CloseIsComparable, HomeBet, pick, last, far, closes, turned
<1>2. QED
  BY <1>1, CaseInvariant, PTL
-----------------------------------------------------------------------------
(***************************************************************************)
(* Calibration.                                                            *)
(***************************************************************************)
Places == SettledBets(case.bets)
Bin(n, b) == CalibrationBins(case.bets, n)[b]
Gaps(n) == [b \in 0..(n - 1) |-> Gap(case.bets, Bin(n, b))]
\* The settled bets of the first bins, and how far each is off.
Below(n, m) == {i \in Places : BinOf(case.bets[i], n) < m}
Offs == [i \in 1..BookLength |->
           IF Errors(case.bets)[i] < 0 THEN -Errors(case.bets)[i] ELSE Errors(case.bets)[i]]

LEMMA QuotientIs ==
  ASSUME NEW x \in Nat, NEW s \in Nat \ {0}
  PROVE  x \div s \in Nat /\ (x \div s) * s <= x /\ x < (x \div s + 1) * s
OBVIOUS

LEMMA CancelsStrictly ==
  ASSUME NEW x \in Int, NEW y \in Int, NEW c \in Int, c > 0, x * c < y * c
  PROVE  x < y
OBVIOUS

\* The bins of a probability, when there are n and when there are twice as many.
LEMMA BinIsHalved ==
  ASSUME NEW bet, bet.p \in 0..Scale, NEW n \in Nat \ {0}
  PROVE  /\ BinOf(bet, n) \in 0..(n - 1)
         /\ BinOf(bet, 2 * n) \in {2 * BinOf(bet, n), 2 * BinOf(bet, n) + 1}
<1> DEFINE x == bet.p * n
           y == bet.p * (2 * n)
           i == x \div Scale
           j == y \div Scale
<1>1. Scale \in Nat \ {0}
  BY PerformanceAssumption
<1>2. x \in Nat /\ y \in Nat /\ y = 2 * x /\ x <= n * Scale
  BY <1>1
<1>3. i \in Nat /\ i * Scale <= x /\ x < (i + 1) * Scale
  <2> HIDE DEF x
  <2> QED BY <1>1, <1>2, QuotientIs
<1>4. j \in Nat /\ j * Scale <= y /\ y < (j + 1) * Scale
  <2> HIDE DEF y
  <2> QED BY <1>1, <1>2, QuotientIs
<1>5. BinOf(bet, n) = (IF i < n THEN i ELSE n - 1)
      /\ BinOf(bet, 2 * n) = (IF j < 2 * n THEN j ELSE 2 * n - 1)
  BY DEF BinOf
<1> HIDE DEF x, y, i, j
<1>6. i <= n
  <2>1. i * Scale <= n * Scale
    <3>1. i * Scale \in Int /\ n * Scale \in Int
      BY <1>1, <1>3
    <3>2. QED
      BY <1>2, <1>3, <3>1
  <2>2. QED
    BY <1>1, <1>3, <2>1, Cancels
<1>7. 2 * i < j + 1
  <2>1. (2 * i) * Scale = 2 * (i * Scale) /\ i * Scale \in Int /\ (j + 1) * Scale \in Int
    BY <1>1, <1>3, <1>4
  <2>2. (2 * i) * Scale < (j + 1) * Scale
    BY <1>2, <1>3, <1>4, <2>1
  <2>3. QED
    BY <1>1, <1>3, <1>4, <2>2, CancelsStrictly
<1>8. j < 2 * i + 2
  <2>1. (2 * i + 2) * Scale = 2 * ((i + 1) * Scale) /\ (i + 1) * Scale \in Int /\ j * Scale \in Int
    BY <1>1, <1>3, <1>4
  <2>2. j * Scale < (2 * i + 2) * Scale
    BY <1>2, <1>3, <1>4, <2>1
  <2>3. QED
    BY <1>1, <1>3, <1>4, <2>2, CancelsStrictly
<1>9. QED
  BY <1>3, <1>4, <1>5, <1>6, <1>7, <1>8

LEMMA BookInputs ==
  ASSUME case \in BookCases
  PROVE  /\ Places \in SUBSET (1..BookLength) /\ IsFiniteSet(Places)
         /\ DOMAIN case.bets = 1..BookLength
         /\ \A i \in 1..BookLength : case.bets[i].p \in 0..Scale
         /\ \A i \in 1..BookLength : Errors(case.bets)[i] \in Int /\ Offs[i] \in Nat
         /\ \A T \in SUBSET Places : IsNumeric(Errors(case.bets), T) /\ IsNumeric(Offs, T)
<1>1. BookLength \in Nat /\ Scale \in Nat
  BY RulesAssumption, PerformanceAssumption
<1>2. case.bets \in [1..BookLength -> [status : Graded, p : 0..Scale, at : {1}]]
  BY DEF BookCases
<1>3. Places \in SUBSET (1..BookLength)
  BY <1>2 DEF Places, SettledBets
<1>4. IsFiniteSet(Places)
  BY <1>1, <1>3, PlacesAreFinite
<1>5. ASSUME NEW i \in 1..BookLength
      PROVE  case.bets[i].p \in 0..Scale /\ Errors(case.bets)[i] \in Int /\ Offs[i] \in Nat
  <2>1. case.bets[i].p \in 0..Scale
    BY <1>2
  <2>2. Errors(case.bets)[i] \in Int
    BY <1>1, <1>2, <2>1 DEF Errors, Outcome
  <2>3. Offs[i] \in Nat
    BY <2>2 DEF Offs
  <2>4. QED
    BY <2>1, <2>2, <2>3
<1>6. ASSUME NEW T \in SUBSET Places
      PROVE  IsNumeric(Errors(case.bets), T) /\ IsNumeric(Offs, T)
  <2>1. IsFiniteSet(T)
    BY <1>4, FS_Subset
  <2>2. QED
    BY <1>3, <1>5, <2>1 DEF IsNumeric
<1>7. QED
  BY <1>2, <1>3, <1>4, <1>5, <1>6

LEMMA GapIs ==
  ASSUME case \in BookCases, NEW T \in SUBSET Places
  PROVE  LET excess == SumFunctionOnSet(Errors(case.bets), T)
             gap == Gap(case.bets, T)
         IN  /\ excess \in Int /\ gap \in Nat /\ gap \in {excess, -excess}
             /\ -gap <= excess /\ excess <= gap
<1>1. SumFunctionOnSet(Errors(case.bets), T) \in Int
  BY BookInputs, SumType
<1>2. QED
  BY <1>1 DEF Gap

LEMMA BinsAre ==
  ASSUME case \in BookCases, NEW n \in Nat \ {0}
  PROVE  /\ \A b \in 0..(n - 1) : /\ Bin(n, b) = {i \in Places : BinOf(case.bets[i], n) = b}
                                  /\ Bin(n, b) \in SUBSET Places
                                  /\ Gaps(n)[b] = Gap(case.bets, Bin(n, b))
                                  /\ Gaps(n)[b] \in Nat
         /\ \A i \in Places :
              /\ BinOf(case.bets[i], n) \in 0..(n - 1)
              /\ BinOf(case.bets[i], 2 * n)
                   \in {2 * BinOf(case.bets[i], n), 2 * BinOf(case.bets[i], n) + 1}
         /\ CalibrationError(case.bets, n) = SumFunctionOnSet(Gaps(n), 0..(n - 1))
<1>1. ASSUME NEW b \in 0..(n - 1)
      PROVE  /\ Bin(n, b) = {i \in Places : BinOf(case.bets[i], n) = b}
             /\ Bin(n, b) \in SUBSET Places
             /\ Gaps(n)[b] = Gap(case.bets, Bin(n, b))
             /\ Gaps(n)[b] \in Nat
  <2>1. Bin(n, b) = {i \in Places : BinOf(case.bets[i], n) = b}
    BY DEF Bin, CalibrationBins, Places
  <2>2. Gaps(n)[b] = Gap(case.bets, Bin(n, b))
    BY DEF Gaps
  <2>3. Gap(case.bets, Bin(n, b)) \in Nat
    BY <2>1, GapIs
  <2>4. QED
    BY <2>1, <2>2, <2>3
<1>2. \A i \in Places : case.bets[i].p \in 0..Scale
  BY BookInputs
<1>3. CalibrationError(case.bets, n) = SumFunctionOnSet(Gaps(n), 0..(n - 1))
  BY Zenon DEF CalibrationError, SumFunction, Gaps, Bin
<1>4. QED
  BY <1>1, <1>2, <1>3, BinIsHalved

\* Of one bin.
LEMMA OneBin ==
  ASSUME case \in BookCases
  PROVE  CalibrationError(case.bets, 1) = Gap(case.bets, Places)
<1>1. /\ Bin(1, 0) = {i \in Places : BinOf(case.bets[i], 1) = 0}
      /\ Gaps(1)[0] = Gap(case.bets, Bin(1, 0)) /\ Gaps(1)[0] \in Nat
      /\ \A i \in Places : BinOf(case.bets[i], 1) \in 0..0
      /\ CalibrationError(case.bets, 1) = SumFunctionOnSet(Gaps(1), 0..0)
  <2>1. 1 \in Nat \ {0} /\ 1 - 1 = 0 /\ 0 \in 0..0
    OBVIOUS
  <2>2. QED
    BY <2>1, BinsAre
<1>2. Bin(1, 0) = Places
  BY <1>1
<1>3. SumFunctionOnSet(Gaps(1), 0..0) = Gaps(1)[0] + SumFunctionOnSet(Gaps(1), 0..(0 - 1))
  <2>1. 0 \in Nat /\ \A b \in 0..0 : Gaps(1)[b] \in Int
    BY <1>1
  <2>2. QED
    BY <2>1, SumToNext
<1>4. SumFunctionOnSet(Gaps(1), 0..(0 - 1)) = 0
  <2>1. 0..(0 - 1) = {}
    OBVIOUS
  <2>2. QED
    BY <2>1, SumEmpty
<1>5. QED
  BY <1>1, <1>2, <1>3, <1>4

\* A bin and its halves.
LEMMA GapOfHalves ==
  ASSUME case \in BookCases, NEW n \in Nat \ {0}, NEW b \in 0..(n - 1)
  PROVE  Gaps(n)[b] <= Gaps(2 * n)[2 * b] + Gaps(2 * n)[2 * b + 1]
<1> DEFINE lower == Bin(2 * n, 2 * b)
           upper == Bin(2 * n, 2 * b + 1)
           E(T) == SumFunctionOnSet(Errors(case.bets), T)
<1>1. 2 * n \in Nat \ {0} /\ 2 * b \in 0..(2 * n - 1) /\ 2 * b + 1 \in 0..(2 * n - 1) /\ b \in Nat
  OBVIOUS
<1>2. /\ lower = {i \in Places : BinOf(case.bets[i], 2 * n) = 2 * b}
      /\ upper = {i \in Places : BinOf(case.bets[i], 2 * n) = 2 * b + 1}
      /\ Gaps(2 * n)[2 * b] = Gap(case.bets, lower)
      /\ Gaps(2 * n)[2 * b + 1] = Gap(case.bets, upper)
  BY <1>1, BinsAre
<1>3. /\ Bin(n, b) = {i \in Places : BinOf(case.bets[i], n) = b}
      /\ Gaps(n)[b] = Gap(case.bets, Bin(n, b))
  BY BinsAre
<1> HIDE DEF lower, upper
<1>4. lower \cap upper = {} /\ lower \in SUBSET Places /\ upper \in SUBSET Places
  BY <1>1, <1>2
<1>5. Bin(n, b) = lower \cup upper
  <2>1. ASSUME NEW i \in Places
        PROVE  BinOf(case.bets[i], n) = b
                 <=> BinOf(case.bets[i], 2 * n) \in {2 * b, 2 * b + 1}
    <3>1. /\ BinOf(case.bets[i], n) \in 0..(n - 1)
          /\ BinOf(case.bets[i], 2 * n)
               \in {2 * BinOf(case.bets[i], n), 2 * BinOf(case.bets[i], n) + 1}
      BY BinsAre
    <3>2. QED
      BY <1>1, <3>1
  <2>2. QED
    BY <1>2, <1>3, <2>1
<1>6. E(lower \cup upper) = E(lower) + E(upper)
  <2>1. IsNumeric(Errors(case.bets), lower \cup upper)
    BY <1>4, BookInputs
  <2>2. QED
    BY <1>4, <2>1, SumOfParts
<1>7. /\ E(lower) \in Int /\ E(upper) \in Int
      /\ Gap(case.bets, lower) \in Nat /\ Gap(case.bets, upper) \in Nat
      /\ -Gap(case.bets, lower) <= E(lower) /\ E(lower) <= Gap(case.bets, lower)
      /\ -Gap(case.bets, upper) <= E(upper) /\ E(upper) <= Gap(case.bets, upper)
  BY <1>4, GapIs
<1>8. Gap(case.bets, lower \cup upper) \in {E(lower \cup upper), -E(lower \cup upper)}
  <2>1. lower \cup upper \in SUBSET Places
    BY <1>4
  <2>2. QED
    BY <2>1, GapIs, Zenon
<1>9. ASSUME NEW a \in Int, NEW c \in Int, NEW g, NEW g1 \in Int, NEW g2 \in Int,
             g \in {a + c, -(a + c)}, -g1 <= a, a <= g1, -g2 <= c, c <= g2
      PROVE  g <= g1 + g2
  BY <1>9
<1> HIDE DEF E
<1>10. Gap(case.bets, lower \cup upper) <= Gap(case.bets, lower) + Gap(case.bets, upper)
  <2>1. Gap(case.bets, lower) \in Int /\ Gap(case.bets, upper) \in Int
    BY <1>7
  <2>2. Gap(case.bets, lower \cup upper) \in {E(lower) + E(upper), -(E(lower) + E(upper))}
    BY <1>6, <1>8
  <2>3. QED
    BY <1>7, <1>9, <2>1, <2>2
<1>11. QED
  BY <1>2, <1>3, <1>5, <1>10

LEMMA HalvingHidesNothing ==
  ASSUME case \in BookCases, NEW n \in Nat \ {0}
  PROVE  CalibrationError(case.bets, n) <= CalibrationError(case.bets, 2 * n)
<1> DEFINE coarse(m) == SumFunctionOnSet(Gaps(n), 0..(m - 1))
           fine(m) == SumFunctionOnSet(Gaps(2 * n), 0..(m - 1))
           G == {m \in Nat : m <= n => coarse(m) <= fine(2 * m)}
<1>1. 2 * n \in Nat \ {0}
  OBVIOUS
<1>2. /\ \A b \in 0..(n - 1) : Gaps(n)[b] \in Int
      /\ \A b \in 0..(2 * n - 1) : Gaps(2 * n)[b] \in Int
  <2>1. \A b \in 0..(n - 1) : Gaps(n)[b] \in Nat
    BY BinsAre
  <2>2. \A b \in 0..(2 * n - 1) : Gaps(2 * n)[b] \in Nat
    BY <1>1, BinsAre
  <2>3. QED
    BY <2>1, <2>2
<1>3. 0 \in G
  <2>1. 0..(0 - 1) = {} /\ 0..(2 * 0 - 1) = {}
    OBVIOUS
  <2>2. coarse(0) = 0 /\ fine(2 * 0) = 0
    BY <2>1, SumEmpty
  <2>3. QED
    BY <2>2
<1>4. ASSUME NEW m \in Nat, m \in G PROVE m + 1 \in G
  <2> SUFFICES ASSUME m + 1 <= n PROVE coarse(m + 1) <= fine(2 * (m + 1))
    OBVIOUS
  <2>1. coarse(m) <= fine(2 * m)
    BY <1>4
  <2>2. coarse(m + 1) = Gaps(n)[m] + coarse(m) /\ coarse(m) \in Int /\ Gaps(n)[m] \in Int
    <3>1. \A b \in 0..m : Gaps(n)[b] \in Int
      BY <1>2
    <3>2. (m + 1) - 1 = m
      OBVIOUS
    <3>3. QED
      BY <3>1, <3>2, SumToNext
  <2>3. /\ fine(2 * m + 1) = Gaps(2 * n)[2 * m] + fine(2 * m)
        /\ fine(2 * m) \in Int /\ Gaps(2 * n)[2 * m] \in Int
    <3>1. \A b \in 0..(2 * m) : Gaps(2 * n)[b] \in Int
      BY <1>2
    <3>2. (2 * m + 1) - 1 = 2 * m /\ 2 * m \in Nat
      OBVIOUS
    <3>3. QED
      BY <3>1, <3>2, SumToNext
  <2>4. /\ fine(2 * (m + 1)) = Gaps(2 * n)[2 * m + 1] + fine(2 * m + 1)
        /\ Gaps(2 * n)[2 * m + 1] \in Int
    <3>1. \A b \in 0..(2 * m + 1) : Gaps(2 * n)[b] \in Int
      BY <1>2
    <3>2. 2 * (m + 1) - 1 = 2 * m + 1 /\ 2 * m + 1 \in Nat
      OBVIOUS
    <3>3. QED
      BY <3>1, <3>2, SumToNext
  <2>5. Gaps(n)[m] <= Gaps(2 * n)[2 * m] + Gaps(2 * n)[2 * m + 1]
    BY GapOfHalves
  <2> HIDE DEF coarse, fine
  <2>6. QED
    BY <2>1, <2>2, <2>3, <2>4, <2>5
<1>5. Nat \subseteq G
  <2> HIDE DEF G
  <2> QED BY <1>3, <1>4, NaturalsIn
<1>6. coarse(n) <= fine(2 * n)
  BY <1>5
<1>7. CalibrationError(case.bets, n) = coarse(n) /\ CalibrationError(case.bets, 2 * n) = fine(2 * n)
  BY <1>1, BinsAre
<1>8. QED
  BY <1>6, <1>7

\* The bins together are off by no more than the bets.
LEMMA ErrorIsWithinOffs ==
  ASSUME case \in BookCases, NEW n \in Nat \ {0}
  PROVE  /\ CalibrationError(case.bets, n) \in Nat
         /\ CalibrationError(case.bets, n) <= SumFunctionOnSet(Offs, Places)
<1> DEFINE binned(m) == SumFunctionOnSet(Gaps(n), 0..(m - 1))
           off(T) == SumFunctionOnSet(Offs, T)
           G == {m \in Nat : m <= n => /\ binned(m) \in Nat
                                       /\ binned(m) <= off(Below(n, m))}
<1>1. \A m : Below(n, m) \in SUBSET Places
  BY DEF Below
<1>2. \A T \in SUBSET Places : off(T) \in Int
  BY BookInputs, SumType
<1>3. ASSUME NEW T \in SUBSET Places PROVE Gap(case.bets, T) <= off(T)
  <2>1. IsNumeric(Errors(case.bets), T) /\ IsNumeric(Offs, T)
    BY BookInputs
  <2>2. \A i \in T : -Offs[i] <= Errors(case.bets)[i] /\ Errors(case.bets)[i] <= Offs[i]
    <3>1. ASSUME NEW i \in T
          PROVE  -Offs[i] <= Errors(case.bets)[i] /\ Errors(case.bets)[i] <= Offs[i]
      <4>1. i \in 1..BookLength /\ Errors(case.bets)[i] \in Int
        BY BookInputs
      <4>2. QED
        BY <4>1 DEF Offs
    <3>2. QED
      BY <3>1
  <2>3. -off(T) <= SumFunctionOnSet(Errors(case.bets), T)
        /\ SumFunctionOnSet(Errors(case.bets), T) <= off(T)
    BY <2>1, <2>2, SumIsWithin
  <2>4. off(T) \in Int
    BY <1>2
  <2> HIDE DEF off
  <2>5. QED
    BY <2>3, <2>4, GapIs
<1>4. 0 \in G
  <2>1. 0..(0 - 1) = {}
    OBVIOUS
  <2>2. Below(n, 0) = {}
    BY BinsAre DEF Below
  <2>3. binned(0) = 0 /\ off(Below(n, 0)) = 0
    BY <2>1, <2>2, SumEmpty
  <2> HIDE DEF binned, off
  <2>4. QED
    BY <2>3
<1>5. ASSUME NEW m \in Nat, m \in G PROVE m + 1 \in G
  <2> SUFFICES ASSUME m + 1 <= n
               PROVE  binned(m + 1) \in Nat /\ binned(m + 1) <= off(Below(n, m + 1))
    OBVIOUS
  <2>1. binned(m) \in Nat /\ binned(m) <= off(Below(n, m))
    BY <1>5
  <2>2. binned(m + 1) = Gaps(n)[m] + binned(m)
    <3>1. \A b \in 0..(n - 1) : Gaps(n)[b] \in Nat
      BY BinsAre
    <3>2. \A b \in 0..m : Gaps(n)[b] \in Int
      BY <3>1
    <3>3. (m + 1) - 1 = m
      OBVIOUS
    <3>4. QED
      BY <3>2, <3>3, SumToNext
  <2>3. /\ Bin(n, m) = {i \in Places : BinOf(case.bets[i], n) = m}
        /\ Bin(n, m) \in SUBSET Places
        /\ Gaps(n)[m] = Gap(case.bets, Bin(n, m)) /\ Gaps(n)[m] \in Nat
    <3>1. m \in 0..(n - 1)
      OBVIOUS
    <3>2. QED
      BY <3>1, BinsAre
  <2>4. Below(n, m + 1) = Below(n, m) \cup Bin(n, m) /\ Below(n, m) \cap Bin(n, m) = {}
    <3>1. \A i \in Places : BinOf(case.bets[i], n) \in Int
      BY BinsAre
    <3>2. QED
      BY <2>3, <3>1 DEF Below
  <2>5. off(Below(n, m + 1)) = off(Below(n, m)) + off(Bin(n, m))
    <3>1. IsNumeric(Offs, Below(n, m) \cup Bin(n, m))
      <4>1. Below(n, m) \cup Bin(n, m) \in SUBSET Places
        BY <1>1, <2>3
      <4>2. QED
        BY <4>1, BookInputs
    <3>2. QED
      BY <2>4, <3>1, SumOfParts
  <2>6. off(Bin(n, m)) \in Int /\ off(Below(n, m)) \in Int /\ Gap(case.bets, Bin(n, m)) <= off(Bin(n, m))
    BY <1>1, <1>2, <1>3, <2>3
  <2> HIDE DEF binned, off
  <2>7. QED
    BY <2>1, <2>2, <2>3, <2>5, <2>6
<1>6. Nat \subseteq G
  <2> HIDE DEF G
  <2> QED BY <1>4, <1>5, NaturalsIn
<1>7. binned(n) \in Nat /\ binned(n) <= off(Below(n, n))
  BY <1>6
<1>8. Below(n, n) = Places
  BY BinsAre DEF Below
<1>9. CalibrationError(case.bets, n) = binned(n)
  BY BinsAre
<1>10. QED
  BY <1>7, <1>8, <1>9

LEMMA SquareIsMonotone ==
  ASSUME NEW x \in Nat, NEW y \in Int, x <= y
  PROVE  x * x <= y * y
OBVIOUS

LEMMA SquaredErrorIsWithinBrier ==
  ASSUME case \in BookCases, NEW n \in Nat \ {0}
  PROVE  CalibrationError(case.bets, n) * CalibrationError(case.bets, n)
           <= Cardinality(Places) * Brier(case.bets)
<1> DEFINE squares == [i \in 1..BookLength |-> Errors(case.bets)[i] * Errors(case.bets)[i]]
           error == CalibrationError(case.bets, n)
           off == SumFunctionOnSet(Offs, Places)
           brier == SumFunctionOnSet(squares, Places)
<1>1. error \in Nat /\ error <= off /\ off \in Int
  BY ErrorIsWithinOffs, BookInputs, SumType
<1>2. Brier(case.bets) = brier
  <2>1. DOMAIN case.bets = 1..BookLength
    BY BookInputs
  <2>2. QED
    BY <2>1, Zenon DEF Brier, Places
<1>3. \A i \in Places : squares[i] = Offs[i] * Offs[i] /\ squares[i] \in Int
  <2>1. ASSUME NEW i \in Places PROVE squares[i] = Offs[i] * Offs[i] /\ squares[i] \in Int
    <3>1. i \in 1..BookLength /\ Errors(case.bets)[i] \in Int
      BY BookInputs
    <3>2. squares[i] = Errors(case.bets)[i] * Errors(case.bets)[i]
      BY <3>1
    <3>3. Offs[i] = (IF Errors(case.bets)[i] < 0 THEN -Errors(case.bets)[i] ELSE Errors(case.bets)[i])
      BY <3>1 DEF Offs
    <3> HIDE DEF squares
    <3>4. QED
      BY <3>1, <3>2, <3>3
  <2>2. QED
    BY <2>1
<1> HIDE DEF squares
<1>4. off * off <= Cardinality(Places) * brier
  <2>1. IsNumeric(Offs, Places)
    BY BookInputs
  <2>2. QED
    BY <1>3, <2>1, SquareOfSum
<1>5. Cardinality(Places) \in Nat /\ brier \in Int
  <2>1. IsNumeric(squares, Places)
    BY <1>3, BookInputs DEF IsNumeric
  <2>2. QED
    BY <2>1, BookInputs, FS_CardinalityType, SumType
<1> HIDE DEF error, off, brier
<1>6. error * error <= off * off
  BY <1>1, SquareIsMonotone
<1>7. error * error \in Int /\ off * off \in Int /\ Cardinality(Places) * brier \in Int
  BY <1>1, <1>5
<1>8. error * error <= Cardinality(Places) * brier
  BY <1>4, <1>6, <1>7
<1>9. QED
  BY <1>2, <1>8 DEF error

(***************************************************************************)
(* For any number of bets, predictions and bins, halving the bins never    *)
(* hides an error, one bin shows what the wins differ from the             *)
(* predictions, and the squared calibration error is at most the Brier     *)
(* score (calibration_bins, expected_calibration_error, brier_score).      *)
(***************************************************************************)
THEOREM CalibrationErrorIsBounded == Spec => []CalibrationIsBounded
<1>1. CaseOK => CalibrationIsBounded
  <2> SUFFICES ASSUME case \in BookCases PROVE CalibrationIsBounded
    BY DEF CaseOK, CalibrationIsBounded
  <2>1. \A n \in BinCounts : n \in Nat \ {0}
    BY PerformanceAssumption DEF BinCounts
  <2>2. CalibrationError(case.bets, 1) = Gap(case.bets, SettledBets(case.bets))
    BY OneBin DEF Places
  <2>3. \A n \in BinCounts : CalibrationError(case.bets, n) <= CalibrationError(case.bets, 2 * n)
    BY <2>1, HalvingHidesNothing
  <2>4. \A n \in BinCounts : CalibrationError(case.bets, n) * CalibrationError(case.bets, n)
                               <= Cardinality(SettledBets(case.bets)) * Brier(case.bets)
    BY <2>1, SquaredErrorIsWithinBrier DEF Places
  <2>5. QED
    BY <2>2, <2>3, <2>4, Zenon DEF CalibrationIsBounded
<1>2. QED
  BY <1>1, CaseInvariant, PTL
-----------------------------------------------------------------------------
(***************************************************************************)
(* Streaks.                                                                *)
(***************************************************************************)
StreakBets == [i \in 1..StreakLength |->
                 [status |-> case.statuses[i], p |-> 0, at |-> case.times[i]]]
DecidedPlaces == {i \in 1..StreakLength : case.statuses[i] \in Decided}
Runs == [status : {"NONE"} \cup Decided, length : Nat, WON : Nat, LOST : Nat]
LastOf == [T \in SUBSET DecidedPlaces |-> LastGraded(StreakBets, T)]
Prolonging == [p \in DecidedPlaces \X Runs |-> Prolong(StreakBets[p[1]], p[2])]

\* The places from i to j among some, and the longest runs of a status there.
Stretch(T, i, j) == {k \in T : (k = i \/ Earlier(i, k)) /\ (k = j \/ Earlier(k, j))}
RunIn(T, status, i, j) == \A k \in Stretch(T, i, j) : case.statuses[k] = status
IsLongest(n, T, ends, status) ==
  /\ n \in Nat
  /\ n # 0 => \E i \in T, j \in ends : RunIn(T, status, i, j) /\ n = Cardinality(Stretch(T, i, j))
  /\ \A i \in T, j \in ends : RunIn(T, status, i, j) => Cardinality(Stretch(T, i, j)) <= n

LEMMA StreakInputs ==
  ASSUME case \in StreakCases
  PROVE  /\ StreakLength \in Nat /\ DecidedPlaces \in SUBSET (1..StreakLength)
         /\ IsFiniteSet(DecidedPlaces)
         /\ \A i \in 1..StreakLength : case.times[i] \in Int
         /\ \A i \in DecidedPlaces : /\ i \in Int /\ case.times[i] \in Int
                                     /\ case.statuses[i] \in {"WON", "LOST"}
                                     /\ StreakBets[i].status = case.statuses[i]
                                     /\ StreakBets[i].at = case.times[i]
<1>1. StreakLength \in Nat
  BY RulesAssumption
<1>2. DecidedPlaces \in SUBSET (1..StreakLength)
  BY DEF DecidedPlaces
<1>3. IsFiniteSet(DecidedPlaces)
  BY <1>1, <1>2, PlacesAreFinite
<1>4. case.times \in [1..StreakLength -> 1..StreakLength]
  BY DEF StreakCases
<1>5. \A i \in 1..StreakLength : case.times[i] \in Int
  <2>1. \A i \in 1..StreakLength : case.times[i] \in 1..StreakLength
    BY <1>4
  <2>2. QED
    BY <1>1, <2>1
<1>6. \A i \in 1..StreakLength : /\ StreakBets[i].status = case.statuses[i]
                                 /\ StreakBets[i].at = case.times[i]
  BY DEF StreakBets
<1>7. \A i \in DecidedPlaces : case.statuses[i] \in {"WON", "LOST"}
  BY DEF DecidedPlaces, Decided
<1>8. \A i \in DecidedPlaces : i \in 1..StreakLength /\ i \in Int
  BY <1>1, <1>2
<1>9. \A i \in DecidedPlaces : /\ i \in Int /\ case.times[i] \in Int
                               /\ case.statuses[i] \in {"WON", "LOST"}
                               /\ StreakBets[i].status = case.statuses[i]
                               /\ StreakBets[i].at = case.times[i]
  <2> HIDE DEF DecidedPlaces, StreakBets
  <2> QED BY <1>5, <1>6, <1>7, <1>8
<1>10. QED
  BY <1>1, <1>2, <1>3, <1>5, <1>9

LEMMA EarlierIsOrder ==
  ASSUME case \in StreakCases, NEW i \in DecidedPlaces, NEW j \in DecidedPlaces
  PROVE  /\ i = j \/ Earlier(i, j) \/ Earlier(j, i)
         /\ ~(Earlier(i, j) /\ Earlier(j, i)) /\ (i = j => ~Earlier(i, j))
         /\ \A k \in DecidedPlaces : Earlier(i, j) /\ Earlier(j, k) => Earlier(i, k)
<1>1. \A k \in DecidedPlaces : k \in Int /\ case.times[k] \in Int
  BY StreakInputs
<1>2. QED
  BY <1>1 DEF Earlier

LEMMA LastIsIn ==
  ASSUME case \in StreakCases, NEW U \in SUBSET DecidedPlaces, U # {}
  PROVE  /\ LastOf[U] \in U /\ \A j \in U : j = LastOf[U] \/ Earlier(j, LastOf[U])
<1> DEFINE comesLast(T, i) == \A j \in T : j = i \/ Earlier(j, i)
           G == {T \in SUBSET DecidedPlaces : T = {} \/ \E i \in T : comesLast(T, i)}
<1>1. ASSUME NEW T \in SUBSET DecidedPlaces, \A x \in T : T \ {x} \in G, NEW x \in T PROVE T \in G
  <2>1. CASE T \ {x} = {}
    <3>1. comesLast(T, x)
      BY <2>1
    <3>2. QED
      BY <3>1
  <2>2. ASSUME NEW m \in T \ {x}, comesLast(T \ {x}, m) PROVE T \in G
    <3>1. m \in DecidedPlaces /\ x \in DecidedPlaces /\ m # x
      OBVIOUS
    <3>2. CASE Earlier(x, m)
      <4>1. comesLast(T, m)
        BY <2>2, <3>2
      <4>2. QED
        BY <4>1
    <3>3. CASE Earlier(m, x)
      <4>1. \A j \in T \ {x} : Earlier(j, m) => Earlier(j, x)
        BY <3>1, <3>3, EarlierIsOrder
      <4>2. comesLast(T, x)
        BY <2>2, <3>3, <4>1
      <4>3. QED
        BY <4>2
    <3>4. QED
      BY <3>1, <3>2, <3>3, EarlierIsOrder
  <2>3. QED
    BY <1>1, <2>1, <2>2
<1>2. SUBSET DecidedPlaces \subseteq G
  <2>1. \A T \in SUBSET DecidedPlaces : (\A x \in T : T \ {x} \in G) => T \in G
    BY <1>1
  <2>2. IsFiniteSet(DecidedPlaces)
    BY StreakInputs
  <2> HIDE DEF G
  <2> QED
    BY <2>1, <2>2, SubsetsIn
<1>3. \E i \in U : comesLast(U, i)
  BY <1>2
<1>4. \A i, j \in U : (j = i \/ Earlier(j, i))
                        <=> \/ StreakBets[j].at < StreakBets[i].at
                            \/ StreakBets[j].at = StreakBets[i].at /\ j <= i
  <2>1. \A i \in U : i \in Int /\ StreakBets[i].at = case.times[i] /\ case.times[i] \in Int
    BY StreakInputs
  <2>2. QED
    BY <2>1 DEF Earlier
<1>5. \E i \in U : \A j \in U : \/ StreakBets[j].at < StreakBets[i].at
                                \/ StreakBets[j].at = StreakBets[i].at /\ j <= i
  BY <1>3, <1>4
<1>6. /\ LastGraded(StreakBets, U) \in U
      /\ \A j \in U : \/ StreakBets[j].at < StreakBets[LastGraded(StreakBets, U)].at
                      \/ /\ StreakBets[j].at = StreakBets[LastGraded(StreakBets, U)].at
                         /\ j <= LastGraded(StreakBets, U)
  BY <1>5 DEF LastGraded
<1>7. LastOf[U] = LastGraded(StreakBets, U)
  BY DEF LastOf
<1>8. QED
  BY <1>4, <1>6, <1>7

LEMMA ProlongIs ==
  ASSUME NEW bet, bet.status \in {"WON", "LOST"}, NEW run \in Runs
  PROVE  LET length == IF bet.status = run.status THEN run.length + 1 ELSE 1
             longer(n) == IF length > n THEN length ELSE n
             next == Prolong(bet, run)
         IN  /\ next \in Runs /\ next.status = bet.status /\ next.length = length
             /\ next.WON = IF bet.status = "WON" THEN longer(run.WON) ELSE run.WON
             /\ next.LOST = IF bet.status = "LOST" THEN longer(run.LOST) ELSE run.LOST
<1> DEFINE length == IF bet.status = run.status THEN run.length + 1 ELSE 1
           best == IF length > run[bet.status] THEN length ELSE run[bet.status]
           next == [run EXCEPT !["status"] = bet.status, !["length"] = length,
                               ![bet.status] = IF length > @ THEN length ELSE @]
<1>1. /\ run.status \in {"NONE", "WON", "LOST"} /\ run.length \in Nat
      /\ run.WON \in Nat /\ run.LOST \in Nat
      /\ DOMAIN run = {"status", "length", "WON", "LOST"}
  BY DEF Runs, Decided
<1>2. length \in Nat /\ best \in Nat /\ best = (IF length > run[bet.status] THEN length ELSE run[bet.status])
  BY <1>1
<1>3. Prolong(bet, run) = next
  BY DEF Prolong
<1> HIDE DEF length
<1>4. /\ DOMAIN next = {"status", "length", "WON", "LOST"}
      /\ next["status"] = bet.status /\ next["length"] = length
      /\ next["WON"] = IF bet.status = "WON" THEN best ELSE run["WON"]
      /\ next["LOST"] = IF bet.status = "LOST" THEN best ELSE run["LOST"]
      /\ next = [f \in {"status", "length", "WON", "LOST"} |-> next[f]]
  <2> HIDE DEF best
  <2>1. CASE bet.status = "WON"
    BY <1>1, <1>2, <2>1
  <2>2. CASE bet.status = "LOST"
    BY <1>1, <1>2, <2>2
  <2>3. QED
    BY <2>1, <2>2
<1> HIDE DEF next
<1>5. next \in Runs
  <2>1. next["WON"] \in Nat /\ next["LOST"] \in Nat
    BY <1>1, <1>2, <1>4
  <2>2. QED
    BY <1>2, <1>4, <2>1 DEF Runs, Decided
<1>6. QED
  BY <1>3, <1>4, <1>5 DEF length

LEMMA ProlongingIs ==
  ASSUME case \in StreakCases, NEW i \in DecidedPlaces, NEW run \in Runs
  PROVE  /\ Prolonging[<<i, run>>] = Prolong(StreakBets[i], run)
         /\ Prolonging[<<i, run>>] \in Runs
<1>1. StreakBets[i].status \in {"WON", "LOST"}
  BY StreakInputs
<1>2. Prolong(StreakBets[i], run) \in Runs
  BY <1>1, ProlongIs
<1>3. Prolonging[<<i, run>>] = Prolong(StreakBets[i], run)
  BY DEF Prolonging
<1>4. QED
  BY <1>2, <1>3

LEMMA ProlongingFoldable ==
  ASSUME case \in StreakCases
  PROVE  Foldable(DecidedPlaces, Runs, NoRun, LastOf, Prolonging)
<1>1. NoRun \in Runs
  BY DEF NoRun, Runs
<1>2. Prolonging \in [DecidedPlaces \X Runs -> Runs]
  <2>1. ASSUME NEW p \in DecidedPlaces \X Runs PROVE Prolonging[p] \in Runs
    <3>1. p[1] \in DecidedPlaces /\ p[2] \in Runs /\ p = <<p[1], p[2]>>
      OBVIOUS
    <3>2. QED
      BY <3>1, ProlongingIs
  <2>2. QED
    BY <2>1 DEF Prolonging
<1>3. QED
  BY <1>1, <1>2, StreakInputs, LastIsIn DEF Foldable

\* The run is a fold of that over the decided bets.
LEMMA StreaksIsFold ==
  ASSUME case \in StreakCases
  PROVE  \E run : /\ IsFold(run, DecidedPlaces, Runs, NoRun, LastOf, Prolonging)
                  /\ Streaks(StreakBets) = StreaksOf(run[DecidedPlaces])
<1> DEFINE Recursive(iter) ==
             iter = [s \in SUBSET SettledBets(StreakBets) |->
                       IF s = {} THEN NoRun
                       ELSE LET x == LastGraded(StreakBets, s)
                            IN  Prolong(StreakBets[x], iter[s \ {x}])]
           run == CHOOSE iter : Recursive(iter)
<1>1. SettledBets(StreakBets) = DecidedPlaces
  <2>1. DOMAIN StreakBets = 1..StreakLength
    BY DEF StreakBets
  <2>2. \A i \in 1..StreakLength : StreakBets[i].status = case.statuses[i]
    BY DEF StreakBets
  <2>3. QED
    BY <2>1, <2>2 DEF SettledBets, DecidedPlaces
<1>2. \A s \in SUBSET DecidedPlaces :
        /\ LastOf[s] = LastGraded(StreakBets, s)
        /\ s # {} => LastOf[s] \in s
  BY LastIsIn DEF LastOf
<1>3. \E iter : Recursive(iter)
  <2>1. PICK iter : IsFold(iter, DecidedPlaces, Runs, NoRun, LastOf, Prolonging)
    BY ProlongingFoldable, FoldExists
  <2>2. ASSUME NEW s \in SUBSET DecidedPlaces, s # {}
        PROVE  iter[s] = Prolong(StreakBets[LastGraded(StreakBets, s)],
                                 iter[s \ {LastGraded(StreakBets, s)}])
    <3> DEFINE x == LastGraded(StreakBets, s)
    <3>1. x \in s /\ x = LastOf[s]
      BY <1>2, <2>2
    <3> HIDE DEF x
    <3>2. iter[s] = Prolonging[<<x, iter[s \ {x}]>>] /\ iter[s \ {x}] \in Runs
      BY <2>1, <2>2, <3>1 DEF IsFold
    <3>3. Prolonging[<<x, iter[s \ {x}]>>] = Prolong(StreakBets[x], iter[s \ {x}])
      BY <3>1, <3>2, ProlongingIs
    <3>4. iter[s] = Prolong(StreakBets[x], iter[s \ {x}])
      BY <3>2, <3>3, Zenon
    <3>5. QED
      BY <3>4, Zenon DEF x
  <2>3. iter = [s \in SUBSET DecidedPlaces |-> iter[s]] /\ iter[{}] = NoRun
    BY <2>1 DEF IsFold
  <2>4. Recursive(iter)
    BY <1>1, <2>2, <2>3
  <2>5. QED
    BY <2>4
<1>4. Recursive(run)
  <2> HIDE DEF Recursive
  <2> QED
    BY <1>3
<1> HIDE DEF run
<1>5. IsFold(run, DecidedPlaces, Runs, NoRun, LastOf, Prolonging)
  <2>1. run[{}] = NoRun /\ run = [s \in SUBSET DecidedPlaces |-> run[s]]
    BY <1>1, <1>4
  <2>2. ASSUME NEW T \in SUBSET DecidedPlaces, T # {}, run[T \ {LastOf[T]}] \in Runs
        PROVE  run[T] = Prolonging[<<LastOf[T], run[T \ {LastOf[T]}]>>]
    <3> DEFINE x == LastOf[T]
    <3>1. x \in T /\ x = LastGraded(StreakBets, T)
      BY <1>2, <2>2
    <3>2. run[T] = Prolong(StreakBets[x], run[T \ {x}])
      BY <1>1, <1>4, <2>2, <3>1
    <3>3. run[T \ {x}] \in Runs
      BY <2>2
    <3> HIDE DEF x
    <3>4. Prolonging[<<x, run[T \ {x}]>>] = Prolong(StreakBets[x], run[T \ {x}])
      BY <3>1, <3>3, ProlongingIs
    <3>5. run[T] = Prolonging[<<x, run[T \ {x}]>>]
      BY <3>2, <3>4, Zenon
    <3>6. QED
      BY <3>5, Zenon DEF x
  <2>3. QED
    BY <2>1, <2>2, ProlongingFoldable, EquationIsFold
<1>6. Streaks(StreakBets) = StreaksOf(run[SettledBets(StreakBets)])
  BY DEF Streaks, MapThenFoldSet, run
<1>7. QED
  BY <1>1, <1>5, <1>6

ComesLast(T, x) == \A j \in T : j = x \/ Earlier(j, x)

LEMMA StretchIsFinite ==
  ASSUME case \in StreakCases, NEW T \in SUBSET DecidedPlaces, NEW i, NEW j
  PROVE  IsFiniteSet(Stretch(T, i, j)) /\ Cardinality(Stretch(T, i, j)) \in Nat
<1>1. Stretch(T, i, j) \in SUBSET DecidedPlaces /\ IsFiniteSet(DecidedPlaces)
  BY StreakInputs DEF Stretch
<1>2. IsFiniteSet(Stretch(T, i, j))
  BY <1>1, FS_Subset
<1>3. QED
  BY <1>2, FS_CardinalityType

\* What one later place adds to the stretches among some places.
LEMMA StretchGrows ==
  ASSUME case \in StreakCases, NEW T \in SUBSET DecidedPlaces, NEW x \in T, ComesLast(T, x)
  PROVE  LET U == T \ {x}
         IN  /\ \A i, j \in U : Stretch(T, i, j) = Stretch(U, i, j)
             /\ \A j \in U : Stretch(T, x, j) = {}
             /\ Stretch(T, x, x) = {x}
             /\ \A i \in T : x \in Stretch(T, i, x)
             /\ \A y \in U : ComesLast(U, y) =>
                  \A i \in U : Stretch(T, i, x) = Stretch(U, i, y) \cup {x} /\ y \in Stretch(U, i, y)
<1> DEFINE U == T \ {x}
<1>1. \A j \in U : Earlier(j, x) /\ ~Earlier(x, j) /\ j # x
  <2>1. \A j \in U : Earlier(j, x)
    BY DEF ComesLast
  <2>2. \A j \in U : j \in DecidedPlaces /\ x \in DecidedPlaces
    OBVIOUS
  <2>3. QED
    BY <2>1, <2>2, EarlierIsOrder
<1>2. \A i, j \in U : Stretch(T, i, j) = Stretch(U, i, j)
  BY <1>1 DEF Stretch
<1>3. \A j \in U : Stretch(T, x, j) = {}
  BY <1>1 DEF Stretch
<1>4. Stretch(T, x, x) = {x}
  BY <1>1 DEF Stretch
<1>5. ASSUME NEW y \in U, ComesLast(U, y), NEW i \in U
      PROVE  Stretch(T, i, x) = Stretch(U, i, y) \cup {x} /\ y \in Stretch(U, i, y)
  <2>1. \A k \in U : k = y \/ Earlier(k, y)
    BY <1>5 DEF ComesLast
  <2>2. i = y \/ Earlier(i, y)
    BY <2>1
  <2>3. x = i \/ Earlier(i, x)
    BY <1>1
  <2>4. QED
    BY <1>1, <2>1, <2>2, <2>3 DEF Stretch
<1>6. \A i \in T : x \in Stretch(T, i, x)
  BY <1>1 DEF Stretch
<1>7. QED
  BY <1>2, <1>3, <1>4, <1>5, <1>6, Zenon

\* What a run tells of the places that it was prolonged by.
StreakInv(T, run) ==
  /\ T = {} => run = NoRun
  /\ \A x \in T : ComesLast(T, x) => /\ run.status = case.statuses[x]
                                     /\ IsLongest(run.length, T, {x}, case.statuses[x])
  /\ IsLongest(run.WON, T, T, "WON") /\ IsLongest(run.LOST, T, T, "LOST")

LEMMA CurrentRunGrows ==
  ASSUME case \in StreakCases, NEW T \in SUBSET DecidedPlaces, NEW x \in T, ComesLast(T, x),
         NEW run \in Runs, StreakInv(T \ {x}, run)
  PROVE  LET s == case.statuses[x]
         IN  IsLongest(IF s = run.status THEN run.length + 1 ELSE 1, T, {x}, s)
<1> DEFINE U == T \ {x}
           s == case.statuses[x]
           n == IF s = run.status THEN run.length + 1 ELSE 1
           size(i) == Cardinality(Stretch(T, i, x))
<1>1. /\ Stretch(T, x, x) = {x} /\ RunIn(T, s, x, x) /\ size(x) = 1
      /\ \A i \in T : size(i) \in Nat
  <2>1. Stretch(T, x, x) = {x}
    BY StretchGrows, Zenon
  <2>2. Cardinality({x}) = 1
    BY FS_Singleton
  <2>3. QED
    BY <2>1, <2>2, StretchIsFinite DEF RunIn
<1>2. run.length \in Nat /\ n \in Nat /\ n >= 1
  BY DEF Runs
<1>3. s \in {"WON", "LOST"}
  BY StreakInputs
<1>4. CASE U = {}
  <2>1. run = NoRun
    BY <1>4 DEF StreakInv
  <2>2. n = 1
    BY <1>3, <2>1 DEF NoRun
  <2>3. T = {x}
    BY <1>4
  <2> HIDE DEF s, n
  <2>4. IsLongest(n, T, {x}, s)
    BY <1>1, <2>2, <2>3 DEF IsLongest
  <2>5. QED
    BY <2>4 DEF s, n
<1>5. ASSUME NEW y \in U, ComesLast(U, y) PROVE IsLongest(n, T, {x}, s)
  <2> DEFINE part(i) == Cardinality(Stretch(U, i, y))
  <2>1. /\ run.status = case.statuses[y]
        /\ IsLongest(run.length, U, {y}, case.statuses[y])
    BY <1>5 DEF StreakInv
  <2>2. ASSUME NEW i \in U
        PROVE  /\ Stretch(T, i, x) = Stretch(U, i, y) \cup {x}
               /\ y \in Stretch(U, i, y)
               /\ size(i) = part(i) + 1 /\ part(i) \in Nat
    <3>1. Stretch(T, i, x) = Stretch(U, i, y) \cup {x} /\ y \in Stretch(U, i, y)
      <4>1. \A z \in U : ComesLast(U, z) =>
              \A k \in U : Stretch(T, k, x) = Stretch(U, k, z) \cup {x} /\ z \in Stretch(U, k, z)
        BY StretchGrows, Zenon
      <4>2. QED
        BY <1>5, <4>1, Zenon
    <3>2. IsFiniteSet(Stretch(U, i, y)) /\ Cardinality(Stretch(U, i, y)) \in Nat
      <4>1. U \in SUBSET DecidedPlaces
        OBVIOUS
      <4>2. QED
        BY <4>1, StretchIsFinite, Zenon
    <3>3. x \notin Stretch(U, i, y)
      BY DEF Stretch
    <3>4. Cardinality(Stretch(U, i, y) \cup {x}) = Cardinality(Stretch(U, i, y)) + 1
      BY <3>2, <3>3, FS_AddElement
    <3>5. QED
      BY <3>1, <3>2, <3>4
  <2>3. \A i \in U : RunIn(T, s, i, x) <=> RunIn(U, s, i, y)
    BY <2>2 DEF RunIn
  <2>4. \A i \in U : RunIn(T, s, i, x) => s = case.statuses[y]
    BY <2>2 DEF RunIn
  <2> HIDE DEF s, U, size, part
  <2>5. CASE s = run.status
    <3>1. n = run.length + 1
      BY <2>5
    <3>2. /\ run.length # 0 => \E i \in U : RunIn(U, s, i, y) /\ run.length = part(i)
          /\ \A i \in U : RunIn(U, s, i, y) => part(i) <= run.length
      BY <2>1, <2>5 DEF IsLongest, part
    <3>3. \A i \in T : RunIn(T, s, i, x) => size(i) <= n
      <4>1. \A i \in U : RunIn(T, s, i, x) => size(i) <= n
        BY <1>2, <2>2, <2>3, <3>1, <3>2
      <4>2. \A i \in T : i = x \/ i \in U
        BY DEF U
      <4>3. QED
        BY <1>1, <1>2, <4>1, <4>2
    <3>4. \E i \in T : RunIn(T, s, i, x) /\ n = size(i)
      <4>1. CASE run.length = 0
        BY <1>1, <3>1, <4>1
      <4>2. CASE run.length # 0
        <5>1. PICK i \in U : RunIn(U, s, i, y) /\ run.length = part(i)
          BY <3>2, <4>2
        <5>2. RunIn(T, s, i, x) /\ n = size(i) /\ i \in T
          BY <2>2, <2>3, <3>1, <5>1 DEF U
        <5>3. QED
          BY <5>2
      <4>3. QED
        BY <4>1, <4>2
    <3> HIDE DEF n
    <3>5. QED
      BY <1>2, <3>3, <3>4 DEF IsLongest, size
  <2>6. CASE s # run.status
    <3>1. n = 1 /\ \A i \in U : ~RunIn(T, s, i, x)
      BY <2>1, <2>4, <2>6
    <3>2. \A i \in T : RunIn(T, s, i, x) => i = x
      BY <3>1 DEF U
    <3> HIDE DEF n
    <3>3. QED
      BY <1>1, <1>2, <3>1, <3>2 DEF IsLongest, size
  <2>7. QED
    BY <2>5, <2>6
<1>6. QED
  <2>1. U # {} => \E y \in U : ComesLast(U, y)
    <3>1. U \in SUBSET DecidedPlaces
      OBVIOUS
    <3> HIDE DEF U
    <3>2. QED
      BY <3>1, LastIsIn DEF ComesLast
  <2>2. QED
    BY <1>4, <1>5, <2>1

LEMMA LongestRunGrows ==
  ASSUME case \in StreakCases, NEW T \in SUBSET DecidedPlaces, NEW x \in T, ComesLast(T, x),
         NEW n \in Nat, NEW m, NEW status, IsLongest(m, T \ {x}, T \ {x}, status),
         \/ case.statuses[x] # status /\ n = m
         \/ /\ case.statuses[x] = status
            /\ \E length \in Nat : /\ length # 0 /\ IsLongest(length, T, {x}, status)
                                   /\ n = IF length > m THEN length ELSE m
  PROVE  IsLongest(n, T, T, status)
<1> DEFINE U == T \ {x}
           size(i, j) == Cardinality(Stretch(T, i, j))
<1>1. /\ \A i, j \in U : /\ size(i, j) = Cardinality(Stretch(U, i, j))
                         /\ RunIn(T, status, i, j) <=> RunIn(U, status, i, j)
      /\ \A j \in U : size(x, j) = 0
      /\ \A i \in T : RunIn(T, status, i, x) => case.statuses[x] = status
  <2>1. /\ \A i, j \in U : Stretch(T, i, j) = Stretch(U, i, j)
        /\ \A j \in U : Stretch(T, x, j) = {}
        /\ \A i \in T : x \in Stretch(T, i, x)
    BY StretchGrows, Zenon
  <2>2. Cardinality({}) = 0
    BY FS_EmptySet
  <2>3. QED
    BY <2>1, <2>2 DEF RunIn
<1>2. /\ m \in Nat
      /\ m # 0 => \E i, j \in U : RunIn(T, status, i, j) /\ m = size(i, j)
      /\ \A i, j \in U : RunIn(T, status, i, j) => size(i, j) <= m
  <2> HIDE DEF U, size
  <2>1. IsLongest(m, U, U, status)
    BY DEF U
  <2>2. QED
    BY <1>1, <2>1 DEF IsLongest
<1>3. \A i \in T : i = x \/ i \in U
  OBVIOUS
<1>4. \A i \in U : i \in T
  OBVIOUS
<1>5. \A i, j \in T : size(i, j) \in Nat
  BY StretchIsFinite
<1>6. CASE case.statuses[x] # status /\ n = m
  <2>1. \A i \in T : ~RunIn(T, status, i, x)
    BY <1>1, <1>6
  <2> HIDE DEF U, size
  <2>2. \A i, j \in T : RunIn(T, status, i, j) => size(i, j) <= m
    BY <1>1, <1>2, <1>3, <2>1
  <2>3. QED
    BY <1>2, <1>4, <1>6, <2>2 DEF IsLongest, size
<1>7. ASSUME case.statuses[x] = status, NEW length \in Nat, length # 0,
             IsLongest(length, T, {x}, status), n = IF length > m THEN length ELSE m
      PROVE  IsLongest(n, T, T, status)
  <2>1. /\ \E i \in T : RunIn(T, status, i, x) /\ length = size(i, x)
        /\ \A i \in T : RunIn(T, status, i, x) => size(i, x) <= length
    BY <1>7 DEF IsLongest
  <2> HIDE DEF U, size
  <2>2. \A i, j \in T : RunIn(T, status, i, j) => size(i, j) <= n
    <3>1. SUFFICES ASSUME NEW i \in T, NEW j \in T, RunIn(T, status, i, j) PROVE size(i, j) <= n
      OBVIOUS
    <3>2. CASE j = x
      BY <1>2, <1>5, <1>7, <2>1, <3>1, <3>2
    <3>3. CASE j \in U /\ i = x
      BY <1>1, <1>2, <1>7, <3>3
    <3>4. CASE j \in U /\ i \in U
      BY <1>2, <1>5, <1>7, <3>1, <3>4
    <3>5. QED
      BY <1>3, <3>2, <3>3, <3>4
  <2>3. n # 0 => \E i, j \in T : RunIn(T, status, i, j) /\ n = size(i, j)
    BY <1>2, <1>4, <1>7, <2>1
  <2>4. QED
    BY <2>2, <2>3 DEF IsLongest, size
<1>8. QED
  BY <1>6, <1>7

LEMMA StreakInvIsKept ==
  ASSUME case \in StreakCases, NEW T \in SUBSET DecidedPlaces, NEW x \in T, ComesLast(T, x),
         NEW run \in Runs, StreakInv(T \ {x}, run)
  PROVE  StreakInv(T, Prolong(StreakBets[x], run))
<1> DEFINE s == case.statuses[x]
           length == IF s = run.status THEN run.length + 1 ELSE 1
           next == Prolong(StreakBets[x], run)
<1>1. s \in {"WON", "LOST"} /\ StreakBets[x].status = s
  BY StreakInputs
<1>2. length \in Nat /\ length # 0
  BY DEF Runs
<1>3. IsLongest(length, T, {x}, s)
  BY CurrentRunGrows
<1>4. /\ next \in Runs /\ next.status = s /\ next.length = length
      /\ next.WON = IF s = "WON" THEN (IF length > run.WON THEN length ELSE run.WON) ELSE run.WON
      /\ next.LOST = IF s = "LOST" THEN (IF length > run.LOST THEN length ELSE run.LOST) ELSE run.LOST
  BY <1>1, ProlongIs
<1> HIDE DEF s, length, next
<1>5. next.WON \in Nat /\ next.LOST \in Nat
  BY <1>4 DEF Runs
<1>6. IsLongest(run.WON, T \ {x}, T \ {x}, "WON") /\ IsLongest(run.LOST, T \ {x}, T \ {x}, "LOST")
  BY DEF StreakInv
<1>7. IsLongest(next.WON, T, T, "WON")
  <2>1. \/ s # "WON" /\ next.WON = run.WON
        \/ /\ s = "WON" /\ length # 0 /\ IsLongest(length, T, {x}, "WON")
           /\ next.WON = IF length > run.WON THEN length ELSE run.WON
    BY <1>2, <1>3, <1>4
  <2>2. QED
    BY <1>2, <1>5, <1>6, <2>1, LongestRunGrows DEF s
<1>8. IsLongest(next.LOST, T, T, "LOST")
  <2>1. \/ s # "LOST" /\ next.LOST = run.LOST
        \/ /\ s = "LOST" /\ length # 0 /\ IsLongest(length, T, {x}, "LOST")
           /\ next.LOST = IF length > run.LOST THEN length ELSE run.LOST
    BY <1>2, <1>3, <1>4
  <2>2. QED
    BY <1>2, <1>5, <1>6, <2>1, LongestRunGrows DEF s
<1>9. \A z \in T : ComesLast(T, z) => z = x
  <2>1. ASSUME NEW z \in T, ComesLast(T, z), z # x PROVE FALSE
    <3>1. Earlier(x, z) /\ Earlier(z, x)
      BY <2>1 DEF ComesLast
    <3>2. z \in DecidedPlaces /\ x \in DecidedPlaces
      OBVIOUS
    <3>3. QED
      BY <3>1, <3>2, EarlierIsOrder
  <2>2. QED
    BY <2>1
<1>10. StreakInv(T, next)
  BY <1>3, <1>4, <1>7, <1>8, <1>9 DEF StreakInv, s
<1>11. QED
  BY <1>10 DEF next

LEMMA RunTellsStreaks ==
  ASSUME case \in StreakCases,
         NEW run, IsFold(run, DecidedPlaces, Runs, NoRun, LastOf, Prolonging)
  PROVE  StreakInv(DecidedPlaces, run[DecidedPlaces])
<1> DEFINE G == {T \in SUBSET DecidedPlaces : StreakInv(T, run[T])}
<1>1. ASSUME NEW T \in SUBSET DecidedPlaces, \A x \in T : T \ {x} \in G PROVE T \in G
  <2>1. CASE T = {}
    <3>1. run[T] = NoRun
      BY <2>1 DEF IsFold
    <3>2. StreakInv(T, run[T])
      BY <2>1, <3>1 DEF StreakInv, IsLongest, NoRun
    <3>3. QED
      BY <3>2
  <2>2. CASE T # {}
    <3> DEFINE x == LastOf[T]
    <3>1. x \in T /\ ComesLast(T, x)
      BY <2>2, LastIsIn DEF ComesLast
    <3>2. run[T] = Prolonging[<<x, run[T \ {x}]>>] /\ run[T \ {x}] \in Runs
      BY <2>2 DEF IsFold
    <3> HIDE DEF x
    <3>3. Prolonging[<<x, run[T \ {x}]>>] = Prolong(StreakBets[x], run[T \ {x}])
      BY <3>1, <3>2, ProlongingIs
    <3>4. StreakInv(T \ {x}, run[T \ {x}])
      BY <1>1, <3>1
    <3>5. StreakInv(T, Prolong(StreakBets[x], run[T \ {x}]))
      BY <3>1, <3>2, <3>4, StreakInvIsKept
    <3>6. StreakInv(T, run[T])
      BY <3>2, <3>3, <3>5, Zenon
    <3>7. QED
      BY <3>6
  <2>3. QED
    BY <2>1, <2>2
<1>2. SUBSET DecidedPlaces \subseteq G
  <2>1. IsFiniteSet(DecidedPlaces)
    BY StreakInputs
  <2>2. \A T \in SUBSET DecidedPlaces : (\A x \in T : T \ {x} \in G) => T \in G
    BY <1>1
  <2> HIDE DEF G
  <2> QED
    BY <2>1, <2>2, SubsetsIn
<1>3. QED
  BY <1>2

\* The largest of the sizes of some runs, or 0.
LEMMA LongestIsMax ==
  ASSUME case \in StreakCases, NEW ends \in SUBSET DecidedPlaces, NEW status, NEW n,
         IsLongest(n, DecidedPlaces, ends, status)
  PROVE  Max({Cardinality(Between(pair[1], pair[2])) :
                pair \in {x \in DecidedPlaces \X ends : Run(status, x[1], x[2])}} \cup {0}) = n
<1> DEFINE sizes == {Cardinality(Between(pair[1], pair[2])) :
                       pair \in {x \in DecidedPlaces \X ends : Run(status, x[1], x[2])}}
<1>1. \A i, j : Between(i, j) = Stretch(DecidedPlaces, i, j)
  BY DEF Between, Stretch, DecidedPlaces
<1>2. \A i, j : Run(status, i, j) <=> RunIn(DecidedPlaces, status, i, j)
  BY <1>1 DEF Run, RunIn
<1>3. \A size \in sizes : \E i \in DecidedPlaces, j \in ends :
        /\ size = Cardinality(Stretch(DecidedPlaces, i, j))
        /\ RunIn(DecidedPlaces, status, i, j)
  <2>1. ASSUME NEW size \in sizes
        PROVE  \E i \in DecidedPlaces, j \in ends :
                 /\ size = Cardinality(Stretch(DecidedPlaces, i, j))
                 /\ RunIn(DecidedPlaces, status, i, j)
    <3>1. PICK pair \in DecidedPlaces \X ends :
            Run(status, pair[1], pair[2]) /\ size = Cardinality(Between(pair[1], pair[2]))
      BY <2>1
    <3>2. pair[1] \in DecidedPlaces /\ pair[2] \in ends
      OBVIOUS
    <3>3. /\ size = Cardinality(Stretch(DecidedPlaces, pair[1], pair[2]))
          /\ RunIn(DecidedPlaces, status, pair[1], pair[2])
      BY <1>1, <1>2, <3>1
    <3>4. QED
      BY <3>2, <3>3
  <2>2. QED
    BY <2>1
<1>4. ASSUME NEW i \in DecidedPlaces, NEW j \in ends, RunIn(DecidedPlaces, status, i, j)
      PROVE  Cardinality(Stretch(DecidedPlaces, i, j)) \in sizes
  <2>1. /\ <<i, j>> \in DecidedPlaces \X ends /\ <<i, j>>[1] = i /\ <<i, j>>[2] = j
    OBVIOUS
  <2>2. Run(status, i, j)
    BY <1>2, <1>4
  <2>3. Cardinality(Between(i, j)) \in sizes
    BY <2>1, <2>2
  <2>4. QED
    BY <1>1, <2>3
<1> HIDE DEF sizes
<1>5. n \in Nat /\ n \in sizes \cup {0} /\ \A size \in sizes : size <= n
  BY <1>3, <1>4 DEF IsLongest
<1>6. \A size \in sizes : size \in Int
  <2>1. \A i, j : Cardinality(Stretch(DecidedPlaces, i, j)) \in Int
    BY StretchIsFinite
  <2>2. QED
    BY <1>3, <2>1
<1>7. n \in sizes \cup {0} /\ \A size \in sizes \cup {0} : size \in Int /\ n >= size
  BY <1>5, <1>6
<1>8. Max(sizes \cup {0}) = n
  <2>1. /\ Max(sizes \cup {0}) \in sizes \cup {0}
        /\ \A size \in sizes \cup {0} : Max(sizes \cup {0}) >= size
    BY <1>7 DEF Max
  <2> DEFINE max == Max(sizes \cup {0})
  <2>2. max \in Int /\ n \in Int /\ max >= n /\ n >= max
    BY <1>7, <2>1
  <2> HIDE DEF max
  <2>3. max = n
    BY <2>2
  <2>4. QED
    BY <2>3 DEF max
<1>9. QED
  BY <1>8 DEF sizes

(***************************************************************************)
(* For any number of bets graded in any order, the longest streaks are the *)
(* largest sets of neighbours in that order that all have one status,      *)
(* pushes left out, and the current one is the largest that nothing        *)
(* decided comes after (streaks).                                          *)
(***************************************************************************)
THEOREM StreaksAreLongestRuns == Spec => []StreaksAreRuns
<1>1. CaseOK => StreaksAreRuns
  <2> SUFFICES ASSUME case \in StreakCases PROVE StreaksAreRuns
    BY DEF CaseOK, StreaksAreRuns
  <2> DEFINE last == {j \in DecidedPlaces : \A k \in DecidedPlaces : k = j \/ Earlier(k, j)}
             sizesTo(ends, status) == {Cardinality(Between(pair[1], pair[2])) :
               pair \in {x \in DecidedPlaces \X ends : Run(status, x[1], x[2])}}
             longest(ends, status) == Max(sizesTo(ends, status) \cup {0})
  <2>1. PICK fold : /\ IsFold(fold, DecidedPlaces, Runs, NoRun, LastOf, Prolonging)
                    /\ Streaks(StreakBets) = StreaksOf(fold[DecidedPlaces])
    BY StreaksIsFold
  <2>2. PICK run \in Runs : run = fold[DecidedPlaces]
    BY <2>1 DEF IsFold
  <2>3. StreakInv(DecidedPlaces, run)
    BY <2>1, <2>2, RunTellsStreaks
  <2>4. /\ longest(DecidedPlaces, "WON") = run.WON
        /\ longest(DecidedPlaces, "LOST") = run.LOST
    <3>1. DecidedPlaces \in SUBSET DecidedPlaces
      OBVIOUS
    <3>2. IsLongest(run.WON, DecidedPlaces, DecidedPlaces, "WON")
          /\ IsLongest(run.LOST, DecidedPlaces, DecidedPlaces, "LOST")
      BY <2>3 DEF StreakInv
    <3>3. QED
      BY <3>1, <3>2, LongestIsMax
  <2>5. longest(last, "WON") - longest(last, "LOST")
          = IF run.status = "WON" THEN run.length ELSE -run.length
    <3>1. last \in SUBSET DecidedPlaces
      OBVIOUS
    <3>2. CASE DecidedPlaces = {}
      <4>1. IsLongest(0, DecidedPlaces, last, "WON") /\ IsLongest(0, DecidedPlaces, last, "LOST")
        BY <3>2 DEF IsLongest
      <4>2. longest(last, "WON") = 0 /\ longest(last, "LOST") = 0
        BY <3>1, <4>1, LongestIsMax
      <4>3. run = NoRun
        BY <2>3, <3>2 DEF StreakInv
      <4> HIDE DEF longest
      <4>4. QED
        BY <4>2, <4>3 DEF NoRun
    <3>3. CASE DecidedPlaces # {}
      <4>1. PICK x \in DecidedPlaces : ComesLast(DecidedPlaces, x)
        <5>1. DecidedPlaces \in SUBSET DecidedPlaces
          OBVIOUS
        <5>2. QED
          BY <3>3, <5>1, LastIsIn DEF ComesLast
      <4>2. last = {x}
        <5>1. ASSUME NEW z \in last, z # x PROVE FALSE
          <6>1. Earlier(x, z) /\ Earlier(z, x)
            BY <4>1, <5>1 DEF ComesLast
          <6>2. QED
            BY <6>1, EarlierIsOrder
        <5>2. x \in last
          BY <4>1 DEF ComesLast
        <5>3. QED
          BY <5>1, <5>2
      <4> DEFINE s == case.statuses[x]
                 other == IF s = "WON" THEN "LOST" ELSE "WON"
      <4>3. run.status = s /\ s \in {"WON", "LOST"} /\ run.length \in Nat
        BY <2>3, <4>1, StreakInputs DEF StreakInv, Runs
      <4>4. IsLongest(run.length, DecidedPlaces, last, s)
        BY <2>3, <4>1, <4>2 DEF StreakInv
      <4>5. IsLongest(0, DecidedPlaces, last, other)
        <5>1. \A i \in DecidedPlaces : x \in Stretch(DecidedPlaces, i, x)
          BY <4>1 DEF Stretch, ComesLast
        <5>2. s # other
          BY <4>3
        <5>3. \A i \in DecidedPlaces : ~RunIn(DecidedPlaces, other, i, x)
          BY <5>1, <5>2 DEF RunIn
        <5> HIDE DEF other, last
        <5>4. QED
          BY <4>2, <5>3 DEF IsLongest
      <4>6. longest(last, s) = run.length /\ longest(last, other) = 0
        <5> HIDE DEF s, other, last
        <5>1. QED
          BY <3>1, <4>4, <4>5, LongestIsMax
      <4> HIDE DEF longest, last
      <4>7. QED
        BY <4>3, <4>6
    <3>4. QED
      BY <3>2, <3>3
  <2>6. Streaks(StreakBets) = [current |-> longest(last, "WON") - longest(last, "LOST"),
                               longestWin |-> longest(DecidedPlaces, "WON"),
                               longestLoss |-> longest(DecidedPlaces, "LOST")]
    <3> HIDE DEF longest, last
    <3> QED
      BY <2>1, <2>2, <2>4, <2>5 DEF StreaksOf
  <2>7. QED
    BY <2>6, Zenon DEF StreaksAreRuns, StreakBets, DecidedPlaces
<1>2. QED
  BY <1>1, CaseInvariant, PTL
=============================================================================
