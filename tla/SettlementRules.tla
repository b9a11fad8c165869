-------------------------- MODULE SettlementRules --------------------------
(***************************************************************************)
(* The settlement rules of Outcomes compared, over bounded inputs, with    *)
(* what a bookmaker means by them, and the figures of Performance and Odds  *)
(* with what they are read as.  A behaviour takes one case after the other: a   *)
(* state holds the case under examination, and the invariants relate the   *)
(* results for the inputs that the case allows.                            *)
(***************************************************************************)
EXTENDS Outcomes, Performance, Odds

CONSTANTS Leagues,    \* leagues of the score cases
          Points,     \* scores of a team, and numbers in a box score
          HalfLines,  \* lines, in half points
          Prices,     \* decimal odds of a parlay leg
          LegCount,   \* number of legs of the parlay cases
          StreakLength, BookLength,  \* number of bets of the performance cases
          Americans,  \* American odds
          CloseCount, \* number of closing prices
          CloseLines  \* their lines, in half points

ASSUME RulesAssumption ==
  /\ Points \subseteq Nat /\ HalfLines \subseteq Int /\ Prices \subseteq Nat
  /\ LegCount \in Nat /\ StreakLength \in Nat /\ BookLength \in Nat
  /\ Americans \subseteq Int /\ \A a \in Americans : a >= 100 \/ a <= -100
  /\ CloseCount \in Nat /\ CloseLines \subseteq Int

VARIABLE case

None == [kind |-> "none"]

Results == [home : Points, away : Points,
            regHome : Points \cup {Missing}, regAway : Points \cup {Missing}]

ScoreCases == [kind : {"score"}, league : Leagues, line : HalfLines, result : Results]
PropCases == [kind : {"prop"}, stat : {"player_points", "player_points_rebounds_assists"},
              line : HalfLines, points : Points, assists : Points]
ParlayCases == [kind : {"parlay"}, legs : [1..LegCount -> Settled \cup {"OPEN"}],
                odds : [1..LegCount -> Prices]]
\* Bets that were graded in any order, some at the same time; and bets with
\* all predictions.
StreakCases == [kind : {"streak"}, statuses : [1..StreakLength -> Graded],
                times : [1..StreakLength -> 1..StreakLength]]
BookCases == [kind : {"book"},
              bets : [1..BookLength -> [status : Graded, p : 0..Scale, at : {1}]]]

OddsCases == [kind : {"odds"}, placed : Americans, closing : Americans]
\* The closing prices that a bet on the home team, placed at a book "a" at
\* some line or at none, may be compared with.
Quotes == {<< >>} \cup {<<line>> : line \in CloseLines}
CloseCases ==
  [kind : {"close"}, quote : Quotes,
   closes : [1..CloseCount ->
     [market : {"SPREAD", "MONEYLINE"}, side : {"HOME", "AWAY"}, book : {"a", "b"},
      line : Quotes]]]

Init == case = None
TakeCase ==
  /\ case = None
  /\ \/ case' \in ScoreCases \cup PropCases \cup ParlayCases
     \/ case' \in StreakCases \cup BookCases \cup OddsCases \cup CloseCases
DropCase == case # None /\ case' = None
Next == TakeCase \/ DropCase
Spec == Init /\ [][Next]_case
-----------------------------------------------------------------------------
\* The grade of a side of a score market in the case under examination.
ScoreGrade(market, side, line, result) ==
  GradeFromScore([league |-> case.league, market |-> market, side |-> side, line |-> line], result)

\* The grade of a side of a prop on a player of the visiting team.
PropGrade(propType, side, line) ==
  ResolvePlayerProp(
    [home |-> << >>,
     away |-> [p |-> [points |-> case.points, rebounds |-> 1, assists |-> case.assists]]],
    [player |-> "p", stat |-> case.stat, propType |-> propType, side |-> side, line |-> line])

Mirror(status) ==
  CASE status = "WON" -> "LOST" [] status = "LOST" -> "WON" [] OTHER -> status
Rank(status) == CASE status = "WON" -> 2 [] status = "PUSH" -> 1 [] OTHER -> 0

(***************************************************************************)
(* The two sides of a two-way market settle against each other (grade_bet):*)
(* what the backer of one side wins the backer of the other loses, and a   *)
(* push gives both their stake back.                                       *)
(***************************************************************************)
OppositeSidesMirror ==
  case.kind = "score" =>
    LET grade(market, side, line) == ScoreGrade(market, side, line, case.result)
    IN  /\ grade("SPREAD", "AWAY", -case.line) = Mirror(grade("SPREAD", "HOME", case.line))
        /\ grade("TOTAL", "UNDER", case.line) = Mirror(grade("TOTAL", "OVER", case.line))
        /\ ~IsThreeWay(case.league) =>
             grade("MONEYLINE", "AWAY", 0) = Mirror(grade("MONEYLINE", "HOME", 0))

(***************************************************************************)
(* A two-way moneyline agrees with the spread at line 0 and never grades a *)
(* DRAW.  A three-way one pays exactly one of its three sides: the winner  *)
(* of that spread, or the DRAW when it pushes (grade_bet,                  *)
(* three_way_moneyline).                                                   *)
(***************************************************************************)
MoneylinePaysOneSide ==
  case.kind = "score" =>
    LET grade(side) == ScoreGrade("MONEYLINE", side, 0, case.result)
        spread(side) == ScoreGrade("SPREAD", side, 0, case.result)
    IN  IF IsThreeWay(case.league)
        THEN \E winner \in {"HOME", "DRAW", "AWAY"} :
               /\ \A side \in {"HOME", "DRAW", "AWAY"} :
                    grade(side) = IF side = winner THEN "WON" ELSE "LOST"
               /\ IF winner = "DRAW" THEN spread("HOME") = "PUSH" ELSE spread(winner) = "WON"
        ELSE /\ grade("DRAW") = "ERROR"
             /\ \A side \in {"HOME", "AWAY"} : grade(side) = spread(side)

(***************************************************************************)
(* Extra time never changes a soccer grade once both regulation scores are *)
(* reported, and a regulation score never changes any other grade          *)
(* (settlement_scores): half a regulation score counts as none.            *)
(***************************************************************************)
RegulationDecidesSoccerOnly ==
  case.kind = "score" =>
    LET r == case.result
        inRegulation == [home |-> r.regHome, away |-> r.regAway,
                         regHome |-> Missing, regAway |-> Missing]
        atTheEnd == [r EXCEPT !.regHome = Missing, !.regAway = Missing]
        settling == IF /\ case.league \in {"EPL", "FIFA_WC"}
                       /\ Missing \notin {r.regHome, r.regAway}
                    THEN inRegulation ELSE atTheEnd
    IN  \A wager \in {<<"SPREAD", "HOME">>, <<"TOTAL", "OVER">>, <<"MONEYLINE", "HOME">>} :
          ScoreGrade(wager[1], wager[2], case.line, r)
            = ScoreGrade(wager[1], wager[2], case.line, settling)

(***************************************************************************)
(* A better line never turns a grade into a worse one: half a point more   *)
(* on a spread, half a point less on an OVER.  Two half points decide a    *)
(* push, so of three neighbouring lines at most one pushes.                *)
(***************************************************************************)
BetterLineNeverHurts ==
  case.kind = "score" =>
    LET spread(line) == ScoreGrade("SPREAD", "AWAY", line, case.result)
        over(line) == ScoreGrade("TOTAL", "OVER", line, case.result)
    IN  /\ Rank(spread(case.line)) <= Rank(spread(case.line + 1))
        /\ Rank(over(case.line)) <= Rank(over(case.line - 1))
        /\ \A grade \in {spread(case.line), over(case.line)} :
             grade = "PUSH" => "PUSH" \notin {spread(case.line + 1), over(case.line + 1)}

(***************************************************************************)
(* The two sides of a player prop settle against each other, a YES is an   *)
(* OVER of half a unit, and a row without a prop type settles as the type  *)
(* its side belongs to (grade_player_prop, resolve_player_prop).           *)
(***************************************************************************)
PropSidesMirror ==
  case.kind = "prop" =>
    /\ PropGrade("OVER_UNDER", "UNDER", case.line)
         = Mirror(PropGrade("OVER_UNDER", "OVER", case.line))
    /\ PropGrade("YES_NO", "NO", case.line) = Mirror(PropGrade("YES_NO", "YES", case.line))
    /\ PropGrade("YES_NO", "YES", case.line) = PropGrade("OVER_UNDER", "OVER", 1)
    /\ PropGrade("NONE", "YES", case.line) = PropGrade("YES_NO", "YES", case.line)
    /\ PropGrade("NONE", "OVER", case.line) = PropGrade("OVER_UNDER", "OVER", case.line)
    /\ PropGrade("YES_NO", "OVER", case.line) = "UNRESOLVED"

\* The stake carried from leg to leg: a won leg multiplies what is there, a
\* lost leg takes it, and a leg that drops out hands it on.
RollOver(stake) ==
  FoldLeft(LAMBDA held, i : CASE case.legs[i] = "WON" -> held * case.odds[i]
                              [] case.legs[i] = "LOST" -> 0
                              [] OTHER -> held,
           stake, [i \in 1..LegCount |-> i])

(***************************************************************************)
(* A settled parlay pays what rolling the stake over its legs one by one   *)
(* would have paid, and it settles exactly when no leg is open             *)
(* (settle_parlay and profit_loss together).                               *)
(***************************************************************************)
ParlayRollsOver ==
  case.kind = "parlay" =>
    LET status == SettleParlay(case.legs)
        stake == 2
    IN  IF \E i \in 1..LegCount : case.legs[i] = "OPEN" THEN status = "OPEN"
        ELSE ProfitLoss(status, stake, Repriced(case.legs, case.odds)) = RollOver(stake) - stake

\* The settled bets of a streak case as pairs of a time and a place, and the
\* pairs between two of them.
Earlier(i, j) == case.times[i] < case.times[j] \/ (case.times[i] = case.times[j] /\ i < j)
Between(i, j) ==
  {k \in 1..StreakLength : /\ case.statuses[k] \in Decided
                          /\ (k = i \/ Earlier(i, k))
                          /\ (k = j \/ Earlier(k, j))}
Run(status, i, j) == \A k \in Between(i, j) : case.statuses[k] = status

(***************************************************************************)
(* The longest streaks are the largest sets of neighbours in the order of  *)
(* grading that all have one status, pushes left out, and the current one  *)
(* is the largest that nothing decided comes after (streaks).              *)
(***************************************************************************)
StreaksAreRuns ==
  case.kind = "streak" =>
    LET bets == [i \in 1..StreakLength |->
                   [status |-> case.statuses[i], p |-> 0, at |-> case.times[i]]]
        decided == {i \in 1..StreakLength : case.statuses[i] \in Decided}
        runsTo(ends, status) == {Cardinality(Between(pair[1], pair[2])) :
          pair \in {x \in decided \X ends : Run(status, x[1], x[2])}}
        longest(sizes) == Max(sizes \cup {0})
        last == {j \in decided : \A k \in decided : k = j \/ Earlier(k, j)}
        current(status) == longest(runsTo(last, status))
    IN  Streaks(bets) = [current |-> current("WON") - current("LOST"),
                         longestWin |-> longest(runsTo(decided, "WON")),
                         longestLoss |-> longest(runsTo(decided, "LOST"))]

BinCounts == 1..Scale

(***************************************************************************)
(* The calibration error of one bin is what the wins differ from the sum   *)
(* of the predictions.  Halving the bins never hides an error: a           *)
(* prediction that is off within a bin is off within one of its halves.    *)
(* And the squared error is at most the Brier score, whatever the number   *)
(* of bins: the two figures are shown side by side, and a pair that breaks *)
(* this is a wrong one (calibration_bins, expected_calibration_error,      *)
(* brier_score).                                                           *)
(***************************************************************************)
CalibrationIsBounded ==
  case.kind = "book" =>
    /\ CalibrationError(case.bets, 1) = Gap(case.bets, SettledBets(case.bets))
    /\ \A n \in BinCounts :
         LET error == CalibrationError(case.bets, n)
         IN  /\ error <= CalibrationError(case.bets, 2 * n)
             /\ error * error <= Cardinality(SettledBets(case.bets)) * Brier(case.bets)

\* What 100 units at American odds win, as a fraction.
Win(american) == IF american > 0 THEN <<american, 1>> ELSE <<10000, -american>>
Pays(american, other) == Win(american)[1] * Win(other)[2] > Win(other)[1] * Win(american)[2]

(***************************************************************************)
(* The closing line value is positive exactly when the bet wins more than  *)
(* it would have at the close, on both sides of even odds and across them  *)
(* (compute_clv, "value was captured before the close").                   *)
(***************************************************************************)
ClvSignTellsPayout ==
  case.kind = "odds" =>
    LET clv == ComputeClv(case.placed, case.closing)
    IN  clv[2] > 0 /\ (clv[1] > 0 <=> Pays(case.placed, case.closing))

(***************************************************************************)
(* American odds survive the conversion to decimal and back, but for -100, *)
(* which is 100, and of two decimal odds the better one never becomes the  *)
(* worse American ones, also where the two formulas meet                   *)
(* (american_to_decimal, decimal_to_american).  The decimal odds between   *)
(* those of two American ones stand for rounded products of legs.          *)
(***************************************************************************)
OddsSurviveConversion ==
  case.kind = "odds" =>
    LET x == AmericanToDecimal(case.placed)
        y == AmericanToDecimal(case.closing)
        between == <<x[1] * y[2] + y[1] * x[2], 2 * x[2] * y[2]>>
    IN  /\ DecimalToAmerican(x) = {IF case.placed = -100 THEN 100 ELSE case.placed}
        /\ \A a \in DecimalToAmerican(between) :
             Pays(case.placed, case.closing) => ~Pays(case.closing, a) /\ ~Pays(a, case.placed)

(***************************************************************************)
(* A bet is compared with a price of its market and side whenever there is *)
(* one: of its own book if that quotes it, else with none that is farther  *)
(* from its line than another (match_closing_line); only among equals does *)
(* the order of the feed choose.                                           *)
(***************************************************************************)
CloseIsComparable ==
  case.kind = "close" =>
    LET bet == [market |-> "SPREAD", side |-> "HOME", book |-> "a", line |-> case.quote]
        comparable == {i \in 1..CloseCount : /\ case.closes[i].market = bet.market
                                             /\ case.closes[i].side = bet.side}
        own == {i \in comparable : case.closes[i].book = bet.book}
        rivals == IF own # {} THEN own ELSE comparable
        pick == MatchClosingLine(bet, case.closes)
        last == MatchClosingLine(bet, Reverse(case.closes))
    IN  /\ pick = << >> <=> comparable = {}
        /\ pick # << >> =>
             /\ \E i \in rivals : pick[1] = case.closes[i]
             /\ own = {} => /\ \A i \in comparable :
                                 Distance(bet, pick[1]) <= Distance(bet, case.closes[i])
                            /\ Distance(bet, pick[1]) = Distance(bet, last[1])
=============================================================================
