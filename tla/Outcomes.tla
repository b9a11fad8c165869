------------------------------ MODULE Outcomes ------------------------------
(***************************************************************************)
(* The pure settlement rules of the bookie emulator: what a final score, a *)
(* box score or the legs of a parlay make of a selection.                  *)
(*                                                                         *)
(* Lines are counted in half points, so that 1 is the line 0.5: the rules  *)
(* only compare a line with a whole number of points, and the halves tell  *)
(* the lines that can be hit exactly from those that cannot.  A missing    *)
(* line is 0, which is how the code reads it.  Odds and stakes are whole   *)
(* units.  "ERROR" stands for the ValueError of the code, "UNRESOLVED" for *)
(* the reason string of resolve_player_prop, and a missing regulation      *)
(* score is the number Missing.                                            *)
(***************************************************************************)
EXTENDS Integers, FiniteSetsExt

Missing == -1

ScoreMarkets == {"SPREAD", "TOTAL", "MONEYLINE"}
OtherProps == {"TEAM_PROP", "GAME_PROP"}
PropMarkets == {"PLAYER_PROP"} \cup OtherProps

\* The statuses a grader writes; the enum of the table has VOID as well.
Graded == {"WON", "LOST", "PUSH"}
Dropped == {"PUSH", "VOID"}
Settled == Graded \cup Dropped

\* Mutant: an exact hit counts as a win.
Verdict_PushWins(x) == IF x >= 0 THEN "WON" ELSE "LOST"

\* Mutant: a tolerance around the line.
Verdict_Tolerant(x) == IF x > 1 THEN "WON" ELSE IF x < -1 THEN "LOST" ELSE "PUSH"

Verdict(x) == IF x > 0 THEN "WON" ELSE IF x < 0 THEN "LOST" ELSE "PUSH"

(***************************************************************************)
(* Score markets.                                                          *)
(***************************************************************************)
SportOf(league) ==
  CASE league \in {"NFL", "NCAA_FB"}  -> "FOOTBALL"
    [] league \in {"NBA", "NCAA_BB"}  -> "BASKETBALL"
    [] league \in {"MLB", "NCAA_BSB"} -> "BASEBALL"
    [] league \in {"FIFA_WC", "EPL"}  -> "SOCCER"
    [] league \in {"NHL", "NCAA_HKY"} -> "HOCKEY"
    [] OTHER -> "NONE"

IsThreeWay(league) == SportOf(league) = "SOCCER"

\* Mutant: half a regulation score is enough.
SettlementScores_HalfReported(result, league) ==
  IF SportOf(league) = "SOCCER" /\ result.regHome # Missing
  THEN <<result.regHome, result.regAway>>
  ELSE <<result.home, result.away>>

\* Soccer settles on the regulation score when both halves of it are there.
SettlementScores(result, league) ==
  IF /\ SportOf(league) = "SOCCER"
     /\ result.regHome # Missing
     /\ result.regAway # Missing
  THEN <<result.regHome, result.regAway>>
  ELSE <<result.home, result.away>>

SelectedMargin(side, margin) == IF side = "HOME" THEN margin ELSE -margin

\* Mutant: a tie goes to the home side.
Winner_HomeTakesTie(margin) == IF margin >= 0 THEN "HOME" ELSE "AWAY"

Winner(margin) ==
  IF margin > 0 THEN "HOME" ELSE IF margin < 0 THEN "AWAY" ELSE "DRAW"

GradeBet(market, side, line, home, away, threeWay) ==
  LET margin == home - away
      over == 2 * (home + away) - line
  IN  IF side = "NONE" \/ (side = "DRAW" /\ ~(threeWay /\ market = "MONEYLINE"))
      THEN "ERROR"
      ELSE CASE market = "SPREAD" -> Verdict(2 * SelectedMargin(side, margin) + line)
             [] market = "TOTAL" -> Verdict(IF side = "OVER" THEN over ELSE -over)
             [] market = "MONEYLINE" /\ threeWay ->
                  IF side = Winner(margin) THEN "WON" ELSE "LOST"
             [] market = "MONEYLINE" /\ ~threeWay ->
                  Verdict(SelectedMargin(side, margin))
             [] OTHER -> "ERROR"

\* What _grade_one and _grade_parlay_legs make of a selection and a result.
GradeFromScore(term, result) ==
  LET scores == SettlementScores(result, term.league)
  IN  GradeBet(term.market, term.side, term.line, scores[1], scores[2],
               IsThreeWay(term.league) /\ term.market = "MONEYLINE")

(***************************************************************************)
(* Player props.  A box score has one table per team, from player slugs to *)
(* the line of the player, and a line maps the fields it has to numbers.   *)
(***************************************************************************)
StatFields ==
  [player_goal_scorer_anytime |-> {"goals"},
   player_shots |-> {"shots"},
   player_shots_on_target |-> {"shots_on_target"},
   player_points |-> {"points"},
   player_rebounds |-> {"rebounds"},
   player_assists |-> {"assists"},
   player_threes |-> {"three_pointers_made"},
   player_points_rebounds_assists |-> {"points", "rebounds", "assists"},
   batter_hits |-> {"hits"},
   batter_total_bases |-> {"total_bases"},
   batter_home_runs |-> {"home_runs"},
   pitcher_strikeouts |-> {"strikeouts_pitching"}]

\* The line of a player; the empty line when neither team has the slug.
FindPlayerLine(box, slug) ==
  IF slug \in DOMAIN box.home THEN box.home[slug]
  ELSE IF slug \in DOMAIN box.away THEN box.away[slug] ELSE << >>

GradePlayerProp(propType, side, line, actual) ==
  CASE propType = "YES_NO" /\ side \in {"YES", "NO"} ->
         IF (side = "YES") = (actual > 0) THEN "WON" ELSE "LOST"
    [] propType = "OVER_UNDER" /\ side \in {"OVER", "UNDER"} ->
         Verdict(IF side = "OVER" THEN 2 * actual - line ELSE line - 2 * actual)
    [] OTHER -> "ERROR"

\* Mutant: a missing prop type is not inferred from the side.
PropType_NotInferred(term) ==
  IF term.propType # "NONE" THEN term.propType ELSE "OVER_UNDER"

\* Rows older than the placement validation have no prop type.
PropType(term) ==
  IF term.propType # "NONE" THEN term.propType
  ELSE IF term.side \in {"YES", "NO"} THEN "YES_NO" ELSE "OVER_UNDER"

ResolvePlayerProp(box, term) ==
  IF \/ term.side = "NONE" \/ term.player = "NONE"
     \/ term.stat \notin DOMAIN StatFields
  THEN "UNRESOLVED"
  ELSE LET line == FindPlayerLine(box, term.player)
           fields == StatFields[term.stat]
       IN  IF ~(fields \subseteq DOMAIN line) THEN "UNRESOLVED"
           ELSE LET actual == SumFunctionOnSet(line, fields)
                    status == GradePlayerProp(PropType(term), term.side,
                                              term.line, actual)
                IN  IF status = "ERROR" THEN "UNRESOLVED" ELSE status

(***************************************************************************)
(* Parlays.  legs is a function from legs, in whatever order, to statuses. *)
(***************************************************************************)
\* Mutant: pushed legs keep their odds.
WonLegs_Unlost(legs) == {l \in DOMAIN legs : legs[l] # "LOST"}

WonLegs(legs) == {l \in DOMAIN legs : legs[l] = "WON"}

\* Mutant: a parlay whose legs all dropped out has no outcome.
SettleParlay_WaitsOnPushes(legs) ==
  IF \E l \in DOMAIN legs : legs[l] = "OPEN" THEN "OPEN"
  ELSE IF \E l \in DOMAIN legs : legs[l] = "LOST" THEN "LOST"
  ELSE IF \A l \in DOMAIN legs : legs[l] \in Dropped THEN "OPEN"
  ELSE "WON"

\* Mutant: a parlay whose legs all dropped out is void.
SettleParlay_VoidsPushes(legs) ==
  IF \E l \in DOMAIN legs : legs[l] = "OPEN" THEN "OPEN"
  ELSE IF \E l \in DOMAIN legs : legs[l] = "LOST" THEN "LOST"
  ELSE IF \A l \in DOMAIN legs : legs[l] \in Dropped THEN "VOID"
  ELSE "WON"

SettleParlay(legs) ==
  IF \E l \in DOMAIN legs : legs[l] = "OPEN" THEN "OPEN"
  ELSE IF \E l \in DOMAIN legs : legs[l] = "LOST" THEN "LOST"
  ELSE IF \A l \in DOMAIN legs : legs[l] \in Dropped THEN "PUSH"
  ELSE "WON"

\* The decimal odds left once the pushed and voided legs contribute 1.
Repriced(legs, odds) == FoldFunctionOnSet(LAMBDA x, y : x * y, 1, odds, WonLegs(legs))

ProfitLoss(status, stake, odds) ==
  CASE status = "WON" -> stake * (odds - 1)
    [] status = "LOST" -> -stake
    [] OTHER -> 0
=============================================================================
