------------------------------ MODULE MCGrader ------------------------------
(* A catalogue of bets, parlays, results and box scores.  A configuration  *)
(* chooses a few of them; the definitions below restrict themselves to     *)
(* the choice.                                                             *)
EXTENDS Grader, TLC

Selection(game, league, market, side, line) ==
  [game |-> game, league |-> league, market |-> market, side |-> side, line |-> line,
   player |-> "NONE", stat |-> "NONE", propType |-> "NONE"]

\* OVER 2.5 points of one player.
PointsProp(game) ==
  [Selection(game, "NBA", "PLAYER_PROP", "OVER", 5)
     EXCEPT !.player = "p", !.stat = "player_points", !.propType = "OVER_UNDER"]

\* s3 is a DRAW on a two-way moneyline, which the placement API takes.
Catalogue ==
  [s1 |-> Selection("g1", "NBA", "MONEYLINE", "HOME", 0),
   s2 |-> PointsProp("g1"),
   s3 |-> Selection("g1", "NBA", "MONEYLINE", "DRAW", 0),
   s4 |-> [Selection("g1", "NBA", "TEAM_PROP", "OVER", 5) EXCEPT !.stat = "player_points"],
   l1 |-> Selection("g1", "NBA", "TOTAL", "OVER", 6),
   l2 |-> Selection("g2", "NBA", "MONEYLINE", "HOME", 0),
   l3 |-> Selection("g1", "NBA", "MONEYLINE", "AWAY", 0),
   l4 |-> PointsProp("g1"),
   l5 |-> Selection("g1", "NBA", "SPREAD", "HOME", -2),
   l6 |-> Selection("g1", "NBA", "SPREAD", "HOME", -3),
   l7 |-> Selection("g2", "NBA", "MONEYLINE", "HOME", 0)]
MCTerms == [x \in Selections |-> Catalogue[x]]

\* p1 is on one game with l1 and l5 and spans two with l1 and l2; p2 pairs a
\* score leg with a player prop; p3 is one more on two games.
Parent == [l1 |-> "p1", l2 |-> "p1", l3 |-> "p2", l4 |-> "p2", l5 |-> "p1",
           l6 |-> "p3", l7 |-> "p3"]
MCParentOf == [l \in Legs |-> Parent[l]]

Final(home, away) == [home |-> home, away |-> away, regHome |-> Missing, regAway |-> Missing]
Scores == [home_by_1 |-> Final(2, 1), away_by_1 |-> Final(1, 2)]
MCScoreOf == [v \in Results |-> Scores[v]]

\* A box score that has not caught up with the player, and one that has.
Lines == [early |-> [home |-> << >>, away |-> << >>],
          full |-> [home |-> << >>, away |-> [p |-> [points |-> 3]]]]
MCLinesOf == [b \in BoxScores |-> Lines[b]]
=============================================================================
