-------------------------------- MODULE Book --------------------------------
(***************************************************************************)
(* The fixed data of a betting book: which bets, parlays and legs may be   *)
(* placed and on what terms, and which results and box scores may be       *)
(* reported of the games.  Results and box scores have names, so that a    *)
(* task can carry "no result yet" as one more name; ScoreOf and LinesOf    *)
(* say what a name stands for.                                             *)
(***************************************************************************)
EXTENDS Outcomes

CONSTANTS
  Games,      \* games, by their id
  Singles,    \* rows of paper_bets that are not parlays
  Parlays,    \* rows of paper_bets with is_parlay = TRUE
  Legs,       \* rows of parlay_legs
  ParentOf,   \* bet_id of a leg
  Terms,      \* what a single bet or a leg was placed on
  Results,    \* results that may be reported of a game
  ScoreOf,    \* the scores of a result
  BoxScores,  \* box scores that may be served of a game
  LinesOf     \* the player lines of a box score

CONSTANTS NoResult, NoBox

Rows == Singles \cup Parlays
Selections == Singles \cup Legs

Term == [game : Games,
         league : STRING,
         market : ScoreMarkets \cup PropMarkets,
         side : {"HOME", "AWAY", "DRAW", "OVER", "UNDER", "YES", "NO"},
         line : Int,
         player : STRING,
         stat : STRING,
         propType : {"NONE", "OVER_UNDER", "YES_NO"}]

LegsOf(p) == {l \in Legs : ParentOf[l] = p}

ASSUME BookAssumption ==
  /\ Singles \cap Parlays = {} /\ Singles \cap Legs = {}
  /\ ParentOf \in [Legs -> Parlays]
  /\ Terms \in [Selections -> Term]
  /\ NoResult \notin Results /\ NoBox \notin BoxScores

\* A parlay has at least PARLAY_MIN_LEGS = 2 legs, and validate_parlay_legs
\* takes no TEAM_PROP or GAME_PROP leg.
ASSUME ParlayAssumption ==
  /\ \A p \in Parlays : \E l, m \in LegsOf(p) : l # m
  /\ \A l \in Legs : Terms[l].market \notin OtherProps

IsProp(x) == Terms[x].market \in PropMarkets
IsPlayerProp(x) == Terms[x].market = "PLAYER_PROP"

\* The grade of a score selection, "ERROR" when grade_bet raises.
ScoreGrade(x, result) == GradeFromScore(Terms[x], ScoreOf[result])

\* The grade of a prop selection, "UNRESOLVED" when it has to stay open: no
\* box score, no player prop, or a box score it cannot be resolved against.
PropGrade(x, box) ==
  IF box = NoBox \/ ~IsPlayerProp(x) THEN "UNRESOLVED"
  ELSE ResolvePlayerProp(LinesOf[box], Terms[x])

\* The selections whose odds a grade pays: profit_loss multiplies the stake
\* by their product when the grade is WON, and reads no odds otherwise.
PricedOf(x, grade) == IF grade = "WON" THEN {x} ELSE {}
=============================================================================
