----------------------------- MODULE BetLedger -----------------------------
(***************************************************************************)
(* What the ledger of the emulator promises, whoever grades and in         *)
(* whatever order: an open bet is graded from a result reported of its     *)
(* game, a leg is decided once, a parlay is settled from its legs when all *)
(* of them are decided, and only a forced request touches a graded bet     *)
(* again.  No task, message, failure or request handler appears here.      *)
(***************************************************************************)
EXTENDS Book

CONSTANT Forcing   \* whether grade requests may carry force = TRUE

VARIABLES
  status,     \* paper_bets.status, "NONE" while there is no such row
  priced,     \* the selections whose odds the grade row pays
  legStatus,  \* parlay_legs.leg_status, "NONE" while there is no such row
  reported,   \* the results reported of a game up to now
  boxed       \* the box scores served of a game up to now

ledger == <<status, priced, legStatus>>
vars == <<status, priced, legStatus, reported, boxed>>

TypeOK ==
  /\ status \in [Rows -> {"NONE", "OPEN"} \cup Graded]
  /\ priced \in [Rows -> SUBSET Selections]
  /\ legStatus \in [Legs -> {"NONE", "OPEN"} \cup Graded]
  /\ reported \in [Games -> SUBSET Results]
  /\ boxed \in [Games -> SUBSET BoxScores]

Init ==
  /\ status = [r \in Rows |-> "NONE"]
  /\ priced = [r \in Rows |-> {}]
  /\ legStatus = [l \in Legs |-> "NONE"]
  /\ reported = [g \in Games |-> {}]
  /\ boxed = [g \in Games |-> {}]

\* The grades that the reports of its game allow for a selection.
GradesOf(x) ==
  LET g == Terms[x].game
  IN  IF IsProp(x)
      THEN IF reported[g] = {} THEN {}
           ELSE {PropGrade(x, b) : b \in boxed[g]} \cap Graded
      ELSE {ScoreGrade(x, v) : v \in reported[g]} \cap Graded

Board(p) == [l \in LegsOf(p) |-> legStatus[l]]

Place(r) ==
  /\ status[r] = "NONE"
  /\ status' = [status EXCEPT ![r] = "OPEN"]
  /\ legStatus' = [l \in Legs |-> IF ParentOf[l] = r THEN "OPEN" ELSE legStatus[l]]
  /\ UNCHANGED <<priced, reported, boxed>>

Report(g) ==
  /\ \/ /\ \E v \in Results : reported' = [reported EXCEPT ![g] = @ \cup {v}]
        /\ UNCHANGED boxed
     \/ /\ \E b \in BoxScores : boxed' = [boxed EXCEPT ![g] = @ \cup {b}]
        /\ UNCHANGED reported
  /\ UNCHANGED ledger

Grade(r, grade, won) ==
  /\ status[r] = "OPEN" \/ (Forcing /\ status[r] \in Graded)
  /\ status' = [status EXCEPT ![r] = grade]
  /\ priced' = [priced EXCEPT ![r] = won]
  /\ UNCHANGED <<legStatus, reported, boxed>>

GradeSingle(s) == \E grade \in GradesOf(s) : Grade(s, grade, PricedOf(s, grade))

DecideLeg(l) ==
  /\ legStatus[l] = "OPEN"
  /\ \E grade \in GradesOf(l) : legStatus' = [legStatus EXCEPT ![l] = grade]
  /\ UNCHANGED <<status, priced, reported, boxed>>

GradeParlay(p) ==
  /\ SettleParlay(Board(p)) # "OPEN"
  /\ Grade(p, SettleParlay(Board(p)), WonLegs(Board(p)))

Next ==
  \/ \E r \in Rows : Place(r)
  \/ \E g \in Games : Report(g)
  \/ \E s \in Singles : GradeSingle(s)
  \/ \E l \in Legs : DecideLeg(l)
  \/ \E p \in Parlays : GradeParlay(p)

Spec == Init /\ [][Next]_vars
=============================================================================
