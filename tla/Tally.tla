------------------------------- MODULE Tally --------------------------------
(***************************************************************************)
(* What apply_grade promises each of its calls, and the bankroll: a call   *)
(* grades its bet in one step or finds it graded, a graded bet is graded   *)
(* again only by a call with force, and the step that grades puts one      *)
(* snapshot on the chart, of this bet and of others that are graded.       *)
(***************************************************************************)
CONSTANTS Bets,
          Grades,     \* what a bet may be graded as
          Calls,
          CallOf      \* the bet, the grade and the force of a call

VARIABLES status,     \* "NONE", "OPEN" or the grade of a bet
          snapshots,  \* bankroll_snapshots
          answer      \* what a call has told its caller

vars == <<status, snapshots, answer>>

Init ==
  /\ status \in [Bets -> {"NONE", "OPEN"}]
  /\ snapshots = {}
  /\ answer = [c \in Calls |-> "none"]

Place(b) ==
  /\ status[b] = "NONE"
  /\ status' = [status EXCEPT ![b] = "OPEN"]
  /\ UNCHANGED <<snapshots, answer>>

Answer(c, told) ==
  /\ answer[c] = "none"
  /\ answer' = [answer EXCEPT ![c] = told]

Graded(b) == status[b] \in Grades

Grade(c) ==
  LET b == CallOf[c].bet
  IN  /\ Answer(c, "graded")
      /\ status[b] = "OPEN" \/ (CallOf[c].force /\ Graded(b))
      /\ status' = [status EXCEPT ![b] = CallOf[c].to]
      /\ \E s \in snapshots' \ snapshots :
           /\ snapshots' = snapshots \cup {s}
           /\ s.counted[b].to = CallOf[c].to
           /\ \A x \in Bets : s.counted[x].to \in Grades => status'[x] \in Grades

Refuse(c) ==
  /\ Answer(c, "refused")
  /\ ~CallOf[c].force /\ Graded(CallOf[c].bet)
  /\ UNCHANGED <<status, snapshots>>

Next ==
  \/ \E b \in Bets : Place(b)
  \/ \E c \in Calls : Grade(c) \/ Refuse(c)

Spec == Init /\ [][Next]_vars
=============================================================================
