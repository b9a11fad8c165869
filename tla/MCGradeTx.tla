----------------------------- MODULE MCGradeTx ------------------------------
(* A grader of each bet, and one more of the first: with or without force. *)
EXTENDS GradeTx

Calls ==
  [g1 |-> [bet |-> "b1", to |-> "WON", force |-> FALSE],
   g2 |-> [bet |-> "b2", to |-> "LOST", force |-> FALSE],
   g3 |-> [bet |-> "b1", to |-> "LOST", force |-> TRUE],
   g4 |-> [bet |-> "b1", to |-> "LOST", force |-> FALSE]]
MCCallOf == [g \in Graders |-> Calls[g]]

MCTogether == {{"g1", "g2", "g3"}, {"g1", "g2", "g4"}}
=============================================================================
