---------------------------- MODULE MCPlacement -----------------------------
(* A catalogue of orders.  o1 and o2 are one live order sent twice, o3 is a *)
(* parlay on two games.                                                     *)
EXTENDS Placement

LiveBet(stake, g) == [stake |-> stake, games |-> <<g>>, live |-> TRUE, wellFormed |-> TRUE]

Catalogue ==
  [o1 |-> LiveBet(2, "g1"),
   o2 |-> LiveBet(2, "g1"),
   o3 |-> [stake |-> 2, games |-> <<"g1", "g2">>, live |-> FALSE, wellFormed |-> TRUE]]
MCTerms == [o \in Orders |-> Catalogue[o]]

Key == [o1 |-> "k1", o2 |-> "k1", o3 |-> "k3"]
MCKeyOf == [o \in Orders |-> Key[o]]
=============================================================================
