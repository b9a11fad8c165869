------------------------- MODULE MCSettlementRules -------------------------
(* The settlement rules on small inputs; see settlement_rules.cfg.         *)
EXTENDS SettlementRules

MCLeagues == {"NBA", "NHL", "EPL"}
MCPoints == 0..2
\* From -3.5 to 3.5: beyond every margin (2 at most) on both sides.
MCHalfLines == -7..7
MCPrices == {2, 3}
\* Around even odds, and some far from them.
MCAmericans == LET numbers == 100..150 \cup {199, 200, 550, 1000} IN numbers \cup {-n : n \in numbers}
\* One line in the middle of two others.
MCCloseLines == {-3, 1, 5}
=============================================================================
