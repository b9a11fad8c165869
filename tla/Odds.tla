-------------------------------- MODULE Odds --------------------------------
(***************************************************************************)
(* core/odds.py and core/clv.py: American and decimal odds, and what the   *)
(* odds of a bet were worth at the close.  Decimal odds and probabilities  *)
(* are fractions <<n, d>>, which the code computes in floats; American     *)
(* odds are whole numbers other than 0.  The line of a closing price is a  *)
(* sequence of at most one number, in half points.                         *)
(***************************************************************************)
EXTENDS Integers, SequencesExt

\* Mutant: what a favourite pays is taken for what it costs.
AmericanToDecimal_OneFormula(american) ==
  <<100 + (IF american > 0 THEN american ELSE -american), 100>>

AmericanToDecimal(american) ==
  IF american > 0 THEN <<100 + american, 100>> ELSE <<100 - american, -american>>

\* round(n / d): at a half the float decides which way.
Rounded(n, d) == {k \in {n \div d, n \div d + 1} : 2 * k * d - 2 * n \in -d..d}

\* Mutant: even odds belong to the favourites.
DecimalToAmerican_EvenIsMinus(decimal) ==
  LET n == decimal[1]  d == decimal[2] IN
  IF n > 2 * d THEN Rounded(100 * (n - d), d) ELSE {-k : k \in Rounded(100 * d, n - d)}

\* The results that decimal_to_american may return.
DecimalToAmerican(decimal) ==
  LET n == decimal[1]  d == decimal[2] IN
  IF n >= 2 * d THEN Rounded(100 * (n - d), d) ELSE {-k : k \in Rounded(100 * d, n - d)}

ImpliedProbability(american) ==
  LET decimal == AmericanToDecimal(american) IN <<decimal[2], decimal[1]>>

\* The closing probability less that of the placement.
ComputeClv(placed, closing) ==
  LET p == ImpliedProbability(placed)  c == ImpliedProbability(closing) IN
  <<c[1] * p[2] - p[1] * c[2], c[2] * p[2]>>

Distance(bet, close) ==
  IF << >> \in {bet.line, close.line} THEN 0
  ELSE IF bet.line[1] < close.line[1] THEN close.line[1] - bet.line[1]
  ELSE bet.line[1] - close.line[1]

\* Of some places of closing prices, those that are as near as any.
Nearest(bet, closes, places) ==
  {i \in places : \A j \in places : Distance(bet, closes[i]) <= Distance(bet, closes[j])}

FirstIfAny(closes, places) == IF places = {} THEN << >> ELSE <<closes[Min(places)]>>

\* Mutant: the market alone makes a closing price comparable.
MatchClosingLine_AnySide(bet, closes) ==
  LET candidates == {i \in DOMAIN closes : closes[i].market = bet.market}
      sameBook == {i \in candidates : closes[i].book = bet.book}
  IN  FirstIfAny(closes, IF sameBook # {} THEN sameBook ELSE Nearest(bet, closes, candidates))

\* The closing price that a bet is compared with; << >> if there is none.
MatchClosingLine(bet, closes) ==
  LET candidates == {i \in DOMAIN closes : /\ closes[i].market = bet.market
                                           /\ closes[i].side = bet.side}
      sameBook == {i \in candidates : closes[i].book = bet.book}
  IN  FirstIfAny(closes, IF sameBook # {} THEN sameBook ELSE Nearest(bet, closes, candidates))
=============================================================================
