---------------------------- MODULE Performance -----------------------------
(***************************************************************************)
(* What core/performance.py makes of the graded bets of a filter.  A bet   *)
(* is its status, its predicted probability p in parts of Scale, and the   *)
(* time at which it was graded.  A mean over n bets is n times itself, and *)
(* what is divided is compared by the products, so all numbers are whole.  *)
(***************************************************************************)
EXTENDS Integers, SequencesExt

CONSTANT Scale    \* the probability 1

ASSUME PerformanceAssumption == Scale \in Nat \ {0}

Decided == {"WON", "LOST"}

\* The places of the bets that a streak, a bin and a score are made of.
SettledBets(bets) == {i \in DOMAIN bets : bets[i].status \in Decided}

\* Of some places, the one of the bet that was graded last; bets that were
\* graded at one time stay in the order in which they came.
LastGraded(bets, places) ==
  CHOOSE i \in places : \A j \in places :
    bets[j].at < bets[i].at \/ (bets[j].at = bets[i].at /\ j <= i)

\* A run is the status and the length of the last streak, and the longest
\* streaks so far.
NoRun == [status |-> "NONE", length |-> 0, WON |-> 0, LOST |-> 0]

Prolong(bet, run) ==
  LET length == IF bet.status = run.status THEN run.length + 1 ELSE 1 IN
  [run EXCEPT !.status = bet.status, !.length = length,
              ![bet.status] = IF length > @ THEN length ELSE @]

\* The figures of the streaks from what became of the run.
StreaksOf(run) ==
  [current |-> IF run.status = "WON" THEN run.length ELSE -run.length,
   longestWin |-> run.WON, longestLoss |-> run.LOST]

\* Mutant: a push ends the streak.
Streaks_PushEnds(bets) ==
  StreaksOf(MapThenFoldSet(
    LAMBDA bet, run : IF bet.status \in Decided THEN Prolong(bet, run)
                      ELSE [run EXCEPT !.status = "NONE", !.length = 0],
    NoRun, LAMBDA i : bets[i], LAMBDA places : LastGraded(bets, places), DOMAIN bets))

\* The settled bets prolong or end a streak in the order of their grading;
\* pushes and voids do neither.
Streaks(bets) ==
  StreaksOf(MapThenFoldSet(Prolong, NoRun, LAMBDA i : bets[i],
                           LAMBDA places : LastGraded(bets, places), SettledBets(bets)))

\* What a bet is to its prediction: Scale if it was won.
Outcome(bet) == IF bet.status = "WON" THEN Scale ELSE 0
Errors(bets) == [i \in DOMAIN bets |-> Outcome(bets[i]) - bets[i].p]

\* Scale ^ 2 times the number of bets times the Brier score.
Brier(bets) ==
  SumFunctionOnSet([i \in DOMAIN bets |-> Errors(bets)[i] * Errors(bets)[i]], SettledBets(bets))

\* Mutant: probability 1 has a bin of its own, after the last.
BinOf_NoLastBin(bet, bins) == (bet.p * bins) \div Scale

\* The bin of a bet, from 0; the last one includes 1.
BinOf(bet, bins) ==
  LET index == (bet.p * bins) \div Scale IN
  IF index < bins THEN index ELSE bins - 1

CalibrationBins(bets, bins) ==
  [b \in 0..(bins - 1) |-> {i \in SettledBets(bets) : BinOf(bets[i], bins) = b}]

\* How far the wins of a bin are from what was predicted for it: Scale times
\* the size of the bin times the distance of the means.
Gap(bets, bin) ==
  LET excess == SumFunctionOnSet(Errors(bets), bin)
  IN  IF excess < 0 THEN -excess ELSE excess

\* Scale times the number of bets times the expected calibration error.
CalibrationError(bets, bins) ==
  SumFunction([b \in 0..(bins - 1) |-> Gap(bets, CalibrationBins(bets, bins)[b])])
=============================================================================
