----------------------------- MODULE Placement ------------------------------
(***************************************************************************)
(* Placement of bets and parlays: POST /bets and POST /parlays.  An order  *)
(* is one HTTP request; a client that got no answer sends the same again   *)
(* as another order with the same idempotency key.  order[o] holds what    *)
(* the handler of the order has read so far, pc the await it has reached.  *)
(*                                                                         *)
(* A row of paper_bets is named by the order that inserted it, its legs    *)
(* are part of it.  All odds are the number Odds, stakes are whole units.  *)
(***************************************************************************)
EXTENDS Outcomes, Sequences, FiniteSets

CONSTANTS
  Orders,
  KeyOf,      \* X-Idempotency-Key of an order
  Terms,      \* what an order asks for
  Games,
  Bankroll,   \* starting_bankroll_units
  Odds,       \* decimal odds of every captured line
  Forcing     \* whether graded bets may be graded again by force

NotPlayed == {"SCHEDULED", "IN_PROGRESS"}
GameStates == NotPlayed \cup {"OVER"}    \* final, postponed or cancelled

\* wellFormed: the stake is positive and validate_parlay_legs accepts the
\* legs.  A single bet has one game, a parlay one for every leg.
Term == [stake : Nat, games : Seq(Games), live : BOOLEAN, wellFormed : BOOLEAN]

ASSUME PlacementAssumption ==
  /\ IsFiniteSet(Orders) /\ Terms \in [Orders -> Term]
  /\ \A o \in Orders : Terms[o].games # << >>
  /\ Bankroll \in Nat /\ Odds \in Nat \ {0} /\ Forcing \in BOOLEAN

VARIABLES
  game,      \* statistics-service: the status of a game
  started,   \* games whose scheduled start is past
  status,    \* paper_bets.status, "NONE" while the order has no row
  profit,    \* bet_grades.profit_loss
  order,     \* what the handler of an order is doing; history: whether its
             \* key was in the ledger and a game was closed when it came
  overtaken, \* history: orders whose reading of the bankroll is out of date
  overdrawn  \* history: orders that were inserted on such a reading

ledger == <<status, profit>>
surroundings == <<game, started>>
vars == <<game, started, status, profit, order, overtaken, overdrawn>>

Working == {"game", "lines", "profit", "exposure", "insert", "reload", "answer"}
Ended == {"created", "replayed", "refused", "failed"}

TypeOK ==
  /\ game \in [Games -> GameStates]
  /\ started \in SUBSET Games
  /\ status \in [Orders -> {"NONE", "OPEN"} \cup Graded]
  /\ profit \in [Orders -> Int]
  /\ order \in [Orders -> [pc : {"new"} \cup Working \cup Ended, leg : Nat, saw : Int,
                           bet : SUBSET Orders, replay : BOOLEAN, late : BOOLEAN]]
  /\ \A o \in Orders : order[o].leg \in DOMAIN Terms[o].games
  /\ overtaken \in SUBSET Orders
  /\ overdrawn \in SUBSET Orders

Init ==
  /\ game = [g \in Games |-> "SCHEDULED"]
  /\ started = {}
  /\ status = [o \in Orders |-> "NONE"]
  /\ profit = [o \in Orders |-> 0]
  /\ order = [o \in Orders |->
                [pc |-> "new", leg |-> 1, saw |-> 0, bet |-> {}, replay |-> FALSE, late |-> FALSE]]
  /\ overtaken = {}
  /\ overdrawn = {}

\* The rows with the key of an order: at most one, by the unique constraint.
RowsOf(o) == {p \in Orders : KeyOf[p] = KeyOf[o] /\ status[p] # "NONE"}

Stakes == [o \in Orders |-> Terms[o].stake]

TotalProfit == SumFunction(profit)
OpenExposure == SumFunctionOnSet(Stakes, {o \in Orders : status[o] = "OPEN"})
Available == Bankroll + TotalProfit - OpenExposure

At(o, pc) == order[o].pc = pc
Move(o, pc) == order' = [order EXCEPT ![o].pc = pc]
-----------------------------------------------------------------------------
(***************************************************************************)
(* The surroundings: games go on, and graders grade.                       *)
(***************************************************************************)
GameMoves(g) ==
  /\ game[g] \in NotPlayed
  /\ \E s \in GameStates \ {"SCHEDULED", game[g]} : game' = [game EXCEPT ![g] = s]
  /\ UNCHANGED <<started, ledger, order, overtaken, overdrawn>>

StartPasses(g) ==
  /\ g \notin started
  /\ started' = started \cup {g}
  /\ UNCHANGED <<game, ledger, order, overtaken, overdrawn>>

\* apply_grade: status and profit in one transaction.  A lost stake leaves
\* the exposure and the bankroll at once, so that an order between its two
\* readings has counted it in neither.
Settle(b, grade) ==
  /\ status[b] = "OPEN" \/ (Forcing /\ status[b] \in Graded)
  /\ status' = [status EXCEPT ![b] = grade]
  /\ profit' = [profit EXCEPT ![b] = ProfitLoss(grade, Terms[b].stake, Odds)]
  /\ overtaken' = IF grade = "LOST" THEN overtaken \cup {o \in Orders : At(o, "exposure")}
                  ELSE overtaken
  /\ UNCHANGED <<surroundings, order, overdrawn>>
-----------------------------------------------------------------------------
(***************************************************************************)
(* BetService.place_bet and place_parlay, one await after the other.       *)
(***************************************************************************)

\* A live bet may be placed on a game in progress, any other order on games
\* that have not started, by their status and by the clock.
Placeable(o, g) ==
  IF Terms[o].live THEN game[g] \in NotPlayed ELSE game[g] = "SCHEDULED" /\ g \notin started

\* The request arrives; what can be refused without a call is.
Send(o) ==
  /\ At(o, "new")
  /\ order' = [order EXCEPT ![o].pc = IF Terms[o].wellFormed THEN "game" ELSE "refused",
                            ![o].replay = RowsOf(o) # {},
                            ![o].late = \E i \in DOMAIN Terms[o].games :
                                          ~Placeable(o, Terms[o].games[i])]
  /\ UNCHANGED <<surroundings, ledger, overtaken, overdrawn>>

\* get_game, of the game of the bet or of the next leg.
FetchGame(o) ==
  /\ At(o, "game")
  /\ Move(o, IF Placeable(o, Terms[o].games[order[o].leg]) THEN "lines" ELSE "refused")
  /\ UNCHANGED <<surroundings, ledger, overtaken, overdrawn>>

\* Mutant: only the game of the first leg is looked at.
CaptureOdds_FirstLegOnly(o) ==
  /\ At(o, "lines")
  /\ Move(o, "refused") \/ Move(o, "profit")
  /\ UNCHANGED <<surroundings, ledger, overtaken, overdrawn>>

\* Mutant: there is a leg after the last.
CaptureOdds_LegAfterLast(o) ==
  /\ At(o, "lines")
  /\ \/ order' = [order EXCEPT ![o].pc = "game", ![o].leg = @ + 1]
     \/ order[o].leg = Len(Terms[o].games) /\ Move(o, "profit")
  /\ UNCHANGED <<surroundings, ledger, overtaken, overdrawn>>

\* The external id is resolved and the odds are captured, then comes the next
\* leg or the bankroll.  Which line is picked is left open; when the lines
\* service has none that matches, the order is refused.
CaptureOdds(o) ==
  /\ At(o, "lines")
  /\ \/ Move(o, "refused")
     \/ /\ order[o].leg < Len(Terms[o].games)
        /\ order' = [order EXCEPT ![o].pc = "game", ![o].leg = @ + 1]
     \/ /\ order[o].leg = Len(Terms[o].games)
        /\ Move(o, "profit")
  /\ UNCHANGED <<surroundings, ledger, overtaken, overdrawn>>

\* _check_bankroll reads the profit ...
ReadProfit(o) ==
  /\ At(o, "profit")
  /\ order' = [order EXCEPT ![o].pc = "exposure", ![o].saw = Bankroll + TotalProfit]
  /\ UNCHANGED <<surroundings, ledger, overtaken, overdrawn>>

\* Mutant: the stakes of the open bets are not set aside.
CheckStake_IgnoresExposure(o) ==
  /\ At(o, "exposure")
  /\ Move(o, IF Terms[o].stake > order[o].saw THEN "refused" ELSE "insert")
  /\ UNCHANGED <<surroundings, ledger, overtaken, overdrawn>>

\* ... and then the exposure, in another transaction.
CheckStake(o) ==
  /\ At(o, "exposure")
  /\ Move(o, IF Terms[o].stake > order[o].saw - OpenExposure THEN "refused" ELSE "insert")
  /\ UNCHANGED <<surroundings, ledger, overtaken, overdrawn>>

\* Mutant: the insert does not look for a row with its key.
Insert_IgnoresKey(o) ==
  /\ At(o, "insert")
  /\ status' = [status EXCEPT ![o] = "OPEN"]
  /\ order' = [order EXCEPT ![o].pc = "answer", ![o].bet = {o}]
  /\ UNCHANGED <<surroundings, profit, overtaken, overdrawn>>

\* insert_idempotent and insert_parlay: on conflict of the key do nothing and
\* read the row there is.
Insert(o) ==
  /\ At(o, "insert")
  /\ IF RowsOf(o) # {}
     THEN Move(o, "reload") /\ UNCHANGED <<status, overtaken, overdrawn>>
     ELSE /\ status' = [status EXCEPT ![o] = "OPEN"]
          /\ order' = [order EXCEPT ![o].pc = "answer", ![o].bet = {o}]
          /\ overtaken' = overtaken \cup {p \in Orders \ {o} : At(p, "insert")}
          /\ overdrawn' = overdrawn \cup ({o} \cap overtaken)
  /\ UNCHANGED <<surroundings, profit>>

Reload(o) ==
  /\ At(o, "reload")
  /\ order' = [order EXCEPT ![o].pc = "answer", ![o].bet = RowsOf(o)]
  /\ UNCHANGED <<surroundings, ledger, overtaken, overdrawn>>

\* The response: 201 for a bet of one's own, 200 for that of an earlier order.
Answer(o) ==
  /\ At(o, "answer")
  /\ Move(o, IF order[o].bet = {o} THEN "created" ELSE "replayed")
  /\ UNCHANGED <<surroundings, ledger, overtaken, overdrawn>>

\* A call raises, the process stops or the response is lost.  A restart does
\* this to every order at work.
Fails(o) ==
  /\ order[o].pc \in Working
  /\ Move(o, "failed")
  /\ UNCHANGED <<surroundings, ledger, overtaken, overdrawn>>
-----------------------------------------------------------------------------
Handle(o) ==
  \/ Send(o)
  \/ FetchGame(o)
  \/ CaptureOdds(o)
  \/ ReadProfit(o)
  \/ CheckStake(o)
  \/ Insert(o)
  \/ Reload(o)
  \/ Answer(o)
  \/ Fails(o)

Next ==
  \/ \E g \in Games : GameMoves(g) \/ StartPasses(g)
  \/ \E o \in Orders : \/ Handle(o)
                       \/ \E grade \in Graded : Settle(o, grade)

Spec == Init /\ [][Next]_vars
-----------------------------------------------------------------------------
(***************************************************************************)
(* Placement implements the desk: one bet per key, whoever retries and     *)
(* whatever fails, and every answer names it (insert_idempotent,           *)
(* insert_parlay).  An order is refused only before its bet is in the      *)
(* ledger.                                                                 *)
(***************************************************************************)
Known(o) ==
  CASE order[o].pc \in {"created", "replayed"} ->
         [kind |-> order[o].pc, bet |-> CHOOSE b \in order[o].bet : TRUE]
    [] order[o].pc = "refused" -> [kind |-> "refused"]
    [] order[o].pc = "failed" -> [kind |-> "unknown"]
    [] OTHER -> [kind |-> "waiting"]

TheDesk == INSTANCE Desk WITH accepted <- {o \in Orders : status[o] # "NONE"},
                              outcome <- [o \in Orders |-> Known(o)]
ImplementsDesk == TheDesk!Spec

(***************************************************************************)
(* The open stakes exceed the bankroll at most by the stakes of the orders *)
(* that were inserted on an outdated reading of it: one after whose check  *)
(* another order was inserted, or between whose two readings a bet was     *)
(* lost.  Nothing else overdraws the bankroll (_check_bankroll), as long   *)
(* as no bet is graded a second time.                                      *)
(***************************************************************************)
OnlyRacesOverdraw ==
  ~Forcing => Available + SumFunctionOnSet(Stakes, overdrawn) >= 0

(***************************************************************************)
(* An order that comes when one of its games is closed for it, the last    *)
(* leg of a parlay too, leaves nothing in the ledger (place_bet,           *)
(* place_parlay): a game that is closed stays closed.                      *)
(***************************************************************************)
LateOrdersLeaveNoBet == \A o \in Orders : order[o].late => status[o] = "NONE"

(***************************************************************************)
(* What place_bet says of a retry: "Replaying an X-Idempotency-Key returns *)
(* the existing bet with 200 OK".  An order whose bet was in the ledger    *)
(* when it came is not refused.                                            *)
(***************************************************************************)
ReplayIsAnswered == \A o \in Orders : order[o].replay => ~At(o, "refused")
=============================================================================
