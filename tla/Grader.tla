------------------------------- MODULE Grader -------------------------------
(***************************************************************************)
(* Grading in the bookie emulator: the subscriber to events:game.completed,*)
(* the fallback poller and the manual grade requests, which run            *)
(* concurrently on one ledger.  Each of them is a task; job[t] holds what  *)
(* the task has read so far, and job[t].pc the await it has reached.  A    *)
(* step of a task is what happens between two awaits, so every read of the *)
(* ledger, every call of a service and every transaction is a step.        *)
(*                                                                         *)
(* Left out: the columns of a grade row that no decision reads (scores,    *)
(* closing odds, CLV, descriptions) and the bankroll snapshot that         *)
(* apply_grade appends.  Fetching the closing lines therefore changes      *)
(* nothing here.  Rows are read in no particular order, as by the queries. *)
(***************************************************************************)
EXTENDS Book, Sequences

CONSTANTS
  Timed,      \* games whose scheduled start can be parsed (game_start_at)
  Requests,   \* manual grade requests, each sent at most once
  Forcings,   \* the values of the force flag that requests may carry
  MaxInbox,   \* bound: events of the channel waiting for the subscriber
  MaxFaults   \* bound: failed calls and crashes in a behaviour

CONSTANT NoGame

ASSUME GraderAssumption ==
  /\ Timed \subseteq Games /\ NoGame \notin Games
  /\ Requests \cap {"subscriber", "poller"} = {}
  /\ Forcings \subseteq BOOLEAN
  /\ MaxInbox \in Nat /\ MaxFaults \in Nat

VARIABLES
  status,     \* paper_bets.status, "NONE" while there is no such row
  priced,     \* bet_grades: the selections whose odds the grade row pays
  legStatus,  \* parlay_legs.leg_status, "NONE" while there is no such row
  result,     \* statistics-service: the result of a game, NoResult until FINAL
  boxScore,   \* statistics-service: the box score of a game, NoBox for a 404
  reported,   \* history: the results a game has had
  boxed,      \* history: the box scores a game has had
  elapsed,    \* games that started more than grading_grace_seconds ago
  inbox,      \* events:game.completed messages not yet taken
  announced,  \* events:bet.graded: the statuses published of a row, in order
  queue,      \* games the poller has still to look at in this sweep
  job,        \* what each task is doing
  faults,     \* number of faults so far
  abandoned   \* history: parlays a task was to settle when it failed

ledger == <<status, priced, legStatus>>
statistics == <<result, boxScore, reported, boxed>>
vars == <<status, priced, legStatus, result, boxScore, reported, boxed, elapsed,
          inbox, announced, queue, job, faults, abandoned>>

Graders == {"subscriber", "poller"}
Tasks == Graders \cup Requests

\* A task at a control point, holding nothing.
At(pc) == [pc |-> pc, game |-> NoGame, score |-> NoResult, box |-> NoBox,
           bets |-> {}, legs |-> {}, parents |-> {}, hand |-> {}, force |-> FALSE]

\* Where a task goes when its grading is over, normally or by an exception:
\* the subscriber waits for the next message, the poller takes the next game.
Rest(t) == At(CASE t = "subscriber" -> "idle" [] t = "poller" -> "sweep" [] OTHER -> "done")

PCs == {"idle", "union", "sweep", "bets", "legs", "box", "grade", "settle",
        "publish", "ask_legs", "ask_game", "done"}
Settlement == [row : Rows, grade : Graded, won : SUBSET Selections]
Job == [pc : PCs, game : Games \cup {NoGame},
        score : Results \cup {NoResult}, box : BoxScores \cup {NoBox},
        bets : SUBSET Singles, legs : SUBSET Legs, parents : SUBSET Parlays,
        hand : SUBSET Settlement, force : BOOLEAN]

TypeOK ==
  /\ status \in [Rows -> {"NONE", "OPEN"} \cup Graded]
  /\ priced \in [Rows -> SUBSET Selections]
  /\ legStatus \in [Legs -> {"NONE", "OPEN"} \cup Graded]
  /\ result \in [Games -> Results \cup {NoResult}]
  /\ boxScore \in [Games -> BoxScores \cup {NoBox}]
  /\ reported \in [Games -> SUBSET Results]
  /\ boxed \in [Games -> SUBSET BoxScores]
  /\ elapsed \in SUBSET Games
  /\ inbox \in Seq([game : Games, score : Results])
  /\ announced \in [Rows -> Seq(Graded)]
  /\ queue \in SUBSET Games
  /\ job \in [Tasks -> Job]
  /\ faults \in Nat
  /\ abandoned \in SUBSET Parlays

Init ==
  /\ status = [r \in Rows |-> "NONE"]
  /\ priced = [r \in Rows |-> {}]
  /\ legStatus = [l \in Legs |-> "NONE"]
  /\ result = [g \in Games |-> NoResult]
  /\ boxScore = [g \in Games |-> NoBox]
  /\ reported = [g \in Games |-> {}]
  /\ boxed = [g \in Games |-> {}]
  /\ elapsed = {}
  /\ inbox = << >>
  /\ announced = [r \in Rows |-> << >>]
  /\ queue = {}
  /\ job = [t \in Tasks |-> At("idle")]
  /\ faults = 0
  /\ abandoned = {}
-----------------------------------------------------------------------------
(***************************************************************************)
(* The surroundings: placements, the statistics service, the clock and the *)
(* channel of completed games.                                             *)
(***************************************************************************)

\* The insert of place_bet.  The game was open when it was fetched, a few
\* awaits earlier, and may be final by now.
InsertBet(s) ==
  /\ status[s] = "NONE"
  /\ status' = [status EXCEPT ![s] = "OPEN"]
  /\ UNCHANGED <<priced, legStatus, statistics, elapsed, inbox, announced, queue,
                 job, faults, abandoned>>

\* The insert of place_parlay: the parent and all legs in one transaction.
InsertParlay(p) ==
  /\ status[p] = "NONE"
  /\ status' = [status EXCEPT ![p] = "OPEN"]
  /\ legStatus' = [l \in Legs |-> IF ParentOf[l] = p THEN "OPEN" ELSE legStatus[l]]
  /\ UNCHANGED <<priced, statistics, elapsed, inbox, announced, queue, job,
                 faults, abandoned>>

\* A game becomes FINAL, or its result is corrected.  A result is not
\* reported of a game a second time, which bounds the corrections.
ReportResult(g, v) ==
  /\ v \notin reported[g]
  /\ result' = [result EXCEPT ![g] = v]
  /\ reported' = [reported EXCEPT ![g] = @ \cup {v}]
  /\ UNCHANGED <<ledger, boxScore, boxed, elapsed, inbox, announced, queue, job,
                 faults, abandoned>>

\* The box score of a game appears or is completed; it may lag the result.
ServeBox(g, b) ==
  /\ b \notin boxed[g]
  /\ boxScore' = [boxScore EXCEPT ![g] = b]
  /\ boxed' = [boxed EXCEPT ![g] = @ \cup {b}]
  /\ UNCHANGED <<ledger, result, reported, elapsed, inbox, announced, queue, job,
                 faults, abandoned>>

\* A completed game is announced, perhaps more than once.  An event that is
\* lost is one that this action does not deliver.
DeliverCompleted(g) ==
  /\ result[g] # NoResult
  /\ Len(inbox) < MaxInbox
  /\ inbox' = Append(inbox, [game |-> g, score |-> result[g]])
  /\ UNCHANGED <<ledger, statistics, elapsed, announced, queue, job, faults, abandoned>>

\* The subscriber loses its connection and the messages waiting on it.
Reconnect ==
  /\ inbox # << >>
  /\ job["subscriber"].pc = "idle"
  /\ inbox' = << >>
  /\ UNCHANGED <<ledger, statistics, elapsed, announced, queue, job, faults, abandoned>>

GraceElapses(g) ==
  /\ g \in Timed \ elapsed
  /\ elapsed' = elapsed \cup {g}
  /\ UNCHANGED <<ledger, statistics, inbox, announced, queue, job, faults, abandoned>>
-----------------------------------------------------------------------------
(***************************************************************************)
(* The three ways into grading.                                            *)
(***************************************************************************)
Become(t, newJob) == job' = [job EXCEPT ![t] = newJob]

\* GameCompletedSubscriber._handle: the scores come from the event.
Receive ==
  /\ job["subscriber"].pc = "idle"
  /\ inbox # << >>
  /\ inbox' = Tail(inbox)
  /\ Become("subscriber", [At("bets") EXCEPT !.game = Head(inbox).game,
                                             !.score = Head(inbox).score])
  /\ UNCHANGED <<ledger, statistics, elapsed, announced, queue, faults, abandoned>>

\* Mutant: the sweep looks at the games still within the grace period.
SweepBets_BeforeGrace ==
  /\ job["poller"].pc = "idle"
  /\ queue' = {Terms[s].game : s \in {x \in Singles : status[x] = "OPEN"}} \ elapsed
  /\ Become("poller", At("union"))
  /\ UNCHANGED <<ledger, statistics, elapsed, inbox, announced, faults, abandoned>>

\* GradingPoller.run_once: the games of open bets past the grace period ...
SweepBets ==
  /\ job["poller"].pc = "idle"
  /\ queue' = {Terms[s].game : s \in {x \in Singles : status[x] = "OPEN"}} \cap elapsed
  /\ Become("poller", At("union"))
  /\ UNCHANGED <<ledger, statistics, elapsed, inbox, announced, faults, abandoned>>

\* Mutant: the latest start of the legs gates the sweep.
ParlayElapsed_Latest(p) == \A l \in LegsOf(p) : Terms[l].game \in elapsed

\* A parlay row carries the earliest start of its legs' games.
ParlayElapsed(p) == \E l \in LegsOf(p) : Terms[l].game \in elapsed

\* Mutant: the games of the legs are not added to the sweep.
SweepLegs_NoUnion ==
  /\ job["poller"].pc = "union"
  /\ Become("poller", At("sweep"))
  /\ UNCHANGED <<ledger, statistics, elapsed, inbox, announced, queue, faults, abandoned>>

\* ... and the games of open legs, once the earliest game of their parlay is.
SweepLegs ==
  /\ job["poller"].pc = "union"
  /\ queue' = queue \cup {Terms[l].game : l \in {x \in Legs : /\ legStatus[x] = "OPEN"
                                                              /\ ParlayElapsed(ParentOf[x])}}
  /\ Become("poller", At("sweep"))
  /\ UNCHANGED <<ledger, statistics, elapsed, inbox, announced, faults, abandoned>>

\* The next game of the sweep: grade it when it is FINAL, else pass on.
PollGame(g) ==
  /\ job["poller"].pc = "sweep"
  /\ g \in queue
  /\ queue' = queue \ {g}
  /\ IF result[g] = NoResult THEN job' = job
     ELSE Become("poller", [At("bets") EXCEPT !.game = g, !.score = result[g]])
  /\ UNCHANGED <<ledger, statistics, elapsed, inbox, announced, faults, abandoned>>

SweepEnds ==
  /\ job["poller"].pc = "sweep"
  /\ queue = {}
  /\ Become("poller", At("idle"))
  /\ UNCHANGED <<ledger, statistics, elapsed, inbox, announced, queue, faults, abandoned>>

\* POST /bets/{id}/grade: grade_manual reads the row and refuses a graded one
\* unless the request forces it.
Ask(q, r, force) ==
  /\ job[q].pc = "idle"
  /\ status[r] # "NONE"
  /\ IF status[r] # "OPEN" /\ ~force THEN Become(q, At("done"))
     ELSE IF r \in Parlays
     THEN Become(q, [At("ask_legs") EXCEPT !.parents = {r}, !.force = force])
     ELSE Become(q, [At("ask_game") EXCEPT !.bets = {r}, !.force = force])
  /\ UNCHANGED <<ledger, statistics, elapsed, inbox, announced, queue, faults, abandoned>>

\* A parlay with an open leg is refused (422), any other is settled.
AskLegs(q) ==
  /\ job[q].pc = "ask_legs"
  /\ IF \E p \in job[q].parents : \E l \in LegsOf(p) : legStatus[l] = "OPEN"
     THEN Become(q, At("done"))
     ELSE Become(q, [job[q] EXCEPT !.pc = "grade"])
  /\ UNCHANGED <<ledger, statistics, elapsed, inbox, announced, queue, faults, abandoned>>

\* A game that is not FINAL, and a TEAM_PROP or GAME_PROP bet, are refused.
AskGame(q) ==
  /\ job[q].pc = "ask_game"
  /\ \E s \in job[q].bets :
       IF result[Terms[s].game] = NoResult \/ Terms[s].market \in OtherProps
       THEN Become(q, At("done"))
       ELSE Become(q, [job[q] EXCEPT !.pc = IF IsProp(s) THEN "box" ELSE "grade",
                                     !.game = Terms[s].game,
                                     !.score = result[Terms[s].game]])
  /\ UNCHANGED <<ledger, statistics, elapsed, inbox, announced, queue, faults, abandoned>>
-----------------------------------------------------------------------------
(***************************************************************************)
(* GraderService.grade_game, one await after the other.  A manual request  *)
(* for a single bet joins it at "box" or "grade" with that bet alone, one  *)
(* for a parlay at "grade" with that parent alone.                         *)
(***************************************************************************)
ReadBets(t) ==
  /\ job[t].pc = "bets"
  /\ Become(t, [job[t] EXCEPT !.pc = "legs",
       !.bets = {s \in Singles : Terms[s].game = job[t].game /\ status[s] = "OPEN"}])
  /\ UNCHANGED <<ledger, statistics, elapsed, inbox, announced, queue, faults, abandoned>>

\* Mutant: only the legs are asked whether they need the box score.
ReadLegs_BoxForLegsOnly(t) ==
  /\ job[t].pc = "legs"
  /\ LET legs == {l \in Legs : Terms[l].game = job[t].game /\ legStatus[l] = "OPEN"}
         needsBox == \E x \in legs : IsPlayerProp(x)
     IN  Become(t, [job[t] EXCEPT !.pc = IF needsBox THEN "box" ELSE "grade",
                                  !.legs = legs])
  /\ UNCHANGED <<ledger, statistics, elapsed, inbox, announced, queue, faults, abandoned>>

\* With neither bets nor legs the game is done at once, as in the early return.
ReadLegs(t) ==
  /\ job[t].pc = "legs"
  /\ LET legs == {l \in Legs : Terms[l].game = job[t].game /\ legStatus[l] = "OPEN"}
         needsBox == \E x \in job[t].bets \cup legs : IsPlayerProp(x)
     IN  Become(t, [job[t] EXCEPT !.pc = IF needsBox THEN "box" ELSE "grade",
                                  !.legs = legs])
  /\ UNCHANGED <<ledger, statistics, elapsed, inbox, announced, queue, faults, abandoned>>

\* Without a box score grade_game goes on and a manual request is refused.
FetchBox(t) ==
  /\ job[t].pc = "box"
  /\ LET box == boxScore[job[t].game]
     IN  IF box = NoBox /\ t \in Requests THEN Become(t, Rest(t))
         ELSE Become(t, [job[t] EXCEPT !.pc = "grade", !.box = box])
  /\ UNCHANGED <<ledger, statistics, elapsed, inbox, announced, queue, faults, abandoned>>

\* Mutant: the update has no status guard.
ApplyGrade_NoClaim(t, r, grade, won, after) ==
  /\ status' = [status EXCEPT ![r] = grade]
  /\ priced' = [priced EXCEPT ![r] = won]
  /\ Become(t, [after EXCEPT !.pc = "publish",
                             !.hand = {[row |-> r, grade |-> grade, won |-> won]}])

\* apply_grade: claim the row and write its grade in one transaction.  The
\* task publishes the grade when the claim succeeded.
ApplyGrade(t, r, grade, won, after) ==
  IF status[r] = "OPEN" \/ job[t].force
  THEN /\ status' = [status EXCEPT ![r] = grade]
       /\ priced' = [priced EXCEPT ![r] = won]
       /\ Become(t, [after EXCEPT !.pc = "publish",
                                  !.hand = {[row |-> r, grade |-> grade, won |-> won]}])
  ELSE /\ Become(t, [after EXCEPT !.pc = "grade", !.hand = {}])
       /\ UNCHANGED <<status, priced>>

\* _grade_one.  A bet that grade_bet cannot grade raises, and nothing between
\* here and the task catches it: the rest of the game is not graded.
GradeScoreBet(t, s) ==
  /\ job[t].pc = "grade"
  /\ s \in job[t].bets
  /\ ~IsProp(s)
  /\ LET grade == ScoreGrade(s, job[t].score)
     IN  \/ /\ grade \in Graded
            /\ ApplyGrade(t, s, grade, PricedOf(s, grade),
                          [job[t] EXCEPT !.bets = @ \ {s}])
         \/ /\ grade = "ERROR"
            /\ Become(t, Rest(t))
            /\ UNCHANGED <<status, priced>>
  /\ UNCHANGED <<legStatus, statistics, elapsed, inbox, announced, queue, faults, abandoned>>

\* Mutant: a prop the box score does not settle is lost.
GradeProp_LostWhenMissing(t, s) ==
  /\ job[t].pc = "grade"
  /\ s \in job[t].bets
  /\ \A x \in job[t].bets : IsProp(x)
  /\ LET resolved == PropGrade(s, job[t].box)
         grade == IF resolved = "UNRESOLVED" THEN "LOST" ELSE resolved
     IN  ApplyGrade(t, s, grade, PricedOf(s, grade), [job[t] EXCEPT !.bets = @ \ {s}])
  /\ UNCHANGED <<legStatus, statistics, elapsed, inbox, announced, queue, faults, abandoned>>

\* _grade_props, after the score bets: an unresolved prop is passed over.
GradeProp(t, s) ==
  /\ job[t].pc = "grade"
  /\ s \in job[t].bets
  /\ \A x \in job[t].bets : IsProp(x)
  /\ LET grade == PropGrade(s, job[t].box)
         after == [job[t] EXCEPT !.bets = @ \ {s}]
     IN  \/ /\ grade \in Graded
            /\ ApplyGrade(t, s, grade, PricedOf(s, grade), after)
         \/ /\ grade = "UNRESOLVED"
            /\ Become(t, after)
            /\ UNCHANGED <<status, priced>>
  /\ UNCHANGED <<legStatus, statistics, elapsed, inbox, announced, queue, faults, abandoned>>

\* Mutant: grade_leg updates the leg whatever its status.
GradeLeg_NoClaim(t, l) ==
  /\ job[t].pc = "grade"
  /\ job[t].bets = {}
  /\ l \in job[t].legs
  /\ LET grade == IF IsProp(l) THEN PropGrade(l, job[t].box) ELSE ScoreGrade(l, job[t].score)
     IN  /\ grade \in Graded
         /\ legStatus' = [legStatus EXCEPT ![l] = grade]
         /\ Become(t, [job[t] EXCEPT !.legs = @ \ {l}, !.parents = @ \cup {ParentOf[l]}])
  /\ UNCHANGED <<status, priced, statistics, elapsed, inbox, announced, queue, faults,
                 abandoned>>

\* The first loop of _grade_parlay_legs, after the bets: grade_leg claims the
\* leg, and the parlay of a claimed leg is to be settled.
GradeLeg(t, l) ==
  /\ job[t].pc = "grade"
  /\ job[t].bets = {}
  /\ l \in job[t].legs
  /\ LET grade == IF IsProp(l) THEN PropGrade(l, job[t].box) ELSE ScoreGrade(l, job[t].score)
         after == [job[t] EXCEPT !.legs = @ \ {l}]
     IN  IF grade \in Graded /\ legStatus[l] = "OPEN"
         THEN /\ legStatus' = [legStatus EXCEPT ![l] = grade]
              /\ Become(t, [after EXCEPT !.parents = @ \cup {ParentOf[l]}])
         ELSE Become(t, after) /\ UNCHANGED legStatus
  /\ UNCHANGED <<status, priced, statistics, elapsed, inbox, announced, queue, faults,
                 abandoned>>

Board(p) == [l \in LegsOf(p) |-> legStatus[l]]

\* The second loop, _settle_parlay_if_decided: leave a parlay with an open
\* leg, else work out its grade.  The count of the open legs and the read of
\* the legs are one step, for a decided leg never opens again.
ReadParlay(t, p) ==
  /\ job[t].pc = "grade"
  /\ job[t].bets = {} /\ job[t].legs = {}
  /\ p \in job[t].parents
  /\ LET grade == SettleParlay(Board(p))
     IN  IF grade = "OPEN" THEN Become(t, [job[t] EXCEPT !.parents = @ \ {p}])
         ELSE Become(t, [job[t] EXCEPT !.pc = "settle",
                !.hand = {[row |-> p, grade |-> grade, won |-> WonLegs(Board(p))]}])
  /\ UNCHANGED <<ledger, statistics, elapsed, inbox, announced, queue, faults, abandoned>>

ApplyParlay(t) ==
  /\ job[t].pc = "settle"
  /\ \E h \in job[t].hand :
       ApplyGrade(t, h.row, h.grade, h.won, [job[t] EXCEPT !.parents = @ \ {h.row}])
  /\ UNCHANGED <<legStatus, statistics, elapsed, inbox, announced, queue, faults, abandoned>>

\* publish_bet_graded, after the commit of apply_grade.
Publish(t) ==
  /\ job[t].pc = "publish"
  /\ \E h \in job[t].hand : announced' = [announced EXCEPT ![h.row] = Append(@, h.grade)]
  /\ Become(t, [job[t] EXCEPT !.pc = "grade", !.hand = {}])
  /\ UNCHANGED <<ledger, statistics, elapsed, inbox, queue, faults, abandoned>>

GameDone(t) ==
  /\ job[t].pc = "grade"
  /\ job[t].bets = {} /\ job[t].legs = {} /\ job[t].parents = {}
  /\ Become(t, Rest(t))
  /\ UNCHANGED <<ledger, statistics, elapsed, inbox, announced, queue, faults, abandoned>>
-----------------------------------------------------------------------------
(***************************************************************************)
(* Faults.  Failed HTTP and redis calls that the code catches let the task *)
(* go on; any other exception ends the grading of the game.                *)
(***************************************************************************)
Fault == faults < MaxFaults /\ faults' = faults + 1

\* _fetch_box_score and publish_bet_graded swallow every exception.
CallFails(t) ==
  /\ \/ job[t].pc = "box" /\ t \in Graders
     \/ job[t].pc = "publish"
  /\ Become(t, [job[t] EXCEPT !.pc = "grade", !.hand = {}])
  /\ Fault
  /\ UNCHANGED <<ledger, statistics, elapsed, inbox, announced, queue, abandoned>>

\* get_game fails for a game of the sweep: the next one is looked at.
PollFails(g) ==
  /\ job["poller"].pc = "sweep"
  /\ g \in queue
  /\ queue' = queue \ {g}
  /\ Fault
  /\ UNCHANGED <<ledger, statistics, elapsed, inbox, announced, job, abandoned>>

\* A database call raises (also after the commit it asked for, at "publish"),
\* or a call of a manual request does.
TaskFails(t) ==
  /\ \/ job[t].pc \in {"union", "bets", "legs", "grade", "settle", "publish", "ask_legs", "ask_game"}
     \/ job[t].pc = "box" /\ t \in Requests
  /\ abandoned' = abandoned \cup job[t].parents
  /\ Become(t, IF job[t].pc = "union" THEN At("idle") ELSE Rest(t))
  /\ queue' = IF job[t].pc = "union" THEN {} ELSE queue
  /\ Fault
  /\ UNCHANGED <<ledger, statistics, elapsed, inbox, announced>>

\* The process stops and starts again: tasks, requests and the messages on
\* the connection are gone, the ledger stays.
Crash ==
  /\ abandoned' = abandoned \cup UNION {job[t].parents : t \in Tasks}
  /\ job' = [t \in Tasks |-> IF t \in Requests /\ job[t].pc # "idle" THEN At("done") ELSE At("idle")]
  /\ inbox' = << >>
  /\ queue' = {}
  /\ Fault
  /\ UNCHANGED <<ledger, statistics, elapsed, announced>>
-----------------------------------------------------------------------------
Environment ==
  \/ \E s \in Singles : InsertBet(s)
  \/ \E p \in Parlays : InsertParlay(p)
  \/ \E g \in Games : \/ \E v \in Results : ReportResult(g, v)
                      \/ \E b \in BoxScores : ServeBox(g, b)
                      \/ DeliverCompleted(g)
                      \/ GraceElapses(g)
  \/ Reconnect

Grade(t) ==
  \/ ReadBets(t)
  \/ ReadLegs(t)
  \/ FetchBox(t)
  \/ \E s \in Singles : GradeScoreBet(t, s) \/ GradeProp(t, s)
  \/ \E l \in Legs : GradeLeg(t, l)
  \/ \E p \in Parlays : ReadParlay(t, p)
  \/ ApplyParlay(t)
  \/ Publish(t)
  \/ GameDone(t)

Subscribe == Receive \/ Grade("subscriber")

Poll == SweepBets \/ SweepLegs \/ SweepEnds \/ (\E g \in Games : PollGame(g)) \/ Grade("poller")

Answer(q) == AskLegs(q) \/ AskGame(q) \/ Grade(q)

Faults ==
  \/ \E t \in Tasks : CallFails(t) \/ TaskFails(t)
  \/ \E g \in Games : PollFails(g)
  \/ Crash

Next ==
  \/ Environment
  \/ Subscribe
  \/ Poll
  \/ \E q \in Requests : \/ \E r \in Rows, force \in Forcings : Ask(q, r, force)
                         \/ Answer(q)
  \/ Faults

Spec == Init /\ [][Next]_vars

(***************************************************************************)
(* The event loop runs every task whose await is over, every HTTP call has *)
(* a timeout, and the poller sleeps for a fixed time; the clock does not   *)
(* stop.  Nothing is assumed of placements, reports, deliveries, requests  *)
(* being sent, or faults.                                                  *)
(***************************************************************************)
Fairness ==
  /\ WF_vars(Subscribe)
  /\ WF_vars(Poll)
  /\ \A q \in Requests : WF_vars(Answer(q))
  /\ \A g \in Games : WF_vars(GraceElapses(g))

FairSpec == Spec /\ Fairness
-----------------------------------------------------------------------------
(***************************************************************************)
(* Properties.                                                             *)
(***************************************************************************)
LegsDecided(p) == \A l \in LegsOf(p) : legStatus[l] \in Graded

(***************************************************************************)
(* A parlay that has been settled was settled from the legs as they stand: *)
(* all decided, its grade theirs, and the odds it pays those of its won    *)
(* legs, whichever of the racing tasks read them (_settle_parlay_if_decided*)
(* reads the legs and applies the grade in different transactions).        *)
(***************************************************************************)
ParlayMatchesLegs ==
  \A p \in Parlays : status[p] \in Graded =>
    /\ LegsDecided(p)
    /\ status[p] = SettleParlay(Board(p))
    /\ priced[p] = WonLegs(Board(p))

(***************************************************************************)
(* Once its last leg is decided, an open parlay is the business of a task  *)
(* that will settle it, unless a task failed that had it in hand.  Nobody  *)
(* else would come back to it: the sweep looks at open legs only, and the  *)
(* legs of one parlay may have been decided by different tasks, none of    *)
(* which saw the others' (grade_leg, _grade_parlay_legs).                  *)
(***************************************************************************)
DecidedParlayIsOwned ==
  \A p \in Parlays : status[p] = "OPEN" /\ LegsDecided(p) =>
    p \in abandoned \/ \E t \in Tasks : p \in job[t].parents

(***************************************************************************)
(* The inductive invariant behind the two properties above: a parlay and   *)
(* its legs are placed together, a task has parlays in hand only after it  *)
(* has let go of its bets, and the grade a task is about to apply to a     *)
(* parlay is the one the legs still have.                                  *)
(***************************************************************************)
PlacedTogether ==
  \A p \in Parlays : \A l \in LegsOf(p) : status[p] = "NONE" <=> legStatus[l] = "NONE"

JobFits(j) ==
  /\ j.pc \in {"idle", "union", "sweep", "bets", "legs", "box", "ask_game", "done"} => j.parents = {}
  /\ j.bets # {} => j.parents = {}
  /\ j.pc = "ask_legs" => \E p \in Parlays : j.parents = {p}
  /\ \A p \in j.parents : status[p] # "NONE"
  /\ j.pc = "settle" => \E p \in j.parents :
       /\ LegsDecided(p)
       /\ j.hand = {[row |-> p, grade |-> SettleParlay(Board(p)), won |-> WonLegs(Board(p))]}

ParlayInv ==
  /\ PlacedTogether
  /\ \A t \in Tasks : JobFits(job[t])
  /\ ParlayMatchesLegs
  /\ DecidedParlayIsOwned

(***************************************************************************)
(* Without forced requests a row is announced on bet.graded at most once,  *)
(* and as what the ledger says it is, however many graders race for it and *)
(* whatever fails between the commit and the publication.                  *)
(***************************************************************************)
AnnouncedAsGraded ==
  Forcings \subseteq {FALSE} =>
    \A r \in Rows :
      /\ Len(announced[r]) <= 1
      /\ \A i \in 1..Len(announced[r]) : announced[r][i] = status[r]

\* Selections that grade_bet accepts, whatever the result of their game.
Gradeable(x) == ~IsProp(x) /\ \A v \in Results : ScoreGrade(x, v) \in Graded

(***************************************************************************)
(* A bet placed on a game that is already final, or whose event was lost,  *)
(* came before the insert or was in hand when the process stopped, is      *)
(* graded all the same: a later sweep of the poller gets it.               *)
(***************************************************************************)
ScoreBetsSettle ==
  \A s \in {x \in Singles : Gradeable(x) /\ Terms[x].game \in Timed} :
    status[s] = "OPEN" /\ result[Terms[s].game] # NoResult ~> status[s] \in Graded

(***************************************************************************)
(* So is a leg, from the moment the earliest game of its parlay is past    *)
(* the grace period, although its own game may start much later.           *)
(***************************************************************************)
LegsDecide ==
  \A l \in {x \in Legs : /\ Gradeable(x)
                         /\ \E m \in LegsOf(ParentOf[x]) : Terms[m].game \in Timed} :
    legStatus[l] = "OPEN" /\ result[Terms[l].game] # NoResult ~> legStatus[l] \in Graded

(***************************************************************************)
(* A player prop of a final game is settled once a box score that settles  *)
(* it is served, late as it may come, unless the box score is replaced by  *)
(* one that does not (_grade_props leaves the bet open and the poller      *)
(* retries).                                                               *)
(***************************************************************************)
PropBetsSettle ==
  \A s \in {x \in Singles : IsProp(x) /\ Terms[x].game \in Timed} :
    LET resolves == PropGrade(s, boxScore[Terms[s].game]) \in Graded
    IN  status[s] = "OPEN" /\ result[Terms[s].game] # NoResult /\ resolves
          ~> status[s] \in Graded \/ ~resolves

(***************************************************************************)
(* A parlay is settled once the games of all its legs are final, its legs  *)
(* decided by several graders in several sweeps, unless a task failed with *)
(* it in hand.  Only for score legs and parlays with a known start.        *)
(***************************************************************************)
ParlaysSettle ==
  \A p \in {x \in Parlays : /\ \A l \in LegsOf(x) : Gradeable(l)
                            /\ \E l \in LegsOf(x) : Terms[l].game \in Timed} :
    (/\ status[p] = "OPEN"
     /\ \A l \in LegsOf(p) : result[Terms[l].game] # NoResult)
      ~> status[p] \in Graded \/ p \in abandoned

(***************************************************************************)
(* What db/tables.py says of parlay_legs: "the parent paper_bets row       *)
(* (is_parlay=TRUE) settles once every leg is decided".                    *)
(***************************************************************************)
DecidedParlaysSettle ==
  \A p \in Parlays : status[p] = "OPEN" /\ LegsDecided(p) ~> status[p] \in Graded

(***************************************************************************)
(* The grader implements the ledger: seen through the tables and what the  *)
(* statistics service reported, every step of every task is one of the     *)
(* steps that BetLedger allows, or none.                                   *)
(***************************************************************************)
Ledger == INSTANCE BetLedger WITH Forcing <- (TRUE \in Forcings)
ImplementsLedger == Ledger!Spec
=============================================================================
