---------------------------- MODULE GraderProofs ----------------------------
(***************************************************************************)
(* Theorems about Grader, for every book, every number of requests and     *)
(* every bound on faults and messages: its types, its parlays, that it     *)
(* implements BetLedger, and that without forced requests every row is     *)
(* announced at most once.                                                 *)
(***************************************************************************)
EXTENDS Grader, SequenceTheorems, TLAPS

(***************************************************************************)
(* Type correctness.                                                       *)
(***************************************************************************)
LEMMA RestType == \A pc \in PCs : At(pc) \in Job
BY BookAssumption, GraderAssumption DEF At, Job, PCs

LEMMA RestIsJob == \A t \in Tasks : Rest(t) \in Job
BY RestType DEF Rest, PCs

\* A step that gives one task a new job leaves all tasks with a job.
LEMMA BecomeType ==
  ASSUME job \in [Tasks -> Job], NEW t \in Tasks, NEW j \in Job, Become(t, j)
  PROVE  job' \in [Tasks -> Job]
BY DEF Become

\* apply_grade writes a grade of the row, or nothing.
LEMMA ApplyGradeType ==
  ASSUME TypeOK, NEW t \in Tasks, NEW r \in Rows, NEW grade \in Graded,
         NEW won \in SUBSET Selections, NEW after \in Job,
         ApplyGrade(t, r, grade, won, after)
  PROVE  /\ status' \in [Rows -> {"NONE", "OPEN"} \cup Graded]
         /\ priced' \in [Rows -> SUBSET Selections]
         /\ job' \in [Tasks -> Job]
<1>1. [after EXCEPT !.pc = "publish", !.hand = {[row |-> r, grade |-> grade, won |-> won]}] \in Job
  <2> DEFINE hand == {[row |-> r, grade |-> grade, won |-> won]}
  <2>1. hand \in SUBSET Settlement
    BY DEF Settlement
  <2> HIDE DEF hand
  <2>2. [after EXCEPT !.pc = "publish", !.hand = hand] \in Job
    BY <2>1 DEF Job, PCs
  <2>3. QED
    BY <2>2 DEF hand
<1>2. [after EXCEPT !.pc = "grade", !.hand = {}] \in Job
  BY DEF Job, PCs
<1>3. job' \in [Tasks -> Job]
  BY <1>1, <1>2 DEF ApplyGrade, Become, TypeOK
<1>4. QED
  BY <1>3 DEF ApplyGrade, TypeOK

LEMMA SettleParlayType ==
  ASSUME TypeOK, NEW p \in Parlays
  PROVE  /\ SettleParlay(Board(p)) \in Graded \cup {"OPEN"}
         /\ WonLegs(Board(p)) \in SUBSET Selections
BY DEF SettleParlay, WonLegs, Board, Graded, LegsOf, Selections

LEMMA TypeInit == Init => TypeOK
<1> SUFFICES ASSUME Init PROVE TypeOK
  OBVIOUS
<1>1. job \in [Tasks -> Job]
  BY RestType DEF Init, PCs
<1>2. inbox \in Seq([game : Games, score : Results]) /\ announced \in [Rows -> Seq(Graded)]
  BY DEF Init
<1>3. QED
  BY <1>1, <1>2 DEF Init, TypeOK

\* A task that is still reading knows its game: TypeOK needs it at FetchBox.
GameKnown ==
  \A t \in Tasks : job[t].pc \in {"bets", "legs", "box"} => job[t].game \in Games

LEMMA TypeNext == TypeOK /\ GameKnown /\ [Next]_vars => TypeOK'
<1> SUFFICES ASSUME TypeOK, GameKnown, [Next]_vars PROVE TypeOK'
  OBVIOUS
<1> USE DEF ledger, statistics
<1>1. ASSUME NEW s \in Singles, InsertBet(s) PROVE TypeOK'
  BY <1>1 DEF TypeOK, InsertBet, Rows
<1>2. ASSUME NEW p \in Parlays, InsertParlay(p) PROVE TypeOK'
  BY <1>2 DEF TypeOK, InsertParlay, Rows
<1>3. ASSUME NEW g \in Games, NEW v \in Results, ReportResult(g, v) PROVE TypeOK'
  BY <1>3 DEF TypeOK, ReportResult
<1>4. ASSUME NEW g \in Games, NEW b \in BoxScores, ServeBox(g, b) PROVE TypeOK'
  BY <1>4 DEF TypeOK, ServeBox
<1>5. ASSUME NEW g \in Games, DeliverCompleted(g) PROVE TypeOK'
  <2>1. [game |-> g, score |-> result[g]] \in [game : Games, score : Results]
    BY <1>5 DEF TypeOK, DeliverCompleted
  <2>2. inbox' \in Seq([game : Games, score : Results])
    BY <1>5, <2>1 DEF TypeOK, DeliverCompleted
  <2>3. QED
    BY <1>5, <2>2 DEF TypeOK, DeliverCompleted
<1>6. CASE Reconnect
  BY <1>6 DEF TypeOK, Reconnect
<1>7. ASSUME NEW g \in Games, GraceElapses(g) PROVE TypeOK'
  BY <1>7 DEF TypeOK, GraceElapses
<1>8. CASE Receive
  <2>1. Head(inbox) \in [game : Games, score : Results] /\ inbox' \in Seq([game : Games, score : Results])
    BY <1>8, HeadTailProperties DEF TypeOK, Receive
  <2>2. [At("bets") EXCEPT !.game = Head(inbox).game, !.score = Head(inbox).score] \in Job
    BY <2>1, RestType DEF Job, PCs
  <2>3. job' \in [Tasks -> Job]
    BY <1>8, <2>2, BecomeType DEF TypeOK, Receive, Tasks, Graders
  <2>4. QED
    BY <1>8, <2>1, <2>3 DEF TypeOK, Receive
<1>9. CASE SweepBets \/ SweepLegs \/ SweepEnds
  <2>1. "poller" \in Tasks /\ {At("idle"), At("union"), At("sweep")} \subseteq Job
    BY RestType DEF Tasks, Graders, PCs
  <2>2. job' \in [Tasks -> Job]
    BY <1>9, <2>1, BecomeType DEF TypeOK, SweepBets, SweepLegs, SweepEnds
  <2>3. queue' \in SUBSET Games
    BY <1>9, BookAssumption DEF TypeOK, SweepBets, SweepLegs, SweepEnds, Selections, Term
  <2>4. QED
    BY <1>9, <2>2, <2>3 DEF TypeOK, SweepBets, SweepLegs, SweepEnds
<1>10. ASSUME NEW g \in Games, PollGame(g) PROVE TypeOK'
  <2>1. CASE result[g] = NoResult
    BY <1>10, <2>1 DEF TypeOK, PollGame
  <2>2. CASE result[g] # NoResult
    <3>1. [At("bets") EXCEPT !.game = g, !.score = result[g]] \in Job
      BY <1>10, RestType DEF TypeOK, Job, PCs
    <3>2. job' \in [Tasks -> Job]
      BY <1>10, <2>2, <3>1, BecomeType DEF TypeOK, PollGame, Tasks, Graders
    <3>3. QED
      BY <1>10, <3>2 DEF TypeOK, PollGame
  <2>3. QED
    BY <2>1, <2>2
<1>11. ASSUME NEW q \in Requests, NEW r \in Rows, NEW force \in Forcings, Ask(q, r, force) PROVE TypeOK'
  <2>1. force \in BOOLEAN /\ (r \in Parlays \/ r \in Singles) /\ q \in Tasks
    BY GraderAssumption DEF Rows, Tasks
  <2>2. At("done") \in Job
    BY RestType DEF PCs
  <2>3. ASSUME r \in Parlays PROVE [At("ask_legs") EXCEPT !.parents = {r}, !.force = force] \in Job
    BY <2>1, <2>3, RestType DEF Job, PCs
  <2>4. ASSUME r \in Singles PROVE [At("ask_game") EXCEPT !.bets = {r}, !.force = force] \in Job
    BY <2>1, <2>4, RestType DEF Job, PCs
  <2>5. job' \in [Tasks -> Job]
    BY <1>11, <2>1, <2>2, <2>3, <2>4, BecomeType DEF TypeOK, Ask
  <2>6. QED
    BY <1>11, <2>5 DEF TypeOK, Ask
<1>12. ASSUME NEW q \in Requests, AskLegs(q) PROVE TypeOK'
  <2>1. At("done") \in Job /\ q \in Tasks
    BY RestType DEF PCs, Tasks
  <2>2. job[q] \in Job
    BY <2>1 DEF TypeOK
  <2>3. [job[q] EXCEPT !.pc = "grade"] \in Job
    BY <2>2 DEF Job, PCs
  <2>4. job' \in [Tasks -> Job]
    BY <1>12, <2>1, <2>3, BecomeType DEF TypeOK, AskLegs
  <2>5. QED
    BY <1>12, <2>4 DEF TypeOK, AskLegs
<1>13. ASSUME NEW q \in Requests, AskGame(q) PROVE TypeOK'
  <2>1. q \in Tasks /\ At("done") \in Job
    BY RestType DEF Tasks, PCs
  <2>2. PICK s \in job[q].bets :
          IF result[Terms[s].game] = NoResult \/ Terms[s].market \in OtherProps
          THEN Become(q, At("done"))
          ELSE Become(q, [job[q] EXCEPT !.pc = IF IsProp(s) THEN "box" ELSE "grade",
                                        !.game = Terms[s].game,
                                        !.score = result[Terms[s].game]])
    BY <1>13 DEF AskGame
  <2>3. s \in Singles /\ Terms[s].game \in Games
    BY <2>1, BookAssumption DEF TypeOK, Job, Selections, Term
  <2>4. [job[q] EXCEPT !.pc = IF IsProp(s) THEN "box" ELSE "grade",
                       !.game = Terms[s].game,
                       !.score = result[Terms[s].game]] \in Job
    <3> DEFINE pc == IF IsProp(s) THEN "box" ELSE "grade"
               g == Terms[s].game
               score == result[g]
    <3>1. job[q] \in Job /\ pc \in PCs /\ g \in Games /\ score \in Results \cup {NoResult}
      BY <2>1, <2>3 DEF TypeOK, PCs
    <3> HIDE DEF pc, g, score
    <3>2. [job[q] EXCEPT !.pc = pc, !.game = g, !.score = score] \in Job
      BY <3>1 DEF Job
    <3>3. QED
      BY <3>2 DEF pc, g, score
  <2>5. job' \in [Tasks -> Job]
    BY <2>1, <2>2, <2>4, BecomeType DEF TypeOK
  <2>6. QED
    BY <1>13, <2>5 DEF TypeOK, AskGame
<1>14. ASSUME NEW t \in Tasks, ReadBets(t) \/ ReadLegs(t) \/ FetchBox(t) \/ GameDone(t) PROVE TypeOK'
  <2>1. job[t] \in Job /\ Rest(t) \in Job
    BY RestIsJob DEF TypeOK
  <2>2. [job[t] EXCEPT !.pc = "legs",
           !.bets = {s \in Singles : Terms[s].game = job[t].game /\ status[s] = "OPEN"}] \in Job
    BY <2>1 DEF Job, PCs
  <2>3. ASSUME NEW pc \in {"box", "grade"}
        PROVE [job[t] EXCEPT !.pc = pc,
                 !.legs = {l \in Legs : Terms[l].game = job[t].game /\ legStatus[l] = "OPEN"}] \in Job
    BY <2>1 DEF Job, PCs
  <2>4. ASSUME job[t].pc = "box"
        PROVE [job[t] EXCEPT !.pc = "grade", !.box = boxScore[job[t].game]] \in Job
    BY <2>1, <2>4 DEF Job, PCs, TypeOK, GameKnown
  <2>5. job' \in [Tasks -> Job]
    <3>1. CASE ReadBets(t)
      BY <2>2, <3>1, BecomeType DEF TypeOK, ReadBets
    <3>2. CASE ReadLegs(t)
      BY <2>3, <3>2, BecomeType DEF TypeOK, ReadLegs
    <3>3. CASE FetchBox(t)
      <4>1. CASE Become(t, Rest(t))
        BY <2>1, <4>1, BecomeType DEF TypeOK
      <4>2. CASE ~Become(t, Rest(t))
        BY <2>4, <3>3, <4>2, BecomeType DEF TypeOK, FetchBox
      <4>3. QED
        BY <4>1, <4>2
    <3>4. CASE GameDone(t)
      BY <2>1, <3>4, BecomeType DEF TypeOK, GameDone
    <3>5. QED
      BY <1>14, <3>1, <3>2, <3>3, <3>4
  <2>6. QED
    BY <1>14, <2>5 DEF TypeOK, ReadBets, ReadLegs, FetchBox, GameDone
<1>15. ASSUME NEW t \in Tasks, NEW s \in Singles, GradeScoreBet(t, s) \/ GradeProp(t, s) PROVE TypeOK'
  <2>1. job[t] \in Job /\ [job[t] EXCEPT !.bets = @ \ {s}] \in Job /\ Rest(t) \in Job
    <3>1. job[t] \in Job /\ Rest(t) \in Job
      BY RestIsJob DEF TypeOK
    <3>2. [job[t] EXCEPT !.bets = @ \ {s}] \in Job
      BY <3>1 DEF Job
    <3>3. QED
      BY <3>1, <3>2
  <2>2. \A grade : PricedOf(s, grade) \in SUBSET Selections
    BY DEF PricedOf, Selections
  <2>3. CASE GradeScoreBet(t, s)
    <3>1. CASE ScoreGrade(s, job[t].score) \in Graded /\ status' # status
      BY <2>1, <2>2, <2>3, <3>1, ApplyGradeType DEF GradeScoreBet, Rows, Graded, TypeOK
    <3>2. QED
      BY <2>1, <2>2, <2>3, ApplyGradeType, BecomeType DEF GradeScoreBet, Rows, Graded, TypeOK
  <2>4. CASE GradeProp(t, s)
    BY <2>1, <2>2, <2>4, ApplyGradeType, BecomeType DEF GradeProp, Rows, Graded, TypeOK
  <2>5. QED
    BY <1>15, <2>3, <2>4
<1>16. ASSUME NEW t \in Tasks, NEW l \in Legs, GradeLeg(t, l) PROVE TypeOK'
  <2>1. /\ [job[t] EXCEPT !.legs = @ \ {l}] \in Job
        /\ [[job[t] EXCEPT !.legs = @ \ {l}] EXCEPT !.parents = @ \cup {ParentOf[l]}] \in Job
    <3>1. ParentOf[l] \in Parlays /\ job[t] \in Job
      BY BookAssumption DEF TypeOK
    <3>2. [job[t] EXCEPT !.legs = @ \ {l}] \in Job
      BY <3>1 DEF Job
    <3>3. QED
      BY <3>1, <3>2 DEF Job
  <2>2. job' \in [Tasks -> Job]
    BY <1>16, <2>1, BecomeType DEF GradeLeg, TypeOK
  <2>3. legStatus' \in [Legs -> {"NONE", "OPEN"} \cup Graded]
    BY <1>16 DEF GradeLeg, TypeOK
  <2>4. QED
    BY <1>16, <2>2, <2>3 DEF GradeLeg, TypeOK
<1>17. ASSUME NEW t \in Tasks, NEW p \in Parlays, ReadParlay(t, p) PROVE TypeOK'
  <2> DEFINE grade == SettleParlay(Board(p))
             hand == {[row |-> p, grade |-> grade, won |-> WonLegs(Board(p))]}
  <2>1. [job[t] EXCEPT !.parents = @ \ {p}] \in Job
    BY DEF TypeOK, Job
  <2>2. ASSUME grade # "OPEN" PROVE [job[t] EXCEPT !.pc = "settle", !.hand = hand] \in Job
    <3>1. hand \in SUBSET Settlement
      BY <2>2, SettleParlayType DEF Settlement, Rows
    <3> HIDE DEF hand, grade
    <3>2. job[t] \in Job /\ "settle" \in PCs
      BY DEF TypeOK, PCs
    <3>3. QED
      BY <3>1, <3>2 DEF Job
  <2>3. job' \in [Tasks -> Job]
    BY <1>17, <2>1, <2>2, BecomeType DEF ReadParlay, TypeOK
  <2>4. QED
    BY <1>17, <2>3 DEF ReadParlay, TypeOK
<1>18. ASSUME NEW t \in Tasks, ApplyParlay(t) PROVE TypeOK'
  <2>1. PICK h \in job[t].hand :
          ApplyGrade(t, h.row, h.grade, h.won, [job[t] EXCEPT !.parents = @ \ {h.row}])
    BY <1>18 DEF ApplyParlay
  <2>2. h \in Settlement /\ [job[t] EXCEPT !.parents = @ \ {h.row}] \in Job
    BY DEF TypeOK, Job
  <2>3. h.row \in Rows /\ h.grade \in Graded /\ h.won \in SUBSET Selections
    BY <2>2 DEF Settlement
  <2>4. QED
    BY <1>18, <2>1, <2>2, <2>3, ApplyGradeType DEF ApplyParlay, TypeOK
<1>19. ASSUME NEW t \in Tasks, Publish(t) \/ CallFails(t) PROVE TypeOK'
  <2>1. [job[t] EXCEPT !.pc = "grade", !.hand = {}] \in Job
    <3>1. job[t] \in Job /\ "grade" \in PCs /\ {} \in SUBSET Settlement
      BY DEF TypeOK, PCs
    <3>2. QED
      BY <3>1 DEF Job
  <2>2. job' \in [Tasks -> Job]
    BY <1>19, <2>1, BecomeType DEF Publish, CallFails, TypeOK
  <2>3. CASE Publish(t)
    <3>1. PICK h \in job[t].hand : announced' = [announced EXCEPT ![h.row] = Append(@, h.grade)]
      BY <2>3 DEF Publish
    <3>2. h.row \in Rows /\ h.grade \in Graded
      BY DEF TypeOK, Job, Settlement
    <3>3. announced' \in [Rows -> Seq(Graded)]
      BY <3>1, <3>2 DEF TypeOK
    <3>4. QED
      BY <2>2, <2>3, <3>3 DEF Publish, TypeOK
  <2>4. CASE CallFails(t)
    BY <2>2, <2>4 DEF CallFails, Fault, TypeOK
  <2>5. QED
    BY <1>19, <2>3, <2>4
<1>20. ASSUME NEW g \in Games, PollFails(g) PROVE TypeOK'
  BY <1>20 DEF PollFails, Fault, TypeOK
<1>21. ASSUME NEW t \in Tasks, TaskFails(t) PROVE TypeOK'
  <2>1. job[t] \in Job /\ Rest(t) \in Job /\ At("idle") \in Job
    BY RestIsJob, RestType DEF TypeOK, PCs
  <2>2. job' \in [Tasks -> Job]
    BY <1>21, <2>1, BecomeType DEF TaskFails, TypeOK
  <2>3. QED
    BY <1>21, <2>1, <2>2 DEF TaskFails, Fault, TypeOK, Job
<1>22. CASE Crash
  <2>1. At("idle") \in Job /\ At("done") \in Job
    BY RestType DEF PCs
  <2>2. job' \in [Tasks -> Job]
    BY <1>22, <2>1 DEF Crash
  <2>3. abandoned' \in SUBSET Parlays
    BY <1>22 DEF Crash, TypeOK, Job
  <2>4. inbox' \in Seq([game : Games, score : Results])
    BY <1>22 DEF Crash
  <2>5. QED
    BY <1>22, <2>2, <2>3, <2>4 DEF Crash, Fault, TypeOK
<1>23. CASE UNCHANGED vars
  BY <1>23 DEF vars, TypeOK
<1>24. QED
  BY <1>1, <1>2, <1>3, <1>4, <1>5, <1>6, <1>7, <1>8, <1>9, <1>10, <1>11, <1>12, <1>13,
     <1>14, <1>15, <1>16, <1>17, <1>18, <1>19, <1>20, <1>21, <1>22, <1>23
     DEF Next, Environment, Subscribe, Poll, Answer, Grade, Faults, Tasks, Graders

LEMMA GameKnownNext == TypeOK /\ GameKnown /\ [Next]_vars => GameKnown'
<1> SUFFICES ASSUME TypeOK, GameKnown, [Next]_vars PROVE GameKnown'
  OBVIOUS
<1>1. ASSUME NEW u \in Tasks, NEW j, Become(u, j),
             j.pc \in {"bets", "legs", "box"} => j.game \in Games
      PROVE  GameKnown'
  BY <1>1 DEF GameKnown, Become, TypeOK
<1>2. ASSUME NEW t \in Tasks PROVE Rest(t).pc \notin {"bets", "legs", "box"}
  BY DEF Rest, At
<1>3. CASE Environment \/ (\E g \in Games : PollFails(g)) \/ UNCHANGED vars
  BY <1>3 DEF Environment, InsertBet, InsertParlay, ReportResult, ServeBox, DeliverCompleted,
              GraceElapses, Reconnect, PollFails, vars, GameKnown
<1>4. CASE Receive
  <2>1. Head(inbox) \in [game : Games, score : Results]
    BY <1>4, HeadTailProperties DEF TypeOK, Receive
  <2>2. QED
    BY <1>1, <1>4, <2>1 DEF Receive, At, Tasks, Graders
<1>5. CASE SweepBets \/ SweepLegs \/ SweepEnds \/ \E g \in Games : PollGame(g)
  BY <1>1, <1>5 DEF SweepBets, SweepLegs, SweepEnds, PollGame, At, Tasks, Graders, GameKnown
<1>6. ASSUME NEW q \in Requests,
             (\E r \in Rows, force \in Forcings : Ask(q, r, force)) \/ AskLegs(q)
      PROVE  GameKnown'
  <2>1. job[q] \in Job /\ q \in Tasks
    BY DEF TypeOK, Tasks
  <2>2. QED
    BY <1>1, <1>6, <2>1 DEF Ask, AskLegs, At, Job
<1>7. ASSUME NEW q \in Requests, AskGame(q) PROVE GameKnown'
  <2>1. job[q] \in Job /\ q \in Tasks
    BY DEF TypeOK, Tasks
  <2>2. \A s \in job[q].bets : Terms[s].game \in Games
    BY <2>1, BookAssumption DEF Job, Selections, Term
  <2>3. QED
    BY <1>1, <1>7, <2>1, <2>2 DEF AskGame, At, Job
<1>8. ASSUME NEW t \in Tasks, Grade(t) PROVE GameKnown'
  <2>1. job[t] \in Job
    BY DEF TypeOK
  <2>2. CASE ReadBets(t) \/ ReadLegs(t) \/ FetchBox(t) \/ GameDone(t)
    BY <1>1, <1>2, <2>1, <2>2 DEF ReadBets, ReadLegs, FetchBox, GameDone, Job, GameKnown
  <2>3. ASSUME NEW r, NEW grade, NEW won, NEW after \in Job, ApplyGrade(t, r, grade, won, after)
        PROVE  GameKnown'
    BY <1>1, <2>3 DEF ApplyGrade, Job
  <2>4. ASSUME NEW s \in Singles, GradeScoreBet(t, s) \/ GradeProp(t, s) PROVE GameKnown'
    <3>1. [job[t] EXCEPT !.bets = @ \ {s}] \in Job /\ (job[t].pc = "grade")
      BY <2>1, <2>4 DEF Job, GradeScoreBet, GradeProp
    <3>2. QED
      BY <1>1, <1>2, <2>3, <2>4, <3>1 DEF GradeScoreBet, GradeProp, Job
  <2>5. ASSUME NEW l \in Legs, GradeLeg(t, l) PROVE GameKnown'
    BY <1>1, <2>1, <2>5 DEF GradeLeg, Job
  <2>6. ASSUME NEW p \in Parlays, ReadParlay(t, p) PROVE GameKnown'
    BY <1>1, <2>1, <2>6 DEF ReadParlay, Job
  <2>7. CASE ApplyParlay(t)
    <3>1. \A h : [job[t] EXCEPT !.parents = @ \ {h}] \in Job
      BY <2>1 DEF Job
    <3>2. QED
      BY <2>3, <2>7, <3>1 DEF ApplyParlay
  <2>8. CASE Publish(t)
    BY <1>1, <2>1, <2>8 DEF Publish, Job
  <2>9. QED
    BY <1>8, <2>2, <2>4, <2>5, <2>6, <2>7, <2>8 DEF Grade
<1>9. ASSUME NEW t \in Tasks, CallFails(t) \/ TaskFails(t) PROVE GameKnown'
  <2>1. job[t] \in Job
    BY DEF TypeOK
  <2>2. QED
    BY <1>1, <1>2, <1>9, <2>1 DEF CallFails, TaskFails, Job, At
<1>10. CASE Crash
  BY <1>10 DEF Crash, GameKnown, At
<1>11. QED
  BY <1>3, <1>4, <1>5, <1>6, <1>7, <1>8, <1>9, <1>10
     DEF Next, Environment, Subscribe, Poll, Answer, Faults, Tasks, Graders

(***************************************************************************)
(* Every state of the grader is well typed, whatever is placed, reported,  *)
(* delivered, asked for and lost.                                          *)
(***************************************************************************)
THEOREM TypeCorrect == Spec => []TypeOK
<1>1. Init => TypeOK /\ GameKnown
  BY TypeInit DEF Init, GameKnown, At
<1>2. TypeOK /\ GameKnown /\ [Next]_vars => (TypeOK /\ GameKnown)'
  BY TypeNext, GameKnownNext
<1>3. QED
  BY <1>1, <1>2, PTL DEF Spec
-----------------------------------------------------------------------------
(***************************************************************************)
(* Parlays.  ParlayInv is inductive; the steps fall into those that leave  *)
(* the ledger alone and move one task, and the few that write it.          *)
(***************************************************************************)

\* Nothing about a parlay changes when the ledger does not.
LEMMA BoardUnchanged ==
  ASSUME NEW p, UNCHANGED legStatus
  PROVE  Board(p)' = Board(p) /\ LegsDecided(p)' = LegsDecided(p)
BY DEF Board, LegsDecided

\* Nor when only undecided legs change, if the parlay has none.
LEMMA BoardStable ==
  ASSUME NEW p \in Parlays, LegsDecided(p),
         \A l \in Legs : legStatus[l] \in Graded => legStatus'[l] = legStatus[l]
  PROVE  Board(p)' = Board(p) /\ LegsDecided(p)'
<1>1. \A l \in LegsOf(p) : legStatus'[l] = legStatus[l]
  BY DEF LegsDecided, LegsOf
<1>2. QED
  BY <1>1 DEF Board, LegsDecided

LEMMA SettledWhenDecided ==
  ASSUME NEW p \in Parlays, LegsDecided(p)
  PROVE  SettleParlay(Board(p)) \in Graded
BY DEF LegsDecided, Board, SettleParlay, Graded, Dropped

LEMMA OpenWhenUndecided ==
  ASSUME TypeOK, PlacedTogether, NEW p \in Parlays, status[p] # "NONE"
  PROVE  SettleParlay(Board(p)) = "OPEN" <=> ~LegsDecided(p)
BY DEF TypeOK, PlacedTogether, LegsDecided, Board, SettleParlay, Graded, Dropped, LegsOf

\* A job that fits still fits when the ledger has only gone forward.
LEMMA JobStillFits ==
  ASSUME NEW j, j.parents \in SUBSET Parlays, JobFits(j),
         \A p \in Parlays : status[p] # "NONE" => status'[p] # "NONE",
         \A l \in Legs : legStatus[l] \in Graded => legStatus'[l] = legStatus[l]
  PROVE  JobFits(j)'
<1>1. \A p \in j.parents : status'[p] # "NONE"
  BY DEF JobFits
<1>2. ASSUME j.pc = "settle"
      PROVE  \E p \in j.parents :
               /\ LegsDecided(p)'
               /\ j.hand = {[row |-> p, grade |-> SettleParlay(Board(p)'), won |-> WonLegs(Board(p)')]}
  <2>1. PICK p \in j.parents :
          /\ LegsDecided(p)
          /\ j.hand = {[row |-> p, grade |-> SettleParlay(Board(p)), won |-> WonLegs(Board(p))]}
    BY <1>2 DEF JobFits
  <2>2. LegsDecided(p)' /\ Board(p)' = Board(p)
    BY <2>1, BoardStable
  <2>3. QED
    BY <2>1, <2>2
<1>3. QED
  BY <1>1, <1>2 DEF JobFits

\* One task moves on and the ledger stays: a parlay that the task lets go of
\* must be undecided, settled or accounted for.
LEMMA JobStep ==
  ASSUME TypeOK, ParlayInv, NEW t \in Tasks, NEW j, Become(t, j), UNCHANGED ledger,
         JobFits(j), abandoned \subseteq abandoned',
         \A p \in job[t].parents \ j.parents :
           ~LegsDecided(p) \/ status[p] # "OPEN" \/ p \in abandoned'
  PROVE  ParlayInv'
<1>1. \A p \in Parlays : Board(p)' = Board(p) /\ LegsDecided(p)' = LegsDecided(p)
  BY BoardUnchanged DEF ledger
<1>2. PlacedTogether' /\ ParlayMatchesLegs'
  BY <1>1 DEF ParlayInv, PlacedTogether, ParlayMatchesLegs, ledger
<1>3. \A u \in Tasks : job'[u] = IF u = t THEN j ELSE job[u]
  BY DEF TypeOK, Become
<1>4. \A u \in Tasks : JobFits(job[u])'
  <2>1. \A k : JobFits(k) => JobFits(k)'
    BY BoardUnchanged DEF JobFits, ledger
  <2>2. QED
    BY <1>3, <2>1 DEF ParlayInv, JobFits
<1>5. DecidedParlayIsOwned'
  BY <1>1, <1>3 DEF ParlayInv, DecidedParlayIsOwned, ledger
<1>6. QED
  BY <1>2, <1>4, <1>5 DEF ParlayInv

LEMMA RestFits ==
  ASSUME NEW t \in Tasks
  PROVE  JobFits(Rest(t)) /\ Rest(t).parents = {}
BY DEF Rest, At, JobFits

\* The tasks leave the ledger alone except when they grade.
LEMMA QuietStep ==
  ASSUME TypeOK, ParlayInv, NEW t \in Tasks,
         \/ ReadBets(t) \/ ReadLegs(t) \/ FetchBox(t) \/ Publish(t) \/ GameDone(t)
         \/ CallFails(t) \/ TaskFails(t)
  PROVE  ParlayInv'
<1>1. job[t] \in Job /\ JobFits(job[t])
  BY DEF TypeOK, ParlayInv
<1>2. CASE ReadBets(t)
  <2> DEFINE j == [job[t] EXCEPT !.pc = "legs",
                     !.bets = {s \in Singles : Terms[s].game = job[t].game /\ status[s] = "OPEN"}]
  <2>1. JobFits(j) /\ j.parents = job[t].parents
    BY <1>1, <1>2 DEF ReadBets, JobFits, Job
  <2>2. QED
    BY <1>2, <2>1, JobStep DEF ReadBets
<1>3. CASE ReadLegs(t)
  <2>1. \A pc \in {"box", "grade"} : \A legs :
          LET j == [job[t] EXCEPT !.pc = pc, !.legs = legs]
          IN  JobFits(j) /\ j.parents = job[t].parents
    BY <1>1, <1>3 DEF ReadLegs, JobFits, Job
  <2>2. QED
    BY <1>3, <2>1, JobStep DEF ReadLegs
<1>4. CASE FetchBox(t)
  <2>1. \A box : LET j == [job[t] EXCEPT !.pc = "grade", !.box = box]
                 IN  JobFits(j) /\ j.parents = job[t].parents
    BY <1>1, <1>4 DEF FetchBox, JobFits, Job
  <2>2. job[t].parents = {}
    BY <1>1, <1>4 DEF FetchBox, JobFits
  <2>3. QED
    BY <1>4, <2>1, <2>2, RestFits, JobStep DEF FetchBox
<1>5. CASE Publish(t) \/ CallFails(t)
  <2> DEFINE j == [job[t] EXCEPT !.pc = "grade", !.hand = {}]
  <2>1. JobFits(j) /\ j.parents = job[t].parents
    BY <1>1, <1>5 DEF Publish, CallFails, JobFits, Job
  <2>2. QED
    BY <1>5, <2>1, JobStep DEF Publish, CallFails
<1>6. CASE GameDone(t)
  BY <1>6, RestFits, JobStep DEF GameDone
<1>7. CASE TaskFails(t)
  <2>1. JobFits(At("idle")) /\ At("idle").parents = {}
    BY DEF At, JobFits
  <2>2. QED
    BY <1>7, <2>1, RestFits, JobStep DEF TaskFails
<1>8. QED
  BY <1>2, <1>3, <1>4, <1>5, <1>6, <1>7

\* The ways into grading.
LEMMA EntryStep ==
  ASSUME TypeOK, ParlayInv,
         \/ Receive \/ SweepBets \/ SweepLegs \/ SweepEnds
         \/ \E g \in Games : PollGame(g)
         \/ \E q \in Requests : \/ \E r \in Rows, force \in Forcings : Ask(q, r, force)
                               \/ AskLegs(q) \/ AskGame(q)
  PROVE  ParlayInv'
<1>1. \A t \in Tasks : job[t] \in Job /\ JobFits(job[t])
  BY DEF TypeOK, ParlayInv
<1>2. \A pc \in {"idle", "union", "sweep", "bets", "done", "ask_game"} :
        JobFits(At(pc)) /\ At(pc).parents = {}
  BY DEF At, JobFits
<1>3. CASE Receive
  <2> DEFINE j == [At("bets") EXCEPT !.game = Head(inbox).game, !.score = Head(inbox).score]
  <2>1. JobFits(j) /\ j.parents = {} /\ job["subscriber"].parents = {} /\ "subscriber" \in Tasks
    BY <1>1, <1>3 DEF Receive, At, JobFits, Tasks, Graders
  <2>2. QED
    BY <1>3, <2>1, JobStep DEF Receive
<1>4. CASE SweepBets \/ SweepLegs \/ SweepEnds
  <2>1. job["poller"].parents = {} /\ "poller" \in Tasks
    BY <1>1, <1>4 DEF SweepBets, SweepLegs, SweepEnds, JobFits, Tasks, Graders
  <2>2. QED
    BY <1>2, <1>4, <2>1, JobStep DEF SweepBets, SweepLegs, SweepEnds
<1>5. ASSUME NEW g \in Games, PollGame(g) PROVE ParlayInv'
  <2> DEFINE j == [At("bets") EXCEPT !.game = g, !.score = result[g]]
  <2>1. JobFits(j) /\ j.parents = {} /\ job["poller"].parents = {} /\ "poller" \in Tasks
    BY <1>1, <1>5 DEF PollGame, At, JobFits, Tasks, Graders
  <2>2. CASE result[g] = NoResult
    <3>1. Become("poller", job["poller"])
      BY <1>5, <2>1, <2>2 DEF PollGame, Become, TypeOK
    <3>2. QED
      BY <1>1, <1>5, <2>1, <3>1, JobStep DEF PollGame
  <2>3. QED
    BY <1>5, <2>1, <2>2, JobStep DEF PollGame
<1>6. ASSUME NEW q \in Requests, NEW r \in Rows, NEW force \in Forcings, Ask(q, r, force)
      PROVE  ParlayInv'
  <2>1. q \in Tasks /\ job[q].parents = {}
    BY <1>1, <1>6 DEF Ask, JobFits, Tasks
  <2>2. ASSUME r \in Parlays
        PROVE  JobFits([At("ask_legs") EXCEPT !.parents = {r}, !.force = force])
    BY <1>6, <2>2 DEF Ask, At, JobFits
  <2>3. JobFits([At("ask_game") EXCEPT !.bets = {r}, !.force = force])
    BY DEF At, JobFits
  <2>4. QED
    BY <1>2, <1>6, <2>1, <2>2, <2>3, JobStep DEF Ask
<1>7. ASSUME NEW q \in Requests, AskLegs(q) PROVE ParlayInv'
  <2>1. q \in Tasks /\ \E p \in Parlays : job[q].parents = {p}
    BY <1>1, <1>7 DEF AskLegs, JobFits, Tasks
  <2>2. JobFits([job[q] EXCEPT !.pc = "grade"])
        /\ [job[q] EXCEPT !.pc = "grade"].parents = job[q].parents
    BY <1>1, <1>7, <2>1 DEF AskLegs, JobFits, Job
  <2>3. ASSUME NEW p \in Parlays, \E l \in LegsOf(p) : legStatus[l] = "OPEN" PROVE ~LegsDecided(p)
    BY <2>3 DEF LegsDecided, Graded
  <2>4. QED
    BY <1>2, <1>7, <2>1, <2>2, <2>3, JobStep DEF AskLegs
<1>8. ASSUME NEW q \in Requests, AskGame(q) PROVE ParlayInv'
  <2>1. q \in Tasks /\ job[q].parents = {}
    BY <1>1, <1>8 DEF AskGame, JobFits, Tasks
  <2>2. \A pc \in {"box", "grade"} : \A game, score :
          LET j == [job[q] EXCEPT !.pc = pc, !.game = game, !.score = score]
          IN  JobFits(j) /\ j.parents = {}
    BY <1>1, <2>1 DEF JobFits, Job
  <2>3. QED
    BY <1>2, <1>8, <2>1, <2>2, JobStep DEF AskGame
<1>9. QED
  BY <1>3, <1>4, <1>5, <1>6, <1>7, <1>8

\* apply_grade, of a bet or of a parlay from its decided legs.
LEMMA ApplyStep ==
  ASSUME TypeOK, ParlayInv, NEW t \in Tasks, NEW r \in Rows, NEW grade \in Graded, NEW won,
         NEW after \in Job, ApplyGrade(t, r, grade, won, after), UNCHANGED <<legStatus, abandoned>>,
         after.bets # {} => after.parents = {},
         after.parents = job[t].parents \ {r},
         r \in Parlays => /\ LegsDecided(r)
                         /\ grade = SettleParlay(Board(r)) /\ won = WonLegs(Board(r))
  PROVE  ParlayInv'
<1>1. \A u \in Tasks : job[u] \in Job /\ JobFits(job[u])
  BY DEF TypeOK, ParlayInv
<1>2. CASE ~(status[r] = "OPEN" \/ job[t].force)
  <2> DEFINE j == [after EXCEPT !.pc = "grade", !.hand = {}]
  <2>1. JobFits(j) /\ j.parents = job[t].parents \ {r}
    BY <1>1 DEF JobFits, Job
  <2>2. Become(t, j) /\ UNCHANGED ledger
    BY <1>2 DEF ApplyGrade, ledger
  <2> HIDE DEF j
  <2>3. QED
    BY <1>2, <2>1, <2>2, JobStep
<1>3. CASE status[r] = "OPEN" \/ job[t].force
  <2> DEFINE hand == {[row |-> r, grade |-> grade, won |-> won]}
             j == [after EXCEPT !.pc = "publish", !.hand = hand]
  <2>1. Become(t, j) /\ status' = [status EXCEPT ![r] = grade] /\ priced' = [priced EXCEPT ![r] = won]
    BY <1>3 DEF ApplyGrade
  <2> HIDE DEF hand
  <2>2. j.pc = "publish" /\ j.bets = after.bets /\ j.parents = job[t].parents \ {r}
    BY DEF Job
  <2>3. \A x \in Rows : /\ status'[x] = IF x = r THEN grade ELSE status[x]
                       /\ priced'[x] = IF x = r THEN won ELSE priced[x]
    BY <2>1 DEF TypeOK
  <2>4. \A u \in Tasks : job'[u] = IF u = t THEN j ELSE job[u]
    BY <2>1 DEF TypeOK, Become
  <2> HIDE DEF j
  <2>5. \A p \in Parlays : Board(p)' = Board(p) /\ LegsDecided(p)' = LegsDecided(p)
    BY BoardUnchanged
  <2>6. grade # "NONE" /\ grade # "OPEN"
    BY DEF Graded
  <2>7. PlacedTogether'
    <3>1. r \in Parlays => \A l \in LegsOf(r) : legStatus[l] # "NONE"
      BY DEF LegsDecided, Graded
    <3>2. QED
      BY <2>3, <2>6, <3>1 DEF ParlayInv, PlacedTogether, Rows
  <2>8. \A u \in Tasks : JobFits(job[u])'
    <3>1. ASSUME NEW u \in Tasks PROVE JobFits(job[u])'
      <4>1. CASE u = t
        <5>1. job[t].parents \in SUBSET Parlays /\ \A p \in job[t].parents : status[p] # "NONE"
          BY <1>1 DEF Job, JobFits
        <5>2. \A p \in j.parents : status'[p] # "NONE"
          BY <2>2, <2>3, <2>6, <5>1 DEF Rows
        <5>3. QED
          BY <2>2, <2>4, <4>1, <5>2 DEF JobFits
      <4>2. CASE u # t
        <5>1. JobFits(job[u])
          BY <1>1
        <5>2. job[u].parents \in SUBSET Parlays
          BY <1>1 DEF Job
        <5>3. \A p \in Parlays : status[p] # "NONE" => status'[p] # "NONE"
          BY <2>3, <2>6 DEF Rows
        <5>4. \A p \in job[u].parents : status'[p] # "NONE"
          BY <5>1, <5>2, <5>3 DEF JobFits
        <5>5. job'[u] = job[u]
          BY <2>4, <4>2
        <5>6. \A p \in job[u].parents : Board(p)' = Board(p) /\ LegsDecided(p)' = LegsDecided(p)
          BY <2>5, <5>2
        <5>7. QED
          BY <5>1, <5>4, <5>5, <5>6 DEF JobFits
      <4>3. QED
        BY <4>1, <4>2
    <3>2. QED
      BY <3>1
  <2>9. ParlayMatchesLegs'
    BY <2>3, <2>5 DEF ParlayInv, ParlayMatchesLegs, Rows
  <2>10. DecidedParlayIsOwned'
    BY <2>2, <2>3, <2>4, <2>5, <2>6 DEF ParlayInv, DecidedParlayIsOwned, Rows
  <2>11. QED
    BY <2>7, <2>8, <2>9, <2>10 DEF ParlayInv
<1>4. QED
  BY <1>2, <1>3

LEMMA BetStep ==
  ASSUME TypeOK, ParlayInv, NEW t \in Tasks, NEW s \in Singles, GradeScoreBet(t, s) \/ GradeProp(t, s)
  PROVE  ParlayInv'
<1> DEFINE after == [job[t] EXCEPT !.bets = @ \ {s}]
<1>1. job[t] \in Job /\ JobFits(job[t]) /\ s \in job[t].bets /\ job[t].pc = "grade"
  BY DEF TypeOK, ParlayInv, GradeScoreBet, GradeProp
<1>2. job[t].parents = {}
  BY <1>1 DEF JobFits
<1>3. /\ after \in Job /\ JobFits(after) /\ after.parents = {}
  BY <1>1, <1>2 DEF Job, JobFits
<1>4. s \in Rows /\ s \notin Parlays
  BY BookAssumption DEF Rows
<1>5. ASSUME NEW grade \in Graded, ApplyGrade(t, s, grade, PricedOf(s, grade), after),
             UNCHANGED <<legStatus, abandoned>>
      PROVE  ParlayInv'
  BY <1>2, <1>3, <1>4, <1>5, ApplyStep
<1>6. ASSUME Become(t, after) \/ Become(t, Rest(t)), UNCHANGED <<ledger, abandoned>>
      PROVE  ParlayInv'
  BY <1>2, <1>3, <1>6, RestFits, JobStep
<1> HIDE DEF after
<1>7. QED
  BY <1>5, <1>6 DEF GradeScoreBet, GradeProp, after, ledger

LEMMA ParlayStep ==
  ASSUME TypeOK, ParlayInv, NEW t \in Tasks, ApplyParlay(t) \/ \E p \in Parlays : ReadParlay(t, p)
  PROVE  ParlayInv'
<1>1. job[t] \in Job /\ JobFits(job[t])
  BY DEF TypeOK, ParlayInv
<1>2. ASSUME NEW p \in Parlays, ReadParlay(t, p) PROVE ParlayInv'
  <2> DEFINE grade == SettleParlay(Board(p))
             hand == {[row |-> p, grade |-> grade, won |-> WonLegs(Board(p))]}
             let_go == [job[t] EXCEPT !.parents = @ \ {p}]
             settle == [job[t] EXCEPT !.pc = "settle", !.hand = hand]
  <2>1. grade = "OPEN" <=> ~LegsDecided(p)
    BY <1>1, <1>2, OpenWhenUndecided DEF ReadParlay, JobFits, ParlayInv
  <2>2. JobFits(let_go) /\ let_go.parents = job[t].parents \ {p}
    BY <1>1, <1>2 DEF ReadParlay, JobFits, Job
  <2>3. grade # "OPEN" => JobFits(settle) /\ settle.parents = job[t].parents
    <3>1. settle.hand = hand /\ settle.pc = "settle" /\ settle.parents = job[t].parents
          /\ settle.bets = job[t].bets
      BY <1>1 DEF Job
    <3> HIDE DEF settle
    <3>2. QED
      BY <1>1, <1>2, <2>1, <3>1 DEF ReadParlay, JobFits
  <2>4. \/ grade = "OPEN" /\ Become(t, let_go)
        \/ grade # "OPEN" /\ Become(t, settle)
    BY <1>2 DEF ReadParlay
  <2>5. UNCHANGED <<ledger, abandoned>>
    BY <1>2 DEF ReadParlay
  <2> HIDE DEF grade, let_go, settle
  <2>6. QED
    BY <2>1, <2>2, <2>3, <2>4, <2>5, JobStep
<1>3. CASE ApplyParlay(t)
  <2>1. PICK p \in job[t].parents :
          /\ LegsDecided(p)
          /\ job[t].hand = {[row |-> p, grade |-> SettleParlay(Board(p)), won |-> WonLegs(Board(p))]}
    BY <1>1, <1>3 DEF ApplyParlay, JobFits
  <2> DEFINE after == [job[t] EXCEPT !.parents = @ \ {p}]
  <2>2. p \in Parlays /\ p \in Rows /\ SettleParlay(Board(p)) \in Graded
    BY <1>1, <2>1, SettledWhenDecided DEF Job, Rows
  <2>3. after \in Job /\ after.parents = job[t].parents \ {p} /\ after.bets = job[t].bets
    BY <1>1 DEF Job
  <2>4. after.bets # {} => after.parents = {}
    BY <1>1, <2>3 DEF JobFits
  <2>5. ApplyGrade(t, p, SettleParlay(Board(p)), WonLegs(Board(p)), after)
    BY <1>3, <2>1 DEF ApplyParlay
  <2>6. UNCHANGED <<legStatus, abandoned>>
    BY <1>3 DEF ApplyParlay
  <2> HIDE DEF after
  <2>7. QED
    BY <2>1, <2>2, <2>3, <2>4, <2>5, <2>6, ApplyStep
<1>4. QED
  BY <1>2, <1>3

\* grade_leg: deciding a leg of an open parlay puts the parlay in the hands of
\* the task that decided it.
LEMMA LegStep ==
  ASSUME TypeOK, ParlayInv, NEW t \in Tasks, NEW l \in Legs, GradeLeg(t, l)
  PROVE  ParlayInv'
<1> DEFINE grade == IF IsProp(l) THEN PropGrade(l, job[t].box) ELSE ScoreGrade(l, job[t].score)
           after == [job[t] EXCEPT !.legs = @ \ {l}]
           owning == [after EXCEPT !.parents = @ \cup {ParentOf[l]}]
<1>1. \A u \in Tasks : job[u] \in Job /\ JobFits(job[u])
  BY DEF TypeOK, ParlayInv
<1>2. job[t].pc = "grade" /\ job[t].bets = {} /\ ParentOf[l] \in Parlays /\ l \in LegsOf(ParentOf[l])
  BY BookAssumption DEF GradeLeg, LegsOf
<1>3. CASE ~(grade \in Graded /\ legStatus[l] = "OPEN")
  <2>1. JobFits(after) /\ after.parents = job[t].parents
    BY <1>1, <1>2 DEF JobFits, Job
  <2>2. Become(t, after) /\ UNCHANGED <<ledger, abandoned>>
    BY <1>3 DEF GradeLeg, ledger
  <2> HIDE DEF after
  <2>3. QED
    BY <2>1, <2>2, JobStep
<1>4. CASE grade \in Graded /\ legStatus[l] = "OPEN"
  <2>1. /\ Become(t, owning) /\ UNCHANGED <<status, priced, abandoned>>
        /\ legStatus' = [legStatus EXCEPT ![l] = grade]
    BY <1>4 DEF GradeLeg
  <2>2. PICK j : /\ Become(t, j)
                 /\ j.pc = "grade" /\ j.bets = {} /\ j.parents = job[t].parents \cup {ParentOf[l]}
    <3>1. owning.pc = "grade" /\ owning.bets = {} /\ owning.parents = job[t].parents \cup {ParentOf[l]}
      BY <1>1, <1>2 DEF Job
    <3> HIDE DEF owning, after
    <3>2. QED
      BY <2>1, <3>1
  <2>3. grade # "NONE" /\ grade # "OPEN"
    BY <1>4 DEF Graded
  <2> HIDE DEF owning, after, grade
  <2>4. \A m \in Legs : legStatus'[m] = IF m = l THEN grade ELSE legStatus[m]
    BY <2>1 DEF TypeOK
  <2>5. \A m \in Legs : legStatus[m] \in Graded => legStatus'[m] = legStatus[m]
    BY <1>4, <2>4 DEF Graded
  <2>6. \A u \in Tasks : job'[u] = IF u = t THEN j ELSE job[u]
    BY <2>2 DEF TypeOK, Become
  <2>7. status[ParentOf[l]] # "NONE"
    BY <1>2, <1>4 DEF ParlayInv, PlacedTogether
  <2>8. PlacedTogether'
    BY <1>4, <2>1, <2>3, <2>4 DEF ParlayInv, PlacedTogether, LegsOf
  <2>9. \A u \in Tasks : JobFits(job[u])'
    <3>1. JobFits(j)'
      BY <1>1, <2>1, <2>2, <2>7 DEF JobFits
    <3>2. ASSUME NEW u \in Tasks, u # t PROVE JobFits(job[u])'
      <4>1. job[u].parents \in SUBSET Parlays /\ JobFits(job[u])
        BY <1>1 DEF Job
      <4>2. \A p \in Parlays : status[p] # "NONE" => status'[p] # "NONE"
        BY <2>1
      <4>3. job'[u] = job[u]
        BY <2>6, <3>2
      <4>4. \A k : k.parents \in SUBSET Parlays /\ JobFits(k) => JobFits(k)'
        BY <2>5, <4>2, JobStillFits
      <4>5. QED
        BY <4>1, <4>3, <4>4 DEF JobFits
    <3>3. QED
      BY <2>6, <3>1, <3>2 DEF JobFits
  <2>10. ParlayMatchesLegs'
    <3>1. ASSUME NEW p \in Parlays, status'[p] \in Graded
          PROVE  LegsDecided(p)' /\ status'[p] = SettleParlay(Board(p)') /\ priced'[p] = WonLegs(Board(p)')
      <4>1. LegsDecided(p) /\ status[p] = SettleParlay(Board(p)) /\ priced[p] = WonLegs(Board(p))
        BY <2>1, <3>1 DEF ParlayInv, ParlayMatchesLegs
      <4>2. Board(p)' = Board(p) /\ LegsDecided(p)'
        BY <2>5, <4>1, BoardStable
      <4>3. QED
        BY <2>1, <4>1, <4>2
    <3>2. QED
      BY <3>1 DEF ParlayMatchesLegs
  <2>11. DecidedParlayIsOwned'
    <3>1. ASSUME NEW p \in Parlays, status'[p] = "OPEN", LegsDecided(p)'
          PROVE  p \in abandoned' \/ \E u \in Tasks : p \in job'[u].parents
      <4>1. CASE p = ParentOf[l]
        BY <2>2, <2>6, <4>1
      <4>2. CASE p # ParentOf[l]
        <5>1. LegsDecided(p)
          BY <2>4, <3>1, <4>2 DEF LegsDecided, LegsOf
        <5>2. p \in abandoned \/ \E u \in Tasks : p \in job[u].parents
          BY <2>1, <3>1, <5>1 DEF ParlayInv, DecidedParlayIsOwned
        <5>3. QED
          BY <2>1, <2>2, <2>6, <5>2
      <4>3. QED
        BY <4>1, <4>2
    <3>2. QED
      BY <3>1 DEF DecidedParlayIsOwned
  <2>12. QED
    BY <2>8, <2>9, <2>10, <2>11 DEF ParlayInv
<1>5. QED
  BY <1>3, <1>4

\* place_parlay: the new parlay has open legs, no other parlay is touched.
LEMMA InsertStep ==
  ASSUME TypeOK, ParlayInv, NEW p \in Parlays, InsertParlay(p)
  PROVE  ParlayInv'
<1>1. \A q \in Parlays : status'[q] = IF q = p THEN "OPEN" ELSE status[q]
  BY DEF InsertParlay, TypeOK, Rows
<1>2. \A l \in Legs : legStatus'[l] = IF ParentOf[l] = p THEN "OPEN" ELSE legStatus[l]
  BY DEF InsertParlay
<1>3. \A l \in LegsOf(p) : legStatus[l] = "NONE"
  BY DEF InsertParlay, ParlayInv, PlacedTogether
<1>4. \A l \in Legs : legStatus[l] \in Graded => legStatus'[l] = legStatus[l]
  BY <1>2, <1>3 DEF LegsOf, Graded
<1>5. ~LegsDecided(p)'
  BY <1>2, ParlayAssumption DEF LegsDecided, LegsOf, Graded
<1>6. UNCHANGED <<job, priced, abandoned>>
  BY DEF InsertParlay
<1>7. PlacedTogether'
  BY <1>1, <1>2 DEF ParlayInv, PlacedTogether, LegsOf
<1>8. \A u \in Tasks : JobFits(job[u])'
  <2>1. \A j : j.parents \in SUBSET Parlays /\ JobFits(j) => JobFits(j)'
    BY <1>1, <1>4, JobStillFits
  <2>2. \A u \in Tasks : job[u].parents \in SUBSET Parlays /\ JobFits(job[u]) /\ job'[u] = job[u]
    BY <1>6 DEF TypeOK, ParlayInv, Job
  <2>3. QED
    BY <2>1, <2>2 DEF JobFits
<1>9. ASSUME NEW q \in Parlays, q # p
      PROVE  Board(q)' = Board(q) /\ LegsDecided(q)' = LegsDecided(q)
  BY <1>2, <1>9 DEF Board, LegsDecided, LegsOf
<1>10. ParlayMatchesLegs'
  BY <1>1, <1>6, <1>9 DEF ParlayInv, ParlayMatchesLegs, Graded
<1>11. DecidedParlayIsOwned'
  BY <1>1, <1>5, <1>6, <1>9 DEF ParlayInv, DecidedParlayIsOwned
<1>12. QED
  BY <1>7, <1>8, <1>10, <1>11 DEF ParlayInv

\* Steps that touch no parlay and no job, and the crash, which loses all jobs.
LEMMA OtherStep ==
  ASSUME TypeOK, ParlayInv,
         \/ Environment /\ ~\E p \in Parlays : InsertParlay(p)
         \/ (\E g \in Games : PollFails(g)) \/ Crash \/ UNCHANGED vars
  PROVE  ParlayInv'
<1>1. /\ \A p \in Parlays : status'[p] = status[p]
      /\ UNCHANGED <<priced, legStatus>> /\ abandoned \subseteq abandoned'
  <2>1. \/ \E s \in Singles : status' = [status EXCEPT ![s] = "OPEN"]
        \/ UNCHANGED status
    BY DEF Environment, InsertBet, ReportResult, ServeBox, DeliverCompleted, GraceElapses,
           Reconnect, PollFails, Crash, vars, ledger
  <2>2. UNCHANGED <<priced, legStatus>>
    BY DEF Environment, InsertBet, ReportResult, ServeBox, DeliverCompleted, GraceElapses,
           Reconnect, PollFails, Crash, vars, ledger
  <2>3. abandoned \subseteq abandoned'
    BY DEF Environment, InsertBet, ReportResult, ServeBox, DeliverCompleted, GraceElapses,
           Reconnect, PollFails, Crash, vars
  <2>4. \A p \in Parlays : status'[p] = status[p]
    BY <2>1, BookAssumption DEF TypeOK, Rows
  <2>5. QED
    BY <2>2, <2>3, <2>4
<1>2. \A p \in Parlays : Board(p)' = Board(p) /\ LegsDecided(p)' = LegsDecided(p)
  BY <1>1, BoardUnchanged
<1>3. PlacedTogether' /\ ParlayMatchesLegs'
  BY <1>1, <1>2 DEF ParlayInv, PlacedTogether, ParlayMatchesLegs
<1>4. CASE Crash
  <2>1. \A u \in Tasks : job'[u] = At("idle") \/ job'[u] = At("done")
    BY <1>4 DEF Crash
  <2>2. \A u \in Tasks : JobFits(job[u])'
    BY <2>1 DEF JobFits, At
  <2>3. DecidedParlayIsOwned'
    BY <1>1, <1>2, <1>4 DEF ParlayInv, DecidedParlayIsOwned, Crash
  <2>4. QED
    BY <1>3, <2>2, <2>3 DEF ParlayInv
<1>5. CASE job' = job
  <2>1. \A j : j.parents \in SUBSET Parlays /\ JobFits(j) => JobFits(j)'
    BY <1>1, JobStillFits
  <2>2. \A u \in Tasks : job[u].parents \in SUBSET Parlays /\ JobFits(job[u]) /\ job'[u] = job[u]
    BY <1>5 DEF TypeOK, ParlayInv, Job
  <2>3. \A u \in Tasks : JobFits(job[u])'
    BY <2>1, <2>2 DEF JobFits
  <2>4. DecidedParlayIsOwned'
    BY <1>1, <1>2, <1>5 DEF ParlayInv, DecidedParlayIsOwned
  <2>5. QED
    BY <1>3, <2>3, <2>4 DEF ParlayInv
<1>6. QED
  BY <1>4, <1>5 DEF Environment, InsertBet, ReportResult, ServeBox, DeliverCompleted, GraceElapses,
     Reconnect, PollFails, vars

LEMMA ParlayInit == Init => ParlayInv
<1> SUFFICES ASSUME Init PROVE ParlayInv
  OBVIOUS
<1>1. PlacedTogether /\ ParlayMatchesLegs /\ DecidedParlayIsOwned
  BY DEF Init, PlacedTogether, ParlayMatchesLegs, DecidedParlayIsOwned, Rows, LegsOf, Graded
<1>2. \A t \in Tasks : JobFits(job[t])
  BY DEF Init, JobFits, At
<1>3. QED
  BY <1>1, <1>2 DEF ParlayInv

LEMMA ParlayNext == TypeOK /\ ParlayInv /\ [Next]_vars => ParlayInv'
<1> SUFFICES ASSUME TypeOK, ParlayInv, [Next]_vars PROVE ParlayInv'
  OBVIOUS
<1>1. ASSUME NEW t \in Tasks, Grade(t) PROVE ParlayInv'
  BY <1>1, QuietStep, BetStep, LegStep, ParlayStep DEF Grade
<1>2. CASE Environment
  BY <1>2, InsertStep, OtherStep
<1>3. CASE Subscribe \/ Poll
  BY <1>1, <1>3, EntryStep DEF Subscribe, Poll, Tasks, Graders
<1>4. ASSUME NEW q \in Requests,
             (\E r \in Rows, force \in Forcings : Ask(q, r, force)) \/ Answer(q)
      PROVE  ParlayInv'
  BY <1>1, <1>4, EntryStep DEF Answer, Tasks
<1>5. CASE Faults
  BY <1>5, QuietStep, OtherStep DEF Faults
<1>6. CASE UNCHANGED vars
  BY <1>6, OtherStep
<1>7. QED
  BY <1>2, <1>3, <1>4, <1>5, <1>6 DEF Next

LEMMA ParlayInvariant == Spec => []ParlayInv
<1>1. Init => TypeOK /\ GameKnown /\ ParlayInv
  BY TypeInit, ParlayInit DEF Init, GameKnown, At
<1>2. TypeOK /\ GameKnown /\ ParlayInv /\ [Next]_vars => (TypeOK /\ GameKnown /\ ParlayInv)'
  BY TypeNext, GameKnownNext, ParlayNext
<1>3. QED
  BY <1>1, <1>2, PTL DEF Spec

(***************************************************************************)
(* A settled parlay always has the grade of its legs as they stand, and    *)
(* pays the odds of the won ones, in every interleaving of the graders.    *)
(***************************************************************************)
THEOREM SettledParlaysMatchLegs == Spec => []ParlayMatchesLegs
BY ParlayInvariant, PTL DEF ParlayInv

(***************************************************************************)
(* An open parlay with all its legs decided is always in the hands of a    *)
(* task, or was when a task failed: no race between the tasks strands it,  *)
(* only a failure does.                                                    *)
(***************************************************************************)
THEOREM OnlyFailuresStrandParlays == Spec => []DecidedParlayIsOwned
BY ParlayInvariant, PTL DEF ParlayInv

(***************************************************************************)
(* What a task works with has been reported: its score and box score are   *)
(* of the game that its bets and legs are on, and the bets exist.          *)
(***************************************************************************)
JobInformed(j) ==
  /\ j.force => TRUE \in Forcings
  /\ \A s \in j.bets : status[s] # "NONE"
  /\ j.box # NoBox => j.game \in Games /\ j.box \in boxed[j.game]
  /\ j.pc \in {"bets", "legs"} => j.game \in Games /\ j.score \in reported[j.game]
  /\ j.pc # "ask_game" =>
       \A x \in j.bets \cup j.legs : Terms[x].game = j.game /\ j.score \in reported[j.game]
  /\ j.pc = "ask_game" =>
       j.legs = {} /\ j.box = NoBox /\ \A x, y \in j.bets : Terms[x].game = Terms[y].game

Informed ==
  /\ \A g \in Games : /\ result[g] \in reported[g] \cup {NoResult}
                      /\ boxScore[g] \in boxed[g] \cup {NoBox}
  /\ \A i \in 1..Len(inbox) : inbox[i].score \in reported[inbox[i].game]
  /\ \A t \in Tasks : JobInformed(job[t])

-----------------------------------------------------------------------------
\* Reports are never taken back, and rows never deleted.
GoesOn ==
  /\ \A g \in Games : reported[g] \subseteq reported'[g] /\ boxed[g] \subseteq boxed'[g]
  /\ \A s \in Singles : status[s] # "NONE" => status'[s] # "NONE"

LEMMA StaysInformed ==
  ASSUME NEW j \in Job, JobInformed(j), GoesOn
  PROVE  JobInformed(j)'
<1>1. j.bets \subseteq Singles /\ j.bets \cup j.legs \subseteq Selections
  BY DEF Job, Selections
<1>2. \A x \in j.bets \cup j.legs : Terms[x].game \in Games
  BY <1>1, BookAssumption DEF Term
<1>3. \A s \in j.bets : status'[s] # "NONE"
  BY <1>1 DEF JobInformed, GoesOn
<1>4. \A g \in Games : /\ j.score \in reported[g] => j.score \in reported'[g]
                       /\ j.box \in boxed[g] => j.box \in boxed'[g]
  BY DEF GoesOn
<1>5. QED
  BY <1>2, <1>3, <1>4 DEF JobInformed

\* A task that goes on with less of what it had.
LEMMA LessIsInformed ==
  ASSUME NEW j, NEW k, JobInformed(j), j.pc # "ask_game",
         k.pc \notin {"bets", "legs", "ask_game"},
         k.bets \subseteq j.bets, k.legs \subseteq j.legs,
         k.game = j.game, k.score = j.score, k.box = j.box, k.force = j.force
  PROVE  JobInformed(k)
BY DEF JobInformed

\* A task that holds nothing.
LEMMA RestIsInformed ==
  /\ \A pc : pc \notin {"bets", "legs"} => JobInformed(At(pc))
  /\ \A t \in Tasks : JobInformed(Rest(t))
<1>1. \A pc : pc \notin {"bets", "legs"} => JobInformed(At(pc))
  BY DEF JobInformed, At
<1>2. QED
  BY <1>1 DEF Rest

LEMMA InformedInit == Init => Informed
<1> SUFFICES ASSUME Init PROVE Informed
  OBVIOUS
<1>1. \A t \in Tasks : JobInformed(job[t])
  BY RestIsInformed DEF Init
<1>2. QED
  BY <1>1 DEF Init, Informed

\* No message comes in.
InboxShrinks == \A i \in 1..Len(inbox') : \E k \in 1..Len(inbox) : inbox'[i] = inbox[k]

LEMMA InboxStays == inbox' = inbox => InboxShrinks
<1> SUFFICES ASSUME inbox' = inbox, NEW i \in 1..Len(inbox')
             PROVE  \E k \in 1..Len(inbox) : inbox'[i] = inbox[k]
  BY DEF InboxShrinks
<1>1. i \in 1..Len(inbox) /\ inbox'[i] = inbox[i]
  BY Zenon
<1>2. QED
  BY <1>1

LEMMA FirstLeaves ==
  ASSUME TypeOK, inbox # << >>, inbox' = Tail(inbox)
  PROVE  /\ InboxShrinks
         /\ 1 \in 1..Len(inbox) /\ Head(inbox) = inbox[1]
         /\ Head(inbox) \in [game : Games, score : Results]
<1> DEFINE S == [game : Games, score : Results]
<1>1. inbox \in Seq(S)
  BY DEF TypeOK
<1> HIDE DEF S
<1>2. Len(inbox) \in Nat /\ Len(inbox) > 0
  BY <1>1, EmptySeq
<1>3. /\ Len(Tail(inbox)) = Len(inbox) - 1
      /\ Head(inbox) \in S
      /\ \A i \in 1..Len(Tail(inbox)) : Tail(inbox)[i] = inbox[i + 1]
  BY <1>1, HeadTailProperties
<1>4. \A i \in 1..Len(Tail(inbox)) : i + 1 \in 1..Len(inbox)
  BY <1>2, <1>3
<1>5. InboxShrinks
  BY <1>3, <1>4 DEF InboxShrinks
<1>6. Head(inbox) = inbox[1]
  BY <1>1
<1>7. QED
  BY <1>2, <1>3, <1>5, <1>6 DEF S

\* One task gets a new job; reports, messages and rows stay or grow.
LEMMA InformedStep ==
  ASSUME TypeOK, TypeOK', Informed, GoesOn, NEW t \in Tasks, NEW j, Become(t, j), JobInformed(j),
         UNCHANGED statistics, InboxShrinks
  PROVE  Informed'
<1>1. \A u \in Tasks : job'[u] = IF u = t THEN j ELSE job[u]
  BY DEF TypeOK, Become
<1>2. j \in Job /\ \A k \in Job : JobInformed(k) => JobInformed(k)'
  BY <1>1, StaysInformed DEF TypeOK
<1>3. \A u \in Tasks : JobInformed(job[u])'
  <2>1. ASSUME NEW u \in Tasks PROVE JobInformed(job[u])'
    <3>1. PICK k \in Job : k = job'[u] /\ JobInformed(k)
      BY <1>1, <1>2 DEF TypeOK, Informed
    <3>2. JobInformed(k)'
      BY <1>2, <3>1
    <3>3. QED
      BY <3>1, <3>2 DEF JobInformed
  <2>2. QED
    BY <2>1
<1>4. \A i \in 1..Len(inbox') : inbox'[i].score \in reported[inbox'[i].game]
  BY DEF InboxShrinks, Informed
<1>5. QED
  BY <1>3, <1>4 DEF Informed, statistics

\* apply_grade writes a grade, so that the row exists afterwards.
LEMMA GradingGoesOn ==
  ASSUME TypeOK, NEW t \in Tasks, NEW r \in Rows, NEW grade \in Graded, NEW won, NEW after,
         ApplyGrade(t, r, grade, won, after)
  PROVE  \A s \in Singles : status[s] # "NONE" => status'[s] # "NONE"
BY DEF ApplyGrade, TypeOK, Rows, Graded

LEMMA LedgerGoesOn == TypeOK /\ [Next]_vars => GoesOn
<1> SUFFICES ASSUME TypeOK, [Next]_vars PROVE GoesOn
  OBVIOUS
<1> USE DEF ledger, statistics
<1>1. CASE Environment
  <2>1. \/ UNCHANGED status
        \/ \E r \in Rows : status' = [status EXCEPT ![r] = "OPEN"]
    BY <1>1 DEF Environment, InsertBet, InsertParlay, ReportResult, ServeBox, DeliverCompleted,
                GraceElapses, Reconnect, Rows
  <2>2. \/ UNCHANGED reported
        \/ \E g \in Games, v \in Results : reported' = [reported EXCEPT ![g] = @ \cup {v}]
    BY <1>1 DEF Environment, InsertBet, InsertParlay, ReportResult, ServeBox, DeliverCompleted,
                GraceElapses, Reconnect
  <2>3. \/ UNCHANGED boxed
        \/ \E g \in Games, b \in BoxScores : boxed' = [boxed EXCEPT ![g] = @ \cup {b}]
    BY <1>1 DEF Environment, InsertBet, InsertParlay, ReportResult, ServeBox, DeliverCompleted,
                GraceElapses, Reconnect
  <2>4. \A s \in Singles : status[s] # "NONE" => status'[s] # "NONE"
    BY <2>1 DEF TypeOK, Rows
  <2>5. \A g \in Games : reported[g] \subseteq reported'[g] /\ boxed[g] \subseteq boxed'[g]
    <3>1. \A g \in Games : reported[g] \subseteq reported'[g]
      BY <2>2 DEF TypeOK
    <3>2. \A g \in Games : boxed[g] \subseteq boxed'[g]
      BY <2>3 DEF TypeOK
    <3>3. QED
      BY <3>1, <3>2
  <2>6. QED
    BY <2>4, <2>5 DEF GoesOn
<1>2. CASE UNCHANGED <<status, reported, boxed>>
  BY <1>2 DEF GoesOn
<1>3. ASSUME NEW t \in Tasks, NEW s \in Singles, GradeScoreBet(t, s) \/ GradeProp(t, s)
      PROVE  GoesOn
  <2>1. s \in Rows /\ UNCHANGED <<reported, boxed>>
    BY <1>3 DEF GradeScoreBet, GradeProp, Rows
  <2>2. \/ UNCHANGED status
        \/ \E grade \in Graded : \E won, after : ApplyGrade(t, s, grade, won, after)
    BY <1>3 DEF GradeScoreBet, GradeProp
  <2>3. QED
    BY <2>1, <2>2, GradingGoesOn DEF GoesOn
<1>4. ASSUME NEW t \in Tasks, ApplyParlay(t) PROVE GoesOn
  <2>1. \E h \in job[t].hand : \E won, after : ApplyGrade(t, h.row, h.grade, won, after)
    BY <1>4 DEF ApplyParlay
  <2>2. \A h \in job[t].hand : h.row \in Rows /\ h.grade \in Graded
    BY DEF TypeOK, Job, Settlement
  <2>3. UNCHANGED <<reported, boxed>>
    BY <1>4 DEF ApplyParlay
  <2>4. QED
    BY <2>1, <2>2, <2>3, GradingGoesOn DEF GoesOn
<1>5. ASSUME NEW t \in Tasks, Grade(t) PROVE GoesOn
  BY <1>2, <1>3, <1>4, <1>5 DEF Grade, ReadBets, ReadLegs, FetchBox, GradeLeg, ReadParlay, Publish, GameDone
<1>6. CASE Receive \/ SweepBets \/ SweepLegs \/ SweepEnds \/ \E g \in Games : PollGame(g)
  BY <1>2, <1>6 DEF Receive, SweepBets, SweepLegs, SweepEnds, PollGame
<1>7. ASSUME NEW q \in Requests,
             (\E r \in Rows, force \in Forcings : Ask(q, r, force)) \/ AskLegs(q) \/ AskGame(q)
      PROVE  GoesOn
  BY <1>2, <1>7 DEF Ask, AskLegs, AskGame
<1>8. CASE Faults
  BY <1>2, <1>8 DEF Faults, CallFails, TaskFails, PollFails, Crash
<1>9. CASE UNCHANGED vars
  BY <1>2, <1>9 DEF vars
<1>10. QED
  BY <1>1, <1>5, <1>6, <1>7, <1>8, <1>9 DEF Next, Subscribe, Poll, Answer, Tasks, Graders

\* Nothing that a task holds changes, or all of it is lost.
LEMMA OthersStayInformed ==
  ASSUME TypeOK, Informed, GoesOn,
         \/ Environment \/ (\E g \in Games : PollFails(g)) \/ Crash \/ UNCHANGED vars
  PROVE  Informed'
<1> USE DEF ledger, statistics
<1>1. \A g \in Games : /\ result'[g] \in reported'[g] \cup {NoResult}
                       /\ boxScore'[g] \in boxed'[g] \cup {NoBox}
  <2>1. CASE UNCHANGED statistics
    BY <2>1 DEF Informed
  <2>2. ASSUME NEW g \in Games, NEW v \in Results, ReportResult(g, v) 
      PROVE  \A h \in Games : /\ result'[h] \in reported'[h] \cup {NoResult}
                              /\ boxScore'[h] \in boxed'[h] \cup {NoBox}
    BY <2>2 DEF ReportResult, Informed, TypeOK
  <2>3. ASSUME NEW g \in Games, NEW b \in BoxScores, ServeBox(g, b) 
      PROVE  \A h \in Games : /\ result'[h] \in reported'[h] \cup {NoResult}
                              /\ boxScore'[h] \in boxed'[h] \cup {NoBox}
    BY <2>3 DEF ServeBox, Informed, TypeOK
  <2>4. QED
    BY <2>1, <2>2, <2>3 DEF Environment, InsertBet, InsertParlay, DeliverCompleted,
       GraceElapses, Reconnect, PollFails, Crash, vars
<1>2. \A i \in 1..Len(inbox') : inbox'[i].score \in reported'[inbox'[i].game]
  <2>1. \A m \in [game : Games, score : Results] :
          m.score \in reported[m.game] => m.score \in reported'[m.game]
    BY DEF GoesOn
  <2>2. \A i \in 1..Len(inbox) : inbox[i] \in [game : Games, score : Results]
    <3>1. inbox \in Seq([game : Games, score : Results])
      BY DEF TypeOK
    <3>2. QED
      BY <3>1, ElementOfSeq
  <2>3. CASE UNCHANGED inbox
    BY <2>1, <2>2, <2>3 DEF Informed
  <2>4. CASE inbox' = << >>
    BY <2>4
  <2>5. ASSUME NEW g \in Games, DeliverCompleted(g) 
      PROVE  \A i \in 1..Len(inbox') : inbox'[i].score \in reported'[inbox'[i].game]
    <3> DEFINE m == [game |-> g, score |-> result[g]]
    <3>1. m.game = g /\ m.score \in reported[g]
      BY <2>5 DEF DeliverCompleted, Informed
    <3>2. Len(inbox) \in Nat /\ Len(inbox') = Len(inbox) + 1
      BY <2>5 DEF DeliverCompleted, TypeOK
    <3>3. \A i \in 1..Len(inbox) : inbox'[i] = inbox[i]
      BY <2>5 DEF DeliverCompleted, TypeOK
    <3>4. inbox'[Len(inbox) + 1] = m
      BY <2>5 DEF DeliverCompleted, TypeOK
    <3>5. UNCHANGED reported
      BY <2>5 DEF DeliverCompleted
    <3> HIDE DEF m
    <3>6. \A i \in 1..Len(inbox') : i \in 1..Len(inbox) \/ i = Len(inbox) + 1
      BY <3>2
    <3>7. QED
      BY <3>1, <3>3, <3>4, <3>5, <3>6 DEF Informed
  <2>6. QED
    BY <2>3, <2>4, <2>5 DEF Environment, InsertBet, InsertParlay, ReportResult, ServeBox,
       GraceElapses, Reconnect, PollFails, Crash, vars
<1>3. \A t \in Tasks : JobInformed(job[t])'
  <2>1. ASSUME NEW t \in Tasks PROVE \E k \in Job : k = job'[t] /\ JobInformed(k)
    <3>1. CASE Crash
      <4>1. job'[t] \in {At("done"), At("idle")}
        BY <3>1 DEF Crash
      <4>2. QED
        BY <4>1, RestIsInformed, RestType DEF PCs
    <3>2. CASE job' = job
      BY <3>2 DEF Informed, TypeOK
    <3>3. QED
      BY <3>1, <3>2 DEF Environment, InsertBet, InsertParlay, ReportResult, ServeBox,
         DeliverCompleted, GraceElapses, Reconnect, PollFails, vars
  <2>2. ASSUME NEW t \in Tasks PROVE JobInformed(job[t])'
    <3>1. PICK k \in Job : k = job'[t] /\ JobInformed(k)
      BY <2>1
    <3>2. JobInformed(k)'
      BY <3>1, StaysInformed
    <3>3. QED
      BY <3>1, <3>2 DEF JobInformed
  <2>3. QED
    BY <2>2
<1>4. QED
  BY <1>1, <1>2, <1>3 DEF Informed

\* The ways into grading.
LEMMA EntryIsInformed ==
  ASSUME TypeOK, TypeOK', Informed, GoesOn,
         \/ Receive \/ SweepBets \/ SweepLegs \/ SweepEnds
         \/ \E g \in Games : PollGame(g)
         \/ \E q \in Requests : \/ \E r \in Rows, force \in Forcings : Ask(q, r, force)
                               \/ AskLegs(q) \/ AskGame(q)
  PROVE  Informed'
<1>1. \A t \in Tasks : job[t] \in Job /\ JobInformed(job[t])
  BY DEF TypeOK, Informed
<1>2. "subscriber" \in Tasks /\ "poller" \in Tasks /\ Requests \subseteq Tasks
  BY DEF Tasks, Graders
<1>3. CASE Receive
  <2> DEFINE j == [At("bets") EXCEPT !.game = Head(inbox).game, !.score = Head(inbox).score]
  <2>1. Head(inbox) = inbox[1] /\ 1 \in 1..Len(inbox) /\ Head(inbox).game \in Games
    BY <1>3, FirstLeaves DEF Receive
  <2>2. JobInformed(j)
    BY <2>1 DEF At, JobInformed, Informed
  <2>3. Become("subscriber", j) /\ UNCHANGED statistics /\ InboxShrinks
    BY <1>3, FirstLeaves DEF Receive
  <2> HIDE DEF j
  <2>4. QED
    BY <1>2, <2>2, <2>3, InformedStep
<1>4. CASE SweepBets \/ SweepLegs \/ SweepEnds
  <2>1. \A pc \in {"union", "sweep", "idle"} : JobInformed(At(pc))
    BY RestIsInformed
  <2>2. /\ UNCHANGED <<statistics, inbox>>
        /\ \E pc \in {"union", "sweep", "idle"} : Become("poller", At(pc))
    BY <1>4 DEF SweepBets, SweepLegs, SweepEnds
  <2>3. QED
    BY <1>2, <2>1, <2>2, InboxStays, InformedStep
<1>5. ASSUME NEW g \in Games, PollGame(g) PROVE Informed'
  <2> DEFINE j == [At("bets") EXCEPT !.game = g, !.score = result[g]]
  <2>1. UNCHANGED <<statistics, inbox>>
    BY <1>5 DEF PollGame
  <2>2. CASE result[g] = NoResult
    <3>1. Become("poller", job["poller"])
      BY <1>2, <1>5, <2>2 DEF PollGame, Become, TypeOK
    <3>2. QED
      BY <1>1, <1>2, <2>1, <3>1, InboxStays, InformedStep
  <2>3. CASE result[g] # NoResult
    <3>1. JobInformed(j)
      BY <2>3 DEF At, JobInformed, Informed
    <3>2. Become("poller", j)
      BY <1>5, <2>3 DEF PollGame
    <3> HIDE DEF j
    <3>3. QED
      BY <1>2, <2>1, <3>1, <3>2, InboxStays, InformedStep
  <2>4. QED
    BY <2>2, <2>3
<1>6. ASSUME NEW q \in Requests, NEW r \in Rows, NEW force \in Forcings, Ask(q, r, force)
      PROVE  Informed'
  <2> DEFINE legs == [At("ask_legs") EXCEPT !.parents = {r}, !.force = force]
             game == [At("ask_game") EXCEPT !.bets = {r}, !.force = force]
  <2>1. force \in BOOLEAN /\ (force => TRUE \in Forcings)
    BY GraderAssumption
  <2>2. JobInformed(legs)
    BY <2>1 DEF At, JobInformed
  <2>3. JobInformed(game)
    BY <1>6, <2>1 DEF Ask, At, JobInformed
  <2>4. JobInformed(At("done"))
    BY RestIsInformed
  <2>5. UNCHANGED <<statistics, inbox>>
    BY <1>6 DEF Ask
  <2>6. Become(q, legs) \/ Become(q, game) \/ Become(q, At("done"))
    BY <1>6 DEF Ask
  <2> HIDE DEF legs, game
  <2>7. QED
    BY <1>2, <2>2, <2>3, <2>4, <2>5, <2>6, InboxStays, InformedStep
<1>7. ASSUME NEW q \in Requests, AskLegs(q) PROVE Informed'
  <2> DEFINE j == [job[q] EXCEPT !.pc = "grade"]
  <2>1. JobInformed(At("done"))
    BY RestIsInformed
  <2>2. JobInformed(j)
    <3>1. j.pc = "grade" /\ job[q].pc = "ask_legs" /\ j.bets = job[q].bets /\ j.legs = job[q].legs
      BY <1>1, <1>2, <1>7 DEF AskLegs, Job
    <3>2. j.game = job[q].game /\ j.score = job[q].score /\ j.box = job[q].box /\ j.force = job[q].force
      BY <1>1, <1>2 DEF Job
    <3> HIDE DEF j
    <3>3. QED
      BY <1>1, <1>2, <3>1, <3>2, LessIsInformed
  <2>3. UNCHANGED <<statistics, inbox>> /\ (Become(q, At("done")) \/ Become(q, j))
    BY <1>7 DEF AskLegs
  <2> HIDE DEF j
  <2>4. QED
    BY <1>2, <2>1, <2>2, <2>3, InboxStays, InformedStep
<1>8. ASSUME NEW q \in Requests, AskGame(q) PROVE Informed'
  <2>1. PICK s \in job[q].bets :
          IF result[Terms[s].game] = NoResult \/ Terms[s].market \in OtherProps
          THEN Become(q, At("done"))
          ELSE Become(q, [job[q] EXCEPT !.pc = IF IsProp(s) THEN "box" ELSE "grade",
                                        !.game = Terms[s].game,
                                        !.score = result[Terms[s].game]])
    BY <1>8 DEF AskGame
  <2>2. Terms[s].game \in Games
    BY <1>1, <1>2, BookAssumption DEF Job, Selections, Term
  <2>3. ASSUME NEW pc \in {"box", "grade"}, result[Terms[s].game] # NoResult,
               NEW j, j = [job[q] EXCEPT !.pc = pc, !.game = Terms[s].game,
                                         !.score = result[Terms[s].game]]
        PROVE  JobInformed(j)
    <3>1. /\ j.pc = pc /\ j.game = Terms[s].game /\ j.score = result[Terms[s].game]
          /\ j.bets = job[q].bets /\ j.legs = job[q].legs /\ j.box = job[q].box
          /\ j.force = job[q].force
      BY <1>1, <1>2, <2>3 DEF Job
    <3>2. j.score \in reported[j.game]
      BY <2>2, <2>3, <3>1 DEF Informed
    <3>3. job[q].pc = "ask_game" /\ JobInformed(job[q])
      BY <1>1, <1>2, <1>8 DEF AskGame
    <3>4. j.legs = {} /\ j.box = NoBox /\ \A x \in j.bets : Terms[x].game = j.game
      BY <3>1, <3>3 DEF JobInformed
    <3>5. pc \notin {"bets", "legs", "ask_game"}
      OBVIOUS
    <3>6. QED
      BY <3>1, <3>2, <3>3, <3>4, <3>5 DEF JobInformed
  <2>4. JobInformed(At("done"))
    BY RestIsInformed
  <2>5. UNCHANGED <<statistics, inbox>>
    BY <1>8 DEF AskGame
  <2>6. Become(q, At("done")) \/ \E j : Become(q, j) /\ JobInformed(j)
    BY <2>1, <2>3
  <2>7. QED
    BY <1>2, <2>4, <2>5, <2>6, InboxStays, InformedStep
<1>9. QED
  BY <1>3, <1>4, <1>5, <1>6, <1>7, <1>8

\* apply_grade leaves the task with what it had.
LEMMA ApplyIsInformed ==
  ASSUME NEW t \in Tasks, NEW r, NEW grade, NEW won, NEW after \in Job, JobInformed(after),
         after.pc \notin {"bets", "legs", "ask_game"}, ApplyGrade(t, r, grade, won, after)
  PROVE  \E j : Become(t, j) /\ JobInformed(j)
<1> DEFINE hand == {[row |-> r, grade |-> grade, won |-> won]}
           told == [after EXCEPT !.pc = "publish", !.hand = hand]
           passed == [after EXCEPT !.pc = "grade", !.hand = {}]
<1>1. Become(t, told) \/ Become(t, passed)
  BY DEF ApplyGrade
<1> HIDE DEF hand
<1>2. /\ told.pc = "publish" /\ told.bets = after.bets /\ told.legs = after.legs
      /\ told.game = after.game /\ told.score = after.score /\ told.box = after.box
      /\ told.force = after.force
  BY DEF Job
<1>3. /\ passed.pc = "grade" /\ passed.bets = after.bets /\ passed.legs = after.legs
      /\ passed.game = after.game /\ passed.score = after.score /\ passed.box = after.box
      /\ passed.force = after.force
  BY DEF Job
<1> HIDE DEF told, passed
<1>4. JobInformed(told) /\ JobInformed(passed)
  BY <1>2, <1>3, LessIsInformed
<1>5. QED
  BY <1>1, <1>4

\* The steps of grading.
LEMMA GradeIsInformed ==
  ASSUME TypeOK, TypeOK', GameKnown, Informed, GoesOn, NEW t \in Tasks,
         Grade(t) \/ CallFails(t) \/ TaskFails(t)
  PROVE  Informed'
<1>1. job[t] \in Job /\ JobInformed(job[t]) /\ JobInformed(Rest(t)) /\ JobInformed(At("idle"))
  <2>1. job[t] \in Job /\ JobInformed(job[t])
    BY DEF TypeOK, Informed
  <2>2. JobInformed(Rest(t)) /\ JobInformed(At("idle"))
    BY RestIsInformed
  <2>3. QED
    BY <2>1, <2>2
<1>2. UNCHANGED statistics /\ InboxShrinks
  <2>1. CASE Grade(t)
    <3>1. ReadBets(t) \/ ReadLegs(t) \/ FetchBox(t) => UNCHANGED <<statistics, inbox>>
      BY DEF ReadBets, ReadLegs, FetchBox
    <3>2. \A s : GradeScoreBet(t, s) \/ GradeProp(t, s) => UNCHANGED <<statistics, inbox>>
      BY DEF GradeScoreBet, GradeProp
    <3>3. \A l, p : GradeLeg(t, l) \/ ReadParlay(t, p) => UNCHANGED <<statistics, inbox>>
      BY DEF GradeLeg, ReadParlay
    <3>4. ApplyParlay(t) \/ Publish(t) \/ GameDone(t) => UNCHANGED <<statistics, inbox>>
      BY DEF ApplyParlay, Publish, GameDone
    <3>5. QED
      BY <2>1, <3>1, <3>2, <3>3, <3>4, InboxStays DEF Grade
  <2>2. CASE CallFails(t) \/ TaskFails(t)
    BY <2>2, InboxStays DEF CallFails, TaskFails
  <2>3. QED
    BY <2>1, <2>2
<1> SUFFICES \E j : Become(t, j) /\ JobInformed(j)
  <2>1. ASSUME NEW j, Become(t, j), JobInformed(j) PROVE Informed'
    BY <1>2, <2>1, InformedStep
  <2>2. QED
    BY <2>1
<1>3. CASE ReadBets(t)
  <2> DEFINE bets == {s \in Singles : Terms[s].game = job[t].game /\ status[s] = "OPEN"}
             j == [job[t] EXCEPT !.pc = "legs", !.bets = bets]
  <2>1. /\ job[t].pc = "bets" /\ Become(t, j)
        /\ j.pc = "legs" /\ j.bets = bets /\ j.legs = job[t].legs /\ j.game = job[t].game
        /\ j.score = job[t].score /\ j.box = job[t].box /\ j.force = job[t].force
    BY <1>1, <1>3 DEF ReadBets, Job
  <2> HIDE DEF j
  <2>2. JobInformed(j)
    BY <1>1, <2>1 DEF JobInformed
  <2>3. QED
    BY <2>1, <2>2
<1>4. CASE ReadLegs(t)
  <2> DEFINE legs == {l \in Legs : Terms[l].game = job[t].game /\ legStatus[l] = "OPEN"}
  <2>1. ASSUME NEW pc \in {"box", "grade"}
        PROVE  JobInformed([job[t] EXCEPT !.pc = pc, !.legs = legs])
    <3> DEFINE j == [job[t] EXCEPT !.pc = pc, !.legs = legs]
    <3>1. /\ job[t].pc = "legs" 
          /\ j.pc = pc /\ j.bets = job[t].bets /\ j.legs = legs /\ j.game = job[t].game
          /\ j.score = job[t].score /\ j.box = job[t].box /\ j.force = job[t].force
      BY <1>1, <1>4 DEF ReadLegs, Job
    <3> HIDE DEF j
    <3>2. JobInformed(j)
      BY <1>1, <3>1 DEF JobInformed
    <3>3. QED
      BY <3>2 DEF j
  <2>2. \E pc \in {"box", "grade"} : Become(t, [job[t] EXCEPT !.pc = pc, !.legs = legs])
    BY <1>4 DEF ReadLegs
  <2>3. QED
    BY <2>1, <2>2
<1>5. CASE FetchBox(t)
  <2> DEFINE j == [job[t] EXCEPT !.pc = "grade", !.box = boxScore[job[t].game]]
  <2>1. /\ job[t].pc = "box" /\ j.pc = "grade" /\ j.bets = job[t].bets /\ j.legs = job[t].legs
        /\ j.game = job[t].game /\ j.score = job[t].score /\ j.box = boxScore[job[t].game]
        /\ j.force = job[t].force
    BY <1>1, <1>5 DEF FetchBox, Job
  <2>2. job[t].game \in Games
    BY <2>1 DEF GameKnown
  <2>3. Become(t, j) \/ Become(t, Rest(t))
    BY <1>5 DEF FetchBox
  <2> HIDE DEF j
  <2>4. j.box # NoBox => j.box \in boxed[j.game]
    BY <2>1, <2>2 DEF Informed
  <2>5. JobInformed(j)
    BY <1>1, <2>1, <2>2, <2>4 DEF JobInformed
  <2>6. QED
    BY <1>1, <2>3, <2>5
<1>6. ASSUME NEW s \in Singles, GradeScoreBet(t, s) \/ GradeProp(t, s)
      PROVE  \E j : Become(t, j) /\ JobInformed(j)
  <2> DEFINE after == [job[t] EXCEPT !.bets = @ \ {s}]
  <2>1. /\ after \in Job /\ after.pc = "grade" /\ job[t].pc = "grade" /\ after.bets \subseteq job[t].bets
        /\ after.legs = job[t].legs /\ after.game = job[t].game /\ after.score = job[t].score
        /\ after.box = job[t].box /\ after.force = job[t].force
    BY <1>1, <1>6 DEF GradeScoreBet, GradeProp, Job
  <2>2. \/ Become(t, Rest(t)) \/ Become(t, after)
        \/ \E grade, won : ApplyGrade(t, s, grade, won, after)
    BY <1>6 DEF GradeScoreBet, GradeProp
  <2> HIDE DEF after
  <2>3. JobInformed(after)
    BY <1>1, <2>1, LessIsInformed
  <2>4. QED
    BY <1>1, <2>1, <2>2, <2>3, ApplyIsInformed
<1>7. ASSUME NEW l \in Legs, GradeLeg(t, l)
      PROVE  \E j : Become(t, j) /\ JobInformed(j)
  <2> DEFINE after == [job[t] EXCEPT !.legs = @ \ {l}]
             owning == [after EXCEPT !.parents = @ \cup {ParentOf[l]}]
  <2>1. Become(t, after) \/ Become(t, owning)
    BY <1>7 DEF GradeLeg
  <2>2. /\ after.pc = "grade" /\ job[t].pc = "grade" /\ after.bets = job[t].bets
        /\ after.legs \subseteq job[t].legs /\ after.game = job[t].game
        /\ after.score = job[t].score /\ after.box = job[t].box /\ after.force = job[t].force
    BY <1>1, <1>7 DEF GradeLeg, Job
  <2>3. /\ owning.pc = "grade" /\ owning.bets = job[t].bets
        /\ owning.legs \subseteq job[t].legs /\ owning.game = job[t].game
        /\ owning.score = job[t].score /\ owning.box = job[t].box /\ owning.force = job[t].force
    BY <1>1, <1>7 DEF GradeLeg, Job
  <2> HIDE DEF after, owning
  <2>4. JobInformed(after) /\ JobInformed(owning)
    BY <1>1, <2>2, <2>3, LessIsInformed
  <2>5. QED
    BY <2>1, <2>4
<1>8. ASSUME NEW p \in Parlays, ReadParlay(t, p)
      PROVE  \E j : Become(t, j) /\ JobInformed(j)
  <2> DEFINE hand == {[row |-> p, grade |-> SettleParlay(Board(p)), won |-> WonLegs(Board(p))]}
             let_go == [job[t] EXCEPT !.parents = @ \ {p}]
             settle == [job[t] EXCEPT !.pc = "settle", !.hand = hand]
  <2>1. Become(t, let_go) \/ Become(t, settle)
    BY <1>8 DEF ReadParlay
  <2> HIDE DEF hand
  <2>2. /\ let_go.pc = "grade" /\ job[t].pc = "grade" /\ let_go.bets = job[t].bets
        /\ let_go.legs = job[t].legs /\ let_go.game = job[t].game /\ let_go.score = job[t].score
        /\ let_go.box = job[t].box /\ let_go.force = job[t].force
    BY <1>1, <1>8 DEF ReadParlay, Job
  <2>3. /\ settle.pc = "settle" /\ settle.bets = job[t].bets
        /\ settle.legs = job[t].legs /\ settle.game = job[t].game /\ settle.score = job[t].score
        /\ settle.box = job[t].box /\ settle.force = job[t].force
    BY <1>1 DEF Job
  <2> HIDE DEF let_go, settle
  <2>4. JobInformed(let_go) /\ JobInformed(settle)
    BY <1>1, <2>2, <2>3, LessIsInformed
  <2>5. QED
    BY <2>1, <2>4
<1>9. CASE ApplyParlay(t)
  <2>1. PICK h \in job[t].hand :
          ApplyGrade(t, h.row, h.grade, h.won, [job[t] EXCEPT !.parents = @ \ {h.row}])
    BY <1>9 DEF ApplyParlay
  <2> DEFINE after == [job[t] EXCEPT !.parents = @ \ {h.row}]
  <2>2. /\ after \in Job /\ after.pc = "settle" /\ job[t].pc = "settle" /\ after.bets = job[t].bets
        /\ after.legs = job[t].legs /\ after.game = job[t].game /\ after.score = job[t].score
        /\ after.box = job[t].box /\ after.force = job[t].force
    BY <1>1, <1>9 DEF ApplyParlay, Job
  <2>3. ApplyGrade(t, h.row, h.grade, h.won, after)
    BY <2>1
  <2> HIDE DEF after
  <2>4. JobInformed(after)
    BY <1>1, <2>2, LessIsInformed
  <2>5. QED
    BY <2>2, <2>3, <2>4, ApplyIsInformed
<1>10. CASE Publish(t) \/ CallFails(t)
  <2> DEFINE j == [job[t] EXCEPT !.pc = "grade", !.hand = {}]
  <2>1. /\ Become(t, j) /\ job[t].pc \in {"box", "publish"} /\ j.pc = "grade"
        /\ j.bets = job[t].bets /\ j.legs = job[t].legs /\ j.game = job[t].game
        /\ j.score = job[t].score /\ j.box = job[t].box /\ j.force = job[t].force
    BY <1>1, <1>10 DEF Publish, CallFails, Job
  <2> HIDE DEF j
  <2>2. JobInformed(j)
    BY <1>1, <2>1, LessIsInformed
  <2>3. QED
    BY <2>1, <2>2
<1>11. CASE GameDone(t) \/ TaskFails(t)
  BY <1>1, <1>11 DEF GameDone, TaskFails
<1>12. QED
  BY <1>3, <1>4, <1>5, <1>6, <1>7, <1>8, <1>9, <1>10, <1>11 DEF Grade

LEMMA InformedNext == TypeOK /\ TypeOK' /\ GameKnown /\ Informed /\ [Next]_vars => Informed'
<1> SUFFICES ASSUME TypeOK, TypeOK', GameKnown, Informed, [Next]_vars PROVE Informed'
  OBVIOUS
<1>1. GoesOn
  BY LedgerGoesOn
<1>2. \A t \in Tasks : Grade(t) \/ CallFails(t) \/ TaskFails(t) => Informed'
  BY <1>1, GradeIsInformed
<1>3. "subscriber" \in Tasks /\ "poller" \in Tasks /\ Requests \subseteq Tasks
  BY DEF Tasks, Graders
<1>4. CASE Environment \/ Faults \/ UNCHANGED vars
  BY <1>1, <1>2, <1>4, OthersStayInformed DEF Faults
<1>5. CASE Subscribe \/ Poll
  BY <1>1, <1>2, <1>3, <1>5, EntryIsInformed DEF Subscribe, Poll
<1>6. ASSUME NEW q \in Requests,
             (\E r \in Rows, force \in Forcings : Ask(q, r, force)) \/ Answer(q)
      PROVE  Informed'
  BY <1>1, <1>2, <1>3, <1>6, EntryIsInformed DEF Answer
<1>7. QED
  BY <1>4, <1>5, <1>6 DEF Next

-----------------------------------------------------------------------------
(***************************************************************************)
(* The refinement.  Both modules take the rules from Book, so that what    *)
(* one of them calls a grade is one for the other.                         *)
(***************************************************************************)
LEMMA SameProps ==
  \A box, term : Ledger!ResolvePlayerProp(box, term) = ResolvePlayerProp(box, term)
<1>1. \A line, fields : Ledger!SumFunctionOnSet(line, fields) = SumFunctionOnSet(line, fields)
  BY DEF Ledger!SumFunctionOnSet, SumFunctionOnSet, Ledger!FoldFunctionOnSet, FoldFunctionOnSet,
         Ledger!MapThenFoldSet, MapThenFoldSet
<1>2. \A box, player : Ledger!FindPlayerLine(box, player) = FindPlayerLine(box, player)
  BY DEF Ledger!FindPlayerLine, FindPlayerLine
<1>3. /\ \A type, side, line, actual :
           Ledger!GradePlayerProp(type, side, line, actual) = GradePlayerProp(type, side, line, actual)
      /\ \A term : Ledger!PropType(term) = PropType(term)
  BY DEF Ledger!GradePlayerProp, GradePlayerProp, Ledger!PropType, PropType, Ledger!Verdict, Verdict
<1>4. Ledger!StatFields = StatFields
  BY DEF Ledger!StatFields, StatFields
<1>5. QED
  BY <1>1, <1>2, <1>3, <1>4 DEF Ledger!ResolvePlayerProp, ResolvePlayerProp

LEMMA SameScores == \A x, v : Ledger!ScoreGrade(x, v) = ScoreGrade(x, v)
BY DEF Ledger!ScoreGrade, ScoreGrade, Ledger!GradeFromScore, GradeFromScore, Ledger!GradeBet,
       GradeBet, Ledger!Verdict, Verdict, Ledger!SettlementScores, SettlementScores,
       Ledger!IsThreeWay, IsThreeWay, Ledger!SportOf, SportOf, Ledger!Winner, Winner,
       Ledger!SelectedMargin, SelectedMargin, Ledger!Missing, Missing

LEMMA SameRules ==
  /\ Ledger!Rows = Rows /\ Ledger!Graded = Graded
  /\ \A x : Ledger!IsProp(x) <=> IsProp(x)
  /\ \A x, box : Ledger!PropGrade(x, box) = PropGrade(x, box)
  /\ \A x, grade : Ledger!PricedOf(x, grade) = PricedOf(x, grade)
  /\ \A p \in Parlays : /\ Ledger!SettleParlay(Ledger!Board(p)) = SettleParlay(Board(p))
                        /\ Ledger!WonLegs(Ledger!Board(p)) = WonLegs(Board(p))
<1>1. Ledger!Rows = Rows /\ Ledger!Graded = Graded
  BY DEF Ledger!Rows, Rows, Ledger!Graded, Graded
<1>2. \A x : Ledger!IsProp(x) <=> IsProp(x)
  BY DEF Ledger!IsProp, IsProp, Ledger!PropMarkets, PropMarkets, Ledger!OtherProps, OtherProps
<1>3. \A x, box : Ledger!PropGrade(x, box) = PropGrade(x, box)
  BY SameProps DEF Ledger!PropGrade, PropGrade, Ledger!IsPlayerProp, IsPlayerProp
<1>4. \A x, grade : Ledger!PricedOf(x, grade) = PricedOf(x, grade)
  BY DEF Ledger!PricedOf, PricedOf
<1>5. \A p \in Parlays : Ledger!Board(p) = Board(p)
  BY DEF Ledger!Board, Board, Ledger!LegsOf, LegsOf
<1>6. \A b : Ledger!SettleParlay(b) = SettleParlay(b) /\ Ledger!WonLegs(b) = WonLegs(b)
  BY DEF Ledger!SettleParlay, SettleParlay, Ledger!WonLegs, WonLegs, Ledger!Dropped, Dropped
<1>7. QED
  BY <1>1, <1>2, <1>3, <1>4, <1>5, <1>6

\* What a task makes of a selection is a grade that the reports allow.
LEMMA AllowedGrades ==
  ASSUME NEW t \in Tasks, JobInformed(job[t]), job[t].pc = "grade",
         NEW x, x \in job[t].bets \cup job[t].legs, NEW grade \in Graded,
         grade = IF IsProp(x) THEN PropGrade(x, job[t].box) ELSE ScoreGrade(x, job[t].score)
  PROVE  grade \in Ledger!GradesOf(x)
<1>1. Terms[x].game = job[t].game /\ job[t].score \in reported[job[t].game]
  BY DEF JobInformed
<1>2. CASE IsProp(x)
  <2>1. job[t].box # NoBox
    BY <1>2 DEF PropGrade, Graded
  <2>2. job[t].box \in boxed[job[t].game]
    BY <2>1 DEF JobInformed
  <2>3. QED
    BY <1>1, <1>2, <2>2, SameRules DEF Ledger!GradesOf
<1>3. CASE ~IsProp(x)
  BY <1>1, <1>3, SameRules, SameScores DEF Ledger!GradesOf
<1>4. QED
  BY <1>2, <1>3

\* apply_grade writes an open row, or a graded one for a forced request.
LEMMA ApplyRefines ==
  ASSUME TypeOK, NEW t \in Tasks, NEW r \in Rows, NEW grade, NEW won, NEW after,
         ApplyGrade(t, r, grade, won, after), status[r] # "NONE", JobInformed(job[t]),
         UNCHANGED <<legStatus, reported, boxed>>
  PROVE  Ledger!Grade(r, grade, won) \/ UNCHANGED Ledger!vars
<1>1. status[r] = "OPEN" \/ status[r] \in Graded
  BY DEF TypeOK
<1>2. CASE status[r] = "OPEN" \/ job[t].force
  BY <1>1, <1>2, SameRules DEF ApplyGrade, Ledger!Grade, JobInformed
<1>3. CASE ~(status[r] = "OPEN" \/ job[t].force)
  BY <1>3 DEF ApplyGrade, Ledger!vars
<1>4. QED
  BY <1>2, <1>3

LEMMA BetRefines ==
  ASSUME TypeOK, Informed, NEW t \in Tasks, NEW s \in Singles, GradeScoreBet(t, s) \/ GradeProp(t, s)
  PROVE  Ledger!GradeSingle(s) \/ UNCHANGED Ledger!vars
<1>1. /\ JobInformed(job[t]) /\ job[t].pc = "grade" /\ s \in job[t].bets /\ s \in Rows
      /\ UNCHANGED <<legStatus, reported, boxed>>
  BY DEF Informed, GradeScoreBet, GradeProp, Rows, statistics
<1>2. status[s] # "NONE"
  BY <1>1 DEF JobInformed
<1>3. \/ UNCHANGED Ledger!vars
      \/ \E grade \in Graded :
           /\ grade = IF IsProp(s) THEN PropGrade(s, job[t].box) ELSE ScoreGrade(s, job[t].score)
           /\ \E after : ApplyGrade(t, s, grade, PricedOf(s, grade), after)
  BY <1>1 DEF GradeScoreBet, GradeProp, Ledger!vars
<1>4. ASSUME NEW grade \in Graded, NEW after,
             grade = IF IsProp(s) THEN PropGrade(s, job[t].box) ELSE ScoreGrade(s, job[t].score),
             ApplyGrade(t, s, grade, PricedOf(s, grade), after)
      PROVE  Ledger!GradeSingle(s) \/ UNCHANGED Ledger!vars
  <2>1. grade \in Ledger!GradesOf(s)
    BY <1>1, <1>4, AllowedGrades
  <2>2. Ledger!Grade(s, grade, PricedOf(s, grade)) \/ UNCHANGED Ledger!vars
    BY <1>1, <1>2, <1>4, ApplyRefines
  <2>3. QED
    BY <2>1, <2>2, SameRules DEF Ledger!GradeSingle
<1>5. QED
  BY <1>3, <1>4

LEMMA LegRefines ==
  ASSUME TypeOK, Informed, NEW t \in Tasks, NEW l \in Legs, GradeLeg(t, l)
  PROVE  Ledger!DecideLeg(l) \/ UNCHANGED Ledger!vars
<1> DEFINE grade == IF IsProp(l) THEN PropGrade(l, job[t].box) ELSE ScoreGrade(l, job[t].score)
<1>1. /\ JobInformed(job[t]) /\ job[t].pc = "grade" /\ l \in job[t].legs
      /\ UNCHANGED <<status, priced, reported, boxed>>
  BY DEF Informed, GradeLeg, statistics
<1>2. \/ UNCHANGED legStatus
      \/ /\ grade \in Graded /\ legStatus[l] = "OPEN"
         /\ legStatus' = [legStatus EXCEPT ![l] = grade]
  BY DEF GradeLeg
<1>3. grade \in Graded => grade \in Ledger!GradesOf(l)
  BY <1>1, AllowedGrades
<1> HIDE DEF grade
<1>4. QED
  BY <1>1, <1>2, <1>3 DEF Ledger!DecideLeg, Ledger!vars

LEMMA ParlayRefines ==
  ASSUME TypeOK, Informed, ParlayInv, NEW t \in Tasks, ApplyParlay(t)
  PROVE  (\E p \in Parlays : Ledger!GradeParlay(p)) \/ UNCHANGED Ledger!vars
<1>1. /\ JobInformed(job[t]) /\ job[t] \in Job /\ JobFits(job[t]) /\ job[t].pc = "settle"
      /\ UNCHANGED <<legStatus, reported, boxed>>
  BY DEF Informed, TypeOK, ParlayInv, ApplyParlay, statistics
<1>2. PICK p \in job[t].parents :
        /\ LegsDecided(p)
        /\ job[t].hand = {[row |-> p, grade |-> SettleParlay(Board(p)), won |-> WonLegs(Board(p))]}
  BY <1>1 DEF JobFits
<1>3. p \in Parlays /\ p \in Rows /\ status[p] # "NONE" /\ SettleParlay(Board(p)) # "OPEN"
  BY <1>1, <1>2, SettledWhenDecided DEF Job, JobFits, Rows, Graded
<1>4. \E after : ApplyGrade(t, p, SettleParlay(Board(p)), WonLegs(Board(p)), after)
  BY <1>2 DEF ApplyParlay
<1>5. Ledger!Grade(p, SettleParlay(Board(p)), WonLegs(Board(p))) \/ UNCHANGED Ledger!vars
  BY <1>1, <1>3, <1>4, ApplyRefines
<1>6. QED
  BY <1>3, <1>5, SameRules DEF Ledger!GradeParlay

\* Placements and reports are those of the ledger.
LEMMA EnvironmentRefines ==
  ASSUME TypeOK, Environment
  PROVE  Ledger!Next \/ UNCHANGED Ledger!vars
<1> USE DEF ledger, statistics
<1>1. ASSUME NEW s \in Singles, InsertBet(s) PROVE Ledger!Next
  <2>1. s \in Rows /\ \A l \in Legs : ParentOf[l] # s
    BY BookAssumption DEF Rows
  <2>2. legStatus' = [l \in Legs |-> IF ParentOf[l] = s THEN "OPEN" ELSE legStatus[l]]
    BY <1>1, <2>1 DEF InsertBet, TypeOK
  <2>3. Ledger!Place(s)
    BY <1>1, <2>2 DEF InsertBet, Ledger!Place
  <2>4. QED
    BY <2>1, <2>3, SameRules DEF Ledger!Next
<1>2. ASSUME NEW p \in Parlays, InsertParlay(p) PROVE Ledger!Next
  <2>1. p \in Rows /\ Ledger!Place(p)
    BY <1>2 DEF InsertParlay, Ledger!Place, Rows
  <2>2. QED
    BY <2>1, SameRules DEF Ledger!Next
<1>3. ASSUME NEW g \in Games, NEW v \in Results, ReportResult(g, v) PROVE Ledger!Next
  <2>1. Ledger!Report(g)
    BY <1>3 DEF ReportResult, Ledger!Report, Ledger!ledger
  <2>2. QED
    BY <2>1 DEF Ledger!Next
<1>4. ASSUME NEW g \in Games, NEW b \in BoxScores, ServeBox(g, b) PROVE Ledger!Next
  <2>1. Ledger!Report(g)
    BY <1>4 DEF ServeBox, Ledger!Report, Ledger!ledger
  <2>2. QED
    BY <2>1 DEF Ledger!Next
<1>5. ASSUME Reconnect \/ \E g \in Games : DeliverCompleted(g) \/ GraceElapses(g)
      PROVE  UNCHANGED Ledger!vars
  BY <1>5 DEF Reconnect, DeliverCompleted, GraceElapses, Ledger!vars
<1>6. QED
  BY <1>1, <1>2, <1>3, <1>4, <1>5 DEF Environment

\* Reading, asking, publishing and failing leave the ledger alone.
LEMMA EntryRefines ==
  ASSUME NEW t, \/ Receive \/ SweepBets \/ SweepLegs \/ SweepEnds \/ (\E g \in Games : PollGame(g))
                \/ (\E r \in Rows, force \in Forcings : Ask(t, r, force))
                \/ AskLegs(t) \/ AskGame(t)
  PROVE  UNCHANGED Ledger!vars
<1>1. UNCHANGED <<ledger, statistics>>
  <2>1. CASE Receive \/ SweepBets \/ SweepLegs \/ SweepEnds
    BY <2>1 DEF Receive, SweepBets, SweepLegs, SweepEnds
  <2>2. \A g \in Games : PollGame(g) => UNCHANGED <<ledger, statistics>>
    BY Zenon DEF PollGame
  <2>3. \A r \in Rows, force \in Forcings : Ask(t, r, force) => UNCHANGED <<ledger, statistics>>
    BY Zenon DEF Ask
  <2>4. AskLegs(t) => UNCHANGED <<ledger, statistics>>
    BY DEF AskLegs
  <2>5. AskGame(t) => UNCHANGED <<ledger, statistics>>
    BY Zenon DEF AskGame
  <2>6. QED
    BY <2>1, <2>2, <2>3, <2>4, <2>5
<1>2. QED
  BY <1>1 DEF ledger, statistics, Ledger!vars

LEMMA RestRefines ==
  ASSUME NEW t,
         \/ ReadBets(t) \/ ReadLegs(t) \/ FetchBox(t) \/ (\E p \in Parlays : ReadParlay(t, p))
         \/ Publish(t) \/ GameDone(t) \/ Faults \/ UNCHANGED vars
  PROVE  UNCHANGED Ledger!vars
<1>1. UNCHANGED <<status, priced, legStatus, reported, boxed>>
  <2>1. CASE ReadBets(t) \/ ReadLegs(t) \/ FetchBox(t) \/ Publish(t) \/ GameDone(t)
    BY <2>1 DEF ReadBets, ReadLegs, FetchBox, Publish, GameDone, ledger, statistics
  <2>2. \A p \in Parlays : ReadParlay(t, p) => UNCHANGED <<ledger, statistics>>
    BY Zenon DEF ReadParlay
  <2>3. CASE Faults
    <3>1. \A u : CallFails(u) \/ TaskFails(u) => UNCHANGED <<ledger, statistics>>
      BY DEF CallFails, TaskFails
    <3>2. (\E g \in Games : PollFails(g)) \/ Crash => UNCHANGED <<ledger, statistics>>
      BY DEF PollFails, Crash
    <3>3. QED
      BY <2>3, <3>1, <3>2 DEF Faults, ledger, statistics
  <2>4. QED
    BY <2>1, <2>2, <2>3 DEF ledger, statistics, vars
<1>2. QED
  BY <1>1 DEF Ledger!vars

LEMMA LedgerStep ==
  TypeOK /\ Informed /\ ParlayInv /\ [Next]_vars => [Ledger!Next]_(Ledger!vars)
<1> SUFFICES ASSUME TypeOK, Informed, ParlayInv, [Next]_vars
             PROVE  Ledger!Next \/ UNCHANGED Ledger!vars
  OBVIOUS
<1>1. ASSUME NEW t \in Tasks, Grade(t) PROVE Ledger!Next \/ UNCHANGED Ledger!vars
  BY <1>1, BetRefines, LegRefines, ParlayRefines, RestRefines DEF Grade, Ledger!Next
<1>2. "subscriber" \in Tasks /\ "poller" \in Tasks /\ Requests \subseteq Tasks
  BY DEF Tasks, Graders
<1>3. CASE Environment
  BY <1>3, EnvironmentRefines
<1>4. CASE Subscribe \/ Poll \/ Faults \/ UNCHANGED vars
  BY <1>1, <1>2, <1>4, EntryRefines, RestRefines DEF Subscribe, Poll
<1>5. ASSUME NEW q \in Requests,
             (\E r \in Rows, force \in Forcings : Ask(q, r, force)) \/ Answer(q)
      PROVE  Ledger!Next \/ UNCHANGED Ledger!vars
  BY <1>1, <1>2, <1>5, EntryRefines DEF Answer
<1>6. QED
  BY <1>3, <1>4, <1>5 DEF Next

(***************************************************************************)
(* Grading implements the ledger: whatever events, sweeps, requests and    *)
(* faults do to the graders, every change of a bet, a leg or a parlay is   *)
(* one that BetLedger allows - an open row graded from a result or a box   *)
(* score reported of its own game, a leg decided once, a parlay settled    *)
(* from its decided legs, a graded row written again only under force      *)
(* (grade_game, grade_manual, apply_grade, grade_leg).                     *)
(***************************************************************************)
THEOREM GraderImplementsLedger == Spec => ImplementsLedger
<1> DEFINE Inv == TypeOK /\ GameKnown /\ Informed /\ ParlayInv
<1>1. Init => Inv
  BY TypeInit, ParlayInit, InformedInit DEF Init, GameKnown, At
<1>2. Inv /\ [Next]_vars => Inv'
  BY TypeNext, GameKnownNext, ParlayNext, InformedNext
<1>3. Init => Ledger!Init
  BY SameRules DEF Init, Ledger!Init
<1>4. Inv /\ [Next]_vars => [Ledger!Next]_(Ledger!vars)
  BY LedgerStep
<1>5. QED
  BY <1>1, <1>2, <1>3, <1>4, PTL DEF Spec, ImplementsLedger, Ledger!Spec

-----------------------------------------------------------------------------
(***************************************************************************)
(* Announcements.  A row is announced once it is graded, by the one task   *)
(* whose claim succeeded: until that task has published, the row has not   *)
(* been announced and no other task is about to announce it.               *)
(***************************************************************************)
Publishing(t, h) == job[t].pc = "publish" /\ h \in job[t].hand

Told ==
  /\ \A r \in Rows : announced[r] # << >> => status[r] \in Graded /\ announced[r] = <<status[r]>>
  /\ \A t \in Tasks : \A h \in Settlement : Publishing(t, h) =>
       h.grade = status[h.row] /\ announced[h.row] = << >>
  /\ \A t, u \in Tasks : \A h, k \in Settlement :
       Publishing(t, h) /\ Publishing(u, k) /\ t # u => h.row # k.row

\* Grades stay and nobody comes to publish.
LEMMA QuietTells ==
  ASSUME Told, UNCHANGED announced,
         \A r \in Rows : status[r] \in Graded => status'[r] = status[r],
         \A t \in Tasks : job'[t].pc = "publish" => job'[t] = job[t]
  PROVE  Told'
<1>1. \A t \in Tasks : \A h : Publishing(t, h)' => Publishing(t, h)
  BY DEF Publishing
<1>2. \A h \in Settlement : h.row \in Rows /\ h.grade \in Graded
  BY DEF Settlement
<1>3. QED
  BY <1>1, <1>2 DEF Told

\* One task goes on to something else than publishing.
LEMMA JobTells ==
  ASSUME TypeOK, Told, NEW t \in Tasks, NEW j, Become(t, j), j.pc # "publish",
         UNCHANGED <<status, announced>>
  PROVE  Told'
<1>1. \A u \in Tasks : job'[u] = IF u = t THEN j ELSE job[u]
  BY DEF TypeOK, Become
<1>2. QED
  BY <1>1, QuietTells

\* Without force, the claim of apply_grade succeeds for an open row only.
LEMMA ApplyTells ==
  ASSUME TypeOK, Told, NEW t \in Tasks, ~job[t].force, NEW r \in Rows, NEW grade \in Graded,
         NEW won \in SUBSET Selections, NEW after \in Job, ApplyGrade(t, r, grade, won, after),
         UNCHANGED announced
  PROVE  Told'
<1> DEFINE hand == {[row |-> r, grade |-> grade, won |-> won]}
           told == [after EXCEPT !.pc = "publish", !.hand = hand]
           passed == [after EXCEPT !.pc = "grade", !.hand = {}]
<1>1. CASE status[r] # "OPEN"
  <2>1. Become(t, passed) /\ UNCHANGED status
    BY <1>1 DEF ApplyGrade
  <2>2. passed.pc = "grade"
    BY DEF Job
  <2> HIDE DEF passed
  <2>3. QED
    BY <2>1, <2>2, JobTells
<1>2. CASE status[r] = "OPEN"
  <2>1. Become(t, told) /\ status' = [status EXCEPT ![r] = grade]
    BY <1>2 DEF ApplyGrade
  <2> HIDE DEF hand
  <2>2. told.pc = "publish" /\ told.hand = hand
    BY DEF Job
  <2> HIDE DEF told
  <2>3. \A u \in Tasks : job'[u] = IF u = t THEN told ELSE job[u]
    BY <2>1 DEF TypeOK, Become
  <2>4. \A x \in Rows : status'[x] = IF x = r THEN grade ELSE status[x]
    BY <2>1 DEF TypeOK
  <2>5. \A h \in hand : h.row = r /\ h.grade = grade
    BY DEF hand
  <2>6. \A u \in Tasks : \A h : Publishing(u, h)' => IF u = t THEN h \in hand ELSE Publishing(u, h)
    BY <2>2, <2>3 DEF Publishing
  <2>7. announced[r] = << >>
    BY <1>2 DEF Told, Graded
  <2>8. \A h \in Settlement : h.row \in Rows /\ h.grade \in Graded
    BY DEF Settlement
  <2>9. \A u \in Tasks : \A h \in Settlement : Publishing(u, h) => h.row # r
    BY <1>2, <2>8 DEF Told, Graded
  <2>10. \A x \in Rows : announced[x] # << >> => status'[x] \in Graded /\ announced[x] = <<status'[x]>>
    BY <2>4, <2>7 DEF Told
  <2>11. \A u \in Tasks : \A h \in Settlement : Publishing(u, h)' =>
           h.grade = status'[h.row] /\ announced[h.row] = << >>
    BY <2>4, <2>5, <2>6, <2>7, <2>8, <2>9 DEF Told
  <2>12. \A u, w \in Tasks : \A h, k \in Settlement :
           Publishing(u, h)' /\ Publishing(w, k)' /\ u # w => h.row # k.row
    BY <2>5, <2>6, <2>9 DEF Told
  <2>13. QED
    BY <2>10, <2>11, <2>12 DEF Told
<1>3. QED
  BY <1>1, <1>2

LEMMA PublishTells ==
  ASSUME TypeOK, Told, NEW t \in Tasks, Publish(t)
  PROVE  Told'
<1> DEFINE j == [job[t] EXCEPT !.pc = "grade", !.hand = {}]
<1>1. PICK h \in job[t].hand : announced' = [announced EXCEPT ![h.row] = Append(@, h.grade)]
  BY DEF Publish
<1>2. /\ job[t] \in Job /\ h \in Settlement /\ h.row \in Rows /\ h.grade \in Graded
      /\ Publishing(t, h)
  BY DEF TypeOK, Job, Settlement, Publish, Publishing
<1>3. Become(t, j) /\ UNCHANGED status
  BY DEF Publish, ledger
<1>4. j.pc = "grade"
  BY <1>2 DEF Job
<1> HIDE DEF j
<1>5. \A u \in Tasks : job'[u] = IF u = t THEN j ELSE job[u]
  BY <1>3 DEF TypeOK, Become
<1>6. \A u \in Tasks : \A k : Publishing(u, k)' => u # t /\ Publishing(u, k)
  BY <1>4, <1>5 DEF Publishing
<1>7. announced[h.row] = << >> /\ h.grade = status[h.row]
  BY <1>2 DEF Told
<1>8. Append(announced[h.row], h.grade) = <<h.grade>>
  BY <1>7
<1>9. \A x \in Rows : announced'[x] = IF x = h.row THEN <<status[x]>> ELSE announced[x]
  BY <1>1, <1>7, <1>8 DEF TypeOK
<1>10. \A k \in Settlement : k.row \in Rows
  BY DEF Settlement
<1>11. \A x \in Rows : announced'[x] # << >> => status[x] \in Graded /\ announced'[x] = <<status[x]>>
  BY <1>2, <1>7, <1>9 DEF Told
<1>12. \A u \in Tasks : \A k \in Settlement : Publishing(u, k)' =>
         k.grade = status[k.row] /\ announced'[k.row] = << >>
  <2>1. SUFFICES ASSUME NEW u \in Tasks, NEW k \in Settlement, Publishing(u, k)'
                 PROVE  k.grade = status[k.row] /\ announced'[k.row] = << >>
    OBVIOUS
  <2>2. u # t /\ Publishing(u, k) /\ k.row \in Rows
    BY <1>6, <1>10, <2>1
  <2>3. k.grade = status[k.row] /\ announced[k.row] = << >> /\ k.row # h.row
    BY <1>2, <2>2 DEF Told
  <2>4. QED
    BY <1>9, <2>2, <2>3
<1>13. \A u, w \in Tasks : \A k, m \in Settlement :
         Publishing(u, k)' /\ Publishing(w, m)' /\ u # w => k.row # m.row
  BY <1>6 DEF Told
<1>14. QED
  BY <1>3, <1>11, <1>12, <1>13 DEF Told

\* Outside grading nobody comes to publish, and grades stay.
LEMMA OthersTell ==
  ASSUME TypeOK, Told,
         \/ Environment \/ (\E g \in Games : PollFails(g)) \/ Crash \/ UNCHANGED vars
  PROVE  Told'
<1> USE DEF ledger, statistics
<1>1. UNCHANGED announced
  BY DEF Environment, InsertBet, InsertParlay, ReportResult, ServeBox, DeliverCompleted,
         GraceElapses, Reconnect, PollFails, Crash, vars
<1>2. \A r \in Rows : status[r] \in Graded => status'[r] = status[r]
  <2>1. \/ UNCHANGED status
        \/ \E r \in Rows : status[r] = "NONE" /\ status' = [status EXCEPT ![r] = "OPEN"]
    BY DEF Environment, InsertBet, InsertParlay, ReportResult, ServeBox, DeliverCompleted,
           GraceElapses, Reconnect, PollFails, Crash, vars, Rows
  <2>2. QED
    BY <2>1 DEF TypeOK, Graded
<1>3. \A t \in Tasks : job'[t].pc = "publish" => job'[t] = job[t]
  <2>1. CASE Crash
    BY <2>1 DEF Crash, At
  <2>2. CASE ~Crash
    BY <2>2 DEF Environment, InsertBet, InsertParlay, ReportResult, ServeBox, DeliverCompleted,
                GraceElapses, Reconnect, PollFails, vars
  <2>3. QED
    BY <2>1, <2>2
<1>4. QED
  BY <1>1, <1>2, <1>3, QuietTells

\* Nor on the ways into grading.
LEMMA EntryTells ==
  ASSUME TypeOK, Told,
         \/ Receive \/ SweepBets \/ SweepLegs \/ SweepEnds
         \/ \E g \in Games : PollGame(g)
         \/ \E q \in Requests : \/ \E r \in Rows, force \in Forcings : Ask(q, r, force)
                               \/ AskLegs(q) \/ AskGame(q)
  PROVE  Told'
<1> USE DEF ledger
<1>1. "subscriber" \in Tasks /\ "poller" \in Tasks /\ Requests \subseteq Tasks
  BY DEF Tasks, Graders
<1>2. \A pc : At(pc).pc = pc
  BY DEF At
<1>3. CASE Receive
  <2> DEFINE j == [At("bets") EXCEPT !.game = Head(inbox).game, !.score = Head(inbox).score]
  <2>1. Become("subscriber", j) /\ UNCHANGED <<status, announced>>
    BY <1>3 DEF Receive
  <2>2. j.pc = "bets"
    BY DEF At
  <2> HIDE DEF j
  <2>3. QED
    BY <1>1, <2>1, <2>2, JobTells
<1>4. CASE SweepBets \/ SweepLegs \/ SweepEnds
  <2>1. \E pc \in {"union", "sweep", "idle"} : Become("poller", At(pc))
    BY <1>4 DEF SweepBets, SweepLegs, SweepEnds
  <2>2. UNCHANGED <<status, announced>>
    BY <1>4 DEF SweepBets, SweepLegs, SweepEnds
  <2>3. QED
    BY <1>1, <1>2, <2>1, <2>2, JobTells
<1>5. ASSUME NEW g \in Games, PollGame(g) PROVE Told'
  <2> DEFINE j == [At("bets") EXCEPT !.game = g, !.score = result[g]]
  <2>1. job' = job \/ Become("poller", j)
    BY <1>5, Zenon DEF PollGame
  <2>2. j.pc = "bets"
    BY DEF At
  <2>3. UNCHANGED <<status, announced>>
    BY <1>5, Zenon DEF PollGame
  <2> HIDE DEF j
  <2>4. QED
    BY <1>1, <2>1, <2>2, <2>3, JobTells, QuietTells
<1>6. ASSUME NEW q \in Requests, NEW r \in Rows, NEW force \in Forcings, Ask(q, r, force)
      PROVE  Told'
  <2> DEFINE legs == [At("ask_legs") EXCEPT !.parents = {r}, !.force = force]
             game == [At("ask_game") EXCEPT !.bets = {r}, !.force = force]
  <2>1. Become(q, legs) \/ Become(q, game) \/ Become(q, At("done"))
    BY <1>6, Zenon DEF Ask
  <2>2. legs.pc = "ask_legs" /\ game.pc = "ask_game"
    BY DEF At
  <2>3. UNCHANGED <<status, announced>>
    BY <1>6, Zenon DEF Ask
  <2> HIDE DEF legs, game
  <2>4. QED
    BY <1>1, <1>2, <2>1, <2>2, <2>3, JobTells
<1>7. ASSUME NEW q \in Requests, AskLegs(q) \/ AskGame(q) PROVE Told'
  <2>1. UNCHANGED <<status, announced>>
    BY <1>7, Zenon DEF AskLegs, AskGame
  <2>2. \E j : Become(q, j) /\ j.pc # "publish"
    <3>1. job[q] \in Job
      BY <1>1 DEF TypeOK
    <3>2. \A pc : [job[q] EXCEPT !.pc = pc].pc = pc
      BY <3>1 DEF Job
    <3>3. CASE AskLegs(q)
      BY <1>2, <3>2, <3>3 DEF AskLegs
    <3>4. ASSUME NEW s, NEW pc \in {"box", "grade"}
          PROVE  [job[q] EXCEPT !.pc = pc, !.game = Terms[s].game,
                                !.score = result[Terms[s].game]].pc = pc
      BY <3>1 DEF Job
    <3>5. CASE AskGame(q)
      <4>1. PICK s \in job[q].bets :
              IF result[Terms[s].game] = NoResult \/ Terms[s].market \in OtherProps
              THEN Become(q, At("done"))
              ELSE Become(q, [job[q] EXCEPT !.pc = IF IsProp(s) THEN "box" ELSE "grade",
                                            !.game = Terms[s].game,
                                            !.score = result[Terms[s].game]])
        BY <3>5, Zenon DEF AskGame
      <4> DEFINE pc == IF IsProp(s) THEN "box" ELSE "grade"
                 j == [job[q] EXCEPT !.pc = pc, !.game = Terms[s].game,
                                     !.score = result[Terms[s].game]]
      <4>2. pc \in {"box", "grade"}
        OBVIOUS
      <4>3. Become(q, At("done")) \/ Become(q, j)
        BY <4>1
      <4> HIDE DEF pc
      <4>4. j.pc = pc
        BY <3>4, <4>2
      <4> HIDE DEF j
      <4>5. QED
        BY <1>2, <4>2, <4>3, <4>4
    <3>6. QED
      BY <1>7, <3>3, <3>5
  <2>3. QED
    BY <1>1, <2>1, <2>2, JobTells
<1>8. QED
  BY <1>3, <1>4, <1>5, <1>6, <1>7

\* The steps of grading, when no request is forced.
LEMMA GradeTells ==
  ASSUME TypeOK, Told, NEW t \in Tasks, ~job[t].force, Grade(t) \/ CallFails(t) \/ TaskFails(t)
  PROVE  Told'
<1>1. job[t] \in Job /\ \A pc : At(pc).pc = pc
  BY DEF TypeOK, At
<1>2. Rest(t).pc # "publish" /\ At("idle").pc # "publish"
  BY <1>1 DEF Rest
<1>3. ASSUME NEW j, Become(t, j), j.pc # "publish", UNCHANGED <<status, announced>> PROVE Told'
  BY <1>3, JobTells
<1>4. CASE ReadBets(t) \/ FetchBox(t) \/ GameDone(t)
  <2>1. UNCHANGED <<status, announced>>
    BY <1>4 DEF ReadBets, FetchBox, GameDone, ledger
  <2>2. \A bets, box : /\ [job[t] EXCEPT !.pc = "legs", !.bets = bets].pc = "legs"
                       /\ [job[t] EXCEPT !.pc = "grade", !.box = box].pc = "grade"
    BY <1>1 DEF Job
  <2>3. \E j : Become(t, j) /\ j.pc # "publish"
    BY <1>2, <1>4, <2>2 DEF ReadBets, FetchBox, GameDone
  <2>4. QED
    BY <1>3, <2>1, <2>3
<1>5. CASE ReadLegs(t)
  <2>1. UNCHANGED <<status, announced>>
    BY <1>5, Zenon DEF ReadLegs, ledger
  <2>2. \A legs : \A pc \in {"box", "grade"} : [job[t] EXCEPT !.pc = pc, !.legs = legs].pc = pc
    BY <1>1 DEF Job
  <2>3. \E pc \in {"box", "grade"} : \E legs : Become(t, [job[t] EXCEPT !.pc = pc, !.legs = legs])
    <3> DEFINE legs == {l \in Legs : Terms[l].game = job[t].game /\ legStatus[l] = "OPEN"}
    <3>1. \/ Become(t, [job[t] EXCEPT !.pc = "box", !.legs = legs])
          \/ Become(t, [job[t] EXCEPT !.pc = "grade", !.legs = legs])
      BY <1>5 DEF ReadLegs
    <3>2. QED
      BY <3>1, Zenon
  <2>4. QED
    BY <1>3, <2>1, <2>2, <2>3
<1>6. ASSUME NEW s \in Singles, GradeScoreBet(t, s) \/ GradeProp(t, s) PROVE Told'
  <2> DEFINE after == [job[t] EXCEPT !.bets = @ \ {s}]
  <2>1. after \in Job /\ after.pc = "grade" /\ s \in Rows
    BY <1>1, <1>6 DEF GradeScoreBet, GradeProp, Job, Rows
  <2>2. UNCHANGED announced
    BY <1>6 DEF GradeScoreBet, GradeProp
  <2>3. \/ (Become(t, Rest(t)) \/ Become(t, after)) /\ UNCHANGED status
        \/ \E grade \in Graded : ApplyGrade(t, s, grade, PricedOf(s, grade), after)
    BY <1>6 DEF GradeScoreBet, GradeProp
  <2> HIDE DEF after
  <2>4. \A grade : PricedOf(s, grade) \in SUBSET Selections
    BY DEF PricedOf, Selections
  <2>5. QED
    BY <1>2, <1>3, <2>1, <2>2, <2>3, <2>4, ApplyTells
<1>7. ASSUME NEW l \in Legs, GradeLeg(t, l) PROVE Told'
  <2> DEFINE after == [job[t] EXCEPT !.legs = @ \ {l}]
             owning == [after EXCEPT !.parents = @ \cup {ParentOf[l]}]
  <2>1. (Become(t, after) \/ Become(t, owning)) /\ UNCHANGED <<status, announced>>
    BY <1>7 DEF GradeLeg
  <2>2. after.pc = "grade" /\ owning.pc = "grade"
    BY <1>1, <1>7 DEF GradeLeg, Job
  <2> HIDE DEF after, owning
  <2>3. QED
    BY <1>3, <2>1, <2>2
<1>8. ASSUME NEW p \in Parlays, ReadParlay(t, p) PROVE Told'
  <2> DEFINE hand == {[row |-> p, grade |-> SettleParlay(Board(p)), won |-> WonLegs(Board(p))]}
             let_go == [job[t] EXCEPT !.parents = @ \ {p}]
             settle == [job[t] EXCEPT !.pc = "settle", !.hand = hand]
  <2>1. Become(t, let_go) \/ Become(t, settle)
    BY <1>8 DEF ReadParlay
  <2>2. UNCHANGED <<status, announced>>
    BY <1>8, Zenon DEF ReadParlay, ledger
  <2> HIDE DEF hand
  <2>3. let_go.pc = "grade" /\ settle.pc = "settle"
    BY <1>1, <1>8 DEF ReadParlay, Job
  <2> HIDE DEF let_go, settle
  <2>4. QED
    BY <1>3, <2>1, <2>2, <2>3
<1>9. CASE ApplyParlay(t)
  <2>1. PICK h \in job[t].hand :
          ApplyGrade(t, h.row, h.grade, h.won, [job[t] EXCEPT !.parents = @ \ {h.row}])
    BY <1>9 DEF ApplyParlay
  <2>2. [job[t] EXCEPT !.parents = @ \ {h.row}] \in Job /\ h \in Settlement
    BY <1>1 DEF Job
  <2>3. h.row \in Rows /\ h.grade \in Graded /\ h.won \in SUBSET Selections
    BY <2>2 DEF Settlement
  <2>4. UNCHANGED announced
    BY <1>9 DEF ApplyParlay
  <2>5. QED
    BY <2>1, <2>2, <2>3, <2>4, ApplyTells
<1>10. CASE CallFails(t)
  <2>1. [job[t] EXCEPT !.pc = "grade", !.hand = {}].pc = "grade"
    BY <1>1 DEF Job
  <2>2. QED
    BY <1>3, <1>10, <2>1 DEF CallFails, ledger
<1>11. CASE TaskFails(t)
  BY <1>2, <1>3, <1>11 DEF TaskFails, ledger
<1>12. QED
  BY <1>4, <1>5, <1>6, <1>7, <1>8, <1>9, <1>10, <1>11, PublishTells DEF Grade

LEMMA ToldNext ==
  Forcings \subseteq {FALSE} /\ TypeOK /\ Informed /\ Told /\ [Next]_vars => Told'
<1> SUFFICES ASSUME Forcings \subseteq {FALSE}, TypeOK, Informed, Told, [Next]_vars
             PROVE  Told'
  OBVIOUS
<1>1. \A t \in Tasks : ~job[t].force
  BY DEF Informed, JobInformed, TypeOK, Job
<1>2. \A t \in Tasks : Grade(t) \/ CallFails(t) \/ TaskFails(t) => Told'
  BY <1>1, GradeTells
<1>3. "subscriber" \in Tasks /\ "poller" \in Tasks /\ Requests \subseteq Tasks
  BY DEF Tasks, Graders
<1>4. CASE Environment \/ Faults \/ UNCHANGED vars
  BY <1>2, <1>4, OthersTell DEF Faults
<1>5. CASE Subscribe \/ Poll
  BY <1>2, <1>3, <1>5, EntryTells DEF Subscribe, Poll
<1>6. ASSUME NEW q \in Requests,
             (\E r \in Rows, force \in Forcings : Ask(q, r, force)) \/ Answer(q)
      PROVE  Told'
  BY <1>2, <1>3, <1>6, EntryTells DEF Answer
<1>7. QED
  BY <1>4, <1>5, <1>6 DEF Next

(***************************************************************************)
(* Without forced requests every row is announced on bet.graded at most    *)
(* once, and as the ledger has it: of the tasks that race for a row only   *)
(* the one whose claim succeeded publishes it, and a failure between the   *)
(* commit and the publication loses the event and never repeats it         *)
(* (apply_grade, publish_bet_graded).                                      *)
(***************************************************************************)
THEOREM RowsAreAnnouncedOnce == Spec => []AnnouncedAsGraded
<1> DEFINE Inv == /\ TypeOK /\ GameKnown /\ Informed
                  /\ Forcings \subseteq {FALSE} => Told
<1>1. Init => Told
  BY DEF Init, Told, Publishing, At
<1>2. Init => Inv
  BY <1>1, TypeInit, InformedInit DEF Init, GameKnown, At
<1>3. Inv /\ [Next]_vars => Inv'
  BY TypeNext, GameKnownNext, InformedNext, ToldNext
<1>4. Inv => AnnouncedAsGraded
  <2> SUFFICES ASSUME TypeOK, Told, NEW r \in Rows
               PROVE  /\ Len(announced[r]) <= 1
                      /\ \A i \in 1..Len(announced[r]) : announced[r][i] = status[r]
    BY DEF AnnouncedAsGraded
  <2>1. announced[r] = << >> \/ announced[r] = <<status[r]>>
    BY DEF Told
  <2>2. CASE announced[r] = << >>
    BY <2>2
  <2>3. CASE announced[r] = <<status[r]>>
    <3>1. Len(announced[r]) = 1 /\ announced[r][1] = status[r]
      BY <2>3
    <3>2. QED
      BY <3>1
  <2>4. QED
    BY <2>1, <2>2, <2>3
<1>5. QED
  BY <1>2, <1>3, <1>4, PTL DEF Spec
=============================================================================
