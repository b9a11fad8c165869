------------------------------ MODULE GradeTx -------------------------------
(***************************************************************************)
(* apply_grade statement by statement, and the bankroll that is read from  *)
(* what it commits.  A grader is one call of apply_grade; its transaction  *)
(* runs under READ COMMITTED: a statement sees what is committed when it   *)
(* starts and what its own transaction has written.  An UPDATE locks its   *)
(* row until the transaction ends, and one that finds the row locked waits *)
(* and then looks at the row again.                                        *)
(*                                                                         *)
(* status, grade and snapshots are the committed tables; what a            *)
(* transaction has written is in tx[g] until it commits.                   *)
(***************************************************************************)
EXTENDS Naturals, FiniteSets

CONSTANTS
  Bets,
  Graders,    \* calls of apply_grade
  CallOf,     \* the bet, the grade and the force of a call
  Together,   \* bound: the sets of calls that one behaviour may make
  DayLength,  \* instants in a day, and days in a week, of the charts
  WeekDays,
  Nobody

Grades == {"WON", "LOST", "PUSH", "VOID"}

ASSUME GradeTxAssumption ==
  /\ CallOf \in [Graders -> [bet : Bets, to : Grades, force : BOOLEAN]]
  /\ Together \subseteq SUBSET Graders
  /\ DayLength \in Nat \ {0} /\ WeekDays \in Nat \ {0}
  /\ Nobody \notin Graders

VARIABLES
  clock,      \* utc_now; it advances with every call that reads it
  status,     \* paper_bets.status, "NONE" while there is no row
  grade,      \* bet_grades: the grade and graded_at of a bet
  snapshots,  \* bankroll_snapshots
  lock,       \* who has locked the row of a bet
  tx,         \* what the transaction of a grader has read and written
  page,       \* what GET /bankroll has read
  raced       \* history: whether two gradings ever overlapped

tables == <<status, grade, snapshots, lock>>
vars == <<clock, status, grade, snapshots, lock, tx, page, raced>>

NoGrade == [to |-> "NONE", at |-> 0]
NoGrades == [b \in Bets |-> NoGrade]

\* What a reader of bet_grades has found for every bet; the sums over it
\* (bets, wins, losses, stakes, profit) are functions of it.
Tallies == [Bets -> [to : Grades \cup {"NONE"}, at : Nat]]
Counted(t) == {b \in Bets : t[b].to # "NONE"}

BetOf(g) == CallOf[g].bet
InTransaction == {"claim", "insert", "sum", "open", "commit"}
Holding == InTransaction \ {"claim"}

Transaction ==
  [pc : InTransaction \cup {"new", "done", "refused", "conflict", "failed"}, at : Nat,
   counted : Tallies, open : SUBSET Bets, before : SUBSET Bets]

Page ==
  [pc : {"profit", "latest", "count", "exposure", "done"}, counted : Tallies, asOf : Nat,
   open : SUBSET Bets, exposed : SUBSET Bets]

TypeOK ==
  /\ clock \in Nat
  /\ status \in [Bets -> {"NONE", "OPEN"} \cup Grades]
  /\ grade \in Tallies
  /\ snapshots \subseteq [bet : Bets, at : Nat, counted : Tallies, open : SUBSET Bets,
                          before : SUBSET Bets]
  /\ lock \in [Bets -> Graders \cup {Nobody}]
  /\ tx \in [Graders -> Transaction]
  /\ page \in Page
  /\ raced \in BOOLEAN
  /\ \A g \in Graders : lock[BetOf(g)] = g <=> tx[g].pc \in Holding

Init ==
  /\ clock = 0
  /\ status \in [Bets -> {"NONE", "OPEN"}]
  /\ grade = NoGrades
  /\ snapshots = {}
  /\ lock = [b \in Bets |-> Nobody]
  /\ tx = [g \in Graders |-> [pc |-> "new", at |-> 0, counted |-> NoGrades, open |-> {},
                              before |-> {}]]
  /\ page = [pc |-> "profit", counted |-> NoGrades, asOf |-> 0, open |-> {}, exposed |-> {}]
  /\ raced = FALSE

At(g, pc) == tx[g].pc = pc
Move(g, pc) == tx' = [tx EXCEPT ![g].pc = pc]

OpenBets == {b \in Bets : status[b] = "OPEN"}
Idle == \A g \in Graders : tx[g].pc \notin InTransaction
-----------------------------------------------------------------------------
(***************************************************************************)
(* apply_grade.                                                            *)
(***************************************************************************)

\* now is taken before the transaction begins.
Start(g) ==
  /\ At(g, "new")
  /\ \E calls \in Together : {g} \cup {h \in Graders : ~At(h, "new")} \subseteq calls
  /\ status[BetOf(g)] # "NONE"
  /\ clock' = clock + 1
  /\ tx' = [tx EXCEPT ![g].pc = "claim", ![g].at = clock', ![g].before = Counted(grade)]
  /\ raced' = (raced \/ ~Idle)
  /\ UNCHANGED <<tables, page>>

Takes(g) == CallOf[g].force \/ status[BetOf(g)] = "OPEN"

\* Mutant: the transaction stays open when there is nothing to grade.
Claim_NeverRefuses(g) ==
  /\ At(g, "claim")
  /\ lock[BetOf(g)] = Nobody
  /\ lock' = [lock EXCEPT ![BetOf(g)] = g]
  /\ Move(g, IF Takes(g) THEN "insert" ELSE "claim")
  /\ UNCHANGED <<clock, status, grade, snapshots, page, raced>>

\* Mutant: an UPDATE that has waited does not look at the row again.
Claim_NoRecheck(g) ==
  /\ At(g, "claim")
  /\ lock[BetOf(g)] = Nobody
  /\ IF CallOf[g].force \/ BetOf(g) \notin tx[g].before
     THEN Move(g, "insert") /\ lock' = [lock EXCEPT ![BetOf(g)] = g]
     ELSE Move(g, "refused") /\ UNCHANGED lock
  /\ UNCHANGED <<clock, status, grade, snapshots, page, raced>>

\* UPDATE paper_bets ... RETURNING: it waits for the lock only of a row that
\* it would take as the row is committed now.
Claim(g) ==
  /\ At(g, "claim")
  /\ IF Takes(g)
     THEN /\ lock[BetOf(g)] = Nobody
          /\ lock' = [lock EXCEPT ![BetOf(g)] = g]
          /\ Move(g, "insert")
     ELSE Move(g, "refused") /\ UNCHANGED lock
  /\ UNCHANGED <<clock, status, grade, snapshots, page, raced>>

\* What the transaction of a grader sees of the tables once it has written.
Written(g) == [to |-> CallOf[g].to, at |-> tx[g].at]
SeenStatus(g) == [status EXCEPT ![BetOf(g)] = CallOf[g].to]
SeenGrade(g) == [grade EXCEPT ![BetOf(g)] = Written(g)]

\* INSERT INTO bet_grades: bet_id is unique; by force the row is replaced.
InsertGrade(g) ==
  /\ At(g, "insert")
  /\ IF BetOf(g) \in Counted(grade) /\ ~CallOf[g].force
     THEN Move(g, "conflict") /\ lock' = [lock EXCEPT ![BetOf(g)] = Nobody]
     ELSE Move(g, "sum") /\ UNCHANGED lock
  /\ UNCHANGED <<clock, status, grade, snapshots, page, raced>>

\* SELECT count, sums FROM bet_grades JOIN paper_bets ...
SumGrades(g) ==
  /\ At(g, "sum")
  /\ tx' = [tx EXCEPT ![g].pc = "open", ![g].counted = SeenGrade(g)]
  /\ UNCHANGED <<clock, tables, page, raced>>

\* Mutant: the open bets are those of the claim.
CountOpen_WithOwn(g) ==
  /\ At(g, "open")
  /\ tx' = [tx EXCEPT ![g].pc = "commit", ![g].open = OpenBets]
  /\ UNCHANGED <<clock, tables, page, raced>>

\* ... and then, in a statement of its own, SELECT count ... status = 'OPEN'.
CountOpen(g) ==
  /\ At(g, "open")
  /\ tx' = [tx EXCEPT ![g].pc = "commit",
                      ![g].open = {b \in Bets : SeenStatus(g)[b] = "OPEN"}]
  /\ UNCHANGED <<clock, tables, page, raced>>

SnapshotOf(g) ==
  [bet |-> BetOf(g), at |-> tx[g].at, counted |-> tx[g].counted, open |-> tx[g].open,
   before |-> tx[g].before]

\* Mutant: on conflict do nothing, also by force.
Commit_KeepsGrade(g) ==
  /\ At(g, "commit")
  /\ status' = SeenStatus(g)
  /\ grade' = IF grade[BetOf(g)] = NoGrade THEN SeenGrade(g) ELSE grade
  /\ snapshots' = snapshots \cup {SnapshotOf(g)}
  /\ lock' = [lock EXCEPT ![BetOf(g)] = Nobody]
  /\ Move(g, "done")
  /\ UNCHANGED <<clock, page, raced>>

\* The snapshot is inserted and the transaction commits.
Commit(g) ==
  /\ At(g, "commit")
  /\ status' = SeenStatus(g)
  /\ grade' = SeenGrade(g)
  /\ snapshots' = snapshots \cup {SnapshotOf(g)}
  /\ lock' = [lock EXCEPT ![BetOf(g)] = Nobody]
  /\ Move(g, "done")
  /\ UNCHANGED <<clock, page, raced>>

\* The connection breaks, the task is cancelled or the process stops.
Abort(g) ==
  /\ tx[g].pc \in InTransaction
  /\ lock' = IF tx[g].pc \in Holding THEN [lock EXCEPT ![BetOf(g)] = Nobody] ELSE lock
  /\ Move(g, "failed")
  /\ UNCHANGED <<clock, status, grade, snapshots, page, raced>>

\* insert_idempotent of another task.
PlaceBet(b) ==
  /\ status[b] = "NONE"
  /\ status' = [status EXCEPT ![b] = "OPEN"]
  /\ UNCHANGED <<clock, grade, snapshots, lock, tx, page, raced>>
-----------------------------------------------------------------------------
(***************************************************************************)
(* GET /bankroll: BankrollService.current, four reads of their own.        *)
(***************************************************************************)

ReadProfit ==
  /\ page.pc = "profit"
  /\ page' = [page EXCEPT !.pc = "latest", !.counted = grade]
  /\ UNCHANGED <<clock, tables, tx, raced>>

Times == {s.at : s \in snapshots}
Newest == CHOOSE t \in Times : \A u \in Times : u <= t

\* latest_snapshot: the newest by its time, not by its commit.
ReadLatest ==
  /\ page.pc = "latest"
  /\ page' = [page EXCEPT !.pc = "count", !.asOf = IF snapshots = {} THEN 0 ELSE Newest]
  /\ UNCHANGED <<clock, tables, tx, raced>>

ReadCount ==
  /\ page.pc = "count"
  /\ page' = [page EXCEPT !.pc = "exposure", !.open = OpenBets]
  /\ UNCHANGED <<clock, tables, tx, raced>>

\* Mutant: the profit is read last.
ReadExposure_ProfitLast ==
  /\ page.pc = "exposure"
  /\ page' = [page EXCEPT !.pc = "done", !.exposed = OpenBets, !.counted = grade,
                          !.asOf = IF @ = 0 THEN clock ELSE @]
  /\ UNCHANGED <<clock, tables, tx, raced>>

\* open_exposure; without a snapshot the answer carries the time of day.
ReadExposure ==
  /\ page.pc = "exposure"
  /\ page' = [page EXCEPT !.pc = "done", !.exposed = OpenBets,
                          !.asOf = IF @ = 0 THEN clock ELSE @]
  /\ UNCHANGED <<clock, tables, tx, raced>>
-----------------------------------------------------------------------------
Grading(g) ==
  \/ Start(g)
  \/ Claim(g)
  \/ InsertGrade(g)
  \/ SumGrades(g)
  \/ CountOpen(g)
  \/ Commit(g)

Reading == ReadProfit \/ ReadLatest \/ ReadCount \/ ReadExposure

Next ==
  \/ \E g \in Graders : Grading(g) \/ Abort(g)
  \/ \E b \in Bets : PlaceBet(b)
  \/ Reading

Spec == Init /\ [][Next]_vars

\* A call that has begun goes on: the event loop runs what is ready, and the
\* database answers or the connection breaks.
FairSpec == Spec /\ \A g \in Graders : WF_vars(Grading(g) /\ ~At(g, "new"))
-----------------------------------------------------------------------------
(***************************************************************************)
(* BankrollService.history: per bet, or the last snapshot of every day or  *)
(* week, from some time on.                                                *)
(***************************************************************************)
Bucket(s, interval) ==
  IF interval = "weekly" THEN s.at \div (WeekDays * DayLength) ELSE s.at \div DayLength

\* Mutant: a bucket keeps its first snapshot.
Chart_KeepsFirst(interval, from) ==
  LET rows == {s \in snapshots : s.at >= from}
  IN  IF interval = "per_bet" THEN rows
      ELSE {s \in rows : \A r \in rows : Bucket(r, interval) = Bucket(s, interval) => r.at >= s.at}

Chart(interval, from) ==
  LET rows == {s \in snapshots : s.at >= from}
  IN  IF interval = "per_bet" THEN rows
      ELSE {s \in rows : \A r \in rows : Bucket(r, interval) = Bucket(s, interval) => r.at <= s.at}
-----------------------------------------------------------------------------
(***************************************************************************)
(* A bet is graded exactly when it has a grade, and it is the same one:    *)
(* the two tables that apply_grade writes never disagree, whoever grades   *)
(* by force and whatever breaks in between.                                *)
(***************************************************************************)
GradeFitsStatus ==
  \A b \in Bets : grade[b].to = IF status[b] \in Grades THEN status[b] ELSE "NONE"

(***************************************************************************)
(* A snapshot counts no bet as graded and as open, although the two are    *)
(* counted by statements that see different states of the tables.  It      *)
(* counts its own bet and every bet that was graded when its call began:   *)
(* it can only miss gradings that overlapped with it (apply_grade).        *)
(***************************************************************************)
SnapshotsCountOnce ==
  \A s \in snapshots :
    /\ Counted(s.counted) \cap s.open = {}
    /\ s.before \cup {s.bet} \subseteq Counted(s.counted)

(***************************************************************************)
(* Unless two gradings ever overlapped, every chart of the bankroll ends   *)
(* at the bankroll: its last point counts what bet_grades holds.  (After   *)
(* an overlap it need not, since snapshot_at is taken before the claim.)   *)
(***************************************************************************)
ChartsEndAtBankroll ==
  Idle /\ ~raced =>
    \A interval \in {"per_bet", "daily", "weekly"}, from \in 0..clock :
      LET points == Chart(interval, from)
          last == CHOOSE s \in points : \A r \in points : r.at <= s.at
      IN  points # {} => last.counted = grade

(***************************************************************************)
(* No answer of GET /bankroll counts a bet as graded and as open, and the  *)
(* time it shows is not earlier than that of any grade in its bankroll,    *)
(* though gradings commit between its four reads (BankrollService.current).*)
(***************************************************************************)
PageCountsOnce ==
  /\ Counted(page.counted) \cap (page.open \cup page.exposed) = {}
  /\ page.pc = "done" => \A b \in Counted(page.counted) : page.counted[b].at <= page.asOf

(***************************************************************************)
(* A call that has begun ends: it grades, finds nothing to grade or fails; *)
(* a transaction that waits for the row of another gets it in the end.     *)
(***************************************************************************)
GradingEnds ==
  \A g \in Graders : At(g, "claim") ~> tx[g].pc \in {"done", "refused", "conflict", "failed"}

\* What the call has returned or raised; a transaction broken off says nothing.
Told(g) ==
  CASE At(g, "done") -> "graded"
    [] At(g, "refused") -> "refused"
    [] At(g, "conflict") -> "IntegrityError"
    [] OTHER -> "none"

(***************************************************************************)
(* Each call of apply_grade is the single step that the other modules take *)
(* it for.  One without force grades its bet only if that is open, however *)
(* many race for the row ("only one grader wins"), is told False only of a *)
(* bet that is graded, and is never stopped by the unique key of           *)
(* bet_grades, which stands behind the claim; only a call with force       *)
(* grades a graded bet.  And the status changes together with one snapshot.*)
(***************************************************************************)
TheTally == INSTANCE Tally WITH Calls <- Graders, answer <- [g \in Graders |-> Told(g)]
ImplementsTally == TheTally!Spec
=============================================================================
