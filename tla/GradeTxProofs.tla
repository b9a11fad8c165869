--------------------------- MODULE GradeTxProofs ----------------------------
(***************************************************************************)
(* Theorems about GradeTx, for any bets, calls and interleavings.          *)
(***************************************************************************)
EXTENDS GradeTx, WellFoundedInduction, TLAPS

\* A grader that holds the row of its bet may grade it, and goes on to.
HoldsFit ==
  \A g \in Graders : /\ tx[g].pc \in InTransaction => status[BetOf(g)] # "NONE"
                     /\ tx[g].pc \in Holding => Takes(g)

\* The calls and the snapshots have times of their own.
Stamped ==
  /\ \A g \in Graders : tx[g].pc # "new" => tx[g].at >= 1 /\ tx[g].at <= clock
  /\ \A g, h \in Graders :
       g # h /\ tx[g].pc # "new" /\ tx[h].pc # "new" => tx[g].at # tx[h].at
  /\ \A s \in snapshots : \E h \in Graders : At(h, "done") /\ s.at = tx[h].at

LedgerInv == TypeOK /\ GradeFitsStatus /\ HoldsFit /\ Stamped

-----------------------------------------------------------------------------
LEMMA CallFacts ==
  ASSUME NEW g \in Graders
  PROVE  /\ BetOf(g) \in Bets /\ CallOf[g].to \in Grades /\ CallOf[g].force \in BOOLEAN
         /\ g # Nobody
BY GradeTxAssumption DEF BetOf

LEMMA InitTyped == Init => LedgerInv
<1> SUFFICES ASSUME Init PROVE LedgerInv
  OBVIOUS
<1>1. NoGrade \in [to : Grades \cup {"NONE"}, at : Nat] /\ NoGrades \in Tallies
  BY DEF NoGrade, NoGrades, Tallies
<1>2. TypeOK
  BY <1>1, CallFacts DEF Init, TypeOK, Holding, InTransaction, Transaction, Page
<1>3. GradeFitsStatus
  BY DEF Init, GradeFitsStatus, NoGrades, NoGrade, Grades
<1>4. HoldsFit /\ Stamped
  BY DEF Init, HoldsFit, Stamped, Holding, InTransaction
<1>5. QED
  BY <1>2, <1>3, <1>4 DEF LedgerInv

LEMMA Typed ==
  ASSUME LedgerInv
  PROVE  /\ tx \in [Graders -> Transaction]
         /\ grade \in Tallies /\ clock \in Nat
         /\ status \in [Bets -> {"NONE", "OPEN"} \cup Grades]
         /\ lock \in [Bets -> Graders \cup {Nobody}]
         /\ \A g \in Graders : lock[BetOf(g)] = g <=> tx[g].pc \in Holding
BY DEF LedgerInv, TypeOK

LEMMA SeenFacts ==
  ASSUME LedgerInv, NEW g \in Graders
  PROVE  /\ Written(g) \in [to : Grades \cup {"NONE"}, at : Nat]
         /\ Written(g).to = CallOf[g].to /\ Written(g).at = tx[g].at
         /\ SeenGrade(g) \in Tallies
         /\ SeenStatus(g) \in [Bets -> {"NONE", "OPEN"} \cup Grades]
         /\ SeenGrade(g)[BetOf(g)] = Written(g)
         /\ \A x \in Bets : x # BetOf(g) => SeenGrade(g)[x] = grade[x] /\ SeenStatus(g)[x] = status[x]
         /\ SeenStatus(g)[BetOf(g)] = CallOf[g].to
         /\ Counted(SeenGrade(g)) = Counted(grade) \cup {BetOf(g)}
<1>1. tx[g].at \in Nat
  BY Typed DEF Transaction
<1>2. /\ Written(g) \in [to : Grades \cup {"NONE"}, at : Nat] /\ Written(g).to \in Grades
      /\ Written(g).to = CallOf[g].to /\ Written(g).at = tx[g].at
  BY <1>1, CallFacts DEF Written
<1>3. SeenGrade(g) \in Tallies
  BY <1>2, CallFacts, Typed DEF Tallies, SeenGrade
<1>4. SeenStatus(g) \in [Bets -> {"NONE", "OPEN"} \cup Grades]
  BY CallFacts, Typed DEF SeenStatus
<1>5. SeenGrade(g)[BetOf(g)] = Written(g) /\ SeenStatus(g)[BetOf(g)] = CallOf[g].to
  BY CallFacts, Typed DEF Tallies, SeenGrade, SeenStatus
<1>6. ASSUME NEW x \in Bets, x # BetOf(g)
      PROVE  SeenGrade(g)[x] = grade[x] /\ SeenStatus(g)[x] = status[x]
  BY <1>6, CallFacts, Typed DEF Tallies, SeenGrade, SeenStatus
<1>7. Counted(SeenGrade(g)) = Counted(grade) \cup {BetOf(g)}
  BY <1>2, <1>5, <1>6, CallFacts DEF Counted, Grades
<1>8. QED
  BY <1>2, <1>3, <1>4, <1>5, <1>6, <1>7

-----------------------------------------------------------------------------
(***************************************************************************)
(* What the steps of a call change, without the EXCEPTs.                   *)
(***************************************************************************)
States == InTransaction \cup {"new", "done", "refused", "conflict", "failed"}

\* Only the transaction of g changes, and goes on to pc.
Moves(g, pc) ==
  /\ tx' \in [Graders -> Transaction]
  /\ tx'[g].pc = pc
  /\ \A h \in Graders : h # g => tx'[h] = tx[h]

LEMMA MoveFacts ==
  ASSUME LedgerInv, NEW g \in Graders, NEW pc \in States, Move(g, pc)
  PROVE  /\ Moves(g, pc)
         /\ tx'[g].at = tx[g].at /\ tx'[g].before = tx[g].before
         /\ tx'[g].counted = tx[g].counted /\ tx'[g].open = tx[g].open
BY Typed DEF Move, Moves, States, Transaction

\* What the steps write into the record of a transaction.
LEMMA Writes ==
  ASSUME NEW r \in Transaction, NEW at \in Nat, NEW before \in SUBSET Bets,
         NEW counted \in Tallies, NEW open \in SUBSET Bets
  PROVE  /\ [r EXCEPT !.pc = "claim", !.at = at, !.before = before] \in Transaction
         /\ [r EXCEPT !.pc = "open", !.counted = counted] \in Transaction
         /\ [r EXCEPT !.pc = "commit", !.open = open] \in Transaction
<1>1. [r EXCEPT !.pc = "claim", !.at = at, !.before = before] \in Transaction
  BY DEF Transaction, InTransaction
<1>2. [r EXCEPT !.pc = "open", !.counted = counted] \in Transaction
  BY DEF Transaction, InTransaction
<1>3. [r EXCEPT !.pc = "commit", !.open = open] \in Transaction
  BY DEF Transaction, InTransaction
<1>4. QED
  BY <1>1, <1>2, <1>3

LEMMA StartFacts ==
  ASSUME LedgerInv, NEW g \in Graders, Start(g)
  PROVE  /\ Moves(g, "claim")
         /\ tx'[g].at = clock + 1 /\ tx'[g].before = Counted(grade)
<1>1. ASSUME NEW at \in Nat, NEW before \in SUBSET Bets,
             tx' = [tx EXCEPT ![g].pc = "claim", ![g].at = at, ![g].before = before]
      PROVE  Moves(g, "claim") /\ tx'[g].at = at /\ tx'[g].before = before
  <2>1. [tx[g] EXCEPT !.pc = "claim", !.at = at, !.before = before] \in Transaction
    BY <1>1, Typed, Writes
  <2>2. tx' \in [Graders -> Transaction] /\ \A h \in Graders : h # g => tx'[h] = tx[h]
    BY <1>1, <2>1, Typed
  <2>3. tx'[g] = [tx[g] EXCEPT !.pc = "claim", !.at = at, !.before = before]
    BY <1>1, Typed
  <2>4. QED
    BY <2>1, <2>2, <2>3, Typed DEF Moves, Transaction
<1>2. Counted(grade) \in SUBSET Bets /\ clock + 1 \in Nat
  BY Typed DEF Counted
<1>3. QED
  BY <1>1, <1>2 DEF Start

LEMMA SumFacts ==
  ASSUME LedgerInv, NEW g \in Graders, SumGrades(g)
  PROVE  /\ Moves(g, "open")
         /\ tx'[g].counted = SeenGrade(g)
         /\ tx'[g].at = tx[g].at /\ tx'[g].before = tx[g].before
<1>1. ASSUME NEW counted \in Tallies,
             tx' = [tx EXCEPT ![g].pc = "open", ![g].counted = counted]
      PROVE  /\ Moves(g, "open") /\ tx'[g].counted = counted
             /\ tx'[g].at = tx[g].at /\ tx'[g].before = tx[g].before
  <2>1. [tx[g] EXCEPT !.pc = "open", !.counted = counted] \in Transaction
    BY <1>1, Typed, Writes
  <2>2. tx' \in [Graders -> Transaction] /\ \A h \in Graders : h # g => tx'[h] = tx[h]
    BY <1>1, <2>1, Typed
  <2>3. tx'[g] = [tx[g] EXCEPT !.pc = "open", !.counted = counted]
    BY <1>1, Typed
  <2>4. QED
    BY <2>1, <2>2, <2>3, Typed DEF Moves, Transaction
<1>2. QED
  BY <1>1, SeenFacts DEF SumGrades

LEMMA CountFacts ==
  ASSUME LedgerInv, NEW g \in Graders, CountOpen(g)
  PROVE  /\ Moves(g, "commit")
         /\ tx'[g].open = {b \in Bets : SeenStatus(g)[b] = "OPEN"}
         /\ tx'[g].counted = tx[g].counted
         /\ tx'[g].at = tx[g].at /\ tx'[g].before = tx[g].before
<1>1. ASSUME NEW open \in SUBSET Bets,
             tx' = [tx EXCEPT ![g].pc = "commit", ![g].open = open]
      PROVE  /\ Moves(g, "commit") /\ tx'[g].open = open /\ tx'[g].counted = tx[g].counted
             /\ tx'[g].at = tx[g].at /\ tx'[g].before = tx[g].before
  <2>1. [tx[g] EXCEPT !.pc = "commit", !.open = open] \in Transaction
    BY <1>1, Typed, Writes
  <2>2. tx' \in [Graders -> Transaction] /\ \A h \in Graders : h # g => tx'[h] = tx[h]
    BY <1>1, <2>1, Typed
  <2>3. tx'[g] = [tx[g] EXCEPT !.pc = "commit", !.open = open]
    BY <1>1, Typed
  <2>4. QED
    BY <2>1, <2>2, <2>3, Typed DEF Moves, Transaction
<1>2. {b \in Bets : SeenStatus(g)[b] = "OPEN"} \in SUBSET Bets
  OBVIOUS
<1>3. QED
  BY <1>1, <1>2 DEF CountOpen

-----------------------------------------------------------------------------
(***************************************************************************)
(* The row lock.                                                           *)
(***************************************************************************)
Locks == \A g \in Graders : lock[BetOf(g)] = g <=> tx[g].pc \in Holding

LEMMA LockTaken ==
  ASSUME LedgerInv, NEW g \in Graders, Moves(g, "insert"), lock[BetOf(g)] = Nobody,
         lock' = [lock EXCEPT ![BetOf(g)] = g]
  PROVE  lock' \in [Bets -> Graders \cup {Nobody}] /\ Locks'
<1>1. lock' \in [Bets -> Graders \cup {Nobody}]
  BY Typed, CallFacts
<1>2. ASSUME NEW h \in Graders PROVE lock'[BetOf(h)] = h <=> tx'[h].pc \in Holding
  <2>1. CASE h = g
    BY <2>1, Typed, CallFacts DEF Moves, Holding, InTransaction
  <2>2. CASE h # g /\ BetOf(h) = BetOf(g)
    BY <2>2, Typed, CallFacts DEF Moves
  <2>3. CASE h # g /\ BetOf(h) # BetOf(g)
    BY <2>3, Typed, CallFacts DEF Moves
  <2>4. QED
    BY <2>1, <2>2, <2>3
<1>3. Locks'
  BY <1>2 DEF Locks, BetOf
<1>4. QED
  BY <1>1, <1>3

LEMMA LockReleased ==
  ASSUME LedgerInv, NEW g \in Graders, NEW pc \in States \ Holding, Moves(g, pc),
         tx[g].pc \in Holding, lock' = [lock EXCEPT ![BetOf(g)] = Nobody]
  PROVE  lock' \in [Bets -> Graders \cup {Nobody}] /\ Locks'
<1>1. lock' \in [Bets -> Graders \cup {Nobody}]
  BY Typed, CallFacts
<1>2. ASSUME NEW h \in Graders PROVE lock'[BetOf(h)] = h <=> tx'[h].pc \in Holding
  <2>1. CASE h = g
    BY <2>1, Typed, CallFacts DEF Moves
  <2>2. CASE h # g /\ BetOf(h) = BetOf(g)
    BY <2>2, Typed, CallFacts DEF Moves
  <2>3. CASE h # g /\ BetOf(h) # BetOf(g)
    BY <2>3, Typed, CallFacts DEF Moves
  <2>4. QED
    BY <2>1, <2>2, <2>3
<1>3. Locks'
  BY <1>2 DEF Locks, BetOf
<1>4. QED
  BY <1>1, <1>3

LEMMA LockStays ==
  ASSUME LedgerInv, NEW g \in Graders, NEW pc, Moves(g, pc),
         pc \in Holding <=> tx[g].pc \in Holding, UNCHANGED lock
  PROVE  lock' \in [Bets -> Graders \cup {Nobody}] /\ Locks'
BY Typed DEF Moves, Locks

(***************************************************************************)
(* A step of a call which is not its first and not its commit.             *)
(***************************************************************************)
Works(g, pc) ==
  /\ tx[g].pc \in InTransaction /\ Moves(g, pc)
  /\ tx'[g].at = tx[g].at /\ tx'[g].before = tx[g].before
  /\ lock' \in [Bets -> Graders \cup {Nobody}] /\ Locks'
  /\ pc \in Holding => Takes(g)
  /\ UNCHANGED <<clock, status, grade, snapshots, page, raced>>

LEMMA WorkKeeps ==
  ASSUME LedgerInv, NEW g \in Graders, NEW pc \in States \ {"new", "done"}, Works(g, pc)
  PROVE  LedgerInv'
<1>1. TypeOK'
  BY DEF LedgerInv, TypeOK, Works, Moves, Locks
<1>2. GradeFitsStatus'
  BY DEF LedgerInv, GradeFitsStatus, Works
<1>3. HoldsFit'
  <2> SUFFICES ASSUME NEW h \in Graders
               PROVE  /\ tx'[h].pc \in InTransaction => status'[BetOf(h)] # "NONE"
                      /\ tx'[h].pc \in Holding => Takes(h)'
    BY DEF HoldsFit, BetOf
  <2>1. Takes(h)' = Takes(h) /\ status' = status
    BY DEF Works, Takes, BetOf
  <2>2. CASE h = g
    BY <2>1, <2>2 DEF LedgerInv, HoldsFit, Works, Moves, Holding, InTransaction
  <2>3. CASE h # g
    BY <2>1, <2>3 DEF LedgerInv, HoldsFit, Works, Moves
  <2>4. QED
    BY <2>2, <2>3
<1>4. Stamped'
  <2>1. \A h \in Graders : /\ tx'[h].at = tx[h].at
                           /\ tx'[h].pc # "new" => tx[h].pc # "new"
                           /\ tx[h].pc = "done" => tx'[h].pc = "done"
    BY DEF Works, Moves, InTransaction
  <2>2. clock' = clock /\ snapshots' = snapshots
    BY DEF Works
  <2>3. QED
    BY <2>1, <2>2 DEF LedgerInv, Stamped, At
<1>5. QED
  BY <1>1, <1>2, <1>3, <1>4 DEF LedgerInv

LEMMA ClaimWorks ==
  ASSUME LedgerInv, NEW g \in Graders, Claim(g)
  PROVE  \E pc \in {"insert", "refused"} : Works(g, pc)
<1>1. tx[g].pc = "claim"
  BY DEF Claim, At
<1>2. CASE Takes(g)
  <2>1. Moves(g, "insert") /\ tx'[g].at = tx[g].at /\ tx'[g].before = tx[g].before
    BY <1>2, MoveFacts DEF Claim, States, InTransaction
  <2>2. lock' \in [Bets -> Graders \cup {Nobody}] /\ Locks'
    BY <1>2, <2>1, LockTaken DEF Claim
  <2>3. QED
    BY <1>1, <1>2, <2>1, <2>2 DEF Works, Claim, InTransaction
<1>3. CASE ~Takes(g)
  <2>1. Moves(g, "refused") /\ tx'[g].at = tx[g].at /\ tx'[g].before = tx[g].before
    BY <1>3, MoveFacts DEF Claim, States
  <2>2. lock' \in [Bets -> Graders \cup {Nobody}] /\ Locks'
    BY <1>1, <1>3, <2>1, LockStays DEF Claim, Holding, InTransaction
  <2>3. QED
    BY <1>1, <1>3, <2>1, <2>2 DEF Works, Claim, Holding, InTransaction
<1>4. QED
  BY <1>2, <1>3

\* Who may grade a bet meets no other grade of it, or replaces it.
LEMMA InsertWorks ==
  ASSUME LedgerInv, NEW g \in Graders, InsertGrade(g)
  PROVE  Works(g, "sum")
<1>1. tx[g].pc = "insert" /\ Takes(g)
  BY DEF InsertGrade, At, LedgerInv, HoldsFit, Holding, InTransaction
<1>2. BetOf(g) \notin Counted(grade) \/ CallOf[g].force
  <2>1. status[BetOf(g)] = "OPEN" => grade[BetOf(g)].to = "NONE"
    BY CallFacts DEF LedgerInv, GradeFitsStatus, Grades
  <2>2. QED
    BY <1>1, <2>1 DEF Takes, Counted
<1>3. Move(g, "sum") /\ UNCHANGED lock
  BY <1>2 DEF InsertGrade
<1>4. Moves(g, "sum") /\ tx'[g].at = tx[g].at /\ tx'[g].before = tx[g].before
  BY <1>3, MoveFacts DEF States, InTransaction
<1>5. lock' \in [Bets -> Graders \cup {Nobody}] /\ Locks'
  BY <1>1, <1>3, <1>4, LockStays DEF Holding, InTransaction
<1>6. QED
  BY <1>1, <1>4, <1>5 DEF Works, InsertGrade, InTransaction

LEMMA SumWorks ==
  ASSUME LedgerInv, NEW g \in Graders, SumGrades(g)
  PROVE  Works(g, "open") /\ tx'[g].counted = SeenGrade(g)
<1>1. tx[g].pc = "sum" /\ Takes(g)
  BY DEF SumGrades, At, LedgerInv, HoldsFit, Holding, InTransaction
<1>2. lock' \in [Bets -> Graders \cup {Nobody}] /\ Locks'
  BY <1>1, SumFacts, LockStays DEF SumGrades, tables, Holding, InTransaction
<1>3. QED
  BY <1>1, <1>2, SumFacts DEF Works, SumGrades, tables, InTransaction

LEMMA CountWorks ==
  ASSUME LedgerInv, NEW g \in Graders, CountOpen(g)
  PROVE  /\ Works(g, "commit") /\ tx'[g].counted = tx[g].counted
         /\ tx'[g].open = {b \in Bets : SeenStatus(g)[b] = "OPEN"}
<1>1. tx[g].pc = "open" /\ Takes(g)
  BY DEF CountOpen, At, LedgerInv, HoldsFit, Holding, InTransaction
<1>2. lock' \in [Bets -> Graders \cup {Nobody}] /\ Locks'
  BY <1>1, CountFacts, LockStays DEF CountOpen, tables, Holding, InTransaction
<1>3. QED
  BY <1>1, <1>2, CountFacts DEF Works, CountOpen, tables, InTransaction

LEMMA AbortWorks ==
  ASSUME LedgerInv, NEW g \in Graders, Abort(g)
  PROVE  Works(g, "failed")
<1>1. Moves(g, "failed") /\ tx'[g].at = tx[g].at /\ tx'[g].before = tx[g].before
  BY MoveFacts DEF Abort, States
<1>2. CASE tx[g].pc \in Holding
  BY <1>1, <1>2, LockReleased DEF Works, Abort, States, Holding, InTransaction
<1>3. CASE tx[g].pc \notin Holding
  BY <1>1, <1>3, LockStays DEF Works, Abort, States, Holding, InTransaction
<1>4. QED
  BY <1>2, <1>3

LEMMA StartKeeps ==
  ASSUME LedgerInv, NEW g \in Graders, Start(g)
  PROVE  LedgerInv'
<1>1. /\ Moves(g, "claim") /\ tx[g].pc = "new" /\ tx'[g].at = clock + 1
      /\ clock' = clock + 1 /\ UNCHANGED <<tables, page>>
  BY StartFacts DEF Start, At
<1>2. lock' \in [Bets -> Graders \cup {Nobody}] /\ Locks'
  BY <1>1, LockStays DEF tables, Holding, InTransaction
<1>3. TypeOK'
  <2>1. raced' \in BOOLEAN
    BY DEF LedgerInv, TypeOK, Start
  <2>2. QED
    BY <1>1, <1>2, <2>1, Typed DEF LedgerInv, TypeOK, Moves, Locks, tables
<1>4. GradeFitsStatus'
  BY <1>1 DEF LedgerInv, GradeFitsStatus, tables
<1>5. HoldsFit'
  <2> SUFFICES ASSUME NEW h \in Graders
               PROVE  /\ tx'[h].pc \in InTransaction => status'[BetOf(h)] # "NONE"
                      /\ tx'[h].pc \in Holding => Takes(h)'
    BY DEF HoldsFit, BetOf
  <2>1. Takes(h)' = Takes(h) /\ status' = status
    BY <1>1 DEF tables, Takes, BetOf
  <2>2. CASE h = g
    BY <1>1, <2>1, <2>2 DEF Start, Moves, Holding, InTransaction
  <2>3. CASE h # g
    BY <1>1, <2>1, <2>3 DEF LedgerInv, HoldsFit, Moves
  <2>4. QED
    BY <2>2, <2>3
<1>6. Stamped'
  <2>1. \A h \in Graders : tx'[h].pc # "new" => tx'[h].at >= 1 /\ tx'[h].at <= clock'
    BY <1>1, Typed DEF LedgerInv, Stamped, Moves, Transaction
  <2>2. ASSUME NEW h \in Graders, NEW k \in Graders, h # k, tx'[h].pc # "new", tx'[k].pc # "new"
        PROVE  tx'[h].at # tx'[k].at
    BY <1>1, <2>2, Typed DEF LedgerInv, Stamped, Moves, Transaction
  <2>3. ASSUME NEW r \in snapshots PROVE \E h \in Graders : tx'[h].pc = "done" /\ r.at = tx'[h].at
    BY <1>1 DEF LedgerInv, Stamped, Moves, At
  <2>4. QED
    BY <1>1, <2>1, <2>2, <2>3 DEF Stamped, At, tables
<1>7. QED
  BY <1>3, <1>4, <1>5, <1>6 DEF LedgerInv

-----------------------------------------------------------------------------
(***************************************************************************)
(* A bounded set of times has a last one: the differences to the bound     *)
(* have a smallest, since < is well-founded on the naturals.               *)
(***************************************************************************)
LEMMA HasLargest ==
  ASSUME NEW S, S \subseteq Nat, S # {}, NEW n \in Nat, \A x \in S : x <= n
  PROVE  \E m \in S : \A x \in S : x <= m
<1> DEFINE Gaps == {n - x : x \in S}
<1>1. PICK a \in S : TRUE
  OBVIOUS
<1>2. Gaps \subseteq Nat /\ Gaps # {}
  <2>1. \A x \in S : n - x \in Nat
    OBVIOUS
  <2>2. n - a \in Gaps
    OBVIOUS
  <2>3. QED
    BY <2>1, <2>2
<1>3. PICK d \in Gaps : \A y \in Gaps : <<y, d>> \notin OpToRel(<, Nat)
  <2> HIDE DEF Gaps
  <2> QED
    BY <1>2, WFMin, NatLessThanWellFounded, Zenon
<1>4. \A y \in Gaps : ~(y < d)
  <2> HIDE DEF Gaps
  <2> QED
    BY <1>2, <1>3, Zenon DEF OpToRel
<1>5. PICK m \in S : d = n - m
  OBVIOUS
<1>6. ASSUME NEW x \in S PROVE x <= m
  <2>1. n - x \in Gaps
    OBVIOUS
  <2>2. ~(n - x < d)
    BY <2>1, <1>4
  <2>3. QED
    BY <2>2, <1>5
<1>7. QED
  BY <1>6

LEMMA NewestFacts ==
  ASSUME LedgerInv, snapshots # {}
  PROVE  Newest \in Times /\ Newest \in Nat /\ \A t \in Times : t <= Newest
<1>1. Times \subseteq Nat /\ Times # {}
  BY DEF LedgerInv, TypeOK, Times
<1>2. \A t \in Times : t <= clock
  BY DEF LedgerInv, Stamped, At, Times
<1>3. \E m \in Times : \A t \in Times : t <= m
  BY <1>1, <1>2, Typed, HasLargest
<1>4. QED
  BY <1>1, <1>3 DEF Newest

LEMMA CommitKeeps ==
  ASSUME LedgerInv, NEW g \in Graders, Commit(g)
  PROVE  LedgerInv'
<1>1. /\ tx[g].pc = "commit" /\ Moves(g, "done") /\ tx'[g].at = tx[g].at
      /\ grade' = SeenGrade(g) /\ status' = SeenStatus(g)
      /\ UNCHANGED <<clock, page, raced>>
  BY MoveFacts DEF Commit, At, States
<1>2. lock' \in [Bets -> Graders \cup {Nobody}] /\ Locks'
  BY <1>1, LockReleased DEF Commit, States, Holding, InTransaction
<1>3. TypeOK'
  <2>1. SnapshotOf(g) \in [bet : Bets, at : Nat, counted : Tallies, open : SUBSET Bets,
                           before : SUBSET Bets]
    BY Typed, CallFacts DEF SnapshotOf, Transaction
  <2>2. snapshots' \subseteq [bet : Bets, at : Nat, counted : Tallies, open : SUBSET Bets,
                              before : SUBSET Bets]
    BY <2>1 DEF Commit, LedgerInv, TypeOK
  <2>3. QED
    BY <1>1, <1>2, <2>2, SeenFacts DEF LedgerInv, TypeOK, Moves, Locks
<1>4. GradeFitsStatus'
  <2> SUFFICES ASSUME NEW b \in Bets
               PROVE  SeenGrade(g)[b].to = IF SeenStatus(g)[b] \in Grades THEN SeenStatus(g)[b] ELSE "NONE"
    BY <1>1 DEF GradeFitsStatus
  <2>1. CASE b = BetOf(g)
    BY <2>1, SeenFacts, CallFacts
  <2>2. CASE b # BetOf(g)
    BY <2>2, SeenFacts DEF LedgerInv, GradeFitsStatus
  <2>3. QED
    BY <2>1, <2>2
<1>5. HoldsFit'
  <2> SUFFICES ASSUME NEW h \in Graders
               PROVE  /\ tx'[h].pc \in InTransaction => status'[BetOf(h)] # "NONE"
                      /\ tx'[h].pc \in Holding => CallOf[h].force \/ status'[BetOf(h)] = "OPEN"
    BY DEF HoldsFit, Takes, BetOf
  <2>1. CASE h = g
    BY <1>1, <2>1 DEF Moves, Holding, InTransaction
  <2>2. CASE h # g /\ BetOf(h) = BetOf(g)
    <3>1. tx'[h].pc \notin Holding
      BY <1>1, <2>2, Typed DEF Moves, Holding, InTransaction
    <3>2. status'[BetOf(h)] \in Grades
      BY <1>1, <2>2, SeenFacts, CallFacts
    <3>3. QED
      BY <3>1, <3>2 DEF Grades
  <2>3. CASE h # g /\ BetOf(h) # BetOf(g)
    <3>1. status'[BetOf(h)] = status[BetOf(h)] /\ tx'[h] = tx[h]
      BY <1>1, <2>3, SeenFacts, CallFacts DEF Moves
    <3>2. QED
      BY <3>1 DEF LedgerInv, HoldsFit, Takes
  <2>4. QED
    BY <2>1, <2>2, <2>3
<1>6. Stamped'
  <2>1. \A h \in Graders : /\ tx'[h].at = tx[h].at
                           /\ tx'[h].pc # "new" => tx[h].pc # "new"
                           /\ tx[h].pc = "done" => tx'[h].pc = "done"
    BY <1>1 DEF Moves
  <2>2. ASSUME NEW r \in snapshots' PROVE \E h \in Graders : tx'[h].pc = "done" /\ r.at = tx'[h].at
    <3>1. CASE r \in snapshots
      BY <2>1, <3>1 DEF LedgerInv, Stamped, At
    <3>2. CASE r = SnapshotOf(g)
      BY <1>1, <3>2 DEF SnapshotOf, Moves
    <3>3. QED
      BY <3>1, <3>2 DEF Commit
  <2>3. QED
    BY <1>1, <2>1, <2>2 DEF LedgerInv, Stamped, At
<1>7. QED
  BY <1>3, <1>4, <1>5, <1>6 DEF LedgerInv

LEMMA PlaceKeeps ==
  ASSUME LedgerInv, NEW b \in Bets, PlaceBet(b)
  PROVE  LedgerInv'
<1>1. /\ status[b] = "NONE" /\ status' = [status EXCEPT ![b] = "OPEN"]
      /\ UNCHANGED <<clock, grade, snapshots, lock, tx, page, raced>>
  BY DEF PlaceBet
<1>2. status' \in [Bets -> {"NONE", "OPEN"} \cup Grades]
  BY <1>1, Typed
<1>3. TypeOK'
  BY <1>1, <1>2 DEF LedgerInv, TypeOK
<1>4. GradeFitsStatus'
  BY <1>1, Typed DEF LedgerInv, GradeFitsStatus, Grades
<1>5. HoldsFit'
  <2>1. \A h \in Graders : /\ status'[BetOf(h)] # "NONE" \/ status[BetOf(h)] = "NONE"
                           /\ status[BetOf(h)] = "OPEN" => status'[BetOf(h)] = "OPEN"
    BY <1>1, Typed, CallFacts
  <2>2. QED
    BY <1>1, <2>1 DEF LedgerInv, HoldsFit, Takes, BetOf
<1>6. Stamped'
  BY <1>1 DEF LedgerInv, Stamped, At
<1>7. QED
  BY <1>3, <1>4, <1>5, <1>6 DEF LedgerInv

\* What the reads of GET /bankroll change of the page.
LEMMA PageFacts ==
  ASSUME LedgerInv, Reading
  PROVE  /\ page' \in Page /\ UNCHANGED <<clock, tables, tx, raced>>
         /\ \/ /\ page.pc = "profit" /\ page'.pc = "latest"
               /\ page'.counted = grade /\ page'.open = page.open /\ page'.exposed = page.exposed
            \/ /\ page.pc = "latest" /\ page'.pc = "count"
               /\ page'.asOf = IF snapshots = {} THEN 0 ELSE Newest
               /\ page'.counted = page.counted
               /\ page'.open = page.open /\ page'.exposed = page.exposed
            \/ /\ page.pc = "count" /\ page'.pc = "exposure" /\ page'.asOf = page.asOf
               /\ page'.counted = page.counted
               /\ page'.open = OpenBets /\ page'.exposed = page.exposed
            \/ /\ page.pc = "exposure" /\ page'.pc = "done"
               /\ page'.asOf = IF page.asOf = 0 THEN clock ELSE page.asOf
               /\ page'.counted = page.counted
               /\ page'.open = page.open /\ page'.exposed = OpenBets
<1>1. page \in Page /\ OpenBets \in SUBSET Bets
  BY DEF LedgerInv, TypeOK, OpenBets
<1>2. CASE ReadProfit
  <2>1. ASSUME NEW t \in Tallies, page' = [page EXCEPT !.pc = "latest", !.counted = t]
        PROVE  page' \in Page /\ page'.pc = "latest" /\ page'.counted = t
               /\ page'.open = page.open /\ page'.exposed = page.exposed
    BY <1>1, <2>1 DEF Page
  <2>2. QED
    BY <1>2, <2>1, Typed DEF ReadProfit
<1>3. CASE ReadLatest
  <2>1. ASSUME NEW n \in Nat, page' = [page EXCEPT !.pc = "count", !.asOf = n]
        PROVE  page' \in Page /\ page'.pc = "count" /\ page'.asOf = n
               /\ page'.counted = page.counted
               /\ page'.open = page.open /\ page'.exposed = page.exposed
    BY <1>1, <2>1 DEF Page
  <2>2. (IF snapshots = {} THEN 0 ELSE Newest) \in Nat
    BY NewestFacts
  <2>3. QED
    BY <1>3, <2>1, <2>2 DEF ReadLatest
<1>4. CASE ReadCount
  <2>1. ASSUME NEW B \in SUBSET Bets, page' = [page EXCEPT !.pc = "exposure", !.open = B]
        PROVE  page' \in Page /\ page'.pc = "exposure" /\ page'.asOf = page.asOf
               /\ page'.counted = page.counted
               /\ page'.open = B /\ page'.exposed = page.exposed
    BY <1>1, <2>1 DEF Page
  <2>2. QED
    BY <1>1, <1>4, <2>1 DEF ReadCount
<1>5. CASE ReadExposure
  <2>1. ASSUME NEW B \in SUBSET Bets, NEW n \in Nat,
               page' = [page EXCEPT !.pc = "done", !.exposed = B, !.asOf = n]
        PROVE  page' \in Page /\ page'.pc = "done" /\ page'.asOf = n
               /\ page'.counted = page.counted
               /\ page'.open = page.open /\ page'.exposed = B
    BY <1>1, <2>1 DEF Page
  <2>2. (IF page.asOf = 0 THEN clock ELSE page.asOf) \in Nat
    BY <1>1, Typed DEF Page
  <2>3. page' = [page EXCEPT !.pc = "done", !.exposed = OpenBets,
                             !.asOf = IF page.asOf = 0 THEN clock ELSE page.asOf]
    BY <1>1, <1>5 DEF ReadExposure, Page
  <2>4. QED
    BY <1>1, <1>5, <2>1, <2>2, <2>3 DEF ReadExposure
<1>6. QED
  BY <1>2, <1>3, <1>4, <1>5 DEF Reading

LEMMA ReadKeeps ==
  ASSUME LedgerInv, Reading
  PROVE  LedgerInv'
<1>1. page' \in Page /\ UNCHANGED <<clock, tables, tx, raced>>
  BY PageFacts
<1>2. TypeOK'
  BY <1>1 DEF LedgerInv, TypeOK, tables
<1>3. GradeFitsStatus' /\ HoldsFit' /\ Stamped'
  BY <1>1 DEF LedgerInv, GradeFitsStatus, HoldsFit, Stamped, Takes, BetOf, At, tables
<1>4. QED
  BY <1>2, <1>3 DEF LedgerInv

LEMMA LedgerStep == LedgerInv /\ [Next]_vars => LedgerInv'
<1> SUFFICES ASSUME LedgerInv, [Next]_vars PROVE LedgerInv'
  OBVIOUS
<1>1. ASSUME NEW g \in Graders, Start(g) \/ Commit(g) PROVE LedgerInv'
  BY <1>1, StartKeeps, CommitKeeps
<1>2. ASSUME NEW g \in Graders,
             Claim(g) \/ InsertGrade(g) \/ SumGrades(g) \/ CountOpen(g) \/ Abort(g)
      PROVE  LedgerInv'
  <2>1. \E pc \in {"insert", "sum", "open", "commit", "refused", "failed"} : Works(g, pc)
    BY <1>2, ClaimWorks, InsertWorks, SumWorks, CountWorks, AbortWorks
  <2>2. QED
    BY <2>1, WorkKeeps DEF States, InTransaction
<1>3. CASE UNCHANGED vars
  BY <1>3 DEF vars, LedgerInv, TypeOK, GradeFitsStatus, HoldsFit, Stamped, Takes, BetOf, At
<1>4. QED
  BY <1>1, <1>2, <1>3, PlaceKeeps, ReadKeeps DEF Next, Grading

(***************************************************************************)
(* The status and the grade of a bet never disagree, for any calls that    *)
(* race, force and fail (apply_grade), and a locked row has one holder.    *)
(***************************************************************************)
THEOREM StatusAndGradeAgree == Spec => [](TypeOK /\ GradeFitsStatus)
<1>1. LedgerInv => TypeOK /\ GradeFitsStatus
  BY DEF LedgerInv
<1>2. QED
  BY <1>1, InitTyped, LedgerStep, PTL DEF Spec

-----------------------------------------------------------------------------
(***************************************************************************)
(* What has been read stays true of the tables as they grow.               *)
(***************************************************************************)
ReadFits(g) ==
  /\ tx[g].pc \in InTransaction => tx[g].before \subseteq Counted(grade)
  /\ tx[g].pc \in {"open", "commit"} =>
       /\ tx[g].before \subseteq Counted(tx[g].counted)
       /\ Counted(tx[g].counted) \subseteq Counted(grade) \cup {BetOf(g)}
       /\ tx[g].counted[BetOf(g)].to = CallOf[g].to
  /\ tx[g].pc = "commit" => tx[g].open \cap Counted(tx[g].counted) = {}

SnapshotFits(s) ==
  /\ Counted(s.counted) \cap s.open = {}
  /\ s.before \cup {s.bet} \subseteq Counted(s.counted)

\* Every grade has its snapshot.
Recorded(rows) == \A b \in Counted(rows) : \E s \in snapshots : s.at = rows[b].at

PageFits ==
  /\ Counted(page.counted) \subseteq Counted(grade)
  /\ Counted(page.counted) \cap (page.open \cup page.exposed) = {}
  /\ page.pc = "profit" => page.open = {} /\ page.exposed = {}
  /\ page.pc \in {"profit", "latest", "count"} => page.exposed = {}
  /\ Recorded(page.counted)
  /\ page.pc \in {"count", "exposure", "done"} =>
       \A b \in Counted(page.counted) : page.counted[b].at <= page.asOf

TallyInv ==
  /\ LedgerInv
  /\ \A g \in Graders : ReadFits(g)
  /\ \A s \in snapshots : SnapshotFits(s)
  /\ Recorded(grade)
  /\ PageFits

LEMMA OpenBetsUncounted ==
  ASSUME LedgerInv
  PROVE  \A b \in Bets : status[b] \notin Grades <=> b \notin Counted(grade)
BY DEF LedgerInv, GradeFitsStatus, Counted, Grades

LEMMA TablesGrow ==
  ASSUME LedgerInv, [Next]_vars
  PROVE  Counted(grade) \subseteq Counted(grade') /\ snapshots \subseteq snapshots'
<1>1. ASSUME NEW g \in Graders, Commit(g)
      PROVE  Counted(grade) \subseteq Counted(grade') /\ snapshots \subseteq snapshots'
  BY <1>1, SeenFacts DEF Commit
<1>2. CASE UNCHANGED <<grade, snapshots>>
  BY <1>2 DEF Counted
<1>3. QED
  BY <1>1, <1>2 DEF Next, Grading, Reading, vars, tables, Start, Claim, InsertGrade, SumGrades,
                    CountOpen, Abort, PlaceBet, ReadProfit, ReadLatest, ReadCount, ReadExposure

LEMMA InitTallies == Init => TallyInv
<1> SUFFICES ASSUME Init PROVE TallyInv
  OBVIOUS
<1>1. Counted(NoGrades) = {}
  BY DEF Counted, NoGrades, NoGrade
<1>2. \A g \in Graders : ReadFits(g)
  BY DEF Init, ReadFits, InTransaction
<1>3. Recorded(grade) /\ PageFits
  BY <1>1 DEF Init, Recorded, PageFits
<1>4. QED
  BY <1>2, <1>3, InitTyped DEF TallyInv, Init

LEMMA ReadStays ==
  ASSUME NEW g \in Graders, ReadFits(g), tx'[g] = tx[g], Counted(grade) \subseteq Counted(grade')
  PROVE  ReadFits(g)'
BY DEF ReadFits, BetOf, Counted

LEMMA ReadsStep ==
  ASSUME TallyInv, [Next]_vars, NEW h \in Graders
  PROVE  ReadFits(h)'
<1> USE DEF TallyInv
<1>1. Counted(grade) \subseteq Counted(grade')
  BY TablesGrow
<1>2. CASE tx'[h] = tx[h]
  BY <1>1, <1>2, ReadStays
<1>3. CASE Start(h)
  <2>1. tx'[h].pc = "claim" /\ tx'[h].before = Counted(grade) /\ grade' = grade
    BY <1>3, StartFacts DEF Moves, Start, tables
  <2>2. QED
    BY <2>1 DEF ReadFits, InTransaction, Counted
<1>4. CASE Claim(h) \/ InsertGrade(h) \/ Abort(h)
  <2>1. PICK pc \in {"insert", "refused", "sum", "failed"} : Works(h, pc)
    BY <1>4, ClaimWorks, InsertWorks, AbortWorks
  <2>2. tx[h].pc \in InTransaction /\ tx'[h].pc = pc /\ tx'[h].before = tx[h].before
        /\ grade' = grade
    BY <2>1 DEF Works, Moves
  <2>3. QED
    BY <2>2 DEF ReadFits, Counted
<1>5. CASE SumGrades(h)
  <2>1. /\ tx[h].pc \in InTransaction /\ tx'[h].pc = "open" /\ tx'[h].before = tx[h].before
        /\ grade' = grade /\ tx'[h].counted = SeenGrade(h)
    BY <1>5, SumWorks DEF Works, Moves
  <2>2. Counted(tx'[h].counted) = Counted(grade) \cup {BetOf(h)}
    BY <2>1, SeenFacts
  <2>3. tx'[h].counted[BetOf(h)].to = CallOf[h].to
    BY <2>1, SeenFacts
  <2>4. tx[h].before \subseteq Counted(grade)
    BY <2>1 DEF ReadFits
  <2>5. ReadFits(h)' = /\ tx'[h].pc \in InTransaction => tx'[h].before \subseteq Counted(grade')
                       /\ tx'[h].pc \in {"open", "commit"} =>
                            /\ tx'[h].before \subseteq Counted(tx'[h].counted)
                            /\ Counted(tx'[h].counted) \subseteq Counted(grade') \cup {BetOf(h)}
                            /\ tx'[h].counted[BetOf(h)].to = CallOf[h].to
                       /\ tx'[h].pc = "commit" => tx'[h].open \cap Counted(tx'[h].counted) = {}
    BY DEF ReadFits, BetOf, Counted
  <2>6. QED
    BY <1>1, <2>1, <2>2, <2>3, <2>4, <2>5
<1>6. CASE CountOpen(h)
  <2>1. /\ tx[h].pc = "open" /\ tx'[h].pc = "commit" /\ tx'[h].before = tx[h].before
        /\ grade' = grade /\ tx'[h].counted = tx[h].counted
        /\ tx'[h].open = {b \in Bets : SeenStatus(h)[b] = "OPEN"}
    BY <1>6, CountWorks DEF Works, Moves, CountOpen, At
  <2>2. ASSUME NEW b \in tx'[h].open PROVE b \notin Counted(tx[h].counted)
    <3>1. b # BetOf(h)
      BY <2>1, SeenFacts, CallFacts DEF Grades
    <3>2. status[b] = "OPEN" /\ b \in Bets
      BY <2>1, <3>1, SeenFacts
    <3>3. b \notin Counted(grade)
      BY <3>2, OpenBetsUncounted DEF Grades
    <3>4. Counted(tx[h].counted) \subseteq Counted(grade) \cup {BetOf(h)}
      BY <2>1 DEF ReadFits
    <3>5. QED
      BY <3>1, <3>3, <3>4
  <2>3. QED
    BY <2>1, <2>2 DEF ReadFits, InTransaction, BetOf, Counted
<1>7. CASE Commit(h)
  <2>1. tx'[h].pc = "done"
    BY <1>7, MoveFacts DEF Commit, Moves, States
  <2>2. QED
    BY <2>1 DEF ReadFits, InTransaction
<1>8. ASSUME NEW g \in Graders, g # h, Grading(g) \/ Abort(g) PROVE tx'[h] = tx[h]
  BY <1>8, Typed DEF Grading, Start, Claim, InsertGrade, SumGrades, CountOpen, Commit, Abort, Move
<1>9. CASE \E b \in Bets : PlaceBet(b)
  BY <1>2, <1>9 DEF PlaceBet
<1>10. CASE Reading \/ UNCHANGED vars
  BY <1>2, <1>10 DEF Reading, ReadProfit, ReadLatest, ReadCount, ReadExposure, vars
<1>11. QED
  BY <1>2, <1>3, <1>4, <1>5, <1>6, <1>7, <1>8, <1>9, <1>10 DEF Next, Grading

LEMMA SnapshotsStep ==
  ASSUME TallyInv, [Next]_vars
  PROVE  /\ \A s \in snapshots' : SnapshotFits(s)
         /\ Recorded(grade)'
<1> USE DEF TallyInv
<1>1. ASSUME NEW g \in Graders, Commit(g)
      PROVE  (\A s \in snapshots' : SnapshotFits(s)) /\ Recorded(grade)'
  <2>1. /\ tx[g].pc = "commit" /\ grade' = SeenGrade(g)
        /\ snapshots' = snapshots \cup {SnapshotOf(g)}
    BY <1>1 DEF Commit, At
  <2>2. SnapshotFits(SnapshotOf(g))
    <3>1. /\ tx[g].before \subseteq Counted(tx[g].counted)
          /\ BetOf(g) \in Counted(tx[g].counted)
          /\ tx[g].open \cap Counted(tx[g].counted) = {}
      BY <2>1, CallFacts DEF ReadFits, Counted, Grades
    <3>2. QED
      BY <3>1 DEF SnapshotFits, SnapshotOf
  <2>3. SnapshotOf(g).at = tx[g].at
    BY DEF SnapshotOf
  <2>4. ASSUME NEW b \in Counted(grade') PROVE \E s \in snapshots' : s.at = grade'[b].at
    <3>1. CASE b = BetOf(g)
      BY <2>1, <2>3, <3>1, SeenFacts
    <3>2. CASE b # BetOf(g)
      <4>1. b \in Counted(grade) /\ grade'[b] = grade[b]
        BY <2>1, <3>2, SeenFacts DEF Counted
      <4>2. QED
        BY <2>1, <4>1 DEF Recorded
    <3>3. QED
      BY <3>1, <3>2
  <2>5. QED
    BY <2>1, <2>2, <2>4 DEF Recorded
<1>2. CASE UNCHANGED <<grade, snapshots>>
  BY <1>2 DEF Recorded, Counted
<1>3. QED
  BY <1>1, <1>2 DEF Next, Grading, Reading, vars, tables, Start, Claim, InsertGrade, SumGrades,
                    CountOpen, Abort, PlaceBet, ReadProfit, ReadLatest, ReadCount, ReadExposure

LEMMA PageStep ==
  ASSUME TallyInv, [Next]_vars
  PROVE  PageFits'
<1> USE DEF TallyInv
<1>1. CASE UNCHANGED page
  <2>1. Counted(grade) \subseteq Counted(grade') /\ snapshots \subseteq snapshots'
    BY TablesGrow
  <2>2. Counted(page.counted)' = Counted(page.counted)
    BY <1>1 DEF Counted
  <2>3. QED
    BY <1>1, <2>1, <2>2 DEF PageFits, Recorded, Counted
<1>2. CASE Reading
  <2>1. page' \in Page /\ page \in Page /\ UNCHANGED <<clock, tables, tx, raced>>
    BY <1>2, PageFacts DEF LedgerInv, TypeOK
  <2>2. OpenBets \cap Counted(grade) = {}
    BY OpenBetsUncounted DEF OpenBets, Grades
  <2>3. Counted(page.counted)' = Counted(page'.counted) /\ Counted(grade)' = Counted(grade)
    BY <2>1 DEF Counted, tables
  <2>4. CASE page.pc = "profit"
    <3>1. /\ page'.pc = "latest" /\ page'.counted = grade
          /\ page'.open = {} /\ page'.exposed = {}
      BY <1>2, <2>4, PageFacts DEF PageFits
    <3>2. Recorded(page.counted)'
      BY <2>1, <3>1 DEF Recorded, Counted, tables
    <3>3. QED
      BY <2>3, <3>1, <3>2 DEF PageFits
  <2>5. CASE page.pc = "latest"
    <3>1. /\ page'.pc = "count" /\ page'.counted = page.counted
          /\ page'.open = page.open /\ page'.exposed = page.exposed
          /\ page'.asOf = IF snapshots = {} THEN 0 ELSE Newest
      BY <1>2, <2>5, PageFacts
    <3>2. Recorded(page.counted)'
      BY <2>1, <3>1 DEF PageFits, Recorded, Counted, tables
    <3>3. ASSUME NEW b \in Counted(page.counted) PROVE page.counted[b].at <= page'.asOf
      <4>1. PICK s \in snapshots : s.at = page.counted[b].at
        BY DEF PageFits, Recorded
      <4>2. QED
        BY <3>1, <4>1, NewestFacts DEF Times
    <3>4. QED
      BY <2>3, <2>5, <3>1, <3>2, <3>3 DEF PageFits
  <2>6. CASE page.pc = "count"
    <3>1. /\ page'.pc = "exposure" /\ page'.counted = page.counted /\ page'.asOf = page.asOf
          /\ page'.open = OpenBets /\ page'.exposed = page.exposed
      BY <1>2, <2>6, PageFacts
    <3>2. Recorded(page.counted)'
      BY <2>1, <3>1 DEF PageFits, Recorded, Counted, tables
    <3>3. QED
      BY <2>2, <2>3, <2>6, <3>1, <3>2 DEF PageFits
  <2>7. CASE page.pc = "exposure"
    <3>1. /\ page'.pc = "done" /\ page'.counted = page.counted
          /\ page'.open = page.open /\ page'.exposed = OpenBets
          /\ page'.asOf = IF page.asOf = 0 THEN clock ELSE page.asOf
      BY <1>2, <2>7, PageFacts
    <3>2. Recorded(page.counted)'
      BY <2>1, <3>1 DEF PageFits, Recorded, Counted, tables
    <3>3. page.asOf <= page'.asOf /\ page.asOf \in Nat /\ page'.asOf \in Nat
      BY <2>1, <3>1, Typed DEF Page
    <3>4. ASSUME NEW b \in Counted(page.counted) PROVE page.counted[b].at <= page'.asOf
      <4>1. page.counted[b].at \in Nat /\ page.counted[b].at <= page.asOf
        BY <2>1, <2>7 DEF PageFits, Page, Tallies, Counted
      <4>2. QED
        BY <3>3, <4>1
    <3>5. QED
      BY <2>2, <2>3, <2>7, <3>1, <3>2, <3>4 DEF PageFits
  <2>8. QED
    BY <1>2, <2>4, <2>5, <2>6, <2>7, PageFacts
<1>3. QED
  BY <1>1, <1>2 DEF Next, Grading, vars, Start, Claim, InsertGrade, SumGrades, CountOpen, Commit,
                    Abort, PlaceBet

LEMMA TallyStep == TallyInv /\ [Next]_vars => TallyInv'
<1> SUFFICES ASSUME TallyInv, [Next]_vars PROVE TallyInv'
  OBVIOUS
<1>1. LedgerInv'
  BY LedgerStep DEF TallyInv
<1>2. \A g \in Graders : ReadFits(g)'
  BY ReadsStep
<1>3. (\A s \in snapshots : SnapshotFits(s))' /\ Recorded(grade)' /\ PageFits'
  BY SnapshotsStep, PageStep DEF SnapshotFits, Counted
<1>4. QED
  BY <1>1, <1>2, <1>3 DEF TallyInv

(***************************************************************************)
(* No snapshot counts a bet twice, and one misses only gradings that       *)
(* overlapped with its own (apply_grade): for any calls and interleavings. *)
(***************************************************************************)
THEOREM TalliesAreSound == Spec => []SnapshotsCountOnce
<1>1. TallyInv => SnapshotsCountOnce
  BY DEF TallyInv, SnapshotFits, SnapshotsCountOnce
<1>2. QED
  BY <1>1, InitTallies, TallyStep, PTL DEF Spec

(***************************************************************************)
(* No answer of GET /bankroll counts a bet twice, and its time covers      *)
(* every grade in it (BankrollService.current): a bet once graded is never *)
(* open again, and every grade has its snapshot.                           *)
(***************************************************************************)
THEOREM PagesAreSound == Spec => []PageCountsOnce
<1>1. TallyInv => PageCountsOnce
  BY DEF TallyInv, PageFits, PageCountsOnce
<1>2. QED
  BY <1>1, InitTallies, TallyStep, PTL DEF Spec

-----------------------------------------------------------------------------
(***************************************************************************)
(* Each call is one step of the tally.                                     *)
(***************************************************************************)
answer == [g \in Graders |-> Told(g)]

\* A step of g towards pc tells nobody else anything.
LEMMA ToldBy ==
  ASSUME NEW g \in Graders, NEW pc, Moves(g, pc)
  PROVE  answer' = [answer EXCEPT ![g] = Told(g)']
<1>1. ASSUME NEW h \in Graders, h # g PROVE Told(h)' = Told(h)
  BY <1>1 DEF Moves, Told, At
<1>2. QED
  BY <1>1 DEF answer

LEMMA CommitTallies ==
  ASSUME TallyInv, NEW g \in Graders, Commit(g)
  PROVE  TheTally!Grade(g)
<1> USE DEF TallyInv
<1>1. /\ tx[g].pc = "commit" /\ status' = SeenStatus(g)
      /\ snapshots' = snapshots \cup {SnapshotOf(g)}
  BY DEF Commit, At
<1>2. status[BetOf(g)] = "OPEN" \/ (CallOf[g].force /\ status[BetOf(g)] \in Grades)
  BY <1>1, Typed, CallFacts DEF LedgerInv, HoldsFit, Takes, Holding, InTransaction
<1>3. status' = [status EXCEPT ![BetOf(g)] = CallOf[g].to]
  BY <1>1 DEF SeenStatus
<1>4. SnapshotOf(g) \notin snapshots
  <2>1. SnapshotOf(g).at = tx[g].at
    BY DEF SnapshotOf
  <2>2. ASSUME NEW s \in snapshots PROVE s.at # tx[g].at
    BY <1>1 DEF LedgerInv, Stamped, At
  <2>3. QED
    BY <2>1, <2>2
<1>5. SnapshotOf(g).counted = tx[g].counted
  BY DEF SnapshotOf
<1>6. tx[g].counted[BetOf(g)].to = CallOf[g].to
  BY <1>1 DEF ReadFits
<1>7. ASSUME NEW x \in Bets, tx[g].counted[x].to \in Grades PROVE status'[x] \in Grades
  <2>1. CASE x = BetOf(g)
    BY <1>1, <2>1, SeenFacts, CallFacts
  <2>2. CASE x # BetOf(g)
    <3>1. x \in Counted(grade)
      BY <1>1, <1>7, <2>2 DEF ReadFits, Counted, Grades
    <3>2. status[x] \in Grades
      BY <3>1, OpenBetsUncounted
    <3>3. QED
      BY <1>1, <2>2, <3>2, SeenFacts
  <2>3. QED
    BY <2>1, <2>2
<1>8. answer[g] = "none" /\ answer' = [answer EXCEPT ![g] = "graded"]
  <2>1. Moves(g, "done")
    BY MoveFacts DEF Commit, States
  <2>2. Told(g) = "none" /\ Told(g)' = "graded"
    BY <1>1, <2>1 DEF Moves, Told, At
  <2>3. QED
    BY <2>1, <2>2, ToldBy DEF answer
<1>9. QED
  BY <1>1, <1>2, <1>3, <1>4, <1>5, <1>6, <1>7, <1>8
     DEF TheTally!Grade, TheTally!Answer, TheTally!Graded, answer, BetOf

LEMMA RefusalTallies ==
  ASSUME TallyInv, NEW g \in Graders, Claim(g), ~Takes(g)
  PROVE  TheTally!Refuse(g)
<1> USE DEF TallyInv
<1>1. tx[g].pc = "claim" /\ Move(g, "refused") /\ UNCHANGED <<status, snapshots>>
  BY DEF Claim, At
<1>2. ~CallOf[g].force /\ status[BetOf(g)] \in Grades
  <2>1. status[BetOf(g)] # "NONE" /\ status[BetOf(g)] \in {"NONE", "OPEN"} \cup Grades
    BY <1>1, Typed, CallFacts DEF LedgerInv, HoldsFit, InTransaction
  <2>2. QED
    BY <2>1 DEF Takes
<1>3. answer[g] = "none" /\ answer' = [answer EXCEPT ![g] = "refused"]
  <2>1. Moves(g, "refused")
    BY <1>1, MoveFacts DEF States
  <2>2. Told(g) = "none" /\ Told(g)' = "refused"
    BY <1>1, <2>1 DEF Moves, Told, At
  <2>3. QED
    BY <2>1, <2>2, ToldBy DEF answer
<1>4. QED
  BY <1>1, <1>2, <1>3 DEF TheTally!Refuse, TheTally!Answer, TheTally!Graded, answer, BetOf

\* The other steps of a call tell nothing yet.
LEMMA WorkIsSilent ==
  ASSUME NEW g \in Graders, NEW pc, Moves(g, pc), UNCHANGED <<status, snapshots>>,
         {tx[g].pc, pc} \subseteq InTransaction \cup {"new", "failed"}
  PROVE  UNCHANGED TheTally!vars
<1>1. Told(g) = "none" /\ Told(g)' = "none"
  BY DEF Moves, Told, At, InTransaction
<1>2. answer' = answer
  BY <1>1, ToldBy DEF answer
<1>3. QED
  BY <1>2 DEF TheTally!vars, answer

LEMMA TallyRefines == TallyInv /\ [Next]_vars => [TheTally!Next]_(TheTally!vars)
<1> SUFFICES ASSUME TallyInv, [Next]_vars PROVE [TheTally!Next]_(TheTally!vars)
  OBVIOUS
<1> USE DEF TallyInv
<1>1. ASSUME NEW g \in Graders, Commit(g) PROVE TheTally!Next
  BY <1>1, CommitTallies DEF TheTally!Next
<1>2. ASSUME NEW g \in Graders, Claim(g), ~Takes(g) PROVE TheTally!Next
  BY <1>2, RefusalTallies DEF TheTally!Next
<1>3. ASSUME NEW g \in Graders,
             \/ Start(g) \/ (Claim(g) /\ Takes(g)) \/ InsertGrade(g)
             \/ SumGrades(g) \/ CountOpen(g) \/ Abort(g)
      PROVE  UNCHANGED TheTally!vars
  <2>1. UNCHANGED <<status, snapshots>> /\ tx[g].pc \in InTransaction \cup {"new"}
    BY <1>3 DEF Start, Claim, InsertGrade, SumGrades, CountOpen, Abort, At, tables, InTransaction
  <2>2. Claim(g) /\ Takes(g) => Moves(g, "insert")
    BY MoveFacts DEF Claim, States, InTransaction
  <2>3. PICK pc \in {"claim", "insert", "sum", "open", "commit", "failed"} : Moves(g, pc)
    BY <1>3, <2>2, StartFacts, InsertWorks, SumWorks, CountWorks, AbortWorks DEF Works
  <2>4. QED
    BY <2>1, <2>3, WorkIsSilent DEF InTransaction
<1>4. ASSUME NEW b \in Bets, PlaceBet(b) PROVE TheTally!Next
  <2>1. answer' = answer
    BY <1>4 DEF PlaceBet, answer, Told, At
  <2>2. QED
    BY <1>4, <2>1 DEF PlaceBet, TheTally!Place, TheTally!Next, answer
<1>5. CASE UNCHANGED <<status, snapshots, tx>>
  BY <1>5 DEF TheTally!vars, Told, At
<1>6. QED
  BY <1>1, <1>2, <1>3, <1>4, <1>5 DEF Next, Grading, Reading, vars, tables, ReadProfit,
       ReadLatest, ReadCount, ReadExposure

(***************************************************************************)
(* Each call of apply_grade, with its locks, its six statements and its    *)
(* failures, is one step: it grades an open bet, or by force a graded one, *)
(* and puts one snapshot on the chart, or it finds its bet graded; it      *)
(* never meets the unique key.  So, however many calls race, at most one   *)
(* without force grades a bet.                                             *)
(***************************************************************************)
THEOREM GradingIsOneStep == Spec => ImplementsTally
<1>1. Init => TheTally!Init
  BY DEF Init, TheTally!Init, Told, At
<1>2. QED
  BY <1>1, InitTallies, TallyStep, TallyRefines, PTL DEF Spec, ImplementsTally, TheTally!Spec

-----------------------------------------------------------------------------
(***************************************************************************)
(* Charts, as long as no two gradings overlap.                             *)
(***************************************************************************)
Alone ==
  /\ \A g, h \in Graders : tx[g].pc \in InTransaction /\ tx[h].pc \in InTransaction => g = h
  /\ \A g \in Graders :
       /\ tx[g].pc \in InTransaction => \A s \in snapshots : s.at < tx[g].at
       /\ tx[g].pc \in {"open", "commit"} => tx[g].counted = SeenGrade(g)

LastCounts ==
  snapshots # {} =>
    \E m \in snapshots : m.counted = grade /\ \A r \in snapshots : r = m \/ r.at < m.at

SerialInv == LedgerInv /\ (~raced => Alone /\ LastCounts)

LEMMA InitSerial == Init => SerialInv
<1> SUFFICES ASSUME Init PROVE SerialInv
  OBVIOUS
<1>1. Alone /\ LastCounts
  BY DEF Init, Alone, LastCounts, InTransaction
<1>2. QED
  BY <1>1, InitTyped DEF SerialInv

LEMMA WorkSerial ==
  ASSUME LedgerInv, Alone, LastCounts, NEW g \in Graders, NEW pc, Works(g, pc),
         pc \in {"open", "commit"} => tx'[g].counted = SeenGrade(g)
  PROVE  Alone' /\ LastCounts'
<1>1. UNCHANGED <<snapshots, grade>>
  BY DEF Works
<1>2. ASSUME NEW h \in Graders
      PROVE  /\ tx'[h].pc \in InTransaction => tx[h].pc \in InTransaction
             /\ tx'[h].at = tx[h].at /\ SeenGrade(h)' = SeenGrade(h)
             /\ h # g => tx'[h] = tx[h]
  <2>1. tx'[h].at = tx[h].at /\ (h # g => tx'[h] = tx[h])
    BY DEF Works, Moves
  <2>2. tx'[h].pc \in InTransaction => tx[h].pc \in InTransaction
    BY <2>1 DEF Works
  <2>3. SeenGrade(h)' = SeenGrade(h)
    BY <1>1, <2>1 DEF SeenGrade, Written, BetOf
  <2>4. QED
    BY <2>1, <2>2, <2>3
<1>3. tx'[g].pc = pc
  BY DEF Works, Moves
<1>4. QED
  BY <1>1, <1>2, <1>3 DEF Alone, LastCounts

LEMMA CommitSerial ==
  ASSUME LedgerInv, Alone, LastCounts, NEW g \in Graders, Commit(g)
  PROVE  Alone' /\ LastCounts'
<1>1. /\ tx[g].pc = "commit" /\ Moves(g, "done") /\ grade' = SeenGrade(g)
      /\ snapshots' = snapshots \cup {SnapshotOf(g)}
  BY MoveFacts DEF Commit, At, States
<1>2. \A h \in Graders : tx'[h].pc \notin InTransaction
  BY <1>1 DEF Alone, Moves, InTransaction
<1>3. SnapshotOf(g).counted = grade' /\ SnapshotOf(g).at = tx[g].at
  BY <1>1 DEF Alone, SnapshotOf
<1>4. \A s \in snapshots : s.at < SnapshotOf(g).at
  BY <1>1, <1>3 DEF Alone, InTransaction
<1>5. Alone'
  BY <1>2 DEF Alone, InTransaction
<1>6. LastCounts'
  BY <1>1, <1>3, <1>4 DEF LastCounts
<1>7. QED
  BY <1>5, <1>6

LEMMA StartSerial ==
  ASSUME LedgerInv, Alone, LastCounts, NEW g \in Graders, Start(g), Idle
  PROVE  Alone' /\ LastCounts'
<1>1. Moves(g, "claim") /\ tx'[g].at = clock + 1 /\ UNCHANGED <<snapshots, grade>>
  BY StartFacts DEF Start, tables
<1>2. \A h \in Graders : h # g => tx'[h].pc \notin InTransaction
  BY <1>1 DEF Idle, Moves
<1>3. \A s \in snapshots : s.at < clock + 1
  BY Typed DEF LedgerInv, Stamped, At, TypeOK
<1>4. Alone'
  BY <1>1, <1>2, <1>3 DEF Alone, Moves, InTransaction
<1>5. LastCounts'
  BY <1>1 DEF LastCounts
<1>6. QED
  BY <1>4, <1>5

LEMMA SerialStep == SerialInv /\ [Next]_vars => SerialInv'
<1> SUFFICES ASSUME SerialInv, [Next]_vars, ~raced' PROVE Alone' /\ LastCounts'
  BY LedgerStep DEF SerialInv
<1> USE DEF SerialInv
<1>1. ~raced /\ \A g \in Graders : Start(g) => Idle
  <2>1. ASSUME NEW g \in Graders, Start(g) PROVE ~raced /\ Idle
    BY <2>1, Zenon DEF Start
  <2>2. (\E g \in Graders : Start(g)) \/ UNCHANGED raced
    BY DEF Next, Grading, Reading, vars, Claim, InsertGrade, SumGrades, CountOpen, Commit, Abort,
           PlaceBet, ReadProfit, ReadLatest, ReadCount, ReadExposure
  <2>3. QED
    BY <2>1, <2>2
<1>2. ASSUME NEW g \in Graders, Start(g) \/ Commit(g) PROVE Alone' /\ LastCounts'
  BY <1>1, <1>2, StartSerial, CommitSerial
<1>3. ASSUME NEW g \in Graders, Claim(g) \/ InsertGrade(g) \/ Abort(g)
      PROVE  Alone' /\ LastCounts'
  <2>1. PICK pc \in {"insert", "refused", "sum", "failed"} : Works(g, pc)
    BY <1>3, ClaimWorks, InsertWorks, AbortWorks
  <2>2. QED
    BY <1>1, <2>1, WorkSerial
<1>4. ASSUME NEW g \in Graders, SumGrades(g) PROVE Alone' /\ LastCounts'
  BY <1>1, <1>4, SumWorks, WorkSerial
<1>5. ASSUME NEW g \in Graders, CountOpen(g) PROVE Alone' /\ LastCounts'
  <2>1. tx[g].counted = SeenGrade(g)
    BY <1>1, <1>5 DEF Alone, CountOpen, At
  <2>2. QED
    BY <1>1, <1>5, <2>1, CountWorks, WorkSerial
<1>6. CASE UNCHANGED <<grade, snapshots, tx>>
  BY <1>1, <1>6 DEF Alone, LastCounts, SeenGrade, Written, BetOf
<1>7. QED
  BY <1>2, <1>3, <1>4, <1>5, <1>6 DEF Next, Grading, Reading, vars, tables, PlaceBet, ReadProfit,
       ReadLatest, ReadCount, ReadExposure

(***************************************************************************)
(* Unless two gradings overlapped, the charts of every interval and range  *)
(* end at the bankroll (BankrollService.history), however long days and    *)
(* weeks are.                                                              *)
(***************************************************************************)
THEOREM ChartsAreCurrent == Spec => []ChartsEndAtBankroll
<1>1. SerialInv => ChartsEndAtBankroll
  <2> SUFFICES ASSUME SerialInv, ~raced, NEW interval, NEW from \in Nat, Chart(interval, from) # {}
               PROVE  (CHOOSE s \in Chart(interval, from) :
                         \A r \in Chart(interval, from) : r.at <= s.at).counted = grade
    BY Typed DEF SerialInv, ChartsEndAtBankroll
  <2>1. Chart(interval, from) \subseteq {s \in snapshots : s.at >= from}
    BY DEF Chart
  <2>2. PICK m \in snapshots : m.counted = grade /\ \A r \in snapshots : r = m \/ r.at < m.at
    BY <2>1 DEF SerialInv, LastCounts
  <2>3. \A r \in snapshots : r.at \in Nat
    BY DEF SerialInv, LedgerInv, TypeOK
  <2>4. m \in Chart(interval, from)
    <3>1. PICK r \in snapshots : r.at >= from
      BY <2>1
    <3>2. m.at >= from
      BY <2>2, <2>3, <3>1
    <3>3. \A q \in snapshots : q.at <= m.at
      BY <2>2, <2>3
    <3>4. QED
      BY <3>2, <3>3 DEF Chart
  <2>5. \A s \in Chart(interval, from) :
          (\A r \in Chart(interval, from) : r.at <= s.at) <=> s = m
    BY <2>1, <2>2, <2>3, <2>4
  <2>6. QED
    BY <2>2, <2>4, <2>5
<1>2. QED
  BY <1>1, InitSerial, SerialStep, PTL DEF Spec
=============================================================================
