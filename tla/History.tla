------------------------------ MODULE History -------------------------------
(***************************************************************************)
(* Keyset pages: a client walks through GET /bets from cursor to cursor    *)
(* while bets are placed and graded.  Rows are numbered by their ids,      *)
(* which are random, so that they come in any order.  A cursor names its   *)
(* row: the pair (placed_at, id) of a row never changes.                   *)
(***************************************************************************)
EXTENDS Outcomes, FiniteSets

CONSTANTS Rows,      \* the rows that agree with the filters on fixed columns
          Wanted,    \* the statuses that the filters on status and result admit
          Limit,     \* rows on a page
          MaxTime    \* bound of the clock

ASSUME HistoryAssumption ==
  /\ Rows \subseteq Nat /\ IsFiniteSet(Rows)
  /\ Wanted \subseteq {"OPEN"} \cup Graded
  /\ Limit \in Nat \ {0}
  /\ MaxTime \in Nat

VARIABLES
  clock,
  placedAt,  \* paper_bets.placed_at: when the transaction began, 0 if it has not
  status,    \* paper_bets.status, "NONE" while the row is not committed
  cursor,    \* the row of the client's cursor, none for the first page
  done,      \* the client has come to a page without a cursor
  times,     \* history: on how many pages a row has been
  steady     \* history: rows the filters admitted whenever a page was read

vars == <<clock, placedAt, status, cursor, done, times, steady>>

Init ==
  /\ clock = 1
  /\ placedAt = [r \in Rows |-> 0]
  /\ status = [r \in Rows |-> "NONE"]
  /\ cursor = {}
  /\ done = FALSE
  /\ times = [r \in Rows |-> 0]
  /\ steady = Rows

Tick ==
  /\ clock < MaxTime
  /\ clock' = clock + 1
  /\ UNCHANGED <<placedAt, status, cursor, done, times, steady>>

\* placed_at is NOW(), the time at which the transaction begins ...
BeginInsert(r) ==
  /\ placedAt[r] = 0
  /\ placedAt' = [placedAt EXCEPT ![r] = clock]
  /\ UNCHANGED <<clock, status, cursor, done, times, steady>>

\* ... and the row shows when it commits.
CommitInsert(r) ==
  /\ placedAt[r] > 0 /\ status[r] = "NONE"
  /\ status' = [status EXCEPT ![r] = "OPEN"]
  /\ UNCHANGED <<clock, placedAt, cursor, done, times, steady>>

\* apply_grade, forced or not.
Settle(r, grade) ==
  /\ status[r] # "NONE"
  /\ status' = [status EXCEPT ![r] = grade]
  /\ UNCHANGED <<clock, placedAt, cursor, done, times, steady>>
-----------------------------------------------------------------------------
\* The order of the ledger: later rows first, then greater ids.
Precedes(r, s) ==
  placedAt[r] > placedAt[s] \/ (placedAt[r] = placedAt[s] /\ r > s)

Admitted == {r \in Rows : status[r] \in Wanted}

\* Mutant: the row of the cursor comes again.
Remaining_WithCursor ==
  {r \in Admitted : \A c \in cursor : r = c \/ Precedes(c, r)}

\* Mutant: rows of the same time as the cursor are taken for read.
Remaining_ByTime ==
  {r \in Admitted : \A c \in cursor : placedAt[r] < placedAt[c]}

\* The rows strictly after the cursor.
Remaining ==
  {r \in Admitted : \A c \in cursor : Precedes(c, r)}

\* The first rows of a set, up to a limit.
FirstOf(S, limit) == {r \in S : Cardinality({s \in S : Precedes(s, r)}) < limit}
Last(S) == {r \in S : \A s \in S : s = r \/ Precedes(s, r)}

\* list_ledger and list_bets: a page, and a cursor if there is more.
ReadPage ==
  LET page == FirstOf(Remaining, Limit)
  IN  /\ ~done
      /\ done' = (page = Remaining)
      /\ IF page = Remaining THEN cursor' = cursor ELSE \E r \in Last(page) : cursor' = {r}
      /\ times' = [r \in Rows |-> IF r \in page THEN times[r] + 1 ELSE times[r]]
      /\ steady' = steady \cap Admitted
      /\ UNCHANGED <<clock, placedAt, status>>

Next ==
  \/ Tick
  \/ ReadPage
  \/ \E r \in Rows : \/ BeginInsert(r)
                     \/ CommitInsert(r)
                     \/ \E grade \in Graded : Settle(r, grade)

Spec == Init /\ [][Next]_vars
-----------------------------------------------------------------------------
(***************************************************************************)
(* No bet is on two pages of a walk, whatever is placed, committed late or *)
(* graded between them (list_ledger).                                      *)
(***************************************************************************)
NoRowTwice == \A r \in Rows : times[r] <= 1

(***************************************************************************)
(* A walk that has come to its end has shown every bet that the filters    *)
(* admitted whenever a page of it was read, those placed in the same       *)
(* instant too (list_ledger, list_bets): pages lose nothing but bets that  *)
(* were inserted or changed meanwhile.                                     *)
(***************************************************************************)
SteadyRowsListed == done => \A r \in steady : times[r] > 0
=============================================================================
