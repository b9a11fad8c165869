--------------------------- MODULE HistoryProofs ----------------------------
(***************************************************************************)
(* Theorems about History, for any rows, filters, page sizes and times.    *)
(***************************************************************************)
EXTENDS History, FiniteSetTheorems, TLAPS

TypeOK ==
  /\ clock \in Nat \ {0}
  /\ placedAt \in [Rows -> Nat]
  /\ status \in [Rows -> {"NONE", "OPEN"} \cup Graded]
  /\ cursor \in SUBSET Rows
  /\ times \in [Rows -> Nat]
  /\ steady \in SUBSET Rows

Begun(r) == placedAt[r] > 0

\* A row at the cursor or before it.
Read(r) == \E c \in cursor : r = c \/ Precedes(r, c)

\* What has been compared with a cursor has its place in the order for good.
Placed ==
  /\ \A r \in Rows : status[r] # "NONE" \/ times[r] > 0 => Begun(r)
  /\ \A c \in cursor : Begun(c) /\ \A d \in cursor : d = c
  /\ cursor # {} => \A r \in steady : Begun(r)

\* The rows on the pages lie up to the cursor, and the steady ones up to the
\* cursor are on the pages.
Walked ==
  /\ \A r \in Rows : times[r] > 0 => done \/ Read(r)
  /\ \A r \in steady : done \/ Read(r) => times[r] > 0

WalkInv == TypeOK /\ Placed /\ NoRowTwice /\ Walked

\* The order of the ledger is total and transitive.
LEMMA OrderTotal ==
  ASSUME TypeOK
  PROVE  /\ \A r, s \in Rows : r = s \/ Precedes(r, s) \/ Precedes(s, r)
         /\ \A r, s \in Rows : Precedes(r, s) => r # s /\ ~Precedes(s, r)
         /\ \A r, s, t \in Rows : Precedes(r, s) /\ Precedes(s, t) => Precedes(r, t)
BY HistoryAssumption DEF TypeOK, Precedes

\* A page has every row of its set that precedes one of the page.
LEMMA PageIsPrefix ==
  ASSUME TypeOK, NEW S \in SUBSET Rows, NEW l \in FirstOf(S, Limit), NEW r \in S, Precedes(r, l)
  PROVE  r \in FirstOf(S, Limit)
<1> DEFINE before(x) == {s \in S : Precedes(s, x)}
<1>1. before(r) \subseteq before(l) /\ before(l) \subseteq Rows
  BY OrderTotal DEF FirstOf
<1>2. IsFiniteSet(before(l))
  BY <1>1, HistoryAssumption, FS_Subset
<1>3. /\ Cardinality(before(r)) \in Nat /\ Cardinality(before(l)) \in Nat
      /\ Cardinality(before(r)) <= Cardinality(before(l))
  BY <1>1, <1>2, FS_Subset, FS_CardinalityType
<1>4. Cardinality(before(l)) < Limit
  BY DEF FirstOf
<1>5. Cardinality(before(r)) < Limit
  BY <1>3, <1>4, HistoryAssumption
<1>6. QED
  BY <1>5 DEF FirstOf

LEMMA WalkInit == Init => WalkInv
<1> SUFFICES ASSUME Init PROVE WalkInv
  OBVIOUS
<1>1. TypeOK
  <2>1. placedAt \in [Rows -> Nat] /\ times \in [Rows -> Nat]
    BY DEF Init
  <2>2. status \in [Rows -> {"NONE", "OPEN"} \cup Graded]
    BY DEF Init
  <2>3. clock \in Nat \ {0} /\ cursor \in SUBSET Rows /\ steady \in SUBSET Rows
    BY DEF Init
  <2>4. QED
    BY <2>1, <2>2, <2>3 DEF TypeOK
<1>2. \A r \in Rows : status[r] = "NONE" /\ times[r] = 0
  BY DEF Init
<1>3. cursor = {} /\ ~done
  BY DEF Init
<1>4. QED
  BY <1>1, <1>2, <1>3 DEF WalkInv, TypeOK, Placed, NoRowTwice, Walked, Read

\* A page is read: its rows come after all that were read, and no row that
\* the filters admit is passed over.
LEMMA PageKeepsWalk ==
  ASSUME WalkInv, ReadPage
  PROVE  WalkInv'
<1> DEFINE page == FirstOf(Remaining, Limit)
<1>1. /\ ~done /\ UNCHANGED <<clock, placedAt, status>>
      /\ times' = [r \in Rows |-> IF r \in page THEN times[r] + 1 ELSE times[r]]
      /\ steady' = steady \cap Admitted
  BY DEF ReadPage
<1>2. page \subseteq Remaining /\ Remaining \subseteq Admitted /\ Admitted \subseteq Rows
  BY DEF FirstOf, Remaining, Admitted
<1>3. \A r \in Admitted : Begun(r)
  BY HistoryAssumption DEF WalkInv, Placed, Admitted, Graded
<1>4. \A r \in Admitted : Read(r) <=> r \notin Remaining
  <2>1. \A c, d \in cursor : c = d
    BY DEF WalkInv, Placed
  <2>2. QED
    BY <1>2, <2>1, OrderTotal DEF WalkInv, TypeOK, Read, Remaining
<1>5. \A r \in page : times[r] = 0
  BY <1>1, <1>2, <1>4 DEF WalkInv, Walked, TypeOK
<1>6. NoRowTwice' /\ times' \in [Rows -> Nat]
  BY <1>1, <1>5 DEF WalkInv, NoRowTwice, TypeOK
<1>7. \A r \in Rows : times'[r] > 0 <=> times[r] > 0 \/ r \in page
  BY <1>1 DEF WalkInv, TypeOK
<1>8. CASE page = Remaining
  <2>1. done' /\ cursor' = cursor
    BY <1>8 DEF ReadPage
  <2>2. TypeOK'
    BY <1>1, <1>6, <2>1 DEF WalkInv, TypeOK
  <2>3. \A r \in Rows : Begun(r)' <=> Begun(r)
    BY <1>1 DEF Begun
  <2>4. Placed'
    BY <1>1, <1>2, <1>3, <1>7, <2>1, <2>3 DEF WalkInv, TypeOK, Placed
  <2>5. Walked'
    BY <1>1, <1>2, <1>4, <1>7, <1>8, <2>1 DEF WalkInv, TypeOK, Walked
  <2>6. QED
    BY <1>6, <2>2, <2>4, <2>5 DEF WalkInv
<1>9. CASE page # Remaining
  <2>1. PICK l \in Last(page) : ~done' /\ cursor' = {l}
    BY <1>9 DEF ReadPage
  <2>2. l \in page /\ \A r \in page : r = l \/ Precedes(r, l)
    BY <2>1 DEF Last
  <2>3. TypeOK' /\ Placed'
    <3>1. cursor' \in SUBSET Rows /\ l \in Admitted
      BY <1>2, <2>1, <2>2
    <3>2. TypeOK'
      <4>1. steady' \in SUBSET Rows
        BY <1>1 DEF WalkInv, TypeOK
      <4>2. QED
        BY <1>1, <1>6, <3>1, <4>1 DEF WalkInv, TypeOK
    <3>3. \A r \in Rows : Begun(r)' <=> Begun(r)
      BY <1>1 DEF Begun
    <3>4. Placed'
      BY <1>1, <1>2, <1>3, <1>7, <2>1, <3>1, <3>3 DEF WalkInv, TypeOK, Placed
    <3>5. QED
      BY <3>2, <3>4
  <2>4. \A r \in Rows : Read(r)' <=> r = l \/ Precedes(r, l)
    BY <1>1, <2>1 DEF Read, Precedes
  <2>5. ASSUME NEW r \in Rows, times'[r] > 0 PROVE Read(r)'
    <3>1. CASE r \in page
      BY <2>2, <2>4, <3>1
    <3>2. CASE r \notin page
      <4>1. PICK c \in cursor : r = c \/ Precedes(r, c)
        BY <1>1, <1>7, <2>5, <3>2 DEF WalkInv, Walked, Read
      <4>2. Precedes(c, l) /\ c \in Rows /\ l \in Rows
        BY <1>2, <2>2 DEF Remaining, WalkInv, TypeOK
      <4>3. QED
        BY <2>4, <4>1, <4>2, OrderTotal DEF WalkInv
    <3>3. QED
      BY <3>1, <3>2
  <2>6. ASSUME NEW r \in steady', Read(r)' PROVE times'[r] > 0
    <3>1. r \in steady /\ r \in Admitted
      BY <1>1, <2>6
    <3>2. CASE r \in Remaining
      <4>1. r \in page
        BY <1>2, <2>2, <2>4, <2>6, <3>1, <3>2, PageIsPrefix DEF WalkInv
      <4>2. QED
        BY <1>2, <1>7, <3>1, <4>1
    <3>3. CASE r \notin Remaining
      BY <1>2, <1>4, <1>7, <3>1, <3>3 DEF WalkInv, Walked
    <3>4. QED
      BY <3>2, <3>3
  <2>7. QED
    BY <1>6, <2>1, <2>3, <2>5, <2>6 DEF WalkInv, Walked
<1>10. QED
  BY <1>8, <1>9

\* Nothing else moves a row that a page has or a cursor stands on.
LEMMA OthersKeepWalk ==
  ASSUME WalkInv, UNCHANGED <<cursor, done, times, steady>>, TypeOK',
         \A r \in Rows : Begun(r) => placedAt'[r] = placedAt[r],
         \A r \in Rows : status'[r] # "NONE" => Begun(r)
  PROVE  WalkInv'
<1>1. \A r, s \in Rows : Begun(r) /\ Begun(s) => (Precedes(r, s)' <=> Precedes(r, s))
  BY DEF Precedes
<1>2. Placed'
  BY DEF WalkInv, Placed, Begun, TypeOK
<1>3. \A r \in Rows : Begun(r) => (Read(r)' <=> Read(r))
  BY <1>1 DEF WalkInv, Placed, Read, TypeOK
<1>4. Walked'
  <2>1. \A r \in Rows : times[r] > 0 => Begun(r)
    BY DEF WalkInv, Placed
  <2>2. \A r \in steady : cursor # {} => Begun(r)
    BY DEF WalkInv, Placed
  <2>3. \A r \in Rows : Read(r)' => cursor # {}
    BY DEF Read
  <2>4. QED
    BY <1>3, <2>1, <2>2, <2>3 DEF WalkInv, Walked, TypeOK
<1>5. QED
  BY <1>2, <1>4 DEF WalkInv, NoRowTwice

LEMMA WalkNext == WalkInv /\ [Next]_vars => WalkInv'
<1> SUFFICES ASSUME WalkInv, [Next]_vars PROVE WalkInv'
  OBVIOUS
<1>1. CASE ReadPage
  BY <1>1, PageKeepsWalk
<1>2. CASE Tick \/ UNCHANGED vars
  <2>1. UNCHANGED <<placedAt, status, cursor, done, times, steady>>
    BY <1>2 DEF Tick, vars
  <2>2. clock' \in Nat \ {0}
    BY <1>2 DEF Tick, vars, WalkInv, TypeOK
  <2>3. TypeOK'
    BY <2>1, <2>2 DEF WalkInv, TypeOK
  <2>4. QED
    BY <2>1, <2>3, OthersKeepWalk DEF WalkInv, Placed
<1>3. ASSUME NEW q \in Rows, BeginInsert(q) PROVE WalkInv'
  <2>1. TypeOK'
    BY <1>3 DEF BeginInsert, WalkInv, TypeOK
  <2>2. \A r \in Rows : Begun(r) => placedAt'[r] = placedAt[r]
    BY <1>3 DEF BeginInsert, WalkInv, TypeOK, Begun
  <2>3. QED
    BY <1>3, <2>1, <2>2, OthersKeepWalk DEF BeginInsert, WalkInv, Placed
<1>4. ASSUME NEW q \in Rows, CommitInsert(q) PROVE WalkInv'
  <2>1. TypeOK'
    BY <1>4 DEF CommitInsert, WalkInv, TypeOK
  <2>2. \A r \in Rows : status'[r] # "NONE" => Begun(r)
    BY <1>4 DEF CommitInsert, WalkInv, TypeOK, Placed, Begun
  <2>3. QED
    BY <1>4, <2>1, <2>2, OthersKeepWalk DEF CommitInsert
<1>5. ASSUME NEW q \in Rows, NEW grade \in Graded, Settle(q, grade) PROVE WalkInv'
  <2>1. TypeOK'
    BY <1>5 DEF Settle, WalkInv, TypeOK
  <2>2. \A r \in Rows : status'[r] # "NONE" => Begun(r)
    BY <1>5 DEF Settle, WalkInv, TypeOK, Placed
  <2>3. QED
    BY <1>5, <2>1, <2>2, OthersKeepWalk DEF Settle
<1>6. QED
  BY <1>1, <1>2, <1>3, <1>4, <1>5 DEF Next

LEMMA WalkInvariant == Spec => []WalkInv
BY WalkInit, WalkNext, PTL DEF Spec

(***************************************************************************)
(* Pages never repeat a bet (list_ledger), however many rows are placed,   *)
(* committed late and graded between them, for any filter and page size.   *)
(***************************************************************************)
THEOREM PagesNeverRepeat == Spec => []NoRowTwice
BY WalkInvariant, PTL DEF WalkInv

(***************************************************************************)
(* A finished walk has shown every bet that its filters admitted all the   *)
(* time (list_ledger, list_bets), for any filter and page size.            *)
(***************************************************************************)
THEOREM WalksAreComplete == Spec => []SteadyRowsListed
<1>1. WalkInv => SteadyRowsListed
  BY DEF WalkInv, Walked, SteadyRowsListed
<1>2. QED
  BY <1>1, WalkInvariant, PTL
=============================================================================
