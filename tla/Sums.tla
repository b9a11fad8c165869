-------------------------------- MODULE Sums --------------------------------
(***************************************************************************)
(* What sums, products and folds over finite sets are, for the proofs that *)
(* count money.  The operators of Folds, FiniteSetsExt and SequencesExt    *)
(* are recursive functions under a CHOOSE; a fold is described here by     *)
(* functions (choice names the element taken next, step what it does), so  *)
(* that each fact is stated and proved once.  Induction is a least         *)
(* counterexample of a well-founded order.                                 *)
(***************************************************************************)
EXTENDS FiniteSetsExt, SequencesExt, FiniteSetTheorems, TLAPS

(***************************************************************************)
(* Induction.                                                              *)
(***************************************************************************)
LEMMA NaturalsIn ==
  ASSUME NEW G, 0 \in G, \A n \in Nat : n \in G => n + 1 \in G
  PROVE  Nat \subseteq G
<1> SUFFICES ASSUME Nat \ G # {} PROVE FALSE
  OBVIOUS
<1>1. PICK n \in Nat \ G : \A m \in Nat \ G : <<m, n>> \notin OpToRel(<, Nat)
  BY WFMin, NatLessThanWellFounded, Zenon
<1>2. \A m \in Nat \ G : ~(m < n)
  BY <1>1, Zenon DEF OpToRel
<1>3. n # 0 /\ n - 1 \in Nat /\ n - 1 < n
  OBVIOUS
<1>4. n - 1 \in G /\ n = (n - 1) + 1
  BY <1>2, <1>3
<1>5. QED
  BY <1>3, <1>4

LEMMA SubsetsIn ==
  ASSUME NEW S, IsFiniteSet(S), NEW G,
         \A T \in SUBSET S : (\A x \in T : T \ {x} \in G) => T \in G
  PROVE  SUBSET S \subseteq G
<1> SUFFICES ASSUME (SUBSET S) \ G # {} PROVE FALSE
  OBVIOUS
<1>1. FiniteSubsetsOf(S) = SUBSET S
  BY FS_FiniteSubsetsOfFinite
<1>2. IsWellFoundedOn(StrictSubsetOrdering(S), SUBSET S)
  <2>1. IsWellFoundedOn(StrictSubsetOrdering(S), FiniteSubsetsOf(S))
    BY FS_StrictSubsetOrderingWellFounded, Zenon
  <2>2. QED
    BY <1>1, <2>1, Zenon
<1>3. PICK T \in (SUBSET S) \ G : \A U \in (SUBSET S) \ G : <<U, T>> \notin StrictSubsetOrdering(S)
  BY <1>2, WFMin, Zenon
<1>4. ASSUME NEW x \in T PROVE T \ {x} \in G
  <2>1. <<T \ {x}, T>> \in StrictSubsetOrdering(S)
    BY DEF StrictSubsetOrdering
  <2>2. QED
    BY <1>3, <2>1
<1>5. QED
  BY <1>3, <1>4

LEMMA PlacesAreFinite ==
  ASSUME NEW n \in Nat, NEW T \in SUBSET (1..n)
  PROVE  IsFiniteSet(T) /\ \A x \in T : x \in Int
<1>1. IsFiniteSet(1..n)
  BY FS_Interval
<1>2. IsFiniteSet(T)
  BY <1>1, FS_Subset
<1>3. QED
  BY <1>2

\* Of finitely many numbers one is the least.
LEMMA LeastExists ==
  ASSUME NEW S, IsFiniteSet(S), S # {}, NEW f, \A x \in S : f[x] \in Int
  PROVE  \E x \in S : \A y \in S : f[x] <= f[y]
<1> DEFINE G == {T \in SUBSET S : T = {} \/ \E x \in T : \A y \in T : f[x] <= f[y]}
<1>1. ASSUME NEW T \in SUBSET S, \A x \in T : T \ {x} \in G, NEW x \in T PROVE T \in G
  <2>1. CASE T \ {x} = {}
    <3>1. \A y \in T : y = x
      BY <2>1
    <3>2. QED
      BY <3>1
  <2>2. ASSUME NEW m \in T \ {x}, \A y \in T \ {x} : f[m] <= f[y] PROVE T \in G
    <3>1. CASE f[m] <= f[x]
      BY <2>2, <3>1
    <3>2. CASE ~(f[m] <= f[x])
      <4>1. \A y \in T : f[x] <= f[y]
        BY <2>2, <3>2
      <4>2. QED
        BY <4>1
    <3>3. QED
      BY <3>1, <3>2
  <2>3. QED
    BY <1>1, <2>1, <2>2
<1>2. SUBSET S \subseteq G
  <2>1. \A T \in SUBSET S : (\A x \in T : T \ {x} \in G) => T \in G
    BY <1>1
  <2> HIDE DEF G
  <2> QED
    BY <2>1, SubsetsIn
<1>3. QED
  BY <1>2

LEMMA MinIsLeast ==
  ASSUME NEW S, IsFiniteSet(S), S # {}, \A x \in S : x \in Int
  PROVE  Min(S) \in S /\ \A y \in S : Min(S) <= y
<1> DEFINE f == [x \in S |-> x]
<1>1. \E x \in S : \A y \in S : f[x] <= f[y]
  <2>1. \A x \in S : f[x] \in Int
    OBVIOUS
  <2> HIDE DEF f
  <2>2. QED
    BY <2>1, LeastExists
<1>2. \E x \in S : \A y \in S : x <= y
  BY <1>1
<1>3. QED
  BY <1>2 DEF Min

(***************************************************************************)
(* Folds.                                                                  *)
(***************************************************************************)
IsFold(fold, S, V, base, choice, step) ==
  /\ fold \in [SUBSET S -> V]
  /\ fold[{}] = base
  /\ \A T \in SUBSET S :
       T # {} => fold[T] = step[<<choice[T], fold[T \ {choice[T]}]>>]

\* What a fold is made of.
Foldable(S, V, base, choice, step) ==
  /\ IsFiniteSet(S) /\ base \in V /\ step \in [S \X V -> V]
  /\ \A T \in SUBSET S : T # {} => choice[T] \in T

LEMMA FoldExists ==
  ASSUME NEW S, NEW V, NEW base, NEW choice, NEW step, Foldable(S, V, base, choice, step)
  PROVE  \E fold : IsFold(fold, S, V, base, choice, step)
<1> DEFINE Small(n) == {T \in SUBSET S : Cardinality(T) <= n}
           FoldTo(fold, n) ==
             /\ fold \in [Small(n) -> V]
             /\ \A T \in Small(n) : fold[T] = IF T = {} THEN base
                                              ELSE step[<<choice[T], fold[T \ {choice[T]}]>>]
           G == {n \in Nat : \E fold : FoldTo(fold, n)}
<1>1. \A T \in SUBSET S : IsFiniteSet(T) /\ Cardinality(T) \in Nat
  BY FS_Subset, FS_CardinalityType DEF Foldable
<1>2. \A T \in SUBSET S : Cardinality(T) = 0 <=> T = {}
  BY <1>1, FS_EmptySet
<1>3. ASSUME NEW n \in Nat, NEW T \in Small(n + 1), T # {}
      PROVE  T \ {choice[T]} \in Small(n) /\ choice[T] \in S
  <2>1. choice[T] \in T
    BY <1>3 DEF Foldable
  <2>2. Cardinality(T \ {choice[T]}) = Cardinality(T) - 1
    BY <1>1, <2>1, FS_RemoveElement
  <2>3. QED
    BY <1>1, <1>3, <2>1, <2>2
<1>4. 0 \in G
  <2>1. {} \in Small(0) /\ \A T \in Small(0) : T = {}
    BY <1>1, <1>2
  <2> HIDE DEF Small
  <2>2. FoldTo([T \in Small(0) |-> base], 0)
    BY <2>1 DEF Foldable
  <2>3. QED
    BY <2>2
<1>5. ASSUME NEW n \in Nat, n \in G PROVE n + 1 \in G
  <2>1. PICK fold : FoldTo(fold, n)
    BY <1>5
  <2> DEFINE next == [T \in Small(n + 1) |->
                        IF T = {} THEN base ELSE step[<<choice[T], fold[T \ {choice[T]}]>>]]
  <2>2. ASSUME NEW T \in Small(n + 1), T # {}
        PROVE  /\ T \ {choice[T]} \in Small(n)
               /\ fold[T \ {choice[T]}] \in V
               /\ next[T \ {choice[T]}] = fold[T \ {choice[T]}]
    <3>1. T \ {choice[T]} \in Small(n)
      BY <1>3, <2>2
    <3>2. \A U \in Small(n) : U \in Small(n + 1)
      BY <1>1
    <3> HIDE DEF Small
    <3>3. QED
      BY <2>1, <3>1, <3>2
  <2>3. next \in [Small(n + 1) -> V]
    <3>1. ASSUME NEW T \in Small(n + 1) PROVE next[T] \in V
      <4>1. T # {} => <<choice[T], fold[T \ {choice[T]}]>> \in S \X V
        BY <1>3, <2>2
      <4> HIDE DEF Small
      <4>2. QED
        BY <4>1 DEF Foldable
    <3> HIDE DEF Small
    <3>2. QED
      BY <3>1
  <2>4. FoldTo(next, n + 1)
    <3> HIDE DEF Small
    <3>1. QED
      BY <2>2, <2>3
  <2>5. QED
    <3> HIDE DEF FoldTo, next
    <3> QED
      BY <2>4
<1>6. Cardinality(S) \in G
  <2> HIDE DEF FoldTo
  <2>1. Nat \subseteq G
    BY <1>4, <1>5, NaturalsIn
  <2>2. QED
    BY <1>1, <2>1
<1>7. Small(Cardinality(S)) = SUBSET S
  BY FS_Subset DEF Foldable
<1>8. PICK fold : FoldTo(fold, Cardinality(S))
  BY <1>6
<1>9. IsFold(fold, S, V, base, choice, step)
  BY <1>7, <1>8 DEF IsFold
<1>10. QED
  BY <1>9

\* There is no other fold, nor one of a part of the set that differs.
LEMMA FoldsAgree ==
  ASSUME NEW S, NEW V, NEW base, NEW choice, NEW step, Foldable(S, V, base, choice, step),
         NEW R, S \subseteq R, NEW fold, NEW other, NEW W, NEW choiceToo, NEW stepToo,
         IsFold(fold, S, V, base, choice, step),
         IsFold(other, R, W, base, choiceToo, stepToo),
         \A T \in SUBSET S : T # {} => choice[T] = choiceToo[T],
         \A x \in S, v \in V : step[<<x, v>>] = stepToo[<<x, v>>]
  PROVE  \A T \in SUBSET S : fold[T] = other[T]
<1> DEFINE G == {T \in SUBSET S : fold[T] = other[T]}
<1>1. ASSUME NEW T \in SUBSET S, \A x \in T : T \ {x} \in G
      PROVE  T \in G
  <2>1. CASE T = {}
    BY <2>1 DEF IsFold
  <2>2. CASE T # {}
    <3> DEFINE x == choice[T]
    <3>1. x \in T /\ x = choiceToo[T] /\ fold[T \ {x}] = other[T \ {x}]
      BY <1>1, <2>2 DEF Foldable
    <3>2. fold[T \ {x}] \in V
      BY DEF IsFold
    <3>3. fold[T] = step[<<x, fold[T \ {x}]>>] /\ other[T] = stepToo[<<x, other[T \ {x}]>>]
      BY <2>2, <3>1 DEF IsFold
    <3> HIDE DEF x
    <3>4. QED
      BY <3>1, <3>2, <3>3
  <2>3. QED
    BY <2>1, <2>2
<1>2. SUBSET S \subseteq G
  <2> HIDE DEF G
  <2> QED
    BY <1>1, SubsetsIn DEF Foldable
<1>3. QED
  BY <1>2

\* When the order of two steps does not matter, any element can come first.
LEMMA AnyFirst ==
  ASSUME NEW S, NEW V, NEW base, NEW choice, NEW step, Foldable(S, V, base, choice, step),
         NEW fold, IsFold(fold, S, V, base, choice, step),
         \A x, y \in S : \A v \in V : step[<<x, step[<<y, v>>]>>] = step[<<y, step[<<x, v>>]>>]
  PROVE  \A T \in SUBSET S : \A x \in T : fold[T] = step[<<x, fold[T \ {x}]>>]
<1> DEFINE G == {T \in SUBSET S : \A x \in T : fold[T] = step[<<x, fold[T \ {x}]>>]}
<1>1. ASSUME NEW T \in SUBSET S, \A y \in T : T \ {y} \in G, NEW x \in T
      PROVE  fold[T] = step[<<x, fold[T \ {x}]>>]
  <2> DEFINE c == choice[T]
  <2>1. c \in T /\ fold[T] = step[<<c, fold[T \ {c}]>>]
    BY DEF Foldable, IsFold
  <2> HIDE DEF c
  <2>2. CASE c = x
    BY <2>1, <2>2
  <2>3. CASE c # x
    <3> DEFINE U == (T \ {c}) \ {x}
    <3>1. U = (T \ {x}) \ {c} /\ x \in T \ {c} /\ c \in T \ {x} /\ U \in SUBSET S
      BY <2>1, <2>3
    <3>2. fold[T \ {c}] = step[<<x, fold[U]>>] /\ fold[T \ {x}] = step[<<c, fold[U]>>]
      <4>1. T \ {c} \in G /\ T \ {x} \in G
        BY <1>1, <2>1
      <4>2. /\ \A y \in T \ {c} : fold[T \ {c}] = step[<<y, fold[(T \ {c}) \ {y}]>>]
            /\ \A y \in T \ {x} : fold[T \ {x}] = step[<<y, fold[(T \ {x}) \ {y}]>>]
        BY <4>1
      <4>3. /\ fold[T \ {c}] = step[<<x, fold[(T \ {c}) \ {x}]>>]
            /\ fold[T \ {x}] = step[<<c, fold[(T \ {x}) \ {c}]>>]
        BY <3>1, <4>2, Zenon
      <4>4. QED
        BY <3>1, <4>3
    <3>3. fold[U] \in V
      BY <3>1 DEF IsFold
    <3> DEFINE v == fold[U]
    <3>4. x \in S /\ c \in S /\ v \in V
      BY <2>1, <3>3
    <3>5. step[<<c, step[<<x, v>>]>>] = step[<<x, step[<<c, v>>]>>]
      BY <3>4
    <3> HIDE DEF U
    <3>6. QED
      BY <2>1, <3>2, <3>5
  <2>4. QED
    BY <2>2, <2>3
<1>2. SUBSET S \subseteq G
  <2>1. \A T \in SUBSET S : (\A y \in T : T \ {y} \in G) => T \in G
    BY <1>1
  <2> HIDE DEF G
  <2> QED
    BY <2>1, SubsetsIn DEF Foldable
<1>3. QED
  BY <1>2

\* A function with the equation of a fold is one.
LEMMA EquationIsFold ==
  ASSUME NEW S, NEW V, NEW base, NEW choice, NEW step, Foldable(S, V, base, choice, step),
         NEW iter, iter = [T \in SUBSET S |-> iter[T]], iter[{}] = base,
         \A T \in SUBSET S : T # {} /\ iter[T \ {choice[T]}] \in V =>
           iter[T] = step[<<choice[T], iter[T \ {choice[T]}]>>]
  PROVE  IsFold(iter, S, V, base, choice, step)
<1> DEFINE G == {T \in SUBSET S : iter[T] \in V}
<1>1. ASSUME NEW T \in SUBSET S, \A x \in T : T \ {x} \in G
      PROVE  T \in G
  <2>1. CASE T = {}
    BY <2>1 DEF Foldable
  <2>2. CASE T # {}
    <3>1. choice[T] \in T /\ iter[T \ {choice[T]}] \in V
      BY <1>1, <2>2 DEF Foldable
    <3>2. <<choice[T], iter[T \ {choice[T]}]>> \in S \X V
      BY <3>1
    <3>3. QED
      BY <2>2, <3>1, <3>2 DEF Foldable
  <2>3. QED
    BY <2>1, <2>2
<1>2. SUBSET S \subseteq G
  <2> HIDE DEF G
  <2> QED
    BY <1>1, SubsetsIn DEF Foldable
<1>3. ASSUME NEW T \in SUBSET S, T # {} PROVE iter[T \ {choice[T]}] \in V
  <2>1. T \ {choice[T]} \in SUBSET S
    OBVIOUS
  <2>2. QED
    BY <1>2, <2>1
<1>4. \A T \in SUBSET S : iter[T] \in V
  BY <1>2
<1>5. iter \in [SUBSET S -> V]
  BY <1>4
<1>6. QED
  BY <1>3, <1>5 DEF IsFold

(***************************************************************************)
(* A fold over places takes them from the first to the last.               *)
(***************************************************************************)
Latest(n) == [T \in SUBSET (1..n) |-> Max(T)]

LEMMA LatestIsIn ==
  ASSUME NEW n \in Nat, NEW U \in SUBSET (1..n), U # {}
  PROVE  /\ IsFiniteSet(1..n)
         /\ Latest(n)[U] = Max(U) /\ Max(U) \in U /\ \A y \in U : Max(U) >= y
<1> DEFINE G == {T \in SUBSET (1..n) : T = {} \/ \E m \in T : \A y \in T : m >= y}
<1>1. IsFiniteSet(1..n)
  BY FS_Interval
<1>2. ASSUME NEW T \in SUBSET (1..n), \A x \in T : T \ {x} \in G, NEW x \in T PROVE T \in G
  <2>1. CASE T \ {x} = {}
    BY <2>1
  <2>2. ASSUME NEW m \in T \ {x}, \A y \in T \ {x} : m >= y PROVE T \in G
    <3>1. m \in Int /\ x \in Int /\ \A y \in T : y \in Int
      OBVIOUS
    <3>2. CASE m >= x
      BY <2>2, <3>2
    <3>3. CASE ~(m >= x)
      <4>1. \A y \in T : x >= y
        BY <2>2, <3>1, <3>3
      <4>2. QED
        BY <4>1
    <3>4. QED
      BY <3>2, <3>3
  <2>3. QED
    BY <1>2, <2>1, <2>2
<1>3. SUBSET (1..n) \subseteq G
  <2>1. \A T \in SUBSET (1..n) : (\A x \in T : T \ {x} \in G) => T \in G
    BY <1>2
  <2> DEFINE S == 1..n
  <2> HIDE DEF G
  <2>2. IsFiniteSet(S) /\ \A T \in SUBSET S : (\A x \in T : T \ {x} \in G) => T \in G
    BY <1>1, <2>1, Zenon
  <2> HIDE DEF S
  <2>3. SUBSET S \subseteq G
    BY <2>2, SubsetsIn
  <2> QED
    BY <2>3 DEF S
<1>4. \E m \in U : \A y \in U : m >= y
  BY <1>3
<1>5. Max(U) \in U /\ \A y \in U : Max(U) >= y
  BY <1>4 DEF Max
<1>6. QED
  BY <1>1, <1>5 DEF Latest

LEMMA LatestOfPrefix ==
  ASSUME NEW n \in Nat, NEW k \in 1..n
  PROVE  Latest(n)[1..k] = k /\ (1..k) \ {k} = 1..(k - 1)
<1>1. 1..k \in SUBSET (1..n) /\ 1..k # {} /\ k \in 1..k
  OBVIOUS
<1>2. Max(1..k) \in 1..k /\ Max(1..k) >= k /\ Latest(n)[1..k] = Max(1..k)
  BY <1>1, LatestIsIn
<1>3. QED
  BY <1>2

LEMMA FoldOfPrefix ==
  ASSUME NEW n \in Nat, NEW V, NEW base, NEW step, NEW fold,
         IsFold(fold, 1..n, V, base, Latest(n), step)
  PROVE  /\ fold[1..0] = base
         /\ \A k \in 0..n : fold[1..k] \in V
         /\ \A k \in 1..n : fold[1..k] = step[<<k, fold[1..(k - 1)]>>]
<1>1. 1..0 = {}
  OBVIOUS
<1>2. ASSUME NEW k \in 1..n PROVE fold[1..k] = step[<<k, fold[1..(k - 1)]>>]
  <2>1. 1..k \in SUBSET (1..n) /\ 1..k # {}
    OBVIOUS
  <2>2. Latest(n)[1..k] = k /\ (1..k) \ {k} = 1..(k - 1)
    BY LatestOfPrefix
  <2>3. fold[1..k] = step[<<Latest(n)[1..k], fold[(1..k) \ {Latest(n)[1..k]}]>>]
    BY <2>1 DEF IsFold
  <2>4. QED
    BY <2>2, <2>3
<1>3. ASSUME NEW k \in 0..n PROVE fold[1..k] \in V
  <2>1. 1..k \in SUBSET (1..n)
    OBVIOUS
  <2>2. QED
    BY <2>1 DEF IsFold
<1>4. QED
  BY <1>1, <1>2, <1>3 DEF IsFold

(***************************************************************************)
(* Sums.                                                                   *)
(***************************************************************************)
Anyone(S) == [T \in SUBSET S |-> CHOOSE x \in T : TRUE]
Adding(f, S) == [p \in S \X Int |-> f[p[1]] + p[2]]

IsNumeric(f, S) == IsFiniteSet(S) /\ \A x \in S : f[x] \in Int

LEMMA AddingIs ==
  ASSUME NEW S, NEW f, IsNumeric(f, S), NEW x \in S, NEW v \in Int
  PROVE  Adding(f, S)[<<x, v>>] = f[x] + v /\ f[x] + v \in Int
BY DEF Adding, IsNumeric

LEMMA SumFoldable ==
  ASSUME NEW S, NEW f, IsNumeric(f, S)
  PROVE  Foldable(S, Int, 0, Anyone(S), Adding(f, S))
<1>1. ASSUME NEW T \in SUBSET S, T # {} PROVE Anyone(S)[T] \in T
  BY <1>1 DEF Anyone
<1>2. Adding(f, S) \in [S \X Int -> Int]
  <2>1. \A p \in S \X Int : f[p[1]] + p[2] \in Int
    BY DEF IsNumeric
  <2>2. QED
    BY <2>1 DEF Adding
<1>3. QED
  BY <1>1, <1>2 DEF Foldable, IsNumeric

LEMMA SumRecursion ==
  ASSUME NEW S, NEW f, IsNumeric(f, S)
  PROVE  \E fold : /\ IsFold(fold, S, Int, 0, Anyone(S), Adding(f, S))
                   /\ SumFunctionOnSet(f, S) = fold[S]
<1> DEFINE Recursive(iter) ==
             iter = [s \in SUBSET S |-> IF s = {} THEN 0
                                        ELSE LET x == CHOOSE x \in s : TRUE
                                             IN  f[x] + iter[s \ {x}]]
           fold == CHOOSE iter : Recursive(iter)
<1>1. \E iter : Recursive(iter)
  <2>1. PICK iter : IsFold(iter, S, Int, 0, Anyone(S), Adding(f, S))
    BY SumFoldable, FoldExists
  <2>2. ASSUME NEW s \in SUBSET S, s # {}
        PROVE  iter[s] = f[CHOOSE x \in s : TRUE] + iter[s \ {CHOOSE x \in s : TRUE}]
    <3> DEFINE x == CHOOSE x \in s : TRUE
    <3>1. x \in S /\ x = Anyone(S)[s]
      BY <2>2 DEF Anyone
    <3> HIDE DEF x
    <3>2. iter[s] = Adding(f, S)[<<x, iter[s \ {x}]>>] /\ iter[s \ {x}] \in Int
      BY <2>1, <2>2, <3>1 DEF IsFold
    <3>3. iter[s] = f[x] + iter[s \ {x}]
      BY <3>1, <3>2, AddingIs
    <3>4. QED
      BY <3>3 DEF x
  <2>3. Recursive(iter)
    BY <2>1, <2>2 DEF IsFold
  <2>4. QED
    BY <2>3
<1>2. Recursive(fold)
  <2> HIDE DEF Recursive
  <2> QED
    BY <1>1
<1> HIDE DEF fold
<1>3. IsFold(fold, S, Int, 0, Anyone(S), Adding(f, S))
  <2>1. fold[{}] = 0 /\ fold = [T \in SUBSET S |-> fold[T]]
    BY <1>2
  <2>2. ASSUME NEW T \in SUBSET S, T # {}, fold[T \ {Anyone(S)[T]}] \in Int
        PROVE  fold[T] = Adding(f, S)[<<Anyone(S)[T], fold[T \ {Anyone(S)[T]}]>>]
    <3> DEFINE x == Anyone(S)[T]
    <3>1. x \in S /\ fold[T] = f[x] + fold[T \ {x}]
      BY <1>2, <2>2 DEF Anyone
    <3>2. fold[T \ {x}] \in Int
      BY <2>2
    <3> HIDE DEF x
    <3>3. fold[T] = Adding(f, S)[<<x, fold[T \ {x}]>>]
      BY <3>1, <3>2, AddingIs
    <3>4. QED
      BY <3>3 DEF x
  <2>3. QED
    BY <2>1, <2>2, SumFoldable, EquationIsFold
<1>4. SumFunctionOnSet(f, S) = fold[S]
  BY DEF SumFunctionOnSet, FoldFunctionOnSet, MapThenFoldSet, fold
<1>5. QED
  BY <1>3, <1>4

\* One fold tells the sums over all parts of a set.
LEMMA SumFold ==
  ASSUME NEW S, NEW f, IsNumeric(f, S)
  PROVE  \E fold : /\ IsFold(fold, S, Int, 0, Anyone(S), Adding(f, S))
                   /\ \A T \in SUBSET S : SumFunctionOnSet(f, T) = fold[T]
<1>1. PICK fold : IsFold(fold, S, Int, 0, Anyone(S), Adding(f, S))
  BY SumRecursion
<1>2. ASSUME NEW T \in SUBSET S PROVE SumFunctionOnSet(f, T) = fold[T]
  <2>1. IsNumeric(f, T)
    BY FS_Subset DEF IsNumeric
  <2>2. PICK part : /\ IsFold(part, T, Int, 0, Anyone(T), Adding(f, T))
                    /\ SumFunctionOnSet(f, T) = part[T]
    BY <2>1, SumRecursion
  <2>3. \A U \in SUBSET T : U # {} => Anyone(T)[U] = Anyone(S)[U]
    BY DEF Anyone
  <2>4. \A x \in T, v \in Int : Adding(f, T)[<<x, v>>] = Adding(f, S)[<<x, v>>]
    <3> SUFFICES ASSUME NEW x \in T, NEW v \in Int
                 PROVE  Adding(f, T)[<<x, v>>] = Adding(f, S)[<<x, v>>]
      OBVIOUS
    <3>1. Adding(f, T)[<<x, v>>] = f[x] + v
      BY <2>1, AddingIs
    <3>2. Adding(f, S)[<<x, v>>] = f[x] + v
      BY AddingIs
    <3>3. QED
      BY <3>1, <3>2
  <2>5. \A U \in SUBSET T : part[U] = fold[U]
    <3>1. Foldable(T, Int, 0, Anyone(T), Adding(f, T))
      BY <2>1, SumFoldable
    <3>2. QED
      BY <1>1, <2>2, <2>3, <2>4, <3>1, FoldsAgree
  <2>6. QED
    BY <2>2, <2>5
<1>3. QED
  BY <1>1, <1>2

LEMMA SumType ==
  ASSUME NEW S, NEW f, IsNumeric(f, S)
  PROVE  SumFunctionOnSet(f, S) \in Int
<1>1. PICK fold : /\ IsFold(fold, S, Int, 0, Anyone(S), Adding(f, S))
                  /\ SumFunctionOnSet(f, S) = fold[S]
  BY SumRecursion
<1>2. QED
  BY <1>1 DEF IsFold

LEMMA SumEmpty == ASSUME NEW f PROVE SumFunctionOnSet(f, {}) = 0
<1>1. IsNumeric(f, {})
  BY FS_EmptySet DEF IsNumeric
<1>2. QED
  BY <1>1, SumRecursion DEF IsFold

\* Any element can be taken out first.
LEMMA SumWithout ==
  ASSUME NEW S, NEW f, IsNumeric(f, S), NEW x \in S
  PROVE  SumFunctionOnSet(f, S) = f[x] + SumFunctionOnSet(f, S \ {x})
<1>1. PICK fold : /\ IsFold(fold, S, Int, 0, Anyone(S), Adding(f, S))
                  /\ \A T \in SUBSET S : SumFunctionOnSet(f, T) = fold[T]
  BY SumFold
<1>2. ASSUME NEW y \in S, NEW z \in S, NEW v \in Int
      PROVE  Adding(f, S)[<<y, Adding(f, S)[<<z, v>>]>>] = Adding(f, S)[<<z, Adding(f, S)[<<y, v>>]>>]
  <2>1. f[y] \in Int /\ f[z] \in Int
    BY DEF IsNumeric
  <2>2. /\ Adding(f, S)[<<y, Adding(f, S)[<<z, v>>]>>] = f[y] + (f[z] + v)
        /\ Adding(f, S)[<<z, Adding(f, S)[<<y, v>>]>>] = f[z] + (f[y] + v)
    BY <2>1, AddingIs
  <2>3. QED
    BY <2>1, <2>2
<1>3. \A T \in SUBSET S : \A y \in T : fold[T] = Adding(f, S)[<<y, fold[T \ {y}]>>]
  <2>1. Foldable(S, Int, 0, Anyone(S), Adding(f, S))
    BY SumFoldable
  <2>2. QED
    BY <1>1, <1>2, <2>1, AnyFirst
<1>4. fold[S] = Adding(f, S)[<<x, fold[S \ {x}]>>] /\ fold[S \ {x}] \in Int
  BY <1>1, <1>3 DEF IsFold
<1>5. fold[S] = f[x] + fold[S \ {x}]
  BY <1>4, AddingIs
<1>6. QED
  BY <1>1, <1>5

LEMMA SumWith ==
  ASSUME NEW S, NEW x, x \notin S, NEW f, IsNumeric(f, S \cup {x})
  PROVE  SumFunctionOnSet(f, S \cup {x}) = f[x] + SumFunctionOnSet(f, S)
<1>1. (S \cup {x}) \ {x} = S
  OBVIOUS
<1>2. QED
  BY <1>1, SumWithout

LEMMA SumSame ==
  ASSUME NEW S, NEW f, NEW g, IsNumeric(f, S), \A x \in S : g[x] = f[x]
  PROVE  SumFunctionOnSet(g, S) = SumFunctionOnSet(f, S)
<1> DEFINE G == {T \in SUBSET S : SumFunctionOnSet(g, T) = SumFunctionOnSet(f, T)}
<1>1. ASSUME NEW T \in SUBSET S, \A x \in T : T \ {x} \in G PROVE T \in G
  <2>1. IsNumeric(f, T) /\ IsNumeric(g, T)
    BY FS_Subset DEF IsNumeric
  <2>2. CASE T = {}
    BY <2>2, SumEmpty
  <2>3. ASSUME NEW x \in T PROVE T \in G
    <3>1. /\ SumFunctionOnSet(f, T) = f[x] + SumFunctionOnSet(f, T \ {x})
          /\ SumFunctionOnSet(g, T) = g[x] + SumFunctionOnSet(g, T \ {x})
      BY <2>1, SumWithout
    <3>2. QED
      BY <1>1, <3>1
  <2>4. QED
    BY <2>2, <2>3
<1>2. SUBSET S \subseteq G
  <2> HIDE DEF G
  <2> QED
    BY <1>1, SubsetsIn DEF IsNumeric
<1>3. QED
  BY <1>2

\* The sum moves by what one summand does.
LEMMA SumChange ==
  ASSUME NEW S, NEW f, NEW g, IsNumeric(f, S), NEW x \in S, g[x] \in Int,
         \A y \in S \ {x} : g[y] = f[y]
  PROVE  SumFunctionOnSet(g, S) = SumFunctionOnSet(f, S) + g[x] - f[x]
<1>1. IsNumeric(g, S) /\ IsNumeric(f, S \ {x})
  BY FS_Subset DEF IsNumeric
<1>2. SumFunctionOnSet(g, S \ {x}) = SumFunctionOnSet(f, S \ {x})
  BY <1>1, SumSame
<1>3. /\ SumFunctionOnSet(f, S) = f[x] + SumFunctionOnSet(f, S \ {x})
      /\ SumFunctionOnSet(g, S) = g[x] + SumFunctionOnSet(g, S \ {x})
  BY <1>1, SumWithout
<1>4. SumFunctionOnSet(f, S \ {x}) \in Int /\ f[x] \in Int
  BY <1>1, SumType DEF IsNumeric
<1>5. QED
  BY <1>2, <1>3, <1>4

LEMMA SumNonnegative ==
  ASSUME NEW S, NEW f, IsFiniteSet(S), \A x \in S : f[x] \in Nat
  PROVE  SumFunctionOnSet(f, S) \in Nat
<1> DEFINE G == {T \in SUBSET S : SumFunctionOnSet(f, T) \in Nat}
<1>1. ASSUME NEW T \in SUBSET S, \A x \in T : T \ {x} \in G PROVE T \in G
  <2>1. IsNumeric(f, T)
    BY FS_Subset DEF IsNumeric
  <2>2. CASE T = {}
    BY <2>2, SumEmpty
  <2>3. ASSUME NEW x \in T PROVE T \in G
    <3>1. SumFunctionOnSet(f, T) = f[x] + SumFunctionOnSet(f, T \ {x})
      BY <2>1, SumWithout
    <3>2. SumFunctionOnSet(f, T \ {x}) \in Nat /\ f[x] \in Nat
      BY <1>1
    <3>3. QED
      BY <3>1, <3>2
  <2>4. QED
    BY <2>2, <2>3
<1>2. SUBSET S \subseteq G
  <2> HIDE DEF G
  <2> QED
    BY <1>1, SubsetsIn
<1>3. QED
  BY <1>2

LEMMA SumOfZeros ==
  ASSUME NEW S, NEW f, IsFiniteSet(S), \A x \in S : f[x] = 0
  PROVE  SumFunctionOnSet(f, S) = 0
<1> DEFINE G == {T \in SUBSET S : SumFunctionOnSet(f, T) = 0}
<1>1. ASSUME NEW T \in SUBSET S, \A x \in T : T \ {x} \in G PROVE T \in G
  <2>1. IsNumeric(f, T)
    BY FS_Subset DEF IsNumeric
  <2>2. CASE T = {}
    BY <2>2, SumEmpty
  <2>3. ASSUME NEW x \in T PROVE T \in G
    <3>1. SumFunctionOnSet(f, T) = f[x] + SumFunctionOnSet(f, T \ {x})
      BY <2>1, SumWithout
    <3>2. QED
      BY <1>1, <3>1
  <2>4. QED
    BY <2>2, <2>3
<1>2. SUBSET S \subseteq G
  <2> HIDE DEF G
  <2> QED
    BY <1>1, SubsetsIn
<1>3. QED
  BY <1>2

LEMMA SumOfParts ==
  ASSUME NEW S, NEW R, S \cap R = {}, NEW f, IsNumeric(f, S \cup R)
  PROVE  /\ IsNumeric(f, S) /\ IsNumeric(f, R)
         /\ SumFunctionOnSet(f, S \cup R) = SumFunctionOnSet(f, S) + SumFunctionOnSet(f, R)
<1> DEFINE G == {T \in SUBSET R : SumFunctionOnSet(f, S \cup T)
                                    = SumFunctionOnSet(f, S) + SumFunctionOnSet(f, T)}
<1>1. \A T \in SUBSET (S \cup R) : IsNumeric(f, T)
  BY FS_Subset DEF IsNumeric
<1>2. ASSUME NEW T \in SUBSET R, \A x \in T : T \ {x} \in G PROVE T \in G
  <2>1. CASE T = {}
    <3>1. SumFunctionOnSet(f, T) = 0 /\ S \cup T = S
      BY <2>1, SumEmpty
    <3>2. SumFunctionOnSet(f, S) \in Int
      BY <1>1, SumType
    <3>3. SumFunctionOnSet(f, S \cup T) = SumFunctionOnSet(f, S)
      BY <3>1
    <3>4. SumFunctionOnSet(f, S) + SumFunctionOnSet(f, T) = SumFunctionOnSet(f, S)
      BY <3>1, <3>2
    <3>5. QED
      BY <3>3, <3>4
  <2>2. ASSUME NEW x \in T PROVE T \in G
    <3>1. (S \cup T) \ {x} = S \cup (T \ {x})
      OBVIOUS
    <3>2. SumFunctionOnSet(f, S \cup T) = f[x] + SumFunctionOnSet(f, S \cup (T \ {x}))
      <4>1. IsNumeric(f, S \cup T) /\ x \in S \cup T
        BY <1>1
      <4>2. QED
        BY <3>1, <4>1, SumWithout
    <3>3. SumFunctionOnSet(f, T) = f[x] + SumFunctionOnSet(f, T \ {x})
      BY <1>1, SumWithout
    <3>4. SumFunctionOnSet(f, S \cup (T \ {x}))
            = SumFunctionOnSet(f, S) + SumFunctionOnSet(f, T \ {x})
      BY <1>2
    <3>5. /\ f[x] \in Int /\ SumFunctionOnSet(f, S) \in Int
          /\ SumFunctionOnSet(f, T \ {x}) \in Int
      <4>1. x \in S \cup R /\ S \in SUBSET (S \cup R) /\ T \ {x} \in SUBSET (S \cup R)
        OBVIOUS
      <4>2. IsNumeric(f, S) /\ IsNumeric(f, T \ {x})
        BY <1>1, <4>1
      <4>3. QED
        BY <4>1, <4>2, SumType DEF IsNumeric
    <3> DEFINE a == SumFunctionOnSet(f, S)  b == SumFunctionOnSet(f, T \ {x})
    <3>6. SumFunctionOnSet(f, S \cup T) = f[x] + (a + b)
      BY <3>2, <3>4
    <3>7. SumFunctionOnSet(f, S \cup T) = a + SumFunctionOnSet(f, T)
      <4> HIDE DEF a, b
      <4>1. a \in Int /\ b \in Int
        BY <3>5 DEF a, b
      <4>2. SumFunctionOnSet(f, T) = f[x] + b
        BY <3>3 DEF b
      <4>3. QED
        BY <3>5, <3>6, <4>1, <4>2
    <3>8. QED
      BY <3>7
  <2>3. QED
    BY <2>1, <2>2
<1>3. SUBSET R \subseteq G
  <2>1. IsFiniteSet(R)
    BY <1>1 DEF IsNumeric
  <2> HIDE DEF G
  <2> QED
    BY <1>2, <2>1, SubsetsIn
<1>4. R \in G
  BY <1>3
<1>5. QED
  BY <1>1, <1>4

LEMMA SumIsWithin ==
  ASSUME NEW S, NEW f, NEW g, IsNumeric(f, S), IsNumeric(g, S),
         \A x \in S : -g[x] <= f[x] /\ f[x] <= g[x]
  PROVE  /\ -SumFunctionOnSet(g, S) <= SumFunctionOnSet(f, S)
         /\ SumFunctionOnSet(f, S) <= SumFunctionOnSet(g, S)
<1> DEFINE within(a, b) == -b <= a /\ a <= b
           G == {T \in SUBSET S : within(SumFunctionOnSet(f, T), SumFunctionOnSet(g, T))}
<1>1. \A T \in SUBSET S : IsNumeric(f, T) /\ IsNumeric(g, T)
  BY FS_Subset DEF IsNumeric
<1>2. ASSUME NEW T \in SUBSET S, \A x \in T : T \ {x} \in G PROVE T \in G
  <2>1. CASE T = {}
    BY <2>1, SumEmpty
  <2>2. ASSUME NEW x \in T PROVE T \in G
    <3>1. SumFunctionOnSet(f, T) = f[x] + SumFunctionOnSet(f, T \ {x})
      BY <1>1, SumWithout
    <3>2. SumFunctionOnSet(g, T) = g[x] + SumFunctionOnSet(g, T \ {x})
      BY <1>1, SumWithout
    <3>3. T \ {x} \in SUBSET S
      OBVIOUS
    <3>4. SumFunctionOnSet(f, T \ {x}) \in Int /\ SumFunctionOnSet(g, T \ {x}) \in Int
      BY <1>1, <3>3, SumType
    <3>5. within(SumFunctionOnSet(f, T \ {x}), SumFunctionOnSet(g, T \ {x}))
      BY <1>2
    <3>6. f[x] \in Int /\ g[x] \in Int /\ within(f[x], g[x])
      BY DEF IsNumeric
    <3>7. QED
      BY <3>1, <3>2, <3>4, <3>5, <3>6
  <2>3. QED
    BY <2>1, <2>2
<1>3. SUBSET S \subseteq G
  <2>1. IsFiniteSet(S)
    BY DEF IsNumeric
  <2> HIDE DEF G
  <2> QED
    BY <1>2, <2>1, SubsetsIn
<1>4. QED
  BY <1>3

LEMMA SquareIsNatural == ASSUME NEW a \in Int PROVE a * a \in Nat /\ (a * a = 0 => a = 0)
OBVIOUS

LEMMA FactorIsNatural ==
  ASSUME NEW n \in Nat \ {0}, NEW d \in Int, n * d >= 0 PROVE d >= 0
OBVIOUS

\* What one more number adds to the square of a sum.
LEMMA SquareGrows ==
  ASSUME NEW n \in Nat, NEW a \in Int, NEW q \in Nat, NEW y \in Int, a * a <= n * q
  PROVE  (y + a) * (y + a) <= (n + 1) * (y * y + q)
<1> DEFINE w == n * y
           d == q + w * y - 2 * (a * y)
<1>1. /\ w \in Int /\ a * y \in Int /\ n * q \in Int /\ y * y \in Int /\ w * y \in Int
      /\ a * a \in Int /\ a * w \in Int /\ w * w \in Int /\ d \in Int
  OBVIOUS
<1>2. CASE n = 0
  <2>1. a * a = 0
    BY <1>2, SquareIsNatural
  <2>2. a = 0
    BY <2>1, SquareIsNatural
  <2>3. QED
    BY <1>2, <2>2
<1>3. CASE n # 0
  <2>1. n * d = n * q + w * w - 2 * (a * w)
    <3>1. n * (w * y) = w * w /\ n * (a * y) = a * w
      OBVIOUS
    <3>2. n * d = n * q + n * (w * y) - 2 * (n * (a * y))
      <4> HIDE DEF w
      <4> QED BY <1>1
    <3>3. QED
      BY <3>1, <3>2
  <2>2. a * a + w * w - 2 * (a * w) >= 0
    <3>1. (a - w) * (a - w) = a * a + w * w - 2 * (a * w)
      <4> HIDE DEF w
      <4> QED BY <1>1
    <3>2. a - w \in Int
      BY <1>1
    <3>3. (a - w) * (a - w) \in Nat
      BY <3>2, SquareIsNatural
    <3>4. QED
      BY <3>1, <3>3
  <2>3. d >= 0
    <3> HIDE DEF w, d
    <3>1. n * d >= 0
      BY <1>1, <2>1, <2>2
    <3>2. QED
      BY <1>1, <1>3, <3>1, FactorIsNatural
  <2>4. (y + a) * (y + a) = y * y + 2 * (a * y) + a * a
    OBVIOUS
  <2>5. (n + 1) * (y * y + q) = w * y + n * q + y * y + q
    OBVIOUS
  <2>6. d = q + w * y - 2 * (a * y)
    OBVIOUS
  <2> HIDE DEF w, d
  <2>7. QED
    BY <1>1, <2>3, <2>4, <2>5, <2>6
<1>4. QED
  BY <1>2, <1>3

\* The square of a sum is at most the number of its terms times the sum of
\* their squares.
LEMMA SquareOfSum ==
  ASSUME NEW S, NEW f, IsNumeric(f, S), NEW q, \A x \in S : q[x] = f[x] * f[x]
  PROVE  SumFunctionOnSet(f, S) * SumFunctionOnSet(f, S)
           <= Cardinality(S) * SumFunctionOnSet(q, S)
<1> DEFINE A(T) == SumFunctionOnSet(f, T)
           Q(T) == SumFunctionOnSet(q, T)
           G == {T \in SUBSET S : A(T) * A(T) <= Cardinality(T) * Q(T)}
<1>1. \A x \in S : f[x] \in Int /\ q[x] \in Nat
  BY SquareIsNatural DEF IsNumeric
<1>2. ASSUME NEW T \in SUBSET S
      PROVE  /\ IsFiniteSet(T) /\ Cardinality(T) \in Nat /\ IsNumeric(f, T) /\ IsNumeric(q, T)
             /\ A(T) \in Int /\ Q(T) \in Nat
  <2>1. IsFiniteSet(T)
    BY FS_Subset DEF IsNumeric
  <2>2. IsNumeric(f, T) /\ IsNumeric(q, T)
    BY <1>1, <2>1 DEF IsNumeric
  <2>3. \A x \in T : q[x] \in Nat
    BY <1>1
  <2>4. QED
    BY <2>1, <2>2, <2>3, SumType, SumNonnegative, FS_CardinalityType
<1>3. ASSUME NEW T \in SUBSET S, \A x \in T : T \ {x} \in G PROVE T \in G
  <2>1. CASE T = {}
    <3>1. A(T) = 0 /\ Cardinality(T) = 0 /\ Q(T) \in Int
      BY <1>2, <2>1, SumEmpty, FS_EmptySet
    <3>2. A(T) * A(T) <= Cardinality(T) * Q(T)
      <4> HIDE DEF A, Q
      <4> QED BY <3>1
    <3>3. QED
      BY <3>2
  <2>2. ASSUME NEW x \in T PROVE T \in G
    <3> DEFINE U == T \ {x}
    <3>1. U \in SUBSET S /\ A(U) * A(U) <= Cardinality(U) * Q(U)
      BY <1>3
    <3>2. A(T) = f[x] + A(U) /\ Q(T) = q[x] + Q(U)
      BY <1>2, SumWithout
    <3>3. q[x] = f[x] * f[x] /\ f[x] \in Int
      BY <1>1
    <3>4. Cardinality(T) = Cardinality(U) + 1
      <4>1. Cardinality(U) = Cardinality(T) - 1
        BY <1>2, FS_RemoveElement
      <4>2. Cardinality(T) \in Nat
        BY <1>2
      <4>3. QED
        BY <4>1, <4>2
    <3>5. A(U) \in Int /\ Q(U) \in Nat /\ Cardinality(U) \in Nat
      BY <1>2, <3>1
    <3> HIDE DEF U, A, Q
    <3>6. (f[x] + A(U)) * (f[x] + A(U)) <= (Cardinality(U) + 1) * (f[x] * f[x] + Q(U))
      BY <3>1, <3>3, <3>5, SquareGrows
    <3>7. A(T) * A(T) <= Cardinality(T) * Q(T)
      BY <3>2, <3>3, <3>4, <3>6
    <3>8. QED
      BY <3>7
  <2>3. QED
    BY <2>1, <2>2
<1>4. SUBSET S \subseteq G
  <2>1. IsFiniteSet(S)
    BY DEF IsNumeric
  <2> HIDE DEF G
  <2> QED
    BY <1>3, <2>1, SubsetsIn
<1>5. S \in G
  BY <1>4
<1>6. QED
  BY <1>5

LEMMA SumToNext ==
  ASSUME NEW m \in Nat, NEW f, \A b \in 0..m : f[b] \in Int
  PROVE  /\ SumFunctionOnSet(f, 0..m) = f[m] + SumFunctionOnSet(f, 0..(m - 1))
         /\ SumFunctionOnSet(f, 0..(m - 1)) \in Int
<1>1. IsNumeric(f, 0..m)
  BY FS_Interval DEF IsNumeric
<1>2. (0..m) \ {m} = 0..(m - 1) /\ m \in 0..m /\ 0..(m - 1) \in SUBSET (0..m)
  OBVIOUS
<1>3. IsNumeric(f, 0..(m - 1))
  BY <1>1, <1>2, FS_Subset DEF IsNumeric
<1>4. SumFunctionOnSet(f, 0..(m - 1)) \in Int
  BY <1>3, SumType
<1>5. SumFunctionOnSet(f, 0..m) = f[m] + SumFunctionOnSet(f, (0..m) \ {m})
  BY <1>1, <1>2, SumWithout
<1>6. QED
  BY <1>2, <1>4, <1>5

(***************************************************************************)
(* Products.                                                               *)
(***************************************************************************)
Product(f, S) == FoldFunctionOnSet(LAMBDA x, y : x * y, 1, f, S)
Multiplying(f, S) == [p \in S \X Int |-> f[p[1]] * p[2]]

LEMMA MultiplyingIs ==
  ASSUME NEW S, NEW f, IsNumeric(f, S), NEW x \in S, NEW v \in Int
  PROVE  Multiplying(f, S)[<<x, v>>] = f[x] * v /\ f[x] * v \in Int
BY DEF Multiplying, IsNumeric

LEMMA ProductFoldable ==
  ASSUME NEW S, NEW f, IsNumeric(f, S)
  PROVE  Foldable(S, Int, 1, Anyone(S), Multiplying(f, S))
<1>1. ASSUME NEW T \in SUBSET S, T # {} PROVE Anyone(S)[T] \in T
  BY <1>1 DEF Anyone
<1>2. Multiplying(f, S) \in [S \X Int -> Int]
  <2>1. \A p \in S \X Int : f[p[1]] * p[2] \in Int
    BY DEF IsNumeric
  <2>2. QED
    BY <2>1 DEF Multiplying
<1>3. QED
  BY <1>1, <1>2 DEF Foldable, IsNumeric

LEMMA ProductRecursion ==
  ASSUME NEW S, NEW f, IsNumeric(f, S)
  PROVE  \E fold : /\ IsFold(fold, S, Int, 1, Anyone(S), Multiplying(f, S))
                   /\ Product(f, S) = fold[S]
<1> DEFINE Recursive(iter) ==
             iter = [s \in SUBSET S |-> IF s = {} THEN 1
                                        ELSE LET x == CHOOSE x \in s : TRUE
                                             IN  f[x] * iter[s \ {x}]]
           fold == CHOOSE iter : Recursive(iter)
<1>1. \E iter : Recursive(iter)
  <2>1. PICK iter : IsFold(iter, S, Int, 1, Anyone(S), Multiplying(f, S))
    BY ProductFoldable, FoldExists
  <2>2. ASSUME NEW s \in SUBSET S, s # {}
        PROVE  iter[s] = f[CHOOSE x \in s : TRUE] * iter[s \ {CHOOSE x \in s : TRUE}]
    <3> DEFINE x == CHOOSE x \in s : TRUE
    <3>1. x \in S /\ x = Anyone(S)[s]
      BY <2>2 DEF Anyone
    <3> HIDE DEF x
    <3>2. iter[s] = Multiplying(f, S)[<<x, iter[s \ {x}]>>] /\ iter[s \ {x}] \in Int
      BY <2>1, <2>2, <3>1 DEF IsFold
    <3>3. iter[s] = f[x] * iter[s \ {x}]
      BY <3>1, <3>2, MultiplyingIs
    <3>4. QED
      BY <3>3 DEF x
  <2>3. Recursive(iter)
    BY <2>1, <2>2 DEF IsFold
  <2>4. QED
    BY <2>3
<1>2. Recursive(fold)
  <2> HIDE DEF Recursive
  <2> QED
    BY <1>1
<1> HIDE DEF fold
<1>3. IsFold(fold, S, Int, 1, Anyone(S), Multiplying(f, S))
  <2>1. fold[{}] = 1 /\ fold = [T \in SUBSET S |-> fold[T]]
    BY <1>2
  <2>2. ASSUME NEW T \in SUBSET S, T # {}, fold[T \ {Anyone(S)[T]}] \in Int
        PROVE  fold[T] = Multiplying(f, S)[<<Anyone(S)[T], fold[T \ {Anyone(S)[T]}]>>]
    <3> DEFINE x == Anyone(S)[T]
    <3>1. x \in S /\ fold[T] = f[x] * fold[T \ {x}]
      BY <1>2, <2>2 DEF Anyone
    <3>2. fold[T \ {x}] \in Int
      BY <2>2
    <3> HIDE DEF x
    <3>3. Multiplying(f, S)[<<x, fold[T \ {x}]>>] = f[x] * fold[T \ {x}]
      BY <3>1, <3>2, MultiplyingIs
    <3>4. fold[T] = Multiplying(f, S)[<<x, fold[T \ {x}]>>]
      BY <3>1, <3>3, Zenon
    <3>5. QED
      BY <3>4 DEF x
  <2>3. QED
    BY <2>1, <2>2, ProductFoldable, EquationIsFold
<1>4. Product(f, S) = fold[S]
  BY DEF Product, FoldFunctionOnSet, MapThenFoldSet, fold
<1>5. QED
  BY <1>3, <1>4

LEMMA ProductFold ==
  ASSUME NEW S, NEW f, IsNumeric(f, S)
  PROVE  \E fold : /\ IsFold(fold, S, Int, 1, Anyone(S), Multiplying(f, S))
                   /\ \A T \in SUBSET S : Product(f, T) = fold[T]
<1>1. PICK fold : IsFold(fold, S, Int, 1, Anyone(S), Multiplying(f, S))
  BY ProductRecursion
<1>2. ASSUME NEW T \in SUBSET S PROVE Product(f, T) = fold[T]
  <2>1. IsNumeric(f, T)
    BY FS_Subset DEF IsNumeric
  <2>2. PICK part : /\ IsFold(part, T, Int, 1, Anyone(T), Multiplying(f, T))
                    /\ Product(f, T) = part[T]
    BY <2>1, ProductRecursion
  <2>3. \A U \in SUBSET T : U # {} => Anyone(T)[U] = Anyone(S)[U]
    BY DEF Anyone
  <2>4. \A x \in T, v \in Int : Multiplying(f, T)[<<x, v>>] = Multiplying(f, S)[<<x, v>>]
    <3> SUFFICES ASSUME NEW x \in T, NEW v \in Int
                 PROVE  Multiplying(f, T)[<<x, v>>] = Multiplying(f, S)[<<x, v>>]
      OBVIOUS
    <3>1. Multiplying(f, T)[<<x, v>>] = f[x] * v
      BY <2>1, MultiplyingIs
    <3>2. Multiplying(f, S)[<<x, v>>] = f[x] * v
      BY MultiplyingIs
    <3>3. QED
      BY <3>1, <3>2
  <2>5. \A U \in SUBSET T : part[U] = fold[U]
    <3>1. Foldable(T, Int, 1, Anyone(T), Multiplying(f, T))
      BY <2>1, ProductFoldable
    <3>2. QED
      BY <1>1, <2>2, <2>3, <2>4, <3>1, FoldsAgree
  <2>6. QED
    BY <2>2, <2>5
<1>3. QED
  BY <1>1, <1>2

LEMMA ProductType ==
  ASSUME NEW S, NEW f, IsNumeric(f, S)
  PROVE  Product(f, S) \in Int
<1>1. PICK fold : /\ IsFold(fold, S, Int, 1, Anyone(S), Multiplying(f, S))
                  /\ Product(f, S) = fold[S]
  BY ProductRecursion
<1>2. QED
  BY <1>1 DEF IsFold

LEMMA ProductEmpty == ASSUME NEW f PROVE Product(f, {}) = 1
<1>1. IsNumeric(f, {})
  BY FS_EmptySet DEF IsNumeric
<1>2. QED
  BY <1>1, ProductRecursion DEF IsFold

LEMMA ProductWithout ==
  ASSUME NEW S, NEW f, IsNumeric(f, S), NEW x \in S
  PROVE  Product(f, S) = f[x] * Product(f, S \ {x})
<1>1. PICK fold : /\ IsFold(fold, S, Int, 1, Anyone(S), Multiplying(f, S))
                  /\ \A T \in SUBSET S : Product(f, T) = fold[T]
  BY ProductFold
<1>2. ASSUME NEW y \in S, NEW z \in S, NEW v \in Int
      PROVE  Multiplying(f, S)[<<y, Multiplying(f, S)[<<z, v>>]>>]
               = Multiplying(f, S)[<<z, Multiplying(f, S)[<<y, v>>]>>]
  <2>1. f[y] \in Int /\ f[z] \in Int
    BY DEF IsNumeric
  <2>2. /\ Multiplying(f, S)[<<y, Multiplying(f, S)[<<z, v>>]>>] = f[y] * (f[z] * v)
        /\ Multiplying(f, S)[<<z, Multiplying(f, S)[<<y, v>>]>>] = f[z] * (f[y] * v)
    BY <2>1, MultiplyingIs
  <2>3. QED
    BY <2>1, <2>2
<1>3. \A T \in SUBSET S : \A y \in T : fold[T] = Multiplying(f, S)[<<y, fold[T \ {y}]>>]
  <2>1. Foldable(S, Int, 1, Anyone(S), Multiplying(f, S))
    BY ProductFoldable
  <2>2. QED
    BY <1>1, <1>2, <2>1, AnyFirst
<1>4. fold[S] = Multiplying(f, S)[<<x, fold[S \ {x}]>>] /\ fold[S \ {x}] \in Int
  BY <1>1, <1>3 DEF IsFold
<1>5. fold[S] = f[x] * fold[S \ {x}]
  BY <1>4, MultiplyingIs
<1>6. QED
  BY <1>1, <1>5

LEMMA ProductWith ==
  ASSUME NEW S, NEW x, x \notin S, NEW f, IsNumeric(f, S \cup {x})
  PROVE  Product(f, S \cup {x}) = f[x] * Product(f, S)
<1>1. (S \cup {x}) \ {x} = S
  OBVIOUS
<1>2. QED
  BY <1>1, ProductWithout
=============================================================================
