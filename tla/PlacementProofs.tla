-------------------------- MODULE PlacementProofs ---------------------------
(***************************************************************************)
(* Theorems about Placement, for any number of orders and keys and any     *)
(* terms: a key has one bet, Placement implements Desk, late orders leave  *)
(* no bet, and only outdated readings overdraw the bankroll.  What an      *)
(* order reads of the bankroll plays no part in the first three.           *)
(***************************************************************************)
EXTENDS Placement, Sums

\* The type of an order, whatever the sums are that it saw.
Doing(S) == [pc : {"new"} \cup Working \cup Ended, leg : Nat, saw : S,
             bet : SUBSET Orders, replay : BOOLEAN, late : BOOLEAN]
Shape ==
  /\ \E S : order \in [Orders -> Doing(S)]
  /\ status \in [Orders -> {"NONE", "OPEN"} \cup Graded]

\* The unique constraint on the idempotency key.
OneBetPerKey == \A o, p \in Orders : p \in RowsOf(o) /\ status[o] # "NONE" => p = o

\* An order with a bet of its own has inserted it, one that answers holds a
\* bet of its key, and one that reads the bet of another will find it.
HandlerFits(o) ==
  /\ status[o] # "NONE" => order[o].pc \in {"answer", "created", "failed"}
  /\ At(o, "reload") => RowsOf(o) # {}
  /\ order[o].pc \in {"answer", "created", "replayed"} => \E p \in RowsOf(o) : order[o].bet = {p}
  /\ At(o, "created") => order[o].bet = {o}
  /\ At(o, "replayed") => order[o].bet # {o}

DeskInv == Shape /\ OneBetPerKey /\ \A o \in Orders : HandlerFits(o)

\* A step of the handler of one order.
Only(o) == \A p \in Orders \ {o} : order'[p] = order[p]

LEMMA MoveShape ==
  ASSUME Shape, NEW o \in Orders, NEW pc \in {"new"} \cup Working \cup Ended, Move(o, pc),
         status' \in [Orders -> {"NONE", "OPEN"} \cup Graded]
  PROVE  /\ Shape' /\ Only(o)
         /\ order'[o].pc = pc
         /\ order'[o].bet = order[o].bet
<1>1. PICK S : order \in [Orders -> Doing(S)]
  BY DEF Shape
<1>2. order' \in [Orders -> Doing(S)]
  BY <1>1 DEF Move, Doing
<1>3. Shape'
  BY <1>2 DEF Shape
<1>4. Only(o) /\ order'[o].pc = pc /\ order'[o].bet = order[o].bet
  BY <1>1 DEF Move, Only, Doing
<1>5. QED
  BY <1>3, <1>4

\* The rows of a key are of one order at most.
LEMMA RowsOfKey ==
  ASSUME OneBetPerKey, NEW o \in Orders, NEW p \in RowsOf(o), NEW q \in RowsOf(o)
  PROVE  p = q
BY DEF OneBetPerKey, RowsOf

\* What the handlers write into the record of an order.
LEMMA Writes ==
  ASSUME NEW S, NEW j \in Doing(S), NEW pc \in {"new"} \cup Working \cup Ended
  PROVE  /\ \A saw \in S : [j EXCEPT !.pc = pc, !.saw = saw] \in Doing(S)
         /\ \A bet \in SUBSET Orders : [j EXCEPT !.pc = pc, !.bet = bet] \in Doing(S)
         /\ \A replay, late \in BOOLEAN :
              [j EXCEPT !.pc = pc, !.replay = replay, !.late = late] \in Doing(S)
<1>1. ASSUME NEW saw \in S PROVE [j EXCEPT !.pc = pc, !.saw = saw] \in Doing(S)
  BY DEF Doing
<1>2. ASSUME NEW bet \in SUBSET Orders PROVE [j EXCEPT !.pc = pc, !.bet = bet] \in Doing(S)
  BY DEF Doing
<1>3. ASSUME NEW replay \in BOOLEAN, NEW late \in BOOLEAN
      PROVE  [j EXCEPT !.pc = pc, !.replay = replay, !.late = late] \in Doing(S)
  BY DEF Doing
<1>4. QED
  BY <1>1, <1>2, <1>3

\* An arrival writes two histories, whatever they are.
LEMMA SendWrites ==
  ASSUME NEW o \in Orders, Send(o)
  PROVE  \E pc \in {"game", "refused"}, replay \in BOOLEAN, late \in BOOLEAN :
           order' = [order EXCEPT ![o].pc = pc, ![o].replay = replay, ![o].late = late]
<1> DEFINE pc == IF Terms[o].wellFormed THEN "game" ELSE "refused"
           replay == RowsOf(o) # {}
           late == \E i \in DOMAIN Terms[o].games : ~Placeable(o, Terms[o].games[i])
<1>1. order' = [order EXCEPT ![o].pc = pc, ![o].replay = replay, ![o].late = late]
  BY DEF Send
<1>2. pc \in {"game", "refused"} /\ replay \in BOOLEAN /\ late \in BOOLEAN
  OBVIOUS
<1> HIDE DEF pc, replay, late
<1>3. QED
  BY <1>1, <1>2

(***************************************************************************)
(* One bet per key, and handlers that know of it.                          *)
(***************************************************************************)
Early == {"new", "game", "lines", "profit", "exposure"}

\* Up to the check of the stake the ledger is only read.
Reads(o) ==
  /\ order[o].pc \in Early
  /\ Shape' /\ Only(o) /\ UNCHANGED status
  /\ order'[o].pc \in Early \cup {"insert", "refused"}

LEMMA ReadSteps ==
  ASSUME Shape, NEW o \in Orders,
         Send(o) \/ FetchGame(o) \/ CaptureOdds(o) \/ ReadProfit(o) \/ CheckStake(o)
  PROVE  Reads(o)
<1>1. PICK S : order \in [Orders -> Doing(S)]
  BY DEF Shape
<1>2. CASE Send(o)
  <2>1. order[o].pc = "new" /\ UNCHANGED status
    BY <1>2 DEF Send, At, ledger
  <2>2. PICK pc \in {"game", "refused"}, replay \in BOOLEAN, late \in BOOLEAN :
          order' = [order EXCEPT ![o].pc = pc, ![o].replay = replay, ![o].late = late]
    BY <1>2, SendWrites
  <2>3. [order[o] EXCEPT !.pc = pc, !.replay = replay, !.late = late] \in Doing(S)
    BY <1>1, <2>2, Writes DEF Working, Ended
  <2>4. order' \in [Orders -> Doing(S)] /\ Only(o)
    BY <1>1, <2>2, <2>3 DEF Only
  <2>5. order'[o].pc = pc
    BY <1>1, <2>2 DEF Doing
  <2>6. QED
    BY <2>1, <2>2, <2>4, <2>5 DEF Reads, Shape, Early
<1>3. CASE FetchGame(o)
  <2>1. PICK pc \in {"lines", "refused"} : Move(o, pc)
    BY <1>3 DEF FetchGame
  <2>2. order[o].pc = "game" /\ UNCHANGED status
    BY <1>3 DEF FetchGame, At, ledger
  <2>3. QED
    BY <2>1, <2>2, MoveShape DEF Reads, Shape, Early, Working, Ended
<1>4. CASE CaptureOdds(o)
  <2>1. order[o].pc = "lines" /\ UNCHANGED status
    BY <1>4 DEF CaptureOdds, At, ledger
  <2>2. CASE Move(o, "refused") \/ Move(o, "profit")
    BY <2>1, <2>2, MoveShape DEF Reads, Shape, Early, Working, Ended
  <2>3. CASE order' = [order EXCEPT ![o].pc = "game", ![o].leg = @ + 1]
    <3>1. order' \in [Orders -> Doing(S)] /\ Only(o) /\ order'[o].pc = "game"
      BY <1>1, <2>3 DEF Doing, Working, Only
    <3>2. QED
      BY <2>1, <3>1 DEF Reads, Shape, Early
  <2>4. QED
    BY <1>4, <2>2, <2>3 DEF CaptureOdds
<1>5. CASE ReadProfit(o)
  <2> DEFINE saw == Bankroll + TotalProfit
  <2>1. /\ order[o].pc = "profit" /\ UNCHANGED status
        /\ order' = [order EXCEPT ![o].pc = "exposure", ![o].saw = saw]
    BY <1>5 DEF ReadProfit, At, ledger
  <2> HIDE DEF saw
  <2>2. PICK W : W = S \cup {saw}
    OBVIOUS
  <2>3. order \in [Orders -> Doing(W)] /\ saw \in W
    BY <1>1, <2>2 DEF Doing
  <2>4. [order[o] EXCEPT !.pc = "exposure", !.saw = saw] \in Doing(W)
    BY <2>3, Writes DEF Working
  <2>5. order' \in [Orders -> Doing(W)] /\ Only(o)
    BY <2>1, <2>3, <2>4 DEF Only
  <2>6. order'[o].pc = "exposure"
    BY <1>1, <2>1 DEF Doing
  <2>7. QED
    BY <2>1, <2>5, <2>6 DEF Reads, Shape, Early
<1>6. CASE CheckStake(o)
  <2>1. PICK pc \in {"insert", "refused"} : Move(o, pc)
    BY <1>6 DEF CheckStake
  <2>2. order[o].pc = "exposure" /\ UNCHANGED status
    BY <1>6 DEF CheckStake, At, ledger
  <2>3. QED
    BY <2>1, <2>2, MoveShape DEF Reads, Shape, Early, Working, Ended
<1>7. QED
  BY <1>2, <1>3, <1>4, <1>5, <1>6

\* While the ledger keeps its rows the other handlers are not disturbed.
LEMMA OthersFit ==
  ASSUME DeskInv, NEW o \in Orders, Shape', Only(o), UNCHANGED status, HandlerFits(o)'
  PROVE  DeskInv'
<1>1. \A p \in Orders : RowsOf(p)' = RowsOf(p)
  BY DEF RowsOf
<1>2. OneBetPerKey'
  BY <1>1 DEF DeskInv, OneBetPerKey
<1>3. ASSUME NEW p \in Orders \ {o} PROVE HandlerFits(p)'
  BY <1>1, <1>3 DEF DeskInv, Only, HandlerFits, At
<1>4. QED
  BY <1>2, <1>3 DEF DeskInv

LEMMA ReadsKeepDesk ==
  ASSUME DeskInv, NEW o \in Orders, Reads(o)
  PROVE  DeskInv' /\ status[o] = "NONE"
<1>1. status[o] = "NONE"
  BY DEF DeskInv, Reads, HandlerFits, Early
<1>2. HandlerFits(o)'
  BY <1>1 DEF Reads, HandlerFits, At, Early
<1>3. QED
  BY <1>1, <1>2, OthersFit DEF Reads

\* The insert finds the key in the ledger, or adds the one bet of the key.
LEMMA InsertKeepsDesk ==
  ASSUME DeskInv, NEW o \in Orders, Insert(o)
  PROVE  /\ DeskInv' /\ Only(o) /\ status[o] = "NONE"
         /\ \/ RowsOf(o) # {} /\ UNCHANGED status /\ order'[o].pc = "reload"
            \/ /\ RowsOf(o) = {} /\ status' = [status EXCEPT ![o] = "OPEN"]
               /\ order'[o].pc = "answer"
<1>1. Shape /\ HandlerFits(o) /\ order[o].pc = "insert"
  BY DEF DeskInv, Insert, At
<1>2. status[o] = "NONE"
  BY <1>1 DEF HandlerFits
<1>3. CASE RowsOf(o) # {}
  <2>1. Move(o, "reload") /\ UNCHANGED status
    BY <1>3 DEF Insert
  <2>2. Shape' /\ Only(o) /\ order'[o].pc = "reload"
    BY <1>1, <2>1, MoveShape DEF Shape, Working
  <2>3. HandlerFits(o)'
    BY <1>2, <1>3, <2>1, <2>2 DEF HandlerFits, At, RowsOf
  <2>4. QED
    BY <1>2, <1>3, <2>1, <2>2, <2>3, OthersFit
<1>4. CASE RowsOf(o) = {}
  <2>1. /\ status' = [status EXCEPT ![o] = "OPEN"]
        /\ order' = [order EXCEPT ![o].pc = "answer", ![o].bet = {o}]
    BY <1>4 DEF Insert
  <2>2. PICK S : order \in [Orders -> Doing(S)]
    BY <1>1 DEF Shape
  <2>3. [order[o] EXCEPT !.pc = "answer", !.bet = {o}] \in Doing(S)
    BY <2>2, Writes DEF Working
  <2>4. Shape' /\ Only(o)
    BY <1>1, <2>1, <2>2, <2>3 DEF Shape, Only
  <2>5. order'[o].pc = "answer" /\ order'[o].bet = {o}
    BY <2>1, <2>2 DEF Doing
  <2>6. /\ \A p \in Orders : RowsOf(p)' = RowsOf(p) \cup (IF KeyOf[p] = KeyOf[o] THEN {o} ELSE {})
        /\ \A p \in Orders \ {o} : status'[p] = status[p]
    BY <1>1, <2>1 DEF RowsOf, Shape
  <2>7. OneBetPerKey'
    BY <1>2, <1>4, <2>6 DEF DeskInv, OneBetPerKey, RowsOf
  <2>8. HandlerFits(o)'
    BY <2>5, <2>6 DEF HandlerFits, At
  <2>9. ASSUME NEW p \in Orders \ {o} PROVE HandlerFits(p)'
    BY <2>4, <2>6, <2>9 DEF DeskInv, Only, HandlerFits, At
  <2>10. QED
    BY <1>2, <1>4, <2>1, <2>4, <2>5, <2>7, <2>8, <2>9 DEF DeskInv
<1>5. QED
  BY <1>3, <1>4

\* The bet that is there is read, the one row of the key.
LEMMA ReloadKeepsDesk ==
  ASSUME DeskInv, NEW o \in Orders, Reload(o)
  PROVE  DeskInv' /\ Only(o) /\ UNCHANGED status /\ order[o].pc = "reload" /\ order'[o].pc = "answer"
<1>1. /\ Shape /\ HandlerFits(o) /\ order[o].pc = "reload" /\ UNCHANGED status
      /\ order' = [order EXCEPT ![o].pc = "answer", ![o].bet = RowsOf(o)]
  BY DEF DeskInv, Reload, At, ledger
<1>2. PICK S : order \in [Orders -> Doing(S)]
  BY <1>1 DEF Shape
<1>3. PICK bet \in SUBSET Orders : bet = RowsOf(o)
  BY DEF RowsOf
<1>4. [order[o] EXCEPT !.pc = "answer", !.bet = bet] \in Doing(S)
  BY <1>2, Writes DEF Working
<1>5. Shape' /\ Only(o)
  BY <1>1, <1>2, <1>3, <1>4 DEF Shape, Only
<1>6. order'[o].pc = "answer" /\ order'[o].bet = RowsOf(o)
  BY <1>1, <1>2 DEF Doing
<1>7. PICK p \in RowsOf(o) : RowsOf(o) = {p}
  BY <1>1, RowsOfKey DEF HandlerFits, At, DeskInv
<1>8. HandlerFits(o)'
  BY <1>1, <1>6, <1>7 DEF HandlerFits, At, RowsOf
<1>9. QED
  BY <1>1, <1>5, <1>6, <1>8, OthersFit

\* An answer is of one's own bet or of that of another order of the key.
LEMMA AnswerKeepsDesk ==
  ASSUME DeskInv, NEW o \in Orders, Answer(o)
  PROVE  /\ DeskInv' /\ Only(o) /\ UNCHANGED status /\ order[o].pc = "answer"
         /\ \E p \in RowsOf(o) :
              /\ order'[o].bet = {p}
              /\ order'[o].pc = IF p = o THEN "created" ELSE "replayed"
<1>1. Shape /\ HandlerFits(o) /\ order[o].pc = "answer" /\ UNCHANGED status
  BY DEF DeskInv, Answer, At, ledger
<1>2. PICK p \in RowsOf(o) : order[o].bet = {p}
  BY <1>1 DEF HandlerFits
<1>3. PICK pc \in {"created", "replayed"} :
        Move(o, pc) /\ pc = IF p = o THEN "created" ELSE "replayed"
  BY <1>2 DEF Answer
<1>4. Shape' /\ Only(o) /\ order'[o].pc = pc /\ order'[o].bet = {p}
  BY <1>1, <1>2, <1>3, MoveShape DEF Shape, Ended
<1>5. status[o] # "NONE" => p = o
  BY <1>2 DEF DeskInv, OneBetPerKey, RowsOf
<1>6. HandlerFits(o)'
  BY <1>1, <1>2, <1>3, <1>4, <1>5 DEF HandlerFits, At, RowsOf
<1>7. QED
  BY <1>1, <1>2, <1>3, <1>4, <1>6, OthersFit

LEMMA FailureKeepsDesk ==
  ASSUME DeskInv, NEW o \in Orders, Fails(o)
  PROVE  DeskInv' /\ Only(o) /\ UNCHANGED status /\ order[o].pc \in Working /\ order'[o].pc = "failed"
<1>1. Shape /\ HandlerFits(o) /\ Move(o, "failed") /\ order[o].pc \in Working /\ UNCHANGED status
  BY DEF DeskInv, Fails, ledger
<1>2. Shape' /\ Only(o) /\ order'[o].pc = "failed"
  BY <1>1, MoveShape DEF Shape, Ended
<1>3. HandlerFits(o)'
  BY <1>1, <1>2 DEF HandlerFits, At
<1>4. QED
  BY <1>1, <1>2, <1>3, OthersFit

\* Grading and the games change neither who has a row nor any handler.
Outside ==
  \/ \E g \in Games : GameMoves(g) \/ StartPasses(g)
  \/ \E o \in Orders, grade \in Graded : Settle(o, grade)
  \/ UNCHANGED vars

LEMMA OutsideKeepsDesk ==
  ASSUME DeskInv, Outside
  PROVE  /\ DeskInv' /\ UNCHANGED order
         /\ \A o \in Orders : (status'[o] # "NONE") <=> (status[o] # "NONE")
<1>1. UNCHANGED order
  BY DEF Outside, GameMoves, StartPasses, Settle, vars
<1>2. /\ status' \in [Orders -> {"NONE", "OPEN"} \cup Graded]
      /\ \A o \in Orders : (status'[o] # "NONE") <=> (status[o] # "NONE")
  <2>1. CASE \E o \in Orders, grade \in Graded : Settle(o, grade)
    BY <2>1 DEF DeskInv, Shape, Settle, Graded
  <2>2. CASE UNCHANGED status
    BY <2>2 DEF DeskInv, Shape
  <2>3. QED
    BY <2>1, <2>2 DEF Outside, GameMoves, StartPasses, ledger, vars
<1>3. \A o \in Orders : RowsOf(o)' = RowsOf(o)
  BY <1>2 DEF RowsOf
<1>4. QED
  BY <1>1, <1>2, <1>3 DEF DeskInv, Shape, OneBetPerKey, HandlerFits, At

LEMMA DeskInit == Init => DeskInv
<1> SUFFICES ASSUME Init PROVE DeskInv
  OBVIOUS
<1>1. order \in [Orders -> Doing({0})]
  BY DEF Init, Doing
<1>2. Shape
  BY <1>1 DEF Shape, Init
<1>3. QED
  BY <1>2 DEF Init, DeskInv, OneBetPerKey, HandlerFits, RowsOf, At

\* Every step is one of a handler or one of the surroundings.
LEMMA StepCases ==
  ASSUME [Next]_vars
  PROVE  \/ Outside
         \/ \E o \in Orders :
              \/ Send(o) \/ FetchGame(o) \/ CaptureOdds(o) \/ ReadProfit(o) \/ CheckStake(o)
              \/ Insert(o) \/ Reload(o) \/ Answer(o) \/ Fails(o)
BY DEF Next, Handle, Outside

LEMMA DeskNext == DeskInv /\ [Next]_vars => DeskInv'
<1> SUFFICES ASSUME DeskInv, [Next]_vars PROVE DeskInv'
  OBVIOUS
<1>1. Shape
  BY DEF DeskInv
<1>2. QED
  BY <1>1, StepCases, OutsideKeepsDesk, ReadSteps, ReadsKeepDesk, InsertKeepsDesk, ReloadKeepsDesk,
     AnswerKeepsDesk, FailureKeepsDesk

LEMMA DeskInvariant == Spec => []DeskInv
BY DeskInit, DeskNext, PTL DEF Spec

(***************************************************************************)
(* Whoever retries and however the orders interleave, a key has at most    *)
(* one bet in the ledger (insert_idempotent, insert_parlay).               *)
(***************************************************************************)
THEOREM KeysHaveOneBet == Spec => []OneBetPerKey
BY DeskInvariant, PTL DEF DeskInv

(***************************************************************************)
(* Refinement.                                                             *)
(***************************************************************************)
Accepted == {o \in Orders : status[o] # "NONE"}
Outcome == [o \in Orders |-> Known(o)]

\* A handler's step changes what its own client knows, if anyone's.
LEMMA KnownMoves ==
  ASSUME NEW o \in Orders, Only(o)
  PROVE  Outcome' = [Outcome EXCEPT ![o] = Known(o)']
BY DEF Outcome, Only, Known

LEMMA KnownStays ==
  ASSUME NEW o \in Orders, Only(o), Known(o)' = Known(o)
  PROVE  Outcome' = Outcome
<1>1. \A p \in Orders : Known(p)' = Known(p)
  BY DEF Only, Known
<1>2. QED
  BY <1>1 DEF Outcome

LEMMA StillWaiting ==
  ASSUME NEW o \in Orders, order[o].pc \in {"new"} \cup Working
  PROVE  Known(o) = [kind |-> "waiting"] /\ TheDesk!Waiting(o)
BY DEF Known, Working, TheDesk!Waiting

LEMMA DeskStutters ==
  ASSUME UNCHANGED <<Accepted, Outcome>>
  PROVE  UNCHANGED TheDesk!vars
BY DEF TheDesk!vars, Accepted, Outcome

LEMMA ReadRefines ==
  ASSUME DeskInv, NEW o \in Orders, Reads(o)
  PROVE  TheDesk!Refuse(o) \/ UNCHANGED TheDesk!vars
<1>1. status[o] = "NONE" /\ Accepted' = Accepted
  BY ReadsKeepDesk DEF Reads, Accepted
<1>2. TheDesk!Waiting(o) /\ Known(o) = [kind |-> "waiting"] /\ Only(o)
  BY StillWaiting DEF Reads, Early, Working
<1>3. CASE order'[o].pc = "refused"
  <2>1. Known(o)' = [kind |-> "refused"]
    BY <1>3 DEF Known
  <2>2. Outcome' = [Outcome EXCEPT ![o] = [kind |-> "refused"]]
    BY <1>2, <2>1, KnownMoves
  <2>3. Outcome'[o] = [kind |-> "refused"]
    BY <2>1 DEF Outcome
  <2>4. TheDesk!Answered(o)
    BY <1>2, <2>3 DEF TheDesk!Answered, Outcome
  <2>5. QED
    BY <1>1, <2>2, <2>4 DEF TheDesk!Refuse, Accepted, Outcome
<1>4. CASE order'[o].pc # "refused"
  <2>1. Known(o)' = [kind |-> "waiting"]
    BY <1>4 DEF Reads, Early, Known
  <2>2. QED
    BY <1>1, <1>2, <2>1, KnownStays, DeskStutters
<1>5. QED
  BY <1>3, <1>4

LEMMA InsertRefines ==
  ASSUME DeskInv, NEW o \in Orders, Insert(o)
  PROVE  TheDesk!Accept(o) \/ UNCHANGED TheDesk!vars
<1>1. TheDesk!Waiting(o) /\ Known(o) = [kind |-> "waiting"]
  BY StillWaiting DEF Insert, At, Working
<1>2. Known(o)' = [kind |-> "waiting"]
  BY InsertKeepsDesk DEF Known
<1>3. Outcome' = Outcome
  BY <1>1, <1>2, KnownStays, InsertKeepsDesk
<1>4. CASE UNCHANGED status
  BY <1>3, <1>4, DeskStutters DEF Accepted
<1>5. CASE RowsOf(o) = {} /\ status' = [status EXCEPT ![o] = "OPEN"]
  <2>1. Accepted' = Accepted \cup {o}
    BY <1>5 DEF DeskInv, Shape, Accepted
  <2>2. \A p \in Accepted : KeyOf[p] # KeyOf[o]
    BY <1>5 DEF RowsOf, Accepted
  <2>3. QED
    BY <1>1, <1>3, <2>1, <2>2 DEF TheDesk!Accept, Accepted, Outcome
<1>6. QED
  BY <1>4, <1>5, InsertKeepsDesk

LEMMA ReloadRefines ==
  ASSUME DeskInv, NEW o \in Orders, Reload(o)
  PROVE  UNCHANGED TheDesk!vars
<1>1. Known(o) = [kind |-> "waiting"] /\ Known(o)' = [kind |-> "waiting"]
  BY ReloadKeepsDesk DEF Known
<1>2. QED
  BY <1>1, KnownStays, DeskStutters, ReloadKeepsDesk DEF Accepted

LEMMA AnswerRefines ==
  ASSUME DeskInv, NEW o \in Orders, Answer(o)
  PROVE  TheDesk!Tell(o)
<1>1. PICK p \in RowsOf(o) :
        order'[o].bet = {p} /\ order'[o].pc = IF p = o THEN "created" ELSE "replayed"
  BY AnswerKeepsDesk
<1>2. (CHOOSE b \in {p} : TRUE) = p
  OBVIOUS
<1>3. Known(o)' = [kind |-> IF p = o THEN "created" ELSE "replayed", bet |-> p]
  BY <1>1, <1>2 DEF Known
<1>4. Outcome' = [Outcome EXCEPT ![o] = [kind |-> IF p = o THEN "created" ELSE "replayed", bet |-> p]]
  BY <1>3, KnownMoves, AnswerKeepsDesk
<1>5. TheDesk!Waiting(o)
  BY StillWaiting, AnswerKeepsDesk DEF Working
<1>6. p \in Accepted /\ KeyOf[p] = KeyOf[o] /\ Accepted' = Accepted
  BY AnswerKeepsDesk DEF RowsOf, Accepted
<1>7. TheDesk!Answered(o)
  <2>1. Outcome'[o].kind # "waiting"
    BY <1>3 DEF Outcome
  <2>2. QED
    BY <1>5, <2>1 DEF TheDesk!Answered, Outcome
<1>8. QED
  BY <1>4, <1>6, <1>7 DEF TheDesk!Tell, Accepted, Outcome

LEMMA FailureRefines ==
  ASSUME DeskInv, NEW o \in Orders, Fails(o)
  PROVE  TheDesk!Lose(o)
<1>1. Known(o)' = [kind |-> "unknown"]
  BY FailureKeepsDesk DEF Known
<1>2. Outcome' = [Outcome EXCEPT ![o] = [kind |-> "unknown"]]
  BY <1>1, KnownMoves, FailureKeepsDesk
<1>3. TheDesk!Waiting(o) /\ Accepted' = Accepted
  BY StillWaiting, FailureKeepsDesk DEF Accepted
<1>4. TheDesk!Answered(o)
  <2>1. Outcome'[o].kind # "waiting"
    BY <1>1 DEF Outcome
  <2>2. QED
    BY <1>3, <2>1 DEF TheDesk!Answered, Outcome
<1>5. QED
  BY <1>2, <1>3, <1>4 DEF TheDesk!Lose, Accepted, Outcome

LEMMA OutsideRefines ==
  ASSUME DeskInv, Outside
  PROVE  UNCHANGED TheDesk!vars
<1>1. Accepted' = Accepted
  BY OutsideKeepsDesk DEF Accepted
<1>2. Outcome' = Outcome
  BY OutsideKeepsDesk DEF Outcome, Known
<1>3. QED
  BY <1>1, <1>2, DeskStutters

(***************************************************************************)
(* An order is told of the one bet of its key, or refused without a bet,   *)
(* or does not know: placement implements the desk, for all orders, terms  *)
(* and games.                                                              *)
(***************************************************************************)
THEOREM PlacementImplementsDesk == Spec => ImplementsDesk
<1>1. Init => TheDesk!Init
  BY DEF Init, TheDesk!Init, Known, Working
<1>2. DeskInv /\ [Next]_vars => [TheDesk!Next]_TheDesk!vars
  <2> SUFFICES ASSUME DeskInv, [Next]_vars PROVE TheDesk!Next \/ UNCHANGED TheDesk!vars
    OBVIOUS
  <2>1. Shape
    BY DEF DeskInv
  <2>2. QED
    BY <2>1, StepCases, OutsideRefines, ReadSteps, ReadRefines, InsertRefines, ReloadRefines,
       AnswerRefines, FailureRefines DEF TheDesk!Next
<1>3. QED
  BY <1>1, <1>2, DeskInvariant, PTL DEF Spec, ImplementsDesk, TheDesk!Spec

(***************************************************************************)
(* Late orders.                                                            *)
(***************************************************************************)
Closed(o, i) == ~Placeable(o, Terms[o].games[i])

\* One of the games that are still to be looked at is closed.
ClosedAhead(o) ==
  \E i \in DOMAIN Terms[o].games :
    /\ i \in Nat /\ i >= order[o].leg /\ (At(o, "lines") => i # order[o].leg)
    /\ Closed(o, i)

LateFits(o) ==
  /\ At(o, "new") => order[o].leg = 1 /\ ~order[o].late
  /\ order[o].late => /\ order[o].pc \in {"game", "lines", "refused", "failed"}
                      /\ status[o] = "NONE"
  /\ order[o].late /\ order[o].pc \in {"game", "lines"} => ClosedAhead(o)

LateInv == \A o \in Orders : LateFits(o)

\* What is closed stays closed.
LEMMA StaysClosed ==
  ASSUME [Next]_vars, NEW o \in Orders, NEW i \in DOMAIN Terms[o].games, Closed(o, i)
  PROVE  Closed(o, i)'
<1>1. Terms[o].games[i] \in Games
  BY PlacementAssumption DEF Term
<1>2. CASE UNCHANGED surroundings
  BY <1>2 DEF Closed, Placeable, surroundings
<1>3. CASE \E g \in Games : GameMoves(g)
  BY <1>1, <1>3 DEF GameMoves, Closed, Placeable, NotPlayed, GameStates
<1>4. CASE \E g \in Games : StartPasses(g)
  BY <1>4 DEF StartPasses, Closed, Placeable
<1>5. QED
  BY <1>2, <1>3, <1>4 DEF Next, Handle, Send, FetchGame, CaptureOdds, ReadProfit, CheckStake,
     Insert, Reload, Answer, Fails, Settle, surroundings, vars

\* An order that does not move stays as late as it is.
LEMMA LateStays ==
  ASSUME LateInv, [Next]_vars, NEW o \in Orders, order'[o] = order[o],
         status[o] = "NONE" => status'[o] = "NONE"
  PROVE  LateFits(o)'
BY StaysClosed DEF LateInv, LateFits, ClosedAhead, At

LEMMA SendIsLate ==
  ASSUME Shape, LateInv, DeskInv, [Next]_vars, NEW o \in Orders, Send(o)
  PROVE  LateFits(o)'
<1>1. PICK S : order \in [Orders -> Doing(S)]
  BY DEF Shape
<1>2. UNCHANGED <<surroundings, status>> /\ order[o].pc = "new" /\ order[o].leg = 1 /\ status[o] = "NONE"
  BY DEF Send, ledger, At, LateInv, LateFits, DeskInv, HandlerFits
<1> DEFINE late == \E i \in DOMAIN Terms[o].games : ~Placeable(o, Terms[o].games[i])
           pc == IF Terms[o].wellFormed THEN "game" ELSE "refused"
<1>3. order'[o].late = late /\ order'[o].pc = pc /\ order'[o].leg = 1
  <2> DEFINE replay == RowsOf(o) # {}
  <2>1. order' = [order EXCEPT ![o].pc = pc, ![o].replay = replay, ![o].late = late]
    BY DEF Send
  <2> HIDE DEF pc, replay, late
  <2>2. QED
    BY <1>1, <1>2, <2>1 DEF Doing
<1>4. ASSUME late PROVE ClosedAhead(o)'
  <2>1. PICK i \in DOMAIN Terms[o].games : Closed(o, i)
    BY <1>4 DEF Closed
  <2>2. i \in Nat /\ i >= 1
    BY PlacementAssumption DEF Term
  <2>3. Closed(o, i)'
    BY <2>1, StaysClosed
  <2>4. ~At(o, "lines")'
    BY <1>3 DEF At
  <2>5. QED
    BY <1>3, <2>2, <2>3, <2>4 DEF ClosedAhead
<1>5. QED
  BY <1>2, <1>3, <1>4 DEF LateFits, At

LEMMA FetchIsLate ==
  ASSUME Shape, LateInv, [Next]_vars, NEW o \in Orders, FetchGame(o)
  PROVE  LateFits(o)'
<1>1. PICK S : order \in [Orders -> Doing(S)]
  BY DEF Shape
<1>2. order[o].pc = "game" /\ UNCHANGED <<surroundings, status>>
  BY DEF FetchGame, At, ledger
<1>3. CASE Placeable(o, Terms[o].games[order[o].leg])
  <2>1. order'[o].pc = "lines" /\ order'[o].leg = order[o].leg /\ order'[o].late = order[o].late
    BY <1>1, <1>3 DEF FetchGame, Move, Doing
  <2>2. ASSUME ClosedAhead(o) PROVE ClosedAhead(o)'
    BY <1>3, <2>1, <2>2, StaysClosed DEF ClosedAhead, Closed, At
  <2>3. QED
    BY <1>2, <2>1, <2>2 DEF LateInv, LateFits, At
<1>4. CASE ~Placeable(o, Terms[o].games[order[o].leg])
  <2>1. order'[o].pc = "refused" /\ order'[o].late = order[o].late
    BY <1>1, <1>4 DEF FetchGame, Move, Doing
  <2>2. QED
    BY <1>2, <2>1 DEF LateInv, LateFits, At
<1>5. QED
  BY <1>3, <1>4

LEMMA CaptureIsLate ==
  ASSUME Shape, LateInv, [Next]_vars, NEW o \in Orders, CaptureOdds(o)
  PROVE  LateFits(o)'
<1>1. PICK S : order \in [Orders -> Doing(S)]
  BY DEF Shape
<1>2. order[o].pc = "lines" /\ UNCHANGED <<surroundings, status>> /\ order[o].leg \in Nat
  BY <1>1 DEF CaptureOdds, At, ledger, Doing
<1>3. CASE Move(o, "refused")
  <2>1. order'[o].pc = "refused" /\ order'[o].late = order[o].late
    BY <1>1, <1>3 DEF Move, Doing
  <2>2. QED
    BY <1>2, <2>1 DEF LateInv, LateFits, At
<1>4. CASE order' = [order EXCEPT ![o].pc = "game", ![o].leg = @ + 1]
  <2>1. order'[o].pc = "game" /\ order'[o].leg = order[o].leg + 1 /\ order'[o].late = order[o].late
    BY <1>1, <1>4 DEF Doing
  <2>2. ASSUME ClosedAhead(o) PROVE ClosedAhead(o)'
    <3>1. PICK i \in DOMAIN Terms[o].games :
            i \in Nat /\ i >= order[o].leg /\ i # order[o].leg /\ Closed(o, i)
      BY <1>2, <2>2 DEF ClosedAhead, At
    <3>2. i >= order'[o].leg /\ Closed(o, i)'
      BY <1>2, <2>1, <3>1, StaysClosed
    <3>3. QED
      BY <2>1, <3>1, <3>2 DEF ClosedAhead, At
  <2>3. QED
    BY <1>2, <2>1, <2>2 DEF LateInv, LateFits, At
<1>5. CASE order[o].leg = Len(Terms[o].games) /\ Move(o, "profit")
  <2>1. order'[o].pc = "profit" /\ order'[o].late = order[o].late
    BY <1>1, <1>5 DEF Move, Doing
  <2>2. ~ClosedAhead(o)
    <3>1. DOMAIN Terms[o].games = 1..Len(Terms[o].games)
      BY PlacementAssumption DEF Term
    <3>2. QED
      BY <1>2, <1>5, <3>1 DEF ClosedAhead, At
  <2>3. ~order[o].late
    BY <1>2, <2>2 DEF LateInv, LateFits
  <2>4. QED
    BY <2>1, <2>3 DEF LateFits, At
<1>6. QED
  BY <1>3, <1>4, <1>5 DEF CaptureOdds

\* The last steps are taken only by orders that came in time.
LEMMA RestIsLate ==
  ASSUME Shape, LateInv, NEW o \in Orders,
         ReadProfit(o) \/ CheckStake(o) \/ Insert(o) \/ Reload(o) \/ Answer(o) \/ Fails(o)
  PROVE  LateFits(o)'
<1>1. PICK S : order \in [Orders -> Doing(S)]
  BY DEF Shape
<1>2. CASE Fails(o)
  <2>1. order'[o].pc = "failed" /\ order'[o].late = order[o].late /\ UNCHANGED status
    BY <1>1, <1>2 DEF Fails, Move, Doing, ledger
  <2>2. QED
    BY <2>1 DEF LateInv, LateFits, At
<1>3. CASE ~Fails(o)
  <2>1. ~order[o].late
    BY <1>3 DEF LateInv, LateFits, ReadProfit, CheckStake, Insert, Reload, Answer, At
  <2>2. order'[o].late = order[o].late
    BY <1>1, <1>3 DEF ReadProfit, CheckStake, Insert, Reload, Answer, Move, Doing
  <2>3. order'[o].pc # "new"
    BY <1>1, <1>3 DEF ReadProfit, CheckStake, Insert, Reload, Answer, Move, Doing
  <2>4. QED
    BY <2>1, <2>2, <2>3 DEF LateFits, At
<1>4. QED
  BY <1>2, <1>3

LEMMA LateInit == Init => LateInv
BY DEF Init, LateInv, LateFits, At

LEMMA LateNext == DeskInv /\ LateInv /\ [Next]_vars => LateInv'
<1> SUFFICES ASSUME DeskInv, LateInv, [Next]_vars, NEW p \in Orders PROVE LateFits(p)'
  BY DEF LateInv
<1>1. Shape
  BY DEF DeskInv
<1>2. CASE Outside
  BY <1>2, OutsideKeepsDesk, LateStays
<1>3. ASSUME NEW o \in Orders,
             \/ Send(o) \/ FetchGame(o) \/ CaptureOdds(o) \/ ReadProfit(o) \/ CheckStake(o)
             \/ Insert(o) \/ Reload(o) \/ Answer(o) \/ Fails(o)
      PROVE  LateFits(p)'
  <2>1. CASE p = o
    BY <1>1, <1>3, <2>1, SendIsLate, FetchIsLate, CaptureIsLate, RestIsLate
  <2>2. CASE p # o
    <3>1. Only(o)
      BY <1>1, <1>3, ReadSteps, InsertKeepsDesk, ReloadKeepsDesk, AnswerKeepsDesk,
         FailureKeepsDesk DEF Reads
    <3>2. status'[p] = status[p]
      BY <1>1, <1>3, <2>2, ReadSteps, InsertKeepsDesk, ReloadKeepsDesk, AnswerKeepsDesk,
         FailureKeepsDesk DEF Reads, Shape
    <3>3. QED
      BY <2>2, <3>1, <3>2, LateStays DEF Only
  <2>3. QED
    BY <2>1, <2>2
<1>4. QED
  BY <1>2, <1>3, StepCases

(***************************************************************************)
(* An order that comes when one of its games is closed for it, the last    *)
(* leg of a parlay too, leaves no bet (place_bet, place_parlay), however   *)
(* many legs it has and whatever else is placed and graded meanwhile.      *)
(***************************************************************************)
THEOREM LateOrdersGetNoBet == Spec => []LateOrdersLeaveNoBet
<1>1. LateInv => LateOrdersLeaveNoBet
  BY DEF LateInv, LateFits, LateOrdersLeaveNoBet
<1>2. QED
  BY <1>1, LateInit, LateNext, DeskInvariant, PTL DEF Spec

(***************************************************************************)
(* Type correctness.                                                       *)
(***************************************************************************)
LegsFit == \A o \in Orders : order[o].leg \in DOMAIN Terms[o].games
TypedOrders == order \in [Orders -> Doing(Int)] /\ LegsFit

Rest ==
  /\ game \in [Games -> GameStates] /\ started \in SUBSET Games
  /\ status \in [Orders -> {"NONE", "OPEN"} \cup Graded] /\ profit \in [Orders -> Int]
  /\ overtaken \in SUBSET Orders /\ overdrawn \in SUBSET Orders

LEMMA TypeParts ==
  /\ TypeOK <=> Rest /\ TypedOrders
  /\ TypeOK' <=> Rest' /\ TypedOrders'
BY DEF TypeOK, Rest, TypedOrders, LegsFit, Doing

LEMMA TermFacts ==
  ASSUME NEW o \in Orders
  PROVE  /\ Stakes[o] = Terms[o].stake /\ Stakes[o] \in Nat /\ Terms[o].stake \in Nat
         /\ Len(Terms[o].games) \in Nat \ {0}
         /\ DOMAIN Terms[o].games = 1..Len(Terms[o].games)
<1>1. Terms[o].stake \in Nat /\ Terms[o].games \in Seq(Games) /\ Terms[o].games # << >>
  BY PlacementAssumption DEF Term
<1>2. QED
  BY <1>1 DEF Stakes

\* What the ledger is worth is a number.
LEMMA Worth ==
  ASSUME profit \in [Orders -> Int]
  PROVE  /\ IsNumeric(profit, Orders)
         /\ \A S \in SUBSET Orders : IsFiniteSet(S) /\ IsNumeric(Stakes, S)
         /\ \A S \in SUBSET Orders : SumFunctionOnSet(Stakes, S) \in Nat
         /\ TotalProfit = SumFunctionOnSet(profit, Orders)
         /\ TotalProfit \in Int /\ OpenExposure \in Nat /\ Available \in Int /\ Bankroll \in Int
<1>1. IsFiniteSet(Orders) /\ Bankroll \in Int
  BY PlacementAssumption
<1>2. IsNumeric(profit, Orders)
  BY <1>1 DEF IsNumeric
<1>3. TotalProfit = SumFunctionOnSet(profit, Orders) /\ TotalProfit \in Int
  BY <1>2, SumType DEF TotalProfit, SumFunction
<1>4. ASSUME NEW S \in SUBSET Orders
      PROVE  IsFiniteSet(S) /\ IsNumeric(Stakes, S) /\ SumFunctionOnSet(Stakes, S) \in Nat
  <2>1. IsFiniteSet(S)
    BY <1>1, FS_Subset
  <2>2. \A o \in S : Stakes[o] \in Nat
    BY TermFacts
  <2>3. QED
    BY <2>1, <2>2, SumNonnegative DEF IsNumeric
<1>5. OpenExposure \in Nat
  BY <1>4 DEF OpenExposure
<1>6. QED
  BY <1>1, <1>2, <1>3, <1>4, <1>5 DEF Available

\* A handler that stays at its leg.
LEMMA StaysTyped ==
  ASSUME TypedOrders, NEW o \in Orders, NEW j \in Doing(Int), j.leg = order[o].leg,
         order' = [order EXCEPT ![o] = j]
  PROVE  TypedOrders'
BY DEF TypedOrders, LegsFit, Doing

LEMMA MoveTyped ==
  ASSUME TypedOrders, NEW o \in Orders, NEW pc \in {"new"} \cup Working \cup Ended, Move(o, pc)
  PROVE  TypedOrders'
<1> DEFINE j == [order[o] EXCEPT !.pc = pc]
<1>1. j \in Doing(Int) /\ j.leg = order[o].leg
  BY DEF TypedOrders, Doing
<1>2. order' = [order EXCEPT ![o] = j]
  BY DEF Move
<1> HIDE DEF j
<1>3. QED
  BY <1>1, <1>2, StaysTyped

LEMMA HandlerTyped ==
  ASSUME TypeOK, NEW o \in Orders, Handle(o)
  PROVE  TypedOrders'
<1>1. TypedOrders /\ order[o] \in Doing(Int)
  BY TypeParts DEF TypedOrders
<1>2. CASE Send(o)
  <2>1. PICK pc \in {"game", "refused"}, replay \in BOOLEAN, late \in BOOLEAN :
          order' = [order EXCEPT ![o].pc = pc, ![o].replay = replay, ![o].late = late]
    BY <1>2, SendWrites
  <2> DEFINE j == [order[o] EXCEPT !.pc = pc, !.replay = replay, !.late = late]
  <2>2. order' = [order EXCEPT ![o] = j]
    BY <1>1, <2>1 DEF TypedOrders
  <2>3. j \in Doing(Int) /\ j.leg = order[o].leg
    BY <1>1 DEF Doing, Working, Ended
  <2> HIDE DEF j
  <2>4. QED
    BY <1>1, <2>2, <2>3, StaysTyped
<1>3. CASE CaptureOdds(o)
  <2>1. CASE \E pc \in {"refused", "profit"} : Move(o, pc)
    BY <1>1, <2>1, MoveTyped DEF Working, Ended
  <2>2. CASE /\ order[o].leg < Len(Terms[o].games)
             /\ order' = [order EXCEPT ![o].pc = "game", ![o].leg = @ + 1]
    <3> DEFINE j == [order[o] EXCEPT !.pc = "game", !.leg = @ + 1]
    <3>1. order' = [order EXCEPT ![o] = j]
      BY <1>1, <2>2 DEF Doing
    <3>2. order[o].leg \in 1..Len(Terms[o].games)
      BY <1>1, TermFacts DEF TypedOrders, LegsFit
    <3>3. j \in Doing(Int) /\ j.leg = order[o].leg + 1
      <4>1. order[o].leg + 1 \in Nat
        BY <3>2, TermFacts
      <4> DEFINE leg == order[o].leg + 1
      <4>2. j = [order[o] EXCEPT !.pc = "game", !.leg = leg]
        BY <1>1 DEF Doing
      <4> HIDE DEF leg, j
      <4>3. j \in Doing(Int) /\ j.leg = leg
        BY <1>1, <4>1, <4>2 DEF Doing, Working, leg
      <4>4. QED
        BY <4>3 DEF leg
    <3>4. j.leg \in DOMAIN Terms[o].games
      BY <2>2, <3>2, <3>3, TermFacts
    <3> HIDE DEF j
    <3>5. QED
      BY <1>1, <3>1, <3>3, <3>4 DEF TypedOrders, LegsFit
  <2>3. QED
    BY <1>3, <2>1, <2>2 DEF CaptureOdds
<1>4. CASE ReadProfit(o)
  <2> DEFINE saw == Bankroll + TotalProfit
             j == [order[o] EXCEPT !.pc = "exposure", !.saw = saw]
  <2>1. order' = [order EXCEPT ![o] = j]
    BY <1>1, <1>4 DEF ReadProfit
  <2>2. saw \in Int
    BY TypeParts, Worth DEF Rest
  <2> HIDE DEF saw
  <2>3. j \in Doing(Int) /\ j.leg = order[o].leg
    BY <1>1, <2>2 DEF Doing, Working
  <2> HIDE DEF j
  <2>4. QED
    BY <1>1, <2>1, <2>3, StaysTyped
<1>5. ASSUME NEW bet \in SUBSET Orders, order' = [order EXCEPT ![o].pc = "answer", ![o].bet = bet]
      PROVE  TypedOrders'
  <2> DEFINE j == [order[o] EXCEPT !.pc = "answer", !.bet = bet]
  <2>1. order' = [order EXCEPT ![o] = j]
    BY <1>1, <1>5
  <2>2. j \in Doing(Int) /\ j.leg = order[o].leg
    BY <1>1 DEF Doing, Working
  <2> HIDE DEF j
  <2>3. QED
    BY <1>1, <2>1, <2>2, StaysTyped
<1>6. CASE FetchGame(o) \/ CheckStake(o) \/ Answer(o) \/ Fails(o) \/ Move(o, "reload")
  <2>1. PICK pc \in {"new"} \cup Working \cup Ended : Move(o, pc)
    BY <1>6 DEF FetchGame, CheckStake, Answer, Fails, Working, Ended
  <2>2. QED
    BY <1>1, <2>1, MoveTyped
<1>7. CASE Insert(o)
  BY <1>5, <1>6, <1>7 DEF Insert
<1>8. CASE Reload(o)
  BY <1>5, <1>8 DEF Reload, RowsOf
<1>9. QED
  BY <1>2, <1>3, <1>4, <1>6, <1>7, <1>8 DEF Handle

LEMMA HandlerRest ==
  ASSUME TypeOK, NEW o \in Orders, Handle(o)
  PROVE  Rest'
<1>1. Rest
  BY TypeParts
<1>2. CASE Insert(o)
  BY <1>1, <1>2 DEF Insert, Rest, surroundings
<1>3. CASE ~Insert(o)
  <2>1. UNCHANGED <<surroundings, ledger, overtaken, overdrawn>>
    BY <1>3, Zenon DEF Handle, Send, FetchGame, CaptureOdds, ReadProfit, CheckStake, Reload,
       Answer, Fails
  <2>2. QED
    BY <1>1, <2>1 DEF Rest, surroundings, ledger
<1>4. QED
  BY <1>2, <1>3

LEMMA Paid ==
  ASSUME NEW grade \in Graded, NEW o \in Orders
  PROVE  /\ ProfitLoss(grade, Terms[o].stake, Odds) \in Int
         /\ grade # "LOST" => ProfitLoss(grade, Terms[o].stake, Odds) >= 0
         /\ grade = "LOST" => ProfitLoss(grade, Terms[o].stake, Odds) = -Terms[o].stake
<1>1. Odds - 1 \in Nat /\ Terms[o].stake \in Nat
  BY PlacementAssumption, TermFacts
<1>2. Terms[o].stake * (Odds - 1) \in Nat
  BY <1>1
<1>3. QED
  BY <1>1, <1>2 DEF ProfitLoss, Graded

LEMMA OutsideTyped ==
  ASSUME TypeOK,
         \/ \E g \in Games : GameMoves(g) \/ StartPasses(g)
         \/ \E o \in Orders : \E grade \in Graded : Settle(o, grade)
  PROVE  TypeOK'
<1>1. Rest /\ TypedOrders
  BY TypeParts
<1>2. UNCHANGED order
  BY DEF GameMoves, StartPasses, Settle
<1>3. TypedOrders'
  BY <1>1, <1>2 DEF TypedOrders, LegsFit
<1>4. CASE \E g \in Games : GameMoves(g) \/ StartPasses(g)
  <2>1. UNCHANGED <<ledger, overtaken, overdrawn>>
    BY <1>4 DEF GameMoves, StartPasses
  <2>2. game' \in [Games -> GameStates] /\ started' \in SUBSET Games
    BY <1>1, <1>4 DEF GameMoves, StartPasses, Rest
  <2>3. Rest'
    BY <1>1, <2>1, <2>2 DEF Rest, ledger
  <2>4. QED
    BY <1>3, <2>3, TypeParts
<1>5. ASSUME NEW o \in Orders, NEW grade \in Graded, Settle(o, grade) PROVE Rest'
  <2> DEFINE pays == ProfitLoss(grade, Terms[o].stake, Odds)
  <2>1. pays \in Int
    BY Paid
  <2>2. profit' = [profit EXCEPT ![o] = pays]
    BY <1>5 DEF Settle
  <2> HIDE DEF pays
  <2>3. profit' \in [Orders -> Int]
    BY <1>1, <2>1, <2>2 DEF Rest
  <2>4. status' \in [Orders -> {"NONE", "OPEN"} \cup Graded] /\ overtaken' \in SUBSET Orders
    BY <1>1, <1>5 DEF Settle, Rest
  <2>5. QED
    BY <1>1, <1>5, <2>3, <2>4 DEF Settle, Rest, surroundings
<1>6. QED
  BY <1>3, <1>4, <1>5, TypeParts

LEMMA TypeInit == Init => TypeOK
<1> SUFFICES ASSUME Init PROVE TypeOK
  OBVIOUS
<1>1. \A o \in Orders : 1 \in DOMAIN Terms[o].games
  BY TermFacts
<1>2. QED
  BY <1>1 DEF Init, TypeOK, GameStates, NotPlayed

LEMMA TypeNext == TypeOK /\ [Next]_vars => TypeOK'
<1> SUFFICES ASSUME TypeOK, [Next]_vars PROVE TypeOK'
  OBVIOUS
<1>1. CASE UNCHANGED vars
  BY <1>1 DEF vars, TypeOK
<1>2. CASE \E o \in Orders : Handle(o)
  BY <1>2, HandlerTyped, HandlerRest, TypeParts
<1>3. QED
  BY <1>1, <1>2, OutsideTyped DEF Next

(***************************************************************************)
(* Every state of the desk is well typed: an order works on one of its     *)
(* legs, and the profits it reads are numbers (place_bet, place_parlay).   *)
(***************************************************************************)
THEOREM TypeCorrect == Spec => []TypeOK
BY TypeInit, TypeNext, PTL DEF Spec

(***************************************************************************)
(* The bankroll.                                                           *)
(***************************************************************************)
\* A bet pays nothing before it is settled, and only bets are overdrawn.
LedgerFits ==
  /\ \A o \in Orders : status[o] \in {"NONE", "OPEN"} => profit[o] = 0
  /\ \A o \in overdrawn : status[o] # "NONE"

\* What an order knows of the bankroll still holds, unless it is overtaken:
\* the profit has not sunk below its first reading, nor what is available
\* below the stake that passed its check.
ReadingFits(o) ==
  o \notin overtaken =>
    /\ At(o, "exposure") => order[o].saw <= Bankroll + TotalProfit
    /\ At(o, "insert") => Terms[o].stake <= Available

Covered == Available + SumFunctionOnSet(Stakes, overdrawn) >= 0

SolvencyInv == LedgerFits /\ Covered /\ \A o \in Orders : ReadingFits(o)

\* Grading an open bet takes its stake out of the exposure.
LEMMA SettleWorth ==
  ASSUME TypeOK, SolvencyInv, ~Forcing, NEW b \in Orders, NEW grade \in Graded, Settle(b, grade)
  PROVE  /\ Available' >= Available
         /\ grade # "LOST" => TotalProfit' >= TotalProfit
         /\ TotalProfit' \in Int /\ Available' \in Int
<1> DEFINE pays == ProfitLoss(grade, Terms[b].stake, Odds)
           open == {o \in Orders : status[o] = "OPEN"}
<1>1. /\ pays \in Int /\ Terms[b].stake \in Nat /\ pays >= -Terms[b].stake
      /\ grade # "LOST" => pays >= 0
  BY Paid, TermFacts
<1>2. /\ status[b] = "OPEN" /\ profit[b] = 0
      /\ profit' = [profit EXCEPT ![b] = pays] /\ status' = [status EXCEPT ![b] = grade]
  BY DEF Settle, SolvencyInv, LedgerFits
<1> HIDE DEF pays
<1>3. profit \in [Orders -> Int] /\ status \in [Orders -> {"NONE", "OPEN"} \cup Graded]
  BY DEF TypeOK
<1>4. profit' \in [Orders -> Int]
  BY <1>1, <1>2, <1>3
<1>5. TotalProfit' = TotalProfit + pays
  <2>1. SumFunctionOnSet(profit', Orders) = SumFunctionOnSet(profit, Orders) + profit'[b] - profit[b]
    <3>1. IsNumeric(profit, Orders) /\ profit'[b] \in Int /\ \A o \in Orders \ {b} : profit'[o] = profit[o]
      BY <1>1, <1>2, <1>3, Worth
    <3>2. QED
      BY <3>1, SumChange
  <2>2. TotalProfit' = SumFunctionOnSet(profit', Orders) /\ TotalProfit = SumFunctionOnSet(profit, Orders)
    BY <1>3, <1>4 DEF TotalProfit, SumFunction
  <2>3. profit'[b] = pays /\ profit[b] = 0
    BY <1>2, <1>3
  <2>4. TotalProfit \in Int
    BY <1>3, Worth
  <2>5. QED
    BY <1>1, <2>1, <2>2, <2>3, <2>4
<1>6. OpenExposure = Terms[b].stake + OpenExposure'
  <2>1. {o \in Orders : status'[o] = "OPEN"} = open \ {b}
    BY <1>2, <1>3 DEF Graded
  <2>2. b \in open /\ open \in SUBSET Orders
    BY <1>2
  <2>3. OpenExposure' = SumFunctionOnSet(Stakes, open \ {b}) /\ OpenExposure = SumFunctionOnSet(Stakes, open)
    BY <2>1 DEF OpenExposure, Stakes
  <2> HIDE DEF open
  <2>4. SumFunctionOnSet(Stakes, open) = Stakes[b] + SumFunctionOnSet(Stakes, open \ {b})
    BY <1>3, <2>2, Worth, SumWithout
  <2>5. QED
    BY <2>3, <2>4, TermFacts
<1>7. TotalProfit \in Int /\ OpenExposure \in Nat /\ Bankroll \in Int
  BY <1>3, Worth
<1>8. OpenExposure' \in Int
  <2>1. {o \in Orders : status'[o] = "OPEN"} \in SUBSET Orders
    OBVIOUS
  <2>2. OpenExposure' = SumFunctionOnSet(Stakes, {o \in Orders : status'[o] = "OPEN"})
    BY DEF OpenExposure, Stakes
  <2>3. QED
    BY <1>3, <2>1, <2>2, Worth
<1>9. Available' = Bankroll + TotalProfit' - OpenExposure'
  BY DEF Available
<1>10. QED
  BY <1>1, <1>5, <1>6, <1>7, <1>8, <1>9 DEF Available

LEMMA SettleSolvent ==
  ASSUME TypeOK, SolvencyInv, ~Forcing, NEW b \in Orders, NEW grade \in Graded, Settle(b, grade)
  PROVE  SolvencyInv'
<1>1. UNCHANGED <<order, overdrawn>> /\ overtaken \subseteq overtaken'
  BY DEF Settle
<1>2. /\ status' = [status EXCEPT ![b] = grade]
      /\ profit' = [profit EXCEPT ![b] = ProfitLoss(grade, Terms[b].stake, Odds)]
  BY DEF Settle
<1>3. /\ profit \in [Orders -> Int] /\ status \in [Orders -> {"NONE", "OPEN"} \cup Graded]
      /\ order \in [Orders -> Doing(Int)] /\ overdrawn \in SUBSET Orders
  BY DEF TypeOK, Doing
<1>4. LedgerFits'
  <2>1. \A o \in Orders \ {b} : status'[o] = status[o] /\ profit'[o] = profit[o]
    BY <1>2, <1>3
  <2>2. status'[b] \notin {"NONE", "OPEN"}
    BY <1>2, <1>3 DEF Graded
  <2>3. QED
    BY <1>1, <1>3, <2>1, <2>2 DEF SolvencyInv, LedgerFits
<1>5. Available \in Int /\ TotalProfit \in Int /\ Bankroll \in Int
  BY <1>3, Worth
<1>6. Covered'
  <2>1. SumFunctionOnSet(Stakes, overdrawn)' = SumFunctionOnSet(Stakes, overdrawn)
    BY <1>1 DEF Stakes
  <2>2. SumFunctionOnSet(Stakes, overdrawn) \in Nat
    BY <1>3, Worth
  <2>3. QED
    BY <1>5, <2>1, <2>2, SettleWorth DEF SolvencyInv, Covered
<1>7. ASSUME NEW o \in Orders PROVE ReadingFits(o)'
  <2>1. ReadingFits(o) /\ order[o].saw \in Int /\ Terms[o].stake \in Nat
    BY <1>3, TermFacts DEF SolvencyInv, Doing
  <2>2. grade = "LOST" /\ At(o, "exposure") => o \in overtaken'
    BY DEF Settle
  <2>3. At(o, "exposure")' = At(o, "exposure") /\ At(o, "insert")' = At(o, "insert")
        /\ order'[o].saw = order[o].saw
    BY <1>1 DEF At
  <2>4. CASE o \in overtaken'
    BY <2>4 DEF ReadingFits
  <2>5. CASE o \notin overtaken'
    <3>1. At(o, "exposure") => order[o].saw <= Bankroll + TotalProfit'
      BY <1>1, <1>5, <2>1, <2>2, <2>5, SettleWorth DEF ReadingFits
    <3>2. At(o, "insert") => Terms[o].stake <= Available'
      BY <1>1, <1>5, <2>1, <2>5, SettleWorth DEF ReadingFits
    <3>3. QED
      BY <2>3, <3>1, <3>2 DEF ReadingFits
  <2>6. QED
    BY <2>4, <2>5
<1>8. QED
  BY <1>4, <1>6, <1>7 DEF SolvencyInv

\* A step that leaves the ledger alone keeps what the orders know that do
\* not move.
LEMMA LedgerStands ==
  ASSUME SolvencyInv, UNCHANGED <<ledger, overtaken, overdrawn>>
  PROVE  /\ LedgerFits' /\ Covered'
         /\ TotalProfit' = TotalProfit /\ Available' = Available /\ OpenExposure' = OpenExposure
         /\ \A p \in Orders : order'[p] = order[p] => ReadingFits(p)'
<1>1. TotalProfit' = TotalProfit /\ OpenExposure' = OpenExposure /\ Available' = Available
  BY DEF ledger, TotalProfit, OpenExposure, Available, Stakes
<1>2. LedgerFits'
  BY DEF SolvencyInv, LedgerFits, ledger
<1>3. Covered'
  BY <1>1 DEF SolvencyInv, Covered, Stakes
<1>4. \A p \in Orders : order'[p] = order[p] => ReadingFits(p)'
  BY <1>1 DEF SolvencyInv, ReadingFits, At
<1>5. QED
  BY <1>1, <1>2, <1>3, <1>4

LEMMA HandlerSolvent ==
  ASSUME TypeOK, SolvencyInv, NEW o \in Orders, Handle(o), ~Insert(o)
  PROVE  SolvencyInv'
<1>1. UNCHANGED <<ledger, overtaken, overdrawn>>
  BY Zenon DEF Handle, Send, FetchGame, CaptureOdds, ReadProfit, CheckStake, Reload, Answer, Fails
<1>2. order \in [Orders -> Doing(Int)]
  BY DEF TypeOK, Doing
<1>3. \A p \in Orders \ {o} : order'[p] = order[p]
  BY <1>2 DEF Handle, Send, FetchGame, CaptureOdds, ReadProfit, CheckStake, Reload, Answer, Fails, Move
<1>4. ReadingFits(o)'
  <2>1. profit \in [Orders -> Int]
    BY DEF TypeOK
  <2>2. CASE CheckStake(o)
    <3> DEFINE pc == IF Terms[o].stake > order[o].saw - OpenExposure THEN "refused" ELSE "insert"
    <3>1. order'[o].pc = pc
      BY <1>2, <2>2 DEF CheckStake, Move, Doing
    <3>2. order[o].saw \in Int /\ Terms[o].stake \in Nat /\ At(o, "exposure")
      BY <1>2, <2>2, TermFacts DEF CheckStake, Doing
    <3>3. pc = "insert" /\ o \notin overtaken => Terms[o].stake <= Available
      <4>1. o \notin overtaken => order[o].saw <= Bankroll + TotalProfit
        BY <3>2 DEF SolvencyInv, ReadingFits
      <4>2. OpenExposure \in Nat /\ TotalProfit \in Int /\ Bankroll \in Int
        BY <2>1, Worth
      <4>3. QED
        BY <3>2, <4>1, <4>2 DEF Available
    <3>4. pc # "exposure"
      OBVIOUS
    <3> HIDE DEF pc
    <3>5. QED
      BY <1>1, <3>1, <3>3, <3>4, LedgerStands DEF ReadingFits, At
  <2>3. CASE ReadProfit(o)
    <3> DEFINE saw == Bankroll + TotalProfit
    <3>1. order' = [order EXCEPT ![o].pc = "exposure", ![o].saw = saw]
      BY <2>3 DEF ReadProfit
    <3>2. saw \in Int
      BY <2>1, Worth
    <3>3. TotalProfit' = TotalProfit
      BY <1>1, LedgerStands
    <3>4. saw = Bankroll + TotalProfit'
      BY <3>3
    <3> HIDE DEF saw
    <3>5. order'[o].pc = "exposure" /\ order'[o].saw = saw
      BY <1>2, <3>1 DEF Doing
    <3>6. QED
      BY <3>2, <3>4, <3>5 DEF ReadingFits, At
  <2>4. CASE Send(o)
    <3>1. PICK pc \in {"game", "refused"}, replay \in BOOLEAN, late \in BOOLEAN :
            order' = [order EXCEPT ![o].pc = pc, ![o].replay = replay, ![o].late = late]
      BY <2>4, SendWrites
    <3>2. order'[o].pc = pc
      BY <1>2, <3>1 DEF Doing
    <3>3. QED
      BY <3>2 DEF ReadingFits, At
  <2>5. CASE FetchGame(o) \/ CaptureOdds(o) \/ Reload(o) \/ Answer(o) \/ Fails(o)
    <3>1. order'[o].pc \notin {"exposure", "insert"}
      BY <1>2, <2>5 DEF FetchGame, CaptureOdds, Reload, Answer, Fails, Move, Doing
    <3>2. QED
      BY <3>1 DEF ReadingFits, At
  <2>6. QED
    BY <2>2, <2>3, <2>4, <2>5 DEF Handle
<1>5. QED
  BY <1>1, <1>3, <1>4, LedgerStands DEF SolvencyInv

\* An insert spends what its order was granted, or is one that overdraws.
LEMMA InsertSolvent ==
  ASSUME TypeOK, SolvencyInv, NEW o \in Orders, Insert(o)
  PROVE  SolvencyInv'
<1>1. /\ order \in [Orders -> Doing(Int)] /\ profit \in [Orders -> Int]
      /\ status \in [Orders -> {"NONE", "OPEN"} \cup Graded] /\ overdrawn \in SUBSET Orders
  BY DEF TypeOK, Doing
<1>2. CASE RowsOf(o) # {}
  <2>1. UNCHANGED <<ledger, overtaken, overdrawn>> /\ Move(o, "reload")
    BY <1>2 DEF Insert, ledger
  <2>2. order'[o].pc = "reload" /\ \A p \in Orders \ {o} : order'[p] = order[p]
    BY <1>1, <2>1 DEF Move, Doing
  <2>3. ReadingFits(o)'
    BY <2>2 DEF ReadingFits, At
  <2>4. QED
    BY <2>1, <2>2, <2>3, LedgerStands DEF SolvencyInv
<1>3. CASE RowsOf(o) = {}
  <2> DEFINE open == {p \in Orders : status[p] = "OPEN"}
  <2>1. /\ order[o].pc = "insert" /\ UNCHANGED profit
        /\ status' = [status EXCEPT ![o] = "OPEN"]
        /\ order' = [order EXCEPT ![o].pc = "answer", ![o].bet = {o}]
        /\ overtaken' = overtaken \cup {p \in Orders \ {o} : At(p, "insert")}
        /\ overdrawn' = overdrawn \cup ({o} \cap overtaken)
    BY <1>3 DEF Insert, At
  <2>2. status[o] = "NONE" /\ o \notin open /\ o \notin overdrawn /\ profit[o] = 0
    <3>1. status[o] = "NONE"
      BY <1>3 DEF RowsOf
    <3>2. QED
      BY <3>1 DEF SolvencyInv, LedgerFits
  <2>3. TotalProfit' = TotalProfit
    BY <2>1 DEF TotalProfit
  <2>4. OpenExposure' = Terms[o].stake + OpenExposure
    <3>1. {p \in Orders : status'[p] = "OPEN"} = open \cup {o}
      BY <1>1, <2>1
    <3>2. OpenExposure' = SumFunctionOnSet(Stakes, open \cup {o}) /\ OpenExposure = SumFunctionOnSet(Stakes, open)
      BY <3>1 DEF OpenExposure, Stakes
    <3>3. open \cup {o} \in SUBSET Orders
      OBVIOUS
    <3> HIDE DEF open
    <3>4. SumFunctionOnSet(Stakes, open \cup {o}) = Stakes[o] + SumFunctionOnSet(Stakes, open)
      BY <1>1, <2>2, <3>3, Worth, SumWith
    <3>5. QED
      BY <3>2, <3>4, TermFacts
  <2>5. /\ OpenExposure \in Nat /\ TotalProfit \in Int /\ Bankroll \in Int /\ Terms[o].stake \in Nat
        /\ SumFunctionOnSet(Stakes, overdrawn) \in Nat
    BY <1>1, Worth, TermFacts
  <2>6. Available' = Available - Terms[o].stake /\ Available \in Int
    BY <2>3, <2>4, <2>5 DEF Available
  <2>7. LedgerFits'
    <3>1. \A p \in Orders \ {o} : status'[p] = status[p]
      BY <1>1, <2>1
    <3>2. status'[o] = "OPEN"
      BY <1>1, <2>1
    <3>3. QED
      BY <1>1, <2>1, <2>2, <3>1, <3>2 DEF SolvencyInv, LedgerFits
  <2>8. Covered'
    <3>1. Available' + SumFunctionOnSet(Stakes, overdrawn') >= 0 => Covered'
      BY DEF Covered, Stakes
    <3>2. CASE o \in overtaken
      <4>1. overdrawn' = overdrawn \cup {o} /\ overdrawn \cup {o} \in SUBSET Orders
        BY <1>1, <2>1, <3>2
      <4>2. SumFunctionOnSet(Stakes, overdrawn \cup {o}) = Stakes[o] + SumFunctionOnSet(Stakes, overdrawn)
        BY <1>1, <2>2, <4>1, Worth, SumWith
      <4>3. QED
        BY <2>5, <2>6, <3>1, <4>1, <4>2, TermFacts DEF SolvencyInv, Covered
    <3>3. CASE o \notin overtaken
      <4>1. overdrawn' = overdrawn
        BY <2>1, <3>3
      <4>2. Terms[o].stake <= Available
        BY <2>1, <3>3 DEF SolvencyInv, ReadingFits, At
      <4>3. Available' \in Nat
        BY <2>5, <2>6, <4>2
      <4>4. SumFunctionOnSet(Stakes, overdrawn') \in Nat
        BY <2>5, <4>1
      <4>5. QED
        BY <3>1, <4>3, <4>4
    <3>4. QED
      BY <3>2, <3>3
  <2>9. ASSUME NEW p \in Orders PROVE ReadingFits(p)'
    <3>1. CASE p = o
      <4>1. order'[o].pc = "answer"
        BY <1>1, <2>1 DEF Doing
      <4>2. QED
        BY <3>1, <4>1 DEF ReadingFits, At
    <3>2. CASE p # o
      <4>1. order'[p] = order[p] /\ (At(p, "insert") => p \in overtaken') /\ overtaken \subseteq overtaken'
        BY <1>1, <2>1, <3>2
      <4>2. QED
        BY <2>3, <4>1 DEF SolvencyInv, ReadingFits, At
    <3>3. QED
      BY <3>1, <3>2
  <2>10. QED
    BY <2>7, <2>8, <2>9 DEF SolvencyInv
<1>4. QED
  BY <1>2, <1>3

LEMMA SolvencyInit == Init => SolvencyInv
<1> SUFFICES ASSUME Init PROVE SolvencyInv
  OBVIOUS
<1>1. LedgerFits /\ \A o \in Orders : ReadingFits(o)
  BY DEF Init, LedgerFits, ReadingFits, At
<1>2. Available = Bankroll
  <2>1. profit \in [Orders -> Int] /\ \A o \in Orders : profit[o] = 0
    BY DEF Init
  <2>2. {o \in Orders : status[o] = "OPEN"} = {}
    BY DEF Init
  <2>3. OpenExposure = 0
    BY <2>2, SumEmpty DEF OpenExposure
  <2>4. TotalProfit = 0
    BY <2>1, Worth, SumOfZeros
  <2>5. QED
    BY <2>1, <2>3, <2>4, Worth DEF Available
<1>3. Covered
  <2>1. SumFunctionOnSet(Stakes, overdrawn) = 0 /\ Bankroll \in Nat
    BY SumEmpty, PlacementAssumption DEF Init
  <2>2. QED
    BY <1>2, <2>1 DEF Covered
<1>4. QED
  BY <1>1, <1>3 DEF SolvencyInv

LEMMA SolvencyNext == TypeOK /\ SolvencyInv /\ ~Forcing /\ [Next]_vars => SolvencyInv'
<1> SUFFICES ASSUME TypeOK, SolvencyInv, ~Forcing, [Next]_vars PROVE SolvencyInv'
  OBVIOUS
<1>1. CASE UNCHANGED vars \/ \E g \in Games : GameMoves(g) \/ StartPasses(g)
  <2>1. UNCHANGED <<ledger, overtaken, overdrawn, order>>
    BY <1>1 DEF vars, ledger, GameMoves, StartPasses
  <2>2. QED
    BY <2>1, LedgerStands DEF SolvencyInv
<1>2. QED
  BY <1>1, SettleSolvent, HandlerSolvent, InsertSolvent DEF Next

(***************************************************************************)
(* The open stakes exceed the bankroll at most by the stakes of orders     *)
(* that were inserted on an outdated reading of it (_check_bankroll), for  *)
(* any number of orders that race, any stakes and any bankroll, as long as *)
(* no bet is graded a second time.                                         *)
(***************************************************************************)
THEOREM RacesAloneOverdraw == Spec => []OnlyRacesOverdraw
<1>1. Init => (~Forcing => SolvencyInv)
  BY SolvencyInit
<1>2. TypeOK /\ (~Forcing => SolvencyInv) /\ [Next]_vars => (~Forcing => SolvencyInv)'
  BY SolvencyNext
<1>3. (~Forcing => SolvencyInv) => OnlyRacesOverdraw
  BY DEF SolvencyInv, Covered, OnlyRacesOverdraw
<1>4. QED
  BY <1>1, <1>2, <1>3, TypeCorrect, PTL DEF Spec
=============================================================================
