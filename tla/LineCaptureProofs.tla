------------------------- MODULE LineCaptureProofs --------------------------
(***************************************************************************)
(* Mappings expire, and prices are those of the game and of what was       *)
(* asked, for any games, names, lines, orders and expiry.                  *)
(***************************************************************************)
EXTENDS LineCapture, TLAPS

Place == {"new"} \cup Working \cup Ended

\* What an id that an order found by itself may be: one of the order's game.
Found(o, i) == Wants[o].given = None /\ ToldApart(Wants[o].game) => GameOf[i] = Wants[o].game

\* The id is younger than what age allows.
Recent(o, i) == Wants[o].given = None => gone[i] < Ttl + Delay + order[o].age

\* A line is the game's and what was asked for.
Asked(want, line) ==
  /\ line.market = want.market /\ line.side = want.side
  /\ want.book \in {None, line.book}
  /\ want.market \in PropMarkets => line.selection = want.selection

ListedIsPresent == \A g \in Games : gone[listing[g]] = 0

CachesOwn == \A g \in Games : ToldApart(g) /\ cache[g] # None => GameOf[cache[g].id] = g

OrderSound(o) ==
  /\ order[o].pc \in {"cache", "listing", "store"} => Wants[o].given = None
  /\ order[o].pc = "store" =>
       order[o].id \in Ids /\ gone[order[o].id] <= order[o].age /\ Found(o, order[o].id)
  /\ order[o].pc = "odds" =>
       order[o].id \in Ids /\ Found(o, order[o].id) /\ Recent(o, order[o].id)
  /\ order[o].pc = "priced" =>
       /\ Wants[o].given = None /\ ToldApart(Wants[o].game) => order[o].line.game = Wants[o].game
       /\ Consistent(Wants[o]) => Asked(Wants[o], order[o].line)

Sound ==
  /\ TypeOK
  /\ ListedIsPresent
  /\ StaleWithinTtl
  /\ CachesOwn
  /\ \A o \in Orders : OrderSound(o)

Task == [pc : Place, id : Ids \cup {None}, line : Lines \cup {None}, age : 0..Delay]

-----------------------------------------------------------------------------
\* The constants, one by one.
LEMMA Constants ==
  /\ GameOf \in [Ids -> Games] /\ None \notin Ids
  /\ Ttl \in Nat /\ Ttl > 0 /\ Delay \in Nat
  /\ \A o \in Orders : Wants[o].game \in Games /\ Wants[o].given \in Ids \cup {None}
<1>1. \A w \in Want : w.game \in Games /\ w.given \in Ids \cup {None}
  BY DEF Want
<1> QED BY <1>1, LineCaptureAssumption

\* The types, one by one.
LEMMA Typed ==
  ASSUME TypeOK
  PROVE  /\ listing \in [Games -> Ids] /\ \A g \in Games : GameOf[listing[g]] = g
         /\ gone \in [Ids -> 0..LongGone]
         /\ cache \in [Games -> Entry \cup {None}]
         /\ order \in [Orders -> Task]
BY DEF TypeOK, Task, Place

LEMMA NewIsTask ==
  /\ New \in Task
  /\ \A pc \in Place : [New EXCEPT !.pc = pc] \in Task
  /\ \A i \in Ids, pc \in Place : [New EXCEPT !.pc = pc, !.id = i] \in Task
<1>1. 0 \in 0..Delay
  BY Constants
<1>2. ASSUME NEW pc \in Place, NEW i \in Ids \cup {None}
      PROVE  [pc |-> pc, id |-> i, line |-> None, age |-> 0] \in Task
  BY <1>1 DEF Task
<1>3. New \in Task
  BY <1>2 DEF New, Place
<1>4. ASSUME NEW pc \in Place
      PROVE  [New EXCEPT !.pc = pc] \in Task
  <2>1. [New EXCEPT !.pc = pc] = [pc |-> pc, id |-> None, line |-> None, age |-> 0]
    BY DEF New
  <2> QED BY <1>2, <2>1
<1>5. ASSUME NEW i \in Ids, NEW pc \in Place
      PROVE  [New EXCEPT !.pc = pc, !.id = i] \in Task
  <2>1. ASSUME NEW t \in Task PROVE [t EXCEPT !.pc = pc, !.id = i] \in Task
    BY DEF Task
  <2> QED BY <1>3, <2>1
<1> QED BY <1>3, <1>4, <1>5

\* A fresh order, and one that ended without a price, owe nothing.
LEMMA IdleIsSound ==
  ASSUME NEW o \in Orders, order[o].pc \in {"new", "refused", "failed"}
  PROVE  OrderSound(o)
BY DEF OrderSound

LEMMA SoundInit == Init => Sound
<1> SUFFICES ASSUME Init PROVE Sound
  OBVIOUS
<1>1. LongGone \in Nat /\ 0 \in 0..LongGone /\ LongGone \in 0..LongGone
  BY Constants DEF LongGone
<1>2. order \in [Orders -> Task] /\ \A o \in Orders : order[o].pc = "new"
  BY NewIsTask DEF Init, New
<1>3. gone \in [Ids -> 0..LongGone]
  <2>1. \A i \in Ids : (IF i = listing[GameOf[i]] THEN 0 ELSE LongGone) \in 0..LongGone
    BY <1>1
  <2> QED BY <2>1 DEF Init
<1>4. TypeOK
  BY <1>2, <1>3 DEF Init, TypeOK, Task, Place
<1>5. ListedIsPresent
  BY <1>4 DEF TypeOK, Init, ListedIsPresent
<1>6. StaleWithinTtl /\ CachesOwn
  BY DEF Init, StaleWithinTtl, CachesOwn
<1> QED BY <1>2, <1>4, <1>5, <1>6, IdleIsSound DEF Sound

-----------------------------------------------------------------------------
(***************************************************************************)
(* Time: an id that is out of the listing gets older by a tick at most,    *)
(* each mapping younger by one, and each order older by one.               *)
(***************************************************************************)
LEMMA TickKeepsSound ==
  ASSUME Sound, Tick
  PROVE  Sound'
<1>0. /\ listing \in [Games -> Ids] /\ \A g \in Games : GameOf[listing[g]] = g
      /\ gone \in [Ids -> 0..LongGone]
      /\ cache \in [Games -> Entry \cup {None}]
      /\ order \in [Orders -> Task]
      /\ LongGone \in Nat
  BY Typed, Constants DEF Sound, LongGone
<1>1. listing' = listing
  BY DEF Tick
<1>2. /\ gone' \in [Ids -> 0..LongGone]
      /\ \A i \in Ids : gone'[i] \in Nat /\ gone[i] \in Nat /\ gone'[i] <= gone[i] + 1
      /\ \A g \in Games : gone'[listing[g]] = 0
  <2>1. gone' = [i \in Ids |->
                   IF i = listing[GameOf[i]] THEN 0
                   ELSE IF gone[i] < LongGone THEN gone[i] + 1 ELSE LongGone]
    BY DEF Tick
  <2>2. \A i \in Ids : gone[i] \in 0..LongGone
    BY <1>0
  <2>3. \A i \in Ids :
          LET new == IF i = listing[GameOf[i]] THEN 0
                     ELSE IF gone[i] < LongGone THEN gone[i] + 1 ELSE LongGone
          IN  new \in 0..LongGone /\ new <= gone[i] + 1
    BY <1>0, <2>2
  <2> QED BY <1>0, <2>1, <2>2, <2>3
<1>3. ASSUME NEW g \in Games
      PROVE  /\ cache'[g] \in Entry \cup {None}
             /\ cache'[g] # None =>
                  /\ cache[g] # None
                  /\ cache'[g].id = cache[g].id /\ cache'[g].id \in Ids
                  /\ cache'[g].left + 1 = cache[g].left /\ cache'[g].left \in Nat
  <2>1. cache'[g] = IF cache[g] = None \/ cache[g].left = 1 THEN None
                    ELSE [cache[g] EXCEPT !.left = @ - 1]
    BY DEF Tick
  <2>2. CASE cache[g] = None \/ cache[g].left = 1
    BY <2>1, <2>2
  <2>3. CASE cache[g] # None /\ cache[g].left # 1
    <3>1. cache[g] \in Entry
      BY <1>0, <2>3
    <3>2. \A e \in Entry : e.left # 1 =>
            /\ [e EXCEPT !.left = @ - 1] \in Entry
            /\ [e EXCEPT !.left = @ - 1].id = e.id /\ e.id \in Ids
            /\ [e EXCEPT !.left = @ - 1].left + 1 = e.left
            /\ [e EXCEPT !.left = @ - 1].left \in Nat
      BY Constants DEF Entry
    <3> QED BY <2>1, <2>3, <3>1, <3>2
  <2> QED BY <2>2, <2>3
<1>4. cache' \in [Games -> Entry \cup {None}]
  <2>1. cache' = [g \in Games |-> cache'[g]]
    BY DEF Tick
  <2> QED BY <1>3, <2>1
<1>5. ASSUME NEW o \in Orders
      PROVE  /\ order'[o] \in Task
             /\ order'[o].pc = order[o].pc /\ order'[o].id = order[o].id
             /\ order'[o].line = order[o].line
             /\ order[o].pc \in Working => order'[o].age = order[o].age + 1
             /\ order[o].age \in Nat
  <2>1. order'[o] = IF order[o].pc \in Working THEN [order[o] EXCEPT !.age = @ + 1] ELSE order[o]
    BY DEF Tick
  <2>2. order[o] \in Task /\ (order[o].pc \in Working => order[o].age < Delay)
    BY <1>0 DEF Tick
  <2>3. \A t \in Task : t.age \in Nat /\ (t.age < Delay =>
          /\ [t EXCEPT !.age = @ + 1] \in Task
          /\ [t EXCEPT !.age = @ + 1].pc = t.pc /\ [t EXCEPT !.age = @ + 1].id = t.id
          /\ [t EXCEPT !.age = @ + 1].line = t.line /\ [t EXCEPT !.age = @ + 1].age = t.age + 1)
    BY Constants DEF Task
  <2> QED BY <2>1, <2>2, <2>3
<1>6. order' \in [Orders -> Task]
  <2>1. order' = [o \in Orders |-> order'[o]]
    BY DEF Tick
  <2> QED BY <1>5, <2>1
<1>7. TypeOK'
  BY <1>0, <1>1, <1>2, <1>4, <1>6 DEF TypeOK, Task, Place
<1>8. StaleWithinTtl'
  <2> SUFFICES ASSUME NEW g \in Games, cache'[g] # None
               PROVE  cache'[g].left + gone'[cache'[g].id] <= Ttl + Delay
    BY DEF StaleWithinTtl
  <2>1. cache[g].left + gone[cache[g].id] <= Ttl + Delay
    BY <1>3 DEF Sound, StaleWithinTtl
  <2> QED BY <1>2, <1>3, <2>1, Constants
<1>9. CachesOwn'
  BY <1>3 DEF Sound, CachesOwn
<1>10. ASSUME NEW o \in Orders PROVE OrderSound(o)'
  <2>1. OrderSound(o)
    BY DEF Sound
  <2>2. order[o].pc \in {"store", "odds"} => order'[o].age = order[o].age + 1
    BY <1>5 DEF Working
  <2>3. CASE order[o].pc \in {"store", "odds"}
    BY <1>2, <1>5, <2>1, <2>2, <2>3, Constants DEF OrderSound, Found, Recent
  <2>4. CASE order[o].pc \notin {"store", "odds"}
    BY <1>5, <2>1, <2>4 DEF OrderSound
  <2> QED BY <2>3, <2>4
<1> QED BY <1>1, <1>2, <1>7, <1>8, <1>9, <1>10 DEF Sound, ListedIsPresent

(***************************************************************************)
(* A new listing: no id gets older.                                        *)
(***************************************************************************)
LEMMA RelistKeepsSound ==
  ASSUME Sound, NEW g \in Games, Relist(g)
  PROVE  Sound'
<1>0. /\ listing \in [Games -> Ids] /\ \A h \in Games : GameOf[listing[h]] = h
      /\ gone \in [Ids -> 0..LongGone]
      /\ cache \in [Games -> Entry \cup {None}]
      /\ order \in [Orders -> Task]
      /\ LongGone \in Nat
  BY Typed, Constants DEF Sound, LongGone
<1>1. PICK i \in Ids \ {listing[g]} :
        /\ GameOf[i] = g
        /\ listing' = [listing EXCEPT ![g] = i]
        /\ gone' = [gone EXCEPT ![i] = 0, ![listing[g]] = 0]
  BY DEF Relist
<1>2. cache' = cache /\ order' = order
  BY DEF Relist
<1>3. listing' \in [Games -> Ids] /\ \A h \in Games : GameOf[listing'[h]] = h
  BY <1>0, <1>1
<1>4. gone' \in [Ids -> 0..LongGone] /\ \A j \in Ids : gone'[j] \in Nat /\ gone[j] \in Nat /\ gone'[j] <= gone[j]
  <2>1. \A j \in Ids : gone'[j] = IF j \in {i, listing[g]} THEN 0 ELSE gone[j]
    BY <1>0, <1>1
  <2>2. \A j \in Ids : gone[j] \in 0..LongGone
    BY <1>0
  <2> QED BY <1>0, <1>1, <2>1, <2>2
<1>5. TypeOK'
  BY <1>0, <1>2, <1>3, <1>4 DEF TypeOK, Task, Place
<1>6. ListedIsPresent'
  BY <1>0, <1>1 DEF Sound, ListedIsPresent
<1>7. StaleWithinTtl'
  <2> SUFFICES ASSUME NEW h \in Games, cache[h] # None
               PROVE  cache[h].left + gone'[cache[h].id] <= Ttl + Delay
    BY <1>2 DEF StaleWithinTtl
  <2>1. cache[h].id \in Ids /\ cache[h].left \in Nat
    BY <1>0, Constants DEF Entry
  <2>2. cache[h].left + gone[cache[h].id] <= Ttl + Delay
    BY DEF Sound, StaleWithinTtl
  <2> QED BY <1>4, <2>1, <2>2, Constants
<1>8. ASSUME NEW o \in Orders PROVE OrderSound(o)'
  <2>1. OrderSound(o) /\ order[o].age \in Nat
    BY <1>0, Constants DEF Sound, Task
  <2> QED BY <1>2, <1>4, <2>1, Constants DEF OrderSound, Found, Recent
<1> QED BY <1>2, <1>5, <1>6, <1>7, <1>8 DEF Sound, CachesOwn

-----------------------------------------------------------------------------
(***************************************************************************)
(* A step of one order that leaves the listing, its history and every      *)
(* mapping alone keeps Sound if the order itself stays sound.              *)
(***************************************************************************)
LEMMA OneOrder ==
  ASSUME Sound, NEW o \in Orders, NEW t \in Task,
         order' = [order EXCEPT ![o] = t], UNCHANGED <<listing, gone, cache>>,
         OrderSound(o)'
  PROVE  Sound'
<1>0. order \in [Orders -> Task]
  BY Typed DEF Sound
<1>1. order' \in [Orders -> Task]
  BY <1>0
<1>2. TypeOK'
  BY <1>1 DEF Sound, TypeOK, Task, Place
<1>3. ASSUME NEW p \in Orders PROVE OrderSound(p)'
  <2>1. CASE p = o
    BY <2>1
  <2>2. CASE p # o
    <3>1. order'[p] = order[p]
      BY <1>0, <2>2
    <3> QED BY <3>1 DEF Sound, OrderSound, Found, Recent
  <2> QED BY <2>1, <2>2
<1> QED BY <1>2, <1>3 DEF Sound, ListedIsPresent, StaleWithinTtl, CachesOwn

\* Writing one field or two of a task.
LEMMA Writes ==
  ASSUME NEW o \in Orders, NEW pc \in Place, NEW i \in Ids \cup {None}, NEW l \in Lines \cup {None},
         order \in [Orders -> Task]
  PROVE  /\ order[o] \in Task /\ order[o].age \in Nat /\ order[o].age <= Delay
         /\ [order EXCEPT ![o].pc = pc, ![o].id = i]
              = [order EXCEPT ![o] = [order[o] EXCEPT !.pc = pc, !.id = i]]
         /\ [order EXCEPT ![o].pc = pc, ![o].line = l]
              = [order EXCEPT ![o] = [order[o] EXCEPT !.pc = pc, !.line = l]]
         /\ [order[o] EXCEPT !.pc = pc, !.id = i] \in Task
         /\ [order[o] EXCEPT !.pc = pc, !.line = l] \in Task
<1>1. order[o] \in Task
  OBVIOUS
<1>2. ASSUME NEW t \in Task
      PROVE  /\ [t EXCEPT !.pc = pc, !.id = i] \in Task
             /\ [t EXCEPT !.pc = pc, !.line = l] \in Task
             /\ t.age \in Nat /\ t.age <= Delay
  <2>1. t.id \in Ids \cup {None} /\ t.line \in Lines \cup {None} /\ t.pc \in Place /\ t.age \in 0..Delay
    BY DEF Task
  <2>2. t.age \in Nat /\ t.age <= Delay
    BY <2>1, Constants
  <2>6. [t EXCEPT !.pc = pc, !.id = i] \in Task
    BY <2>1 DEF Task
  <2>7. [t EXCEPT !.pc = pc, !.line = l] \in Task
    BY <2>1 DEF Task
  <2> QED BY <2>2, <2>6, <2>7
<1> QED BY <1>1, <1>2

LEMMA EndKeepsSound ==
  ASSUME Sound, NEW o \in Orders, NEW pc \in {"refused", "failed"}, End(o, pc),
         UNCHANGED <<listing, gone, cache>>
  PROVE  Sound'
<1>1. order \in [Orders -> Task]
  BY Typed DEF Sound
<1>2. [New EXCEPT !.pc = pc] \in Task
  BY NewIsTask DEF Place, Ended
<1>3. order' = [order EXCEPT ![o] = [New EXCEPT !.pc = pc]] /\ order'[o].pc = pc
  BY <1>1 DEF End, New
<1>4. OrderSound(o)'
  BY <1>3 DEF OrderSound
<1> QED BY <1>2, <1>3, <1>4, OneOrder

LEMMA SendKeepsSound ==
  ASSUME Sound, NEW o \in Orders, Send(o)
  PROVE  Sound'
<1>0. order \in [Orders -> Task] /\ gone \in [Ids -> 0..LongGone]
  BY Typed DEF Sound
<1>1. UNCHANGED <<listing, gone, cache>>
  BY DEF Send
<1>2. CASE Wants[o].given = None
  <2>1. [New EXCEPT !.pc = "cache"] \in Task
    BY NewIsTask DEF Place, Working
  <2>2. order' = [order EXCEPT ![o] = [New EXCEPT !.pc = "cache"]] /\ order'[o].pc = "cache"
    BY <1>0, <1>2 DEF Send, New
  <2>3. OrderSound(o)'
    BY <1>2, <2>2 DEF OrderSound
  <2> QED BY <1>1, <2>1, <2>2, <2>3, OneOrder
<1>3. CASE Wants[o].given # None
  <2>0. Wants[o].given \in Ids
    BY <1>3, Constants
  <2>1. [New EXCEPT !.pc = "odds", !.id = Wants[o].given] \in Task
    BY <2>0, NewIsTask DEF Place, Working
  <2>2. /\ order' = [order EXCEPT ![o] = [New EXCEPT !.pc = "odds", !.id = Wants[o].given]]
        /\ order'[o].pc = "odds" /\ order'[o].id = Wants[o].given
    BY <1>0, <1>3 DEF Send, New
  <2>3. OrderSound(o)'
    BY <1>3, <2>0, <2>2 DEF OrderSound, Found, Recent
  <2> QED BY <1>1, <2>1, <2>2, <2>3, OneOrder
<1> QED BY <1>2, <1>3

LEMMA FailKeepsSound ==
  ASSUME Sound, NEW o \in Orders, Fail(o)
  PROVE  Sound'
BY EndKeepsSound DEF Fail

(***************************************************************************)
(* A hit: what the mapping has left bounds the age of the id it names.     *)
(***************************************************************************)
LEMMA ReadCacheKeepsSound ==
  ASSUME Sound, NEW o \in Orders, ReadCache(o)
  PROVE  Sound'
<1> DEFINE g == Wants[o].game
<1>0. /\ order \in [Orders -> Task] /\ gone \in [Ids -> 0..LongGone]
      /\ cache \in [Games -> Entry \cup {None}] /\ g \in Games
  BY Typed, Constants DEF Sound
<1>1. UNCHANGED <<listing, gone, cache>> /\ order[o].pc = "cache"
  BY DEF ReadCache, At
<1>2. Wants[o].given = None
  BY <1>1 DEF Sound, OrderSound
<1>3. CASE Go(o, "listing", None)
  <2>1. order' = [order EXCEPT ![o] = [order[o] EXCEPT !.pc = "listing", !.id = None]]
        /\ [order[o] EXCEPT !.pc = "listing", !.id = None] \in Task
    BY <1>0, <1>3, Writes DEF Go, Place, Working
  <2>2. order'[o].pc = "listing"
    BY <1>0, <2>1, Writes DEF Task
  <2>3. OrderSound(o)'
    BY <1>2, <2>2 DEF OrderSound
  <2> QED BY <1>1, <2>1, <2>3, OneOrder
<1>4. CASE cache[g] # None /\ Go(o, "odds", cache[g].id)
  <2>0. cache[g].id \in Ids /\ cache[g].left \in Nat /\ cache[g].left >= 1
    BY <1>0, <1>4, Constants DEF Entry
  <2>1. /\ order' = [order EXCEPT ![o] = [order[o] EXCEPT !.pc = "odds", !.id = cache[g].id]]
        /\ [order[o] EXCEPT !.pc = "odds", !.id = cache[g].id] \in Task
        /\ order[o] \in Task /\ order[o].age \in Nat
    BY <1>0, <1>4, <2>0, Writes DEF Go, Place, Working
  <2>2. order'[o].pc = "odds" /\ order'[o].id = cache[g].id /\ order'[o].age = order[o].age
    BY <1>0, <2>1 DEF Task
  <2>3. gone[cache[g].id] < Ttl + Delay + order[o].age
    <3>1. cache[g].left + gone[cache[g].id] <= Ttl + Delay
      BY <1>0, <1>4 DEF Sound, StaleWithinTtl
    <3>2. gone[cache[g].id] \in Nat
      BY <1>0, <2>0
    <3> QED BY <2>0, <2>1, <3>1, <3>2, Constants
  <2>4. ToldApart(g) => GameOf[cache[g].id] = g
    BY <1>0, <1>4 DEF Sound, CachesOwn
  <2>5. OrderSound(o)'
    BY <1>1, <2>0, <2>2, <2>3, <2>4 DEF OrderSound, Found, Recent
  <2> QED BY <1>1, <2>1, <2>5, OneOrder
<1> QED BY <1>3, <1>4 DEF ReadCache

(***************************************************************************)
(* A match in the listing is the game itself if it is told apart, because  *)
(* what the query returns is of its slot.                                  *)
(***************************************************************************)
LEMMA MatchesAreOwn ==
  ASSUME NEW g \in Games, NEW h \in Slated(g), NamesMatch(g, h), ToldApart(g)
  PROVE  h = g
BY DEF Slated, ToldApart

LEMMA ReadListingKeepsSound ==
  ASSUME Sound, NEW o \in Orders, ReadListing(o)
  PROVE  Sound'
<1> DEFINE g == Wants[o].game
<1>0. /\ order \in [Orders -> Task] /\ g \in Games
      /\ listing \in [Games -> Ids] /\ \A h \in Games : GameOf[listing[h]] = h
  BY Typed, Constants DEF Sound
<1>1. UNCHANGED <<listing, gone, cache>> /\ order[o].pc = "listing"
  BY DEF ReadListing, At
<1>2. Wants[o].given = None
  BY <1>1 DEF Sound, OrderSound
<1>3. CASE End(o, "refused")
  BY <1>1, <1>3, EndKeepsSound
<1>4. CASE \E h \in Slated(g) : NamesMatch(g, h) /\ Go(o, "store", listing[h])
  <2>1. PICK h \in Slated(g) : NamesMatch(g, h) /\ Go(o, "store", listing[h])
    BY <1>4
  <2>2. h \in Games /\ listing[h] \in Ids /\ GameOf[listing[h]] = h /\ gone[listing[h]] = 0
    BY <1>0 DEF Slated, Sound, ListedIsPresent
  <2>3. /\ order' = [order EXCEPT ![o] = [order[o] EXCEPT !.pc = "store", !.id = listing[h]]]
        /\ [order[o] EXCEPT !.pc = "store", !.id = listing[h]] \in Task
        /\ order[o] \in Task /\ order[o].age \in Nat
    BY <1>0, <2>1, <2>2, Writes DEF Go, Place, Working
  <2>4. order'[o].pc = "store" /\ order'[o].id = listing[h] /\ order'[o].age = order[o].age
    BY <1>0, <2>3 DEF Task
  <2>5. ToldApart(g) => GameOf[listing[h]] = g
    BY <1>0, <2>1, <2>2, MatchesAreOwn
  <2>6. OrderSound(o)'
    BY <1>1, <1>2, <2>2, <2>3, <2>4, <2>5 DEF OrderSound, Found
  <2> QED BY <1>1, <2>3, <2>6, OneOrder
<1> QED BY <1>3, <1>4 DEF ReadListing

(***************************************************************************)
(* The mapping that is written lives for Ttl, and names an id that has     *)
(* been out of the listing for no longer than the order has lasted.        *)
(***************************************************************************)
LEMMA StoreKeepsSound ==
  ASSUME Sound, NEW o \in Orders, Store(o)
  PROVE  Sound'
<1> DEFINE g == Wants[o].game
           i == order[o].id
           e == [id |-> i, left |-> Ttl]
<1>0. /\ order \in [Orders -> Task] /\ g \in Games /\ gone \in [Ids -> 0..LongGone]
      /\ cache \in [Games -> Entry \cup {None}]
  BY Typed, Constants DEF Sound
<1>1. /\ order[o].pc = "store" /\ UNCHANGED <<listing, gone>>
      /\ cache' = [cache EXCEPT ![g] = e] /\ Go(o, "odds", i)
  BY DEF Store, At
<1>2. Wants[o].given = None /\ i \in Ids /\ gone[i] <= order[o].age /\ Found(o, i)
  BY <1>1 DEF Sound, OrderSound
<1>3. /\ order' = [order EXCEPT ![o] = [order[o] EXCEPT !.pc = "odds", !.id = i]]
      /\ [order[o] EXCEPT !.pc = "odds", !.id = i] \in Task
      /\ order[o] \in Task /\ order[o].age \in Nat /\ order[o].age <= Delay
  BY <1>0, <1>1, <1>2, Writes DEF Go, Place, Working
<1>4. order' \in [Orders -> Task]
  BY <1>0, <1>3
<1>5. e \in Entry /\ cache' \in [Games -> Entry \cup {None}]
  <2>1. Ttl \in 1..Ttl
    BY Constants
  <2>2. e \in Entry
    BY <1>2, <2>1 DEF Entry
  <2> QED BY <1>0, <1>1, <2>2
<1>6. TypeOK'
  BY <1>1, <1>4, <1>5 DEF Sound, TypeOK, Task, Place
<1>7. gone[i] \in Nat /\ gone[i] <= Delay
  BY <1>0, <1>2, <1>3, Constants
<1>8. \A h \in Games \ {g} : cache'[h] = cache[h]
  BY <1>0, <1>1
<1>9. cache'[g].id = i /\ cache'[g].left = Ttl
  BY <1>0, <1>1
<1>10. StaleWithinTtl'
  <2> SUFFICES ASSUME NEW h \in Games, cache'[h] # None
               PROVE  cache'[h].left + gone[cache'[h].id] <= Ttl + Delay
    BY <1>1 DEF StaleWithinTtl
  <2>1. CASE h = g
    BY <1>7, <1>9, <2>1, Constants
  <2>2. CASE h # g
    BY <1>8, <2>2 DEF Sound, StaleWithinTtl
  <2> QED BY <2>1, <2>2
<1>11. CachesOwn'
  <2> SUFFICES ASSUME NEW h \in Games, ToldApart(h), cache'[h] # None
               PROVE  GameOf[cache'[h].id] = h
    BY DEF CachesOwn
  <2>1. CASE h = g
    BY <1>2, <1>9, <2>1 DEF Found
  <2>2. CASE h # g
    BY <1>8, <2>2 DEF Sound, CachesOwn
  <2> QED BY <2>1, <2>2
<1>12. ASSUME NEW p \in Orders PROVE OrderSound(p)'
  <2>1. CASE p = o
    <3>1. order'[o].pc = "odds" /\ order'[o].id = i /\ order'[o].age = order[o].age
      BY <1>0, <1>3 DEF Task
    <3>2. gone[i] < Ttl + Delay + order[o].age
      BY <1>3, <1>7, Constants
    <3> QED BY <1>1, <1>2, <2>1, <3>1, <3>2 DEF OrderSound, Found, Recent
  <2>2. CASE p # o
    <3>1. order'[p] = order[p]
      BY <1>0, <1>3, <2>2
    <3> QED BY <1>1, <3>1 DEF Sound, OrderSound, Found, Recent
  <2> QED BY <2>1, <2>2
<1> QED BY <1>1, <1>6, <1>10, <1>11, <1>12 DEF Sound, ListedIsPresent

(***************************************************************************)
(* Whatever is offered, a pick is an offered line that matches, and a line *)
(* that matches a consistent order is what was asked for.                  *)
(***************************************************************************)
LEMMA PicksMatch ==
  ASSUME NEW want, NEW offered, NEW l \in Picks(want, offered)
  PROVE  /\ l \in offered
         /\ IF want.book # None THEN PinnedMatch(want, l) ELSE BestMatch(want, l)
BY DEF Picks, Freshest

LEMMA MatchesAreAsked ==
  ASSUME NEW want, NEW l \in Lines, Consistent(want),
         IF want.book # None THEN PinnedMatch(want, l) ELSE BestMatch(want, l)
  PROVE  Asked(want, l)
BY DEF Consistent, Asked, PinnedMatch, BestMatch

LEMMA CaptureKeepsSound ==
  ASSUME Sound, NEW o \in Orders, CaptureOdds(o)
  PROVE  Sound'
<1> DEFINE want == Wants[o]
<1>0. order \in [Orders -> Task]
  BY Typed DEF Sound
<1>1. UNCHANGED <<listing, gone, cache>> /\ order[o].pc = "odds"
  BY DEF CaptureOdds, At
<1>2. Found(o, order[o].id)
  BY <1>1 DEF Sound, OrderSound
<1>3. CASE End(o, "refused")
  BY <1>1, <1>3, EndKeepsSound
<1>4. ASSUME NEW offered \in SUBSET {l \in Lines : l.game = GameOf[order[o].id]},
             NEW l \in Picks(want, offered),
             order' = [order EXCEPT ![o].pc = "priced", ![o].line = l]
      PROVE  Sound'
  <2>1. l \in Lines /\ l.game = GameOf[order[o].id]
        /\ IF want.book # None THEN PinnedMatch(want, l) ELSE BestMatch(want, l)
    BY <1>4, PicksMatch
  <2>2. /\ order' = [order EXCEPT ![o] = [order[o] EXCEPT !.pc = "priced", !.line = l]]
        /\ [order[o] EXCEPT !.pc = "priced", !.line = l] \in Task /\ order[o] \in Task
    BY <1>0, <1>4, <2>1, Writes, Constants DEF Place, Ended
  <2>3. order'[o].pc = "priced" /\ order'[o].line = l
    BY <1>0, <2>2 DEF Task
  <2>4. Consistent(want) => Asked(want, l)
    BY <2>1, MatchesAreAsked
  <2>5. OrderSound(o)'
    BY <1>2, <2>1, <2>3, <2>4 DEF OrderSound, Found
  <2> QED BY <1>1, <2>2, <2>5, OneOrder
<1> QED BY <1>3, <1>4 DEF CaptureOdds

-----------------------------------------------------------------------------
LEMMA SoundStep == Sound /\ [Next]_vars => Sound'
<1> SUFFICES ASSUME Sound, [Next]_vars PROVE Sound'
  OBVIOUS
<1>1. CASE UNCHANGED vars
  <2>1. TypeOK' /\ ListedIsPresent' /\ StaleWithinTtl' /\ CachesOwn'
    BY <1>1 DEF vars, Sound, TypeOK, ListedIsPresent, StaleWithinTtl, CachesOwn
  <2>2. \A o \in Orders : OrderSound(o)'
    BY <1>1 DEF vars, Sound, OrderSound, Found, Recent
  <2> QED BY <2>1, <2>2 DEF Sound
<1> QED
  BY <1>1, TickKeepsSound, RelistKeepsSound, SendKeepsSound, FailKeepsSound, ReadCacheKeepsSound,
     ReadListingKeepsSound, StoreKeepsSound, CaptureKeepsSound
  DEF Next, Service

LEMMA AlwaysSound == Spec => []Sound
  BY SoundInit, SoundStep, PTL DEF Spec

(***************************************************************************)
(* A mapping outlives a correction of the listing by Ttl and the time of   *)
(* one request at most, however many orders use or write it.               *)
(***************************************************************************)
THEOREM MappingsExpire == Spec => [](TypeOK /\ StaleWithinTtl)
<1>1. Sound => TypeOK /\ StaleWithinTtl
  BY DEF Sound
<1> QED BY <1>1, AlwaysSound, PTL

(***************************************************************************)
(* Bets on a game that its names tell apart are priced on that game.       *)
(***************************************************************************)
THEOREM OwnGamesOnly == Spec => []PricedOnOwnGame
<1>1. Sound => PricedOnOwnGame
  BY DEF Sound, PricedOnOwnGame, CachesOwn, OrderSound, At
<1> QED BY <1>1, AlwaysSound, PTL

(***************************************************************************)
(* Consistent orders get the price of what they ask for.                   *)
(***************************************************************************)
THEOREM AskedLinesOnly == Spec => []PricedAsAsked
<1>1. Sound => PricedAsAsked
  BY DEF Sound, PricedAsAsked, OrderSound, Asked, At
<1> QED BY <1>1, AlwaysSound, PTL

(***************************************************************************)
(* No price is captured under an id that left the listing longer ago than  *)
(* a mapping and two requests last.                                        *)
(***************************************************************************)
THEOREM RecentPrices == Spec => PricesAreRecent
<1>1. ASSUME Sound, NEW o \in Orders, At(o, "odds"), Wants[o].given = None
      PROVE  gone[order[o].id] < Ttl + 2 * Delay
  <2>1. order[o] \in Task /\ gone \in [Ids -> 0..LongGone]
    BY <1>1, Typed DEF Sound
  <2>2. order[o].age \in Nat /\ order[o].age <= Delay
    BY <2>1, Constants DEF Task
  <2>3. order[o].id \in Ids /\ gone[order[o].id] < Ttl + Delay + order[o].age
    BY <1>1 DEF Sound, OrderSound, At, Recent
  <2> QED BY <2>1, <2>2, <2>3, Constants DEF LongGone
<1>2. Sound /\ [Next]_vars =>
        [\A o \in Orders :
           At(o, "odds") /\ At(o, "priced")' /\ Wants[o].given = None
             => gone[order[o].id] < Ttl + 2 * Delay]_vars
  BY <1>1
<1> QED BY <1>2, AlwaysSound, PTL DEF Spec, PricesAreRecent
=============================================================================
