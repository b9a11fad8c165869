---------------------------- MODULE LineCapture -----------------------------
(***************************************************************************)
(* Where the price of a bet comes from.  A game of statistics-service is   *)
(* looked up in lines-service by its date and the names of its teams, the  *)
(* answer is kept in Redis for Ttl, and the odds are captured under the id *)
(* so found (GameReconciler.resolve, BetService._capture_odds).  An order  *)
(* is a single bet or one leg of a parlay.                                 *)
(*                                                                         *)
(* lines-service may list a game again under another id; the old id then   *)
(* knows no lines, or still the ones it had.  Time is counted in ticks, a  *)
(* fraction of the day that Ttl stands for; a request ends within Delay.   *)
(***************************************************************************)
EXTENDS Naturals, FiniteSets

CONSTANTS
  Games,
  Fixture,   \* of a game: its slot (league and date, None if the start is no
             \* date) and the names of its teams
  Begins,    \* pairs of names of which the first begins with the second
  Ids,       \* external ids of lines-service
  GameOf,    \* the game that an id denotes
  Lines,     \* what lines-service may offer, under any id of the game
  Orders,
  Wants,     \* what an order asks for
  Ttl,       \* game_map_ttl_seconds, in ticks
  Delay,     \* ticks that may pass while a request is under way
  None

Want == [game : Games, given : Ids \cup {None}, market : STRING, side : STRING,
         selection : STRING, book : STRING \cup {None}, live : BOOLEAN]
Line == [game : Games, market : STRING, side : STRING, selection : STRING,
         book : STRING, live : BOOLEAN, stamp : Nat]

ASSUME LineCaptureAssumption ==
  /\ GameOf \in [Ids -> Games] /\ None \notin Ids
  /\ Wants \in [Orders -> Want] /\ Lines \subseteq Line
  /\ Ttl \in Nat \ {0} /\ Delay \in Nat

\* Beyond this an id is gone for longer than any bound below.
LongGone == Ttl + 2 * Delay + 1

VARIABLES
  listing,  \* the id under which lines-service lists a game
  gone,     \* history: ticks for which an id has been out of the listing
  cache,    \* emu:gamemap, the entries that have not expired: id and time left
  order     \* per order: the await it has reached, the id it found and the
            \* line it captured; history: ticks since it was sent

vars == <<listing, gone, cache, order>>

Entry == [id : Ids, left : 1..Ttl]
Working == {"cache", "listing", "store", "odds"}
Ended == {"priced", "refused", "failed"}

TypeOK ==
  /\ listing \in [Games -> Ids]
  /\ \A g \in Games : GameOf[listing[g]] = g
  /\ gone \in [Ids -> 0..LongGone]
  /\ cache \in [Games -> Entry \cup {None}]
  /\ order \in [Orders -> [pc : {"new"} \cup Working \cup Ended, id : Ids \cup {None},
                           line : Lines \cup {None}, age : 0..Delay]]

New == [pc |-> "new", id |-> None, line |-> None, age |-> 0]

Init ==
  /\ listing \in [Games -> Ids]
  /\ \A g \in Games : GameOf[listing[g]] = g
  /\ gone = [i \in Ids |-> IF i = listing[GameOf[i]] THEN 0 ELSE LongGone]
  /\ cache = [g \in Games |-> None]
  /\ order = [o \in Orders |-> New]

At(o, pc) == order[o].pc = pc
Go(o, pc, i) == order' = [order EXCEPT ![o].pc = pc, ![o].id = i]
End(o, pc) == order' = [order EXCEPT ![o] = [New EXCEPT !.pc = pc]]
-----------------------------------------------------------------------------
(***************************************************************************)
(* The surroundings.                                                       *)
(***************************************************************************)

\* Time passes, and Redis drops what has expired.
Tick ==
  /\ \A o \in Orders : order[o].pc \in Working => order[o].age < Delay
  /\ gone' = [i \in Ids |->
                IF i = listing[GameOf[i]] THEN 0
                ELSE IF gone[i] < LongGone THEN gone[i] + 1 ELSE LongGone]
  /\ cache' = [g \in Games |->
                 IF cache[g] = None \/ cache[g].left = 1 THEN None
                 ELSE [cache[g] EXCEPT !.left = @ - 1]]
  /\ order' = [o \in Orders |-> IF order[o].pc \in Working THEN [order[o] EXCEPT !.age = @ + 1]
                                ELSE order[o]]
  /\ UNCHANGED listing

\* A game is listed under another id from now on.
Relist(g) ==
  /\ \E i \in Ids \ {listing[g]} :
       /\ GameOf[i] = g
       /\ listing' = [listing EXCEPT ![g] = i]
       /\ gone' = [gone EXCEPT ![i] = 0, ![listing[g]] = 0]
  /\ UNCHANGED <<cache, order>>

\* A client sends an order, or sends again what was not placed.
Send(o) ==
  /\ order[o].pc \in {"new", "refused", "failed"}
  /\ order' = [order EXCEPT
       ![o] = IF Wants[o].given = None THEN [New EXCEPT !.pc = "cache"]
              ELSE [New EXCEPT !.pc = "odds", !.id = Wants[o].given]]
  /\ UNCHANGED <<listing, gone, cache>>

\* Redis, or lines-service when it is asked for odds, does not answer.
Fail(o) ==
  /\ order[o].pc \in {"cache", "store", "odds"}
  /\ End(o, "failed")
  /\ UNCHANGED <<listing, gone, cache>>
-----------------------------------------------------------------------------
(***************************************************************************)
(* GameReconciler.resolve.                                                 *)
(***************************************************************************)

\* Mutant: a hit starts the expiry anew.
ReadCache_Touches(o) ==
  LET g == Wants[o].game IN
  /\ At(o, "cache")
  /\ \/ cache[g] = None /\ Go(o, "listing", None) /\ UNCHANGED cache
     \/ /\ cache[g] # None /\ Go(o, "odds", cache[g].id)
        /\ cache' = [cache EXCEPT ![g].left = Ttl]
  /\ UNCHANGED <<listing, gone>>

ReadCache(o) ==
  LET g == Wants[o].game IN
  /\ At(o, "cache")
  /\ \/ cache[g] = None /\ Go(o, "listing", None)
     \/ cache[g] # None /\ Go(o, "odds", cache[g].id)
  /\ UNCHANGED <<listing, gone, cache>>

\* Mutant: the query leaves the date out.
Slated_AnyDate(g) == Games

\* The games whose moneyline rows a query by league and date returns.
Slated(g) == {h \in Games : Fixture[g].slot \in {None, Fixture[h].slot}}

\* A HOME row that begins with the home name, or an AWAY row that begins
\* with the away name; rows of a draw are skipped.
NamesMatch(g, h) ==
  \/ <<Fixture[h].home, Fixture[g].home>> \in Begins
  \/ <<Fixture[h].away, Fixture[g].away>> \in Begins

\* current_lines: a page of rows in no order that matters to lines-service,
\* of which the first match is taken.  No answer counts as no match.
ReadListing(o) ==
  LET g == Wants[o].game IN
  /\ At(o, "listing")
  /\ \/ \E h \in Slated(g) : NamesMatch(g, h) /\ Go(o, "store", listing[h])
     \/ End(o, "refused")
  /\ UNCHANGED <<listing, gone, cache>>

Store(o) ==
  /\ At(o, "store")
  /\ cache' = [cache EXCEPT ![Wants[o].game] = [id |-> order[o].id, left |-> Ttl]]
  /\ Go(o, "odds", order[o].id)
  /\ UNCHANGED <<listing, gone>>
-----------------------------------------------------------------------------
(***************************************************************************)
(* BetService._capture_odds.                                               *)
(***************************************************************************)
PropMarkets == {"PLAYER_PROP", "TEAM_PROP", "GAME_PROP"}

\* Mutant: the side is enough for a prop, too.
PinnedMatch_SideOnly(want, line) ==
  line.book = want.book /\ line.market = want.market /\ line.side = want.side

\* _pick_pinned_line.
PinnedMatch(want, line) ==
  /\ line.book = want.book /\ line.market = want.market /\ line.side = want.side
  /\ want.market \in PropMarkets => line.selection = want.selection

\* _pick_best_line.
BestMatch(want, line) ==
  /\ line.market = want.market
  /\ \/ line.selection = want.selection
     \/ want.market \notin PropMarkets /\ line.side = want.side

Freshest(lines) == {l \in lines : \A m \in lines : m.stamp <= l.stamp}

\* _select_line: the lines it may pick from what is offered.
Picks(want, offered) ==
  LET matches == {l \in offered :
                    IF want.book # None THEN PinnedMatch(want, l) ELSE BestMatch(want, l)}
      inPlay == {l \in matches : l.live}
  IN  CASE ~want.live -> matches
        [] want.live /\ inPlay # {} -> Freshest(inPlay)
        [] OTHER -> Freshest(matches)

CaptureOdds(o) ==
  /\ At(o, "odds")
  /\ \E offered \in SUBSET {l \in Lines : l.game = GameOf[order[o].id]} :
       \/ \E l \in Picks(Wants[o], offered) :
            order' = [order EXCEPT ![o].pc = "priced", ![o].line = l]
       \/ Picks(Wants[o], offered) = {} /\ End(o, "refused")
  /\ UNCHANGED <<listing, gone, cache>>
-----------------------------------------------------------------------------
Service(o) == ReadCache(o) \/ ReadListing(o) \/ Store(o) \/ CaptureOdds(o) \/ Fail(o)

Next ==
  \/ Tick
  \/ \E g \in Games : Relist(g)
  \/ \E o \in Orders : Send(o) \/ Service(o)

Spec == Init /\ [][Next]_vars
-----------------------------------------------------------------------------
(***************************************************************************)
(* A mapping outlives a correction of the listing by its own lifetime at   *)
(* most, and by the time that a request takes which had read the listing   *)
(* before ("Mappings are cached in Redis for 24h"): using a mapping does   *)
(* not prolong it.                                                         *)
(***************************************************************************)
StaleWithinTtl ==
  \A g \in Games : cache[g] # None => cache[g].left + gone[cache[g].id] <= Ttl + Delay

(***************************************************************************)
(* A game is told apart from the others of its slot if none of them has a  *)
(* team in the same role whose name begins with the name of its own.       *)
(***************************************************************************)
ToldApart(g) ==
  /\ Fixture[g].slot # None
  /\ \A h \in Games \ {g} : Fixture[h].slot = Fixture[g].slot => ~NamesMatch(g, h)

(***************************************************************************)
(* The mapping of such a game, and the line of every bet on it, is one of  *)
(* its own, whatever the names of other games begin with and whoever       *)
(* wrote the mapping; only a client that names the id itself is believed.  *)
(***************************************************************************)
PricedOnOwnGame ==
  /\ \A g \in Games : ToldApart(g) /\ cache[g] # None => GameOf[cache[g].id] = g
  /\ \A o \in Orders :
       At(o, "priced") /\ Wants[o].given = None /\ ToldApart(Wants[o].game)
         => order[o].line.game = Wants[o].game

(***************************************************************************)
(* The selection of an order says the same as its side: in its market, the *)
(* lines of its selection are on its side.                                 *)
(***************************************************************************)
Consistent(want) ==
  \A l \in Lines : l.market = want.market /\ l.selection = want.selection => l.side = want.side

(***************************************************************************)
(* The price of a consistent order is that of its market and side and, on  *)
(* a prop, of its player; of its book if it names one (_pick_pinned_line,  *)
(* "a side-only match could capture another player's price").              *)
(***************************************************************************)
PricedAsAsked ==
  \A o \in Orders : At(o, "priced") /\ Consistent(Wants[o]) =>
    LET want == Wants[o]
        line == order[o].line
    IN  /\ line.market = want.market /\ line.side = want.side
        /\ want.book \in {None, line.book}
        /\ want.market \in PropMarkets => line.selection = want.selection

(***************************************************************************)
(* A price captured through a mapping is not one of an id that had left    *)
(* the listing long ago: the mapping and the order's own time bound it.    *)
(***************************************************************************)
PricesAreRecent ==
  [][\A o \in Orders :
       At(o, "odds") /\ At(o, "priced")' /\ Wants[o].given = None
         => gone[order[o].id] < Ttl + 2 * Delay]_vars
=============================================================================
