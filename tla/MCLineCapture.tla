--------------------------- MODULE MCLineCapture ----------------------------
(***************************************************************************)
(* Three games: g1 and g2 are played on one day, and the home name of g2   *)
(* begins with that of g1; g3 has the teams of g2 on another day.  g2 may  *)
(* be listed under two ids.                                                *)
(***************************************************************************)
EXTENDS LineCapture

MCGames == {"g1", "g2", "g3"}
MCFixture ==
  [g \in MCGames |->
     CASE g = "g1" -> [slot |-> "day1", home |-> "Miami", away |-> "Tulsa"]
       [] g = "g2" -> [slot |-> "day1", home |-> "Miami (OH)", away |-> "Utah"]
       [] g = "g3" -> [slot |-> "day2", home |-> "Miami (OH)", away |-> "Utah"]]
MCNames == {"Miami", "Miami (OH)", "Tulsa", "Utah"}
MCBegins == {<<n, n>> : n \in MCNames} \cup {<<"Miami (OH)", "Miami">>}

MCIds == {"i1", "i2", "j2", "i3"}
MCGameOf == [i \in MCIds |-> CASE i = "i1" -> "g1" [] i = "i3" -> "g3" [] OTHER -> "g2"]

MCLine(game, market, side, selection, live, stamp) ==
  [game |-> game, market |-> market, side |-> side, selection |-> selection,
   book |-> "pinnacle", live |-> live, stamp |-> stamp]

\* Of g2: both sides before and in play, and the OVER of two players.
MCLines ==
  {MCLine("g1", "MONEYLINE", "HOME", "Miami", FALSE, 1),
   MCLine("g2", "MONEYLINE", "HOME", "Miami (OH)", FALSE, 1),
   MCLine("g2", "MONEYLINE", "HOME", "Miami (OH)", TRUE, 2),
   MCLine("g2", "MONEYLINE", "AWAY", "Utah", FALSE, 1),
   MCLine("g2", "PLAYER_PROP", "OVER", "Ann over 20", FALSE, 1),
   MCLine("g2", "PLAYER_PROP", "OVER", "Bea over 20", FALSE, 1),
   MCLine("g3", "MONEYLINE", "HOME", "Miami (OH)", FALSE, 1)}

\* A bet on g1, whose names do not tell it from g2; a prop at a book and a
\* live moneyline, both on g2.
MCOrders == {"o1", "o2", "o3"}
MCWants ==
  [o \in MCOrders |->
     CASE o = "o1" -> [game |-> "g1", given |-> None, market |-> "MONEYLINE", side |-> "HOME",
                       selection |-> "Miami", book |-> None, live |-> FALSE]
       [] o = "o2" -> [game |-> "g2", given |-> None, market |-> "PLAYER_PROP", side |-> "OVER",
                       selection |-> "Ann over 20", book |-> "pinnacle", live |-> FALSE]
       [] o = "o3" -> [game |-> "g2", given |-> None, market |-> "MONEYLINE", side |-> "HOME",
                       selection |-> "Miami (OH)", book |-> None, live |-> TRUE]]
=============================================================================
