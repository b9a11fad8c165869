-------------------------------- MODULE Desk --------------------------------
(***************************************************************************)
(* What the betting desk promises a client that retries: an order carries  *)
(* an idempotency key, one order of a key is accepted, and every answered  *)
(* order of that key is told of that one bet.  The client that gets no     *)
(* answer does not know whether its order was accepted.                    *)
(***************************************************************************)
CONSTANTS Orders,   \* HTTP requests; a retry is an order of its own
          KeyOf     \* X-Idempotency-Key of an order

VARIABLES accepted, \* the orders whose bet is in the ledger
          outcome   \* what the client of an order knows of it

vars == <<accepted, outcome>>

Answers == [kind : {"waiting", "refused", "unknown"}]
              \cup [kind : {"created", "replayed"}, bet : Orders]

TypeOK ==
  /\ accepted \in SUBSET Orders
  /\ outcome \in [Orders -> Answers]

Init ==
  /\ accepted = {}
  /\ outcome = [o \in Orders |-> [kind |-> "waiting"]]

Waiting(o) == outcome[o].kind = "waiting"
Answered(o) == Waiting(o) /\ outcome'[o].kind # "waiting"

Accept(o) ==
  /\ Waiting(o)
  /\ \A p \in accepted : KeyOf[p] # KeyOf[o]
  /\ accepted' = accepted \cup {o}
  /\ UNCHANGED outcome

\* The client is told of the bet, as its own or as that of an earlier order.
Tell(o) ==
  /\ Answered(o)
  /\ \E p \in accepted :
       /\ KeyOf[p] = KeyOf[o]
       /\ outcome' = [outcome EXCEPT
            ![o] = [kind |-> IF p = o THEN "created" ELSE "replayed", bet |-> p]]
  /\ UNCHANGED accepted

Refuse(o) ==
  /\ Answered(o)
  /\ o \notin accepted
  /\ outcome' = [outcome EXCEPT ![o] = [kind |-> "refused"]]
  /\ UNCHANGED accepted

Lose(o) ==
  /\ Answered(o)
  /\ outcome' = [outcome EXCEPT ![o] = [kind |-> "unknown"]]
  /\ UNCHANGED accepted

Next == \E o \in Orders : Accept(o) \/ Tell(o) \/ Refuse(o) \/ Lose(o)

Spec == Init /\ [][Next]_vars
=============================================================================
