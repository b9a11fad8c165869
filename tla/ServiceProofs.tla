--------------------------- MODULE ServiceProofs ----------------------------
(***************************************************************************)
(* The safety of the process around the graders, for every backoff.        *)
(***************************************************************************)
EXTENDS Service, TLAPS

\* The place in Waits of the wait after n failures in a row.
Following(n) == IF n < Len(Waits) THEN n + 1 ELSE n

\* Where backoff stands at each await: it is doubled after the sleep.
Counted ==
  /\ subscriber \in {"listen", "handle"} => failures = 0 /\ backoff = Waits[1]
  /\ subscriber = "subscribe" => backoff = Waits[Following(failures)]
  /\ subscriber = "backoff" => failures > 0 /\ backoff = Waits[failures]
  /\ subscriber = "close" => failures > 0 /\ backoff = Waits[Following(failures)]

\* How far the shutdown is.
InOrder ==
  /\ lifespan = "serve" => cancelled = {}
  /\ lifespan \in {"serve", "await subscriber", "await poller"} => open = Resources
  /\ lifespan \in {"await poller", "close", "closed"} => subscriber = "ended"
  /\ lifespan \in {"close", "closed"} => poller = "ended"

EndedWereCancelled ==
  /\ subscriber \in {"finally", "ended"} => "subscriber" \in cancelled
  /\ poller = "ended" => "poller" \in cancelled

\* Where the pubsub can be connected, and where the last news was good.
Placed ==
  /\ connected => subscriber \in {"listen", "handle", "finally"}
  /\ subscriber \in {"listen", "handle"} => status = "running"
  /\ subscriber = "close" => status = "reconnecting"

Safe ==
  /\ TypeOK
  /\ Placed
  /\ Counted
  /\ InOrder
  /\ StatusTellsSubscription
  /\ EndedWereCancelled

-----------------------------------------------------------------------------
(***************************************************************************)
(* Doubling and capping leads from each wait to the next one, and from the *)
(* last to itself (subscriber.py, the line after the sleep).               *)
(***************************************************************************)
LEMMA Doubling ==
  ASSUME NEW n \in 1..Len(Waits)
  PROVE  (IF Waits[n] * 2 < MaxWait THEN Waits[n] * 2 ELSE MaxWait) = Waits[Following(n)]
<1>1. CASE n < Len(Waits)
  BY <1>1, ServiceAssumption DEF Following
<1>2. CASE n = Len(Waits)
  <2>1. ~(MaxWait * 2 < MaxWait)
    BY ServiceAssumption
  <2> QED BY <1>2, <2>1, ServiceAssumption DEF Following
<1> QED BY <1>1, <1>2, ServiceAssumption

\* The places of Waits, and the first wait.
LEMMA Places ==
  /\ Len(Waits) \in Nat /\ Len(Waits) > 0
  /\ Waits[1] = FirstWait
  /\ \A n \in 0..Len(Waits) : Following(n) \in 1..Len(Waits)
  /\ Following(0) = 1
<1>1. Len(Waits) \in Nat /\ Len(Waits) > 0 /\ Waits[1] = FirstWait
  BY ServiceAssumption
<1> QED BY <1>1 DEF Following

LEMMA SafeInit == Init => Safe
<1> SUFFICES ASSUME Init PROVE Safe
  OBVIOUS
<1>1. FirstWait \in {Waits[i] : i \in 1..Len(Waits)} /\ 0 \in 0..Len(Waits)
  <2>1. 1 \in 1..Len(Waits) /\ Waits[1] = FirstWait /\ 0 \in 0..Len(Waits)
    BY Places
  <2> QED BY <2>1
<1>2. TypeOK
  BY <1>1 DEF Init, TypeOK, Running
<1>3. Counted
  BY Places DEF Init, Counted
<1>4. InOrder /\ StatusTellsSubscription /\ Placed /\ EndedWereCancelled
  BY DEF Init, InOrder, StatusTellsSubscription, WaitsGrow, Placed, EndedWereCancelled
<1> QED BY <1>2, <1>3, <1>4 DEF Safe

-----------------------------------------------------------------------------
(***************************************************************************)
(* The subscriber's steps keep the waits counted.                          *)
(***************************************************************************)
LEMMA SubscriberKeepsCount ==
  ASSUME Safe, Subscriber
  PROVE  Counted' /\ backoff' \in {Waits[i] : i \in 1..Len(Waits)} /\ failures' \in 0..Len(Waits)
<1> USE DEF At
<1>0. /\ failures \in 0..Len(Waits)
      /\ backoff \in {Waits[i] : i \in 1..Len(Waits)}
      /\ Counted
  BY DEF Safe, TypeOK
<1>1. CASE Subscribe
  BY <1>0, <1>1, Places DEF Subscribe, Counted
<1>2. CASE Lose
  <2>1. failures' = Following(failures) /\ backoff' = backoff /\ subscriber' = "backoff"
    BY <1>2 DEF Lose, Following, shutdown
  <2>2. failures' \in 1..Len(Waits)
    BY <1>0, <2>1, Places
  <2>3. CASE At("subscribe")
    BY <1>0, <2>1, <2>2, <2>3 DEF Counted
  <2>4. CASE At("listen")
    BY <1>0, <2>1, <2>2, <2>4, Places DEF Counted
  <2> QED BY <1>2, <2>3, <2>4 DEF Lose
<1>3. CASE Receive
  BY <1>0, <1>3 DEF Receive, Counted
<1>4. CASE Handled
  BY <1>0, <1>4 DEF Handled, Counted
<1>5. CASE WakeUp
  <2>1. /\ subscriber' = "close" /\ failures' = failures
        /\ backoff' = IF backoff * 2 < MaxWait THEN backoff * 2 ELSE MaxWait
    BY <1>5 DEF WakeUp
  <2>2. failures \in 1..Len(Waits) /\ backoff = Waits[failures]
    BY <1>0, <1>5, Places DEF WakeUp, Counted
  <2>3. backoff' = Waits[Following(failures)]
    BY <2>1, <2>2, Doubling
  <2>4. Counted'
    <3>1. failures' > 0 /\ backoff' = Waits[Following(failures')]
      BY <2>1, <2>2, <2>3, Places
    <3> QED BY <2>1, <3>1 DEF Counted
  <2>5. failures' \in 0..Len(Waits) /\ Following(failures) \in 1..Len(Waits)
    BY <1>0, <2>1, Places
  <2> QED BY <2>3, <2>4, <2>5
<1>6. CASE CloseOld
  BY <1>0, <1>6 DEF CloseOld, Counted
<1>7. CASE CancelSubscriber
  BY <1>0, <1>7 DEF CancelSubscriber, Counted, Running
<1>8. CASE EndSubscriber
  BY <1>0, <1>8 DEF EndSubscriber, Counted
<1> QED BY <1>1, <1>2, <1>3, <1>4, <1>5, <1>6, <1>7, <1>8 DEF Subscriber

(***************************************************************************)
(* They leave the rest of Safe as it is.                                   *)
(***************************************************************************)
LEMMA SubscriberKeepsSafe ==
  ASSUME Safe, Subscriber
  PROVE  Safe'
<1> USE DEF At, Safe, TypeOK, InOrder, StatusTellsSubscription, Placed, EndedWereCancelled,
            Running, shutdown, broker
<1>0. Counted' /\ backoff' \in {Waits[i] : i \in 1..Len(Waits)} /\ failures' \in 0..Len(Waits)
  BY SubscriberKeepsCount
<1>waits. WaitsGrow'
  BY <1>0 DEF Counted, WaitsGrow
<1>1. CASE Subscribe
  BY <1>0, <1>waits, <1>1 DEF Subscribe
<1>2. CASE Lose
  <2>1. failures' > 0
    BY <1>0, <1>2 DEF Lose, Counted
  <2>2. connected = FALSE
    BY <1>2, Zenon DEF Lose
  <2>3. connected' = FALSE
    BY <1>2, <2>2 DEF Lose
  <2> QED BY <1>0, <1>waits, <1>2, <2>1, <2>3 DEF Lose
<1>3. CASE Receive
  BY <1>0, <1>waits, <1>3 DEF Receive
<1>4. CASE Handled
  BY <1>0, <1>waits, <1>4 DEF Handled
<1>5. CASE WakeUp
  BY <1>0, <1>waits, <1>5 DEF WakeUp
<1>6. CASE CloseOld
  <2>1. failures > 0
    BY <1>6 DEF CloseOld, Counted
  <2> QED BY <1>0, <1>waits, <1>6, <2>1, Places DEF CloseOld
<1>7. CASE CancelSubscriber
  BY <1>0, <1>waits, <1>7 DEF CancelSubscriber
<1>8. CASE EndSubscriber
  BY <1>0, <1>waits, <1>8 DEF EndSubscriber
<1> QED BY <1>1, <1>2, <1>3, <1>4, <1>5, <1>6, <1>7, <1>8 DEF Subscriber

(***************************************************************************)
(* The broker, the poller and lifespan do not touch the waits.             *)
(***************************************************************************)
LEMMA OthersKeepSafe ==
  ASSUME Safe, RedisMoves \/ Poller \/ Stop \/ Shutdown
  PROVE  Safe'
<1> USE DEF Safe, TypeOK, InOrder, StatusTellsSubscription, Placed, EndedWereCancelled,
            WaitsGrow, Counted, Following, Running, subscription, shutdown
<1>1. CASE RedisMoves
  <2>1. redis' \in {"up", "down"} /\ connected' = FALSE
    BY <1>1 DEF RedisMoves
  <2>2. UNCHANGED <<subscriber, status, backoff, failures, poller, lifespan, cancelled, open>>
    BY <1>1 DEF RedisMoves
  <2> QED BY <2>1, <2>2
<1>2. CASE Sweep
  BY <1>2 DEF Sweep
<1>3. CASE SweepDone
  BY <1>3 DEF SweepDone
<1>4. CASE CancelPoller
  BY <1>4 DEF CancelPoller
<1>5. CASE Stop
  BY <1>5 DEF Stop
<1>6. CASE SubscriberAwaited
  BY <1>6 DEF SubscriberAwaited
<1>7. CASE PollerAwaited
  BY <1>7 DEF PollerAwaited
<1>8. CASE CloseNext
  <2>1. open' \in SUBSET Resources /\ lifespan' \in {"close", "closed"}
    BY <1>8 DEF CloseNext
  <2>2. /\ UNCHANGED <<redis, connected, subscriber, status, backoff, failures, poller, cancelled>>
        /\ lifespan = "close"
    BY <1>8 DEF CloseNext
  <2> QED BY <2>1, <2>2
<1> QED BY <1>1, <1>2, <1>3, <1>4, <1>5, <1>6, <1>7, <1>8 DEF Poller, Shutdown

LEMMA SafeStep == Safe /\ [Next]_vars => Safe'
<1>1. ASSUME Safe, UNCHANGED vars PROVE Safe'
  <2>1. TypeOK'
    BY <1>1 DEF vars, Safe, TypeOK
  <2>2. InOrder'
    BY <1>1 DEF vars, Safe, InOrder
  <2>3. StatusTellsSubscription' /\ Placed' /\ EndedWereCancelled' /\ Counted'
    BY <1>1 DEF vars, Safe, StatusTellsSubscription, WaitsGrow, Placed, EndedWereCancelled, Counted
  <2>4. QED
    BY <2>1, <2>2, <2>3 DEF Safe
<1> QED BY <1>1, SubscriberKeepsSafe, OthersKeepSafe DEF Next

LEMMA AlwaysSafe == Spec => []Safe
  BY SafeInit, SafeStep, PTL DEF Spec

-----------------------------------------------------------------------------
(***************************************************************************)
(* What health shows is what the subscriber has last learnt, at whatever   *)
(* await the broker goes or the cancellation comes: a live subscription is *)
(* shown as running until the task is cancelled, reconnecting means that   *)
(* there is none and one has failed since the last, and a lost one is      *)
(* shown as running only on the way to the read that finds it.             *)
(***************************************************************************)
THEOREM HealthTellsTheTruth == Spec => [](TypeOK /\ StatusTellsSubscription)
<1>1. Safe => TypeOK /\ StatusTellsSubscription
  BY DEF Safe
<1> QED BY <1>1, AlwaysSafe, PTL

(***************************************************************************)
(* The backoff is the capped doubling counted from the last subscription,  *)
(* whatever its two bounds are.                                            *)
(***************************************************************************)
THEOREM BackoffIsCounted == Spec => []WaitsGrow
<1>1. Safe => WaitsGrow
  BY DEF Safe, Counted, WaitsGrow
<1> QED BY <1>1, AlwaysSafe, PTL

(***************************************************************************)
(* Neither task ends before it is cancelled, and no client is closed       *)
(* before both have ended.                                                 *)
(***************************************************************************)
THEOREM ShutdownIsInOrder == Spec => []TasksSpanService
<1>1. Safe => TasksSpanService
  BY DEF Safe, TypeOK, InOrder, EndedWereCancelled, TasksSpanService
<1> QED BY <1>1, AlwaysSafe, PTL
=============================================================================
