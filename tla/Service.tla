------------------------------ MODULE Service -------------------------------
(***************************************************************************)
(* The process around the graders: lifespan starts the subscriber of       *)
(* game.completed and the grading poller, and at shutdown cancels one      *)
(* after the other and closes what they use.  subscriber and poller are    *)
(* the await that the task has reached.  A cancelled task gets one         *)
(* CancelledError at the await it is in, and runs its finally after that.  *)
(***************************************************************************)
EXTENDS Naturals, Sequences

CONSTANTS
  FirstWait, MaxWait,  \* bounds of the backoff, in seconds
  Waits                \* what "capped exponential backoff" means of them

ASSUME ServiceAssumption ==
  /\ FirstWait \in Nat \ {0} /\ MaxWait \in Nat /\ FirstWait <= MaxWait
  /\ Waits \in Seq(Nat) /\ Len(Waits) > 0
  /\ Waits[1] = FirstWait /\ Waits[Len(Waits)] = MaxWait
  /\ \A i \in 1..(Len(Waits) - 1) :
       Waits[i + 1] = IF Waits[i] * 2 < MaxWait THEN Waits[i] * 2 ELSE MaxWait

Resources == {"http", "redis", "engine"}

VARIABLES
  redis,       \* whether the broker can be reached
  connected,   \* whether the connection of the pubsub is alive
  subscriber,
  status,      \* GameCompletedSubscriber.status, which health shows
  backoff,
  poller,
  lifespan,
  cancelled,   \* the tasks that lifespan has cancelled
  open,        \* the clients that are not closed
  failures     \* history: failures since the last subscription, many as Len(Waits)

broker == <<redis, connected>>
subscription == <<connected, subscriber, status, backoff, failures>>
shutdown == <<lifespan, cancelled, open>>
vars == <<redis, connected, subscriber, status, backoff, poller, lifespan, cancelled, open, failures>>

Running == {"subscribe", "listen", "handle", "backoff", "close"}

\* The await at which the subscriber goes on: a cancelled task goes on at none.
At(place) == subscriber = place /\ "subscriber" \notin cancelled

TypeOK ==
  /\ redis \in {"up", "down"}
  /\ connected \in BOOLEAN
  /\ subscriber \in Running \cup {"finally", "ended"}
  /\ status \in {"running", "reconnecting", "stopped"}
  /\ backoff \in {Waits[i] : i \in 1..Len(Waits)}
  /\ poller \in {"sleep", "sweep", "ended"}
  /\ lifespan \in {"serve", "await subscriber", "await poller", "close", "closed"}
  /\ cancelled \in SUBSET {"subscriber", "poller"}
  /\ open \in SUBSET Resources
  /\ failures \in 0..Len(Waits)

Init ==
  /\ redis \in {"up", "down"}
  /\ connected = FALSE
  /\ subscriber = "subscribe"
  /\ status = "stopped"
  /\ backoff = FirstWait
  /\ poller = "sleep"
  /\ lifespan = "serve"
  /\ cancelled = {}
  /\ open = Resources
  /\ failures = 0
-----------------------------------------------------------------------------
\* The broker goes and comes back; the connection does not survive it.
RedisMoves ==
  /\ redis' = IF redis = "up" THEN "down" ELSE "up"
  /\ connected' = FALSE
  /\ UNCHANGED <<subscriber, status, backoff, poller, shutdown, failures>>
-----------------------------------------------------------------------------
(***************************************************************************)
(* GameCompletedSubscriber.run.                                            *)
(***************************************************************************)

Subscribe ==
  /\ At("subscribe") /\ redis = "up"
  /\ connected' = TRUE /\ subscriber' = "listen" /\ status' = "running"
  /\ backoff' = FirstWait /\ failures' = 0
  /\ UNCHANGED <<redis, poller, shutdown>>

\* Mutant: the status stays what it was.
Lose_KeepsStatus ==
  /\ \/ At("subscribe")
     \/ At("listen") /\ ~connected
  /\ subscriber' = "backoff"
  /\ failures' = IF failures < Len(Waits) THEN failures + 1 ELSE failures
  /\ UNCHANGED <<broker, status, backoff, poller, shutdown>>

\* Mutant: only a failure of listen is caught.
Lose_NotOfSubscribe ==
  /\ \/ At("subscribe") /\ subscriber' = "finally"
     \/ At("listen") /\ ~connected /\ subscriber' = "backoff"
  /\ status' = "reconnecting"
  /\ failures' = IF failures < Len(Waits) THEN failures + 1 ELSE failures
  /\ UNCHANGED <<broker, backoff, poller, shutdown>>

\* except Exception: the subscription fails, or the connection is found dead.
Lose ==
  /\ \/ At("subscribe")
     \/ At("listen") /\ ~connected
  /\ subscriber' = "backoff"
  /\ status' = "reconnecting"
  /\ failures' = IF failures < Len(Waits) THEN failures + 1 ELSE failures
  /\ UNCHANGED <<broker, backoff, poller, shutdown>>

\* A message is handled before the next is read; _handle swallows whatever
\* is wrong with it.
Receive ==
  /\ At("listen") /\ connected
  /\ subscriber' = "handle"
  /\ UNCHANGED <<broker, status, backoff, poller, shutdown, failures>>

Handled ==
  /\ At("handle")
  /\ subscriber' = "listen"
  /\ UNCHANGED <<broker, status, backoff, poller, shutdown, failures>>

WakeUp ==
  /\ At("backoff")
  /\ subscriber' = "close"
  /\ backoff' = IF backoff * 2 < MaxWait THEN backoff * 2 ELSE MaxWait
  /\ UNCHANGED <<broker, status, poller, shutdown, failures>>

\* finally: the old pubsub is closed, whatever that raises.
CloseOld ==
  /\ At("close")
  /\ subscriber' = "subscribe"
  /\ connected' = FALSE
  /\ UNCHANGED <<redis, status, backoff, poller, shutdown, failures>>

\* Mutant: _handle swallows the cancellation with the rest.
CancelSubscriber_Swallowed ==
  /\ "subscriber" \in cancelled /\ subscriber \in Running
  /\ subscriber' = CASE subscriber = "close" -> "ended"
                     [] subscriber = "handle" -> "listen"
                     [] OTHER -> "finally"
  /\ cancelled' = IF subscriber = "handle" THEN cancelled \ {"subscriber"} ELSE cancelled
  /\ status' = IF subscriber \in {"subscribe", "listen"} THEN "stopped" ELSE status
  /\ UNCHANGED <<broker, backoff, poller, lifespan, open, failures>>

\* CancelledError: in the try block the status becomes stopped; in the wait
\* of the handler, and in the finally itself, it does not.
CancelSubscriber ==
  /\ "subscriber" \in cancelled /\ subscriber \in Running
  /\ subscriber' = IF subscriber = "close" THEN "ended" ELSE "finally"
  /\ status' = IF subscriber \in {"subscribe", "listen", "handle"} THEN "stopped" ELSE status
  /\ UNCHANGED <<broker, backoff, poller, shutdown, failures>>

EndSubscriber ==
  /\ subscriber = "finally"
  /\ subscriber' = "ended"
  /\ connected' = FALSE
  /\ UNCHANGED <<redis, status, backoff, poller, shutdown, failures>>
-----------------------------------------------------------------------------
(***************************************************************************)
(* GradingPoller.run.                                                      *)
(***************************************************************************)
Sweep ==
  /\ poller = "sleep" /\ "poller" \notin cancelled
  /\ poller' = "sweep"
  /\ UNCHANGED <<redis, subscription, shutdown>>

\* run_once returns or raises: a cycle failure is logged.
SweepDone ==
  /\ poller = "sweep" /\ "poller" \notin cancelled
  /\ poller' = "sleep"
  /\ UNCHANGED <<redis, subscription, shutdown>>

CancelPoller ==
  /\ "poller" \in cancelled /\ poller # "ended"
  /\ poller' = "ended"
  /\ UNCHANGED <<redis, subscription, shutdown>>
-----------------------------------------------------------------------------
(***************************************************************************)
(* The finally of lifespan.                                                *)
(***************************************************************************)
Stop ==
  /\ lifespan = "serve"
  /\ lifespan' = "await subscriber"
  /\ cancelled' = {"subscriber"}
  /\ UNCHANGED <<redis, subscription, poller, open>>

\* Mutant: the subscriber is cancelled and not awaited.
SubscriberAwaited_Not ==
  /\ lifespan = "await subscriber"
  /\ lifespan' = "await poller"
  /\ cancelled' = cancelled \cup {"poller"}
  /\ UNCHANGED <<redis, subscription, poller, open>>

SubscriberAwaited ==
  /\ lifespan = "await subscriber" /\ subscriber = "ended"
  /\ lifespan' = "await poller"
  /\ cancelled' = cancelled \cup {"poller"}
  /\ UNCHANGED <<redis, subscription, poller, open>>

PollerAwaited ==
  /\ lifespan = "await poller" /\ poller = "ended"
  /\ lifespan' = "close"
  /\ UNCHANGED <<redis, subscription, poller, cancelled, open>>

\* http_client, redis_client and the engine, in this order.
CloseNext ==
  /\ lifespan = "close"
  /\ open' = CASE "http" \in open -> open \ {"http"}
               [] "http" \notin open /\ "redis" \in open -> open \ {"redis"}
               [] OTHER -> {}
  /\ lifespan' = IF open' = {} THEN "closed" ELSE "close"
  /\ UNCHANGED <<redis, subscription, poller, cancelled>>
-----------------------------------------------------------------------------
Subscriber ==
  \/ Subscribe
  \/ Lose
  \/ Receive
  \/ Handled
  \/ WakeUp
  \/ CloseOld
  \/ CancelSubscriber
  \/ EndSubscriber

Poller == Sweep \/ SweepDone \/ CancelPoller

Shutdown == SubscriberAwaited \/ PollerAwaited \/ CloseNext

Next == RedisMoves \/ Subscriber \/ Poller \/ Stop \/ Shutdown

Spec == Init /\ [][Next]_vars

\* The event loop runs what is ready, throws what it was told to throw, and
\* a broker that answers is not refused for ever; nobody has to stop the
\* service, and the broker may come and go as it likes.
FairSpec ==
  /\ Spec
  /\ WF_vars(Subscriber) /\ SF_vars(Subscribe)
  /\ WF_vars(Poller) /\ WF_vars(Shutdown)
-----------------------------------------------------------------------------
(***************************************************************************)
(* The nth wait in a row is the nth of the capped doubling, counted from   *)
(* the last subscription ("capped exponential backoff (1s -> 30s)"),       *)
(* wherever the connection broke and however long it had lasted.           *)
(***************************************************************************)
WaitsGrow == subscriber = "backoff" => backoff = Waits[failures]

(***************************************************************************)
(* Health never shows a live subscription as lost, and never as stopped    *)
(* before the cancellation.  "reconnecting" it shows all through the wait  *)
(* after a failure, and only while there is no subscription and one has    *)
(* failed since the last; and the waits grow with these failures.  A       *)
(* connection that has gone is still shown as "running", but only until    *)
(* the task reads from it again: it is at that read or at the message      *)
(* before it.  "stopped" is shown until the first answer of the broker and *)
(* after the cancellation only (subscriber.py, "the current lifecycle      *)
(* state").                                                                *)
(***************************************************************************)
StatusTellsSubscription ==
  /\ connected => status = "running" \/ "subscriber" \in cancelled
  /\ status = "reconnecting" => ~connected /\ failures > 0
  /\ subscriber = "backoff" => status = "reconnecting"
  /\ WaitsGrow
  /\ status = "running" => failures = 0 /\ subscriber \in {"listen", "handle"}
  /\ status = "stopped" =>
       (failures = 0 /\ subscriber = "subscribe") \/ "subscriber" \in cancelled

(***************************************************************************)
(* Neither task ends before lifespan cancels it: no broker failure, bad    *)
(* payload or failed cycle ends it ("The loop never crashes", "the poller  *)
(* must survive any cycle failure").  And no client is closed before both  *)
(* have ended.                                                             *)
(***************************************************************************)
TasksSpanService ==
  /\ subscriber \in {"finally", "ended"} => "subscriber" \in cancelled
  /\ poller = "ended" => "poller" \in cancelled
  /\ open # Resources => subscriber = "ended" /\ poller = "ended"

(***************************************************************************)
(* If the broker stays and nobody stops the service, the subscriber ends   *)
(* up listening for good, however often it failed before; and the poller   *)
(* sweeps again and again unless the service is stopped.                   *)
(***************************************************************************)
TasksGoOn ==
  /\ <>[](redis = "up" /\ lifespan = "serve") => <>[](subscriber \in {"listen", "handle"})
  /\ []<>(poller = "sweep" \/ lifespan # "serve")

(***************************************************************************)
(* A shutdown ends: the tasks end wherever the cancellation finds them,    *)
(* and all clients are closed.                                             *)
(***************************************************************************)
ShutdownEnds == lifespan = "await subscriber" ~> lifespan = "closed" /\ open = {}
=============================================================================
