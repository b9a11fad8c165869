# Formal models of the bookie emulator

TLA+ specifications of the paper-trading engine in `src/`, checked with TLC on
small instances and proved, in part, with TLAPS.  Paths below are relative to
`src/src/bookie_emulator/`.

## 1. The system

One asyncio process serves a REST API, listens to a redis channel and polls.
All state that survives lives in PostgreSQL.

| Part | State | Operations |
| --- | --- | --- |
| placement (`services/bets.py`, `POST /bets`, `POST /parlays`) | none of its own | fetch game, resolve external id, capture odds, check bankroll, insert a bet (or a parent and its legs) |
| grader (`services/grader.py`) | what it has read so far | `grade_game`, `grade_manual` |
| subscriber (`events/subscriber.py`) | connection, status | receive `events:game.completed`, reconnect with backoff |
| poller (`services/poller.py`) | the games of this sweep | every `grading_poll_seconds`: open bets and legs past the grace period |
| publisher (`events/publisher.py`) | none | publish `events:bet.graded`, best effort |
| repository (`db/repository.py`, `db/tables.py`) | `paper_bets`, `parlay_legs`, `bet_grades`, `bankroll_snapshots` | single-statement reads and the transactions `insert_idempotent`, `insert_parlay`, `grade_leg`, `apply_grade` |
| rules (`core/`) | none | grade a score, a prop, a parlay; CLV; performance figures |
| bankroll (`services/bankroll.py`) | none; derived from grades and snapshots | balance and exposure in four reads, charts |
| performance (`core/performance.py`) | none | streaks, Brier score, calibration, breakdowns |
| reconciler (`clients/reconcile.py`) | redis cache of game ids, for 24 h | match a statistics game to a lines game by names and date |
| lifespan (`main.py`) | the two tasks, the HTTP, redis and database clients | start the tasks; at shutdown cancel and await the subscriber, then the poller, then close the clients |

The subscriber, the poller and any number of requests run `grade_game` or
`grade_manual` at the same time.  They share nothing but the database, and
between two awaits of one of them all the others may move.  The hard parts:

- graders racing for one bet, or for the legs of one parlay;
- a parlay settled in three transactions after legs decided in others;
- lost and repeated events, results that are corrected, box scores that lag;
- failures and restarts between a commit and what was to follow it;
- one bet that cannot be graded among many that can;
- check-then-insert placement, and retries of a placement;
- pages read from a ledger that grows and is graded meanwhile;
- `apply_grade`, whose statements each see another state of the tables (READ
  COMMITTED), and a bankroll page made of four reads;
- mappings of games cached for a day while the lines service changes its listing;
- a broker that comes and goes, and a shutdown that cancels tasks wherever they are.

What makes the parts correct: a bet is graded once, from a result its game has
really had; a parlay is settled once, from its legs when all are decided, at
the odds of the won ones; what is published is what the ledger says; whatever
is lost, every bet and leg of a final game is graded in the end; a placement
is stored once and within the bankroll, at a price of the game and the side that
were asked for; what is summed counts every bet once; the tasks end when they
are told to and not before.

## 2. Modules

| Module | Models |
| --- | --- |
| `Outcomes` | `core/grading.py`, `core/settlement.py`, `core/parlay.py`, `core/prop_grading.py` as operators |
| `Performance` | streaks, Brier score, bins and calibration error of `core/performance.py` |
| `Odds` | `core/odds.py`, `core/clv.py` and the choice of the closing line |
| `SettlementRules` | the harness in which TLC compares these three with reference definitions |
| `RulesProofs` | theorems about settlement, parlays, odds, closing lines, streaks and calibration |
| `Book` | the fixed data of an instance: bets, parlays, legs, their terms, possible results |
| `BetLedger` | abstract specification: what the ledger promises whoever grades |
| `Grader` | subscriber, poller, manual requests, `GraderService`, the repository's transactions, failures |
| `GraderProofs` | theorems about `Grader`; it implements `BetLedger` |
| `Tally` | abstract specification: what `apply_grade` does for each of its calls, to the ledger and the charts |
| `GradeTx` | `apply_grade` statement by statement, `GET /bankroll` and the charts |
| `GradeTxProofs` | theorems about `GradeTx`; it implements `Tally` |
| `Desk` | abstract specification: what placement promises a client that retries |
| `Placement` | both placement endpoints, `BetService`, the bankroll check, the idempotent inserts |
| `PlacementProofs` | theorems about `Placement`; it implements `Desk` |
| `LineCapture` | `GameReconciler`, its cache, and `_capture_odds`: where a price comes from |
| `LineCaptureProofs` | theorems about `LineCapture` |
| `History` | `GET /bets`: `list_bets`, `list_ledger` and its cursors, over a ledger that changes |
| `HistoryProofs` | theorems about `History` |
| `Service` | lifespan, the loops of the subscriber and of the poller, the broker |
| `ServiceProofs` | theorems about `Service` |
| `Sums` | induction, folds, sums and products over finite sets, for the proofs |
| `MCGrader`, `MCPlacement`, `MCGradeTx`, `MCLineCapture`, `MCService`, `MCSettlementRules` | values of the constants for TLC |

How they fit together.  `Grader` takes `apply_grade` for one step and `GradeTx`
shows that it is one, by the refinement `ImplementsTally`.  `Service` runs the
loops of the tasks and `Grader` what a task does in a turn of its loop.
`Placement` takes the captured odds for given and `LineCapture` shows where they
come from.  `Outcomes` is extended by `Book`, so `Grader` decides bets by the
rules that `SettlementRules` checks.

### Grader

A task is the subscriber, the poller or one manual request; `job[t]` holds its
local variables and, in `pc`, the await it has reached.  `status`, `priced` and
`legStatus` are the columns of `paper_bets`, `bet_grades` and `parlay_legs`
that decisions depend on.  A step is what happens between two awaits:

| Step | Code |
| --- | --- |
| `Receive` | `GameCompletedSubscriber._handle` up to `grade_game` |
| `SweepBets`, `SweepLegs`, `PollGame`, `SweepEnds` | `GradingPoller.run_once`, one query or one `get_game` each |
| `Ask`, `AskLegs`, `AskGame` | `grade_manual` before it grades |
| `ReadBets`, `ReadLegs`, `FetchBox` | `grade_game` up to the loops |
| `GradeScoreBet`, `GradeProp` | an iteration of the two bet loops with `apply_grade` |
| `GradeLeg` | an iteration of the leg loop with `grade_leg` |
| `ReadParlay`, `ApplyParlay` | `_settle_parlay_if_decided` |
| `Publish` | `publish_bet_graded` |
| `CallFails`, `PollFails`, `TaskFails`, `Crash` | exceptions swallowed at the call, in the sweep or by the task; a restart |

A commit whose answer is lost is `GradeLeg` or `ApplyGrade` followed by
`TaskFails`.  Loops over rows take them in any order, since the queries name no
order.  `reported`, `boxed` and `abandoned` are history variables: what the
statistics service has ever said, and the parlays a failed task had in hand.

### BetLedger

The abstract ledger has no tasks: an open bet may be graded from a result or
box score ever reported of its game, a leg be decided once, a parlay be settled
from its decided legs, and a graded row be touched again only when forced
requests exist.  `Grader` implements it with the ledger variables mapped to
themselves (`ImplementsLedger`): every race, stale read and failure of the
tasks shows as such a step or as none.

### GradeTx and Tally

A grader `g` is one call of `apply_grade`.  `status`, `grade` and `snapshots` are
the committed tables; `tx[g]` holds what the transaction has read and what
statement it is at, and what it has written shows to others at `Commit` only.
`lock` is the row lock that an UPDATE takes and keeps.

| Step | Code |
| --- | --- |
| `Start` | `now = utc_now()`, before the transaction |
| `Claim` | `UPDATE paper_bets ... WHERE status = 'OPEN'` (or by force); it waits for a locked row and looks at it again |
| `InsertGrade` | the insert into `bet_grades`; `bet_id` is unique, by force the row is replaced |
| `SumGrades`, `CountOpen` | the sums over the grades and the count of open bets, one statement each |
| `Commit` | the snapshot and the commit |
| `Abort` | a failure or cancellation anywhere in the transaction |
| `PlaceBet` | an insert by another task |
| `ReadProfit`, `ReadLatest`, `ReadCount`, `ReadExposure` | the reads of `BankrollService.current` |

`Chart` is `BankrollService.history`.  The sums a statement computes are
functions of the rows it sees, so the model keeps the rows.  `raced` and the
`before` of a call are history: whether two gradings ever overlapped, and what
was graded when the call began.

The abstract `Tally` knows no transactions, only calls: a call without force
grades its bet if that is open or is told that it is graded, a call with force
grades it in either case, and a grade, its status and its snapshot are one step.
`GradeTx` implements it with `answer` what `apply_grade` has returned to each of
its callers (`Told`, `ImplementsTally`).  A call that fails has returned nothing;
but a call that is stopped by the unique key of `bet_grades` ends at a place of
its own, `conflict`, which is no answer of the tally: the claim alone must keep
the second grader out, and the property says that it does.

### Placement

An order is one HTTP request; a retry is an order of its own with the same key.
`order[o]` is the handler: `pc` is the await it has reached, `leg` the leg it is
at, `saw` the bankroll it has read, `bet` the row it will answer with.  Rows are
named by the order that inserted them; `status` and `profit` are the columns of
`paper_bets` and `bet_grades` the bankroll is computed from.

| Step | Code |
| --- | --- |
| `Send` | validation before the first call |
| `FetchGame`, `CaptureOdds` | `_fetch_game` and the check of status and start; `resolve` and `_capture_odds`; once per leg |
| `ReadProfit`, `CheckStake` | `total_profit` and `open_exposure` in `_check_bankroll` |
| `Insert`, `Reload` | `insert_idempotent`, `insert_parlay`: insert on conflict do nothing, else read the row there is |
| `Answer` | 201 or 200 |
| `Fails` | an exception, a restart, a lost response |
| `Settle`, `GameMoves`, `StartPasses` | a grader's `apply_grade`; the statistics service; the clock |

`replay`, `late`, `overtaken` and `overdrawn` are history: what was the case when
the order came, and which orders acted on an outdated reading of the bankroll.
A game, once started, ended or called off, is taken not to become open again.

### Desk

The abstract desk accepts one order per key and tells every answered order of
the key of that bet; it refuses an order only while it has no bet.  `Placement`
implements it with `accepted` the orders that have a row and `outcome` what the
response says (`ImplementsDesk`).

### LineCapture

`listing` is the id under which lines-service lists a game, `cache` the
unexpired entries of `emu:gamemap` with the time they have left, `order[o]` the
await a request has reached, the id it has found and the line it has captured.
`gone` (for how long an id has been out of the listing) and the age of a request
are history.  Time is counted in ticks, of which `Ttl` make the time to live.

| Step | Code |
| --- | --- |
| `Send` | a bet or leg whose line is to be captured; an id given by the client is used as it is |
| `ReadCache`, `ReadListing`, `Store` | `GameReconciler.resolve`: redis get, `current_lines`, redis set |
| `CaptureOdds` | `_capture_odds` with `_select_line`, `_pick_pinned_line`, `_pick_best_line` |
| `Fail` | redis or lines-service does not answer |
| `Tick`, `Relist` | time passes and entries expire; a game is listed under another id |

lines-service returns a page of rows in an order of its own, maybe cut short, so
any match may be the first.  `Begins` is the relation of names that `startswith`
establishes; a fixture without a slot is one whose start is no date, for which
the code drops the date from the query.

### Service

`subscriber` and `poller` are the await a task has reached, `status` what health
shows, `cancelled` the tasks lifespan has cancelled, `open` the clients not yet
closed.  A cancelled task takes one `CancelledError` at the await it is in
(`CancelSubscriber`, `CancelPoller`) and then runs its `finally`
(`EndSubscriber`); `At` says that it goes on at no other place.

| Step | Code |
| --- | --- |
| `Subscribe`, `Lose`, `WakeUp`, `CloseOld` | `GameCompletedSubscriber.run`: subscribe, the `except` branch, the sleep and doubling, the `finally` of a turn |
| `Receive`, `Handled` | a message, handled before the next is read |
| `Sweep`, `SweepDone` | `GradingPoller.run` |
| `Stop`, `SubscriberAwaited`, `PollerAwaited`, `CloseNext` | the `finally` of `lifespan` |
| `RedisMoves` | the broker goes or comes back, and connections die |

`failures`, the failures since the last subscription, is history.

### Performance and Odds

Pure functions.  The code computes them in floats; the models in whole numbers
(a mean is multiplied by its count) or exact fractions, so that they say what is
computed and nothing of the rounding.  `round` at a half is both neighbours.
A list that the code filters is the set of the places that pass the filter:
closing lines are `FirstIfAny` or nearest among places, means are sums over
places, and the streaks are a fold over the places of the settled bets, the last
graded first, as the queries order them.

### History

A client walks through the bets that some filters admit.  `placedAt` and
`status` are columns of `paper_bets`; `placed_at` is `NOW()`, the begin of the
transaction, so that a row may show (`CommitInsert`) after later ones.  `cursor`
is the row whose `(placed_at, id)` the client sends; neither ever changes, so
the cursor is the row.  `ReadPage` is `list_bets` with its one query.  Filters
on columns that never change only choose `Rows`; those on `status` and `result`
are `Wanted`, and rows come and go under them as they are graded.  `times` and
`steady` are history: on how many pages a row was, and which rows the filters
admitted at every page.

## 3. Runs

| Run | Question | Instance |
| --- | --- | --- |
| `settlement_rules` | do grading, parlay prices, streaks, calibration, odds and closing lines mean what they should? | see below |
| `grader_races` | type invariant, settled parlays match their legs, decided parlays are owned, refinement of `BetLedger` | a two-leg parlay and an ungradeable bet on one game, two results (a correction), a request with or without force, one fault |
| `recovery_live` | bets, legs and parlays are graded whatever is lost, and rightly | a parlay on two games of which one has no known start, a bet, one fault |
| `props_live` | props settle from late box scores; a row is announced once and rightly; refinement with box scores | a player prop, a team prop, a parlay with a prop leg, two box scores, one fault |
| `placement` | one bet per key, only outdated readings overdraw, late orders leave no bet; refinement of `Desk` | a live order and its retry, a parlay on two games, stakes of 2, 3 units of bankroll |
| `history` | does a walk repeat or lose a bet? | four rows at two instants, two on a page, a filter that admits open and lost bets |
| `grade_tx` | is `apply_grade` one step; do snapshots, charts and the bankroll page count every bet once; does grading end? | two bets, four calls of which three are made: one of each bet, and a second one of the first bet that wants another grade, forced or not (`Together`) |
| `service` | does health show what the subscriber has learnt, and do its waits grow with its failures; do the tasks live as long as the service; does the shutdown end? | the code's seconds: 1, 2, 4, 8, 16, 30 |
| `line_capture` | is a price of the game, the side and the player asked for, and recent? | three games, two told apart by a prefix only, one with two ids; a moneyline, a pinned prop, a live bet |
| `parlay_stranded` | does a decided parlay settle? **no** | see findings |
| `ungradeable_bet` | do legs get decided beside a bet that raises? **no** | |
| `replay_refused` | is the retry of an accepted order answered? **no** | an order and its retry |

Every property of a run is listed with its definition in `PROJECT.json`, and the
comment above the definition says in words what it states.

Bounds.  `settlement_rules` enumerates scores 0..2 with regulation scores
present, half present and absent, lines to 3.5 in half points, parlays of three
legs at odds 2 and 3, all sequences of four graded bets for the streaks and of
three for the calibration (probabilities in sixths), American odds around even
money and far from it, up to three closing lines, each for one of three lines or
none, and bets with each of these lines or none: each branch and each
boundary of the functions is met, ties and exact hits included.  In the graders,
a result or a box score is reported of a game at most once each, so
two results mean one correction.  `MaxInbox = 1` lets the channel hold one
event while another is handled; an event may be delivered any number of times.
`MaxFaults = 1` puts one fault at any point; a second fault adds nothing to the
safety properties, each of which speaks of one row and the tasks at work on it.
A request is sent once; three tasks are enough for each to overtake another
between read and claim.  Two legs on one game give the races inside one pass,
two games those between passes.  In `placement` the bankroll holds one of the
stakes, so that two orders compete for it, and a lost bet makes the third fit or
not; every order may fail at every step.  In `history`
four rows make two full pages or, with rows that come late or leave the filter,
pages that end early; two instants let rows tie, and rows 1 to 4 are inserted in
any order, as random ids are.  In `grade_tx` two calls of one bet
race for its row while the third shifts the sums between their statements; the
second of the two is unforced in half of the behaviours, where only one may win,
and forced in the other half, where both do (all four at once, with liveness,
are more states than a run can take).  Days
of two instants and weeks of two days let snapshots share and miss a bucket.  In
`line_capture` a time to live of two ticks and requests of at most one tick let a
mapping expire, be renewed, and be written late.  `placement`, `history`,
`grade_tx` and `replay_refused` really stop, when all orders are answered, the
walk is over or all calls have ended: deadlock is not checked there, and is in
all other runs.

Fairness (`FairSpec`).  Weak fairness of the subscriber, the poller, every
request that has started and the clock: the event loop runs what is ready,
every HTTP call has a timeout (5 s in `main.py`), the poller sleeps for a fixed
time.  A message waiting in the inbox is taken, but none is ever assumed to be
sent; nothing is assumed of placements, reports or requests.  Faults are
bounded, so from some point there are none, which is what "in the end" needs.
In `GradeTx` a call that has begun goes on (weak fairness of its steps): the
database answers or the connection breaks, and a lock is freed by a holder that
goes on too.  In `Service` the tasks and the shutdown are weakly fair, and
subscribing is strongly so: a broker that is up again and again is in the end
reached by an attempt.  That the broker stays up is a premise of `TasksGoOn` and
not assumed; nobody has to stop the service.

Findings.

1. `parlay_stranded`: legs are committed one by one and the settlement comes
   after all of them; if the task fails in between, no sweep finds the parlay
   again, since the sweep looks for open legs.  Only a manual grade helps.
2. `ungradeable_bet`: `_grade_one` has no guard around `grade_bet`.  A DRAW on
   a two-way moneyline, which the request schema accepts, raises each time and
   everything after it in `grade_game` is skipped, in every sweep.
3. `replay_refused`: the key is looked up last, after the game and the bankroll,
   so the retry of an accepted order may get a 422.

More differences, met while modelling and checked by no run of their own.

- The bankroll check and the insert are not one transaction, so orders that race
  exceed the bankroll.  `OnlyRacesOverdraw` says that this is the only way: the
  excess is at most the stakes of the orders whose reading was outdated (another
  insert after it, or a bet lost between its halves).
- Comments in `core/prop_grading.py:17-18` and `services/grader.py:298` promise
  that a forced manual grade can void or settle a prop whose player is in no box
  score; it answers 422 and leaves the bet open.
- `validate_parlay_legs` says that in-game legs cannot enter a parlay by any
  path; the game of a leg is checked once, before the calls for the other legs,
  and may start before the insert.
- `services/grader.py:275-276` has consumers take the last `bet.graded` event for
  the latest state, but the events of two tasks are published in no order: that
  of the grade a forced request replaced may come last.
- `snapshot_at` is taken before the claim waits for its row, so after gradings
  that overlapped a chart may end at a point that misses one of them;
  `ChartsEndAtBankroll` excludes such histories, `SnapshotsCountOnce` does not.
- `reconcile.py` documents its match as one on "(league, date, home team name)";
  the code matches away names as well, and drops a date it cannot parse.
- A game id that the client gives is used for the odds without comparing it with
  the game of the bet: `PricedOnOwnGame` speaks of orders without one.
- A best line may match by the selection alone.  `PricedAsAsked` therefore asks
  of an order that its selection and its side say the same.
- With several closing lines at the bet's own book the first is taken, not the
  nearest; `CloseIsComparable` asks for the nearest at other books only.

## 4. Proofs

`GraderProofs` proves, for every book, any set of requests, any bounds:

- `TypeCorrect`: `Spec => []TypeOK`.  The invariant is strengthened with
  `GameKnown` (a task that is to read the ledger of a game has a game).
- `SettledParlaysMatchLegs`: `Spec => []ParlayMatchesLegs`.
- `OnlyFailuresStrandParlays`: `Spec => []DecidedParlayIsOwned`.

The last two share the inductive invariant `ParlayInv`.  The argument: parent
and legs are inserted together (`PlacedTogether`), so a leg that can be decided
has an open parent or one settled before, which cannot be, since settled
parlays have decided legs and a decided leg never opens again.  The task whose
claim decides the last leg has the parlay among its `parents` (`GradeLeg` adds
it in the step of the claim) and drops it only after finding an open leg,
applying a grade or failing.  A task at "settle" holds a grade worked out
earlier in another transaction (`JobFits`): it is still the right one because
all legs were decided then.  The lemmas follow the actions: `QuietStep` for
steps that leave the ledger alone, `EntryStep`, `BetStep`, `ParlayStep`,
`LegStep`, `InsertStep` and `OtherStep`.

And from there, about what the ledger is told and tells:

- `GraderImplementsLedger`: `Spec => ImplementsLedger`.
- `RowsAreAnnouncedOnce`: `Spec => []AnnouncedAsGraded`.

The first rests on `Informed`: the score and the box score a task works with have
been reported of the game its bets and legs are on, the bets exist, and a task
forces only if some request may.  Given that, each claim is a step of the ledger
and everything else a stutter; what a task read of a parlay before it settles it
is still so by `JobFits`.  The second rests on `Told`: a row is announced by the
task whose claim succeeded, no two tasks that are to publish share a row, and
none of them has a row that is announced already.

`PlacementProofs` proves, for any orders, keys, terms and games:

- `KeysHaveOneBet`: `Spec => []OneBetPerKey`.
- `PlacementImplementsDesk`: `Spec => ImplementsDesk`.
- `LateOrdersGetNoBet`: `Spec => []LateOrdersLeaveNoBet`.
- `TypeCorrect`: `Spec => []TypeOK`.
- `RacesAloneOverdraw`: `Spec => []OnlyRacesOverdraw`.

The first two rest on `DeskInv`: keys have one bet, and a handler that has
inserted or will answer holds a bet of its key (`HandlerFits`); without it a
refused order might have a bet, or an answer name none.  The third needs
`LateInv` as well: while a late order works through its legs, one that it has
yet to look at is closed (`ClosedAhead`), and stays so (`StaysClosed`).  The
last two are about sums over the ledger.  `SolvencyInv` says what the rows bring
to them (`LedgerFits`: nothing is paid before a grade, and only rows there are
count as overdrawn) and two inequalities, unless requests may force:
what is at risk exceeds the bankroll by at most the stakes that were inserted on
an outdated reading (`Covered`), and an order whose reading is not outdated has
read no more than there is (`ReadingFits`).  An insert adds
its stake to the exposure (`SumWith`) and had it compared with the reading; a
settlement takes the stake out of one sum and loses at most the stake in the
other (`SettleWorth`); one between the two halves of a reading marks the
reading outdated, which puts the order's stake into the excess that is allowed.

`HistoryProofs` proves, for any rows, filter, page size and times:

- `PagesNeverRepeat`: `Spec => []NoRowTwice`.
- `WalksAreComplete`: `Spec => []SteadyRowsListed`.

Both follow from `WalkInv`.  The order of the ledger is total and transitive
(`OrderTotal`), so a page is a prefix of what remains (`PageIsPrefix`, by
comparing cardinalities).  Rows on the pages lie up to the cursor and a page
takes only rows after it, so none comes twice; steady rows up to the cursor are
on the pages, since whatever a page passes over comes after its last row, and at
the end nothing remains (`Walked`).  Rows that are compared with the cursor have
begun their transaction, and their place never changes again (`Placed`).

`GradeTxProofs` proves, for any bets, calls and charts:

- `StatusAndGradeAgree`: `Spec => []GradeFitsStatus`.
- `TalliesAreSound`: `Spec => []SnapshotsCountOnce`.
- `PagesAreSound`: `Spec => []PageCountsOnce`.
- `GradingIsOneStep`: `Spec => ImplementsTally`: for any calls, forced or not, so
  at most one unforced call ever grades a bet.
- `ChartsAreCurrent`: `Spec => []ChartsEndAtBankroll`.

`LedgerInv` says that a grader that holds a row may grade it (`HoldsFit`): while
it holds the lock nobody else changes the row, so what the claim found is still
the case at the commit: an unforced call finds its bet open and ungraded there,
so it never meets the unique key (`InsertWorks`), and a refused one has found it
graded (`RefusalTallies`).  A snapshot is sound because the sums come before the
count: whatever was graded between the two is missing from both, not in both; a
page likewise, and its time covers its grades because every grade has its
snapshot (`Recorded`).
The last theorem needs that times are distinct (`Stamped`) and that without an
overlap the newest snapshot is that of the last commit (`LastCounts`); that a set
of snapshots has a newest one follows from the well-foundedness of the naturals.

`LineCaptureProofs` proves, for any games, names, lines, orders and time to live:

- `MappingsExpire`: `Spec => []StaleWithinTtl`.
- `OwnGamesOnly`: `Spec => []PricedOnOwnGame`.
- `AskedLinesOnly`: `Spec => []PricedAsAsked`.
- `RecentPrices`: `Spec => PricesAreRecent`.

The invariant `Sound` bounds the time left of a mapping and the time its id has
been gone by their sum, which a tick leaves alone; a request that has read the
listing but not stored yet adds its own age, hence `Delay`.  Cached and found
ids are of games told apart by name and date.

`ServiceProofs` proves, for any such backoff:

- `HealthTellsTheTruth`: `Spec => []StatusTellsSubscription`: a live subscription
  is never shown as lost, and a lost one as running only on the way to the read
  that finds it.  (Health is not more than that: after the connection has gone
  it shows "running" until the task reads from it again.)
- `BackoffIsCounted`: `Spec => []WaitsGrow` (the nth wait in a row is the nth of
  the capped doubling).
- `ShutdownIsInOrder`: `Spec => []TasksSpanService`.

`Safe` counts where the backoff stands at each await (`Counted`), how far the
shutdown is (`InOrder`), and at which awaits the pubsub can be connected and what
the status is there (`Placed`): after a failure there is no connection until the
next subscribe, so a live one is met at the read, in the handler or on the way
out only.

`RulesProofs` proves, for every league, all whole scores and half-point lines and
all American odds, for parlays, lists of bets and feeds of any length, what TLC
enumerates for a few.  The constants are arbitrary subsets of the naturals and
the integers.

- `SidesSettleAgainstEachOther`, `MoneylineHasOneWinner`,
  `BetterLinesGradeBetter`, `RegulationIsForSoccer`, `ClvTellsPayout` and
  `ConversionKeepsOdds` are integer arithmetic over the cases of `GradeBet` and
  of rounding.
- `PropsSettleAgainstEachOther` (`PropSidesMirror`): both sides of a prop count
  the same statistic, the sum of the fields of a player's line that its type
  names, which is a number whatever the line holds in them.
- `ParlayPaysRollOver` (`ParlayRollsOver`): the profit of a parlay is what is
  left of staking leg by leg.  By induction over the prefixes of the parlay, the
  roll-over after a prefix is the stake times the odds of the legs won in it,
  and a lost leg makes it nothing for good.
- `BetIsComparedWithItsPrice` (`CloseIsComparable`): of the comparable lines one
  is nearest (`LeastExists`) and the first of the nearest is taken, unless the
  bet's own book has one; a feed in reverse has the same nearest lines.
- `CalibrationErrorIsBounded` (`CalibrationIsBounded`): a bin is two bins of half
  its width (`BinIsHalved`), so by the triangle inequality halving the bins
  never lowers the error; the bins are disjoint and together all bets, so the
  error is at most what the single bets are off, and the square of that at most
  the Brier score by the inequality of Cauchy and Schwarz (`SquareOfSum`).
- `StreaksAreLongestRuns` (`StreaksAreRuns`): `StreakInv` says for each set of
  settled bets what the fold has found of the bets graded up to its last: the
  current run is the longest stretch that ends there, and the two records are
  the longest stretches of wins and of losses.  A later bet extends every
  stretch that ends at the last bet if it has the same result, and no other.

`Sums` is what these and the bankroll rest on.  The library's induction theorems
take an operator as a parameter, so induction is by a least counterexample in a
well-founded order instead: `NaturalsIn` for the naturals, `SubsetsIn` for the
subsets of a finite set.  A fold of the community modules is a recursive function
that is CHOSEN; `FoldExists` shows that there is one by building it on ever larger
subsets, `FoldsAgree` that it is unique, and `AnyFirst` that the element taken
first does not matter when the steps commute.  From that follow the laws of
sums: one place more or less or changed, sums of parts, bounds, squares.

The proofs assume what `BookAssumption`, `ParlayAssumption` (a parlay has two
legs or more, none a team or game prop: `PARLAY_MIN_LEGS`,
`validate_parlay_legs`), `GraderAssumption`, `PlacementAssumption`,
`HistoryAssumption`, `GradeTxAssumption`, `LineCaptureAssumption`,
`ServiceAssumption` and `RulesAssumption` say: which sets the constants are
from, and that bounds are natural numbers.  `PlacementAssumption` says besides
that the orders are finitely many (else nothing could be summed), that each has a
leg, and that decimal odds, which are whole in this model, are at least 1.

Only model-checked: liveness (`ParlaysSettle`, `ScoreBetsSettle`, `LegsDecide`,
`PropBetsSettle`, `GradingEnds`, `TasksGoOn`, `ShutdownEnds`), which is out of the
prover's reach, as is ENABLED.  Every invariant and every action property that a
passing run checks is stated by a theorem.

## 5. Not modelled

Of the modelled parts: the rounding of floats and stored decimals; averages, ROI
and breakdowns of the performance figures, which are plain sums and quotients;
when closing lines are fetched (in the loops of the grader, best effort, read by
no decision); descriptions, slugs and the normalisation of names; filters on
columns that never change and the codec of cursors.  Not modelled at all:
request and response schemas, HTTP plumbing and clients (their results and
failures are steps of their callers), the probes of health, configuration,
telemetry, migrations and scripts, none of which has behaviour of its own.

One remark on breakdowns: those by `market_type` count a parlay under the market
of its first leg, though a comment in `services/bets.py` has analytics group by
`is_parlay`.

## 6. Plan

What is left, in this order:

1. `GradeTx` with parlays: `grade_leg` and the settlement beside it, so that the
   three transactions of a parlay are seen statement by statement too.
2. Breakdowns: that the groups of a breakdown partition the graded bets.
3. `HistoryProofs` and `PlacementProofs` rest on single steps for the inserts:
   a model of `insert_idempotent` by statements, as `GradeTx` is of `apply_grade`.
