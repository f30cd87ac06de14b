# juniauto: a verification project

TLA+ models of the control logic of juniauto, an automated equity trading
system (a Python orchestrator, `src/orchestrator/juniauto`, and a C++ engine,
`src/engine`), the TLC runs that check them on small instances, and proofs of
the theorems that hold for every instance.

Paths below are relative to `src/orchestrator/juniauto` unless they say
otherwise.  `PROJECT.json` maps each definition to the lines it models.

## 1. Inventory

| component | state it keeps | operations | interacts with |
|---|---|---|---|
| PDT tracker (`execution/pdt.py`) | a deque of day trades, open date per symbol; memory only | `note_open`, `note_close`, `count_in_window`, `can_close_today`, `min_hold_satisfied` | called by the order manager, the live cycle and the backtest engine |
| Order manager (`execution/order_manager.py`) | none; writes `executions` | `route`: gate, submit, record, note | tracker, Alpaca, database |
| Trailing stop manager (`execution/trailing_stops.py`) | `active_stops`, append-only | `manage_cycle`, `compute_level`, `snap_to_broker_tick`, `should_replace` | Alpaca orders, `executions`, scheduler, `trigger_stops` tool |
| Stop reconciliation (same file) | `stop_triggers`, `stop_penalties`, append-only | `reconcile_triggered_stops`, `_register_penalty`, `_deactivate_expired_penalties`, `get_hurdle_bump_bps` | hourly resolution loop |
| Trading day (`main.py`, `tools/trigger_stops.py`) | the handlers of one process and a second one started by hand | phantom cycles 09:40 and 12:30, live cycle 15:55, hourly resolution loop | all of the above |
| Simulated broker (`backtest/broker.py`) | cash, positions, pending queue, fills | `submit_market`, `close_position`, `settle` | loader, engine |
| Backtest engine (`backtest/engine.py`, `clock.py`) | clock, tracker, broker | `_run_one_cycle`, `run`, `advance` | broker, tracker |
| Resolution, phantom resolution, retraining (`bayesian/`, `src/engine/src/bayesian`) | `executions` labels, `phantom_gateway_actions` outcomes, the ridge's accumulated moments | resolve a batch, join with features, refit; the backfill tool writes rows of its own | hourly loop, boot, `backfill` tool |
| Target weights (`portfolio/weighting.py`) | none (pure) | `select_top_k`, `compute_target_weights`, `_water_fill` | live cycle, backtest |
| Rebalancing (`main.py`: classification, dead band, order loop) | none; reads positions and quantities | `_classify_rebalance`, route row by row | target weights, order manager |
| Shadow monitor and challenger (`shadow/`) | observations and a counter of consecutive passes per symbol and horizon, bounded deques per bucket | `ingest`, `evaluate`, `persist`; `update`, `decay`, `predict` | no caller yet |
| Gateway and costs (`src/engine/src/costs`, `gateway`; `_evaluate_gateway` of `main.py` and of the engine) | none (pure) | `compute_cost`, `evaluate`, the decision on a candidate | live and phantom cycles, backtest, hurdle bump |
| Market regime (`signals/regime.py`, `market_regime`) | a table of smoothed stress, append-only | `compute`, `_load_prev_stress_ema`, `_persist_market_regime` | every cycle |
| Yahoo feed (`data/yahoo_feed.py`) | a cache of one file per symbol, shared by processes; a pool of threads per call | `get_fundamentals`, `_fetch_one`, `_save_cache` | snapshot of every cycle, stop tool, backfill |
| Other feeds, technical signals, dashboards, database client | connections | I/O and numeric features | everything |

Behaviours that make it hard:

* The handlers of the trading process never await, so they run one at a time,
  but the market, the broker and the `trigger_stops` process move between any
  two of their calls.
* Every table is append-only and read by "newest row", and a read that fails
  counts as an empty table.
* Broker and database are written one after the other: a cancel, a submission
  and a row may each fail, a reply may be lost, the process may die between.
* The broker withholds shares under a standing stop from every other order.
* Orders in the backtest wait in a queue from one day to the next, and a bar
  may be missing when they are due.
* Labels of the learning tables are filled in by one process and written whole
  by another, and what the ridge has accumulated cannot be taken out again.
* A cycle computes targets from weights read at one moment and orders from
  quantities read at another.
* Threads of a fetch may answer late, again or never, while the cache they are
  saved to is emptied and written by other processes.
* The age of a quote, the decay of a bump and the smoothing of the regime run on
  three different clocks: minutes of the wall, sessions, and cycles.

What makes each component correct:

| component | properties |
|---|---|
| PDT tracker, order manager | the bounded log answers as a full one would |
| Stop manager and trading day | an older position is under one stop from 09:40 to the close, repaired by 12:30 after a failure; rows and high-water marks ratchet; none submitted on the entry day |
| Stop reconciliation | a stop that fills soon after it was sent is on record in time; no fill is penalised twice unless a query failed; a broken run loses one penalty at most |
| Simulated broker, backtest engine | fills account for every share and cent, each order fills once and never on the day of its decision, cash is not overdrawn |
| Resolution and retraining | a label never changes under a sample, and never comes from before the market last traded; a phantom return spans a session; a resolvable row is resolved |
| Target weights, rebalancing | targets are the fair shares under cap and budget; one undisturbed cycle restores cap, reserve and exits; the same input then orders nothing |
| Yahoo feed | each symbol is answered once, from today's fetch or the record; nothing old unless a fetch failed; every call returns |
| Gateway, regime | no name is bought back in the session of its stop-out without an edge; age never helps a quote; the backtest buys what the live loop buys; one reading moves the multiplier little |

## 2. Modules

    TradingCalendar <- PDTTracker <- OrderRouting <- MCOrderRouting
                                  <- Backtest  (INSTANCE SimBroker)
    StopLevel <- TrailingStops <- LiveCycle <- MCLiveCycle
                  (LiveCycle: INSTANCE StopPromise, which it implements)
    StopPenalties <- MCStopPenalties
    Learning
    TargetWeights <- Rebalance <- MCRebalance
    FetchPool  (INSTANCE Answers, which it implements)
    Gateway, Regime, TradingCalendar <- Decisions <- MCDecisions

An arrow is EXTENDS.  `OrderRouting_proofs`, `Backtest_proofs`,
`LiveCycle_proofs` (with the arithmetic of StopLevel), `StopPenalties_proofs`,
`Learning_proofs`, `Rebalance_proofs`, `Decisions_proofs` and `FetchPool_proofs`
hold the theorems of the modules they are named for.  The order was that of the
money at stake: the gate and the stops, which act on the broker; the stop
penalties; the backtest that every parameter is tuned on; what the model learns
from; the portfolio that comes out; the decision on one candidate; and the feed.

### How state and actions correspond to the code

**TradingCalendar, PDTTracker.**  `trades` is `_trades`, a sequence with the
bound of the deque; `openDates` is `_open_dates`.  `NoteOpen`, `NoteClose` and
the three queries are the methods; `hydrate` has no caller and is not modelled.
`TradingDaysBetween` counts both ends, as the exchange calendar does.

**OrderRouting.**  `RouteBuy` and `RouteRotate` are `OrderManager.route`,
`FullExit` is the `close_position` path of `main.py` that notes an open and a
close of the same instant, `StopFill` is the broker's, `Restart` empties the
tracker.  `lastBuy` and `exits` are history: what this process has bought and
exited.

**StopLevel.**  `compute_level`, `snap_to_broker_tick` and `should_replace` on
whole broker ticks.  The code computes a real and floors it; flooring commutes
with the maxima, so the ratchet is the same.

**TrailingStops.**  One process's `manage_cycle` as a program counter: read
positions (`GetPositions`), `active_stops` (`LoadPrior`), standing orders
(`LoadStanding`), entry days (`LoadEntry`), then for each symbol `SkipSymbol`,
`ShadowSymbol` or `DecideSymbol`, and `CancelStanding`, `SubmitStop`,
`SubmitRefused` or `SubmitReplyLost`.  Each call of the code is a step, because
the market and a second process may move between two calls.  `Fault` fails one
call; `Crash` ends the process.

**LiveCycle.**  `clock` is the next event of the schedule: 09:40, 12:30, 15:55,
16:00.  `Tick` moves the market and makes a handler due; `PhantomCycle`,
`LiveCycle`, `RouteOrder`, `ManageFresh` are the handlers in `main.py`,
`ModelUpdate` the hourly loop after a retrain, `RunTool` the tool
`tools/trigger_stops.py` in its own process, `CloseOfDay` the expiry of DAY
orders.

**StopPromise.**  What the stop manager promises, without processes, rows,
prices or quantities: `time` (night, the first cycle, the session), `owned`,
`fresh` (bought or added to today) and `guarded` (under one stop).  Stops are
sent and withdrawn until the first cycle is over, never for a fresh position;
that cycle is not over while a position of an earlier day is left out
(`FirstCycleOver`); from then on such a position leaves its stop by a fill or at
the close, and cannot be sold.  `LiveCycle!Promise` maps the trading day to it:
`time` is read off the clock, `owned` and `fresh` off the account, and a symbol
is `guarded` when one stop stands for it, alone, and for the whole of it unless
it was bought or added to today.

**StopPenalties.**  `fills` is what the broker knows: each filled stop with the
hour it was sent and the hour it filled, both of one session, for stops are DAY
orders.  `RecentFills` selects by the former, as `after=` does. `triggers` and
`penalties` are the two tables; `Hour` is a firing of the loop or a missed one,
`InsertTrigger` and `RegisterPenalty` the two writes, `ReadExpired` the query
for the decayed rows, `Deactivate` the write for one of them, the oldest first,
`BreakOff` a write that raises or a process that dies.  A
query for the row of a fill may fail, and then the fill counts as new (`blind`
remembers which); so may the query for the decayed rows.
What the rows do to the hurdle (`get_hurdle_bump_bps`) is `HurdleBump` of
Decisions.

**SimBroker, Backtest.**  `settle` is one action per order of the queue
(`KeepOrder`, `FillBuy`, `FillSell`) and `SettleDone`, because a provider that
raises leaves the loop in the middle (`SettleRaises`).  `Backtest` is the cycle
of the main curve: settle, note the buys, route through the gate, advance.
`mishaps` is history: whether a bar was missing when an order was due, and
whether `settle` has raised.

**Learning.**  Time is four moments a day.  A price is represented by the
moment it was taken, so "which close was this label computed from" is part of
the state.  `rows` is `executions`, `phantoms` is `phantom_gateway_actions`,
`fetched` says when the bars of a symbol were last written.  `Resolve` is one
run of both resolvers, `Retrain` the join and the update of the engine's ridge
(`posterior`, and `recounted` once a sample was added twice), `Backfill`
the tool, with the bars it writes (`PersistBars`).

**TargetWeights, Rebalance.**  `SelectTopK`, `WaterFill` and
`ComputeTargetWeights` are the functions of `weighting.py` on integer weights
(units of equity, rounded down, comparisons exact).  `Decide` reads the weights
held and computes targets, `ReadQuantities` reads what may be sold, and
`RouteNothing`, `RouteBuy`, `RouteSell` walk the rows in the order of the
feature index.

**FetchPool, Answers.**  `task` holds the futures of a call, `attempts` the
tries of a running thread, `caller` where `get_fundamentals` is.  `Ask` reads the
cache and submits the cold symbols, `Start` and `Attempt` are the threads,
`CollectResult` and `CollectFailure` the body of the `as_completed` loop,
`OpenFile` and `WriteFile` the two halves of `write_text`, `PoolTimeout` the
handler, `Return` the end of the `with` block, which joins the threads.  `file`
is the cache, shared by the processes; a record is the day it was fetched.
`Answers` is what the callers are promised: it knows neither threads nor files
half written, and a record is lost only for a symbol that has a newer answer.

**Gateway, Regime, Decisions.**  `ComputeCost` and `Net` are `compute_cost` and
`evaluate` in exact integers, 400000 to a basis point, in which every constant of
the cost model is whole; only the ramp of the stale-quote risk and the yield
of cash are rounded down.  `EvaluateLive` and `EvaluateBacktest` are the two
`_evaluate_gateway`, `BumpAfter` the decay of the bump.  `BlendedStress`,
`Smoothed`, `GammaMultiplier` are `compute` of the regime signal in thousandths.
`Decisions` runs the cycles of 09:40, 12:30 and 15:55: `Cycle` observes the
regime (step 2.5) and evaluates a candidate (step 5), `CycleFails` raises
before either; `NewQuote`, `NewBars`, `Retrain` and `StopOut` happen in between.

### Modelling assumptions

* Trading day: the orders of the live cycle are routed before 16:00; a run of
  the tool does not span a scheduled event; the entry average is in ticks; what
  the weights ask for is any choice, and a trim may ask for any part, which
  over-approximates the PDT gate; `list_open_stops` returns everything in its
  one page.
* Stop penalties: the broker takes `after=` for the time of the submission, as
  its interface has it, and lists all such orders in one page; a stop fills in
  the session it was sent in.
* Backtest: the wall clock's day is not one of the window's (`WallBar` is the
  bar found under it, 0 for none).
* Learning: `NumberedParams` says that the driver takes the `$1` placeholders of
  `resolution.py`.  Its default cursor does not, and then no row of a live buy
  is ever labelled.  LearningRecount runs with FALSE, the program as it is; the
  run Learning with TRUE, so that what its properties say of live rows is
  exercised.  The theorems hold for both.  Returns of different rows differ.
  Rows come from a table oldest first.
* Rebalance: an order fills at the price its quantity was computed with; a
  sell the PDT gate stops is an order that failed.
* Fetch pool: no call spans midnight; a file that two processes write at once
  holds the whole of one record or none that can be read.
* Decisions: a spread may be negative, for the feed lets a crossed quote through
  and no cost has a floor; a stock with a history is more volatile than the 200
  basis points a year at which the cost model caps the term; the order of the
  gateway has no notional and no slippage, as in the code.  Sizing and weights
  come after the decision and are not in it.  While `regime.apply_to_kelly` is
  false the regime decides nothing, so a behaviour varies the inputs of the
  candidate or of the regime.

## 3. Bounds

| run | bounds | why they are enough |
|---|---|---|
| OrderRouting | 2 symbols, days 0..4 with day 2 a holiday, log of 2, cap 2, window 3, 4 exits | the log overflows, the window slides past old trades, a holiday lies inside it |
| LiveCycle | 2 symbols of which 1 in the canary list, 2 days, prices 1000 and 1100, 2 shares, 6 orders, 1 failure a day of 10 kinds | the failure may hit the other symbol and end the cycle before ours; an add to an older position, its row lost, leaves part of the shares bare beside a standing stop, which is kept or replaced; a failure in each of two cycles a day apart; falls by which the cap loosens a stop |
| LiveCycleTool, LiveCycleOrphan | 1 symbol, 3 days, prices 1000 and 1100, no failure | both processes cancel and submit for the same symbol; a stop is raised and filled |
| StopPenalties | 2 symbols, 3 fills, 7 hours in sessions of 3, window 2, expiry after 3 sessions, every query may fail | a fill is seen by overlapping runs, or by none; a penalty decays while a newer one stands; a second penalty meets the first |
| StopPenaltiesUnlisted | 1 symbol, 2 fills, one session of 6 hours, no failure | a stop that stands for longer than the window before it fills |
| Backtest | 2 symbols, 4 trading days and a holiday, 4 orders of up to 2 shares, `delayed_mid`, cash 7, missing bars, raising calls | two buys compete for the cash, a buy is degraded, an exit and a trim of one symbol; an order outlives its position, or is settled twice |
| Learning | 1 symbol; the process starts on a holiday after one trading day and sees two more, a new year between them; batch of 3, minima 2 and 3; 1 failure of 6 kinds; the tool once, at night before the last day | rows on a day without a bar, beside rows that have theirs, in one batch; labels from a bar of the wrong day; a year left out; the tool between two resolutions. What the tool adds on days with orders of their own is left to the theorem, which needs no bound |
| LearningRecount | 1 symbol, no failure, `NumberedParams` FALSE, one run of the tool | the rows of the tool are labelled from the start, so the plain hourly loop adds them twice |
| Rebalance | 3 symbols, 2 places, cap 40, budget 95, 1 disturbance | selection drops one, the cap binds for one and for two, an incumbent is kept by hysteresis, a stop may cover a name |
| FetchPool | 2 processes on one cache, 2 symbols and an ETF, 1 thread each, 2 attempts, TTL of 1 day, 3 days, any number of failed writes and deaths | one symbol is queued when the pool times out, one runs on; a record is fresh, then old; both processes write one file |
| Decisions | 4 days with a holiday; spreads -1, 0, 1, 5, 10 and 120, quotes of 08:00, 12:15 and 15:40, means -50, -25, 0 and 20; stress varied over 2 days, at 4 readings; 1 failure of 5 kinds | spreads on both sides of the backtest's, one above the limit and one crossed; ages in, between and beyond both bands of the stale risk and at its cap; a stop-out before and after the holiday; a reading with components missing after one with all |

The bounds in guards are `LastDay`, `MaxExits`, `MaxOrders`,
`MaxQty`, `MaxFaults` (TrailingStops, Learning, Decisions), `MaxFills`,
`LastHour`, `MaxRuns`, `FirstDay`, `ToolMoments`, `MaxUpsets`, `StressDays`;
`calm` in Rebalance stops counting where no property looks further.
LiveCycle ends after two days; what a failure of the second day does to a third
is left to `AlwaysRepaired`, which needs no bound.  The failing read of the entry
days is left to `RowsStayNear` and `RowsRatchet`, which assume nothing about it,
and so are prices at which no level is a price the broker takes.  Deadlock is
checked in Rebalance; the other behaviours end with their last day.

## 4. Runs

Passing:

* **OrderRouting**: `EvictionHarmless` (the deque of 64 forgets only what the
  cap question does not need).  It speaks of one process: a restart empties the
  log and the history alike (section 6).
* **LiveCycle**: with a failure or crash a day, `RepairedByLive`, what a failure
  left uncovered is covered again after 12:30, unless the row of its purchase
  was lost.  The failing read of the entry days is left out of the run because it
  breaks it too (section 6).  `RowNearOrder`: a row that names a standing order
  is not far above its price.  `RowRatchets`: from row to row a high-water mark
  never falls, and a persisted stop only to the cap below the market, unless the
  cycle that writes the row could not read the one before (section 6).
* **LiveCycleTool**: `CoveredIntraday`, `OneStopPerSymbol`,
  `NoSubmitOnEntryDay` and `KeepsPromise`, the refinement of `StopPromise`, with
  the tool running beside the scheduler, at prices
  where every level is a price the broker takes and where no call fails.  That
  bound matters: where a level has no valid price below the market, or a call
  fails, an older position is without a stop when the tool reads it, routing
  adds to it, and the tool submits on the day of the purchase, or a second stop.
  For the trading process alone two of the theorems need neither (`NeverTwoStops`,
  `NeverOnEntryDay`).
* **StopPenalties**: `PenaltyOnce`; `PromptFillsKept`, the window of two hours
  bridges a missed or broken run for a stop that fills in the hour it was sent
  (for others see StopPenaltiesUnlisted); `OnePenaltyLostPerCut`.
* **Backtest**: `TypeOK`, which bounds cash and positions from below;
  `NoLookAhead`; `QueueDrained`: what is filled leaves the queue, as long as
  `settle` has not raised, and nothing stays in it, as long as no bar was missing
  either; `LedgerMatches`, under the same two conditions.
* **Learning**: `LabelsStand`, `PhantomSpansASession`, `LabelNotBeforeOrder`,
  `PhantomsResolved`.
* **Rebalance**: `FairShares`, `NoOrphans`, `WithinMandate`, `NoChurn`.
* **FetchPool**: `KeepsPromise`, the refinement of `Answers`;
  `StaleOnlyOnFailure`, an old or empty answer before the pool times out comes
  from a failed fetch; `CallsReturn`, every call ends.
* **Decisions**: `NoReentrySameSession`, a stopped-out name without an expected
  return is not bought back in the same session, unless its quote is crossed
  (the margin is 0.7 basis points); `AgingNeverHelps`, a quote that only grows
  older does not turn a rejection into a purchase although its risk drops from
  20 to 4 basis points at one session (the gap between two cycles makes up for
  it; cycles less than 156 minutes apart would not); `BacktestOptimistic`, what
  the live loop buys at a spread of 5 or more the backtest buys;
  `OneReadingContributesLittle`, from one reading of the stress to the next the
  multiplier moves by 13 % of its range at most, whatever failed or was not
  written in between.

Where a comment of the code says otherwise (the run finds the property
violated):

* **LiveCycleOrphan** `DroppedIsSold`: `main.py:472` says a full exit bypasses
  what would leave an orphan; with its shares under a stop, `qty_available` is
  zero and the position is held.
* **StopPenaltiesUnlisted** `NoFillLost`: `main.py:1337` has the fills "that fired
  during the last hour" reconciled; the query of `data/alpaca_feed.py:263`
  selects by submission, so a stop sent hours before it fills is never listed and
  leaves neither a trigger nor a penalty.
* **LearningRecount** `CountedOnce`: `training.py:383` says the posterior is
  rebuilt; `GroupedRidge::update` adds to what it has.  The rows are those of
  the backfill tool, which need no resolver.

### Fairness

`Learning!FairSpec`.  `SF(Clockwork)`: the hours pass and the
cron jobs fire, whatever the loop does in between.  `WF(Retrain)`: a loop that
has resolved goes on to fit, in the same handler.
`SF(ResolutionLoopSucceeds)`: the loop fires every hour and a row that failed is
looked up again, and does not fail for ever.  Faults are bounded.  No fairness
is given to the tool, to failures or to restarts.

`FetchPool!Spec`.  `WF(Caller(p))`: the process that waits for its futures goes
on.  `WF(Threads(p))`: some thread of it goes on, which says that an attempt
ends.  The code sees to that with the timeout of the HTTP session alone; the
timeout of the pool does not interrupt a thread, and the `with` block joins it.
Failures, the timeout and deaths need no fairness: `CallsReturn` holds if none
of them ever comes.

## 5. Theorems

Proved for all values of the constants that meet the ASSUMEs of the modules,
and the hypotheses named here.

* **OrderRouting_proofs**.  `TypeCorrect`, and `EvictionSafe`:
  `[]EvictionHarmless` for every calendar, window and cap of at most `MaxLen`.
  `EvictionHarmless` is not inductive.  The invariant is that the log is the
  suffix of the full history with at most `MaxLen` entries, and that the
  history's days ascend.  Then if the log is full and its last `MaxLen` trades
  are not all in the window, none before them is (`WindowMonotone`); if they all
  are, the cap is reached in both.
* **LiveCycle_proofs**.  First the arithmetic: `LevelRatchets`,
  `SnapBelowMarket`, `OnlyTheCapLoosens`.  Then the trading day.  Without any
  hypothesis on failures or processes: `DayTypeCorrect`; `RowsStayNear`, a row
  is ahead of its order by the hysteresis at most; `NeverSellsTwice`, the stops
  of a symbol never add up to more than is held.  For the trading process alone
  (`Procs = {"main"}`), each with the failures left out that would break it:
  `NeverOnEntryDay` (without failing reads of the entry days or failing records
  of purchases), `NeverTwoStops` (without failing reads of the standing orders
  or failing cancels), `RowsRatchet` (whatever fails, because `RowRatchets`
  itself excuses the cycle that could not read the rows).  What a process has
  read is part of the invariant: the entry days, orders and rows it holds are
  still those of the account, because nothing else writes them before it has
  used them.  `AlwaysRepaired`: `[]RepairedByLive` with one failure a day, of
  any kind but the two that hide a purchase, at prices where every level is a
  price the broker takes (`LevelsStand`).  It follows from an invariant
  (`Guarded`, `Left`) by which a symbol is wholly covered, or nothing stands for
  it and a cycle that will take the whole of it is still to come.  Which cycle
  that is depends on whether the day's failure has been spent: before 12:30 the
  next one will do, at 12:30 only the cycle under way, and only a symbol a
  failure left behind may still need it.

  Then any number of processes in the stop step at the same time, the tool among
  them, with no failure and `LevelsStand`: `AlwaysCovered`
  (`[]CoveredIntraday`), `OneStopBesideTool` and `NoEntryDayBesideTool`.  Two
  processes that interleave call by call do not hurt each other because the
  broker serialises them.  `GetPositions` shows only shares that no stop
  withholds, so a process that goes on with a symbol saw it bare; shares are
  sold to one stop only, so of two processes that both saw it bare the second is
  refused, or cancels the stop of the first and sends its own.  The invariant
  (`Beside`) says this of every process: a symbol it has still to come to was
  bought today, or has no shares it may take, or is held as the process read it
  before the first cycle was over (`Careful`); what it withdraws for a symbol is
  an order of that symbol (`OwnOrders`); a symbol has one stop (`Single`), for
  the whole of a position of an earlier day, or none, and then somebody will
  still send one before the first cycle is over (`Watched`).  Orders of the day
  are routed after that (`RoutedLate`).  `ImplementsPromise`: `Spec =>
  KeepsPromise`, the refinement of `StopPromise`, one step of the code at a
  time, from that invariant before and after the step.  A stop sent, cancelled
  or filled maps to `Send`, `Withdraw` or `Fill`, the event after 09:40 to
  `FirstCycleOver`, a routed order to `Buy`, `Sell` or nothing, and every read,
  row and decision to a stutter.
* **StopPenalties_proofs**.  `TypeCorrect`, `PenalisedOnce`, `PenaltiesLost`,
  and for a window of two hours or more `PromptFillsOnRecord`.  The
  invariants relate the two tables to the place of the run: a penalty has its
  trigger (`RowFirst`), a prompt fill without a row is in the window of the run or
  of the next one (`OnRecord`), a fill without a penalty was lost to a cut of its
  own (`OneLostPerCut`).
* **Backtest_proofs**.  `TypeCorrect`: cash is never negative and no position is
  short, with every kind of gap and exception.  The invariant adds the place in
  the queue and the types of the orders to `TypeOK`.  `FillsOnce` and
  `NeverLooksAhead`: the orders of the queue and of the fills have different
  numbers until `settle` raises, and carry the day of their decision.
  `QueueDrains`.  `LedgerBalances`: `[]LedgerMatches`, with an invariant that
  says what a sell in the queue may still ask of the position.
* **Learning_proofs**.  `TypeCorrect`: the tables stay well-typed and finite.
  `LabelsAlwaysStand`: samples are only made of labelled
  rows, and every writer of the tables keeps a labelled row as it is.
  `PhantomsAlwaysSpan`: a phantom row is resolved from a bar of its own day that
  was written again on a later trading day, so its close was final.  The
  earliest later bar exists by well-foundedness of the naturals.
  `LabelsFollowOrders`: the action property `LabelNotBeforeOrder`, from the
  invariant that an unlabelled row is a routed one without a labelled double
  (`Awaiting`); without it a row of the backfill tool could pass for the
  resolved form of another.
* **Rebalance_proofs**.  `TypeCorrect`; `SharesAreFair`: the water fill ends in
  the one level at which the capped names are those above the cap, for any
  names, scores, cap and budget; `OrphansSold`; `MandateRestored`.  The
  invariant (`IInv`) is that targets are those of the input (`Aimed`) and that
  in an undisturbed cycle every symbol already routed is within the dead band of
  its target (`Undisturbed`); the budget needs in addition that the targets of
  any set of symbols stay within it (`Budgeted`).  `ChurnEnds`: `[]NoChurn`, if
  no name's whole share of the budget is rounded away (`NoneVanishes`; the
  code's weights are floats and not rounded, and the run evaluates the
  hypothesis for its instance).  Without it a positive share that becomes
  nothing makes its name an incumbent no longer, and the selection may take
  another cycle to settle.  With it the names a cycle chooses are those the next
  one boosts, so they keep their places (`TopRises`, `TopStays`), the third
  cycle has the targets of the second (`AimsSettle`), and every position is
  within its dead band.  The invariant adds to `IInv` what the last undisturbed
  cycles leave behind them (`Followed`, `Chain`).
* **Decisions_proofs**.  `TypeCorrect`.  `ReentryBarred` and
  `BacktestIsOptimistic`: `[]NoReentrySameSession` and `[]BacktestOptimistic`
  for every calendar, quote time, mean and spread (one that is not negative in
  the former), from an invariant that adds the types of the candidate and the
  clock.  Costs are never negative, the net edge of a purchase falls as the base
  cost rises (`NetBuyFalls`), a live quote costs at least what its spread and
  its volatility do (`LiveBase`) and the backtest exactly that (`BacktestBase`);
  the bump of the first session is then compared with what the membership edge
  leaves.  `NeverBothWays`: no state of the market with a quote that is not
  crossed makes `evaluate` want a purchase and a sale at once.
  `ReadingContributesLittle`: the action property `OneReadingContributesLittle`,
  because a new value is smoothed from the newest one in the table that is not
  null, and moves by 130 thousandths at most.  `AgeOnlyCosts`: the action
  property `AgingNeverHelps`, because two cycles are at least 170 minutes apart
  and the ramp of the stale risk gains more in that time than its fall at a
  session costs.
* **FetchPool_proofs**.  `TypeCorrect`; `StaleMeansFailed`; and `Implements`, the
  refinement of `Answers` by every step of caller, thread and crash, from the
  invariant that ties each future to the stage of its call (`Stage`).

The sums of `Backtest` and `Rebalance` and the passes of the water fill are
recursive functions.  An induction over them cannot cite the library's
theorems, whose parameter is an operator; the proofs take a least
counterexample instead (`WFMin` on the naturals), which comes to the same.

Only model-checked:

* `PhantomsResolved` and `CallsReturn`: liveness under fairness is out of the
  prover's reach.

## 6. Other divergences met on the way

Read in the code, and not given a run of their own:

* Day trades are said to persist across restarts (`execution/pdt.py:10`); they
  do not, for the log is a deque in memory and `hydrate` has no caller.  The
  minimum hold of one day is met on the day of purchase, because
  `trading_days_between` counts both ends:
  `src/orchestrator/tests/test_pdt_tracker.py:32`
  (`test_min_hold_blocks_same_day_close`) and `pdt.py:6` say it is not.  So the
  curve of the backtest that is "PDT-enforced" (`backtest/engine.py:11`) may
  route a sell on the day its buy settled, and as it never notes a close the
  gate stops no sell at all.  A window of five trading days covers four earlier
  ones at most.  Closes are said to be recorded "when the fill lands, via
  note_close" (`order_manager.py:81`); a stop that fills and a rotation never
  are, so the gate misses such sells of the day and the cap may be passed.
* A DAY stop submitted at 15:55 expires at 16:00 (`trailing_stops.py:15` has it
  stand for the next session).  A symbol bought again starts from the high-water
  mark of the position before.  A stop of an older position stands on a day of
  an add.  A fully covered position has no quantity available, so its stop is
  not raised until it has expired.  A canary stop may be loosened to the cap
  after a gap.  The tool may overwrite a row with a lower one it computed
  earlier.  A read of `active_stops` that fails counts as no row
  (`trailing_stops.py:766`), so one failed query undoes the ratchet of stop and
  mark, which "never resets" (`:118`); `RowRatchets` excuses the cycle it
  happens in.
* The exemption of the entry day reads the executions table.  When the row of
  an add is lost, or the read fails, the stop step of 15:55 sends a stop for the
  shares that are available; if it runs past 16:00 that stop belongs to the next
  day and covers a part of the position only.  The cycles of that day see the
  rest as available and keep or replace the stop for that part alone, so the
  position is not wholly covered before that stop has expired.  The proof of
  `RepairedByLive` brought this up: it needs two shares and two days.
* A bump outlives its deactivation, because the newest active row decides
  (`trailing_stops.py:308`); by `:735-737` the newer row, which is inactive,
  wins.  Every pass deactivates the same decayed rows again, an inactive row for
  each and every hour, where the docstring (`:708`) has it prevent the growth of
  the table.  A de-duplication query that fails penalises again.  The row of
  `active_stops` is not marked as triggered, which `:610` announces.
* The `close` fill model stamps orders with the wall clock and does not fill in
  a historical window (`backtest/broker.py:19`, `:172`).  A sell reports the
  quantity that was asked.  An exception in `settle` leaves filled orders
  queued.  The backtest sizes on the composite edge, the live cycle on `mu`.
* Numbered placeholders in `resolution.py:148` and `:173` are not what the
  driver's default cursor takes.  A label may come from the bar of the order's
  own day, stamped before the order, and `resolution.py:39-40` has it come from
  a bar "on or after the execution timestamp"; no such filter is in the query.
  The next close of a phantom row is read when that session may still be open.
  An execution is joined with every feature row of its day.  A second run of the
  backfill tool duplicates executions, and with them the samples
  (`backfill.py:36` has it idempotent).  Rows of holidays stay in the batch for
  ever.  An update that raises sets the number of samples to zero.
* The water fill caps every name: where the cap leaves part of the budget over,
  the rest stays in cash.  `src/orchestrator/tests/test_weighting.py:111-115`
  and `:128-130` expect shares of 0.85 / 3 and 0.375 at a cap of 0.10; the
  docstring of `_water_fill` ("each <= name_cap", `weighting.py:219`) and
  `FairShares` are with the code.
* An incumbent with a negative edge may keep its place in the selection by
  hysteresis, get weight zero and be sold, and its place stays empty for a day;
  hence the third cycle in `NoChurn`.  A rejected name that is held is sold in
  full and never reaches the selection (the comment at `main.py:1022` has the
  selector consider it for hysteresis).  A failed read of the
  positions buys everything again.  A name missing from the features is never
  sold.
* The age of a quote is said to be in sessions, "not wall-clock seconds"
  (`utils/time_utils.py:3`), and that of the prior close to read as 1.0 (`:83`);
  it is minutes of the wall over 390, and the prior close is 2.7 at 09:40.  A
  quote of 12:00 costs at 15:55, although no quote of the session should
  (part 4 of the knowledge base, stale-quote risk).  Past one session the risk
  starts again from 4 basis points, below the 20 it had reached.
* The smoothing of the regime has a halflife of five trading days by
  `signals/regime.py:14`, `config.py:224` and `src/config/production.yaml:150`,
  and of five cycles by `regime.py:71` and `config.py:225`.  The code smooths in
  each of three cycles a day, so a day moves the value by up to 34 % live; in
  the backtest a cycle is a day.  `OneReadingContributesLittle` is about a
  reading, on which both agree.  A failed read of the previous value starts the
  smoothing again from the raw one.
* A rejection is labelled `hurdle_bump` whenever there is a bump, also where the
  net edge is negative without it (`main.py:967`).  A query for the bump that
  fails leaves no bump.  On the day of the stop the bump has already decayed
  by one session (both ends count), to 39.7 of its 50 basis points.
* The backtest's spread of 5 basis points is called optimistic
  (`backtest/engine.py:518`); against a tighter quote it is not.  A crossed
  quote has a negative spread (`data/alpaca_feed.py:58-62`), which lowers the
  cost (`src/engine/src/costs/model.cpp:130`): crossed by one basis point it
  uses up what the bump of the first session leaves, and a name is bought back
  at once.  The liquidity floor for a bar without volume never applies, because
  the order has no notional.
* The cap per symbol that `yahoo_feed.py:193` counts on (`fut.result`) does not
  bind, for a future `as_completed` hands over is done.  "One straggler cannot
  wedge the batch" (`:217`) takes the session's timeout: the pool's own only
  stops the collecting.  A write that fails after the file was emptied loses the
  old record, and the next call has none to fall back on.

## 7. Not modelled, and what comes next

Left out for good: technical signals, fits and sizing as numbers (floating point
without control), parsing, dashboards, reports, experiments, configuration and
logging.  The shadow monitor and the challenger have no caller, and the replay
harness compares nothing yet.  In the backtest, the second curve, liquidation and
the retraining, which repeats the fit of Learning.

What could come next: a model of `list_open_stops` with its one page
(`data/alpaca_feed.py:242`), which needs more open orders than an instance can
hold; the promise of the stops with failing calls beside the tool, where
`StopPromise` would have to say how long a position may stay bare; and the
age of the mark a symbol starts from when it is bought again
(`trailing_stops.py:438`), once the code says which it should be.
