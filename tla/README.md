# polytryhard in TLA+

polytryhard is a paper-trading engine for weather markets on Kalshi.  A
scheduler ingests forecasts and market prices, turns them into features, lets
strategies emit signals, sizes the signals into orders, and opens paper
positions; when a market resolves, the position is settled and the profit or
loss is posted to the strategy's bankroll.  An operator moves money, pauses
strategies and throws a kill switch through an HTTP control plane.  The money is
imaginary but the ledger is meant to be the one that will hold real money
(`docs/PDD.md` section 7.1), so the ledger, and everything that races with it,
is the core of this development.

Paths below are relative to the repository; line numbers are those of the
commit the modules were translated from.

## 1. Inventory

### Components

| component | source | state it keeps | operations |
|---|---|---|---|
| strategy lifecycle | `core/domain/state_machine.py`, `enums.py` | none (pure gates) | `can_pause`, `can_resume`, `can_emit_signals`, `should_auto_resume_on_deposit` |
| ledger writer | `core/ledger/writer.py`, `queries.py`, `reconcile.py`, `baseline.py` | `strategy_instance`, `cash_event`, `signal`, `paper_position`, `paper_fill`, `system_state`, audit rows (per-environment database) | `deposit`, `withdraw`, `set_starting_bankroll`, `set_kelly_fraction`, `pause`/`resume`/`decommission_strategy`, `record_signal`, `open_paper_position`, `resolve_position`, `record_realized_pnl`, `apply`/`clear_kill_switch` |
| ledger transactions | `core/api/v1/routes.py`, `deps.py`, `core/db/session.py` | one session per request, in a worker thread | the routes that write: one transaction each |
| engine tick | `core/engine/tick.py`, `core/executors/` | the rows its session holds | read rows, build features, evaluate, size, `record_signal`, `open_paper_position`, two commits |
| resolution tick | `core/engine/resolution.py` | the same session | settle every open position whose market has a resolution, recompute snapshots, commit |
| seeding | `core/ledger/seed.py`, `core/sources/seed.py`, `core/api/main.py` | rows of the two databases | rows, initial deposit and activation of missing strategies, at startup |
| scheduler | `core/scheduler.py` | health of the last cycle, last run of each source | `run_cycle`: ingest each source, engine tick, resolution tick, health; the nightly recomputation, in a thread |
| order sizing | `core/risk/sizing.py` | none | fractional Kelly, position and exposure caps, rounding, rejection reasons |
| markets and features | `core/engine/markets.py`, `core/features/` | `feature_value` (shared database) | which open markets have which features, present or missing, and how old |
| strategies | `core/strategies/` | none | features to an optional signal |
| ingestion | `core/sources/` | `reference_market`, `raw_*`, `contract_resolution`, `source_run` (shared database) | fetch, parse, persist with first-write-wins on resolutions, source health |
| evaluation | `core/eval/` | `eval_metric_snapshot` | metrics and posterior per strategy, recomputed after resolutions |
| control-plane API | `core/api/` | none of its own | routing, authentication, request ids, serialisation |
| schema | `core/db/`, `migrations/` | the tables | migrations before anything else starts |
| settings, clock | `core/settings.py`, `core/clock.py` | configuration | |
| web UI | `ui/` | what it last fetched | a client of the API |
| scripts | `scripts/` | none | reports; the start command of the one server process |

### How they interact

* One process (`scripts/start-api.sh:19` starts one uvicorn worker) holds the
  API and the scheduler.  The scheduler's cycle is a coroutine on the event
  loop.  Its ticks are synchronous calls that never suspend, so no *new* request
  is dispatched while one runs, but a route is an ordinary function that FastAPI
  runs in a thread: the routes dispatched before go on during the tick.
* They share the per-environment PostgreSQL database and nothing else.  Every
  route and every tick has its own SQLAlchemy session and transaction, at READ
  COMMITTED.
* Inside a session rows are cached: a `SELECT` that returns a row the session
  still holds does not overwrite its columns, `FOR UPDATE` included; a flush
  writes only the columns that changed.  The engine holds every strategy row for
  the whole tick (`tick.py:75-78`).  `SystemStateRow` is held by nobody, so
  `_require_system_active` reads it again each time.
* Ingestion writes the shared database; the ticks read it.
* The resolution tick writes evaluation rows for the strategies it settled, in its
  own transaction.  The nightly recomputation runs in a worker thread with sessions of
  its own, so it reads and commits between any two steps of a tick.  The API reads the
  row with the greatest `computed_at`.

### What is hard

Interleavings of handler threads with each other and with a tick, over rows read
before they are locked; stale cached rows; check-then-update without a lock; a
crash or an exception in the middle of a tick that wrote several strategies;
resolutions that are offered again on every tick; sums in cents of prices that
are not whole cents; orders of legal calls (deposit, new baseline, open,
resolve, decommission) that reach states nobody thought of; the order of the
stages of a cycle when one of them fails; the same amount rounded in two places;
quotes, forecasts and statuses that nobody rewrites when they stop being true;
snapshots dated before the data they show.  `PROJECT.json` lists each hazard at
the line where it bites, with the properties that cover it or the module planned
for it.

### What makes each component correct

* **ledger writer** - the bankroll is the sum of the cash events; free cash is
  never negative; a position pays once, to its owner, what its row says; the
  kill switch stops everything except settlement; a decommissioned strategy
  stays so; the high-water mark covers every realised balance.
* **ledger transactions, ticks** - the same for committed data under every
  interleaving and crash; nobody waits for ever.
* **scheduler** - a failed stage shows in the health of the cycle; open
  positions whose market resolved are eventually settled; a source in error does
  not stop the others.
* **sizing** - an accepted order never costs more than any of its caps, and is
  one the writer accepts.
* **markets, features, strategies** - no order on a market whose result is known, on half a
  book, or without forecasts of both models.
* **seeding** - idempotent; a restart never deposits twice.
* **ingestion** - one resolution per ticker, the first; health follows the last run.
* **evaluation** - the latest rows show every settled trade and agree with the
  journal; windows are parts of each other; every trade is in one calibration bin.

## 2. Modules

```
StrategyStates   Journals ---- Sum_proofs   (induction, sums over finite sets)
      |    \      /  |   \          |
      |    Ledger   |   CashBook - + - CashBook_proofs
      |    /   \    |              |
      | MCLedger Ledger_proofs --- +        (Ledger => CashBook)
      |              |             |
      |       Ledger_settlement    |
      |                            |
   LedgerTx ---- LedgerTx_proofs - +        (LedgerTx => CashJournal)
      |     \                      |
 MCLedgerTx  CashJournal           |
                                   |
MarketData ---- Sizing ---- Trading ---- Trading_proofs
                               |
                           MCTrading

EngineCycle ---- EngineCycle_proofs
      |
MCEngineCycle

Eval ---- Eval_proofs ---- Sum_proofs
  |
MCEval
```

| module | models |
|---|---|
| `StrategyStates` | the lifecycle states and their gates |
| `Journals` | the cash events of one strategy as a sequence; `Chained` |
| `CashBook` | abstract: what the ledger promises about money, one book per strategy |
| `CashJournal` | abstract: the part of that promise that survives interleaving |
| `Ledger` | the writer, one function per step |
| `LedgerTx` | routes and ticks, one SQL statement per step |
| `EngineCycle` | the scheduler's cycle in every environment, and the shared database |
| `MarketData` | the content of the shared rows, and the markets and features derived from them |
| `Sizing` | from features to a signal to an order: the strategies, their configuration, `size_order`, and what the writer and the readers of the position make of its numbers |
| `Trading` | the cycle of one environment with its decisions: sources, engine tick order by order, settlement |
| `Eval` | the evaluation rows of a strategy, written by ticks and by the nightly thread |
| `Sum_proofs` | lemmas about journals, induction, and sums over finite sets |
| `CashBook_proofs`, `Ledger_proofs`, `Ledger_settlement`, `LedgerTx_proofs`, `EngineCycle_proofs`, `Trading_proofs`, `Eval_proofs` | the proofs |
| `MCLedger`, `MCLedgerTx`, `MCEngineCycle`, `MCTrading`, `MCEval` | instances for TLC |

### Ledger

Every writer function that changes a row, other than audit rows, is an action.  The checks that raise
`LedgerError` are its guards: the caller rolls a raised call back, so it changes
nothing.

| variable | code |
|---|---|
| `system` | `system_state.state` |
| `strategy[s]` | the `strategy_instance` row: `state`, `enabled`, `bankroll` (`bankroll_cents`), `initial` (`initial_deposit_cents`), `hwm` (`bankroll_hwm_cents`), `minBankroll` (in the JSON config), `kelly` (percent) |
| `cash[s]` | its `cash_event` rows, in id order: `kind`, `amount`, `balance` (`balance_after_cents`), `ref` (`ref_position_id`) |
| `signal[g]` | the strategy of a `signal` row |
| `position[p]` | a `paper_position` row; its one `paper_fill` has the same quantity and price and is left out |
| `reserved[s]` | what `reserved_open_cost_basis_cents` returns for `s` |

`reserved` is a column the database does not have: it stands for the result of a
`SUM` query.  `RowsReconcile` says that it is that sum, `OpenCost`, in every reachable
state, and `LedgerRowsReconcile` proves it.  Prices are in mills because the price columns have six
decimals: `Cents` rounds half up as `_quantize`d amounts do in the writer.

`Seed` is the whole of `seed_strategies_if_needed`: all missing strategies in one
transaction, with their deposit and activation.  `Deposit` includes the
auto-resume that follows it.  `ResolvePosition` includes `record_realized_pnl`.
No code sets `low_bankroll_paused` or `drawdown_paused`
(`docs/PDD.md:449` defers them), so the auto-resume of a deposit is never taken
in any reachable state; it is in the model because it is in the code.

### LedgerTx

The same writes, cut where another transaction can see or delay them.

| action | code |
|---|---|
| `Dispatch` | FastAPI starts a route in a thread; not during a tick |
| `Gate` | `_require_system_active` |
| `ReadRow` | `_get_strategy_row` (no lock) and the check of the state it shows |
| `ReadFreeCash` | `withdraw`'s check of free cash |
| `FlushBankroll`, `FlushLifecycle` | the `UPDATE` (waits for the row lock), `check_bankroll_invariant`, commit |
| `FlushBaseline` | `set_starting_bankroll` from its `SELECT FOR UPDATE` to the commit |
| `FlipSystem` | the kill switch |
| `TickBegin` | `run_engine_tick` reads the kill switch and every strategy row |
| `RecordRejection`, `PlaceOrder` | `record_signal` alone, or with `open_paper_position` |
| `EngineFails` | `record_signal` finds the system paused: rollback, no resolution tick |
| `EngineCommit` | the commit of the per-environment session |
| `ResolutionBegin`, `Settle`, `ResolutionCommit` | `run_resolution_tick` |
| `Crash` | the process stops and starts again |

From its `UPDATE` to its commit a handler holds the row lock of the only row it
writes and its writes are invisible, so these are one step.  Nothing else would
be observable: the only statement in between is a `SUM` over events that only a
holder of the same lock can have added.  `Updated` writes only the columns that
differ from the row as loaded: this is what decides which of two overlapping
updates survives.  A tick's pending rows live in `tick` (events, rows) or carry
the status `pending` (positions), visible to the tick alone.  A signal insert
takes `FOR KEY SHARE` on the strategy through its foreign key (`tick.shared`),
which conflicts with `FOR UPDATE` and not with an ordinary update.

Features, markets, strategies and sizing decide *which* orders the engine places;
here any strategy that may emit does so with any of the costs, or is rejected.

### EngineCycle

One scheduler per environment (`docs/PDD.md` sections 3.2 and 9.1: `main` and
`staging` have a database each and share one).  The ticks are one step each, since
`LedgerTx` has what happens inside; a fetch is three: what is loaded before the
first await, what the exchange answers, and what is looked up and then inserted.

| action | code |
|---|---|
| `CycleBegin` | `_run_cycle_loop` calls `run_cycle` |
| `Load` | the session of `_ingest_source` that reads markets and resolved tickers |
| `FetchMarkets`, `FetchForecasts`, `FetchResolutions` | `fetch` of the three sources, their degraded outcomes included |
| `PersistCheck`, `PersistCommit`, `PersistConflict` | `persist_fetch_result`: `session.get` of each row, then the insert, which fails if the other environment's came first |
| `IngestRaises`, `RecordFailure` | an exception in `_ingest_source`, and its `except` branch |
| `EngineTick`, `EngineFails` | `run_engine_tick`; it raises while the system is paused and a strategy emits |
| `ResolutionTick`, `ResolutionFails` | `run_resolution_tick`, `_mark_cycle_success` |
| `Crash`, `Start`, `FlipSystem` | `stop` or the death of the process, `start`, the kill switch |
| `Settle` | external: Kalshi reports a result, or corrects one |

`market[t]` says whether `reference_market` has a row and `raw_market_snapshot` a
snapshot of `t`; `resolution[t]` is the `contract_resolution` row; `health[e]` is the
`SourceHealthTracker` and `cycle[e]` the `CycleHealth` of a process, both lost when it
stops.  `sourceRun[e][s]` is the status of the last `source_run` row the process wrote:
the table does not name its writer, and nothing in the cycle reads it.  `signals` is
history for the properties, kept until the cycle ends.  Whether a market is past
its `close_time` is not modelled here: any market with a snapshot may get a signal
(`Trading` has the close times).

### MarketData, Sizing, Trading

`LedgerTx` and `EngineCycle` let the engine place any order; these three compute it.
`MarketData` has the rows and the sources that write them, with what they contain:

| variable | code |
|---|---|
| `market[t]` | the `reference_market` row (`listed`: its status is tradable) and the newest `raw_market_snapshot` of `t` |
| `forecast[l][m]` | the newest `raw_forecast_run` of model `m` at location `l`: when it was ingested, and the temperature of each hour it covers |
| `resolution[t]` | the `contract_resolution` row |
| `open` | external: the markets that still trade on the exchange |
| `now` | the clock; a cycle takes one reading |

`Spread`, `ModelMean` and `Disagreement` are the three feature providers, `FeaturesOf`
is `features_for_market` with its roll-up of the models.  `Sizing` is functions only:
`EnsembleDisagreement` and `StaleQuote` give a set with at most one signal, `Accepts` is
`size_order`'s verdict and `Order` its order; `WriterRefuses` is the writer's own check
of that order, and `Marks` the unrealized profit the API would show for it.

`Trading` runs the cycle: `CycleBegin`, one action per source (`SourceFails` for a source in
error, after which the others still run but no tick does), `TickBegin` (the signals of the
strategies that may emit, as their places `todo` in the order of the loops; none when the
kill switch is set), `SizeNext` for the first place left, `ResolutionTick`, `Closes` (external).  The tick commits with its
last order; an order the writer refuses rolls the whole tick back to `committed`.

Prices are in half-cents and temperatures in half-degrees: with them a quote below the
cent and the mean of two models are whole numbers, and 32 + 100 p degrees for a
probability p is an addition.  Only the newest row of a kind is kept, since every reader
takes the newest one as of a time that is not in the past.

### Eval

| action | code |
|---|---|
| `MoveCash` | `deposit`, `withdraw` |
| `TickBegin`, `TickSettle`, `TickCommit` | `run_resolution_tick`: its time; the settlements and `recompute_strategy`, all under the row lock; the commit |
| `NightlyBegin`, `NightlyReadTrades`, `NightlyReadCash`, `NightlyCommit` | `run_nightly_recompute` in its thread: its time; one statement each; the commit |
| `TickAborts`, `NightlyAborts` | a failure or the death of the process |

`shown` is what `_latest_row` would return for the three windows, which are inserted
together.  `tickAt` and `committedAt` of a trade are history, for `MissedOnlyByOverlap`.
The probability of a trade's signal is a constant, so that only the times and the
amounts vary.  Rows of a nightly run and of a tick differ in what they have read, never in how
they compute it, so both are `Recomputed`.

## 3. What is checked

Twelve runs.

| run | instance | shows |
|---|---|---|
| `ledger` | 2 strategies, 2 positions | type, `RowsReconcile`, `BankrollIsJournal`, `FreeCashNonNegative`, `OnePnlPerResolution`, `HwmCoversRealized`, `DecommissionedIsTerminal`, `PausedSystemOnlySettles`, refinement of `CashBook` |
| `ledger_hwm` | 1 strategy, 2 positions | violation: `HwmRisesOnlyOnProfit` |
| `tx_races` | 2 threads, 1 request each, 2 positions; all routes | type, `BankrollIsSum`, `SettledOnce`, `HwmCoversRealized`, `BaselineFrozenByTrading`, `OverdrawnOnlyByDebitRace`, `EveryoneFinishes`, refinement of `CashJournal` |
| `tx_free_cash` | withdrawals only | violation: `FreeCashNonNegative` |
| `tx_decommission` | lifecycle routes and deposits | violation: `DecommissionedIsTerminal` |
| `cycle_one` | 1 environment, 3 sources, 1 market, 2 faults, the kill switch | type, `OkMeansSourcesOk`, `PositionsSettle`, `CycleRecovers` |
| `cycle_two` | 2 environments, 2 sources, 1 market, no fault | `SettledAlike`, `PositionsSettle` |
| `pipeline` | 2 markets of one event, 2 strategies, 2 models, 5 orderbooks, 3 outlooks, 2 cycles | type, `RefusedOnlyForHalfCents`, `CapsHold`, `OrdersRestOnForecasts`, `OpensAtNoProfit` |
| `pipeline_settled` | the same | violation: `NoOrderAfterResult` |
| `evaluation` | 2 trades, 2 movements of cash, 7 readings of the clock | type, `WindowsNest`, `MissedOnlyByOverlap`, `DrawdownIsWorstFall`, `BinsPartition`, `TickShowsJournal` |
| `cycle_rejections` | 1 environment, no fault | violation: `SignalsAreRecorded` |
| `cycle_degraded` | 1 environment, 3 sources, 1 fault | violation: `DegradedSourceSilences` |

### Bounds

* `MaxCashEvents` (`Ledger`) bounds the events of one strategy.  Three events are
  the seed deposit and two more: a fee, a movement of money, a resolution, in any
  combination of two, and so two positions opened and both resolved.  The violation run
  takes four.
* `ledger` deposits or withdraws 40 against a seed deposit of 100, and orders at 55.5
  cents: with the cost of 56, and with the one rounded down, which `open_paper_position`
  refuses.  A fee of 60 exceeds what the order leaves, which is where leaving fees out
  would show.  A fraction of 150 percent meets the clamp.
* `MaxServed` (`LedgerTx`) bounds the requests of one thread.  With one per thread a
  request that read an old row commits after another one, after the ticks, and between
  two of them, and two positions are ordered and settled meanwhile.  Further requests
  are beyond the run; the theorems say of all its safety properties that any number of
  threads and requests keeps them.  One strategy is enough
  in `LedgerTx`: transactions of handlers touch one strategy, rows of different
  strategies share no lock, and a tick's writes to several strategies commit
  together; `Strategies` is still a parameter of the module.
* Ticks are not bounded: positions are, and each is settled once.
* `MaxFaults` (`EngineCycle`) bounds the failures and crashes of one environment.
  Two let an error be followed by the failure to record it, or a failed source by
  a failed tick; cycles are not bounded.  With `FailureThreshold` 2 both statuses of a
  failing source are reached.  In `cycle_two` the lost insert is the failure, and not a
  fault: it needs nothing but the other environment.
* Two results are enough where only their difference counts: a correction is a
  change from one to the other.  One market, since nothing in a cycle relates two,
  but for the fetch that one conflict takes with it, which fails whole here as well.
* `MaxTime` of `Trading` is two cycles: orders of the first are settled, marked or added to
  in the second, quotes and forecasts of the first may be all that the second has, and one
  hour of an outlook begins in it.  A market closes in the second cycle, the other one has no
  close time.  The books are a low one, a high one, one in half-cents, a crossed one and
  one without bids; with the outlooks both strategies buy both sides, and orders meet the exposure
  cap, the correlation cap, the free cash, the minimum quantity and the writer's
  rounding.  An order of half a cent more than the writer expects needs an odd quantity at an
  odd number of half-cents.  Maximum ages of 0 make anything of an earlier cycle too old.
* `MaxTime` of `Eval` is seven readings: a nightly run may start before, inside and after
  a tick that settles two trades, with two deposits or withdrawals (`MaxMoves`) in between.
  The windows of 2 and 5 readings stand for 7 and 30 days, so that trades leave the short one
  and not the long one.  Probabilities are 0.30, which floats put a bin low, and 1.
* Symmetry: positions and threads are interchangeable, and strategies in
  `ledger` have equal deposits.  The run of a liveness property uses none.

### Fairness

`FairSpec` of `LedgerTx`: a handler that can run does (threads are scheduled by
the operating system); one that waits for a row lock infinitely often available
gets it (PostgreSQL's lock queue is first come, first served, and a tick takes the
lock at most once per strategy and releases it when it ends), which is strong
fairness of `Flush`; a tick that started goes on to its end (it never suspends).
No fairness makes anybody call a route or start a tick, and the process may crash
at any step.

`FairSpec` of `EngineCycle`: the event loop of a running process goes on to the next
step of its cycle, without a fault.  Nothing makes a market settle, a stopped process
start or the operator clear the kill switch, so `PositionsSettle` and `CycleRecovers`
ask for a process that stays up and a system that stays active, from some time on.
Faults are finitely many: a source that fails for ever keeps every position open,
by design of `run_cycle`.

`Trading` and `Eval` state no fairness: their properties are about what is never done or
shown, and `EngineCycle` has the progress of the same cycle.

### What the properties of the new runs say

* `RefusedOnlyForHalfCents` - sizing and the writer check an order independently.  They can
  disagree in one way only, the rounding of a cost that ends in half a cent; that one
  aborts the tick, and the resolution tick after it, in every cycle that finds the same quote.
* `CapsHold` - the caps hold after each order of a tick, the second and third included,
  since the open positions are read again after every order.  The exposure cap is a share of all
  bankrolls for *one* strategy (`docs/design/m4-engine.md:206` calls it global).  What the
  strategies hold together is not checked: as many times the cap as there are strategies
  is what the code allows.
* `OrdersRestOnForecasts` - no order without both models, though `weather_stale_quote` does not
  require their disagreement: a missing one makes sizing refuse.  But only the newer of the
  two has to be fresh.
* `OpensAtNoProfit` - no crossed or half-empty book reaches an order.
* `MissedOnlyByOverlap` - the API's latest row leaves a settled trade out only between a
  nightly run that overlapped the tick that settled it and the next recomputation.
* `TickShowsJournal` - a tick's rows report the profit that its journal shows, void markets
  included, though they are computed before the commit.
* `WindowsNest`, `DrawdownIsWorstFall`, `BinsPartition` - the numbers of the rows agree with each
  other and with their definitions, also when trades and balances were read at two moments.
* `BankrollIsSum` (`tx_races`) - the sum is taken over the committed rows, as the code's
  `SUM` is, so it fails as soon as one commit overwrites the bankroll of another.
* `OverdrawnOnlyByDebitRace` (`tx_races`) - finding 2 has two ways to happen and no third.

### Findings

Six statements of the documentation that the code does not keep, each with a
run that ends in the shortest counterexample:

1. **High-water mark** (`ledger_hwm`).  `docs/PDD.md:460`: a deposit does not
   silently raise the mark.  `record_realized_pnl` compares the mark with the
   whole bankroll, deposits included: deposit, then lose, and the mark rises.
2. **Free cash** (`tx_free_cash`).  `docs/PDD.md:414`.  The engine's cached row
   does not show a withdrawal committed after the tick began; `withdraw` takes no
   lock and does not see an order committed after it summed the open positions.
   Both ends in open positions that cost more than the bankroll.
3. **Decommissioned** (`tx_decommission`).
   `.greptile/context/state-machine.md:72`.  A resume or pause that read the
   strategy before it was decommissioned writes its own state over it.
4. **Rejections while paused** (`cycle_rejections`).  `docs/PDD.md:208`: every
   evaluation that produces a signal is recorded, rejections included.  While the
   system is paused `record_signal` raises, also for the rejection that says so: the
   tick is rolled back, nothing is settled in that cycle, and `/healthz` reports a failed
   cycle for as long as strategies keep emitting.
5. **Degraded sources** (`cycle_degraded`).  `docs/PDD.md:390`: dependent strategies
   pause.  A fetch that got an HTTP error is degraded, and only an error stops the
   cycle: strategies go on with the snapshots they have, of whatever age.
6. **Settled markets** (`pipeline_settled`).  `docs/design/m5-eval.md:27` and `:50`: the
   resolution source updates `reference_market.status`.  `persist_fetch_result` writes the
   `contract_resolution` row only, and market discovery never lists the settled market
   again, so its status stays open: until its close time, or for ever if it has none,
   strategies buy a market whose result is known, on the last quotes before it settled.
   The resolution tick of the same cycle settles such a position at once.

`LedgerTx` shows as well what does hold there.  Two deposits that read the same
bankroll do not lose an update, though nothing locks the row: the second one's
`check_bankroll_invariant` sees the first one's event and the request fails.
`set_starting_bankroll` does lock, and the lock meets the signal's foreign key.

## 4. What is proved

Checked by TLAPS for every value of the constants that satisfies the named assumption of
the module: any strategies, positions, handler threads, environments, sources, markets,
prices, amounts, and any bound on requests, events, faults and time.

| assumption | asks |
|---|---|
| `ConstantsAssumption` (`Ledger`) | seed deposits are positive, prices lie strictly between 0 and 1 dollar, the values that stand for "no row" are not ids; requested amounts, order costs and fees are any integers, since the writer validates them itself |
| `TxAssumption` (`LedgerTx`) | deposits, amounts and costs are positive and payouts natural: the routes and the writer refuse other amounts, sizing other costs, and `PayoutNatural` shows it of payouts |
| `CycleAssumption` (`EngineCycle`) | the registry is a list of sources without repetition, the threshold positive, the bounds on faults natural |
| `DataAssumption`, `SizingAssumption`, `TradingAssumption` | quotes lie between 0 and 1 dollar, settings are natural numbers and the Kelly fraction is at most one; hours of an outlook are finitely many; the tickers are the finite list that `list_open_markets` sorts |
| `EvalAssumption` (`Eval`) | trades are the finitely many rows of a table, probabilities whole hundredths from 0 to 1, deposits and withdrawals positive, profits any integers, the 7 days no longer than the 30 days |

| theorem | says |
|---|---|
| `LedgerTypeOK` | `Spec => []TypeOK` |
| `LedgerReconciles` | `Spec => []BankrollIsJournal` |
| `LedgerCovered` | `Spec => []FreeCashNonNegative` |
| `LedgerRowsReconcile` | `Spec => []RowsReconcile`: both SQL sums |
| `LedgerPostsOnce` | `Spec => []OnePnlPerResolution` |
| `LedgerHwmCoversRealized` | `Spec => []HwmCoversRealized` |
| `LedgerDecommissionIsTerminal` | `Spec => DecommissionedIsTerminal` |
| `LedgerPausedOnlySettles` | `Spec => PausedSystemOnlySettles` |
| `LedgerImplementsCashBook` | `Spec => ImplementsCashBook` |
| `BookReconciles`, `BookCovered` | what any implementation of `CashBook` inherits |
| `TxTypeOK` | `Spec => []TypeOK` |
| `TxBooksAgree` | `Spec => []BooksAgree`: the bankroll is the last balance of a chained journal |
| `TxBankrollIsSum` | `Spec => []BankrollIsSum` |
| `TxSettledOnce` | `Spec => []SettledOnce` |
| `TxHwmCoversRealized` | `Spec => []HwmCoversRealized` |
| `TxBaselineFrozen` | `Spec => BaselineFrozenByTrading` |
| `TxOverdrawnOnlyByDebitRace` | `Spec => OverdrawnOnlyByDebitRace` |
| `TxImplementsCashJournal` | `Spec => ImplementsCashJournal` |
| `CycleTypeOK` | `Spec => []TypeOK` |
| `EnvironmentsSettleAlike` | `Spec => []SettledAlike` |
| `ResultsStay` | a stored result never changes |
| `OkIsTrue` | `Spec => []OkMeansSourcesOk` |
| `TradingTypeOK` | `Spec => []TypeOK`; bankrolls stay natural numbers |
| `TradingCovered` | open positions never cost more than the bankroll, inside a tick too |
| `OnlyHalfCentsAbort` | `Spec => []RefusedOnlyForHalfCents` |
| `CapsBind` | `Spec => CapsHold` |
| `OrdersNeedForecasts` | `Spec => OrdersRestOnForecasts` |
| `OrdersOpenAtNoProfit` | `Spec => OpensAtNoProfit` |
| `EvalTypeOK` | `Spec => []TypeOK`; no drawdown is negative |
| `EvalWindowsNest` | `Spec => []WindowsNest` |
| `EvalMissedOnlyByOverlap` | `Spec => []MissedOnlyByOverlap` |
| `EvalDrawdownIsWorstFall` | `Spec => []DrawdownIsWorstFall` |
| `EvalBinsPartition` | `Spec => []BinsPartition` |
| `EvalTickShowsJournal` | `Spec => TickShowsJournal` |

Every safety and action property of every passing run is among them.

**Sums** (`Sum_proofs`).  Bankrolls, reservations and caps are sums over as many rows as there
are, so nothing can be said of them without induction.  The induction theorems of the
library take an operator as a parameter and cannot be used; what can is the first-order
fact that proper inclusion between the subsets of a finite set is well-founded, so that a
set of counterexamples, if there is any, has a smallest one.  `SubsetInduct` and `NatInduct`
are that argument.  `RecursExists` builds the function that the fold of the community
modules chooses, and `SumStep` unfolds it once.  From these follow the lemmas the other
modules cite: `SumInt`, `SumNat`, `SumAdd` (the order of the summands does not matter),
`SumInsert`, `SumSame`, `SumUpdate`, `SumCompare`, `SumUnion`, and `ChainedSums`: the last balance of a
chained journal is the sum of its amounts, for any length.

**The ledger** (`IInv` in `Ledger_proofs`): `TypeOK /\ Rows /\ BankrollIsJournal /\
FreeCashNonNegative`.  `Rows` has what neither property can do without:

* `MissingIsEmpty` - a strategy without a row has no events and nothing
  reserved.  `Seed` *replaces* the journal of a missing strategy by its first
  deposit; without this the replaced journal might have been one that matters.
* `UntradedReservesNothing` - a strategy without trading activity has nothing
  reserved.  `set_starting_bankroll` does not look at free cash at all; it is
  safe only because it refuses a strategy with a signal or a position.
* `OpenIsOwned` - an open position has an owner with a row, and cost something.
  A resolution pays the owner, and in `CashBook` a release must release.

There is one lemma per action.  The arithmetic of a settlement is in
`PayoutNatural`: a payout is never negative, so a resolution never takes more from
the bankroll than the position had reserved, and coverage survives a total loss.
`ReservedIsSum` adds that `reserved` is the cost of the finitely many open positions: an
order inserts one summand, a resolution removes one, and nothing else touches them.

`Ledger_settlement` adds to it what `OnePnlPerResolution` and `HwmCoversRealized` need
(`SInv`): no two profit-or-loss events of a journal are of the same position, each is of a
resolved position of that owner and for that amount, each resolved position has one, and
a decommissioned strategy is disabled.
Neither property is inductive alone: that an open position has not been posted yet follows
only from the converse, and a new baseline may lower the mark only because a strategy with
a settlement in its journal has trading activity.

**The refinement** maps the bankroll, `reserved` and the journal (stripped of kind
and reference) to a book.  Each action is a `Transfer`, `Reserve`, `Release` or
stutter of the one strategy it writes (`Seed` transfers in for several at
once), and the invariant supplies the coverage each of them demands afterwards.

**The transactions** (`IInv` in `LedgerTx_proofs`): `Typed /\ Accounts`.  `BooksAgree` makes
`check_bankroll_invariant` the guard it is meant to be: a handler that commits has compared
its own bankroll with the committed sum, so a row that went stale in between cannot be
written.  `SumOfAppended` is what that comparison comes to: one more event makes the sum the
last committed balance plus its amount, whatever balance the event itself records.
A resolution books its events in its session and commits them later; in between
the rows it has locked are ahead of the committed ones by exactly those events (`RowAhead`),
which are of open positions that are no longer due, one each (`EventsOpen`).
`OverdrawnOnlyByDebitRace` compares sums before and after a step and needs three facts more
(`CostsKnown`): what an engine tick has placed fits the bankroll that it *read*
(`SizedWithinRow`), what a resolution has lost so far is at most what its settled positions
cost (`GainCovers`), and the rows are finitely many.  The proof then shows where the two
races of finding 2 are, and that there is no third: an engine commit against a row that has
been lowered since, or a withdrawal.

**The cycle** (`IInv` in `EngineCycle_proofs`).  `SettledAlike` holds because a result is
inserted once and never updated, and every environment settles from that row; the invariant
says so of the position, of the insert in flight (looked up before, but refused by the key if
another came first) and of the row.  `OkMeansSourcesOk` needs the relation between the
stages a cycle has passed, its list of failed sources and the `source_run` rows.

**Orders** (`IInv` in `Trading_proofs`): `TypeOK`, `Covered` (open positions, committed or
not, cost at most the bankroll), `RunsDated` (a run with hours has the time it was written,
so a mean that is present cannot rest on a run that never came) and `RollbackLoses` (what a
refused order restores costs no more than what it discards, so a rollback is not mistaken
for a purchase).  That a bankroll is natural is part of `TypeOK`, and holds
because a settlement returns at least nothing for what `Covered` bounds.
`OnlyHalfCentsAbort` compares the checks of `size_order` with those of
`open_paper_position` one by one; `AcceptedNumbers` has the arithmetic (the stake may be
negative before the checks, the quantity may not after them) and `RoundingsAgree` the two
roundings.  `BuyingIsFresh` shows that only an accepted signal makes a position grow, and
`AcceptedRestsOnRuns` that the freshness of `forecast_disagreement`, which a strategy need not
even require, stands for both models.  `CapsBind` follows from `BoughtSums`: an order adds its
cost to exactly the sums that its ticker is counted in.

**The evaluation** (`EvalInv` in `Eval_proofs`).  `max_drawdown_cents`, the balances of a window
and the events of a settlement are folds over sequences.  A fold of the community modules
recurs over sets of positions; `FoldExists` builds the function it chooses and `FoldRuns` turns
it into the sequence of what has been computed after each element.  With that:

* `DrawdownWorst` - the pass keeps the highest balance so far (`Peaked`) and the worst of the
  falls so far (`Fallen`), for balances of any number, in any order.
* `DrawdownNests` - a shorter window takes some of the balances a longer one takes, in the same
  order.  Pass by pass, the one that has seen less has the lower peak and the smaller fall
  (`Below`), whether both take the next event or the longer one alone.
* `BinsCount` - a trade added to a set enlarges one bin by one.
* `PostedSums`, `SettledSums` - a settlement posts the profits of its trades, in whatever order
  it finds them, and those of void markets, which are in the journal and not in the rows, are
  zero.

`RecomputedSound` concludes that rows nest and add up however they are made, and `RowsSound` that
those shown do.  `MissedOnlyByOverlap` is not inductive.  It needs `ClockAhead` (no two
transactions in progress have the same time, and a tick in progress is later than the ticks
whose rows are shown), `TradesDated` (a settled trade is of a tick no later than the rows shown),
`TickExtends` (what a tick will commit is what is committed already, and more, and its
snapshot is made from all of it) and `NightlyMissesLater` (what the nightly has not read was
committed after it started).  `TickShowsJournal` follows from `JournalShown`: before and after
a settlement the profits of the trades and the events of the journal have one sum.

**Model-checked only**:

* Liveness: `EveryoneFinishes`, `PositionsSettle`, `CycleRecovers`.  Fairness and `ENABLED` are out
  of the prover's reach.
* The six violations: a counterexample is its own proof.

## 5. What is left out, and why

* Audit rows, timestamps, reasons, actors, and the read-only queries and routes:
  nothing reads them back to decide anything.
* `activate_strategy` has no caller; activation happens in seeding only.
* The Kelly route in `LedgerTx`: same shape as the lifecycle routes, and its column
  is read nowhere else in that module.
* More than one server process: the start script runs one.
* Database failures other than a crash: a statement that fails rolls its
  transaction back, which is what a crash does to it.
* Migrations: run by a library before the program starts.
* In `Sizing`: floats.  The Kelly stake is computed exactly, the code rounds its
  product; whichever quantity comes out, what follows treats it the same way.  Ensemble
  members are represented by their mean.  Which of several reasons refuses a signal.
* In `Trading`: routes during the tick (`LedgerTx` has them) and other environments and
  failures inside a tick (`EngineCycle` has them).  Fees, which the engine never charges.
* In `Eval`: Brier score, log loss, Sharpe proxy and posterior edge, which are closed
  formulas over floats that unit tests pin down; more than one strategy, since rows of
  different strategies have nothing to do with each other.
* `feature_value` rows: an upsert that nothing reads back, so the gap between the two commits
  of a tick (`tick.py:159`), which may lose them, is visible in no model.
* UI: it has no state that outlives a fetch.

## 6. Plan

In order; the first six are the present state.

1. `StrategyStates`, `Journals`, `CashBook`, `Ledger` and its proofs.
2. `CashJournal`, `LedgerTx`.
3. The refinement of `CashBook` by `Ledger`.
4. `EngineCycle`.
5. `MarketData`, `Sizing`, `Trading`.
6. `Eval`.
7. `Startup` - seeding, locations and the kill switch across restarts: the initial deposit
   is blocked by a kill switch that the activation after it is exempt from.
8. An abstract specification of the cycle that `EngineCycle` implements: each
   environment settles from one immutable table of results.
9. Proofs: `Sum_proofs`, the invariants, action properties and refinements of `Ledger`,
   `LedgerTx`, `EngineCycle`, `Trading` and `Eval` (done).
