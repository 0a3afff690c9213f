------------------------------- MODULE Trading -------------------------------
(***************************************************************************)
(* The trading of one environment, cycle after cycle (core/scheduler.py):  *)
(* the sources write their rows, the engine tick turns them into orders    *)
(* (core/engine/tick.py), and the resolution tick settles the positions    *)
(* whose market has a result (core/engine/resolution.py).                  *)
(*                                                                         *)
(* LedgerTx interleaves the ticks with the control plane and EngineCycle   *)
(* lets every stage fail; here both are left out, and the tick decides as  *)
(* the code does.  It never suspends, so its state is what it holds        *)
(* between two orders.                                                     *)
(***************************************************************************)
EXTENDS Sizing, FiniteSetsExt

CONSTANTS
    TickerOrder,      \* the tickers as list_open_markets sorts them
    InitialBankroll   \* the starting bankroll of every strategy, cents

ASSUME TradingAssumption ==
    /\ TickerOrder \in Seq(Tickers) /\ Tickers = {TickerOrder[i] : i \in 1..Len(TickerOrder)}
    /\ InitialBankroll \in Nat \ {0}

VARIABLES
    stage,      \* where the cycle is
    failed,     \* a source of the cycle ended in error
    bankroll,   \* strategy_instance.bankroll_cents
    holding,    \* the open positions of a strategy on a ticker, added up
    todo,       \* the places of the evaluations that give a signal, still to be sized
    committed   \* holding as it is committed, which a refused order restores

book == <<bankroll, holding, todo, committed>>
vars == <<data, stage, failed, book>>

-----------------------------------------------------------------------------
Holding == [yes : Nat, no : Nat, cost : Nat]
Flat == [yes |-> 0, no |-> 0, cost |-> 0]

Holdings == [StrategyNames -> [Tickers -> Holding]]

\* The cost of the open positions that strategy s has on the tickers in T.
CostIn(h, s, T) == SumFunctionOnSet([t \in Tickers |-> h[s][t].cost], T)

\* The evaluations of a tick, strategy by strategy and market by market.
Evaluations ==
    LET n == Len(TickerOrder)
    IN  [i \in 1..(n * Len(Strategies)) |->
            <<Strategies[((i - 1) \div n) + 1], TickerOrder[((i - 1) % n) + 1]>>]

TypeOK ==
    /\ DataTypeOK
    /\ stage \in {"sleeping", "markets", "forecasts", "resolutions", "engine", "resolve"}
    /\ failed \in BOOLEAN
    /\ bankroll \in [StrategyNames -> Nat]
    /\ holding \in Holdings /\ committed \in Holdings
    /\ todo \in SUBSET DOMAIN Evaluations

\* total_bankroll_cents: no order changes it, so the tick may read it once.
TotalBankroll == SumFunctionOnSet(bankroll, StrategyNames)

\* free_cash_cents.
FreeCash(s) == Later(0, bankroll[s] - CostIn(holding, s, Tickers))

\* Mutant: strategy_open is read before the loop over the markets only.
PositionsBefore(s) == committed

\* _strategy_open_positions, read again after every order.
OpenPositions(s) == holding

\* What size_order is given for strategy s on ticker t.
CashOf(s, t) ==
    [ bankroll |-> bankroll[s], free |-> FreeCash(s), total |-> TotalBankroll,
      exposed |-> CostIn(OpenPositions(s), s, Tickers),
      correlated |-> CostIn(OpenPositions(s), s, {u \in Tickers : EventOf[u] = EventOf[t]}) ]

-----------------------------------------------------------------------------
CycleBegin ==
    /\ stage = "sleeping"
    /\ Tick
    /\ stage' = "markets" /\ failed' = FALSE
    /\ UNCHANGED book

After == [markets |-> "forecasts", forecasts |-> "resolutions", resolutions |-> "engine"]

\* The loop over the sources goes on whatever one of them does, and the ticks
\* follow if none ended in error.
SourceEnds(inError) ==
    /\ failed' = inError
    /\ stage' = IF stage = "resolutions" /\ inError THEN "sleeping" ELSE After[stage]
    /\ UNCHANGED book

FetchMarkets ==
    /\ stage = "markets"
    /\ IngestMarkets
    /\ SourceEnds(failed)

FetchForecasts ==
    /\ stage = "forecasts"
    /\ IngestForecasts
    /\ SourceEnds(failed)

FetchResolutions ==
    /\ stage = "resolutions"
    /\ IngestResolutions
    /\ SourceEnds(failed)

SourceFails ==
    /\ stage \in DOMAIN After
    /\ SourceEnds(TRUE)
    /\ UNCHANGED data

\* The features, the markets, the kill switch and the strategies are read.  The
\* strategies whose state lets them emit signals are evaluated on every market.
\* While the system is paused the first signal aborts the tick (record_signal).
TickBegin ==
    /\ stage = "engine" /\ todo = {}
    /\ \E emitting \in SUBSET StrategyNames, halted \in BOOLEAN :
          LET due == {i \in DOMAIN Evaluations :
                         LET e == Evaluations[i]
                         IN  e[1] \in emitting /\ e[2] \in Markets /\ Signals(e[1], e[2]) # {}}
          IN  /\ todo' = IF halted THEN {} ELSE due
              /\ stage' = IF due = {} THEN "resolve"
                          ELSE IF halted THEN "sleeping" ELSE "engine"
    /\ UNCHANGED <<data, failed, bankroll, holding, committed>>

Bought(h, order) ==
    [ yes |-> h.yes + IF order.side = "yes" THEN order.qty ELSE 0,
      no |-> h.no + IF order.side = "no" THEN order.qty ELSE 0,
      cost |-> h.cost + order.cost ]

\* The evaluation whose signal is sized next.
Current == Evaluations[Min(todo)]

\* The next signal is sized, and recorded as rejected or with its order.  An order
\* that the writer refuses raises LedgerError: the tick is rolled back and the
\* cycle ends.
SizeNext ==
    /\ stage = "engine" /\ todo # {}
    /\ LET s == Current[1]
           t == Current[2]
           rest == todo \ {Min(todo)}
       IN  \E signal \in Signals(s, t) :
              LET order == Order(s, t, signal, bankroll[s])
                  places == Accepts(s, t, signal, CashOf(s, t))
              IN  IF places /\ WriterRefuses(order, FreeCash(s))
                  THEN /\ stage' = "sleeping" /\ todo' = {}
                       /\ holding' = committed /\ committed' = committed
                  ELSE /\ todo' = rest
                       /\ stage' = IF rest = {} THEN "resolve" ELSE "engine"
                       /\ holding' = IF places THEN [holding EXCEPT ![s][t] = Bought(@, order)]
                                               ELSE holding
                       /\ committed' = IF rest = {} THEN holding' ELSE committed
    /\ UNCHANGED <<data, failed, bankroll>>

\* Mutant: losing contracts are charged once more.
PayoutCharged(h, result) ==
    IF result = "yes" THEN 100 * h.yes - 100 * h.no ELSE 100 * h.no - 100 * h.yes

\* _resolution_payout_cents of whole contracts.
Payout(h, result) ==
    CASE result = "yes"  -> 100 * h.yes
      [] result = "no"   -> 100 * h.no
      [] result = "void" -> h.cost
      [] OTHER           -> 0

ResolutionTick ==
    LET due == {t \in Tickers : resolution[t] # NoRow}
    IN  /\ stage = "resolve"
        /\ stage' = "sleeping"
        /\ bankroll' = [s \in StrategyNames |->
              bankroll[s] + SumFunctionOnSet(
                 [t \in due |-> Payout(holding[s][t], resolution[t]) - holding[s][t].cost], due)]
        /\ holding' = [s \in StrategyNames |-> [t \in Tickers |-> IF t \in due THEN Flat
                                                                  ELSE holding[s][t]]]
        /\ committed' = holding'
        /\ UNCHANGED <<data, failed, todo>>

Closes ==
    /\ stage = "sleeping"
    /\ \E t \in Tickers : StopsTrading(t)
    /\ UNCHANGED <<stage, failed, book>>

Init ==
    /\ DataInit
    /\ stage = "sleeping" /\ failed = FALSE
    /\ bankroll = [s \in StrategyNames |-> InitialBankroll]
    /\ holding = [s \in StrategyNames |-> [t \in Tickers |-> Flat]]
    /\ committed = holding
    /\ todo = {}

Next ==
    \/ CycleBegin \/ FetchMarkets \/ FetchForecasts \/ FetchResolutions \/ SourceFails
    \/ TickBegin \/ SizeNext \/ ResolutionTick \/ Closes

Spec == Init /\ [][Next]_vars

-----------------------------------------------------------------------------
(* Properties. *)

Buys(s, t) == holding'[s][t].cost > holding[s][t].cost

\* A signal about to be sized.
Sized(s, t) == stage = "engine" /\ todo # {} /\ Current = <<s, t>>

\* After an order, also the second and third of one tick, the strategy's open
\* positions cost no more than its exposure cap allows, and those on the event of
\* the ticker no more than its correlation cap (size_order, run_engine_tick).
CapsHold ==
    [][\A s \in StrategyNames, t \in Tickers :
          Buys(s, t) =>
             /\ CostIn(holding', s, Tickers) <= Percent(Effective(s).exposure, TotalBankroll)
             /\ CostIn(holding', s, {u \in Tickers : EventOf[u] = EventOf[t]})
                   <= Percent(Effective(s).correlation, bankroll[s])]_vars

\* An order rests on forecasts of both models, whatever its strategy requires: one
\* of them written no longer than the maximum age before the quote.  The other may
\* be of any age (_stale_feature, _aggregate_location_parts, ForecastDisagreement).
OrdersRestOnForecasts ==
    [][\A s \in StrategyNames, t \in Tickers :
          Buys(s, t) =>
             LET runs == {forecast[LocationOf[t]][m].at : m \in Models}
             IN  /\ Never \notin runs
                 /\ \E at \in runs : at >= market[t].asOf - Effective(s).maxAge]_vars

\* What size_order accepts the writer accepts as well, but for a cost that is not
\* whole cents, which one rounds down and the other half up (sizing.py:84,
\* writer.py:113): only that can abort a tick of an active system.
RefusedOnlyForHalfCents ==
    \A s \in StrategyNames, t \in Tickers :
        Sized(s, t) =>
            \A signal \in Signals(s, t) :
                LET order == Order(s, t, signal, bankroll[s])
                IN  (Accepts(s, t, signal, CashOf(s, t)) /\ WriterRefuses(order, FreeCash(s)))
                        => (order.price * order.qty) % 2 = 1

\* A position is never opened at a profit: marked on the snapshot it was bought
\* on, if that is fresh enough to mark it at all, it has lost half the spread.  A
\* crossed book would break this; it has no kalshi_spread, which both strategies
\* require (KalshiSpreadProvider, _unrealized_pnl_cents).
OpensAtNoProfit ==
    [][\A s \in StrategyNames, t \in Tickers :
          Buys(s, t) =>
             \A signal \in Signals(s, t) :
                \A mark \in Marks(s, t, Order(s, t, signal, bankroll[s])) : mark <= 0]_vars

\* A resolution source that writes a result updates reference_market.status as well
\* (docs/design/m5-eval.md:27 and :50), so list_open_markets offers the market no
\* more: once its result is known, no strategy buys it.
NoOrderAfterResult ==
    [][\A s \in StrategyNames, t \in Tickers : Buys(s, t) => resolution[t] = NoRow]_vars
=============================================================================
