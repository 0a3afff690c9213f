-------------------------------- MODULE Sizing --------------------------------
(***************************************************************************)
(* From the features of a market to an order: the two strategies           *)
(* (core/strategies), their configuration (core/domain/strategy.py) and    *)
(* size_order (core/risk/sizing.py), as functions of the shared rows and   *)
(* of the cash and positions of a strategy.                                *)
(*                                                                         *)
(* Prices, probabilities, spreads and confidences are in half-cents,       *)
(* temperatures and disagreements in half-degrees, money in cents.  The    *)
(* code computes the Kelly stake in floats; here it is exact.  size_order  *)
(* refuses for the first reason it finds; which one is left out, so its    *)
(* checks are one conjunction.                                             *)
(***************************************************************************)
EXTENDS MarketData, Sequences

CONSTANTS
    Strategies,   \* the enabled strategies, in registry order
    Config,       \* config_jsonb of each strategy, where it is set
    Kelly,        \* kelly_fraction of each strategy, in quarters
    EventOf       \* the settlement key in a ticker, its second part

StrategyNames == {Strategies[i] : i \in 1..Len(Strategies)}

Settings == {"maxAge", "floor", "threshold", "margin", "wide", "exposure", "correlation"}

\* The DEFAULT_ constants: a confidence of 0.55, 2 degrees, 1.5 spreads (in
\* halves), 8 cents and 50 percent of the bankrolls.
Defaults == [floor |-> 110, threshold |-> 4, margin |-> 3, wide |-> 16,
             exposure |-> 50, correlation |-> 50]

\* effective_strategy_config: what is stored, else the default.
Effective(s) ==
    [x \in Settings |-> IF x \in DOMAIN Config[s] THEN Config[s][x] ELSE Defaults[x]]

ASSUME SizingAssumption ==
    /\ Strategies \in Seq(STRING)
    /\ \A s \in StrategyNames :
          /\ "maxAge" \in DOMAIN Config[s] /\ DOMAIN Config[s] \subseteq Settings
          /\ \A x \in DOMAIN Config[s] : Config[s][x] \in Nat
    /\ Kelly \in [StrategyNames -> 0..4]

-----------------------------------------------------------------------------
(* The strategies. *)

Clamp(low, x, high) == IF x < low THEN low ELSE IF x > high THEN high ELSE x

\* ensemble_to_prob: a degree is a cent, 32 degrees are zero, within 5..95 cents.
EnsembleToProb(temp) == Clamp(10, temp - 64, 190)

\* prob_to_temp.
ProbToTemp(prob) == prob + 64

SideFor(mean, mid) == IF mean >= ProbToTemp(mid) THEN "yes" ELSE "no"

Signal(prob, confidence, side) == {[prob |-> prob, confidence |-> confidence, side |-> side]}

\* WeatherEnsembleDisagreementStrategy.evaluate.
EnsembleDisagreement(c, t) ==
    LET f == FeaturesOf(t)
        prob == EnsembleToProb(f.mean.value)
        divergence == Distance(Mid(t), prob)
    IN  IF /\ IsPresent(f.mean) /\ IsPresent(f.disagreement) /\ IsPresent(f.spread)
           /\ f.disagreement.value >= c.threshold
           /\ 2 * divergence > c.margin * f.spread.value
        THEN Signal(prob,
                    Clamp(0, c.floor + 10 * f.disagreement.value + 5 * divergence, Dollar),
                    SideFor(f.mean.value, Mid(t)))
        ELSE {}

\* WeatherStaleQuoteStrategy.evaluate.
StaleQuote(c, t) ==
    LET f == FeaturesOf(t)
    IN  IF IsPresent(f.mean) /\ IsPresent(f.spread) /\ f.spread.value >= c.wide
        THEN Signal(EnsembleToProb(f.mean.value),
                    Clamp(0, c.floor + f.spread.value, Dollar),
                    SideFor(f.mean.value, Mid(t)))
        ELSE {}

\* The signal of strategy s on market t, if there is one.
Signals(s, t) ==
    IF s = "weather_ensemble_disagreement" THEN EnsembleDisagreement(Effective(s), t)
                                           ELSE StaleQuote(Effective(s), t)

-----------------------------------------------------------------------------
(* size_order. *)

\* Mutant: only the features every strategy requires are looked at.
FreshRequired(s, t) ==
    \A f \in {FeaturesOf(t).mean, FeaturesOf(t).spread} :
        IsPresent(f) /\ f.asOf >= market[t].asOf - Effective(s).maxAge

\* _stale_feature: every feature there is on the market or its location, missing
\* ones included, against the time of the market's snapshot.
Fresh(s, t) ==
    \A x \in {"mean", "disagreement", "spread"} :
        LET f == FeaturesOf(t)[x]
        IN  f.status # "absent" =>
                IsPresent(f) /\ f.asOf >= market[t].asOf - Effective(s).maxAge

\* _entry_price.
EntryPrice(side, t) ==
    IF side = "yes" THEN market[t].ask
    ELSE IF market[t].bid = NoPrice THEN NoPrice ELSE Dollar - market[t].bid

\* _edge.
Edge(signal, price) ==
    IF signal.side = "yes" THEN signal.prob - price ELSE (Dollar - signal.prob) - price

\* The stake in cents: bankroll, Kelly fraction, confidence and edge.
Stake(s, bankroll, confidence, edge) ==
    (bankroll * Kelly[s] * confidence * edge) \div (4 * Dollar * Dollar)

\* The quantity: as many contracts as the stake buys.
Qty(stake, price) == (2 * stake) \div price

\* Mutant: no quantity is too small.
NoMinimum == 0

MIN_QTY == 1

Percent(pct, cents) == (pct * cents) \div 100

\* The order size_order makes of a signal.
Order(s, t, signal, bankroll) ==
    LET price == EntryPrice(signal.side, t)
        stake == Stake(s, bankroll, signal.confidence, Edge(signal, price))
        qty == Qty(stake, price)
    IN  [side |-> signal.side, price |-> price, qty |-> qty, cost |-> (price * qty) \div 2]

\* The checks of size_order, but for the kill switch.  cash is what the strategy
\* has: its bankroll, its free cash, the cost of its open positions, that of
\* those on the event of t, and the bankrolls of all strategies.
Accepts(s, t, signal, cash) ==
    LET c == Effective(s)
        price == EntryPrice(signal.side, t)
        order == Order(s, t, signal, cash.bankroll)
    IN  /\ Fresh(s, t)
        /\ signal.confidence >= c.floor
        /\ 0 < price /\ price < Dollar
        /\ Edge(signal, price) > 0
        /\ Stake(s, cash.bankroll, signal.confidence, Edge(signal, price)) > 0
        /\ order.qty >= MIN_QTY
        /\ order.cost <= cash.free
        /\ cash.exposed + order.cost <= Percent(c.exposure, cash.total)
        /\ cash.correlated + order.cost <= Percent(c.correlation, cash.bankroll)

-----------------------------------------------------------------------------
(* What the writer and the readers of a position make of the order. *)

\* _expected_cost_basis_cents: rounded half up.
ExpectedCost(order) == (order.qty * order.price + 1) \div 2

\* open_paper_position raises.
WriterRefuses(order, free) ==
    \/ order.qty <= 0 \/ order.cost <= 0
    \/ order.cost # ExpectedCost(order)
    \/ order.cost > free

\* Decimal's ROUND_HALF_UP of an amount in half-cents, away from zero.
HalfUp(x) == IF x >= 0 THEN (x + 1) \div 2 ELSE -((1 - x) \div 2)

\* _mark_price_for_side.
MarkPrice(side, t) == IF side = "yes" THEN Mid(t) ELSE Dollar - Mid(t)

\* _open_position_unrealized_pnl_cents: none on a snapshot too old for the clock.
Marks(s, t, order) ==
    IF \/ market[t].bid = NoPrice \/ market[t].ask = NoPrice
       \/ market[t].asOf < now - Effective(s).maxAge
    THEN {}
    ELSE {HalfUp((MarkPrice(order.side, t) - order.price) * order.qty)}
=============================================================================
