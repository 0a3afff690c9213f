---------------------------- MODULE Trading_proofs ----------------------------
(***************************************************************************)
(* What sizing, the writer, the features and the settlement promise about  *)
(* orders and bankrolls, for any markets, books, forecasts, configurations *)
(* and bankrolls.                                                          *)
(*                                                                         *)
(* The inductive invariant is at IInv.  Bankrolls stay natural numbers     *)
(* only because the open positions of a strategy never cost more than its  *)
(* bankroll, so TypeOK and Covered are proved together.                    *)
(***************************************************************************)
EXTENDS Trading, Sum_proofs

-----------------------------------------------------------------------------
(* Sums of costs, and the evaluations of a tick. *)

\* There are finitely many tickers.
LEMMA TickersFinite == IsFiniteSet(Tickers)
<1>1. /\ TickerOrder \in Seq(Tickers)
      /\ Tickers = {TickerOrder[i] : i \in 1..Len(TickerOrder)}
  BY TradingAssumption
<1>2. TickerOrder \in Surjection(1..Len(TickerOrder), Tickers)
  BY <1>1 DEF Surjection
<1>3. IsFiniteSet(1..Len(TickerOrder))
  BY <1>1, FS_Interval
<1> QED
  BY <1>2, <1>3, FS_Surjection

\* The cost of positions is a natural number.
LEMMA CostNat ==
  ASSUME NEW h \in Holdings, NEW s \in StrategyNames, NEW T \in SUBSET Tickers
  PROVE  CostIn(h, s, T) \in Nat
<1> DEFINE cost == [t \in Tickers |-> h[s][t].cost]
<1>1. \A t \in T : cost[t] \in Nat
  BY DEF Holdings, Holding
<1>2. IsFiniteSet(T)
  BY TickersFinite, FS_Subset
<1> HIDE DEF cost
<1>3. SumFunctionOnSet(cost, T) \in Nat
  BY <1>1, <1>2, SumNat
<1> QED
  BY <1>3 DEF CostIn, cost

\* Positions that have not changed cost what they did.
LEMMA CostSame ==
  ASSUME NEW h \in Holdings, NEW k \in Holdings, NEW s \in StrategyNames,
         NEW T \in SUBSET Tickers, \A t \in T : k[s][t] = h[s][t]
  PROVE  CostIn(k, s, T) = CostIn(h, s, T)
<1> DEFINE before == [t \in Tickers |-> h[s][t].cost]
           after == [t \in Tickers |-> k[s][t].cost]
<1>1. \A t \in T : before[t] \in Int /\ before[t] = after[t]
  BY DEF Holdings, Holding
<1>2. IsFiniteSet(T)
  BY TickersFinite, FS_Subset
<1> HIDE DEF before, after
<1>3. SumFunctionOnSet(before, T) = SumFunctionOnSet(after, T)
  BY <1>1, <1>2, SumSame
<1> QED
  BY <1>3 DEF CostIn, before, after

\* An order on a ticker adds its cost to every sum that counts the ticker.
LEMMA CostGrows ==
  ASSUME NEW h \in Holdings, NEW k \in Holdings, NEW s \in StrategyNames,
         NEW T \in SUBSET Tickers, NEW t \in T, NEW cost \in Int,
         k[s][t].cost = h[s][t].cost + cost, \A u \in T \ {t} : k[s][u] = h[s][u]
  PROVE  CostIn(k, s, T) = CostIn(h, s, T) + cost
<1> DEFINE before == [u \in Tickers |-> h[s][u].cost]
           after == [u \in Tickers |-> k[s][u].cost]
<1>1. \A u \in T : before[u] \in Int
  BY DEF Holdings, Holding
<1>2. after[t] \in Int /\ after[t] - before[t] = cost
  BY DEF Holdings, Holding
<1>3. \A u \in T \ {t} : after[u] = before[u]
  OBVIOUS
<1>4. IsFiniteSet(T)
  BY TickersFinite, FS_Subset
<1> HIDE DEF before, after
<1>5. SumFunctionOnSet(after, T) = SumFunctionOnSet(before, T) + (after[t] - before[t])
  BY <1>1, <1>2, <1>3, <1>4, SumUpdate
<1> QED
  BY <1>2, <1>5 DEF CostIn, before, after

\* The first of a set of places is one of them.
LEMMA FirstPlace ==
  ASSUME NEW T \in SUBSET Nat, T # {}
  PROVE  Min(T) \in T
<1>1. \E n \in T : \A m \in T : n <= m
  BY LeastNatural
<1> QED
  BY <1>1 DEF Min

\* The quotient of a place counts whole rows before it.
LEMMA RowOfPlace ==
  ASSUME NEW n \in Nat, NEW k \in Nat, NEW i \in 1..(n * k)
  PROVE  ((i - 1) \div n) + 1 \in 1..k /\ ((i - 1) % n) + 1 \in 1..n
<1>1. n # 0
  OBVIOUS
<1> DEFINE q == (i - 1) \div n
           r == (i - 1) % n
<1>2. q \in Int /\ r \in 0..(n - 1) /\ i - 1 = n * q + r
  BY <1>1
<1> HIDE DEF q, r
<1>3. q >= 0
  <2>1. CASE q <= -1
    <3>1. n * q <= -n
      BY <1>1, <1>2, <2>1
    <3> QED
      BY <1>2, <3>1
  <2> QED
    BY <1>2, <2>1
<1>4. q < k
  <2>1. CASE q >= k
    <3>1. n * q >= n * k
      BY <1>2, <2>1
    <3>2. n * k \in Nat /\ n * q \in Int /\ i <= n * k
      BY <1>2
    <3> QED
      BY <1>2, <3>1, <3>2
  <2> QED
    BY <1>2, <2>1
<1>5. q + 1 \in 1..k /\ r + 1 \in 1..n
  BY <1>2, <1>3, <1>4
<1> QED
  BY <1>5 DEF q, r

\* Every evaluation is of a strategy and a ticker.
LEMMA EvaluationPairs ==
  \A i \in DOMAIN Evaluations : /\ i \in Nat
                                /\ Evaluations[i][1] \in StrategyNames
                                /\ Evaluations[i][2] \in Tickers
<1> DEFINE n == Len(TickerOrder)
           k == Len(Strategies)
<1>1. n \in Nat /\ k \in Nat
  BY TradingAssumption, SizingAssumption
<1>2. Evaluations = [i \in 1..(n * k) |->
                        <<Strategies[((i - 1) \div n) + 1], TickerOrder[((i - 1) % n) + 1]>>]
  BY DEF Evaluations
<1>3. SUFFICES ASSUME NEW i \in 1..(n * k)
               PROVE  /\ i \in Nat
                      /\ Evaluations[i][1] \in StrategyNames
                      /\ Evaluations[i][2] \in Tickers
  BY <1>2
<1>4. ((i - 1) \div n) + 1 \in 1..k /\ ((i - 1) % n) + 1 \in 1..n
  <2> HIDE DEF n, k
  <2> QED
    BY <1>1, <1>3, RowOfPlace
<1>5. Strategies[((i - 1) \div n) + 1] \in StrategyNames
  BY <1>4 DEF StrategyNames
<1>6. TickerOrder[((i - 1) % n) + 1] \in Tickers
  BY <1>4, TradingAssumption
<1>7. i \in Nat
  BY <1>1, <1>3
<1> HIDE DEF n, k
<1> QED
  BY <1>2, <1>3, <1>5, <1>6, <1>7

\* The signal sized next is of a strategy and a ticker.
LEMMA CurrentPair ==
  ASSUME todo \in SUBSET DOMAIN Evaluations, todo # {}
  PROVE  Current[1] \in StrategyNames /\ Current[2] \in Tickers
<1>1. todo \in SUBSET Nat
  BY EvaluationPairs
<1>2. Min(todo) \in DOMAIN Evaluations
  BY <1>1, FirstPlace
<1> QED
  BY <1>2, EvaluationPairs DEF Current

-----------------------------------------------------------------------------
(* The sources keep the types of the rows. *)

\* Whatever the sources bring, the clock and the exchange do.
LEMMA DataKept ==
  ASSUME DataTypeOK,
         \/ Tick \/ IngestMarkets \/ IngestForecasts \/ IngestResolutions
         \/ UNCHANGED data \/ \E t \in Tickers : StopsTrading(t)
  PROVE  DataTypeOK'
<1>1. CASE Tick
  <2>1. now' \in 0..MaxTime
    BY <1>1, DataAssumption DEF Tick, DataTypeOK
  <2> QED
    BY <1>1, <2>1 DEF Tick, DataTypeOK
<1>2. CASE IngestMarkets
  <2>1. market' \in [Tickers -> Market]
    <3>1. CASE market' = market
      BY <3>1 DEF DataTypeOK
    <3>2. CASE \E answered \in SUBSET open : \E books \in [answered -> Books] :
                  market' = [t \in Tickers |->
                     IF t \in answered
                     THEN [listed |-> TRUE, asOf |-> now,
                           bid |-> books[t].bid, ask |-> books[t].ask]
                     ELSE [market[t] EXCEPT !.listed = @ \/ t \in open]]
      <4>1. PICK answered \in SUBSET open : \E books \in [answered -> Books] :
                  market' = [t \in Tickers |->
                     IF t \in answered
                     THEN [listed |-> TRUE, asOf |-> now,
                           bid |-> books[t].bid, ask |-> books[t].ask]
                     ELSE [market[t] EXCEPT !.listed = @ \/ t \in open]]
        BY <3>2
      <4>2. PICK books \in [answered -> Books] :
                  market' = [t \in Tickers |->
                     IF t \in answered
                     THEN [listed |-> TRUE, asOf |-> now,
                           bid |-> books[t].bid, ask |-> books[t].ask]
                     ELSE [market[t] EXCEPT !.listed = @ \/ t \in open]]
        BY <4>1
      <4>3. now \in Time
        BY DataAssumption DEF DataTypeOK, Time
      <4>4. \A t \in answered : books[t].bid \in Int /\ books[t].ask \in Int
        <5>1. \A b \in Books : b.bid \in Int /\ b.ask \in Int
          BY DataAssumption DEF NoPrice, Dollar
        <5> QED
          BY <5>1
      <4>5. \A t \in Tickers : market[t] \in Market
        BY DEF DataTypeOK
      <4>6. \A t \in Tickers : market'[t] \in Market
        <5> SUFFICES ASSUME NEW t \in Tickers PROVE market'[t] \in Market
          OBVIOUS
        <5>1. CASE t \in answered
          BY <4>2, <4>3, <4>4, <5>1 DEF Market
        <5>2. CASE t \notin answered
          <6>1. market'[t] = [market[t] EXCEPT !.listed = @ \/ t \in open]
            BY <4>2, <5>2
          <6> QED
            BY <4>5, <6>1 DEF Market
        <5> QED
          BY <5>1, <5>2
      <4> QED
        BY <4>2, <4>6
    <3> QED
      BY <1>2, <3>1, <3>2 DEF IngestMarkets
  <2> QED
    BY <1>2, <2>1 DEF IngestMarkets, DataTypeOK
<1>3. CASE IngestForecasts
  <2>1. PICK runs \in [Locations -> [Models -> Outlooks \cup {<<>>}]] :
          forecast' = [l \in Locations |-> [m \in Models |->
             IF runs[l][m] = <<>> THEN forecast[l][m] ELSE [at |-> now, hours |-> runs[l][m]]]]
    BY <1>3 DEF IngestForecasts
  <2>2. now \in Time
    BY DataAssumption DEF DataTypeOK, Time
  <2>3. \A l \in Locations, m \in Models : forecast'[l][m] \in Run
    BY <2>1, <2>2 DEF DataTypeOK, Run
  <2>4. forecast' \in [Locations -> [Models -> Run]]
    BY <2>1, <2>3
  <2> QED
    BY <1>3, <2>4 DEF IngestForecasts, DataTypeOK
<1>4. CASE IngestResolutions
  <2>1. resolution' \in [Tickers -> Result \cup {NoRow}]
    BY <1>4 DEF IngestResolutions, DataTypeOK
  <2> QED
    BY <1>4, <2>1 DEF IngestResolutions, DataTypeOK
<1>5. CASE UNCHANGED data
  BY <1>5 DEF data, DataTypeOK
<1>6. CASE \E t \in Tickers : StopsTrading(t)
  BY <1>6 DEF StopsTrading, DataTypeOK
<1> QED
  BY <1>1, <1>2, <1>3, <1>4, <1>5, <1>6

-----------------------------------------------------------------------------
(* Numbers. *)

\* Every setting a strategy applies is a natural number.
LEMMA EffectiveNat ==
  ASSUME NEW s \in StrategyNames
  PROVE  \A x \in Settings : Effective(s)[x] \in Nat
<1>1. /\ "maxAge" \in DOMAIN Config[s] /\ DOMAIN Config[s] \subseteq Settings
      /\ \A x \in DOMAIN Config[s] : Config[s][x] \in Nat
  BY SizingAssumption
<1>2. /\ DOMAIN Defaults = Settings \ {"maxAge"}
      /\ \A x \in DOMAIN Defaults : Defaults[x] \in Nat
  BY DEF Defaults, Settings
<1>3. SUFFICES ASSUME NEW x \in Settings PROVE Effective(s)[x] \in Nat
  OBVIOUS
<1>4. x \in DOMAIN Config[s] \cup DOMAIN Defaults
  BY <1>1, <1>2, <1>3
<1>5. Effective(s)[x] = IF x \in DOMAIN Config[s] THEN Config[s][x] ELSE Defaults[x]
  BY <1>3 DEF Effective
<1> QED
  BY <1>1, <1>2, <1>4, <1>5

\* A model's mean is a number, where it is present.
LEMMA ModelMeanInt ==
  ASSUME DataTypeOK, NEW l \in Locations, NEW m \in Models
  PROVE  IsPresent(ModelMean(l, m)) =>
            /\ ModelMean(l, m).value \in Int
            /\ ModelMean(l, m).asOf = forecast[l][m].at
            /\ forecast[l][m].hours # <<>>
<1> DEFINE run == forecast[l][m]
           hour == CHOOSE h \in TargetHour(run.hours) : TRUE
<1>1. run \in Run
  BY DEF DataTypeOK
<1>2. SUFFICES ASSUME IsPresent(ModelMean(l, m))
               PROVE  /\ ModelMean(l, m).value \in Int
                      /\ ModelMean(l, m).asOf = run.at
                      /\ run.hours # <<>>
  OBVIOUS
<1>3. TargetHour(run.hours) # {}
  BY <1>2 DEF ModelMean, Missing, IsPresent
<1>4. hour \in DOMAIN run.hours
  BY <1>3 DEF TargetHour
<1>5. run.hours # <<>>
  BY <1>4
<1>6. run.hours \in Outlooks
  BY <1>1, <1>5 DEF Run
<1>7. run.hours[hour] \in Int
  BY <1>4, <1>6, DataAssumption
<1>8. ModelMean(l, m) = Present(run.at, run.hours[hour])
  BY <1>3 DEF ModelMean
<1> QED
  BY <1>5, <1>7, <1>8 DEF Present

\* The features of a market are numbers, where they are present.
LEMMA FeaturesInt ==
  ASSUME DataTypeOK, NEW t \in Tickers
  PROVE  /\ IsPresent(FeaturesOf(t).mean) => FeaturesOf(t).mean.value \in Int
         /\ IsPresent(FeaturesOf(t).disagreement) => FeaturesOf(t).disagreement.value \in Int
         /\ IsPresent(FeaturesOf(t).spread) => FeaturesOf(t).spread.value \in Int
<1>1. market[t].bid \in Int /\ market[t].ask \in Int
  BY DEF DataTypeOK, Market
<1>2. IsPresent(Spread(t)) => Spread(t).value \in Int
  BY <1>1 DEF Spread, Present, Missing, IsPresent
<1>3. FeaturesOf(t).spread = Spread(t)
  BY DEF FeaturesOf
<1>4. CASE LocationOf[t] = NoLocation
  BY <1>2, <1>3, <1>4 DEF FeaturesOf, Absent, IsPresent
<1>5. CASE LocationOf[t] # NoLocation
  <2> DEFINE l == LocationOf[t]
  <2>1. l \in Locations
    BY <1>5, DataAssumption
  <2>2. /\ IsPresent(ModelMean(l, "gfs")) => ModelMean(l, "gfs").value \in Int
        /\ IsPresent(ModelMean(l, "ecmwf")) => ModelMean(l, "ecmwf").value \in Int
    BY <2>1, ModelMeanInt DEF Models
  <2>3. IsPresent(MeanTemp(l)) => MeanTemp(l).value \in Int
    BY <2>2 DEF MeanTemp, Present, Absent, IsPresent
  <2>4. IsPresent(Disagreement(l)) => Disagreement(l).value \in Int
    BY <2>2 DEF Disagreement, Present, Missing, IsPresent, Distance
  <2>5. FeaturesOf(t).mean = MeanTemp(l) /\ FeaturesOf(t).disagreement = Disagreement(l)
    BY <1>5 DEF FeaturesOf
  <2> QED
    BY <1>2, <1>3, <2>3, <2>4, <2>5
<1> QED
  BY <1>4, <1>5

\* A signal has a probability and a confidence, and only on a market whose mean
\* temperature is known.
LEMMA SignalNumbers ==
  ASSUME DataTypeOK, NEW s \in StrategyNames, NEW t \in Tickers,
         NEW signal \in Signals(s, t)
  PROVE  /\ signal.prob \in Int /\ signal.confidence \in Int
         /\ IsPresent(FeaturesOf(t).mean)
<1> DEFINE c == Effective(s)
           f == FeaturesOf(t)
<1>1. /\ IsPresent(f.mean) => f.mean.value \in Int
      /\ IsPresent(f.disagreement) => f.disagreement.value \in Int
      /\ IsPresent(f.spread) => f.spread.value \in Int
  BY FeaturesInt
<1>2. c.floor \in Nat
  BY EffectiveNat DEF Settings
<1>3. Mid(t) \in Int
  BY DEF Mid, DataTypeOK, Market
<1>4. CASE signal \in EnsembleDisagreement(c, t)
  <2> DEFINE prob == EnsembleToProb(f.mean.value)
             divergence == Distance(Mid(t), prob)
             confidence == Clamp(0, c.floor + 10 * f.disagreement.value + 5 * divergence, Dollar)
  <2>1. IsPresent(f.mean) /\ IsPresent(f.disagreement)
    BY <1>4 DEF EnsembleDisagreement
  <2>2. signal \in Signal(prob, confidence, SideFor(f.mean.value, Mid(t)))
    BY <1>4 DEF EnsembleDisagreement
  <2>3. prob \in Int
    BY <1>1, <2>1 DEF EnsembleToProb, Clamp
  <2>4. divergence \in Int
    BY <1>3, <2>3 DEF Distance
  <2>5. confidence \in Int
    BY <1>1, <1>2, <2>1, <2>4 DEF Clamp, Dollar
  <2> HIDE DEF prob, confidence
  <2>6. signal.prob = prob /\ signal.confidence = confidence
    BY <2>2 DEF Signal
  <2> QED
    BY <2>1, <2>3, <2>5, <2>6
<1>5. CASE signal \in StaleQuote(c, t)
  <2> DEFINE prob == EnsembleToProb(f.mean.value)
             confidence == Clamp(0, c.floor + f.spread.value, Dollar)
  <2>1. IsPresent(f.mean) /\ IsPresent(f.spread)
    BY <1>5 DEF StaleQuote
  <2>2. signal \in Signal(prob, confidence, SideFor(f.mean.value, Mid(t)))
    BY <1>5 DEF StaleQuote
  <2>3. prob \in Int
    BY <1>1, <2>1 DEF EnsembleToProb, Clamp
  <2>4. confidence \in Int
    BY <1>1, <1>2, <2>1 DEF Clamp, Dollar
  <2> HIDE DEF prob, confidence
  <2>5. signal.prob = prob /\ signal.confidence = confidence
    BY <2>2 DEF Signal
  <2> QED
    BY <2>1, <2>3, <2>4, <2>5
<1> QED
  BY <1>4, <1>5 DEF Signals

-----------------------------------------------------------------------------
(* Roundings. *)

\* An amount of n half-cents, rounded down and half up, differs for odd n only.
LEMMA RoundingsAgree ==
  ASSUME NEW n \in Nat, n # 0, n % 2 # 1
  PROVE  n \div 2 > 0 /\ n \div 2 = (n + 1) \div 2
  OBVIOUS

\* The price and the quantity of an accepted order are positive whole numbers, and
\* its cost is within free cash.
LEMMA AcceptedNumbers ==
  ASSUME TypeOK, NEW s \in StrategyNames, NEW t \in Tickers,
         NEW signal \in Signals(s, t), Accepts(s, t, signal, CashOf(s, t))
  PROVE  LET order == Order(s, t, signal, bankroll[s])
         IN  /\ order.price \in Nat \ {0} /\ order.qty \in Nat \ {0}
             /\ order.cost = (order.price * order.qty) \div 2
             /\ order.cost <= FreeCash(s)
<1> DEFINE order == Order(s, t, signal, bankroll[s])
           price == EntryPrice(signal.side, t)
           edge == Edge(signal, price)
           stake == Stake(s, bankroll[s], signal.confidence, edge)
<1>1. DataTypeOK /\ bankroll[s] \in Nat
  BY DEF TypeOK
<1>2. signal.prob \in Int /\ signal.confidence \in Int
  BY <1>1, SignalNumbers
<1>3. price \in Int
  BY <1>1 DEF EntryPrice, DataTypeOK, Market, Dollar, NoPrice
<1>4. CashOf(s, t).bankroll = bankroll[s] /\ CashOf(s, t).free = FreeCash(s)
  BY DEF CashOf
<1>5. price > 0 /\ order.qty >= 1 /\ order.cost <= FreeCash(s)
  BY <1>4 DEF Accepts, MIN_QTY
<1>6. edge \in Int
  BY <1>2, <1>3 DEF Edge, Dollar
<1>7. Kelly[s] \in Int
  BY SizingAssumption
<1>8. stake \in Int
  <2>1. bankroll[s] * Kelly[s] \in Int
    BY <1>1, <1>7
  <2>2. bankroll[s] * Kelly[s] * signal.confidence \in Int
    BY <1>2, <2>1
  <2>3. bankroll[s] * Kelly[s] * signal.confidence * edge \in Int
    BY <1>6, <2>2
  <2> QED
    BY <2>3 DEF Stake, Dollar
<1>9. order.price = price /\ order.qty = Qty(stake, price)
      /\ order.cost = (price * order.qty) \div 2
  BY DEF Order
<1>10. order.qty \in Int
  BY <1>3, <1>5, <1>8, <1>9 DEF Qty
<1> QED
  BY <1>3, <1>5, <1>9, <1>10

\* What sizing accepts the writer accepts, but for half a cent (size_order,
\* open_paper_position).
LEMMA RefusalIsHalfCent == TypeOK => RefusedOnlyForHalfCents
<1> SUFFICES ASSUME TypeOK, NEW s \in StrategyNames, NEW t \in Tickers,
                    NEW signal \in Signals(s, t),
                    Accepts(s, t, signal, CashOf(s, t)),
                    WriterRefuses(Order(s, t, signal, bankroll[s]), FreeCash(s))
             PROVE  LET order == Order(s, t, signal, bankroll[s])
                    IN  (order.price * order.qty) % 2 = 1
  BY DEF RefusedOnlyForHalfCents
<1> DEFINE order == Order(s, t, signal, bankroll[s])
           n == order.price * order.qty
<1>1. /\ order.price \in Nat \ {0} /\ order.qty \in Nat \ {0}
      /\ order.cost = n \div 2 /\ order.cost <= FreeCash(s)
  BY AcceptedNumbers
<1>2. n \in Nat /\ n # 0 /\ n = order.qty * order.price
  BY <1>1
<1>3. \/ order.qty <= 0 \/ order.cost <= 0
      \/ order.cost # (n + 1) \div 2
      \/ order.cost > FreeCash(s)
  BY <1>2 DEF WriterRefuses, ExpectedCost
<1>4. FreeCash(s) \in Int
  <2>1. bankroll[s] \in Nat /\ CostIn(holding, s, Tickers) \in Nat
    BY CostNat DEF TypeOK
  <2> QED
    BY <2>1 DEF FreeCash, Later
<1> QED
  BY <1>1, <1>2, <1>3, <1>4, RoundingsAgree

-----------------------------------------------------------------------------
(* Orders and forecasts. *)

\* A run with hours has the time it was written.
RunsDated ==
    \A l \in Locations, m \in Models :
        forecast[l][m].hours # <<>> => forecast[l][m].at # Never

\* A tick rolled back leaves no more than it had.
RollbackLoses ==
    \A s \in StrategyNames, t \in Tickers : committed[s][t].cost <= holding[s][t].cost

\* The order of an accepted signal rests on runs of both models, of which the newer
\* one is fresh.
LEMMA AcceptedRestsOnRuns ==
  ASSUME TypeOK, RunsDated, NEW s \in StrategyNames, NEW t \in Tickers,
         NEW signal \in Signals(s, t), Fresh(s, t)
  PROVE  LET runs == {forecast[LocationOf[t]][m].at : m \in Models}
         IN  /\ Never \notin runs
             /\ \E at \in runs : at >= market[t].asOf - Effective(s).maxAge
<1> DEFINE l == LocationOf[t]
           gfs == ModelMean(l, "gfs")
           ecmwf == ModelMean(l, "ecmwf")
<1>1. DataTypeOK
  BY DEF TypeOK
<1>2. IsPresent(FeaturesOf(t).mean)
  BY <1>1, SignalNumbers
<1>3. l # NoLocation
  BY <1>2 DEF FeaturesOf, Absent, IsPresent
<1>4. l \in Locations
  BY <1>3, DataAssumption
<1>5. FeaturesOf(t).disagreement = Disagreement(l)
  BY <1>3 DEF FeaturesOf
<1>6. Disagreement(l).status # "absent"
  BY DEF Disagreement, Present, Missing
<1>7. /\ IsPresent(Disagreement(l))
      /\ Disagreement(l).asOf >= market[t].asOf - Effective(s).maxAge
  BY <1>5, <1>6 DEF Fresh
<1>8. IsPresent(gfs) /\ IsPresent(ecmwf)
  BY <1>7 DEF Disagreement, Missing, IsPresent
<1>9. Disagreement(l).asOf = Later(gfs.asOf, ecmwf.asOf)
  BY <1>8 DEF Disagreement, Present
<1>10. /\ gfs.asOf = forecast[l]["gfs"].at /\ forecast[l]["gfs"].hours # <<>>
       /\ ecmwf.asOf = forecast[l]["ecmwf"].at /\ forecast[l]["ecmwf"].hours # <<>>
  BY <1>1, <1>4, <1>8, ModelMeanInt DEF Models
<1>11. forecast[l]["gfs"].at # Never /\ forecast[l]["ecmwf"].at # Never
  BY <1>4, <1>10 DEF RunsDated, Models
<1>12. Disagreement(l).asOf \in {forecast[l][m].at : m \in Models}
  BY <1>9, <1>10 DEF Later, Models
<1> QED
  BY <1>7, <1>11, <1>12 DEF Models

\* Only the sources write runs, and they date them.
LEMMA RunsStayDated ==
  ASSUME TypeOK, RunsDated, [Next]_vars
  PROVE  RunsDated'
<1>1. CASE FetchForecasts
  <2>1. now # Never
    BY DEF TypeOK, DataTypeOK, Never
  <2>2. PICK runs \in [Locations -> [Models -> Outlooks \cup {<<>>}]] :
          forecast' = [l \in Locations |-> [m \in Models |->
             IF runs[l][m] = <<>> THEN forecast[l][m] ELSE [at |-> now, hours |-> runs[l][m]]]]
    BY <1>1 DEF FetchForecasts, IngestForecasts
  <2> QED
    BY <2>1, <2>2 DEF RunsDated
<1>2. CASE ~FetchForecasts
  <2>1. forecast' = forecast
    BY <1>2 DEF Next, vars, data, CycleBegin, Tick, FetchMarkets, IngestMarkets,
               FetchResolutions, IngestResolutions, SourceFails, TickBegin, SizeNext,
               ResolutionTick, Closes, StopsTrading
  <2> QED
    BY <2>1 DEF RunsDated
<1> QED
  BY <1>1, <1>2

\* What SizeNext does to the positions.
LEMMA SizeNextCases ==
  ASSUME TypeOK, SizeNext
  PROVE  LET s == Current[1]
             t == Current[2]
         IN  /\ s \in StrategyNames /\ t \in Tickers
             /\ \E signal \in Signals(s, t) :
                   \/ holding' = committed /\ committed' = committed
                   \/ holding' = holding /\ committed' \in {committed, holding}
                   \/ /\ Accepts(s, t, signal, CashOf(s, t))
                      /\ holding' = [holding EXCEPT
                            ![s][t] = Bought(@, Order(s, t, signal, bankroll[s]))]
                      /\ committed' \in {committed, holding'}
<1> DEFINE s == Current[1]
           t == Current[2]
           rest == todo \ {Min(todo)}
<1>1. s \in StrategyNames /\ t \in Tickers
  BY CurrentPair DEF TypeOK, SizeNext
<1>2. PICK signal \in Signals(s, t) :
        LET order == Order(s, t, signal, bankroll[s])
            places == Accepts(s, t, signal, CashOf(s, t))
        IN  IF places /\ WriterRefuses(order, FreeCash(s))
            THEN holding' = committed /\ committed' = committed
            ELSE /\ holding' = IF places THEN [holding EXCEPT ![s][t] = Bought(@, order)]
                                         ELSE holding
                 /\ committed' = IF rest = {} THEN holding' ELSE committed
  BY DEF SizeNext
<1> QED
  BY <1>1, <1>2

\* An order adds a cost to the position of its strategy and ticker, and to no other.
LEMMA BoughtCost ==
  ASSUME TypeOK, NEW s \in StrategyNames, NEW t \in Tickers,
         NEW signal \in Signals(s, t), Accepts(s, t, signal, CashOf(s, t)),
         holding' = [holding EXCEPT ![s][t] = Bought(@, Order(s, t, signal, bankroll[s]))]
  PROVE  \A s2 \in StrategyNames, t2 \in Tickers :
            /\ <<s2, t2>> # <<s, t>> => holding'[s2][t2] = holding[s2][t2]
            /\ holding[s2][t2].cost <= holding'[s2][t2].cost
            /\ holding'[s2][t2].cost \in Nat
<1> DEFINE order == Order(s, t, signal, bankroll[s])
<1>1. holding \in [StrategyNames -> [Tickers -> Holding]]
  BY DEF TypeOK, Holdings
<1>2. \A s2 \in StrategyNames, t2 \in Tickers : holding[s2][t2].cost \in Nat
  BY <1>1 DEF Holding
<1>3. order.cost \in Nat
  <2>1. /\ order.price \in Nat /\ order.qty \in Nat
        /\ order.cost = (order.price * order.qty) \div 2
    BY AcceptedNumbers
  <2>2. order.price * order.qty \in Nat
    BY <2>1
  <2> QED
    BY <2>1, <2>2
<1>4. holding'[s][t].cost = holding[s][t].cost + order.cost
  BY <1>1 DEF Bought
<1>5. \A s2 \in StrategyNames, t2 \in Tickers :
        <<s2, t2>> # <<s, t>> => holding'[s2][t2] = holding[s2][t2]
  BY <1>1
<1> QED
  BY <1>2, <1>3, <1>4, <1>5

\* A tick only adds to what a rollback would restore.
LEMMA RollbackKeepsLosing ==
  ASSUME TypeOK, RollbackLoses, [Next]_vars
  PROVE  RollbackLoses'
<1>1. \A s \in StrategyNames, t \in Tickers :
        holding[s][t].cost \in Nat /\ committed[s][t].cost \in Nat
  BY DEF TypeOK, Holdings, Holding
<1>2. CASE SizeNext
  <2> DEFINE s == Current[1]
             t == Current[2]
  <2>1. s \in StrategyNames /\ t \in Tickers
    BY <1>2, SizeNextCases
  <2>2. PICK signal \in Signals(s, t) :
           \/ holding' = committed /\ committed' = committed
           \/ holding' = holding /\ committed' \in {committed, holding}
           \/ /\ Accepts(s, t, signal, CashOf(s, t))
              /\ holding' = [holding EXCEPT
                    ![s][t] = Bought(@, Order(s, t, signal, bankroll[s]))]
              /\ committed' \in {committed, holding'}
    BY <1>2, SizeNextCases
  <2> HIDE DEF s, t
  <2>3. CASE holding' = committed /\ committed' = committed
    BY <1>1, <2>3 DEF RollbackLoses
  <2>4. CASE holding' = holding /\ committed' \in {committed, holding}
    BY <1>1, <2>4 DEF RollbackLoses
  <2>5. CASE /\ Accepts(s, t, signal, CashOf(s, t))
             /\ holding' = [holding EXCEPT ![s][t] = Bought(@, Order(s, t, signal, bankroll[s]))]
             /\ committed' \in {committed, holding'}
    <3>1. \A s2 \in StrategyNames, t2 \in Tickers : holding[s2][t2].cost <= holding'[s2][t2].cost
      BY <2>1, <2>5, BoughtCost
    <3>2. \A s2 \in StrategyNames, t2 \in Tickers : holding'[s2][t2].cost \in Nat
      BY <2>1, <2>5, BoughtCost
    <3>3. CASE committed' = committed
      <4>1. \A s2 \in StrategyNames, t2 \in Tickers : committed[s2][t2].cost <= holding[s2][t2].cost
        BY DEF RollbackLoses
      <4>2. \A s2 \in StrategyNames, t2 \in Tickers : committed[s2][t2].cost <= holding'[s2][t2].cost
        BY <1>1, <3>1, <3>2, <4>1
      <4> QED
        BY <3>3, <4>2 DEF RollbackLoses
    <3>4. CASE committed' = holding'
      BY <3>2, <3>4 DEF RollbackLoses
    <3> QED
      BY <2>5, <3>3, <3>4
  <2> QED
    BY <2>2, <2>3, <2>4, <2>5
<1>3. CASE ResolutionTick
  <2>1. /\ committed' = holding'
        /\ \A s \in StrategyNames, t \in Tickers : holding'[s][t] \in {Flat, holding[s][t]}
    BY <1>3 DEF ResolutionTick
  <2>2. \A s \in StrategyNames, t \in Tickers : holding'[s][t].cost \in Nat
    BY <1>1, <2>1 DEF Flat
  <2> QED
    BY <2>1, <2>2 DEF RollbackLoses
<1>4. CASE ~SizeNext /\ ~ResolutionTick
  <2>1. holding' = holding /\ committed' = committed
    BY <1>4 DEF Next, vars, book, CycleBegin, FetchMarkets, FetchForecasts, FetchResolutions,
               SourceFails, SourceEnds, TickBegin, Closes
  <2> QED
    BY <2>1 DEF RollbackLoses
<1> QED
  BY <1>2, <1>3, <1>4

\* A position grows only by the accepted order of the signal that is sized
\* (run_engine_tick).
LEMMA BuyingIsSizing ==
  ASSUME TypeOK, RollbackLoses, [Next]_vars,
         NEW s \in StrategyNames, NEW t \in Tickers, Buys(s, t)
  PROVE  /\ SizeNext /\ s = Current[1] /\ t = Current[2]
         /\ \E signal \in Signals(s, t) :
               /\ Accepts(s, t, signal, CashOf(s, t))
               /\ holding' = [holding EXCEPT
                     ![s][t] = Bought(@, Order(s, t, signal, bankroll[s]))]
<1>1. \A s2 \in StrategyNames, t2 \in Tickers :
        holding[s2][t2].cost \in Nat /\ committed[s2][t2].cost \in Nat
  BY DEF TypeOK, Holdings, Holding
<1>2. CASE SizeNext
  <2> DEFINE s2 == Current[1]
             t2 == Current[2]
  <2>1. s2 \in StrategyNames /\ t2 \in Tickers
    BY <1>2, SizeNextCases
  <2>2. PICK signal \in Signals(s2, t2) :
           \/ holding' = committed /\ committed' = committed
           \/ holding' = holding /\ committed' \in {committed, holding}
           \/ /\ Accepts(s2, t2, signal, CashOf(s2, t2))
              /\ holding' = [holding EXCEPT
                    ![s2][t2] = Bought(@, Order(s2, t2, signal, bankroll[s2]))]
              /\ committed' \in {committed, holding'}
    BY <1>2, SizeNextCases
  <2> HIDE DEF s2, t2
  <2>3. CASE holding' = committed
    BY <1>1, <2>3 DEF RollbackLoses, Buys
  <2>4. CASE holding' = holding
    BY <1>1, <2>4 DEF Buys
  <2>5. CASE /\ Accepts(s2, t2, signal, CashOf(s2, t2))
             /\ holding' = [holding EXCEPT
                   ![s2][t2] = Bought(@, Order(s2, t2, signal, bankroll[s2]))]
    <3>1. <<s, t>> # <<s2, t2>> => holding'[s][t] = holding[s][t]
      BY <2>1, <2>5, BoughtCost
    <3>2. s = s2 /\ t = t2
      BY <1>1, <3>1 DEF Buys
    <3> QED
      BY <1>2, <2>5, <3>2 DEF s2, t2
  <2> QED
    BY <2>2, <2>3, <2>4, <2>5
<1>3. CASE ResolutionTick
  <2>1. holding'[s][t] \in {Flat, holding[s][t]}
    BY <1>3 DEF ResolutionTick
  <2> QED
    BY <1>1, <2>1 DEF Flat, Buys
<1>4. CASE ~SizeNext /\ ~ResolutionTick
  <2>1. holding' = holding
    BY <1>4 DEF Next, vars, book, CycleBegin, FetchMarkets, FetchForecasts, FetchResolutions,
               SourceFails, SourceEnds, TickBegin, Closes
  <2> QED
    BY <1>1, <2>1 DEF Buys
<1> QED
  BY <1>2, <1>3, <1>4

-----------------------------------------------------------------------------
(* Bankrolls and what they cover. *)

\* The open positions of a strategy, committed or not, never cost more than its
\* bankroll.
Covered ==
    \A s \in StrategyNames : /\ CostIn(holding, s, Tickers) <= bankroll[s]
                             /\ CostIn(committed, s, Tickers) <= bankroll[s]

\* The state of an order adds its cost to every sum of its strategy that counts
\* its ticker, and to none of another strategy.
LEMMA BoughtSums ==
  ASSUME TypeOK, NEW s \in StrategyNames, NEW t \in Tickers,
         NEW signal \in Signals(s, t), Accepts(s, t, signal, CashOf(s, t)),
         holding' = [holding EXCEPT ![s][t] = Bought(@, Order(s, t, signal, bankroll[s]))]
  PROVE  /\ holding' \in Holdings
         /\ \A T \in SUBSET Tickers : t \in T =>
               CostIn(holding', s, T)
                  = CostIn(holding, s, T) + Order(s, t, signal, bankroll[s]).cost
         /\ \A s2 \in StrategyNames \ {s} :
               CostIn(holding', s2, Tickers) = CostIn(holding, s2, Tickers)
<1> DEFINE order == Order(s, t, signal, bankroll[s])
<1>1. holding \in [StrategyNames -> [Tickers -> Holding]]
  BY DEF TypeOK, Holdings
<1>2. /\ order.price \in Nat \ {0} /\ order.qty \in Nat \ {0}
      /\ order.cost = (order.price * order.qty) \div 2
  BY AcceptedNumbers
<1>3. order.cost \in Nat
  <2>1. order.price * order.qty \in Nat
    BY <1>2
  <2> QED
    BY <1>2, <2>1
<1> HIDE DEF order
<1>4. Bought(holding[s][t], order) \in Holding
  <2>1. holding[s][t] \in Holding
    BY <1>1
  <2>2. /\ holding[s][t].yes \in Nat /\ holding[s][t].no \in Nat
        /\ holding[s][t].cost \in Nat
    BY <2>1 DEF Holding
  <2> DEFINE yes == holding[s][t].yes + IF order.side = "yes" THEN order.qty ELSE 0
             no == holding[s][t].no + IF order.side = "no" THEN order.qty ELSE 0
             cost == holding[s][t].cost + order.cost
  <2>3. yes \in Nat /\ no \in Nat /\ cost \in Nat
    BY <1>2, <1>3, <2>2
  <2> HIDE DEF yes, no, cost
  <2>4. [yes |-> yes, no |-> no, cost |-> cost] \in Holding
    BY <2>3 DEF Holding
  <2> QED
    BY <2>4 DEF Bought, yes, no, cost
<1>5. holding' = [holding EXCEPT ![s][t] = Bought(@, order)]
  BY DEF order
<1>6. holding' \in Holdings
  BY <1>1, <1>4, <1>5 DEF Holdings
<1>7. /\ holding'[s][t] = Bought(holding[s][t], order)
      /\ \A u \in Tickers \ {t} : holding'[s][u] = holding[s][u]
      /\ \A s2 \in StrategyNames \ {s} : holding'[s2] = holding[s2]
  BY <1>1, <1>5
<1>8. holding'[s][t].cost = holding[s][t].cost + order.cost
  BY <1>7 DEF Bought
<1>9. holding \in Holdings
  BY <1>1 DEF Holdings
<1>10. ASSUME NEW T \in SUBSET Tickers, t \in T
       PROVE  CostIn(holding', s, T) = CostIn(holding, s, T) + order.cost
  <2>1. \A u \in T \ {t} : holding'[s][u] = holding[s][u]
    BY <1>7
  <2> DEFINE c == order.cost
             k == holding'
  <2>2. /\ c \in Int /\ k \in Holdings /\ t \in T
        /\ k[s][t].cost = holding[s][t].cost + c
        /\ \A u \in T \ {t} : k[s][u] = holding[s][u]
    BY <1>3, <1>6, <1>8, <1>10, <2>1
  <2> HIDE DEF c, k
  <2>3. CostIn(k, s, T) = CostIn(holding, s, T) + c
    BY <1>9, <2>2, CostGrows
  <2> QED
    BY <2>3 DEF c, k
<1>11. ASSUME NEW s2 \in StrategyNames \ {s}
       PROVE  CostIn(holding', s2, Tickers) = CostIn(holding, s2, Tickers)
  <2>1. \A u \in Tickers : holding'[s2][u] = holding[s2][u]
    BY <1>7
  <2> QED
    BY <1>6, <1>9, <2>1, CostSame
<1> QED
  BY <1>6, <1>10, <1>11 DEF order

\* The next order leaves the positions covered, whether it is placed, rejected or
\* rolls the tick back (size_order, open_paper_position).
LEMMA SizeNextCovered ==
  ASSUME TypeOK, Covered, SizeNext
  PROVE  TypeOK' /\ Covered'
<1> DEFINE s == Current[1]
           t == Current[2]
<1>1. s \in StrategyNames /\ t \in Tickers
  BY SizeNextCases
<1>2. PICK signal \in Signals(s, t) :
         \/ holding' = committed /\ committed' = committed
         \/ holding' = holding /\ committed' \in {committed, holding}
         \/ /\ Accepts(s, t, signal, CashOf(s, t))
            /\ holding' = [holding EXCEPT
                  ![s][t] = Bought(@, Order(s, t, signal, bankroll[s]))]
            /\ committed' \in {committed, holding'}
  BY SizeNextCases
<1> HIDE DEF s, t
<1>3. bankroll' = bankroll /\ UNCHANGED data /\ failed' = failed
  BY DEF SizeNext
<1>4. stage' \in {"sleeping", "resolve", "engine"} /\ todo' \in {{}, todo \ {Min(todo)}}
  BY DEF SizeNext
<1>5. /\ holding' \in Holdings /\ committed' \in Holdings
      /\ \A s2 \in StrategyNames : /\ CostIn(holding', s2, Tickers) <= bankroll[s2]
                                   /\ CostIn(committed', s2, Tickers) <= bankroll[s2]
  <2>1. /\ holding \in Holdings /\ committed \in Holdings
        /\ \A s2 \in StrategyNames : /\ CostIn(holding, s2, Tickers) <= bankroll[s2]
                                     /\ CostIn(committed, s2, Tickers) <= bankroll[s2]
    BY DEF TypeOK, Covered
  <2>2. CASE /\ holding' \in {committed, holding}
             /\ committed' \in {committed, holding}
    BY <2>1, <2>2
  <2>3. CASE /\ Accepts(s, t, signal, CashOf(s, t))
             /\ holding' = [holding EXCEPT
                   ![s][t] = Bought(@, Order(s, t, signal, bankroll[s]))]
             /\ committed' \in {committed, holding'}
    <3> DEFINE order == Order(s, t, signal, bankroll[s])
    <3>1. order.cost <= FreeCash(s) /\ order.price \in Nat \ {0} /\ order.qty \in Nat \ {0}
          /\ order.cost = (order.price * order.qty) \div 2
      BY <1>1, <2>3, AcceptedNumbers
    <3>2. holding' \in Holdings
      BY <1>1, <2>3, BoughtSums
    <3>3. CostIn(holding', s, Tickers) = CostIn(holding, s, Tickers) + order.cost
      BY <1>1, <2>3, BoughtSums
    <3>4. \A s2 \in StrategyNames \ {s} :
             CostIn(holding', s2, Tickers) = CostIn(holding, s2, Tickers)
      BY <1>1, <2>3, BoughtSums
    <3>5. CostIn(holding, s, Tickers) \in Nat /\ bankroll[s] \in Nat
      BY <1>1, <2>1, CostNat DEF TypeOK
    <3>6. FreeCash(s) = bankroll[s] - CostIn(holding, s, Tickers)
      <4>1. CostIn(holding, s, Tickers) <= bankroll[s]
        BY <1>1, <2>1
      <4> QED
        BY <3>5, <4>1 DEF FreeCash, Later
    <3>7. order.cost \in Int
      <4>1. order.price * order.qty \in Nat
        BY <3>1
      <4> QED
        BY <3>1, <4>1
    <3> HIDE DEF order
    <3>8. CostIn(holding', s, Tickers) <= bankroll[s]
      BY <3>1, <3>3, <3>5, <3>6, <3>7
    <3>9. \A s2 \in StrategyNames : CostIn(holding', s2, Tickers) <= bankroll[s2]
      BY <2>1, <3>4, <3>8
    <3> QED
      BY <2>1, <2>3, <3>2, <3>9
  <2> QED
    BY <1>2, <2>2, <2>3
<1>6. DataTypeOK'
  BY <1>3, DataKept DEF TypeOK
<1>7. TypeOK'
  BY <1>3, <1>4, <1>5, <1>6 DEF TypeOK
<1> QED
  BY <1>3, <1>5, <1>7 DEF Covered

\* A resolution pays contracts that cost something at least nothing: what it
\* leaves of a bankroll covers the positions that stay (resolve_position).
LEMMA ResolutionCovered ==
  ASSUME TypeOK, Covered, ResolutionTick
  PROVE  TypeOK' /\ Covered'
<1> DEFINE due == {t \in Tickers : resolution[t] # NoRow}
           Gain(s) == [t \in due |-> Payout(holding[s][t], resolution[t]) - holding[s][t].cost]
           Before(s) == [t \in Tickers |-> holding[s][t].cost]
           After2(s) == [t \in Tickers |-> holding'[s][t].cost]
<1>1. /\ stage' = "sleeping" /\ UNCHANGED <<data, failed, todo>>
      /\ bankroll' = [s \in StrategyNames |-> bankroll[s] + SumFunctionOnSet(Gain(s), due)]
      /\ holding' = [s \in StrategyNames |-> [t \in Tickers |-> IF t \in due THEN Flat
                                                                ELSE holding[s][t]]]
      /\ committed' = holding'
  BY DEF ResolutionTick
<1>2. holding \in Holdings /\ DataTypeOK
  BY DEF TypeOK
<1>3. holding' \in Holdings
  <2>1. Flat \in Holding
    BY DEF Flat, Holding
  <2>2. \A s \in StrategyNames, t \in Tickers : holding[s][t] \in Holding
    BY <1>2 DEF Holdings
  <2> HIDE DEF due
  <2> QED
    BY <1>1, <2>1, <2>2 DEF Holdings
<1>4. ASSUME NEW s \in StrategyNames
      PROVE  /\ bankroll'[s] \in Nat
             /\ CostIn(holding', s, Tickers) <= bankroll'[s]
  <2>1. \A t \in Tickers : holding[s][t].yes \in Nat /\ holding[s][t].no \in Nat
                           /\ holding[s][t].cost \in Nat
    BY <1>2 DEF Holdings, Holding
  <2>2. \A t \in Tickers : Payout(holding[s][t], resolution[t]) \in Nat
    BY <2>1 DEF Payout
  <2>3. \A t \in due : Gain(s)[t] \in Int /\ Gain(s)[t] >= 0 - Before(s)[t]
    BY <2>1, <2>2
  <2>4. \A t \in Tickers : Before(s)[t] \in Int
    BY <2>1
  <2>5. \A t \in Tickers : After2(s)[t] = IF t \in due THEN 0 ELSE Before(s)[t]
    <3> HIDE DEF due
    <3> QED
      BY <1>1 DEF Flat
  <2>6. due \in SUBSET Tickers /\ IsFiniteSet(Tickers) /\ IsFiniteSet(due)
    BY TickersFinite, FS_Subset
  <2> DEFINE f == Before(s)
             g == Gain(s)
             h == After2(s)
  <2>7. f = Before(s) /\ g = Gain(s) /\ h = After2(s)
    OBVIOUS
  <2> HIDE DEF f, g, h, due, Before, Gain, After2
  <2>8. \A t \in Tickers : f[t] \in Int /\ h[t] \in Int
    BY <2>4, <2>5, <2>7
  <2>9. \A t \in due : g[t] \in Int /\ h[t] <= f[t] + g[t]
    BY <2>3, <2>4, <2>5, <2>6, <2>7
  <2>10. \A t \in Tickers \ due : h[t] <= f[t]
    BY <2>4, <2>5, <2>7
  <2>11. SumFunctionOnSet(h, Tickers) <= SumFunctionOnSet(f, Tickers) + SumFunctionOnSet(g, due)
    BY <2>6, <2>8, <2>9, <2>10, SumCompare
  <2>12. /\ SumFunctionOnSet(h, Tickers) = CostIn(holding', s, Tickers)
         /\ SumFunctionOnSet(f, Tickers) = CostIn(holding, s, Tickers)
    BY DEF CostIn, f, h, Before, After2
  <2>13. CostIn(holding', s, Tickers) \in Nat /\ CostIn(holding, s, Tickers) \in Nat
    BY <1>2, <1>3, CostNat
  <2>14. CostIn(holding, s, Tickers) <= bankroll[s] /\ bankroll[s] \in Nat
    BY DEF Covered, TypeOK
  <2>15. SumFunctionOnSet(g, due) \in Int
    BY <2>6, <2>9, SumInt
  <2>16. bankroll'[s] = bankroll[s] + SumFunctionOnSet(g, due)
    BY <1>1, <2>7
  <2> QED
    BY <2>11, <2>12, <2>13, <2>14, <2>15, <2>16
<1>5. bankroll' \in [StrategyNames -> Nat]
  BY <1>1, <1>4
<1>6. DataTypeOK'
  BY <1>1, <1>2, DataKept
<1>7. TypeOK'
  BY <1>1, <1>3, <1>5, <1>6 DEF TypeOK
<1> QED
  BY <1>1, <1>4, <1>7 DEF Covered

\* Nothing else moves money or positions.
LEMMA MoneyKept ==
  ASSUME TypeOK, Covered, [Next]_vars
  PROVE  TypeOK' /\ Covered'
<1>1. CASE SizeNext
  BY <1>1, SizeNextCovered
<1>2. CASE ResolutionTick
  BY <1>2, ResolutionCovered
<1>3. CASE ~SizeNext /\ ~ResolutionTick
  <2>1. UNCHANGED <<bankroll, holding, committed>>
    BY <1>3 DEF Next, vars, book, CycleBegin, FetchMarkets, FetchForecasts, FetchResolutions,
               SourceFails, SourceEnds, TickBegin, Closes
  <2>2. todo' \in SUBSET DOMAIN Evaluations
    <3>1. CASE TickBegin
      BY <3>1 DEF TickBegin
    <3>2. CASE ~TickBegin
      BY <1>3, <3>2 DEF TypeOK, Next, vars, book, CycleBegin, FetchMarkets, FetchForecasts,
                        FetchResolutions, SourceFails, SourceEnds, Closes
    <3> QED
      BY <3>1, <3>2
  <2>3. /\ stage' \in {"sleeping", "markets", "forecasts", "resolutions", "engine", "resolve"}
        /\ failed' \in BOOLEAN
    <3>1. CASE CycleBegin \/ Closes \/ UNCHANGED vars
      BY <3>1 DEF TypeOK, CycleBegin, Closes, vars
    <3>2. CASE FetchMarkets \/ FetchForecasts \/ FetchResolutions \/ SourceFails
      <4>1. stage \in DOMAIN After /\ \E inError \in BOOLEAN : SourceEnds(inError)
        BY <3>2 DEF TypeOK, FetchMarkets, FetchForecasts, FetchResolutions, SourceFails, After
      <4> QED
        BY <4>1 DEF SourceEnds, After
    <3>3. CASE TickBegin
      BY <3>3 DEF TypeOK, TickBegin
    <3> QED
      BY <1>3, <3>1, <3>2, <3>3 DEF Next
  <2>4. DataTypeOK'
    <3>1. \/ Tick \/ IngestMarkets \/ IngestForecasts \/ IngestResolutions
          \/ UNCHANGED data \/ \E t \in Tickers : StopsTrading(t)
      BY <1>3 DEF Next, vars, CycleBegin, FetchMarkets, FetchForecasts, FetchResolutions,
                  SourceFails, TickBegin, Closes
    <3> QED
      BY <3>1, DataKept DEF TypeOK
  <2> QED
    BY <2>1, <2>2, <2>3, <2>4 DEF TypeOK, Covered
<1> QED
  BY <1>1, <1>2, <1>3

-----------------------------------------------------------------------------
(* The inductive invariant. *)

IInv == TypeOK /\ Covered /\ RunsDated /\ RollbackLoses

\* No run, no position and nothing to size yet.
LEMMA InitInv == Init => IInv
<1> SUFFICES ASSUME Init PROVE IInv
  OBVIOUS
<1>1. \A l \in Locations, m \in Models : forecast[l][m].hours = <<>>
  BY DEF Init, DataInit, NoRun
<1>2. \A s \in StrategyNames, t \in Tickers : holding[s][t].cost = 0 /\ committed[s][t].cost = 0
  BY DEF Init, Flat
<1>3. DataTypeOK
  <2>1. Unlisted \in Market /\ NoRun \in Run
    BY DEF Unlisted, Market, NoRun, Run, Time, Never, NoPrice
  <2> QED
    BY <2>1, DataAssumption DEF Init, DataInit, DataTypeOK
<1>4. holding \in Holdings /\ committed \in Holdings
  BY DEF Init, Flat, Holdings, Holding
<1>5. TypeOK
  BY <1>3, <1>4, TradingAssumption DEF Init, TypeOK
<1>6. ASSUME NEW s \in StrategyNames PROVE CostIn(holding, s, Tickers) = 0
  <2> DEFINE cost == [t \in Tickers |-> holding[s][t].cost]
  <2>1. \A t \in Tickers : cost[t] = 0
    BY <1>2
  <2> HIDE DEF cost
  <2>2. SumFunctionOnSet(cost, Tickers) = 0
    BY <2>1, TickersFinite, SumZero
  <2> QED
    BY <2>2 DEF CostIn, cost
<1>7. Covered
  <2>1. committed = holding /\ \A s \in StrategyNames : bankroll[s] = InitialBankroll
    BY DEF Init
  <2>2. 0 <= InitialBankroll
    BY TradingAssumption
  <2> QED
    BY <1>6, <2>1, <2>2 DEF Covered
<1> QED
  BY <1>1, <1>2, <1>5, <1>7 DEF Init, IInv, RunsDated, RollbackLoses

\* Every action preserves it.
LEMMA NextInv == IInv /\ [Next]_vars => IInv'
  BY MoneyKept, RunsStayDated, RollbackKeepsLosing DEF IInv

\* It holds in every reachable state.
LEMMA InductiveInvariant == Spec => []IInv
  BY InitInv, NextInv, PTL DEF Spec

-----------------------------------------------------------------------------
(* What follows from it. *)

\* Rows, positions and bankrolls keep their types: above all, no sequence of orders
\* and settlements makes a bankroll negative (run_engine_tick, run_resolution_tick).
THEOREM TradingTypeOK == Spec => []TypeOK
<1>1. IInv => TypeOK
  BY DEF IInv
<1> QED
  BY <1>1, InductiveInvariant, PTL

\* The open positions of a strategy never cost more than its bankroll, before and
\* after any order of a tick and when the tick is rolled back (docs/PDD.md:414).
THEOREM TradingCovered == Spec => []Covered
<1>1. IInv => Covered
  BY DEF IInv
<1> QED
  BY <1>1, InductiveInvariant, PTL

\* The writer refuses what sizing accepted for half a cent only, in every state of
\* every behaviour (size_order, open_paper_position).
THEOREM OnlyHalfCentsAbort == Spec => []RefusedOnlyForHalfCents
<1>1. IInv => RefusedOnlyForHalfCents
  BY RefusalIsHalfCent DEF IInv
<1> QED
  BY <1>1, InductiveInvariant, PTL

\* Every order rests on runs of both models, of which the newer one is fresh,
\* whatever features its strategy requires (_stale_feature, size_order).
THEOREM OrdersNeedForecasts == Spec => OrdersRestOnForecasts
<1> DEFINE OrderRests ==
      \A s \in StrategyNames, t \in Tickers :
          Buys(s, t) =>
             LET runs == {forecast[LocationOf[t]][m].at : m \in Models}
             IN  /\ Never \notin runs
                 /\ \E at \in runs : at >= market[t].asOf - Effective(s).maxAge
<1>1. IInv /\ [Next]_vars => [OrderRests]_vars
  <2> SUFFICES ASSUME IInv, [Next]_vars,
                      NEW s \in StrategyNames, NEW t \in Tickers, Buys(s, t)
               PROVE  LET runs == {forecast[LocationOf[t]][m].at : m \in Models}
                      IN  /\ Never \notin runs
                          /\ \E at \in runs : at >= market[t].asOf - Effective(s).maxAge
    OBVIOUS
  <2>1. TypeOK /\ RunsDated /\ RollbackLoses
    BY DEF IInv
  <2>2. PICK signal \in Signals(s, t) : Accepts(s, t, signal, CashOf(s, t))
    BY <2>1, BuyingIsSizing
  <2>3. Fresh(s, t)
    BY <2>2 DEF Accepts
  <2> QED
    BY <2>1, <2>2, <2>3, AcceptedRestsOnRuns
<1> QED
  BY <1>1, InductiveInvariant, PTL DEF Spec, OrdersRestOnForecasts

\* The caps hold after every order of every tick, for any caps, bankrolls and
\* positions, whatever was ordered before in the same tick (size_order).
THEOREM CapsBind == Spec => CapsHold
<1> DEFINE Capped ==
      \A s \in StrategyNames, t \in Tickers :
          Buys(s, t) =>
             /\ CostIn(holding', s, Tickers) <= Percent(Effective(s).exposure, TotalBankroll)
             /\ CostIn(holding', s, {u \in Tickers : EventOf[u] = EventOf[t]})
                   <= Percent(Effective(s).correlation, bankroll[s])
<1>1. IInv /\ [Next]_vars => [Capped]_vars
  <2> SUFFICES ASSUME IInv, [Next]_vars,
                      NEW s \in StrategyNames, NEW t \in Tickers, Buys(s, t)
               PROVE  /\ CostIn(holding', s, Tickers)
                            <= Percent(Effective(s).exposure, TotalBankroll)
                      /\ CostIn(holding', s, {u \in Tickers : EventOf[u] = EventOf[t]})
                            <= Percent(Effective(s).correlation, bankroll[s])
    OBVIOUS
  <2> DEFINE event == {u \in Tickers : EventOf[u] = EventOf[t]}
  <2>1. TypeOK /\ RollbackLoses
    BY DEF IInv
  <2>2. PICK signal \in Signals(s, t) :
           /\ Accepts(s, t, signal, CashOf(s, t))
           /\ holding' = [holding EXCEPT
                 ![s][t] = Bought(@, Order(s, t, signal, bankroll[s]))]
    BY <2>1, BuyingIsSizing
  <2> DEFINE order == Order(s, t, signal, bankroll[s])
  <2>3. \A T \in SUBSET Tickers : t \in T =>
           CostIn(holding', s, T) = CostIn(holding, s, T) + order.cost
    BY <2>1, <2>2, BoughtSums
  <2>4. t \in Tickers /\ t \in event /\ event \in SUBSET Tickers
    OBVIOUS
  <2>5. /\ CashOf(s, t).exposed = CostIn(holding, s, Tickers)
        /\ CashOf(s, t).correlated = CostIn(holding, s, event)
        /\ CashOf(s, t).total = TotalBankroll
        /\ CashOf(s, t).bankroll = bankroll[s]
    BY DEF CashOf, OpenPositions
  <2>6. /\ CashOf(s, t).exposed + order.cost
              <= Percent(Effective(s).exposure, CashOf(s, t).total)
        /\ CashOf(s, t).correlated + order.cost
              <= Percent(Effective(s).correlation, CashOf(s, t).bankroll)
    BY <2>2, <2>5 DEF Accepts
  <2> HIDE DEF event, order
  <2>7. /\ CostIn(holding', s, Tickers) = CostIn(holding, s, Tickers) + order.cost
        /\ CostIn(holding', s, event) = CostIn(holding, s, event) + order.cost
    BY <2>3, <2>4
  <2>8. /\ CostIn(holding', s, Tickers) <= Percent(Effective(s).exposure, TotalBankroll)
        /\ CostIn(holding', s, event) <= Percent(Effective(s).correlation, bankroll[s])
    BY <2>5, <2>6, <2>7
  <2> QED
    BY <2>8 DEF event
<1> QED
  BY <1>1, InductiveInvariant, PTL DEF Spec, CapsHold

-----------------------------------------------------------------------------
(* The mark of an order on the book it was bought on. *)

\* A strategy gives at most one signal on a market, and none without a spread.
LEMMA SignalNeedsSpread ==
  ASSUME DataTypeOK, NEW s \in StrategyNames, NEW t \in Tickers,
         NEW signal \in Signals(s, t)
  PROVE  /\ Signals(s, t) = {signal}
         /\ IsPresent(Spread(t))
<1>1. FeaturesOf(t).spread = Spread(t)
  BY DEF FeaturesOf
<1>2. CASE s = "weather_ensemble_disagreement"
  BY <1>1, <1>2 DEF Signals, EnsembleDisagreement, Signal
<1>3. CASE s # "weather_ensemble_disagreement"
  BY <1>1, <1>3 DEF Signals, StaleQuote, Signal
<1> QED
  BY <1>2, <1>3

\* What is not positive, times a quantity, rounds to nothing positive.
LEMMA LossRounds ==
  ASSUME NEW loss \in Int, loss <= 0, NEW qty \in Nat
  PROVE  HalfUp(loss * qty) <= 0
<1> DEFINE x == loss * qty
<1>1. x \in Int /\ x <= 0
  OBVIOUS
<1> HIDE DEF x
<1>2. HalfUp(x) <= 0
  <2>1. CASE x = 0
    BY <2>1 DEF HalfUp
  <2>2. CASE x < 0
    <3>1. (1 - x) \div 2 >= 0
      BY <1>1, <2>2
    <3> QED
      BY <1>1, <2>2, <3>1 DEF HalfUp
  <2> QED
    BY <1>1, <2>1, <2>2
<1> QED
  BY <1>2 DEF x

\* No position is opened at a profit: only books with both sides and without a
\* crossing give a signal, and the mark of such a book is worth no more than the
\* price that is paid (KalshiSpreadProvider, _unrealized_pnl_cents).
THEOREM OrdersOpenAtNoProfit == Spec => OpensAtNoProfit
<1> DEFINE NoProfit ==
      \A s \in StrategyNames, t \in Tickers :
          Buys(s, t) =>
             \A signal \in Signals(s, t) :
                \A mark \in Marks(s, t, Order(s, t, signal, bankroll[s])) : mark <= 0
<1>1. IInv /\ [Next]_vars => [NoProfit]_vars
  <2> SUFFICES ASSUME IInv, [Next]_vars,
                      NEW s \in StrategyNames, NEW t \in Tickers, Buys(s, t),
                      NEW signal \in Signals(s, t),
                      NEW mark \in Marks(s, t, Order(s, t, signal, bankroll[s]))
               PROVE  mark <= 0
    OBVIOUS
  <2> DEFINE order == Order(s, t, signal, bankroll[s])
  <2>1. TypeOK /\ DataTypeOK /\ RollbackLoses
    BY DEF IInv, TypeOK
  <2>2. Accepts(s, t, signal, CashOf(s, t))
    <3>1. PICK accepted \in Signals(s, t) : Accepts(s, t, accepted, CashOf(s, t))
      BY <2>1, BuyingIsSizing
    <3>2. accepted = signal
      BY <2>1, <3>1, SignalNeedsSpread
    <3> QED
      BY <3>1, <3>2
  <2>3. order.qty \in Nat /\ order.side = signal.side /\ order.price = EntryPrice(signal.side, t)
    <3>1. order.qty \in Nat \ {0}
      BY <2>1, <2>2, AcceptedNumbers
    <3> QED
      BY <3>1 DEF Order
  <2>4. /\ market[t].bid \in Int /\ market[t].ask \in Int
        /\ market[t].bid # NoPrice /\ market[t].ask >= market[t].bid
    <3>1. IsPresent(Spread(t))
      BY <2>1, SignalNeedsSpread
    <3>2. market[t].bid \in Int /\ market[t].ask \in Int
      BY <2>1 DEF DataTypeOK, Market
    <3> QED
      BY <3>1, <3>2 DEF Spread, Missing, IsPresent
  <2>5. Mid(t) \in Int /\ market[t].bid <= Mid(t) /\ Mid(t) <= market[t].ask
    BY <2>4 DEF Mid
  <2> DEFINE loss == MarkPrice(order.side, t) - order.price
  <2>6. loss \in Int /\ loss <= 0
    BY <2>3, <2>4, <2>5 DEF MarkPrice, EntryPrice, Dollar
  <2>7. mark = HalfUp(loss * order.qty)
    BY DEF Marks
  <2> HIDE DEF order, loss
  <2> QED
    BY <2>3, <2>6, <2>7, LossRounds
<1> QED
  BY <1>1, InductiveInvariant, PTL DEF Spec, OpensAtNoProfit
=============================================================================
