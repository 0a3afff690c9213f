------------------------------ MODULE MarketData ------------------------------
(***************************************************************************)
(* The shared rows the engine tick trades on, as the ingestion leaves them *)
(* (core/sources), and what the tick derives from them: the tradable       *)
(* markets (core/features/queries.py, core/engine/markets.py) and the      *)
(* features of each (core/features/*/provider.py).                         *)
(*                                                                         *)
(* Prices are in half-cents and temperatures in half-degrees, so that a    *)
(* sub-cent quote and the mean of two models are whole numbers.  The       *)
(* members of an ensemble are represented by their mean.  Rows carry the   *)
(* clock's time of their ingestion, so the newest row of a kind is the     *)
(* latest one as of now, and only that one is kept.                        *)
(***************************************************************************)
EXTENDS Integers, FiniteSets

CONSTANTS
    Tickers,      \* markets
    Locations,    \* ids of reference_location rows
    LocationOf,   \* location_for_series of each market's series, or NoLocation
    CloseTime,    \* close_time of each market, or Never
    Books,        \* orderbooks Kalshi can return: [bid, ask], NoPrice where empty
    Outlooks,     \* the hours a forecast covers and their temperatures
    MaxTime       \* bound on the clock

Models     == {"gfs", "ecmwf"}
Result     == {"yes", "no", "void"}
NoRow      == "no_row"
NoLocation == "no_location"
Never      == -1
NoPrice    == -1
Dollar     == 200

ASSUME DataAssumption ==
    /\ MaxTime \in Nat
    /\ LocationOf \in [Tickers -> Locations \cup {NoLocation}] /\ NoLocation \notin Locations
    /\ CloseTime \in [Tickers -> Nat \cup {Never}]
    /\ \A b \in Books : /\ b \in [bid : 0..Dollar \cup {NoPrice}, ask : 0..Dollar \cup {NoPrice}]
                        /\ (b.bid # NoPrice /\ b.ask # NoPrice) => (b.bid + b.ask) % 2 = 0
    /\ \A o \in Outlooks : /\ DOMAIN o \subseteq Nat /\ IsFiniteSet(DOMAIN o)
                           /\ \A hour \in DOMAIN o : o[hour] \in Int /\ o[hour] % 2 = 0

VARIABLES
    now,          \* the clock
    open,         \* external: the markets still open on the exchange
    market,       \* reference_market rows with their newest raw_market_snapshot
    forecast,     \* the newest raw_forecast_run of each model and location
    resolution    \* contract_resolution rows

data == <<now, open, market, forecast, resolution>>

-----------------------------------------------------------------------------
Time == Nat \cup {Never}

Market == [listed : BOOLEAN, asOf : Time, bid : Int, ask : Int]
Unlisted == [listed |-> FALSE, asOf |-> Never, bid |-> NoPrice, ask |-> NoPrice]

Run == [at : Time, hours : Outlooks \cup {<<>>}]
NoRun == [at |-> Never, hours |-> <<>>]

DataTypeOK ==
    /\ now \in 0..MaxTime
    /\ open \in SUBSET Tickers
    /\ market \in [Tickers -> Market]
    /\ forecast \in [Locations -> [Models -> Run]]
    /\ resolution \in [Tickers -> Result \cup {NoRow}]

DataInit ==
    /\ now = 0
    /\ open = Tickers
    /\ market = [t \in Tickers |-> Unlisted]
    /\ forecast = [l \in Locations |-> [m \in Models |-> NoRun]]
    /\ resolution = [t \in Tickers |-> NoRow]

-----------------------------------------------------------------------------
(* The sources.  Each may bring nothing, when the provider fails. *)

\* KalshiMarketsSource: discovery lists the open markets, and the orderbooks that
\* answer give snapshots.  A row already listed is not touched when it is not
\* discovered any more.
IngestMarkets ==
    /\ \/ \E answered \in SUBSET open : \E books \in [answered -> Books] :
             market' = [t \in Tickers |->
                IF t \in answered
                THEN [listed |-> TRUE, asOf |-> now, bid |-> books[t].bid, ask |-> books[t].ask]
                ELSE [market[t] EXCEPT !.listed = @ \/ t \in open]]
       \/ market' = market
    /\ UNCHANGED <<now, open, forecast, resolution>>

\* OpenMeteoSource: all locations and models or none, but a model whose payload
\* holds no hours leaves its earlier run the newest.
IngestForecasts ==
    /\ \E runs \in [Locations -> [Models -> Outlooks \cup {<<>>}]] :
          forecast' = [l \in Locations |-> [m \in Models |->
             IF runs[l][m] = <<>> THEN forecast[l][m] ELSE [at |-> now, hours |-> runs[l][m]]]]
    /\ UNCHANGED <<now, open, market, resolution>>

\* KalshiResolutionSource: listed markets without a result that have settled.
IngestResolutions ==
    /\ \E answered \in SUBSET {t \in Tickers \ open : market[t].listed /\ resolution[t] = NoRow} :
          \E results \in [answered -> Result] :
             resolution' = [t \in Tickers |-> IF t \in answered THEN results[t] ELSE resolution[t]]
    /\ UNCHANGED <<now, open, market, forecast>>

\* External: a market stops trading, at its close time or before it.
StopsTrading(t) ==
    /\ t \in open
    /\ open' = open \ {t}
    /\ UNCHANGED <<now, market, forecast, resolution>>

\* The clock, between cycles; a market past its close time trades no more.
Tick ==
    /\ now < MaxTime
    /\ now' = now + 1
    /\ open' = {t \in open : CloseTime[t] = Never \/ CloseTime[t] > now'}
    /\ UNCHANGED <<market, forecast, resolution>>

-----------------------------------------------------------------------------
(* Feature values. *)

Present(asOf, value) == [status |-> "present", asOf |-> asOf, value |-> value]
Missing == [status |-> "missing", asOf |-> Never, value |-> 0]
Absent  == [status |-> "absent", asOf |-> Never, value |-> 0]    \* no such key

IsPresent(f) == f.status = "present"

\* list_open_markets.
Tradable(t) == market[t].listed /\ (CloseTime[t] = Never \/ CloseTime[t] > now)

\* Mutant: a crossed book gives a spread.
AnySpread(t) ==
    IF market[t].bid = NoPrice \/ market[t].ask = NoPrice THEN Missing
    ELSE Present(market[t].asOf, market[t].ask - market[t].bid)

\* KalshiSpreadProvider: missing without a snapshot, with an empty side, crossed.
Spread(t) ==
    IF market[t].bid = NoPrice \/ market[t].ask = NoPrice \/ market[t].ask < market[t].bid
    THEN Missing
    ELSE Present(market[t].asOf, market[t].ask - market[t].bid)

\* The latest hour of the run that has begun, if there is one.
TargetHour(hours) == {h \in DOMAIN hours : h <= now /\ \A g \in DOMAIN hours : g <= now => g <= h}

\* EnsembleMeanTempProvider, for one model of a location.
ModelMean(l, m) ==
    LET run == forecast[l][m]
    IN  IF TargetHour(run.hours) = {} THEN Missing
        ELSE Present(run.at, run.hours[CHOOSE h \in TargetHour(run.hours) : TRUE])

Later(x, y) == IF x > y THEN x ELSE y

Distance(x, y) == IF x > y THEN x - y ELSE y - x

\* ForecastDisagreementProvider.
Disagreement(l) ==
    LET gfs == ModelMean(l, "gfs")
        ecmwf == ModelMean(l, "ecmwf")
    IN  IF IsPresent(gfs) /\ IsPresent(ecmwf)
        THEN Present(Later(gfs.asOf, ecmwf.asOf), Distance(gfs.value, ecmwf.value))
        ELSE Missing

\* _aggregate_location_parts: the mean of the models that are present, as of the
\* newest of them; no key at all when none is.
MeanTemp(l) ==
    LET gfs == ModelMean(l, "gfs")
        ecmwf == ModelMean(l, "ecmwf")
    IN  IF IsPresent(gfs) /\ IsPresent(ecmwf)
        THEN Present(Later(gfs.asOf, ecmwf.asOf), (gfs.value + ecmwf.value) \div 2)
        ELSE IF IsPresent(gfs) THEN gfs ELSE IF IsPresent(ecmwf) THEN ecmwf ELSE Absent

\* features_for_market.
FeaturesOf(t) ==
    IF LocationOf[t] = NoLocation
    THEN [mean |-> Absent, disagreement |-> Absent, spread |-> Spread(t)]
    ELSE [mean |-> MeanTemp(LocationOf[t]), disagreement |-> Disagreement(LocationOf[t]),
          spread |-> Spread(t)]

\* build_market_states.
Markets == {t \in Tickers : Tradable(t) /\ market[t].asOf # Never}

Mid(t) == (market[t].bid + market[t].ask) \div 2
=============================================================================
