----------------------------- MODULE EngineCycle -----------------------------
(***************************************************************************)
(* The scheduler's cycles (core/scheduler.py) of the environments that     *)
(* share one database (docs/PDD.md 3.2 and 9.1: one process each, with its *)
(* own per-environment database).  A cycle ingests every enabled source in *)
(* turn, then runs the engine tick and the resolution tick.  What LedgerTx *)
(* says of the ticks' money is left out: here a position is open or        *)
(* settled, and what matters is which stage of a cycle runs, what it       *)
(* leaves in the shared database for the others, and what is reported.     *)
(*                                                                         *)
(* A step ends where another process, a route or a crash can come between: *)
(* at an await, a query of shared rows or a commit.  Anything that can     *)
(* raise may raise: each such failure, and each crash, is a fault.         *)
(***************************************************************************)
EXTENDS Integers, Sequences

CONSTANTS
    Envs,               \* environments, one scheduler process each
    Sources,            \* names of the enabled sources, in registry order
    MarketSource,       \* the source that discovers markets
    ResolutionSource,   \* the source that fetches results
    Tickers,            \* markets of the exchange
    Result,             \* what a market can settle to
    FailureThreshold,   \* source_failure_threshold
    OperatedEnvs,       \* environments whose kill switch is used
    MaxFaults           \* bound on the faults of each environment

NoRow == "no_row"

SourceNames == {Sources[i] : i \in 1..Len(Sources)}

ASSUME CycleAssumption ==
    /\ Sources \in Seq(STRING) /\ Len(Sources) > 0
    /\ \A i, j \in 1..Len(Sources) : Sources[i] = Sources[j] => i = j
    /\ FailureThreshold \in Nat \ {0}
    /\ MaxFaults \in [Envs -> Nat]
    /\ OperatedEnvs \subseteq Envs

VARIABLES
    exchange,     \* external: what Kalshi reports of each market
    market,       \* shared: reference_market rows, quoted once a snapshot exists
    resolution,   \* shared: contract_resolution rows
    sourceRun,    \* shared: status of the last source_run row each process wrote
    system,       \* per environment: the kill switch
    position,     \* per environment: the position on each market
    proc,         \* the scheduler's progress through its cycle
    health,       \* SourceHealthTracker, in memory
    cycle,        \* CycleHealth, in memory
    signals,      \* history: the signals of the engine tick, until its cycle ends
    faults        \* faults of each environment so far

shared == <<market, resolution, sourceRun>>
vars == <<exchange, shared, system, position, proc, health, cycle, signals, faults>>

-----------------------------------------------------------------------------
Status     == {"ok", "degraded", "error"}
Stage      == {"down", "sleeping", "load", "fetch", "persist", "flush", "failed",
               "engine", "resolve"}
Drafts     == UNION {[D -> Result] : D \in SUBSET Tickers}     \* result.resolutions
NoDrafts   == [t \in {} |-> NoRow]

FetchResult == [ status : Status, upserts : SUBSET Tickers, snapshots : SUBSET Tickers,
                 resolutions : Drafts ]
NoResult    == [status |-> "ok", upserts |-> {}, snapshots |-> {}, resolutions |-> NoDrafts]

Process ==
    [ stage : Stage,
      i : 1..Len(Sources),              \* the source being ingested
      failed : SUBSET SourceNames,      \* failed_sources
      candidates : SUBSET Tickers,      \* markets less resolved tickers, as loaded
      result : FetchResult,
      inserts : SUBSET Tickers,         \* market rows that session.get did not find
      drafts : SUBSET Tickers ]         \* resolution rows that it did not find

Position == [status : {NoRow, "open", "resolved"}, by : Result \cup {NoRow}]

Health == [status : Status, failures : Nat]

TypeOK ==
    /\ exchange \in [Tickers -> Result \cup {"trading"}]
    /\ market \in [Tickers -> {NoRow, "listed", "quoted"}]
    /\ resolution \in [Tickers -> Result \cup {NoRow}]
    /\ sourceRun \in [Envs -> [SourceNames -> Status \cup {NoRow}]]
    /\ system \in [Envs -> {"active", "paused"}]
    /\ position \in [Envs -> [Tickers -> Position]]
    /\ proc \in [Envs -> Process]
    /\ health \in [Envs -> [SourceNames -> Health]]
    /\ cycle \in [Envs -> [error : BOOLEAN, succeeded : BOOLEAN]]
    /\ signals \in [Envs -> [emitted : SUBSET Tickers, recorded : SUBSET Tickers]]
    /\ faults \in [Envs -> Nat] /\ \A e \in Envs : faults[e] <= MaxFaults[e]

\* The markets with a row; those with a snapshot too.
Known == {t \in Tickers : market[t] # NoRow}
Quoted == {t \in Tickers : market[t] = "quoted"}

Resting(stage) ==
    [ stage |-> stage, i |-> 1, failed |-> {}, candidates |-> {}, result |-> NoResult,
      inserts |-> {}, drafts |-> {} ]

NewHealth == [status |-> "ok", failures |-> 0]

NoSignals == [emitted |-> {}, recorded |-> {}]

NewCycle == [error |-> FALSE, succeeded |-> FALSE]

\* CycleHealth.status
CycleStatus(c) == IF c.error THEN "error" ELSE IF ~c.succeeded THEN "pending" ELSE "ok"

Current(e) == Sources[proc[e].i]

Fault(e) == faults[e] < MaxFaults[e] /\ faults' = [faults EXCEPT ![e] = @ + 1]

NoFault == faults' = faults

-----------------------------------------------------------------------------
(* SourceHealthTracker. *)

FailedHealth(h) ==
    [ failures |-> h.failures + 1,
      status |-> IF h.failures + 1 >= FailureThreshold THEN "degraded" ELSE "error" ]

SucceededHealth(h, status) ==
    IF status = "error" THEN FailedHealth(h) ELSE [failures |-> 0, status |-> status]

(* The cycle. *)

\* Mutant: a source that raised is not counted.
NoneFailed(e) == proc[e].failed

FailedWith(e) == proc[e].failed \cup {Current(e)}

\* Mutant: one source more than there are.
PastLast(e) == proc[e].i > Len(Sources)

IsLast(e) == proc[e].i = Len(Sources)

\* The ingest of the current source is over: the next one, the engine tick, or
\* the end of a cycle in which a source failed.
EndIngest(e, failed) ==
    IF ~IsLast(e)
    THEN /\ proc' = [proc EXCEPT ![e] = [Resting("load") EXCEPT !.i = proc[e].i + 1,
                                                                 !.failed = failed]]
         /\ cycle' = cycle
    ELSE IF failed = {}
    THEN /\ proc' = [proc EXCEPT ![e] = Resting("engine")]
         /\ cycle' = cycle
    ELSE /\ proc' = [proc EXCEPT ![e] = Resting("sleeping")]
         /\ cycle' = [cycle EXCEPT ![e].error = TRUE]

\* An exception in the ticks: run_cycle marks the failure and the loop goes on.
EndFailed(e) ==
    /\ proc' = [proc EXCEPT ![e] = Resting("sleeping")]
    /\ cycle' = [cycle EXCEPT ![e].error = TRUE]

GoTo(e, stage) == proc' = [proc EXCEPT ![e].stage = stage]

CycleBegin(e) ==
    /\ proc[e].stage = "sleeping"
    /\ proc' = [proc EXCEPT ![e] = Resting("load")]
    /\ signals' = [signals EXCEPT ![e] = NoSignals]
    /\ UNCHANGED <<exchange, shared, system, position, health, cycle, faults>>

\* Mutant: only markets that discovery would still list.
ListedCandidates == {t \in Known : resolution[t] = NoRow /\ exchange[t] = "trading"}

Candidates == {t \in Known : resolution[t] = NoRow}

\* Locations, markets and resolved tickers are read in a session of their own.
Load(e) ==
    /\ proc[e].stage = "load"
    /\ proc' = [proc EXCEPT ![e].stage = "fetch",
                            ![e].candidates = Candidates]
    /\ UNCHANGED <<exchange, shared, system, position, health, cycle, signals, faults>>

\* An exception before the fetch, in it, or while its result is persisted.
IngestRaises(e) ==
    /\ proc[e].stage \in {"load", "fetch", "persist", "flush"}
    /\ Fault(e)
    /\ GoTo(e, "failed")
    /\ UNCHANGED <<exchange, shared, system, position, health, cycle, signals>>

-----------------------------------------------------------------------------
(* The sources. *)

Fetched(e, result) ==
    /\ proc' = [proc EXCEPT ![e].stage = "persist", ![e].result = result]
    /\ UNCHANGED <<exchange, shared, system, position, health, cycle, signals>>

\* KalshiMarketsSource: discovery lists the markets still trading, and each one's
\* orderbook gives a snapshot.  Without any of them the run is degraded; a discovery
\* that fails brings nothing, an orderbook that fails is skipped.
FetchMarkets(e) ==
    LET trading == {t \in Tickers : exchange[t] = "trading"}
    IN  /\ proc[e].stage = "fetch" /\ Current(e) = MarketSource
        /\ \/ \E snapshots \in SUBSET trading :
                 /\ IF snapshots = trading THEN NoFault ELSE Fault(e)
                 /\ Fetched(e, [NoResult EXCEPT
                                  !.upserts = trading, !.snapshots = snapshots,
                                  !.status = IF snapshots = {} THEN "degraded" ELSE "ok"])
           \/ Fault(e) /\ Fetched(e, [NoResult EXCEPT !.status = "degraded"])

\* KalshiResolutionSource: every candidate is asked for; those that answer and
\* are settled give a draft.
FetchResolutions(e) ==
    LET candidates == proc[e].candidates
    IN  /\ proc[e].stage = "fetch" /\ Current(e) = ResolutionSource
        /\ \E answered \in SUBSET candidates :
              /\ IF answered = candidates THEN NoFault ELSE Fault(e)
              /\ Fetched(e,
                    [NoResult EXCEPT
                       !.status = IF answered = candidates THEN "ok" ELSE "degraded",
                       !.resolutions = [t \in {u \in answered : exchange[u] # "trading"} |->
                                           exchange[t]]])

\* OpenMeteoSource writes forecasts only.
FetchForecasts(e) ==
    /\ proc[e].stage = "fetch" /\ Current(e) \notin {MarketSource, ResolutionSource}
    /\ \/ NoFault /\ Fetched(e, NoResult)
       \/ Fault(e) /\ Fetched(e, [NoResult EXCEPT !.status = "degraded"])

-----------------------------------------------------------------------------
(* persist_fetch_result: session.get looks each row up, and what it does not *)
(* find is inserted by the flush or the commit.                              *)

PersistCheck(e) ==
    /\ proc[e].stage = "persist"
    /\ proc' = [proc EXCEPT
                   ![e].stage = "flush",
                   ![e].inserts = proc[e].result.upserts \ Known,
                   ![e].drafts = {t \in DOMAIN proc[e].result.resolutions : resolution[t] = NoRow}]
    /\ UNCHANGED <<exchange, shared, system, position, health, cycle, signals, faults>>

\* Mutant: rows are merged, not inserted.
NoConflict(e) == {}

\* Rows that the other environment inserted since: their primary keys are taken.
Conflicting(e) == (proc[e].inserts \cap Known) \cup {t \in proc[e].drafts : resolution[t] # NoRow}

PersistCommit(e) ==
    LET result == proc[e].result
    IN  /\ proc[e].stage = "flush" /\ Conflicting(e) = {}
        /\ market' = [t \in Tickers |-> IF t \in result.snapshots THEN "quoted"
                                        ELSE IF t \in proc[e].inserts THEN "listed"
                                        ELSE market[t]]
        /\ resolution' = [t \in Tickers |-> IF t \in proc[e].drafts THEN result.resolutions[t]
                                                                   ELSE resolution[t]]
        /\ sourceRun' = [sourceRun EXCEPT ![e][Current(e)] = result.status]
        /\ health' = [health EXCEPT ![e][Current(e)] = SucceededHealth(@, result.status)]
        /\ EndIngest(e, IF result.status = "error" THEN FailedWith(e) ELSE proc[e].failed)
        /\ UNCHANGED <<exchange, system, position, signals, faults>>

\* IntegrityError: the whole fetch is rolled back.
PersistConflict(e) ==
    /\ proc[e].stage = "flush" /\ Conflicting(e) # {}
    /\ GoTo(e, "failed")
    /\ UNCHANGED <<exchange, shared, system, position, health, cycle, signals, faults>>

\* The except branch of _ingest_source: the error run may fail to persist as well.
RecordFailure(e) ==
    /\ proc[e].stage = "failed"
    /\ health' = [health EXCEPT ![e][Current(e)] = FailedHealth(@)]
    /\ \/ NoFault /\ sourceRun' = [sourceRun EXCEPT ![e][Current(e)] = "error"]
       \/ Fault(e) /\ sourceRun' = sourceRun
    /\ EndIngest(e, FailedWith(e))
    /\ UNCHANGED <<exchange, market, resolution, system, position, signals>>

-----------------------------------------------------------------------------
(* The ticks. *)

Opened(e, orders) ==
    [position EXCEPT ![e] = [t \in Tickers |-> IF t \in orders THEN [status |-> "open", by |-> NoRow]
                                                              ELSE position[e][t]]]

\* build_market_states takes any market with a snapshot, of whatever age; each may
\* give a signal, and any signal an order.
\* While the system is paused recording the first signal raises LedgerError.
EngineTick(e) ==
    \E emits \in SUBSET Quoted : \E orders \in SUBSET emits :
        /\ proc[e].stage = "engine"
        /\ system[e] = "paused" => orders = {}
        /\ IF system[e] = "paused" /\ emits # {}
           THEN /\ signals' = [signals EXCEPT ![e] = [emitted |-> emits, recorded |-> {}]]
                /\ EndFailed(e)
                /\ position' = position
           ELSE /\ signals' = [signals EXCEPT ![e] = [emitted |-> emits, recorded |-> emits]]
                /\ position' = Opened(e, orders)
                /\ GoTo(e, "resolve")
                /\ cycle' = cycle
        /\ UNCHANGED <<exchange, shared, system, health, faults>>

\* The tick raises: before its first commit, or between its two commits, when the
\* orders are in the environment's database.
EngineFails(e) ==
    /\ proc[e].stage = "engine"
    /\ Fault(e)
    /\ \/ position' = position
       \/ system[e] = "active" /\ \E orders \in SUBSET Quoted : position' = Opened(e, orders)
    /\ EndFailed(e)
    /\ UNCHANGED <<exchange, shared, system, health, signals>>

\* Mutant: an earlier error is kept.
MarkedRan(c) == [c EXCEPT !.succeeded = TRUE]

MarkedSuccess(c) == [error |-> FALSE, succeeded |-> TRUE]

ResolutionTick(e) ==
    /\ proc[e].stage = "resolve"
    /\ position' = [position EXCEPT ![e] =
          [t \in Tickers |-> IF position[e][t].status = "open" /\ resolution[t] # NoRow
                             THEN [status |-> "resolved", by |-> resolution[t]]
                             ELSE position[e][t]]]
    /\ cycle' = [cycle EXCEPT ![e] = MarkedSuccess(@)]
    /\ proc' = [proc EXCEPT ![e] = Resting("sleeping")]
    /\ signals' = [signals EXCEPT ![e] = NoSignals]
    /\ UNCHANGED <<exchange, shared, system, health, faults>>

ResolutionFails(e) ==
    /\ proc[e].stage = "resolve"
    /\ Fault(e)
    /\ signals' = [signals EXCEPT ![e] = NoSignals]
    /\ EndFailed(e)
    /\ UNCHANGED <<exchange, shared, system, position, health>>

-----------------------------------------------------------------------------
(* The process, the operator and the exchange. *)

\* A stop or a crash, at any point: what was committed stays, memory is lost.
Crash(e) ==
    /\ proc[e].stage # "down"
    /\ Fault(e)
    /\ proc' = [proc EXCEPT ![e] = Resting("down")]
    /\ health' = [health EXCEPT ![e] = [s \in SourceNames |-> NewHealth]]
    /\ cycle' = [cycle EXCEPT ![e] = NewCycle]
    /\ signals' = [signals EXCEPT ![e] = NoSignals]
    /\ UNCHANGED <<exchange, shared, system, position>>

Start(e) ==
    /\ proc[e].stage = "down"
    /\ GoTo(e, "sleeping")
    /\ UNCHANGED <<exchange, shared, system, position, health, cycle, signals, faults>>

FlipSystem(e) ==
    /\ e \in OperatedEnvs
    /\ system' = [system EXCEPT ![e] = IF @ = "active" THEN "paused" ELSE "active"]
    /\ UNCHANGED <<exchange, shared, position, proc, health, cycle, signals, faults>>

\* A market settles; a settlement already reported may be corrected.
Settle(t) ==
    \E result \in Result \ {exchange[t]} :
        /\ exchange' = [exchange EXCEPT ![t] = result]
        /\ UNCHANGED <<shared, system, position, proc, health, cycle, signals, faults>>

Init ==
    /\ exchange = [t \in Tickers |-> "trading"]
    /\ market = [t \in Tickers |-> NoRow]
    /\ resolution = [t \in Tickers |-> NoRow]
    /\ sourceRun = [e \in Envs |-> [s \in SourceNames |-> NoRow]]
    /\ system = [e \in Envs |-> "active"]
    /\ position = [e \in Envs |-> [t \in Tickers |-> [status |-> NoRow, by |-> NoRow]]]
    /\ proc = [e \in Envs |-> Resting("down")]
    /\ health = [e \in Envs |-> [s \in SourceNames |-> NewHealth]]
    /\ cycle = [e \in Envs |-> NewCycle]
    /\ signals = [e \in Envs |-> NoSignals]
    /\ faults = [e \in Envs |-> 0]

Step(e) ==
    \/ CycleBegin(e) \/ Load(e)
    \/ FetchMarkets(e) \/ FetchResolutions(e) \/ FetchForecasts(e)
    \/ PersistCheck(e) \/ PersistCommit(e) \/ PersistConflict(e) \/ RecordFailure(e)
    \/ EngineTick(e) \/ ResolutionTick(e)

Next ==
    \/ \E e \in Envs : \/ Step(e)
                       \/ IngestRaises(e) \/ EngineFails(e) \/ ResolutionFails(e)
                       \/ Crash(e) \/ Start(e) \/ FlipSystem(e)
    \/ \E t \in Tickers : Settle(t)

Spec == Init /\ [][Next]_vars

\* The event loop of a running process goes on; nothing else has to happen.
FairSpec == Spec /\ \A e \in Envs : WF_vars(NoFault /\ Step(e))

-----------------------------------------------------------------------------
(* Properties. *)

\* Two environments that held a position on one market settle it by the same
\* result, though each fetches results by itself and Kalshi may correct one in
\* between: the first contract_resolution row stays (persist_fetch_result).
SettledAlike ==
    \A e, f \in Envs, t \in Tickers :
        (position[e][t].status = "resolved" /\ position[f][t].status = "resolved")
            => position[e][t].by = position[f][t].by

\* Between cycles a scheduler that reports ok (CycleHealth, /healthz) has not one
\* source whose last run was an error, by its own tracker or by the source_run log.
OkMeansSourcesOk ==
    \A e \in Envs, s \in SourceNames :
        (proc[e].stage = "sleeping" /\ CycleStatus(cycle[e]) = "ok")
            => health[e][s].failures = 0 /\ sourceRun[e][s] \in {"ok", "degraded"}

Undisturbed(e) == proc[e].stage # "down" /\ system[e] = "active"

\* A scheduler that stays up, its system active, settles every open position on a
\* settled market: no failure of a source, a tick or the other environment's
\* inserts leaves it out for good (run_cycle, load_resolved_tickers).
PositionsSettle ==
    \A e \in Envs, t \in Tickers :
        <>[]Undisturbed(e) =>
            ((exchange[t] \in Result /\ position[e][t].status = "open")
                ~> position[e][t].status = "resolved")

\* Once the faults end, such a scheduler comes to report ok and stays so.
CycleRecovers ==
    \A e \in Envs : <>[]Undisturbed(e) => <>[](CycleStatus(cycle[e]) = "ok")

\* docs/PDD.md:208: every evaluation that produces a signal is recorded, also one
\* that is rejected because the system is paused.
SignalsAreRecorded ==
    \A e \in Envs : signals[e].recorded = signals[e].emitted

\* docs/PDD.md:390: while a source is degraded, the strategies that depend on it
\* emit nothing.
DegradedSourceSilences ==
    \A e \in Envs :
        (proc[e].stage = "resolve" /\ health[e][MarketSource].status = "degraded")
            => signals[e].emitted = {}
=============================================================================
