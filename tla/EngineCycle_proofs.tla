-------------------------- MODULE EngineCycle_proofs --------------------------
(***************************************************************************)
(* The safety of the cycle for any environments, sources, markets, faults  *)
(* and failure threshold.                                                  *)
(*                                                                         *)
(* Neither OkMeansSourcesOk nor SettledAlike is inductive.  The first is   *)
(* about the end of a cycle, and needs to know, while a cycle runs, of     *)
(* which sources it has seen a good run.  The second compares two          *)
(* environments, which never look at each other: both agree with the       *)
(* shared row, and the row does not change.                                *)
(***************************************************************************)
EXTENDS EngineCycle, TLAPS

\* Results are inserted only for markets that the fetch brought one of, and
\* looked up only after it.
DraftsFetched ==
    \A e \in Envs :
        /\ proc[e].stage \in {"load", "fetch", "persist"} => proc[e].drafts = {}
        /\ proc[e].drafts \subseteq DOMAIN proc[e].result.resolutions

\* The last run of source s in environment e was no error, by both accounts.
Good(e, s) == health[e][s].failures = 0 /\ sourceRun[e][s] \in {"ok", "degraded"}

AllGood(e) == \A s \in SourceNames : Good(e, s)

Ingesting(e) == proc[e].stage \in {"load", "fetch", "persist", "flush", "failed"}

\* The sources of this cycle that are done, but for those in failed_sources.
IngestedGood(e) ==
    \A j \in 1..Len(Sources) :
        (j < proc[e].i /\ Sources[j] \notin proc[e].failed) => Good(e, Sources[j])

ReportsOk(e) == proc[e].stage = "sleeping" /\ CycleStatus(cycle[e]) = "ok"

\* What the runs of the sources allow at each stage of a cycle.
ProgressGood(e) ==
    /\ Ingesting(e) => IngestedGood(e)
    /\ proc[e].stage \in {"engine", "resolve"} \/ ReportsOk(e) => AllGood(e)
    /\ proc[e].stage = "down" => ~cycle[e].succeeded

\* A position is settled by the result in the shared table.
SettledByRow ==
    \A e \in Envs, t \in Tickers :
        position[e][t].status = "resolved" =>
            resolution[t] # NoRow /\ position[e][t].by = resolution[t]

IInv ==
    /\ TypeOK
    /\ DraftsFetched
    /\ \A e \in Envs : ProgressGood(e)
    /\ SettledByRow

-----------------------------------------------------------------------------
(* Values. *)

\* The sources are in the registry's order, each once.
LEMMA SourceOrder ==
  /\ Len(Sources) \in Nat \ {0}
  /\ \A i \in 1..Len(Sources) : Sources[i] \in SourceNames
  /\ \A s \in SourceNames : \E i \in 1..Len(Sources) : s = Sources[i]
  /\ \A i, j \in 1..Len(Sources) : Sources[i] = Sources[j] => i = j
<1>1. Len(Sources) \in Nat \ {0}
  BY CycleAssumption
<1> QED
  BY <1>1, CycleAssumption DEF SourceNames

\* Nothing fetched is a fetch result, and brings no resolution.
LEMMA NoResultTyped ==
  /\ NoResult \in FetchResult
  /\ DOMAIN NoResult.resolutions = {}
  /\ NoDrafts \in Drafts
<1>1. NoDrafts \in [{} -> Result]
  BY DEF NoDrafts
<1>2. NoDrafts \in Drafts
  BY <1>1 DEF Drafts
<1> QED
  BY <1>2 DEF NoResult, FetchResult, Status, NoDrafts

\* A process that has just entered a stage.
LEMMA RestingTyped ==
  ASSUME NEW stage \in Stage
  PROVE  /\ Resting(stage) \in Process
         /\ Resting(stage).stage = stage /\ Resting(stage).i = 1
         /\ Resting(stage).failed = {} /\ Resting(stage).drafts = {}
         /\ DOMAIN Resting(stage).result.resolutions = {}
  BY NoResultTyped, SourceOrder DEF Resting, Process

\* The health of a source after a failed run is not good, after another one it is.
LEMMA HealthTyped ==
  ASSUME NEW h \in Health, NEW status \in Status
  PROVE  /\ FailedHealth(h) \in Health
         /\ SucceededHealth(h, status) \in Health
         /\ status # "error" => SucceededHealth(h, status).failures = 0
  BY DEF Health, FailedHealth, SucceededHealth, Status

-----------------------------------------------------------------------------
(* Steps. *)

\* What writing the progress of one process leaves of the others.
LEMMA ProcWritten ==
  ASSUME TypeOK, NEW e \in Envs, NEW p \in Process, proc' = [proc EXCEPT ![e] = p]
  PROVE  /\ proc' \in [Envs -> Process]
         /\ proc'[e] = p
         /\ \A f \in Envs \ {e} : proc'[f] = proc[f]
  BY DEF TypeOK

\* The process of environment e may change its own stage, health and report.
OnlyOf(e) ==
    \A f \in Envs \ {e} :
        /\ proc'[f] = proc[f] /\ cycle'[f] = cycle[f]
        /\ health'[f] = health[f] /\ sourceRun'[f] = sourceRun[f]

\* A step of one environment keeps what is known of the progress of the others.
LEMMA OthersProgress ==
  ASSUME NEW e \in Envs, OnlyOf(e), \A f \in Envs : ProgressGood(f), ProgressGood(e)'
  PROVE  \A f \in Envs : ProgressGood(f)'
<1> SUFFICES ASSUME NEW f \in Envs \ {e} PROVE ProgressGood(f)'
  OBVIOUS
<1>1. /\ proc'[f] = proc[f] /\ cycle'[f] = cycle[f]
      /\ health'[f] = health[f] /\ sourceRun'[f] = sourceRun[f]
  BY DEF OnlyOf
<1>2. ProgressGood(f)
  OBVIOUS
<1> QED
  BY <1>1, <1>2 DEF ProgressGood, Ingesting, IngestedGood, ReportsOk, AllGood, Good, CycleStatus

\* A cycle that ends in error.
LEMMA EndFailedProgress ==
  ASSUME TypeOK, NEW e \in Envs, EndFailed(e)
  PROVE  /\ ProgressGood(e)'
         /\ proc' \in [Envs -> Process]
         /\ proc'[e] = Resting("sleeping") /\ proc'[e].drafts = {}
         /\ cycle' \in [Envs -> [error : BOOLEAN, succeeded : BOOLEAN]]
         /\ \A f \in Envs \ {e} : proc'[f] = proc[f] /\ cycle'[f] = cycle[f]
<1>1. cycle \in [Envs -> [error : BOOLEAN, succeeded : BOOLEAN]]
  BY DEF TypeOK
<1>2. /\ proc' = [proc EXCEPT ![e] = Resting("sleeping")]
      /\ cycle' = [cycle EXCEPT ![e].error = TRUE]
  BY DEF EndFailed
<1>3. Resting("sleeping") \in Process /\ Resting("sleeping").stage = "sleeping"
      /\ Resting("sleeping").drafts = {}
  BY RestingTyped DEF Stage
<1>4. /\ proc' \in [Envs -> Process] /\ proc'[e] = Resting("sleeping")
      /\ \A f \in Envs \ {e} : proc'[f] = proc[f]
  BY <1>2, <1>3, ProcWritten
<1>5. /\ cycle' \in [Envs -> [error : BOOLEAN, succeeded : BOOLEAN]]
      /\ cycle'[e].error = TRUE
      /\ \A f \in Envs \ {e} : cycle'[f] = cycle[f]
  BY <1>1, <1>2
<1>6. ProgressGood(e)'
  BY <1>3, <1>4, <1>5 DEF ProgressGood, Ingesting, ReportsOk, CycleStatus
<1> QED
  BY <1>3, <1>4, <1>5, <1>6

\* The end of an ingest, from what is good by then.
LEMMA EndIngestProgress ==
  ASSUME TypeOK, NEW e \in Envs, NEW failed \in SUBSET SourceNames,
         Ingesting(e), EndIngest(e, failed),
         \A j \in 1..Len(Sources) :
             (j <= proc[e].i /\ Sources[j] \notin failed) => Good(e, Sources[j])'
  PROVE  /\ ProgressGood(e)'
         /\ proc' \in [Envs -> Process]
         /\ proc'[e].drafts = {}
         /\ cycle' \in [Envs -> [error : BOOLEAN, succeeded : BOOLEAN]]
         /\ \A f \in Envs \ {e} : proc'[f] = proc[f] /\ cycle'[f] = cycle[f]
<1>1. /\ proc[e] \in Process /\ proc[e].i \in 1..Len(Sources)
      /\ cycle \in [Envs -> [error : BOOLEAN, succeeded : BOOLEAN]]
  BY DEF TypeOK, Process
<1>2. CASE ~IsLast(e)
  <2> DEFINE p == [Resting("load") EXCEPT !.i = proc[e].i + 1, !.failed = failed]
  <2>1. proc[e].i + 1 \in 1..Len(Sources)
    BY <1>1, <1>2, SourceOrder DEF IsLast
  <2>2. /\ p \in Process /\ p.stage = "load" /\ p.i = proc[e].i + 1 /\ p.failed = failed
        /\ p.drafts = {}
    <3>1. /\ Resting("load") \in Process /\ Resting("load").stage = "load"
          /\ Resting("load").drafts = {}
      BY RestingTyped DEF Stage
    <3> QED
      BY <2>1, <3>1 DEF Process
  <2>3. proc' = [proc EXCEPT ![e] = p] /\ cycle' = cycle
    BY <1>2 DEF EndIngest
  <2> HIDE DEF p
  <2>4. /\ proc' \in [Envs -> Process] /\ proc'[e] = p
        /\ \A f \in Envs \ {e} : proc'[f] = proc[f]
    BY <2>2, <2>3, ProcWritten
  <2>5. \A j \in 1..Len(Sources) : j < p.i => j <= proc[e].i
    BY <1>1, <2>2
  <2>6. ProgressGood(e)'
    BY <2>2, <2>4, <2>5 DEF ProgressGood, Ingesting, IngestedGood, ReportsOk
  <2> QED
    BY <1>1, <2>2, <2>3, <2>4, <2>6
<1>3. CASE IsLast(e) /\ failed = {}
  <2>1. proc' = [proc EXCEPT ![e] = Resting("engine")] /\ cycle' = cycle
    BY <1>3 DEF EndIngest
  <2>2. Resting("engine") \in Process /\ Resting("engine").stage = "engine"
        /\ Resting("engine").drafts = {}
    BY RestingTyped DEF Stage
  <2>3. /\ proc' \in [Envs -> Process] /\ proc'[e] = Resting("engine")
        /\ \A f \in Envs \ {e} : proc'[f] = proc[f]
    BY <2>1, <2>2, ProcWritten
  <2>4. AllGood(e)'
    BY <1>1, <1>3, SourceOrder DEF IsLast, AllGood
  <2>5. ProgressGood(e)'
    BY <2>2, <2>3, <2>4 DEF ProgressGood, Ingesting, ReportsOk
  <2> QED
    BY <1>1, <2>1, <2>2, <2>3, <2>5
<1>4. CASE IsLast(e) /\ failed # {}
  <2>1. EndFailed(e)
    BY <1>4 DEF EndIngest, EndFailed
  <2> QED
    BY <2>1, EndFailedProgress
<1> QED
  BY <1>2, <1>3, <1>4

\* A process that goes to another stage, its other fields kept.
LEMMA GoToTyped ==
  ASSUME TypeOK, NEW e \in Envs, NEW stage \in Stage, GoTo(e, stage)
  PROVE  /\ proc' \in [Envs -> Process]
         /\ proc'[e].stage = stage
         /\ proc'[e].i = proc[e].i /\ proc'[e].failed = proc[e].failed
         /\ proc'[e].result = proc[e].result /\ proc'[e].drafts = proc[e].drafts
         /\ \A f \in Envs \ {e} : proc'[f] = proc[f]
<1> DEFINE p == [proc[e] EXCEPT !.stage = stage]
<1>1. proc[e] \in Process
  BY DEF TypeOK
<1>2. /\ p \in Process /\ p.stage = stage
      /\ p.i = proc[e].i /\ p.failed = proc[e].failed
      /\ p.result = proc[e].result /\ p.drafts = proc[e].drafts
  BY <1>1 DEF Process
<1>3. proc' = [proc EXCEPT ![e] = p]
  BY DEF GoTo
<1> HIDE DEF p
<1> QED
  BY <1>2, <1>3, ProcWritten

\* Settlements stay as the shared rows have them when positions are left alone
\* and no row changes.
LEMMA SettledKept ==
  ASSUME SettledByRow, position' = position,
         \A t \in Tickers : resolution[t] # NoRow => resolution'[t] = resolution[t]
  PROVE  SettledByRow'
  BY DEF SettledByRow

\* Before its first source a cycle has nothing to show.
LEMMA FirstSource ==
  ASSUME NEW e \in Envs, proc'[e].stage = "load", proc'[e].i = 1
  PROVE  ProgressGood(e)'
<1>1. \A j \in 1..Len(Sources) : ~(j < proc'[e].i)
  BY SourceOrder
<1> QED
  BY <1>1 DEF ProgressGood, Ingesting, IngestedGood, ReportsOk

\* Within an ingest the sources that are done stay so.
LEMMA SameSource ==
  ASSUME NEW e \in Envs, ProgressGood(e), Ingesting(e), Ingesting(e)',
         proc'[e].i = proc[e].i, proc'[e].failed = proc[e].failed,
         health' = health, sourceRun' = sourceRun
  PROVE  ProgressGood(e)'
  BY DEF ProgressGood, Ingesting, IngestedGood, ReportsOk, Good

-----------------------------------------------------------------------------
(* Each action keeps the invariant. *)

\* No process runs, no position is open.
LEMMA InitInv == Init => IInv
<1> SUFFICES ASSUME Init PROVE IInv
  OBVIOUS
<1>1. Resting("down") \in Process /\ Resting("down").stage = "down"
      /\ Resting("down").drafts = {}
  BY RestingTyped DEF Stage
<1>2. TypeOK
  BY <1>1, CycleAssumption DEF Init, TypeOK, NewHealth, Health, Status, NewCycle, NoSignals, Position
<1>3. DraftsFetched
  BY <1>1 DEF Init, DraftsFetched
<1>4. \A e \in Envs : ProgressGood(e)
  BY <1>1 DEF Init, ProgressGood, Ingesting, ReportsOk, NewCycle
<1>5. SettledByRow
  BY DEF Init, SettledByRow, NoRow
<1> QED
  BY <1>2, <1>3, <1>4, <1>5 DEF IInv

\* A cycle starts with its first source.
LEMMA CycleBeginInv ==
  ASSUME IInv, NEW e \in Envs, CycleBegin(e)
  PROVE  IInv'
<1>1. /\ proc' = [proc EXCEPT ![e] = Resting("load")]
      /\ signals' = [signals EXCEPT ![e] = NoSignals]
      /\ UNCHANGED <<exchange, market, resolution, sourceRun, system, position, health,
                     cycle, faults>>
  BY DEF CycleBegin, shared
<1>2. /\ Resting("load") \in Process /\ Resting("load").stage = "load"
      /\ Resting("load").i = 1 /\ Resting("load").drafts = {}
  BY RestingTyped DEF Stage
<1>3. /\ proc' \in [Envs -> Process] /\ proc'[e] = Resting("load")
      /\ \A f \in Envs \ {e} : proc'[f] = proc[f]
  BY <1>1, <1>2, ProcWritten DEF IInv
<1>4. TypeOK'
  BY <1>1, <1>3 DEF IInv, TypeOK, NoSignals
<1>5. DraftsFetched'
  BY <1>2, <1>3 DEF IInv, DraftsFetched
<1>6. \A f \in Envs : ProgressGood(f)'
  BY <1>1, <1>2, <1>3, FirstSource, OthersProgress DEF IInv, OnlyOf
<1>7. SettledByRow'
  BY <1>1, SettledKept DEF IInv
<1> QED
  BY <1>4, <1>5, <1>6, <1>7 DEF IInv

\* The candidates are markets.
LEMMA LoadInv ==
  ASSUME IInv, NEW e \in Envs, Load(e)
  PROVE  IInv'
<1> DEFINE p == [proc[e] EXCEPT !.stage = "fetch", !.candidates = Candidates]
<1>1. /\ proc' = [proc EXCEPT ![e] = p] /\ proc[e].stage = "load"
      /\ UNCHANGED <<exchange, market, resolution, sourceRun, system, position, health,
                     cycle, signals, faults>>
  BY DEF Load, shared
<1>2. proc[e] \in Process /\ Candidates \in SUBSET Tickers
  BY DEF IInv, TypeOK, Candidates, Known
<1>3. /\ p \in Process /\ p.stage = "fetch" /\ p.i = proc[e].i /\ p.failed = proc[e].failed
      /\ p.drafts = proc[e].drafts /\ p.result = proc[e].result
  BY <1>2 DEF Process, Stage
<1> HIDE DEF p
<1>4. /\ proc' \in [Envs -> Process] /\ proc'[e] = p
      /\ \A f \in Envs \ {e} : proc'[f] = proc[f]
  BY <1>1, <1>3, ProcWritten DEF IInv
<1>5. TypeOK'
  BY <1>1, <1>4 DEF IInv, TypeOK
<1>6. DraftsFetched'
  BY <1>1, <1>3, <1>4 DEF IInv, DraftsFetched
<1>7. \A f \in Envs : ProgressGood(f)'
  <2>1. Ingesting(e) /\ Ingesting(e)'
    BY <1>1, <1>3, <1>4 DEF Ingesting
  <2>2. ProgressGood(e)'
    BY <1>1, <1>3, <1>4, <2>1, SameSource DEF IInv
  <2> QED
    BY <1>1, <1>4, <2>2, OthersProgress DEF IInv, OnlyOf
<1>8. SettledByRow'
  BY <1>1, SettledKept DEF IInv
<1> QED
  BY <1>5, <1>6, <1>7, <1>8 DEF IInv

\* A fault is counted, as long as there may be one.
LEMMA FaultTyped ==
  ASSUME TypeOK, NEW e \in Envs, Fault(e) \/ NoFault
  PROVE  faults' \in [Envs -> Nat] /\ \A f \in Envs : faults'[f] <= MaxFaults[f]
<1>1. CASE NoFault
  BY <1>1 DEF NoFault, TypeOK
<1>2. CASE Fault(e)
  <2>1. faults \in [Envs -> Nat] /\ faults' = [faults EXCEPT ![e] = faults[e] + 1]
        /\ faults[e] < MaxFaults[e]
    BY <1>2 DEF Fault, TypeOK
  <2>2. faults'[e] <= MaxFaults[e]
    <3>1. faults[e] \in Nat /\ MaxFaults[e] \in Nat /\ faults'[e] = faults[e] + 1
      BY <2>1, CycleAssumption
    <3> QED
      BY <2>1, <3>1
  <2> QED
    BY <2>1, <2>2 DEF TypeOK
<1> QED
  BY <1>1, <1>2

\* An ingest that raises, or whose insert meets another row, is to be recorded.
LEMMA IngestRaisesInv ==
  ASSUME IInv, NEW e \in Envs, IngestRaises(e) \/ PersistConflict(e)
  PROVE  IInv'
<1>1. /\ Ingesting(e) /\ GoTo(e, "failed") /\ (Fault(e) \/ NoFault)
      /\ UNCHANGED <<exchange, market, resolution, sourceRun, system, position, health,
                     cycle, signals>>
  BY DEF IngestRaises, PersistConflict, shared, Ingesting, NoFault
<1>2. /\ proc' \in [Envs -> Process] /\ proc'[e].stage = "failed"
      /\ proc'[e].i = proc[e].i /\ proc'[e].failed = proc[e].failed
      /\ proc'[e].result = proc[e].result /\ proc'[e].drafts = proc[e].drafts
      /\ \A f \in Envs \ {e} : proc'[f] = proc[f]
  BY <1>1, GoToTyped DEF IInv, Stage
<1>3. TypeOK'
  BY <1>1, <1>2, FaultTyped DEF IInv, TypeOK
<1>4. DraftsFetched'
  BY <1>2 DEF IInv, DraftsFetched
<1>5. \A f \in Envs : ProgressGood(f)'
  <2>1. Ingesting(e)'
    BY <1>2 DEF Ingesting
  <2>2. ProgressGood(e)'
    BY <1>1, <1>2, <2>1, SameSource DEF IInv
  <2> QED
    BY <1>1, <1>2, <2>2, OthersProgress DEF IInv, OnlyOf
<1>6. SettledByRow'
  BY <1>1, SettledKept DEF IInv
<1> QED
  BY <1>3, <1>4, <1>5, <1>6 DEF IInv

\* What a fetch brings is kept with the process until it is persisted.
LEMMA FetchedInv ==
  ASSUME IInv, NEW e \in Envs, NEW result \in FetchResult,
         proc[e].stage = "fetch", Fault(e) \/ NoFault, Fetched(e, result)
  PROVE  IInv'
<1> DEFINE p == [proc[e] EXCEPT !.stage = "persist", !.result = result]
<1>1. /\ proc' = [proc EXCEPT ![e] = p]
      /\ UNCHANGED <<exchange, market, resolution, sourceRun, system, position, health,
                     cycle, signals>>
  BY DEF Fetched, shared
<1>2. proc[e] \in Process
  BY DEF IInv, TypeOK
<1>3. /\ p \in Process /\ p.stage = "persist" /\ p.i = proc[e].i /\ p.failed = proc[e].failed
      /\ p.drafts = proc[e].drafts
  BY <1>2 DEF Process, Stage
<1> HIDE DEF p
<1>4. /\ proc' \in [Envs -> Process] /\ proc'[e] = p
      /\ \A f \in Envs \ {e} : proc'[f] = proc[f]
  BY <1>1, <1>3, ProcWritten DEF IInv
<1>5. TypeOK'
  BY <1>1, <1>4, FaultTyped DEF IInv, TypeOK
<1>6. DraftsFetched'
  BY <1>3, <1>4 DEF IInv, DraftsFetched
<1>7. \A f \in Envs : ProgressGood(f)'
  <2>1. Ingesting(e) /\ Ingesting(e)'
    BY <1>3, <1>4 DEF Ingesting
  <2>2. ProgressGood(e)'
    BY <1>1, <1>3, <1>4, <2>1, SameSource DEF IInv
  <2> QED
    BY <1>1, <1>4, <2>2, OthersProgress DEF IInv, OnlyOf
<1>8. SettledByRow'
  BY <1>1, SettledKept DEF IInv
<1> QED
  BY <1>5, <1>6, <1>7, <1>8 DEF IInv

\* Each source fetches a result of its kind.
LEMMA FetchMarketsInv ==
  ASSUME IInv, NEW e \in Envs, FetchMarkets(e)
  PROVE  IInv'
<1> DEFINE trading == {t \in Tickers : exchange[t] = "trading"}
           Listed(snapshots) == [NoResult EXCEPT
                                   !.upserts = trading, !.snapshots = snapshots,
                                   !.status = IF snapshots = {} THEN "degraded" ELSE "ok"]
           nothing == [NoResult EXCEPT !.status = "degraded"]
<1>1. \A snapshots \in SUBSET trading : Listed(snapshots) \in FetchResult
  BY NoResultTyped DEF FetchResult, Status
<1>2. nothing \in FetchResult
  BY NoResultTyped DEF FetchResult, Status
<1>3. /\ proc[e].stage = "fetch"
      /\ \/ \E snapshots \in SUBSET trading :
               (Fault(e) \/ NoFault) /\ Fetched(e, Listed(snapshots))
         \/ Fault(e) /\ Fetched(e, nothing)
  BY DEF FetchMarkets
<1> HIDE DEF Listed, nothing
<1> QED
  BY <1>1, <1>2, <1>3, FetchedInv

\* The resolution source brings results of candidates that are settled.
LEMMA FetchResolutionsInv ==
  ASSUME IInv, NEW e \in Envs, FetchResolutions(e)
  PROVE  IInv'
<1> DEFINE Settled(answered) ==
             [t \in {u \in answered : exchange[u] # "trading"} |-> exchange[t]]
           Answer(answered) ==
             [NoResult EXCEPT
                !.status = IF answered = proc[e].candidates THEN "ok" ELSE "degraded",
                !.resolutions = Settled(answered)]
<1>1. proc[e].candidates \in SUBSET Tickers
  BY DEF IInv, TypeOK, Process
<1>2. ASSUME NEW answered \in SUBSET proc[e].candidates
      PROVE  Answer(answered) \in FetchResult
  <2> DEFINE D == {u \in answered : exchange[u] # "trading"}
  <2>1. D \in SUBSET Tickers /\ \A t \in D : exchange[t] \in Result
    BY <1>1, <1>2 DEF IInv, TypeOK
  <2>2. Settled(answered) \in [D -> Result]
    BY <2>1
  <2>3. Settled(answered) \in Drafts
    BY <2>1, <2>2 DEF Drafts
  <2> HIDE DEF Settled
  <2> QED
    BY <2>3, NoResultTyped DEF FetchResult, Status
<1>3. /\ proc[e].stage = "fetch"
      /\ \E answered \in SUBSET proc[e].candidates :
            (Fault(e) \/ NoFault) /\ Fetched(e, Answer(answered))
  BY DEF FetchResolutions
<1> HIDE DEF Answer
<1> QED
  BY <1>2, <1>3, FetchedInv

\* The forecast source brings no rows this module has.
LEMMA FetchForecastsInv ==
  ASSUME IInv, NEW e \in Envs, FetchForecasts(e)
  PROVE  IInv'
<1> DEFINE nothing == [NoResult EXCEPT !.status = "degraded"]
<1>1. NoResult \in FetchResult /\ nothing \in FetchResult
  BY NoResultTyped DEF FetchResult, Status
<1>2. /\ proc[e].stage = "fetch"
      /\ \/ NoFault /\ Fetched(e, NoResult)
         \/ Fault(e) /\ Fetched(e, nothing)
  BY DEF FetchForecasts
<1> HIDE DEF nothing
<1> QED
  BY <1>1, <1>2, FetchedInv

\* The rows to insert are looked up among those that were fetched.
LEMMA PersistCheckInv ==
  ASSUME IInv, NEW e \in Envs, PersistCheck(e)
  PROVE  IInv'
<1> DEFINE missing == {t \in DOMAIN proc[e].result.resolutions : resolution[t] = NoRow}
           p == [proc[e] EXCEPT !.stage = "flush",
                                !.inserts = proc[e].result.upserts \ Known,
                                !.drafts = missing]
<1>1. /\ proc' = [proc EXCEPT ![e] = p] /\ proc[e].stage = "persist"
      /\ UNCHANGED <<exchange, market, resolution, sourceRun, system, position, health,
                     cycle, signals, faults>>
  BY DEF PersistCheck, shared
<1>2. /\ proc[e] \in Process /\ proc[e].result.upserts \in SUBSET Tickers
      /\ proc[e].result.resolutions \in Drafts
  BY DEF IInv, TypeOK, Process, FetchResult
<1>3. missing \in SUBSET Tickers
  BY <1>2 DEF Drafts
<1>4. /\ p \in Process /\ p.stage = "flush" /\ p.i = proc[e].i /\ p.failed = proc[e].failed
      /\ p.drafts = missing /\ p.result = proc[e].result
  <2> HIDE DEF missing
  <2> QED
    BY <1>2, <1>3 DEF Process, Stage
<1> HIDE DEF p
<1>5. /\ proc' \in [Envs -> Process] /\ proc'[e] = p
      /\ \A f \in Envs \ {e} : proc'[f] = proc[f]
  BY <1>1, <1>4, ProcWritten DEF IInv
<1>6. TypeOK'
  BY <1>1, <1>5 DEF IInv, TypeOK
<1>7. DraftsFetched'
  BY <1>4, <1>5 DEF IInv, DraftsFetched
<1>8. \A f \in Envs : ProgressGood(f)'
  <2>1. Ingesting(e) /\ Ingesting(e)'
    BY <1>1, <1>4, <1>5 DEF Ingesting
  <2>2. ProgressGood(e)'
    BY <1>1, <1>4, <1>5, <2>1, SameSource DEF IInv
  <2> QED
    BY <1>1, <1>5, <2>2, OthersProgress DEF IInv, OnlyOf
<1>9. SettledByRow'
  BY <1>1, SettledKept DEF IInv
<1> QED
  BY <1>6, <1>7, <1>8, <1>9 DEF IInv

\* What the run of a source that ends writes of its health and its last run, and
\* what the sources done by then have to show.
LEMMA RunRecorded ==
  ASSUME IInv, NEW e \in Envs, Ingesting(e), NEW failed \in SUBSET SourceNames,
         NEW h \in Health, NEW status \in Status,
         health' = [health EXCEPT ![e][Current(e)] = h],
         \/ sourceRun' = [sourceRun EXCEPT ![e][Current(e)] = status]
         \/ sourceRun' = sourceRun,
         proc[e].failed \subseteq failed,
         \/ Current(e) \in failed
         \/ /\ h.failures = 0 /\ status # "error"
            /\ sourceRun' = [sourceRun EXCEPT ![e][Current(e)] = status]
  PROVE  /\ health' \in [Envs -> [SourceNames -> Health]]
         /\ sourceRun' \in [Envs -> [SourceNames -> Status \cup {NoRow}]]
         /\ \A f \in Envs \ {e} : health'[f] = health[f] /\ sourceRun'[f] = sourceRun[f]
         /\ \A j \in 1..Len(Sources) :
               (j <= proc[e].i /\ Sources[j] \notin failed) => Good(e, Sources[j])'
<1>1. /\ health \in [Envs -> [SourceNames -> Health]]
      /\ sourceRun \in [Envs -> [SourceNames -> Status \cup {NoRow}]]
      /\ proc[e].i \in 1..Len(Sources)
  BY DEF IInv, TypeOK, Process
<1>2. Current(e) \in SourceNames /\ Current(e) = Sources[proc[e].i]
  BY <1>1, SourceOrder DEF Current
<1>3. /\ health'[e][Current(e)] = h
      /\ \A s \in SourceNames \ {Current(e)} : /\ health'[e][s] = health[e][s]
                                               /\ sourceRun'[e][s] = sourceRun[e][s]
      /\ sourceRun' # sourceRun => sourceRun'[e][Current(e)] = status
  BY <1>1, <1>2
<1>4. ASSUME NEW j \in 1..Len(Sources), j <= proc[e].i, Sources[j] \notin failed
      PROVE  Good(e, Sources[j])'
  <2>1. CASE j = proc[e].i
    <3>1. /\ h.failures = 0 /\ status # "error"
          /\ sourceRun'[e][Current(e)] = status
      BY <1>1, <1>2, <1>4, <2>1
    <3> QED
      BY <1>2, <1>3, <2>1, <3>1 DEF Good, Status
  <2>2. CASE j < proc[e].i
    <3>1. Good(e, Sources[j])
      BY <1>4, <2>2 DEF IInv, ProgressGood, IngestedGood
    <3>2. Sources[j] \in SourceNames \ {Current(e)}
      BY <1>1, <1>2, <2>2, SourceOrder
    <3> QED
      BY <1>3, <3>1, <3>2 DEF Good
  <2> QED
    BY <1>1, <1>4, <2>1, <2>2, SourceOrder
<1>5. /\ health' \in [Envs -> [SourceNames -> Health]]
      /\ sourceRun' \in [Envs -> [SourceNames -> Status \cup {NoRow}]]
      /\ \A f \in Envs \ {e} : health'[f] = health[f] /\ sourceRun'[f] = sourceRun[f]
  <2>1. /\ health' \in [Envs -> [SourceNames -> Health]]
        /\ \A f \in Envs \ {e} : health'[f] = health[f]
    BY <1>1, <1>2
  <2>2. CASE sourceRun' = [sourceRun EXCEPT ![e][Current(e)] = status]
    BY <1>1, <1>2, <2>1, <2>2
  <2>3. CASE sourceRun' = sourceRun
    BY <1>1, <2>1, <2>3
  <2> QED
    BY <2>2, <2>3
<1> QED
  BY <1>4, <1>5

\* A row of contract_resolution is inserted and never changed: what is committed
\* was not found and does not conflict (persist_fetch_result).
LEMMA RowsStay ==
  ASSUME IInv, NEW e \in Envs, PersistCommit(e)
  PROVE  /\ resolution' \in [Tickers -> Result \cup {NoRow}]
         /\ \A t \in Tickers : resolution[t] # NoRow => resolution'[t] = resolution[t]
<1>1. /\ resolution' = [t \in Tickers |-> IF t \in proc[e].drafts
                                           THEN proc[e].result.resolutions[t] ELSE resolution[t]]
      /\ Conflicting(e) = {}
  BY DEF PersistCommit
<1>2. \A t \in proc[e].drafts : resolution[t] = NoRow
  BY <1>1 DEF Conflicting
<1>3. /\ proc[e].drafts \subseteq DOMAIN proc[e].result.resolutions
      /\ proc[e].result.resolutions \in Drafts
  BY DEF IInv, TypeOK, DraftsFetched, Process, FetchResult
<1>4. \A t \in proc[e].drafts : proc[e].result.resolutions[t] \in Result
  BY <1>3 DEF Drafts
<1> QED
  BY <1>1, <1>2, <1>4 DEF IInv, TypeOK

\* A fetch that is committed ends the ingest of its source.
LEMMA PersistCommitInv ==
  ASSUME IInv, NEW e \in Envs, PersistCommit(e)
  PROVE  IInv'
<1> DEFINE status == proc[e].result.status
           h == SucceededHealth(health[e][Current(e)], status)
           failed == IF status = "error" THEN FailedWith(e) ELSE proc[e].failed
<1>1. /\ proc[e].stage = "flush"
      /\ sourceRun' = [sourceRun EXCEPT ![e][Current(e)] = status]
      /\ health' = [health EXCEPT ![e][Current(e)] = h]
      /\ EndIngest(e, failed)
      /\ UNCHANGED <<exchange, system, position, signals, faults>>
  BY DEF PersistCommit
<1>2. /\ status \in Status /\ proc[e].failed \in SUBSET SourceNames
      /\ proc[e].i \in 1..Len(Sources) /\ health \in [Envs -> [SourceNames -> Health]]
  BY DEF IInv, TypeOK, Process, FetchResult
<1>3. Current(e) \in SourceNames
  BY <1>2, SourceOrder DEF Current
<1>4. h \in Health /\ (status # "error" => h.failures = 0)
  BY <1>2, <1>3, HealthTyped
<1>5. /\ failed \in SUBSET SourceNames /\ proc[e].failed \subseteq failed
      /\ Current(e) \in failed \/ status # "error"
  BY <1>2, <1>3 DEF FailedWith
<1>6. Ingesting(e)
  BY <1>1 DEF Ingesting
<1> HIDE DEF status, h, failed
<1>7. /\ health' \in [Envs -> [SourceNames -> Health]]
      /\ sourceRun' \in [Envs -> [SourceNames -> Status \cup {NoRow}]]
      /\ \A f \in Envs \ {e} : health'[f] = health[f] /\ sourceRun'[f] = sourceRun[f]
      /\ \A j \in 1..Len(Sources) :
            (j <= proc[e].i /\ Sources[j] \notin failed) => Good(e, Sources[j])'
  BY <1>1, <1>2, <1>4, <1>5, <1>6, RunRecorded
<1>8. /\ ProgressGood(e)'
      /\ proc' \in [Envs -> Process] /\ proc'[e].drafts = {}
      /\ cycle' \in [Envs -> [error : BOOLEAN, succeeded : BOOLEAN]]
      /\ \A f \in Envs \ {e} : proc'[f] = proc[f] /\ cycle'[f] = cycle[f]
  BY <1>1, <1>5, <1>6, <1>7, EndIngestProgress DEF IInv
<1>9. market' \in [Tickers -> {NoRow, "listed", "quoted"}]
  BY DEF IInv, TypeOK, PersistCommit
<1>10. TypeOK'
  BY <1>1, <1>7, <1>8, <1>9, RowsStay DEF IInv, TypeOK
<1>11. DraftsFetched'
  BY <1>8 DEF IInv, DraftsFetched
<1>12. \A f \in Envs : ProgressGood(f)'
  BY <1>7, <1>8, OthersProgress DEF IInv, OnlyOf
<1>13. SettledByRow'
  BY <1>1, RowsStay, SettledKept DEF IInv
<1> QED
  BY <1>10, <1>11, <1>12, <1>13 DEF IInv

\* A failed source is among failed_sources, whatever the log of runs says.
LEMMA RecordFailureInv ==
  ASSUME IInv, NEW e \in Envs, RecordFailure(e)
  PROVE  IInv'
<1> DEFINE h == FailedHealth(health[e][Current(e)])
           failed == FailedWith(e)
<1>1. /\ proc[e].stage = "failed"
      /\ health' = [health EXCEPT ![e][Current(e)] = h]
      /\ \/ sourceRun' = [sourceRun EXCEPT ![e][Current(e)] = "error"]
         \/ sourceRun' = sourceRun
      /\ Fault(e) \/ NoFault
      /\ EndIngest(e, failed)
      /\ UNCHANGED <<exchange, market, resolution, system, position, signals>>
  BY DEF RecordFailure
<1>2. /\ proc[e].failed \in SUBSET SourceNames
      /\ proc[e].i \in 1..Len(Sources) /\ health \in [Envs -> [SourceNames -> Health]]
      /\ "error" \in Status
  BY DEF IInv, TypeOK, Process, Status
<1>3. Current(e) \in SourceNames
  BY <1>2, SourceOrder DEF Current
<1>4. h \in Health
  BY <1>2, <1>3, HealthTyped
<1>5. /\ failed \in SUBSET SourceNames /\ proc[e].failed \subseteq failed
      /\ Current(e) \in failed
  BY <1>2, <1>3 DEF FailedWith
<1>6. Ingesting(e)
  BY <1>1 DEF Ingesting
<1> HIDE DEF h, failed
<1>7. /\ health' \in [Envs -> [SourceNames -> Health]]
      /\ sourceRun' \in [Envs -> [SourceNames -> Status \cup {NoRow}]]
      /\ \A f \in Envs \ {e} : health'[f] = health[f] /\ sourceRun'[f] = sourceRun[f]
      /\ \A j \in 1..Len(Sources) :
            (j <= proc[e].i /\ Sources[j] \notin failed) => Good(e, Sources[j])'
  BY <1>1, <1>2, <1>4, <1>5, <1>6, RunRecorded
<1>8. /\ ProgressGood(e)'
      /\ proc' \in [Envs -> Process] /\ proc'[e].drafts = {}
      /\ cycle' \in [Envs -> [error : BOOLEAN, succeeded : BOOLEAN]]
      /\ \A f \in Envs \ {e} : proc'[f] = proc[f] /\ cycle'[f] = cycle[f]
  BY <1>1, <1>5, <1>6, <1>7, EndIngestProgress DEF IInv
<1>9. TypeOK'
  BY <1>1, <1>7, <1>8, FaultTyped DEF IInv, TypeOK
<1>10. DraftsFetched'
  BY <1>8 DEF IInv, DraftsFetched
<1>11. \A f \in Envs : ProgressGood(f)'
  BY <1>7, <1>8, OthersProgress DEF IInv, OnlyOf
<1>12. SettledByRow'
  BY <1>1, SettledKept DEF IInv
<1> QED
  BY <1>9, <1>10, <1>11, <1>12 DEF IInv

\* Orders open positions, and settle none.
LEMMA OpenedTyped ==
  ASSUME IInv, NEW e \in Envs, NEW orders \in SUBSET Tickers,
         position' = Opened(e, orders), resolution' = resolution
  PROVE  position' \in [Envs -> [Tickers -> Position]] /\ SettledByRow'
<1>1. [status |-> "open", by |-> NoRow] \in Position
  BY DEF Position
<1>2. position \in [Envs -> [Tickers -> Position]]
  BY DEF IInv, TypeOK
<1>3. /\ position' \in [Envs -> [Tickers -> Position]]
      /\ \A f \in Envs, t \in Tickers :
            position'[f][t] = position[f][t] \/ position'[f][t].status = "open"
  BY <1>1, <1>2 DEF Opened
<1>4. SettledByRow'
  BY <1>3 DEF IInv, SettledByRow
<1> QED
  BY <1>3, <1>4

\* The engine tick ends in error or leaves the cycle to the resolution tick.
LEMMA EngineTickInv ==
  ASSUME IInv, NEW e \in Envs, EngineTick(e) \/ EngineFails(e)
  PROVE  IInv'
<1>1. Quoted \in SUBSET Tickers
  BY DEF Quoted
<1>2. /\ proc[e].stage = "engine"
      /\ \/ EndFailed(e)
         \/ GoTo(e, "resolve") /\ cycle' = cycle
      /\ position' = position \/ \E orders \in SUBSET Tickers : position' = Opened(e, orders)
      /\ signals' = signals \/ \E emitted, recorded \in SUBSET Tickers :
            signals' = [signals EXCEPT ![e] = [emitted |-> emitted, recorded |-> recorded]]
      /\ UNCHANGED <<exchange, market, resolution, sourceRun, system, health>>
      /\ Fault(e) \/ NoFault
  BY <1>1 DEF EngineTick, EngineFails, shared, NoFault
<1>3. AllGood(e)
  BY <1>2 DEF IInv, ProgressGood
<1>4. /\ ProgressGood(e)'
      /\ proc' \in [Envs -> Process]
      /\ proc'[e].drafts \subseteq DOMAIN proc'[e].result.resolutions
      /\ proc'[e].stage \in {"resolve", "sleeping"}
      /\ cycle' \in [Envs -> [error : BOOLEAN, succeeded : BOOLEAN]]
      /\ \A f \in Envs \ {e} : proc'[f] = proc[f] /\ cycle'[f] = cycle[f]
  <2>1. CASE EndFailed(e)
    BY <2>1, EndFailedProgress, RestingTyped DEF IInv, Stage
  <2>2. CASE GoTo(e, "resolve") /\ cycle' = cycle
    <3>1. /\ proc' \in [Envs -> Process] /\ proc'[e].stage = "resolve"
          /\ proc'[e].result = proc[e].result /\ proc'[e].drafts = proc[e].drafts
          /\ \A f \in Envs \ {e} : proc'[f] = proc[f]
      BY <2>2, GoToTyped DEF IInv, Stage
    <3>2. AllGood(e)'
      BY <1>2, <1>3 DEF AllGood, Good
    <3>3. ProgressGood(e)'
      BY <3>1, <3>2 DEF ProgressGood, Ingesting
    <3> QED
      BY <2>2, <3>1, <3>3 DEF IInv, TypeOK, DraftsFetched
  <2> QED
    BY <1>2, <2>1, <2>2
<1>5. position' \in [Envs -> [Tickers -> Position]] /\ SettledByRow'
  BY <1>2, OpenedTyped, SettledKept DEF IInv, TypeOK
<1>6. signals' \in [Envs -> [emitted : SUBSET Tickers, recorded : SUBSET Tickers]]
  <2>1. signals \in [Envs -> [emitted : SUBSET Tickers, recorded : SUBSET Tickers]]
    BY DEF IInv, TypeOK
  <2> QED
    BY <1>2, <2>1
<1>7. TypeOK'
  BY <1>2, <1>4, <1>5, <1>6, FaultTyped DEF IInv, TypeOK
<1>8. DraftsFetched'
  BY <1>4 DEF IInv, DraftsFetched
<1>9. \A f \in Envs : ProgressGood(f)'
  BY <1>2, <1>4, OthersProgress DEF IInv, OnlyOf
<1> QED
  BY <1>5, <1>7, <1>8, <1>9 DEF IInv

\* The resolution tick settles by the shared rows, after a cycle without an error.
LEMMA ResolutionTickInv ==
  ASSUME IInv, NEW e \in Envs, ResolutionTick(e)
  PROVE  IInv'
<1>1. /\ proc[e].stage = "resolve"
      /\ position' = [position EXCEPT ![e] =
            [t \in Tickers |-> IF position[e][t].status = "open" /\ resolution[t] # NoRow
                               THEN [status |-> "resolved", by |-> resolution[t]]
                               ELSE position[e][t]]]
      /\ cycle' = [cycle EXCEPT ![e] = MarkedSuccess(cycle[e])]
      /\ proc' = [proc EXCEPT ![e] = Resting("sleeping")]
      /\ signals' = [signals EXCEPT ![e] = NoSignals]
      /\ UNCHANGED <<exchange, market, resolution, sourceRun, system, health, faults>>
  BY DEF ResolutionTick, shared
<1>2. Resting("sleeping") \in Process /\ Resting("sleeping").stage = "sleeping"
      /\ Resting("sleeping").drafts = {}
  BY RestingTyped DEF Stage
<1>3. /\ proc' \in [Envs -> Process] /\ proc'[e] = Resting("sleeping")
      /\ \A f \in Envs \ {e} : proc'[f] = proc[f]
  BY <1>1, <1>2, ProcWritten DEF IInv
<1>4. /\ cycle' \in [Envs -> [error : BOOLEAN, succeeded : BOOLEAN]]
      /\ \A f \in Envs \ {e} : cycle'[f] = cycle[f]
  BY <1>1 DEF IInv, TypeOK, MarkedSuccess
<1>5. position' \in [Envs -> [Tickers -> Position]] /\ SettledByRow'
  <2>1. /\ position \in [Envs -> [Tickers -> Position]]
        /\ resolution \in [Tickers -> Result \cup {NoRow}]
    BY DEF IInv, TypeOK
  <2>2. ASSUME NEW t \in Tickers PROVE [status |-> "resolved", by |-> resolution[t]] \in Position
    BY <2>1 DEF Position
  <2>3. /\ position' \in [Envs -> [Tickers -> Position]]
        /\ \A f \in Envs, t \in Tickers :
              \/ position'[f][t] = position[f][t]
              \/ resolution[t] # NoRow /\ position'[f][t].by = resolution[t]
    BY <1>1, <2>1, <2>2
  <2>4. SettledByRow'
    BY <1>1, <2>3 DEF IInv, SettledByRow
  <2> QED
    BY <2>3, <2>4
<1>6. TypeOK'
  BY <1>1, <1>3, <1>4, <1>5 DEF IInv, TypeOK, NoSignals
<1>7. DraftsFetched'
  BY <1>2, <1>3 DEF IInv, DraftsFetched
<1>8. \A f \in Envs : ProgressGood(f)'
  <2>1. AllGood(e)
    BY <1>1 DEF IInv, ProgressGood
  <2>2. AllGood(e)'
    BY <1>1, <2>1 DEF AllGood, Good
  <2>3. ProgressGood(e)'
    BY <1>2, <1>3, <2>2 DEF ProgressGood, Ingesting
  <2> QED
    BY <1>1, <1>3, <1>4, <2>3, OthersProgress DEF IInv, OnlyOf
<1> QED
  BY <1>5, <1>6, <1>7, <1>8 DEF IInv

\* A resolution tick that raises settles nothing.
LEMMA ResolutionFailsInv ==
  ASSUME IInv, NEW e \in Envs, ResolutionFails(e)
  PROVE  IInv'
<1>1. /\ EndFailed(e) /\ Fault(e)
      /\ signals' = [signals EXCEPT ![e] = NoSignals]
      /\ UNCHANGED <<exchange, market, resolution, sourceRun, system, position, health>>
  BY DEF ResolutionFails, shared
<1>2. /\ ProgressGood(e)'
      /\ proc' \in [Envs -> Process] /\ proc'[e].drafts = {}
      /\ cycle' \in [Envs -> [error : BOOLEAN, succeeded : BOOLEAN]]
      /\ \A f \in Envs \ {e} : proc'[f] = proc[f] /\ cycle'[f] = cycle[f]
  BY <1>1, EndFailedProgress DEF IInv
<1>3. TypeOK'
  BY <1>1, <1>2, FaultTyped DEF IInv, TypeOK, NoSignals
<1>4. DraftsFetched'
  BY <1>2 DEF IInv, DraftsFetched
<1>5. \A f \in Envs : ProgressGood(f)'
  BY <1>1, <1>2, OthersProgress DEF IInv, OnlyOf
<1>6. SettledByRow'
  BY <1>1, SettledKept DEF IInv
<1> QED
  BY <1>3, <1>4, <1>5, <1>6 DEF IInv

\* A crash forgets the report with the health: it does not leave an ok behind.
LEMMA CrashInv ==
  ASSUME IInv, NEW e \in Envs, Crash(e)
  PROVE  IInv'
<1>1. /\ Fault(e)
      /\ proc' = [proc EXCEPT ![e] = Resting("down")]
      /\ health' = [health EXCEPT ![e] = [s \in SourceNames |-> NewHealth]]
      /\ cycle' = [cycle EXCEPT ![e] = NewCycle]
      /\ signals' = [signals EXCEPT ![e] = NoSignals]
      /\ UNCHANGED <<exchange, market, resolution, sourceRun, system, position>>
  BY DEF Crash, shared
<1>2. Resting("down") \in Process /\ Resting("down").stage = "down"
      /\ Resting("down").drafts = {}
  BY RestingTyped DEF Stage
<1>3. /\ proc' \in [Envs -> Process] /\ proc'[e] = Resting("down")
      /\ \A f \in Envs \ {e} : proc'[f] = proc[f]
  BY <1>1, <1>2, ProcWritten DEF IInv
<1>4. /\ health' \in [Envs -> [SourceNames -> Health]]
      /\ cycle' \in [Envs -> [error : BOOLEAN, succeeded : BOOLEAN]]
      /\ cycle'[e] = NewCycle
      /\ \A f \in Envs \ {e} : health'[f] = health[f] /\ cycle'[f] = cycle[f]
  BY <1>1 DEF IInv, TypeOK, NewCycle, NewHealth, Health, Status
<1>5. TypeOK'
  BY <1>1, <1>3, <1>4, FaultTyped DEF IInv, TypeOK, NoSignals
<1>6. DraftsFetched'
  BY <1>2, <1>3 DEF IInv, DraftsFetched
<1>7. \A f \in Envs : ProgressGood(f)'
  <2>1. ProgressGood(e)'
    BY <1>2, <1>3, <1>4 DEF ProgressGood, Ingesting, ReportsOk, NewCycle
  <2> QED
    BY <1>1, <1>3, <1>4, <2>1, OthersProgress DEF IInv, OnlyOf
<1>8. SettledByRow'
  BY <1>1, SettledKept DEF IInv
<1> QED
  BY <1>5, <1>6, <1>7, <1>8 DEF IInv

\* A process that starts reports pending, not ok.
LEMMA StartInv ==
  ASSUME IInv, NEW e \in Envs, Start(e)
  PROVE  IInv'
<1>1. /\ proc[e].stage = "down" /\ GoTo(e, "sleeping")
      /\ UNCHANGED <<exchange, market, resolution, sourceRun, system, position, health,
                     cycle, signals, faults>>
  BY DEF Start, shared
<1>2. /\ proc' \in [Envs -> Process] /\ proc'[e].stage = "sleeping"
      /\ proc'[e].result = proc[e].result /\ proc'[e].drafts = proc[e].drafts
      /\ \A f \in Envs \ {e} : proc'[f] = proc[f]
  BY <1>1, GoToTyped DEF IInv, Stage
<1>3. TypeOK'
  BY <1>1, <1>2 DEF IInv, TypeOK
<1>4. DraftsFetched'
  BY <1>2 DEF IInv, DraftsFetched
<1>5. \A f \in Envs : ProgressGood(f)'
  <2>1. ~cycle[e].succeeded
    BY <1>1 DEF IInv, ProgressGood
  <2>2. ProgressGood(e)'
    BY <1>1, <1>2, <2>1 DEF ProgressGood, Ingesting, ReportsOk, CycleStatus
  <2> QED
    BY <1>1, <1>2, <2>2, OthersProgress DEF IInv, OnlyOf
<1>6. SettledByRow'
  BY <1>1, SettledKept DEF IInv
<1> QED
  BY <1>3, <1>4, <1>5, <1>6 DEF IInv

\* Neither the operator nor the exchange touches what the invariant is about.
LEMMA OutsideInv ==
  ASSUME IInv, UNCHANGED <<market, resolution, sourceRun, position, proc, health, cycle,
                           signals, faults>>,
         exchange' \in [Tickers -> Result \cup {"trading"}],
         system' \in [Envs -> {"active", "paused"}]
  PROVE  IInv'
<1>1. TypeOK'
  BY DEF IInv, TypeOK
<1>2. DraftsFetched' /\ SettledByRow'
  BY DEF IInv, DraftsFetched, SettledByRow
<1>3. \A e \in Envs : ProgressGood(e)'
  BY DEF IInv, ProgressGood, Ingesting, IngestedGood, ReportsOk, AllGood, Good
<1> QED
  BY <1>1, <1>2, <1>3 DEF IInv

-----------------------------------------------------------------------------
(* The theorems. *)

\* Every step keeps the invariant.
LEMMA NextInv == IInv /\ [Next]_vars => IInv'
<1> SUFFICES ASSUME IInv, [Next]_vars PROVE IInv'
  OBVIOUS
<1>1. CASE UNCHANGED vars
  BY <1>1, OutsideInv DEF vars, shared, IInv, TypeOK
<1>2. ASSUME NEW e \in Envs, Step(e) PROVE IInv'
  BY <1>2, CycleBeginInv, LoadInv, FetchMarketsInv, FetchResolutionsInv, FetchForecastsInv,
     PersistCheckInv, PersistCommitInv, IngestRaisesInv, RecordFailureInv, EngineTickInv,
     ResolutionTickInv
  DEF Step
<1>3. ASSUME NEW e \in Envs,
             IngestRaises(e) \/ EngineFails(e) \/ ResolutionFails(e) \/ Crash(e) \/ Start(e)
      PROVE  IInv'
  BY <1>3, IngestRaisesInv, EngineTickInv, ResolutionFailsInv, CrashInv, StartInv
<1>4. ASSUME NEW e \in Envs, FlipSystem(e) PROVE IInv'
  <2>1. system' \in [Envs -> {"active", "paused"}]
    BY <1>4 DEF FlipSystem, IInv, TypeOK
  <2> QED
    BY <1>4, <2>1, OutsideInv DEF FlipSystem, shared, IInv, TypeOK
<1>5. ASSUME NEW t \in Tickers, Settle(t) PROVE IInv'
  <2>1. exchange' \in [Tickers -> Result \cup {"trading"}]
    BY <1>5 DEF Settle, IInv, TypeOK
  <2> QED
    BY <1>5, <2>1, OutsideInv DEF Settle, shared, IInv, TypeOK
<1> QED
  BY <1>1, <1>2, <1>3, <1>4, <1>5 DEF Next

\* The invariant of every behaviour.
LEMMA InductiveInvariant == Spec => []IInv
  BY InitInv, NextInv, PTL DEF Spec

\* The rows, the processes and their health keep their types, for any sources.
THEOREM CycleTypeOK == Spec => []TypeOK
<1>1. IInv => TypeOK
  BY DEF IInv
<1> QED
  BY <1>1, InductiveInvariant, PTL

\* Any number of environments that settle a market settle it alike, through any
\* corrections, conflicts and crashes (persist_fetch_result, run_resolution_tick).
THEOREM EnvironmentsSettleAlike == Spec => []SettledAlike
<1>1. IInv => SettledAlike
  BY DEF IInv, SettledByRow, SettledAlike
<1> QED
  BY <1>1, InductiveInvariant, PTL

\* A result in the shared table stays, whatever the exchange corrects and whichever
\* environment fetches it again (load_resolved_tickers, persist_fetch_result).
THEOREM ResultsStay ==
  Spec => [][\A t \in Tickers : resolution[t] # NoRow => resolution'[t] = resolution[t]]_vars
<1> DEFINE Stays == \A t \in Tickers : resolution[t] # NoRow => resolution'[t] = resolution[t]
<1>1. IInv /\ [Next]_vars => [Stays]_vars
  <2> SUFFICES ASSUME IInv, Next PROVE Stays
    OBVIOUS
  <2>1. ASSUME NEW e \in Envs, PersistCommit(e) PROVE Stays
    BY <2>1, RowsStay
  <2>2. CASE \A e \in Envs : ~PersistCommit(e)
    <3>1. resolution' = resolution
      BY <2>2 DEF Next, Step, shared, CycleBegin, Load, FetchMarkets, FetchResolutions,
         FetchForecasts, Fetched, PersistCheck, PersistConflict, RecordFailure, EngineTick,
         ResolutionTick, IngestRaises, EngineFails, ResolutionFails, Crash, Start, FlipSystem,
         Settle
    <3> QED
      BY <3>1
  <2> QED
    BY <2>1, <2>2
<1> QED
  BY <1>1, InductiveInvariant, PTL DEF Spec

\* A scheduler that reports ok between cycles has no source whose last run was an
\* error, for any sources and threshold (run_cycle, CycleHealth).
THEOREM OkIsTrue == Spec => []OkMeansSourcesOk
<1>1. IInv => OkMeansSourcesOk
  BY DEF IInv, ProgressGood, ReportsOk, AllGood, Good, OkMeansSourcesOk
<1> QED
  BY <1>1, InductiveInvariant, PTL
=============================================================================
