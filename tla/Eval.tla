--------------------------------- MODULE Eval ---------------------------------
(***************************************************************************)
(* The evaluation of a strategy (core/eval): its snapshot rows, written by *)
(* the resolution tick for the trades it settles and by the nightly        *)
(* recomputation, which runs in a worker thread with sessions of its own   *)
(* (core/scheduler.py:147-154, 197-207), and read by the API               *)
(* (core/eval/read.py).  Rows of different strategies have nothing to do   *)
(* with each other: one strategy is modelled.                              *)
(*                                                                         *)
(* A step ends where another transaction can commit in between: the        *)
(* nightly reads the trades and the cash events by two statements, and     *)
(* READ COMMITTED gives each what is committed by then.  The resolution    *)
(* tick holds the strategy's row lock from its first settlement, so that   *)
(* what it writes between there and its commit is one step, which ends     *)
(* before the commit.  No two readings of the clock are equal.             *)
(***************************************************************************)
EXTENDS Integers, Sequences, FiniteSets, FiniteSetsExt, SequencesExt

CONSTANTS
    Trades,        \* positions of the strategy, each with its signal
    ProbYes,       \* the prob_yes of the signal of each, in hundredths
    Pnls,          \* what a position can realize, cents
    Amounts,       \* amounts of deposits and withdrawals, cents
    WindowLength,  \* of "7d" and "30d", in readings of the clock
    MaxTime,       \* bound on the readings of the clock
    MaxMoves       \* bound on the deposits and withdrawals of a run

ASSUME EvalAssumption ==
    /\ IsFiniteSet(Trades)
    /\ ProbYes \in [Trades -> 0..100]
    /\ Pnls \subseteq Int /\ Amounts \subseteq Nat \ {0}
    /\ WindowLength \in [{"7d", "30d"} -> Nat] /\ WindowLength["7d"] <= WindowLength["30d"]
    /\ MaxTime \in Nat /\ MaxMoves \in Nat

EVAL_WINDOWS == {"7d", "30d", "all"}
Never == -1
None  == "none"

VARIABLES
    now,      \* the last reading of the clock
    trade,    \* committed paper_position rows, with their contract_resolution
    cash,     \* committed cash_event rows, oldest first
    shown,    \* the snapshot rows _latest_row finds, one of each window
    tick,     \* the resolution tick's transaction
    nightly   \* the nightly thread's transaction

vars == <<now, trade, cash, shown, tick, nightly>>

-----------------------------------------------------------------------------
\* Of a result, whether the market is void: compute_metrics asks no more.
Trade == [ result : {None, "decided", "void"}, pnl : Int,
           closedAt : Nat \cup {Never},
           tickAt : Nat \cup {Never},       \* history: when its tick began
           committedAt : Nat \cup {Never} ] \* history: when its tick committed

OpenTrade == [result |-> None, pnl |-> 0, closedAt |-> Never, tickAt |-> Never,
              committedAt |-> Never]

\* move: a deposit or withdrawal, with no realized_pnl.
CashEvent == [at : Nat, balance : Int, pnl : Int, move : BOOLEAN]

Bins == 0..9

Metrics == [n : Nat, wins : Nat, pnl : Int, drawdown : Nat, bins : [Bins -> Nat]]

\* Rows of the three windows, inserted together, and the trades they were made from.
Snapshot == [at : Nat \cup {Never}, by : {None, "tick", "nightly"},
             of : SUBSET Trades, rows : [EVAL_WINDOWS -> Metrics]]

\* Mutant: probability 1 has a bin of its own.
BinUnclamped(p) == (IF p \in {30, 60, 70} THEN p - 1 ELSE p) \div 10

\* int(p / 0.1): in floats 0.3, 0.6 and 0.7 fall just short of a bin's edge.
BinOf(p) == IF p = 100 THEN 9 ELSE (IF p \in {30, 60, 70} THEN p - 1 ELSE p) \div 10

\* Mutant: the fall from the first balance to the last.
FallToLast(balances) == IF balances = <<>> THEN 0 ELSE balances[1] - Last(balances)

\* Mutant: the fall is counted from the first balance.
FallFromFirst(balances) ==
    FoldLeft(LAMBDA worst, b : IF balances[1] - b > worst THEN balances[1] - b ELSE worst,
             0, balances)

\* max_drawdown_cents: one pass, with the highest balance so far.
NothingScanned == [peak |-> <<>>, worst |-> 0]

Scanned(acc, b) ==
    LET peak == IF acc.peak = <<>> \/ b > acc.peak[1] THEN b ELSE acc.peak[1]
    IN  [peak |-> <<peak>>, worst |-> IF peak - b > acc.worst THEN peak - b ELSE acc.worst]

MaxDrawdown(balances) == FoldLeft(Scanned, NothingScanned, balances).worst

\* compute_metrics, the means and the posterior of the same trades left out.
MetricsOf(rows, T, balances) ==
    [ n |-> Cardinality(T),
      wins |-> Cardinality({t \in T : rows[t].pnl > 0}),
      pnl |-> SumFunctionOnSet([t \in T |-> rows[t].pnl], T),
      drawdown |-> MaxDrawdown(balances),
      bins |-> [b \in Bins |-> Cardinality({t \in T : BinOf(ProbYes[t]) = b})] ]

\* Mutant: the windows of 7 and 30 days are exchanged.
InOtherWindow(at, w, time) ==
    w = "all" \/ at >= time - WindowLength[IF w = "7d" THEN "30d" ELSE "7d"]

\* _window_cutoff, trades_for_window and balances_for_window: none for all.
InWindow(at, w, time) == w = "all" \/ at >= time - WindowLength[w]

BalancesIn(events, w, time) ==
    FoldLeft(LAMBDA balances, e :
                IF InWindow(e.at, w, time) THEN Append(balances, e.balance) ELSE balances,
             <<>>, events)

\* resolved_trade_records: the resolved trades, but those of a void market.
Records(rows) == {t \in Trades : rows[t].result \notin {None, "void"}}

\* recompute_strategy, of trades and cash events already read.
Recomputed(by, time, rows, events) ==
    LET records == Records(rows)
    IN  [ at |-> time, by |-> by, of |-> records,
          rows |-> [w \in EVAL_WINDOWS |->
                      MetricsOf(rows, {t \in records : InWindow(rows[t].closedAt, w, time)},
                                BalancesIn(events, w, time))] ]

\* _latest_row: the greatest computed_at, whichever was inserted last.
Latest(old, new) == IF new.at > old.at THEN new ELSE old

EmptySnapshot == [at |-> Never, by |-> None, of |-> {},
                  rows |-> [w \in EVAL_WINDOWS |-> MetricsOf(<<>>, {}, <<>>)]]

-----------------------------------------------------------------------------
IdleTick == [pc |-> "idle", at |-> Never, trade |-> [t \in Trades |-> OpenTrade],
             cash |-> <<>>, snapshot |-> EmptySnapshot]

IdleNightly == [pc |-> "idle", at |-> Never, trade |-> [t \in Trades |-> OpenTrade],
                snapshot |-> EmptySnapshot]

TypeOK ==
    /\ now \in 0..MaxTime
    /\ trade \in [Trades -> Trade]
    /\ cash \in Seq(CashEvent)
    /\ shown \in Snapshot
    /\ tick \in [pc : {"idle", "began", "settled"}, at : Nat \cup {Never},
                 trade : [Trades -> Trade], cash : Seq(CashEvent), snapshot : Snapshot]
    /\ nightly \in [pc : {"idle", "began", "read", "computed"}, at : Nat \cup {Never},
                    trade : [Trades -> Trade], snapshot : Snapshot]

Balance(events) == events[Len(events)].balance

ReadClock == now < MaxTime /\ now' = now + 1

\* deposit and withdraw; both wait for the row lock of a tick that has settled.
MoveCash ==
    /\ tick.pc # "settled"
    /\ Cardinality({i \in DOMAIN cash : cash[i].move}) < MaxMoves
    /\ ReadClock
    /\ \E amount \in Amounts \cup {-a : a \in Amounts} :
          /\ Balance(cash) + amount >= 0
          /\ cash' = Append(cash, [at |-> now', balance |-> Balance(cash) + amount, pnl |-> 0,
                                    move |-> TRUE])
    /\ UNCHANGED <<trade, shown, tick, nightly>>

\* run_resolution_tick is given the time it begins.
TickBegin ==
    /\ tick.pc = "idle"
    /\ ReadClock
    /\ tick' = [IdleTick EXCEPT !.pc = "began", !.at = now']
    /\ UNCHANGED <<trade, cash, shown, nightly>>

Settled(due, result, pnl, time) ==
    [t \in Trades |->
        IF t \in due THEN [OpenTrade EXCEPT !.result = result[t], !.closedAt = time,
                                            !.pnl = IF result[t] = "void" THEN 0 ELSE pnl[t],
                                            !.tickAt = tick.at]
        ELSE trade[t]]

\* The realized_pnl event of each of them, in some order.
Posted(log, due, settled, time) ==
    FoldLeft(LAMBDA events, t :
                Append(events, [at |-> time, pnl |-> settled[t].pnl, move |-> FALSE,
                                balance |-> Balance(events) + settled[t].pnl]),
             log, SetToSeq(due))

\* Mutant: the snapshot is computed from another session, before the commit.
VisibleBefore(settled) == trade

\* The tick's own session sees what it flushed.
Visible(settled) == settled

\* The open positions with a result are settled, each with its cash event, and the
\* snapshot is recomputed, all in the tick's transaction.
TickSettle ==
    /\ tick.pc = "began"
    /\ ReadClock
    /\ \E due \in SUBSET {t \in Trades : trade[t].result = None} :
       \E result \in [due -> {"decided", "void"}] :
       \E pnl \in [due -> Pnls] :
          LET settled == Settled(due, result, pnl, now')
              events == Posted(cash, due, settled, now')
          IN  tick' = IF due = {} THEN IdleTick
                      ELSE [tick EXCEPT
                              !.pc = "settled", !.trade = settled, !.cash = events,
                              !.snapshot = Recomputed("tick", tick.at, Visible(settled), events)]
    /\ UNCHANGED <<trade, cash, shown, nightly>>

TickCommit ==
    /\ tick.pc = "settled"
    /\ ReadClock
    /\ trade' = [t \in Trades |->
                   IF trade[t].result = None /\ tick.trade[t].result # None
                   THEN [tick.trade[t] EXCEPT !.committedAt = now'] ELSE trade[t]]
    /\ cash' = tick.cash
    /\ shown' = Latest(shown, tick.snapshot)
    /\ tick' = IdleTick
    /\ UNCHANGED nightly

\* Mutant: the rows are dated when they are inserted.
DatedAtInsert(at) == now

\* run_nightly_recompute dates its rows when it starts.
DatedAtStart(at) == at

NightlyBegin ==
    /\ nightly.pc = "idle"
    /\ ReadClock
    /\ nightly' = [nightly EXCEPT !.pc = "began", !.at = now']
    /\ UNCHANGED <<trade, cash, shown, tick>>

NightlyReadTrades ==
    /\ nightly.pc = "began"
    /\ nightly' = [nightly EXCEPT !.pc = "read", !.trade = trade]
    /\ UNCHANGED <<now, trade, cash, shown, tick>>

NightlyReadCash ==
    /\ nightly.pc = "read"
    /\ nightly' = [nightly EXCEPT
                     !.pc = "computed",
                     !.snapshot = Recomputed("nightly", DatedAtStart(nightly.at),
                                             nightly.trade, cash)]
    /\ UNCHANGED <<now, trade, cash, shown, tick>>

NightlyCommit ==
    /\ nightly.pc = "computed"
    /\ shown' = Latest(shown, nightly.snapshot)
    /\ nightly' = IdleNightly
    /\ UNCHANGED <<now, trade, cash, tick>>

\* A statement fails, which the cycle and the nightly loop log, or the process
\* stops: what the transaction wrote is rolled back.
TickAborts ==
    /\ tick.pc # "idle"
    /\ tick' = IdleTick
    /\ UNCHANGED <<now, trade, cash, shown, nightly>>

NightlyAborts ==
    /\ nightly.pc # "idle"
    /\ nightly' = IdleNightly
    /\ UNCHANGED <<now, trade, cash, shown, tick>>

Init ==
    /\ now = 0
    /\ trade = [t \in Trades |-> OpenTrade]
    /\ \E amount \in Amounts : cash = <<[at |-> 0, balance |-> amount, pnl |-> 0, move |-> FALSE]>>
    /\ shown = EmptySnapshot
    /\ tick = IdleTick
    /\ nightly = IdleNightly

Next ==
    \/ MoveCash \/ TickBegin \/ TickSettle \/ TickCommit
    \/ NightlyBegin \/ NightlyReadTrades \/ NightlyReadCash \/ NightlyCommit
    \/ TickAborts \/ NightlyAborts

Spec == Init /\ [][Next]_vars

-----------------------------------------------------------------------------
(* Properties. *)

\* What the shorter of two windows shows is part of what the longer one shows:
\* trades, wins, every calibration bin, and a fall in the balance.
WindowsNest ==
    \A pair \in {<<"7d", "30d">>, <<"30d", "all">>} :
        LET short == shown.rows[pair[1]]
            long == shown.rows[pair[2]]
        IN  /\ short.n <= long.n /\ short.wins <= long.wins
            /\ short.drawdown <= long.drawdown
            /\ \A b \in Bins : short.bins[b] <= long.bins[b]

\* A resolved trade that the latest rows leave out was settled by a tick that the
\* nightly overlapped: the tick began first, so its own rows count as older, and
\* committed after the nightly had started (recompute_strategy, _latest_row).  Any
\* nightly that starts later shows the trade.
MissedOnlyByOverlap ==
    \A t \in Records(trade) \ shown.of :
        /\ shown.by = "nightly"
        /\ trade[t].tickAt < shown.at /\ shown.at < trade[t].committedAt

\* The rows of a tick report the profit of the journal it leaves: its all-time
\* pnl_cents is the sum of the realized_pnl cash events, void markets included.
TickShowsJournal ==
    [][(shown' # shown /\ shown'.by = "tick") =>
          shown'.rows["all"].pnl
             = SumFunctionOnSet([i \in 1..Len(cash') |-> cash'[i].pnl], 1..Len(cash'))]_vars

\* max_drawdown_cents is the worst fall from a balance to a later one.
WorstFall(b) ==
    IF b = <<>> THEN 0
    ELSE Max(UNION {{b[i] - b[j] : j \in i..Len(b)} : i \in 1..Len(b)})

DrawdownIsWorstFall ==
    \A w \in EVAL_WINDOWS :
        LET balances == BalancesIn(cash, w, now)
        IN  MaxDrawdown(balances) = WorstFall(balances)

\* Every trade is in one calibration bin, whose bounds hold its probability, both
\* included (calibration_bins).
BinsPartition ==
    /\ \A w \in EVAL_WINDOWS :
          SumFunctionOnSet(shown.rows[w].bins, Bins) = shown.rows[w].n
    /\ \A t \in shown.of : LET b == BinOf(ProbYes[t])
                           IN  10 * b <= ProbYes[t] /\ ProbYes[t] <= 10 * (b + 1)
=============================================================================
