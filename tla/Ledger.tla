------------------------------- MODULE Ledger -------------------------------
(***************************************************************************)
(* The per-environment ledger (core/ledger/writer.py): strategies, their   *)
(* cash events, signals and paper positions, and the kill switch.  Each    *)
(* action is one writer function run alone in its own transaction, with    *)
(* the checks that make it raise LedgerError as its guard: a call that     *)
(* raises is rolled back by its caller and changes nothing.  LedgerTx has  *)
(* the same functions interleaved at the granularity of SQL statements.    *)
(*                                                                         *)
(* Money is in cents, prices are in mills (tenths of a cent: the price     *)
(* columns have six decimals, so prices between two cents exist) and       *)
(* Kelly fractions in percent.  Row ids are drawn from finite sets, audit  *)
(* rows and timestamps are left out.                                       *)
(***************************************************************************)
EXTENDS Journals, StrategyStates, Functions

CONSTANTS
    Strategies,       \* names in SEED_STRATEGIES
    Positions,        \* ids of paper_position rows
    Signals,          \* ids of signal rows
    InitialDeposit,   \* starting bankroll of each strategy at seed time
    SeedKelly,        \* Kelly fraction of each strategy at seed time, percent
    Amounts,          \* amounts asked of deposit, withdraw, set_starting_bankroll
    Fractions,        \* Kelly fractions asked of set_kelly_fraction, percent
    Orders,           \* orders placed: [qty, price in mills, cost in cents]
    Fees,             \* fees of a fill
    MaxCashEvents     \* bound on the cash events of one strategy

NoRow == "no_row"     \* a strategy, signal or position that has no row yet
None  == "none"       \* a null reference

ASSUME ConstantsAssumption ==
    /\ NoRow \notin Strategies
    /\ None \notin Positions
    /\ None \notin Signals
    /\ InitialDeposit \in [Strategies -> Nat \ {0}]
    /\ SeedKelly \in [Strategies -> 0..100]
    /\ Amounts \subseteq Int
    /\ Fractions \subseteq Int
    /\ Orders \subseteq [qty : Int, price : 1..999, cost : Int]
    /\ Fees \subseteq Int
    /\ MaxCashEvents \in Nat

VARIABLES
    system,      \* system_state.state
    strategy,    \* strategy_instance rows
    cash,        \* cash_event rows of each strategy, oldest first
    signal,      \* the strategy of each signal row
    position,    \* paper_position rows with their paper_fill
    reserved     \* reserved_open_cost_basis_cents of each strategy

vars == <<system, strategy, cash, signal, position, reserved>>

-----------------------------------------------------------------------------
(* Rows. *)

SystemState == {"active", "paused"}
Kind        == {"deposit", "withdraw", "realized_pnl", "fee"}
Side        == {"yes", "no"}
Resolution  == {"yes", "no", "void"}

StrategyRow ==
    [ state       : StrategyState \cup {NoRow},
      enabled     : BOOLEAN,
      bankroll    : Int,
      initial     : Nat,           \* initial_deposit_cents
      hwm         : Int,           \* bankroll_hwm_cents
      minBankroll : Nat,           \* config min_bankroll_cents
      kelly       : 0..100 ]

CashEvent == [kind : Kind, amount : Int, balance : Int, ref : Positions \cup {None}]

PositionRow ==
    [ status   : {NoRow, "open", "resolved"},
      owner    : Strategies \cup {NoRow},
      side     : Side,
      qty      : Nat,
      cost     : Nat,
      realized : Int ]

TypeOK ==
    /\ system \in SystemState
    /\ strategy \in [Strategies -> StrategyRow]
    /\ cash \in [Strategies -> Seq(CashEvent)]
    /\ signal \in [Signals -> Strategies \cup {NoRow}]
    /\ position \in [Positions -> PositionRow]
    /\ reserved \in [Strategies -> Int]

-----------------------------------------------------------------------------
(* Queries. *)

Exists(s) == strategy[s].state # NoRow

require_system_active == system # "paused"

\* Mutant: open positions are not counted.
UnreservedCash(s) == strategy[s].bankroll

FreeCash(s) ==
    LET free == strategy[s].bankroll - reserved[s]
    IN  IF free > 0 THEN free ELSE 0

\* Mutant: only signals count as trading.
HasSignals(s) == \E g \in Signals : signal[g] = s

HasTradingActivity(s) ==
    \/ \E g \in Signals : signal[g] = s
    \/ \E p \in Positions : position[p].status # NoRow /\ position[p].owner = s

\* Decimal(qty) * price * 100 quantized to a cent with ROUND_HALF_UP.
Cents(qty, mills) == (qty * mills + 5) \div 10

\* The price at which YES settles: parse_market_result gives 1 or 0.
SettlementValue(res) == IF res = "yes" THEN 1000 ELSE 0

\* Mutant: NO is paid the YES price less one dollar.
PayoutSwapped(p, res) ==
    IF res = "void"
    THEN position[p].cost
    ELSE Cents(position[p].qty,
               IF position[p].side = "yes" THEN SettlementValue(res)
                                           ELSE SettlementValue(res) - 1000)

Payout(p, res) ==
    IF res = "void"
    THEN position[p].cost
    ELSE Cents(position[p].qty,
               IF position[p].side = "yes" THEN SettlementValue(res)
                                           ELSE 1000 - SettlementValue(res))

\* min_bankroll_cents is set to the starting bankroll (config_with_starting_baseline).
Baseline(row, amt) ==
    [row EXCEPT !.initial = amt, !.hwm = amt, !.minBankroll = amt]

-----------------------------------------------------------------------------
(* The cash-event row that _append_cash_event inserts with every change of  *)
(* a bankroll.                                                              *)

\* Mutant: balance_after_cents is taken before the change.
AppendBalanceBefore(s, kind, amt, ref) ==
    /\ Len(cash[s]) < MaxCashEvents
    /\ cash' = [cash EXCEPT ![s] =
                   Append(@, [kind |-> kind, amount |-> amt,
                              balance |-> strategy[s].bankroll, ref |-> ref])]

AppendCashEvent(s, kind, amt, ref) ==
    /\ Len(cash[s]) < MaxCashEvents
    /\ cash' = [cash EXCEPT ![s] =
                   Append(@, [kind |-> kind, amount |-> amt,
                              balance |-> strategy[s].bankroll + amt, ref |-> ref])]

(* seed_strategies_if_needed: at startup, every strategy that has no row    *)
(* gets one, its initial deposit and its activation, in one transaction.    *)

Missing == {s \in Strategies : ~Exists(s)}

SeededRow(s) ==
    [ state |-> ACTIVE, enabled |-> TRUE, bankroll |-> InitialDeposit[s],
      initial |-> InitialDeposit[s], hwm |-> InitialDeposit[s],
      minBankroll |-> InitialDeposit[s], kelly |-> SeedKelly[s] ]

SeedDeposit(s) ==
    [ kind |-> "deposit", amount |-> InitialDeposit[s],
      balance |-> InitialDeposit[s], ref |-> None ]

Seed ==
    /\ Missing # {}
    /\ require_system_active
    /\ strategy' = [s \in Strategies |-> IF s \in Missing THEN SeededRow(s) ELSE strategy[s]]
    /\ cash' = [s \in Strategies |-> IF s \in Missing THEN <<SeedDeposit(s)>> ELSE cash[s]]
    /\ UNCHANGED <<system, signal, position, reserved>>

-----------------------------------------------------------------------------
(* Operator actions on one strategy. *)

Deposit(s, amt) ==
    LET new_bankroll == strategy[s].bankroll + amt
        resumes == should_auto_resume_on_deposit(strategy[s].state, new_bankroll,
                                                 strategy[s].minBankroll)
    IN  /\ require_system_active
        /\ amt > 0
        /\ Exists(s)
        /\ strategy[s].state \notin DEPOSIT_BLOCKED_STATES
        /\ AppendCashEvent(s, "deposit", amt, None)
        /\ strategy' = [strategy EXCEPT
                           ![s] = [strategy[s] EXCEPT
                                      !.bankroll = new_bankroll,
                                      !.state = IF resumes THEN ResumeTarget
                                                           ELSE strategy[s].state]]
        /\ UNCHANGED <<system, signal, position, reserved>>

Withdraw(s, amt) ==
    /\ require_system_active
    /\ amt > 0
    /\ Exists(s)
    /\ amt <= FreeCash(s)
    /\ AppendCashEvent(s, "withdraw", -amt, None)
    /\ strategy' = [strategy EXCEPT ![s].bankroll = strategy[s].bankroll - amt]
    /\ UNCHANGED <<system, signal, position, reserved>>

SetStartingBankroll(s, amt) ==
    LET delta == amt - strategy[s].bankroll
    IN  /\ require_system_active
        /\ amt > 0
        /\ Exists(s)
        /\ strategy[s].state # DECOMMISSIONED
        /\ ~HasTradingActivity(s)
        /\ IF delta = 0
           THEN cash' = cash
           ELSE AppendCashEvent(s, IF delta > 0 THEN "deposit" ELSE "withdraw", delta, None)
        /\ strategy' = [strategy EXCEPT
                           ![s] = Baseline([strategy[s] EXCEPT !.bankroll = amt], amt)]
        /\ UNCHANGED <<system, signal, position, reserved>>

\* Mutant: only the lower bound is enforced.
ClampedBelow(fraction) == IF fraction < 0 THEN 0 ELSE fraction

Clamped(fraction) ==
    IF fraction < 0 THEN 0 ELSE IF fraction > 100 THEN 100 ELSE fraction

SetKellyFraction(s, fraction) ==
    /\ require_system_active
    /\ Exists(s)
    /\ strategy[s].state # DECOMMISSIONED
    /\ strategy' = [strategy EXCEPT ![s].kelly = Clamped(fraction)]
    /\ UNCHANGED <<system, cash, signal, position, reserved>>

\* _apply_lifecycle_transition: gate is can_transition, target is target_fn.
LifecycleTransition(s, gate, target, disable) ==
    /\ require_system_active
    /\ Exists(s)
    /\ gate
    /\ strategy' = [strategy EXCEPT
                       ![s] = [strategy[s] EXCEPT
                                  !.state = target,
                                  !.enabled = strategy[s].enabled /\ ~disable]]
    /\ UNCHANGED <<system, cash, signal, position, reserved>>

Pause(s)        == LifecycleTransition(s, can_pause(strategy[s].state), PauseTarget, FALSE)
Resume(s)       == LifecycleTransition(s, can_resume(strategy[s].state), ResumeTarget, FALSE)
Decommission(s) == LifecycleTransition(s, TRUE, DECOMMISSIONED, TRUE)

-----------------------------------------------------------------------------
(* The engine's writes. *)

\* Mutant: signals are recorded whatever the kill switch says.
RecordSignalUngated(g, s) ==
    /\ Exists(s)
    /\ signal[g] = NoRow
    /\ signal' = [signal EXCEPT ![g] = s]
    /\ UNCHANGED <<system, strategy, cash, position, reserved>>

RecordSignal(g, s) ==
    /\ require_system_active
    /\ Exists(s)
    /\ signal[g] = NoRow
    /\ signal' = [signal EXCEPT ![g] = s]
    /\ UNCHANGED <<system, strategy, cash, position, reserved>>

\* Mutant: the fee is left out of what must be covered.
CostWithoutFees(order, fees) == order.cost

TotalCost(order, fees) == order.cost + fees

OpenPaperPosition(p, s, g, side, order, fees) ==
    /\ require_system_active
    /\ order.qty > 0
    /\ order.cost > 0
    /\ fees >= 0
    /\ order.cost = Cents(order.qty, order.price)
    /\ g # None => signal[g] = s
    /\ Exists(s)
    /\ TotalCost(order, fees) <= FreeCash(s)
    /\ position[p].status = NoRow
    /\ position' = [position EXCEPT
                       ![p] = [status |-> "open", owner |-> s, side |-> side,
                               qty |-> order.qty, cost |-> order.cost, realized |-> 0]]
    /\ reserved' = [reserved EXCEPT ![s] = @ + order.cost]
    /\ IF fees = 0
       THEN UNCHANGED <<strategy, cash>>
       ELSE /\ AppendCashEvent(s, "fee", -fees, p)
            /\ strategy' = [strategy EXCEPT ![s].bankroll = strategy[s].bankroll - fees]
    /\ UNCHANGED <<system, signal>>

\* Mutant: a position that was already resolved is resolved again.
HasRow(p) == position[p].status # NoRow

IsOpen(p) == position[p].status = "open"

\* resolve_position and the record_realized_pnl it calls; the kill switch does
\* not stop them.
ResolvePosition(p, res) ==
    LET s == position[p].owner
        realized == Payout(p, res) - position[p].cost
        new_bankroll == strategy[s].bankroll + realized
    IN  /\ IsOpen(p)
        /\ AppendCashEvent(s, "realized_pnl", realized, p)
        /\ strategy' = [strategy EXCEPT
                           ![s] = [strategy[s] EXCEPT
                                      !.bankroll = new_bankroll,
                                      !.hwm = IF new_bankroll > strategy[s].hwm
                                              THEN new_bankroll ELSE strategy[s].hwm]]
        /\ position' = [position EXCEPT
                           ![p] = [position[p] EXCEPT !.status = "resolved",
                                                      !.realized = realized]]
        /\ reserved' = [reserved EXCEPT ![s] = @ - position[p].cost]
        /\ UNCHANGED <<system, signal>>

-----------------------------------------------------------------------------
(* The kill switch. *)

ApplyKillSwitch ==
    /\ system' = "paused"
    /\ UNCHANGED <<strategy, cash, signal, position, reserved>>

ClearKillSwitch ==
    /\ system' = "active"
    /\ UNCHANGED <<strategy, cash, signal, position, reserved>>

-----------------------------------------------------------------------------
Init ==
    /\ system = "active"
    /\ strategy = [s \in Strategies |->
                      [ state |-> NoRow, enabled |-> FALSE, bankroll |-> 0, initial |-> 0,
                        hwm |-> 0, minBankroll |-> 0, kelly |-> 0 ]]
    /\ cash = [s \in Strategies |-> <<>>]
    /\ signal = [g \in Signals |-> NoRow]
    /\ position = [p \in Positions |->
                      [ status |-> NoRow, owner |-> NoRow, side |-> "yes", qty |-> 0,
                        cost |-> 0, realized |-> 0 ]]
    /\ reserved = [s \in Strategies |-> 0]

Next ==
    \/ Seed
    \/ \E s \in Strategies :
          \/ \E amt \in Amounts : \/ Deposit(s, amt)
                                  \/ Withdraw(s, amt)
                                  \/ SetStartingBankroll(s, amt)
          \/ \E fraction \in Fractions : SetKellyFraction(s, fraction)
          \/ Pause(s)
          \/ Resume(s)
          \/ Decommission(s)
          \/ \E g \in Signals : RecordSignal(g, s)
          \/ \E p \in Positions, g \in Signals \cup {None}, side \in Side,
                order \in Orders, fees \in Fees :
                OpenPaperPosition(p, s, g, side, order, fees)
    \/ \E p \in Positions, res \in Resolution : ResolvePosition(p, res)
    \/ ApplyKillSwitch
    \/ ClearKillSwitch

Spec == Init /\ [][Next]_vars

-----------------------------------------------------------------------------
(* Safety. *)

\* The cash events of a strategy chain and its bankroll is the last balance, so
\* it is the sum of the events whatever order the writers ran in
\* (core/ledger/reconcile.py; docs/PDD.md:413).
BankrollIsJournal ==
    \A s \in Strategies :
        Chained(cash[s]) /\ strategy[s].bankroll = LastBalance(cash[s])

\* The open positions of a strategy, and what they cost.
OpenOf(s) == {p \in Positions : position[p].status = "open" /\ position[p].owner = s}
OpenCost(s) == SumFunctionOnSet([p \in Positions |-> position[p].cost], OpenOf(s))

\* The two queries the code computes with SQL sums agree with the columns they
\* are compared with: SUM(cash_event.amount_cents) is the bankroll, and the
\* open cost basis is what was reserved, so the bankroll is never negative.
RowsReconcile ==
    \A s \in Strategies :
        /\ strategy[s].bankroll
              = SumFunctionOnSet([i \in 1..Len(cash[s]) |-> cash[s][i].amount], 1..Len(cash[s]))
        /\ reserved[s] = OpenCost(s)
        /\ strategy[s].bankroll >= 0

\* What open positions have reserved never exceeds the bankroll, whatever the
\* mix of withdrawals, fees, new baselines and losing resolutions
\* (docs/PDD.md:414).
FreeCashNonNegative == \A s \in Strategies : reserved[s] <= strategy[s].bankroll

RealizedEvents(p) ==
    UNION {{s} \X {i \in DOMAIN cash[s] : cash[s][i].kind = "realized_pnl" /\ cash[s][i].ref = p}
           : s \in Strategies}

\* A position's profit or loss is posted exactly once, when it is resolved, to
\* the strategy that opened it and for the amount its row records.
OnePnlPerResolution ==
    \A p \in Positions :
        IF position[p].status = "resolved"
        THEN \E e \in RealizedEvents(p) :
                /\ RealizedEvents(p) = {e}
                /\ e[1] = position[p].owner
                /\ cash[e[1]][e[2]].amount = position[p].realized
        ELSE RealizedEvents(p) = {}

\* The high-water mark is at least every balance a resolution ever left: a new
\* starting bankroll, which lowers the mark, cannot come after one.
HwmCoversRealized ==
    \A s \in Strategies : \A i \in 1..Len(cash[s]) :
        cash[s][i].kind = "realized_pnl" => cash[s][i].balance <= strategy[s].hwm

\* A decommissioned strategy stays so and disabled, its Kelly fraction and its
\* baseline frozen, and is never deposited to again, while withdrawals and the
\* resolution of its positions go on (.greptile/context/state-machine.md).
DecommissionedIsTerminal ==
    [][ \A s \in Strategies :
          strategy[s].state = DECOMMISSIONED =>
             /\ strategy'[s].state = DECOMMISSIONED
             /\ ~strategy'[s].enabled
             /\ strategy'[s].kelly = strategy[s].kelly
             /\ strategy'[s].minBankroll = strategy[s].minBankroll
             /\ cash'[s] # cash[s] => cash'[s][Len(cash'[s])].kind # "deposit" ]_vars

\* While the kill switch is on, the only money that moves is the settlement of
\* a position opened before: nothing is opened, signalled, transferred or
\* reconfigured.
PausedSystemOnlySettles ==
    [][ system = "paused" =>
          /\ signal' = signal
          /\ \A s \in Strategies :
                /\ reserved'[s] <= reserved[s]
                /\ strategy'[s] # strategy[s] =>
                      /\ reserved'[s] < reserved[s]
                      /\ strategy'[s].state = strategy[s].state
                      /\ strategy'[s].kelly = strategy[s].kelly
                      /\ strategy'[s].initial = strategy[s].initial ]_vars

-----------------------------------------------------------------------------
(* The ledger implements the cash book. *)

LedgerBook ==
    [s \in Strategies |->
        [ bankroll |-> strategy[s].bankroll,
          reserved |-> reserved[s],
          log |-> [i \in 1..Len(cash[s]) |->
                      [amount |-> cash[s][i].amount, balance |-> cash[s][i].balance]] ]]

Book == INSTANCE CashBook WITH book <- LedgerBook

\* Every transaction of the ledger is a move the cash book allows.
ImplementsCashBook == Book!Spec

-----------------------------------------------------------------------------
(* A statement of the documentation that the code does not keep. *)

\* docs/PDD.md:460: "A deposit does not silently raise HWM".  A rise of the mark
\* after seeding comes from the profit of a resolution or from a new baseline.
HwmRisesOnlyOnProfit ==
    [][ \A s \in Strategies :
          Exists(s) /\ strategy'[s].hwm > strategy[s].hwm =>
             \/ strategy'[s].bankroll > strategy[s].bankroll
             \/ strategy'[s].initial # strategy[s].initial ]_vars
=============================================================================
