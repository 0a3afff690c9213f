------------------------------ MODULE LedgerTx ------------------------------
(***************************************************************************)
(* The ledger's transactions interleaved as PostgreSQL runs them (READ     *)
(* COMMITTED): the control-plane handlers of core/api/v1/routes.py, each   *)
(* in a worker thread with a session of its own, and the scheduler's       *)
(* engine and resolution ticks, which share a session on the event-loop    *)
(* thread (core/scheduler.py:268-285).                                     *)
(*                                                                         *)
(* A step is one SQL statement another transaction can observe or delay.   *)
(* A row loaded into a session keeps the values it was loaded with:        *)
(* _get_strategy_row takes no lock, a SELECT FOR UPDATE does not refresh a *)
(* row the session already holds, and an UPDATE writes only the columns    *)
(* that differ from the loaded ones.  SUM queries are always fresh.  From  *)
(* its UPDATE to its commit a handler holds the row lock and changes       *)
(* nothing others can see, so flush, check_bankroll_invariant and commit   *)
(* are one step.  The event loop dispatches no request during a tick,      *)
(* which never suspends, but requests already in a thread go on.           *)
(***************************************************************************)
EXTENDS Journals, StrategyStates, Functions

CONSTANTS
    Strategies,       \* strategy names
    Requests,         \* handler threads of the control plane
    Positions,        \* ids of paper_position rows
    Ops,              \* the routes that are called
    Amounts,          \* amounts asked of the money routes, cents
    Costs,            \* costs of the orders the engine sizes, cents
    Payouts,          \* payouts of a resolution, cents
    InitialDeposit,   \* the starting bankroll of every strategy, cents
    MaxServed         \* bound on the requests one thread serves

NoRow == "no_row"
None  == "none"

MoneyOps     == {"deposit", "withdraw", "set_starting_bankroll"}
LifecycleOps == {"pause", "resume", "decommission"}
SystemOps    == {"pause_system", "resume_system"}

ASSUME TxAssumption ==
    /\ NoRow \notin Strategies /\ None \notin Strategies /\ None \notin Positions
    /\ Ops \subseteq MoneyOps \cup LifecycleOps \cup SystemOps
    /\ Amounts \subseteq Nat \ {0}
    /\ Costs \subseteq Nat \ {0}
    /\ Payouts \subseteq Nat
    /\ InitialDeposit \in Nat \ {0}
    /\ MaxServed \in Nat

VARIABLES
    system,      \* system_state.state
    strategy,    \* committed strategy_instance rows
    cash,        \* committed cash_event rows of each strategy, oldest first
    signalled,   \* strategies with a committed signal row
    position,    \* paper_position rows; "pending" is inserted but not committed
    request,     \* the handler running in each thread
    tick         \* the scheduler's session

committed == <<system, strategy, cash, signalled, position>>
vars == <<system, strategy, cash, signalled, position, request, tick>>

-----------------------------------------------------------------------------
StrategyRow ==
    [state : StrategyState, enabled : BOOLEAN, bankroll : Int, initial : Nat, hwm : Int]

CashEvent == [amount : Int, balance : Int, ref : Positions \cup {None}]

PositionRow ==
    [status : {NoRow, "pending", "open", "resolved"},
     owner : Strategies \cup {NoRow}, cost : Nat, realized : Int]

NoPosition == [status |-> NoRow, owner |-> NoRow, cost |-> 0, realized |-> 0]

Request ==
    [pc : {"idle", "dispatched", "gated", "read", "ready"},
     op : Ops \cup {None}, s : Strategies \cup {None}, amt : Nat,
     row : StrategyRow, served : 0..MaxServed]

Tick ==
    [pc : {"idle", "engine", "between", "resolution"},
     halted : BOOLEAN,                        \* the kill switch as the tick read it
     rows : [Strategies -> StrategyRow],      \* the rows the session holds
     shared : SUBSET Strategies,              \* FOR KEY SHARE, from inserts
     locked : SUBSET Strategies,              \* FOR UPDATE
     due : SUBSET Positions,                  \* open positions with a resolution
     events : [Strategies -> Seq(CashEvent)]] \* inserted but not committed

TypeOK ==
    /\ system \in {"active", "paused"}
    /\ strategy \in [Strategies -> StrategyRow]
    /\ cash \in [Strategies -> Seq(CashEvent)]
    /\ signalled \in SUBSET Strategies
    /\ position \in [Positions -> PositionRow]
    /\ request \in [Requests -> Request]
    /\ tick \in Tick

\* Stands for a row that has not been read.
Unread == [state |-> SEEDED, enabled |-> FALSE, bankroll |-> 0, initial |-> 0, hwm |-> 0]

IdleTick ==
    [pc |-> "idle", halted |-> FALSE, rows |-> [s \in Strategies |-> Unread],
     shared |-> {}, locked |-> {}, due |-> {},
     events |-> [s \in Strategies |-> <<>>]]

IdleRequest(n) ==
    [pc |-> "idle", op |-> None, s |-> None, amt |-> 0, row |-> Unread, served |-> n]

-----------------------------------------------------------------------------
(* Queries. *)

\* Mutant: resolved positions are not filtered out.
AllPositions == {p \in Positions : position[p].status \in {"open", "resolved"}}

OpenPositions == {p \in Positions : position[p].status = "open"}

HeldBy(s, statuses) ==
    {p \in Positions : position[p].owner = s /\ position[p].status \in statuses}

CostOf(s, statuses) ==
    SumFunctionOnSet([p \in Positions |-> position[p].cost], HeldBy(s, statuses))

\* free_cash_for_strategy: the bankroll the session holds, the SUM as it is now.
FreeCash(bankroll, reserved) ==
    IF bankroll - reserved > 0 THEN bankroll - reserved ELSE 0

\* Mutant: only positions still open count as trading.
HasOpenPosition(s) == \E p \in OpenPositions : position[p].owner = s

HasTradingActivity(s) ==
    s \in signalled \/ \E p \in Positions : position[p].owner = s
                                            /\ position[p].status \in {"open", "resolved"}

\* Mutant: handlers commit without check_bankroll_invariant.
Unchecked(bankroll, sum) == TRUE

\* check_bankroll_invariant.
Reconciles(bankroll, sum) == bankroll = sum

\* SUM(cash_event.amount_cents) over the events of one strategy.
SumOf(log) == SumFunctionOnSet([i \in DOMAIN log |-> log[i].amount], DOMAIN log)

\* An UPDATE of strategy s from the row the session loaded to the row it now
\* holds: only the columns that differ are written.
Updated(s, loaded, row) ==
    [f \in DOMAIN row |-> IF row[f] # loaded[f] THEN row[f] ELSE strategy[s][f]]

-----------------------------------------------------------------------------
(* The control-plane handlers. *)

Finish(c) == request' = [request EXCEPT ![c] = IdleRequest(@.served)]

Goto(c, pc) == request' = [request EXCEPT ![c].pc = pc]

Dispatch(c, op, s, amt) ==
    /\ tick.pc = "idle"
    /\ request[c].pc = "idle"
    /\ request[c].served < MaxServed
    /\ amt > 0 <=> op \in MoneyOps
    /\ request' = [request EXCEPT
                      ![c] = [pc |-> "dispatched", op |-> op, s |-> s, amt |-> amt,
                              row |-> Unread, served |-> @.served + 1]]
    /\ UNCHANGED <<committed, tick>>

\* _require_system_active: the kill switch is read first.
Gate(c) ==
    /\ request[c].pc = "dispatched"
    /\ request[c].op \notin SystemOps
    /\ IF system = "paused" THEN Finish(c) ELSE Goto(c, "gated")
    /\ UNCHANGED <<committed, tick>>

Allowed(op, st) ==
    /\ op = "deposit" => st \notin DEPOSIT_BLOCKED_STATES
    /\ op = "pause"   => can_pause(st)
    /\ op = "resume"  => can_resume(st)

\* _get_strategy_row, without a lock, and the check on the state it shows.
ReadRow(c) ==
    LET r == request[c]
    IN  /\ r.pc = "gated"
        /\ r.op # "set_starting_bankroll"
        /\ IF Allowed(r.op, strategy[r.s].state)
           THEN request' = [request EXCEPT
                               ![c].row = strategy[r.s],
                               ![c].pc = IF r.op = "withdraw" THEN "read" ELSE "ready"]
           ELSE Finish(c)
        /\ UNCHANGED <<committed, tick>>

\* withdraw: the amount is checked against free cash.
ReadFreeCash(c) ==
    LET r == request[c]
    IN  /\ r.pc = "read"
        /\ IF r.amt <= FreeCash(r.row.bankroll, CostOf(r.s, {"open"}))
           THEN Goto(c, "ready")
           ELSE Finish(c)
        /\ UNCHANGED <<committed, tick>>

\* deposit and withdraw: the UPDATE waits for the row lock, then the bankroll
\* is compared with the sum of the events, and the transaction commits or is
\* rolled back.
FlushBankroll(c) ==
    LET r == request[c]
        delta == IF r.op = "deposit" THEN r.amt ELSE -r.amt
        bankroll == r.row.bankroll + delta
        resumes == /\ r.op = "deposit"
                   /\ should_auto_resume_on_deposit(r.row.state, bankroll, r.row.initial)
        row == [r.row EXCEPT !.bankroll = bankroll,
                             !.state = IF resumes THEN ResumeTarget ELSE @]
        log == Append(cash[r.s], [amount |-> delta, balance |-> bankroll, ref |-> None])
    IN  /\ r.pc = "ready"
        /\ r.op \in {"deposit", "withdraw"}
        /\ r.s \notin tick.locked
        /\ Finish(c)
        /\ IF Reconciles(bankroll, SumOf(log))
           THEN /\ strategy' = [strategy EXCEPT ![r.s] = Updated(r.s, r.row, row)]
                /\ cash' = [cash EXCEPT ![r.s] = log]
           ELSE UNCHANGED <<strategy, cash>>
        /\ UNCHANGED <<system, signalled, position, tick>>

\* pause, resume and decommission: no check follows the UPDATE.
FlushLifecycle(c) ==
    LET r == request[c]
        row == [r.row EXCEPT
                   !.state = CASE r.op = "pause"  -> PauseTarget
                               [] r.op = "resume" -> ResumeTarget
                               [] OTHER           -> DECOMMISSIONED,
                   !.enabled = @ /\ r.op # "decommission"]
    IN  /\ r.pc = "ready"
        /\ r.op \in LifecycleOps
        /\ r.s \notin tick.locked
        /\ Finish(c)
        /\ strategy' = [strategy EXCEPT ![r.s] = Updated(r.s, r.row, row)]
        /\ UNCHANGED <<system, cash, signalled, position, tick>>

\* Mutant: the row is read without FOR UPDATE.
NoLockNeeded(s) == TRUE

\* What SELECT FOR UPDATE on strategy s waits for.
Unlocked(s) == s \notin tick.locked /\ s \notin tick.shared

BaselineEvents(log, delta, amt) ==
    IF delta = 0 THEN log
    ELSE Append(log, [amount |-> delta, balance |-> amt, ref |-> None])

\* set_starting_bankroll: the row is locked before it is first read, and trading
\* activity is looked for under the lock.
FlushBaseline(c) ==
    LET r == request[c]
        row == strategy[r.s]
        log == BaselineEvents(cash[r.s], r.amt - row.bankroll, r.amt)
    IN  /\ r.pc = "gated"
        /\ r.op = "set_starting_bankroll"
        /\ Unlocked(r.s)
        /\ Finish(c)
        /\ IF /\ row.state # DECOMMISSIONED
              /\ ~HasTradingActivity(r.s)
              /\ Reconciles(r.amt, SumOf(log))
           THEN /\ strategy' = [strategy EXCEPT ![r.s].bankroll = r.amt,
                                                ![r.s].initial = r.amt,
                                                ![r.s].hwm = r.amt]
                /\ cash' = [cash EXCEPT ![r.s] = log]
           ELSE UNCHANGED <<strategy, cash>>
        /\ UNCHANGED <<system, signalled, position, tick>>

\* apply_kill_switch and clear_kill_switch: one unconditional row update.
FlipSystem(c) ==
    /\ request[c].pc = "dispatched"
    /\ request[c].op \in SystemOps
    /\ Finish(c)
    /\ system' = IF request[c].op = "pause_system" THEN "paused" ELSE "active"
    /\ UNCHANGED <<strategy, cash, signalled, position, tick>>

-----------------------------------------------------------------------------
(* The engine tick. *)

\* The kill switch and every strategy row are read once, when the tick starts.
TickBegin ==
    /\ tick.pc = "idle"
    /\ tick' = [IdleTick EXCEPT !.pc = "engine", !.halted = (system = "paused"),
                                !.rows = strategy]
    /\ UNCHANGED <<committed, request>>

Emits(s) ==
    /\ tick.pc = "engine"
    /\ can_emit_signals(tick.rows[s].enabled, tick.rows[s].state, 1)

\* record_signal for an evaluation that sizing rejects.
RecordRejection(s) ==
    /\ Emits(s)
    /\ system # "paused"
    /\ tick' = [tick EXCEPT !.shared = @ \cup {s}]
    /\ UNCHANGED <<committed, request>>

\* Mutant: the engine's own uncommitted positions are not seen.
ReservedCommitted(s) == CostOf(s, {"open"})

\* reserved_open_cost_basis_cents in the engine's session.
ReservedInTick(s) == CostOf(s, {"open", "pending"})

\* record_signal and open_paper_position for an order that sizing accepts.
PlaceOrder(s, p, cost) ==
    /\ Emits(s)
    /\ ~tick.halted
    /\ position[p].status = NoRow
    /\ cost <= FreeCash(tick.rows[s].bankroll, ReservedInTick(s))
    /\ system # "paused"
    /\ position' = [position EXCEPT
                       ![p] = [status |-> "pending", owner |-> s, cost |-> cost, realized |-> 0]]
    /\ tick' = [tick EXCEPT !.shared = @ \cup {s}, !.locked = @ \cup {s}]
    /\ UNCHANGED <<system, strategy, cash, signalled, request>>

RolledBack ==
    [p \in Positions |-> IF position[p].status = "pending" THEN NoPosition ELSE position[p]]

\* Mutant: the session is neither rolled back nor closed.
EngineFailsOpen ==
    /\ system = "paused"
    /\ \E s \in Strategies : Emits(s)
    /\ tick' = [IdleTick EXCEPT !.locked = tick.locked]
    /\ UNCHANGED <<system, strategy, cash, signalled, position, request>>

\* A signal recorded while the kill switch is on raises LedgerError: the cycle
\* fails, its transaction is rolled back and no resolution tick follows.
EngineFails ==
    /\ system = "paused"
    /\ \E s \in Strategies : Emits(s)
    /\ position' = RolledBack
    /\ tick' = IdleTick
    /\ UNCHANGED <<system, strategy, cash, signalled, request>>

EngineCommit ==
    /\ tick.pc = "engine"
    /\ position' = [p \in Positions |->
                       IF position[p].status = "pending"
                       THEN [position[p] EXCEPT !.status = "open"] ELSE position[p]]
    /\ signalled' = signalled \cup tick.shared
    /\ tick' = [IdleTick EXCEPT !.pc = "between"]
    /\ UNCHANGED <<system, strategy, cash, request>>

-----------------------------------------------------------------------------
(* The resolution tick. *)

ResolutionBegin ==
    /\ tick.pc = "between"
    /\ \E due \in SUBSET OpenPositions :
          tick' = [tick EXCEPT !.pc = "resolution", !.due = due]
    /\ UNCHANGED <<committed, request>>

\* The row record_realized_pnl locks: the engine's rows are gone by now, so the
\* first lock of a strategy reads it fresh.
LockedRow(s) == IF s \in tick.locked THEN tick.rows[s] ELSE strategy[s]

Settle(p, payout) ==
    LET s == position[p].owner
        row == LockedRow(s)
        realized == payout - position[p].cost
        bankroll == row.bankroll + realized
    IN  /\ tick.pc = "resolution"
        /\ p \in tick.due
        /\ tick' = [tick EXCEPT
               !.due = @ \ {p},
               !.locked = @ \cup {s},
               !.rows[s] = [row EXCEPT !.bankroll = bankroll,
                                       !.hwm = IF bankroll > @ THEN bankroll ELSE @],
               !.events[s] = Append(@, [amount |-> realized, balance |-> bankroll, ref |-> p])]
        /\ UNCHANGED <<committed, request>>

SettledBy(p) ==
    {e \in UNION {{tick.events[s][i] : i \in 1..Len(tick.events[s])} : s \in Strategies} :
        e.ref = p}

ResolutionCommit ==
    /\ tick.pc = "resolution"
    /\ tick.due = {}
    /\ strategy' = [s \in Strategies |->
                       IF s \in tick.locked
                       THEN [strategy[s] EXCEPT !.bankroll = tick.rows[s].bankroll,
                                                !.hwm = tick.rows[s].hwm]
                       ELSE strategy[s]]
    /\ cash' = [s \in Strategies |-> cash[s] \o tick.events[s]]
    /\ position' = [p \in Positions |->
                       IF SettledBy(p) = {} THEN position[p]
                       ELSE [position[p] EXCEPT !.status = "resolved",
                               !.realized = (CHOOSE e \in SettledBy(p) : TRUE).amount]]
    /\ tick' = IdleTick
    /\ UNCHANGED <<system, signalled, request>>

-----------------------------------------------------------------------------
\* The process stops: every open transaction is rolled back.
Crash ==
    /\ position' = RolledBack
    /\ tick' = IdleTick
    /\ request' = [c \in Requests |-> IdleRequest(request[c].served)]
    /\ UNCHANGED <<system, strategy, cash, signalled>>

Init ==
    /\ system = "active"
    /\ strategy = [s \in Strategies |->
                      [state |-> ACTIVE, enabled |-> TRUE, bankroll |-> InitialDeposit,
                       initial |-> InitialDeposit, hwm |-> InitialDeposit]]
    /\ cash = [s \in Strategies |->
                  <<[amount |-> InitialDeposit, balance |-> InitialDeposit, ref |-> None]>>]
    /\ signalled = {}
    /\ position = [p \in Positions |-> NoPosition]
    /\ request = [c \in Requests |-> IdleRequest(0)]
    /\ tick = IdleTick

Handle(c) == Gate(c) \/ ReadRow(c) \/ ReadFreeCash(c) \/ FlipSystem(c)

\* The steps that wait for a row lock.
Flush(c) == FlushBankroll(c) \/ FlushLifecycle(c) \/ FlushBaseline(c)

EngineTick ==
    \/ TickBegin
    \/ \E s \in Strategies : RecordRejection(s)
    \/ \E s \in Strategies, p \in Positions, cost \in Costs : PlaceOrder(s, p, cost)
    \/ EngineFails
    \/ EngineCommit

ResolutionTick ==
    \/ ResolutionBegin
    \/ \E p \in Positions, payout \in Payouts : Settle(p, payout)
    \/ ResolutionCommit

Next ==
    \/ \E c \in Requests :
          \/ \E op \in Ops, s \in Strategies, amt \in Amounts \cup {0} : Dispatch(c, op, s, amt)
          \/ Handle(c)
          \/ Flush(c)
    \/ EngineTick
    \/ ResolutionTick
    \/ Crash

Spec == Init /\ [][Next]_vars

\* Handlers and ticks run until they end; a waiter for a row lock gets it, as
\* the lock queue is first come, first served.  Nobody has to make a request,
\* and the process may crash.
Fairness ==
    /\ \A c \in Requests : WF_vars(Handle(c)) /\ SF_vars(Flush(c))
    /\ WF_vars(EngineCommit \/ EngineFails)
    /\ WF_vars(ResolutionTick)

FairSpec == Spec /\ Fairness

-----------------------------------------------------------------------------
(* Safety. *)

Journal == INSTANCE CashJournal
           WITH journal <- [s \in Strategies |->
                               [bankroll |-> strategy[s].bankroll, log |-> cash[s]]]

\* However handlers and ticks interleave, a committed bankroll moves only with
\* events appended to the journal, and equals their sum: a handler that read
\* the row before another changed it is refused (core/ledger/reconcile.py).
ImplementsCashJournal == Journal!Spec

\* In every committed state the bankroll is the sum of the cash events
\* (docs/PDD.md:412): neither two handlers that read the same row, nor a tick
\* that settles meanwhile, loses an amount (core/ledger/reconcile.py).
BankrollIsSum == \A s \in Strategies : strategy[s].bankroll = SumOf(cash[s])

SettlementsOf(p) ==
    UNION {{s} \X {i \in DOMAIN cash[s] : cash[s][i].ref = p} : s \in Strategies}

\* A position is settled exactly once, to its owner, for the amount its row
\* records, and no event of a tick that did not commit is ever seen.
SettledOnce ==
    \A p \in Positions :
        IF position[p].status = "resolved"
        THEN \E e \in SettlementsOf(p) :
                /\ SettlementsOf(p) = {e}
                /\ e[1] = position[p].owner
                /\ cash[e[1]][e[2]].amount = position[p].realized
        ELSE SettlementsOf(p) = {}

\* The high-water mark is at least every balance a resolution left, though
\* set_starting_bankroll, which lowers it, may race with the first signal.
HwmCoversRealized ==
    \A s \in Strategies : \A i \in 1..Len(cash[s]) :
        cash[s][i].ref # None => cash[s][i].balance <= strategy[s].hwm

\* From the first signal the engine writes, committed or not, the baseline of
\* the strategy is frozen: the lock of set_starting_bankroll meets the key
\* share lock of the signal's foreign key.
BaselineFrozenByTrading ==
    [][ \A s \in Strategies :
          s \in tick.shared \/ HasTradingActivity(s) =>
             strategy'[s].initial = strategy[s].initial ]_vars

\* Every request is answered and every tick ends: no lock is left behind by a
\* failed tick, and nobody waits for ever.
EveryoneFinishes ==
    /\ \A c \in Requests : request[c].pc # "idle" ~> request[c].pc = "idle"
    /\ tick.pc # "idle" ~> tick.pc = "idle"

Covered(s) == CostOf(s, {"open"}) <= strategy[s].bankroll

\* The open cost of a strategy outgrows its bankroll in two races only: a tick
\* commits orders sized against a bankroll that a debit lowered since it read
\* the row, or a withdrawal commits after orders took the cash it had found
\* free.  No order of deposits, resolutions, crashes and ticks does it.
OverdrawnOnlyByDebitRace ==
    [][ \A s \in Strategies :
          Covered(s) /\ ~Covered(s)' =>
             \/ tick.pc = "engine" /\ tick.rows[s].bankroll > strategy[s].bankroll
             \/ \E c \in Requests : /\ request[c].op = "withdraw" /\ request[c].s = s
                                    /\ request[c].pc = "ready" /\ request'[c].pc = "idle" ]_vars

-----------------------------------------------------------------------------
(* Documented properties that hold only where nothing races. *)

\* docs/PDD.md:414: free cash, the bankroll less the open cost basis, is never
\* negative.
FreeCashNonNegative == \A s \in Strategies : Covered(s)

\* .greptile/context/state-machine.md: decommissioned is terminal.
DecommissionedIsTerminal ==
    [][ \A s \in Strategies :
          strategy[s].state = DECOMMISSIONED => strategy'[s].state = DECOMMISSIONED ]_vars
=============================================================================
