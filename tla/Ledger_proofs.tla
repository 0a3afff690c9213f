---------------------------- MODULE Ledger_proofs ----------------------------
(***************************************************************************)
(* The ledger's safety for any strategies, positions, orders and amounts.  *)
(*                                                                         *)
(* Neither BankrollIsJournal nor FreeCashNonNegative is inductive.  A new  *)
(* starting bankroll ignores what is reserved, so it must be known that a  *)
(* strategy without trading activity has nothing reserved; seeding writes  *)
(* the first event of a strategy, so a missing strategy must have none;    *)
(* and a resolution pays the owner of the position, who must have a row.   *)
(***************************************************************************)
EXTENDS Ledger, Sum_proofs

\* A strategy without a row has neither events nor open positions.
MissingIsEmpty ==
    \A s \in Strategies : ~Exists(s) => cash[s] = <<>> /\ reserved[s] = 0

\* Only a strategy that has traded has something reserved.
UntradedReservesNothing ==
    \A s \in Strategies : ~HasTradingActivity(s) => reserved[s] = 0

\* An open position belongs to a strategy and cost something.
OpenIsOwned ==
    \A p \in Positions : IsOpen(p) => /\ position[p].owner \in Strategies
                                      /\ Exists(position[p].owner)
                                      /\ position[p].cost > 0

Rows == MissingIsEmpty /\ UntradedReservesNothing /\ OpenIsOwned

IInv == TypeOK /\ Rows /\ BankrollIsJournal /\ FreeCashNonNegative

-----------------------------------------------------------------------------
(* Amounts. *)

\* A resolution never takes money beyond the cost of the position.
LEMMA PayoutNatural ==
  ASSUME TypeOK, NEW p \in Positions, NEW res \in Resolution
  PROVE  Payout(p, res) \in Nat
<1> DEFINE mills == IF position[p].side = "yes" THEN SettlementValue(res)
                                                ELSE 1000 - SettlementValue(res)
<1>1. position[p].qty \in Nat /\ position[p].cost \in Nat
  BY DEF TypeOK, PositionRow
<1>2. mills = 0 \/ mills = 1000
  BY DEF SettlementValue
<1>3. Cents(position[p].qty, 0) \in Nat /\ Cents(position[p].qty, 1000) \in Nat
  BY <1>1 DEF Cents
<1>4. Cents(position[p].qty, mills) \in Nat
  BY <1>2, <1>3
<1> QED
  BY <1>1, <1>4 DEF Payout

\* The Kelly fraction stays between 0 and 100 percent.
LEMMA ClampedInRange == \A fraction \in Int : Clamped(fraction) \in 0..100
  BY DEF Clamped

\* An amount that free cash covers leaves the open positions covered.
LEMMA FreeCashCovers ==
  ASSUME TypeOK, NEW s \in Strategies, NEW amt \in Int, amt > 0, amt <= FreeCash(s)
  PROVE  reserved[s] <= strategy[s].bankroll - amt
  BY DEF TypeOK, StrategyRow, FreeCash

\* The event _append_cash_event adds for strategy s keeps its journal chained
\* and ends it at the bankroll plus the amount; other journals do not change.
LEMMA AppendKeepsJournal ==
  ASSUME TypeOK, BankrollIsJournal,
         NEW s \in Strategies, NEW kind \in Kind, NEW amt \in Int,
         NEW ref \in Positions \cup {None},
         AppendCashEvent(s, kind, amt, ref)
  PROVE  /\ cash' \in [Strategies -> Seq(CashEvent)]
         /\ cash'[s] # <<>>
         /\ Chained(cash'[s])
         /\ LastBalance(cash'[s]) = strategy[s].bankroll + amt
         /\ \A t \in Strategies \ {s} : cash'[t] = cash[t]
<1> DEFINE e == [kind |-> kind, amount |-> amt,
                 balance |-> strategy[s].bankroll + amt, ref |-> ref]
<1>1. strategy[s].bankroll \in Int /\ cash[s] \in Seq(CashEvent)
  BY DEF TypeOK, StrategyRow
<1>2. e \in CashEvent
  BY <1>1 DEF CashEvent
<1>3. cash' = [cash EXCEPT ![s] = Append(cash[s], e)]
  BY DEF AppendCashEvent
<1>4. cash'[s] = Append(cash[s], e) /\ \A t \in Strategies \ {s} : cash'[t] = cash[t]
  BY <1>3 DEF TypeOK
<1>5. e.balance = e.amount + LastBalance(cash[s])
  BY <1>1 DEF BankrollIsJournal
<1>6. Chained(cash'[s]) /\ LastBalance(cash'[s]) = e.balance
  <2> HIDE DEF e
  <2> QED
    BY <1>1, <1>2, <1>4, <1>5, AppendChains DEF BankrollIsJournal
<1>7. cash' \in [Strategies -> Seq(CashEvent)] /\ cash'[s] # <<>>
  BY <1>1, <1>2, <1>3, <1>4 DEF TypeOK
<1> QED
  BY <1>4, <1>6, <1>7

-----------------------------------------------------------------------------
(* What a step must show to keep the invariant. *)

\* What writing one strategy row leaves of the others.
LEMMA RowWritten ==
  ASSUME TypeOK, NEW s \in Strategies, NEW row \in StrategyRow,
         strategy' = [strategy EXCEPT ![s] = row]
  PROVE  /\ strategy' \in [Strategies -> StrategyRow]
         /\ strategy'[s] = row
         /\ \A t \in Strategies \ {s} : strategy'[t] = strategy[t]
  BY DEF TypeOK

\* Rows are kept when positions, signals and reservations are, no strategy
\* loses its row, and none without a row gets an event.
LEMMA RowsKept ==
  ASSUME Rows, UNCHANGED <<signal, position, reserved>>,
         \A s \in Strategies : Exists(s) => Exists(s)',
         \A s \in Strategies : ~Exists(s) => cash'[s] = cash[s]
  PROVE  Rows'
<1>1. MissingIsEmpty'
  BY DEF Rows, MissingIsEmpty, Exists
<1>2. UntradedReservesNothing'
  BY DEF Rows, UntradedReservesNothing, HasTradingActivity
<1>3. OpenIsOwned'
  BY DEF Rows, OpenIsOwned, IsOpen, Exists
<1> QED
  BY <1>1, <1>2, <1>3 DEF Rows

\* Money is kept when no bankroll, event or reservation changes.
LEMMA MoneyKept ==
  ASSUME BankrollIsJournal, FreeCashNonNegative, UNCHANGED <<cash, reserved>>,
         \A s \in Strategies : strategy'[s].bankroll = strategy[s].bankroll
  PROVE  BankrollIsJournal' /\ FreeCashNonNegative'
  BY DEF BankrollIsJournal, FreeCashNonNegative

\* Money is kept when one bankroll changes by the amount of an event appended
\* for it and still covers what is reserved.
LEMMA MoneyMoved ==
  ASSUME TypeOK, BankrollIsJournal, FreeCashNonNegative,
         NEW s \in Strategies, NEW kind \in Kind, NEW amt \in Int,
         NEW ref \in Positions \cup {None},
         AppendCashEvent(s, kind, amt, ref),
         strategy'[s].bankroll = strategy[s].bankroll + amt,
         reserved'[s] <= strategy'[s].bankroll,
         \A t \in Strategies \ {s} : /\ strategy'[t].bankroll = strategy[t].bankroll
                                     /\ reserved'[t] = reserved[t]
  PROVE  BankrollIsJournal' /\ FreeCashNonNegative'
<1>1. /\ Chained(cash'[s])
      /\ LastBalance(cash'[s]) = strategy[s].bankroll + amt
      /\ \A t \in Strategies \ {s} : cash'[t] = cash[t]
  BY AppendKeepsJournal
<1>2. BankrollIsJournal'
  BY <1>1 DEF BankrollIsJournal
<1>3. FreeCashNonNegative'
  BY DEF FreeCashNonNegative
<1> QED
  BY <1>2, <1>3

-----------------------------------------------------------------------------
(* Each action keeps the invariant. *)

\* The empty database satisfies the invariant.
LEMMA InitInv == Init => IInv
<1> SUFFICES ASSUME Init PROVE IInv
  OBVIOUS
<1>1. TypeOK
  BY ConstantsAssumption
  DEF Init, TypeOK, SystemState, StrategyRow, CashEvent, PositionRow, Side
<1>2. Rows
  BY ConstantsAssumption
  DEF Init, Rows, MissingIsEmpty, UntradedReservesNothing, OpenIsOwned, Exists, IsOpen, NoRow
<1>3. BankrollIsJournal /\ FreeCashNonNegative
  BY EmptyJournal DEF Init, BankrollIsJournal, FreeCashNonNegative
<1> QED
  BY <1>1, <1>2, <1>3 DEF IInv

\* Seeding writes rows, and their first deposits, that satisfy it.
LEMMA SeedInv == ASSUME IInv, Seed PROVE IInv'
<1> USE DEF Seed
<1>1. \A s \in Strategies : SeededRow(s) \in StrategyRow /\ Exists(s)'
  <2>1. \A s \in Strategies : SeededRow(s) \in StrategyRow
    BY ConstantsAssumption DEF SeededRow, StrategyRow, StrategyState, ACTIVE
  <2>2. ASSUME NEW s \in Strategies PROVE Exists(s)'
    <3>1. CASE s \in Missing
      BY <3>1 DEF SeededRow, Exists, ACTIVE, NoRow
    <3>2. CASE s \notin Missing
      BY <3>2 DEF Missing, Exists
    <3> QED
      BY <3>1, <3>2
  <2> QED
    BY <2>1, <2>2
<1>2. \A s \in Strategies :
         /\ SeedDeposit(s) \in CashEvent
         /\ <<SeedDeposit(s)>> \in Seq(CashEvent)
  BY ConstantsAssumption DEF SeedDeposit, CashEvent, Kind
<1>3. TypeOK'
  BY <1>1, <1>2 DEF IInv, TypeOK
<1>4. Rows'
  <2>1. MissingIsEmpty'
    BY <1>1 DEF MissingIsEmpty
  <2>2. UntradedReservesNothing'
    BY DEF IInv, Rows, UntradedReservesNothing, HasTradingActivity
  <2>3. OpenIsOwned'
    BY <1>1 DEF IInv, Rows, OpenIsOwned, IsOpen
  <2> QED
    BY <2>1, <2>2, <2>3 DEF Rows
<1>5. ASSUME NEW s \in Strategies
      PROVE  /\ Chained(cash'[s])
             /\ strategy'[s].bankroll = LastBalance(cash'[s])
             /\ reserved'[s] <= strategy'[s].bankroll
  <2>1. CASE s \in Missing
    <3>1. cash'[s] = <<SeedDeposit(s)>> /\ strategy'[s].bankroll = InitialDeposit[s]
      BY <2>1 DEF SeededRow
    <3>2. Chained(cash'[s]) /\ LastBalance(cash'[s]) = InitialDeposit[s]
      <4>1. /\ SeedDeposit(s).amount = InitialDeposit[s]
            /\ SeedDeposit(s).balance = InitialDeposit[s]
            /\ InitialDeposit[s] \in Int
        BY ConstantsAssumption DEF SeedDeposit
      <4> QED
        BY <3>1, <4>1, FirstEventChains
    <3>3. reserved'[s] = 0
      BY <2>1 DEF IInv, Rows, MissingIsEmpty, Missing
    <3> QED
      BY <3>1, <3>2, <3>3, ConstantsAssumption
  <2>2. CASE s \notin Missing
    BY <2>2 DEF IInv, BankrollIsJournal, FreeCashNonNegative
  <2> QED
    BY <2>1, <2>2
<1> QED
  BY <1>3, <1>4, <1>5 DEF IInv, BankrollIsJournal, FreeCashNonNegative

\* A deposit keeps the invariant.
LEMMA DepositInv ==
  ASSUME IInv, NEW s \in Strategies, NEW amt \in Amounts, Deposit(s, amt)
  PROVE  IInv'
<1>1. /\ amt \in Int /\ amt > 0 /\ "deposit" \in Kind
      /\ AppendCashEvent(s, "deposit", amt, None)
      /\ Exists(s)
      /\ UNCHANGED <<system, signal, position, reserved>>
  BY ConstantsAssumption DEF Deposit, Kind
<1>2. PICK st \in {strategy[s].state, ACTIVE} :
         strategy' = [strategy EXCEPT
                         ![s] = [strategy[s] EXCEPT !.bankroll = strategy[s].bankroll + amt,
                                                    !.state = st]]
  BY DEF Deposit, ResumeTarget
<1> DEFINE row == [strategy[s] EXCEPT !.bankroll = strategy[s].bankroll + amt, !.state = st]
<1>3. strategy[s] \in StrategyRow /\ strategy[s].bankroll \in Int
  BY DEF IInv, TypeOK, StrategyRow
<1>4. st \in StrategyState \cup {NoRow} /\ st # NoRow
  BY <1>1, <1>3 DEF Exists, StrategyRow, StrategyState, ACTIVE, NoRow
<1>5. row \in StrategyRow /\ row.bankroll = strategy[s].bankroll + amt /\ row.state = st
  <2>1. strategy[s].bankroll + amt \in Int
    BY <1>1, <1>3
  <2> QED
    BY <1>3, <1>4, <2>1 DEF StrategyRow
<1> HIDE DEF row
<1>6. /\ strategy' \in [Strategies -> StrategyRow]
      /\ strategy'[s] = row
      /\ \A t \in Strategies \ {s} : strategy'[t] = strategy[t]
  BY <1>2, <1>5, RowWritten DEF IInv, row
<1>7. TypeOK'
  BY <1>1, <1>6, AppendKeepsJournal DEF IInv, TypeOK
<1>8. Rows'
  <2>1. \A t \in Strategies : Exists(t) => Exists(t)'
    BY <1>4, <1>5, <1>6 DEF Exists
  <2>2. \A t \in Strategies : ~Exists(t) => cash'[t] = cash[t]
    BY <1>1, AppendKeepsJournal DEF IInv
  <2> QED
    BY <1>1, <2>1, <2>2, RowsKept DEF IInv
<1>9. BankrollIsJournal' /\ FreeCashNonNegative'
  <2>1. reserved'[s] <= strategy'[s].bankroll
    BY <1>1, <1>3, <1>5, <1>6 DEF IInv, TypeOK, FreeCashNonNegative
  <2> QED
    BY <1>1, <1>5, <1>6, <2>1, MoneyMoved DEF IInv
<1> QED
  BY <1>7, <1>8, <1>9 DEF IInv

\* A withdrawal keeps the invariant.
LEMMA WithdrawInv ==
  ASSUME IInv, NEW s \in Strategies, NEW amt \in Amounts, Withdraw(s, amt)
  PROVE  IInv'
<1>1. /\ amt \in Int /\ -amt \in Int /\ amt > 0 /\ amt <= FreeCash(s) /\ "withdraw" \in Kind
      /\ AppendCashEvent(s, "withdraw", -amt, None)
      /\ Exists(s)
      /\ UNCHANGED <<system, signal, position, reserved>>
  BY ConstantsAssumption DEF Withdraw, Kind
<1> DEFINE row == [strategy[s] EXCEPT !.bankroll = strategy[s].bankroll - amt]
<1>2. strategy' = [strategy EXCEPT ![s] = row]
  BY DEF Withdraw
<1>3. strategy[s] \in StrategyRow /\ strategy[s].bankroll \in Int
  BY DEF IInv, TypeOK, StrategyRow
<1>4. /\ row \in StrategyRow
      /\ row.bankroll = strategy[s].bankroll + (-amt)
      /\ row.bankroll = strategy[s].bankroll - amt
      /\ row.state = strategy[s].state
  <2>1. strategy[s].bankroll - amt \in Int
    BY <1>1, <1>3
  <2>2. row \in StrategyRow /\ row.bankroll = strategy[s].bankroll - amt
    BY <1>3, <2>1 DEF StrategyRow
  <2>3. row.state = strategy[s].state
    BY <1>3 DEF StrategyRow
  <2> QED
    BY <1>1, <1>3, <2>2, <2>3
<1> HIDE DEF row
<1>5. /\ strategy' \in [Strategies -> StrategyRow]
      /\ strategy'[s] = row
      /\ \A t \in Strategies \ {s} : strategy'[t] = strategy[t]
  BY <1>2, <1>4, RowWritten DEF IInv
<1>6. TypeOK'
  BY <1>1, <1>5, AppendKeepsJournal DEF IInv, TypeOK
<1>7. Rows'
  <2>1. \A t \in Strategies : Exists(t) => Exists(t)'
    BY <1>4, <1>5 DEF Exists
  <2>2. \A t \in Strategies : ~Exists(t) => cash'[t] = cash[t]
    BY <1>1, AppendKeepsJournal DEF IInv
  <2> QED
    BY <1>1, <2>1, <2>2, RowsKept DEF IInv
<1>8. BankrollIsJournal' /\ FreeCashNonNegative'
  <2>1. reserved'[s] <= strategy'[s].bankroll
    BY <1>1, <1>4, <1>5, FreeCashCovers DEF IInv
  <2> QED
    BY <1>1, <1>4, <1>5, <2>1, MoneyMoved DEF IInv
<1> QED
  BY <1>6, <1>7, <1>8 DEF IInv

\* The case that needs UntradedReservesNothing: the new bankroll is compared
\* with nothing, as an untraded strategy has no open position.
LEMMA SetStartingBankrollInv ==
  ASSUME IInv, NEW s \in Strategies, NEW amt \in Amounts, SetStartingBankroll(s, amt)
  PROVE  IInv'
<1> DEFINE delta == amt - strategy[s].bankroll
           kind == IF delta > 0 THEN "deposit" ELSE "withdraw"
           row == Baseline([strategy[s] EXCEPT !.bankroll = amt], amt)
<1>1. strategy[s] \in StrategyRow /\ strategy[s].bankroll \in Int
  BY DEF IInv, TypeOK, StrategyRow
<1>2. /\ amt \in Nat \ {0} /\ delta \in Int /\ kind \in Kind
      /\ amt = strategy[s].bankroll + delta
      /\ UNCHANGED <<system, signal, position, reserved>>
      /\ strategy' = [strategy EXCEPT ![s] = row]
  BY <1>1, ConstantsAssumption DEF SetStartingBankroll, Kind
<1>3. Exists(s)
  BY DEF SetStartingBankroll
<1>4. reserved[s] = 0
  BY DEF SetStartingBankroll, IInv, Rows, UntradedReservesNothing
<1>5. row \in StrategyRow /\ row.bankroll = amt /\ row.state = strategy[s].state
  <2> DEFINE paid == [strategy[s] EXCEPT !.bankroll = amt]
  <2>1. paid \in StrategyRow /\ paid.bankroll = amt /\ paid.state = strategy[s].state
    BY <1>1, <1>2 DEF StrategyRow
  <2>2. row = [paid EXCEPT !.initial = amt, !.hwm = amt, !.minBankroll = amt]
    BY DEF Baseline
  <2> HIDE DEF paid, row
  <2>3. row \in StrategyRow /\ row.bankroll = paid.bankroll /\ row.state = paid.state
    BY <1>2, <2>1, <2>2 DEF StrategyRow
  <2> QED
    BY <2>1, <2>3
<1> HIDE DEF row
<1>6. /\ strategy' \in [Strategies -> StrategyRow]
      /\ strategy'[s] = row
      /\ \A t \in Strategies \ {s} : strategy'[t] = strategy[t]
  BY <1>2, <1>5, RowWritten DEF IInv
<1>7. \A t \in Strategies : Exists(t) => Exists(t)'
  BY <1>5, <1>6 DEF Exists
<1>8. CASE delta = 0
  <2>1. cash' = cash
    BY <1>8 DEF SetStartingBankroll
  <2>2. amt = strategy[s].bankroll
    BY <1>1, <1>2, <1>8
  <2>3. \A t \in Strategies : strategy'[t].bankroll = strategy[t].bankroll
    BY <1>5, <1>6, <2>2
  <2>4. TypeOK'
    BY <1>2, <1>6, <2>1 DEF IInv, TypeOK
  <2> QED
    BY <1>2, <1>7, <2>1, <2>3, <2>4, RowsKept, MoneyKept DEF IInv
<1>9. CASE delta # 0
  <2>1. AppendCashEvent(s, kind, delta, None)
    BY <1>9 DEF SetStartingBankroll
  <2> HIDE DEF delta, kind
  <2>2. TypeOK'
    BY <1>2, <1>6, <2>1, AppendKeepsJournal DEF IInv, TypeOK
  <2>3. \A t \in Strategies : ~Exists(t) => cash'[t] = cash[t]
    BY <1>2, <1>3, <2>1, AppendKeepsJournal DEF IInv
  <2>4. Rows'
    BY <1>2, <1>7, <2>3, RowsKept DEF IInv
  <2>5. reserved'[s] <= strategy'[s].bankroll
    BY <1>2, <1>4, <1>5, <1>6
  <2>6. BankrollIsJournal' /\ FreeCashNonNegative'
    BY <1>2, <1>5, <1>6, <2>1, <2>5, MoneyMoved DEF IInv
  <2> QED
    BY <2>2, <2>4, <2>6 DEF IInv
<1> QED
  BY <1>8, <1>9

\* Setting the Kelly fraction keeps the invariant.
LEMMA SetKellyFractionInv ==
  ASSUME IInv, NEW s \in Strategies, NEW fraction \in Fractions, SetKellyFraction(s, fraction)
  PROVE  IInv'
<1> DEFINE row == [strategy[s] EXCEPT !.kelly = Clamped(fraction)]
<1>1. /\ strategy' = [strategy EXCEPT ![s] = row]
      /\ UNCHANGED <<system, cash, signal, position, reserved>>
  BY DEF SetKellyFraction
<1>2. strategy[s] \in StrategyRow /\ Clamped(fraction) \in 0..100
  BY ConstantsAssumption, ClampedInRange DEF IInv, TypeOK
<1>3. /\ row \in StrategyRow
      /\ row.bankroll = strategy[s].bankroll
      /\ row.state = strategy[s].state
  BY <1>2 DEF StrategyRow
<1> HIDE DEF row
<1>4. /\ strategy' \in [Strategies -> StrategyRow]
      /\ strategy'[s] = row
      /\ \A t \in Strategies \ {s} : strategy'[t] = strategy[t]
  BY <1>1, <1>3, RowWritten DEF IInv
<1>5. TypeOK'
  BY <1>1, <1>4 DEF IInv, TypeOK
<1>6. \A t \in Strategies : /\ strategy'[t].bankroll = strategy[t].bankroll
                            /\ Exists(t) => Exists(t)'
  BY <1>3, <1>4 DEF Exists
<1> QED
  BY <1>1, <1>5, <1>6, RowsKept, MoneyKept DEF IInv

\* The lifecycle calls write the state alone, and keep the invariant.
LEMMA LifecycleInv ==
  ASSUME IInv, NEW s \in Strategies, NEW gate, NEW target \in StrategyState,
         NEW disable \in BOOLEAN, LifecycleTransition(s, gate, target, disable)
  PROVE  IInv'
<1> DEFINE row == [strategy[s] EXCEPT !.state = target,
                                      !.enabled = strategy[s].enabled /\ ~disable]
<1>1. /\ strategy' = [strategy EXCEPT ![s] = row]
      /\ UNCHANGED <<system, cash, signal, position, reserved>>
  BY DEF LifecycleTransition
<1>2. strategy[s] \in StrategyRow
  BY DEF IInv, TypeOK
<1>3. /\ row \in StrategyRow
      /\ row.bankroll = strategy[s].bankroll
      /\ row.state = target
  BY <1>2 DEF StrategyRow
<1>4. target # NoRow
  BY DEF StrategyState, NoRow,
         SEEDED, ACTIVE, LOW_BANKROLL_PAUSED, DRAWDOWN_PAUSED, OPERATOR_PAUSED, DECOMMISSIONED
<1> HIDE DEF row
<1>5. /\ strategy' \in [Strategies -> StrategyRow]
      /\ strategy'[s] = row
      /\ \A t \in Strategies \ {s} : strategy'[t] = strategy[t]
  BY <1>1, <1>3, RowWritten DEF IInv
<1>6. TypeOK'
  BY <1>1, <1>5 DEF IInv, TypeOK
<1>7. \A t \in Strategies : /\ strategy'[t].bankroll = strategy[t].bankroll
                            /\ Exists(t) => Exists(t)'
  BY <1>3, <1>4, <1>5 DEF Exists
<1> QED
  BY <1>1, <1>6, <1>7, RowsKept, MoneyKept DEF IInv

\* Recording a signal keeps the invariant.
LEMMA RecordSignalInv ==
  ASSUME IInv, NEW s \in Strategies, NEW g \in Signals, RecordSignal(g, s)
  PROVE  IInv'
<1>1. /\ signal' = [signal EXCEPT ![g] = s]
      /\ UNCHANGED <<system, strategy, cash, position, reserved>>
  BY DEF RecordSignal
<1>2. TypeOK'
  BY <1>1 DEF IInv, TypeOK
<1>3. UntradedReservesNothing'
  <2>1. \A h \in Signals, t \in Strategies : signal[h] = t => signal'[h] = t \/ h = g
    BY <1>1 DEF IInv, TypeOK
  <2>2. signal[g] = NoRow
    BY DEF RecordSignal
  <2>3. \A t \in Strategies : HasTradingActivity(t) => HasTradingActivity(t)'
    BY <1>1, <2>1, <2>2, ConstantsAssumption DEF HasTradingActivity
  <2> QED
    BY <1>1, <2>3 DEF IInv, Rows, UntradedReservesNothing
<1>4. MissingIsEmpty' /\ OpenIsOwned'
  BY <1>1 DEF IInv, Rows, MissingIsEmpty, OpenIsOwned, Exists, IsOpen
<1>5. BankrollIsJournal' /\ FreeCashNonNegative'
  BY <1>1, MoneyKept DEF IInv
<1> QED
  BY <1>2, <1>3, <1>4, <1>5 DEF IInv, Rows

\* Opening a position: what is reserved and the fee together fit in free cash.
LEMMA OpenPaperPositionInv ==
  ASSUME IInv, NEW s \in Strategies, NEW p \in Positions, NEW g \in Signals \cup {None},
         NEW side \in Side, NEW order \in Orders, NEW fees \in Fees,
         OpenPaperPosition(p, s, g, side, order, fees)
  PROVE  IInv'
<1> DEFINE opened == [status |-> "open", owner |-> s, side |-> side,
                      qty |-> order.qty, cost |-> order.cost, realized |-> 0]
<1>1. /\ order.qty \in Nat /\ order.cost \in Nat /\ order.cost > 0 /\ fees \in Nat
      /\ order.cost + fees \in Int
  BY ConstantsAssumption DEF OpenPaperPosition
<1>2. /\ Exists(s)
      /\ order.cost + fees <= FreeCash(s)
      /\ position' = [position EXCEPT ![p] = opened]
      /\ reserved' = [reserved EXCEPT ![s] = reserved[s] + order.cost]
      /\ UNCHANGED <<system, signal>>
  BY DEF OpenPaperPosition, TotalCost
<1>3. strategy[s] \in StrategyRow /\ strategy[s].bankroll \in Int /\ reserved[s] \in Int
  BY DEF IInv, TypeOK, StrategyRow
<1>4. reserved[s] + order.cost <= strategy[s].bankroll - fees
  BY <1>1, <1>2, <1>3 DEF FreeCash
<1>5. position' \in [Positions -> PositionRow] /\ reserved' \in [Strategies -> Int]
  <2>1. opened \in PositionRow
    BY <1>1 DEF PositionRow
  <2> QED
    BY <1>1, <1>2, <1>3, <2>1 DEF IInv, TypeOK
<1>6. /\ reserved'[s] = reserved[s] + order.cost
      /\ \A t \in Strategies \ {s} : reserved'[t] = reserved[t]
      /\ position'[p] = opened
      /\ \A q \in Positions \ {p} : position'[q] = position[q]
  BY <1>2 DEF IInv, TypeOK
\* What the fee, if there is one, does to the strategy and its events.
<1>7. /\ strategy' \in [Strategies -> StrategyRow]
      /\ cash' \in [Strategies -> Seq(CashEvent)]
      /\ strategy'[s].state = strategy[s].state
      /\ \A t \in Strategies \ {s} : strategy'[t] = strategy[t] /\ cash'[t] = cash[t]
      /\ BankrollIsJournal' /\ FreeCashNonNegative'
  <2>1. CASE fees = 0
    <3>1. strategy' = strategy /\ cash' = cash
      BY <2>1 DEF OpenPaperPosition
    <3>2. BankrollIsJournal'
      BY <3>1 DEF IInv, BankrollIsJournal
    <3>3. reserved'[s] <= strategy'[s].bankroll
      BY <1>3, <1>4, <1>6, <2>1, <3>1
    <3>4. FreeCashNonNegative'
      BY <1>6, <3>1, <3>3 DEF IInv, FreeCashNonNegative
    <3> QED
      BY <3>1, <3>2, <3>4 DEF IInv, TypeOK
  <2>2. CASE fees # 0
    <3> DEFINE row == [strategy[s] EXCEPT !.bankroll = strategy[s].bankroll - fees]
    <3>1. /\ AppendCashEvent(s, "fee", -fees, p)
          /\ strategy' = [strategy EXCEPT ![s] = row]
      BY <2>2 DEF OpenPaperPosition
    <3>2. -fees \in Int /\ "fee" \in Kind /\ strategy[s].bankroll - fees \in Int
      BY <1>1, <1>3 DEF Kind
    <3>3. /\ row \in StrategyRow
          /\ row.bankroll = strategy[s].bankroll - fees
          /\ row.state = strategy[s].state
      BY <1>3, <3>2 DEF StrategyRow
    <3> HIDE DEF row
    <3>4. /\ strategy' \in [Strategies -> StrategyRow]
          /\ strategy'[s] = row
          /\ \A t \in Strategies \ {s} : strategy'[t] = strategy[t]
      BY <3>1, <3>3, RowWritten DEF IInv
    <3>5. strategy'[s].bankroll = strategy[s].bankroll + (-fees)
      BY <1>1, <1>3, <3>3, <3>4
    <3>6. reserved'[s] <= strategy'[s].bankroll
      BY <1>4, <1>6, <3>3, <3>4
    <3>7. BankrollIsJournal' /\ FreeCashNonNegative'
      BY <1>6, <3>1, <3>2, <3>4, <3>5, <3>6, MoneyMoved DEF IInv
    <3>8. /\ cash' \in [Strategies -> Seq(CashEvent)]
          /\ \A t \in Strategies \ {s} : cash'[t] = cash[t]
      BY <3>1, <3>2, AppendKeepsJournal DEF IInv
    <3> QED
      BY <3>3, <3>4, <3>7, <3>8
  <2> QED
    BY <2>1, <2>2
<1>8. TypeOK'
  BY <1>2, <1>5, <1>7 DEF IInv, TypeOK
<1>9. Rows'
  <2>1. \A t \in Strategies : Exists(t)' <=> Exists(t)
    BY <1>7 DEF Exists
  <2>2. MissingIsEmpty'
    BY <1>2, <1>6, <1>7, <2>1 DEF IInv, Rows, MissingIsEmpty
  <2>3. UntradedReservesNothing'
    <3>1. HasTradingActivity(s)'
      BY <1>6 DEF HasTradingActivity, NoRow
    <3>2. \A t \in Strategies \ {s} : HasTradingActivity(t) => HasTradingActivity(t)'
      <4>1. position[p].status = NoRow
        BY DEF OpenPaperPosition
      <4> QED
        BY <1>2, <1>6, <4>1 DEF HasTradingActivity
    <3> QED
      BY <1>6, <3>1, <3>2 DEF IInv, Rows, UntradedReservesNothing
  <2>4. OpenIsOwned'
    BY <1>1, <1>2, <1>6, <2>1 DEF IInv, Rows, OpenIsOwned, IsOpen
  <2> QED
    BY <2>2, <2>3, <2>4 DEF Rows
<1> QED
  BY <1>7, <1>8, <1>9 DEF IInv

\* A resolution releases the cost of the position and credits the payout, which
\* is never negative, so the strategy's free cash cannot fall.
LEMMA ResolvePositionInv ==
  ASSUME IInv, NEW p \in Positions, NEW res \in Resolution, ResolvePosition(p, res)
  PROVE  IInv'
<1> DEFINE s == position[p].owner
           realized == Payout(p, res) - position[p].cost
           new_bankroll == strategy[s].bankroll + realized
           new_hwm == IF new_bankroll > strategy[s].hwm THEN new_bankroll ELSE strategy[s].hwm
           row == [strategy[s] EXCEPT !.bankroll = new_bankroll, !.hwm = new_hwm]
           closed == [position[p] EXCEPT !.status = "resolved", !.realized = realized]
<1>1. /\ IsOpen(p)
      /\ AppendCashEvent(s, "realized_pnl", realized, p)
      /\ strategy' = [strategy EXCEPT ![s] = row]
      /\ position' = [position EXCEPT ![p] = closed]
      /\ reserved' = [reserved EXCEPT ![s] = reserved[s] - position[p].cost]
      /\ UNCHANGED <<system, signal>>
  BY DEF ResolvePosition
<1>2. s \in Strategies /\ Exists(s) /\ position[p].cost \in Nat
  BY <1>1 DEF IInv, Rows, OpenIsOwned, TypeOK, PositionRow
<1>3. Payout(p, res) \in Nat
  BY PayoutNatural DEF IInv
<1>4. /\ strategy[s] \in StrategyRow /\ strategy[s].bankroll \in Int /\ strategy[s].hwm \in Int
      /\ reserved[s] \in Int /\ position[p] \in PositionRow
      /\ realized \in Int /\ new_bankroll \in Int /\ new_hwm \in Int
      /\ "realized_pnl" \in Kind /\ p \in Positions \cup {None}
  <2>1. strategy[s] \in StrategyRow /\ reserved[s] \in Int /\ position[p] \in PositionRow
    BY <1>2 DEF IInv, TypeOK
  <2>2. strategy[s].bankroll \in Int /\ strategy[s].hwm \in Int
    BY <2>1 DEF StrategyRow
  <2>3. realized \in Int
    BY <1>2, <1>3
  <2>4. new_bankroll \in Int /\ new_hwm \in Int
    BY <2>2, <2>3
  <2> QED
    BY <2>1, <2>2, <2>3, <2>4 DEF Kind
<1>5. reserved[s] - position[p].cost <= new_bankroll
  BY <1>2, <1>3, <1>4 DEF IInv, FreeCashNonNegative
<1> HIDE DEF s, realized, new_bankroll, new_hwm
<1>6. row \in StrategyRow /\ row.bankroll = new_bankroll /\ row.state = strategy[s].state
  BY <1>4 DEF StrategyRow
<1>7. /\ closed \in PositionRow
      /\ closed.status = "resolved"
      /\ closed.owner = s
  BY <1>4 DEF PositionRow, s
<1> HIDE DEF row, closed
<1>8. /\ strategy' \in [Strategies -> StrategyRow]
      /\ strategy'[s] = row
      /\ \A t \in Strategies \ {s} : strategy'[t] = strategy[t]
  BY <1>1, <1>2, <1>6, RowWritten DEF IInv
<1>9. /\ cash' \in [Strategies -> Seq(CashEvent)]
      /\ \A t \in Strategies \ {s} : cash'[t] = cash[t]
  BY <1>1, <1>2, <1>4, AppendKeepsJournal DEF IInv
<1>10. /\ reserved' \in [Strategies -> Int]
       /\ reserved'[s] = reserved[s] - position[p].cost
       /\ \A t \in Strategies \ {s} : reserved'[t] = reserved[t]
  BY <1>1, <1>2, <1>4 DEF IInv, TypeOK
<1>11. /\ position' \in [Positions -> PositionRow]
       /\ position'[p] = closed
       /\ \A q \in Positions \ {p} : position'[q] = position[q]
  BY <1>1, <1>7 DEF IInv, TypeOK
<1>12. TypeOK'
  BY <1>1, <1>8, <1>9, <1>10, <1>11 DEF IInv, TypeOK
<1>13. Rows'
  <2>1. \A t \in Strategies : Exists(t)' <=> Exists(t)
    BY <1>6, <1>8 DEF Exists
  <2>2. MissingIsEmpty'
    BY <1>2, <1>9, <1>10, <2>1 DEF IInv, Rows, MissingIsEmpty
  <2>3. UntradedReservesNothing'
    <3>1. \A t \in Strategies : t = s => HasTradingActivity(t)'
      BY <1>7, <1>11 DEF HasTradingActivity, NoRow
    <3>2. \A t \in Strategies \ {s} : HasTradingActivity(t) => HasTradingActivity(t)'
      BY <1>1, <1>11 DEF HasTradingActivity, s
    <3> QED
      BY <1>10, <3>1, <3>2 DEF IInv, Rows, UntradedReservesNothing
  <2>4. OpenIsOwned'
    BY <1>7, <1>11, <2>1 DEF IInv, Rows, OpenIsOwned, IsOpen
  <2> QED
    BY <2>2, <2>3, <2>4 DEF Rows
<1>14. BankrollIsJournal' /\ FreeCashNonNegative'
  <2>1. strategy'[s].bankroll = strategy[s].bankroll + realized
    BY <1>6, <1>8 DEF new_bankroll
  <2>2. reserved'[s] <= strategy'[s].bankroll
    BY <1>5, <1>6, <1>8, <1>10
  <2>3. \A t \in Strategies \ {s} : /\ strategy'[t].bankroll = strategy[t].bankroll
                                    /\ reserved'[t] = reserved[t]
    BY <1>8, <1>10
  <2> QED
    BY <1>1, <1>2, <1>4, <2>1, <2>2, <2>3, MoneyMoved DEF IInv
<1> QED
  BY <1>12, <1>13, <1>14 DEF IInv

\* The kill switch touches no row, and keeps the invariant.
LEMMA KillSwitchInv ==
  ASSUME IInv, ApplyKillSwitch \/ ClearKillSwitch
  PROVE  IInv'
<1>1. /\ system' \in SystemState
      /\ UNCHANGED <<strategy, cash, signal, position, reserved>>
  BY DEF ApplyKillSwitch, ClearKillSwitch, SystemState
<1>2. TypeOK'
  BY <1>1 DEF IInv, TypeOK
<1>3. Rows'
  BY <1>1, RowsKept DEF IInv, Exists
<1>4. BankrollIsJournal' /\ FreeCashNonNegative'
  BY <1>1, MoneyKept DEF IInv
<1> QED
  BY <1>2, <1>3, <1>4 DEF IInv

-----------------------------------------------------------------------------
(* The theorems. *)

\* Every step of the ledger keeps the invariant.
LEMMA NextInv == IInv /\ [Next]_vars => IInv'
<1> SUFFICES ASSUME IInv, [Next]_vars PROVE IInv'
  OBVIOUS
<1>1. CASE UNCHANGED vars
  <2>1. TypeOK'
    BY <1>1 DEF IInv, TypeOK, vars
  <2>2. Rows'
    BY <1>1, RowsKept DEF IInv, vars, Exists
  <2>3. BankrollIsJournal' /\ FreeCashNonNegative'
    BY <1>1, MoneyKept DEF IInv, vars
  <2> QED
    BY <2>1, <2>2, <2>3 DEF IInv
<1>2. CASE Seed
  BY <1>2, SeedInv
<1>3. ASSUME NEW s \in Strategies, NEW amt \in Amounts,
             Deposit(s, amt) \/ Withdraw(s, amt) \/ SetStartingBankroll(s, amt)
      PROVE  IInv'
  BY <1>3, DepositInv, WithdrawInv, SetStartingBankrollInv
<1>4. ASSUME NEW s \in Strategies, NEW fraction \in Fractions, SetKellyFraction(s, fraction)
      PROVE  IInv'
  BY <1>4, SetKellyFractionInv
<1>5. ASSUME NEW s \in Strategies, Pause(s) \/ Resume(s) \/ Decommission(s)
      PROVE  IInv'
  <2>1. PauseTarget \in StrategyState /\ ResumeTarget \in StrategyState
        /\ DECOMMISSIONED \in StrategyState
    BY DEF PauseTarget, ResumeTarget, StrategyState
  <2>2. CASE Pause(s)
    BY <2>1, <2>2, LifecycleInv DEF Pause
  <2>3. CASE Resume(s)
    BY <2>1, <2>3, LifecycleInv DEF Resume
  <2>4. CASE Decommission(s)
    BY <2>1, <2>4, LifecycleInv DEF Decommission
  <2> QED
    BY <1>5, <2>2, <2>3, <2>4
<1>6. ASSUME NEW s \in Strategies, NEW g \in Signals, RecordSignal(g, s)
      PROVE  IInv'
  BY <1>6, RecordSignalInv
<1>7. ASSUME NEW s \in Strategies, NEW p \in Positions, NEW g \in Signals \cup {None},
             NEW side \in Side, NEW order \in Orders, NEW fees \in Fees,
             OpenPaperPosition(p, s, g, side, order, fees)
      PROVE  IInv'
  BY <1>7, OpenPaperPositionInv
<1>8. ASSUME NEW p \in Positions, NEW res \in Resolution, ResolvePosition(p, res)
      PROVE  IInv'
  BY <1>8, ResolvePositionInv
<1>9. CASE ApplyKillSwitch \/ ClearKillSwitch
  BY <1>9, KillSwitchInv
<1> QED
  BY <1>1, <1>2, <1>3, <1>4, <1>5, <1>6, <1>7, <1>8, <1>9 DEF Next

\* The invariant holds of every reachable state.
LEMMA InductiveInvariant == Spec => []IInv
  BY InitInv, NextInv, PTL DEF Spec

\* Every row keeps its type, whatever the inputs: balances stay integers, the
\* Kelly fraction between 0 and 100 percent, costs natural, owners known.
THEOREM LedgerTypeOK == Spec => []TypeOK
<1>1. IInv => TypeOK
  BY DEF IInv
<1> QED
  BY <1>1, InductiveInvariant, PTL

\* For any strategies, orders and amounts, and any order of the writers, the
\* bankroll is the sum of the cash events (core/ledger/reconcile.py).
THEOREM LedgerReconciles == Spec => []BankrollIsJournal
<1>1. IInv => BankrollIsJournal
  BY DEF IInv
<1> QED
  BY <1>1, InductiveInvariant, PTL

\* Writers that run one after the other never reserve more than the bankroll,
\* for any orders, fees, withdrawals and resolutions (docs/PDD.md:414).
THEOREM LedgerCovered == Spec => []FreeCashNonNegative
<1>1. IInv => FreeCashNonNegative
  BY DEF IInv
<1> QED
  BY <1>1, InductiveInvariant, PTL

-----------------------------------------------------------------------------
(* The sums that the code computes with SQL. *)

\* What is reserved for a strategy is what its open positions cost, of which it
\* only ever has finitely many.
ReservedIsSum ==
    \A s \in Strategies : IsFiniteSet(OpenOf(s)) /\ reserved[s] = OpenCost(s)

\* Rows that did not change add up to what they did.
LEMMA OpenCostKept ==
  ASSUME ReservedIsSum, UNCHANGED <<position, reserved>>
  PROVE  ReservedIsSum'
<1>1. \A s \in Strategies : OpenOf(s)' = OpenOf(s) /\ OpenCost(s)' = OpenCost(s)
  BY DEF OpenOf, OpenCost
<1> QED
  BY <1>1 DEF ReservedIsSum

\* A new position adds its cost to that of its owner's open positions.
LEMMA OpeningAdds ==
  ASSUME IInv, ReservedIsSum, NEW p \in Positions, NEW s \in Strategies,
         NEW g \in Signals \cup {None}, NEW side \in Side, NEW order \in Orders,
         NEW fees \in Fees, OpenPaperPosition(p, s, g, side, order, fees)
  PROVE  ReservedIsSum'
<1> DEFINE cost == [q \in Positions |-> position[q].cost]
           after == [q \in Positions |-> position'[q].cost]
<1>1. /\ position[p].status = NoRow /\ NoRow # "open"
      /\ position'[p].status = "open" /\ position'[p].owner = s
      /\ position'[p].cost = order.cost
      /\ \A q \in Positions \ {p} : position'[q] = position[q]
      /\ reserved'[s] = reserved[s] + order.cost
      /\ \A t \in Strategies \ {s} : reserved'[t] = reserved[t]
  BY DEF OpenPaperPosition, IInv, TypeOK, NoRow
<1>2. order.cost \in Int
  BY ConstantsAssumption
<1>3. \A q \in Positions : cost[q] \in Int
  BY DEF IInv, TypeOK, PositionRow
<1>4. /\ after[p] = order.cost /\ \A q \in Positions \ {p} : after[q] = cost[q]
      /\ \A q \in Positions : after[q] \in Int
  BY <1>1, <1>2, <1>3
<1>5. /\ OpenOf(s)' = OpenOf(s) \cup {p} /\ p \notin OpenOf(s)
      /\ \A t \in Strategies \ {s} : OpenOf(t)' = OpenOf(t) /\ p \notin OpenOf(t)
  BY <1>1 DEF OpenOf
<1>6. \A t \in Strategies : OpenOf(t) \in SUBSET Positions
  BY DEF OpenOf
<1>7. \A t \in Strategies : /\ IsFiniteSet(OpenOf(t))
                            /\ reserved[t] = SumFunctionOnSet(cost, OpenOf(t))
  BY DEF ReservedIsSum, OpenCost
<1>8. \A t \in Strategies : OpenCost(t)' = SumFunctionOnSet(after, OpenOf(t)')
  BY DEF OpenCost
<1> HIDE DEF cost, after
<1>9. ASSUME NEW t \in Strategies
      PROVE  SumFunctionOnSet(after, OpenOf(t)) = SumFunctionOnSet(cost, OpenOf(t))
  <2>1. p \notin OpenOf(t)
    BY <1>5
  <2>2. \A q \in OpenOf(t) : cost[q] \in Int /\ cost[q] = after[q]
    BY <1>3, <1>4, <1>6, <2>1
  <2> QED
    BY <1>7, <2>2, SumSame
<1>10. IsFiniteSet(OpenOf(s)') /\ reserved'[s] = OpenCost(s)'
  <2>1. IsFiniteSet(OpenOf(s)')
    BY <1>5, <1>7, FS_AddElement
  <2>2. SumFunctionOnSet(after, OpenOf(s) \cup {p})
           = after[p] + SumFunctionOnSet(after, OpenOf(s))
    <3>1. \A q \in OpenOf(s) \cup {p} : after[q] \in Int
      BY <1>4, <1>6
    <3> QED
      BY <1>5, <1>7, <3>1, SumInsert
  <2>3. reserved[s] \in Int
    BY DEF IInv, TypeOK
  <2>4. OpenCost(s)' = SumFunctionOnSet(after, OpenOf(s) \cup {p})
    BY <1>5, <1>8
  <2>5. SumFunctionOnSet(after, OpenOf(s)) = reserved[s]
    BY <1>7, <1>9
  <2>6. OpenCost(s)' = order.cost + reserved[s]
    BY <1>4, <2>2, <2>4, <2>5
  <2>7. reserved'[s] = OpenCost(s)'
    BY <1>1, <1>2, <2>3, <2>6
  <2> QED
    BY <2>1, <2>7
<1>11. ASSUME NEW t \in Strategies \ {s}
       PROVE  IsFiniteSet(OpenOf(t)') /\ reserved'[t] = OpenCost(t)'
  <2>1. OpenOf(t)' = OpenOf(t) /\ reserved'[t] = reserved[t]
    BY <1>1, <1>5
  <2> QED
    BY <1>7, <1>8, <1>9, <2>1
<1> QED
  BY <1>10, <1>11 DEF ReservedIsSum

\* A resolution takes the cost of the position off again.
LEMMA ResolvingSubtracts ==
  ASSUME IInv, ReservedIsSum, NEW p \in Positions, NEW res \in Resolution,
         ResolvePosition(p, res)
  PROVE  ReservedIsSum'
<1>0. PICK s \in Strategies : s = position[p].owner
  BY DEF ResolvePosition, IsOpen, IInv, Rows, OpenIsOwned
<1> DEFINE cost == [q \in Positions |-> position[q].cost]
           after == [q \in Positions |-> position'[q].cost]
<1>1. /\ position[p].status = "open"
      /\ position'[p].status = "resolved"
      /\ position'[p].cost = position[p].cost
      /\ \A q \in Positions \ {p} : position'[q] = position[q]
      /\ reserved'[s] = reserved[s] - position[p].cost
      /\ \A t \in Strategies \ {s} : reserved'[t] = reserved[t]
  BY <1>0 DEF ResolvePosition, IsOpen, IInv, TypeOK, PositionRow
<1>2. \A q \in Positions : cost[q] \in Int /\ after[q] = cost[q]
  <2>1. \A q \in Positions : position'[q].cost = position[q].cost
    BY <1>1
  <2>2. \A q \in Positions : position[q].cost \in Int
    BY DEF IInv, TypeOK, PositionRow
  <2> QED
    BY <2>1, <2>2
<1>3. /\ OpenOf(s)' = OpenOf(s) \ {p} /\ p \in OpenOf(s)
      /\ \A t \in Strategies \ {s} : OpenOf(t)' = OpenOf(t)
  BY <1>0, <1>1 DEF OpenOf
<1>4. /\ \A t \in Strategies : OpenOf(t) \in SUBSET Positions
      /\ \A t \in Strategies : OpenOf(t)' \in SUBSET OpenOf(t)
  <2>1. \A t \in Strategies : OpenOf(t) \in SUBSET Positions
    BY DEF OpenOf
  <2>2. ASSUME NEW t \in Strategies PROVE OpenOf(t)' \in SUBSET OpenOf(t)
    <3>1. CASE t = s
      BY <1>1, <1>3, <3>1 DEF OpenOf
    <3>2. CASE t # s
      <4>1. OpenOf(t)' = OpenOf(t)
        BY <1>3, <3>2
      <4> QED
        BY <4>1
    <3> QED
      BY <3>1, <3>2
  <2> QED
    BY <2>1, <2>2
<1>5. \A t \in Strategies : /\ IsFiniteSet(OpenOf(t))
                            /\ reserved[t] = SumFunctionOnSet(cost, OpenOf(t))
  BY DEF ReservedIsSum, OpenCost
<1>6. \A t \in Strategies : IsFiniteSet(OpenOf(t)')
  BY <1>4, <1>5, FS_Subset
<1>7. \A t \in Strategies : OpenCost(t)' = SumFunctionOnSet(after, OpenOf(t)')
  BY DEF OpenCost
<1>8. cost[p] = position[p].cost
  OBVIOUS
<1> HIDE DEF cost, after
<1>9. ASSUME NEW t \in Strategies
      PROVE  SumFunctionOnSet(after, OpenOf(t)') = SumFunctionOnSet(cost, OpenOf(t)')
  <2>1. \A q \in OpenOf(t)' : cost[q] \in Int /\ cost[q] = after[q]
    BY <1>2, <1>4
  <2> DEFINE U == OpenOf(t)'
  <2>2. IsFiniteSet(U) /\ \A q \in U : cost[q] \in Int /\ cost[q] = after[q]
    BY <1>6, <2>1
  <2> HIDE DEF U
  <2>3. SumFunctionOnSet(after, U) = SumFunctionOnSet(cost, U)
    BY <2>2, SumSame
  <2> QED
    BY <2>3 DEF U
<1>10. reserved'[s] = OpenCost(s)'
  <2>1. \A q \in OpenOf(s) : cost[q] \in Int
    BY <1>1, <1>2, <1>4
  <2>2. SumFunctionOnSet(cost, OpenOf(s))
           = cost[p] + SumFunctionOnSet(cost, OpenOf(s) \ {p})
    BY <1>1, <1>3, <1>5, <2>1, SumAdd
  <2>3. SumFunctionOnSet(cost, OpenOf(s) \ {p}) \in Int /\ cost[p] \in Int
    <3>1. \A q \in OpenOf(s) \ {p} : cost[q] \in Int
      BY <2>1
    <3>2. IsFiniteSet(OpenOf(s) \ {p})
      BY <1>1, <1>5, FS_RemoveElement
    <3> QED
      BY <1>2, <3>1, <3>2, SumInt
  <2>4. OpenCost(s)' = SumFunctionOnSet(cost, OpenOf(s) \ {p})
    BY <1>1, <1>3, <1>7, <1>9
  <2>5. reserved[s] = cost[p] + SumFunctionOnSet(cost, OpenOf(s) \ {p})
    BY <1>1, <1>5, <2>2
  <2> QED
    BY <1>1, <1>8, <2>3, <2>4, <2>5
<1>11. ASSUME NEW t \in Strategies \ {s} PROVE reserved'[t] = OpenCost(t)'
  <2>1. OpenOf(t)' = OpenOf(t) /\ reserved'[t] = reserved[t]
    BY <1>1, <1>3
  <2> QED
    BY <1>5, <1>7, <1>9, <2>1
<1> QED
  BY <1>6, <1>10, <1>11 DEF ReservedIsSum

\* Only these two write positions and reservations.
LEMMA ReservedStaysSum ==
  ASSUME IInv, ReservedIsSum, [Next]_vars
  PROVE  ReservedIsSum'
<1>1. CASE UNCHANGED <<position, reserved>>
  BY <1>1, OpenCostKept
<1>2. ASSUME NEW s \in Strategies, NEW p \in Positions, NEW g \in Signals \cup {None},
             NEW side \in Side, NEW order \in Orders, NEW fees \in Fees,
             OpenPaperPosition(p, s, g, side, order, fees)
      PROVE  ReservedIsSum'
  BY <1>2, OpeningAdds
<1>3. ASSUME NEW p \in Positions, NEW res \in Resolution, ResolvePosition(p, res)
      PROVE  ReservedIsSum'
  BY <1>3, ResolvingSubtracts
<1> QED
  BY <1>1, <1>2, <1>3
     DEF Next, vars, Seed, Deposit, Withdraw, SetStartingBankroll, SetKellyFraction,
         Pause, Resume, Decommission, LifecycleTransition, RecordSignal,
         ApplyKillSwitch, ClearKillSwitch

\* Nothing is open and nothing reserved yet.
LEMMA InitReserved == Init => ReservedIsSum
<1> SUFFICES ASSUME Init, NEW s \in Strategies
             PROVE  IsFiniteSet(OpenOf(s)) /\ reserved[s] = OpenCost(s)
  BY DEF ReservedIsSum
<1>1. OpenOf(s) = {} /\ reserved[s] = 0
  BY DEF Init, OpenOf, NoRow
<1> QED
  BY <1>1, FS_EmptySet, SumEmpty DEF OpenCost

\* The bankroll and the free cash that the code checks are the sums of the rows
\* they are checked against, in every reachable state: SUM(cash_event.amount_cents)
\* and the open cost basis (core/ledger/reconcile.py, queries.py).
THEOREM LedgerRowsReconcile == Spec => []RowsReconcile
<1>1. IInv /\ ReservedIsSum => RowsReconcile
  <2> SUFFICES ASSUME IInv, ReservedIsSum, NEW s \in Strategies
               PROVE  /\ strategy[s].bankroll
                           = SumFunctionOnSet([i \in 1..Len(cash[s]) |-> cash[s][i].amount],
                                              1..Len(cash[s]))
                      /\ reserved[s] = OpenCost(s)
                      /\ strategy[s].bankroll >= 0
    BY DEF RowsReconcile
  <2>1. /\ cash[s] \in Seq(CashEvent) /\ Chained(cash[s])
        /\ strategy[s].bankroll = LastBalance(cash[s]) /\ strategy[s].bankroll \in Int
        /\ reserved[s] <= strategy[s].bankroll
    BY DEF IInv, TypeOK, StrategyRow, BankrollIsJournal, FreeCashNonNegative
  <2>2. \A e \in CashEvent : e.amount \in Int
    BY DEF CashEvent
  <2>3. LastBalance(cash[s])
           = SumFunctionOnSet([i \in 1..Len(cash[s]) |-> cash[s][i].amount], 1..Len(cash[s]))
    BY <2>1, <2>2, ChainedSums
  <2>4. reserved[s] = OpenCost(s)
    BY DEF ReservedIsSum
  <2>5. OpenCost(s) \in Nat
    <3> DEFINE cost == [p \in Positions |-> position[p].cost]
    <3>1. IsFiniteSet(OpenOf(s))
      BY DEF ReservedIsSum
    <3>2. \A p \in OpenOf(s) : cost[p] \in Nat
      BY DEF OpenOf, IInv, TypeOK, PositionRow
    <3> HIDE DEF cost
    <3>3. SumFunctionOnSet(cost, OpenOf(s)) \in Nat
      BY <3>1, <3>2, SumNat
    <3> QED
      BY <3>3 DEF OpenCost, cost
  <2> QED
    BY <2>1, <2>3, <2>4, <2>5
<1>2. IInv /\ ReservedIsSum /\ [Next]_vars => ReservedIsSum'
  BY ReservedStaysSum
<1>3. Spec => []ReservedIsSum
  BY <1>2, InductiveInvariant, InitReserved, PTL DEF Spec
<1> QED
  BY <1>1, <1>3, InductiveInvariant, PTL

-----------------------------------------------------------------------------
(* Every transaction of the ledger is a move of the cash book: Ledger      *)
(* implements CashBook under the mapping LedgerBook, for any constants.    *)
(* The invariant IInv supplies what a single transition cannot show: that  *)
(* reservations are covered after it, and that open positions cost money.  *)

Entries(log) ==
    [i \in 1..Len(log) |-> [amount |-> log[i].amount, balance |-> log[i].balance]]

\* A cash journal maps to a log of the abstract book's entries.
LEMMA EntriesOfJournal ==
  ASSUME NEW log \in Seq(CashEvent)
  PROVE  Entries(log) \in Seq(Book!Entry) /\ Len(Entries(log)) = Len(log)
<1>1. Len(log) \in Nat /\ \A i \in 1..Len(log) : log[i] \in CashEvent
  OBVIOUS
<1>2. \A i \in 1..Len(log) :
         [amount |-> log[i].amount, balance |-> log[i].balance] \in Book!Entry
  BY <1>1 DEF CashEvent, Book!Entry
<1> QED
  BY <1>1, <1>2 DEF Entries

\* Appending a cash event appends its entry to the log.
LEMMA EntriesOfAppend ==
  ASSUME NEW log \in Seq(CashEvent), NEW e \in CashEvent
  PROVE  Entries(Append(log, e)) =
            Append(Entries(log), [amount |-> e.amount, balance |-> e.balance])
<1> DEFINE entry == [amount |-> e.amount, balance |-> e.balance]
           left == Entries(Append(log, e))
           right == Append(Entries(log), entry)
<1>1. /\ Len(log) \in Nat
      /\ Append(log, e) \in Seq(CashEvent) /\ Len(Append(log, e)) = Len(log) + 1
      /\ Append(log, e)[Len(log) + 1] = e
      /\ \A i \in 1..Len(log) : Append(log, e)[i] = log[i]
  OBVIOUS
<1>2. entry \in Book!Entry
  BY DEF CashEvent, Book!Entry
<1>3. left \in Seq(Book!Entry) /\ Len(left) = Len(log) + 1
  BY <1>1, EntriesOfJournal
<1>4. Entries(log) \in Seq(Book!Entry) /\ Len(Entries(log)) = Len(log)
  BY EntriesOfJournal
<1>5. right \in Seq(Book!Entry) /\ Len(right) = Len(log) + 1
  BY <1>2, <1>4
<1>6. ASSUME NEW i \in 1..(Len(log) + 1) PROVE left[i] = right[i]
  <2>1. CASE i \in 1..Len(log)
    <3>1. left[i] = [amount |-> log[i].amount, balance |-> log[i].balance]
      BY <1>1, <2>1 DEF Entries
    <3>2. right[i] = Entries(log)[i]
      BY <1>2, <1>4, <2>1
    <3> QED
      BY <2>1, <3>1, <3>2 DEF Entries
  <2>2. CASE i = Len(log) + 1
    <3>1. left[i] = entry
      BY <1>1, <2>2 DEF Entries
    <3>2. right[i] = entry
      BY <1>2, <1>4, <2>2
    <3> QED
      BY <3>1, <3>2
  <2>3. i \in 1..Len(log) \/ i = Len(log) + 1
    BY <1>1
  <2> HIDE DEF left, right
  <2> QED
    BY <2>1, <2>2, <2>3
<1> HIDE DEF left, right
<1> QED
  BY <1>3, <1>5, <1>6 DEF left, right

-----------------------------------------------------------------------------
(* The book of one strategy before and after a step. *)

\* A strategy's row, reservations and journal make an abstract book.
LEMMA BookOfStrategy ==
  ASSUME TypeOK, NEW s \in Strategies
  PROVE  /\ LedgerBook[s] = [bankroll |-> strategy[s].bankroll, reserved |-> reserved[s],
                             log |-> Entries(cash[s])]
         /\ LedgerBook[s] \in Book!Book
<1>1. LedgerBook[s] = [bankroll |-> strategy[s].bankroll, reserved |-> reserved[s],
                       log |-> Entries(cash[s])]
  BY DEF LedgerBook, Entries
<1>2. strategy[s].bankroll \in Int /\ reserved[s] \in Int /\ cash[s] \in Seq(CashEvent)
  BY DEF TypeOK, StrategyRow
<1>3. Entries(cash[s]) \in Seq(Book!Entry)
  BY <1>2, EntriesOfJournal
<1> QED
  BY <1>1, <1>2, <1>3 DEF Book!Book

\* A strategy whose bankroll, reservation and events are kept has the same book.
LEMMA SameBook ==
  ASSUME NEW s \in Strategies, strategy'[s].bankroll = strategy[s].bankroll,
         reserved'[s] = reserved[s], cash'[s] = cash[s]
  PROVE  LedgerBook'[s] = LedgerBook[s]
  BY DEF LedgerBook

\* An event appended for a strategy is posted to its book.
LEMMA AppendPosts ==
  ASSUME TypeOK, TypeOK', NEW s \in Strategies, NEW kind \in Kind, NEW amt \in Int,
         NEW ref \in Positions \cup {None},
         AppendCashEvent(s, kind, amt, ref),
         strategy'[s].bankroll = strategy[s].bankroll + amt
  PROVE  /\ Book!Post(LedgerBook[s], LedgerBook'[s])
         /\ \A t \in Strategies \ {s} : cash'[t] = cash[t]
<1> DEFINE e == [kind |-> kind, amount |-> amt,
                 balance |-> strategy[s].bankroll + amt, ref |-> ref]
<1>1. strategy[s].bankroll \in Int /\ cash[s] \in Seq(CashEvent)
  BY DEF TypeOK, StrategyRow
<1>2. e \in CashEvent
  BY <1>1 DEF CashEvent
<1>3. cash' = [cash EXCEPT ![s] = Append(cash[s], e)]
  BY DEF AppendCashEvent
<1>4. cash'[s] = Append(cash[s], e) /\ \A t \in Strategies \ {s} : cash'[t] = cash[t]
  BY <1>3 DEF TypeOK
<1>5. Entries(cash'[s]) = Append(Entries(cash[s]), [amount |-> e.amount, balance |-> e.balance])
  <2> HIDE DEF e
  <2> QED
    BY <1>1, <1>2, <1>4, EntriesOfAppend
<1>6. e.amount = strategy'[s].bankroll - strategy[s].bankroll /\ e.balance = strategy'[s].bankroll
  BY <1>1
<1>7. LedgerBook[s] = [bankroll |-> strategy[s].bankroll, reserved |-> reserved[s],
                       log |-> Entries(cash[s])]
  BY BookOfStrategy
<1>8. LedgerBook'[s] = [bankroll |-> strategy'[s].bankroll, reserved |-> reserved'[s],
                        log |-> Entries(cash'[s])]
  BY DEF LedgerBook, Entries
<1> HIDE DEF e
<1>9. Book!Post(LedgerBook[s], LedgerBook'[s])
  BY <1>5, <1>6, <1>7, <1>8 DEF Book!Post
<1> QED
  BY <1>4, <1>9

-----------------------------------------------------------------------------
(* What each action does to the books. *)

Moves ==
    \A s \in Strategies :
        LedgerBook'[s] # LedgerBook[s] => Book!Move(LedgerBook[s], LedgerBook'[s])

\* Steps that touch no bankroll, reservation or event move no book.
LEMMA NoMoves ==
  ASSUME UNCHANGED <<cash, reserved>>,
         \A s \in Strategies : strategy'[s].bankroll = strategy[s].bankroll
  PROVE  Moves
  BY SameBook DEF Moves

\* One event and no reservation: a transfer.
LEMMA TransferMoves ==
  ASSUME IInv, IInv', NEW s \in Strategies, NEW kind \in Kind, NEW amt \in Int,
         AppendCashEvent(s, kind, amt, None), UNCHANGED reserved,
         strategy'[s].bankroll = strategy[s].bankroll + amt,
         \A t \in Strategies \ {s} : strategy'[t].bankroll = strategy[t].bankroll
  PROVE  Moves
<1>1. /\ Book!Post(LedgerBook[s], LedgerBook'[s])
      /\ \A t \in Strategies \ {s} : cash'[t] = cash[t]
  BY AppendPosts DEF IInv
<1>2. /\ LedgerBook'[s].reserved = reserved[s] /\ LedgerBook'[s].bankroll = strategy'[s].bankroll
      /\ LedgerBook[s].reserved = reserved[s]
      /\ reserved[s] <= strategy'[s].bankroll
  BY DEF LedgerBook, IInv, FreeCashNonNegative
<1>3. Book!Move(LedgerBook[s], LedgerBook'[s])
  BY <1>1, <1>2 DEF Book!Move, Book!Transfer
<1>4. \A t \in Strategies \ {s} : LedgerBook'[t] = LedgerBook[t]
  BY <1>1, SameBook
<1> QED
  BY <1>3, <1>4 DEF Moves

\* Seeding funds the books of the strategies it adds.
LEMMA SeedMoves == ASSUME IInv, IInv', Seed PROVE Moves
<1> SUFFICES ASSUME NEW s \in Strategies PROVE
        LedgerBook'[s] # LedgerBook[s] => Book!Move(LedgerBook[s], LedgerBook'[s])
  BY DEF Moves
<1>1. CASE s \in Missing
  <2>1. cash[s] = <<>> /\ reserved[s] = 0 /\ strategy[s].bankroll = 0
    BY <1>1, EmptyJournal DEF IInv, Rows, MissingIsEmpty, Missing, BankrollIsJournal
  <2>2. /\ strategy'[s].bankroll = InitialDeposit[s]
        /\ cash'[s] = <<SeedDeposit(s)>>
        /\ reserved'[s] = 0
    BY <1>1, <2>1 DEF Seed, SeededRow
  <2>3. SeedDeposit(s) \in CashEvent /\ InitialDeposit[s] \in Nat
    BY ConstantsAssumption DEF SeedDeposit, CashEvent, Kind
  <2>4. Entries(cash[s]) = <<>>
    BY <2>1, EntriesOfJournal DEF IInv, TypeOK
  <2>5. Entries(cash'[s]) = Append(<<>>, [amount |-> InitialDeposit[s],
                                          balance |-> InitialDeposit[s]])
    <3>1. cash'[s] = Append(cash[s], SeedDeposit(s))
      BY <2>1, <2>2
    <3>2. Entries(cash'[s]) = Append(<<>>, [amount |-> SeedDeposit(s).amount,
                                            balance |-> SeedDeposit(s).balance])
      BY <2>3, <2>4, <3>1, EntriesOfAppend DEF IInv, TypeOK
    <3> QED
      BY <3>2 DEF SeedDeposit
  <2>6. LedgerBook[s] = [bankroll |-> 0, reserved |-> 0, log |-> <<>>]
    BY <2>1, <2>4, BookOfStrategy DEF IInv
  <2>7. LedgerBook'[s] = [bankroll |-> InitialDeposit[s], reserved |-> 0,
                          log |-> Append(<<>>, [amount |-> InitialDeposit[s],
                                                balance |-> InitialDeposit[s]])]
    <3>1. LedgerBook'[s] = [bankroll |-> strategy'[s].bankroll, reserved |-> reserved'[s],
                            log |-> Entries(cash'[s])]
      BY DEF LedgerBook, Entries
    <3> QED
      BY <2>2, <2>5, <3>1
  <2>8. InitialDeposit[s] - 0 = InitialDeposit[s] /\ 0 <= InitialDeposit[s]
    BY <2>3
  <2> QED
    BY <2>6, <2>7, <2>8 DEF Book!Move, Book!Transfer, Book!Post
<1>2. CASE s \notin Missing
  <2>1. strategy'[s] = strategy[s] /\ cash'[s] = cash[s] /\ reserved'[s] = reserved[s]
    BY <1>2 DEF Seed
  <2> QED
    BY <2>1, SameBook
<1> QED
  BY <1>1, <1>2

\* A deposit is a move of one book.
LEMMA DepositMoves ==
  ASSUME IInv, IInv', NEW s \in Strategies, NEW amt \in Amounts, Deposit(s, amt)
  PROVE  Moves
<1>1. /\ amt \in Int /\ "deposit" \in Kind /\ UNCHANGED reserved
      /\ AppendCashEvent(s, "deposit", amt, None)
  BY ConstantsAssumption DEF Deposit, Kind
<1>2. PICK st : strategy' = [strategy EXCEPT
                               ![s] = [strategy[s] EXCEPT
                                         !.bankroll = strategy[s].bankroll + amt, !.state = st]]
  BY DEF Deposit
<1>3. /\ strategy'[s].bankroll = strategy[s].bankroll + amt
      /\ \A t \in Strategies \ {s} : strategy'[t].bankroll = strategy[t].bankroll
  BY <1>2 DEF IInv, TypeOK, StrategyRow
<1> QED
  BY <1>1, <1>3, TransferMoves

\* A withdrawal is a move of one book.
LEMMA WithdrawMoves ==
  ASSUME IInv, IInv', NEW s \in Strategies, NEW amt \in Amounts, Withdraw(s, amt)
  PROVE  Moves
<1>1. /\ amt \in Int /\ -amt \in Int /\ "withdraw" \in Kind /\ UNCHANGED reserved
      /\ AppendCashEvent(s, "withdraw", -amt, None)
      /\ strategy' = [strategy EXCEPT ![s].bankroll = strategy[s].bankroll - amt]
  BY ConstantsAssumption DEF Withdraw, Kind
<1>2. /\ strategy'[s].bankroll = strategy[s].bankroll - amt
      /\ strategy[s].bankroll \in Int
      /\ \A t \in Strategies \ {s} : strategy'[t].bankroll = strategy[t].bankroll
  BY <1>1 DEF IInv, TypeOK, StrategyRow
<1>3. strategy'[s].bankroll = strategy[s].bankroll + (-amt)
  BY <1>1, <1>2
<1> QED
  BY <1>1, <1>2, <1>3, TransferMoves

\* Setting the starting bankroll is a move of one book.
LEMMA SetStartingBankrollMoves ==
  ASSUME IInv, IInv', NEW s \in Strategies, NEW amt \in Amounts, SetStartingBankroll(s, amt)
  PROVE  Moves
<1> DEFINE delta == amt - strategy[s].bankroll
           kind == IF delta > 0 THEN "deposit" ELSE "withdraw"
<1>1. strategy[s] \in StrategyRow /\ strategy[s].bankroll \in Int
  BY DEF IInv, TypeOK, StrategyRow
<1>2. /\ amt \in Int /\ delta \in Int /\ kind \in Kind /\ UNCHANGED reserved
      /\ amt = strategy[s].bankroll + delta
      /\ strategy' = [strategy EXCEPT ![s] = Baseline([strategy[s] EXCEPT !.bankroll = amt], amt)]
  BY <1>1, ConstantsAssumption DEF SetStartingBankroll, Kind
<1>3. /\ strategy'[s].bankroll = amt
      /\ \A t \in Strategies \ {s} : strategy'[t].bankroll = strategy[t].bankroll
  <2>1. Baseline([strategy[s] EXCEPT !.bankroll = amt], amt).bankroll = amt
    BY <1>1 DEF Baseline, StrategyRow
  <2> QED
    BY <1>2, <2>1 DEF IInv, TypeOK
<1>4. CASE delta = 0
  <2>1. cash' = cash /\ amt = strategy[s].bankroll
    BY <1>1, <1>2, <1>4 DEF SetStartingBankroll
  <2> QED
    BY <1>2, <1>3, <2>1, NoMoves
<1>5. CASE delta # 0
  <2>1. AppendCashEvent(s, kind, delta, None)
    BY <1>5 DEF SetStartingBankroll
  <2> HIDE DEF delta, kind
  <2> QED
    BY <1>2, <1>3, <2>1, TransferMoves
<1> QED
  BY <1>4, <1>5

\* Opening a position reserves its cost in one book.
LEMMA OpenPaperPositionMoves ==
  ASSUME IInv, IInv', NEW s \in Strategies, NEW p \in Positions, NEW g \in Signals \cup {None},
         NEW side \in Side, NEW order \in Orders, NEW fees \in Fees,
         OpenPaperPosition(p, s, g, side, order, fees)
  PROVE  Moves
<1>1. /\ order.cost \in Nat /\ order.cost > 0 /\ fees \in Nat
      /\ reserved' = [reserved EXCEPT ![s] = reserved[s] + order.cost]
  BY ConstantsAssumption DEF OpenPaperPosition
<1>2. /\ strategy[s].bankroll \in Int /\ reserved[s] \in Int
      /\ reserved'[s] = reserved[s] + order.cost
      /\ \A t \in Strategies \ {s} : reserved'[t] = reserved[t]
  BY <1>1 DEF IInv, TypeOK, StrategyRow
<1>3. /\ LedgerBook'[s].reserved > LedgerBook[s].reserved
      /\ LedgerBook'[s].reserved <= LedgerBook'[s].bankroll
      /\ LedgerBook[s].bankroll = strategy[s].bankroll
      /\ LedgerBook'[s].bankroll = strategy'[s].bankroll
  BY <1>1, <1>2 DEF LedgerBook, IInv, FreeCashNonNegative
<1>4. CASE fees = 0
  <2>1. UNCHANGED <<strategy, cash>>
    BY <1>4 DEF OpenPaperPosition
  <2>2. /\ LedgerBook'[s].bankroll = LedgerBook[s].bankroll
        /\ LedgerBook'[s].log = LedgerBook[s].log
    BY <2>1 DEF LedgerBook
  <2>3. Book!Move(LedgerBook[s], LedgerBook'[s])
    BY <1>3, <2>2 DEF Book!Move, Book!Reserve
  <2>4. \A t \in Strategies \ {s} : LedgerBook'[t] = LedgerBook[t]
    BY <1>2, <2>1, SameBook
  <2> QED
    BY <2>3, <2>4 DEF Moves
<1>5. CASE fees # 0
  <2>1. /\ AppendCashEvent(s, "fee", -fees, p)
        /\ strategy' = [strategy EXCEPT ![s].bankroll = strategy[s].bankroll - fees]
    BY <1>5 DEF OpenPaperPosition
  <2>2. /\ strategy'[s].bankroll = strategy[s].bankroll - fees
        /\ \A t \in Strategies \ {s} : strategy'[t].bankroll = strategy[t].bankroll
    BY <2>1 DEF IInv, TypeOK, StrategyRow
  <2>3. -fees \in Int /\ "fee" \in Kind /\ strategy'[s].bankroll = strategy[s].bankroll + (-fees)
    BY <1>1, <1>2, <2>2 DEF Kind
  <2>4. /\ Book!Post(LedgerBook[s], LedgerBook'[s])
        /\ \A t \in Strategies \ {s} : cash'[t] = cash[t]
    BY <2>1, <2>3, AppendPosts DEF IInv
  <2>5. LedgerBook'[s].bankroll < LedgerBook[s].bankroll
    BY <1>1, <1>2, <1>3, <1>5, <2>2
  <2>6. Book!Move(LedgerBook[s], LedgerBook'[s])
    BY <1>3, <2>4, <2>5 DEF Book!Move, Book!Reserve
  <2>7. \A t \in Strategies \ {s} : LedgerBook'[t] = LedgerBook[t]
    BY <1>2, <2>2, <2>4, SameBook
  <2> QED
    BY <2>6, <2>7 DEF Moves
<1> QED
  BY <1>4, <1>5

\* Resolving a position settles its cost in its owner's book.
LEMMA ResolvePositionMoves ==
  ASSUME IInv, IInv', NEW p \in Positions, NEW res \in Resolution, ResolvePosition(p, res)
  PROVE  Moves
<1> DEFINE realized == Payout(p, res) - position[p].cost
<1>1. PICK s : s = position[p].owner
  OBVIOUS
<1>2. IsOpen(p)
  BY DEF ResolvePosition
<1>3. s \in Strategies /\ position[p].cost \in Nat /\ position[p].cost > 0
  BY <1>1, <1>2 DEF IInv, Rows, OpenIsOwned, TypeOK, PositionRow
<1>4. Payout(p, res) \in Nat
  BY PayoutNatural DEF IInv
<1>5. /\ realized \in Int /\ realized + position[p].cost >= 0
      /\ "realized_pnl" \in Kind /\ p \in Positions \cup {None}
  BY <1>3, <1>4 DEF Kind
<1>6. /\ AppendCashEvent(s, "realized_pnl", realized, p)
      /\ reserved' = [reserved EXCEPT ![s] = reserved[s] - position[p].cost]
  BY <1>1 DEF ResolvePosition
<1>7. PICK hwm : strategy' = [strategy EXCEPT
                                ![s] = [strategy[s] EXCEPT
                                          !.bankroll = strategy[s].bankroll + realized,
                                          !.hwm = hwm]]
  BY <1>1 DEF ResolvePosition
<1> HIDE DEF realized
<1>8. /\ strategy[s].bankroll \in Int /\ reserved[s] \in Int
      /\ strategy'[s].bankroll = strategy[s].bankroll + realized
      /\ reserved'[s] = reserved[s] - position[p].cost
      /\ \A t \in Strategies \ {s} : /\ strategy'[t].bankroll = strategy[t].bankroll
                                      /\ reserved'[t] = reserved[t]
  BY <1>3, <1>6, <1>7 DEF IInv, TypeOK, StrategyRow
<1>9. /\ Book!Post(LedgerBook[s], LedgerBook'[s])
      /\ \A t \in Strategies \ {s} : cash'[t] = cash[t]
  BY <1>3, <1>5, <1>6, <1>8, AppendPosts DEF IInv
<1>10. /\ LedgerBook[s].bankroll = strategy[s].bankroll /\ LedgerBook[s].reserved = reserved[s]
       /\ LedgerBook'[s].bankroll = strategy'[s].bankroll
       /\ LedgerBook'[s].reserved = reserved'[s]
  BY <1>3 DEF LedgerBook
<1>11. /\ LedgerBook'[s].reserved < LedgerBook[s].reserved
       /\ LedgerBook[s].bankroll - LedgerBook[s].reserved
             <= LedgerBook'[s].bankroll - LedgerBook'[s].reserved
  <2>1. reserved'[s] < reserved[s]
    BY <1>3, <1>8
  <2>2. strategy[s].bankroll - reserved[s] <= strategy'[s].bankroll - reserved'[s]
    BY <1>3, <1>5, <1>8
  <2> QED
    BY <1>10, <2>1, <2>2
<1>12. Book!Move(LedgerBook[s], LedgerBook'[s])
  BY <1>9, <1>11 DEF Book!Move, Book!Release
<1>13. \A t \in Strategies \ {s} : LedgerBook'[t] = LedgerBook[t]
  BY <1>8, <1>9, SameBook
<1> QED
  BY <1>12, <1>13 DEF Moves

-----------------------------------------------------------------------------
(* The refinement. *)

\* Every step of the ledger moves each book, or leaves it alone.
LEMMA StepMoves == ASSUME IInv, IInv', Next PROVE Moves
<1>1. CASE Seed
  BY <1>1, SeedMoves
<1>2. ASSUME NEW s \in Strategies, NEW amt \in Amounts,
             Deposit(s, amt) \/ Withdraw(s, amt) \/ SetStartingBankroll(s, amt)
      PROVE  Moves
  BY <1>2, DepositMoves, WithdrawMoves, SetStartingBankrollMoves
<1>3. ASSUME NEW s \in Strategies, NEW fraction \in Fractions, SetKellyFraction(s, fraction)
      PROVE  Moves
  <2>1. /\ UNCHANGED <<cash, reserved>>
        /\ \A t \in Strategies : strategy'[t].bankroll = strategy[t].bankroll
    BY <1>3 DEF SetKellyFraction, IInv, TypeOK, StrategyRow
  <2> QED
    BY <2>1, NoMoves
<1>4. ASSUME NEW s \in Strategies, NEW gate, NEW target, NEW disable,
             LifecycleTransition(s, gate, target, disable)
      PROVE  Moves
  <2>1. /\ UNCHANGED <<cash, reserved>>
        /\ \A t \in Strategies : strategy'[t].bankroll = strategy[t].bankroll
    BY <1>4 DEF LifecycleTransition, IInv, TypeOK, StrategyRow
  <2> QED
    BY <2>1, NoMoves
<1>5. ASSUME NEW s \in Strategies, Pause(s) \/ Resume(s) \/ Decommission(s)
      PROVE  Moves
  BY <1>4, <1>5 DEF Pause, Resume, Decommission
<1>6. ASSUME NEW s \in Strategies, NEW g \in Signals, RecordSignal(g, s)
      PROVE  Moves
  BY <1>6, NoMoves DEF RecordSignal
<1>7. ASSUME NEW s \in Strategies, NEW p \in Positions, NEW g \in Signals \cup {None},
             NEW side \in Side, NEW order \in Orders, NEW fees \in Fees,
             OpenPaperPosition(p, s, g, side, order, fees)
      PROVE  Moves
  BY <1>7, OpenPaperPositionMoves
<1>8. ASSUME NEW p \in Positions, NEW res \in Resolution, ResolvePosition(p, res)
      PROVE  Moves
  BY <1>8, ResolvePositionMoves
<1>9. CASE ApplyKillSwitch \/ ClearKillSwitch
  BY <1>9, NoMoves DEF ApplyKillSwitch, ClearKillSwitch
<1> QED
  BY <1>1, <1>2, <1>3, <1>5, <1>6, <1>7, <1>8, <1>9 DEF Next

\* Every transaction of the ledger is, for each strategy it writes, a transfer,
\* a reservation or a release that the cash book allows, or leaves it alone.
THEOREM LedgerImplementsCashBook == Spec => ImplementsCashBook
<1>1. Init => Book!Init
  <2> SUFFICES ASSUME Init PROVE Book!Init
    OBVIOUS
  <2>1. TypeOK
    BY InitInv DEF IInv
  <2>2. ASSUME NEW s \in Strategies PROVE LedgerBook[s] = Book!EmptyBook
    <3>1. cash[s] = <<>> /\ reserved[s] = 0 /\ strategy[s].bankroll = 0
      BY DEF Init
    <3>2. Entries(cash[s]) = <<>>
      BY <2>1, <3>1, EntriesOfJournal DEF TypeOK
    <3> QED
      BY <2>1, <3>1, <3>2, BookOfStrategy DEF Book!EmptyBook
  <2>3. LedgerBook = [s \in Strategies |-> LedgerBook[s]]
    BY DEF LedgerBook
  <2> QED
    BY <2>2, <2>3 DEF Book!Init
<1>2. IInv /\ IInv' /\ [Next]_vars => [Book!Next]_LedgerBook
  <2> SUFFICES ASSUME IInv, IInv', [Next]_vars PROVE [Book!Next]_LedgerBook
    OBVIOUS
  <2>1. CASE UNCHANGED vars
    BY <2>1 DEF vars, LedgerBook
  <2>2. CASE Next
    <3>1. Moves
      BY <2>2, StepMoves
    <3>2. LedgerBook' \in [Strategies -> Book!Book]
      <4>1. \A s \in Strategies : LedgerBook'[s] \in Book!Book
        <5> SUFFICES ASSUME NEW s \in Strategies PROVE LedgerBook'[s] \in Book!Book
          OBVIOUS
        <5>1. strategy'[s].bankroll \in Int /\ reserved'[s] \in Int /\ cash'[s] \in Seq(CashEvent)
          BY DEF IInv, TypeOK, StrategyRow
        <5>2. Entries(cash'[s]) \in Seq(Book!Entry)
          BY <5>1, EntriesOfJournal
        <5>3. LedgerBook'[s] = [bankroll |-> strategy'[s].bankroll, reserved |-> reserved'[s],
                                log |-> Entries(cash'[s])]
          BY DEF LedgerBook, Entries
        <5> QED
          BY <5>1, <5>2, <5>3 DEF Book!Book
      <4>2. LedgerBook' = [s \in Strategies |-> LedgerBook'[s]]
        BY DEF LedgerBook
      <4> QED
        BY <4>1, <4>2
    <3> QED
      BY <3>1, <3>2 DEF Moves, Book!Next
  <2> QED
    BY <2>1, <2>2
<1> QED
  BY <1>1, <1>2, InductiveInvariant, PTL DEF Spec, ImplementsCashBook, Book!Spec
=============================================================================
