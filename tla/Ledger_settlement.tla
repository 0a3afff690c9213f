-------------------------- MODULE Ledger_settlement --------------------------
(***************************************************************************)
(* What resolutions leave in the ledger, and what the lifecycle and the    *)
(* kill switch stop, for any strategies, positions, orders and amounts.    *)
(*                                                                         *)
(* OnePnlPerResolution counts the events of each position over all         *)
(* journals; PnlsPosted says the same event by event, which a step can be  *)
(* held against.  HwmCoversRealized is not inductive: a new baseline       *)
(* lowers the mark, and only PnlsPosted tells that a strategy that never   *)
(* traded has no profit or loss to cover.  DecommissionedIsTerminal needs  *)
(* that a decommissioned strategy is disabled already.                     *)
(***************************************************************************)
EXTENDS Ledger_proofs

IsPnl(e) == e.kind = "realized_pnl"

\* No two profit-or-loss events of a journal are of the same position.
PnlsOnce(log) ==
    \A i, j \in 1..Len(log) :
        IsPnl(log[i]) /\ IsPnl(log[j]) /\ log[i].ref = log[j].ref => i = j

\* Position p has no profit-or-loss event in a journal.
NoPnlOf(log, p) == \A i \in 1..Len(log) : IsPnl(log[i]) => log[i].ref # p

\* Event e is what position e.ref of strategy s was resolved for.
IsPosted(s, e) == /\ e.ref \in Positions
                  /\ position[e.ref].status = "resolved"
                  /\ position[e.ref].owner = s
                  /\ position[e.ref].realized = e.amount

PnlsPosted ==
    /\ \A s \in Strategies : PnlsOnce(cash[s])
    /\ \A s \in Strategies : \A i \in 1..Len(cash[s]) :
          IsPnl(cash[s][i]) => IsPosted(s, cash[s][i])
    /\ \A p \in Positions : position[p].status = "resolved" =>
          \E s \in Strategies : \E i \in 1..Len(cash[s]) :
             IsPnl(cash[s][i]) /\ cash[s][i].ref = p

DecommissionedDisabled ==
    \A s \in Strategies : strategy[s].state = DECOMMISSIONED => ~strategy[s].enabled

SInv == IInv /\ PnlsPosted /\ HwmCoversRealized /\ DecommissionedDisabled

-----------------------------------------------------------------------------
(* What a step may do. *)

\* A journal stays or gains one event that is no profit or loss.
Plain(log, new) ==
    new = log \/ \E e \in CashEvent : ~IsPnl(e) /\ new = Append(log, e)

\* A step that resolves nothing, and lowers the mark of a strategy only when it
\* has not traded.
Unsettling ==
    /\ \A s \in Strategies : Plain(cash[s], cash'[s])
    /\ \A p \in Positions : \/ position'[p] = position[p]
                            \/ /\ position[p].status # "resolved"
                               /\ position'[p].status # "resolved"
    /\ \A s \in Strategies : \/ strategy'[s].hwm = strategy[s].hwm
                             \/ ~HasTradingActivity(s)
                             \/ ~Exists(s)

\* What a step may do to a decommissioned strategy, and how it makes one.
Terminal(s) ==
    /\ strategy[s].state = DECOMMISSIONED =>
          /\ strategy'[s].state = DECOMMISSIONED
          /\ ~strategy'[s].enabled
          /\ strategy'[s].kelly = strategy[s].kelly
          /\ strategy'[s].minBankroll = strategy[s].minBankroll
          /\ cash'[s] # cash[s] => cash'[s][Len(cash'[s])].kind # "deposit"
    /\ strategy'[s].state = DECOMMISSIONED =>
          strategy[s].state = DECOMMISSIONED \/ ~strategy'[s].enabled

AllTerminal == \A s \in Strategies : Terminal(s)

\* The states have different names.
LEMMA DecommissionedIsOther ==
  /\ DECOMMISSIONED # NoRow /\ DECOMMISSIONED # ACTIVE /\ DECOMMISSIONED # PauseTarget
  /\ DECOMMISSIONED # ResumeTarget /\ ~can_pause(DECOMMISSIONED) /\ ~can_resume(DECOMMISSIONED)
  /\ DECOMMISSIONED \in DEPOSIT_BLOCKED_STATES
  BY DEF DECOMMISSIONED, NoRow, ACTIVE, PauseTarget, ResumeTarget, OPERATOR_PAUSED, can_pause,
         can_resume, PAUSABLE_STATES, RESUMABLE_STATES, LOW_BANKROLL_PAUSED, DRAWDOWN_PAUSED,
         DEPOSIT_BLOCKED_STATES

\* An event the writer appends is the last of its journal.
LEMMA AppendIsLast ==
  ASSUME TypeOK, NEW s \in Strategies, NEW kind \in Kind, NEW amt \in Int,
         NEW ref \in Positions \cup {None}, AppendCashEvent(s, kind, amt, ref)
  PROVE  \E e \in CashEvent :
            /\ e.kind = kind /\ e.amount = amt /\ e.ref = ref
            /\ e.balance = strategy[s].bankroll + amt
            /\ cash'[s] = Append(cash[s], e)
            /\ Len(cash'[s]) = Len(cash[s]) + 1 /\ cash'[s][Len(cash'[s])] = e
            /\ \A t \in Strategies \ {s} : cash'[t] = cash[t]
<1> DEFINE e == [kind |-> kind, amount |-> amt,
                 balance |-> strategy[s].bankroll + amt, ref |-> ref]
<1>1. strategy[s].bankroll \in Int /\ cash[s] \in Seq(CashEvent)
  BY DEF TypeOK, StrategyRow
<1>2. e \in CashEvent
  BY <1>1 DEF CashEvent
<1>3. /\ e.kind = kind /\ e.amount = amt /\ e.ref = ref
      /\ e.balance = strategy[s].bankroll + amt
  OBVIOUS
<1>4. cash'[s] = Append(cash[s], e) /\ \A t \in Strategies \ {s} : cash'[t] = cash[t]
  BY DEF AppendCashEvent, TypeOK
<1> HIDE DEF e
<1>5. Len(cash'[s]) = Len(cash[s]) + 1 /\ cash'[s][Len(cash'[s])] = e
  BY <1>1, <1>2, <1>4
<1> QED
  BY <1>2, <1>3, <1>4, <1>5

\* So a transfer or a fee settles nothing.
LEMMA AppendPlain ==
  ASSUME TypeOK, NEW s \in Strategies, NEW kind \in Kind, NEW amt \in Int,
         NEW ref \in Positions \cup {None}, AppendCashEvent(s, kind, amt, ref),
         kind # "realized_pnl"
  PROVE  /\ \A t \in Strategies : Plain(cash[t], cash'[t])
         /\ cash'[s][Len(cash'[s])].kind = kind
         /\ \A t \in Strategies \ {s} : cash'[t] = cash[t]
<1> PICK e \in CashEvent :
      /\ e.kind = kind /\ cash'[s] = Append(cash[s], e) /\ cash'[s][Len(cash'[s])] = e
      /\ \A t \in Strategies \ {s} : cash'[t] = cash[t]
  BY AppendIsLast
<1> QED
  BY DEF Plain, IsPnl

\* A strategy whose row and journal a step leaves alone.
LEMMA TerminalKept ==
  ASSUME DecommissionedDisabled, NEW s \in Strategies,
         strategy'[s] = strategy[s], cash'[s] = cash[s]
  PROVE  Terminal(s)
  BY DEF DecommissionedDisabled, Terminal

\* A strategy whose state, Kelly fraction and baseline stay, and which gets no
\* deposit once it is decommissioned.
LEMMA TerminalMoved ==
  ASSUME DecommissionedDisabled, NEW s \in Strategies,
         strategy'[s].state = strategy[s].state,
         strategy'[s].enabled = strategy[s].enabled,
         strategy'[s].kelly = strategy[s].kelly,
         strategy'[s].minBankroll = strategy[s].minBankroll,
         cash'[s][Len(cash'[s])].kind # "deposit"
  PROVE  Terminal(s)
  BY DEF DecommissionedDisabled, Terminal

\* An event that is no profit or loss keeps the journal's profits and losses.
LEMMA PlainKeepsPnls ==
  ASSUME NEW log \in Seq(CashEvent), NEW new, Plain(log, new)
  PROVE  /\ PnlsOnce(log) => PnlsOnce(new)
         /\ \A i \in 1..Len(log) : i \in 1..Len(new) /\ new[i] = log[i]
         /\ \A i \in 1..Len(new) : IsPnl(new[i]) => i \in 1..Len(log) /\ new[i] = log[i]
<1>1. CASE new = log
  BY <1>1
<1>2. ASSUME NEW e \in CashEvent, ~IsPnl(e), new = Append(log, e)
      PROVE  /\ PnlsOnce(log) => PnlsOnce(new)
             /\ \A i \in 1..Len(log) : i \in 1..Len(new) /\ new[i] = log[i]
             /\ \A i \in 1..Len(new) : IsPnl(new[i]) => i \in 1..Len(log) /\ new[i] = log[i]
  <2>1. /\ new \in Seq(CashEvent) /\ Len(new) = Len(log) + 1 /\ Len(log) \in Nat
        /\ new[Len(log) + 1] = e
        /\ \A i \in 1..Len(log) : new[i] = log[i]
    BY <1>2
  <2>2. \A i \in 1..Len(log) : i \in 1..Len(new) /\ new[i] = log[i]
    BY <2>1
  <2>3. \A i \in 1..Len(new) : IsPnl(new[i]) => i \in 1..Len(log) /\ new[i] = log[i]
    BY <2>1, <1>2
  <2> QED
    BY <2>2, <2>3 DEF PnlsOnce
<1> QED
  BY <1>1, <1>2 DEF Plain

-----------------------------------------------------------------------------
(* Steps that resolve nothing keep the invariant. *)

\* Profits and losses already posted stay the only ones.
LEMMA PnlsKept ==
  ASSUME TypeOK, PnlsPosted, Unsettling
  PROVE  PnlsPosted'
<1>1. \A s \in Strategies :
         /\ PnlsOnce(cash'[s])
         /\ \A i \in 1..Len(cash[s]) : i \in 1..Len(cash'[s]) /\ cash'[s][i] = cash[s][i]
         /\ \A i \in 1..Len(cash'[s]) :
               IsPnl(cash'[s][i]) => i \in 1..Len(cash[s]) /\ cash'[s][i] = cash[s][i]
  <2> SUFFICES ASSUME NEW s \in Strategies
               PROVE  /\ PnlsOnce(cash'[s])
                      /\ \A i \in 1..Len(cash[s]) :
                            i \in 1..Len(cash'[s]) /\ cash'[s][i] = cash[s][i]
                      /\ \A i \in 1..Len(cash'[s]) : IsPnl(cash'[s][i]) =>
                            i \in 1..Len(cash[s]) /\ cash'[s][i] = cash[s][i]
    OBVIOUS
  <2>1. cash[s] \in Seq(CashEvent) /\ PnlsOnce(cash[s]) /\ Plain(cash[s], cash'[s])
    BY DEF TypeOK, PnlsPosted, Unsettling
  <2> QED
    BY <2>1, PlainKeepsPnls
<1>2. ASSUME NEW s \in Strategies, NEW i \in 1..Len(cash'[s]), IsPnl(cash'[s][i])
      PROVE  IsPosted(s, cash[s][i])'
  <2>1. i \in 1..Len(cash[s]) /\ cash'[s][i] = cash[s][i]
    BY <1>1, <1>2
  <2>2. IsPosted(s, cash[s][i])
    BY <2>1, <1>2 DEF PnlsPosted
  <2> QED
    BY <2>1, <2>2 DEF IsPosted, Unsettling
<1>3. ASSUME NEW p \in Positions, position'[p].status = "resolved"
      PROVE  \E s \in Strategies : \E i \in 1..Len(cash'[s]) :
                IsPnl(cash'[s][i]) /\ cash'[s][i].ref = p
  <2>1. position[p].status = "resolved"
    BY <1>3 DEF Unsettling
  <2>2. PICK s \in Strategies : \E i \in 1..Len(cash[s]) :
            IsPnl(cash[s][i]) /\ cash[s][i].ref = p
    BY <2>1 DEF PnlsPosted
  <2>3. PICK i \in 1..Len(cash[s]) : IsPnl(cash[s][i]) /\ cash[s][i].ref = p
    BY <2>2
  <2> QED
    BY <2>3, <1>1
<1> QED
  BY <1>1, <1>2, <1>3 DEF PnlsPosted, IsPnl

\* A strategy that has not traded has no profit or loss, so its mark may fall.
LEMMA UntradedHasNoPnl ==
  ASSUME IInv, PnlsPosted, NEW s \in Strategies, ~HasTradingActivity(s) \/ ~Exists(s),
         NEW i \in 1..Len(cash[s])
  PROVE  ~IsPnl(cash[s][i])
<1>1. CASE ~Exists(s)
  BY <1>1 DEF IInv, Rows, MissingIsEmpty
<1>2. ASSUME ~HasTradingActivity(s), IsPnl(cash[s][i]) PROVE FALSE
  <2>1. IsPosted(s, cash[s][i])
    BY <1>2 DEF PnlsPosted
  <2> QED
    BY <1>2, <2>1 DEF IsPosted, HasTradingActivity, NoRow
<1> QED
  BY <1>1, <1>2

\* The mark still covers what the resolutions left.
LEMMA HwmKept ==
  ASSUME SInv, Unsettling
  PROVE  HwmCoversRealized'
<1> SUFFICES ASSUME NEW s \in Strategies, NEW i \in 1..Len(cash'[s]), IsPnl(cash'[s][i])
             PROVE  cash'[s][i].balance <= strategy'[s].hwm
  BY DEF HwmCoversRealized, IsPnl
<1>1. cash[s] \in Seq(CashEvent) /\ Plain(cash[s], cash'[s])
  BY DEF SInv, IInv, TypeOK, Unsettling
<1>2. i \in 1..Len(cash[s]) /\ cash'[s][i] = cash[s][i]
  BY <1>1, PlainKeepsPnls
<1>3. HasTradingActivity(s) /\ Exists(s)
  BY <1>2, UntradedHasNoPnl DEF SInv
<1>4. strategy'[s].hwm = strategy[s].hwm
  BY <1>3 DEF Unsettling
<1> QED
  BY <1>2, <1>4 DEF SInv, HwmCoversRealized, IsPnl

\* Disabled stays disabled where no decommissioned row is touched but by its terminal moves.
LEMMA DecommissionedKept ==
  ASSUME DecommissionedDisabled, AllTerminal
  PROVE  DecommissionedDisabled'
  BY DEF DecommissionedDisabled, AllTerminal, Terminal

-----------------------------------------------------------------------------
(* The actions that resolve nothing. *)

\* What to show of a step that writes one strategy and no position.
LEMMA OneRowWritten ==
  ASSUME SInv, NEW s \in Strategies, UNCHANGED position,
         \A t \in Strategies \ {s} : strategy'[t] = strategy[t] /\ cash'[t] = cash[t],
         Plain(cash[s], cash'[s]),
         strategy'[s].hwm = strategy[s].hwm \/ ~HasTradingActivity(s),
         Terminal(s)
  PROVE  Unsettling /\ AllTerminal
<1>1. ASSUME NEW t \in Strategies
      PROVE  /\ Plain(cash[t], cash'[t]) /\ Terminal(t)
             /\ \/ strategy'[t].hwm = strategy[t].hwm
                \/ ~HasTradingActivity(t)
                \/ ~Exists(t)
  <2>1. CASE t = s
    BY <2>1
  <2>2. CASE t # s
    BY <2>2, TerminalKept DEF SInv, Plain
  <2> QED
    BY <2>1, <2>2
<1> QED
  BY <1>1 DEF Unsettling, AllTerminal

\* A seeded strategy had no row, so it was not decommissioned and has no events.
LEMMA SeedUnsettling == ASSUME SInv, Seed PROVE Unsettling /\ AllTerminal
<1> USE DEF Seed
<1>1. ASSUME NEW s \in Strategies
      PROVE  /\ Plain(cash[s], cash'[s]) /\ Terminal(s)
             /\ strategy'[s].hwm = strategy[s].hwm \/ ~Exists(s)
  <2>1. CASE s \in Missing
    <3>1. /\ ~Exists(s) /\ strategy[s].state = NoRow /\ strategy'[s].state = ACTIVE
          /\ cash'[s] = <<SeedDeposit(s)>>
      BY <2>1 DEF Missing, Exists, SeededRow
    <3>2. cash[s] = <<>>
      BY <3>1 DEF SInv, IInv, Rows, MissingIsEmpty
    <3>3. SeedDeposit(s) \in CashEvent /\ ~IsPnl(SeedDeposit(s))
      BY ConstantsAssumption DEF SeedDeposit, CashEvent, Kind, IsPnl
    <3>4. Append(<<>>, SeedDeposit(s)) = <<SeedDeposit(s)>>
      OBVIOUS
    <3>5. Plain(cash[s], cash'[s])
      BY <3>1, <3>2, <3>3, <3>4 DEF Plain
    <3> QED
      BY <3>1, <3>5, DecommissionedIsOther DEF Terminal
  <2>2. CASE s \notin Missing
    <3>1. strategy'[s] = strategy[s] /\ cash'[s] = cash[s]
      BY <2>2
    <3> QED
      BY <3>1, TerminalKept DEF SInv, Plain
  <2> QED
    BY <2>1, <2>2
<1> QED
  BY <1>1 DEF Unsettling, AllTerminal

\* A decommissioned strategy takes no deposit.
LEMMA DepositUnsettling ==
  ASSUME SInv, NEW s \in Strategies, NEW amt \in Amounts, Deposit(s, amt)
  PROVE  Unsettling /\ AllTerminal
<1>1. /\ TypeOK /\ amt \in Int /\ "deposit" \in Kind
      /\ AppendCashEvent(s, "deposit", amt, None)
      /\ strategy[s].state \notin DEPOSIT_BLOCKED_STATES
      /\ UNCHANGED position
  BY ConstantsAssumption DEF Deposit, Kind, SInv, IInv
<1>2. PICK st \in {strategy[s].state, ACTIVE} :
         strategy' = [strategy EXCEPT
                         ![s] = [strategy[s] EXCEPT !.bankroll = strategy[s].bankroll + amt,
                                                    !.state = st]]
  BY DEF Deposit, ResumeTarget
<1>3. /\ strategy'[s].hwm = strategy[s].hwm /\ strategy'[s].state = st
      /\ \A t \in Strategies \ {s} : strategy'[t] = strategy[t]
  BY <1>1, <1>2 DEF TypeOK, StrategyRow
<1>4. /\ Plain(cash[s], cash'[s])
      /\ \A t \in Strategies \ {s} : cash'[t] = cash[t]
  BY <1>1, AppendPlain
<1>5. Terminal(s)
  BY <1>1, <1>3, DecommissionedIsOther DEF Terminal
<1> QED
  BY <1>1, <1>3, <1>4, <1>5, OneRowWritten

\* A withdrawal lowers a bankroll, not the mark, and is open to a decommissioned strategy.
LEMMA WithdrawUnsettling ==
  ASSUME SInv, NEW s \in Strategies, NEW amt \in Amounts, Withdraw(s, amt)
  PROVE  Unsettling /\ AllTerminal
<1>1. /\ TypeOK /\ -amt \in Int /\ "withdraw" \in Kind
      /\ AppendCashEvent(s, "withdraw", -amt, None)
      /\ strategy' = [strategy EXCEPT ![s].bankroll = strategy[s].bankroll - amt]
      /\ UNCHANGED position
  BY ConstantsAssumption DEF Withdraw, Kind, SInv, IInv
<1>2. /\ strategy'[s].hwm = strategy[s].hwm /\ strategy'[s].state = strategy[s].state
      /\ strategy'[s].enabled = strategy[s].enabled /\ strategy'[s].kelly = strategy[s].kelly
      /\ strategy'[s].minBankroll = strategy[s].minBankroll
      /\ \A t \in Strategies \ {s} : strategy'[t] = strategy[t]
  BY <1>1 DEF TypeOK, StrategyRow
<1>3. /\ Plain(cash[s], cash'[s]) /\ cash'[s][Len(cash'[s])].kind = "withdraw"
      /\ \A t \in Strategies \ {s} : cash'[t] = cash[t]
  BY <1>1, AppendPlain
<1>4. Terminal(s)
  BY <1>2, <1>3, TerminalMoved DEF SInv
<1> QED
  BY <1>1, <1>2, <1>3, <1>4, OneRowWritten

\* The one action that lowers a mark asks that the strategy has not traded.
LEMMA SetStartingBankrollUnsettling ==
  ASSUME SInv, NEW s \in Strategies, NEW amt \in Amounts, SetStartingBankroll(s, amt)
  PROVE  Unsettling /\ AllTerminal
<1> DEFINE delta == amt - strategy[s].bankroll
           kind == IF delta > 0 THEN "deposit" ELSE "withdraw"
           row == Baseline([strategy[s] EXCEPT !.bankroll = amt], amt)
<1>1. /\ TypeOK /\ strategy[s] \in StrategyRow /\ strategy[s].bankroll \in Int
      /\ amt \in Int /\ delta \in Int /\ kind \in Kind /\ kind # "realized_pnl"
  BY ConstantsAssumption DEF SInv, IInv, TypeOK, StrategyRow, Kind
<1>2. /\ strategy[s].state # DECOMMISSIONED /\ ~HasTradingActivity(s) /\ UNCHANGED position
      /\ strategy' = [strategy EXCEPT ![s] = row]
      /\ cash' = cash \/ AppendCashEvent(s, kind, delta, None)
  BY DEF SetStartingBankroll
<1>3. row.state = strategy[s].state
  <2> DEFINE paid == [strategy[s] EXCEPT !.bankroll = amt]
  <2>1. paid \in StrategyRow /\ paid.state = strategy[s].state
    BY <1>1 DEF StrategyRow
  <2>2. row = [paid EXCEPT !.initial = amt, !.hwm = amt, !.minBankroll = amt]
    BY DEF Baseline
  <2> HIDE DEF paid, row
  <2>3. row.state = paid.state
    BY <2>1, <2>2 DEF StrategyRow
  <2> QED
    BY <2>1, <2>3
<1> HIDE DEF row
<1>4. /\ strategy'[s].state = strategy[s].state
      /\ \A t \in Strategies \ {s} : strategy'[t] = strategy[t]
  BY <1>1, <1>2, <1>3 DEF TypeOK
<1>5. /\ Plain(cash[s], cash'[s])
      /\ \A t \in Strategies \ {s} : cash'[t] = cash[t]
  BY <1>1, <1>2, AppendPlain DEF Plain
<1>6. Terminal(s)
  BY <1>2, <1>4 DEF Terminal
<1> QED
  BY <1>2, <1>4, <1>5, <1>6, OneRowWritten

\* The Kelly fraction moves no money, and not for a decommissioned strategy.
LEMMA SetKellyFractionUnsettling ==
  ASSUME SInv, NEW s \in Strategies, NEW fraction \in Fractions, SetKellyFraction(s, fraction)
  PROVE  Unsettling /\ AllTerminal
<1>1. /\ TypeOK /\ strategy[s].state # DECOMMISSIONED
      /\ strategy' = [strategy EXCEPT ![s].kelly = Clamped(fraction)]
      /\ UNCHANGED <<cash, position>>
  BY DEF SetKellyFraction, SInv, IInv
<1>2. /\ strategy'[s].hwm = strategy[s].hwm /\ strategy'[s].state = strategy[s].state
      /\ \A t \in Strategies \ {s} : strategy'[t] = strategy[t]
  BY <1>1 DEF TypeOK, StrategyRow
<1>3. Terminal(s) /\ Plain(cash[s], cash'[s])
  BY <1>1, <1>2 DEF Terminal, Plain
<1> QED
  BY <1>1, <1>2, <1>3, OneRowWritten

\* A transition leaves the money and the baseline; decommissioning disables.
LEMMA LifecycleWrites ==
  ASSUME TypeOK, NEW s \in Strategies, NEW gate, NEW target, NEW disable \in BOOLEAN,
         LifecycleTransition(s, gate, target, disable)
  PROVE  /\ strategy'[s].hwm = strategy[s].hwm /\ strategy'[s].state = target
         /\ strategy'[s].kelly = strategy[s].kelly
         /\ strategy'[s].minBankroll = strategy[s].minBankroll
         /\ disable => ~strategy'[s].enabled
         /\ \A t \in Strategies \ {s} : strategy'[t] = strategy[t]
         /\ UNCHANGED <<cash, position>>
<1> DEFINE row == [strategy[s] EXCEPT !.state = target,
                                      !.enabled = strategy[s].enabled /\ ~disable]
<1>1. strategy' = [strategy EXCEPT ![s] = row] /\ UNCHANGED <<cash, position>>
  BY DEF LifecycleTransition
<1>2. strategy[s] \in StrategyRow
  BY DEF TypeOK
<1>3. /\ row.hwm = strategy[s].hwm /\ row.state = target
      /\ row.kelly = strategy[s].kelly /\ row.minBankroll = strategy[s].minBankroll
      /\ row.enabled = (strategy[s].enabled /\ ~disable)
  BY <1>2 DEF StrategyRow
<1> HIDE DEF row
<1>4. strategy'[s] = row /\ \A t \in Strategies \ {s} : strategy'[t] = strategy[t]
  BY <1>1 DEF TypeOK
<1> QED
  BY <1>1, <1>3, <1>4

\* Pause and resume are refused to a decommissioned strategy.
LEMMA LifecycleUnsettling ==
  ASSUME SInv, NEW s \in Strategies, Pause(s) \/ Resume(s) \/ Decommission(s)
  PROVE  Unsettling /\ AllTerminal
<1>1. TypeOK
  BY DEF SInv, IInv
<1>2. CASE Pause(s)
  <2>1. can_pause(strategy[s].state)
    BY <1>2 DEF Pause, LifecycleTransition
  <2>2. LifecycleTransition(s, can_pause(strategy[s].state), PauseTarget, FALSE)
    BY <1>2 DEF Pause
  <2>3. Terminal(s) /\ Plain(cash[s], cash'[s])
    BY <1>1, <2>1, <2>2, LifecycleWrites, DecommissionedIsOther DEF Terminal, Plain
  <2> QED
    BY <1>1, <2>2, <2>3, LifecycleWrites, OneRowWritten
<1>3. CASE Resume(s)
  <2>1. can_resume(strategy[s].state)
    BY <1>3 DEF Resume, LifecycleTransition
  <2>2. LifecycleTransition(s, can_resume(strategy[s].state), ResumeTarget, FALSE)
    BY <1>3 DEF Resume
  <2>3. Terminal(s) /\ Plain(cash[s], cash'[s])
    BY <1>1, <2>1, <2>2, LifecycleWrites, DecommissionedIsOther DEF Terminal, Plain
  <2> QED
    BY <1>1, <2>2, <2>3, LifecycleWrites, OneRowWritten
<1>4. CASE Decommission(s)
  <2>1. LifecycleTransition(s, TRUE, DECOMMISSIONED, TRUE)
    BY <1>4 DEF Decommission
  <2>2. Terminal(s) /\ Plain(cash[s], cash'[s])
    BY <1>1, <2>1, LifecycleWrites DEF Terminal, Plain
  <2> QED
    BY <1>1, <2>1, <2>2, LifecycleWrites, OneRowWritten
<1> QED
  BY <1>2, <1>3, <1>4

\* Opening a position charges at most a fee, and the position is new.
LEMMA OpenPaperPositionUnsettling ==
  ASSUME SInv, NEW s \in Strategies, NEW p \in Positions, NEW g \in Signals \cup {None},
         NEW side \in Side, NEW order \in Orders, NEW fees \in Fees,
         OpenPaperPosition(p, s, g, side, order, fees)
  PROVE  Unsettling /\ AllTerminal
<1> DEFINE opened == [status |-> "open", owner |-> s, side |-> side,
                      qty |-> order.qty, cost |-> order.cost, realized |-> 0]
<1>1. /\ TypeOK /\ fees \in Int /\ -fees \in Int /\ "fee" \in Kind
      /\ position[p].status = NoRow
      /\ position' = [position EXCEPT ![p] = opened]
      /\ \/ UNCHANGED <<strategy, cash>>
         \/ /\ AppendCashEvent(s, "fee", -fees, p)
            /\ strategy' = [strategy EXCEPT ![s].bankroll = strategy[s].bankroll - fees]
  BY ConstantsAssumption DEF OpenPaperPosition, SInv, IInv, Kind
<1>2. \A q \in Positions : \/ position'[q] = position[q]
                           \/ /\ position[q].status # "resolved"
                              /\ position'[q].status # "resolved"
  BY <1>1 DEF TypeOK, NoRow
<1>3. CASE UNCHANGED <<strategy, cash>>
  <2>1. \A t \in Strategies : Terminal(t) /\ Plain(cash[t], cash'[t])
    BY <1>3, TerminalKept DEF SInv, Plain
  <2> QED
    BY <1>2, <1>3, <2>1 DEF Unsettling, AllTerminal
<1>4. CASE /\ AppendCashEvent(s, "fee", -fees, p)
           /\ strategy' = [strategy EXCEPT ![s].bankroll = strategy[s].bankroll - fees]
  <2>1. /\ strategy'[s].hwm = strategy[s].hwm /\ strategy'[s].state = strategy[s].state
        /\ strategy'[s].enabled = strategy[s].enabled /\ strategy'[s].kelly = strategy[s].kelly
        /\ strategy'[s].minBankroll = strategy[s].minBankroll
        /\ \A t \in Strategies \ {s} : strategy'[t] = strategy[t]
    BY <1>1, <1>4 DEF TypeOK, StrategyRow
  <2>2. /\ \A t \in Strategies : Plain(cash[t], cash'[t])
        /\ cash'[s][Len(cash'[s])].kind = "fee"
        /\ \A t \in Strategies \ {s} : cash'[t] = cash[t]
    BY <1>1, <1>4, AppendPlain
  <2>3. Terminal(s)
    BY <2>1, <2>2, TerminalMoved DEF SInv
  <2>4. \A t \in Strategies \ {s} : Terminal(t)
    BY <2>1, <2>2, TerminalKept DEF SInv
  <2> QED
    BY <1>2, <2>1, <2>2, <2>3, <2>4 DEF Unsettling, AllTerminal
<1> QED
  BY <1>1, <1>3, <1>4

\* Signals and the kill switch write no money.
LEMMA StillUnsettling ==
  ASSUME SInv, UNCHANGED <<strategy, cash, position>>
  PROVE  Unsettling /\ AllTerminal
<1>1. \A s \in Strategies : Terminal(s)
  BY TerminalKept DEF SInv
<1> QED
  BY <1>1 DEF Unsettling, AllTerminal, Plain
-----------------------------------------------------------------------------
(* The resolution of a position. *)

\* What resolve_position writes: the event of the position, its row, the
\* bankroll and the mark of its owner, whose reservation falls.
LEMMA ResolutionWrites ==
  ASSUME IInv, NEW p \in Positions, NEW res \in Resolution, ResolvePosition(p, res)
  PROVE  LET s == position[p].owner
         IN  \E e \in CashEvent :
               /\ s \in Strategies /\ position[p].status = "open"
               /\ IsPnl(e) /\ e.ref = p /\ cash'[s] = Append(cash[s], e)
               /\ \A t \in Strategies \ {s} : cash'[t] = cash[t]
               /\ position'[p].status = "resolved" /\ position'[p].owner = s
               /\ position'[p].realized = e.amount
               /\ \A q \in Positions \ {p} : position'[q] = position[q]
               /\ strategy'[s].hwm >= strategy[s].hwm /\ strategy'[s].hwm >= e.balance
               /\ strategy'[s].state = strategy[s].state
               /\ strategy'[s].enabled = strategy[s].enabled
               /\ strategy'[s].kelly = strategy[s].kelly
               /\ strategy'[s].initial = strategy[s].initial
               /\ strategy'[s].minBankroll = strategy[s].minBankroll
               /\ \A t \in Strategies \ {s} : strategy'[t] = strategy[t]
               /\ reserved'[s] < reserved[s]
               /\ \A t \in Strategies \ {s} : reserved'[t] = reserved[t]
<1> DEFINE s == position[p].owner
           realized == Payout(p, res) - position[p].cost
           new_bankroll == strategy[s].bankroll + realized
           new_hwm == IF new_bankroll > strategy[s].hwm THEN new_bankroll ELSE strategy[s].hwm
           row == [strategy[s] EXCEPT !.bankroll = new_bankroll, !.hwm = new_hwm]
           closed == [position[p] EXCEPT !.status = "resolved", !.realized = realized]
<1>1. /\ IsOpen(p)
      /\ AppendCashEvent(s, "realized_pnl", realized, p)
      /\ strategy' = [strategy EXCEPT ![s] = row]
      /\ position' = [position EXCEPT ![p] = closed]
      /\ reserved' = [reserved EXCEPT ![s] = reserved[s] - position[p].cost]
  BY DEF ResolvePosition
<1>2. /\ TypeOK /\ s \in Strategies /\ position[p].status = "open"
      /\ position[p].cost \in Nat /\ position[p].cost > 0
  BY <1>1 DEF IInv, Rows, OpenIsOwned, TypeOK, PositionRow, IsOpen
<1>3. Payout(p, res) \in Nat
  BY <1>2, PayoutNatural
<1>4. /\ strategy[s] \in StrategyRow /\ strategy[s].bankroll \in Int /\ strategy[s].hwm \in Int
      /\ reserved[s] \in Int /\ position[p] \in PositionRow
      /\ realized \in Int /\ new_bankroll \in Int
      /\ "realized_pnl" \in Kind /\ p \in Positions \cup {None}
  BY <1>2, <1>3 DEF TypeOK, StrategyRow, Kind
<1>5. new_hwm >= strategy[s].hwm /\ new_hwm >= new_bankroll
  BY <1>4
<1> HIDE DEF s, realized, new_hwm
<1>6. PICK e \in CashEvent :
         /\ e.kind = "realized_pnl" /\ e.amount = realized /\ e.ref = p
         /\ e.balance = strategy[s].bankroll + realized
         /\ cash'[s] = Append(cash[s], e)
         /\ \A t \in Strategies \ {s} : cash'[t] = cash[t]
  BY <1>1, <1>2, <1>4, AppendIsLast
<1> HIDE DEF new_bankroll
<1>7. /\ row.hwm = new_hwm /\ row.state = strategy[s].state
      /\ row.enabled = strategy[s].enabled /\ row.kelly = strategy[s].kelly
      /\ row.initial = strategy[s].initial /\ row.minBankroll = strategy[s].minBankroll
  BY <1>4 DEF StrategyRow
<1>8. closed.status = "resolved" /\ closed.owner = s /\ closed.realized = realized
  BY <1>4 DEF PositionRow, s
<1> HIDE DEF row, closed
<1>9. strategy'[s] = row /\ \A t \in Strategies \ {s} : strategy'[t] = strategy[t]
  BY <1>1, <1>2 DEF TypeOK
<1>10. position'[p] = closed /\ \A q \in Positions \ {p} : position'[q] = position[q]
  BY <1>1, <1>2 DEF TypeOK
<1>11. reserved'[s] < reserved[s] /\ \A t \in Strategies \ {s} : reserved'[t] = reserved[t]
  BY <1>1, <1>2, <1>4 DEF TypeOK
<1>12. e.balance = new_bankroll
  BY <1>6 DEF new_bankroll
<1>13. IsPnl(e)
  BY <1>6 DEF IsPnl
<1>14. position[p].owner = s
  BY DEF s
<1> QED
  BY <1>2, <1>5, <1>6, <1>7, <1>8, <1>9, <1>10, <1>11, <1>12, <1>13, <1>14

\* An appended profit or loss of a position that had none.
LEMMA AppendPnlOnce ==
  ASSUME NEW log \in Seq(CashEvent), NEW e \in CashEvent, IsPnl(e), PnlsOnce(log),
         NoPnlOf(log, e.ref),
         NEW new, new = Append(log, e)
  PROVE  /\ PnlsOnce(new)
         /\ \A i \in 1..Len(new) : new[i] = e \/ (i \in 1..Len(log) /\ new[i] = log[i])
         /\ \A i \in 1..Len(log) : i \in 1..Len(new) /\ new[i] = log[i]
         /\ \E i \in 1..Len(new) : new[i] = e
<1>1. /\ Len(new) = Len(log) + 1 /\ Len(log) \in Nat /\ new[Len(log) + 1] = e
      /\ \A i \in 1..Len(log) : new[i] = log[i]
  OBVIOUS
<1>2. \A i \in 1..Len(new) : i = Len(log) + 1 \/ i \in 1..Len(log)
  BY <1>1
<1>3. PnlsOnce(new)
  BY <1>1, <1>2 DEF PnlsOnce, NoPnlOf
<1>4. \E i \in 1..Len(new) : new[i] = e
  BY <1>1
<1>5. \A i \in 1..Len(log) : i \in 1..Len(new) /\ new[i] = log[i]
  BY <1>1
<1>6. \A i \in 1..Len(new) : new[i] = e \/ (i \in 1..Len(log) /\ new[i] = log[i])
  BY <1>1, <1>2
<1> QED
  BY <1>3, <1>4, <1>5, <1>6

\* The new event is the only one of its position, which had none while open.
LEMMA ResolutionPosts ==
  ASSUME SInv, NEW p \in Positions, NEW res \in Resolution, ResolvePosition(p, res)
  PROVE  PnlsPosted' /\ HwmCoversRealized'
<1> DEFINE s == position[p].owner
<1>1. PICK e \in CashEvent :
               /\ s \in Strategies /\ position[p].status = "open"
               /\ IsPnl(e) /\ e.ref = p /\ cash'[s] = Append(cash[s], e)
               /\ \A t \in Strategies \ {s} : cash'[t] = cash[t]
               /\ position'[p].status = "resolved" /\ position'[p].owner = s
               /\ position'[p].realized = e.amount
               /\ \A q \in Positions \ {p} : position'[q] = position[q]
               /\ strategy'[s].hwm >= strategy[s].hwm /\ strategy'[s].hwm >= e.balance
               /\ \A t \in Strategies \ {s} : strategy'[t] = strategy[t]
  BY ResolutionWrites DEF SInv
<1>2. /\ \A t \in Strategies : cash[t] \in Seq(CashEvent) /\ PnlsOnce(cash[t])
      /\ strategy[s].hwm \in Int /\ strategy'[s].hwm \in Int
      /\ \A t \in Strategies : \A i \in 1..Len(cash[t]) : cash[t][i] \in CashEvent
  <2>1. TypeOK /\ TypeOK'
    BY ResolvePositionInv DEF SInv, IInv
  <2>2. \A t \in Strategies : cash[t] \in Seq(CashEvent) /\ PnlsOnce(cash[t])
    BY <2>1 DEF SInv, TypeOK, PnlsPosted
  <2>3. s \in Strategies
    BY <1>1
  <2> HIDE DEF s
  <2>4. strategy[s].hwm \in Int /\ strategy'[s].hwm \in Int
    BY <2>1, <2>3 DEF TypeOK, StrategyRow
  <2>5. \A t \in Strategies : \A i \in 1..Len(cash[t]) : cash[t][i] \in CashEvent
    BY <2>2
  <2> QED
    BY <2>2, <2>4, <2>5
<1> HIDE DEF s
<1>3. ASSUME NEW t \in Strategies, NEW i \in 1..Len(cash[t]), IsPnl(cash[t][i])
      PROVE  /\ cash[t][i].ref \in Positions \ {p}
             /\ position'[cash[t][i].ref].status = "resolved"
             /\ position'[cash[t][i].ref].owner = t
             /\ position'[cash[t][i].ref].realized = cash[t][i].amount
  <2>1. IsPosted(t, cash[t][i])
    BY <1>3 DEF SInv, PnlsPosted
  <2>2. cash[t][i].ref \in Positions \ {p}
    BY <1>1, <2>1 DEF IsPosted
  <2>3. position'[cash[t][i].ref] = position[cash[t][i].ref]
    BY <1>1, <2>2
  <2> QED
    BY <2>1, <2>2, <2>3 DEF IsPosted
<1>4. /\ PnlsOnce(cash'[s])
      /\ \A i \in 1..Len(cash'[s]) :
            cash'[s][i] = e \/ (i \in 1..Len(cash[s]) /\ cash'[s][i] = cash[s][i])
      /\ \A i \in 1..Len(cash[s]) : i \in 1..Len(cash'[s]) /\ cash'[s][i] = cash[s][i]
      /\ \E i \in 1..Len(cash'[s]) : cash'[s][i] = e
  <2>1. /\ cash[s] \in Seq(CashEvent) /\ PnlsOnce(cash[s]) /\ IsPnl(e) /\ e.ref = p
        /\ cash'[s] = Append(cash[s], e) /\ s \in Strategies
    BY <1>1, <1>2
  <2>2. NoPnlOf(cash[s], e.ref)
    BY <1>3, <2>1 DEF NoPnlOf
  <2>3. e \in CashEvent
    OBVIOUS
  <2>4. PnlsOnce(cash'[s])
    BY <2>1, <2>2, <2>3, AppendPnlOnce
  <2>5. \E i \in 1..Len(cash'[s]) : cash'[s][i] = e
    BY <2>1, <2>2, <2>3, AppendPnlOnce
  <2>6. \A i \in 1..Len(cash[s]) : i \in 1..Len(cash'[s]) /\ cash'[s][i] = cash[s][i]
    BY <2>1, <2>2, <2>3, AppendPnlOnce
  <2>7. \A i \in 1..Len(cash'[s]) :
            cash'[s][i] = e \/ (i \in 1..Len(cash[s]) /\ cash'[s][i] = cash[s][i])
    BY <2>1, <2>2, <2>3, AppendPnlOnce
  <2> QED
    BY <2>4, <2>5, <2>6, <2>7
<1>5. \A t \in Strategies : PnlsOnce(cash'[t])
  BY <1>1, <1>2, <1>4
\* Every event of the step is the new one or one that was there.
<1>6. ASSUME NEW t \in Strategies, NEW i \in 1..Len(cash'[t])
      PROVE  \/ t = s /\ cash'[t][i] = e
             \/ i \in 1..Len(cash[t]) /\ cash'[t][i] = cash[t][i]
  BY <1>1, <1>4
<1>7. ASSUME NEW t \in Strategies, NEW i \in 1..Len(cash'[t]), IsPnl(cash'[t][i])
      PROVE  IsPosted(t, cash[t][i])'
  <2>1. CASE t = s /\ cash'[t][i] = e
    BY <1>1, <2>1 DEF IsPosted
  <2>2. CASE i \in 1..Len(cash[t]) /\ cash'[t][i] = cash[t][i]
    <3>1. /\ cash[t][i].ref \in Positions
          /\ position'[cash[t][i].ref].status = "resolved"
          /\ position'[cash[t][i].ref].owner = t
          /\ position'[cash[t][i].ref].realized = cash[t][i].amount
      BY <1>3, <1>7, <2>2
    <3> QED
      BY <2>2, <3>1 DEF IsPosted
  <2> QED
    BY <1>6, <2>1, <2>2
<1>8. ASSUME NEW q \in Positions, position'[q].status = "resolved"
      PROVE  \E t \in Strategies : \E i \in 1..Len(cash'[t]) :
                IsPnl(cash'[t][i]) /\ cash'[t][i].ref = q
  <2>1. CASE q = p
    BY <1>1, <1>4, <2>1
  <2>2. CASE q # p
    <3>1. position[q].status = "resolved"
      BY <1>1, <1>8, <2>2
    <3>2. PICK t \in Strategies : \E i \in 1..Len(cash[t]) :
              IsPnl(cash[t][i]) /\ cash[t][i].ref = q
      BY <3>1 DEF SInv, PnlsPosted
    <3>3. PICK i \in 1..Len(cash[t]) : IsPnl(cash[t][i]) /\ cash[t][i].ref = q
      BY <3>2
    <3>4. i \in 1..Len(cash'[t]) /\ cash'[t][i] = cash[t][i]
      BY <1>1, <1>4, <3>3
    <3> QED
      BY <3>3, <3>4
  <2> QED
    BY <2>1, <2>2
<1>9. PnlsPosted'
  BY <1>5, <1>7, <1>8 DEF PnlsPosted, IsPnl
<1>10. ASSUME NEW t \in Strategies, NEW i \in 1..Len(cash'[t]), IsPnl(cash'[t][i])
       PROVE  cash'[t][i].balance <= strategy'[t].hwm
  <2>1. CASE t = s /\ cash'[t][i] = e
    BY <1>1, <2>1
  <2>2. CASE i \in 1..Len(cash[t]) /\ cash'[t][i] = cash[t][i]
    <3>1. cash[t][i].balance <= strategy[t].hwm /\ cash[t][i].balance \in Int
      BY <1>2, <1>10, <2>2 DEF SInv, HwmCoversRealized, IsPnl, CashEvent
    <3>2. t = s => strategy[t].hwm <= strategy'[t].hwm
      BY <1>1
    <3>3. t # s => strategy[t].hwm = strategy'[t].hwm
      BY <1>1
    <3>4. strategy[t].hwm \in Int /\ strategy'[t].hwm \in Int
      BY <1>2, <3>3 DEF SInv, IInv, TypeOK, StrategyRow
    <3> QED
      BY <2>2, <3>1, <3>2, <3>3, <3>4
  <2> QED
    BY <1>6, <2>1, <2>2
<1>11. HwmCoversRealized'
  BY <1>10 DEF HwmCoversRealized, IsPnl
<1> QED
  BY <1>9, <1>11

\* A decommissioned owner is paid and stays decommissioned.
LEMMA ResolutionTerminal ==
  ASSUME SInv, NEW p \in Positions, NEW res \in Resolution, ResolvePosition(p, res)
  PROVE  AllTerminal
<1> DEFINE s == position[p].owner
<1>1. PICK e \in CashEvent :
               /\ s \in Strategies
               /\ IsPnl(e) /\ cash'[s] = Append(cash[s], e)
               /\ \A t \in Strategies \ {s} : cash'[t] = cash[t]
               /\ strategy'[s].state = strategy[s].state
               /\ strategy'[s].enabled = strategy[s].enabled
               /\ strategy'[s].kelly = strategy[s].kelly
               /\ strategy'[s].minBankroll = strategy[s].minBankroll
               /\ \A t \in Strategies \ {s} : strategy'[t] = strategy[t]
  BY ResolutionWrites DEF SInv
<1> HIDE DEF s
<1>2. cash'[s][Len(cash'[s])] = e
  BY <1>1 DEF SInv, IInv, TypeOK
<1>3. Terminal(s)
  BY <1>1, <1>2, TerminalMoved DEF SInv, IsPnl
<1>4. \A t \in Strategies \ {s} : Terminal(t)
  BY <1>1, TerminalKept DEF SInv
<1> QED
  BY <1>3, <1>4 DEF AllTerminal

-----------------------------------------------------------------------------
(* The theorems. *)

\* The initial rows have no events and no strategy is decommissioned.
LEMMA InitSettled == Init => SInv
<1> SUFFICES ASSUME Init PROVE SInv
  OBVIOUS
<1>1. PnlsPosted
  BY DEF Init, PnlsPosted, PnlsOnce, NoRow
<1>2. HwmCoversRealized
  BY DEF Init, HwmCoversRealized
<1>3. DecommissionedDisabled
  BY DEF Init, DecommissionedDisabled
<1> QED
  BY <1>1, <1>2, <1>3, InitInv DEF SInv

\* Every action but a resolution settles nothing.
LEMMA StepCases ==
  ASSUME SInv, [Next]_vars
  PROVE  \/ Unsettling /\ AllTerminal
         \/ \E p \in Positions, res \in Resolution : ResolvePosition(p, res)
<1>1. CASE UNCHANGED vars
  BY <1>1, StillUnsettling DEF vars
<1>2. CASE Seed
  BY <1>2, SeedUnsettling
<1>3. ASSUME NEW s \in Strategies, NEW amt \in Amounts,
             Deposit(s, amt) \/ Withdraw(s, amt) \/ SetStartingBankroll(s, amt)
      PROVE  Unsettling /\ AllTerminal
  BY <1>3, DepositUnsettling, WithdrawUnsettling, SetStartingBankrollUnsettling
<1>4. ASSUME NEW s \in Strategies, NEW fraction \in Fractions, SetKellyFraction(s, fraction)
      PROVE  Unsettling /\ AllTerminal
  BY <1>4, SetKellyFractionUnsettling
<1>5. ASSUME NEW s \in Strategies, Pause(s) \/ Resume(s) \/ Decommission(s)
      PROVE  Unsettling /\ AllTerminal
  BY <1>5, LifecycleUnsettling
<1>6. ASSUME NEW s \in Strategies, NEW g \in Signals, RecordSignal(g, s)
      PROVE  Unsettling /\ AllTerminal
  BY <1>6, StillUnsettling DEF RecordSignal
<1>7. ASSUME NEW s \in Strategies, NEW p \in Positions, NEW g \in Signals \cup {None},
             NEW side \in Side, NEW order \in Orders, NEW fees \in Fees,
             OpenPaperPosition(p, s, g, side, order, fees)
      PROVE  Unsettling /\ AllTerminal
  BY <1>7, OpenPaperPositionUnsettling
<1>8. CASE ApplyKillSwitch \/ ClearKillSwitch
  BY <1>8, StillUnsettling DEF ApplyKillSwitch, ClearKillSwitch
<1> QED
  BY <1>1, <1>2, <1>3, <1>4, <1>5, <1>6, <1>7, <1>8 DEF Next

\* The strengthened invariant is inductive.
LEMMA SInvNext == SInv /\ [Next]_vars => SInv'
<1> SUFFICES ASSUME SInv, [Next]_vars PROVE SInv'
  OBVIOUS
<1>1. IInv'
  BY NextInv DEF SInv
<1>2. CASE Unsettling /\ AllTerminal
  BY <1>1, <1>2, PnlsKept, HwmKept, DecommissionedKept DEF SInv, IInv
<1>3. ASSUME NEW p \in Positions, NEW res \in Resolution, ResolvePosition(p, res)
      PROVE  SInv'
  <2>1. AllTerminal
    BY <1>3, ResolutionTerminal
  <2> QED
    BY <1>1, <1>3, <2>1, ResolutionPosts, DecommissionedKept DEF SInv
<1> QED
  BY <1>2, <1>3, StepCases

\* It holds in every reachable state.
LEMMA SettledInvariant == Spec => []SInv
  BY InitSettled, SInvNext, PTL DEF Spec

\* The profit or loss of a position is posted when it is resolved, once, to the
\* strategy that opened it and for the amount its row records, whatever else
\* the operators and the engine do in between (ledger/writer.py resolve_position).
THEOREM LedgerPostsOnce == Spec => []OnePnlPerResolution
<1>1. SInv => OnePnlPerResolution
  <2> SUFFICES ASSUME SInv, NEW p \in Positions
               PROVE  IF position[p].status = "resolved"
                      THEN \E e \in RealizedEvents(p) :
                              /\ RealizedEvents(p) = {e}
                              /\ e[1] = position[p].owner
                              /\ cash[e[1]][e[2]].amount = position[p].realized
                      ELSE RealizedEvents(p) = {}
    BY DEF OnePnlPerResolution
  <2>1. \A s \in Strategies : DOMAIN cash[s] = 1..Len(cash[s])
    BY DEF SInv, IInv, TypeOK
  <2>2. ASSUME NEW s \in Strategies, NEW i \in 1..Len(cash[s]),
               IsPnl(cash[s][i]), cash[s][i].ref = p
        PROVE  /\ position[p].status = "resolved" /\ position[p].owner = s
               /\ position[p].realized = cash[s][i].amount
    BY <2>2 DEF SInv, PnlsPosted, IsPosted
  <2>3. ASSUME NEW e \in RealizedEvents(p)
        PROVE  \E s \in Strategies : \E i \in 1..Len(cash[s]) :
                  e = <<s, i>> /\ IsPnl(cash[s][i]) /\ cash[s][i].ref = p
    BY <2>1 DEF RealizedEvents, IsPnl
  <2>4. CASE position[p].status # "resolved"
    <3>1. RealizedEvents(p) = {}
      BY <2>2, <2>3, <2>4
    <3> QED
      BY <2>4, <3>1
  <2>5. CASE position[p].status = "resolved"
    <3>1. PICK s \in Strategies : \E i \in 1..Len(cash[s]) :
              IsPnl(cash[s][i]) /\ cash[s][i].ref = p
      BY <2>5 DEF SInv, PnlsPosted
    <3>2. PICK i \in 1..Len(cash[s]) : IsPnl(cash[s][i]) /\ cash[s][i].ref = p
      BY <3>1
    <3>3. <<s, i>> \in RealizedEvents(p)
      BY <2>1, <3>2 DEF RealizedEvents, IsPnl
    <3>4. ASSUME NEW e \in RealizedEvents(p)
          PROVE  e = <<s, i>>
      <4>1. PICK t \in Strategies : \E j \in 1..Len(cash[t]) :
                e = <<t, j>> /\ IsPnl(cash[t][j]) /\ cash[t][j].ref = p
        BY <2>3
      <4>2. PICK j \in 1..Len(cash[t]) :
                e = <<t, j>> /\ IsPnl(cash[t][j]) /\ cash[t][j].ref = p
        BY <4>1
      <4>3. t = s
        BY <2>2, <3>2, <4>2
      <4>4. i = j
        BY <3>2, <4>2, <4>3 DEF SInv, PnlsPosted, PnlsOnce
      <4> QED
        BY <4>2, <4>3, <4>4
    <3>5. RealizedEvents(p) = {<<s, i>>}
      BY <3>3, <3>4
    <3>6. position[p].owner = s /\ position[p].realized = cash[s][i].amount
      BY <2>2, <3>2
    <3>7. <<s, i>>[1] = s /\ <<s, i>>[2] = i
      OBVIOUS
    <3> QED
      BY <2>5, <3>3, <3>5, <3>6, <3>7
  <2> QED
    BY <2>4, <2>5
<1> QED
  BY <1>1, SettledInvariant, PTL

\* No mix of new baselines, deposits and losses brings the high-water mark under
\* a balance that a resolution left.
THEOREM LedgerHwmCoversRealized == Spec => []HwmCoversRealized
<1>1. SInv => HwmCoversRealized
  BY DEF SInv
<1> QED
  BY <1>1, SettledInvariant, PTL

\* Nothing brings a decommissioned strategy back, enables it, changes its Kelly
\* fraction or baseline or deposits to it (.greptile/context/state-machine.md).
THEOREM LedgerDecommissionIsTerminal == Spec => DecommissionedIsTerminal
<1>1. SInv /\ [Next]_vars => AllTerminal
  BY StepCases, ResolutionTerminal
<1>2. AllTerminal =>
        \A s \in Strategies :
          strategy[s].state = DECOMMISSIONED =>
             /\ strategy'[s].state = DECOMMISSIONED
             /\ ~strategy'[s].enabled
             /\ strategy'[s].kelly = strategy[s].kelly
             /\ strategy'[s].minBankroll = strategy[s].minBankroll
             /\ cash'[s] # cash[s] => cash'[s][Len(cash'[s])].kind # "deposit"
  BY DEF AllTerminal, Terminal
<1> QED
  BY <1>1, <1>2, SettledInvariant, PTL DEF Spec, DecommissionedIsTerminal

\* While the kill switch is on, every step that changes a strategy releases a
\* reservation and leaves its state, Kelly fraction and baseline: nothing but the
\* settlement of an open position goes through.
THEOREM LedgerPausedOnlySettles == Spec => PausedSystemOnlySettles
<1>1. SInv /\ [Next]_vars =>
        (system = "paused" =>
          /\ signal' = signal
          /\ \A s \in Strategies :
                /\ reserved'[s] <= reserved[s]
                /\ strategy'[s] # strategy[s] =>
                      /\ reserved'[s] < reserved[s]
                      /\ strategy'[s].state = strategy[s].state
                      /\ strategy'[s].kelly = strategy[s].kelly
                      /\ strategy'[s].initial = strategy[s].initial)
  <2> SUFFICES ASSUME SInv, [Next]_vars, ~require_system_active
               PROVE  /\ signal' = signal
                      /\ \A s \in Strategies :
                            /\ reserved'[s] <= reserved[s]
                            /\ strategy'[s] # strategy[s] =>
                                  /\ reserved'[s] < reserved[s]
                                  /\ strategy'[s].state = strategy[s].state
                                  /\ strategy'[s].kelly = strategy[s].kelly
                                  /\ strategy'[s].initial = strategy[s].initial
    BY DEF require_system_active
  <2>1. \A s \in Strategies : reserved[s] \in Int
    BY DEF SInv, IInv, TypeOK
  <2>2. \/ UNCHANGED <<strategy, signal, reserved>>
        \/ \E p \in Positions, res \in Resolution : ResolvePosition(p, res)
    <3>1. ~Seed
      BY DEF Seed
    <3>2. \A s \in Strategies, amt \in Amounts :
             ~Deposit(s, amt) /\ ~Withdraw(s, amt) /\ ~SetStartingBankroll(s, amt)
      BY DEF Deposit, Withdraw, SetStartingBankroll
    <3>3. \A s \in Strategies :
             /\ \A fraction \in Fractions : ~SetKellyFraction(s, fraction)
             /\ ~Pause(s) /\ ~Resume(s) /\ ~Decommission(s)
             /\ \A g \in Signals : ~RecordSignal(g, s)
      BY DEF SetKellyFraction, Pause, Resume, Decommission, LifecycleTransition, RecordSignal
    <3>4. \A s \in Strategies, p \in Positions, g \in Signals \cup {None}, side \in Side,
             order \in Orders, fees \in Fees : ~OpenPaperPosition(p, s, g, side, order, fees)
      BY DEF OpenPaperPosition
    <3>5. ApplyKillSwitch \/ ClearKillSwitch \/ UNCHANGED vars
             => UNCHANGED <<strategy, signal, reserved>>
      BY DEF ApplyKillSwitch, ClearKillSwitch, vars
    <3> QED
      BY <3>1, <3>2, <3>3, <3>4, <3>5 DEF Next
  <2>3. CASE UNCHANGED <<strategy, signal, reserved>>
    BY <2>1, <2>3
  <2>4. ASSUME NEW p \in Positions, NEW res \in Resolution, ResolvePosition(p, res)
        PROVE  /\ signal' = signal
               /\ \A s \in Strategies :
                     /\ reserved'[s] <= reserved[s]
                     /\ strategy'[s] # strategy[s] =>
                           /\ reserved'[s] < reserved[s]
                           /\ strategy'[s].state = strategy[s].state
                           /\ strategy'[s].kelly = strategy[s].kelly
                           /\ strategy'[s].initial = strategy[s].initial
    <3> DEFINE o == position[p].owner
    <3>1. PICK e \in CashEvent :
            /\ o \in Strategies
            /\ strategy'[o].state = strategy[o].state
            /\ strategy'[o].kelly = strategy[o].kelly
            /\ strategy'[o].initial = strategy[o].initial
            /\ \A t \in Strategies \ {o} : strategy'[t] = strategy[t]
            /\ reserved'[o] < reserved[o]
            /\ \A t \in Strategies \ {o} : reserved'[t] = reserved[t]
      BY <2>4, ResolutionWrites DEF SInv
    <3>2. reserved'[o] \in Int
      BY <2>4, <3>1, ResolvePositionInv DEF SInv, IInv, TypeOK
    <3>3. signal' = signal
      BY <2>4 DEF ResolvePosition
    <3> HIDE DEF o
    <3> QED
      BY <2>1, <3>1, <3>2, <3>3
  <2> QED
    BY <2>2, <2>3, <2>4
<1> QED
  BY <1>1, SettledInvariant, PTL DEF Spec, PausedSystemOnlySettles
=============================================================================
