--------------------------- MODULE LedgerTx_proofs ---------------------------
(***************************************************************************)
(* The interleaved transactions of the ledger, for any strategies, any     *)
(* handler threads, any positions and amounts.                             *)
(*                                                                         *)
(* Neither SettledOnce nor HwmCoversRealized is inductive.  A resolution   *)
(* books its events in its session and commits them later, so the          *)
(* invariant says what the session holds in between: the rows it has       *)
(* locked are ahead of the committed ones by exactly the events it has     *)
(* inserted (RowAhead), and those events are of open positions, one each,  *)
(* that are no longer due (EventsOpen).  set_starting_bankroll lowers the  *)
(* mark, so it must be known that a strategy without trading activity has  *)
(* no settlement in its journal, which Settlements gives.                  *)
(*                                                                         *)
(* OverdrawnOnlyByDebitRace compares sums of costs before and after a step *)
(* and needs three facts more (CostsKnown): what an engine tick has placed *)
(* fits the bankroll it read, what a resolution has lost so far is at most *)
(* what its settled positions cost, and the rows are finitely many.        *)
(***************************************************************************)
EXTENDS LedgerTx, Sum_proofs, SequenceTheorems

\* A handler at work was dispatched with a strategy, and a money route with an
\* amount.
RequestsDispatched ==
    \A c \in Requests :
        request[c].pc # "idle" =>
            /\ request[c].op \in Ops
            /\ request[c].s \in Strategies
            /\ request[c].op \in MoneyOps => request[c].amt > 0

\* A position that exists has an owner.
PositionsOwned ==
    \A p \in Positions : position[p].status # NoRow => position[p].owner \in Strategies

\* What the types need.
Typed == TypeOK /\ RequestsDispatched /\ PositionsOwned

\* Every journal is chained, and the bankroll is its last balance.
BooksAgree ==
    \A s \in Strategies : Chained(cash[s]) /\ strategy[s].bankroll = LastBalance(cash[s])

\* No two events of a journal are of the same position.
RefsOnce(log) ==
    \A i, j \in 1..Len(log) : log[i].ref # None /\ log[i].ref = log[j].ref => i = j

\* Event e is what position e.ref of strategy s was settled for.
Books(s, e) == /\ position[e.ref].status = "resolved"
               /\ position[e.ref].owner = s
               /\ position[e.ref].realized = e.amount

\* The settlement events are of resolved positions, and every resolved position
\* has one.
Settlements ==
    /\ \A s \in Strategies : RefsOnce(cash[s])
    /\ \A s \in Strategies : \A i \in 1..Len(cash[s]) :
          cash[s][i].ref # None => Books(s, cash[s][i])
    /\ \A p \in Positions : position[p].status = "resolved" =>
          \E s \in Strategies : \E i \in 1..Len(cash[s]) : cash[s][i].ref = p

\* What the session holds outside the phase that uses it: nothing.
TickRests ==
    /\ tick.pc # "resolution" =>
          /\ tick.due = {}
          /\ \A s \in Strategies : tick.events[s] = <<>>
    /\ tick.pc \in {"idle", "between"} => tick.locked = {}
    /\ tick.pc # "engine" => \A p \in Positions : position[p].status # "pending"

\* The row a resolution has locked is ahead of the committed one by the events
\* it has inserted.
RowAhead(s) ==
    /\ Chained(cash[s] \o tick.events[s])
    /\ LastBalance(cash[s] \o tick.events[s]) = tick.rows[s].bankroll
    /\ strategy[s].hwm <= tick.rows[s].hwm
    /\ \A i \in 1..Len(tick.events[s]) : tick.events[s][i].balance <= tick.rows[s].hwm

\* The events a resolution has inserted are of open positions, one each.
EventsOpen(s) ==
    /\ RefsOnce(tick.events[s])
    /\ \A i \in 1..Len(tick.events[s]) :
          /\ tick.events[s][i].ref \in Positions \ tick.due
          /\ position[tick.events[s][i].ref].status = "open"
          /\ position[tick.events[s][i].ref].owner = s

\* What the session holds during a resolution.
TickSettles ==
    /\ \A p \in tick.due : position[p].status = "open"
    /\ tick.pc = "resolution" =>
          \A s \in Strategies :
             /\ EventsOpen(s)
             /\ IF s \in tick.locked THEN RowAhead(s)
                                     ELSE tick.events[s] = <<>>

\* What the accounts need.
Accounts == BooksAgree /\ Settlements /\ TickRests /\ TickSettles /\ HwmCoversRealized

IInv == Typed /\ Accounts

\* The events of log, then those of events, make up whole.
Joined(log, events, whole) ==
    /\ Len(log) \in Nat /\ Len(events) \in Nat
    /\ Len(whole) = Len(log) + Len(events)
    /\ \A i \in 1..Len(log) : i \in 1..Len(whole) /\ whole[i] = log[i]
    /\ \A i \in 1..Len(events) :
          Len(log) + i \in 1..Len(whole) /\ whole[Len(log) + i] = events[i]
    /\ \A i \in 1..Len(whole) :
          i \in 1..Len(log) \/ \E j \in 1..Len(events) : i = Len(log) + j

\* A journal stays or gains one event that is no settlement.
Plain(log, new) ==
    new = log \/ \E e \in CashEvent : e.ref = None /\ new = Append(log, e)

USE DEF NoRow, None

-----------------------------------------------------------------------------
(* What SUM(cash_event.amount_cents) returns. *)

\* The sum of a chained journal is its last balance.
LEMMA SumIsBalance ==
  ASSUME NEW log \in Seq(CashEvent), Chained(log)
  PROVE  SumOf(log) = LastBalance(log)
<1>1. DOMAIN log = 1..Len(log)
  OBVIOUS
<1>2. \A e \in CashEvent : e.amount \in Int
  BY DEF CashEvent
<1> QED
  BY <1>1, <1>2, ChainedSums DEF SumOf

\* An event adds its amount to the sum, whatever balance it records.
LEMMA SumOfAppended ==
  ASSUME NEW log \in Seq(CashEvent), Chained(log), NEW e \in CashEvent
  PROVE  SumOf(Append(log, e)) = LastBalance(log) + e.amount
<1> DEFINE longer == Append(log, e)
           n == Len(log)
           before == [i \in DOMAIN log |-> log[i].amount]
           after == [i \in DOMAIN longer |-> longer[i].amount]
<1>1. /\ n \in Nat /\ DOMAIN log = 1..n /\ DOMAIN longer = 1..n + 1
      /\ longer[n + 1] = e /\ \A i \in 1..n : longer[i] = log[i] /\ log[i] \in CashEvent
  OBVIOUS
<1> HIDE DEF n, longer
<1>2. 1..n + 1 = (1..n) \cup {n + 1} /\ n + 1 \notin 1..n /\ IsFiniteSet(1..n)
  <2>1. IsFiniteSet(1..n)
    BY <1>1, FS_Interval
  <2>2. 1..n + 1 = (1..n) \cup {n + 1} /\ n + 1 \notin 1..n
    BY <1>1
  <2> QED
    BY <2>1, <2>2
<1>3. /\ after[n + 1] = e.amount /\ e.amount \in Int
      /\ \A i \in 1..n : before[i] \in Int /\ after[i] = before[i]
  BY <1>1, <1>2 DEF CashEvent
<1>4. SumOf(log) = SumFunctionOnSet(before, 1..n)
  BY <1>1 DEF SumOf
<1>5. SumOf(longer) = SumFunctionOnSet(after, (1..n) \cup {n + 1})
  BY <1>1, <1>2 DEF SumOf
<1> HIDE DEF before, after
<1>6. SumFunctionOnSet(before, 1..n) = SumFunctionOnSet(after, 1..n)
      /\ SumFunctionOnSet(before, 1..n) \in Int
  BY <1>2, <1>3, SumSame, SumInt
<1>7. \A i \in (1..n) \cup {n + 1} : after[i] \in Int
  BY <1>3
<1>8. SumFunctionOnSet(after, (1..n) \cup {n + 1}) = e.amount + SumFunctionOnSet(after, 1..n)
  <2>1. SumFunctionOnSet(after, (1..n) \cup {n + 1})
          = after[n + 1] + SumFunctionOnSet(after, 1..n)
    BY <1>2, <1>7, SumInsert
  <2> QED
    BY <2>1, <1>3
<1>9. SumOf(log) = LastBalance(log)
  BY SumIsBalance
<1>10. SumOf(longer) = LastBalance(log) + e.amount
  BY <1>3, <1>4, <1>5, <1>6, <1>8, <1>9
<1> QED
  BY <1>10 DEF longer

\* In a journal that stays chained, so does the event's balance.
LEMMA AppendedBalance ==
  ASSUME NEW log \in Seq(CashEvent), Chained(log), NEW e \in CashEvent, Chained(Append(log, e))
  PROVE  LastBalance(Append(log, e)) = LastBalance(log) + e.amount
<1>1. Append(log, e) \in Seq(CashEvent)
  OBVIOUS
<1> QED
  BY <1>1, SumIsBalance, SumOfAppended

-----------------------------------------------------------------------------
(* Types: the handlers. *)

\* A thread without a request.
LEMMA IdleRequestTyped ==
  ASSUME NEW n \in 0..MaxServed
  PROVE  IdleRequest(n) \in Request
  BY DEF IdleRequest, Request, Unread, StrategyRow, StrategyState, SEEDED

\* A session without a tick.
LEMMA IdleTickTyped == IdleTick \in Tick
<1>1. Unread \in StrategyRow
  BY DEF Unread, StrategyRow, StrategyState, SEEDED
<1>2. [s \in Strategies |-> <<>>] \in [Strategies -> Seq(CashEvent)]
  OBVIOUS
<1> QED
  BY <1>1, <1>2 DEF IdleTick, Tick

\* An UPDATE writes the columns that differ from the loaded row.
LEMMA UpdatedTyped ==
  ASSUME NEW s \in Strategies, strategy[s] \in StrategyRow,
         NEW loaded \in StrategyRow, NEW row \in StrategyRow
  PROVE  /\ Updated(s, loaded, row) \in StrategyRow
         /\ \A f \in {"state", "enabled", "bankroll", "initial", "hwm"} :
               Updated(s, loaded, row)[f] = IF row[f] # loaded[f] THEN row[f] ELSE strategy[s][f]
<1>1. DOMAIN row = {"state", "enabled", "bankroll", "initial", "hwm"}
  BY DEF StrategyRow
<1> QED
  BY <1>1 DEF Updated, StrategyRow

\* The seeded database is well typed.
LEMMA InitTyped == Init => Typed
<1> SUFFICES ASSUME Init PROVE Typed
  OBVIOUS
<1>1. InitialDeposit \in Nat /\ InitialDeposit > 0 /\ 0 \in 0..MaxServed
  BY TxAssumption
<1>2. strategy \in [Strategies -> StrategyRow]
  BY <1>1 DEF Init, StrategyRow, StrategyState, ACTIVE
<1>3. cash \in [Strategies -> Seq(CashEvent)]
  <2>1. [amount |-> InitialDeposit, balance |-> InitialDeposit, ref |-> None] \in CashEvent
    BY <1>1 DEF CashEvent
  <2> QED
    BY <2>1 DEF Init
<1>4. position \in [Positions -> PositionRow]
  BY DEF Init, NoPosition, PositionRow
<1>5. request \in [Requests -> Request] /\ \A c \in Requests : request[c].pc = "idle"
  BY <1>1, IdleRequestTyped DEF Init, IdleRequest
<1>6. PositionsOwned
  BY DEF Init, PositionsOwned, NoPosition
<1>7. tick \in Tick
  BY IdleTickTyped DEF Init
<1>8. system \in {"active", "paused"} /\ signalled \in SUBSET Strategies
  BY DEF Init
<1> QED
  BY <1>2, <1>3, <1>4, <1>5, <1>6, <1>7, <1>8 DEF Typed, TypeOK, RequestsDispatched

\* A handler that ends leaves a well-typed idle thread.
LEMMA FinishTyped ==
  ASSUME request \in [Requests -> Request], RequestsDispatched, NEW c \in Requests, Finish(c)
  PROVE  request' \in [Requests -> Request] /\ RequestsDispatched'
<1>1. IdleRequest(request[c].served) \in Request
  BY IdleRequestTyped DEF Request
<1>2. IdleRequest(request[c].served).pc = "idle"
  BY DEF IdleRequest
<1> QED
  BY <1>1, <1>2 DEF Finish, RequestsDispatched

\* So does one that goes on.
LEMMA GotoTyped ==
  ASSUME request \in [Requests -> Request], RequestsDispatched, NEW c \in Requests,
         request[c].pc # "idle", NEW pc \in {"gated", "ready"}, Goto(c, pc)
  PROVE  request' \in [Requests -> Request] /\ RequestsDispatched'
<1>1. [request[c] EXCEPT !.pc = pc] \in Request
  BY DEF Request
<1> QED
  BY <1>1 DEF Goto, RequestsDispatched, Request

\* A request goes to a thread with what was asked.
LEMMA DispatchTyped ==
  ASSUME Typed, NEW c \in Requests, NEW op \in Ops, NEW s \in Strategies,
         NEW amt \in Amounts \cup {0}, Dispatch(c, op, s, amt)
  PROVE  Typed'
<1> DEFINE r == [pc |-> "dispatched", op |-> op, s |-> s, amt |-> amt,
                 row |-> Unread, served |-> request[c].served + 1]
<1>1. Unread \in StrategyRow
  BY DEF Unread, StrategyRow, StrategyState, SEEDED
<1>2. request[c].served \in 0..MaxServed /\ request[c].served < MaxServed /\ MaxServed \in Nat
  BY TxAssumption DEF Typed, TypeOK, Request, Dispatch
<1>3. amt \in Nat
  BY TxAssumption
<1>4. r \in Request
  BY <1>1, <1>2, <1>3 DEF Request
<1>5. request' = [request EXCEPT ![c] = r] /\ (op \in MoneyOps => amt > 0)
  BY DEF Dispatch
<1>6. request' \in [Requests -> Request] /\ RequestsDispatched'
  BY <1>4, <1>5 DEF Typed, TypeOK, RequestsDispatched
<1> QED
  BY <1>6 DEF Typed, TypeOK, Dispatch, committed, PositionsOwned

\* The reads of a handler, and the kill switch.
LEMMA HandleTyped ==
  ASSUME Typed, NEW c \in Requests, Handle(c)
  PROVE  Typed'
<1> DEFINE r == request[c]
<1>1. r \in Request /\ request \in [Requests -> Request] /\ RequestsDispatched
  BY DEF Typed, TypeOK
<1>2. CASE Gate(c)
  <2>1. request' \in [Requests -> Request] /\ RequestsDispatched'
    BY <1>1, <1>2, FinishTyped, GotoTyped DEF Gate
  <2> QED
    BY <1>2, <2>1 DEF Gate, committed, Typed, TypeOK, PositionsOwned
<1>3. CASE ReadRow(c)
  <2> DEFINE read == [request[c] EXCEPT !.row = strategy[r.s],
                                        !.pc = IF r.op = "withdraw" THEN "read" ELSE "ready"]
  <2>1. r.pc = "gated" /\ r.s \in Strategies
    BY <1>1, <1>3 DEF ReadRow, RequestsDispatched
  <2>2. strategy[r.s] \in StrategyRow
    BY <2>1 DEF Typed, TypeOK
  <2>3. read \in Request /\ read.op = r.op /\ read.s = r.s /\ read.amt = r.amt
    BY <1>1, <2>2 DEF Request
  <2>4. Finish(c) \/ request' = [request EXCEPT ![c] = read]
    BY <1>3 DEF ReadRow
  <2>5. request' \in [Requests -> Request] /\ RequestsDispatched'
    <3>1. CASE Finish(c)
      BY <1>1, <3>1, FinishTyped
    <3>2. CASE request' = [request EXCEPT ![c] = read]
      BY <1>1, <2>1, <2>3, <3>2 DEF RequestsDispatched
    <3> QED
      BY <2>4, <3>1, <3>2
  <2> QED
    BY <1>3, <2>5 DEF ReadRow, committed, Typed, TypeOK, PositionsOwned
<1>4. CASE ReadFreeCash(c)
  <2>1. request' \in [Requests -> Request] /\ RequestsDispatched'
    BY <1>1, <1>4, FinishTyped, GotoTyped DEF ReadFreeCash
  <2> QED
    BY <1>4, <2>1 DEF ReadFreeCash, committed, Typed, TypeOK, PositionsOwned
<1>5. CASE FlipSystem(c)
  <2>1. request' \in [Requests -> Request] /\ RequestsDispatched'
    BY <1>1, <1>5, FinishTyped DEF FlipSystem
  <2> QED
    BY <1>5, <2>1 DEF FlipSystem, Typed, TypeOK, PositionsOwned
<1> QED
  BY <1>2, <1>3, <1>4, <1>5 DEF Handle

\* An event of the shape the writer appends.
LEMMA EventTyped ==
  ASSUME NEW amount \in Int, NEW balance \in Int, NEW ref \in Positions \cup {None}
  PROVE  [amount |-> amount, balance |-> balance, ref |-> ref] \in CashEvent
  BY DEF CashEvent

\* deposit and withdraw write a row and an event.
LEMMA FlushBankrollTyped ==
  ASSUME Typed, NEW c \in Requests, FlushBankroll(c)
  PROVE  Typed'
<1> DEFINE r == request[c]
           delta == IF r.op = "deposit" THEN r.amt ELSE -r.amt
           bankroll == r.row.bankroll + delta
           resumes == /\ r.op = "deposit"
                      /\ should_auto_resume_on_deposit(r.row.state, bankroll, r.row.initial)
           row == [r.row EXCEPT !.bankroll = bankroll,
                                !.state = IF resumes THEN ResumeTarget ELSE @]
           event == [amount |-> delta, balance |-> bankroll, ref |-> None]
<1>1. r \in Request /\ request \in [Requests -> Request] /\ RequestsDispatched
  BY DEF Typed, TypeOK
<1>2. r.s \in Strategies
  BY <1>1 DEF FlushBankroll, RequestsDispatched
<1>3. request' \in [Requests -> Request] /\ RequestsDispatched'
  BY <1>1, FinishTyped DEF FlushBankroll
<1>4. r.row \in StrategyRow /\ delta \in Int /\ bankroll \in Int
  BY <1>1 DEF Request, StrategyRow
<1>5. row \in StrategyRow
  BY <1>4 DEF StrategyRow, StrategyState, ResumeTarget, ACTIVE
<1>6. strategy[r.s] \in StrategyRow /\ strategy \in [Strategies -> StrategyRow]
  BY <1>2 DEF Typed, TypeOK
<1>7. Updated(r.s, r.row, row) \in StrategyRow
  BY <1>2, <1>4, <1>5, <1>6, UpdatedTyped
<1>8. \/ /\ strategy' = [strategy EXCEPT ![r.s] = Updated(r.s, r.row, row)]
         /\ cash' = [cash EXCEPT ![r.s] = Append(@, event)]
      \/ UNCHANGED <<strategy, cash>>
  BY DEF FlushBankroll
<1>9. strategy' \in [Strategies -> StrategyRow]
  BY <1>6, <1>7, <1>8
<1>10. cash' \in [Strategies -> Seq(CashEvent)]
  <2>1. event \in CashEvent
    BY <1>4, EventTyped
  <2>2. cash \in [Strategies -> Seq(CashEvent)]
    BY DEF Typed, TypeOK
  <2>3. Append(cash[r.s], event) \in Seq(CashEvent)
    BY <2>1, <2>2, <1>2
  <2> HIDE DEF event
  <2> QED
    BY <2>2, <2>3, <1>2, <1>8
<1> QED
  BY <1>3, <1>9, <1>10 DEF Typed, TypeOK, FlushBankroll, PositionsOwned

\* pause, resume and decommission write a row.
LEMMA FlushLifecycleTyped ==
  ASSUME Typed, NEW c \in Requests, FlushLifecycle(c)
  PROVE  Typed'
<1> DEFINE r == request[c]
           row == [r.row EXCEPT
                      !.state = CASE r.op = "pause"  -> PauseTarget
                                  [] r.op = "resume" -> ResumeTarget
                                  [] OTHER           -> DECOMMISSIONED,
                      !.enabled = @ /\ r.op # "decommission"]
<1>1. r \in Request /\ request \in [Requests -> Request] /\ RequestsDispatched
  BY DEF Typed, TypeOK
<1>2. r.s \in Strategies
  BY <1>1 DEF FlushLifecycle, RequestsDispatched
<1>3. request' \in [Requests -> Request] /\ RequestsDispatched'
  BY <1>1, FinishTyped DEF FlushLifecycle
<1>4. r.row \in StrategyRow
  BY <1>1 DEF Request
<1>5. row \in StrategyRow
  BY <1>4 DEF StrategyRow, StrategyState, PauseTarget, ResumeTarget, ACTIVE,
              OPERATOR_PAUSED, DECOMMISSIONED
<1>6. strategy[r.s] \in StrategyRow /\ strategy \in [Strategies -> StrategyRow]
  BY <1>2 DEF Typed, TypeOK
<1>7. Updated(r.s, r.row, row) \in StrategyRow
  BY <1>2, <1>4, <1>5, <1>6, UpdatedTyped
<1>8. strategy' = [strategy EXCEPT ![r.s] = Updated(r.s, r.row, row)]
  BY DEF FlushLifecycle
<1>9. strategy' \in [Strategies -> StrategyRow]
  BY <1>6, <1>7, <1>8
<1> QED
  BY <1>3, <1>9 DEF Typed, TypeOK, FlushLifecycle, PositionsOwned

\* A row that set_starting_bankroll rewrites is still a row.
LEMMA BaselineRowTyped ==
  ASSUME NEW row \in StrategyRow, NEW amt \in Nat
  PROVE  [row EXCEPT !.bankroll = amt, !.initial = amt, !.hwm = amt] \in StrategyRow
<1> DEFINE richer == [row EXCEPT !.bankroll = amt]
           based  == [richer EXCEPT !.initial = amt]
<1>1. richer \in StrategyRow
  BY DEF StrategyRow
<1>2. based \in StrategyRow
  <2> HIDE DEF richer
  <2> QED
    BY <1>1 DEF StrategyRow
<1>3. [based EXCEPT !.hwm = amt] \in StrategyRow
  <2> HIDE DEF based
  <2> QED
    BY <1>2 DEF StrategyRow
<1> QED
  BY <1>3

\* set_starting_bankroll writes a row and perhaps an event.
LEMMA FlushBaselineTyped ==
  ASSUME Typed, NEW c \in Requests, FlushBaseline(c)
  PROVE  Typed'
<1> DEFINE r == request[c]
           row == strategy[r.s]
           delta == r.amt - row.bankroll
<1>1. r \in Request /\ request \in [Requests -> Request] /\ RequestsDispatched
  BY DEF Typed, TypeOK
<1>2. r.s \in Strategies
  BY <1>1 DEF FlushBaseline, RequestsDispatched
<1>3. request' \in [Requests -> Request] /\ RequestsDispatched'
  BY <1>1, FinishTyped DEF FlushBaseline
<1>4. row \in StrategyRow /\ r.amt \in Nat /\ delta \in Int
  BY <1>1, <1>2 DEF Request, StrategyRow, Typed, TypeOK
<1>5. \/ /\ strategy' = [strategy EXCEPT ![r.s].bankroll = r.amt, ![r.s].initial = r.amt,
                                         ![r.s].hwm = r.amt]
         /\ cash' = [cash EXCEPT ![r.s] = BaselineEvents(@, delta, r.amt)]
      \/ UNCHANGED <<strategy, cash>>
  BY DEF FlushBaseline
<1>6. strategy' \in [Strategies -> StrategyRow]
  <2>1. [row EXCEPT !.bankroll = r.amt, !.initial = r.amt, !.hwm = r.amt] \in StrategyRow
    BY <1>4, BaselineRowTyped
  <2> QED
    BY <2>1, <1>2, <1>5 DEF Typed, TypeOK
<1>7. cash' \in [Strategies -> Seq(CashEvent)]
  <2>1. [amount |-> delta, balance |-> r.amt, ref |-> None] \in CashEvent
    BY <1>4, EventTyped
  <2>2. cash \in [Strategies -> Seq(CashEvent)]
    BY DEF Typed, TypeOK
  <2>3. BaselineEvents(cash[r.s], delta, r.amt) \in Seq(CashEvent)
    BY <2>1, <2>2, <1>2 DEF BaselineEvents
  <2> QED
    BY <2>2, <2>3, <1>2, <1>5
<1> QED
  BY <1>3, <1>6, <1>7 DEF Typed, TypeOK, FlushBaseline, PositionsOwned

-----------------------------------------------------------------------------
(* Types: the ticks. *)

\* The engine's steps: positions, shared and exclusive locks.
LEMMA EngineTyped ==
  ASSUME Typed, EngineTick
  PROVE  Typed'
<1>1. tick \in Tick /\ strategy \in [Strategies -> StrategyRow]
  BY DEF Typed, TypeOK
<1>2. CASE TickBegin
  <2>1. tick' \in Tick
    BY <1>1, <1>2, IdleTickTyped DEF TickBegin, Tick
  <2> QED
    BY <2>1, <1>2 DEF TickBegin, committed, Typed, TypeOK, RequestsDispatched, PositionsOwned
<1>3. ASSUME NEW s \in Strategies, RecordRejection(s)
      PROVE  Typed'
  <2>1. tick' \in Tick
    BY <1>1, <1>3 DEF RecordRejection, Tick
  <2> QED
    BY <2>1, <1>3 DEF RecordRejection, committed, Typed, TypeOK, RequestsDispatched,
                      PositionsOwned
<1>4. ASSUME NEW s \in Strategies, NEW p \in Positions, NEW cost \in Costs,
             PlaceOrder(s, p, cost)
      PROVE  Typed'
  <2> DEFINE order == [status |-> "pending", owner |-> s, cost |-> cost, realized |-> 0]
  <2>1. tick' \in Tick
    BY <1>1, <1>4 DEF PlaceOrder, Tick
  <2>2. order \in PositionRow
    BY TxAssumption DEF PositionRow
  <2>3. position' \in [Positions -> PositionRow] /\ PositionsOwned'
    BY <2>2, <1>4 DEF PlaceOrder, Typed, TypeOK, PositionsOwned
  <2> QED
    BY <2>1, <2>3, <1>4 DEF PlaceOrder, Typed, TypeOK, RequestsDispatched
<1>5. CASE EngineFails
  <2>1. RolledBack \in [Positions -> PositionRow]
    BY DEF RolledBack, NoPosition, PositionRow, Typed, TypeOK
  <2>2. PositionsOwned'
    BY <1>5 DEF EngineFails, RolledBack, NoPosition, Typed, PositionsOwned
  <2> QED
    BY <2>1, <2>2, <1>5, IdleTickTyped DEF EngineFails, Typed, TypeOK, RequestsDispatched
<1>6. CASE EngineCommit
  <2>1. tick' \in Tick
    BY <1>6, IdleTickTyped DEF EngineCommit, Tick
  <2>2. position' \in [Positions -> PositionRow]
    <3>1. \A p \in Positions : [position[p] EXCEPT !.status = "open"] \in PositionRow
      BY DEF PositionRow, Typed, TypeOK
    <3> QED
      BY <1>6, <3>1 DEF EngineCommit, Typed, TypeOK
  <2>3. PositionsOwned'
    BY <1>6 DEF EngineCommit, Typed, TypeOK, PositionRow, PositionsOwned
  <2>4. signalled' \in SUBSET Strategies
    BY <1>1, <1>6 DEF EngineCommit, Tick, Typed, TypeOK
  <2> QED
    BY <2>1, <2>2, <2>3, <2>4, <1>6 DEF EngineCommit, Typed, TypeOK, RequestsDispatched
<1> QED
  BY <1>2, <1>3, <1>4, <1>5, <1>6 DEF EngineTick

\* A settlement books a typed event against a typed row.
LEMMA SettleTyped ==
  ASSUME Typed, NEW p \in Positions, NEW payout \in Payouts, Settle(p, payout),
         position[p].owner \in Strategies
  PROVE  Typed'
<1> DEFINE s == position[p].owner
           row == LockedRow(s)
           realized == payout - position[p].cost
           bankroll == row.bankroll + realized
           hwm == IF bankroll > row.hwm THEN bankroll ELSE row.hwm
           event == [amount |-> realized, balance |-> bankroll, ref |-> p]
           booked == [row EXCEPT !.bankroll = bankroll,
                                 !.hwm = IF bankroll > @ THEN bankroll ELSE @]
<1>1. tick \in Tick /\ strategy \in [Strategies -> StrategyRow] /\ position[p] \in PositionRow
  BY DEF Typed, TypeOK
<1>2. row \in StrategyRow
  BY <1>1 DEF LockedRow, Tick
<1>3. realized \in Int /\ bankroll \in Int
  BY <1>1, <1>2, TxAssumption DEF PositionRow, StrategyRow
<1>4. event \in CashEvent
  BY <1>3, EventTyped
<1>5. booked \in StrategyRow
  BY <1>2, <1>3 DEF StrategyRow
<1>6. Append(tick.events[s], event) \in Seq(CashEvent)
  BY <1>1, <1>4 DEF Tick
<1>7. tick' = [tick EXCEPT !.due = @ \ {p}, !.locked = @ \cup {s}, !.rows[s] = booked,
                           !.events[s] = Append(@, event)]
  BY DEF Settle
<1>8. tick' \in Tick
  <2> DEFINE rows == [tick.rows EXCEPT ![s] = booked]
             events == [tick.events EXCEPT ![s] = Append(@, event)]
  <2>1. rows \in [Strategies -> StrategyRow]
    BY <1>1, <1>5 DEF Tick
  <2>2. events \in [Strategies -> Seq(CashEvent)]
    BY <1>1, <1>6 DEF Tick
  <2>3. tick' = [tick EXCEPT !.due = @ \ {p}, !.locked = @ \cup {s}, !.rows = rows,
                             !.events = events]
    BY <1>1, <1>7 DEF Tick
  <2> HIDE DEF rows, events
  <2> QED
    BY <1>1, <2>1, <2>2, <2>3 DEF Tick
<1> QED
  BY <1>8 DEF Settle, committed, Typed, TypeOK, RequestsDispatched, PositionsOwned

\* What a resolution's tick holds when it has settled one more position.
LEMMA SettleFields ==
  ASSUME Typed, NEW p \in Positions, NEW payout \in Payouts, Settle(p, payout),
         position[p].owner \in Strategies
  PROVE  LET s == position[p].owner
             row == LockedRow(s)
             realized == payout - position[p].cost
             bankroll == row.bankroll + realized
             event == [amount |-> realized, balance |-> bankroll, ref |-> p]
         IN  /\ realized \in Int /\ event \in CashEvent
             /\ tick'.pc = "resolution"
             /\ tick'.due = tick.due \ {p}
             /\ tick'.locked = tick.locked \cup {s}
             /\ tick'.rows[s].bankroll = bankroll
             /\ tick'.rows[s].hwm = IF bankroll > row.hwm THEN bankroll ELSE row.hwm
             /\ tick'.events[s] = Append(tick.events[s], event)
             /\ \A t \in Strategies \ {s} : /\ tick'.rows[t] = tick.rows[t]
                                            /\ tick'.events[t] = tick.events[t]
<1> DEFINE s == position[p].owner
           row == LockedRow(s)
           realized == payout - position[p].cost
           bankroll == row.bankroll + realized
           event == [amount |-> realized, balance |-> bankroll, ref |-> p]
           booked == [row EXCEPT !.bankroll = bankroll,
                                 !.hwm = IF bankroll > @ THEN bankroll ELSE @]
<1>1. tick \in Tick /\ strategy \in [Strategies -> StrategyRow] /\ position[p] \in PositionRow
  BY DEF Typed, TypeOK
<1>2. row \in StrategyRow
  BY <1>1 DEF LockedRow, Tick
<1>3. realized \in Int /\ bankroll \in Int
  BY <1>1, <1>2, TxAssumption DEF PositionRow, StrategyRow
<1>4. event \in CashEvent
  BY <1>3, EventTyped
<1>5. /\ booked.bankroll = bankroll
      /\ booked.hwm = IF bankroll > row.hwm THEN bankroll ELSE row.hwm
  BY <1>2 DEF StrategyRow
<1>6. tick' = [tick EXCEPT !.due = @ \ {p}, !.locked = @ \cup {s}, !.rows[s] = booked,
                           !.events[s] = Append(@, event)]
      /\ tick.pc = "resolution"
  BY DEF Settle
<1> HIDE DEF booked, event, realized, bankroll, row
<1>7. /\ tick'.pc = "resolution"
      /\ tick'.due = tick.due \ {p}
      /\ tick'.locked = tick.locked \cup {s}
      /\ tick'.rows = [tick.rows EXCEPT ![s] = booked]
      /\ tick'.events = [tick.events EXCEPT ![s] = Append(@, event)]
  BY <1>1, <1>6 DEF Tick
<1>8. /\ tick'.rows[s] = booked
      /\ tick'.events[s] = Append(tick.events[s], event)
      /\ \A t \in Strategies \ {s} : /\ tick'.rows[t] = tick.rows[t]
                                     /\ tick'.events[t] = tick.events[t]
  BY <1>1, <1>7 DEF Tick
<1>9. /\ tick'.rows[s].bankroll = bankroll
      /\ tick'.rows[s].hwm = IF bankroll > row.hwm THEN bankroll ELSE row.hwm
  BY <1>5, <1>8
<1> QED
  BY <1>3, <1>4, <1>7, <1>8, <1>9 DEF booked, event, realized, bankroll, row

\* The event a resolution takes the realized amount of a position from.
LEMMA SettledByTyped ==
  ASSUME Typed, NEW p \in Positions, SettledBy(p) # {}
  PROVE  (CHOOSE e \in SettledBy(p) : TRUE) \in CashEvent
<1>1. \A s \in Strategies : tick.events[s] \in Seq(CashEvent)
  BY DEF Typed, TypeOK, Tick
<1>2. \A s \in Strategies : \A i \in 1..Len(tick.events[s]) : tick.events[s][i] \in CashEvent
  BY <1>1
<1>3. SettledBy(p) \subseteq CashEvent
  BY <1>2 DEF SettledBy
<1>4. (CHOOSE e \in SettledBy(p) : TRUE) \in SettledBy(p)
  OBVIOUS
<1> QED
  BY <1>3, <1>4

\* A resolution commits typed rows, journals and positions.
LEMMA ResolutionCommitTyped ==
  ASSUME Typed, ResolutionCommit,
         \A p \in Positions : SettledBy(p) # {} => position[p].owner \in Strategies
  PROVE  Typed'
<1>1. tick \in Tick /\ strategy \in [Strategies -> StrategyRow]
      /\ cash \in [Strategies -> Seq(CashEvent)]
      /\ position \in [Positions -> PositionRow]
  BY DEF Typed, TypeOK
<1>2. strategy' \in [Strategies -> StrategyRow]
  <2>1. ASSUME NEW s \in Strategies
        PROVE  [strategy[s] EXCEPT !.bankroll = tick.rows[s].bankroll, !.hwm = tick.rows[s].hwm]
                  \in StrategyRow
    <3>1. tick.rows[s] \in StrategyRow /\ strategy[s] \in StrategyRow
      BY <1>1 DEF Tick
    <3> QED
      BY <3>1 DEF StrategyRow
  <2> QED
    BY <2>1, <1>1 DEF ResolutionCommit
<1>3. cash' \in [Strategies -> Seq(CashEvent)]
  <2>1. \A s \in Strategies : cash[s] \o tick.events[s] \in Seq(CashEvent)
    BY <1>1 DEF Tick
  <2> QED
    BY <2>1 DEF ResolutionCommit
<1>5. position' \in [Positions -> PositionRow]
  <2>1. ASSUME NEW p \in Positions, SettledBy(p) # {}
        PROVE  [position[p] EXCEPT !.status = "resolved",
                                   !.realized = (CHOOSE e \in SettledBy(p) : TRUE).amount]
                  \in PositionRow
    <3>1. (CHOOSE e \in SettledBy(p) : TRUE).amount \in Int
      BY <2>1, SettledByTyped DEF CashEvent
    <3> QED
      BY <3>1, <1>1 DEF PositionRow
  <2> QED
    BY <2>1, <1>1 DEF ResolutionCommit
<1>6. \A p \in Positions : /\ position'[p].owner = position[p].owner
                           /\ SettledBy(p) = {} => position'[p] = position[p]
  BY <1>1 DEF ResolutionCommit, PositionRow
<1>7. PositionsOwned'
  <2> SUFFICES ASSUME NEW p \in Positions, position'[p].status # NoRow
               PROVE  position'[p].owner \in Strategies
    BY DEF PositionsOwned
  <2>1. CASE SettledBy(p) = {}
    BY <1>6, <2>1 DEF Typed, PositionsOwned
  <2>2. CASE SettledBy(p) # {}
    BY <1>6, <2>2
  <2> QED
    BY <2>1, <2>2
<1> QED
  BY <1>2, <1>3, <1>5, <1>7, IdleTickTyped
     DEF ResolutionCommit, Typed, TypeOK, RequestsDispatched

\* A crash leaves idle threads and a database without pending positions.
LEMMA CrashTyped ==
  ASSUME Typed, Crash
  PROVE  Typed'
<1>1. RolledBack \in [Positions -> PositionRow]
  BY DEF RolledBack, NoPosition, PositionRow, Typed, TypeOK
<1>2. PositionsOwned'
  BY DEF Crash, RolledBack, NoPosition, Typed, PositionsOwned
<1>3. request' \in [Requests -> Request] /\ RequestsDispatched'
  <2>1. \A c \in Requests : /\ IdleRequest(request[c].served) \in Request
                            /\ IdleRequest(request[c].served).pc = "idle"
    BY IdleRequestTyped DEF Typed, TypeOK, Request, IdleRequest
  <2> QED
    BY <2>1 DEF Crash, RequestsDispatched
<1> QED
  BY <1>1, <1>2, <1>3, IdleTickTyped DEF Crash, Typed, TypeOK

-----------------------------------------------------------------------------
(* Journals and settlements. *)

\* A journal that gains at most a plain event gains no settlement.
LEMMA PlainKeepsRefs ==
  ASSUME NEW log \in Seq(CashEvent), NEW new, Plain(log, new)
  PROVE  /\ new \in Seq(CashEvent)
         /\ RefsOnce(log) => RefsOnce(new)
         /\ \A i \in 1..Len(log) : i \in 1..Len(new) /\ new[i] = log[i]
         /\ \A i \in 1..Len(new) : new[i].ref # None => i \in 1..Len(log) /\ new[i] = log[i]
<1>1. CASE new = log
  BY <1>1
<1>2. ASSUME NEW e \in CashEvent, e.ref = None, new = Append(log, e)
      PROVE  /\ new \in Seq(CashEvent)
             /\ RefsOnce(log) => RefsOnce(new)
             /\ \A i \in 1..Len(log) : i \in 1..Len(new) /\ new[i] = log[i]
             /\ \A i \in 1..Len(new) : new[i].ref # None => i \in 1..Len(log) /\ new[i] = log[i]
  <2>1. /\ new \in Seq(CashEvent) /\ Len(new) = Len(log) + 1 /\ Len(log) \in Nat
        /\ new[Len(log) + 1] = e
        /\ \A i \in 1..Len(log) : new[i] = log[i]
    BY <1>2
  <2>2. \A i \in 1..Len(log) : i \in 1..Len(new) /\ new[i] = log[i]
    BY <2>1
  <2>3. \A i \in 1..Len(new) : new[i].ref # None => i \in 1..Len(log) /\ new[i] = log[i]
    BY <2>1, <1>2
  <2> QED
    BY <2>1, <2>2, <2>3 DEF RefsOnce
<1> QED
  BY <1>1, <1>2 DEF Plain

\* Every event of a journal is one.
LEMMA EventsTyped ==
  ASSUME Typed, NEW s \in Strategies, NEW i \in 1..Len(cash[s])
  PROVE  cash[s][i] \in CashEvent /\ cash[s][i].ref \in Positions \cup {None}
<1>1. cash[s] \in Seq(CashEvent)
  BY DEF Typed, TypeOK
<1>2. cash[s][i] \in CashEvent
  BY <1>1
<1> QED
  BY <1>2 DEF CashEvent

\* Settlements stay as they are while nothing is resolved.
LEMMA SettlementsKept ==
  ASSUME Typed, Settlements,
         \A s \in Strategies : Plain(cash[s], cash'[s]),
         \A p \in Positions : \/ position'[p] = position[p]
                              \/ /\ position[p].status # "resolved"
                                 /\ position'[p].status # "resolved"
  PROVE  Settlements'
<1>1. \A s \in Strategies :
         /\ RefsOnce(cash'[s])
         /\ \A i \in 1..Len(cash[s]) : i \in 1..Len(cash'[s]) /\ cash'[s][i] = cash[s][i]
         /\ \A i \in 1..Len(cash'[s]) :
               cash'[s][i].ref # None => i \in 1..Len(cash[s]) /\ cash'[s][i] = cash[s][i]
  <2> SUFFICES ASSUME NEW s \in Strategies
               PROVE  /\ RefsOnce(cash'[s])
                      /\ \A i \in 1..Len(cash[s]) :
                            i \in 1..Len(cash'[s]) /\ cash'[s][i] = cash[s][i]
                      /\ \A i \in 1..Len(cash'[s]) : cash'[s][i].ref # None =>
                            i \in 1..Len(cash[s]) /\ cash'[s][i] = cash[s][i]
    OBVIOUS
  <2>1. cash[s] \in Seq(CashEvent) /\ RefsOnce(cash[s]) /\ Plain(cash[s], cash'[s])
    BY DEF Typed, TypeOK, Settlements
  <2> QED
    BY <2>1, PlainKeepsRefs
<1>3. ASSUME NEW s \in Strategies, NEW i \in 1..Len(cash'[s]), cash'[s][i].ref # None
      PROVE  Books(s, cash[s][i])'
  <2>1. i \in 1..Len(cash[s]) /\ cash'[s][i] = cash[s][i]
    BY <1>1, <1>3
  <2>2. Books(s, cash[s][i]) /\ cash[s][i].ref \in Positions
    BY <2>1, <1>3, EventsTyped DEF Settlements
  <2> QED
    BY <2>1, <2>2 DEF Books
<1>4. ASSUME NEW p \in Positions, position'[p].status = "resolved"
      PROVE  \E s \in Strategies : \E i \in 1..Len(cash'[s]) : cash'[s][i].ref = p
  <2>1. position[p].status = "resolved"
    BY <1>4
  <2>2. PICK s \in Strategies : \E i \in 1..Len(cash[s]) : cash[s][i].ref = p
    BY <2>1 DEF Settlements
  <2>3. PICK i \in 1..Len(cash[s]) : cash[s][i].ref = p
    BY <2>2
  <2> QED
    BY <2>3, <1>1
<1> QED
  BY <1>1, <1>3, <1>4 DEF Settlements

\* A strategy that never traded has no settlement in its journal.
LEMMA UntradedUnsettled ==
  ASSUME Typed, Settlements, NEW s \in Strategies, ~HasTradingActivity(s)
  PROVE  \A i \in 1..Len(cash[s]) : cash[s][i].ref = None
<1> SUFFICES ASSUME NEW i \in 1..Len(cash[s]), cash[s][i].ref # None PROVE FALSE
  OBVIOUS
<1>1. cash[s][i].ref \in Positions
  BY EventsTyped
<1>2. Books(s, cash[s][i])
  BY DEF Settlements
<1> QED
  BY <1>1, <1>2 DEF Books, HasTradingActivity

\* Only the journal of one strategy, that no tick has locked, gains an event,
\* and then the books of that strategy agree again.
FlushOf(s) ==
    /\ UNCHANGED <<signalled, position, tick>>
    /\ \A t \in Strategies \ {s} :
          strategy'[t] = strategy[t] /\ cash'[t] = cash[t]
    /\ s \notin tick.locked
    /\ Plain(cash[s], cash'[s])
    /\ Chained(cash'[s])
    /\ strategy'[s].bankroll = LastBalance(cash'[s])
    /\ \/ strategy'[s].hwm = strategy[s].hwm /\ strategy'[s].initial = strategy[s].initial
       \/ s \notin tick.shared /\ ~HasTradingActivity(s)

\* deposit and withdraw: the amount is never zero, so the UPDATE writes the
\* bankroll, and check_bankroll_invariant has compared it with the journal.
LEMMA FlushBankrollBooks ==
  ASSUME Typed, BooksAgree, NEW c \in Requests, FlushBankroll(c)
  PROVE  \E s \in Strategies : FlushOf(s)
<1> DEFINE r == request[c]
           delta == IF r.op = "deposit" THEN r.amt ELSE -r.amt
           bankroll == r.row.bankroll + delta
           resumes == /\ r.op = "deposit"
                      /\ should_auto_resume_on_deposit(r.row.state, bankroll, r.row.initial)
           row == [r.row EXCEPT !.bankroll = bankroll,
                                !.state = IF resumes THEN ResumeTarget ELSE @]
           event == [amount |-> delta, balance |-> bankroll, ref |-> None]
           s == r.s
<1>1. r \in Request /\ s \in Strategies /\ r.amt > 0
  BY DEF Typed, TypeOK, RequestsDispatched, FlushBankroll, MoneyOps
<1>2. r.row \in StrategyRow /\ delta \in Int /\ delta # 0 /\ bankroll \in Int
  BY <1>1 DEF Request, StrategyRow
<1>3. /\ row \in StrategyRow /\ row.bankroll = bankroll
      /\ row.hwm = r.row.hwm /\ row.initial = r.row.initial
  BY <1>2 DEF StrategyRow, StrategyState, ResumeTarget, ACTIVE
<1>4. /\ strategy \in [Strategies -> StrategyRow] /\ cash \in [Strategies -> Seq(CashEvent)]
      /\ Chained(cash[s]) /\ strategy[s].bankroll = LastBalance(cash[s])
      /\ strategy[s] \in StrategyRow
  BY <1>1 DEF Typed, TypeOK, BooksAgree
<1>5. s \notin tick.locked /\ UNCHANGED <<signalled, position, tick>>
  BY DEF FlushBankroll
<1>6. \/ /\ Reconciles(bankroll, SumOf(Append(cash[s], event)))
         /\ strategy' = [strategy EXCEPT ![s] = Updated(s, r.row, row)]
         /\ cash' = [cash EXCEPT ![s] = Append(@, event)]
      \/ UNCHANGED <<strategy, cash>>
  BY DEF FlushBankroll
<1>7. CASE /\ Reconciles(bankroll, SumOf(Append(cash[s], event)))
           /\ strategy' = [strategy EXCEPT ![s] = Updated(s, r.row, row)]
           /\ cash' = [cash EXCEPT ![s] = Append(@, event)]
  <2>1. event \in CashEvent /\ event.ref = None
    BY <1>2, EventTyped
  <2>2. event.balance = bankroll /\ event.amount = delta
    OBVIOUS
  <2>3. cash[s] \in Seq(CashEvent) /\ LastBalance(cash[s]) \in Int
    BY <1>1, <1>4 DEF StrategyRow
  <2> HIDE DEF event
  <2>4. event.balance = event.amount + LastBalance(cash[s])
    <3>1. bankroll = SumOf(Append(cash[s], event))
      BY <1>7 DEF Reconciles
    <3>2. SumOf(Append(cash[s], event)) = LastBalance(cash[s]) + event.amount
      BY <2>1, <2>3, <1>4, SumOfAppended
    <3> QED
      BY <3>1, <3>2, <2>2, <2>3, <1>2
  <2>5. Chained(Append(cash[s], event)) /\ LastBalance(Append(cash[s], event)) = bankroll
    BY <2>1, <2>2, <2>3, <2>4, <1>4, AppendChains
  <2>6. cash'[s] = Append(cash[s], event)
    BY <1>1, <1>4, <1>7
  <2>7. Plain(cash[s], cash'[s])
    BY <2>1, <2>6 DEF Plain
  <2>8. \A t \in Strategies \ {s} :
           strategy'[t] = strategy[t] /\ cash'[t] = cash[t]
    BY <1>4, <1>7
  <2>9. \A f \in {"state", "enabled", "bankroll", "initial", "hwm"} :
           strategy'[s][f] = IF row[f] # r.row[f] THEN row[f] ELSE strategy[s][f]
    <3> HIDE DEF row
    <3>1. strategy'[s] = Updated(s, r.row, row)
      BY <1>1, <1>4, <1>7
    <3> QED
      BY <3>1, <1>1, <1>2, <1>3, <1>4, UpdatedTyped
  <2>10. /\ strategy'[s].bankroll = IF row.bankroll # r.row.bankroll THEN row.bankroll
                                                                    ELSE strategy[s].bankroll
         /\ strategy'[s].hwm = IF row.hwm # r.row.hwm THEN row.hwm ELSE strategy[s].hwm
         /\ strategy'[s].initial = IF row.initial # r.row.initial THEN row.initial
                                                                  ELSE strategy[s].initial
    BY <2>9
  <2>11. bankroll # r.row.bankroll
    BY <1>2 DEF StrategyRow
  <2>12. /\ strategy'[s].bankroll = bankroll
         /\ strategy'[s].hwm = strategy[s].hwm /\ strategy'[s].initial = strategy[s].initial
    BY <2>10, <2>11, <1>3
  <2> QED
    BY <2>5, <2>6, <2>7, <2>8, <2>12, <1>1, <1>5 DEF FlushOf
<1>8. CASE UNCHANGED <<strategy, cash>>
  BY <1>1, <1>4, <1>5, <1>8 DEF FlushOf, Plain
<1> QED
  BY <1>6, <1>7, <1>8

\* pause, resume and decommission write neither bankroll, baseline nor mark.
LEMMA FlushLifecycleBooks ==
  ASSUME Typed, BooksAgree, NEW c \in Requests, FlushLifecycle(c)
  PROVE  \E s \in Strategies : FlushOf(s)
<1> DEFINE r == request[c]
           row == [r.row EXCEPT
                      !.state = CASE r.op = "pause"  -> PauseTarget
                                  [] r.op = "resume" -> ResumeTarget
                                  [] OTHER           -> DECOMMISSIONED,
                      !.enabled = @ /\ r.op # "decommission"]
           s == r.s
<1>1. r \in Request /\ s \in Strategies
  BY DEF Typed, TypeOK, RequestsDispatched, FlushLifecycle
<1>2. r.row \in StrategyRow
  BY <1>1 DEF Request
<1>3. /\ row \in StrategyRow /\ row.bankroll = r.row.bankroll
      /\ row.hwm = r.row.hwm /\ row.initial = r.row.initial
  BY <1>2 DEF StrategyRow, StrategyState, PauseTarget, ResumeTarget, ACTIVE,
              OPERATOR_PAUSED, DECOMMISSIONED
<1>4. /\ strategy \in [Strategies -> StrategyRow] /\ strategy[s] \in StrategyRow
      /\ Chained(cash[s]) /\ strategy[s].bankroll = LastBalance(cash[s])
  BY <1>1 DEF Typed, TypeOK, BooksAgree
<1>5. /\ s \notin tick.locked /\ UNCHANGED <<cash, signalled, position, tick>>
      /\ strategy' = [strategy EXCEPT ![s] = Updated(s, r.row, row)]
  BY DEF FlushLifecycle
<1> HIDE DEF row
<1>6. strategy'[s] = Updated(s, r.row, row) /\ \A t \in Strategies \ {s} : strategy'[t] = strategy[t]
  BY <1>1, <1>4, <1>5
<1>7. \A f \in {"state", "enabled", "bankroll", "initial", "hwm"} :
         strategy'[s][f] = IF row[f] # r.row[f] THEN row[f] ELSE strategy[s][f]
  BY <1>1, <1>2, <1>3, <1>4, <1>6, UpdatedTyped
<1>8. /\ strategy'[s].bankroll = strategy[s].bankroll
      /\ strategy'[s].hwm = strategy[s].hwm /\ strategy'[s].initial = strategy[s].initial
  BY <1>3, <1>7
<1> QED
  BY <1>1, <1>4, <1>5, <1>6, <1>8 DEF FlushOf, Plain

\* set_starting_bankroll books the whole difference to the new bankroll.
LEMMA FlushBaselineBooks ==
  ASSUME Typed, BooksAgree, NEW c \in Requests, FlushBaseline(c)
  PROVE  \E s \in Strategies : FlushOf(s)
<1> DEFINE r == request[c]
           s == r.s
           delta == r.amt - strategy[s].bankroll
           event == [amount |-> delta, balance |-> r.amt, ref |-> None]
<1>1. r \in Request /\ s \in Strategies /\ r.amt \in Nat
  BY DEF Typed, TypeOK, RequestsDispatched, FlushBaseline, Request
<1>2. /\ strategy \in [Strategies -> StrategyRow] /\ cash \in [Strategies -> Seq(CashEvent)]
      /\ Chained(cash[s]) /\ strategy[s].bankroll = LastBalance(cash[s])
      /\ strategy[s] \in StrategyRow
  BY <1>1 DEF Typed, TypeOK, BooksAgree
<1>3. delta \in Int /\ LastBalance(cash[s]) \in Int /\ cash[s] \in Seq(CashEvent)
  BY <1>1, <1>2 DEF StrategyRow
<1>4. Unlocked(s) /\ UNCHANGED <<signalled, position, tick>>
  BY DEF FlushBaseline
<1>5. \/ /\ ~HasTradingActivity(s)
         /\ strategy' = [strategy EXCEPT ![s].bankroll = r.amt, ![s].initial = r.amt,
                                         ![s].hwm = r.amt]
         /\ cash' = [cash EXCEPT ![s] = BaselineEvents(@, delta, r.amt)]
      \/ UNCHANGED <<strategy, cash>>
  BY DEF FlushBaseline
<1>6. CASE /\ ~HasTradingActivity(s)
           /\ strategy' = [strategy EXCEPT ![s].bankroll = r.amt, ![s].initial = r.amt,
                                           ![s].hwm = r.amt]
           /\ cash' = [cash EXCEPT ![s] = BaselineEvents(@, delta, r.amt)]
  <2>1. strategy'[s].bankroll = r.amt
    BY <1>1, <1>2, <1>6 DEF StrategyRow
  <2>2. \A t \in Strategies \ {s} :
           strategy'[t] = strategy[t] /\ cash'[t] = cash[t]
    BY <1>2, <1>6
  <2>4. cash'[s] = BaselineEvents(cash[s], delta, r.amt)
    BY <1>1, <1>2, <1>6
  <2>5. /\ Plain(cash[s], cash'[s]) /\ Chained(cash'[s]) /\ LastBalance(cash'[s]) = r.amt
    <3>1. CASE delta = 0
      BY <3>1, <2>4, <1>1, <1>2, <1>3 DEF BaselineEvents, Plain
    <3>2. CASE delta # 0
      <4>1. event \in CashEvent /\ event.ref = None /\ event.balance = r.amt /\ event.amount = delta
        BY <1>1, <1>3, EventTyped
      <4>2. event.balance = event.amount + LastBalance(cash[s])
        BY <4>1, <1>1, <1>2, <1>3
      <4>3. cash'[s] = Append(cash[s], event)
        BY <3>2, <2>4 DEF BaselineEvents
      <4> HIDE DEF event
      <4>4. Chained(Append(cash[s], event)) /\ LastBalance(Append(cash[s], event)) = r.amt
        BY <4>1, <4>2, <1>2, <1>3, AppendChains
      <4> QED
        BY <4>1, <4>3, <4>4 DEF Plain
    <3> QED
      BY <3>1, <3>2
  <2> QED
    BY <1>1, <1>4, <1>6, <2>1, <2>2, <2>5 DEF FlushOf, Unlocked
<1>7. CASE UNCHANGED <<strategy, cash>>
  BY <1>1, <1>2, <1>4, <1>7 DEF FlushOf, Plain, Unlocked
<1> QED
  BY <1>5, <1>6, <1>7

\* Whatever a handler commits, it leaves the books of its strategy agreeing.
LEMMA FlushBooks ==
  ASSUME Typed, BooksAgree, NEW c \in Requests, Flush(c)
  PROVE  \E s \in Strategies : FlushOf(s)
  BY FlushBankrollBooks, FlushLifecycleBooks, FlushBaselineBooks DEF Flush

-----------------------------------------------------------------------------
(* The accounts, step by step. *)

\* A step of a handler that commits nothing, and a flip of the kill switch.
LEMMA QuietStep ==
  ASSUME Accounts, UNCHANGED <<strategy, cash, signalled, position, tick>>
  PROVE  Accounts'
<1>1. BooksAgree' /\ HwmCoversRealized'
  BY DEF Accounts, BooksAgree, HwmCoversRealized
<1>2. Settlements'
  BY DEF Accounts, Settlements, Books, RefsOnce
<1>3. TickRests' /\ TickSettles'
  BY DEF Accounts, TickRests, TickSettles, EventsOpen, RowAhead, RefsOnce
<1> QED
  BY <1>1, <1>2, <1>3 DEF Accounts

\* A handler's commit: the journals of locked strategies stay, so what a
\* resolution has booked on top of them stays right.
LEMMA FlushStep ==
  ASSUME Typed, Accounts, NEW c \in Requests, Flush(c)
  PROVE  Accounts'
<1> PICK s \in Strategies : FlushOf(s)
  BY FlushBooks DEF Accounts
<1>1. /\ UNCHANGED <<signalled, position, tick>>
      /\ \A t \in Strategies \ {s} :
            strategy'[t] = strategy[t] /\ cash'[t] = cash[t]
      /\ s \notin tick.locked /\ Plain(cash[s], cash'[s])
  BY DEF FlushOf
<1>2. BooksAgree'
  BY DEF FlushOf, Accounts, BooksAgree
<1>3. Settlements'
  <2>1. \A t \in Strategies : Plain(cash[t], cash'[t])
    BY <1>1 DEF Plain
  <2> QED
    BY <1>1, <2>1, SettlementsKept DEF Accounts
<1>4. TickRests'
  BY <1>1 DEF Accounts, TickRests
<1>5. TickSettles'
  <2>1. ASSUME NEW t \in Strategies
        PROVE  /\ EventsOpen(t) => EventsOpen(t)'
               /\ t \in tick.locked /\ RowAhead(t) => RowAhead(t)'
    BY <1>1 DEF EventsOpen, RowAhead, RefsOnce
  <2> QED
    BY <1>1, <2>1 DEF Accounts, TickSettles
<1>6. HwmCoversRealized'
  <2> SUFFICES ASSUME NEW t \in Strategies, NEW i \in 1..Len(cash'[t]), cash'[t][i].ref # None
               PROVE  cash'[t][i].balance <= strategy'[t].hwm
    BY DEF HwmCoversRealized
  <2>1. CASE t # s
    BY <1>1, <2>1 DEF Accounts, HwmCoversRealized
  <2>2. CASE t = s
    <3>1. cash[s] \in Seq(CashEvent)
      BY DEF Typed, TypeOK
    <3>2. i \in 1..Len(cash[s]) /\ cash'[s][i] = cash[s][i]
      BY <1>1, <2>2, <3>1, PlainKeepsRefs
    <3>3. strategy'[s].hwm = strategy[s].hwm
      <4>1. HasTradingActivity(s)
        BY <3>2, <2>2, UntradedUnsettled DEF Accounts
      <4> QED
        BY <4>1 DEF FlushOf
    <3> QED
      BY <3>2, <3>3, <2>2 DEF Accounts, HwmCoversRealized
  <2> QED
    BY <2>1, <2>2
<1> QED
  BY <1>2, <1>3, <1>4, <1>5, <1>6 DEF Accounts

\* Steps that leave the committed books alone and resolve nothing, and after
\* which no resolution runs: the engine's, and a crash.
LEMMA UnresolvingStep ==
  ASSUME Typed, Accounts, UNCHANGED <<strategy, cash>>, TickRests',
         tick'.pc # "resolution",
         \A p \in Positions : \/ position'[p] = position[p]
                              \/ /\ position[p].status # "resolved"
                                 /\ position'[p].status # "resolved"
  PROVE  Accounts'
<1>1. BooksAgree' /\ HwmCoversRealized'
  BY DEF Accounts, BooksAgree, HwmCoversRealized
<1>2. Settlements'
  <2>1. \A s \in Strategies : Plain(cash[s], cash'[s])
    BY DEF Plain
  <2> QED
    BY <2>1, SettlementsKept DEF Accounts
<1>3. TickSettles'
  BY DEF TickRests, TickSettles
<1> QED
  BY <1>1, <1>2, <1>3 DEF Accounts

\* An idle session holds nothing.
LEMMA IdleTickRests ==
  ASSUME tick' = IdleTick, \A p \in Positions : position'[p].status # "pending"
  PROVE  TickRests' /\ tick'.pc # "resolution"
  BY DEF IdleTick, TickRests

\* A rollback removes the pending positions and resolves none.
LEMMA RolledBackRests ==
  ASSUME Typed
  PROVE  \A p \in Positions :
            /\ RolledBack[p].status # "pending"
            /\ \/ RolledBack[p] = position[p]
               \/ position[p].status # "resolved" /\ RolledBack[p].status # "resolved"
  BY DEF RolledBack, NoPosition

\* The engine opens positions and moves no money.
LEMMA EngineStep ==
  ASSUME Typed, Accounts, EngineTick
  PROVE  Accounts'
<1>1. tick \in Tick
  BY DEF Typed, TypeOK
<1>2. CASE TickBegin
  <2>1. TickRests' /\ tick'.pc # "resolution"
    BY <1>2 DEF TickBegin, IdleTick, TickRests
  <2> QED
    BY <2>1, <1>2, UnresolvingStep DEF TickBegin, committed
<1>3. ASSUME NEW s \in Strategies, RecordRejection(s)
      PROVE  Accounts'
  <2>1. TickRests' /\ tick'.pc # "resolution"
    BY <1>1, <1>3 DEF RecordRejection, Emits, Accounts, TickRests, Tick
  <2> QED
    BY <2>1, <1>3, UnresolvingStep DEF RecordRejection, committed
<1>4. ASSUME NEW s \in Strategies, NEW p \in Positions, NEW cost \in Costs,
             PlaceOrder(s, p, cost)
      PROVE  Accounts'
  <2>1. TickRests' /\ tick'.pc # "resolution"
    BY <1>1, <1>4 DEF PlaceOrder, Emits, Accounts, TickRests, Tick
  <2>2. \A q \in Positions : \/ position'[q] = position[q]
                             \/ /\ position[q].status # "resolved"
                                /\ position'[q].status # "resolved"
    BY <1>4 DEF PlaceOrder, Typed, TypeOK
  <2> QED
    BY <2>1, <2>2, <1>4, UnresolvingStep DEF PlaceOrder
<1>5. CASE EngineFails
  <2>1. TickRests' /\ tick'.pc # "resolution"
    BY <1>5, IdleTickRests, RolledBackRests DEF EngineFails
  <2> QED
    BY <2>1, <1>5, RolledBackRests, UnresolvingStep DEF EngineFails
<1>6. CASE EngineCommit
  <2>1. \A p \in Positions : position'[p].status # "pending"
    BY <1>6 DEF EngineCommit, Typed, TypeOK, PositionRow
  <2>2. TickRests' /\ tick'.pc # "resolution"
    BY <1>6, <2>1 DEF EngineCommit, IdleTick, TickRests
  <2>3. \A p \in Positions : \/ position'[p] = position[p]
                             \/ /\ position[p].status # "resolved"
                                /\ position'[p].status # "resolved"
    BY <1>6 DEF EngineCommit, Typed, TypeOK, PositionRow
  <2> QED
    BY <2>2, <2>3, <1>6, UnresolvingStep DEF EngineCommit
<1> QED
  BY <1>2, <1>3, <1>4, <1>5, <1>6 DEF EngineTick

\* A crash loses what no transaction committed.
LEMMA CrashStep ==
  ASSUME Typed, Accounts, Crash
  PROVE  Accounts'
<1>1. TickRests' /\ tick'.pc # "resolution"
  BY IdleTickRests, RolledBackRests DEF Crash
<1> QED
  BY <1>1, RolledBackRests, UnresolvingStep DEF Crash

\* A resolution starts with open positions due and nothing booked.
LEMMA ResolutionBeginStep ==
  ASSUME Typed, Accounts, ResolutionBegin
  PROVE  Accounts'
<1>1. PICK due \in SUBSET OpenPositions : tick' = [tick EXCEPT !.pc = "resolution", !.due = due]
  BY DEF ResolutionBegin
<1>2. tick \in Tick /\ tick.pc = "between" /\ UNCHANGED committed
  BY DEF ResolutionBegin, Typed, TypeOK
<1>3. /\ tick.locked = {}
      /\ \A s \in Strategies : tick.events[s] = <<>>
      /\ \A p \in Positions : position[p].status # "pending"
  BY <1>2 DEF Accounts, TickRests
<1>4. /\ tick'.pc = "resolution" /\ tick'.due = due /\ tick'.locked = tick.locked
      /\ tick'.events = tick.events
  BY <1>1, <1>2 DEF Tick
<1>5. BooksAgree' /\ HwmCoversRealized' /\ Settlements'
  BY <1>2 DEF Accounts, BooksAgree, HwmCoversRealized, Settlements, Books, RefsOnce, committed
<1>6. TickRests'
  BY <1>2, <1>3, <1>4 DEF TickRests, committed
<1>7. TickSettles'
  <2>1. \A p \in tick'.due : position'[p].status = "open"
    BY <1>2, <1>4 DEF OpenPositions, committed
  <2>2. \A s \in Strategies : tick'.events[s] = <<>> /\ s \notin tick'.locked
    BY <1>3, <1>4
  <2>3. \A s \in Strategies : EventsOpen(s)'
    BY <2>2 DEF EventsOpen, RefsOnce
  <2> QED
    BY <2>1, <2>2, <2>3 DEF TickSettles
<1> QED
  BY <1>5, <1>6, <1>7 DEF Accounts

\* The row a settlement starts from is ahead of the committed one by what the
\* tick has booked, whether it locked the strategy before or does so now.
LEMMA LockedRowAhead ==
  ASSUME Typed, Accounts, tick.pc = "resolution", NEW s \in Strategies
  PROVE  LET row == LockedRow(s)
             booked == cash[s] \o tick.events[s]
         IN  /\ row \in StrategyRow /\ booked \in Seq(CashEvent)
             /\ Chained(booked) /\ LastBalance(booked) = row.bankroll
             /\ strategy[s].hwm <= row.hwm
             /\ \A i \in 1..Len(tick.events[s]) : tick.events[s][i].balance <= row.hwm
<1>1. /\ strategy[s] \in StrategyRow /\ tick.rows[s] \in StrategyRow
      /\ cash[s] \in Seq(CashEvent) /\ tick.events[s] \in Seq(CashEvent)
  BY DEF Typed, TypeOK, Tick
<1>2. cash[s] \o tick.events[s] \in Seq(CashEvent)
  BY <1>1
<1>3. CASE s \in tick.locked
  BY <1>1, <1>2, <1>3 DEF LockedRow, Accounts, TickSettles, RowAhead
<1>4. CASE s \notin tick.locked
  <2>1. tick.events[s] = <<>>
    BY <1>4 DEF Accounts, TickSettles
  <2>2. cash[s] \o tick.events[s] = cash[s]
    BY <1>1, <2>1, ConcatEmptySeq
  <2>3. Chained(cash[s]) /\ strategy[s].bankroll = LastBalance(cash[s])
    BY DEF Accounts, BooksAgree
  <2>4. strategy[s].bankroll \in Int /\ strategy[s].hwm \in Int
    BY <1>1 DEF StrategyRow
  <2> QED
    BY <1>1, <1>2, <1>4, <2>1, <2>2, <2>3, <2>4 DEF LockedRow
<1> QED
  BY <1>3, <1>4

\* Appending to the events on top of a journal appends to the whole.
LEMMA ConcatAppend ==
  ASSUME NEW log \in Seq(CashEvent), NEW events \in Seq(CashEvent), NEW e \in CashEvent
  PROVE  log \o Append(events, e) = Append(log \o events, e)
  OBVIOUS

\* An event of a position that no event of the journal is of stays the only one.
LEMMA AppendRefsOnce ==
  ASSUME NEW log \in Seq(CashEvent), NEW e \in CashEvent, RefsOnce(log),
         \A i \in 1..Len(log) : log[i].ref # e.ref
  PROVE  RefsOnce(Append(log, e))
<1> DEFINE longer == Append(log, e)
<1>1. /\ Len(longer) = Len(log) + 1 /\ Len(log) \in Nat /\ longer[Len(log) + 1] = e
      /\ \A i \in 1..Len(log) : longer[i] = log[i]
  OBVIOUS
<1> HIDE DEF longer
<1>2. RefsOnce(longer)
  BY <1>1 DEF RefsOnce
<1> QED
  BY <1>2 DEF longer

\* A settlement books its event on top of the journal, chained, and raises the
\* mark with the bankroll.
LEMMA SettleAhead ==
  ASSUME Typed, Accounts, NEW p \in Positions, NEW payout \in Payouts, Settle(p, payout),
         NEW s \in Strategies, s = position[p].owner
  PROVE  RowAhead(s)'
<1> DEFINE row == LockedRow(s)
           realized == payout - position[p].cost
           bankroll == row.bankroll + realized
           event == [amount |-> realized, balance |-> bankroll, ref |-> p]
           booked == cash[s] \o tick.events[s]
<1>1. /\ realized \in Int /\ event \in CashEvent
      /\ tick'.rows[s].bankroll = bankroll
      /\ tick'.rows[s].hwm = IF bankroll > row.hwm THEN bankroll ELSE row.hwm
      /\ tick'.events[s] = Append(tick.events[s], event)
  BY SettleFields
<1>2. tick.pc = "resolution" /\ UNCHANGED committed
  BY DEF Settle
<1>3. /\ row \in StrategyRow /\ booked \in Seq(CashEvent)
      /\ Chained(booked) /\ LastBalance(booked) = row.bankroll
      /\ strategy[s].hwm <= row.hwm
      /\ \A i \in 1..Len(tick.events[s]) : tick.events[s][i].balance <= row.hwm
  BY <1>2, LockedRowAhead
<1>4. /\ strategy[s].bankroll \in Int /\ strategy[s].hwm \in Int
      /\ cash[s] \in Seq(CashEvent) /\ tick.events[s] \in Seq(CashEvent)
  BY DEF Typed, TypeOK, Tick, StrategyRow
<1>5. event.balance = bankroll /\ event.amount = realized /\ row.bankroll \in Int /\ row.hwm \in Int
  BY <1>3 DEF StrategyRow
<1> HIDE DEF row, realized, event, booked
<1>6. bankroll \in Int /\ bankroll = realized + LastBalance(booked)
  BY <1>1, <1>3, <1>5
<1> HIDE DEF bankroll
<1>7. cash[s] \o tick'.events[s] = Append(booked, event)
  <2>1. cash[s] \o Append(tick.events[s], event) = Append(cash[s] \o tick.events[s], event)
    BY <1>1, <1>4, ConcatAppend
  <2> QED
    BY <2>1, <1>1 DEF booked
<1>8. Chained(Append(booked, event)) /\ LastBalance(Append(booked, event)) = bankroll
  BY <1>1, <1>3, <1>5, <1>6, AppendChains
<1>10. row.hwm <= tick'.rows[s].hwm /\ bankroll <= tick'.rows[s].hwm /\ tick'.rows[s].hwm \in Int
  BY <1>1, <1>5, <1>6
<1>11. strategy[s].hwm <= tick'.rows[s].hwm
  BY <1>3, <1>4, <1>5, <1>10
<1>12. ASSUME NEW i \in 1..Len(tick'.events[s])
       PROVE  tick'.events[s][i].balance <= tick'.rows[s].hwm
  <2>1. Len(tick.events[s]) \in Nat
    BY <1>4
  <2>2. CASE i \in 1..Len(tick.events[s])
    <3>1. tick'.events[s][i] = tick.events[s][i] /\ tick.events[s][i] \in CashEvent
      BY <1>1, <1>4, <2>2
    <3>2. tick.events[s][i].balance \in Int /\ tick.events[s][i].balance <= row.hwm
      BY <3>1, <2>2, <1>3 DEF CashEvent
    <3> QED
      BY <3>1, <3>2, <1>5, <1>10
  <2>3. CASE i = Len(tick.events[s]) + 1
    <3>1. Append(tick.events[s], event)[Len(tick.events[s]) + 1] = event
      <4>1. event \in CashEvent /\ tick.events[s] \in Seq(CashEvent)
        BY <1>1, <1>4
      <4> QED
        BY <4>1
    <3>2. tick'.events[s][i] = event
      BY <3>1, <1>1, <2>3
    <3> QED
      BY <3>2, <1>5, <1>10
  <2> QED
    BY <1>1, <1>4, <2>1, <2>2, <2>3
<1> QED
  BY <1>1, <1>2, <1>7, <1>8, <1>11, <1>12 DEF RowAhead, committed

\* A position leaves the due ones as its event is booked, so no event of the
\* tick repeats a position and none is of a position still due.
LEMMA SettleOpen ==
  ASSUME Typed, Accounts, NEW p \in Positions, NEW payout \in Payouts, Settle(p, payout),
         position[p].owner \in Strategies, NEW t \in Strategies
  PROVE  EventsOpen(t)'
<1> DEFINE s == position[p].owner
           realized == payout - position[p].cost
           event == [amount |-> realized, balance |-> LockedRow(s).bankroll + realized, ref |-> p]
<1>1. tick.pc = "resolution" /\ p \in tick.due /\ UNCHANGED committed
  BY DEF Settle
<1>2. /\ EventsOpen(t) /\ position[p].status = "open"
      /\ tick.events[t] \in Seq(CashEvent) /\ Len(tick.events[t]) \in Nat
  BY <1>1 DEF Accounts, TickSettles, Typed, TypeOK, Tick
<1>3. tick'.due = tick.due \ {p} /\ event \in CashEvent /\ event.ref = p
  BY SettleFields
<1>4. CASE t # s
  <2>1. tick'.events[t] = tick.events[t]
    BY <1>4, SettleFields
  <2> QED
    BY <2>1, <1>1, <1>2, <1>3 DEF EventsOpen, RefsOnce, committed
<1>5. CASE t = s
  <2>1. tick'.events[t] = Append(tick.events[t], event)
    BY <1>5, SettleFields
  <2> HIDE DEF event
  <2>2. /\ Len(tick'.events[t]) = Len(tick.events[t]) + 1
        /\ tick'.events[t][Len(tick.events[t]) + 1] = event
        /\ \A i \in 1..Len(tick.events[t]) : tick'.events[t][i] = tick.events[t][i]
    BY <2>1, <1>2, <1>3
  <2>3. \A i \in 1..Len(tick.events[t]) : tick.events[t][i].ref # p
    BY <1>1, <1>2 DEF EventsOpen
  <2>4. RefsOnce(tick'.events[t])
    <3>1. RefsOnce(tick.events[t])
      BY <1>2 DEF EventsOpen
    <3>2. RefsOnce(Append(tick.events[t], event))
      BY <3>1, <2>3, <1>2, <1>3, AppendRefsOnce
    <3> QED
      BY <3>2, <2>1
  <2>5. ASSUME NEW i \in 1..Len(tick'.events[t])
        PROVE  /\ tick'.events[t][i].ref \in Positions \ tick'.due
               /\ position'[tick'.events[t][i].ref].status = "open"
               /\ position'[tick'.events[t][i].ref].owner = t
    <3>1. CASE i \in 1..Len(tick.events[t])
      BY <3>1, <2>2, <1>1, <1>2, <1>3 DEF EventsOpen, committed
    <3>2. CASE i = Len(tick.events[t]) + 1
      BY <3>2, <2>2, <1>1, <1>2, <1>3, <1>5 DEF committed
    <3> QED
      BY <3>1, <3>2, <2>2, <1>2
  <2> QED
    BY <2>4, <2>5 DEF EventsOpen
<1> QED
  BY <1>4, <1>5

\* A settlement stays in the session.
LEMMA SettleStep ==
  ASSUME Typed, Accounts, NEW p \in Positions, NEW payout \in Payouts, Settle(p, payout),
         position[p].owner \in Strategies
  PROVE  Accounts'
<1> DEFINE s == position[p].owner
<1>1. tick.pc = "resolution" /\ UNCHANGED committed
  BY DEF Settle
<1>2. /\ tick'.pc = "resolution" /\ tick'.due = tick.due \ {p}
      /\ tick'.locked = tick.locked \cup {s}
      /\ \A t \in Strategies \ {s} : /\ tick'.rows[t] = tick.rows[t]
                                     /\ tick'.events[t] = tick.events[t]
  BY SettleFields
<1>3. BooksAgree' /\ HwmCoversRealized' /\ Settlements'
  BY <1>1 DEF Accounts, BooksAgree, HwmCoversRealized, Settlements, Books, RefsOnce, committed
<1>4. TickRests'
  BY <1>1, <1>2 DEF Accounts, TickRests, committed
<1>5. TickSettles'
  <2>1. \A q \in tick'.due : position'[q].status = "open"
    BY <1>1, <1>2 DEF Accounts, TickSettles, committed
  <2>2. ASSUME NEW t \in Strategies
        PROVE  IF t \in tick'.locked THEN RowAhead(t)'
                                     ELSE tick'.events[t] = <<>>
    <3>1. CASE t = s
      BY <3>1, <1>2, SettleAhead
    <3>2. CASE t # s
      BY <3>2, <1>1, <1>2 DEF Accounts, TickSettles, RowAhead, committed
    <3> QED
      BY <3>1, <3>2
  <2>3. \A t \in Strategies : EventsOpen(t)'
    BY SettleOpen
  <2> QED
    BY <2>1, <2>2, <2>3, <1>2 DEF TickSettles
<1> QED
  BY <1>3, <1>4, <1>5 DEF Accounts

\* The events a resolution commits are of open positions, one each.
LEMMA SettledByOpen ==
  ASSUME Typed, Accounts, ResolutionCommit, NEW p \in Positions, SettledBy(p) # {}
  PROVE  \E s \in Strategies : \E i \in 1..Len(tick.events[s]) :
            /\ tick.events[s][i].ref = p
            /\ SettledBy(p) = {tick.events[s][i]}
            /\ position[p].status = "open" /\ position[p].owner = s
<1>1. \A s \in Strategies : EventsOpen(s)
  BY DEF ResolutionCommit, Accounts, TickSettles
<1>2. PICK e \in SettledBy(p) : TRUE
  OBVIOUS
<1>0. PICK s \in Strategies : \E i \in 1..Len(tick.events[s]) : e = tick.events[s][i]
  BY <1>2 DEF SettledBy
<1>3. PICK i \in 1..Len(tick.events[s]) : e = tick.events[s][i]
  BY <1>0
<1>4. e.ref = p
  BY <1>2 DEF SettledBy
<1>5. position[p].status = "open" /\ position[p].owner = s
  BY <1>1, <1>3, <1>4 DEF EventsOpen
<1>6. ASSUME NEW f \in SettledBy(p)
      PROVE  f = e
  <2>0. PICK t \in Strategies : \E j \in 1..Len(tick.events[t]) : f = tick.events[t][j]
    BY DEF SettledBy
  <2>1. PICK j \in 1..Len(tick.events[t]) : f = tick.events[t][j]
    BY <2>0
  <2>2. f.ref = p
    BY DEF SettledBy
  <2>3. t = s
    BY <1>1, <1>5, <2>1, <2>2 DEF EventsOpen
  <2>4. p # None
    BY TxAssumption
  <2>5. i = j
    BY <1>1, <1>3, <1>4, <2>1, <2>2, <2>3, <2>4 DEF EventsOpen, RefsOnce
  <2> QED
    BY <1>3, <2>1, <2>3, <2>5
<1>7. SettledBy(p) = {e}
  BY <1>2, <1>6
<1> QED
  BY <1>3, <1>4, <1>5, <1>7

\* The events of a journal and those added to it make up the longer one.
LEMMA ConcatJoins ==
  ASSUME NEW log \in Seq(CashEvent), NEW events \in Seq(CashEvent)
  PROVE  Joined(log, events, log \o events)
<1> DEFINE whole == log \o events
<1>1. /\ Len(whole) = Len(log) + Len(events)
      /\ \A i \in 1..Len(log) + Len(events) :
            whole[i] = IF i <= Len(log) THEN log[i] ELSE events[i - Len(log)]
  BY ConcatProperties
<1>2. Len(log) \in Nat /\ Len(events) \in Nat
  OBVIOUS
<1> DEFINE m == Len(log)
           n == Len(events)
<1>3. m \in Nat /\ n \in Nat /\ Len(whole) = m + n
      /\ \A i \in 1..m + n : whole[i] = IF i <= m THEN log[i] ELSE events[i - m]
  BY <1>1, <1>2
<1> HIDE DEF m, n, whole
<1>4. \A i \in 1..m : i \in 1..Len(whole) /\ whole[i] = log[i]
  BY <1>3
<1>5. \A i \in 1..n : m + i \in 1..Len(whole) /\ whole[m + i] = events[i]
  <2> SUFFICES ASSUME NEW i \in 1..n
               PROVE  m + i \in 1..Len(whole) /\ whole[m + i] = events[i]
    OBVIOUS
  <2>1. m + i \in 1..m + n /\ ~(m + i <= m) /\ (m + i) - m = i
    BY <1>3
  <2> QED
    BY <1>3, <2>1
<1>6. \A i \in 1..Len(whole) : i \in 1..m \/ \E j \in 1..n : i = m + j
  <2> SUFFICES ASSUME NEW i \in 1..Len(whole), i \notin 1..m
               PROVE  \E j \in 1..n : i = m + j
    OBVIOUS
  <2>1. i - m \in 1..n /\ i = m + (i - m)
    BY <1>3
  <2> QED
    BY <2>1
<1> QED
  BY <1>2, <1>3, <1>4, <1>5, <1>6 DEF m, n, whole, Joined

\* The journal a resolution commits.
LEMMA CommittedJournal ==
  ASSUME Typed, ResolutionCommit, NEW s \in Strategies
  PROVE  /\ cash'[s] = cash[s] \o tick.events[s]
         /\ Joined(cash[s], tick.events[s], cash'[s])
<1>1. cash[s] \in Seq(CashEvent) /\ tick.events[s] \in Seq(CashEvent)
  BY DEF Typed, TypeOK, Tick
<1>2. cash'[s] = cash[s] \o tick.events[s]
  BY DEF ResolutionCommit
<1>3. Joined(cash[s], tick.events[s], cash[s] \o tick.events[s])
  BY <1>1, ConcatJoins
<1> QED
  BY <1>2, <1>3

\* What a resolution commits to a row is the row it has locked.
LEMMA CommittedRow ==
  ASSUME Typed, ResolutionCommit, NEW s \in Strategies
  PROVE  /\ strategy'[s].bankroll = LockedRow(s).bankroll
         /\ strategy'[s].hwm = LockedRow(s).hwm
         /\ strategy'[s].initial = strategy[s].initial
<1>1. strategy[s] \in StrategyRow
  BY DEF Typed, TypeOK
<1>2. CASE s \in tick.locked
  BY <1>1, <1>2 DEF ResolutionCommit, LockedRow, StrategyRow
<1>3. CASE s \notin tick.locked
  BY <1>3 DEF ResolutionCommit, LockedRow
<1> QED
  BY <1>2, <1>3

\* The positions a resolution commits.
LEMMA CommittedPosition ==
  ASSUME Typed, Accounts, ResolutionCommit, NEW p \in Positions
  PROVE  /\ SettledBy(p) = {} => position'[p] = position[p]
         /\ SettledBy(p) # {} =>
               /\ position[p].status = "open" /\ position'[p].status = "resolved"
               /\ position'[p].owner = position[p].owner
               /\ \E s \in Strategies : \E i \in 1..Len(tick.events[s]) :
                     tick.events[s][i].ref = p
         /\ \A s \in Strategies : \A i \in 1..Len(tick.events[s]) :
               tick.events[s][i].ref = p =>
                  /\ SettledBy(p) # {}
                  /\ position[p].owner = s
                  /\ position'[p].realized = tick.events[s][i].amount
<1>1. position[p] \in PositionRow
  BY DEF Typed, TypeOK
<1>2. SettledBy(p) = {} => position'[p] = position[p]
  BY DEF ResolutionCommit
<1>3. ASSUME SettledBy(p) # {}
      PROVE  /\ position'[p].status = "resolved" /\ position'[p].owner = position[p].owner
             /\ position'[p].realized = (CHOOSE e \in SettledBy(p) : TRUE).amount
  BY <1>1, <1>3 DEF ResolutionCommit, PositionRow
<1>4. SettledBy(p) # {} => /\ position[p].status = "open"
                           /\ \E s \in Strategies : \E i \in 1..Len(tick.events[s]) :
                                 tick.events[s][i].ref = p
  BY SettledByOpen
<1>5. ASSUME NEW s \in Strategies, NEW i \in 1..Len(tick.events[s]), tick.events[s][i].ref = p
      PROVE  /\ SettledBy(p) # {} /\ position[p].owner = s
             /\ position'[p].realized = tick.events[s][i].amount
  <2>1. tick.events[s][i] \in SettledBy(p)
    BY <1>5 DEF SettledBy
  <2>2. SettledBy(p) = {tick.events[s][i]}
    BY <2>1, SettledByOpen
  <2>3. (CHOOSE e \in SettledBy(p) : TRUE) = tick.events[s][i]
    BY <2>2
  <2>4. position[p].owner = s
    BY <1>5 DEF ResolutionCommit, Accounts, TickSettles, EventsOpen
  <2> QED
    BY <2>1, <2>3, <2>4, <1>3
<1> QED
  BY <1>2, <1>3, <1>4, <1>5

\* A resolution commits its events, its rows and its positions together, so
\* every position it resolves has its one event and every mark covers them.
LEMMA ResolutionCommitStep ==
  ASSUME Typed, Accounts, ResolutionCommit
  PROVE  Accounts'
<1>1. tick.pc = "resolution" /\ tick' = IdleTick
  BY DEF ResolutionCommit
<1>2. BooksAgree'
  <2> SUFFICES ASSUME NEW s \in Strategies
               PROVE  Chained(cash'[s]) /\ strategy'[s].bankroll = LastBalance(cash'[s])
    BY DEF BooksAgree
  <2>1. Chained(cash'[s]) /\ LastBalance(cash'[s]) = LockedRow(s).bankroll
    BY <1>1, LockedRowAhead, CommittedJournal
  <2> QED
    BY <2>1, CommittedRow
<1>3. Settlements'
  <2>1. ASSUME NEW s \in Strategies
        PROVE  RefsOnce(cash'[s])
    <3> SUFFICES ASSUME NEW i \in 1..Len(cash'[s]), NEW j \in 1..Len(cash'[s]),
                        cash'[s][i].ref # None, cash'[s][i].ref = cash'[s][j].ref
                 PROVE  i = j
      BY DEF RefsOnce
    <3>1. RefsOnce(cash[s]) /\ RefsOnce(tick.events[s])
      BY <1>1 DEF Accounts, Settlements, TickSettles, EventsOpen
    <3>2. ASSUME NEW k \in 1..Len(cash[s]), NEW l \in 1..Len(tick.events[s]),
                 cash[s][k].ref # None
          PROVE  cash[s][k].ref # tick.events[s][l].ref
      <4>1. position[cash[s][k].ref].status = "resolved"
        BY <3>2 DEF Accounts, Settlements, Books
      <4>2. position[tick.events[s][l].ref].status = "open"
        BY <1>1 DEF Accounts, TickSettles, EventsOpen
      <4> QED
        BY <4>1, <4>2
    <3>3. CASE i \in 1..Len(cash[s]) /\ j \in 1..Len(cash[s])
      BY <3>1, <3>3, CommittedJournal DEF Joined, RefsOnce
    <3>4. ASSUME i \in 1..Len(cash[s]), NEW l \in 1..Len(tick.events[s]), j = Len(cash[s]) + l
          PROVE  FALSE
      <4>1. cash'[s][i] = cash[s][i] /\ cash'[s][j] = tick.events[s][l]
        BY <3>4, CommittedJournal DEF Joined
      <4> QED
        BY <4>1, <3>2, <3>4
    <3>5. ASSUME j \in 1..Len(cash[s]), NEW k \in 1..Len(tick.events[s]), i = Len(cash[s]) + k
          PROVE  FALSE
      <4>1. cash'[s][j] = cash[s][j] /\ cash'[s][i] = tick.events[s][k]
        BY <3>5, CommittedJournal DEF Joined
      <4> QED
        BY <4>1, <3>2, <3>5
    <3>6. ASSUME NEW k \in 1..Len(tick.events[s]), i = Len(cash[s]) + k,
                 NEW l \in 1..Len(tick.events[s]), j = Len(cash[s]) + l
          PROVE  i = j
      <4>1. cash'[s][i] = tick.events[s][k] /\ cash'[s][j] = tick.events[s][l]
        BY <3>6, CommittedJournal DEF Joined
      <4>2. k = l
        BY <4>1, <3>1 DEF RefsOnce
      <4> QED
        BY <4>2, <3>6
    <3> QED
      BY <3>3, <3>4, <3>5, <3>6, CommittedJournal DEF Joined
  <2>2. ASSUME NEW s \in Strategies, NEW i \in 1..Len(cash'[s]), cash'[s][i].ref # None
        PROVE  /\ position'[cash'[s][i].ref].status = "resolved"
               /\ position'[cash'[s][i].ref].owner = s
               /\ position'[cash'[s][i].ref].realized = cash'[s][i].amount
    <3>1. CASE i \in 1..Len(cash[s])
      <4>0. cash'[s][i] = cash[s][i]
        BY <3>1, CommittedJournal DEF Joined
      <4>1. cash'[s][i] = cash[s][i] /\ cash[s][i].ref \in Positions
        BY <3>1, <2>2, <4>0, EventsTyped
      <4>2. Books(s, cash[s][i])
        BY <3>1, <4>1, <2>2 DEF Accounts, Settlements
      <4>3. position'[cash[s][i].ref] = position[cash[s][i].ref]
        BY <4>1, <4>2, CommittedPosition DEF Books
      <4> QED
        BY <4>1, <4>2, <4>3 DEF Books
    <3>2. ASSUME NEW j \in 1..Len(tick.events[s]), i = Len(cash[s]) + j
          PROVE  /\ position'[cash'[s][i].ref].status = "resolved"
                 /\ position'[cash'[s][i].ref].owner = s
                 /\ position'[cash'[s][i].ref].realized = cash'[s][i].amount
      <4>1. cash'[s][i] = tick.events[s][j]
        BY <3>2, CommittedJournal DEF Joined
      <4>2. tick.events[s][j].ref \in Positions
        BY <1>1 DEF Accounts, TickSettles, EventsOpen
      <4> QED
        BY <4>1, <4>2, CommittedPosition
    <3> QED
      BY <3>1, <3>2, CommittedJournal DEF Joined
  <2>3. ASSUME NEW p \in Positions, position'[p].status = "resolved"
        PROVE  \E s \in Strategies : \E i \in 1..Len(cash'[s]) : cash'[s][i].ref = p
    <3>1. CASE SettledBy(p) = {}
      <4>1. position[p].status = "resolved"
        BY <2>3, <3>1, CommittedPosition
      <4>0. PICK s \in Strategies : \E i \in 1..Len(cash[s]) : cash[s][i].ref = p
        BY <4>1 DEF Accounts, Settlements
      <4>2. PICK i \in 1..Len(cash[s]) : cash[s][i].ref = p
        BY <4>0
      <4> QED
        BY <4>2, CommittedJournal DEF Joined
    <3>2. CASE SettledBy(p) # {}
      <4>0. PICK s \in Strategies : \E i \in 1..Len(tick.events[s]) : tick.events[s][i].ref = p
        BY <3>2, CommittedPosition
      <4>1. PICK i \in 1..Len(tick.events[s]) : tick.events[s][i].ref = p
        BY <4>0
      <4>2. /\ Len(cash[s]) + i \in 1..Len(cash'[s])
            /\ cash'[s][Len(cash[s]) + i].ref = p
        BY <4>1, CommittedJournal DEF Joined
      <4> QED
        BY <4>2
    <3> QED
      BY <3>1, <3>2
  <2> QED
    BY <2>1, <2>2, <2>3 DEF Settlements, Books
<1>4. TickRests' /\ tick'.pc # "resolution"
  <2>1. \A p \in Positions : position[p].status # "pending"
    BY <1>1 DEF Accounts, TickRests
  <2>2. \A p \in Positions : position'[p].status # "pending"
    BY <2>1, CommittedPosition
  <2> QED
    BY <1>1, <2>2, IdleTickRests
<1>5. TickSettles'
  BY <1>4 DEF TickRests, TickSettles
<1>6. HwmCoversRealized'
  <2> SUFFICES ASSUME NEW s \in Strategies, NEW i \in 1..Len(cash'[s]), cash'[s][i].ref # None
               PROVE  cash'[s][i].balance <= strategy'[s].hwm
    BY DEF HwmCoversRealized
  <2>1. /\ LockedRow(s) \in StrategyRow /\ strategy[s].hwm <= LockedRow(s).hwm
        /\ \A j \in 1..Len(tick.events[s]) : tick.events[s][j].balance <= LockedRow(s).hwm
    BY <1>1, LockedRowAhead
  <2>2. strategy'[s].hwm = LockedRow(s).hwm
    BY CommittedRow
  <2>3. CASE i \in 1..Len(cash[s])
    <3>1. cash'[s][i] = cash[s][i]
      BY <2>3, CommittedJournal DEF Joined
    <3>2. cash[s][i].balance <= strategy[s].hwm
      BY <2>3, <3>1 DEF Accounts, HwmCoversRealized
    <3>3. cash[s][i].balance \in Int /\ strategy[s].hwm \in Int /\ LockedRow(s).hwm \in Int
      <4>1. cash[s][i] \in CashEvent /\ strategy[s] \in StrategyRow
        BY <2>3, EventsTyped DEF Typed, TypeOK
      <4> QED
        BY <4>1, <2>1 DEF CashEvent, StrategyRow
    <3> QED
      BY <3>1, <3>2, <3>3, <2>1, <2>2
  <2>4. ASSUME NEW j \in 1..Len(tick.events[s]), i = Len(cash[s]) + j
        PROVE  cash'[s][i].balance <= strategy'[s].hwm
    BY <2>1, <2>2, <2>4, CommittedJournal DEF Joined
  <2> QED
    BY <2>3, <2>4, CommittedJournal DEF Joined
<1> QED
  BY <1>2, <1>3, <1>4, <1>5, <1>6 DEF Accounts

-----------------------------------------------------------------------------
(* The inductive invariant. *)

\* The seeded database agrees: one deposit per strategy and nothing else.
LEMMA InitAccounts == Init => Accounts
<1> SUFFICES ASSUME Init PROVE Accounts
  OBVIOUS
<1> DEFINE opening == [amount |-> InitialDeposit, balance |-> InitialDeposit, ref |-> None]
<1>1. InitialDeposit \in Int
  BY TxAssumption
<1>2. \A s \in Strategies : cash[s] = <<opening>>
  BY DEF Init
<1>3. opening.amount = InitialDeposit /\ opening.balance = InitialDeposit /\ opening.ref = None
  OBVIOUS
<1> HIDE DEF opening
<1>4. Chained(<<opening>>) /\ LastBalance(<<opening>>) = InitialDeposit
  BY <1>1, <1>3, FirstEventChains
<1>5. \A i \in 1..Len(<<opening>>) : i = 1 /\ <<opening>>[i].ref = None
  BY <1>3
<1>6. BooksAgree
  BY <1>2, <1>4 DEF Init, BooksAgree
<1>7. \A p \in Positions : position[p].status = NoRow
  BY DEF Init, NoPosition
<1>8. Settlements
  BY <1>2, <1>5, <1>7 DEF Settlements, RefsOnce
<1>9. TickRests /\ TickSettles
  BY <1>7 DEF Init, IdleTick, TickRests, TickSettles
<1>10. HwmCoversRealized
  BY <1>2, <1>5 DEF HwmCoversRealized
<1> QED
  BY <1>6, <1>8, <1>9, <1>10 DEF Accounts

\* A resolution settles due positions, which are open and so have an owner.
LEMMA DueIsOwned ==
  ASSUME Typed, Accounts, NEW p \in Positions, p \in tick.due
  PROVE  position[p].owner \in Strategies
<1>1. position[p].status = "open"
  BY DEF Accounts, TickSettles
<1> QED
  BY <1>1 DEF Typed, PositionsOwned

\* The resolution tick keeps the invariant.
LEMMA ResolutionKeeps ==
  ASSUME IInv, ResolutionTick
  PROVE  IInv'
<1>1. CASE ResolutionBegin
  <2>1. tick' \in Tick
    <3>1. PICK due \in SUBSET OpenPositions :
             tick' = [tick EXCEPT !.pc = "resolution", !.due = due]
      BY <1>1 DEF ResolutionBegin
    <3> QED
      BY <3>1 DEF OpenPositions, IInv, Typed, TypeOK, Tick
  <2>2. Typed'
    BY <2>1, <1>1 DEF ResolutionBegin, committed, IInv, Typed, TypeOK, RequestsDispatched,
                      PositionsOwned
  <2> QED
    BY <2>2, <1>1, ResolutionBeginStep DEF IInv
<1>2. ASSUME NEW p \in Positions, NEW payout \in Payouts, Settle(p, payout)
      PROVE  IInv'
  <2>1. position[p].owner \in Strategies
    BY <1>2, DueIsOwned DEF IInv, Settle
  <2> QED
    BY <2>1, <1>2, SettleTyped, SettleStep DEF IInv
<1>3. CASE ResolutionCommit
  <2>1. \A p \in Positions : SettledBy(p) # {} => position[p].owner \in Strategies
    BY <1>3, SettledByOpen DEF IInv
  <2> QED
    BY <2>1, <1>3, ResolutionCommitTyped, ResolutionCommitStep DEF IInv
<1> QED
  BY <1>1, <1>2, <1>3 DEF ResolutionTick

\* A handler keeps the invariant.
LEMMA HandlerKeeps ==
  ASSUME IInv, NEW c \in Requests,
         \/ \E op \in Ops, s \in Strategies, amt \in Amounts \cup {0} : Dispatch(c, op, s, amt)
         \/ Handle(c)
         \/ Flush(c)
  PROVE  IInv'
<1>1. ASSUME NEW op \in Ops, NEW s \in Strategies, NEW amt \in Amounts \cup {0},
             Dispatch(c, op, s, amt)
      PROVE  IInv'
  BY <1>1, DispatchTyped, QuietStep DEF IInv, Dispatch, committed
<1>2. CASE Handle(c)
  <2>1. UNCHANGED <<strategy, cash, signalled, position, tick>>
    BY <1>2 DEF Handle, Gate, ReadRow, ReadFreeCash, FlipSystem, committed
  <2> QED
    BY <2>1, <1>2, HandleTyped, QuietStep DEF IInv
<1>3. CASE Flush(c)
  BY <1>3, FlushBankrollTyped, FlushLifecycleTyped, FlushBaselineTyped, FlushStep
     DEF IInv, Flush
<1> QED
  BY <1>1, <1>2, <1>3

\* So does every step.
LEMMA IInvNext == IInv /\ [Next]_vars => IInv'
<1> SUFFICES ASSUME IInv, [Next]_vars PROVE IInv'
  OBVIOUS
<1>1. ASSUME NEW c \in Requests,
             \/ \E op \in Ops, s \in Strategies, amt \in Amounts \cup {0} :
                   Dispatch(c, op, s, amt)
             \/ Handle(c)
             \/ Flush(c)
      PROVE  IInv'
  BY <1>1, HandlerKeeps
<1>2. CASE EngineTick
  BY <1>2, EngineTyped, EngineStep DEF IInv
<1>3. CASE ResolutionTick
  BY <1>3, ResolutionKeeps
<1>4. CASE Crash
  BY <1>4, CrashTyped, CrashStep DEF IInv
<1>5. CASE UNCHANGED vars
  <2>1. UNCHANGED <<strategy, cash, signalled, position, tick>>
    BY <1>5 DEF vars
  <2>2. Typed'
    BY <1>5 DEF vars, IInv, Typed, TypeOK, RequestsDispatched, PositionsOwned
  <2> QED
    BY <2>1, <2>2, QuietStep DEF IInv
<1> QED
  BY <1>1, <1>2, <1>3, <1>4, <1>5 DEF Next

\* The inductive invariant holds in every reachable state.
THEOREM TxInvariant == Spec => []IInv
<1>1. Init => IInv
  BY InitTyped, InitAccounts DEF IInv
<1>2. IInv /\ [Next]_vars => IInv'
  BY IInvNext
<1> QED
  BY <1>1, <1>2, PTL DEF Spec

-----------------------------------------------------------------------------
(* What follows from it. *)

\* Every variable keeps its type, whatever handlers and ticks do to one another.
THEOREM TxTypeOK == Spec => []TypeOK
<1>1. IInv => TypeOK
  BY DEF IInv, Typed
<1> QED
  BY <1>1, TxInvariant, PTL

\* check_bankroll_invariant never fails on committed data: in every reachable
\* state the bankroll of a strategy, the sum of its events and the last balance
\* of its chained journal agree.
THEOREM TxBooksAgree == Spec => []BooksAgree
<1>1. IInv => BooksAgree
  BY DEF IInv, Accounts
<1> QED
  BY <1>1, TxInvariant, PTL

\* The high-water mark covers every balance that a resolution left.
THEOREM TxHwmCoversRealized == Spec => []HwmCoversRealized
<1>1. IInv => HwmCoversRealized
  BY DEF IInv, Accounts
<1> QED
  BY <1>1, TxInvariant, PTL

\* A position is settled once, to its owner, for the amount its row records, and
\* only by a tick that committed.
THEOREM TxSettledOnce == Spec => []SettledOnce
<1>1. IInv => SettledOnce
  <2> SUFFICES ASSUME IInv, NEW p \in Positions
               PROVE  IF position[p].status = "resolved"
                      THEN \E e \in SettlementsOf(p) :
                              /\ SettlementsOf(p) = {e}
                              /\ e[1] = position[p].owner
                              /\ cash[e[1]][e[2]].amount = position[p].realized
                      ELSE SettlementsOf(p) = {}
    BY DEF SettledOnce
  <2>1. Settlements /\ p # None
    BY TxAssumption DEF IInv, Accounts
  <2>2. \A s \in Strategies : DOMAIN cash[s] = 1..Len(cash[s])
    BY DEF IInv, Typed, TypeOK
  <2>3. ASSUME NEW s \in Strategies, NEW i \in 1..Len(cash[s]), cash[s][i].ref = p
        PROVE  /\ position[p].status = "resolved" /\ position[p].owner = s
               /\ position[p].realized = cash[s][i].amount
    BY <2>1, <2>3 DEF Settlements, Books
  <2>4. ASSUME NEW e \in SettlementsOf(p)
        PROVE  \E s \in Strategies : \E i \in 1..Len(cash[s]) :
                  e = <<s, i>> /\ cash[s][i].ref = p
    BY <2>2 DEF SettlementsOf
  <2>5. CASE position[p].status # "resolved"
    <3>1. SettlementsOf(p) = {}
      BY <2>3, <2>4, <2>5
    <3> QED
      BY <2>5, <3>1
  <2>6. CASE position[p].status = "resolved"
    <3>1. PICK s \in Strategies : \E i \in 1..Len(cash[s]) : cash[s][i].ref = p
      BY <2>1, <2>6 DEF Settlements
    <3>2. PICK i \in 1..Len(cash[s]) : cash[s][i].ref = p
      BY <3>1
    <3>3. <<s, i>> \in SettlementsOf(p)
      BY <2>2, <3>2 DEF SettlementsOf
    <3>4. ASSUME NEW e \in SettlementsOf(p)
          PROVE  e = <<s, i>>
      <4>1. PICK t \in Strategies : \E j \in 1..Len(cash[t]) :
                e = <<t, j>> /\ cash[t][j].ref = p
        BY <2>4
      <4>2. PICK j \in 1..Len(cash[t]) : e = <<t, j>> /\ cash[t][j].ref = p
        BY <4>1
      <4>3. t = s
        BY <2>3, <3>2, <4>2
      <4>4. i = j
        BY <2>1, <3>2, <4>2, <4>3 DEF Settlements, RefsOnce
      <4> QED
        BY <4>2, <4>3, <4>4
    <3>5. SettlementsOf(p) = {<<s, i>>}
      BY <3>3, <3>4
    <3>6. position[p].owner = s /\ position[p].realized = cash[s][i].amount
      BY <2>3, <3>2
    <3>7. <<s, i>>[1] = s /\ <<s, i>>[2] = i
      OBVIOUS
    <3> QED
      BY <2>6, <3>3, <3>5, <3>6, <3>7
  <2> QED
    BY <2>5, <2>6
<1> QED
  BY <1>1, TxInvariant, PTL

\* No interleaving lets set_starting_bankroll through once the strategy has
\* signalled or traded, not even while the signal is uncommitted.
THEOREM TxBaselineFrozen == Spec => BaselineFrozenByTrading
<1>1. IInv /\ [Next]_vars =>
         \A s \in Strategies : s \in tick.shared \/ HasTradingActivity(s) =>
                                  strategy'[s].initial = strategy[s].initial
  <2> SUFFICES ASSUME IInv, [Next]_vars, NEW s \in Strategies,
                      s \in tick.shared \/ HasTradingActivity(s)
               PROVE  strategy'[s].initial = strategy[s].initial
    OBVIOUS
  <2>1. CASE \E c \in Requests : Flush(c)
    <3>1. PICK t \in Strategies : FlushOf(t)
      BY <2>1, FlushBooks DEF IInv, Accounts
    <3> QED
      BY <3>1 DEF FlushOf
  <2>2. CASE ResolutionCommit
    BY <2>2, CommittedRow DEF IInv
  <2>3. CASE UNCHANGED strategy
    BY <2>3
  <2> QED
    BY <2>1, <2>2, <2>3
       DEF Next, vars, committed, Dispatch, Handle, Gate, ReadRow, ReadFreeCash, FlipSystem,
           EngineTick, TickBegin, RecordRejection, PlaceOrder, EngineFails, EngineCommit,
           ResolutionTick, ResolutionBegin, Settle, Crash
<1> QED
  BY <1>1, TxInvariant, PTL DEF Spec, BaselineFrozenByTrading

\* A journal with events added to it extends it.
LEMMA JoinedExtends ==
  ASSUME NEW log, NEW events, NEW whole, Joined(log, events, whole)
  PROVE  IsExtension(log, whole)
<1>1. /\ Len(log) \in Nat /\ Len(events) \in Nat /\ Len(whole) = Len(log) + Len(events)
      /\ \A i \in 1..Len(log) : whole[i] = log[i]
  BY DEF Joined
<1>2. Len(log) <= Len(whole)
  BY <1>1
<1> QED
  BY <1>1, <1>2 DEF IsExtension

\* Every step only appends to the journals.
LEMMA StepExtends ==
  ASSUME IInv, [Next]_vars, NEW s \in Strategies
  PROVE  IsExtension(cash[s], cash'[s])
<1>1. cash[s] \in Seq(CashEvent) /\ Len(cash[s]) \in Nat
  BY DEF IInv, Typed, TypeOK
<1>2. CASE cash'[s] = cash[s]
  BY <1>1, <1>2 DEF IsExtension
<1>3. CASE \E c \in Requests : Flush(c)
  <2>1. PICK t \in Strategies : FlushOf(t)
    BY <1>3, FlushBooks DEF IInv, Accounts
  <2>2. Plain(cash[s], cash'[s])
    BY <2>1 DEF FlushOf, Plain
  <2> QED
    BY <1>1, <1>2, <2>2, AppendExtends DEF Plain
<1>4. CASE ResolutionCommit
  <2>1. Joined(cash[s], tick.events[s], cash'[s])
    BY <1>4, CommittedJournal DEF IInv
  <2> QED
    BY <2>1, JoinedExtends
<1> QED
  BY <1>2, <1>3, <1>4
     DEF Next, vars, committed, Dispatch, Handle, Gate, ReadRow, ReadFreeCash, FlipSystem,
         EngineTick, TickBegin, RecordRejection, PlaceOrder, EngineFails, EngineCommit,
         ResolutionTick, ResolutionBegin, Settle, Crash

\* The interleaved transactions implement the journal of docs/PDD.md:412-413:
\* every step appends to the journals and leaves each bankroll their sum.
THEOREM TxImplementsCashJournal == Spec => ImplementsCashJournal
<1> DEFINE books == [s \in Strategies |-> [bankroll |-> strategy[s].bankroll, log |-> cash[s]]]
<1>1. \A s \in Strategies : books[s].bankroll = strategy[s].bankroll /\ books[s].log = cash[s]
  OBVIOUS
<1>0. \A log : /\ Journal!Chained(log) <=> Chained(log)
               /\ Journal!LastBalance(log) = LastBalance(log)
  BY DEF Journal!Chained, Chained, Journal!LastBalance, LastBalance
<1>2. IInv => \A s \in Strategies : Journal!Balanced(books[s])
  BY <1>0, <1>1 DEF IInv, Accounts, BooksAgree, Journal!Balanced
<1>3. Init => Journal!Init
  BY <1>2, InitTyped, InitAccounts DEF IInv, Journal!Init
<1>4. IInv /\ IInv' /\ [Next]_vars => Journal!Next
  <2> SUFFICES ASSUME IInv, IInv', [Next]_vars, NEW s \in Strategies
               PROVE  /\ Journal!IsExtension(cash[s], cash'[s])
                      /\ Journal!Balanced(books[s])'
    BY <1>1 DEF Journal!Next
  <2>1. Journal!IsExtension(cash[s], cash'[s])
    <3>1. \A c, d : IsExtension(c, d) <=> Journal!IsExtension(c, d)
      BY DEF IsExtension, Journal!IsExtension
    <3>2. IsExtension(cash[s], cash'[s])
      BY StepExtends
    <3> QED
      BY <3>1, <3>2
  <2>2. Journal!Balanced(books[s])'
    BY <1>0 DEF IInv, Accounts, BooksAgree, Journal!Balanced
  <2> QED
    BY <2>1, <2>2
<1> QED
  BY <1>3, <1>4, TxInvariant, PTL DEF ImplementsCashJournal, Journal!Spec, Spec

-----------------------------------------------------------------------------
(* What the SQL sums over positions return. *)

\* In every committed state the bankroll of a strategy is what
\* SUM(cash_event.amount_cents) returns for it, for journals of any length.
THEOREM TxBankrollIsSum == Spec => []BankrollIsSum
<1>1. IInv => BankrollIsSum
  BY SumIsBalance DEF BankrollIsSum, IInv, Typed, TypeOK, Accounts, BooksAgree
<1> QED
  BY <1>1, TxInvariant, PTL

\* Only finitely many positions have a row.
RowsFinite == IsFiniteSet({p \in Positions : position[p].status # NoRow})

\* What a running engine tick has placed fits the bankroll it read.
SizedWithinRow ==
    tick.pc = "engine" =>
        \A s \in Strategies :
            HeldBy(s, {"pending"}) # {} =>
                CostOf(s, {"open", "pending"}) <= tick.rows[s].bankroll

\* The open positions of s that the running resolution has not settled.
Unsettled(s) ==
    {p \in HeldBy(s, {"open"}) : \A i \in 1..Len(tick.events[s]) : tick.events[s][i].ref # p}

\* How far the row a resolution holds is ahead of the committed one.
Gain(s) == LockedRow(s).bankroll - strategy[s].bankroll

\* What a running resolution has lost is at most what its positions cost.
GainCovers ==
    tick.pc = "resolution" =>
        \A s \in Strategies :
            SumFunctionOnSet([p \in Positions |-> position[p].cost], Unsettled(s))
               <= CostOf(s, {"open"}) + Gain(s)

\* What the sums over positions need.
CostsKnown == RowsFinite /\ SizedWithinRow /\ GainCovers

\* What every row costs is a whole number of cents.
LEMMA CostsInt ==
  ASSUME Typed
  PROVE  \A p \in Positions : position[p].cost \in Int
  BY DEF Typed, TypeOK, PositionRow

\* The positions of a strategy that have some of these statuses are finitely many.
LEMMA HeldFinite ==
  ASSUME RowsFinite, NEW s, NEW statuses, NoRow \notin statuses
  PROVE  HeldBy(s, statuses) \in SUBSET Positions /\ IsFiniteSet(HeldBy(s, statuses))
<1>1. HeldBy(s, statuses) \subseteq {p \in Positions : position[p].status # NoRow}
  BY DEF HeldBy
<1>2. HeldBy(s, statuses) \in SUBSET Positions
  BY DEF HeldBy
<1> QED
  BY <1>1, <1>2, FS_Subset DEF RowsFinite

\* A step that neither opens nor closes a position leaves the open cost alone.
LEMMA OpenCostKept ==
  ASSUME Typed, RowsFinite, NEW s \in Strategies,
         \A p \in Positions : \/ position'[p] = position[p]
                              \/ position[p].status # "open" /\ position'[p].status # "open"
  PROVE  CostOf(s, {"open"})' = CostOf(s, {"open"})
<1> DEFINE before == [p \in Positions |-> position[p].cost]
           after == [p \in Positions |-> position'[p].cost]
           H == {p \in Positions : position[p].owner = s /\ position[p].status = "open"}
<1>1. HeldBy(s, {"open"}) = H
  BY DEF HeldBy
<1>2. HeldBy(s, {"open"})' = H
  BY DEF HeldBy
<1>3. IsFiniteSet(H)
  <2>1. NoRow \notin {"open"}
    OBVIOUS
  <2>2. IsFiniteSet(HeldBy(s, {"open"}))
    BY <2>1, HeldFinite
  <2> QED
    BY <1>1, <2>2
<1>4. \A p \in H : before[p] \in Int /\ before[p] = after[p]
  BY CostsInt
<1>5. CostOf(s, {"open"}) = SumFunctionOnSet(before, H)
  BY <1>1 DEF CostOf
<1>6. CostOf(s, {"open"})' = SumFunctionOnSet(after, H)
  BY <1>2 DEF CostOf
<1> HIDE DEF before, after, H
<1>7. SumFunctionOnSet(before, H) = SumFunctionOnSet(after, H)
  BY <1>3, <1>4, SumSame
<1> QED
  BY <1>5, <1>6, <1>7

\* So is what the positions of a strategy cost together.
LEMMA OpenCostInt ==
  ASSUME Typed, RowsFinite, NEW s \in Strategies, NEW statuses, NoRow \notin statuses
  PROVE  CostOf(s, statuses) \in Int
<1> DEFINE before == [p \in Positions |-> position[p].cost]
           H == HeldBy(s, statuses)
<1>1. H \in SUBSET Positions /\ IsFiniteSet(H)
  BY HeldFinite
<1>2. \A p \in H : before[p] \in Int
  BY <1>1, CostsInt
<1> HIDE DEF before, H
<1>3. SumFunctionOnSet(before, H) \in Int
  BY <1>1, <1>2, SumInt
<1> QED
  BY <1>3 DEF CostOf, before, H

-----------------------------------------------------------------------------
\* A strategy that the session has not locked is ahead of nothing.
LEMMA GainTyped ==
  ASSUME Typed, NEW s \in Strategies
  PROVE  /\ Gain(s) \in Int /\ strategy[s].bankroll \in Int /\ LockedRow(s).bankroll \in Int
         /\ s \notin tick.locked => Gain(s) = 0
<1>1. strategy[s] \in StrategyRow /\ tick.rows[s] \in StrategyRow
  BY DEF Typed, TypeOK, Tick
<1> QED
  BY <1>1 DEF Gain, LockedRow, StrategyRow

\* A handler's commit moves no row that a resolution is ahead of.
LEMMA FlushGain ==
  ASSUME Typed, Typed', Accounts, NEW c \in Requests, Flush(c), NEW t \in Strategies
  PROVE  Gain(t)' = Gain(t)
<1>1. PICK s \in Strategies : FlushOf(s)
  BY FlushBooks DEF Accounts
<1>2. CASE t = s
  <2>1. t \notin tick.locked /\ t \notin tick'.locked
    BY <1>1, <1>2 DEF FlushOf
  <2>2. /\ Gain(t) = strategy[t].bankroll - strategy[t].bankroll
        /\ Gain(t)' = strategy'[t].bankroll - strategy'[t].bankroll
    BY <2>1 DEF Gain, LockedRow
  <2>3. strategy[t].bankroll \in Int /\ strategy'[t].bankroll \in Int
    BY DEF Typed, TypeOK, StrategyRow
  <2> QED
    BY <2>2, <2>3
<1>3. CASE t # s
  BY <1>1, <1>3 DEF FlushOf, Gain, LockedRow
<1> QED
  BY <1>2, <1>3

\* A settlement moves the row it locks by the profit or loss of the position.
LEMMA SettleGain ==
  ASSUME Typed, NEW p \in Positions, NEW payout \in Payouts, Settle(p, payout),
         position[p].owner \in Strategies
  PROVE  /\ Gain(position[p].owner)' = Gain(position[p].owner) + (payout - position[p].cost)
         /\ \A t \in Strategies \ {position[p].owner} : Gain(t)' = Gain(t)
<1> DEFINE s == position[p].owner
           realized == payout - position[p].cost
<1>1. /\ realized \in Int /\ tick'.locked = tick.locked \cup {s}
      /\ tick'.rows[s].bankroll = LockedRow(s).bankroll + realized
      /\ \A t \in Strategies \ {s} : tick'.rows[t] = tick.rows[t]
  BY SettleFields
<1>2. UNCHANGED strategy
  BY DEF Settle, committed
<1>3. LockedRow(s).bankroll \in Int /\ strategy[s].bankroll \in Int
  BY GainTyped
<1> HIDE DEF s, realized
<1>4. LockedRow(s)'.bankroll = LockedRow(s).bankroll + realized
  <2>1. s \in tick'.locked /\ s' = s
    BY <1>1 DEF s, Settle, committed
  <2> QED
    BY <2>1, <1>1 DEF LockedRow
<1>5. Gain(s)' = Gain(s) + realized
  <2>1. s' = s
    BY DEF s, Settle, committed
  <2> QED
    BY <1>1, <1>2, <1>3, <1>4, <2>1 DEF Gain
<1>6. \A t \in Strategies \ {s} : Gain(t)' = Gain(t)
  BY <1>1, <1>2 DEF Gain, LockedRow
<1> QED
  BY <1>5, <1>6 DEF s, realized

\* A step that writes neither positions nor what the session holds.
LEMMA CostsStay ==
  ASSUME CostsKnown, UNCHANGED position,
         tick'.pc = tick.pc, tick'.rows = tick.rows, tick'.events = tick.events,
         tick.pc = "resolution" => \A s \in Strategies : Gain(s)' = Gain(s)
  PROVE  CostsKnown'
<1>1. RowsFinite'
  BY DEF CostsKnown, RowsFinite
<1>2. SizedWithinRow'
  BY DEF CostsKnown, SizedWithinRow, HeldBy, CostOf
<1>3. GainCovers'
  BY DEF CostsKnown, GainCovers, HeldBy, CostOf, Unsettled
<1> QED
  BY <1>1, <1>2, <1>3 DEF CostsKnown

\* A step after which no tick runs and that adds no row.
LEMMA CostsRest ==
  ASSUME CostsKnown, tick'.pc \notin {"engine", "resolution"},
         \A p \in Positions : position'[p].status # NoRow => position[p].status # NoRow
  PROVE  CostsKnown'
<1> DEFINE before == {p \in Positions : position[p].status # NoRow}
           after == {p \in Positions : position'[p].status # NoRow}
<1>1. after \subseteq before
  OBVIOUS
<1>2. IsFiniteSet(before)
  BY DEF CostsKnown, RowsFinite
<1> HIDE DEF before, after
<1>3. IsFiniteSet(after)
  BY <1>1, <1>2, FS_Subset
<1> QED
  BY <1>3 DEF after, CostsKnown, RowsFinite, SizedWithinRow, GainCovers

\* An order fits the free cash of the row the tick read.
LEMMA PlaceOrderCosts ==
  ASSUME IInv, CostsKnown, NEW s \in Strategies, NEW p \in Positions, NEW cost \in Costs,
         PlaceOrder(s, p, cost)
  PROVE  CostsKnown'
<1> DEFINE before == [q \in Positions |-> position[q].cost]
           after == [q \in Positions |-> position'[q].cost]
           both == {"open", "pending"}
           Held(t) == {q \in Positions : position[q].owner = t /\ position[q].status \in both}
<1>1. /\ position[p].status = NoRow /\ tick.pc = "engine"
      /\ cost \in Nat /\ cost > 0
      /\ cost <= FreeCash(tick.rows[s].bankroll, CostOf(s, both))
      /\ position' = [position EXCEPT ![p] = [status |-> "pending", owner |-> s,
                                              cost |-> cost, realized |-> 0]]
      /\ tick' = [tick EXCEPT !.shared = @ \cup {s}, !.locked = @ \cup {s}]
  BY TxAssumption DEF PlaceOrder, Emits, ReservedInTick
<1>2. /\ tick'.pc = "engine" /\ tick'.rows = tick.rows
      /\ \A t \in Strategies : tick.rows[t].bankroll \in Int
  BY <1>1 DEF IInv, Typed, TypeOK, Tick, StrategyRow
<1>3. /\ position'[p].status = "pending" /\ position'[p].owner = s /\ position'[p].cost = cost
      /\ \A q \in Positions \ {p} : position'[q] = position[q]
  BY <1>1 DEF IInv, Typed, TypeOK
<1>4. \A q \in Positions : before[q] \in Int
  BY CostsInt DEF IInv
<1>5. after[p] = cost /\ \A q \in Positions \ {p} : after[q] = before[q]
  BY <1>3
<1>6. \A q \in Positions : after[q] \in Int
  BY <1>1, <1>4, <1>5
<1>7. ASSUME NEW t \in Strategies
      PROVE  /\ IsFiniteSet(Held(t)) /\ Held(t) \in SUBSET Positions /\ p \notin Held(t)
             /\ HeldBy(t, both) = Held(t)
             /\ CostOf(t, both) = SumFunctionOnSet(before, Held(t))
             /\ CostOf(t, both) \in Int
  <2>0. NoRow \notin both
    OBVIOUS
  <2>1. HeldBy(t, both) = Held(t)
    BY DEF HeldBy
  <2>2. IsFiniteSet(Held(t))
    BY <2>0, <2>1, HeldFinite DEF CostsKnown
  <2>3. CostOf(t, both) = SumFunctionOnSet(before, Held(t))
    BY <2>1 DEF CostOf
  <2>4. p \notin Held(t)
    BY <1>1, <2>0
  <2>5. CostOf(t, both) \in Int
    BY <2>0, OpenCostInt DEF CostsKnown, IInv
  <2> QED
    BY <2>1, <2>2, <2>3, <2>4, <2>5
<1>8. ASSUME NEW t \in Strategies
      PROVE  SumFunctionOnSet(after, Held(t)) = CostOf(t, both)
  <2> DEFINE H == Held(t)
  <2>1. IsFiniteSet(H) /\ \A q \in H : before[q] \in Int /\ before[q] = after[q]
    BY <1>4, <1>5, <1>7
  <2> HIDE DEF H, before, after
  <2>2. SumFunctionOnSet(before, H) = SumFunctionOnSet(after, H)
    BY <2>1, SumSame
  <2> QED
    BY <1>7, <2>2 DEF H
<1>9. RowsFinite'
  <2> DEFINE Rows == {q \in Positions : position[q].status # NoRow}
  <2>0. \A q \in Positions :
           position'[q].status # NoRow <=> position[q].status # NoRow \/ q = p
    BY <1>3
  <2>1. {q \in Positions : position'[q].status # NoRow} = Rows \cup {p}
    BY <2>0
  <2>2. IsFiniteSet(Rows)
    BY DEF CostsKnown, RowsFinite
  <2> HIDE DEF Rows
  <2>3. IsFiniteSet(Rows \cup {p})
    BY <2>2, FS_AddElement
  <2> QED
    BY <2>1, <2>3 DEF RowsFinite
<1>10. CostOf(s, both)' <= tick'.rows[s].bankroll
  <2> DEFINE H == Held(s)
  <2>1. HeldBy(s, both)' = H \cup {p}
    BY <1>1, <1>3 DEF HeldBy
  <2>2. CostOf(s, both)' = SumFunctionOnSet(after, H \cup {p})
    BY <2>1 DEF CostOf
  <2>3. IsFiniteSet(H) /\ p \notin H /\ \A q \in H \cup {p} : after[q] \in Int
    BY <1>6, <1>7
  <2>4. SumFunctionOnSet(after, H) = CostOf(s, both)
    BY <1>8
  <2> HIDE DEF H, after
  <2>5. SumFunctionOnSet(after, H \cup {p}) = after[p] + SumFunctionOnSet(after, H)
    BY <2>3, SumInsert
  <2>6. CostOf(s, both)' = cost + CostOf(s, both)
    BY <1>5, <2>2, <2>4, <2>5
  <2>7. CostOf(s, both) \in Int
    BY <1>7
  <2> HIDE DEF both
  <2>8. cost + CostOf(s, both) <= tick.rows[s].bankroll
    BY <1>1, <1>2, <2>7 DEF FreeCash
  <2> QED
    BY <1>2, <2>6, <2>8
<1>11. ASSUME NEW t \in Strategies \ {s}, HeldBy(t, {"pending"})' # {}
       PROVE  CostOf(t, both)' <= tick'.rows[t].bankroll
  <2>0. \A q \in Positions :
           /\ position'[q].owner = t <=> (position[q].owner = t /\ q # p)
           /\ q # p => position'[q].status = position[q].status
    BY <1>3
  <2>1. HeldBy(t, {"pending"})' = HeldBy(t, {"pending"})
    BY <1>1, <2>0 DEF HeldBy
  <2>2. HeldBy(t, both)' = Held(t)
    BY <1>1, <2>0 DEF HeldBy
  <2>3. CostOf(t, both)' = SumFunctionOnSet(after, Held(t))
    BY <2>2 DEF CostOf
  <2>4. CostOf(t, both)' = CostOf(t, both)
    BY <1>8, <2>3
  <2>5. CostOf(t, both) <= tick.rows[t].bankroll
    BY <1>1, <1>11, <2>1 DEF CostsKnown, SizedWithinRow
  <2> QED
    BY <1>2, <2>4, <2>5
<1>12. SizedWithinRow'
  BY <1>10, <1>11 DEF SizedWithinRow
<1>13. GainCovers'
  BY <1>2 DEF GainCovers
<1> QED
  BY <1>9, <1>12, <1>13 DEF CostsKnown

\* A tick starts without pending positions.
LEMMA TickBeginCosts ==
  ASSUME IInv, CostsKnown, TickBegin
  PROVE  CostsKnown'
<1>1. tick.pc = "idle" /\ UNCHANGED committed /\ tick'.pc = "engine"
  BY DEF TickBegin, IdleTick
<1>2. \A s \in Strategies : HeldBy(s, {"pending"})' = {}
  BY <1>1 DEF HeldBy, committed, IInv, Accounts, TickRests
<1>3. SizedWithinRow'
  BY <1>2 DEF SizedWithinRow
<1>4. GainCovers' /\ RowsFinite'
  BY <1>1 DEF GainCovers, CostsKnown, RowsFinite, committed
<1> QED
  BY <1>3, <1>4 DEF CostsKnown

\* A resolution starts with nothing settled.
LEMMA ResolutionBeginCosts ==
  ASSUME IInv, CostsKnown, ResolutionBegin
  PROVE  CostsKnown'
<1>1. PICK due \in SUBSET OpenPositions : tick' = [tick EXCEPT !.pc = "resolution", !.due = due]
  BY DEF ResolutionBegin
<1>2. tick \in Tick /\ tick.pc = "between" /\ UNCHANGED committed
  BY DEF ResolutionBegin, IInv, Typed, TypeOK
<1>3. tick.locked = {} /\ \A s \in Strategies : tick.events[s] = <<>>
  BY <1>2 DEF IInv, Accounts, TickRests
<1>4. tick'.pc = "resolution" /\ tick'.events = tick.events /\ tick'.locked = tick.locked
  BY <1>1, <1>2 DEF Tick
<1>5. ASSUME NEW s \in Strategies
      PROVE  SumFunctionOnSet([p \in Positions |-> position[p].cost], Unsettled(s))'
                <= CostOf(s, {"open"})' + Gain(s)'
  <2>1. Unsettled(s)' = HeldBy(s, {"open"})
    BY <1>2, <1>3, <1>4 DEF Unsettled, HeldBy, committed
  <2>2. CostOf(s, {"open"})' = CostOf(s, {"open"})
    BY <1>2 DEF CostOf, HeldBy, committed
  <2>3. SumFunctionOnSet([p \in Positions |-> position[p].cost], Unsettled(s))'
           = CostOf(s, {"open"})
    BY <1>2, <2>1 DEF CostOf, committed
  <2>4. CostOf(s, {"open"}) \in Int
    <3>1. NoRow \notin {"open"}
      OBVIOUS
    <3> QED
      BY <3>1, OpenCostInt DEF IInv, CostsKnown
  <2>5. Gain(s)' = 0
    <3>1. Gain(s)' = strategy[s].bankroll - strategy[s].bankroll
      BY <1>2, <1>3, <1>4 DEF Gain, LockedRow, committed
    <3> QED
      BY <3>1, GainTyped DEF IInv
  <2> QED
    BY <2>2, <2>3, <2>4, <2>5
<1>6. GainCovers'
  BY <1>5 DEF GainCovers
<1>7. SizedWithinRow' /\ RowsFinite'
  BY <1>2, <1>4 DEF SizedWithinRow, CostsKnown, RowsFinite, committed
<1> QED
  BY <1>6, <1>7 DEF CostsKnown

\* A settlement loses at most what the settled position cost.
LEMMA SettleCosts ==
  ASSUME IInv, CostsKnown, NEW p \in Positions, NEW payout \in Payouts, Settle(p, payout)
  PROVE  CostsKnown'
<1>1. /\ p \in tick.due /\ tick.pc = "resolution" /\ UNCHANGED committed
      /\ position[p].status = "open" /\ payout \in Nat
  BY TxAssumption DEF Settle, IInv, Accounts, TickSettles
<1>2. PICK s \in Strategies : s = position[p].owner
  BY <1>1, DueIsOwned DEF IInv
<1> DEFINE cost == [q \in Positions |-> position[q].cost]
           event == [amount |-> payout - position[p].cost,
                     balance |-> LockedRow(s).bankroll + (payout - position[p].cost),
                     ref |-> p]
           Left(t) == {q \in Positions :
                          /\ position[q].owner = t /\ position[q].status = "open"
                          /\ \A i \in 1..Len(tick.events[t]) : tick.events[t][i].ref # q}
<1>3. /\ tick'.pc = "resolution" /\ event \in CashEvent /\ event.ref = p
      /\ tick'.events[s] = Append(tick.events[s], event)
      /\ \A t \in Strategies \ {s} : tick'.events[t] = tick.events[t]
  BY <1>2, SettleFields DEF IInv
<1>13. /\ Gain(s)' = Gain(s) + (payout - position[p].cost)
       /\ \A t \in Strategies \ {s} : Gain(t)' = Gain(t)
  BY <1>1, <1>2, SettleGain, Zenon DEF IInv, committed
<1> HIDE DEF event
<1>4. \A t \in Strategies : Gain(t) \in Int /\ tick.events[t] \in Seq(CashEvent)
  BY GainTyped DEF IInv, Typed, TypeOK, Tick
<1>5. \A q \in Positions : cost[q] \in Int
  BY CostsInt DEF IInv
<1>6. ASSUME NEW t \in Strategies
      PROVE  /\ Unsettled(t) = Left(t) /\ CostOf(t, {"open"})' = CostOf(t, {"open"})
             /\ CostOf(t, {"open"}) \in Int /\ IsFiniteSet(Left(t))
             /\ SumFunctionOnSet(cost, Left(t)) <= CostOf(t, {"open"}) + Gain(t)
  <2>1. Unsettled(t) = Left(t)
    BY DEF Unsettled, HeldBy
  <2>2. CostOf(t, {"open"})' = CostOf(t, {"open"})
    BY <1>1 DEF CostOf, HeldBy, committed
  <2>3. NoRow \notin {"open"}
    OBVIOUS
  <2>4. CostOf(t, {"open"}) \in Int /\ IsFiniteSet(HeldBy(t, {"open"}))
    BY <2>3, OpenCostInt, HeldFinite DEF IInv, CostsKnown
  <2>5. Unsettled(t) \subseteq HeldBy(t, {"open"})
    BY DEF Unsettled
  <2>6. IsFiniteSet(Left(t))
    BY <2>1, <2>4, <2>5, FS_Subset
  <2>7. SumFunctionOnSet(cost, Left(t)) <= CostOf(t, {"open"}) + Gain(t)
    BY <1>1, <2>1 DEF CostsKnown, GainCovers
  <2> QED
    BY <2>1, <2>2, <2>4, <2>6, <2>7
<1>7. p \in Left(s)
  BY <1>1, <1>2 DEF IInv, Accounts, TickSettles, EventsOpen
<1>8. Unsettled(s)' = Left(s) \ {p}
  <2>1. \A i \in 1..Len(tick.events[s]) : tick'.events[s][i] = tick.events[s][i]
    BY <1>3, <1>4
  <2>2. /\ Len(tick'.events[s]) = Len(tick.events[s]) + 1
        /\ tick'.events[s][Len(tick.events[s]) + 1] = event
        /\ Len(tick.events[s]) \in Nat
    BY <1>3, <1>4
  <2>3. 1..Len(tick'.events[s]) = 1..Len(tick.events[s]) \cup {Len(tick.events[s]) + 1}
    BY <2>2
  <2>4. \A q \in Positions :
           (\A i \in 1..Len(tick'.events[s]) : tick'.events[s][i].ref # q)
              <=> (\A i \in 1..Len(tick.events[s]) : tick.events[s][i].ref # q) /\ q # p
    BY <1>3, <2>1, <2>2, <2>3
  <2> QED
    BY <1>1, <2>4 DEF Unsettled, HeldBy, committed
<1>9. SumFunctionOnSet(cost, Left(s) \ {p}) <= CostOf(s, {"open"}) + Gain(s)'
  <2> DEFINE L == Left(s)
             R == L \ {p}
  <2>1. IsFiniteSet(L) /\ p \in L /\ \A q \in L : cost[q] \in Int
    BY <1>5, <1>6, <1>7
  <2>2. cost[p] = position[p].cost /\ cost[p] \in Int
    BY <1>5
  <2>3. SumFunctionOnSet(cost, L) <= CostOf(s, {"open"}) + Gain(s)
    BY <1>6
  <2> HIDE DEF cost, L
  <2>4. SumFunctionOnSet(cost, L) = cost[p] + SumFunctionOnSet(cost, L \ {p})
    BY <2>1, SumAdd
  <2>5. SumFunctionOnSet(cost, R) \in Int
    <3>1. IsFiniteSet(R) /\ \A q \in R : cost[q] \in Int
      BY <2>1, FS_RemoveElement
    <3> HIDE DEF R
    <3> QED
      BY <3>1, SumInt
  <2>6. Gain(s) \in Int /\ CostOf(s, {"open"}) \in Int
    BY <1>4, <1>6
  <2>7. SumFunctionOnSet(cost, R) <= CostOf(s, {"open"}) + Gain(s)'
    BY <1>1, <1>13, <2>2, <2>3, <2>4, <2>5, <2>6
  <2> QED
    BY <2>7 DEF L
<1>10. ASSUME NEW t \in Strategies
       PROVE  SumFunctionOnSet([q \in Positions |-> position[q].cost], Unsettled(t))'
                 <= CostOf(t, {"open"})' + Gain(t)'
  <2>1. position' = position
    BY <1>1 DEF committed
  <2>2. CASE t = s
    BY <1>6, <1>8, <1>9, <2>1, <2>2
  <2>3. CASE t # s
    <3>1. tick'.events[t] = tick.events[t] /\ Gain(t)' = Gain(t)
      BY <1>3, <1>13, <2>3
    <3>2. Unsettled(t)' = Left(t)
      BY <2>1, <3>1 DEF Unsettled, HeldBy
    <3> QED
      BY <1>6, <2>1, <3>1, <3>2
  <2> QED
    BY <2>2, <2>3
<1>11. GainCovers'
  BY <1>10 DEF GainCovers
<1>12. SizedWithinRow' /\ RowsFinite'
  BY <1>1, <1>3 DEF SizedWithinRow, CostsKnown, RowsFinite, committed
<1> QED
  BY <1>11, <1>12 DEF CostsKnown

\* Every step keeps what the costs add up to.
LEMMA CostsNext ==
  ASSUME IInv, CostsKnown, [Next]_vars
  PROVE  CostsKnown'
<1>1. CASE UNCHANGED <<strategy, position, tick>>
  <2>1. \A s \in Strategies : Gain(s)' = Gain(s)
    BY <1>1 DEF Gain, LockedRow
  <2> QED
    BY <1>1, <2>1, CostsStay
<1>10. ASSUME NEW c \in Requests, Flush(c)
       PROVE  CostsKnown'
  <2>1. UNCHANGED <<position, tick>>
    BY <1>10 DEF Flush, FlushBankroll, FlushLifecycle, FlushBaseline
  <2>2. \A s \in Strategies : Gain(s)' = Gain(s)
    BY <1>10, IInvNext, FlushGain DEF IInv
  <2> QED
    BY <2>1, <2>2, CostsStay
<1>2. CASE TickBegin
  BY <1>2, TickBeginCosts
<1>3. ASSUME NEW s \in Strategies, RecordRejection(s)
      PROVE  CostsKnown'
  <2>1. tick \in Tick /\ tick' = [tick EXCEPT !.shared = @ \cup {s}] /\ UNCHANGED position
    BY <1>3 DEF RecordRejection, committed, IInv, Typed, TypeOK
  <2>2. /\ tick'.pc = tick.pc /\ tick'.rows = tick.rows
        /\ tick'.events = tick.events /\ tick.pc = "engine"
    BY <1>3, <2>1 DEF Tick, RecordRejection, Emits
  <2> QED
    BY <2>1, <2>2, CostsStay
<1>4. ASSUME NEW s \in Strategies, NEW p \in Positions, NEW cost \in Costs,
             PlaceOrder(s, p, cost)
      PROVE  CostsKnown'
  BY <1>4, PlaceOrderCosts
<1>5. CASE EngineFails \/ Crash
  <2>1. tick' = IdleTick /\ position' = RolledBack
    BY <1>5 DEF EngineFails, Crash
  <2>2. tick'.pc = "idle"
    BY <2>1 DEF IdleTick
  <2>3. \A p \in Positions : position'[p].status # NoRow => position[p].status # NoRow
    BY <2>1 DEF RolledBack, NoPosition
  <2> QED
    BY <2>2, <2>3, CostsRest
<1>6. CASE EngineCommit
  <2>1. tick'.pc = "between"
    BY <1>6 DEF EngineCommit, IdleTick
  <2>2. \A p \in Positions : position'[p].status # NoRow => position[p].status # NoRow
    BY <1>6 DEF EngineCommit
  <2> QED
    BY <2>1, <2>2, CostsRest
<1>7. CASE ResolutionBegin
  BY <1>7, ResolutionBeginCosts
<1>8. ASSUME NEW p \in Positions, NEW payout \in Payouts, Settle(p, payout)
      PROVE  CostsKnown'
  BY <1>8, SettleCosts
<1>9. CASE ResolutionCommit
  <2>1. tick'.pc = "idle"
    BY <1>9 DEF ResolutionCommit, IdleTick
  <2>2. \A p \in Positions : position'[p].status # NoRow => position[p].status # NoRow
    BY <1>9, CommittedPosition DEF IInv
  <2> QED
    BY <2>1, <2>2, CostsRest
<1> QED
  BY <1>1, <1>2, <1>3, <1>4, <1>5, <1>6, <1>7, <1>8, <1>9, <1>10
     DEF Next, vars, committed, Dispatch, Handle, Gate, ReadRow, ReadFreeCash, FlipSystem,
         EngineTick, ResolutionTick

\* No position and no tick yet.
LEMMA InitCosts == Init => CostsKnown
<1> SUFFICES ASSUME Init PROVE CostsKnown
  OBVIOUS
<1>1. {p \in Positions : position[p].status # NoRow} = {}
  BY DEF Init, NoPosition
<1>2. tick.pc = "idle"
  BY DEF Init, IdleTick
<1> QED
  BY <1>1, <1>2, FS_EmptySet DEF CostsKnown, RowsFinite, SizedWithinRow, GainCovers

\* In every reachable state the costs add up to what is stated of them.
LEMMA CostsInvariant == Spec => [](IInv /\ CostsKnown)
<1>1. Init => IInv /\ CostsKnown
  BY InitTyped, InitAccounts, InitCosts DEF IInv
<1>2. (IInv /\ CostsKnown) /\ [Next]_vars => (IInv /\ CostsKnown)'
  BY IInvNext, CostsNext
<1> QED
  BY <1>1, <1>2, PTL DEF Spec

-----------------------------------------------------------------------------
(* What leaves a strategy overdrawn. *)

\* Where no position opens or closes, only a smaller bankroll does.
LEMMA OverdrawnByDebit ==
  ASSUME IInv, CostsKnown, NEW s \in Strategies, Covered(s), ~Covered(s)',
         \A p \in Positions : \/ position'[p] = position[p]
                              \/ position[p].status # "open" /\ position'[p].status # "open"
  PROVE  strategy'[s].bankroll # strategy[s].bankroll
           /\ (strategy'[s].bankroll \in Int => strategy'[s].bankroll < strategy[s].bankroll)
<1>1. CostOf(s, {"open"})' = CostOf(s, {"open"})
  BY OpenCostKept DEF IInv, CostsKnown
<1>2. CostOf(s, {"open"}) \in Int
  <2>1. NoRow \notin {"open"}
    OBVIOUS
  <2> QED
    BY <2>1, OpenCostInt DEF IInv, CostsKnown
<1>3. strategy[s].bankroll \in Int
  BY DEF IInv, Typed, TypeOK, StrategyRow
<1> QED
  BY <1>1, <1>2, <1>3 DEF Covered

\* A handler takes money off a strategy that has open positions only in a
\* withdrawal.
LEMMA FlushDebits ==
  ASSUME IInv, IInv', CostsKnown, NEW c \in Requests, Flush(c),
         NEW s \in Strategies, Covered(s), ~Covered(s)'
  PROVE  /\ request[c].op = "withdraw" /\ request[c].s = s
         /\ request[c].pc = "ready" /\ request'[c].pc = "idle"
<1>1. UNCHANGED position
  BY DEF Flush, FlushBankroll, FlushLifecycle, FlushBaseline
<1>2. /\ strategy[s].bankroll = LastBalance(cash[s]) /\ Chained(cash[s])
      /\ strategy'[s].bankroll = LastBalance(cash'[s]) /\ Chained(cash'[s])
      /\ strategy[s].bankroll \in Int /\ strategy'[s].bankroll \in Int
      /\ cash \in [Strategies -> Seq(CashEvent)] /\ strategy \in [Strategies -> StrategyRow]
      /\ request \in [Requests -> Request] /\ request[c] \in Request
  BY DEF IInv, Accounts, BooksAgree, Typed, TypeOK, StrategyRow
<1>3. strategy'[s].bankroll < strategy[s].bankroll
  BY <1>1, <1>2, OverdrawnByDebit
<1>4. CASE FlushBankroll(c)
  <2> DEFINE r == request[c]
             delta == IF r.op = "deposit" THEN r.amt ELSE -r.amt
             event == [amount |-> delta, balance |-> r.row.bankroll + delta, ref |-> None]
  <2>1. /\ r.pc = "ready" /\ r.op \in {"deposit", "withdraw"} /\ Finish(c)
        /\ \/ cash' = [cash EXCEPT ![r.s] = Append(@, event)]
           \/ cash' = cash
    BY <1>4 DEF FlushBankroll
  <2>2. request'[c].pc = "idle"
    BY <1>2, <2>1 DEF Finish, IdleRequest
  <2>3. r.amt \in Nat /\ r.s \in Strategies /\ r.row.bankroll \in Int
    BY <2>1, <1>2 DEF Request, StrategyRow, IInv, Typed, RequestsDispatched
  <2>4. event \in CashEvent /\ event.amount = delta
    BY <2>3, EventTyped
  <2>5. delta \in Int /\ (r.op = "deposit" => delta >= 0)
    BY <2>3
  <2> HIDE DEF event, delta, r
  <2>6. cash'[s] # cash[s]
    BY <1>2, <1>3
  <2>7. r.s = s /\ cash'[s] = Append(cash[s], event)
    BY <1>2, <2>1, <2>3, <2>6
  <2>8. LastBalance(cash'[s]) = LastBalance(cash[s]) + delta
    BY <1>2, <2>4, <2>7, AppendedBalance
  <2>9. r.op = "withdraw"
    BY <1>2, <1>3, <2>1, <2>5, <2>8
  <2> QED
    BY <2>1, <2>2, <2>7, <2>9 DEF r
<1>5. CASE FlushLifecycle(c)
  BY <1>2, <1>3, <1>5 DEF FlushLifecycle
<1>6. CASE FlushBaseline(c)
  <2>1. /\ request[c].op = "set_starting_bankroll" /\ request[c].pc = "gated"
        /\ \/ strategy' = strategy
           \/ /\ strategy' = [strategy EXCEPT ![request[c].s].bankroll = request[c].amt,
                                              ![request[c].s].initial = request[c].amt,
                                              ![request[c].s].hwm = request[c].amt]
              /\ ~HasTradingActivity(request[c].s)
    BY <1>6 DEF FlushBaseline
  <2>2. request[c].amt \in Nat /\ request[c].s \in Strategies
    BY <2>1, <1>2 DEF Request, IInv, Typed, RequestsDispatched
  <2>3. strategy'[s] # strategy[s]
    BY <1>2, <1>3
  <2>4. /\ request[c].s = s /\ ~HasTradingActivity(s)
        /\ strategy'[s].bankroll = request[c].amt
    BY <1>2, <2>1, <2>2, <2>3 DEF StrategyRow
  <2>5. HeldBy(s, {"open"})' = {}
    BY <1>1, <2>4 DEF HasTradingActivity, HeldBy
  <2>6. CostOf(s, {"open"})' = 0
    BY <2>5, SumEmpty DEF CostOf
  <2> QED
    BY <2>2, <2>4, <2>6 DEF Covered
<1> QED
  BY <1>4, <1>5, <1>6 DEF Flush

\* The engine's orders fit the bankroll it read.
LEMMA EngineCommitCovers ==
  ASSUME IInv, CostsKnown, EngineCommit, NEW s \in Strategies, Covered(s), ~Covered(s)'
  PROVE  tick.rows[s].bankroll > strategy[s].bankroll
<1> DEFINE before == [p \in Positions |-> position[p].cost]
           after == [p \in Positions |-> position'[p].cost]
           both == {"open", "pending"}
           H == HeldBy(s, both)
<1>1. /\ tick.pc = "engine" /\ UNCHANGED strategy
      /\ position' = [p \in Positions |->
                         IF position[p].status = "pending"
                         THEN [position[p] EXCEPT !.status = "open"] ELSE position[p]]
  BY DEF EngineCommit
<1>2. \A p \in Positions :
         /\ position'[p].cost = position[p].cost /\ position'[p].owner = position[p].owner
         /\ position'[p].status = IF position[p].status = "pending" THEN "open"
                                                                    ELSE position[p].status
  BY <1>1 DEF IInv, Typed, TypeOK, PositionRow
<1>3. HeldBy(s, {"open"})' = H
  BY <1>2 DEF HeldBy
<1>4. NoRow \notin both
  OBVIOUS
<1>5. H \in SUBSET Positions /\ IsFiniteSet(H) /\ CostOf(s, both) \in Int
  BY <1>4, HeldFinite, OpenCostInt DEF IInv, CostsKnown
<1>6. CostOf(s, {"open"})' = CostOf(s, both)
  <2>1. \A p \in H : before[p] \in Int /\ before[p] = after[p]
    BY <1>2, <1>5, CostsInt DEF IInv
  <2>2. CostOf(s, {"open"})' = SumFunctionOnSet(after, H)
    BY <1>3 DEF CostOf
  <2>3. CostOf(s, both) = SumFunctionOnSet(before, H)
    BY DEF CostOf
  <2> HIDE DEF before, after, H
  <2> QED
    BY <1>5, <2>1, <2>2, <2>3, SumSame
<1>7. strategy[s].bankroll \in Int /\ tick.rows[s].bankroll \in Int
  BY DEF IInv, Typed, TypeOK, Tick, StrategyRow
<1>8. CASE HeldBy(s, {"pending"}) # {}
  <2>1. CostOf(s, both) <= tick.rows[s].bankroll
    BY <1>1, <1>8 DEF CostsKnown, SizedWithinRow
  <2> QED
    BY <1>1, <1>5, <1>6, <1>7, <2>1 DEF Covered
<1>9. CASE HeldBy(s, {"pending"}) = {}
  <2>1. H = HeldBy(s, {"open"})
    BY <1>9 DEF HeldBy
  <2>2. CostOf(s, both) = CostOf(s, {"open"})
    BY <2>1 DEF CostOf
  <2> QED
    BY <1>1, <1>6, <2>2 DEF Covered
<1> QED
  BY <1>8, <1>9

\* A resolution frees at least what it loses.
LEMMA ResolutionCovers ==
  ASSUME IInv, CostsKnown, ResolutionCommit, NEW s \in Strategies, Covered(s)
  PROVE  Covered(s)'
<1> DEFINE before == [p \in Positions |-> position[p].cost]
           after == [p \in Positions |-> position'[p].cost]
           U == Unsettled(s)
<1>1. tick.pc = "resolution" /\ Typed /\ Accounts
  BY DEF ResolutionCommit, IInv
<1>2. strategy'[s].bankroll = strategy[s].bankroll + Gain(s)
  BY <1>1, CommittedRow, GainTyped DEF Gain
<1>3. \A p \in Positions : position'[p].cost = position[p].cost
  BY <1>1 DEF ResolutionCommit, Typed, TypeOK, PositionRow
<1>4. ASSUME NEW p \in Positions
      PROVE  p \in HeldBy(s, {"open"})' <=> p \in U
  <2>1. /\ SettledBy(p) = {} => position'[p] = position[p]
        /\ SettledBy(p) # {} =>
              /\ position[p].status = "open" /\ position'[p].status = "resolved"
              /\ position'[p].owner = position[p].owner
              /\ \E t \in Strategies : \E i \in 1..Len(tick.events[t]) :
                    tick.events[t][i].ref = p
        /\ \A t \in Strategies : \A i \in 1..Len(tick.events[t]) :
              tick.events[t][i].ref = p => SettledBy(p) # {} /\ position[p].owner = t
    BY <1>1, CommittedPosition
  <2>2. CASE SettledBy(p) = {}
    BY <2>1, <2>2 DEF HeldBy, Unsettled
  <2>3. CASE SettledBy(p) # {}
    BY <2>1, <2>3 DEF HeldBy, Unsettled
  <2> QED
    BY <2>2, <2>3
<1>5. HeldBy(s, {"open"})' = U
  <2>1. HeldBy(s, {"open"})' \subseteq Positions /\ U \subseteq Positions
    BY DEF HeldBy, Unsettled
  <2> QED
    BY <1>4, <2>1
<1>6. NoRow \notin {"open"}
  OBVIOUS
<1>7. U \subseteq Positions /\ IsFiniteSet(U) /\ CostOf(s, {"open"}) \in Int
  <2>1. U \subseteq HeldBy(s, {"open"})
    BY DEF Unsettled
  <2> QED
    BY <1>1, <1>6, <2>1, HeldFinite, OpenCostInt, FS_Subset DEF CostsKnown
<1>8. \A p \in U : before[p] \in Int /\ before[p] = after[p]
  BY <1>1, <1>3, <1>7, CostsInt
<1>9. CostOf(s, {"open"})' = SumFunctionOnSet(after, U)
  BY <1>5 DEF CostOf
<1>10. SumFunctionOnSet(before, U) <= CostOf(s, {"open"}) + Gain(s)
  BY <1>1 DEF CostsKnown, GainCovers
<1>11. strategy[s].bankroll \in Int /\ Gain(s) \in Int
  BY <1>1, GainTyped
<1> HIDE DEF before, after, U
<1>12. SumFunctionOnSet(after, U) = SumFunctionOnSet(before, U)
       /\ SumFunctionOnSet(before, U) \in Int
  <2>1. \A p \in U : before[p] \in Int
    BY <1>8
  <2> QED
    BY <1>7, <1>8, <2>1, SumSame, SumInt
<1> QED
  BY <1>2, <1>7, <1>9, <1>10, <1>11, <1>12 DEF Covered

\* No other order of deposits, orders, resolutions, rejections and crashes lets
\* the open cost of a strategy outgrow its bankroll.
THEOREM TxOverdrawnOnlyByDebitRace == Spec => OverdrawnOnlyByDebitRace
<1>1. (IInv /\ CostsKnown) /\ (IInv /\ CostsKnown)' /\ [Next]_vars =>
         \A s \in Strategies :
            Covered(s) /\ ~Covered(s)' =>
               \/ tick.pc = "engine" /\ tick.rows[s].bankroll > strategy[s].bankroll
               \/ \E c \in Requests : /\ request[c].op = "withdraw" /\ request[c].s = s
                                      /\ request[c].pc = "ready" /\ request'[c].pc = "idle"
  <2> SUFFICES ASSUME IInv, CostsKnown, IInv', [Next]_vars, NEW s \in Strategies,
                      Covered(s), ~Covered(s)'
               PROVE  \/ tick.pc = "engine" /\ tick.rows[s].bankroll > strategy[s].bankroll
                      \/ \E c \in Requests : /\ request[c].op = "withdraw" /\ request[c].s = s
                                             /\ request[c].pc = "ready" /\ request'[c].pc = "idle"
    OBVIOUS
  <2>1. CASE \E c \in Requests : Flush(c)
    BY <2>1, FlushDebits
  <2>2. CASE EngineCommit
    BY <2>2, EngineCommitCovers DEF EngineCommit
  <2>3. CASE ResolutionCommit
    BY <2>3, ResolutionCovers
  <2>4. CASE UNCHANGED strategy /\ \A p \in Positions :
                \/ position'[p] = position[p]
                \/ position[p].status # "open" /\ position'[p].status # "open"
    BY <2>4, OverdrawnByDebit
  <2>5. ASSUME NEW t \in Strategies, NEW p \in Positions, NEW cost \in Costs,
               PlaceOrder(t, p, cost)
        PROVE  FALSE
    <3>1. /\ UNCHANGED strategy /\ position[p].status = NoRow
          /\ position' = [position EXCEPT ![p] = [status |-> "pending", owner |-> t,
                                                  cost |-> cost, realized |-> 0]]
      BY <2>5 DEF PlaceOrder
    <3>2. \A q \in Positions : \/ position'[q] = position[q]
                               \/ position[q].status # "open" /\ position'[q].status # "open"
      BY <3>1 DEF IInv, Typed, TypeOK
    <3> QED
      BY <3>1, <3>2, OverdrawnByDebit
  <2>6. CASE EngineFails \/ Crash
    <3>1. UNCHANGED strategy /\ position' = RolledBack
      BY <2>6 DEF EngineFails, Crash
    <3>2. \A q \in Positions : \/ position'[q] = position[q]
                               \/ position[q].status # "open" /\ position'[q].status # "open"
      BY <3>1 DEF RolledBack, NoPosition
    <3> QED
      BY <3>1, <3>2, OverdrawnByDebit
  <2> QED
    BY <2>1, <2>2, <2>3, <2>4, <2>5, <2>6
       DEF Next, vars, committed, Dispatch, Handle, Gate, ReadRow, ReadFreeCash, FlipSystem,
           EngineTick, TickBegin, RecordRejection, ResolutionTick, ResolutionBegin, Settle
<1> QED
  BY <1>1, CostsInvariant, PTL DEF Spec, OverdrawnOnlyByDebitRace
=============================================================================
