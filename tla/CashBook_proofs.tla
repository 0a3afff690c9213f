--------------------------- MODULE CashBook_proofs ---------------------------
(***************************************************************************)
(* What the cash book's rules imply for any set of strategies.  Ledger     *)
(* implements the cash book, so its committed data inherit these facts.    *)
(***************************************************************************)
EXTENDS CashBook, Sum_proofs

TypeOK == book \in [Strategies -> Book]

\* One book with a chained log and nothing reserved that it does not have.
Sound(b) ==
    /\ Chained(b.log)
    /\ b.bankroll = LastBalance(b.log)
    /\ b.reserved <= b.bankroll

IInv == TypeOK /\ \A s \in Strategies : Sound(book[s])

\* An empty book is a sound one.
LEMMA EmptyBookSound == EmptyBook \in Book /\ Sound(EmptyBook)
  BY EmptyJournal DEF EmptyBook, Book, Sound

\* An entry posted to a sound book's log leaves it chained, with the new
\* bankroll as its last balance.
LEMMA PostChains ==
  ASSUME NEW b \in Book, NEW c \in Book, Sound(b), Post(b, c)
  PROVE  Chained(c.log) /\ c.bankroll = LastBalance(c.log)
<1> DEFINE e == [amount |-> c.bankroll - b.bankroll, balance |-> c.bankroll]
<1>1. b.bankroll \in Int /\ c.bankroll \in Int /\ b.log \in Seq(Entry)
  BY DEF Book
<1>2. e \in Entry
  BY <1>1 DEF Entry
<1>3. e.balance = e.amount + LastBalance(b.log)
  BY <1>1 DEF Sound
<1>4. Chained(Append(b.log, e)) /\ LastBalance(Append(b.log, e)) = e.balance
  BY <1>1, <1>2, <1>3, AppendChains DEF Sound
<1> QED
  BY <1>4 DEF Post

\* No move makes a sound book unsound.
LEMMA MoveKeepsSound ==
  ASSUME NEW b \in Book, NEW c \in Book, Sound(b), Move(b, c)
  PROVE  Sound(c)
<1>1. CASE Transfer(b, c)
  BY <1>1, PostChains DEF Transfer, Sound
<1>2. CASE Reserve(b, c)
  <2>1. CASE c.bankroll = b.bankroll /\ c.log = b.log
    BY <1>2, <2>1 DEF Reserve, Sound
  <2>2. CASE Post(b, c)
    BY <1>2, <2>2, PostChains DEF Reserve, Sound
  <2> QED
    BY <1>2, <2>1, <2>2 DEF Reserve
<1>3. CASE Release(b, c)
  <2>1. c.reserved <= c.bankroll
    BY <1>3 DEF Release, Sound, Book
  <2> QED
    BY <1>3, <2>1, PostChains DEF Release, Sound
<1> QED
  BY <1>1, <1>2, <1>3 DEF Move

\* Every reachable book is typed and sound.
LEMMA BookInvariant == Spec => []IInv
<1>1. Init => IInv
  BY EmptyBookSound DEF Init, IInv, TypeOK
<1>2. IInv /\ [Next]_book => IInv'
  <2> SUFFICES ASSUME IInv, [Next]_book PROVE IInv'
    OBVIOUS
  <2>1. CASE UNCHANGED book
    BY <2>1 DEF IInv, TypeOK
  <2>2. CASE Next
    <3>1. TypeOK'
      BY <2>2 DEF Next, TypeOK
    <3>2. ASSUME NEW s \in Strategies PROVE Sound(book'[s])
      <4>1. book[s] \in Book /\ book'[s] \in Book /\ Sound(book[s])
        BY <3>1 DEF IInv, TypeOK
      <4>2. CASE book'[s] = book[s]
        BY <4>1, <4>2
      <4>3. CASE Move(book[s], book'[s])
        BY <4>1, <4>3, MoveKeepsSound
      <4> QED
        BY <2>2, <4>2, <4>3 DEF Next
    <3> QED
      BY <3>1, <3>2 DEF IInv
  <2> QED
    BY <2>1, <2>2
<1> QED
  BY <1>1, <1>2, PTL DEF Spec

\* Whatever moves a book makes, its bankroll is the sum of its journal
\* (docs/PDD.md:413).
THEOREM BookReconciles == Spec => []BankrollIsJournal
<1>1. IInv => BankrollIsJournal
  BY DEF IInv, Sound, BankrollIsJournal
<1> QED
  BY <1>1, BookInvariant, PTL

\* Whatever moves a book makes, what is reserved is covered (docs/PDD.md:414).
THEOREM BookCovered == Spec => []FreeCashNonNegative
<1>1. IInv => FreeCashNonNegative
  BY DEF IInv, Sound, FreeCashNonNegative
<1> QED
  BY <1>1, BookInvariant, PTL
=============================================================================
