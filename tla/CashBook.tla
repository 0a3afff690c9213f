------------------------------ MODULE CashBook ------------------------------
(***************************************************************************)
(* What the ledger of core/ledger promises about money, with everything    *)
(* else left out (docs/PDD.md 7.1).  A book holds, for one strategy, its   *)
(* bankroll, the cost basis reserved by its open positions and the log of  *)
(* its cash events.  Cash moves only by appending to the log, and no move  *)
(* takes the bankroll below what is reserved.  Several books may move in   *)
(* one step, as one transaction may write several strategies.              *)
(***************************************************************************)
EXTENDS Journals

CONSTANT Strategies

VARIABLE book

Entry == [amount : Int, balance : Int]

Book == [bankroll : Int, reserved : Int, log : Seq(Entry)]

EmptyBook == [bankroll |-> 0, reserved |-> 0, log |-> <<>>]

\* Book c is book b after one cash movement, with one entry recording it.
Post(b, c) ==
    c.log = Append(b.log, [amount |-> c.bankroll - b.bankroll, balance |-> c.bankroll])

\* A transfer in or out: a deposit, a withdrawal, a new starting bankroll.
Transfer(b, c) ==
    /\ Post(b, c)
    /\ c.reserved = b.reserved
    /\ c.reserved <= c.bankroll

\* A position is opened: its cost is reserved and its fee, if any, is paid.
Reserve(b, c) ==
    /\ c.reserved > b.reserved
    /\ c.reserved <= c.bankroll
    /\ \/ c.bankroll = b.bankroll /\ c.log = b.log
       \/ c.bankroll < b.bankroll /\ Post(b, c)

\* A position is resolved: its cost is released and what it paid out, which is
\* never negative, replaces it.
Release(b, c) ==
    /\ Post(b, c)
    /\ c.reserved < b.reserved
    /\ b.bankroll - b.reserved <= c.bankroll - c.reserved

Move(b, c) == Transfer(b, c) \/ Reserve(b, c) \/ Release(b, c)

Init == book = [s \in Strategies |-> EmptyBook]

Next ==
    /\ book' \in [Strategies -> Book]
    /\ \A s \in Strategies : book'[s] # book[s] => Move(book[s], book'[s])

Spec == Init /\ [][Next]_book

-----------------------------------------------------------------------------
(* What follows from the book's rules. *)

\* The bankroll is the balance of a journal whose entries add up one after the
\* other, so it is the sum of the cash events (docs/PDD.md:413).
BankrollIsJournal ==
    \A s \in Strategies :
        Chained(book[s].log) /\ book[s].bankroll = LastBalance(book[s].log)

\* Free cash is never negative (docs/PDD.md:414).
FreeCashNonNegative ==
    \A s \in Strategies : book[s].reserved <= book[s].bankroll
=============================================================================
