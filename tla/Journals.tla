------------------------------ MODULE Journals ------------------------------
(***************************************************************************)
(* The cash events of one strategy, oldest first, as a sequence of records *)
(* that have at least the fields amount and balance: the cash_event        *)
(* columns amount_cents and balance_after_cents (core/db/models.py).       *)
(***************************************************************************)
EXTENDS Integers, Sequences

\* The balance a journal leaves; a strategy starts from nothing.
LastBalance(log) == IF log = <<>> THEN 0 ELSE log[Len(log)].balance

\* Each balance is the one before it plus the event's amount, so the last
\* balance is the sum of the amounts.
Chained(log) ==
    \A i \in 1..Len(log) :
        log[i].balance = log[i].amount + (IF i = 1 THEN 0 ELSE log[i-1].balance)

\* Journal d is journal c with events appended.
IsExtension(c, d) ==
    /\ Len(c) <= Len(d)
    /\ \A i \in 1..Len(c) : d[i] = c[i]
=============================================================================
