----------------------------- MODULE CashJournal -----------------------------
(***************************************************************************)
(* The first two ledger invariants of docs/PDD.md:412-413 as a             *)
(* specification of the committed data: a bankroll moves only with cash    *)
(* events appended to the strategy's journal, and always equals their sum. *)
(* One transaction may append several events and write several strategies. *)
(***************************************************************************)
EXTENDS Journals

CONSTANT Strategies

VARIABLE journal     \* of each strategy: its bankroll and its cash events

Balanced(j) == Chained(j.log) /\ j.bankroll = LastBalance(j.log)

Init == \A s \in Strategies : Balanced(journal[s])

Next ==
    \A s \in Strategies :
        /\ IsExtension(journal[s].log, journal'[s].log)
        /\ Balanced(journal'[s])

Spec == Init /\ [][Next]_journal

\* The bankroll of every strategy is the balance of a chained journal.
BankrollIsJournal == \A s \in Strategies : Balanced(journal[s])
=============================================================================
