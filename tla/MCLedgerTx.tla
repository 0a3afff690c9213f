----------------------------- MODULE MCLedgerTx -----------------------------
(***************************************************************************)
(* LedgerTx on small instances.                                            *)
(***************************************************************************)
EXTENDS LedgerTx, TLC

CONSTANTS a, b, c1, c2, p1, p2

AllOps    == MoneyOps \cup LifecycleOps \cup SystemOps
Lifecycle == LifecycleOps \cup {"deposit"}
MoneyAndSystem == MoneyOps \cup SystemOps
Withdrawals == {"withdraw"}

Symmetry == Permutations(Requests) \cup Permutations(Positions)
=============================================================================
