------------------------------ MODULE MCLedger ------------------------------
(***************************************************************************)
(* Ledger on small instances.                                              *)
(***************************************************************************)
EXTENDS Ledger, TLC

CONSTANTS a, b, p1, p2, g1

MCInitialDeposit == [s \in Strategies |-> 100]
MCSeedKelly      == [s \in Strategies |-> 25]
MCAmounts        == {0, 40, 160}
MCFractions      == {-10, 150}

\* Contracts at 40 cents; two at 55.5 cents with the cost that rounds half up,
\* and with the cost rounded down, which the writer refuses.
MCOrders == { [qty |-> 1, price |-> 400, cost |-> 40],
              [qty |-> 1, price |-> 555, cost |-> 56],
              [qty |-> 1, price |-> 555, cost |-> 55] }
MCFees == {0, 4}

\* Fewer inputs for the instance with two strategies: the fee is larger than
\* what an order leaves of the first deposit.
TwoAmounts   == {40}
TwoFractions == {150}
TwoOrders    == { [qty |-> 1, price |-> 555, cost |-> 56],
                  [qty |-> 1, price |-> 555, cost |-> 55] }
TwoFees      == {0, 60}

Symmetry == Permutations(Positions) \cup Permutations(Strategies)
=============================================================================
