SPECIFICATION Spec
CONSTANTS
    a = a
    p1 = p1
    p2 = p2
    g1 = g1
    b = b
    Strategies = {a}
    Positions = {p1, p2}
    Signals = {g1}
    InitialDeposit <- MCInitialDeposit
    SeedKelly <- MCSeedKelly
    Amounts <- MCAmounts
    Fractions <- MCFractions
    Orders <- MCOrders
    Fees <- MCFees
    MaxCashEvents = 4
SYMMETRY Symmetry
PROPERTY HwmRisesOnlyOnProfit
