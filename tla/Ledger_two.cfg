SPECIFICATION Spec
CONSTANTS
    a = a
    p1 = p1
    p2 = p2
    g1 = g1
    b = b
    Strategies = {a, b}
    Positions = {p1, p2}
    Signals = {g1}
    InitialDeposit <- MCInitialDeposit
    SeedKelly <- MCSeedKelly
    Amounts <- TwoAmounts
    Fractions <- TwoFractions
    Orders <- TwoOrders
    Fees <- TwoFees
    MaxCashEvents = 3
SYMMETRY Symmetry
INVARIANTS
    TypeOK
    RowsReconcile
    BankrollIsJournal
    FreeCashNonNegative
    OnePnlPerResolution
    HwmCoversRealized
PROPERTIES
    DecommissionedIsTerminal
    PausedSystemOnlySettles
    ImplementsCashBook
