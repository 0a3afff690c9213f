SPECIFICATION Spec
CONSTANTS
    a = a
    b = b
    c1 = c1
    c2 = c2
    p1 = p1
    p2 = p2
    Strategies = {a}
    Requests = {c1, c2}
    Positions = {p1, p2}
    Ops <- Lifecycle
    Amounts = {60}
    Costs = {50}
    Payouts = {0, 100}
    InitialDeposit = 100
    MaxServed = 1
SYMMETRY Symmetry
PROPERTY DecommissionedIsTerminal
