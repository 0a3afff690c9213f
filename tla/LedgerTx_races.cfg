SPECIFICATION FairSpec
CONSTANTS
    a = a
    b = b
    c1 = c1
    c2 = c2
    p1 = p1
    p2 = p2
    Strategies = {a}
    Requests = {c1, c2}
    Positions = {p1, p2}
    Ops <- AllOps
    Amounts = {60}
    Costs = {60}
    Payouts = {0, 100}
    InitialDeposit = 100
    MaxServed = 1
INVARIANTS
    TypeOK
    BankrollIsSum
    SettledOnce
    HwmCoversRealized
PROPERTIES
    ImplementsCashJournal
    BaselineFrozenByTrading
    OverdrawnOnlyByDebitRace
    EveryoneFinishes
