SPECIFICATION Spec
CONSTANTS
    t1 = t1
    t2 = t2
    Tickers = {t1, t2}
    Locations = {"nyc"}
    LocationOf <- City
    EventOf <- OneDay
    CloseTime <- Closes1
    Books <- SomeBooks
    Outlooks <- SomeOutlooks
    MaxTime = 2
    Strategies <- Both
    Config <- SomeConfig
    Kelly <- SomeKelly
    TickerOrder <- Ticks
    InitialBankroll = 1000
INVARIANTS
    TypeOK
    RefusedOnlyForHalfCents
PROPERTIES
    CapsHold
    OrdersRestOnForecasts
    OpensAtNoProfit
CHECK_DEADLOCK FALSE
