SPECIFICATION FairSpec
CONSTANTS
    Envs = {main, staging}
    Sources <- MCSources
    MarketSource = "kalshi_markets"
    ResolutionSource = "kalshi_resolution"
    Tickers = {t1}
    Result = {"yes", "no"}
    FailureThreshold = 2
    OperatedEnvs = {}
    MaxFaults <- NoneFails
INVARIANT SettledAlike
PROPERTY PositionsSettle
