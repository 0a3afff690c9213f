SPECIFICATION Spec
CONSTANTS
    Envs = {main}
    Sources <- MCSources
    MarketSource = "kalshi_markets"
    ResolutionSource = "kalshi_resolution"
    Tickers = {t1}
    Result = {"yes", "no"}
    FailureThreshold = 2
    OperatedEnvs = {main}
    MaxFaults <- NoneFails
INVARIANT SignalsAreRecorded
