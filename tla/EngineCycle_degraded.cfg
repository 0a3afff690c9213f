SPECIFICATION Spec
CONSTANTS
    Envs = {main}
    Sources <- AllSources
    MarketSource = "kalshi_markets"
    ResolutionSource = "kalshi_resolution"
    Tickers = {t1}
    Result = {"yes", "no"}
    FailureThreshold = 2
    OperatedEnvs = {main}
    MaxFaults <- OneFails
INVARIANT DegradedSourceSilences
