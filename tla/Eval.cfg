SPECIFICATION Spec
CONSTANTS
    p1 = p1
    p2 = p2
    Trades = {p1, p2}
    ProbYes <- Probs
    Pnls <- WinOrLose
    Amounts = {100}
    WindowLength <- Windows
    MaxTime = 7
    MaxMoves = 2
CHECK_DEADLOCK FALSE
INVARIANTS
    TypeOK
    WindowsNest
    MissedOnlyByOverlap
    DrawdownIsWorstFall
    BinsPartition
PROPERTY TickShowsJournal
