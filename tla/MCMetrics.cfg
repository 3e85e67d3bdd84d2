CONSTANTS
    Worker <- OneWorker
    MaxVisitors = 2
    PendingMax = 1
    IdleTicks = 1
SPECIFICATION MetricsSpec
INVARIANTS
    ScrapeCountsNoVisitorTwice
    FinalScrapeBalances
