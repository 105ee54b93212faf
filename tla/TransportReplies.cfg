SPECIFICATION HealthySpec
CONSTANTS
    Sources = 2
    PoolSize = 2
    Budgets = {1, 2}
    Recreations = 2
    StabilityQueries = 3
    DryRuns = 2
    PollLimit = 3
    TopHits = 3
INVARIANT HealthyTargetIsUsable
