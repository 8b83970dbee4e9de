SPECIFICATION MCSpec
CONSTANTS
    n1 = n1
    n2 = n2
    Nodes = {n1, n2}
    MaxTokens = 1
    FetchFailLimit = 2
    NoGrowthLimit = 2
    MaxRuns = 3
    Scenarios <- All
CHECK_DEADLOCK FALSE
INVARIANT TypeOK
INVARIANT NothingSkipped
INVARIANT FinishedNotFailed
INVARIANT TokensConserved
INVARIANT ErrorReported
PROPERTY AliveNotJudged
PROPERTY SuccessHonest
PROPERTY FollowsLifecycle
PROPERTY SyncReturns
