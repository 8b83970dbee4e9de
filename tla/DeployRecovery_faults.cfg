SPECIFICATION FairSpec
CONSTANTS
    n1 = n1
    n2 = n2
    Nodes = {n1, n2}
    Services <- TwoServices
    Cdk = {n2}
    RetryLimit = 2
    MaxCommands = 1
    Environments <- Varied
CHECK_DEADLOCK FALSE
INVARIANT TypeOK
INVARIANT WriteAhead
INVARIANT SuccessEarned
INVARIANT PendingNotStarted
INVARIANT NoDoubleScript
PROPERTY OnlyFailedRetried
PROPERTY NilMeansSettled
PROPERTY DeployReturns
