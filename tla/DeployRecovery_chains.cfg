SPECIFICATION Spec
CONSTANTS
    n1 = n1
    n2 = n2
    Nodes = {n1, n2}
    Services <- OneService
    Cdk = {n2}
    RetryLimit = 3
    MaxCommands = 0
    Environments <- Calm
CHECK_DEADLOCK FALSE
PROPERTY RetriedMeansAllSucceeded
