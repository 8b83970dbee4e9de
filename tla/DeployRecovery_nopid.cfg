SPECIFICATION Spec
CONSTANTS
    n1 = n1
    n2 = n2
    Nodes = {n1, n2}
    Services <- OneService
    Cdk = {}
    RetryLimit = 3
    MaxCommands = 0
    Environments <- Lossy
CHECK_DEADLOCK FALSE
INVARIANT RunningHasPid
