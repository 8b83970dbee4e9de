SPECIFICATION Spec
CONSTANTS
    n1 = n1
    n2 = n2
    Nodes = {n1}
    MaxTokens = 1
    FetchFailLimit = 10
    NoGrowthLimit = 6
    MaxRuns = 1
    Scenarios <- Unchecked
CHECK_DEADLOCK FALSE
PROPERTY JitterTolerated
