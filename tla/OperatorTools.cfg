SPECIFICATION ToolsSpec
CONSTANTS
    Names <- NamesOfServers
    Fleets <- ThreeChainsOrGeneric
    Attempts = 2
    PartNumbers = {2, 3}
    BenchServices = 2
    MaxGenerations = 2
    StatusRecords <- TwoOfAGroup
    BenchLogs = 1
    FirstLines <- PipesWritten
    Restarts <- AllPipes
    MaxLines = 1
    MaxChanges = 2
    MaxCollections = 2
    Listed <- ThreeMachines
    NoAddress = ""
    Limit = 2
    Servers <- TwoChecked
    StaleAfter = 3
    RpcTimeout = 1
    SummaryTimeout = 1
    CheckedFrom = 4
    MaxTime = 7
    Nodes = {n1, n2}
    NoReport = none
    MaxAccounts = 2
    MaxRounds = 2
INVARIANTS ToolsTypeOK NoPartialInfos GenuineCause ValidatedIsWhole EachJobSentOnce ManifestHonest NilMeansCollected NilMeansTold SlowIsLate
PROPERTIES FetchReturns FollowsReportFile
CHECK_DEADLOCK FALSE
