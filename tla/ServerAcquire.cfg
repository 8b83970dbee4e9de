SPECIFICATION FairSpec
CONSTANTS
    Limit = 2
    GroupSize = 2
    Services <- GroupsChainAndOwn
    SendAttempts = 3
    BatchSize = 3
    InstanceTypes = 2
    MaxRound = 2
    Snapshots <- ImportedAndNone
INVARIANT TypeOK
INVARIANT VaultsFunded
INVARIANT EnoughMachines
INVARIANT TagsUnique
INVARIANT PlansAgree
INVARIANT AtMostLimit
PROPERTY AcquireReturns
