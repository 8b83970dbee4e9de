SPECIFICATION Spec
CONSTANTS
    c1 = c1
    c2 = c2
    k1 = k1
    blank = blank
    Clients = {c1, c2}
    Keys = {k1}
    Blank = blank
    MaxSaves = 2
    MaxCommands = 4
    MaxDeployments = 3
    Stamps = {1, 2}
SYMMETRY EitherClient
INVARIANTS TypeOK SavedStays FreshDeployment ClientLogsStay ArchivePaired
CHECK_DEADLOCK FALSE
