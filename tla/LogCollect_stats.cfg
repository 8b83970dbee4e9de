SPECIFICATION CollectSpec
CONSTANTS
    StatusRecords <- OneNode
    BenchLogs = 1
    FirstLines <- PipesWritten
    Restarts = {}
    MaxLines = 2
    MaxChanges = 2
    MaxCollections = 2
INVARIANT RowsNeverExceedFile
CHECK_DEADLOCK FALSE
