SPECIFICATION SyncSpec
CONSTANTS
    FileIds = {f1}
    Accounts = {a1}
    NoAccount = NoAccount
    EmptyName = EmptyName
    Names = {EmptyName, n1}
    Sizes = {5}
    ChunkCounts = {0, 1}
    Payloads = {d1}
    DataLength <- MC_DataLength
    MaxChunkSize = 1
    NoLogs = NoLogs
    Procs = {p1}
    Workers = {w1}
    SafeWindow = 1
    MaxReorg = 1
    BatchSize = 1
    MaxRetries = 3
    MaxBlocks = 3
    MaxRpcFailures = 3
    MaxCrashes = 0
    MaxLostInserts = 0
CHECK_DEADLOCK FALSE
INVARIANT FullySynced
