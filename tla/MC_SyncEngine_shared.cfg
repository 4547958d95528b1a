SPECIFICATION SyncSpec
CONSTANTS
    FileIds = {f1}
    Accounts = {a1}
    NoAccount = NoAccount
    EmptyName = EmptyName
    Names = {EmptyName, n1}
    Sizes = {5}
    ChunkCounts = {0, 1}
    Payloads = {d1}
    DataLength <- MC_DataLength
    MaxChunkSize = 1
    NoLogs = NoLogs
    Procs = {p1, p2}
    Workers = {w1}
    SafeWindow = 1
    MaxReorg = 1
    BatchSize = 2
    MaxRetries = 2
    MaxBlocks = 4
    MaxRpcFailures = 2
    MaxCrashes = 1
    MaxLostInserts = 1
SYMMETRY ProcSymmetry
CHECK_DEADLOCK FALSE
INVARIANT IndexSound NothingLostSilently
PROPERTY ImplementsIndex
