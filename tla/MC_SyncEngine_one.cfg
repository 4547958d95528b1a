SPECIFICATION FairSyncSpec
CONSTANTS
    FileIds = {f1}
    Accounts = {a1}
    NoAccount = NoAccount
    EmptyName = EmptyName
    Names = {EmptyName, n1}
    Sizes = {5}
    ChunkCounts = {0, 1}
    Payloads = {c0}
    DataLength <- MC_DataLength
    MaxChunkSize = 1
    NoLogs = NoLogs
    Procs = {p1}
    Workers = {w1, w2}
    SafeWindow = 1
    MaxReorg = 1
    BatchSize = 2
    MaxRetries = 2
    MaxBlocks = 5
    MaxRpcFailures = 2
    MaxCrashes = 0
    MaxLostInserts = 1
CHECK_DEADLOCK FALSE
INVARIANT SyncTypeOK IndexSound NothingLostSilently BatchesDisjoint
PROPERTY CursorNeverRegresses RunSettlesItsRange ImplementsIndex
