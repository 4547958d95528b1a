SPECIFICATION NodeSpec
CONSTANTS
    FileIds = {f1}
    Accounts = {a1}
    NoAccount = NoAccount
    EmptyName = EmptyName
    Names = {EmptyName, n1}
    Sizes = {5}
    ChunkCounts = {0, 1, 2}
    TheAccount = a1
    c0 = c0
    c1 = c1
    Payloads = {c0, c1}
    DataLength <- MC_DataLength
    MaxChunkSize = 1
    Content <- MC_Content
    Encodings <- MC_Encodings
    Jobs = {j1, j2}
    Hosts = {j1, j2}
    HostOf <- MC_OwnHosts
    AccountOf <- MC_AccountOf
    MaxReorg = 0
    MaxBlocks = 3
CHECK_DEADLOCK FALSE
INVARIANT SyncedIsStored
