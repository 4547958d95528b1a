SPECIFICATION FairPipelineSpec
CONSTANTS
    FileIds = {f1}
    Accounts <- MC_Accounts
    NoAccount = NoAccount
    EmptyName = EmptyName
    Names = {EmptyName, n1}
    TheFile = f1
    TheName = n1
    TheAccount = a1
    SharedWallet = TRUE
    Sizes = {5}
    ChunkCounts = {0, 1, 2}
    Payloads <- MC_Payloads
    DataLength <- MC_DataLength
    MaxChunkSize = 2
    NoTx = NoTx
    Upload <- MC_Upload
    Uploaders = {u1, u2}
    Bytes <- MC_Bytes
    TotalBytes = 3
    InitialChunkSize = 2
    MaxAttempts = 2
    Downloaders = {d1}
    Encodings <- MC_Encodings
    LogBatchSize = 3
    Latest = Latest
    Windows <- MC_Windows
    MaxReorg = 0
    MaxBlocks = 8
CHECK_DEADLOCK FALSE
INVARIANT UploadTypeOK DuplicatesAgree DoneMeansComplete ChunksInOrder DuplicatesBounded StoredIsFetched
PROPERTY EveryRunEnds
