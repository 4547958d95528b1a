SPECIFICATION FairDownloadSpec
CONSTANTS
    FileIds = {f1}
    Accounts = {a1}
    NoAccount = NoAccount
    EmptyName = EmptyName
    Names = {EmptyName, n1}
    Sizes = {5}
    ChunkCounts = {0, 1, 2}
    Bytes = {1, 2}
    Payloads <- MC_Payloads
    DataLength <- MC_DataLength
    MaxChunkSize = 1
    Encodings <- MC_Encodings
    LogBatchSize = 2
    Downloaders = {d1, d2}
    Latest = Latest
    Windows <- MC_WholeChain
    MaxReorg = 0
    MaxBlocks = 3
CHECK_DEADLOCK FALSE
INVARIANT DownloadTypeOK ValidatedAreAll CorruptedIsSpoiled
PROPERTY CompleteIsDownloaded
