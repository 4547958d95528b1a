SPECIFICATION Spec
CONSTANTS
    FileIds = {f1, f2}
    Accounts = {a1, a2}
    NoAccount = NoAccount
    EmptyName = EmptyName
    Names = {EmptyName, n1}
    Sizes = {0, 5}
    ChunkCounts = {0, 1, 2}
    empty = empty
    good = good
    big = big
    Payloads <- MC_Payloads
    DataLength <- MC_DataLength
    MaxChunkSize = 2
    MaxReorg = 2
    MaxBlocks = 6
SYMMETRY Symmetry
INVARIANT TypeOK StorageMatchesLog ChunksAuthorised
PROPERTY FinalMetadataForever ImplementsLedger
