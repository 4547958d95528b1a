------------------------------- MODULE ChainFS -------------------------------
(***************************************************************************)
(* The contract contracts/ChainFS.sol on a chain that can reorganise.      *)
(*                                                                         *)
(* A block holds at most one ChainFS event, so a block number also stands  *)
(* for a transaction's place in its block: the order of events, which is   *)
(* all the off-chain programs see, is kept.  A block carries the contract  *)
(* storage after it, because a reorganisation brings an old storage back.  *)
(* The readers of the log and the senders of transactions are in the       *)
(* modules that extend this one.                                           *)
(***************************************************************************)
EXTENDS Integers, Sequences

CONSTANTS
    FileIds,        \* bytes32 identifiers; a file id is the hash of a content
    Accounts,       \* addresses that send transactions
    NoAccount,      \* address(0), the owner in an unset mapping entry
    Names,          \* file names, the empty one included
    EmptyName,      \* the name of length 0
    Sizes,          \* values of the size argument
    ChunkCounts,    \* values of the chunkCount argument
    Payloads,       \* values of the data argument
    DataLength,     \* the length of each payload
    MaxChunkSize,   \* MAX_CHUNK_SIZE
    MaxReorg,       \* the deepest reorganisation of the chain
    MaxBlocks       \* bound: the longest chain explored

ASSUME ConstantsAssumption ==
    /\ EmptyName \in Names
    /\ NoAccount \notin Accounts
    /\ Sizes \subseteq Nat
    /\ ChunkCounts \subseteq Nat
    /\ DataLength \in [Payloads -> Nat]
    /\ MaxChunkSize \in Nat
    /\ MaxReorg \in Nat
    /\ MaxBlocks \in Nat

VARIABLES
    files,          \* the contract's mapping fileId -> FileMetadata
    chain,          \* the canonical chain: [event, post] per block, from 1
    finalized       \* the number of blocks no reorganisation can undo

chainVars == <<files, chain, finalized>>

\* What the mapping returns for an id never written.
NoFile == [name |-> EmptyName, size |-> 0, chunkCount |-> 0,
           owner |-> NoAccount, exists |-> FALSE]

\* The values of the mapping: unset, or an entry with none of its fields at the
\* default value.
FileMetadata == {NoFile} \cup
    [name: Names \ {EmptyName}, size: Nat \ {0}, chunkCount: Nat \ {0},
     owner: Accounts, exists: {TRUE}]

EmptyStorage == [f \in FileIds |-> NoFile]

FileCreated == [type: {"FileCreated"}, fileId: FileIds, name: Names \ {EmptyName},
                size: Nat \ {0}, chunkCount: Nat \ {0}, owner: Accounts]

\* sender is the transaction's, not a field of the log.
ChunkUploaded == [type: {"ChunkUploaded"}, fileId: FileIds, chunkIndex: Nat,
                  data: Payloads, sender: Accounts]

NoEvent == [type |-> "None"]

Events == FileCreated \cup ChunkUploaded \cup {NoEvent}

Block == [event: Events, post: [FileIds -> FileMetadata]]

-----------------------------------------------------------------------------
Init ==
    /\ files = EmptyStorage
    /\ chain = <<>>
    /\ finalized = 0

\* The storage after block n of the chain c.
PostState(c, n) == IF n = 0 THEN EmptyStorage ELSE c[n].post

\* A transaction is mined: its event joins the log with the storage it leaves.
Mine(event, storage) ==
    /\ Len(chain) < MaxBlocks
    /\ chain' = Append(chain, [event |-> event, post |-> storage])
    /\ files' = storage
    /\ finalized' = IF Len(chain) + 1 - MaxReorg > finalized
                    THEN Len(chain) + 1 - MaxReorg ELSE finalized

CanCreateAgain(f, name, size, count) ==       \* faulty: no FileAlreadyExists
    name # EmptyName /\ size # 0 /\ count # 0

CanCreateEmpty(f, name, size, count) ==       \* faulty: no ZeroSize
    ~files[f].exists /\ name # EmptyName /\ count # 0

\* The four revert conditions of createFile, negated.
CanCreate(f, name, size, count) ==
    /\ ~files[f].exists
    /\ name # EmptyName
    /\ size # 0
    /\ count # 0

CreateFile(f, name, size, count, sender) ==
    /\ CanCreate(f, name, size, count)
    /\ Mine([type |-> "FileCreated", fileId |-> f, name |-> name, size |-> size,
             chunkCount |-> count, owner |-> sender],
            [files EXCEPT ![f] = [name |-> name, size |-> size,
                                  chunkCount |-> count, owner |-> sender,
                                  exists |-> TRUE]])

CanUploadUnowned(f, idx, data, sender) ==     \* faulty: no NotFileOwner
    files[f].exists /\ idx < files[f].chunkCount
        /\ DataLength[data] \in 1..MaxChunkSize

CanUploadAtEnd(f, idx, data, sender) ==       \* faulty: idx <= chunkCount
    files[f].exists /\ files[f].owner = sender /\ idx <= files[f].chunkCount
        /\ DataLength[data] \in 1..MaxChunkSize

\* The four revert conditions of uploadChunk, negated.  Nothing is recorded of
\* a chunk, so an index can be uploaded any number of times.
CanUpload(f, idx, data, sender) ==
    /\ files[f].exists
    /\ files[f].owner = sender
    /\ idx < files[f].chunkCount
    /\ DataLength[data] \in 1..MaxChunkSize

UploadChunk(f, idx, data, sender) ==
    /\ CanUpload(f, idx, data, sender)
    /\ Mine([type |-> "ChunkUploaded", fileId |-> f, chunkIndex |-> idx,
             data |-> data, sender |-> sender], files)

\* A block without a ChainFS event: other contracts, calls that reverted.
OtherBlock == Mine(NoEvent, files)

\* A reorganisation drops the blocks after n; new ones follow by Mine.
Rollback(n) ==
    /\ chain' = SubSeq(chain, 1, n)
    /\ files' = PostState(chain, n)
    /\ UNCHANGED finalized

SomeCreate == \E f \in FileIds, name \in Names, size \in Sizes,
                 count \in ChunkCounts, sender \in Accounts :
                    CreateFile(f, name, size, count, sender)

SomeUpload == \E f \in FileIds, idx \in ChunkCounts, data \in Payloads,
                 sender \in Accounts : UploadChunk(f, idx, data, sender)

SomeRollback == \E n \in finalized..(Len(chain) - 1) : Rollback(n)

Next == SomeCreate \/ SomeUpload \/ OtherBlock \/ SomeRollback

Spec == Init /\ [][Next]_chainVars

-----------------------------------------------------------------------------
\* Block b of the chain c holds the FileCreated event of f.
Creates(c, b, f) == c[b].event.type = "FileCreated" /\ c[b].event.fileId = f

\* Block b of the chain c holds a ChunkUploaded event.
Uploads(c, b) == c[b].event.type = "ChunkUploaded"

\* The mapping entry a FileCreated event announces.
MetadataOf(e) == [name |-> e.name, size |-> e.size, chunkCount |-> e.chunkCount,
                  owner |-> e.owner, exists |-> TRUE]

\* The storage m is the one the first n events of the chain c announce.
Announced(m, c, n) ==
    \A f \in FileIds :
        /\ m[f].exists <=> \E b \in 1..n : Creates(c, b, f)
        /\ \A b \in 1..n : Creates(c, b, f) => m[f] = MetadataOf(c[b].event)

\* The variables have their types: an entry of the mapping is unset or has every
\* field set, as _requireFileExists assumes, and the finalized blocks are on the
\* chain.
TypeOK ==
    /\ files \in [FileIds -> FileMetadata]
    /\ chain \in Seq(Block)
    /\ finalized \in 0..Len(chain)

\* The event log alone rebuilds the contract's storage: a file is registered
\* exactly when the canonical chain holds its FileCreated event, with the
\* metadata of that event, and no file has two.  Every index and every
\* downloader that reads events instead of getFile() relies on it, through
\* reorganisations too.
StorageMatchesLog ==
    /\ Announced(files, chain, Len(chain))
    /\ \A f \in FileIds, a, b \in 1..Len(chain) :
            Creates(chain, a, f) /\ Creates(chain, b, f) => a = b

\* Every chunk of the log was sent by the account that created its file, in an
\* earlier block of the same chain, for an index below the announced count and
\* with a length the contract accepts.
ChunkAuthorised(c, b) ==
    \E a \in 1..(b - 1) :
        /\ Creates(c, a, c[b].event.fileId)
        /\ c[a].event.owner = c[b].event.sender
        /\ c[b].event.chunkIndex < c[a].event.chunkCount
        /\ DataLength[c[b].event.data] \in 1..MaxChunkSize

\* All the chunks of the canonical log are authorised: uploadChunk checks the
\* mapping, a reader sees only the events, and the two agree.
ChunksAuthorised ==
    \A b \in 1..Len(chain) : Uploads(chain, b) => ChunkAuthorised(chain, b)

\* Once the creation of a file is finalized, no step ever changes or removes
\* its metadata: no second createFile, no upload and no reorganisation.
FinalMetadataForever ==
    [][\A f \in FileIds, b \in 1..finalized :
            Creates(chain, b, f) => files'[f] = MetadataOf(chain[b].event)]_chainVars

\* The finalized blocks, as a ledger of their events.
FinalEvents == [b \in 1..finalized |-> chain[b].event]

Ledger == INSTANCE FileLedger WITH ledger <- FinalEvents

\* The contract on a reorganising chain implements the append-only ledger: its
\* final events only grow, one at a time, with one creation per file and chunks
\* of the creator alone, although each call was checked against a mapping that
\* may since have been rolled back and rebuilt.
ImplementsLedger == Ledger!LedgerSpec
=============================================================================
