------------------------------ MODULE NodeBots ------------------------------
(***************************************************************************)
(* The Node.js commands over the two local databases of each machine: the  *)
(* upload of src/storage-bot.js, the download and the sync() of            *)
(* src/downloader-bot.js, the blob store of src/db.js with its foreign     *)
(* key, and the index of src/db-manager.js that an upload writes to.  A    *)
(* job is one process; code between two awaits is one action.  ethers      *)
(* estimates gas first, so a refused call raises without a transaction.    *)
(***************************************************************************)
EXTENDS ChainFS, SequencesExt

CONSTANTS
    Hosts,              \* machines, each with its two databases
    Jobs,               \* processes
    HostOf,             \* the machine of each process
    AccountOf,          \* the wallet of each process
    Content,            \* per file id, the chunks that upload() makes, in order
    Encodings           \* per file id, the chunks whose join decompresses to its content

ASSUME NodeAssumption ==
    /\ FileIds # {}
    /\ HostOf \in [Jobs -> Hosts]
    /\ AccountOf \in [Jobs -> Accounts]
    /\ \A f \in FileIds : Encodings[f] \subseteq Seq(Payloads) \ {<<>>}
    /\ \A f \in FileIds : Content[f] \in Encodings[f]

VARIABLES
    blobFiles,          \* db.js, files: per host, rows [fileId, block]
    blobChunks,         \* db.js, chunks: rows [fileId, chunkIndex, data, block]
    blobSynced,         \* db.js, sync_state: last_synced_block, 0 when unset
    indexFiles,         \* db-manager.js, files: rows [fileId, block]
    indexChunks,        \* db-manager.js, chunks: rows [fileId, chunkIndex, data, block]
    job                 \* what each process is doing

blobVars == <<blobFiles, blobChunks, blobSynced>>
indexVars == <<indexFiles, indexChunks>>
nodeVars == <<chainVars, blobVars, indexVars, job>>

FileRow == [fileId: FileIds, block: 1..MaxBlocks]
ChunkRow == [fileId: FileIds, chunkIndex: Nat, data: Payloads, block: 1..MaxBlocks]

Idle == [pc |-> "idle", file |-> CHOOSE f \in FileIds : TRUE, step |-> 0, block |-> 0,
         from |-> 0, error |-> "none"]

Resting == {"idle", "uploaded", "written", "synced", "failed"}

NodeInit ==
    /\ Init
    /\ blobFiles = [h \in Hosts |-> {}]
    /\ blobChunks = [h \in Hosts |-> {}]
    /\ blobSynced = [h \in Hosts |-> 0]
    /\ indexFiles = [h \in Hosts |-> {}]
    /\ indexChunks = [h \in Hosts |-> {}]
    /\ job = [j \in Jobs |-> Idle]

-----------------------------------------------------------------------------
(* The statements of the two databases.                                     *)

\* The primary key: (file_id) of the files, (file_id, chunk_index) of the chunks.
PrimaryKey(r) == IF r \in ChunkRow THEN <<r.fileId, r.chunkIndex>> ELSE <<r.fileId>>

\* The table after rows are inserted one by one, in the order of their blocks: of
\* those with one key the first stays, or the last.
InsertOrIgnore(table, rows) ==
    table \cup {r \in rows :
        /\ \A s \in table : PrimaryKey(s) # PrimaryKey(r)
        /\ \A s \in rows : PrimaryKey(s) = PrimaryKey(r) => r.block <= s.block}

InsertOrReplace(table, rows) ==
    {r \in table : \A s \in rows : PrimaryKey(s) # PrimaryKey(r)} \cup
    {r \in rows : \A s \in rows : PrimaryKey(s) = PrimaryKey(r) => s.block <= r.block}

HasFile(h, f) == \E r \in blobFiles[h] : r.fileId = f

Go(j, pc) == [job EXCEPT ![j].pc = pc]
Raise(j, error) == [job EXCEPT ![j].pc = "failed", ![j].error = error]

Start(j, pc, f, from) ==
    /\ job[j].pc \in Resting
    /\ job' = [job EXCEPT ![j] = [Idle EXCEPT !.pc = pc, !.file = f, !.from = from]]
    /\ UNCHANGED <<chainVars, blobVars, indexVars>>

-----------------------------------------------------------------------------
(* storage-bot.js: upload().                                                *)

StartUpload(j, f) == Start(j, "create", f, 0)

MinedAt(j, pc) == job' = [job EXCEPT ![j].pc = pc, ![j].block = Len(chain) + 1]

\* createFile() is mined and tx.wait() returns its receipt.
CreateTx(j) ==
    LET f == job[j].file
    IN  /\ job[j].pc = "create"
        /\ \E name \in Names, size \in Sizes :
                CreateFile(f, name, size, Len(Content[f]), AccountOf[j])
        /\ MinedAt(j, "fileToBlob")
        /\ UNCHANGED <<blobVars, indexVars>>

RecordFileBlob(j) ==
    /\ job[j].pc = "fileToBlob"
    /\ blobFiles' = [blobFiles EXCEPT ![HostOf[j]] =
            InsertOrIgnore(@, {[fileId |-> job[j].file, block |-> job[j].block]})]
    /\ job' = Go(j, "fileToIndex")
    /\ UNCHANGED <<chainVars, blobChunks, blobSynced, indexVars>>

RecordFileIndex(j) ==
    /\ job[j].pc = "fileToIndex"
    /\ indexFiles' = [indexFiles EXCEPT ![HostOf[j]] =
            InsertOrIgnore(@, {[fileId |-> job[j].file, block |-> job[j].block]})]
    /\ job' = Go(j, "chunk")
    /\ UNCHANGED <<chainVars, blobVars, indexChunks>>

ChunkTx(j) ==
    LET f == job[j].file
    IN  /\ job[j].pc = "chunk"
        /\ UploadChunk(f, job[j].step, Content[f][job[j].step + 1], AccountOf[j])
        /\ MinedAt(j, "chunkToBlob")
        /\ UNCHANGED <<blobVars, indexVars>>

RowOfStep(j) ==
    [fileId |-> job[j].file, chunkIndex |-> job[j].step,
     data |-> Content[job[j].file][job[j].step + 1], block |-> job[j].block]

RecordChunkBlob(j) ==
    /\ job[j].pc = "chunkToBlob"
    /\ HasFile(HostOf[j], job[j].file)
    /\ blobChunks' = [blobChunks EXCEPT ![HostOf[j]] =
                        InsertOrReplace(@, {RowOfStep(j)})]
    /\ job' = Go(j, "chunkToIndex")
    /\ UNCHANGED <<chainVars, blobFiles, blobSynced, indexVars>>

IsLastEarly(f, step) == step + 2 >= Len(Content[f])    \* faulty: one chunk short

IsLastLate(f, step) == step = Len(Content[f])          \* faulty: one chunk more

IsLast(f, step) == step + 1 = Len(Content[f])

RecordChunkIndex(j) ==
    /\ job[j].pc = "chunkToIndex"
    /\ indexChunks' = [indexChunks EXCEPT ![HostOf[j]] =
                        InsertOrIgnore(@, {RowOfStep(j)})]
    /\ job' = IF IsLast(job[j].file, job[j].step) THEN Go(j, "uploaded")
              ELSE [job EXCEPT ![j].pc = "chunk", ![j].step = @ + 1]
    /\ UNCHANGED <<chainVars, blobVars, indexFiles>>

\* faulty: the outcome of tx.wait() is not looked at.
TxFailsUnseen(j) ==
    /\ job[j].pc \in {"create", "chunk"}
    /\ Len(chain) > 0
    /\ job' = [job EXCEPT ![j].pc = IF @ = "create" THEN "fileToBlob" ELSE "chunkToBlob",
                          ![j].block = Len(chain)]
    /\ UNCHANGED <<chainVars, blobVars, indexVars>>

\* The contract refuses the call, or an RPC call fails; nothing is retried.
TxFails(j) ==
    /\ job[j].pc \in {"create", "chunk"}
    /\ job' = Raise(j, "transaction")
    /\ UNCHANGED <<chainVars, blobVars, indexVars>>

-----------------------------------------------------------------------------
(* downloader-bot.js: download().                                           *)

StartDownload(j, f) == Start(j, "fetch", f, 0)

\* The blocks of the logs of one event from a block on.
LogBlocks(type, from) == {b \in DOMAIN chain : b >= from /\ chain[b].event.type = type}

ChunkRowAt(b) ==
    [fileId |-> chain[b].event.fileId, chunkIndex |-> chain[b].event.chunkIndex,
     data |-> chain[b].event.data, block |-> b]

FileRowAt(b) == [fileId |-> chain[b].event.fileId, block |-> b]

\* faulty: INSERT OR IGNORE.
StoreChunksOnce(table, blocks) == InsertOrIgnore(table, {ChunkRowAt(b) : b \in blocks})

\* The table after the chunks of the blocks are inserted.
StoreChunks(table, blocks) == InsertOrReplace(table, {ChunkRowAt(b) : b \in blocks})

\* getChunks(): ordered by chunk index, of which a file has one row.
InOrder(rows) ==
    CHOOSE s \in [1..Cardinality(rows) -> rows] :
        \A i, k \in DOMAIN s : i < k => s[i].chunkIndex < s[k].chunkIndex

\* What fetchChunks() returns: their bytes.
Reconstruct(rows) == [i \in DOMAIN InOrder(rows) |-> InOrder(rows)[i].data]

\* The command line's --from-block, by default 0.
DownloadFrom(j) == job[j].from

\* The blocks of the logs that a download asks for, of its file, and a sync, of all.
ChunkLogs(j) ==
    IF job[j].pc = "fetch"
    THEN {b \in LogBlocks("ChunkUploaded", DownloadFrom(j)) : chain[b].event.fileId = job[j].file}
    ELSE LogBlocks("ChunkUploaded", job[j].from)

\* Those before the first whose file has no row: by the foreign key its insert throws.
Storable(j) ==
    {b \in ChunkLogs(j) :
        \A c \in ChunkLogs(j) : c <= b => HasFile(HostOf[j], chain[c].event.fileId)}

\* The logs of the file are stored, and what is then stored of the file is
\* reconstructed, decompressed, verified and written.
Download(j) ==
    LET h == HostOf[j]
        f == job[j].file
        stored == StoreChunks(blobChunks[h], Storable(j))
        seq == Reconstruct({r \in stored : r.fileId = f})
    IN  /\ job[j].pc = "fetch"
        /\ blobChunks' = [blobChunks EXCEPT ![h] = stored]
        /\ job' = IF Storable(j) # ChunkLogs(j) THEN Raise(j, "foreign key")
                  ELSE IF seq = <<>> THEN Raise(j, "no chunks")
                  ELSE IF seq \notin Encodings[f] THEN Raise(j, "integrity")
                  ELSE Go(j, "written")
        /\ UNCHANGED <<chainVars, blobFiles, blobSynced, indexVars>>

-----------------------------------------------------------------------------
(* downloader-bot.js: sync(), three requests one after the other.           *)

StartSync(j) == Start(j, "syncFiles", job[j].file, blobSynced[HostOf[j]])

SyncFiles(j) ==
    /\ job[j].pc = "syncFiles"
    /\ blobFiles' = [blobFiles EXCEPT ![HostOf[j]] =
            InsertOrIgnore(@, {FileRowAt(b) : b \in LogBlocks("FileCreated", job[j].from)})]
    /\ job' = Go(j, "syncChunks")
    /\ UNCHANGED <<chainVars, blobChunks, blobSynced, indexVars>>

\* The process dies between two inserts of the files.
KillInSyncFiles(j) ==
    LET logs == LogBlocks("FileCreated", job[j].from)
    IN  /\ job[j].pc = "syncFiles"
        /\ \E last \in logs : blobFiles' = [blobFiles EXCEPT ![HostOf[j]] =
                InsertOrIgnore(@, {FileRowAt(b) : b \in {c \in logs : c <= last}})]
        /\ job' = Raise(j, "killed")
        /\ UNCHANGED <<chainVars, blobChunks, blobSynced, indexVars>>

SyncChunks(j) ==
    /\ job[j].pc = "syncChunks"
    /\ blobChunks' = [blobChunks EXCEPT ![HostOf[j]] = StoreChunks(@, Storable(j))]
    /\ job' = IF Storable(j) = ChunkLogs(j) THEN Go(j, "syncTip") ELSE Raise(j, "foreign key")
    /\ UNCHANGED <<chainVars, blobFiles, blobSynced, indexVars>>

\* The process dies between two inserts of the chunks, in a download or a sync.
KillInChunks(j) ==
    /\ job[j].pc \in {"fetch", "syncChunks"}
    /\ \E last \in Storable(j) : blobChunks' = [blobChunks EXCEPT ![HostOf[j]] =
            StoreChunks(@, {b \in Storable(j) : b <= last})]
    /\ job' = Raise(j, "killed")
    /\ UNCHANGED <<chainVars, blobFiles, blobSynced, indexVars>>

\* The tip is asked for after the logs, and becomes last_synced_block.
SyncTip(j) ==
    /\ job[j].pc = "syncTip"
    /\ blobSynced' = [blobSynced EXCEPT ![HostOf[j]] = Len(chain)]
    /\ job' = Go(j, "synced")
    /\ UNCHANGED <<chainVars, blobFiles, blobChunks, indexVars>>

\* The process dies, or a request of a download or a sync fails, or the answer
\* about a transaction that was mined is lost.
KillJob(j) ==
    /\ job[j].pc \notin Resting
    /\ job' = Raise(j, "killed")
    /\ UNCHANGED <<chainVars, blobVars, indexVars>>

-----------------------------------------------------------------------------
Work(j) ==
    \/ CreateTx(j) \/ RecordFileBlob(j) \/ RecordFileIndex(j)
    \/ ChunkTx(j) \/ RecordChunkBlob(j) \/ RecordChunkIndex(j)
    \/ Download(j)
    \/ SyncFiles(j) \/ SyncChunks(j) \/ SyncTip(j)

\* What else happens on the chain: transactions of any account with any arguments, among
\* them those of a process that died before they were mined, and reorganisations.
ChainMoves == Next /\ UNCHANGED <<blobVars, indexVars, job>>

NodeNext ==
    \/ ChainMoves
    \/ \E j \in Jobs :
        \/ \E f \in FileIds : StartUpload(j, f) \/ StartDownload(j, f)
        \/ StartSync(j)
        \/ Work(j)
        \/ TxFails(j)
        \/ KillJob(j) \/ KillInSyncFiles(j) \/ KillInChunks(j)

NodeSpec == NodeInit /\ [][NodeNext]_nodeVars

-----------------------------------------------------------------------------
\* The variables have their types, the foreign key of the blob store holds, and
\* an upload stays within its chunks.
NodeTypeOK ==
    /\ TypeOK
    /\ \A h \in Hosts :
        /\ blobFiles[h] \subseteq FileRow /\ indexFiles[h] \subseteq FileRow
        /\ blobChunks[h] \subseteq ChunkRow /\ indexChunks[h] \subseteq ChunkRow
        /\ blobSynced[h] \in 0..MaxBlocks
        /\ \A r \in blobChunks[h] : HasFile(h, r.fileId)
    /\ \A j \in Jobs :
        /\ job[j].pc \in Resting \cup {"create", "fileToBlob", "fileToIndex", "chunk",
                "chunkToBlob", "chunkToIndex", "fetch", "syncFiles", "syncChunks", "syncTip"}
        /\ job[j].file \in FileIds
        /\ job[j].step \in 0..(Len(Content[job[j].file]) - 1)

IsFileEvent(b, r) == b \in DOMAIN chain /\ Creates(chain, b, r.fileId)
IsChunkEvent(b, r) == b \in DOMAIN chain /\ Uploads(chain, b) /\ ChunkRowAt(b) = r

\* On a chain that does not reorganise, no local row runs ahead of the chain: a
\* process that dies anywhere leaves the databases behind it, never in front.
LocalBehindChain ==
    \A h \in Hosts :
        /\ \A r \in blobFiles[h] \cup indexFiles[h] : IsFileEvent(r.block, r)
        /\ \A r \in blobChunks[h] \cup indexChunks[h] : IsChunkEvent(r.block, r)

\* The blocks with a copy of chunk idx of f.
ChunkCopies(f, idx) == {b \in DOMAIN chain : Uploads(chain, b)
    /\ chain[b].event.fileId = f /\ chain[b].event.chunkIndex = idx}

OnChain(f) ==
    files[f].exists /\ \A idx \in 0..(files[f].chunkCount - 1) : ChunkCopies(f, idx) # {}

\* An upload that returns has put the whole file on the chain and into both
\* databases of its machine.
UploadedIsComplete ==
    \A j \in Jobs : job[j].pc = "uploaded" =>
        /\ OnChain(job[j].file)
        /\ \A table \in {blobChunks[HostOf[j]], indexChunks[HostOf[j]]} :
            \A i \in DOMAIN Content[job[j].file] :
                \E r \in table : r.fileId = job[j].file /\ r.chunkIndex = i - 1

\* The last copies of the chunks of f on the chain make its content, whoever uploaded
\* them and however they were cut, and whatever the copies before them were.
RightlyOnChain(f) ==
    /\ files[f].exists
    /\ \E e \in Encodings[f] :
        /\ files[f].chunkCount = Len(e)
        /\ \A i \in DOMAIN e : \E b \in ChunkCopies(f, i - 1) :
            chain[b].event.data = e[i] /\ \A c \in ChunkCopies(f, i - 1) : c <= b

\* The blob store of h has no row of f for an index that f does not have: one is left
\* only when a reorganisation dropped a creation of f with more chunks.
NoneBeyond(h, f) ==
    \A r \in blobChunks[h] : r.fileId = f => r.chunkIndex < files[f].chunkCount

\* A machine that knows a file downloads it whenever it is rightly on the chain: no row
\* for a chunk that was overwritten, dropped by a reorganisation, stored by a sync that
\* stopped or by a job that died is left in what is reconstructed.
KnownFileDownloads ==
    [][\A j \in Jobs :
        Download(j) /\ RightlyOnChain(job[j].file) /\ HasFile(HostOf[j], job[j].file)
            /\ NoneBeyond(HostOf[j], job[j].file)
            => job'[j].pc = "written"]_nodeVars

\* What the architecture document says of a download: it is "straightforward
\* from any machine"; a file that is rightly on the chain downloads on a machine
\* that has never seen it.
AnyMachineDownloads ==
    [][\A j \in Jobs :
        Download(j) /\ RightlyOnChain(job[j].file) => job'[j].pc = "written"]_nodeVars

\* What a comment of sync() says of last_synced_block, "the latest block number
\* processed": the events of the blocks before it, for which no later sync asks, are
\* in the blob store.
SyncedIsStored ==
    \A h \in Hosts : \A b \in DOMAIN chain : b < blobSynced[h] =>
        /\ \A f \in FileIds : Creates(chain, b, f) => HasFile(h, f)
        /\ Uploads(chain, b) => \E r \in blobChunks[h] :
                r.fileId = chain[b].event.fileId /\ r.chunkIndex = chain[b].event.chunkIndex
=============================================================================
