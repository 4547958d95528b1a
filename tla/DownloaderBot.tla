---------------------------- MODULE DownloaderBot ----------------------------
(***************************************************************************)
(* The Python downloader src/downloader_bot.py with its SQLite cache of    *)
(* chunks, while uploads go on.  A download reads the metadata, then the   *)
(* cache, then the logs of all blocks in ranges fetched by a thread pool,  *)
(* and keeps for each index the data that came last.  Downloads share the  *)
(* cache; those of chaincli have none.  _call_with_retries() has no effect *)
(* but delay until its attempts are used up, so a call either answers or   *)
(* fails for good.                                                         *)
(***************************************************************************)
EXTENDS ChainFS, SequencesExt

CONSTANTS
    Downloaders,        \* runs of download() or download_file()
    Bytes,              \* the bytes of the payloads
    Encodings,          \* per file id, the byte sequences that decompress to its content
    LogBatchSize,       \* log_batch_size
    Latest,             \* a to_block that is not given
    Windows             \* the block windows a caller asks for: [from, to]

ASSUME DownloadAssumption ==
    /\ LogBatchSize \in Nat \ {0}
    /\ Latest \notin Nat
    /\ Windows \subseteq [from: Nat, to: Nat \cup {Latest}]
    /\ Payloads \subseteq Seq(Bytes)
    /\ \A f \in FileIds : Encodings[f] \subseteq Seq(Bytes) \ {<<>>}
    /\ \A f, g \in FileIds : f # g => Encodings[f] \cap Encodings[g] = {}

VARIABLES
    fileCache,          \* the files table of the cache: file ids
    chunkCache,         \* its chunks table: rows [fileId, chunkIndex, data]
    down,               \* the state of each download
    output              \* what each download has saved, compressed, or <<>>

downVars == <<fileCache, chunkCache, down, output>>
downloadVars == <<chainVars, downVars>>

Chunk == [chunkIndex: Nat, data: Payloads]

Log == [block: Nat, chunkIndex: Nat, data: Payloads]

WholeChain == [from |-> 0, to |-> Latest]

Fresh(f) == [pc |-> "idle", file |-> f, window |-> WholeChain, db |-> FALSE, total |-> 0,
             got |-> {}, ranges |-> {}, answers |-> {}, error |-> "none"]

Resting == {"idle", "saved", "failed"}

DownloadInit ==
    /\ Init
    /\ fileCache = {}
    /\ chunkCache = {}
    /\ down \in [Downloaders -> {Fresh(f) : f \in FileIds}]
    /\ output = [d \in Downloaders |-> <<>>]

-----------------------------------------------------------------------------
ChunkOf(log) == [chunkIndex |-> log.chunkIndex, data |-> log.data]

\* faulty: INSERT without OR REPLACE, and no primary key.
OverwriteAppends(rows, logs) == rows \cup {ChunkOf(l) : l \in logs}

\* The rows with the chunks of the logs written over them in the order of the log:
\* for an index, the last log replaces what was there (extract_chunks, INSERT OR
\* REPLACE).
Overwrite(rows, logs) ==
    {r \in rows : \A l \in logs : l.chunkIndex # r.chunkIndex} \cup
    {ChunkOf(l) : l \in {last \in logs :
        \A k \in logs : k.chunkIndex = last.chunkIndex => k.block <= last.block}}

CachedChunks(f) ==
    {[chunkIndex |-> r.chunkIndex, data |-> r.data] :
        r \in {row \in chunkCache : row.fileId = f}}

CacheOf(f, chunks) ==
    {[fileId |-> f, chunkIndex |-> c.chunkIndex, data |-> c.data] : c \in chunks}

\* The ChunkUploaded logs of f in the blocks of a range.
LogsIn(f, range) ==
    {[block |-> b, chunkIndex |-> chain[b].event.chunkIndex, data |-> chain[b].event.data] :
        b \in {n \in range[1]..range[2] :
            n \in DOMAIN chain /\ Uploads(chain, n) /\ chain[n].event.fileId = f}}

BlockRangesShort(start, end) ==               \* faulty: cursor < end
    {<<s, IF s + LogBatchSize - 1 < end THEN s + LogBatchSize - 1 ELSE end>> :
        s \in {n \in start..(end - 1) : (n - start) % LogBatchSize = 0}}

\* _build_block_ranges(start, end, size)
BlockRanges(start, end) ==
    {<<s, IF s + LogBatchSize - 1 < end THEN s + LogBatchSize - 1 ELSE end>> :
        s \in {n \in start..end : (n - start) % LogBatchSize = 0}}

-----------------------------------------------------------------------------
Fail(d, error) ==
    down' = [down EXCEPT ![d].pc = "failed", ![d].error = error, ![d].got = {},
                         ![d].ranges = {}, ![d].answers = {}]

\* download_file() begins with the lookup of a file id, or resolves a transaction
\* hash, as download() does; download() of a file id begins with the metadata.  The
\* bot was made with a database or without.
StartDownload(d, f, entry, window, db) ==
    /\ down[d].pc \in Resting
    /\ down' = [down EXCEPT ![d] =
                    [Fresh(f) EXCEPT !.pc = entry, !.window = window, !.db = db]]
    /\ output' = [output EXCEPT ![d] = <<>>]
    /\ UNCHANGED <<chainVars, fileCache, chunkCache>>

\* download_file() calls getFile() once, without retries.  Any error makes it
\* take the value for a transaction hash, which a file id is not.
Lookup(d) ==
    /\ down[d].pc = "lookup"
    /\ \/ files[down[d].file].exists /\ down' = [down EXCEPT ![d].pc = "metadata"]
       \/ Fail(d, "unresolved")
    /\ UNCHANGED <<chainVars, fileCache, chunkCache, output>>

HasEvent(f) == \E b \in DOMAIN chain :
    chain[b].event # NoEvent /\ chain[b].event.fileId = f

\* resolve_file_id(): a ChainFS event of the transaction names the file.  It fails
\* when the transaction has no receipt, reverted or was dropped, or a call fails.
Resolve(d) ==
    /\ down[d].pc = "resolve"
    /\ \/ HasEvent(down[d].file) /\ down' = [down EXCEPT ![d].pc = "metadata"]
       \/ Fail(d, "unresolved")
    /\ UNCHANGED <<chainVars, fileCache, chunkCache, output>>

\* get_file_metadata(), recorded in the cache.
GetMetadata(d) ==
    /\ down[d].pc = "metadata"
    /\ \/ /\ files[down[d].file].exists
          /\ down' = [down EXCEPT ![d].pc = "cache",
                                  ![d].total = files[down[d].file].chunkCount]
          /\ fileCache' = IF down[d].db THEN fileCache \cup {down[d].file} ELSE fileCache
       \/ /\ ~files[down[d].file].exists
          /\ Fail(d, "not found") /\ UNCHANGED fileCache
       \/ Fail(d, "rpc") /\ UNCHANGED fileCache
    /\ UNCHANGED <<chainVars, chunkCache, output>>

EnoughCached(cached, total) == Cardinality(cached) >= total

\* A cache that holds as many chunks as the file has saves the log queries.
LoadCache(d) ==
    LET cached == IF down[d].db THEN CachedChunks(down[d].file) ELSE {}
    IN  /\ down[d].pc = "cache"
        /\ down' = [down EXCEPT ![d].got = cached,
                ![d].pc = IF EnoughCached(cached, down[d].total) THEN "check" ELSE "tip"]
        /\ UNCHANGED <<chainVars, fileCache, chunkCache, output>>

\* The block number, and the ranges of the window handed to the thread pool.
GetTip(d) ==
    LET start == down[d].window.from
        end == IF down[d].window.to = Latest THEN Len(chain) ELSE down[d].window.to
    IN  /\ down[d].pc = "tip"
        /\ \/ /\ start <= end
              /\ down' = [down EXCEPT ![d].pc = "fetch", ![d].ranges = BlockRanges(start, end)]
           \/ start > end /\ Fail(d, "window")
           \/ Fail(d, "rpc")
        /\ UNCHANGED <<chainVars, fileCache, chunkCache, output>>

\* A thread gets the logs of its range.
RangeAnswered(d, r) ==
    /\ down[d].pc = "fetch"
    /\ r \in down[d].ranges
    /\ down' = [down EXCEPT ![d].ranges = @ \ {r},
                            ![d].answers = @ \cup {[range |-> r, logs |-> LogsIn(down[d].file, r)]}]
    /\ UNCHANGED <<chainVars, fileCache, chunkCache, output>>

Persist(d, logs) ==
    LET f == down[d].file
    IN  chunkCache' = IF down[d].db
                      THEN {r \in chunkCache : r.fileId # f}
                                \cup CacheOf(f, Overwrite(CachedChunks(f), logs))
                      ELSE chunkCache

\* The main thread takes a completed range, in any order (as_completed), adds
\* its chunks to the events and writes them to the cache.
RangeTaken(d, a) ==
    /\ down[d].pc = "fetch"
    /\ a \in down[d].answers
    /\ down' = [down EXCEPT ![d].answers = @ \ {a},
                            ![d].got = Overwrite(@, a.logs)]
    /\ Persist(d, a.logs)
    /\ UNCHANGED <<chainVars, fileCache, output>>

\* The process is killed between two commits of a range.
KillInRange(d, a) ==
    /\ down[d].pc = "fetch"
    /\ a \in down[d].answers
    /\ \E l \in a.logs : Persist(d, {k \in a.logs : k.block <= l.block})
    /\ Fail(d, "killed")
    /\ UNCHANGED <<chainVars, fileCache, output>>

\* A range used up its attempts: future.result() raises, the others are dropped.
RangeFails(d) ==
    /\ down[d].pc = "fetch"
    /\ down[d].ranges # {}
    /\ Fail(d, "rpc")
    /\ UNCHANGED <<chainVars, fileCache, chunkCache, output>>

AllTaken(d) ==
    /\ down[d].pc = "fetch"
    /\ down[d].ranges = {} /\ down[d].answers = {}
    /\ down' = [down EXCEPT ![d].pc = "check"]
    /\ UNCHANGED <<chainVars, fileCache, chunkCache, output>>

ValidatedNonEmpty(chunks, total) == chunks # {}     \* faulty: gaps are not seen

\* validate_chunks() counts the indices; it does not look at which they are.
Validated(chunks, total) == Cardinality({c.chunkIndex : c \in chunks}) = total

\* sorted(chunks): in the order of their indices, of which an index has one.
InOrder(chunks) ==
    CHOOSE s \in [1..Cardinality(chunks) -> chunks] :
        \A i, j \in DOMAIN s : i < j => s[i].chunkIndex < s[j].chunkIndex

\* reconstruct_data(): the data joined in the order of the indices.
Reconstruct(chunks) ==
    FlattenSeq([i \in DOMAIN InOrder(chunks) |-> InOrder(chunks)[i].data])

\* decompress_data() and verify_hash(): the bytes are a content of the file id.
Verified(data, f) == data \in Encodings[f]

\* Validate, reconstruct, decompress, verify; only then save.
Finish(d) ==
    LET this == down[d]
        data == Reconstruct(this.got)
    IN  /\ this.pc = "check"
        /\ \/ /\ ~Validated(this.got, this.total)
              /\ Fail(d, "incomplete") /\ UNCHANGED output
           \/ /\ Validated(this.got, this.total) /\ ~Verified(data, this.file)
              /\ Fail(d, "corrupted") /\ UNCHANGED output
           \/ /\ Validated(this.got, this.total) /\ Verified(data, this.file)
              /\ down' = [down EXCEPT ![d].pc = "saved"]
              /\ output' = [output EXCEPT ![d] = data]
        /\ UNCHANGED <<chainVars, fileCache, chunkCache>>

\* The process is killed; the rows written so far stay in the cache.
KillDownload(d) ==
    /\ down[d].pc \notin Resting
    /\ Fail(d, "killed")
    /\ UNCHANGED <<chainVars, fileCache, chunkCache, output>>

-----------------------------------------------------------------------------
Progress(d) ==
    \/ Lookup(d) \/ Resolve(d) \/ GetMetadata(d) \/ LoadCache(d) \/ GetTip(d)
    \/ \E r \in down[d].ranges : RangeAnswered(d, r)
    \/ \E a \in down[d].answers : RangeTaken(d, a)
    \/ RangeFails(d) \/ AllTaken(d) \/ Finish(d)

Entries == {"lookup", "resolve", "metadata"}

AskFor(d, f) ==
    \E entry \in Entries, window \in Windows, db \in BOOLEAN :
        StartDownload(d, f, entry, window, db)

Ask(d) == \E f \in FileIds : AskFor(d, f)

Die(d) == KillDownload(d) \/ \E a \in down[d].answers : KillInRange(d, a)

DownloadNext ==
    \/ Next /\ UNCHANGED downVars
    \/ \E d \in Downloaders : Ask(d) \/ Progress(d) \/ Die(d)

DownloadSpec == DownloadInit /\ [][DownloadNext]_downloadVars

\* A download that was started runs on: calls answer, threads complete.
FairDownloadSpec ==
    DownloadSpec /\ \A d \in Downloaders : WF_downloadVars(Progress(d))

-----------------------------------------------------------------------------
\* The variables have their types, and an index has one chunk at most, in the
\* events of a download as in the cache.
DownloadTypeOK ==
    /\ TypeOK
    /\ fileCache \subseteq FileIds
    /\ chunkCache \subseteq [fileId: FileIds, chunkIndex: Nat, data: Payloads]
    /\ \A r, s \in chunkCache :
            r.fileId = s.fileId /\ r.chunkIndex = s.chunkIndex => r = s
    /\ \A d \in Downloaders :
        /\ down[d].file \in FileIds
        /\ down[d].total \in Nat
        /\ down[d].got \subseteq Chunk
        /\ \A a, b \in down[d].got : a.chunkIndex = b.chunkIndex => a = b
        /\ down[d].pc \in Resting \cup Entries \cup {"cache", "tip", "fetch", "check"}
        /\ output[d] \in Seq(Bytes)

\* Counting indices is enough: chunks that pass validate_chunks() are those of
\* the indices 0 to total - 1.  It rests on the contract, which refuses other
\* indices, and on metadata and chunks that belong to the same creation.
ValidatedAreAll ==
    \A d \in Downloaders :
        down[d].pc = "check" /\ Validated(down[d].got, down[d].total) =>
            {c.chunkIndex : c \in down[d].got} = 0..(down[d].total - 1)

\* The copies of chunk idx of f on the chain.
Copies(f, idx) ==
    {chain[b].event.data : b \in {n \in DOMAIN chain :
        Uploads(chain, n) /\ chain[n].event.fileId = f /\ chain[n].event.chunkIndex = idx}}

\* All chunks of f are on the chain.
OnChain(f) ==
    files[f].exists /\ \A idx \in 0..(files[f].chunkCount - 1) : Copies(f, idx) # {}

\* Some choice of copies does not make the content of f.
Spoiled(f) ==
    \E pick \in [1..files[f].chunkCount -> Payloads] :
        /\ \A i \in DOMAIN pick : pick[i] \in Copies(f, i - 1)
        /\ FlattenSeq(pick) \notin Encodings[f]

\* A download that takes a file for corrupted is right: the chain itself holds
\* copies of all its chunks that do not make the content.  Partial caches of killed
\* downloads, a download beside it on the cache and threads that end in any order
\* never mix chunks into what only looks like a corrupted file.
CorruptedIsSpoiled ==
    \A d \in Downloaders : down[d].error = "corrupted" => Spoiled(down[d].file)

\* A download, over the whole chain, of a file that is wholly and rightly on it
\* ends, and saves it unless a call used up its attempts or the process was killed: what earlier
\* downloads, complete or not, or a download beside it wrote to the cache never
\* makes it incomplete or corrupted.
CompleteIsDownloaded ==
    \A d \in Downloaders :
        (down[d].pc \in Entries /\ down[d].window = WholeChain /\ OnChain(down[d].file)) ~>
            \/ down[d].pc = "saved"
            \/ down[d].pc = "failed" /\ down[d].error \in {"rpc", "killed", "unresolved"}
            \/ Spoiled(down[d].file)
=============================================================================
