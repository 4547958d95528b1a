----------------------------- MODULE SyncEngine -----------------------------
(***************************************************************************)
(* The incremental indexer src/sync-engine.js over the index database of   *)
(* src/db-manager.js.  Processes of the command line (chainfs sync) share  *)
(* one database.  A process asks for the chain tip, cuts the blocks        *)
(* between last_synced_block and the safe block into batches, and runs     *)
(* them on concurrent workers; a worker fetches the two kinds of logs in   *)
(* parallel, with retries, and inserts the rows.  JavaScript runs to the   *)
(* next await, so a continuation is one action; requests, answers, other   *)
(* processes, the chain and crashes interleave between them.               *)
(***************************************************************************)
EXTENDS ChainFS, FiniteSets

CONSTANTS
    Procs,              \* processes that run sync() on the same database
    Workers,            \* the maxConcurrent workers of a process
    SafeWindow,         \* SAFE_WINDOW
    BatchSize,          \* BATCH_SIZE
    MaxRetries,         \* MAX_RETRIES, attempts per batch
    NoLogs,             \* a query that was not answered yet
    MaxRpcFailures,     \* bound: rejected log queries
    MaxCrashes,         \* bound: processes that die or give up
    MaxLostInserts      \* bound: inserts that throw (SQLITE_BUSY, full disk)

ASSUME SyncAssumption ==
    /\ SafeWindow \in Nat
    /\ BatchSize \in Nat \ {0}
    /\ MaxRetries \in Nat \ {0}
    /\ MaxRpcFailures \in Nat
    /\ MaxCrashes \in Nat
    /\ MaxLostInserts \in Nat

\* The window is there for "reorg protection": no reorganisation is deeper.
ASSUME WindowAssumption == MaxReorg <= SafeWindow

VARIABLES
    fileRows,           \* the files table: rows [fileId, meta, block]
    chunkRows,          \* the chunks table: rows [fileId, chunkIndex, hash, block]
    lastSynced,         \* last_synced_block of sync_state, 0 when there is no row
    proc,               \* what each process is doing
    worker,             \* what each worker of each process is doing
    spent,              \* faults so far, against the three bounds
    skipped,            \* observed: blocks of the batches logged as failed
    dropped             \* observed: blocks of the logs reported as malformed

indexVars == <<fileRows, chunkRows, lastSynced>>
runVars == <<proc, worker>>
observed == <<spent, skipped, dropped>>
syncVars == <<chainVars, indexVars, runVars, observed>>

Blocks == 1..MaxBlocks

FileRow == [fileId: FileIds, meta: FileMetadata, block: Blocks]

\* A payload stands for its SHA-256: the hash is injective on what is uploaded.
ChunkRow == [fileId: FileIds, chunkIndex: Nat, hash: Payloads, block: Blocks]

Log == [block: Blocks, event: FileCreated \cup ChunkUploaded]

IdleProc == [pc |-> "idle", tip |-> 0, safe |-> 0, next |-> 1]

FreeWorker == [start |-> 0, end |-> 0, attempt |-> 0,
               fileLogs |-> NoLogs, chunkLogs |-> NoLogs]

SyncInit ==
    /\ Init
    /\ fileRows = {}
    /\ chunkRows = {}
    /\ lastSynced = 0
    /\ proc = [p \in Procs |-> IdleProc]
    /\ worker = [p \in Procs |-> [w \in Workers |-> FreeWorker]]
    /\ spent = [rpc |-> 0, crash |-> 0, insert |-> 0]
    /\ skipped = {}
    /\ dropped = {}

-----------------------------------------------------------------------------
(* The database: INSERT OR IGNORE under the tables' primary keys.           *)

\* The primary key: (file_id) of the files, (file_id, chunk_index) of the chunks.
PrimaryKey(r) == IF r \in ChunkRow THEN <<r.fileId, r.chunkIndex>> ELSE <<r.fileId>>

ReplaceAll(table, new) ==                     \* faulty: INSERT OR REPLACE
    {old \in table : \A r \in new : PrimaryKey(old) # PrimaryKey(r)} \cup
    {r \in new : \A s \in new : s.block > r.block => PrimaryKey(s) # PrimaryKey(r)}

\* Inserting the rows new in block order: a key that is taken, in the table or
\* by an earlier row of the same batch, is ignored.
InsertAll(table, new) ==
    table \cup {r \in new : /\ \A old \in table : PrimaryKey(old) # PrimaryKey(r)
                            /\ \A s \in new : s.block < r.block
                                    => PrimaryKey(s) # PrimaryKey(r)}

FileRowOf(log) ==
    [fileId |-> log.event.fileId, meta |-> MetadataOf(log.event), block |-> log.block]

ChunkRowOf(log) ==
    [fileId |-> log.event.fileId, chunkIndex |-> log.event.chunkIndex,
     hash |-> log.event.data, block |-> log.block]

InsertLogs(fileLogs, chunkLogs) ==
    /\ fileRows' = InsertAll(fileRows, {FileRowOf(l) : l \in fileLogs})
    /\ chunkRows' = InsertAll(chunkRows, {ChunkRowOf(l) : l \in chunkLogs})

-----------------------------------------------------------------------------
(* sync(): the tip, the safe block, the batches.                            *)

\* The endpoint answers getBlockNumber(); the answer is still under way.
RequestTip(p) ==
    /\ proc[p].pc = "idle"
    /\ proc' = [proc EXCEPT ![p] = [IdleProc EXCEPT !.pc = "tip", !.tip = Len(chain)]]
    /\ UNCHANGED <<chainVars, indexVars, worker, observed>>

SafeBlockAtTip(tip) == tip                    \* faulty: no safe window

SafeBlock(tip) == IF tip > SafeWindow THEN tip - SafeWindow ELSE 0

\* faulty: no early return when the safe block is behind the cursor.
BeginAlways(p) ==
    LET safe == SafeBlock(proc[p].tip)
        from == lastSynced + 1
    IN  /\ proc[p].pc = "tip"
        /\ proc' = [proc EXCEPT ![p] = [pc |-> "run", tip |-> proc[p].tip,
                                        safe |-> safe, next |-> from]]
        /\ UNCHANGED <<chainVars, indexVars, worker, observed>>

\* The tip arrived: read last_synced_block, return if there is nothing to do.
Begin(p) ==
    LET safe == SafeBlock(proc[p].tip)
        from == lastSynced + 1
    IN  /\ proc[p].pc = "tip"
        /\ proc' = [proc EXCEPT ![p] =
                IF from > safe THEN IdleProc
                ELSE [pc |-> "run", tip |-> proc[p].tip, safe |-> safe, next |-> from]]
        /\ UNCHANGED <<chainVars, indexVars, worker, observed>>

Free(p, w) == worker[p][w] = FreeWorker

LastOfBatchShort(p) ==                        \* faulty: end = start + size - 2
    LET end == proc[p].next + BatchSize - 2
    IN  IF end < proc[p].safe THEN end ELSE proc[p].safe

LastOfBatchLong(p) ==                         \* faulty: end = start + size
    LET end == proc[p].next + BatchSize
    IN  IF end < proc[p].safe THEN end ELSE proc[p].safe

LastOfBatch(p) ==
    LET end == proc[p].next + BatchSize - 1
    IN  IF end < proc[p].safe THEN end ELSE proc[p].safe

\* A worker takes the next batch of the shared list (batches[nextIdx++]).
TakeBatch(p, w) ==
    /\ proc[p].pc = "run"
    /\ proc[p].next <= proc[p].safe
    /\ Free(p, w)
    /\ worker' = [worker EXCEPT ![p][w] =
            [FreeWorker EXCEPT !.start = proc[p].next, !.end = LastOfBatch(p),
                               !.attempt = 1]]
    /\ proc' = [proc EXCEPT ![p].next = @ + BatchSize]
    /\ UNCHANGED <<chainVars, indexVars, observed>>

-----------------------------------------------------------------------------
(* _processBatch(): fetch both kinds of logs, retry, insert.                *)

\* What the endpoint returns for the logs of one event in a batch, at this moment.
LogsOf(p, w, type) ==
    {[block |-> b, event |-> chain[b].event] :
        b \in {n \in worker[p][w].start..worker[p][w].end :
                  n <= Len(chain) /\ chain[n].event.type = type}}

AnswerFiles(p, w) ==
    /\ ~Free(p, w)
    /\ worker[p][w].fileLogs = NoLogs
    /\ worker' = [worker EXCEPT ![p][w].fileLogs = LogsOf(p, w, "FileCreated")]
    /\ UNCHANGED <<chainVars, indexVars, proc, observed>>

AnswerChunks(p, w) ==
    /\ ~Free(p, w)
    /\ worker[p][w].chunkLogs = NoLogs
    /\ worker' = [worker EXCEPT ![p][w].chunkLogs = LogsOf(p, w, "ChunkUploaded")]
    /\ UNCHANGED <<chainVars, indexVars, proc, observed>>

Fetched(p, w) ==
    /\ ~Free(p, w)
    /\ worker[p][w].fileLogs # NoLogs
    /\ worker[p][w].chunkLogs # NoLogs

AnotherAttempt(attempt) == attempt <= MaxRetries          \* faulty: one too many

\* _withRetry() goes round again.
AttemptsLeft(attempt) == attempt < MaxRetries

\* One of the two queries is rejected: Promise.all rejects, the batch backs off
\* and both are asked again, or the attempts are used up and it is skipped.
FetchFails(p, w) ==
    LET batch == worker[p][w]
    IN  /\ ~Free(p, w)
        /\ ~Fetched(p, w)
        /\ spent.rpc < MaxRpcFailures
        /\ spent' = [spent EXCEPT !.rpc = @ + 1]
        /\ IF AttemptsLeft(batch.attempt)
           THEN /\ worker' = [worker EXCEPT ![p][w] =
                        [batch EXCEPT !.attempt = @ + 1,
                                      !.fileLogs = NoLogs, !.chunkLogs = NoLogs]]
                /\ UNCHANGED skipped
           ELSE /\ worker' = [worker EXCEPT ![p][w] = FreeWorker]
                /\ skipped' = skipped \cup (batch.start..batch.end)
        /\ UNCHANGED <<chainVars, indexVars, proc, dropped>>

\* Both answers are in: the rows are inserted, files first.  An insert that
\* throws is caught, logged as a malformed log, and the batch goes on.
ApplyBatch(p, w) ==
    LET batch == worker[p][w]
    IN  /\ Fetched(p, w)
        /\ \E lost \in SUBSET (batch.fileLogs \cup batch.chunkLogs) :
            /\ spent.insert + Cardinality(lost) <= MaxLostInserts
            /\ spent' = [spent EXCEPT !.insert = @ + Cardinality(lost)]
            /\ InsertLogs(batch.fileLogs \ lost, batch.chunkLogs \ lost)
            /\ dropped' = dropped \cup {l.block : l \in lost}
        /\ worker' = [worker EXCEPT ![p][w] = FreeWorker]
        /\ UNCHANGED <<chainVars, lastSynced, proc, skipped>>

\* faulty: the progress is committed while batches are still in flight.
CommitEarly(p) ==
    /\ proc[p].pc = "run"
    /\ proc[p].next > proc[p].safe
    /\ lastSynced' = proc[p].safe
    /\ proc' = [proc EXCEPT ![p] = IdleProc]
    /\ worker' = [worker EXCEPT ![p] = [w \in Workers |-> FreeWorker]]
    /\ UNCHANGED <<chainVars, fileRows, chunkRows, observed>>

\* faulty: the end is recognised by counting up to the safe block exactly.
CommitExactly(p) ==
    /\ proc[p].pc = "run"
    /\ proc[p].next = proc[p].safe + 1
    /\ \A w \in Workers : Free(p, w)
    /\ lastSynced' = proc[p].safe
    /\ proc' = [proc EXCEPT ![p] = IdleProc]
    /\ UNCHANGED <<chainVars, fileRows, chunkRows, worker, observed>>

\* All batches have been processed or skipped: last_synced_block moves on.
Commit(p) ==
    /\ proc[p].pc = "run"
    /\ proc[p].next > proc[p].safe
    /\ \A w \in Workers : Free(p, w)
    /\ lastSynced' = proc[p].safe
    /\ proc' = [proc EXCEPT ![p] = IdleProc]
    /\ UNCHANGED <<chainVars, fileRows, chunkRows, worker, observed>>

\* The process ends early: killed, getBlockNumber() rejected, the write of
\* last_synced_block threw.  The rows inserted so far stay.
Crash(p) ==
    /\ proc[p].pc # "idle"
    /\ spent.crash < MaxCrashes
    /\ spent' = [spent EXCEPT !.crash = @ + 1]
    /\ proc' = [proc EXCEPT ![p] = IdleProc]
    /\ worker' = [worker EXCEPT ![p] = [w \in Workers |-> FreeWorker]]
    /\ UNCHANGED <<chainVars, indexVars, skipped, dropped>>

FirstOf(done, all) ==
    \A l \in all, m \in done : l.block < m.block => l \in done

\* The process is killed inside a batch: a prefix of its inserts is on disk.
CrashInBatch(p, w) ==
    LET batch == worker[p][w]
    IN  /\ Fetched(p, w)
        /\ spent.crash < MaxCrashes
        /\ spent' = [spent EXCEPT !.crash = @ + 1]
        /\ \E f \in SUBSET batch.fileLogs, c \in SUBSET batch.chunkLogs :
            /\ FirstOf(f, batch.fileLogs)
            /\ FirstOf(c, batch.chunkLogs)
            /\ c # {} => f = batch.fileLogs
            /\ InsertLogs(f, c)
        /\ proc' = [proc EXCEPT ![p] = IdleProc]
        /\ worker' = [worker EXCEPT ![p] = [v \in Workers |-> FreeWorker]]
        /\ UNCHANGED <<chainVars, lastSynced, skipped, dropped>>

-----------------------------------------------------------------------------
ChainStep == Next /\ UNCHANGED <<indexVars, runVars, observed>>

WorkerStep(p, w) ==
    \/ TakeBatch(p, w)
    \/ AnswerFiles(p, w)
    \/ AnswerChunks(p, w)
    \/ ApplyBatch(p, w)

ProcessStep(p) ==
    \/ Begin(p)
    \/ Commit(p)
    \/ \E w \in Workers : WorkerStep(p, w)

Fault(p) ==
    \/ Crash(p)
    \/ \E w \in Workers : FetchFails(p, w) \/ CrashInBatch(p, w)

SyncNext ==
    \/ ChainStep
    \/ \E p \in Procs : RequestTip(p) \/ ProcessStep(p) \/ Fault(p)

SyncSpec == SyncInit /\ [][SyncNext]_syncVars

\* A started sync() goes on: the event loop runs what is ready, and the
\* endpoint answers the requests it does not reject.  Nobody has to start one.
FairSyncSpec ==
    /\ SyncSpec
    /\ \A p \in Procs :
        /\ WF_syncVars(Begin(p))
        /\ WF_syncVars(Commit(p))
        /\ \A w \in Workers :
            /\ WF_syncVars(TakeBatch(p, w))
            /\ WF_syncVars(AnswerFiles(p, w))
            /\ WF_syncVars(AnswerChunks(p, w))
            /\ WF_syncVars(ApplyBatch(p, w))

-----------------------------------------------------------------------------
\* The variables have their types, and a batch's attempts stay within MAX_RETRIES.
SyncTypeOK ==
    /\ TypeOK
    /\ fileRows \subseteq FileRow
    /\ chunkRows \subseteq ChunkRow
    /\ lastSynced \in 0..MaxBlocks
    /\ \A p \in Procs :
        /\ proc[p].pc \in {"idle", "tip", "run"}
        /\ proc[p].tip \in 0..MaxBlocks
        /\ proc[p].safe \in 0..MaxBlocks
        /\ proc[p].next \in Nat \ {0}
        /\ \A w \in Workers :
            /\ worker[p][w].start \in 0..MaxBlocks
            /\ worker[p][w].end \in 0..MaxBlocks
            /\ worker[p][w].attempt \in 0..MaxRetries
            /\ worker[p][w].fileLogs = NoLogs \/ worker[p][w].fileLogs \subseteq Log
            /\ worker[p][w].chunkLogs = NoLogs \/ worker[p][w].chunkLogs \subseteq Log
    /\ skipped \subseteq Blocks
    /\ dropped \subseteq Blocks

\* The event of block b, if it has one, is in the index.
Indexed(b) ==
    LET e == chain[b].event
    IN  /\ e.type = "FileCreated" => \E r \in fileRows : r.fileId = e.fileId
        /\ e.type = "ChunkUploaded" =>
                \E r \in chunkRows : r.fileId = e.fileId /\ r.chunkIndex = e.chunkIndex

\* Every row of the index comes from an event of the canonical chain, at the
\* block it names, whatever the chain reorganised after a batch was fetched and
\* whichever processes raced: an index that stays SAFE_WINDOW behind the tip
\* never holds an event that was undone.
IndexSound ==
    /\ \A r \in fileRows :
        /\ r.block <= Len(chain)
        /\ Creates(chain, r.block, r.fileId)
        /\ r.meta = MetadataOf(chain[r.block].event)
    /\ \A r \in chunkRows :
        /\ r.block <= Len(chain)
        /\ Uploads(chain, r.block)
        /\ ChunkRowOf([block |-> r.block, event |-> chain[r.block].event]) = r

\* No event is lost without a trace: every block up to last_synced_block is on
\* the chain, and its event is indexed unless the run that passed it reported
\* the batch as failed or the log as malformed.
NothingLostSilently ==
    /\ lastSynced <= Len(chain)
    /\ \A b \in 1..lastSynced : Indexed(b) \/ b \in skipped \cup dropped

\* What DatabaseManager says of last_synced_block: "the last block number that
\* was fully synced", so every event up to it is in the index.
FullySynced == \A b \in 1..lastSynced : b <= Len(chain) => Indexed(b)

\* The workers of a process never work on a block twice: their batches are
\* disjoint and lie below the next batch to be taken.
BatchesDisjoint ==
    \A p \in Procs, v, w \in Workers :
        /\ worker[p][w].end < proc[p].next
        /\ v # w /\ ~Free(p, v) /\ ~Free(p, w) =>
                worker[p][v].end < worker[p][w].start
                    \/ worker[p][w].end < worker[p][v].start

\* A single process never moves last_synced_block back, although the tip it
\* reads may be lower than one it has read before.
CursorNeverRegresses == [][lastSynced' >= lastSynced]_syncVars

\* As long as no process dies, a run that has started ends, whatever queries
\* fail: by then last_synced_block is past its range, and each event of the range
\* is in the index or its batch or log was reported.
RunSettlesItsRange ==
    \A p \in Procs, b \in Blocks :
        proc[p].pc = "run" /\ b <= proc[p].safe
            ~> b <= lastSynced /\ (Indexed(b) \/ b \in skipped \cup dropped)

\* The rows of both tables, as the abstract index has them.
IndexRows ==
    {[key |-> PrimaryKey(r), at |-> r.block,
      content |-> <<r.meta.name, r.meta.size, r.meta.chunkCount, r.meta.owner>>] :
        r \in fileRows} \cup
    {[key |-> PrimaryKey(r), at |-> r.block, content |-> <<r.hash>>] : r \in chunkRows}

LedgerIndex == INSTANCE LedgerIndex WITH
    ledger <- FinalEvents, rows <- IndexRows, reported <- skipped \cup dropped,
    cursor <- lastSynced

\* sync() implements the abstract index: with a tip that is out of date, queries
\* answered across a reorganisation, concurrent batches, retries, lost inserts
\* and deaths in mid-batch, each step adds rows of final events alone, replaces
\* none, or moves the cursor to where everything below is indexed or reported.
ImplementsIndex == LedgerIndex!IndexSpec
=============================================================================
