# ChainFS: a TLA+ development

ChainFS keeps files in the event logs of an EVM chain.  A contract stores the
metadata of a file, the bytes travel in `ChunkUploaded` events, and programs in
Python and Node.js upload, download and index.  This directory specifies those
programs, alone and together, model-checks them with TLC, relates the contract and
the index to abstract specifications, and proves with TLAPS, for every value of the
constants, the safety of each of them and of uploads and downloads together.

## 1. The system

| Component | State it keeps | Operations | Module |
|---|---|---|---|
| `contracts/ChainFS.sol` | mapping file id → metadata; the event log | `createFile`, `uploadChunk`, `getFile` | `ChainFS` |
| `src/sync-engine.js` | batches in flight | `sync` and its workers | `SyncEngine` |
| `src/db-manager.js` (index DB) | files, chunk hashes, `last_synced_block` | inserts, cursor | `SyncEngine`, `NodeBots` |
| `src/storage_bot.py` | one upload: chunk, attempt, nonce, transaction | `upload_file` | `StorageBot` |
| `src/downloader_bot.py` | one download; SQLite cache | `download`, `download_file` | `DownloaderBot` |
| `src/storage-bot.js` | one upload; writes to both Node databases | `upload`, `uploadChunk` | `NodeBots` |
| `src/downloader-bot.js` | one download or sync | `download`, `sync` | `NodeBots` |
| `src/db.js` (blob DB) | files, chunk bytes, cursor; a foreign key | inserts, reads | `NodeBots` |
| `src/manager_bot.py` | wallet file, contract config; one run | wallet menu, funding, deployment | `ManagerBot` |
| `src/storage_bot.py` and `src/downloader_bot.py` together | the chain, the mempool | store, then fetch | `Pipeline` |
| `src/cli.js`, `chaincli` | none | start the above | start actions |
| `scripts/deploy.js`, tests, docs | none | | not modelled |

**How they interact.**  Writers (the two uploaders) send transactions; readers
(the two downloaders, the sync engine, `sync()` of the Node downloader) ask for
logs, for `getFile()` and for the block number.  No component calls another over
a network of their own: they meet in the chain, in the SQLite files and in the two
files under `config/` that the manager writes and the others read.  The chain may
reorganise between any two requests.

**What is hard.**

- Interleaving: `sync-engine.js` runs concurrent workers per process, and several
  processes on one database; downloads share a cache; uploads share a wallet.
- Order: logs, metadata, block number and cache are read at different moments;
  the Python downloader takes ranges in the order in which threads end.
- Faults: RPC errors, lost answers, timeouts with late mining, evicted and
  replaced transactions, reorganisations, processes that die between writes to
  two databases and a chain, inserts that throw.
- Files: the manager reads its config long before it replaces it, and writes by
  emptying the file first; two runs of it share a wallet, a nonce and a file.
- Boundaries: the safe window, the last batch, the last range, the last slice of a
  stream, chunk indices.

The line of every hazard is in `PROJECT.json`, with the properties that watch it.

What makes each component correct:

- contract: log and storage say the same; chunks come from the file's owner;
- contract, for those who wait until its events are final: an append-only ledger;
- index: no row of an undone event, no event lost without a report; altogether, an
  index of that ledger;
- uploader: success means the whole file is there; duplicates are equal;
- downloader: a file is called corrupted only if the chain's copies of its chunks do
  not make it; a file that is rightly on the chain is never found incomplete;
- both together: what a run reported as stored, a later run fetches;
- manager: no address is written down at which nothing was deployed, no deployment
  without consent, no working contract dropped by a run that could have known it;
- Node commands: databases never run ahead of the chain; no row that a crash, a
  partial sync or a reorganisation leaves blocks a later download.

## 2. The modules

```
FileLedger ─── LedgerIndex              (abstract)
    ↑ implements    ↑ implements
ChainFS ──┬── SyncEngine
          ├── StorageBot ────┬── Pipeline
          ├── DownloaderBot ─┘
          └── NodeBots
ManagerBot
MC_<module> + MC_<module>_<run>.cfg     (TLC)
<module>Proofs                          (TLAPS)
```

Each client of the contract EXTENDS `ChainFS`, so contract and chain are the same in
all.  `Pipeline` EXTENDS two clients, which share the chain and nothing else.
`ManagerBot` stands apart: what it creates is the contract that the others presuppose.
Each of the seven modules that model code has its proofs in a module of its own, which
EXTENDS it and, as the models do, the proofs about the modules below.

### ChainFS

`files` is the mapping, `chain` the canonical chain, `finalized` the number of
blocks that no reorganisation undoes.  A block holds at most one ChainFS event:
events of one block are thereby split over consecutive blocks, which keeps their
order, the only thing the programs use of a log's position (they ask for whole
blocks, and a range that ends between two events of a block does not exist in the
code; the split adds such ranges, which only makes the readers' task harder).
Every block carries the storage after it, which `Rollback` brings back.
`CanCreate` and `CanUpload` are the reverts in `ChainFS.sol:70-73` and `:96-100`.
`Mine`, `OtherBlock` and `Rollback` are the environment.

### FileLedger and LedgerIndex

`FileLedger` is the contract without storage, forks or calls: a sequence to which
legal events are appended.  `ChainFS` implements it with the finalized blocks as the
ledger (`ImplementsLedger`); several blocks never become final in one step, because
a block is mined at a time.  `LedgerIndex` adds what an index of the ledger promises:
rows of final events only, the first under a key and never changed, and a cursor
that moves only to where every event below has a row or a report.  `SyncEngine`
implements it with the rows of both tables, the reported positions and
`last_synced_block` (`ImplementsIndex`).  The abstract cursor may move back, because
that of two processes may.

### SyncEngine

One process of `chainfs sync` is `proc[p]`, its workers are `worker[p][w]`.  The
actions are the code between two awaits: `RequestTip` (the endpoint reads the
tip), `Begin` (cursor, early return, batches), `TakeBatch` (`nextIdx++`),
`AnswerFiles`/`AnswerChunks` (the two halves of the `Promise.all`, evaluated at
different moments), `FetchFails` (`_withRetry`), `ApplyBatch` (all inserts run
without an await), `Commit`.  `Crash` ends a process between actions,
`CrashInBatch` leaves a prefix of a batch's inserts.  A lost insert is one that
throws and is reported as a malformed log.  `skipped` and `dropped` only observe
what was reported on stderr.

### StorageBot

`Prepare` reads the nonce, `Send` hands the signed transaction to the mempool,
`ReceiptArrives` or `WaitFails` end the wait. `SendAnswerLost` is a send that raises
although the endpoint took the transaction; `CallFails` every RPC error before that. The
attempt number stands for the gas price that makes a resent transaction a different one;
an equal or cheaper transaction of the same nonce is one of the errors of `CallFails`.
`Execute` reverts on the contract's guards only: the 500,000 gas of a failed estimate
(`storage_bot.py:293,350`) are enough for what the bot calls, about 300,000 for
`createFile()` with a name of 255 bytes and 430,000 for a chunk of 16,384 bytes that no byte of is zero, and
where the protocol charges more for calldata than that, the transaction is refused
before it is mined, as `CallFails` is. The mempool follows the rules of an Ethereum
node: nonces in order, one transaction per nonce, replacement, eviction, return after a
reorganisation. A file is the byte sequence that `gzip.compress()` made of it, which
`SplitChunks` cuts into payloads: `gzip` writes the time into its header, so two runs of
one content send different bytes.

### DownloaderBot

`Lookup` is the unretried `getFile()` of `download_file()`; `chaincli` starts at
`GetMetadata` and has no database (`db = FALSE`).  `RangeAnswered` is a thread of
the pool, `RangeTaken` the loop over `as_completed()`, `KillInRange` a death
between two commits of that loop.  A download may name its file by a transaction
hash (`Resolve`: only while a block with an event of the file is on the chain) and
may ask for a window of blocks (`window`, cut by `BlockRanges`).  `Encodings` gives
the byte streams that decompress to the content of a file id, which stands for
`gzip.decompress()` followed by the comparison of SHA-256.  `_call_with_retries()`
changes nothing but time until its attempts are used up.  Chunks, logs and cache
rows are sets: `Overwrite` lets the last log of an index win, which is what assigning
to a dictionary and `INSERT OR REPLACE` in the order of the log do, and `InOrder` is
`sorted()`.  A download that fails because its argument could not be looked up or
resolved has the error `unresolved`; one whose metadata the contract does not have,
`not found`.  The first metadata call of
`cmd_download` only picks a file name and is left out, as are the topics of the log
filter, which an endpoint is taken to accept.

### Pipeline

Uploads and downloads in one system, with steps of the one leaving the other's
variables alone.  `Fetch` starts a download once some run has printed "Upload
complete", for the file of that run; other runs may still upload, revert or wait at
that moment.  Downloads
of files that are not complete are the matter of `DownloaderBot` on its own, where
anybody may upload anything.

### ManagerBot

A manager runs `interactive()` again and again. The two files are variables, and a write
takes two steps: `write_text()` opens the file, which empties it (`ChooseKey`,
`Receipt`), and fills it (`PersistKey`, `SaveConfig`). `Verify` and `VerifyFails` are
the answer and the error of `get_code()`. `Consent` signs with the nonce of the moment,
the mempool takes it or not, and `CallFails` is every exception of `deploy_contract()`:
a refused transaction, a timeout, an error while polling. The address of a contract
follows from its deployer's key and nonce, as on any EVM chain. Clients (`SetUp`) are
the other programs reading the files at their start: they stop at a malformed file and
do not ask for code. `SetUp` does not tell an upload from a download, so a client may be
set up without a wallet that only an upload would look for: a client that does more than
it could. An address written by hand is one without code; that it may be the output of
`scripts/deploy.js` is left out. This module's network mines, evicts and replaces, but
does not reorganise: nothing in the manager waits for a confirmation, so after a
reorganisation no property of the config could hold.

### NodeBots

Jobs run on machines (`HostOf`); each machine has a blob store and an index.
`CreateTx`, `RecordFileBlob`, `RecordFileIndex`, `ChunkTx`, `RecordChunkBlob`,
`RecordChunkIndex` are the steps of an upload between which a process can die.
`Download` is one action: after the single log query everything is synchronous.
`SyncFiles`, `SyncChunks`, `SyncTip` are the three requests of `sync()`, which its
module exports and `test/ChainFS.test.js:412` calls, though no command does.  A refused call
raises at gas estimation, so it leaves no transaction (`TxFails`).  `KillJob` ends a
process between two actions; `KillInSyncFiles` and `KillInChunks` end one between two
inserts of a loop, each of which is a commit of its own.  `Storable` is what the loop
inserts before the first chunk whose file has no row, where the foreign key throws.

`gzipSync()` writes no time, so `upload()` makes the same chunks of a content in every
run (`Content`).  Other programs do not: the Python uploader cuts at another size and
compresses with a time.  `Encodings` are the chunk sequences whose join decompresses to
the content, and `ChainMoves` lets every account, the job's own too, call the contract
with any bytes, so the chain has right, wrong and mixed copies, and transactions of
processes that have died.  A download keeps the default of `--from-block`, 0
(`DownloadFrom`).  `InOrder` is `getChunks()`.  Processes of one machine alternate at
their awaits; that two insert loops interleave row by row is left out, since
better-sqlite3 runs each of them without one.

## 3. The runs

| Run | Bounds | Checks |
|---|---|---|
| `contract` | 2 files, 2 accounts, 6 blocks, reorganisations of 2 | `TypeOK`, `StorageMatchesLog`, `ChunksAuthorised`, `FinalMetadataForever`, `ImplementsLedger` |
| `index_one_process` | fair; 1 process, 2 workers, batches of 2, 5 blocks, window 1, reorganisations of 1, 2 attempts, 2 RPC errors, 1 lost insert | `SyncTypeOK`, `IndexSound`, `NothingLostSilently`, `BatchesDisjoint`, `CursorNeverRegresses`, `RunSettlesItsRange`, `ImplementsIndex` |
| `index_two_processes` | 2 processes of 1 worker, 4 blocks, 1 crash, the same faults | `IndexSound`, `NothingLostSilently`, `ImplementsIndex` |
| `store_and_fetch` | fair; 2 uploads of 3 bytes in chunks of 2 from one wallet, 2 attempts, 8 blocks; 1 download after another, 3 windows, ranges of 3 | `UploadTypeOK`, `DuplicatesAgree`, `DoneMeansComplete`, `ChunksInOrder`, `DuplicatesBounded`, `StoredIsFetched`, `EveryRunEnds` |
| `store_reorg` | 2 uploads with their own wallets, 2 attempts, 4 blocks, reorganisations of 4 | `DuplicatesAgree`, `DuplicatesBounded` |
| `download_shared_cache` | fair; 2 downloads beside arbitrary uploads, 3 blocks, ranges of 2 | `DownloadTypeOK`, `ValidatedAreAll`, `CorruptedIsSpoiled`, `CompleteIsDownloaded` |
| `node_two_machines` | 2 jobs on 2 machines, a content with encodings of 2 chunks and of 1, 3 blocks | `NodeTypeOK`, `LocalBehindChain`, `UploadedIsComplete`, `KnownFileDownloads` |
| `manager` | fair; 2 managers, 1 client, 2 keys, 2 gas prices, 2 consents | `ManagerTypeOK`, `NamedContractsExist`, `OneContractPerConsent`, `ReplacedOnlyUnseen`, `RunEnds` |

What they show, in a line each: the contract's mapping and log never part, also
across reorganisations, and its final events are an append-only ledger; an index
that stays behind the tip by at least the depth of a reorganisation is an index of
that ledger, whatever workers and processes do, and a run that is not killed accounts
for every block of its range; retries of an upload may duplicate a chunk, at most
`MAX_RETRY_ATTEMPTS` times, but never leave a gap, mix two runs or go on for ever;
whatever one run reported as stored, a later download over the whole chain fetches
byte for byte, unless its own calls fail; with whatever order of threads and partial
caches, a download finds a file corrupted only if its copies on the chain are, and
incomplete only if it is; a Node process that dies between two of its writes, or in a
loop of them, leaves nothing that a later download cannot repair, wrong chunks of other
clients included; however many managers run, time out and die, the config names only
what was deployed, no consent is spent twice, and a run ends once its wallet has funds.

Why these bounds are enough for the interesting cases: a file and its two chunks fit in
three blocks, a duplicate or a foreign block besides in four; a reorganisation as deep
as the safe window is the worst one the engine is designed for; two batches on two
workers, and two processes, give every overlap that pairs can have; the RPC errors
suffice to use up a batch's attempts. In `store_and_fetch` the bound of 8 blocks is
never reached: two runs have at most six transactions mined (one `createFile()` each and
two attempts for each chunk of the one whose creation succeeds), and 3 bytes in chunks
of 2 make a last slice shorter than the others. In `store_reorg` four blocks are a
creation, a chunk and room for the chunk transaction of a run whose creation was rolled
back: it comes back from the mempool, reverts, is sent again and reverts again
(`storage_bot.py:370`). In `node_two_machines` three blocks are a creation and its two
chunks, or a creation with one chunk, wrong and then right; that `KnownFileDownloads`
holds across reorganisations too is the theorem of section 5. Two managers with two
consents and one wallet meet in every order; two gas prices let one deployment replace
the other or be refused; with a second key they do not compete. `MaxBlocks` and
`MaxConsents` stop the systems, so those with nothing left to do stop: `CHECK_DEADLOCK
FALSE` says so, except in `contract`, where reorganisations keep every state alive.

Each passing property has a mutant in `PROJECT.json`: a definition of the model
replaced by one marked `faulty` beside it, the way a plausible slip in the code
would read.

### Runs that find a disagreement

| Run | What a text says | What happens |
|---|---|---|
| `index_skips_batches` | `last_synced_block` is the last block "fully synced" (`db-manager.js:231`) | a skipped batch is passed for ever |
| `manager_replaces` | a run that finds the contract valid "shows address, exits (nothing to do)" (`src/README.md:325`) | a code lookup that fails counts as a missing contract, and the config is overwritten |
| `sync_skips_blocks` | `sync()` saves "the latest block number processed" (`downloader-bot.js:147`) | the tip is asked for after the logs: blocks mined between are passed and never asked for again |
| `fresh_machine` | downloading is straightforward "from any machine" (`ARCHITECTURE.md:7`) | the foreign key of `chunks` throws on a machine without the file's row |

Four more divergences show in the model and have no run of their own, each being one
step of one action: `FailAttempt` ends an upload on the first error of `createFile()`,
where `CONSTRAINTS.md:10` asks for back-off on "all RPC and transaction calls";
`ReceiptArrives` retries a revert that the docstring at `storage_bot.py:390` says is
raised at once; `Lookup` takes an RPC error for an unknown file
(`downloader_bot.py:325`); `RecordFileIndex` and `RecordChunkIndex` index at one
confirmation, so that `LocalBehindChain` fails under reorganisations, which the sync
window is there to avoid (`ARCHITECTURE.md:199`).

### Limits the runs made visible

These are preconditions of the passing runs, found by relaxing them:

- With a **shared wallet and a reorganisation**, chunks of two runs of one content
  mix, since an old transaction returns from the mempool after a newer run has
  created the file again: `DuplicatesAgree`, `ChunksInOrder`, `DoneMeansComplete`
  and `DuplicatesBounded` are checked without that combination, and so is
  `StoredIsFetched`.
- With **reorganisations**, metadata, cached and fetched chunks of one Python download
  may come from different forks, so `ValidatedAreAll` and `CorruptedIsSpoiled` are
  checked without them.  What is written is safe all the same, because the write is
  guarded by the hash comparison itself; but the download fails, and with a full cache
  it fails again for ever.
- A **complete but wrong cache** is never refreshed (`downloader_bot.py:148`), so
  `CompleteIsDownloaded` is checked without reorganisations and excepts files of
  which a wrong chunk is on the chain (`Spoiled`).
- A **half-uploaded file** cannot be completed by either uploader: both begin with
  `createFile()`, which reverts with `FileAlreadyExists` (`ChainFS.sol:70`).
- A **dropped creation** of a file with more chunks than its later one leaves rows in
  the Node blob store that no download removes: `getChunks()` returns them with the
  rest.  `KnownFileDownloads` excepts them (`NoneBeyond`).
- With **two sync processes** the cursor may move back; `CursorNeverRegresses` is
  a property of one.  Moving back is harmless because inserts ignore known keys.
- A **manager** whose deployment times out leaves a contract that no file names: the
  run cannot know its address.  `OneContractPerConsent` bounds them by the consents.
- Choosing another **wallet** overwrites `wallet_private_key.txt` without a copy; a
  run that dies between emptying and filling it leaves no key in it at all.
- After a **redeployment** the rows and the cursor of the old contract stay in the
  index, which is not keyed by contract (`cli.js:186`).  `SyncEngine` has one
  contract, so this is described here and not checked.

## 4. Fairness

- `FairSyncSpec`: a started sync goes on, because the event loop runs whatever is
  ready and the endpoint answers what it does not reject.  Starting one, failing,
  crashing and the chain have no fairness.
- `FairPipelineSpec`: some step of an upload that can step is taken, RPC calls having
  timeouts of their own and the wait for a receipt `TX_TIMEOUT_SECONDS`; and some
  step of a started download.  The network has no fairness: a transaction may never
  be mined.
- `FairDownloadSpec`: some step of a started download is taken: calls answer or
  raise, and threads complete.
- `FairManagerSpec`: the user answers the questions of a run, and its calls return or
  raise.  Neither the network nor the faucet has fairness: a run may wait for ever
  for funds, which `RunEnds` excepts, and for nothing else.

## 5. The proofs

Every invariant that a run checks is also a theorem, for all files, accounts,
payloads, processes, workers, caches, windows, batch sizes, attempts and chain
lengths, and so are the action properties and the two refinements.  The tables give,
for each module, its inductive invariant first and what follows from it.

| Theorem of `ChainFSProofs` | Statement |
|---|---|
| `InductiveInvariant` | `Spec => []IInv` |
| `TypeCorrect` | `Spec => []TypeOK` |
| `StorageIsTheLog` | `Spec => []StorageMatchesLog` |
| `AllChunksAuthorised` | `Spec => []ChunksAuthorised` |
| `FinalMetadataStays` | `Spec => FinalMetadataForever` |
| `FinalBlocksAreALedger` | `Spec => ImplementsLedger` |

| Theorem of `SyncEngineProofs` | Statement |
|---|---|
| `SyncInvariant` | `SyncSpec => []SyncInv` |
| `SyncTypeCorrect` | `SyncSpec => []SyncTypeOK` |
| `RowsAreOnTheChain` | `SyncSpec => []IndexSound` |
| `EveryLossIsReported` | `SyncSpec => []NothingLostSilently` |
| `WorkersDoNotOverlap` | `SyncSpec => []BatchesDisjoint` |
| `OneProcessNeverRegresses` | one process: `SyncSpec => CursorNeverRegresses` |
| `SyncIsAnIndex` | `SyncSpec => ImplementsIndex` |

| Theorem of `StorageBotProofs` | Statement |
|---|---|
| `UploadInvariant` | `UploadSpec => []UploadInv` |
| `UploadTypeCorrect` | `UploadSpec => []UploadTypeOK` |
| `CopiesAreEqual` | `Apart`: `UploadSpec => []DuplicatesAgree` |
| `CopiesAreBounded` | `Apart`: `UploadSpec => []DuplicatesBounded` |
| `ChunksFollowInOrder` | `MaxReorg = 0`: `UploadSpec => []ChunksInOrder` |
| `SuccessIsComplete` | `MaxReorg = 0`: `UploadSpec => []DoneMeansComplete` |

| Theorem of `DownloaderBotProofs` | Statement |
|---|---|
| `DownloadInvariant` | `DownloadSpec => []DownloadInv` |
| `DownloadTypeCorrect` | `DownloadSpec => []DownloadTypeOK` |
| `CountingIsEnough` | `MaxReorg = 0`: `DownloadSpec => []ValidatedAreAll` |
| `CorruptionIsOnTheChain` | `MaxReorg = 0`: `DownloadSpec => []CorruptedIsSpoiled` |

| Theorem of `PipelineProofs` | Statement |
|---|---|
| `PipelineUploads` | `PipelineSpec => UploadSpec` |
| `PipelineInvariant` | `PipelineSpec => [](UploadInv /\ DownloadInv)` |
| `FetchInvariant` | `MaxReorg = 0`: `PipelineSpec => []FetchInv` |
| `StoredCanBeFetched` | `MaxReorg = 0`: `PipelineSpec => []StoredIsFetched` |

| Theorem of `NodeBotsProofs` | Statement |
|---|---|
| `NodeInvariant` | `NodeSpec => []NodeInv` |
| `NodeTypeCorrect` | `NodeSpec => []NodeTypeOK` |
| `RowsAreOnTheChain` | `MaxReorg = 0`: `NodeSpec => []LocalBehindChain` |
| `UploadsAreComplete` | `MaxReorg = 0`: `NodeSpec => []UploadedIsComplete` |
| `KnownFilesDownload` | `NodeSpec => KnownFileDownloads` |

| Theorem of `ManagerBotProofs` | Statement |
|---|---|
| `ManagerInvariant` | `ManagerSpec => []MInv` |
| `ManagerTypeCorrect` | `ManagerSpec => []ManagerTypeOK` |
| `OnlyRealContracts` | `ManagerSpec => []NamedContractsExist` |
| `OneDeploymentPerConsent` | `ManagerSpec => []OneContractPerConsent` |
| `WorkingContractsGivenUpUnseen` | `ManagerSpec => ReplacedOnlyUnseen` |

### What they assume

- `ConstantsAssumption`, `SyncAssumption`, `ManagerAssumption`, `DownloadAssumption`,
  `UploadAssumption`, `NodeAssumption` give the constants their types, batch sizes and
  attempts being positive as the programs' defaults are.
- `UploadAssumption` has, besides, what `upload_file()` looks at before the first
  transaction: content, name and size are not empty, the chunk size is at most the
  contract's limit.  `NodeAssumption` has that a content is cut into at least one
  chunk, since `gzipSync()` of anything has bytes.
- `FilesAssumption` and `NoTxAssumption` keep the marks for "no file", "empty",
  "written by hand" and "no transaction" apart from real keys, addresses and
  transactions.
- `WindowAssumption` (`MaxReorg <= SafeWindow`) is the reason why `sync-engine.js`
  stays `SAFE_WINDOW` behind the tip.
- `DownloadAssumption` says of `Encodings` that no bytes decompress to two contents,
  and `PipelineAssumption` that what `gzip.compress()` makes of a content
  decompresses to it.  The first is that decompression is a function and that
  different contents have different SHA-256 file ids.

Some theorems have a hypothesis of their own.  `MaxReorg = 0` and `Apart` (a wallet of
its own for every run, or no reorganisation) are not there for the sake of the proofs:
TLC finds counterexamples without them (section 3, "Limits").  What a theorem about
reorganisations does say, it says for any depth.

### The arguments

*`ChainFS`.*  `StorageMatchesLog` is not inductive: a reorganisation brings back
the storage after an earlier block, about which it says nothing.  `IInv` therefore
says of **every** block that the storage after it is the one that the events up to
it announce (`PostsMatchLog`), that the current storage is that of the last block
(`LastPost`), that no file has two creations (`CreatedOnce`), and that chunks are
authorised.  Three kinds of steps are left: a block that creates a file (its file
was not registered, so by `Announced` no earlier block creates it), a block that
leaves the storage alone, and a rollback (a prefix of a chain inherits all of it,
by the lemmas on chains that agree on their first blocks).  `ChunksAuthorised` of a
new chunk uses `PostsMatchLog` to turn the mapping's owner and count into those of
an earlier `FileCreated` event.  `FinalMetadataStays` adds that every step keeps
the finalized prefix.

`FinalBlocksAreALedger` is a refinement: the finalized prefix of the chain, as a
ledger, starts empty, and every step either leaves it or appends one legal event.  It
rests on an invariant of its own, that no more than `MaxReorg` blocks wait to become
final (`FinalizedKeepsUp`), so that one becomes final at a time; on `FinalBlocksStay`,
that no step changes a finalized block; and on `PublishesOrStays`, where the event
that becomes final is legal since `CreatedOnce` and `ChunksAuthorised` hold of the
whole chain and so of its prefix.

The clients do to the chain what anybody may do, with whatever arguments, and the
proofs about them need no more of it.  `AnyNext` is that most general step, `ChainInv`
what it keeps, and every client's proof begins with its own steps being such steps.

*`SyncEngine`.*  A worker inserts logs that were fetched before the chain moved on,
so `IndexSound` alone says nothing of what is in flight.  `SyncInv` says that a
run's safe block is final, though its tip may be out of date (`WindowInv`, from
`WindowAssumption` and `FinalizedKeepsUp`); hence that answers in memory are still the
logs of the canonical chain (`AnswersInv`, as final blocks do not change) and rows are
those of final events (`RowsInv`).  `ProgressInv` accounts for blocks: one that a run
has passed is in the tables, in a report, or in the batch some worker holds, which is
what `EveryLossIsReported` needs at `Commit`, when no worker holds any.  `DisjointInv`
says that a batch lies below the next one dealt.  `SyncIsAnIndex` goes through the
steps: `INSERT OR IGNORE` of final logs adds rows under free keys, `Commit` moves the
cursor to where everything is settled, and everything else, the chain's own steps
included, leaves the index alone or appends an event to the ledger.

*`StorageBot`.*  `UploadInv` says of the network that a block has the event of its
transaction, or none if it reverted, and that an account's transactions are mined in
the order of their nonces; of the runs, that a transaction, mined or pending, is of an
attempt its run has already made, and that no attempt was sent twice (`KnownOK`).
That already bounds the copies.  Without reorganisations, `PaidInv` adds that a run
has a successful receipt for each step it has passed and that each chunk's block comes
after one for the step before: success, order and completeness follow.
`DuplicatesAgree` rests on `OneRunPerFile`: the chunks of a file are all of the run
that created it.  For two runs with two wallets the contract's owner check says so,
also when the chain reorganises.  For two runs with one wallet the run's first nonce
does: the second creation reverts, and its run stops.

*`DownloaderBot`.*  `DownloadInv` carries types and one chunk for each index
(`OneEach`).  Without reorganisations, `MatchInv` says that every chunk held, answered
or cached has an index below the count its file announces and that a download's total
is that count; then `n` different indices below `n` are all of them, which is why
`validate_chunks()` may count.  `RealInv` adds that each of them is a copy on the
chain, through whatever caches, threads and kills it came.  A set that passed the count
therefore has one real copy for each index, and `OrderOfSlices` and `FullIsJoined` show
that sorting and joining it gives those copies in their order: a comparison that fails
means that these copies of the chain do not make the content, which is `Spoiled`, and
`SpoiledStays` as the chain grows.

*`Pipeline`.* A step of a download leaves the chain alone, so both invariants hold
together. `FetchInv` takes from the downloader's proofs that chunks held, in flight or
cached are on the chain (`RealOK`, `RealRows`). What the composition adds is that a
download over the whole chain has each chunk, or an answer that has it, or a range still
to be asked that has a block of it (`WholeOK`), which starts with `SuccessIsComplete`
and `RangesCover`: block ranges of any size leave out no block. At the end the chunks
are those of the run that reported success; sorting them gives the slices in their
order, and `SlicesJoin` shows that joining the slices of any content cut at any size
gives the content, so that the hash comparison never fails. `OrderOfSlices` and
`SlicesJoin` are inductions over a sequence, done as proofs about the least index at
which two sequences differ.

*`NodeBots`.*  `NodeInv` has the types of the tables, and the foreign key in them,
which holds however the chain moves.  Without reorganisations each row repeats an event
(`RowsInv`), and a process is where its tables are (`MatchInv`): past a step, the
chunks before it are in both databases, and between the two writes of a chunk it is
in the first one.

`KnownFilesDownload` needs no hypothesis on the chain.  `KeyInv` says that a store has
one row for an index and that a download asks for the logs from block 0.  All copies
of the file's chunks are in its answer, the foreign key is satisfied since the file has
a row, and `INSERT OR REPLACE` in the order of the log leaves the last copy of each
chunk in place of whatever a dead job, another client or an abandoned block has left;
`NoneBeyond` says that there are no other rows.  `OrderOfRows` shows that
`ORDER BY chunk_index` leaves one order, by `RisingIsCounting` of `ChainFSProofs`
(indices that rise below `n` at `n` places are the places), which the Python
downloader's sort rests on too.

*`ManagerBot`.*  `OneContractPerConsent` is a bound on what is mined, and so not
inductive: `MInv` counts deployments mined, pending and about to be sent together
against the consents (`CountInv`).  `NamedContractsExist` needs of a run that is about
to write an address that there is code at it, from the receipt it has seen
(`RunOK`); and `ReplacedOnlyUnseen`, that a run past the lookup read no address from
the config at which there was code, unless its lookup raised.

### Only model-checked

- Liveness (`RunSettlesItsRange`, `EveryRunEnds`, `CompleteIsDownloaded`, `RunEnds`):
  fairness and `ENABLED` are outside the reach of the prover.
- The four properties of section 3 that are found violated.

## 6. Not modelled

- `scripts/deploy.js` and `hardhat.config.js` deploy once and print an address; they
  keep no state and write no file.
- `list`, `info` and the printing of `manager` are reads; formatting, colours and
  messages are no matter of a property here.
- Arguments, environment variables and paths are fixed before a process does
  anything.  (`manager_bot.py:297` passes an argument to `main()`, which takes none:
  run as a script it ends at once with a `TypeError`; `chaincli` calls it rightly.)
- `save_file()` writes the output in place; a process that dies in it leaves part of
  a file under the final name.  Nothing reads that file.
- The digest, the compression and the ABI coding are represented by what they relate
  (`Encodings`, `Content`), not by how they compute it.

## 7. Plan

1. The safety part of `CompleteIsDownloaded` as a theorem: that a download of a
   complete file never fails otherwise than that property excepts.
   `CorruptionIsOnTheChain` is the half of it about the hash; that no chunk of a
   complete file is missed, whatever the cache, is the other.
2. A bound on the blocks that `store_and_fetch` needs, as a theorem about `UploadInv`,
   in place of the count in section 3.
