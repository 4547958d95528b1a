----------------------------- MODULE StorageBot -----------------------------
(***************************************************************************)
(* The Python uploader src/storage_bot.py against the contract, through a  *)
(* mempool.  An uploader is one run of upload_file(): createFile(), then   *)
(* uploadChunk() for every chunk in turn, each transaction awaited for its *)
(* receipt.  Runs may share a wallet and may upload the same content; the  *)
(* bytes of their chunks differ all the same, because gzip.compress()      *)
(* writes the current time into its header.                                *)
(***************************************************************************)
EXTENDS ChainFS, FiniteSets

CONSTANTS
    Uploaders,          \* runs of upload_file()
    Upload,             \* what each run uploads: fileId, name, size, account, and
                        \* data, the bytes its gzip.compress() made of the content
    InitialChunkSize,   \* INITIAL_CHUNK_SIZE
    MaxAttempts,        \* MAX_RETRY_ATTEMPTS
    NoTx                \* no transaction

SplitChunksWhole(data, size) ==               \* faulty: a short last chunk is lost
    [i \in 1..(Len(data) \div size) |-> SubSeq(data, (i - 1) * size + 1, i * size)]

\* data[i : i + chunk_size] for i in range(0, len(data), chunk_size)
SplitChunks(data, size) ==
    [i \in 1..((Len(data) + size - 1) \div size) |->
        SubSeq(data, (i - 1) * size + 1,
               IF i * size < Len(data) THEN i * size ELSE Len(data))]

Chunks == [u \in Uploaders |-> SplitChunks(Upload[u].data, InitialChunkSize)]

ASSUME UploadAssumption ==
    /\ InitialChunkSize \in 1..MaxChunkSize
    /\ MaxAttempts \in Nat \ {0}
    /\ \A u \in Uploaders :
        /\ Upload[u].fileId \in FileIds
        /\ Upload[u].name \in Names \ {EmptyName}
        /\ Upload[u].size \in Nat \ {0}
        /\ Upload[u].account \in Accounts
        /\ Len(Upload[u].data) \in Nat \ {0}
        /\ \A i \in DOMAIN Chunks[u] :
                Chunks[u][i] \in Payloads /\ DataLength[Chunks[u][i]] = Len(Chunks[u][i])

VARIABLES
    mempool,            \* transactions sent and not mined
    receipts,           \* per block of the chain: its transaction and status
    up                  \* the state of each uploader

botVars == <<mempool, receipts, up>>
uploadVars == <<chainVars, botVars>>

\* Step 0 of an upload is createFile(), step i is uploadChunk() of chunk i - 1.
LastStep(u) == Len(Chunks[u])

\* attempt stands for the gas price, which makes a resent transaction another one.
Transactions ==
    {[by |-> u, from |-> Upload[u].account, nonce |-> n, step |-> s, attempt |-> a] :
        u \in Uploaders, n \in 0..MaxBlocks, a \in 1..MaxAttempts,
        s \in UNION {0..LastStep(v) : v \in Uploaders}}

ASSUME NoTxAssumption == NoTx \notin Transactions

Start == [pc |-> "prepare", step |-> 0, attempt |-> 1, nonce |-> 0, tx |-> NoTx]

UploadInit ==
    /\ Init
    /\ mempool = {}
    /\ receipts = <<>>
    /\ up = [u \in Uploaders |-> Start]

-----------------------------------------------------------------------------
(* The network: nonces, the mempool, mining and reorganisations.            *)

\* get_transaction_count(): the mined transactions of the account, not the pending.
NonceOf(account) ==
    Cardinality({b \in DOMAIN receipts : receipts[b].tx.from = account})

\* The call of a transaction, as the contract sees it.
Accepted(tx) ==
    LET this == Upload[tx.by]
    IN  IF tx.step = 0
        THEN CanCreate(this.fileId, this.name, this.size, LastStep(tx.by))
        ELSE CanUpload(this.fileId, tx.step - 1, Chunks[tx.by][tx.step], tx.from)

Execute(tx) ==
    LET this == Upload[tx.by]
    IN  \/ /\ tx.step = 0
           /\ CreateFile(this.fileId, this.name, this.size, LastStep(tx.by), tx.from)
        \/ /\ tx.step > 0
           /\ UploadChunk(this.fileId, tx.step - 1, Chunks[tx.by][tx.step], tx.from)
        \/ ~Accepted(tx) /\ OtherBlock

\* A pending transaction whose nonce is due is mined, or reverts in its block.
MineTx(tx) ==
    /\ tx.nonce = NonceOf(tx.from)
    /\ Execute(tx)
    /\ receipts' = Append(receipts, [tx |-> tx, ok |-> Accepted(tx)])
    /\ mempool' = {t \in mempool : t.from # tx.from \/ t.nonce > tx.nonce}
    /\ UNCHANGED up

\* A reorganisation returns the transactions of the dropped blocks to the mempool.
Reorg(n) ==
    /\ Rollback(n)
    /\ receipts' = SubSeq(receipts, 1, n)
    /\ mempool' = mempool \cup {receipts[b].tx : b \in (n + 1)..Len(receipts)}
    /\ UNCHANGED up

\* The mempool forgets a transaction.
Evict(tx) ==
    /\ mempool' = mempool \ {tx}
    /\ UNCHANGED <<chainVars, receipts, up>>

-----------------------------------------------------------------------------
(* create_file_on_chain(), upload_chunk() and the retry loop around it.     *)

NextAttemptReset(attempt) == 1                \* faulty: the count starts anew

NextAttempt(attempt) == attempt + 1

Ended == {"done", "failed", "killed"}

\* faulty: a chunk whose attempts are used up is passed over.
GiveUpSkips(u) ==
    [up EXCEPT ![u].pc = IF up[u].step = LastStep(u) THEN "done" ELSE "prepare",
               ![u].step = IF up[u].step = LastStep(u) THEN @ ELSE @ + 1,
               ![u].attempt = 1, ![u].tx = NoTx]

\* The error leaves upload_file().
GiveUp(u) == [up EXCEPT ![u].pc = "failed", ![u].tx = NoTx]

\* An exception in a transaction: createFile() has no retry loop around it, a
\* chunk is tried again until its attempts are used up.
FailAttempt(u) ==
    up' = IF up[u].step > 0 /\ up[u].attempt < MaxAttempts
          THEN [up EXCEPT ![u].pc = "prepare", ![u].tx = NoTx,
                          ![u].attempt = NextAttempt(@)]
          ELSE GiveUp(u)

AdvancePast(u) ==                             \* faulty: one step too many
    up' = IF up[u].step > LastStep(u)
          THEN [up EXCEPT ![u].pc = "done", ![u].tx = NoTx]
          ELSE [up EXCEPT ![u].pc = "prepare", ![u].step = @ + 1,
                          ![u].attempt = 1, ![u].tx = NoTx]

\* The transaction succeeded: on to the next step, or all the chunks are up.
Advance(u) ==
    up' = IF up[u].step = LastStep(u)
          THEN [up EXCEPT ![u].pc = "done", ![u].tx = NoTx]
          ELSE [up EXCEPT ![u].pc = "prepare", ![u].step = @ + 1,
                          ![u].attempt = 1, ![u].tx = NoTx]

\* Read the nonce; a gas estimate that fails is replaced by a constant.
Prepare(u) ==
    /\ up[u].pc = "prepare"
    /\ up' = [up EXCEPT ![u].pc = "send", ![u].nonce = NonceOf(Upload[u].account)]
    /\ UNCHANGED <<chainVars, mempool, receipts>>

Signed(u) == [by |-> u, from |-> Upload[u].account, nonce |-> up[u].nonce,
              step |-> up[u].step, attempt |-> up[u].attempt]

SameNonce(tx) == {t \in mempool : t.from = tx.from /\ t.nonce = tx.nonce}

\* The endpoint takes the transaction, in place of a cheaper one with its nonce.
Takes(tx) ==
    /\ tx.nonce >= NonceOf(tx.from)
    /\ tx \notin mempool
    /\ mempool' = (mempool \ SameNonce(tx)) \cup {tx}

Send(u) ==
    /\ up[u].pc = "send"
    /\ Takes(Signed(u))
    /\ up' = [up EXCEPT ![u].pc = "wait", ![u].tx = Signed(u)]
    /\ UNCHANGED <<chainVars, receipts>>

\* The endpoint takes it, but the answer is lost.
SendAnswerLost(u) ==
    /\ up[u].pc = "send"
    /\ Takes(Signed(u))
    /\ FailAttempt(u)
    /\ UNCHANGED <<chainVars, receipts>>

\* An RPC error before the transaction is taken: unreachable, nonce too low,
\* already known, replacement underpriced.
CallFails(u) ==
    /\ up[u].pc \in {"prepare", "send"}
    /\ FailAttempt(u)
    /\ UNCHANGED <<chainVars, mempool, receipts>>

SucceededAnyway(r) == TRUE                    \* faulty: the status is not read

Succeeded(r) == r.ok

\* wait_for_transaction_receipt() returns, one confirmation being enough.
ReceiptArrives(u) ==
    /\ up[u].pc = "wait"
    /\ \E b \in DOMAIN receipts :
        /\ receipts[b].tx = up[u].tx
        /\ IF Succeeded(receipts[b]) THEN Advance(u) ELSE FailAttempt(u)
    /\ UNCHANGED <<chainVars, mempool, receipts>>

\* The wait ends without a receipt: TX_TIMEOUT_SECONDS passed, or a poll was
\* answered by an error.  The transaction may be mined later, or already is.
WaitFails(u) ==
    /\ up[u].pc = "wait"
    /\ FailAttempt(u)
    /\ UNCHANGED <<chainVars, mempool, receipts>>

\* The process is killed.
Kill(u) ==
    /\ up[u].pc \notin Ended
    /\ up' = [up EXCEPT ![u].pc = "killed", ![u].tx = NoTx]
    /\ UNCHANGED <<chainVars, mempool, receipts>>

-----------------------------------------------------------------------------
Network ==
    \/ \E tx \in mempool : MineTx(tx) \/ Evict(tx)
    \/ \E n \in finalized..(Len(chain) - 1) : Reorg(n)

Uploader(u) ==
    \/ Prepare(u)
    \/ Send(u)
    \/ SendAnswerLost(u)
    \/ CallFails(u)
    \/ ReceiptArrives(u)
    \/ WaitFails(u)

UploadNext == Network \/ \E u \in Uploaders : Uploader(u) \/ Kill(u)

UploadSpec == UploadInit /\ [][UploadNext]_uploadVars

-----------------------------------------------------------------------------
\* The variables have their types: an uploader's step and attempt stay in their
\* loops, it holds a transaction exactly while it waits for one, and every block
\* has a receipt.
UploadTypeOK ==
    /\ TypeOK
    /\ mempool \subseteq Transactions
    /\ Len(receipts) = Len(chain)
    /\ \A b \in DOMAIN receipts :
            receipts[b].tx \in Transactions /\ receipts[b].ok \in BOOLEAN
    /\ \A u \in Uploaders :
        /\ up[u].pc \in {"prepare", "send", "wait"} \cup Ended
        /\ up[u].step \in 0..LastStep(u)
        /\ up[u].attempt \in 1..MaxAttempts
        /\ up[u].tx \in Transactions \cup {NoTx}
        /\ (up[u].tx # NoTx) <=> (up[u].pc = "wait")

ChunkAt(b, f, idx) ==
    Uploads(chain, b) /\ chain[b].event.fileId = f /\ chain[b].event.chunkIndex = idx

\* When a chunk of a file is on the chain more than once, for a retry after a
\* late transaction or for a second run of the same content, all the copies are
\* equal.  The indexer keeps the first, the Python downloader the last it saw,
\* the Node downloader the last it inserted: only this makes them agree.
DuplicatesAgree ==
    \A a, b \in DOMAIN chain :
        Uploads(chain, a) /\ ChunkAt(b, chain[a].event.fileId, chain[a].event.chunkIndex)
            => chain[a].event.data = chain[b].event.data

\* An upload that reports success left the whole file on the chain: its
\* metadata announce its chunks, and each of them is there with its own bytes.
DoneMeansComplete ==
    \A u \in Uploaders : up[u].pc = "done" =>
        LET this == Upload[u]
        IN  /\ files[this.fileId].exists
            /\ files[this.fileId].chunkCount = LastStep(u)
            /\ \A i \in DOMAIN Chunks[u] : \E b \in DOMAIN chain :
                    ChunkAt(b, this.fileId, i - 1) /\ chain[b].event.data = Chunks[u][i]

\* An upload that stopped anywhere leaves no gap: the first copy of a chunk
\* comes after a copy of the chunk before it.
ChunksInOrder ==
    \A b \in DOMAIN chain : Uploads(chain, b) /\ chain[b].event.chunkIndex > 0 =>
        \E a \in 1..(b - 1) :
            ChunkAt(a, chain[b].event.fileId, chain[b].event.chunkIndex - 1)

\* However many sends time out, revert or are mined late, a run pays for its
\* createFile() once at most and for a chunk at most MAX_RETRY_ATTEMPTS times; and
\* all the runs of a content leave no more copies of a chunk than one may.
DuplicatesBounded ==
    /\ \A u \in Uploaders : \A s \in 0..LastStep(u) :
        Cardinality({b \in DOMAIN receipts : receipts[b].tx.by = u /\ receipts[b].tx.step = s})
            <= IF s = 0 THEN 1 ELSE MaxAttempts
    /\ \A a \in DOMAIN chain : Uploads(chain, a) =>
        Cardinality({b \in DOMAIN chain :
            ChunkAt(b, chain[a].event.fileId, chain[a].event.chunkIndex)}) <= MaxAttempts

\* An upload ends, whatever the network does to its transactions.
UploadEnds == \A u \in Uploaders : <>(up[u].pc \in Ended)
=============================================================================
