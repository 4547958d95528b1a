--------------------------- MODULE NodeBotsProofs ---------------------------
(* Proofs about NodeBots for every value of its constants: any number of    *)
(* machines and processes, wallets and contents.                            *)
EXTENDS NodeBots, ChainFSProofs, FiniteSetTheorems

USE ConstantsAssumption, NodeAssumption

-----------------------------------------------------------------------------
(* What is true of the tables and the processes on any chain, however it    *)
(* reorganises: types, and the foreign key of the blob store.               *)

Recording == {"fileToBlob", "fileToIndex", "chunkToBlob", "chunkToIndex"}
Sending == {"create", "chunk"}
Reading == {"fetch", "syncFiles", "syncChunks", "syncTip"}

Process ==
    [pc: Resting \cup Recording \cup Sending \cup Reading, file: FileIds, step: Nat,
     block: 0..MaxBlocks, from: 0..MaxBlocks,
     error: {"none", "transaction", "foreign key", "no chunks", "integrity", "killed"}]

\* A process within its file; its receipt has a block.
ProcessOK(s) ==
    /\ s.step < Len(Content[s.file])
    /\ s.pc \in Recording => s.block \in 1..MaxBlocks
    /\ s.pc \in {"create", "fileToBlob", "fileToIndex"} => s.step = 0

JobsInv ==
    /\ job \in [Jobs -> Process]
    /\ \A j \in Jobs : ProcessOK(job[j])

Owned(chunks, known) == \A r \in chunks : \E q \in known : q.fileId = r.fileId

TablesInv ==
    /\ blobFiles \in [Hosts -> SUBSET FileRow]
    /\ indexFiles \in [Hosts -> SUBSET FileRow]
    /\ blobChunks \in [Hosts -> SUBSET ChunkRow]
    /\ indexChunks \in [Hosts -> SUBSET ChunkRow]
    /\ blobSynced \in [Hosts -> 0..MaxBlocks]
    /\ \A h \in Hosts : Owned(blobChunks[h], blobFiles[h])

LocalInv == JobsInv /\ TablesInv

-----------------------------------------------------------------------------
(* What is true besides when the chain does not reorganise.  A row repeats  *)
(* an event of its block.  An upload holds the block of its last event; its *)
(* file is registered with the count of its chunks; and the chunks before   *)
(* its step are in both databases of its machine.                           *)

FileIsLogged(c, r) == r.block \in 1..Len(c) /\ Creates(c, r.block, r.fileId)

ChunkIsLogged(c, r) ==
    /\ r.block \in 1..Len(c) /\ Uploads(c, r.block)
    /\ c[r.block].event.fileId = r.fileId
    /\ c[r.block].event.chunkIndex = r.chunkIndex
    /\ c[r.block].event.data = r.data

HasChunk(table, f, idx) == \E r \in table : r.fileId = f /\ r.chunkIndex = idx

StoredBelow(blob, index, f, n) ==
    \A i \in 0..(n - 1) : HasChunk(blob, f, i) /\ HasChunk(index, f, i)

RowOf(s) ==
    [fileId |-> s.file, chunkIndex |-> s.step, data |-> Content[s.file][s.step + 1],
     block |-> s.block]

Uploading == {"fileToBlob", "fileToIndex", "chunk", "chunkToBlob", "chunkToIndex", "uploaded"}

\* A process s, over the storage and chain of the contract and the chunk tables
\* of its machine.
ProcessMatches(fs, c, blob, index, s) ==
    /\ s.pc \in {"fileToBlob", "fileToIndex"} =>
            FileIsLogged(c, [fileId |-> s.file, block |-> s.block])
    /\ s.pc \in {"chunkToBlob", "chunkToIndex"} => ChunkIsLogged(c, RowOf(s))
    /\ s.pc \in Uploading =>
            fs[s.file].exists /\ fs[s.file].chunkCount = Len(Content[s.file])
    /\ s.pc \in {"chunk", "chunkToBlob", "chunkToIndex"} =>
            StoredBelow(blob, index, s.file, s.step)
    /\ s.pc = "chunkToIndex" => HasChunk(blob, s.file, s.step)
    /\ s.pc = "uploaded" => StoredBelow(blob, index, s.file, Len(Content[s.file]))

RowsInv ==
    \A h \in Hosts :
        /\ \A r \in blobFiles[h] \cup indexFiles[h] : FileIsLogged(chain, r)
        /\ \A r \in blobChunks[h] \cup indexChunks[h] : ChunkIsLogged(chain, r)

MatchInv ==
    \A j \in Jobs :
        ProcessMatches(files, chain, blobChunks[HostOf[j]], indexChunks[HostOf[j]], job[j])

NodeInv == ChainInv /\ LocalInv /\ (MaxReorg = 0 => RowsInv /\ MatchInv)

-----------------------------------------------------------------------------
(* The statements of the databases.                                         *)

LEMMA ContentIsChunks ==
    ASSUME NEW f \in FileIds
    PROVE  /\ Len(Content[f]) \in Nat \ {0}
           /\ \A i \in 1..Len(Content[f]) : Content[f][i] \in Payloads
  OBVIOUS

(* The key of a chunk row.                                                  *)
LEMMA KeyOfChunk ==
    ASSUME NEW r \in ChunkRow PROVE PrimaryKey(r) = <<r.fileId, r.chunkIndex>>
  BY DEF PrimaryKey

(* INSERT OR IGNORE keeps the rows and adds some of the new ones; one that  *)
(* is alone leaves a row under its key.                                     *)
LEMMA IgnoreKeepsRows ==
    ASSUME NEW table, NEW rows
    PROVE  /\ table \subseteq InsertOrIgnore(table, rows)
           /\ InsertOrIgnore(table, rows) \subseteq table \cup rows
  BY DEF InsertOrIgnore

(* After INSERT OR IGNORE of a row there is a row under its key.            *)
LEMMA IgnoreLeavesKey ==
    ASSUME NEW table \in SUBSET ChunkRow, NEW row \in ChunkRow
    PROVE  HasChunk(InsertOrIgnore(table, {row}), row.fileId, row.chunkIndex)
<1>1. CASE \E s \in table : PrimaryKey(s) = PrimaryKey(row)
  <2>1. PICK s \in table : PrimaryKey(s) = PrimaryKey(row)
    BY <1>1
  <2>2. <<s.fileId, s.chunkIndex>> = <<row.fileId, row.chunkIndex>>
    BY <2>1, KeyOfChunk
  <2>3. s.fileId = row.fileId /\ s.chunkIndex = row.chunkIndex
    BY <2>2
  <2>4. s \in InsertOrIgnore(table, {row})
    BY IgnoreKeepsRows
  <2> QED BY <2>3, <2>4 DEF HasChunk
<1>2. CASE \A s \in table : PrimaryKey(s) # PrimaryKey(row)
  <2>1. row.block <= row.block
    BY DEF ChunkRow
  <2>2. row \in InsertOrIgnore(table, {row})
    BY <1>2, <2>1 DEF InsertOrIgnore
  <2> QED BY <2>2 DEF HasChunk
<1> QED BY <1>1, <1>2

(* INSERT OR REPLACE leaves rows of the table and new ones, and under the   *)
(* key of each of them a row: the last of those that are new.               *)
LEMMA ReplaceIsFromBoth ==
    ASSUME NEW table, NEW rows
    PROVE  InsertOrReplace(table, rows) \subseteq table \cup rows
  BY DEF InsertOrReplace

(* INSERT OR REPLACE loses no key, old or new.                              *)
LEMMA ReplaceLeavesKeys ==
    ASSUME NEW table \in SUBSET ChunkRow, NEW rows \in SUBSET ChunkRow,
           NEW f, NEW idx, HasChunk(table, f, idx) \/ HasChunk(rows, f, idx)
    PROVE  HasChunk(InsertOrReplace(table, rows), f, idx)
<1>1. CASE \E r \in rows : r.fileId = f /\ r.chunkIndex = idx
  <2> DEFINE S == {r.block : r \in {q \in rows : q.fileId = f /\ q.chunkIndex = idx}}
  <2>1. \A r \in rows : r.block \in 1..MaxBlocks
    BY DEF ChunkRow
  <2>2. S \in SUBSET (0..MaxBlocks) /\ S # {}
    BY <1>1, <2>1
  <2> HIDE DEF S
  <2>3. PICK m \in S : \A k \in S : k <= m
    BY <2>2, GreatestNumber
  <2> USE DEF S
  <2>4. PICK r \in rows : r.fileId = f /\ r.chunkIndex = idx /\ r.block = m
    BY <2>3
  <2>5. ASSUME NEW s \in rows, PrimaryKey(s) = PrimaryKey(r) PROVE s.block <= r.block
    <3>1. <<s.fileId, s.chunkIndex>> = <<r.fileId, r.chunkIndex>>
      BY <2>5, KeyOfChunk
    <3>2. s.fileId = f /\ s.chunkIndex = idx
      BY <2>4, <3>1
    <3> QED BY <2>3, <2>4, <3>2
  <2>6. r \in InsertOrReplace(table, rows)
    BY <2>5 DEF InsertOrReplace
  <2> QED BY <2>4, <2>6 DEF HasChunk
<1>2. CASE ~\E r \in rows : r.fileId = f /\ r.chunkIndex = idx
  <2>1. PICK r \in table : r.fileId = f /\ r.chunkIndex = idx
    BY <1>2 DEF HasChunk
  <2>2. ASSUME NEW s \in rows PROVE PrimaryKey(s) # PrimaryKey(r)
    <3>1. PrimaryKey(s) = <<s.fileId, s.chunkIndex>> /\ PrimaryKey(r) = <<f, idx>>
      BY <2>1, KeyOfChunk
    <3> QED BY <1>2, <3>1
  <2>3. r \in InsertOrReplace(table, rows)
    BY <2>2 DEF InsertOrReplace
  <2> QED BY <2>1, <2>3 DEF HasChunk
<1> QED BY <1>1, <1>2

-----------------------------------------------------------------------------
(* What each step makes of the process that takes it.                       *)

Becomes(j, s) ==
    /\ job' = [job EXCEPT ![j] = s]
    /\ s \in Process /\ ProcessOK(s)

SameWork(s, t) == s.file = t.file /\ s.step = t.step /\ s.block = t.block

(* What is known of a job: its step is one of its file, and its row names   *)
(* its machine's tables.                                                    *)
LEMMA ProcessType ==
    ASSUME JobsInv, NEW j \in Jobs
    PROVE  /\ job[j] \in Process /\ ProcessOK(job[j])
           /\ job[j].file \in FileIds /\ job[j].step \in Nat
           /\ job[j].step < Len(Content[job[j].file])
           /\ RowOf(job[j]) = RowOfStep(j) /\ HostOf[j] \in Hosts /\ AccountOf[j] \in Accounts
<1>1. job[j] \in Process /\ ProcessOK(job[j])
  BY DEF JobsInv
<1>2. job[j].file \in FileIds /\ job[j].step \in Nat
  BY <1>1 DEF Process
<1> QED BY <1>1, <1>2 DEF ProcessOK, RowOf, RowOfStep

(* A process that asks for a command is at its beginning.                   *)
LEMMA StartEffect ==
    ASSUME JobsInv, NEW j \in Jobs, NEW pc \in {"create", "fetch", "syncFiles"},
           NEW f \in FileIds, NEW from \in 0..MaxBlocks, Start(j, pc, f, from)
    PROVE  \E s : Becomes(j, s) /\ s.pc = pc
<1> DEFINE s1 == [Idle EXCEPT !.pc = pc]
           s2 == [s1 EXCEPT !.file = f]
           s3 == [s2 EXCEPT !.from = from]
<1>1. job' = [job EXCEPT ![j] = s3]
  BY DEF Start
<1>2. (CHOOSE g \in FileIds : TRUE) \in FileIds
  OBVIOUS
<1>3. Idle \in Process /\ Idle.step = 0 /\ Idle.file \in FileIds
  BY <1>2 DEF Idle, Process, Resting
<1>4. s1 \in Process /\ s1.step = 0 /\ s1.pc = pc
  BY <1>3 DEF Process, Sending, Reading
<1> HIDE DEF s1
<1>5. s2 \in Process /\ s2.step = 0 /\ s2.pc = pc /\ s2.file = f
  BY <1>4 DEF Process
<1> HIDE DEF s2
<1>6. s3 \in Process /\ s3.step = 0 /\ s3.pc = pc /\ s3.file = f
  BY <1>5 DEF Process
<1> HIDE DEF s3
<1>7. ProcessOK(s3)
  BY <1>6, ContentIsChunks DEF ProcessOK, Recording
<1> QED BY <1>1, <1>6, <1>7 DEF Becomes

(* A job that goes on keeps its file and its place in it.                   *)
LEMMA GoEffect ==
    ASSUME JobsInv, NEW j \in Jobs,
           NEW pc \in Resting \cup Recording \cup Sending \cup Reading,
           pc \in Recording => job[j].block \in 1..MaxBlocks,
           pc \in {"create", "fileToBlob", "fileToIndex"} => job[j].step = 0,
           job' = Go(j, pc)
    PROVE  \E s : Becomes(j, s) /\ s.pc = pc /\ SameWork(s, job[j])
<1> DEFINE s == [job[j] EXCEPT !.pc = pc]
<1>1. job \in [Jobs -> Process] /\ job[j] \in Process /\ ProcessOK(job[j])
  BY DEF JobsInv
<1>2. job' = [job EXCEPT ![j] = s]
  BY <1>1 DEF Go
<1>3. s \in Process /\ s.pc = pc /\ SameWork(s, job[j])
  BY <1>1 DEF Process, SameWork
<1> HIDE DEF s
<1>4. ProcessOK(s)
  BY <1>1, <1>3 DEF ProcessOK, SameWork
<1> QED BY <1>2, <1>3, <1>4 DEF Becomes

(* A job that raises has failed.                                            *)
LEMMA RaiseEffect ==
    ASSUME JobsInv, NEW j \in Jobs,
           NEW error \in {"transaction", "foreign key", "no chunks", "integrity", "killed"},
           job' = Raise(j, error)
    PROVE  \E s : Becomes(j, s) /\ s.pc = "failed"
<1> DEFINE s1 == [job[j] EXCEPT !.pc = "failed"]
           s2 == [s1 EXCEPT !.error = error]
<1>1. job \in [Jobs -> Process] /\ job[j] \in Process /\ ProcessOK(job[j])
  BY DEF JobsInv
<1>2. job' = [job EXCEPT ![j] = s2]
  BY <1>1 DEF Raise
<1>3. s1 \in Process /\ s1.pc = "failed" /\ SameWork(s1, job[j])
  BY <1>1 DEF Process, SameWork, Resting
<1> HIDE DEF s1
<1>4. s2 \in Process /\ s2.pc = "failed" /\ SameWork(s2, job[j])
  BY <1>3 DEF Process, SameWork
<1> HIDE DEF s2
<1>5. ProcessOK(s2)
  BY <1>1, <1>4 DEF ProcessOK, SameWork, Recording
<1> QED BY <1>2, <1>4, <1>5 DEF Becomes

(* A receipt names the block that was mined.                                *)
LEMMA MinedEffect ==
    ASSUME JobsInv, NEW j \in Jobs, NEW pc \in {"fileToBlob", "chunkToBlob"},
           pc = "fileToBlob" => job[j].step = 0,
           Len(chain) \in Nat, Len(chain) < MaxBlocks, MinedAt(j, pc)
    PROVE  \E s : /\ Becomes(j, s) /\ s.pc = pc /\ s.block = Len(chain) + 1
                  /\ s.file = job[j].file /\ s.step = job[j].step
<1> DEFINE b == Len(chain) + 1
           s1 == [job[j] EXCEPT !.pc = pc]
           s2 == [s1 EXCEPT !.block = b]
<1>1. job \in [Jobs -> Process] /\ job[j] \in Process /\ ProcessOK(job[j])
  BY DEF JobsInv
<1>2. job' = [job EXCEPT ![j] = s2]
  BY <1>1 DEF MinedAt
<1>3. /\ s1 \in Process /\ s1.pc = pc /\ s1.file = job[j].file /\ s1.step = job[j].step
  BY <1>1 DEF Process, Recording
<1> HIDE DEF s1
<1>4. b \in 1..MaxBlocks /\ b \in 0..MaxBlocks
  OBVIOUS
<1> HIDE DEF b
<1>5. /\ s2 \in Process /\ s2.pc = pc /\ s2.file = job[j].file /\ s2.step = job[j].step
      /\ s2.block = b
  BY <1>3, <1>4 DEF Process
<1> HIDE DEF s2
<1>6. ProcessOK(s2)
  BY <1>1, <1>4, <1>5 DEF ProcessOK
<1> QED BY <1>2, <1>5, <1>6 DEF Becomes, b

(* After the last chunk the upload returns; else it goes on to the next.    *)
LEMMA RecordedEffect ==
    ASSUME JobsInv, NEW j \in Jobs, RecordChunkIndex(j)
    PROVE  \E s : /\ Becomes(j, s) /\ s.file = job[j].file
                  /\ \/ s.pc = "uploaded" /\ job[j].step + 1 = Len(Content[s.file])
                     \/ s.pc = "chunk" /\ s.step = job[j].step + 1
<1>1. /\ job \in [Jobs -> Process] /\ job[j] \in Process /\ ProcessOK(job[j])
      /\ job[j].file \in FileIds /\ job[j].step \in Nat
  BY ProcessType DEF JobsInv
<1>2. CASE IsLast(job[j].file, job[j].step)
  <2>1. job' = Go(j, "uploaded")
    BY <1>2 DEF RecordChunkIndex
  <2>2. PICK s : Becomes(j, s) /\ s.pc = "uploaded" /\ SameWork(s, job[j])
    BY <2>1, GoEffect DEF Resting, Recording
  <2> QED BY <1>2, <2>2 DEF SameWork, IsLast
<1>3. CASE ~IsLast(job[j].file, job[j].step)
  <2> DEFINE n == job[j].step + 1
             s1 == [job[j] EXCEPT !.pc = "chunk"]
             s2 == [s1 EXCEPT !.step = n]
  <2>1. job' = [job EXCEPT ![j] = s2]
    BY <1>1, <1>3 DEF RecordChunkIndex
  <2>2. /\ s1 \in Process /\ s1.pc = "chunk" /\ s1.file = job[j].file
        /\ s1.step = job[j].step
    BY <1>1 DEF Process, Sending
  <2>6. n \in Nat
    BY <1>1
  <2> HIDE DEF s1, n
  <2>3. /\ s2 \in Process /\ s2.pc = "chunk" /\ s2.file = job[j].file /\ s2.step = n
    BY <2>2, <2>6 DEF Process
  <2> HIDE DEF s2
  <2>4. job[j].step + 1 < Len(Content[job[j].file])
    <3>1. Len(Content[job[j].file]) \in Nat /\ job[j].step < Len(Content[job[j].file])
      BY <1>1, ContentIsChunks DEF ProcessOK
    <3> QED BY <1>1, <1>3, <3>1 DEF IsLast
  <2>5. ProcessOK(s2)
    BY <2>3, <2>4 DEF ProcessOK, Recording, n
  <2> QED BY <2>1, <2>3, <2>5 DEF Becomes, n
<1> QED BY <1>2, <1>3

-----------------------------------------------------------------------------
(* What each statement makes of the tables: the types and the foreign key   *)
(* are kept, no key of a chunk is lost, and when the new rows repeat events *)
(* of the chain all rows do.                                                *)

KeysStay ==
    \A h \in Hosts : \A f, idx :
        /\ HasChunk(blobChunks[h], f, idx) => HasChunk(blobChunks'[h], f, idx)
        /\ HasChunk(indexChunks[h], f, idx) => HasChunk(indexChunks'[h], f, idx)

TablesKept == TablesInv' /\ KeysStay /\ (RowsInv /\ MatchInv => RowsInv')

(* Leaving the tables alone keeps what is true of them.                     *)
LEMMA NoTableChanges ==
    ASSUME TablesInv, UNCHANGED <<chainVars, blobVars, indexVars>>
    PROVE  TablesKept
  BY DEF TablesInv, TablesKept, KeysStay, RowsInv, chainVars, blobVars, indexVars

(* Inserting file rows keeps the blob store in order.                       *)
LEMMA BlobFilesChange ==
    ASSUME TablesInv, NEW h \in Hosts, NEW rows \in SUBSET FileRow,
           RowsInv /\ MatchInv => \A r \in rows : FileIsLogged(chain, r),
           blobFiles' = [blobFiles EXCEPT ![h] = InsertOrIgnore(@, rows)],
           UNCHANGED <<chainVars, blobChunks, blobSynced, indexVars>>
    PROVE  TablesKept
<1> DEFINE new == InsertOrIgnore(blobFiles[h], rows)
<1>1. /\ blobFiles[h] \subseteq new /\ new \subseteq blobFiles[h] \cup rows
      /\ blobFiles' = [blobFiles EXCEPT ![h] = new]
  BY IgnoreKeepsRows DEF TablesInv
<1> HIDE DEF new
<1>2. /\ blobFiles'[h] = new /\ blobFiles' \in [Hosts -> SUBSET FileRow]
      /\ \A o \in Hosts : o # h => blobFiles'[o] = blobFiles[o]
  BY <1>1 DEF TablesInv
<1>3. \A o \in Hosts : blobFiles[o] \subseteq blobFiles'[o]
  BY <1>1, <1>2
<1>4. \A o \in Hosts : Owned(blobChunks[o], blobFiles'[o])
  BY <1>3 DEF TablesInv, Owned
<1>5. TablesInv' /\ KeysStay
  BY <1>2, <1>4 DEF TablesInv, KeysStay, indexVars
<1>6. RowsInv /\ MatchInv => RowsInv'
  BY <1>1, <1>2 DEF RowsInv, indexVars, chainVars
<1> QED BY <1>5, <1>6 DEF TablesKept

(* Inserting file rows keeps the index in order.                            *)
LEMMA IndexFilesChange ==
    ASSUME TablesInv, NEW h \in Hosts, NEW rows \in SUBSET FileRow,
           RowsInv /\ MatchInv => \A r \in rows : FileIsLogged(chain, r),
           indexFiles' = [indexFiles EXCEPT ![h] = InsertOrIgnore(@, rows)],
           UNCHANGED <<chainVars, blobVars, indexChunks>>
    PROVE  TablesKept
<1> DEFINE new == InsertOrIgnore(indexFiles[h], rows)
<1>1. /\ new \subseteq indexFiles[h] \cup rows
      /\ indexFiles' = [indexFiles EXCEPT ![h] = new]
  BY IgnoreKeepsRows DEF TablesInv
<1> HIDE DEF new
<1>2. /\ indexFiles'[h] = new /\ indexFiles' \in [Hosts -> SUBSET FileRow]
      /\ \A o \in Hosts : o # h => indexFiles'[o] = indexFiles[o]
  BY <1>1 DEF TablesInv
<1>3. TablesInv' /\ KeysStay
  BY <1>2 DEF TablesInv, KeysStay, blobVars
<1>4. RowsInv /\ MatchInv => RowsInv'
  BY <1>1, <1>2 DEF RowsInv, blobVars, chainVars
<1> QED BY <1>3, <1>4 DEF TablesKept

(* Inserting chunk rows of known files keeps the blob store in order.       *)
LEMMA BlobChunksChange ==
    ASSUME TablesInv, NEW h \in Hosts, NEW rows \in SUBSET ChunkRow,
           Owned(rows, blobFiles[h]),
           RowsInv /\ MatchInv => \A r \in rows : ChunkIsLogged(chain, r),
           blobChunks' = [blobChunks EXCEPT ![h] = InsertOrReplace(@, rows)],
           UNCHANGED <<chainVars, blobFiles, blobSynced, indexVars>>
    PROVE  /\ TablesKept
           /\ \A r \in rows : HasChunk(blobChunks'[h], r.fileId, r.chunkIndex)
<1> DEFINE new == InsertOrReplace(blobChunks[h], rows)
<1>1. blobChunks[h] \in SUBSET ChunkRow
  BY DEF TablesInv
<1>2. /\ new \subseteq blobChunks[h] \cup rows
      /\ blobChunks' = [blobChunks EXCEPT ![h] = new]
      /\ \A f, idx : HasChunk(blobChunks[h], f, idx) \/ HasChunk(rows, f, idx)
                        => HasChunk(new, f, idx)
  BY <1>1, ReplaceIsFromBoth, ReplaceLeavesKeys DEF TablesInv
<1> HIDE DEF new
<1>3. /\ blobChunks'[h] = new /\ blobChunks' \in [Hosts -> SUBSET ChunkRow]
      /\ \A o \in Hosts : o # h => blobChunks'[o] = blobChunks[o]
  BY <1>1, <1>2 DEF TablesInv
<1>4. \A o \in Hosts : Owned(blobChunks'[o], blobFiles[o])
  BY <1>2, <1>3 DEF TablesInv, Owned
<1>5. TablesInv'
  BY <1>3, <1>4 DEF TablesInv, indexVars
<1>6. KeysStay
  BY <1>2, <1>3 DEF KeysStay, indexVars
<1>7. RowsInv /\ MatchInv => RowsInv'
  BY <1>2, <1>3 DEF RowsInv, indexVars, chainVars
<1>8. \A r \in rows : HasChunk(blobChunks'[h], r.fileId, r.chunkIndex)
  <2>1. \A r \in rows : HasChunk(rows, r.fileId, r.chunkIndex)
    BY DEF HasChunk
  <2> QED BY <1>2, <1>3, <2>1
<1> QED BY <1>5, <1>6, <1>7, <1>8 DEF TablesKept

(* Inserting a chunk row keeps the index in order.                          *)
LEMMA IndexChunksChange ==
    ASSUME TablesInv, NEW h \in Hosts, NEW row \in ChunkRow,
           RowsInv /\ MatchInv => ChunkIsLogged(chain, row),
           indexChunks' = [indexChunks EXCEPT ![h] = InsertOrIgnore(@, {row})],
           UNCHANGED <<chainVars, blobVars, indexFiles>>
    PROVE  TablesKept /\ HasChunk(indexChunks'[h], row.fileId, row.chunkIndex)
<1> DEFINE new == InsertOrIgnore(indexChunks[h], {row})
<1>1. indexChunks[h] \in SUBSET ChunkRow
  BY DEF TablesInv
<1>2. /\ indexChunks[h] \subseteq new /\ new \subseteq indexChunks[h] \cup {row}
      /\ indexChunks' = [indexChunks EXCEPT ![h] = new]
      /\ HasChunk(new, row.fileId, row.chunkIndex)
  BY <1>1, IgnoreKeepsRows, IgnoreLeavesKey DEF TablesInv
<1>7. new \in SUBSET ChunkRow
  BY <1>1, <1>2
<1> HIDE DEF new
<1>3. /\ indexChunks'[h] = new /\ indexChunks' \in [Hosts -> SUBSET ChunkRow]
      /\ \A o \in Hosts : o # h => indexChunks'[o] = indexChunks[o]
  BY <1>1, <1>2, <1>7 DEF TablesInv
<1>4. TablesInv'
  BY <1>3 DEF TablesInv, blobVars
<1>5. KeysStay
  BY <1>2, <1>3 DEF KeysStay, HasChunk, blobVars
<1>6. RowsInv /\ MatchInv => RowsInv'
  BY <1>2, <1>3 DEF RowsInv, blobVars, chainVars
<1> QED BY <1>2, <1>3, <1>4, <1>5, <1>6 DEF TablesKept

(* The rows made from the logs are rows, and repeat their events.           *)
LEMMA RowsOfLogs ==
    ASSUME ChainInv, NEW from
    PROVE  /\ \A b \in LogBlocks("ChunkUploaded", from) :
                /\ ChunkRowAt(b) \in ChunkRow /\ ChunkIsLogged(chain, ChunkRowAt(b))
                /\ ChunkRowAt(b).fileId = chain[b].event.fileId
           /\ \A b \in LogBlocks("FileCreated", from) :
                FileRowAt(b) \in FileRow /\ FileIsLogged(chain, FileRowAt(b))
<1>1. TypeOK /\ Len(chain) \in Nat /\ Len(chain) <= MaxBlocks /\ DOMAIN chain = 1..Len(chain)
  BY DEF ChainInv, IInv, TypeOK
<1>2. \A b \in 1..Len(chain) : b \in 1..MaxBlocks /\ chain[b].event \in Events
  <2>1. \A b \in 1..Len(chain) : b \in 1..MaxBlocks
    BY <1>1
  <2>2. \A b \in 1..Len(chain) : chain[b] \in Block
    BY <1>1 DEF TypeOK
  <2> QED BY <2>1, <2>2 DEF Block
<1>3. ASSUME NEW b \in LogBlocks("ChunkUploaded", from)
      PROVE  /\ ChunkRowAt(b) \in ChunkRow /\ ChunkIsLogged(chain, ChunkRowAt(b))
             /\ ChunkRowAt(b).fileId = chain[b].event.fileId
  <2>1. b \in 1..Len(chain) /\ chain[b].event.type = "ChunkUploaded"
    BY <1>1 DEF LogBlocks
  <2>2. chain[b].event \in ChunkUploaded
    BY <1>2, <2>1 DEF Events, FileCreated, NoEvent
  <2> QED BY <1>2, <2>1, <2>2 DEF ChunkRowAt, ChunkRow, ChunkIsLogged, Uploads, ChunkUploaded
<1>4. ASSUME NEW b \in LogBlocks("FileCreated", from)
      PROVE  FileRowAt(b) \in FileRow /\ FileIsLogged(chain, FileRowAt(b))
  <2>1. b \in 1..Len(chain) /\ chain[b].event.type = "FileCreated"
    BY <1>1 DEF LogBlocks
  <2>2. chain[b].event \in FileCreated
    BY <1>2, <2>1 DEF Events, ChunkUploaded, NoEvent
  <2> QED BY <1>2, <2>1, <2>2 DEF FileRowAt, FileRow, FileIsLogged, Creates, FileCreated
<1> QED BY <1>3, <1>4

-----------------------------------------------------------------------------
(* The steps that leave the chain alone.                                    *)

LocalStep(j) ==
    \E s :
        /\ Becomes(j, s)
        /\ TablesKept
        /\ RowsInv /\ MatchInv =>
                ProcessMatches(files, chain, blobChunks'[HostOf[j]],
                               indexChunks'[HostOf[j]], s)

(* Nothing is asked of the tables for a job that is not uploading.          *)
LEMMA NotUploading ==
    ASSUME NEW s, s.pc \notin Uploading, NEW fs, NEW c, NEW blob, NEW index
    PROVE  ProcessMatches(fs, c, blob, index, s)
  BY DEF ProcessMatches, Uploading

(* A job that starts, raises or dies leaves every table alone.              *)
LEMMA StartsAndFailures ==
    ASSUME ChainInv, LocalInv, NEW j \in Jobs,
           \/ \E f \in FileIds : StartUpload(j, f) \/ StartDownload(j, f)
           \/ StartSync(j) \/ TxFails(j) \/ KillJob(j)
    PROVE  LocalStep(j)
<1>1. JobsInv /\ TablesInv /\ job[j].file \in FileIds /\ HostOf[j] \in Hosts
  BY ProcessType DEF LocalInv
<1>2. 0 \in 0..MaxBlocks /\ blobSynced[HostOf[j]] \in 0..MaxBlocks
  BY <1>1 DEF TablesInv
<1>3. UNCHANGED <<chainVars, blobVars, indexVars>>
  BY DEF StartUpload, StartDownload, StartSync, Start, TxFails, KillJob
<1>4. TablesKept
  BY <1>1, <1>3, NoTableChanges
<1>5. \E s : Becomes(j, s) /\ s.pc \in {"create", "fetch", "syncFiles", "failed"}
  <2>1. CASE \E f \in FileIds : StartUpload(j, f)
    BY <1>1, <1>2, <2>1, StartEffect DEF StartUpload
  <2>2. CASE \E f \in FileIds : StartDownload(j, f)
    BY <1>1, <1>2, <2>2, StartEffect DEF StartDownload
  <2>3. CASE StartSync(j)
    BY <1>1, <1>2, <2>3, StartEffect DEF StartSync
  <2>4. CASE TxFails(j)
    BY <1>1, <2>4, RaiseEffect DEF TxFails
  <2>5. CASE KillJob(j)
    BY <1>1, <2>5, RaiseEffect DEF KillJob
  <2> QED BY <2>1, <2>2, <2>3, <2>4, <2>5
<1>6. PICK s : Becomes(j, s) /\ s.pc \notin Uploading
  BY <1>5 DEF Uploading
<1> QED BY <1>4, <1>6, NotUploading DEF LocalStep

(* The two writes after createFile() record an event of the chain.          *)
LEMMA RecordFileSteps ==
    ASSUME LocalInv, NEW j \in Jobs, RecordFileBlob(j) \/ RecordFileIndex(j)
    PROVE  LocalStep(j)
<1> DEFINE row == [fileId |-> job[j].file, block |-> job[j].block]
           h == HostOf[j]
<1>1. /\ JobsInv /\ TablesInv /\ h \in Hosts /\ job[j].file \in FileIds
      /\ job[j] \in Process /\ ProcessOK(job[j])
  BY ProcessType DEF LocalInv
<1>2. job[j].pc \in {"fileToBlob", "fileToIndex"} /\ job[j].pc \in Recording
  BY DEF RecordFileBlob, RecordFileIndex, Recording
<1>3. {row} \in SUBSET FileRow /\ job[j].block \in 1..MaxBlocks /\ job[j].step = 0
  BY <1>1, <1>2 DEF FileRow, ProcessOK
<1>4. MatchInv => FileIsLogged(chain, row)
  BY <1>2 DEF MatchInv, ProcessMatches
<1>5. MatchInv => /\ files[job[j].file].exists
                  /\ files[job[j].file].chunkCount = Len(Content[job[j].file])
  BY <1>2 DEF MatchInv, ProcessMatches, Uploading
<1>6. CASE RecordFileBlob(j)
  <2>1. TablesKept
    <3>1. /\ blobFiles' = [blobFiles EXCEPT ![h] = InsertOrIgnore(@, {row})]
          /\ UNCHANGED <<chainVars, blobChunks, blobSynced, indexVars>>
      BY <1>6 DEF RecordFileBlob
    <3> HIDE DEF row, h
    <3> QED BY <1>1, <1>3, <1>4, <3>1, BlobFilesChange
  <2>2. PICK s : Becomes(j, s) /\ s.pc = "fileToIndex" /\ SameWork(s, job[j])
    BY <1>1, <1>3, <1>6, GoEffect DEF RecordFileBlob, Recording
  <2>3. MatchInv => FileIsLogged(chain, [fileId |-> s.file, block |-> s.block])
    BY <1>4, <2>2 DEF SameWork
  <2>4. MatchInv => ProcessMatches(files, chain, blobChunks'[h], indexChunks'[h], s)
    BY <1>5, <2>2, <2>3 DEF ProcessMatches, SameWork
  <2> QED BY <2>1, <2>2, <2>4 DEF LocalStep
<1>7. CASE RecordFileIndex(j)
  <2>1. TablesKept
    <3>1. /\ indexFiles' = [indexFiles EXCEPT ![h] = InsertOrIgnore(@, {row})]
          /\ UNCHANGED <<chainVars, blobVars, indexChunks>>
      BY <1>7 DEF RecordFileIndex
    <3> HIDE DEF row, h
    <3> QED BY <1>1, <1>3, <1>4, <3>1, IndexFilesChange
  <2>2. PICK s : Becomes(j, s) /\ s.pc = "chunk" /\ SameWork(s, job[j])
    BY <1>1, <1>3, <1>7, GoEffect DEF RecordFileIndex, Recording, Sending
  <2>3. StoredBelow(blobChunks'[h], indexChunks'[h], s.file, s.step)
    BY <1>3, <2>2 DEF StoredBelow, SameWork
  <2>4. MatchInv => ProcessMatches(files, chain, blobChunks'[h], indexChunks'[h], s)
    BY <1>5, <2>2, <2>3 DEF ProcessMatches, SameWork
  <2> QED BY <2>1, <2>2, <2>4 DEF LocalStep
<1> QED BY <1>6, <1>7

(* A chunk that is recorded is the one whose receipt the process holds.     *)
LEMMA RecordedRow ==
    ASSUME JobsInv, NEW j \in Jobs, job[j].pc \in {"chunkToBlob", "chunkToIndex"}
    PROVE  /\ RowOfStep(j) \in ChunkRow
           /\ RowOfStep(j).fileId = job[j].file /\ RowOfStep(j).chunkIndex = job[j].step
           /\ MatchInv =>
                /\ ChunkIsLogged(chain, RowOfStep(j))
                /\ files[job[j].file].exists
                /\ files[job[j].file].chunkCount = Len(Content[job[j].file])
                /\ StoredBelow(blobChunks[HostOf[j]], indexChunks[HostOf[j]],
                               job[j].file, job[j].step)
<1>1. /\ job[j] \in Process /\ ProcessOK(job[j]) /\ job[j].file \in FileIds
      /\ job[j].step \in Nat /\ job[j].step < Len(Content[job[j].file])
      /\ RowOf(job[j]) = RowOfStep(j)
  BY ProcessType
<1>2. job[j].block \in 1..MaxBlocks
  BY <1>1 DEF ProcessOK, Recording
<1>3. Content[job[j].file][job[j].step + 1] \in Payloads
  BY <1>1, ContentIsChunks
<1>4. RowOfStep(j) \in ChunkRow
  BY <1>1, <1>2, <1>3 DEF RowOfStep, ChunkRow
<1>5. RowOfStep(j).fileId = job[j].file /\ RowOfStep(j).chunkIndex = job[j].step
  BY DEF RowOfStep
<1> QED BY <1>1, <1>4, <1>5 DEF MatchInv, ProcessMatches, Uploading

(* Chunks that are recorded stay recorded: no write loses a key.            *)
LEMMA StoredBelowStays ==
    ASSUME KeysStay, NEW h \in Hosts, NEW f, NEW n,
           StoredBelow(blobChunks[h], indexChunks[h], f, n)
    PROVE  StoredBelow(blobChunks'[h], indexChunks'[h], f, n)
  BY DEF KeysStay, StoredBelow

(* The two writes after uploadChunk() record the chunk of the job's step.   *)
LEMMA RecordChunkSteps ==
    ASSUME LocalInv, NEW j \in Jobs, RecordChunkBlob(j) \/ RecordChunkIndex(j)
    PROVE  LocalStep(j)
<1> DEFINE row == RowOfStep(j)
           h == HostOf[j]
           f == job[j].file
           n == job[j].step
<1>1. /\ JobsInv /\ TablesInv /\ h \in Hosts /\ job[j] \in Process /\ ProcessOK(job[j])
      /\ RowOf(job[j]) = row /\ f \in FileIds /\ n \in Nat
  BY ProcessType DEF LocalInv
<1>2. job[j].pc \in {"chunkToBlob", "chunkToIndex"} /\ job[j].block \in 1..MaxBlocks
  BY <1>1 DEF RecordChunkBlob, RecordChunkIndex, Recording, ProcessOK
<1>3. /\ row \in ChunkRow /\ row.fileId = f /\ row.chunkIndex = n
      /\ MatchInv =>
            /\ ChunkIsLogged(chain, row)
            /\ files[f].exists /\ files[f].chunkCount = Len(Content[f])
            /\ StoredBelow(blobChunks[h], indexChunks[h], f, n)
  BY <1>1, <1>2, RecordedRow
<1>4. CASE RecordChunkBlob(j)
  <2>1. /\ blobChunks' = [blobChunks EXCEPT ![h] = InsertOrReplace(@, {row})]
        /\ UNCHANGED <<chainVars, blobFiles, blobSynced, indexVars>>
        /\ HasFile(h, f)
    BY <1>4 DEF RecordChunkBlob
  <2>2. PICK s : Becomes(j, s) /\ s.pc = "chunkToIndex" /\ SameWork(s, job[j])
    BY <1>1, <1>2, <1>4, GoEffect DEF RecordChunkBlob, Recording
  <2>3. RowOf(s) = row
    BY <1>1, <2>2 DEF RowOf, SameWork
  <2> HIDE DEF row, h
  <2>4. {row} \in SUBSET ChunkRow /\ Owned({row}, blobFiles[h])
    BY <1>3, <2>1 DEF HasFile, Owned
  <2>5. TablesKept /\ HasChunk(blobChunks'[h], f, n)
    BY <1>1, <1>3, <2>1, <2>4, BlobChunksChange
  <2>6. MatchInv => StoredBelow(blobChunks'[h], indexChunks'[h], f, n)
    BY <1>1, <1>3, <2>5, StoredBelowStays DEF TablesKept
  <2>7. MatchInv => ProcessMatches(files, chain, blobChunks'[h], indexChunks'[h], s)
    BY <1>3, <2>2, <2>3, <2>5, <2>6 DEF ProcessMatches, SameWork
  <2> QED BY <2>2, <2>5, <2>7 DEF LocalStep, h
<1>5. CASE RecordChunkIndex(j)
  <2>1. /\ indexChunks' = [indexChunks EXCEPT ![h] = InsertOrIgnore(@, {row})]
        /\ UNCHANGED <<chainVars, blobVars, indexFiles>>
        /\ job[j].pc = "chunkToIndex"
    BY <1>5 DEF RecordChunkIndex
  <2>2. PICK s : /\ Becomes(j, s) /\ s.file = f
                 /\ \/ s.pc = "uploaded" /\ n + 1 = Len(Content[s.file])
                    \/ s.pc = "chunk" /\ s.step = n + 1
    BY <1>1, <1>5, RecordedEffect
  <2>3. MatchInv => HasChunk(blobChunks[h], f, n)
    BY <2>1 DEF MatchInv, ProcessMatches
  <2> HIDE DEF row, h
  <2>4. TablesKept /\ HasChunk(indexChunks'[h], f, n)
    BY <1>1, <1>3, <2>1, IndexChunksChange
  <2>5. MatchInv => StoredBelow(blobChunks'[h], indexChunks'[h], f, n + 1)
    <3> SUFFICES ASSUME MatchInv
                 PROVE  StoredBelow(blobChunks'[h], indexChunks'[h], f, n + 1)
      OBVIOUS
    <3>1. StoredBelow(blobChunks'[h], indexChunks'[h], f, n)
      BY <1>1, <1>3, <2>4, StoredBelowStays DEF TablesKept
    <3>2. HasChunk(blobChunks'[h], f, n) /\ HasChunk(indexChunks'[h], f, n)
      BY <1>1, <2>3, <2>4 DEF TablesKept, KeysStay
    <3>3. ASSUME NEW i \in 0..((n + 1) - 1)
          PROVE  HasChunk(blobChunks'[h], f, i) /\ HasChunk(indexChunks'[h], f, i)
      <4>1. i \in 0..(n - 1) \/ i = n
        BY <1>1, <3>3
      <4> HIDE DEF n, f
      <4> QED BY <3>1, <3>2, <4>1 DEF StoredBelow
    <3> QED BY <3>3 DEF StoredBelow
  <2>6. MatchInv => ProcessMatches(files, chain, blobChunks'[h], indexChunks'[h], s)
    BY <1>3, <2>2, <2>5 DEF ProcessMatches
  <2> QED BY <2>2, <2>4, <2>6 DEF LocalStep, h
<1> QED BY <1>4, <1>5

(* What a download or a sync stores are rows of the chain's logs, of files  *)
(* the blob store knows.                                                    *)
LEMMA StoreChunksStep ==
    ASSUME ChainInv, TablesInv, NEW h \in Hosts, NEW from,
           NEW blocks \in SUBSET LogBlocks("ChunkUploaded", from),
           \A b \in blocks : HasFile(h, chain[b].event.fileId),
           blobChunks' = [blobChunks EXCEPT ![h] = StoreChunks(@, blocks)],
           UNCHANGED <<chainVars, blobFiles, blobSynced, indexVars>>
    PROVE  TablesKept
<1> DEFINE rows == {ChunkRowAt(b) : b \in blocks}
<1>1. /\ rows \in SUBSET ChunkRow /\ Owned(rows, blobFiles[h])
      /\ \A r \in rows : ChunkIsLogged(chain, r)
  BY RowsOfLogs DEF Owned, HasFile
<1>2. blobChunks' = [blobChunks EXCEPT ![h] = InsertOrReplace(@, rows)]
  BY DEF StoreChunks
<1> HIDE DEF rows
<1> QED BY <1>1, <1>2, BlobChunksChange

(* What can be stored are logs, of files that the blob store knows.         *)
LEMMA StorableBlocks ==
    ASSUME ChainInv, NEW j \in Jobs
    PROVE  \E from :
             /\ Storable(j) \in SUBSET LogBlocks("ChunkUploaded", from)
             /\ \A b \in Storable(j) : HasFile(HostOf[j], chain[b].event.fileId)
<1>1. \E from : ChunkLogs(j) \subseteq LogBlocks("ChunkUploaded", from)
  BY DEF ChunkLogs
<1>2. \A from : \A b \in LogBlocks("ChunkUploaded", from) : b \in Nat
  BY DEF LogBlocks, ChainInv, IInv, TypeOK
<1>3. \A b \in Storable(j) : b \in ChunkLogs(j) /\ b <= b
  BY <1>1, <1>2 DEF Storable
<1> QED BY <1>1, <1>3 DEF Storable

(* A step that stores some of them keeps the tables in order.               *)
LEMMA StorableStep ==
    ASSUME ChainInv, TablesInv, NEW j \in Jobs, HostOf[j] \in Hosts,
           NEW blocks \in SUBSET Storable(j),
           blobChunks' = [blobChunks EXCEPT ![HostOf[j]] = StoreChunks(@, blocks)],
           UNCHANGED <<chainVars, blobFiles, blobSynced, indexVars>>
    PROVE  TablesKept
<1>1. PICK from : /\ blocks \in SUBSET LogBlocks("ChunkUploaded", from)
                  /\ \A b \in blocks : HasFile(HostOf[j], chain[b].event.fileId)
  BY StorableBlocks
<1> QED BY <1>1, StoreChunksStep

(* A download writes chunks of the chain, of a file the blob store knows.   *)
LEMMA DownloadStep ==
    ASSUME ChainInv, LocalInv, NEW j \in Jobs, Download(j)
    PROVE  LocalStep(j)
<1>1. JobsInv /\ TablesInv /\ HostOf[j] \in Hosts
  BY ProcessType DEF LocalInv
<1>2. \E s : Becomes(j, s) /\ s.pc \notin Uploading
  <2>1. \/ \E error \in {"foreign key", "no chunks", "integrity"} : job' = Raise(j, error)
        \/ job' = Go(j, "written")
    BY DEF Download
  <2>2. CASE \E error \in {"foreign key", "no chunks", "integrity"} : job' = Raise(j, error)
    BY <1>1, <2>2, RaiseEffect DEF Uploading
  <2>3. CASE job' = Go(j, "written")
    BY <1>1, <2>3, GoEffect DEF Uploading, Resting, Recording
  <2> QED BY <2>1, <2>2, <2>3
<1>3. /\ blobChunks' = [blobChunks EXCEPT ![HostOf[j]] = StoreChunks(@, Storable(j))]
      /\ UNCHANGED <<chainVars, blobFiles, blobSynced, indexVars>>
  BY <1>1 DEF Download, TablesInv
<1>4. TablesKept
  BY <1>1, <1>3, StorableStep
<1> QED BY <1>2, <1>4, NotUploading DEF LocalStep

(* The three requests of a sync write rows of the chain; the foreign key    *)
(* stops the rest.                                                          *)
LEMMA SyncSteps ==
    ASSUME ChainInv, LocalInv, NEW j \in Jobs,
           SyncFiles(j) \/ SyncChunks(j) \/ SyncTip(j) \/ KillInSyncFiles(j) \/ KillInChunks(j)
    PROVE  LocalStep(j)
<1> DEFINE h == HostOf[j]
<1>1. JobsInv /\ TablesInv /\ h \in Hosts
  BY ProcessType DEF LocalInv
<1>2. \E s : Becomes(j, s) /\ s.pc \notin Uploading
  <2>1. \/ \E pc \in {"syncChunks", "syncTip", "synced"} : job' = Go(j, pc)
        \/ \E error \in {"foreign key", "killed"} : job' = Raise(j, error)
    BY DEF SyncFiles, SyncChunks, SyncTip, KillInSyncFiles, KillInChunks
  <2>2. CASE \E pc \in {"syncChunks", "syncTip", "synced"} : job' = Go(j, pc)
    BY <1>1, <2>2, GoEffect DEF Uploading, Resting, Recording, Reading
  <2>3. CASE \E error \in {"foreign key", "killed"} : job' = Raise(j, error)
    BY <1>1, <2>3, RaiseEffect DEF Uploading
  <2> QED BY <2>1, <2>2, <2>3
<1>3. CASE SyncFiles(j) \/ KillInSyncFiles(j)
  <2>0. PICK blocks \in SUBSET LogBlocks("FileCreated", job[j].from) :
            /\ blobFiles' = [blobFiles EXCEPT ![h] = InsertOrIgnore(@, {FileRowAt(b) : b \in blocks})]
            /\ UNCHANGED <<chainVars, blobChunks, blobSynced, indexVars>>
    <3> DEFINE logs == LogBlocks("FileCreated", job[j].from)
               upTo(last) == {c \in logs : c <= last}
    <3>1. logs \in SUBSET logs /\ \A last \in logs : upTo(last) \in SUBSET logs
      OBVIOUS
    <3>2. \/ blobFiles' = [blobFiles EXCEPT ![h] = InsertOrIgnore(@, {FileRowAt(b) : b \in logs})]
          \/ \E last \in logs : blobFiles' =
                [blobFiles EXCEPT ![h] = InsertOrIgnore(@, {FileRowAt(b) : b \in upTo(last)})]
      BY <1>3 DEF SyncFiles, KillInSyncFiles
    <3>3. UNCHANGED <<chainVars, blobChunks, blobSynced, indexVars>>
      BY <1>3 DEF SyncFiles, KillInSyncFiles
    <3> HIDE DEF logs, upTo, h
    <3> QED BY <3>1, <3>2, <3>3 DEF logs
  <2> DEFINE rows == {FileRowAt(b) : b \in blocks}
  <2>1. /\ rows \in SUBSET FileRow /\ \A r \in rows : FileIsLogged(chain, r)
        /\ blobFiles' = [blobFiles EXCEPT ![h] = InsertOrIgnore(@, rows)]
        /\ UNCHANGED <<chainVars, blobChunks, blobSynced, indexVars>>
    BY <2>0, RowsOfLogs
  <2> HIDE DEF rows, h
  <2>2. TablesKept
    BY <1>1, <2>1, BlobFilesChange
  <2> QED BY <1>2, <2>2, NotUploading DEF LocalStep
<1>4. CASE SyncChunks(j) \/ KillInChunks(j)
  <2>1. PICK blocks \in SUBSET Storable(j) :
            /\ blobChunks' = [blobChunks EXCEPT ![h] = StoreChunks(@, blocks)]
            /\ UNCHANGED <<chainVars, blobFiles, blobSynced, indexVars>>
    <3> DEFINE upTo(last) == {b \in Storable(j) : b <= last}
    <3>1. \A last \in Storable(j) : upTo(last) \in SUBSET Storable(j)
      OBVIOUS
    <3>2. \/ blobChunks' = [blobChunks EXCEPT ![h] = StoreChunks(@, Storable(j))]
          \/ \E last \in Storable(j) :
                blobChunks' = [blobChunks EXCEPT ![h] = StoreChunks(@, upTo(last))]
      BY <1>4 DEF SyncChunks, KillInChunks
    <3>3. UNCHANGED <<chainVars, blobFiles, blobSynced, indexVars>>
      BY <1>4 DEF SyncChunks, KillInChunks
    <3> HIDE DEF upTo, h
    <3> QED BY <3>1, <3>2, <3>3
  <2>2. TablesKept
    BY <1>1, <2>1, StorableStep
  <2> QED BY <1>2, <2>2, NotUploading DEF LocalStep
<1>5. CASE SyncTip(j)
  <2>1. /\ blobSynced' = [blobSynced EXCEPT ![h] = Len(chain)]
        /\ UNCHANGED <<chainVars, blobFiles, blobChunks, indexVars>>
    BY <1>5 DEF SyncTip
  <2>2. Len(chain) \in 0..MaxBlocks
    BY DEF ChainInv, IInv, TypeOK
  <2>3. blobSynced' \in [Hosts -> 0..MaxBlocks]
    BY <1>1, <2>1, <2>2 DEF TablesInv
  <2>4. TablesInv'
    BY <1>1, <2>1, <2>3 DEF TablesInv, indexVars
  <2>5. TablesKept
    BY <2>1, <2>4 DEF TablesKept, KeysStay, RowsInv, indexVars, chainVars
  <2> QED BY <1>2, <2>5, NotUploading DEF LocalStep
<1> QED BY <1>3, <1>4, <1>5

-----------------------------------------------------------------------------
(* The steps that move the chain.  A call of a process has arguments of the *)
(* contract's types, and its block is the one the receipt names.            *)

LEMMA CreateTxEffect ==
    ASSUME ChainInv, LocalInv, NEW j \in Jobs, CreateTx(j)
    PROVE  /\ AnyCreate
           /\ \E s : Becomes(j, s) /\
                ProcessMatches(files', chain', blobChunks'[HostOf[j]],
                               indexChunks'[HostOf[j]], s)
<1> DEFINE f == job[j].file
           count == Len(Content[f])
           sender == AccountOf[j]
<1>1. /\ JobsInv /\ job[j] \in Process /\ ProcessOK(job[j]) /\ f \in FileIds
      /\ sender \in Accounts /\ count \in Nat
  BY ProcessType, ContentIsChunks DEF LocalInv
<1>2. TypeOK /\ Len(chain) \in Nat /\ job[j].pc = "create" /\ job[j].step = 0
  BY <1>1 DEF ChainInv, IInv, TypeOK, CreateTx, ProcessOK
<1>3. PICK name \in Names, size \in Sizes : CreateFile(f, name, size, count, sender)
  BY DEF CreateTx
<1>4. size \in Nat
  OBVIOUS
<1>5. MinedAt(j, "fileToBlob")
  BY DEF CreateTx
<1> DEFINE e == [type |-> "FileCreated", fileId |-> f, name |-> name,
                 size |-> size, chunkCount |-> count, owner |-> sender]
           fs == [files EXCEPT ![f] = MetadataOf(e)]
<1> HIDE DEF f, count, sender
<1>6. e \in Events /\ fs \in [FileIds -> FileMetadata] /\ Mine(e, fs)
  BY <1>1, <1>2, <1>3, <1>4, CreateIsMine
<1>7. e.type = "FileCreated" /\ e.fileId = f /\ MetadataOf(e).exists
      /\ MetadataOf(e).chunkCount = count
  BY DEF MetadataOf
<1>8. files'[f].exists /\ files'[f].chunkCount = count
  BY <1>1, <1>2, <1>6, <1>7 DEF Mine, TypeOK
<1> HIDE DEF e, fs
<1>9. /\ Len(chain) < MaxBlocks /\ Len(chain') = Len(chain) + 1
      /\ chain'[Len(chain) + 1].event = e
  BY <1>2, <1>6, MineKeepsPrefix DEF Mine
<1>10. PICK s : /\ Becomes(j, s) /\ s.pc = "fileToBlob" /\ s.block = Len(chain) + 1
                /\ s.file = f /\ s.step = 0
  BY <1>1, <1>2, <1>5, <1>9, MinedEffect DEF f
<1>11. FileIsLogged(chain', [fileId |-> s.file, block |-> s.block])
  BY <1>2, <1>7, <1>9, <1>10 DEF FileIsLogged, Creates
<1>12. ProcessMatches(files', chain', blobChunks'[HostOf[j]], indexChunks'[HostOf[j]], s)
  BY <1>8, <1>10, <1>11 DEF ProcessMatches, count, f
<1>13. AnyCreate
  BY <1>1, <1>3, <1>4 DEF AnyCreate
<1> QED BY <1>10, <1>12, <1>13

(* The transaction of a chunk is accepted with the block it returns.        *)
LEMMA ChunkTxEffect ==
    ASSUME ChainInv, LocalInv, NEW j \in Jobs, ChunkTx(j)
    PROVE  /\ AnyUpload
           /\ MatchInv => \E s : Becomes(j, s) /\
                ProcessMatches(files', chain', blobChunks'[HostOf[j]],
                               indexChunks'[HostOf[j]], s)
           /\ \E s : Becomes(j, s)
<1> DEFINE f == job[j].file
           n == job[j].step
           data == Content[f][n + 1]
           sender == AccountOf[j]
<1>1. /\ JobsInv /\ job[j] \in Process /\ ProcessOK(job[j]) /\ f \in FileIds
      /\ sender \in Accounts /\ n \in Nat /\ n < Len(Content[f])
  BY ProcessType DEF LocalInv
<1>2. data \in Payloads
  BY <1>1, ContentIsChunks
<1>3. TypeOK /\ Len(chain) \in Nat /\ job[j].pc = "chunk"
  BY DEF ChainInv, IInv, TypeOK, ChunkTx
<1>4. UploadChunk(f, n, data, sender) /\ MinedAt(j, "chunkToBlob")
      /\ UNCHANGED <<blobVars, indexVars>>
  BY DEF ChunkTx
<1>5. MatchInv => /\ files[f].exists /\ files[f].chunkCount = Len(Content[f])
                  /\ StoredBelow(blobChunks[HostOf[j]], indexChunks[HostOf[j]], f, n)
  BY <1>3 DEF MatchInv, ProcessMatches, Uploading
<1> DEFINE e == [type |-> "ChunkUploaded", fileId |-> f, chunkIndex |-> n,
                 data |-> data, sender |-> sender]
<1> HIDE DEF data, f, n, sender
<1>6. e \in Events /\ Mine(e, files)
  BY <1>1, <1>2, <1>3, <1>4, UploadIsMine
<1>7. /\ e.type = "ChunkUploaded" /\ e.fileId = f /\ e.chunkIndex = n /\ e.data = data
  OBVIOUS
<1> HIDE DEF e
<1>8. files \in [FileIds -> FileMetadata]
  BY <1>3 DEF TypeOK
<1>9. /\ Len(chain) < MaxBlocks /\ Len(chain') = Len(chain) + 1 /\ files' = files
      /\ chain'[Len(chain) + 1].event = e
  BY <1>3, <1>6, <1>8, MineKeepsPrefix DEF Mine
<1>10. PICK s : /\ Becomes(j, s) /\ s.pc = "chunkToBlob" /\ s.block = Len(chain) + 1
                /\ s.file = f /\ s.step = n
  BY <1>1, <1>3, <1>4, <1>9, MinedEffect DEF f, n
<1>11. /\ RowOf(s).fileId = f /\ RowOf(s).chunkIndex = n /\ RowOf(s).data = data
       /\ RowOf(s).block = Len(chain) + 1
  BY <1>10 DEF RowOf, data
<1>12. ChunkIsLogged(chain', RowOf(s))
  BY <1>3, <1>7, <1>9, <1>11 DEF ChunkIsLogged, Uploads
<1>13. MatchInv => ProcessMatches(files', chain', blobChunks'[HostOf[j]],
                                  indexChunks'[HostOf[j]], s)
  BY <1>4, <1>5, <1>9, <1>10, <1>12 DEF ProcessMatches, blobVars, indexVars
<1>14. AnyUpload
  BY <1>1, <1>2, <1>4 DEF AnyUpload
<1> QED BY <1>10, <1>13, <1>14

(* Other clients and reorganisations touch the chain alone.                 *)
LEMMA ChainMovesStep ==
    ASSUME ChainMoves
    PROVE  [AnyNext]_chainVars /\ UNCHANGED <<blobVars, indexVars, job>>
  BY NextIsAnyNext DEF ChainMoves

-----------------------------------------------------------------------------
(* The invariant is inductive.  On a chain that drops nothing, an event     *)
(* stays in its block, the metadata of a file stay, and a process that      *)
(* takes no step keeps what it knows.                                       *)

LEMMA BecomesInv ==
    ASSUME JobsInv, NEW j \in Jobs, NEW s, Becomes(j, s)
    PROVE  /\ JobsInv' /\ job'[j] = s
           /\ \A o \in Jobs : o # j => job'[o] = job[o]
  BY DEF JobsInv, Becomes

(* On a chain that does not reorganise a row keeps its event.               *)
LEMMA LoggedStays ==
    ASSUME ChainInv, [AnyNext]_chainVars, MaxReorg = 0
    PROVE  /\ \A r : FileIsLogged(chain, r) => FileIsLogged(chain', r)
           /\ \A r : ChunkIsLogged(chain, r) => ChunkIsLogged(chain', r)
<1>1. /\ Len(chain) \in Nat /\ Len(chain') \in Nat /\ Len(chain) <= Len(chain')
      /\ \A b \in 1..Len(chain) : chain'[b] = chain[b]
  BY NothingIsDropped
<1>2. \A b \in 1..Len(chain) : b \in 1..Len(chain')
  BY <1>1
<1> QED BY <1>1, <1>2 DEF FileIsLogged, ChunkIsLogged, Creates, Uploads

(* The chain's growth and other jobs' writes take nothing from a job.       *)
LEMMA MatchStays ==
    ASSUME ChainInv, LocalInv, MatchInv, [AnyNext]_chainVars, MaxReorg = 0, KeysStay,
           NEW j \in Jobs
    PROVE  ProcessMatches(files', chain', blobChunks'[HostOf[j]],
                          indexChunks'[HostOf[j]], job[j])
<1> DEFINE s == job[j]
           h == HostOf[j]
<1>1. h \in Hosts /\ s.file \in FileIds
  BY ProcessType DEF LocalInv
<1>2. ProcessMatches(files, chain, blobChunks[h], indexChunks[h], s)
  BY DEF MatchInv
<1> HIDE DEF s, h
<1>3. files[s.file].exists => files'[s.file] = files[s.file]
  BY <1>1, NothingIsDropped
<1>4. \A n : StoredBelow(blobChunks[h], indexChunks[h], s.file, n)
                => StoredBelow(blobChunks'[h], indexChunks'[h], s.file, n)
  BY <1>1, StoredBelowStays
<1>5. HasChunk(blobChunks[h], s.file, s.step) => HasChunk(blobChunks'[h], s.file, s.step)
  BY <1>1 DEF KeysStay
<1>6. ProcessMatches(files', chain', blobChunks'[h], indexChunks'[h], s)
  BY <1>2, <1>3, <1>4, <1>5, LoggedStays DEF ProcessMatches
<1> QED BY <1>6 DEF s, h

(* The tables are not written by a step that moves the chain.               *)
LEMMA TablesAreStill ==
    ASSUME ChainInv, LocalInv, [AnyNext]_chainVars, UNCHANGED <<blobVars, indexVars>>
    PROVE  /\ TablesInv' /\ KeysStay
           /\ MaxReorg = 0 /\ RowsInv => RowsInv'
<1>1. TablesInv' /\ KeysStay
  BY DEF LocalInv, TablesInv, KeysStay, blobVars, indexVars
<1>2. MaxReorg = 0 /\ RowsInv => RowsInv'
  <2> SUFFICES ASSUME MaxReorg = 0, RowsInv PROVE RowsInv'
    OBVIOUS
  <2>1. /\ \A r : FileIsLogged(chain, r) => FileIsLogged(chain', r)
        /\ \A r : ChunkIsLogged(chain, r) => ChunkIsLogged(chain', r)
    BY LoggedStays
  <2>2. blobFiles' = blobFiles /\ indexFiles' = indexFiles
        /\ blobChunks' = blobChunks /\ indexChunks' = indexChunks
    BY DEF blobVars, indexVars
  <2> QED BY <2>1, <2>2 DEF RowsInv
<1> QED BY <1>1, <1>2

(* A step of one job that is right for the job and the tables keeps the     *)
(* invariant.                                                               *)
LEMMA OneProcessMoves ==
    ASSUME NodeInv, NEW j \in Jobs, [AnyNext]_chainVars,
           TablesInv' /\ KeysStay,
           MaxReorg = 0 /\ RowsInv /\ MatchInv => RowsInv',
           NEW s, Becomes(j, s),
           MaxReorg = 0 /\ RowsInv /\ MatchInv =>
                ProcessMatches(files', chain', blobChunks'[HostOf[j]],
                               indexChunks'[HostOf[j]], s)
    PROVE  NodeInv'
<1>1. /\ ChainInv /\ LocalInv /\ JobsInv /\ (MaxReorg = 0 => RowsInv /\ MatchInv)
  BY DEF NodeInv, LocalInv
<1>2. ChainInv'
  BY <1>1, ChainInvSteps
<1>3. JobsInv' /\ job'[j] = s /\ \A o \in Jobs : o # j => job'[o] = job[o]
  BY <1>1, BecomesInv
<1>4. ASSUME MaxReorg = 0 PROVE MatchInv'
  <2>1. ASSUME NEW o \in Jobs
        PROVE  ProcessMatches(files', chain', blobChunks'[HostOf[o]],
                              indexChunks'[HostOf[o]], job'[o])
    BY <1>1, <1>3, <1>4, MatchStays
  <2> QED BY <2>1 DEF MatchInv
<1> QED BY <1>1, <1>2, <1>3, <1>4 DEF NodeInv, LocalInv

(* A step that does not touch the chain keeps the invariant.                *)
LEMMA LocalStepKeepsInv ==
    ASSUME NodeInv, NEW j \in Jobs, UNCHANGED chainVars, LocalStep(j)
    PROVE  NodeInv'
<1>1. PICK s :
        /\ Becomes(j, s)
        /\ TablesKept
        /\ RowsInv /\ MatchInv =>
                ProcessMatches(files, chain, blobChunks'[HostOf[j]],
                               indexChunks'[HostOf[j]], s)
  BY DEF LocalStep
<1>2. files' = files /\ chain' = chain /\ [AnyNext]_chainVars
  BY DEF chainVars
<1> QED BY <1>1, <1>2, OneProcessMoves DEF TablesKept

(* Every step of a job keeps the invariant.                                 *)
LEMMA ProcessStepKeepsInv ==
    ASSUME NodeInv, NEW j \in Jobs,
           \/ \E f \in FileIds : StartUpload(j, f) \/ StartDownload(j, f)
           \/ StartSync(j) \/ Work(j) \/ TxFails(j)
           \/ KillJob(j) \/ KillInSyncFiles(j) \/ KillInChunks(j)
    PROVE  NodeInv'
<1>1. ChainInv /\ LocalInv
  BY DEF NodeInv
<1>2. CASE CreateTx(j)
  <2>1. [AnyNext]_chainVars /\ UNCHANGED <<blobVars, indexVars>>
    BY <1>1, <1>2, CreateTxEffect DEF CreateTx, AnyNext
  <2>2. TablesInv' /\ KeysStay /\ (MaxReorg = 0 /\ RowsInv => RowsInv')
    BY <1>1, <2>1, TablesAreStill
  <2> QED BY <1>1, <1>2, <2>1, <2>2, CreateTxEffect, OneProcessMoves
<1>3. CASE ChunkTx(j)
  <2>1. [AnyNext]_chainVars /\ UNCHANGED <<blobVars, indexVars>>
    BY <1>1, <1>3, ChunkTxEffect DEF ChunkTx, AnyNext
  <2>2. TablesInv' /\ KeysStay /\ (MaxReorg = 0 /\ RowsInv => RowsInv')
    BY <1>1, <2>1, TablesAreStill
  <2>3. PICK s : Becomes(j, s) /\
            (MatchInv => ProcessMatches(files', chain', blobChunks'[HostOf[j]],
                                        indexChunks'[HostOf[j]], s))
    BY <1>1, <1>3, ChunkTxEffect
  <2> QED BY <2>1, <2>2, <2>3, OneProcessMoves
<1>4. CASE \/ \E f \in FileIds : StartUpload(j, f) \/ StartDownload(j, f)
           \/ StartSync(j) \/ TxFails(j) \/ KillJob(j)
  <2>1. UNCHANGED chainVars
    BY <1>4 DEF StartUpload, StartDownload, StartSync, Start, TxFails, KillJob
  <2> QED BY <1>1, <1>4, <2>1, StartsAndFailures, LocalStepKeepsInv
<1>5. CASE \/ RecordFileBlob(j) \/ RecordFileIndex(j) \/ RecordChunkBlob(j)
           \/ RecordChunkIndex(j) \/ Download(j) \/ SyncFiles(j) \/ SyncChunks(j)
           \/ SyncTip(j) \/ KillInSyncFiles(j) \/ KillInChunks(j)
  <2>1. UNCHANGED chainVars
    BY <1>5 DEF RecordFileBlob, RecordFileIndex, RecordChunkBlob, RecordChunkIndex,
                Download, SyncFiles, SyncChunks, SyncTip, KillInSyncFiles, KillInChunks
  <2>2. LocalStep(j)
    BY <1>1, <1>5, RecordFileSteps, RecordChunkSteps, DownloadStep, SyncSteps
  <2> QED BY <2>1, <2>2, LocalStepKeepsInv
<1> QED BY <1>2, <1>3, <1>4, <1>5 DEF Work

(* Every step keeps the invariant.                                          *)
LEMMA NextKeepsNodeInv == NodeInv /\ [NodeNext]_nodeVars => NodeInv'
<1> SUFFICES ASSUME NodeInv, [NodeNext]_nodeVars PROVE NodeInv'
  OBVIOUS
<1>1. CASE ChainMoves \/ UNCHANGED nodeVars
  <2>1. [AnyNext]_chainVars /\ UNCHANGED <<blobVars, indexVars, job>>
    BY <1>1, ChainMovesStep DEF nodeVars
  <2>2. ChainInv /\ LocalInv
    BY DEF NodeInv
  <2>3. TablesInv' /\ KeysStay /\ (MaxReorg = 0 /\ RowsInv => RowsInv')
    BY <2>1, <2>2, TablesAreStill
  <2>4. ChainInv' /\ JobsInv'
    BY <2>1, <2>2, ChainInvSteps DEF LocalInv, JobsInv
  <2>5. MaxReorg = 0 => MatchInv'
    BY <2>1, <2>2, <2>3, MatchStays DEF NodeInv, MatchInv
  <2> QED BY <2>3, <2>4, <2>5 DEF NodeInv, LocalInv
<1>2. CASE \E j \in Jobs :
            \/ \E f \in FileIds : StartUpload(j, f) \/ StartDownload(j, f)
            \/ StartSync(j) \/ Work(j) \/ TxFails(j)
            \/ KillJob(j) \/ KillInSyncFiles(j) \/ KillInChunks(j)
  BY <1>2, ProcessStepKeepsInv
<1> QED BY <1>1, <1>2 DEF NodeNext

(* The invariant holds when nothing is stored and no job runs.              *)
LEMMA InitNodeInv == NodeInit => NodeInv
<1> SUFFICES ASSUME NodeInit PROVE NodeInv
  OBVIOUS
<1>1. ChainInv
  BY ChainInvStarts DEF NodeInit
<1>2. (CHOOSE g \in FileIds : TRUE) \in FileIds
  OBVIOUS
<1>3. Idle \in Process /\ Idle.step = 0 /\ Idle.pc = "idle" /\ Idle.file \in FileIds
  BY <1>2 DEF Idle, Process, Resting
<1>4. ProcessOK(Idle)
  BY <1>3, ContentIsChunks DEF ProcessOK, Recording
<1>5. JobsInv
  BY <1>3, <1>4 DEF NodeInit, JobsInv
<1>6. TablesInv /\ RowsInv
  BY DEF NodeInit, TablesInv, RowsInv, Owned
<1>7. MatchInv
  BY <1>3, NotUploading DEF NodeInit, MatchInv, Uploading
<1> QED BY <1>1, <1>5, <1>6, <1>7 DEF NodeInv, LocalInv

-----------------------------------------------------------------------------
(* The inductive invariant holds in every reachable state.                  *)
THEOREM NodeInvariant == NodeSpec => []NodeInv
  BY InitNodeInv, NextKeepsNodeInv, PTL DEF NodeSpec

(* The variables have their types, and the blob store never holds a chunk   *)
(* of a file it has no row for, however uploads, downloads and syncs of the *)
(* processes of a machine interleave, fail or die.                          *)
THEOREM NodeTypeCorrect == NodeSpec => []NodeTypeOK
<1>1. NodeInv => NodeTypeOK
  <2> SUFFICES ASSUME NodeInv PROVE NodeTypeOK
    OBVIOUS
  <2>1. TypeOK /\ JobsInv /\ TablesInv
    BY DEF NodeInv, LocalInv, ChainInv, IInv
  <2>2. ASSUME NEW h \in Hosts
        PROVE  /\ blobFiles[h] \subseteq FileRow /\ indexFiles[h] \subseteq FileRow
               /\ blobChunks[h] \subseteq ChunkRow /\ indexChunks[h] \subseteq ChunkRow
               /\ blobSynced[h] \in 0..MaxBlocks
               /\ \A r \in blobChunks[h] : HasFile(h, r.fileId)
    BY <2>1 DEF TablesInv, Owned, HasFile
  <2>3. ASSUME NEW j \in Jobs
        PROVE  /\ job[j].pc \in Resting \cup Recording \cup Sending \cup Reading
               /\ job[j].file \in FileIds
               /\ job[j].step \in 0..(Len(Content[job[j].file]) - 1)
    <3>1. job[j] \in Process /\ job[j].file \in FileIds /\ job[j].step \in Nat
          /\ job[j].step < Len(Content[job[j].file])
      BY <2>1, ProcessType
    <3>2. Len(Content[job[j].file]) \in Nat
      BY <3>1, ContentIsChunks
    <3> DEFINE n == Len(Content[job[j].file])
    <3> HIDE DEF n
    <3>3. job[j].step \in 0..(n - 1)
      <4>1. n \in Nat /\ job[j].step < n /\ job[j].step \in Nat
        BY <3>1, <3>2 DEF n
      <4> QED BY <4>1
    <3>4. job[j].pc \in Resting \cup Recording \cup Sending \cup Reading
      BY <3>1 DEF Process
    <3> QED BY <3>1, <3>3, <3>4 DEF n
  <2> QED BY <2>1, <2>2, <2>3 DEF NodeTypeOK, Recording, Sending, Reading
<1> QED BY <1>1, NodeInvariant, PTL

(* On a chain that does not reorganise, every row of the two databases of   *)
(* every machine repeats an event of the chain.                             *)
THEOREM RowsAreOnTheChain ==
    ASSUME MaxReorg = 0 PROVE NodeSpec => []LocalBehindChain
<1>1. NodeInv => LocalBehindChain
  <2> SUFFICES ASSUME NodeInv, NEW h \in Hosts
               PROVE  /\ \A r \in blobFiles[h] \cup indexFiles[h] : IsFileEvent(r.block, r)
                      /\ \A r \in blobChunks[h] \cup indexChunks[h] : IsChunkEvent(r.block, r)
    BY DEF LocalBehindChain
  <2>1. TypeOK /\ TablesInv /\ RowsInv
    BY DEF NodeInv, LocalInv, ChainInv, IInv
  <2>2. DOMAIN chain = 1..Len(chain)
    BY <2>1 DEF TypeOK
  <2>3. \A r \in blobFiles[h] \cup indexFiles[h] : IsFileEvent(r.block, r)
    BY <2>1, <2>2 DEF RowsInv, FileIsLogged, IsFileEvent
  <2>4. ASSUME NEW r \in blobChunks[h] \cup indexChunks[h] PROVE IsChunkEvent(r.block, r)
    <3>1. r \in ChunkRow /\ ChunkIsLogged(chain, r)
      BY <2>1 DEF TablesInv, RowsInv
    <3>2. ChunkRowAt(r.block) = r
      BY <3>1 DEF ChunkRow, ChunkIsLogged, ChunkRowAt
    <3> QED BY <2>2, <3>1, <3>2 DEF ChunkIsLogged, IsChunkEvent
  <2> QED BY <2>3, <2>4
<1> QED BY <1>1, NodeInvariant, PTL

(* On a chain that does not reorganise, an upload that returns has left its *)
(* file complete on the chain and in both databases of its machine.         *)
THEOREM UploadsAreComplete ==
    ASSUME MaxReorg = 0 PROVE NodeSpec => []UploadedIsComplete
<1>1. NodeInv => UploadedIsComplete
  <2> SUFFICES ASSUME NodeInv, NEW j \in Jobs, job[j].pc = "uploaded"
               PROVE  /\ OnChain(job[j].file)
                      /\ \A table \in {blobChunks[HostOf[j]], indexChunks[HostOf[j]]} :
                          \A i \in DOMAIN Content[job[j].file] :
                            \E r \in table : r.fileId = job[j].file /\ r.chunkIndex = i - 1
    BY DEF UploadedIsComplete
  <2> DEFINE f == job[j].file
             h == HostOf[j]
             n == Len(Content[f])
  <2>1. TypeOK /\ JobsInv /\ TablesInv /\ RowsInv /\ MatchInv
    BY DEF NodeInv, LocalInv, ChainInv, IInv
  <2>2. /\ h \in Hosts /\ f \in FileIds /\ n \in Nat /\ DOMAIN Content[f] = 1..n
    BY <2>1, ProcessType, ContentIsChunks
  <2>3. /\ files[f].exists /\ files[f].chunkCount = n
        /\ StoredBelow(blobChunks[h], indexChunks[h], f, n)
    BY <2>1 DEF MatchInv, ProcessMatches, Uploading
  <2> HIDE DEF f, h, n
  <2>4. \A i \in 0..(n - 1) : HasChunk(blobChunks[h], f, i) /\ HasChunk(indexChunks[h], f, i)
    BY <2>3 DEF StoredBelow
  <2>5. ASSUME NEW i \in 0..(n - 1) PROVE ChunkCopies(f, i) # {}
    <3>1. PICK r \in indexChunks[h] : r.fileId = f /\ r.chunkIndex = i
      BY <2>4 DEF HasChunk
    <3>2. ChunkIsLogged(chain, r) /\ DOMAIN chain = 1..Len(chain)
      BY <2>1, <2>2 DEF RowsInv, TypeOK
    <3> QED BY <3>1, <3>2 DEF ChunkIsLogged, ChunkCopies
  <2>6. OnChain(f)
    BY <2>3, <2>5 DEF OnChain
  <2>7. \A i \in DOMAIN Content[f] : i - 1 \in 0..(n - 1)
    BY <2>2
  <2>8. \A table \in {blobChunks[h], indexChunks[h]} : \A i \in DOMAIN Content[f] :
            \E r \in table : r.fileId = f /\ r.chunkIndex = i - 1
    BY <2>4, <2>7 DEF HasChunk
  <2> QED BY <2>6, <2>8 DEF f, h
<1> QED BY <1>1, NodeInvariant, PTL

-----------------------------------------------------------------------------
(* What a download finds, whoever uploaded what, and however the chain      *)
(* reorganises.  A blob store has one row for a chunk, and storing the logs *)
(* of all blocks leaves in it the last copy of each chunk that has one.     *)

OneRowEach(rows) ==
    \A r, s \in rows : r.fileId = s.fileId /\ r.chunkIndex = s.chunkIndex => r = s

KeyInv ==
    /\ \A h \in Hosts : OneRowEach(blobChunks[h])
    /\ \A j \in Jobs : job[j].pc = "fetch" => job[j].from = 0

(* INSERT OR REPLACE keeps one row for an index.                            *)
LEMMA ReplaceKeepsOneEach ==
    ASSUME NEW table \in SUBSET ChunkRow, NEW rows \in SUBSET ChunkRow, OneRowEach(table),
           \A r, s \in rows : r.block = s.block => r = s
    PROVE  OneRowEach(InsertOrReplace(table, rows))
<1> DEFINE new == InsertOrReplace(table, rows)
<1>1. \A r, s \in ChunkRow :
        r.fileId = s.fileId /\ r.chunkIndex = s.chunkIndex => PrimaryKey(r) = PrimaryKey(s)
  BY KeyOfChunk
<1>2. \A r \in new :
        /\ r \in ChunkRow /\ (r \in table \/ r \in rows)
        /\ r \notin rows => \A s \in rows : PrimaryKey(s) # PrimaryKey(r)
        /\ r \notin table => \A s \in rows : PrimaryKey(s) = PrimaryKey(r) => s.block <= r.block
        /\ \/ r \in table /\ \A s \in rows : PrimaryKey(s) # PrimaryKey(r)
           \/ r \in rows /\ \A s \in rows : PrimaryKey(s) = PrimaryKey(r) => s.block <= r.block
  BY DEF InsertOrReplace
<1>3. ASSUME NEW r \in new, NEW s \in new,
             r.fileId = s.fileId, r.chunkIndex = s.chunkIndex
      PROVE  r = s
  <2>1. r \in ChunkRow /\ s \in ChunkRow /\ PrimaryKey(r) = PrimaryKey(s)
    BY <1>1, <1>2, <1>3
  <2>2. CASE r \notin rows \/ s \notin rows
    <3>1. r \in table /\ s \in table
      BY <1>2, <2>1, <2>2
    <3> QED BY <1>3, <3>1 DEF OneRowEach
  <2>3. CASE r \in rows /\ s \in rows
    <3>1. r.block <= s.block /\ s.block <= r.block
      BY <1>2, <2>1, <2>3
    <3>2. r.block \in Nat /\ s.block \in Nat
      BY <2>1 DEF ChunkRow
    <3>3. r.block = s.block
      BY <3>1, <3>2
    <3> QED BY <2>3, <3>3
  <2> QED BY <2>2, <2>3
<1> HIDE DEF new
<1>4. OneRowEach(new)
  BY <1>3 DEF OneRowEach
<1> QED BY <1>4 DEF new

(* Where a new row has the key of a row, that row is the last of the new.   *)
LEMMA ReplaceIsLast ==
    ASSUME NEW table \in SUBSET ChunkRow, NEW rows \in SUBSET ChunkRow,
           NEW r \in InsertOrReplace(table, rows), NEW s \in rows,
           r.fileId = s.fileId, r.chunkIndex = s.chunkIndex
    PROVE  r \in rows /\ s.block <= r.block
<1>1. r \in ChunkRow /\ s \in ChunkRow
  BY ReplaceIsFromBoth
<1>2. PrimaryKey(s) = PrimaryKey(r)
  BY <1>1, KeyOfChunk
<1> QED BY <1>2 DEF InsertOrReplace

(* The rows of the chain's logs join the others.                            *)
LEMMA StoredOneEach ==
    ASSUME ChainInv, TablesInv, KeyInv, NEW h \in Hosts, NEW from,
           NEW blocks \in SUBSET LogBlocks("ChunkUploaded", from)
    PROVE  /\ {ChunkRowAt(b) : b \in blocks} \in SUBSET ChunkRow
           /\ StoreChunks(blobChunks[h], blocks) \in SUBSET ChunkRow
           /\ OneRowEach(StoreChunks(blobChunks[h], blocks))
<1> DEFINE rows == {ChunkRowAt(b) : b \in blocks}
<1>1. \A b \in blocks : ChunkRowAt(b) \in ChunkRow /\ ChunkRowAt(b).block = b
  BY RowsOfLogs DEF ChunkRowAt
<1>2. rows \in SUBSET ChunkRow /\ \A r, s \in rows : r.block = s.block => r = s
  BY <1>1
<1>3. blobChunks[h] \in SUBSET ChunkRow /\ OneRowEach(blobChunks[h])
  BY DEF TablesInv, KeyInv
<1> HIDE DEF rows
<1>4. /\ InsertOrReplace(blobChunks[h], rows) \in SUBSET ChunkRow
      /\ OneRowEach(InsertOrReplace(blobChunks[h], rows))
  BY <1>2, <1>3, ReplaceKeepsOneEach, ReplaceIsFromBoth
<1> QED BY <1>2, <1>4 DEF StoreChunks, rows

(* Every write of a process leaves one row for a chunk.                     *)
LEMMA StoresStayOneEach ==
    ASSUME ChainInv, LocalInv, KeyInv, [NodeNext]_nodeVars
    PROVE  \A h \in Hosts : OneRowEach(blobChunks'[h])
<1>1. JobsInv /\ TablesInv
  BY DEF LocalInv
<1>2. \A h \in Hosts : blobChunks[h] \in SUBSET ChunkRow /\ OneRowEach(blobChunks[h])
  BY <1>1 DEF TablesInv, KeyInv
<1>3. ASSUME NEW h \in Hosts, NEW new, OneRowEach(new), blobChunks' = [blobChunks EXCEPT ![h] = new]
      PROVE  \A o \in Hosts : OneRowEach(blobChunks'[o])
  BY <1>1, <1>2, <1>3 DEF TablesInv
<1>4. CASE blobChunks' = blobChunks
  BY <1>2, <1>4
<1>5. ASSUME NEW j \in Jobs, RecordChunkBlob(j) PROVE \A o \in Hosts : OneRowEach(blobChunks'[o])
  <2> DEFINE h == HostOf[j]
             row == RowOfStep(j)
  <2>1. job[j].pc = "chunkToBlob" /\ blobChunks' = [blobChunks EXCEPT ![h] = InsertOrReplace(@, {row})]
    BY <1>5 DEF RecordChunkBlob
  <2>2. row \in ChunkRow /\ h \in Hosts /\ row.fileId = job[j].file /\ row.chunkIndex = job[j].step
    BY <1>1, <2>1, RecordedRow, ProcessType
  <2> HIDE DEF row, h
  <2>3. OneRowEach(InsertOrReplace(blobChunks[h], {row}))
    BY <1>2, <2>2, ReplaceKeepsOneEach
  <2>4. blobChunks' = [blobChunks EXCEPT ![h] = InsertOrReplace(blobChunks[h], {row})]
    BY <2>1
  <2> QED BY <1>3, <2>2, <2>3, <2>4
<1>6. ASSUME NEW j \in Jobs, NEW blocks \in SUBSET Storable(j),
             blobChunks' = [blobChunks EXCEPT ![HostOf[j]] = StoreChunks(@, blocks)]
      PROVE  \A o \in Hosts : OneRowEach(blobChunks'[o])
  <2>1. HostOf[j] \in Hosts
    BY <1>1, ProcessType
  <2>2. PICK from : blocks \in SUBSET LogBlocks("ChunkUploaded", from)
    BY StorableBlocks
  <2>3. OneRowEach(StoreChunks(blobChunks[HostOf[j]], blocks))
    BY <1>1, <2>1, <2>2, StoredOneEach
  <2>4. blobChunks' = [blobChunks EXCEPT ![HostOf[j]] = StoreChunks(blobChunks[HostOf[j]], blocks)]
    BY <1>1, <1>6 DEF TablesInv
  <2> QED BY <1>3, <2>1, <2>3, <2>4
<1>7. ASSUME NEW j \in Jobs, Download(j) \/ SyncChunks(j) \/ KillInChunks(j)
      PROVE  \E blocks \in SUBSET Storable(j) :
                blobChunks' = [blobChunks EXCEPT ![HostOf[j]] = StoreChunks(@, blocks)]
  <2> DEFINE upTo(last) == {b \in Storable(j) : b <= last}
  <2>1. \A last \in Storable(j) : upTo(last) \in SUBSET Storable(j)
    OBVIOUS
  <2>2. CASE Download(j) \/ SyncChunks(j)
    <3>1. blobChunks' = [blobChunks EXCEPT ![HostOf[j]] = StoreChunks(@, Storable(j))]
      BY <1>1, <2>2 DEF Download, SyncChunks, TablesInv
    <3> QED BY <3>1
  <2>3. CASE KillInChunks(j)
    <3>1. \E last \in Storable(j) :
            blobChunks' = [blobChunks EXCEPT ![HostOf[j]] = StoreChunks(@, upTo(last))]
      BY <2>3 DEF KillInChunks
    <3> HIDE DEF upTo
    <3> QED BY <2>1, <3>1
  <2> QED BY <1>7, <2>2, <2>3
<1>8. CASE \A j \in Jobs : /\ ~RecordChunkBlob(j) /\ ~Download(j)
                          /\ ~SyncChunks(j) /\ ~KillInChunks(j)
  <2>1. blobChunks' = blobChunks
    BY <1>8 DEF NodeNext, nodeVars, blobVars, indexVars, ChainMoves, StartUpload, StartDownload,
                StartSync, Start, Work, CreateTx, RecordFileBlob, RecordFileIndex, ChunkTx,
                RecordChunkIndex, SyncFiles, SyncTip, TxFails, KillJob, KillInSyncFiles
  <2> QED BY <1>4, <2>1
<1> QED BY <1>4, <1>5, <1>6, <1>7, <1>8

(* A download asks for the logs of all blocks: --from-block is 0.           *)
LEMMA DownloadsAskForAll ==
    ASSUME JobsInv, KeyInv, [NodeNext]_nodeVars
    PROVE  \A j \in Jobs : job'[j].pc = "fetch" => job'[j].from = 0
<1>1. job \in [Jobs -> Process]
  BY DEF JobsInv
<1>2. ASSUME NEW j \in Jobs, NEW s, s.pc = "fetch" => s.from = 0, job' = [job EXCEPT ![j] = s]
      PROVE  \A o \in Jobs : job'[o].pc = "fetch" => job'[o].from = 0
  BY <1>1, <1>2 DEF KeyInv
<1>3. ASSUME NEW j \in Jobs, job'[j].pc # "fetch", NEW s, job' = [job EXCEPT ![j] = s]
      PROVE  \A o \in Jobs : job'[o].pc = "fetch" => job'[o].from = 0
  BY <1>1, <1>3 DEF KeyInv
<1>4. ASSUME NEW j \in Jobs, NEW pc, NEW f, NEW from, Start(j, pc, f, from),
             pc = "fetch" => from = 0
      PROVE  \A o \in Jobs : job'[o].pc = "fetch" => job'[o].from = 0
  <2> DEFINE s == [Idle EXCEPT !.pc = pc, !.file = f, !.from = from]
  <2>1. s.pc = pc /\ s.from = from /\ job' = [job EXCEPT ![j] = s]
    BY <1>4 DEF Start, Idle
  <2> HIDE DEF s
  <2> QED BY <1>2, <1>4, <2>1
<1>5. ASSUME NEW j \in Jobs, \/ Work(j) \/ TxFails(j)
                             \/ KillJob(j) \/ KillInSyncFiles(j) \/ KillInChunks(j)
      PROVE  job'[j].pc # "fetch" /\ \E s : job' = [job EXCEPT ![j] = s]
  <2>1. \/ \E pc \in Resting \cup Recording \cup Sending \cup (Reading \ {"fetch"}) : job' = Go(j, pc)
        \/ \E error : job' = Raise(j, error)
        \/ \E pc \in Recording : MinedAt(j, pc)
        \/ job' = [job EXCEPT ![j].pc = "chunk", ![j].step = @ + 1]
    BY <1>5 DEF Work, TxFails, KillJob, KillInSyncFiles, KillInChunks, CreateTx, RecordFileBlob, RecordFileIndex, ChunkTx,
                RecordChunkBlob, RecordChunkIndex, Download, SyncFiles, SyncChunks, SyncTip,
                Resting, Recording, Sending, Reading
  <2>2. job'[j].pc # "fetch"
    BY <1>1, <2>1 DEF Go, Raise, MinedAt, Process, Resting, Recording, Sending, Reading
  <2>3. \E s : job' = [job EXCEPT ![j] = s]
    BY <1>1, <2>1 DEF Go, Raise, MinedAt
  <2> QED BY <2>2, <2>3
<1>6. CASE job' = job
  BY <1>6 DEF KeyInv
<1>7. CASE ChainMoves \/ UNCHANGED nodeVars
  BY <1>6, <1>7 DEF ChainMoves, nodeVars
<1>8. ASSUME NEW j \in Jobs, \/ \E f \in FileIds : StartUpload(j, f) \/ StartDownload(j, f)
                             \/ StartSync(j)
      PROVE  \A o \in Jobs : job'[o].pc = "fetch" => job'[o].from = 0
  BY <1>4, <1>8 DEF StartUpload, StartDownload, StartSync
<1> QED BY <1>3, <1>5, <1>7, <1>8 DEF NodeNext

(* Both are invariant.                                                      *)
LEMMA KeysInvariant == NodeSpec => []KeyInv
<1>1. NodeInit => KeyInv
  <2> SUFFICES ASSUME NodeInit PROVE KeyInv
    OBVIOUS
  <2>1. \A h \in Hosts : blobChunks[h] = {}
    BY DEF NodeInit
  <2>2. \A j \in Jobs : job[j].pc = "idle"
    BY DEF NodeInit, Idle
  <2> QED BY <2>1, <2>2 DEF KeyInv, OneRowEach
<1>2. ChainInv /\ LocalInv /\ KeyInv /\ [NodeNext]_nodeVars => KeyInv'
  <2> SUFFICES ASSUME ChainInv, LocalInv, KeyInv, [NodeNext]_nodeVars PROVE KeyInv'
    OBVIOUS
  <2>1. /\ \A h \in Hosts : OneRowEach(blobChunks'[h])
        /\ \A j \in Jobs : job'[j].pc = "fetch" => job'[j].from = 0
    BY StoresStayOneEach, DownloadsAskForAll DEF LocalInv
  <2> QED BY <2>1 DEF KeyInv, OneRowEach
<1>3. NodeInv => ChainInv /\ LocalInv
  BY DEF NodeInv
<1> QED BY <1>1, <1>2, <1>3, NodeInvariant, PTL DEF NodeSpec

(* Rows with the indices 0 to n - 1 have one order.                         *)
LEMMA OrderOfRows ==
    ASSUME NEW n \in Nat, NEW S, NEW w \in [1..n -> S],
           \A i \in 1..n : w[i].chunkIndex = i - 1,
           \A r \in S : \E i \in 1..n : r = w[i]
    PROVE  InOrder(S) = w
<1> DEFINE s == InOrder(S)
           Sorted(t) == \A i, k \in DOMAIN t : i < k => t[i].chunkIndex < t[k].chunkIndex
<1>1. w \in Bijection(1..n, S)
  <2>1. \A i, k \in 1..n : w[i] = w[k] => i = k
    <3> SUFFICES ASSUME NEW i \in 1..n, NEW k \in 1..n, w[i] = w[k] PROVE i = k
      OBVIOUS
    <3>1. i - 1 = w[i].chunkIndex /\ k - 1 = w[k].chunkIndex
      OBVIOUS
    <3>2. i - 1 = k - 1
      BY <3>1
    <3> QED BY <3>2
  <2> QED BY <2>1 DEF Bijection, Injection, Surjection, IsInjective
<1>2. IsFiniteSet(S) /\ Cardinality(S) = n
  <2>1. IsFiniteSet(1..n) /\ Cardinality(1..n) = n
    <3>1. 1 \in Int /\ n \in Int /\ (n - 1) + 1 = n /\ (1 > n => n = 0)
      OBVIOUS
    <3> QED BY <3>1, FS_Interval
  <2>2. ExistsBijection(1..n, S)
    BY <1>1 DEF ExistsBijection
  <2> QED BY <2>1, <2>2, FS_Bijection
<1>3. Sorted(w)
  <2> SUFFICES ASSUME NEW i \in 1..n, NEW k \in 1..n, i < k
               PROVE  w[i].chunkIndex < w[k].chunkIndex
    OBVIOUS
  <2>1. w[i].chunkIndex = i - 1 /\ w[k].chunkIndex = k - 1
    OBVIOUS
  <2> QED BY <2>1
<1>4. s \in [1..n -> S] /\ Sorted(s)
  <2>1. \E t \in [1..Cardinality(S) -> S] : Sorted(t)
    BY <1>2, <1>3
  <2> QED BY <1>2, <2>1 DEF InOrder
<1> HIDE DEF s
<1> DEFINE index == [i \in 1..n |-> s[i].chunkIndex]
<1>5. \A i \in 1..n : s[i].chunkIndex \in 0..(n - 1) /\ s[i] = w[s[i].chunkIndex + 1]
  <2> SUFFICES ASSUME NEW i \in 1..n
               PROVE  s[i].chunkIndex \in 0..(n - 1) /\ s[i] = w[s[i].chunkIndex + 1]
    OBVIOUS
  <2>1. PICK k \in 1..n : s[i] = w[k]
    BY <1>4
  <2>2. s[i].chunkIndex = k - 1 /\ (k - 1) + 1 = k
    BY <2>1
  <2> QED BY <2>1, <2>2
<1>6. index \in [1..n -> 0..(n - 1)] /\ \A i, k \in 1..n : i < k => index[i] < index[k]
  BY <1>4, <1>5
<1>7. \A i \in 1..n : index[i] = i - 1
  <2> HIDE DEF index
  <2> QED BY <1>6, RisingIsCounting
<1>8. \A i \in 1..n : s[i] = w[i]
  <2> SUFFICES ASSUME NEW i \in 1..n PROVE s[i] = w[i]
    OBVIOUS
  <2>1. s[i].chunkIndex = i - 1 /\ (i - 1) + 1 = i
    BY <1>7
  <2> QED BY <1>5, <2>1
<1>9. s = w
  BY <1>4, <1>8
<1> QED BY <1>9 DEF s

(* There is one row for each index of a sequence, with its piece.           *)
RowsOfPieces(rows, e) ==
    /\ \A r, q \in rows : r.chunkIndex = q.chunkIndex => r = q
    /\ \A r \in rows : /\ r.chunkIndex \in Nat /\ r.chunkIndex < Len(e)
                       /\ r.data = e[r.chunkIndex + 1]
    /\ \A i \in 1..Len(e) : \E r \in rows : r.chunkIndex = i - 1

(* In the order of their indices such rows make the sequence.               *)
LEMMA RowsMakeTheFile ==
    ASSUME NEW e \in Seq(Payloads), NEW rows, RowsOfPieces(rows, e)
    PROVE  Reconstruct(rows) = e
<1> DEFINE n == Len(e)
           w == [i \in 1..n |-> CHOOSE r \in rows : r.chunkIndex = i - 1]
<1>1. n \in Nat /\ e = [i \in 1..n |-> e[i]]
  OBVIOUS
<1>2. \A i \in 1..n : w[i] \in rows /\ w[i].chunkIndex = i - 1 /\ w[i].data = e[i]
  <2> SUFFICES ASSUME NEW i \in 1..n
               PROVE  w[i] \in rows /\ w[i].chunkIndex = i - 1 /\ w[i].data = e[i]
    OBVIOUS
  <2>1. (i - 1) + 1 = i
    BY <1>1
  <2>2. w[i] \in rows /\ w[i].chunkIndex = i - 1
    BY DEF RowsOfPieces
  <2>3. w[i].data = e[(i - 1) + 1]
    BY <2>2 DEF RowsOfPieces
  <2> QED BY <2>1, <2>2, <2>3
<1>3. \A r \in rows : \E i \in 1..n : r = w[i]
  <2> SUFFICES ASSUME NEW r \in rows PROVE \E i \in 1..n : r = w[i]
    OBVIOUS
  <2> DEFINE i == r.chunkIndex + 1
  <2>1. i \in 1..n /\ i - 1 = r.chunkIndex
    BY <1>1 DEF RowsOfPieces
  <2>2. w[i] \in rows /\ w[i].chunkIndex = r.chunkIndex
    BY <1>2, <2>1
  <2>3. r = w[i]
    BY <2>2 DEF RowsOfPieces
  <2> QED BY <2>1, <2>3
<1>4. w \in [1..n -> rows] /\ \A i \in 1..n : w[i].chunkIndex = i - 1
  BY <1>2
<1> HIDE DEF w
<1>5. n \in Nat
  BY <1>1
<1>6. w \in [1..n -> rows]
  BY <1>4
<1>7. \A i \in 1..n : w[i].chunkIndex = i - 1
  BY <1>4
<1> HIDE DEF n
<1>8. InOrder(rows) = w
  BY <1>3, <1>5, <1>6, <1>7, OrderOfRows
<1>9. Reconstruct(rows) = [i \in 1..n |-> w[i].data]
  BY <1>6, <1>8 DEF Reconstruct
<1>10. \A i \in 1..n : w[i].data = e[i]
  BY <1>2
<1> QED BY <1>1, <1>9, <1>10

(* On a machine that has the file, a download may store all that it finds.  *)
LEMMA AllStorable ==
    ASSUME NEW j \in Jobs, job[j].pc = "fetch", HasFile(HostOf[j], job[j].file)
    PROVE  Storable(j) = ChunkLogs(j)
<1>1. \A b \in ChunkLogs(j) : HasFile(HostOf[j], chain[b].event.fileId)
  BY DEF ChunkLogs
<1> QED BY <1>1 DEF Storable

(* The last copies of the chunks of f on the chain are those of e.          *)
LastCopiesMake(f, e) ==
    /\ files[f].chunkCount = Len(e)
    /\ \A i \in DOMAIN e : \E b \in ChunkCopies(f, i - 1) :
            chain[b].event.data = e[i] /\ \A c \in ChunkCopies(f, i - 1) : c <= b

(* The rows of f once a download has stored all the logs it finds.          *)
RowsAfter(j, f) ==
    {r \in StoreChunks(blobChunks[HostOf[j]], ChunkLogs(j)) : r.fileId = f}

(* What is then stored of a file are its last copies on the chain: a row    *)
(* for each of its chunks, with the bytes that make the content.            *)
LEMMA LastCopiesAreStored ==
    ASSUME ChainInv, LocalInv, KeyInv, NEW j \in Jobs, job[j].pc = "fetch",
           NEW f \in FileIds, f = job[j].file, NoneBeyond(HostOf[j], f),
           NEW e \in Seq(Payloads), LastCopiesMake(f, e)
    PROVE  RowsOfPieces(RowsAfter(j, f), e)
<1> DEFINE h == HostOf[j]
           n == Len(e)
           logs == ChunkLogs(j)
           new == {ChunkRowAt(b) : b \in logs}
           stored == StoreChunks(blobChunks[h], logs)
<1>1. /\ JobsInv /\ TablesInv /\ IInv /\ h \in Hosts /\ job[j].from = 0 /\ n \in Nat
      /\ DOMAIN e = 1..n /\ DOMAIN chain = 1..Len(chain) /\ Len(chain) \in Nat
  BY ProcessType DEF LocalInv, KeyInv, ChainInv, IInv, TypeOK
<1>2. logs = {b \in 1..Len(chain) : Uploads(chain, b) /\ chain[b].event.fileId = f}
  BY <1>1 DEF ChunkLogs, LogBlocks, DownloadFrom, Uploads
<1>3. \A b \in logs : /\ ChunkRowAt(b).fileId = f /\ ChunkRowAt(b).block = b
                      /\ ChunkRowAt(b).chunkIndex = chain[b].event.chunkIndex
                      /\ ChunkRowAt(b).data = chain[b].event.data
                      /\ b \in ChunkCopies(f, chain[b].event.chunkIndex)
                      /\ chain[b].event.chunkIndex < n /\ b \in Nat
  BY <1>1, <1>2, LoggedChunksAreExpected DEF ChunkRowAt, ChunkCopies, LastCopiesMake
<1>4. \A i \in 1..n : ChunkCopies(f, i - 1) \subseteq logs
  BY <1>1, <1>2 DEF ChunkCopies
<1>5. /\ new \in SUBSET ChunkRow /\ blobChunks[h] \in SUBSET ChunkRow
      /\ stored = InsertOrReplace(blobChunks[h], new)
      /\ stored \in SUBSET ChunkRow /\ OneRowEach(stored)
  <2>1. logs \in SUBSET LogBlocks("ChunkUploaded", DownloadFrom(j))
    BY DEF ChunkLogs
  <2>2. blobChunks[h] \in SUBSET ChunkRow
    BY <1>1 DEF TablesInv
  <2>3. stored = InsertOrReplace(blobChunks[h], new)
    BY DEF StoreChunks
  <2> HIDE DEF stored, logs, h
  <2>4. /\ new \in SUBSET ChunkRow
        /\ StoreChunks(blobChunks[h], logs) \in SUBSET ChunkRow
        /\ OneRowEach(StoreChunks(blobChunks[h], logs))
    BY <1>1, <2>1, StoredOneEach
  <2> QED BY <2>2, <2>3, <2>4 DEF stored
<1>6. \A r \in new : \E b \in logs : r = ChunkRowAt(b)
  OBVIOUS
<1>7. \A b \in logs : ChunkRowAt(b) \in new
  OBVIOUS
<1>8. \A r \in blobChunks[h] : r.fileId = f => r.chunkIndex < n
  BY DEF NoneBeyond, LastCopiesMake
<1> HIDE DEF stored, logs, new, h, n
<1>9. ASSUME NEW r \in stored, r.fileId = f
      PROVE  /\ r.chunkIndex \in Nat /\ r.chunkIndex < n
             /\ r.data = e[r.chunkIndex + 1]
  <2>1. r \in ChunkRow /\ r.chunkIndex \in Nat
    BY <1>5 DEF ChunkRow
  <2>2. r.chunkIndex < n
    <3>1. r \in blobChunks[h] \/ r \in new
      BY <1>5, ReplaceIsFromBoth
    <3>2. CASE r \in blobChunks[h]
      BY <1>8, <1>9, <3>2
    <3>3. CASE r \in new
      <4>1. PICK b \in logs : r = ChunkRowAt(b)
        BY <1>6, <3>3
      <4>2. ChunkRowAt(b).chunkIndex = chain[b].event.chunkIndex /\ chain[b].event.chunkIndex < n
        BY <1>3
      <4> QED BY <4>1, <4>2
    <3> QED BY <3>1, <3>2, <3>3
  <2>3. r.chunkIndex + 1 \in 1..n /\ (r.chunkIndex + 1) - 1 = r.chunkIndex
    BY <1>1, <2>1, <2>2
  <2>4. PICK b \in ChunkCopies(f, r.chunkIndex) :
            /\ chain[b].event.data = e[r.chunkIndex + 1]
            /\ \A c \in ChunkCopies(f, r.chunkIndex) : c <= b
    BY <1>1, <2>3 DEF LastCopiesMake
  <2>5. b \in logs /\ chain[b].event.chunkIndex = r.chunkIndex
    BY <1>4, <2>3, <2>4 DEF ChunkCopies
  <2>6. r \in new /\ b <= r.block
    BY <1>3, <1>5, <1>7, <1>9, <2>5, ReplaceIsLast
  <2>7. PICK c \in logs : r = ChunkRowAt(c)
    BY <1>6, <2>6
  <2>8. c <= b /\ b <= c /\ b \in Nat /\ c \in Nat
    BY <1>3, <2>4, <2>5, <2>6, <2>7
  <2>9. r.data = chain[b].event.data
    BY <1>3, <2>7, <2>8
  <2> QED BY <2>1, <2>2, <2>4, <2>9
<1>10. ASSUME NEW i \in 1..n
       PROVE  \E r \in stored : r.fileId = f /\ r.chunkIndex = i - 1
  <2>1. PICK b \in ChunkCopies(f, i - 1) : b \in logs /\ chain[b].event.chunkIndex = i - 1
    BY <1>1, <1>4 DEF ChunkCopies, LastCopiesMake
  <2>2. HasChunk(new, f, i - 1)
    BY <1>3, <1>7, <2>1 DEF HasChunk
  <2>3. HasChunk(stored, f, i - 1)
    BY <1>5, <2>2, ReplaceLeavesKeys
  <2> QED BY <2>3 DEF HasChunk
<1>11. RowsAfter(j, f) = {r \in stored : r.fileId = f}
  BY DEF RowsAfter, stored, logs, h
<1> QED BY <1>5, <1>9, <1>10, <1>11 DEF OneRowEach, RowsOfPieces, n

(* A download that may store what it finds, of a file that is rightly on    *)
(* the chain, writes the file.                                              *)
LEMMA DownloadSucceeds ==
    ASSUME ChainInv, LocalInv, KeyInv, NEW j \in Jobs, Download(j),
           RightlyOnChain(job[j].file), HasFile(HostOf[j], job[j].file),
           NoneBeyond(HostOf[j], job[j].file)
    PROVE  job'[j].pc = "written"
<1> DEFINE f == job[j].file
           rows == RowsAfter(j, f)
<1>1. /\ job \in [Jobs -> Process] /\ f \in FileIds /\ job[j].pc = "fetch"
  BY ProcessType DEF LocalInv, JobsInv, Download
<1>2. PICK e \in Encodings[f] : LastCopiesMake(f, e)
  BY DEF RightlyOnChain, LastCopiesMake
<1>3. e \in Seq(Payloads) /\ e # <<>>
  BY <1>1, <1>2
<1>4. Storable(j) = ChunkLogs(j)
  BY <1>1, AllStorable
<1>5. RowsOfPieces(rows, e)
  BY <1>1, <1>2, <1>3, LastCopiesAreStored
<1> HIDE DEF rows
<1>6. Reconstruct(rows) = e
  BY <1>3, <1>5, RowsMakeTheFile
<1>7. job' = IF Reconstruct(rows) = <<>> THEN Raise(j, "no chunks")
             ELSE IF Reconstruct(rows) \notin Encodings[f] THEN Raise(j, "integrity")
             ELSE Go(j, "written")
  BY <1>4 DEF Download, rows, RowsAfter
<1>8. job' = Go(j, "written")
  BY <1>2, <1>3, <1>6, <1>7
<1> QED BY <1>1, <1>8 DEF Go, Process

(* A machine that has a row for a file downloads it whenever the file is    *)
(* rightly on the chain: nothing that other uploads of the file, a job that *)
(* died, a sync that stopped or a chain that reorganised left in the blob   *)
(* store for its chunks makes it fail.                                      *)
THEOREM KnownFilesDownload == NodeSpec => KnownFileDownloads
<1>1. NodeInv /\ KeyInv =>
        \A j \in Jobs :
            Download(j) /\ RightlyOnChain(job[j].file) /\ HasFile(HostOf[j], job[j].file)
                /\ NoneBeyond(HostOf[j], job[j].file)
                => job'[j].pc = "written"
  BY DownloadSucceeds DEF NodeInv
<1> QED BY <1>1, NodeInvariant, KeysInvariant, PTL DEF KnownFileDownloads
=============================================================================
