---------------------------- MODULE PipelineProofs ----------------------------
(* Proofs about Pipeline for every value of its constants: any runs,        *)
(* wallets, contents, chunk sizes, caches and windows.                      *)
EXTENDS Pipeline, StorageBotProofs, DownloaderBotProofs, SequenceTheorems

USE PipelineAssumption

-----------------------------------------------------------------------------
(* Cutting a content into chunks and joining them again.                    *)

(* ceil(length / size) slices of a size are enough, and one less is not.    *)
LEMMA SliceCount ==
    ASSUME NEW L \in Nat \ {0}, NEW z \in Nat \ {0}
    PROVE  LET n == (L + z - 1) \div z
           IN  n \in Nat \ {0} /\ (n - 1) * z < L /\ n * z >= L
<1> DEFINE n == (L + z - 1) \div z
<1>1. \A a \in Nat, b \in Nat \ {0} :
        a \div b \in Nat /\ b * (a \div b) <= a /\ a < b * (a \div b) + b
  OBVIOUS
<1>2. L + z - 1 \in Nat
  OBVIOUS
<1>3. n \in Nat /\ z * n <= L + z - 1 /\ L + z - 1 < z * n + z
  BY <1>1, <1>2
<1> HIDE DEF n
<1>4. z * n = n * z /\ (n - 1) * z = n * z - z /\ n * z \in Nat
  BY <1>3
<1>5. n # 0
  <2> SUFFICES ASSUME n = 0 PROVE FALSE
    OBVIOUS
  <2> QED BY <1>3, <1>4
<1> QED BY <1>3, <1>4, <1>5 DEF n

(* Fewer slices end before the content does.                                *)
LEMMA SliceEnds ==
    ASSUME NEW n \in Nat, NEW z \in Nat \ {0}, NEW i \in 1..n
    PROVE  /\ (i - 1) * z \in Nat /\ i * z \in Nat /\ i * z = (i - 1) * z + z
           /\ (i - 1) * z <= (n - 1) * z
<1>1. n - 1 \in Nat /\ i - 1 \in Nat /\ n - i \in Nat
  OBVIOUS
<1>2. (n - i) * z \in Nat /\ (i - 1) * z \in Nat /\ i * z \in Nat
  BY <1>1
<1>3. (n - 1) * z = (n - i) * z + (i - 1) * z
  BY <1>1
<1>4. i * z = (i - 1) * z + z
  BY <1>1
<1> QED BY <1>1, <1>2, <1>3, <1>4

(* Joining the slices of a content gives the content.                       *)
LEMMA SlicesJoin ==
    ASSUME NEW B, NEW data \in Seq(B), NEW z \in Nat \ {0}, Len(data) # 0
    PROVE  FlattenSeq(SplitChunks(data, z)) = data
<1> DEFINE L == Len(data)
           n == (L + z - 1) \div z
           end(i) == IF i * z < L THEN i * z ELSE L
           slices == SplitChunks(data, z)
           joined == [i \in 1..n |-> SubSeq(data, 1, end(i))]
           Step(f, i) == IF i = 1 THEN slices[i] ELSE f[i - 1] \o slices[i]
<1>1. L \in Nat \ {0}
  OBVIOUS
<1>2. n \in Nat \ {0} /\ (n - 1) * z < L /\ n * z >= L
  BY <1>1, SliceCount
<1>3. slices = [i \in 1..n |-> SubSeq(data, (i - 1) * z + 1, end(i))]
  BY DEF SplitChunks
<1> HIDE DEF L, n, slices
<1>4. ASSUME NEW i \in 1..n
      PROVE  /\ (i - 1) * z \in Nat /\ (i - 1) * z < L
             /\ end(i) \in Nat /\ (i - 1) * z <= end(i) /\ end(i) <= L
             /\ i > 1 => end(i - 1) = (i - 1) * z
             /\ i = 1 => (i - 1) * z = 0
  <2>1. /\ (i - 1) * z \in Nat /\ i * z \in Nat /\ i * z = (i - 1) * z + z
        /\ (i - 1) * z <= (n - 1) * z
    BY <1>2, SliceEnds
  <2>2. (n - 1) * z \in Nat
    BY <1>2
  <2>3. (i - 1) * z < L
    BY <1>1, <1>2, <2>1, <2>2
  <2>4. end(i) \in Nat /\ (i - 1) * z <= end(i) /\ end(i) <= L
    BY <1>1, <2>1, <2>3
  <2>5. end(i - 1) = (i - 1) * z
    BY <2>3
  <2>6. i = 1 => (i - 1) * z = 0
    BY <2>1
  <2> HIDE DEF end
  <2> QED BY <2>1, <2>3, <2>4, <2>5, <2>6
<1>5. end(n) = L
  BY <1>1, <1>2
<1> HIDE DEF end
<1>6. ASSUME NEW i \in 1..n
      PROVE  joined[i] = IF i = 1 THEN slices[i] ELSE joined[i - 1] \o slices[i]
  <2>1. slices[i] = SubSeq(data, (i - 1) * z + 1, end(i)) /\ joined[i] = SubSeq(data, 1, end(i))
    BY <1>3
  <2>2. CASE i = 1
    BY <1>4, <2>1, <2>2
  <2>3. CASE i # 1
    <3>1. i > 1 /\ i - 1 \in 1..n
      BY <1>2, <2>3
    <3>2. joined[i - 1] = SubSeq(data, 1, (i - 1) * z)
      BY <1>4, <3>1
    <3> DEFINE k == (i - 1) * z
               m == end(i)
    <3>3. k \in 0..Len(data) /\ m \in k..Len(data)
      BY <1>1, <1>4 DEF L
    <3> HIDE DEF k, m
    <3>4. SubSeq(data, 1, k) \o SubSeq(data, k + 1, m) = SubSeq(data, 1, m)
      <4>1. 1 \in 1..Len(data) + 1 /\ k \in (1 - 1)..Len(data)
        BY <1>1, <3>3 DEF L
      <4> QED BY <3>3, <4>1, ConcatAdjacentSubSeq
    <3> QED BY <2>1, <2>3, <3>2, <3>4 DEF k, m
  <2> QED BY <2>2, <2>3
<1>7. joined = [i \in 1..n |-> IF i = 1 THEN slices[i] ELSE joined[i - 1] \o slices[i]]
  BY <1>6
<1> DEFINE flatten == CHOOSE f : f = [i \in 1..n |-> IF i = 1 THEN slices[i] ELSE f[i - 1] \o slices[i]]
<1>8. flatten = [i \in 1..n |-> IF i = 1 THEN slices[i] ELSE flatten[i - 1] \o slices[i]]
  <2> HIDE DEF joined
  <2> QED BY <1>7
<1> HIDE DEF flatten
<1>9. \A i \in 1..n : flatten[i] = joined[i]
  <2> DEFINE D == {i \in 1..n : flatten[i] # joined[i]}
  <2> SUFFICES ASSUME D # {} PROVE FALSE
    OBVIOUS
  <2>1. D \in SUBSET Nat
    OBVIOUS
  <2> HIDE DEF D
  <2>2. PICK m \in D : \A k \in D : ~(k < m)
    BY <2>1, LeastNumber
  <2>3. m \in 1..n /\ flatten[m] # joined[m]
    BY <2>2 DEF D
  <2> HIDE DEF joined
  <2>4. flatten[m] = IF m = 1 THEN slices[m] ELSE flatten[m - 1] \o slices[m]
    BY <1>8, <2>3
  <2>5. joined[m] = IF m = 1 THEN slices[m] ELSE joined[m - 1] \o slices[m]
    BY <1>6, <2>3
  <2>6. m # 1
    BY <2>3, <2>4, <2>5
  <2>7. m - 1 \in 1..n /\ m - 1 \notin D
    BY <1>2, <2>2, <2>3, <2>6
  <2>8. flatten[m - 1] = joined[m - 1]
    BY <2>7 DEF D
  <2> QED BY <2>3, <2>4, <2>5, <2>8
<1>10. Len(slices) = n
  <2>1. DOMAIN slices = 1..n
    BY <1>3
  <2> QED BY <1>2, <2>1
<1>11. FlattenSeq(slices) = flatten[n]
  BY <1>2, <1>10 DEF FlattenSeq, flatten
<1>12. joined[n] = SubSeq(data, 1, L)
  <2>1. n \in 1..n
    BY <1>2
  <2> QED BY <1>5, <2>1
<1>13. SubSeq(data, 1, L) = data
  BY SubSeqFull DEF L
<1>14. n \in 1..n
  BY <1>2
<1> HIDE DEF joined
<1>15. FlattenSeq(slices) = data
  BY <1>9, <1>11, <1>12, <1>13, <1>14
<1> QED BY <1>15 DEF slices

-----------------------------------------------------------------------------
(* The uploads and the downloads do not see each other.                     *)

(* A step of a download leaves the chain alone.                             *)
LEMMA DownloadLeavesChain ==
    ASSUME NEW d \in Downloaders, Fetch(d) \/ Progress(d) \/ Die(d)
    PROVE  UNCHANGED chainVars /\ (Fetch(d) => Ask(d))
<1>1. UNCHANGED chainVars
  BY DEF Fetch, AskFor, StartDownload, Progress, Die, Lookup, Resolve, GetMetadata, LoadCache,
         GetTip, RangeAnswered, RangeTaken, RangeFails, AllTaken, Finish, KillDownload,
         KillInRange
<1>2. Fetch(d) => Ask(d)
  <2>1. \A u \in Uploaders : Upload[u].fileId \in FileIds
    BY UploadAssumption
  <2> QED BY <2>1 DEF Fetch, Ask
<1> QED BY <1>1, <1>2

(* Whatever is downloaded, the uploads do what they do alone.               *)
LEMMA StepsAreUploadSteps == [PipelineNext]_pipelineVars => [UploadNext]_uploadVars
<1> SUFFICES ASSUME [PipelineNext]_pipelineVars PROVE [UploadNext]_uploadVars
  OBVIOUS
<1>1. CASE UploadNext
  BY <1>1
<1>2. CASE \E d \in Downloaders : (Fetch(d) \/ Progress(d) \/ Die(d)) /\ UNCHANGED botVars
  BY <1>2, DownloadLeavesChain DEF uploadVars
<1>3. CASE UNCHANGED pipelineVars
  BY <1>3 DEF pipelineVars
<1> QED BY <1>1, <1>2, <1>3 DEF PipelineNext

(* The uploads do to the chain what anybody may.                            *)
LEMMA UploadsAreCalls ==
    ASSUME UploadInv, [UploadNext]_uploadVars PROVE [AnyNext]_chainVars
<1>1. ChainInv /\ UpsInv /\ NetInv
  BY DEF UploadInv
<1>2. ASSUME NEW tx \in mempool, MineTx(tx) PROVE [AnyNext]_chainVars
  BY <1>1, <1>2, MineKeepsReceipts
<1>3. ASSUME NEW tx \in mempool, Evict(tx) PROVE [AnyNext]_chainVars
  BY <1>3 DEF Evict
<1>4. ASSUME NEW n \in finalized..(Len(chain) - 1), Reorg(n) PROVE [AnyNext]_chainVars
  BY <1>4 DEF Reorg, AnyNext, SomeRollback
<1>5. ASSUME NEW u \in Uploaders, Uploader(u) \/ Kill(u) PROVE [AnyNext]_chainVars
  BY <1>1, <1>5, UploaderMoves DEF RunMoves
<1>6. CASE UNCHANGED uploadVars
  BY <1>6 DEF uploadVars
<1> QED BY <1>2, <1>3, <1>4, <1>5, <1>6 DEF UploadNext, Network

(* A run that has reported success takes no more steps.                     *)
LEMMA DoneStays ==
    ASSUME UploadInv, [UploadNext]_uploadVars, NEW u \in Uploaders, up[u].pc = "done"
    PROVE  up'[u].pc = "done"
<1>1. ChainInv /\ UpsInv /\ NetInv
  BY DEF UploadInv
<1>2. ASSUME NEW v \in Uploaders, Uploader(v) \/ Kill(v) PROVE up'[u] = up[u]
  <2>1. v # u
    BY <1>2 DEF Uploader, Kill, Ended, Prepare, Send, SendAnswerLost, CallFails,
                ReceiptArrives, WaitFails
  <2>2. \E s : up' = [up EXCEPT ![v] = s]
    BY <1>1, <1>2, UploaderMoves DEF RunMoves, UpSet
  <2> QED BY <1>1, <2>1, <2>2 DEF UpsInv
<1>3. CASE Network \/ UNCHANGED uploadVars
  BY <1>3 DEF Network, MineTx, Evict, Reorg, uploadVars, botVars
<1> QED BY <1>2, <1>3 DEF UploadNext

-----------------------------------------------------------------------------
(* What both invariants and the contract say together.                      *)

(* The pipeline is a system of uploads, and keeps what they keep: every     *)
(* theorem about UploadSpec holds of it.                                    *)
THEOREM PipelineUploads == PipelineSpec => UploadSpec
<1>1. PipelineInit => UploadInit
  BY DEF PipelineInit
<1> QED BY <1>1, StepsAreUploadSteps, PTL DEF PipelineSpec, UploadSpec

(* The downloads keep their invariant beside the uploads.                   *)
LEMMA StepsKeepDownloadInv ==
    UploadInv /\ DownloadInv /\ [PipelineNext]_pipelineVars => DownloadInv'
<1> SUFFICES ASSUME UploadInv, DownloadInv, [PipelineNext]_pipelineVars PROVE DownloadInv'
  OBVIOUS
<1>1. [AnyNext]_chainVars
  BY StepsAreUploadSteps, UploadsAreCalls
<1>2. CASE UNCHANGED downVars
  BY <1>1, <1>2, ChainStepKeepsInv
<1>3. CASE \E d \in Downloaders : Fetch(d) \/ Progress(d) \/ Die(d)
  BY <1>3, DownloadLeavesChain, ProgramStepKeepsInv
<1> QED BY <1>2, <1>3 DEF PipelineNext, pipelineVars

(* What each of the programs keeps alone they keep together.                *)
THEOREM PipelineInvariant == PipelineSpec => [](UploadInv /\ DownloadInv)
<1>1. PipelineInit => DownloadInv
  BY InitDownloadInv DEF PipelineInit
<1>2. PipelineSpec => []UploadInv
  BY PipelineUploads, UploadInvariant, PTL
<1> QED BY <1>1, <1>2, StepsKeepDownloadInv, PTL DEF PipelineSpec

-----------------------------------------------------------------------------
(* What a download holds, when the chain does not reorganise: chunks that   *)
(* are on the chain, and in the end all those of a run that is done.        *)

\* A chunk a download has, or will have when its ranges are answered and taken.
Taken(s, idx) == \E c \in s.got : c.chunkIndex = idx

InRange(ch, f, r, idx) == \E b \in 1..Len(ch) :
    /\ b \in r[1]..r[2] /\ Uploads(ch, b)
    /\ ch[b].event.fileId = f /\ ch[b].event.chunkIndex = idx

Coming(ch, s, idx) ==
    \/ \E a \in s.answers : \E l \in a.logs : l.chunkIndex = idx
    \/ \E r \in s.ranges : InRange(ch, s.file, r, idx)

Excused == {"rpc", "killed", "unresolved"}

WholeOK(ch, s) == s.window = WholeChain =>
    /\ s.pc = "fetch" => \A idx \in 0..(s.total - 1) : Taken(s, idx) \/ Coming(ch, s, idx)
    /\ s.pc = "check" => \A idx \in 0..(s.total - 1) : Taken(s, idx)
    /\ s.pc = "failed" => s.error \in Excused

StoredBy(u, f) == u \in Uploaders /\ up[u].pc = "done" /\ Upload[u].fileId = f

DownOK(s) ==
    /\ RealOK(chain, s) /\ WholeOK(chain, s)
    /\ s.pc # "idle" => \E u : StoredBy(u, s.file)

OutOK(data) == data # <<>> => \E u \in Uploaders : up[u].pc = "done" /\ data = Upload[u].data

FetchInv ==
    /\ RealRows(chain, chunkCache)
    /\ \A d \in Downloaders : DownOK(down[d]) /\ OutOK(output[d])

\* What the steps of a download may rest on.
Base == UploadInv /\ DownloadInv /\ DoneMeansComplete /\ FetchInv

-----------------------------------------------------------------------------
(* The operators, again: what they keep of the chunks.                      *)

(* A multiple of a number leaves no rest.                                   *)
LEMMA MultipleHasNoRest ==
    ASSUME NEW k \in Nat \ {0}, NEW q \in Nat
    PROVE  (k * q) % k = 0
<1> DEFINE p == (k * q) \div k
           m == (k * q) % k
<1>1. \A i \in Nat, j \in Nat \ {0} : i % j \in 0..(j - 1) /\ i \div j \in Nat
  OBVIOUS
<1>2. \A i \in Nat, j \in Nat \ {0} : i = j * (i \div j) + (i % j)
  OBVIOUS
<1>3. k * q \in Nat
  OBVIOUS
<1>4. m \in 0..(k - 1) /\ p \in Nat /\ k * q = k * p + m
  BY <1>1, <1>2, <1>3
<1> HIDE DEF m, p
<1>5. k * (q - p) = m /\ q - p \in Int
  BY <1>4
<1>6. \A x \in Int : (x >= 1 => k * x >= k) /\ (x <= -1 => k * x <= -k)
  OBVIOUS
<1>7. ~(q - p >= 1) /\ ~(q - p <= -1)
  BY <1>4, <1>5, <1>6
<1>8. q - p = 0
  BY <1>5, <1>7
<1> QED BY <1>5, <1>8 DEF m

(* Every block of the chain is in one of the ranges of the whole chain.     *)
LEMMA RangesCover ==
    ASSUME NEW n \in Nat, NEW b \in 0..n
    PROVE  \E r \in BlockRanges(0, n) : b \in r[1]..r[2]
<1> DEFINE z == LogBatchSize
           s == b - (b % z)
           r == <<s, IF s + z - 1 < n THEN s + z - 1 ELSE n>>
<1>1. z \in Nat \ {0}
  BY DownloadAssumption
<1> HIDE DEF z
<1>2. /\ \A i \in Nat, k \in Nat \ {0} : i % k \in 0..(k - 1) /\ i \div k \in Nat
      /\ \A i \in Nat, k \in Nat \ {0} : i = k * (i \div k) + (i % k)
  OBVIOUS
<1>3. b % z \in 0..(z - 1) /\ s \in 0..b /\ s % z = 0
  <2> DEFINE q == b \div z
  <2>0. b \in Nat
    OBVIOUS
  <2>1. b % z \in 0..(z - 1) /\ q \in Nat
    BY <1>1, <1>2, <2>0
  <2>2. b = z * q + (b % z)
    BY <1>1, <1>2
  <2> HIDE DEF q
  <2>3. z * q \in Nat
    BY <1>1, <2>1
  <2>4. s = z * q /\ s \in 0..b
    BY <1>1, <2>1, <2>2, <2>3
  <2>5. (z * q) % z = 0
    BY <1>1, <2>1, MultipleHasNoRest
  <2> QED BY <2>1, <2>4, <2>5
<1>4. s \in 0..n /\ s - 0 = s /\ b <= s + z - 1
  BY <1>1, <1>3
<1> HIDE DEF s
<1>5. r \in BlockRanges(0, n)
  BY <1>3, <1>4 DEF BlockRanges, z
<1>6. b \in r[1]..r[2]
  BY <1>1, <1>3, <1>4
<1> QED BY <1>5, <1>6

(* Writing logs over chunks loses no index.                                 *)
LEMMA OverwriteKeepsIndices ==
    ASSUME NEW rows \in SUBSET Chunk, NEW logs \in SUBSET Log, NEW n \in Nat,
           \A l \in logs : l.block <= n, NEW idx,
           (\E c \in rows : c.chunkIndex = idx) \/ (\E l \in logs : l.chunkIndex = idx)
    PROVE  \E c \in Overwrite(rows, logs) : c.chunkIndex = idx
<1>1. CASE \E l \in logs : l.chunkIndex = idx
  <2> DEFINE these == {l \in logs : l.chunkIndex = idx}
             blocks == {l.block : l \in these}
  <2>1. \A l \in logs : l.block \in 0..n
    BY DEF Log
  <2>2. blocks \in SUBSET (0..n) /\ blocks # {}
    BY <1>1, <2>1
  <2> HIDE DEF blocks
  <2>3. PICK m \in blocks : \A k \in blocks : k <= m
    BY <2>2, GreatestNumber
  <2>4. PICK last \in these : last.block = m
    BY <2>3 DEF blocks
  <2>5. \A k \in logs : k.chunkIndex = last.chunkIndex => k.block <= last.block
    BY <2>3, <2>4 DEF blocks
  <2>6. ChunkOf(last) \in Overwrite(rows, logs)
    BY <2>4, <2>5 DEF Overwrite
  <2> QED BY <2>4, <2>6 DEF ChunkOf
<1>2. CASE /\ \E c \in rows : c.chunkIndex = idx
           /\ ~\E l \in logs : l.chunkIndex = idx
  BY <1>2 DEF Overwrite
<1> QED BY <1>1, <1>2

(* A chain that only grows keeps what a download waits for.                 *)
LEMMA GrowthKeeps ==
    ASSUME NEW c, NEW d, Len(c) \in Nat, Len(d) \in Nat, Len(c) <= Len(d),
           \A b \in 1..Len(c) : d[b] = c[b]
    PROVE  \A s : WholeOK(c, s) => WholeOK(d, s)
<1>1. \A b \in 1..Len(c) : b \in 1..Len(d) /\ d[b] = c[b] /\ (Uploads(d, b) <=> Uploads(c, b))
  BY DEF Uploads
<1>2. \A f, r, idx : InRange(c, f, r, idx) => InRange(d, f, r, idx)
  BY <1>1 DEF InRange
<1>3. \A s, idx : Coming(c, s, idx) => Coming(d, s, idx)
  BY <1>2 DEF Coming
<1> QED BY <1>3 DEF WholeOK

-----------------------------------------------------------------------------
(* What a run that is done left.                                            *)

(* The file of a run that is done has its chunks, every chunk of the file   *)
(* on the chain is one of them, and each of them is there.                  *)
LEMMA StoredFile ==
    ASSUME MaxReorg = 0, UploadInv, DoneMeansComplete, NEW f, NEW u, StoredBy(u, f)
    PROVE  /\ files[f].exists /\ files[f].chunkCount = LastStep(u) /\ LastStep(u) \in Nat
           /\ \A idx \in 0..(LastStep(u) - 1) : \E b \in 1..Len(chain) :
                Uploads(chain, b) /\ chain[b].event.fileId = f /\ chain[b].event.chunkIndex = idx
           /\ \A k : Real(chain, f, k) =>
                /\ k.chunkIndex + 1 \in 1..LastStep(u)
                /\ k.data = Chunks[u][k.chunkIndex + 1]
<1>1. /\ u \in Uploaders /\ up[u].pc = "done" /\ f = Upload[u].fileId
  BY DEF StoredBy
<1>2. /\ LastStep(u) \in Nat /\ DOMAIN Chunks[u] = 1..LastStep(u)
  BY <1>1, ChunksAreChunks
<1>3. IInv /\ UpsInv /\ NetInv /\ PaidInv /\ DOMAIN chain = 1..Len(chain)
  BY DEF UploadInv, ChainInv, IInv, TypeOK
<1>4. /\ files[f].exists /\ files[f].chunkCount = LastStep(u)
      /\ \A i \in DOMAIN Chunks[u] : \E b \in DOMAIN chain :
            ChunkAt(b, f, i - 1) /\ chain[b].event.data = Chunks[u][i]
  BY <1>1 DEF DoneMeansComplete
<1>5. ASSUME NEW idx \in 0..(LastStep(u) - 1)
      PROVE  \E b \in 1..Len(chain) :
                Uploads(chain, b) /\ chain[b].event.fileId = f /\ chain[b].event.chunkIndex = idx
  <2>1. idx + 1 \in DOMAIN Chunks[u] /\ (idx + 1) - 1 = idx
    BY <1>2
  <2>2. PICK b \in DOMAIN chain : ChunkAt(b, f, (idx + 1) - 1)
    BY <1>4, <2>1
  <2> QED BY <1>3, <2>1, <2>2 DEF ChunkAt
<1>6. PICK y \in 1..Len(receipts) :
        receipts[y].ok /\ receipts[y].tx.by = u /\ receipts[y].tx.step = 0
  <2>1. Past(up[u]) = LastStep(u)
    BY <1>1, <1>3 DEF UpsInv, UpOK, Past
  <2> QED BY <1>1, <1>2, <1>3, <2>1 DEF PaidInv, PaidBelow
<1>7. ASSUME NEW k, Real(chain, f, k)
      PROVE  /\ k.chunkIndex + 1 \in 1..LastStep(u)
             /\ k.data = Chunks[u][k.chunkIndex + 1]
  <2>1. PICK b \in 1..Len(chain) : LogAt(chain, b, f, k)
    BY <1>7 DEF Real
  <2> DEFINE t == receipts[b].tx
  <2>2. /\ b \in 1..Len(receipts) /\ t \in Transactions /\ t.step \in 1..LastStep(t.by)
        /\ f = Upload[t.by].fileId
        /\ k.chunkIndex = t.step - 1 /\ k.data = Chunks[t.by][t.step]
    BY <2>1, LoggedChunk DEF LogAt
  <2>3. t.by \in Uploaders /\ t.step \in Nat /\ LastStep(t.by) \in Nat
    BY <2>2, TransactionType, ChunksAreChunks
  <2>4. PICK x \in 1..(b - 1) : receipts[x].ok /\ receipts[x].tx.by = t.by /\ receipts[x].tx.step = 0
    <3>1. 0 \in 0..(t.step - 1)
      BY <2>2, <2>3
    <3>2. PaidBelow(receipts, b - 1, t.by, 0)
      BY <1>3, <2>2, <3>1 DEF PaidInv
    <3> QED BY <3>2 DEF PaidBelow
  <2>5. Len(receipts) \in Nat
    BY <1>3 DEF NetInv, ReceiptsOK
  <2>6. x \in 1..Len(receipts)
    BY <2>2, <2>5
  <2>7. /\ x \in 1..Len(chain) /\ Creates(chain, x, f)
        /\ y \in 1..Len(chain) /\ Creates(chain, y, f)
    BY <1>1, <1>6, <2>2, <2>4, <2>6, PaidCreation
  <2>8. f \in FileIds
    BY <1>1, UploadAssumption
  <2>9. x = y
    BY <1>3, <2>7, <2>8 DEF IInv, CreatedOnce
  <2>10. t.by = u
    BY <1>6, <2>4, <2>9
  <2> HIDE DEF t
  <2>11. k.chunkIndex + 1 = t.step
    BY <2>2, <2>3
  <2> QED BY <2>2, <2>10, <2>11
<1> QED BY <1>2, <1>4, <1>5, <1>7

(* A full set of chunks of the file are the chunks of the run, and joining  *)
(* them makes what the run uploaded.                                        *)
LEMMA FullIsTheUpload ==
    ASSUME MaxReorg = 0, UploadInv, DoneMeansComplete, NEW f, NEW u, StoredBy(u, f),
           NEW got \in SUBSET Chunk, \A c \in got : Real(chain, f, c),
           \A idx \in 0..(LastStep(u) - 1) : \E c \in got : c.chunkIndex = idx
    PROVE  Reconstruct(got) = Upload[u].data
<1> DEFINE n == LastStep(u)
           D == Chunks[u]
           Slice(i) == [chunkIndex |-> i - 1, data |-> D[i]]
           w == [i \in 1..n |-> Slice(i)]
<1>1. n \in Nat /\ DOMAIN D = 1..n /\ u \in Uploaders
  BY ChunksAreChunks DEF StoredBy
<1>2. \A c \in got : /\ c.chunkIndex + 1 \in 1..n /\ c.data = D[c.chunkIndex + 1]
                     /\ c.chunkIndex \in Nat /\ c = [chunkIndex |-> c.chunkIndex, data |-> c.data]
  BY StoredFile DEF Chunk
<1> HIDE DEF D
<1>3. \A c \in got : c = Slice(c.chunkIndex + 1)
  BY <1>2
<1>4. \A i \in 1..n : Slice(i) \in got
  <2> SUFFICES ASSUME NEW i \in 1..n PROVE Slice(i) \in got
    OBVIOUS
  <2>1. i - 1 \in 0..(n - 1)
    BY <1>1
  <2>2. PICK c \in got : c.chunkIndex = i - 1
    BY <2>1
  <2>3. c.chunkIndex + 1 = i
    BY <2>2
  <2> QED BY <1>3, <2>2, <2>3
<1> HIDE DEF n
<1>5. got = {Slice(i) : i \in 1..n}
  BY <1>2, <1>3, <1>4
<1>6. InOrder(got) = w
  BY <1>1, <1>5, OrderOfSlices
<1>7. Reconstruct(got) = FlattenSeq([i \in 1..n |-> D[i]])
  <2>1. DOMAIN w = 1..n /\ \A i \in 1..n : w[i].data = D[i]
    OBVIOUS
  <2> HIDE DEF w
  <2>2. [i \in DOMAIN w |-> w[i].data] = [i \in 1..n |-> D[i]]
    BY <2>1
  <2> QED BY <1>6, <2>2 DEF Reconstruct
<1>8. [i \in 1..n |-> D[i]] = SplitChunks(Upload[u].data, InitialChunkSize)
  <2>1. D = SplitChunks(Upload[u].data, InitialChunkSize)
    BY <1>1 DEF Chunks, D
  <2>2. D = [i \in DOMAIN D |-> D[i]]
    BY <2>1 DEF SplitChunks
  <2> QED BY <1>1, <2>1, <2>2
<1>9. Upload[u].data \in Seq(Bytes) /\ Len(Upload[u].data) # 0 /\ InitialChunkSize \in Nat \ {0}
  <2>1. Upload[u].fileId \in FileIds /\ Upload[u].data \in Encodings[Upload[u].fileId]
        /\ Len(Upload[u].data) \in Nat \ {0}
    BY <1>1, UploadAssumption, PipelineAssumption
  <2>2. Upload[u].data \in Seq(Bytes)
    BY <2>1, DownloadAssumption
  <2>3. InitialChunkSize \in Nat \ {0}
    BY UploadAssumption, ConstantsAssumption
  <2> QED BY <2>1, <2>2, <2>3
<1> QED BY <1>7, <1>8, <1>9, SlicesJoin

(* As many chunks as there are indices, with one for an index at most, are  *)
(* one for each.                                                            *)
LEMMA EnoughIsAll ==
    ASSUME NEW got \in SUBSET Chunk, OneEach(got), NEW total \in Nat,
           \A c \in got : c.chunkIndex < total, Cardinality(got) >= total
    PROVE  \A idx \in 0..(total - 1) : \E c \in got : c.chunkIndex = idx
<1> DEFINE S == 0..(total - 1)
           f == [c \in got |-> c.chunkIndex]
<1>1. IsFiniteSet(S) /\ Cardinality(S) = total
  BY FS_Interval
<1>2. f \in Injection(got, S)
  BY DEF Chunk, OneEach, Injection, IsInjective
<1>3. Cardinality(got) <= total /\ (Cardinality(got) = total => f \in Surjection(got, S))
      /\ IsFiniteSet(got)
  BY <1>1, <1>2, FS_Injection
<1>4. Cardinality(got) \in Nat
  BY <1>3, FS_CardinalityType
<1>5. f \in Surjection(got, S)
  BY <1>3, <1>4
<1> QED BY <1>5 DEF Surjection

-----------------------------------------------------------------------------
(* What each step of a download makes of what it holds.                     *)

(* A download that fails holds nothing, and while it covers the whole chain *)
(* fails for an excused reason.                                             *)
LEMMA FailKeeps ==
    ASSUME DownInv, NEW d \in Downloaders, DownOK(down[d]), down[d].pc # "idle",
           NEW error, Fail(d, error), error \in Excused \/ down[d].window # WholeChain
    PROVE  DownOK(down'[d])
<1>1. down \in [Downloaders -> Download] /\ down[d] \in Download
  BY DEF DownInv
<1>2. /\ down'[d].pc = "failed" /\ down'[d].error = error
      /\ down'[d].got = {} /\ down'[d].answers = {}
      /\ down'[d].file = down[d].file /\ down'[d].window = down[d].window
  BY <1>1 DEF Fail, Download
<1> QED BY <1>2 DEF DownOK, RealOK, WholeOK

(* A download that moves to another step with what it holds.                *)
LEMMA MoveKeeps ==
    ASSUME DownInv, NEW d \in Downloaders, DownOK(down[d]), down[d].pc # "idle",
           NEW pc, down' = [down EXCEPT ![d].pc = pc],
           pc = "metadata" \/ pc = "saved" \/
                (pc = "check" /\ down[d].pc = "fetch"
                    /\ down[d].ranges = {} /\ down[d].answers = {})
    PROVE  DownOK(down'[d])
<1>1. down \in [Downloaders -> Download] /\ down[d] \in Download
  BY DEF DownInv
<1>2. /\ down'[d].pc = pc /\ down'[d].total = down[d].total
      /\ down'[d].got = down[d].got /\ down'[d].answers = down[d].answers
      /\ down'[d].file = down[d].file /\ down'[d].window = down[d].window
  BY <1>1 DEF Download
<1>3. RealOK(chain, down'[d]) /\ \E u : StoredBy(u, down'[d].file)
  BY <1>2 DEF DownOK, RealOK
<1>4. WholeOK(chain, down'[d])
  BY <1>2 DEF DownOK, WholeOK, Coming, Taken
<1> QED BY <1>3, <1>4 DEF DownOK

(* A download begins with nothing, of a file that is stored.                *)
LEMMA FetchKeeps ==
    ASSUME DownInv, NEW d \in Downloaders, d \in DOMAIN output, Fetch(d)
    PROVE  DownOK(down'[d]) /\ output'[d] = <<>>
<1>1. down \in [Downloaders -> Download]
  BY DEF DownInv
<1>2. PICK u \in Uploaders : up[u].pc = "done" /\ AskFor(d, Upload[u].fileId)
  BY DEF Fetch
<1> DEFINE f == Upload[u].fileId
<1>3. PICK entry \in Entries, window \in Windows, db \in BOOLEAN :
        StartDownload(d, f, entry, window, db)
  BY <1>2 DEF AskFor
<1>4. /\ down'[d].pc = entry /\ down'[d].file = f
      /\ down'[d].got = {} /\ down'[d].answers = {}
  BY <1>1, <1>3 DEF StartDownload, Fresh
<1>5. DownOK(down'[d])
  BY <1>2, <1>4 DEF DownOK, RealOK, WholeOK, StoredBy, Entries
<1> QED BY <1>3, <1>5 DEF StartDownload

(* The metadata of a stored file are there.                                 *)
LEMMA MetadataKeeps ==
    ASSUME DownInv, DoneMeansComplete, NEW d \in Downloaders, DownOK(down[d]), GetMetadata(d)
    PROVE  DownOK(down'[d])
<1>1. down \in [Downloaders -> Download] /\ down[d] \in Download /\ down[d].pc = "metadata"
  BY DEF DownInv, GetMetadata
<1>4. files[down[d].file].exists
  BY <1>1 DEF DownOK, StoredBy, DoneMeansComplete
<1>2. CASE Fail(d, "rpc")
  BY <1>1, <1>2, FailKeeps DEF Excused
<1>3. CASE down' = [down EXCEPT ![d].pc = "cache",
                                ![d].total = files[down[d].file].chunkCount]
  <2>1. /\ down'[d].pc = "cache" /\ down'[d].file = down[d].file
        /\ down'[d].got = down[d].got /\ down'[d].answers = down[d].answers
    BY <1>1, <1>3 DEF Download
  <2> QED BY <1>1, <2>1 DEF DownOK, RealOK, WholeOK
<1> QED BY <1>2, <1>3, <1>4 DEF GetMetadata

(* A cache that holds enough holds all, and what it holds is on the chain.  *)
LEMMA CacheKeeps ==
    ASSUME DownInv, CacheInv, MatchInv, NEW d \in Downloaders, DownOK(down[d]),
           RealRows(chain, chunkCache), LoadCache(d)
    PROVE  DownOK(down'[d])
<1> DEFINE f == down[d].file
           total == down[d].total
           cached == IF down[d].db THEN CachedChunks(f) ELSE {}
<1>1. /\ down \in [Downloaders -> Download] /\ down[d] \in Download /\ down[d].pc = "cache"
      /\ MatchOK(files, down[d])
  BY DEF DownInv, LoadCache, MatchInv
<1>2. /\ cached \subseteq Chunk /\ OneEach(cached)
      /\ \A c \in cached : \E r \in chunkCache :
            r.fileId = f /\ r.chunkIndex = c.chunkIndex /\ r.data = c.data
  BY CachedAreChunks DEF CacheInv, OneEach
<1>3. /\ down'[d].pc = IF EnoughCached(cached, total) THEN "check" ELSE "tip"
      /\ down'[d].got = cached /\ down'[d].answers = down[d].answers
      /\ down'[d].file = f /\ down'[d].total = total
  BY <1>1 DEF LoadCache, Download
<1>4. total \in Nat /\ total = files[f].chunkCount
  BY <1>1 DEF Download, MatchOK
<1> HIDE DEF cached, total
<1>5. \A c \in cached : Real(chain, f, c) /\ c.chunkIndex < total
  <2> SUFFICES ASSUME NEW c \in cached PROVE Real(chain, f, c) /\ c.chunkIndex < total
    OBVIOUS
  <2>1. PICK r \in chunkCache :
            r.fileId = f /\ r.chunkIndex = c.chunkIndex /\ r.data = c.data
    BY <1>2
  <2>2. Expected(files, r.fileId, r.chunkIndex) /\ Real(chain, r.fileId, r)
    BY DEF MatchInv, RealRows
  <2>3. Real(chain, f, c)
    BY <2>1, <2>2 DEF Real, LogAt
  <2> QED BY <1>4, <2>1, <2>2, <2>3 DEF Expected
<1>6. EnoughCached(cached, total) => \A idx \in 0..(total - 1) : \E c \in cached : c.chunkIndex = idx
  BY <1>2, <1>4, <1>5, EnoughIsAll DEF EnoughCached
<1>7. RealOK(chain, down'[d])
  BY <1>3, <1>5 DEF DownOK, RealOK
<1>8. WholeOK(chain, down'[d])
  BY <1>3, <1>6 DEF WholeOK, Taken
<1> QED BY <1>1, <1>3, <1>7, <1>8 DEF DownOK

(* The ranges of the whole chain cover all the chunks of a stored file.     *)
LEMMA TipKeeps ==
    ASSUME MaxReorg = 0, UploadInv, DoneMeansComplete, DownInv, MatchInv,
           NEW d \in Downloaders, DownOK(down[d]), GetTip(d)
    PROVE  DownOK(down'[d])
<1> DEFINE start == down[d].window.from
           end == IF down[d].window.to = Latest THEN Len(chain) ELSE down[d].window.to
           f == down[d].file
           total == down[d].total
<1>1. /\ down \in [Downloaders -> Download] /\ down[d] \in Download /\ down[d].pc = "tip"
      /\ MatchOK(files, down[d]) /\ Len(chain) \in Nat
  BY DEF DownInv, GetTip, MatchInv, UploadInv, ChainInv, IInv, TypeOK
<1>2. down[d].window = WholeChain => start = 0 /\ end = Len(chain)
  BY DEF WholeChain
<1>3. CASE Fail(d, "rpc")
  BY <1>1, <1>3, FailKeeps DEF Excused
<1>4. CASE start > end /\ Fail(d, "window")
  <2>1. down[d].window # WholeChain
    BY <1>1, <1>2, <1>4
  <2> QED BY <1>1, <1>4, <2>1, FailKeeps
<1>5. CASE down' = [down EXCEPT ![d].pc = "fetch", ![d].ranges = BlockRanges(start, end)]
  <2>1. /\ down'[d].pc = "fetch" /\ down'[d].ranges = BlockRanges(start, end)
        /\ down'[d].got = down[d].got /\ down'[d].answers = down[d].answers
        /\ down'[d].file = f /\ down'[d].total = total
        /\ down'[d].window = down[d].window
    BY <1>1, <1>5 DEF Download
  <2> HIDE DEF start, end
  <2>2. PICK u : StoredBy(u, f)
    BY <1>1 DEF DownOK
  <2>3. total = LastStep(u)
    BY <1>1, <2>2, StoredFile DEF MatchOK
  <2>4. ASSUME down[d].window = WholeChain, NEW idx \in 0..(total - 1)
        PROVE  Coming(chain, down'[d], idx)
    <3>1. PICK b \in 1..Len(chain) :
            Uploads(chain, b) /\ chain[b].event.fileId = f /\ chain[b].event.chunkIndex = idx
      BY <2>2, <2>3, <2>4, StoredFile
    <3>2. PICK r \in BlockRanges(0, Len(chain)) : b \in r[1]..r[2]
      BY <1>1, RangesCover
    <3>3. r \in down'[d].ranges
      BY <1>2, <2>1, <2>4, <3>2
    <3> QED BY <2>1, <3>1, <3>2, <3>3 DEF Coming, InRange
  <2>5. RealOK(chain, down'[d])
    BY <2>1 DEF DownOK, RealOK
  <2>6. WholeOK(chain, down'[d])
    BY <2>1, <2>4 DEF WholeOK
  <2> QED BY <2>1, <2>2, <2>5, <2>6 DEF DownOK
<1> QED BY <1>3, <1>4, <1>5 DEF GetTip

(* A thread's answer has the chunks of its range that are on the chain.     *)
LEMMA AnswerKeeps ==
    ASSUME TypeOK, DownInv, NEW d \in Downloaders, DownOK(down[d]),
           NEW r \in down[d].ranges, RangeAnswered(d, r)
    PROVE  DownOK(down'[d])
<1> DEFINE f == down[d].file
           answer == [range |-> r, logs |-> LogsIn(f, r)]
<1>1. /\ down \in [Downloaders -> Download] /\ down[d] \in Download /\ down[d].pc = "fetch"
  BY DEF DownInv, RangeAnswered
<1>2. /\ down'[d].pc = "fetch" /\ down'[d].ranges = down[d].ranges \ {r}
      /\ down'[d].answers = down[d].answers \cup {answer}
      /\ down'[d].got = down[d].got /\ down'[d].file = f
      /\ down'[d].total = down[d].total /\ down'[d].window = down[d].window
  BY <1>1 DEF RangeAnswered, Download
<1>3. f \in FileIds /\ r \in Int \X Int
  BY <1>1 DEF Download
<1>4. \A l \in LogsIn(f, r) : l.block \in 1..Len(chain) /\ LogAt(chain, l.block, f, l)
  BY <1>3, LogsAreLogs DEF LogAt
<1>5. RealOK(chain, down'[d])
  BY <1>2, <1>4 DEF DownOK, RealOK
<1>6. ASSUME NEW idx, Coming(chain, down[d], idx) PROVE Coming(chain, down'[d], idx)
  <2>1. CASE InRange(chain, f, r, idx)
    <3>1. PICK b \in 1..Len(chain) :
            /\ b \in r[1]..r[2] /\ Uploads(chain, b)
            /\ chain[b].event.fileId = f /\ chain[b].event.chunkIndex = idx
      BY <2>1 DEF InRange
    <3>2. [block |-> b, chunkIndex |-> chain[b].event.chunkIndex,
           data |-> chain[b].event.data] \in LogsIn(f, r)
      BY <3>1 DEF TypeOK, LogsIn
    <3>3. \E l \in answer.logs : l.chunkIndex = idx
      BY <3>1, <3>2
    <3> QED BY <1>2, <3>3 DEF Coming
  <2>2. CASE ~InRange(chain, f, r, idx)
    BY <1>2, <1>6, <2>2 DEF Coming
  <2> QED BY <2>1, <2>2
<1>7. WholeOK(chain, down'[d])
  BY <1>1, <1>2, <1>6 DEF DownOK, WholeOK, Taken
<1> QED BY <1>1, <1>2, <1>5, <1>7 DEF DownOK

(* Taking a range takes all its chunks and loses none.                      *)
LEMMA TakenKeeps ==
    ASSUME TypeOK, DownInv, NEW d \in Downloaders, DownOK(down[d]),
           NEW a \in down[d].answers, RangeTaken(d, a)
    PROVE  DownOK(down'[d])
<1> DEFINE over == Overwrite(down[d].got, a.logs)
           f == down[d].file
<1>1. /\ down \in [Downloaders -> Download] /\ down[d] \in Download /\ DownloadOK(down[d])
      /\ down[d].pc = "fetch" /\ Len(chain) \in Nat
  BY DEF DownInv, RangeTaken, TypeOK
<1>2. /\ down'[d].pc = "fetch" /\ down'[d].ranges = down[d].ranges
      /\ down'[d].answers = down[d].answers \ {a}
      /\ down'[d].got = over /\ down'[d].file = f
      /\ down'[d].total = down[d].total /\ down'[d].window = down[d].window
  BY <1>1 DEF RangeTaken, Download
<1>3. down[d].got \in SUBSET Chunk /\ a \in Answer /\ OneEach(down[d].got)
  BY <1>1 DEF Download, DownloadOK
<1>4. a.logs \in SUBSET Log /\ OneLogEach(a.logs)
  BY <1>1, <1>3 DEF Answer, DownloadOK
<1>5. \A l \in a.logs : l.block \in 1..Len(chain) /\ LogAt(chain, l.block, f, l)
  BY DEF DownOK, RealOK
<1>6. \A c \in over : c \in down[d].got \/
            \E l \in a.logs : c.chunkIndex = l.chunkIndex /\ c.data = l.data
  BY <1>3, <1>4, OverwriteKeepsOneEach
<1>7. \A idx : (\E c \in down[d].got : c.chunkIndex = idx) \/ (\E l \in a.logs : l.chunkIndex = idx)
                => \E c \in over : c.chunkIndex = idx
  <2>1. \A l \in a.logs : l.block <= Len(chain)
    BY <1>1, <1>5
  <2> QED BY <1>1, <1>3, <1>4, <2>1, OverwriteKeepsIndices
<1> HIDE DEF over
<1>8. RealOK(chain, down'[d])
  <2>1. \A c \in over : Real(chain, f, c)
    BY <1>5, <1>6 DEF DownOK, RealOK, Real, LogAt
  <2> QED BY <1>2, <2>1 DEF DownOK, RealOK
<1>9. \A idx : Taken(down[d], idx) \/ Coming(chain, down[d], idx)
                => Taken(down'[d], idx) \/ Coming(chain, down'[d], idx)
  BY <1>2, <1>7 DEF Taken, Coming
<1>10. WholeOK(chain, down'[d])
  BY <1>1, <1>2, <1>9 DEF DownOK, WholeOK
<1> QED BY <1>1, <1>2, <1>8, <1>10 DEF DownOK

(* A download that has everything makes of it what was uploaded, and one of *)
(* the whole chain has everything.                                          *)
LEMMA FinishKeeps ==
    ASSUME MaxReorg = 0, UploadInv, DoneMeansComplete, DownInv, MatchInv,
           NEW d \in Downloaders, DownOK(down[d]), OutOK(output[d]),
           d \in DOMAIN output, Finish(d)
    PROVE  DownOK(down'[d]) /\ OutOK(output'[d])
<1> DEFINE got == down[d].got
           total == down[d].total
           f == down[d].file
<1>1. /\ down \in [Downloaders -> Download] /\ down[d] \in Download /\ down[d].pc = "check"
      /\ MatchOK(files, down[d])
  BY DEF DownInv, Finish, MatchInv
<1>2. PICK u : StoredBy(u, f)
  BY <1>1 DEF DownOK
<1>3. got \in SUBSET Chunk /\ total \in Nat /\ total = LastStep(u)
      /\ \A c \in got : c.chunkIndex < total /\ Real(chain, f, c)
  <2>1. total = files[f].chunkCount /\ got \in SUBSET Chunk /\ total \in Nat
    BY <1>1 DEF MatchOK, Download
  <2>2. \A c \in got : Real(chain, f, c) /\ Expected(files, f, c.chunkIndex)
    BY <1>1 DEF DownOK, RealOK, MatchOK
  <2> QED BY <1>2, <2>1, <2>2, StoredFile DEF Expected
<1>4. Validated(got, total) <=> \A idx \in 0..(total - 1) : \E c \in got : c.chunkIndex = idx
  BY <1>3, ValidatedIsAll
<1>5. Validated(got, total) => Reconstruct(got) = Upload[u].data
  BY <1>2, <1>3, <1>4, FullIsTheUpload
<1>6. Verified(Upload[u].data, f)
  BY <1>2, PipelineAssumption DEF StoredBy, Verified
<1>7. down[d].window = WholeChain => Validated(got, total)
  BY <1>1, <1>4 DEF DownOK, WholeOK, Taken
<1>8. CASE ~Validated(got, total) /\ Fail(d, "incomplete") /\ UNCHANGED output
  BY <1>1, <1>7, <1>8, FailKeeps
<1>9. CASE /\ Validated(got, total) /\ down' = [down EXCEPT ![d].pc = "saved"]
           /\ output' = [output EXCEPT ![d] = Reconstruct(got)]
  <2>1. DownOK(down'[d])
    BY <1>1, <1>9, MoveKeeps
  <2>2. output'[d] = Upload[u].data
    BY <1>5, <1>9
  <2> QED BY <1>2, <2>1, <2>2 DEF OutOK, StoredBy
<1> QED BY <1>5, <1>6, <1>8, <1>9 DEF Finish

(* Every step of a download keeps what it holds true.                       *)
LEMMA StepKeepsDownOK ==
    ASSUME MaxReorg = 0, Base, NEW d \in Downloaders, Fetch(d) \/ Progress(d) \/ Die(d)
    PROVE  DownOK(down'[d]) /\ OutOK(output'[d])
<1>1. /\ UploadInv /\ DoneMeansComplete /\ TypeOK /\ DownInv /\ CacheInv /\ MatchInv
      /\ d \in DOMAIN output
      /\ RealRows(chain, chunkCache) /\ DownOK(down[d]) /\ OutOK(output[d])
  BY DEF Base, FetchInv, DownloadInv, LocalInv, OutputInv, ChainInv, IInv
<1>2. CASE Fetch(d)
  BY <1>1, <1>2, FetchKeeps DEF OutOK
<1>3. CASE Finish(d)
  BY <1>1, <1>3, FinishKeeps
<1>4. CASE \/ Lookup(d) \/ Resolve(d) \/ GetMetadata(d) \/ LoadCache(d) \/ GetTip(d)
           \/ \E r \in down[d].ranges : RangeAnswered(d, r)
           \/ \E a \in down[d].answers : RangeTaken(d, a)
           \/ RangeFails(d) \/ AllTaken(d) \/ Die(d)
  <2>1. output' = output
    BY <1>4 DEF Lookup, Resolve, GetMetadata, LoadCache, GetTip, RangeAnswered, RangeTaken,
                RangeFails, AllTaken, Die, KillDownload, KillInRange
  <2>0. OutOK(output'[d])
    BY <1>1, <2>1
  <2> SUFFICES DownOK(down'[d])
    BY <2>0
  <2>2. CASE Lookup(d) \/ Resolve(d)
    <3>1. down[d].pc # "idle" /\ \/ down' = [down EXCEPT ![d].pc = "metadata"]
                                 \/ Fail(d, "unresolved")
      BY <2>2 DEF Lookup, Resolve
    <3> QED BY <1>1, <3>1, FailKeeps, MoveKeeps DEF Excused
  <2>3. CASE GetMetadata(d)
    BY <1>1, <2>3, MetadataKeeps
  <2>4. CASE LoadCache(d)
    BY <1>1, <2>4, CacheKeeps
  <2>5. CASE GetTip(d)
    BY <1>1, <2>5, TipKeeps
  <2>6. CASE \E r \in down[d].ranges : RangeAnswered(d, r)
    BY <1>1, <2>6, AnswerKeeps
  <2>7. CASE \E a \in down[d].answers : RangeTaken(d, a)
    BY <1>1, <2>7, TakenKeeps
  <2>8. CASE RangeFails(d) \/ Die(d)
    <3>1. down[d].pc # "idle" /\ (Fail(d, "rpc") \/ Fail(d, "killed"))
      BY <2>8 DEF RangeFails, Die, KillDownload, KillInRange, Resting
    <3> QED BY <1>1, <3>1, FailKeeps DEF Excused
  <2>9. CASE AllTaken(d)
    BY <1>1, <2>9, MoveKeeps DEF AllTaken
  <2> QED BY <1>4, <2>2, <2>3, <2>4, <2>5, <2>6, <2>7, <2>8, <2>9
<1> QED BY <1>2, <1>3, <1>4 DEF Progress

-----------------------------------------------------------------------------
(* The invariant of the downloads beside the uploads is inductive.          *)

(* Nothing is downloaded, cached or saved at the start.                     *)
LEMMA InitFetchInv == PipelineInit => FetchInv
<1> SUFFICES ASSUME PipelineInit PROVE FetchInv
  OBVIOUS
<1>1. /\ down \in [Downloaders -> {Fresh(f) : f \in FileIds}]
      /\ output = [d \in Downloaders |-> <<>>] /\ chunkCache = {}
  BY DEF PipelineInit, DownloadInit
<1>2. ASSUME NEW d \in Downloaders PROVE DownOK(down[d]) /\ OutOK(output[d])
  <2>1. PICK f \in FileIds : down[d] = Fresh(f)
    BY <1>1
  <2>2. down[d].pc = "idle" /\ down[d].got = {} /\ down[d].answers = {}
    BY <2>1 DEF Fresh
  <2> QED BY <1>1, <2>2 DEF DownOK, RealOK, WholeOK, OutOK
<1> QED BY <1>1, <1>2 DEF FetchInv, RealRows

(* A step of the uploads, or no step.                                       *)
LEMMA UploadStepKeepsFetchInv ==
    ASSUME MaxReorg = 0, Base, [UploadNext]_uploadVars, UNCHANGED downVars
    PROVE  FetchInv'
<1>1. UploadInv /\ FetchInv /\ [AnyNext]_chainVars /\ ChainInv
  BY UploadsAreCalls DEF Base, UploadInv
<1>2. /\ Len(chain) \in Nat /\ Len(chain') \in Nat /\ Len(chain) <= Len(chain')
      /\ \A b \in 1..Len(chain) : chain'[b] = chain[b]
  BY <1>1, NothingIsDropped
<1>3. \A u \in Uploaders : up[u].pc = "done" => up'[u].pc = "done"
  BY <1>1, DoneStays
<1>4. \A s : (RealOK(chain, s) => RealOK(chain', s)) /\ (WholeOK(chain, s) => WholeOK(chain', s))
  BY <1>2, RealGrows, GrowthKeeps
<1>5. \A rows : RealRows(chain, rows) => RealRows(chain', rows)
  BY <1>2, RealGrows
<1>6. down' = down /\ output' = output /\ chunkCache' = chunkCache
  BY DEF downVars
<1>7. ASSUME NEW d \in Downloaders PROVE DownOK(down[d])' /\ OutOK(output[d])'
  <2>1. DownOK(down[d]) /\ OutOK(output[d])
    BY <1>1 DEF FetchInv
  <2>2. RealOK(chain', down[d]) /\ WholeOK(chain', down[d])
    BY <1>4, <2>1 DEF DownOK
  <2> QED BY <1>3, <1>6, <2>1, <2>2 DEF DownOK, OutOK, StoredBy
<1>8. RealRows(chain', chunkCache')
  BY <1>1, <1>5, <1>6 DEF FetchInv
<1> QED BY <1>7, <1>8 DEF FetchInv

(* A step of a download.                                                    *)
LEMMA DownloadStepKeepsFetchInv ==
    ASSUME MaxReorg = 0, Base, NEW d \in Downloaders,
           Fetch(d) \/ Progress(d) \/ Die(d), UNCHANGED botVars
    PROVE  FetchInv'
<1>1. /\ IInv /\ DownInv /\ CacheInv /\ DOMAIN output = Downloaders
      /\ \A o \in Downloaders : DownOK(down[o]) /\ OutOK(output[o])
  BY DEF Base, FetchInv, DownloadInv, LocalInv, OutputInv, ChainInv
<1>2. chain' = chain /\ up' = up
  BY DownloadLeavesChain DEF chainVars, botVars
<1>3. PICK s : DownBecomes(d, s)
  <2>1. Fetch(d) => Ask(d)
    BY DownloadLeavesChain
  <2> QED BY <1>1, <2>1, StartEffect, StepEffect DEF Ask, AskFor, GoesOn
<1>4. \A o \in Downloaders : o # d => down'[o] = down[o]
  BY <1>1, <1>3, DownInvSteps
<1>5. \A o \in Downloaders : o # d => output'[o] = output[o]
  BY <1>1 DEF Fetch, AskFor, StartDownload, Progress, Die, Lookup, Resolve, GetMetadata,
              LoadCache, GetTip, RangeAnswered, RangeTaken, RangeFails, AllTaken, Finish,
              KillDownload, KillInRange
<1>6. DownOK(down'[d]) /\ OutOK(output'[d])
  BY StepKeepsDownOK
<1>7. \A o \in Downloaders : DownOK(down'[o]) /\ OutOK(output'[o])
  BY <1>1, <1>4, <1>5, <1>6
<1>8. \A o \in Downloaders : DownOK(down[o])' /\ OutOK(output[o])'
  BY <1>2, <1>7 DEF DownOK, OutOK, StoredBy, RealOK, WholeOK, Real, LogAt, Coming, InRange,
                    Uploads
<1>9. RealRows(chain', chunkCache')
  <2>1. RealRows(chain, chunkCache) /\ RealOK(chain, down[d]) /\ (Fetch(d) => Ask(d))
    BY <1>1, DownloadLeavesChain DEF Base, FetchInv, DownOK
  <2> QED BY <1>1, <1>2, <2>1, StepKeepsRows
<1> QED BY <1>8, <1>9 DEF FetchInv

(* A step of either.                                                        *)
LEMMA StepsKeepFetchInv ==
    ASSUME MaxReorg = 0 PROVE Base /\ [PipelineNext]_pipelineVars => FetchInv'
<1> SUFFICES ASSUME Base, [PipelineNext]_pipelineVars PROVE FetchInv'
  OBVIOUS
<1>1. CASE UNCHANGED downVars
  BY <1>1, StepsAreUploadSteps, UploadStepKeepsFetchInv
<1>2. CASE \E d \in Downloaders : (Fetch(d) \/ Progress(d) \/ Die(d)) /\ UNCHANGED botVars
  BY <1>2, DownloadStepKeepsFetchInv
<1> QED BY <1>1, <1>2 DEF PipelineNext, pipelineVars

-----------------------------------------------------------------------------
(* What is true of the pipeline.                                            *)

(* On a chain that does not reorganise, what the downloads hold, cache and  *)
(* save is on the chain or was uploaded by a run that reported success.     *)
THEOREM FetchInvariant == ASSUME MaxReorg = 0 PROVE PipelineSpec => []FetchInv
<1>1. PipelineInit => FetchInv
  BY InitFetchInv
<1>2. PipelineSpec => [](UploadInv /\ DownloadInv)
  BY PipelineInvariant
<1>3. PipelineSpec => []DoneMeansComplete
  BY PipelineUploads, SuccessIsComplete, PTL
<1>4. UploadInv /\ DownloadInv /\ DoneMeansComplete /\ FetchInv
        /\ [PipelineNext]_pipelineVars => FetchInv'
  <2>1. UploadInv /\ DownloadInv /\ DoneMeansComplete /\ FetchInv => Base
    BY DEF Base
  <2> QED BY <2>1, StepsKeepFetchInv
<1> QED BY <1>1, <1>2, <1>3, <1>4, PTL DEF PipelineSpec

(* What one run stored another fetches: on a chain that does not            *)
(* reorganise, a download over the whole chain of a file whose upload was   *)
(* reported fails only with its own calls, and what any download saves are  *)
(* the chunks of a run that reported success.                               *)
THEOREM StoredCanBeFetched == ASSUME MaxReorg = 0 PROVE PipelineSpec => []StoredIsFetched
<1>1. FetchInv => StoredIsFetched
  BY DEF FetchInv, DownOK, WholeOK, OutOK, Excused, StoredIsFetched
<1> QED BY <1>1, FetchInvariant, PTL
=============================================================================
