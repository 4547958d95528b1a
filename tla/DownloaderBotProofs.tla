------------------------- MODULE DownloaderBotProofs -------------------------
(* Proofs about DownloaderBot for every value of its constants: any number  *)
(* of downloads that share the cache, any windows, batches and payloads.    *)
EXTENDS DownloaderBot, ChainFSProofs, FiniteSetTheorems

USE ConstantsAssumption, DownloadAssumption

-----------------------------------------------------------------------------
(* What is true of a download and of the cache on any chain, however it     *)
(* reorganises.                                                             *)

Answer == [range: Int \X Int, logs: SUBSET Log]

Download ==
    [pc: Resting \cup Entries \cup {"cache", "tip", "fetch", "check"},
     file: FileIds, window: [from: Nat, to: Nat \cup {Latest}], db: BOOLEAN, total: Nat,
     got: SUBSET Chunk, ranges: SUBSET (Int \X Int), answers: SUBSET Answer,
     error: {"none", "unresolved", "not found", "rpc", "window", "killed", "incomplete",
             "corrupted"}]

\* An index has one chunk at most, in the events of a download as in the cache;
\* a range was read from one chain, so a block of it has one log at most.
OneEach(chunks) == \A a, b \in chunks : a.chunkIndex = b.chunkIndex => a = b
OneLogEach(logs) == \A k, l \in logs : k.block = l.block => k = l

DownloadOK(s) == OneEach(s.got) /\ \A a \in s.answers : OneLogEach(a.logs)

DownInv ==
    /\ down \in [Downloaders -> Download]
    /\ \A d \in Downloaders : DownloadOK(down[d])

CacheRow == [fileId: FileIds, chunkIndex: Nat, data: Payloads]

CacheOK(rows) ==
    /\ rows \subseteq CacheRow
    /\ \A r, s \in rows : r.fileId = s.fileId /\ r.chunkIndex = s.chunkIndex => r = s

CacheInv == fileCache \subseteq FileIds /\ CacheOK(chunkCache)

SavedInv == \A d \in Downloaders : output[d] \in Seq(Bytes)

OutputInv == DOMAIN output = Downloaders /\ SavedInv

LocalInv == DownInv /\ CacheInv /\ OutputInv

-----------------------------------------------------------------------------
(* The operators that move chunks.                                          *)

(* The logs of a range are logs, one for each block.                        *)
LEMMA LogsAreLogs ==
    ASSUME TypeOK, NEW f \in FileIds, NEW range \in Int \X Int
    PROVE  /\ LogsIn(f, range) \subseteq Log
           /\ OneLogEach(LogsIn(f, range))
           /\ \A l \in LogsIn(f, range) :
                /\ l.block \in 1..Len(chain) /\ Uploads(chain, l.block)
                /\ chain[l.block].event.fileId = f
                /\ l.chunkIndex = chain[l.block].event.chunkIndex
                /\ l.data = chain[l.block].event.data
<1> DEFINE B == {n \in range[1]..range[2] :
                    n \in DOMAIN chain /\ Uploads(chain, n) /\ chain[n].event.fileId = f}
<1>1. DOMAIN chain = 1..Len(chain) /\ Len(chain) \in Nat
  BY DEF TypeOK
<1>2. \A b \in B : /\ b \in 1..Len(chain) /\ b \in Nat /\ Uploads(chain, b)
                   /\ chain[b].event.fileId = f
                   /\ chain[b].event.chunkIndex \in Nat /\ chain[b].event.data \in Payloads
  <2> SUFFICES ASSUME NEW b \in B
               PROVE  /\ chain[b].event.chunkIndex \in Nat
                      /\ chain[b].event.data \in Payloads
    BY <1>1
  <2>1. chain[b] \in Block /\ Uploads(chain, b)
    BY <1>1 DEF TypeOK
  <2>2. chain[b].event \in Events /\ chain[b].event.type = "ChunkUploaded"
    BY <2>1 DEF Block, Uploads
  <2> QED BY <2>2 DEF Events, FileCreated, ChunkUploaded, NoEvent
<1>3. LogsIn(f, range) =
        {[block |-> b, chunkIndex |-> chain[b].event.chunkIndex,
          data |-> chain[b].event.data] : b \in B}
  BY DEF LogsIn
<1> HIDE DEF B
<1> QED BY <1>2, <1>3 DEF Log, OneLogEach

(* Writing logs over chunks leaves one chunk for each index; every chunk of *)
(* the result was there or is of one of the logs.                           *)
LEMMA OverwriteKeepsOneEach ==
    ASSUME NEW rows \in SUBSET Chunk, NEW logs \in SUBSET Log,
           OneEach(rows), OneLogEach(logs)
    PROVE  /\ Overwrite(rows, logs) \subseteq Chunk
           /\ OneEach(Overwrite(rows, logs))
           /\ \A c \in Overwrite(rows, logs) :
                c \in rows \/ \E l \in logs : c.chunkIndex = l.chunkIndex /\ c.data = l.data
<1> DEFINE last(l) == l \in logs /\
                      \A k \in logs : k.chunkIndex = l.chunkIndex => k.block <= l.block
<1>1. \A c \in Overwrite(rows, logs) :
        \/ c \in rows /\ \A l \in logs : l.chunkIndex # c.chunkIndex
        \/ \E l \in logs : last(l) /\ c = ChunkOf(l)
  BY DEF Overwrite
<1>2. \A l \in logs : ChunkOf(l) \in Chunk /\ ChunkOf(l).chunkIndex = l.chunkIndex
                      /\ ChunkOf(l).data = l.data /\ l.block \in Nat
  BY DEF ChunkOf, Log, Chunk
<1>3. \A k, l \in logs : last(k) /\ last(l) /\ k.chunkIndex = l.chunkIndex => k = l
  <2> SUFFICES ASSUME NEW k \in logs, NEW l \in logs, last(k), last(l),
                      k.chunkIndex = l.chunkIndex
               PROVE  k = l
    OBVIOUS
  <2>1. k.block <= l.block /\ l.block <= k.block
    OBVIOUS
  <2>2. k.block = l.block
    BY <1>2, <2>1
  <2> QED BY <2>2 DEF OneLogEach
<1> HIDE DEF last
<1>4. OneEach(Overwrite(rows, logs))
  <2> SUFFICES ASSUME NEW a \in Overwrite(rows, logs), NEW b \in Overwrite(rows, logs),
                      a.chunkIndex = b.chunkIndex
               PROVE  a = b
    BY DEF OneEach
  <2>1. CASE a \in rows /\ b \in rows
    BY <2>1 DEF OneEach
  <2>2. CASE a \notin rows \/ b \notin rows
    BY <1>1, <1>2, <1>3, <2>2
  <2> QED BY <2>1, <2>2
<1> QED BY <1>1, <1>2, <1>4

(* The cached chunks of a file are chunks, one for each index.              *)
LEMMA CachedAreChunks ==
    ASSUME CacheOK(chunkCache), NEW f
    PROVE  /\ CachedChunks(f) \subseteq Chunk
           /\ OneEach(CachedChunks(f))
           /\ \A c \in CachedChunks(f) : \E r \in chunkCache :
                r.fileId = f /\ r.chunkIndex = c.chunkIndex /\ r.data = c.data
<1>1. \A c \in CachedChunks(f) : \E r \in chunkCache :
        r.fileId = f /\ c = [chunkIndex |-> r.chunkIndex, data |-> r.data]
  BY DEF CachedChunks
<1>2. \A r \in chunkCache : r \in CacheRow
  BY DEF CacheOK
<1> QED BY <1>1, <1>2 DEF CacheOK, CacheRow, Chunk, OneEach

(* Writing a range to the cache keeps it a cache; every row was there or is *)
(* of the file that is downloaded and one of the logs.                      *)
LEMMA PersistKeepsCache ==
    ASSUME DownInv, CacheInv, NEW d \in Downloaders, NEW logs \in SUBSET Log,
           OneLogEach(logs), Persist(d, logs)
    PROVE  /\ CacheOK(chunkCache')
           /\ \A r \in chunkCache' :
                r \in chunkCache \/ (r.fileId = down[d].file /\ \E l \in logs :
                                        r.chunkIndex = l.chunkIndex /\ r.data = l.data)
<1> DEFINE f == down[d].file
           over == Overwrite(CachedChunks(f), logs)
<1>1. CacheOK(chunkCache) /\ f \in FileIds
  BY DEF CacheInv, DownInv, Download
<1>2. CASE chunkCache' = chunkCache
  BY <1>1, <1>2
<1>3. CASE chunkCache' = {r \in chunkCache : r.fileId # f} \cup CacheOf(f, over)
  <2>1. /\ over \subseteq Chunk /\ OneEach(over)
        /\ \A c \in over : c \in CachedChunks(f) \/
                \E l \in logs : c.chunkIndex = l.chunkIndex /\ c.data = l.data
    BY <1>1, CachedAreChunks, OverwriteKeepsOneEach
  <2> HIDE DEF over, f
  <2>2. \A r \in CacheOf(f, over) : \E c \in over :
            r = [fileId |-> f, chunkIndex |-> c.chunkIndex, data |-> c.data]
    BY DEF CacheOf
  <2>3. \A r \in CacheOf(f, over) : r \in CacheRow /\ r.fileId = f
    BY <1>1, <2>1, <2>2 DEF Chunk, CacheRow
  <2>4. \A r, s \in CacheOf(f, over) : r.chunkIndex = s.chunkIndex => r = s
    BY <2>1, <2>2 DEF OneEach
  <2>5. \A r \in CacheOf(f, over) :
            r \in chunkCache \/ \E l \in logs : r.chunkIndex = l.chunkIndex /\ r.data = l.data
    <3> SUFFICES ASSUME NEW r \in CacheOf(f, over)
                 PROVE  r \in chunkCache \/
                        \E l \in logs : r.chunkIndex = l.chunkIndex /\ r.data = l.data
      OBVIOUS
    <3>1. PICK c \in over : r = [fileId |-> f, chunkIndex |-> c.chunkIndex, data |-> c.data]
      BY <2>2
    <3>2. CASE c \in CachedChunks(f)
      <4>1. PICK q \in chunkCache :
                q.fileId = f /\ q.chunkIndex = c.chunkIndex /\ q.data = c.data
        BY <1>1, <3>2, CachedAreChunks
      <4>2. q \in CacheRow
        BY <1>1 DEF CacheOK
      <4>3. q = r
        BY <3>1, <4>1, <4>2 DEF CacheRow
      <4> QED BY <4>3
    <3>3. CASE c \notin CachedChunks(f)
      BY <2>1, <3>1, <3>3
    <3> QED BY <3>2, <3>3
  <2>6. CacheOK(chunkCache')
    BY <1>1, <1>3, <2>3, <2>4 DEF CacheOK
  <2> QED BY <1>3, <2>3, <2>5, <2>6 DEF f
<1> QED BY <1>2, <1>3 DEF Persist

-----------------------------------------------------------------------------
(* What is true besides when the chain does not reorganise: every chunk     *)
(* that was cached, fetched or taken is one that the metadata of its file   *)
(* expect, and a download holds the metadata the contract has.              *)

Expected(fs, f, idx) == fs[f].exists /\ idx < fs[f].chunkCount

MatchOK(fs, s) ==
    /\ \A c \in s.got : Expected(fs, s.file, c.chunkIndex)
    /\ \A a \in s.answers : \A l \in a.logs : Expected(fs, s.file, l.chunkIndex)
    /\ s.pc \in {"cache", "tip", "fetch", "check"} =>
            fs[s.file].exists /\ s.total = fs[s.file].chunkCount

MatchInv ==
    /\ \A r \in chunkCache : Expected(files, r.fileId, r.chunkIndex)
    /\ \A d \in Downloaders : MatchOK(files, down[d])

DownloadInv == ChainInv /\ LocalInv /\ (MaxReorg = 0 => MatchInv)

-----------------------------------------------------------------------------
(* What each step makes of the download that takes it.                      *)

DownBecomes(d, s) ==
    /\ down' = [down EXCEPT ![d] = s]
    /\ s \in Download /\ DownloadOK(s)
    /\ MatchInv => MatchOK(files, s)

GoesOn(d, s) == DownBecomes(d, s) /\ s.file = down[d].file

(* A download that fails drops what it has, its events and its answers.     *)
LEMMA FailEffect ==
    ASSUME DownInv, NEW d \in Downloaders,
           NEW error \in {"unresolved", "not found", "rpc", "window", "killed", "incomplete",
                          "corrupted"},
           Fail(d, error)
    PROVE  \E s : GoesOn(d, s) /\ s.pc = "failed"
<1> DEFINE s1 == [down[d] EXCEPT !.pc = "failed"]
           s2 == [s1 EXCEPT !.error = error]
           s3 == [s2 EXCEPT !.got = {}]
           s4 == [s3 EXCEPT !.ranges = {}]
           s5 == [s4 EXCEPT !.answers = {}]
<1>1. down \in [Downloaders -> Download] /\ down[d] \in Download
  BY DEF DownInv
<1>2. down' = [down EXCEPT ![d] = s5]
  BY <1>1 DEF Fail
<1>3. s1 \in Download /\ s1.pc = "failed" /\ s1.file = down[d].file
  BY <1>1 DEF Download, Resting
<1> HIDE DEF s1
<1>4. s2 \in Download /\ s2.pc = "failed" /\ s2.file = down[d].file
  BY <1>3 DEF Download
<1> HIDE DEF s2
<1>5. s3 \in Download /\ s3.pc = "failed" /\ s3.file = down[d].file /\ s3.got = {}
  BY <1>4 DEF Download
<1> HIDE DEF s3
<1>6. s4 \in Download /\ s4.pc = "failed" /\ s4.file = down[d].file /\ s4.got = {}
  BY <1>5 DEF Download
<1> HIDE DEF s4
<1>7. /\ s5 \in Download /\ s5.pc = "failed" /\ s5.file = down[d].file /\ s5.got = {}
      /\ s5.answers = {}
  BY <1>6 DEF Download
<1> HIDE DEF s5
<1> QED BY <1>2, <1>7 DEF GoesOn, DownBecomes, DownloadOK, OneEach, MatchOK

(* A download that was asked for begins anew.                               *)
LEMMA StartEffect ==
    ASSUME DownInv, NEW d \in Downloaders, NEW f \in FileIds, NEW entry \in Entries,
           NEW window \in Windows, NEW db \in BOOLEAN,
           StartDownload(d, f, entry, window, db)
    PROVE  \E s : DownBecomes(d, s)
<1> DEFINE s1 == [Fresh(f) EXCEPT !.pc = entry]
           s2 == [s1 EXCEPT !.window = window]
           s3 == [s2 EXCEPT !.db = db]
<1>1. down' = [down EXCEPT ![d] = s3]
  BY DEF StartDownload
<1>2. Fresh(f) \in Download /\ Fresh(f).got = {} /\ Fresh(f).answers = {}
  BY DEF Fresh, Download, WholeChain, Resting
<1>3. s1 \in Download /\ s1.got = {} /\ s1.answers = {} /\ s1.pc \in Entries
  BY <1>2 DEF Download
<1> HIDE DEF s1
<1>4. s2 \in Download /\ s2.got = {} /\ s2.answers = {} /\ s2.pc \in Entries
  BY <1>3 DEF Download
<1> HIDE DEF s2
<1>5. s3 \in Download /\ s3.got = {} /\ s3.answers = {} /\ s3.pc \in Entries
  BY <1>4 DEF Download
<1> HIDE DEF s3
<1> QED BY <1>1, <1>5 DEF DownBecomes, DownloadOK, OneEach, MatchOK, Entries

(* The lookup and the resolution of a transaction change the step only.     *)
LEMMA GoToMetadata ==
    ASSUME DownInv, NEW d \in Downloaders, down' = [down EXCEPT ![d].pc = "metadata"]
    PROVE  \E s : GoesOn(d, s) /\ s.pc = "metadata"
<1> DEFINE s == [down[d] EXCEPT !.pc = "metadata"]
<1>1. down \in [Downloaders -> Download] /\ down[d] \in Download /\ DownloadOK(down[d])
  BY DEF DownInv
<1>2. down' = [down EXCEPT ![d] = s]
  BY <1>1
<1>3. /\ s \in Download /\ s.file = down[d].file /\ s.pc = "metadata"
      /\ s.got = down[d].got /\ s.answers = down[d].answers
  BY <1>1 DEF Download, Entries
<1> HIDE DEF s
<1>4. MatchInv => MatchOK(files, s)
  BY <1>3 DEF MatchInv, MatchOK
<1> QED BY <1>1, <1>2, <1>3, <1>4 DEF GoesOn, DownBecomes, DownloadOK

(* A download that has found its file, or not, has saved nothing.           *)
LEMMA LookupEffect ==
    ASSUME DownInv, NEW d \in Downloaders, Lookup(d) \/ Resolve(d)
    PROVE  \E s : GoesOn(d, s) /\ s.pc # "saved"
<1>1. CASE down' = [down EXCEPT ![d].pc = "metadata"]
  BY <1>1, GoToMetadata
<1>2. CASE Fail(d, "unresolved")
  BY <1>2, FailEffect
<1> QED BY <1>1, <1>2 DEF Lookup, Resolve

(* The metadata of a download are those the contract has of its file.       *)
LEMMA MetadataEffect ==
    ASSUME TypeOK, DownInv, NEW d \in Downloaders, GetMetadata(d)
    PROVE  \E s : GoesOn(d, s)
<1> DEFINE f == down[d].file
           s1 == [down[d] EXCEPT !.pc = "cache"]
           s2 == [s1 EXCEPT !.total = files[f].chunkCount]
<1>1. down \in [Downloaders -> Download] /\ down[d] \in Download /\ DownloadOK(down[d])
  BY DEF DownInv
<1>2. CASE files[f].exists /\ down' = [down EXCEPT ![d].pc = "cache",
                                           ![d].total = files[down[d].file].chunkCount]
  <2>1. down' = [down EXCEPT ![d] = s2]
    BY <1>1, <1>2
  <2>2. f \in FileIds /\ files[f] \in FileMetadata
    BY <1>1 DEF Download, TypeOK
  <2> HIDE DEF f
  <2>3. files[f].chunkCount \in Nat
    <3>1. NoFile.chunkCount \in Nat
      BY DEF NoFile
    <3>2. \A m \in [name: Names \ {EmptyName}, size: Nat \ {0}, chunkCount: Nat \ {0},
                    owner: Accounts, exists: {TRUE}] : m.chunkCount \in Nat
      OBVIOUS
    <3> QED BY <2>2, <3>1, <3>2 DEF FileMetadata
  <2>4. /\ s1 \in Download /\ s1.file = down[d].file /\ s1.pc = "cache"
        /\ s1.got = down[d].got /\ s1.answers = down[d].answers
    BY <1>1 DEF Download
  <2> HIDE DEF s1
  <2>5. /\ s2 \in Download /\ s2.file = down[d].file
        /\ s2.got = down[d].got /\ s2.answers = down[d].answers
        /\ s2.total = files[f].chunkCount
    BY <2>3, <2>4 DEF Download
  <2> HIDE DEF s2
  <2>6. MatchInv => MatchOK(files, s2)
    BY <1>2, <2>5 DEF MatchInv, MatchOK, f
  <2> QED BY <1>1, <2>1, <2>5, <2>6 DEF GoesOn, DownBecomes, DownloadOK
<1>3. CASE Fail(d, "not found")
  BY <1>3, FailEffect
<1>4. CASE Fail(d, "rpc")
  BY <1>4, FailEffect
<1> QED BY <1>2, <1>3, <1>4 DEF GetMetadata

(* The events begin with what the cache has of the file.                    *)
LEMMA CacheEffect ==
    ASSUME DownInv, CacheInv, NEW d \in Downloaders, LoadCache(d)
    PROVE  \E s : GoesOn(d, s)
<1> DEFINE f == down[d].file
           cached == IF down[d].db THEN CachedChunks(f) ELSE {}
           next == IF EnoughCached(cached, down[d].total) THEN "check" ELSE "tip"
           s1 == [down[d] EXCEPT !.got = cached]
           s2 == [s1 EXCEPT !.pc = next]
<1>1. /\ down \in [Downloaders -> Download] /\ down[d] \in Download /\ DownloadOK(down[d])
      /\ down[d].pc = "cache"
  BY DEF DownInv, LoadCache
<1>2. down' = [down EXCEPT ![d] = s2]
  BY <1>1 DEF LoadCache
<1>3. /\ cached \subseteq Chunk /\ OneEach(cached)
      /\ \A c \in cached : \E r \in chunkCache : r.fileId = f /\ r.chunkIndex = c.chunkIndex
  BY CachedAreChunks DEF CacheInv, OneEach
<1>4. next \in {"check", "tip"}
  OBVIOUS
<1> HIDE DEF cached, next, f
<1>5. /\ s1 \in Download /\ s1.file = down[d].file /\ s1.got = cached
      /\ s1.answers = down[d].answers /\ s1.total = down[d].total
  BY <1>1, <1>3 DEF Download
<1> HIDE DEF s1
<1>6. /\ s2 \in Download /\ s2.file = down[d].file /\ s2.got = cached
      /\ s2.answers = down[d].answers /\ s2.total = down[d].total
  BY <1>4, <1>5 DEF Download
<1> HIDE DEF s2
<1>7. MatchInv => MatchOK(files, s2)
  BY <1>1, <1>3, <1>6 DEF MatchInv, MatchOK, f
<1> QED BY <1>1, <1>2, <1>3, <1>6, <1>7 DEF GoesOn, DownBecomes, DownloadOK

(* The ranges of a window are pairs of block numbers.                       *)
LEMMA TipEffect ==
    ASSUME TypeOK, DownInv, NEW d \in Downloaders, GetTip(d)
    PROVE  \E s : GoesOn(d, s)
<1> DEFINE start == down[d].window.from
           end == IF down[d].window.to = Latest THEN Len(chain) ELSE down[d].window.to
           s1 == [down[d] EXCEPT !.pc = "fetch"]
           s2 == [s1 EXCEPT !.ranges = BlockRanges(start, end)]
<1>1. /\ down \in [Downloaders -> Download] /\ down[d] \in Download /\ DownloadOK(down[d])
      /\ down[d].pc = "tip"
  BY DEF DownInv, GetTip
<1>2. CASE down' = [down EXCEPT ![d].pc = "fetch", ![d].ranges = BlockRanges(start, end)]
  <2>1. down' = [down EXCEPT ![d] = s2]
    BY <1>1, <1>2
  <2>2. down[d].window \in [from: Nat, to: Nat \cup {Latest}]
    BY <1>1 DEF Download
  <2>8. Len(chain) \in Nat
    BY DEF TypeOK
  <2>3. start \in Int /\ end \in Int
    BY <2>2, <2>8
  <2> HIDE DEF start, end
  <2>4. BlockRanges(start, end) \in SUBSET (Int \X Int)
    BY <2>3 DEF BlockRanges
  <2>5. /\ s1 \in Download /\ s1.file = down[d].file /\ s1.pc = "fetch"
        /\ s1.got = down[d].got /\ s1.answers = down[d].answers /\ s1.total = down[d].total
    BY <1>1 DEF Download
  <2> HIDE DEF s1
  <2>6. /\ s2 \in Download /\ s2.file = down[d].file /\ s2.pc = "fetch"
        /\ s2.got = down[d].got /\ s2.answers = down[d].answers /\ s2.total = down[d].total
    BY <2>4, <2>5 DEF Download
  <2> HIDE DEF s2
  <2>7. MatchInv => MatchOK(files, s2)
    BY <1>1, <2>6 DEF MatchInv, MatchOK
  <2> QED BY <1>1, <2>1, <2>6, <2>7 DEF GoesOn, DownBecomes, DownloadOK
<1>3. CASE Fail(d, "window")
  BY <1>3, FailEffect
<1>4. CASE Fail(d, "rpc")
  BY <1>4, FailEffect
<1> QED BY <1>2, <1>3, <1>4 DEF GetTip

(* The logs a thread gets are those of one chain, which the contract let in. *)
LEMMA AnswerEffect ==
    ASSUME IInv, DownInv, NEW d \in Downloaders, NEW r \in down[d].ranges,
           RangeAnswered(d, r)
    PROVE  \E s : GoesOn(d, s)
<1> DEFINE f == down[d].file
           answer == [range |-> r, logs |-> LogsIn(f, r)]
           s1 == [down[d] EXCEPT !.ranges = @ \ {r}]
           s2 == [s1 EXCEPT !.answers = @ \cup {answer}]
<1>1. /\ down \in [Downloaders -> Download] /\ down[d] \in Download /\ DownloadOK(down[d])
      /\ down[d].pc = "fetch"
  BY DEF DownInv, RangeAnswered
<1>2. down' = [down EXCEPT ![d] = s2]
  BY <1>1 DEF RangeAnswered
<1>3. f \in FileIds /\ r \in Int \X Int /\ TypeOK
  BY <1>1 DEF Download, IInv
<1>4. LogsIn(f, r) \subseteq Log /\ OneLogEach(LogsIn(f, r))
  BY <1>3, LogsAreLogs
<1>5. \A l \in LogsIn(f, r) : Expected(files, f, l.chunkIndex)
  <2> SUFFICES ASSUME NEW l \in LogsIn(f, r) PROVE Expected(files, f, l.chunkIndex)
    OBVIOUS
  <2>1. /\ l.block \in 1..Len(chain) /\ Uploads(chain, l.block)
        /\ chain[l.block].event.fileId = f
        /\ l.chunkIndex = chain[l.block].event.chunkIndex
    BY <1>3, LogsAreLogs
  <2> QED BY <2>1, LoggedChunksAreExpected DEF Expected
<1>6. answer \in Answer /\ answer.logs = LogsIn(f, r)
  BY <1>3, <1>4 DEF Answer
<1> HIDE DEF answer, f
<1>7. /\ s1 \in Download /\ s1.file = down[d].file /\ s1.pc = down[d].pc
      /\ s1.got = down[d].got /\ s1.answers = down[d].answers /\ s1.total = down[d].total
  BY <1>1 DEF Download
<1> HIDE DEF s1
<1>8. /\ s2 \in Download /\ s2.file = down[d].file /\ s2.pc = down[d].pc
      /\ s2.got = down[d].got /\ s2.answers = down[d].answers \cup {answer}
      /\ s2.total = down[d].total
  BY <1>6, <1>7 DEF Download
<1> HIDE DEF s2
<1>9. MatchInv => MatchOK(files, s2)
  BY <1>1, <1>5, <1>6, <1>8 DEF MatchInv, MatchOK, f
<1> QED BY <1>1, <1>2, <1>4, <1>6, <1>8, <1>9 DEF GoesOn, DownBecomes, DownloadOK

(* Taking a range writes its logs over the events.                          *)
LEMMA TakenEffect ==
    ASSUME DownInv, NEW d \in Downloaders, NEW a \in down[d].answers, RangeTaken(d, a)
    PROVE  \E s : GoesOn(d, s)
<1> DEFINE over == Overwrite(down[d].got, a.logs)
           s1 == [down[d] EXCEPT !.answers = @ \ {a}]
           s2 == [s1 EXCEPT !.got = over]
<1>1. /\ down \in [Downloaders -> Download] /\ down[d] \in Download /\ DownloadOK(down[d])
      /\ down[d].pc = "fetch"
  BY DEF DownInv, RangeTaken
<1>2. down' = [down EXCEPT ![d] = s2]
  BY <1>1 DEF RangeTaken
<1>3. down[d].got \in SUBSET Chunk /\ a \in Answer /\ OneEach(down[d].got)
  BY <1>1 DEF Download, DownloadOK
<1>4. a.logs \in SUBSET Log /\ OneLogEach(a.logs)
  BY <1>1, <1>3 DEF Answer, DownloadOK
<1>5. /\ over \subseteq Chunk /\ OneEach(over)
      /\ \A c \in over : c \in down[d].got \/ \E l \in a.logs : c.chunkIndex = l.chunkIndex
  BY <1>3, <1>4, OverwriteKeepsOneEach
<1> HIDE DEF over
<1>6. /\ s1 \in Download /\ s1.file = down[d].file /\ s1.pc = down[d].pc
      /\ s1.answers = down[d].answers \ {a} /\ s1.total = down[d].total
  BY <1>1 DEF Download
<1> HIDE DEF s1
<1>7. /\ s2 \in Download /\ s2.file = down[d].file /\ s2.pc = down[d].pc /\ s2.got = over
      /\ s2.answers = down[d].answers \ {a} /\ s2.total = down[d].total
  BY <1>5, <1>6 DEF Download
<1> HIDE DEF s2
<1>8. MatchInv => MatchOK(files, s2)
  BY <1>1, <1>5, <1>7 DEF MatchInv, MatchOK
<1> QED BY <1>1, <1>2, <1>5, <1>7, <1>8 DEF GoesOn, DownBecomes, DownloadOK

(* The remaining steps change the step only, or fail.                       *)
LEMMA GoToCheckOrSaved ==
    ASSUME DownInv, NEW d \in Downloaders, NEW pc \in {"check", "saved"},
           down[d].pc \in {"fetch", "check"}, down' = [down EXCEPT ![d].pc = pc]
    PROVE  \E s : GoesOn(d, s)
<1> DEFINE s == [down[d] EXCEPT !.pc = pc]
<1>1. down \in [Downloaders -> Download] /\ down[d] \in Download /\ DownloadOK(down[d])
  BY DEF DownInv
<1>2. down' = [down EXCEPT ![d] = s]
  BY <1>1
<1>3. /\ s \in Download /\ s.file = down[d].file /\ s.total = down[d].total
      /\ s.got = down[d].got /\ s.answers = down[d].answers
  BY <1>1 DEF Download, Resting
<1> HIDE DEF s
<1>4. MatchInv => MatchOK(files, s)
  BY <1>3 DEF MatchInv, MatchOK
<1> QED BY <1>1, <1>2, <1>3, <1>4 DEF GoesOn, DownBecomes, DownloadOK

(* The rest of a download's steps keep its events one for each index.       *)
LEMMA OtherEffects ==
    ASSUME DownInv, NEW d \in Downloaders,
           \/ RangeFails(d) \/ AllTaken(d) \/ Finish(d) \/ KillDownload(d)
           \/ \E a \in down[d].answers : KillInRange(d, a)
    PROVE  \E s : GoesOn(d, s)
<1>1. CASE RangeFails(d)
  BY <1>1, FailEffect DEF RangeFails
<1>2. CASE AllTaken(d)
  BY <1>2, GoToCheckOrSaved DEF AllTaken
<1>3. CASE Finish(d)
  BY <1>3, FailEffect, GoToCheckOrSaved DEF Finish
<1>4. CASE KillDownload(d)
  BY <1>4, FailEffect DEF KillDownload
<1>5. CASE \E a \in down[d].answers : KillInRange(d, a)
  BY <1>5, FailEffect DEF KillInRange
<1> QED BY <1>1, <1>2, <1>3, <1>4, <1>5

(* Every step of a download but its start keeps its file.                   *)
LEMMA StepEffect ==
    ASSUME IInv, DownInv, CacheInv, NEW d \in Downloaders, Progress(d) \/ Die(d)
    PROVE  \E s : GoesOn(d, s)
<1>1. TypeOK
  BY DEF IInv
<1>2. CASE Lookup(d) \/ Resolve(d)
  BY <1>2, LookupEffect
<1>3. CASE GetMetadata(d)
  BY <1>1, <1>3, MetadataEffect
<1>4. CASE LoadCache(d)
  BY <1>4, CacheEffect
<1>5. CASE GetTip(d)
  BY <1>1, <1>5, TipEffect
<1>6. CASE \E r \in down[d].ranges : RangeAnswered(d, r)
  BY <1>6, AnswerEffect
<1>7. CASE \E a \in down[d].answers : RangeTaken(d, a)
  BY <1>7, TakenEffect
<1>8. CASE \/ RangeFails(d) \/ AllTaken(d) \/ Finish(d) \/ KillDownload(d)
           \/ \E a \in down[d].answers : KillInRange(d, a)
  BY <1>8, OtherEffects
<1> QED BY <1>2, <1>3, <1>4, <1>5, <1>6, <1>7, <1>8 DEF Progress, Die

-----------------------------------------------------------------------------
(* The invariant is inductive.                                              *)

LEMMA DownInvSteps ==
    ASSUME DownInv, NEW d \in Downloaders, NEW s, DownBecomes(d, s)
    PROVE  /\ DownInv' /\ down'[d] = s
           /\ \A o \in Downloaders : o # d => down'[o] = down[o]
  BY DEF DownInv, DownBecomes

(* The cache is written by the threads' ranges only, and by the metadata.   *)
LEMMA CacheSteps ==
    ASSUME DownInv, CacheInv, NEW d \in Downloaders, Ask(d) \/ Progress(d) \/ Die(d)
    PROVE  /\ CacheInv'
           /\ MatchInv => \A r \in chunkCache' : Expected(files, r.fileId, r.chunkIndex)
<1>1. down[d] \in Download /\ DownloadOK(down[d]) /\ CacheOK(chunkCache)
  BY DEF DownInv, CacheInv
<1>2. CASE UNCHANGED <<fileCache, chunkCache>>
  BY <1>2 DEF CacheInv, CacheOK, MatchInv
<1>3. CASE GetMetadata(d)
  <2>1. fileCache' = fileCache \/ fileCache' = fileCache \cup {down[d].file}
    BY <1>3 DEF GetMetadata
  <2>2. chunkCache' = chunkCache
    BY <1>3 DEF GetMetadata
  <2> QED BY <1>1, <2>1, <2>2 DEF CacheInv, Download, MatchInv
<1>4. ASSUME NEW a \in down[d].answers, NEW logs \in SUBSET a.logs, Persist(d, logs),
             fileCache' = fileCache
      PROVE  /\ CacheInv'
             /\ MatchInv => \A r \in chunkCache' : Expected(files, r.fileId, r.chunkIndex)
  <2>1. a \in Answer
    BY <1>1 DEF Download
  <2>2. logs \in SUBSET Log /\ OneLogEach(logs)
    BY <1>1, <1>4, <2>1 DEF Answer, DownloadOK, OneLogEach
  <2>3. /\ CacheOK(chunkCache')
        /\ \A r \in chunkCache' :
            r \in chunkCache \/ (r.fileId = down[d].file /\ \E l \in logs :
                                    r.chunkIndex = l.chunkIndex /\ r.data = l.data)
    BY <1>4, <2>2, PersistKeepsCache
  <2>4. MatchInv => \A l \in logs : Expected(files, down[d].file, l.chunkIndex)
    BY <1>4 DEF MatchInv, MatchOK
  <2> QED BY <1>4, <2>3, <2>4 DEF CacheInv, MatchInv
<1>5. CASE \E a \in down[d].answers : RangeTaken(d, a)
  BY <1>4, <1>5 DEF RangeTaken
<1>6. CASE \E a \in down[d].answers : KillInRange(d, a)
  <2>1. PICK a \in down[d].answers : KillInRange(d, a)
    BY <1>6
  <2>3. PICK l \in a.logs : Persist(d, {k \in a.logs : k.block <= l.block})
    BY <2>1 DEF KillInRange
  <2> DEFINE logs == {k \in a.logs : k.block <= l.block}
  <2>2. logs \in SUBSET a.logs /\ Persist(d, logs) /\ fileCache' = fileCache
    BY <2>1, <2>3 DEF KillInRange
  <2> HIDE DEF logs
  <2> QED BY <1>4, <2>2
<1>7. CASE \/ Ask(d) \/ Lookup(d) \/ Resolve(d) \/ LoadCache(d) \/ GetTip(d)
           \/ \E r \in down[d].ranges : RangeAnswered(d, r)
           \/ RangeFails(d) \/ AllTaken(d) \/ Finish(d) \/ KillDownload(d)
  <2>1. UNCHANGED <<fileCache, chunkCache>>
    BY <1>7 DEF Ask, AskFor, StartDownload, Lookup, Resolve, LoadCache, GetTip, RangeAnswered,
                RangeFails, AllTaken, Finish, KillDownload
  <2> QED BY <1>2, <2>1
<1> QED BY <1>3, <1>5, <1>6, <1>7 DEF Progress, Die

(* An output is set by the last step of a download, once the hash of what   *)
(* was reconstructed is verified, and cleared when another begins.          *)
LEMMA OutputSteps ==
    ASSUME IInv, DownInv, CacheInv, OutputInv, NEW d \in Downloaders,
           Ask(d) \/ Progress(d) \/ Die(d)
    PROVE  OutputInv'
<1>1. down[d] \in Download /\ down[d].file \in FileIds /\ DOMAIN output = Downloaders
  BY DEF DownInv, Download, OutputInv
<1>2. CASE Ask(d)
  <2>1. PICK f \in FileIds, entry \in Entries, window \in Windows, db \in BOOLEAN :
            StartDownload(d, f, entry, window, db)
    BY <1>2 DEF Ask, AskFor
  <2>2. output' = [output EXCEPT ![d] = <<>>]
    BY <2>1 DEF StartDownload
  <2>3. \A o \in Downloaders : o # d => down'[o] = down[o]
    BY <2>1, StartEffect, DownInvSteps
  <2>4. output'[d] = <<>> /\ \A o \in Downloaders : o # d => output'[o] = output[o]
    BY <1>1, <2>2
  <2>5. <<>> \in Seq(Bytes)
    OBVIOUS
  <2> QED BY <1>1, <2>2, <2>3, <2>4, <2>5 DEF OutputInv, SavedInv
<1>3. ASSUME Progress(d) \/ Die(d)
      PROVE  \A o \in Downloaders : down'[o].file = down[o].file
  BY <1>3, StepEffect, DownInvSteps DEF GoesOn
<1>4. CASE (Progress(d) \/ Die(d)) /\ output' = output
  BY <1>3, <1>4 DEF OutputInv, SavedInv
<1>5. CASE Finish(d) /\ output' # output
  <2>1. Verified(Reconstruct(down[d].got), down[d].file)
        /\ output' = [output EXCEPT ![d] = Reconstruct(down[d].got)]
    BY <1>5 DEF Finish
  <2>2. /\ output'[d] \in Encodings[down[d].file]
        /\ \A o \in Downloaders : o # d => output'[o] = output[o]
        /\ DOMAIN output' = Downloaders
    BY <1>1, <2>1 DEF Verified
  <2>3. output'[d] \in Seq(Bytes)
    BY <1>1, <2>2
  <2>4. Progress(d)
    BY <1>5 DEF Progress
  <2> QED BY <1>3, <2>2, <2>3, <2>4 DEF OutputInv, SavedInv
<1>6. (Progress(d) \/ Die(d)) /\ output' # output => Finish(d)
  BY DEF Progress, Die, Lookup, Resolve, GetMetadata, LoadCache, GetTip, RangeAnswered,
         RangeTaken, RangeFails, AllTaken, KillDownload, KillInRange
<1> QED BY <1>2, <1>4, <1>5, <1>6

(* The start of a download, the programs' steps and the chain's keep it all. *)
LEMMA InitDownloadInv == DownloadInit => DownloadInv
<1> SUFFICES ASSUME DownloadInit PROVE DownloadInv
  OBVIOUS
<1>1. ChainInv
  BY ChainInvStarts DEF DownloadInit
<1>2. \A f \in FileIds : /\ Fresh(f) \in Download /\ Fresh(f).got = {}
                         /\ Fresh(f).answers = {} /\ Fresh(f).pc = "idle"
  BY DEF Fresh, Download, WholeChain, Resting
<1>3. \A d \in Downloaders : \E f \in FileIds : down[d] = Fresh(f)
  BY DEF DownloadInit
<1>4. DownInv
  BY <1>2, <1>3 DEF DownloadInit, DownInv, DownloadOK, OneEach
<1>5. CacheInv
  BY DEF DownloadInit, CacheInv, CacheOK
<1>6. OutputInv
  BY DEF DownloadInit, OutputInv, SavedInv
<1>7. MatchInv
  BY <1>2, <1>3 DEF DownloadInit, MatchInv, MatchOK
<1> QED BY <1>1, <1>4, <1>5, <1>6, <1>7 DEF DownloadInv, LocalInv

(* A step of a program leaves the chain alone.                              *)
LEMMA ProgramStepKeepsInv ==
    ASSUME DownloadInv, NEW d \in Downloaders, Ask(d) \/ Progress(d) \/ Die(d)
    PROVE  DownloadInv'
<1>1. ChainInv /\ IInv /\ DownInv /\ CacheInv /\ OutputInv
  BY DEF DownloadInv, LocalInv, ChainInv
<1>2. UNCHANGED chainVars
  BY DEF Ask, AskFor, StartDownload, Progress, Die, Lookup, Resolve, GetMetadata, LoadCache, GetTip,
         RangeAnswered, RangeTaken, RangeFails, AllTaken, Finish, KillDownload, KillInRange
<1>3. ChainInv'
  BY <1>1, <1>2, ChainInvSteps
<1>4. PICK s : DownBecomes(d, s)
  BY <1>1, StartEffect, StepEffect DEF Ask, AskFor, GoesOn
<1>5. /\ DownInv' /\ down'[d] = s
      /\ \A o \in Downloaders : o # d => down'[o] = down[o]
  BY <1>1, <1>4, DownInvSteps
<1>6. CacheInv' /\ OutputInv'
  BY <1>1, CacheSteps, OutputSteps
<1>7. MatchInv => MatchInv'
  <2> SUFFICES ASSUME MatchInv PROVE MatchInv'
    OBVIOUS
  <2>1. files' = files
    BY <1>2 DEF chainVars
  <2>2. \A r \in chunkCache' : Expected(files, r.fileId, r.chunkIndex)
    BY <1>1, CacheSteps
  <2>3. \A o \in Downloaders : MatchOK(files, down'[o])
    BY <1>4, <1>5 DEF DownBecomes, MatchInv
  <2> QED BY <2>1, <2>2, <2>3 DEF MatchInv
<1> QED BY <1>3, <1>5, <1>6, <1>7 DEF DownloadInv, LocalInv

(* On a chain that drops nothing, what a file was expected to have stays     *)
(* what its metadata say.                                                   *)
LEMMA ChainStepKeepsInv ==
    ASSUME DownloadInv, [AnyNext]_chainVars, UNCHANGED downVars
    PROVE  DownloadInv'
<1>1. ChainInv /\ LocalInv /\ (MaxReorg = 0 => MatchInv)
  BY DEF DownloadInv
<1>2. ChainInv'
  BY <1>1, ChainInvSteps
<1>3. LocalInv'
  BY <1>1 DEF downVars, LocalInv, DownInv, CacheInv, OutputInv, SavedInv
<1>4. ASSUME MaxReorg = 0 PROVE MatchInv'
  <2>1. \A f \in FileIds : files[f].exists => files'[f] = files[f]
    BY <1>1, <1>4, NothingIsDropped
  <2>2. MatchInv
    BY <1>1, <1>4
  <2>3. chunkCache' = chunkCache /\ down' = down
    BY DEF downVars
  <2>4. /\ \A r \in chunkCache : r.fileId \in FileIds
        /\ \A d \in Downloaders : down[d].file \in FileIds
    BY <1>1 DEF LocalInv, DownInv, CacheInv, CacheOK, CacheRow, Download
  <2>5. \A idx : \A f \in FileIds : Expected(files, f, idx) => Expected(files', f, idx)
    BY <2>1 DEF Expected
  <2>6. \A r \in chunkCache : Expected(files', r.fileId, r.chunkIndex)
    BY <2>2, <2>4, <2>5 DEF MatchInv
  <2>7. ASSUME NEW d \in Downloaders PROVE MatchOK(files', down[d])
    BY <2>1, <2>2, <2>4, <2>5 DEF MatchInv, MatchOK
  <2> QED BY <2>3, <2>6, <2>7 DEF MatchInv
<1> QED BY <1>2, <1>3, <1>4 DEF DownloadInv

(* Every step keeps the inductive invariant.                                *)
LEMMA NextKeepsDownloadInv == DownloadInv /\ [DownloadNext]_downloadVars => DownloadInv'
<1> SUFFICES ASSUME DownloadInv, [DownloadNext]_downloadVars PROVE DownloadInv'
  OBVIOUS
<1>1. CASE Next /\ UNCHANGED downVars
  BY <1>1, NextIsAnyNext, ChainStepKeepsInv
<1>2. CASE \E d \in Downloaders : Ask(d) \/ Progress(d) \/ Die(d)
  BY <1>2, ProgramStepKeepsInv
<1>3. CASE UNCHANGED downloadVars
  BY <1>3, ChainStepKeepsInv DEF downloadVars
<1> QED BY <1>1, <1>2, <1>3 DEF DownloadNext

-----------------------------------------------------------------------------
(* What a download holds, when the chain does not reorganise: chunks that   *)
(* are on the chain, so that what it takes for corrupted is corrupted there. *)

LogAt(ch, b, f, k) ==
    /\ Uploads(ch, b) /\ ch[b].event.fileId = f
    /\ ch[b].event.chunkIndex = k.chunkIndex /\ ch[b].event.data = k.data

Real(ch, f, k) == \E b \in 1..Len(ch) : LogAt(ch, b, f, k)

RealOK(ch, s) ==
    /\ \A c \in s.got : Real(ch, s.file, c)
    /\ \A a \in s.answers : \A l \in a.logs :
            l.block \in 1..Len(ch) /\ LogAt(ch, l.block, s.file, l)

RealRows(ch, rows) == \A r \in rows : Real(ch, r.fileId, r)

CorruptOK(s) == s.error = "corrupted" => files[s.file].exists /\ Spoiled(s.file)

RealInv ==
    /\ RealRows(chain, chunkCache)
    /\ \A d \in Downloaders : RealOK(chain, down[d]) /\ CorruptOK(down[d])

(* A chain that only grows keeps what is on it.                             *)
LEMMA RealGrows ==
    ASSUME NEW c, NEW d, Len(c) \in Nat, Len(d) \in Nat, Len(c) <= Len(d),
           \A b \in 1..Len(c) : d[b] = c[b]
    PROVE  /\ \A f, k : Real(c, f, k) => Real(d, f, k)
           /\ \A s : RealOK(c, s) => RealOK(d, s)
           /\ \A rows : RealRows(c, rows) => RealRows(d, rows)
<1>1. \A b \in 1..Len(c) : b \in 1..Len(d) /\ d[b] = c[b] /\ (Uploads(d, b) <=> Uploads(c, b))
  BY DEF Uploads
<1>2. \A b \in 1..Len(c) : \A f, k : LogAt(c, b, f, k) => LogAt(d, b, f, k)
  BY <1>1 DEF LogAt
<1>3. \A f, k : Real(c, f, k) => Real(d, f, k)
  BY <1>1, <1>2 DEF Real
<1>4. \A s : RealOK(c, s) => RealOK(d, s)
  BY <1>1, <1>2, <1>3 DEF RealOK
<1> QED BY <1>3, <1>4 DEF RealRows

(* And so does what is wrong with a file on it.                             *)
LEMMA SpoiledStays ==
    ASSUME TypeOK, TypeOK', Len(chain) <= Len(chain'),
           \A b \in 1..Len(chain) : chain'[b] = chain[b],
           NEW f \in FileIds, files'[f] = files[f], Spoiled(f)
    PROVE  Spoiled(f)'
<1>1. /\ DOMAIN chain = 1..Len(chain) /\ DOMAIN chain' = 1..Len(chain')
      /\ Len(chain) \in Nat /\ Len(chain') \in Nat
  BY DEF TypeOK
<1>2. \A b \in DOMAIN chain : /\ b \in DOMAIN chain' /\ chain'[b] = chain[b]
                              /\ Uploads(chain', b) <=> Uploads(chain, b)
  BY <1>1 DEF Uploads
<1>3. ASSUME NEW idx PROVE Copies(f, idx) \subseteq Copies(f, idx)'
  BY <1>2 DEF Copies
<1>4. PICK pick \in [1..files[f].chunkCount -> Payloads] :
        /\ \A i \in DOMAIN pick : pick[i] \in Copies(f, i - 1)
        /\ FlattenSeq(pick) \notin Encodings[f]
  BY DEF Spoiled
<1>5. \A i \in DOMAIN pick : pick[i] \in Copies(f, i - 1)'
  BY <1>3, <1>4
<1> QED BY <1>4, <1>5 DEF Spoiled

(* Chunks with the indices 0 to n - 1 have one order.                       *)
LEMMA OrderOfSlices ==
    ASSUME NEW n \in Nat, NEW D
    PROVE  LET Slice(i) == [chunkIndex |-> i - 1, data |-> D[i]]
           IN  InOrder({Slice(i) : i \in 1..n}) = [i \in 1..n |-> Slice(i)]
<1> DEFINE Slice(i) == [chunkIndex |-> i - 1, data |-> D[i]]
           S == {Slice(i) : i \in 1..n}
           w == [i \in 1..n |-> Slice(i)]
           Sorted(s) == \A i, j \in DOMAIN s : i < j => s[i].chunkIndex < s[j].chunkIndex
<1>1. \A i, j \in 1..n : Slice(i) = Slice(j) => i = j
  <2> SUFFICES ASSUME NEW i \in 1..n, NEW j \in 1..n, Slice(i) = Slice(j) PROVE i = j
    OBVIOUS
  <2>1. Slice(i).chunkIndex = Slice(j).chunkIndex
    OBVIOUS
  <2> QED BY <2>1
<1>2. w \in Bijection(1..n, S)
  BY <1>1 DEF Bijection, Injection, Surjection, IsInjective
<1>3. IsFiniteSet(S) /\ Cardinality(S) = n
  BY <1>2, FS_Interval, FS_Bijection DEF ExistsBijection
<1>4. w \in [1..n -> S] /\ Sorted(w)
  <2>1. \A i \in 1..n : Slice(i) \in S /\ Slice(i).chunkIndex = i - 1
    OBVIOUS
  <2> HIDE DEF S, Slice
  <2>2. w \in [1..n -> S] /\ DOMAIN w = 1..n
    BY <2>1
  <2>3. \A i \in 1..n : w[i].chunkIndex = i - 1
    BY <2>1
  <2> HIDE DEF w
  <2> QED BY <2>2, <2>3
<1> DEFINE s == InOrder(S)
<1>5. s \in [1..n -> S] /\ Sorted(s)
  <2> HIDE DEF S, w
  <2>1. \E t \in [1..Cardinality(S) -> S] : Sorted(t)
    BY <1>3, <1>4
  <2> QED BY <1>3, <2>1 DEF InOrder
<1>6. \A c \in S : /\ c.chunkIndex \in 0..(n - 1)
                   /\ c = Slice(c.chunkIndex + 1)
  OBVIOUS
<1> HIDE DEF s, S, Slice, w
<1>7. \A i \in 1..n : s[i] \in S /\ s[i].chunkIndex \in 0..(n - 1)
  BY <1>5, <1>6
<1>8. \A i, j \in 1..n : i < j => s[i].chunkIndex < s[j].chunkIndex
  BY <1>5
<1> DEFINE index == [i \in 1..n |-> s[i].chunkIndex]
<1>9. \A i \in 1..n : index[i] = i - 1
  <2>1. index \in [1..n -> 0..(n - 1)] /\ \A i, j \in 1..n : i < j => index[i] < index[j]
    BY <1>7, <1>8
  <2> HIDE DEF index
  <2> QED BY <2>1, RisingIsCounting
<1>10. \A i \in 1..n : s[i].chunkIndex = i - 1
  BY <1>9
<1>11. \A i \in 1..n : s[i] = Slice(i)
  <2> SUFFICES ASSUME NEW i \in 1..n PROVE s[i] = Slice(i)
    OBVIOUS
  <2>1. s[i].chunkIndex = i - 1
    BY <1>10
  <2>2. (i - 1) + 1 = i
    OBVIOUS
  <2> QED BY <1>6, <1>7, <2>1, <2>2
<1>12. s = [i \in 1..n |-> Slice(i)]
  BY <1>5, <1>11
<1> QED BY <1>12 DEF s, S, Slice

(* validate_chunks() accepts the chunks of all indices and no others.       *)
LEMMA ValidatedIsAll ==
    ASSUME NEW got \in SUBSET Chunk, NEW total \in Nat, \A c \in got : c.chunkIndex < total
    PROVE  Validated(got, total) <=> \A idx \in 0..(total - 1) : \E c \in got : c.chunkIndex = idx
<1> DEFINE S == 0..(total - 1)
           T == {c.chunkIndex : c \in got}
<1>1. IsFiniteSet(S) /\ Cardinality(S) = total
  BY FS_Interval
<1>2. T \in SUBSET S
  BY DEF Chunk
<1>3. (\A idx \in S : \E c \in got : c.chunkIndex = idx) <=> T = S
  BY <1>2
<1> HIDE DEF T
<1>4. Cardinality(T) = total => T = S
  BY <1>1, <1>2, FS_Subset
<1> QED BY <1>1, <1>3, <1>4 DEF Validated, T

(* The chunks of all indices, one for each, are joined by their indices.    *)
LEMMA FullIsJoined ==
    ASSUME NEW n \in Nat, NEW got \in SUBSET Chunk, OneEach(got),
           \A c \in got : c.chunkIndex < n,
           \A idx \in 0..(n - 1) : \E c \in got : c.chunkIndex = idx
    PROVE  \E D \in [1..n -> Payloads] :
            /\ \A i \in 1..n : [chunkIndex |-> i - 1, data |-> D[i]] \in got
            /\ Reconstruct(got) = FlattenSeq(D)
<1> DEFINE of(i) == CHOOSE c \in got : c.chunkIndex = i - 1
           D == [i \in 1..n |-> of(i).data]
           Slice(i) == [chunkIndex |-> i - 1, data |-> D[i]]
           w == [i \in 1..n |-> Slice(i)]
<1>1. \A i \in 1..n : of(i) \in got /\ of(i).chunkIndex = i - 1
  <2> SUFFICES ASSUME NEW i \in 1..n PROVE of(i) \in got /\ of(i).chunkIndex = i - 1
    OBVIOUS
  <2>1. i - 1 \in 0..(n - 1)
    OBVIOUS
  <2>2. \E c \in got : c.chunkIndex = i - 1
    BY <2>1
  <2> QED BY <2>2
<1>2. \A c \in got : /\ c.chunkIndex \in Nat /\ c.data \in Payloads
                     /\ c = [chunkIndex |-> c.chunkIndex, data |-> c.data]
  BY DEF Chunk
<1> HIDE DEF of
<1>3. D \in [1..n -> Payloads] /\ \A i \in 1..n : D[i] = of(i).data
  BY <1>1, <1>2
<1> HIDE DEF D
<1>4. \A i \in 1..n : Slice(i) = of(i)
  BY <1>1, <1>2, <1>3
<1>5. \A c \in got : \E i \in 1..n : c = Slice(i)
  <2> SUFFICES ASSUME NEW c \in got PROVE \E i \in 1..n : c = Slice(i)
    OBVIOUS
  <2> DEFINE i == c.chunkIndex + 1
  <2>1. i \in 1..n /\ i - 1 = c.chunkIndex
    BY <1>2
  <2> HIDE DEF i
  <2>2. c = of(i)
    BY <1>1, <2>1 DEF OneEach
  <2> QED BY <1>4, <2>1, <2>2
<1>6. got = {Slice(i) : i \in 1..n}
  <2>1. \A i \in 1..n : Slice(i) \in got
    BY <1>1, <1>4
  <2> HIDE DEF Slice
  <2> QED BY <1>5, <2>1
<1>7. InOrder(got) = w
  BY <1>6, OrderOfSlices
<1>8. DOMAIN w = 1..n /\ \A i \in 1..n : w[i].data = D[i]
  OBVIOUS
<1>9. [i \in DOMAIN w |-> w[i].data] = D
  <2> HIDE DEF w
  <2> QED BY <1>3, <1>8
<1>10. Reconstruct(got) = FlattenSeq(D)
  <2> HIDE DEF w
  <2> QED BY <1>7, <1>9 DEF Reconstruct
<1> QED BY <1>1, <1>3, <1>4, <1>10

(* What passes validate_chunks() and fails verify_hash() are copies of all  *)
(* chunks of the file that are on the chain and do not make its content.    *)
LEMMA CorruptedIsOnChain ==
    ASSUME TypeOK, NEW s \in Download, OneEach(s.got), s.pc = "check", MatchOK(files, s),
           RealOK(chain, s), Validated(s.got, s.total), ~Verified(Reconstruct(s.got), s.file)
    PROVE  files[s.file].exists /\ Spoiled(s.file)
<1> DEFINE f == s.file
           n == s.total
           got == s.got
<1>1. /\ n \in Nat /\ got \in SUBSET Chunk /\ files[f].exists /\ n = files[f].chunkCount
      /\ \A c \in got : c.chunkIndex < n
  BY DEF Download, MatchOK, Expected
<1>2. \A idx \in 0..(n - 1) : \E c \in got : c.chunkIndex = idx
  <2> HIDE DEF n, got
  <2>1. Validated(got, n)
    BY DEF n, got
  <2> QED BY <1>1, <2>1, ValidatedIsAll
<1>3. PICK D \in [1..n -> Payloads] :
        /\ \A i \in 1..n : [chunkIndex |-> i - 1, data |-> D[i]] \in got
        /\ Reconstruct(got) = FlattenSeq(D)
  <2>1. OneEach(got)
    OBVIOUS
  <2> HIDE DEF n, got
  <2> QED BY <1>1, <1>2, <2>1, FullIsJoined
<1>4. ASSUME NEW i \in 1..n PROVE D[i] \in Copies(f, i - 1)
  <2>1. Real(chain, f, [chunkIndex |-> i - 1, data |-> D[i]])
    BY <1>3 DEF RealOK
  <2>2. PICK b \in 1..Len(chain) : /\ Uploads(chain, b) /\ chain[b].event.fileId = f
                                   /\ chain[b].event.chunkIndex = i - 1
                                   /\ chain[b].event.data = D[i]
    BY <2>1 DEF Real, LogAt
  <2>3. b \in DOMAIN chain
    BY DEF TypeOK
  <2> QED BY <2>2, <2>3 DEF Copies
<1>5. FlattenSeq(D) \notin Encodings[f]
  BY <1>3 DEF Verified
<1>6. D \in [1..files[f].chunkCount -> Payloads] /\ DOMAIN D = 1..n
  BY <1>1
<1>7. Spoiled(f)
  BY <1>4, <1>5, <1>6 DEF Spoiled
<1> QED BY <1>1, <1>7

(* What a step writes to the cache is on the chain.                         *)
LEMMA StepKeepsRows ==
    ASSUME DownInv, CacheInv, RealRows(chain, chunkCache), NEW d \in Downloaders,
           RealOK(chain, down[d]), Ask(d) \/ Progress(d) \/ Die(d)
    PROVE  RealRows(chain, chunkCache')
<1>1. down[d] \in Download /\ DownloadOK(down[d])
  BY DEF DownInv
<1>2. ASSUME NEW a \in down[d].answers, NEW logs \in SUBSET a.logs, Persist(d, logs)
      PROVE  RealRows(chain, chunkCache')
  <2>1. a \in Answer /\ OneLogEach(a.logs)
    BY <1>1 DEF Download, DownloadOK
  <2>2. logs \in SUBSET Log /\ OneLogEach(logs)
    BY <2>1 DEF Answer, OneLogEach
  <2>3. \A r \in chunkCache' :
            r \in chunkCache \/ (r.fileId = down[d].file /\ \E l \in logs :
                                    r.chunkIndex = l.chunkIndex /\ r.data = l.data)
    BY <1>2, <2>2, PersistKeepsCache
  <2>4. \A l \in logs : l.block \in 1..Len(chain) /\ LogAt(chain, l.block, down[d].file, l)
    BY DEF RealOK
  <2>5. ASSUME NEW r \in chunkCache' PROVE Real(chain, r.fileId, r)
    <3>1. CASE r \in chunkCache
      BY <3>1 DEF RealRows
    <3>2. CASE r \notin chunkCache
      <4>1. PICK l \in logs : r.chunkIndex = l.chunkIndex /\ r.data = l.data
        BY <2>3, <3>2
      <4>2. r.fileId = down[d].file
        BY <2>3, <3>2
      <4> QED BY <2>4, <4>1, <4>2 DEF Real, LogAt
    <3> QED BY <3>1, <3>2
  <2> QED BY <2>5 DEF RealRows
<1>3. CASE \E a \in down[d].answers : RangeTaken(d, a) \/ KillInRange(d, a)
  <2>1. PICK a \in down[d].answers : RangeTaken(d, a) \/ KillInRange(d, a)
    BY <1>3
  <2>2. CASE RangeTaken(d, a)
    BY <1>2, <2>2 DEF RangeTaken
  <2>3. CASE KillInRange(d, a)
    <3>1. PICK l \in a.logs : Persist(d, {k \in a.logs : k.block <= l.block})
      BY <2>3 DEF KillInRange
    <3> DEFINE logs == {k \in a.logs : k.block <= l.block}
    <3>2. logs \in SUBSET a.logs /\ Persist(d, logs)
      BY <3>1
    <3> HIDE DEF logs
    <3> QED BY <1>2, <3>2
  <2> QED BY <2>1, <2>2, <2>3
<1>4. CASE ~\E a \in down[d].answers : RangeTaken(d, a) \/ KillInRange(d, a)
  <2>1. chunkCache' = chunkCache
    BY <1>4 DEF Ask, AskFor, StartDownload, Progress, Die, Lookup, Resolve, GetMetadata,
                LoadCache, GetTip, RangeAnswered, RangeFails, AllTaken, Finish, KillDownload
  <2> QED BY <2>1
<1> QED BY <1>3, <1>4

(* What a step makes of a download holds real chunks only, and is called    *)
(* corrupted with a reason only.                                            *)
StaysReal(s) == RealOK(chain, s) /\ CorruptOK(s)

(* A download that fails for another reason.                                *)
LEMMA FailStaysReal ==
    ASSUME DownInv, NEW d \in Downloaders, NEW error, error # "corrupted", Fail(d, error)
    PROVE  StaysReal(down'[d])
<1>1. down \in [Downloaders -> Download] /\ down[d] \in Download
  BY DEF DownInv
<1>2. down'[d].got = {} /\ down'[d].answers = {} /\ down'[d].error = error
  BY <1>1 DEF Fail, Download
<1> QED BY <1>2 DEF StaysReal, RealOK, CorruptOK

(* A download that goes on with what it has.                                *)
LEMMA SameStaysReal ==
    ASSUME NEW s, NEW t, StaysReal(s), t.file = s.file, t.got = s.got, t.answers = s.answers,
           t.error = s.error
    PROVE  StaysReal(t)
  BY DEF StaysReal, RealOK, CorruptOK

(* A download that loads its chunks from the cache.                         *)
LEMMA CacheStaysReal ==
    ASSUME DownInv, CacheInv, RealRows(chain, chunkCache), NEW d \in Downloaders,
           StaysReal(down[d]), LoadCache(d)
    PROVE  StaysReal(down'[d])
<1> DEFINE f == down[d].file
           cached == IF down[d].db THEN CachedChunks(f) ELSE {}
<1>1. down \in [Downloaders -> Download] /\ down[d] \in Download
  BY DEF DownInv
<1>2. /\ down'[d].got = cached /\ down'[d].answers = down[d].answers
      /\ down'[d].file = f /\ down'[d].error = down[d].error
  BY <1>1 DEF LoadCache, Download
<1>3. \A c \in cached : \E r \in chunkCache :
            r.fileId = f /\ r.chunkIndex = c.chunkIndex /\ r.data = c.data
  BY CachedAreChunks DEF CacheInv
<1> HIDE DEF cached
<1>4. \A c \in cached : Real(chain, f, c)
  BY <1>3 DEF RealRows, Real, LogAt
<1> QED BY <1>2, <1>4 DEF StaysReal, RealOK, CorruptOK

(* A download that gets the logs of a range.                                *)
LEMMA AnswerStaysReal ==
    ASSUME TypeOK, DownInv, NEW d \in Downloaders, StaysReal(down[d]),
           NEW r \in down[d].ranges, RangeAnswered(d, r)
    PROVE  StaysReal(down'[d])
<1> DEFINE f == down[d].file
           answer == [range |-> r, logs |-> LogsIn(f, r)]
<1>1. down \in [Downloaders -> Download] /\ down[d] \in Download
  BY DEF DownInv
<1>2. /\ down'[d].answers = down[d].answers \cup {answer}
      /\ down'[d].got = down[d].got /\ down'[d].file = f /\ down'[d].error = down[d].error
  BY <1>1 DEF RangeAnswered, Download
<1>3. f \in FileIds /\ r \in Int \X Int
  BY <1>1 DEF Download
<1>4. \A l \in LogsIn(f, r) : l.block \in 1..Len(chain) /\ LogAt(chain, l.block, f, l)
  BY <1>3, LogsAreLogs DEF LogAt
<1> QED BY <1>2, <1>4 DEF StaysReal, RealOK, CorruptOK

(* A download that takes the chunks of a range.                             *)
LEMMA TakenStaysReal ==
    ASSUME DownInv, NEW d \in Downloaders, StaysReal(down[d]),
           NEW a \in down[d].answers, RangeTaken(d, a)
    PROVE  StaysReal(down'[d])
<1> DEFINE over == Overwrite(down[d].got, a.logs)
           f == down[d].file
<1>1. /\ down \in [Downloaders -> Download] /\ down[d] \in Download /\ DownloadOK(down[d])
  BY DEF DownInv
<1>2. /\ down'[d].answers = down[d].answers \ {a} /\ down'[d].got = over
      /\ down'[d].file = f /\ down'[d].error = down[d].error
  BY <1>1 DEF RangeTaken, Download
<1>3. down[d].got \in SUBSET Chunk /\ a \in Answer /\ OneEach(down[d].got)
  BY <1>1 DEF Download, DownloadOK
<1>4. a.logs \in SUBSET Log /\ OneLogEach(a.logs)
  BY <1>1, <1>3 DEF Answer, DownloadOK
<1>5. \A c \in over : c \in down[d].got \/
            \E l \in a.logs : c.chunkIndex = l.chunkIndex /\ c.data = l.data
  BY <1>3, <1>4, OverwriteKeepsOneEach
<1>6. \A l \in a.logs : l.block \in 1..Len(chain) /\ LogAt(chain, l.block, f, l)
  BY DEF StaysReal, RealOK
<1> HIDE DEF over
<1>7. \A c \in over : Real(chain, f, c)
  BY <1>5, <1>6 DEF StaysReal, RealOK, Real, LogAt
<1> QED BY <1>2, <1>7 DEF StaysReal, RealOK, CorruptOK

(* A download that ends with all its checks made.                           *)
LEMMA FinishStaysReal ==
    ASSUME TypeOK, DownInv, MatchInv, NEW d \in Downloaders, StaysReal(down[d]), Finish(d)
    PROVE  StaysReal(down'[d])
<1>1. /\ down \in [Downloaders -> Download] /\ down[d] \in Download /\ DownloadOK(down[d])
      /\ down[d].pc = "check" /\ MatchOK(files, down[d])
  BY DEF DownInv, Finish, MatchInv
<1>2. CASE Fail(d, "incomplete")
  BY <1>2, FailStaysReal
<1>3. CASE /\ Validated(down[d].got, down[d].total)
           /\ ~Verified(Reconstruct(down[d].got), down[d].file)
           /\ Fail(d, "corrupted")
  <2>1. files[down[d].file].exists /\ Spoiled(down[d].file)
    BY <1>1, <1>3, CorruptedIsOnChain DEF StaysReal, DownloadOK
  <2>2. down'[d].got = {} /\ down'[d].answers = {} /\ down'[d].file = down[d].file
    BY <1>1, <1>3 DEF Fail, Download
  <2> QED BY <2>1, <2>2 DEF StaysReal, RealOK, CorruptOK
<1>4. CASE down' = [down EXCEPT ![d].pc = "saved"]
  <2>1. /\ down'[d].file = down[d].file /\ down'[d].got = down[d].got
        /\ down'[d].answers = down[d].answers /\ down'[d].error = down[d].error
    BY <1>1, <1>4 DEF Download
  <2> QED BY <2>1, SameStaysReal
<1> QED BY <1>2, <1>3, <1>4 DEF Finish

(* Every step of a download.                                                *)
LEMMA StepStaysReal ==
    ASSUME TypeOK, DownInv, CacheInv, MatchInv, RealRows(chain, chunkCache),
           NEW d \in Downloaders, StaysReal(down[d]), Ask(d) \/ Progress(d) \/ Die(d)
    PROVE  StaysReal(down'[d])
<1>1. down \in [Downloaders -> Download] /\ down[d] \in Download
  BY DEF DownInv
<1>2. CASE Ask(d)
  <2>1. PICK f \in FileIds, entry \in Entries, window \in Windows, db \in BOOLEAN :
            StartDownload(d, f, entry, window, db)
    BY <1>2 DEF Ask, AskFor
  <2>2. down'[d].got = {} /\ down'[d].answers = {} /\ down'[d].error = "none"
    BY <1>1, <2>1 DEF StartDownload, Fresh
  <2> QED BY <2>2 DEF StaysReal, RealOK, CorruptOK
<1>3. CASE \/ Fail(d, "unresolved") \/ Fail(d, "not found") \/ Fail(d, "rpc")
           \/ Fail(d, "window") \/ Fail(d, "killed")
  BY <1>3, FailStaysReal
<1>4. ASSUME \/ \E pc : down' = [down EXCEPT ![d].pc = pc]
             \/ \E total : down' = [down EXCEPT ![d].pc = "cache", ![d].total = total]
             \/ \E ranges : down' = [down EXCEPT ![d].pc = "fetch", ![d].ranges = ranges]
      PROVE  StaysReal(down'[d])
  <2>1. ASSUME NEW pc, down' = [down EXCEPT ![d].pc = pc]
        PROVE  StaysReal(down'[d])
    <3>1. /\ down'[d].file = down[d].file /\ down'[d].got = down[d].got
          /\ down'[d].answers = down[d].answers /\ down'[d].error = down[d].error
      BY <1>1, <2>1 DEF Download
    <3> QED BY <3>1, SameStaysReal
  <2>2. ASSUME NEW total, down' = [down EXCEPT ![d].pc = "cache", ![d].total = total]
        PROVE  StaysReal(down'[d])
    <3>1. /\ down'[d].file = down[d].file /\ down'[d].got = down[d].got
          /\ down'[d].answers = down[d].answers /\ down'[d].error = down[d].error
      BY <1>1, <2>2 DEF Download
    <3> QED BY <3>1, SameStaysReal
  <2>3. ASSUME NEW ranges, down' = [down EXCEPT ![d].pc = "fetch", ![d].ranges = ranges]
        PROVE  StaysReal(down'[d])
    <3>1. /\ down'[d].file = down[d].file /\ down'[d].got = down[d].got
          /\ down'[d].answers = down[d].answers /\ down'[d].error = down[d].error
      BY <1>1, <2>3 DEF Download
    <3> QED BY <3>1, SameStaysReal
  <2> QED BY <1>4, <2>1, <2>2, <2>3
<1>5. CASE Lookup(d) \/ Resolve(d) \/ GetMetadata(d) \/ GetTip(d) \/ AllTaken(d)
  BY <1>3, <1>4, <1>5 DEF Lookup, Resolve, GetMetadata, GetTip, AllTaken
<1>6. CASE RangeFails(d) \/ Die(d)
  BY <1>3, <1>6 DEF RangeFails, Die, KillDownload, KillInRange
<1>7. CASE LoadCache(d)
  BY <1>7, CacheStaysReal
<1>8. CASE \E r \in down[d].ranges : RangeAnswered(d, r)
  BY <1>8, AnswerStaysReal
<1>9. CASE \E a \in down[d].answers : RangeTaken(d, a)
  BY <1>9, TakenStaysReal
<1>10. CASE Finish(d)
  BY <1>10, FinishStaysReal
<1> QED BY <1>2, <1>5, <1>6, <1>7, <1>8, <1>9, <1>10 DEF Progress

(* A step of a program keeps the chunks real, and that of one download      *)
(* leaves the others as they were.                                          *)
LEMMA ProgramStepKeepsReal ==
    ASSUME MaxReorg = 0, DownloadInv, RealInv, NEW d \in Downloaders,
           Ask(d) \/ Progress(d) \/ Die(d)
    PROVE  RealInv'
<1>1. TypeOK /\ IInv /\ DownInv /\ CacheInv /\ MatchInv
  BY DEF DownloadInv, LocalInv, ChainInv, IInv
<1>2. chain' = chain /\ files' = files
  BY DEF Ask, AskFor, StartDownload, Progress, Die, Lookup, Resolve, GetMetadata, LoadCache,
         GetTip, RangeAnswered, RangeTaken, RangeFails, AllTaken, Finish, KillDownload,
         KillInRange, chainVars
<1>3. PICK s : DownBecomes(d, s)
  BY <1>1, StartEffect, StepEffect DEF Ask, AskFor, GoesOn
<1>4. \A o \in Downloaders : o # d => down'[o] = down[o]
  BY <1>1, <1>3, DownInvSteps
<1>5. RealRows(chain, chunkCache) /\ \A o \in Downloaders : StaysReal(down[o])
  BY DEF RealInv, StaysReal
<1>6. StaysReal(down'[d])
  BY <1>1, <1>5, StepStaysReal
<1>7. RealRows(chain, chunkCache')
  BY <1>1, <1>5, StepKeepsRows DEF StaysReal
<1>8. \A o \in Downloaders : StaysReal(down'[o])
  BY <1>4, <1>5, <1>6
<1>9. ASSUME NEW f, Spoiled(f) PROVE Spoiled(f)'
  <2>1. \A idx : Copies(f, idx)' = Copies(f, idx)
    BY <1>2 DEF Copies, Uploads
  <2> QED BY <1>2, <1>9, <2>1 DEF Spoiled
<1>10. ASSUME NEW o \in Downloaders PROVE (RealOK(chain, down[o]) /\ CorruptOK(down[o]))'
  <2>1. RealOK(chain, down'[o]) /\ CorruptOK(down'[o])
    BY <1>8 DEF StaysReal
  <2>2. RealOK(chain', down'[o])
    BY <1>2, <2>1
  <2>3. down'[o].error = "corrupted" => files'[down'[o].file].exists /\ Spoiled(down'[o].file)
    BY <1>2, <2>1 DEF CorruptOK
  <2>4. CorruptOK(down[o])'
    BY <1>9, <2>3 DEF CorruptOK
  <2> QED BY <2>2, <2>4
<1>11. RealRows(chain', chunkCache')
  BY <1>2, <1>7
<1> QED BY <1>10, <1>11 DEF RealInv

(* A chain that drops nothing keeps them real.                              *)
LEMMA ChainStepKeepsReal ==
    ASSUME MaxReorg = 0, DownloadInv, RealInv, [AnyNext]_chainVars, UNCHANGED downVars
    PROVE  RealInv'
<1>1. ChainInv /\ ChainInv' /\ TypeOK /\ TypeOK' /\ DownInv
  BY ChainInvSteps DEF DownloadInv, LocalInv, ChainInv, IInv
<1>2. /\ Len(chain) \in Nat /\ Len(chain') \in Nat /\ Len(chain) <= Len(chain')
      /\ \A b \in 1..Len(chain) : chain'[b] = chain[b]
      /\ \A f \in FileIds : files[f].exists => files'[f] = files[f]
  BY <1>1, NothingIsDropped
<1>3. down' = down /\ chunkCache' = chunkCache
  BY DEF downVars
<1>4. RealRows(chain', chunkCache')
  <2>1. RealRows(chain, chunkCache)
    BY DEF RealInv
  <2> QED BY <1>2, <1>3, <2>1, RealGrows
<1>5. ASSUME NEW d \in Downloaders PROVE (RealOK(chain, down[d]) /\ CorruptOK(down[d]))'
  <2>1. RealOK(chain, down[d]) /\ CorruptOK(down[d]) /\ down[d].file \in FileIds
    BY <1>1 DEF RealInv, DownInv, Download
  <2>2. RealOK(chain', down'[d])
    BY <1>2, <1>3, <2>1, RealGrows
  <2>3. CASE down[d].error = "corrupted"
    <3>1. files[down[d].file].exists /\ Spoiled(down[d].file)
      BY <2>1, <2>3 DEF CorruptOK
    <3>2. files'[down[d].file] = files[down[d].file]
      BY <1>2, <2>1, <3>1
    <3>3. files'[down'[d].file].exists
      BY <1>3, <3>1, <3>2
    <3>4. Spoiled(down[d].file)'
      BY <1>1, <1>2, <1>3, <2>1, <3>1, <3>2, SpoiledStays
    <3> QED BY <2>2, <3>3, <3>4 DEF CorruptOK
  <2>4. CASE down[d].error # "corrupted"
    BY <1>3, <2>2, <2>4 DEF CorruptOK
  <2> QED BY <2>3, <2>4
<1> QED BY <1>4, <1>5 DEF RealInv

(* Every step keeps the chunks real.                                        *)
LEMMA NextKeepsRealInv ==
    ASSUME MaxReorg = 0
    PROVE  DownloadInv /\ RealInv /\ [DownloadNext]_downloadVars => RealInv'
<1> SUFFICES ASSUME DownloadInv, RealInv, [DownloadNext]_downloadVars PROVE RealInv'
  OBVIOUS
<1>1. CASE Next /\ UNCHANGED downVars
  BY <1>1, NextIsAnyNext, ChainStepKeepsReal
<1>2. CASE \E d \in Downloaders : Ask(d) \/ Progress(d) \/ Die(d)
  BY <1>2, ProgramStepKeepsReal
<1>3. CASE UNCHANGED downloadVars
  BY <1>3, ChainStepKeepsReal DEF downloadVars
<1> QED BY <1>1, <1>2, <1>3 DEF DownloadNext

-----------------------------------------------------------------------------
(* The inductive invariant holds in every reachable state, with downloads   *)
(* that share the cache and a chain that may reorganise under them.         *)
THEOREM DownloadInvariant == DownloadSpec => []DownloadInv
<1>1. DownloadInit => DownloadInv
  BY InitDownloadInv
<1>2. DownloadInv /\ [DownloadNext]_downloadVars => DownloadInv'
  BY NextKeepsDownloadInv
<1> QED BY <1>1, <1>2, PTL DEF DownloadSpec

(* The variables have their types, and neither the events of a download nor *)
(* the cache ever has two chunks for an index, whoever writes to it.        *)
THEOREM DownloadTypeCorrect == DownloadSpec => []DownloadTypeOK
<1>1. DownloadInv => DownloadTypeOK
  <2> SUFFICES ASSUME DownloadInv PROVE DownloadTypeOK
    OBVIOUS
  <2>1. TypeOK /\ DownInv /\ CacheInv /\ OutputInv
    BY DEF DownloadInv, LocalInv, ChainInv, IInv
  <2>2. \A d \in Downloaders :
            /\ down[d].file \in FileIds
            /\ down[d].total \in Nat
            /\ down[d].got \subseteq Chunk
            /\ down[d].pc \in Resting \cup Entries \cup {"cache", "tip", "fetch", "check"}
    BY <2>1 DEF DownInv, Download
  <2>3. \A d \in Downloaders : OneEach(down[d].got) /\ output[d] \in Seq(Bytes)
    BY <2>1 DEF DownInv, DownloadOK, OutputInv, SavedInv
  <2> QED BY <2>1, <2>2, <2>3 DEF DownloadTypeOK, CacheInv, CacheOK, CacheRow, OneEach
<1> QED BY <1>1, DownloadInvariant, PTL

(* On a chain that does not reorganise, counting the indices is enough: as  *)
(* many chunks as the metadata announce are the chunks 0 to total - 1.      *)
THEOREM CountingIsEnough ==
    ASSUME MaxReorg = 0 PROVE DownloadSpec => []ValidatedAreAll
<1>1. DownloadInv => ValidatedAreAll
  <2> SUFFICES ASSUME DownloadInv, NEW d \in Downloaders, down[d].pc = "check",
                      Validated(down[d].got, down[d].total)
               PROVE  {c.chunkIndex : c \in down[d].got} = 0..(down[d].total - 1)
    BY DEF ValidatedAreAll
  <2> DEFINE indices == {c.chunkIndex : c \in down[d].got}
             total == down[d].total
  <2>1. down[d] \in Download /\ MatchOK(files, down[d])
    BY DEF DownloadInv, LocalInv, DownInv, MatchInv
  <2>2. total \in Nat /\ down[d].got \subseteq Chunk
    BY <2>1 DEF Download
  <2>3. \A c \in down[d].got : c.chunkIndex \in Nat /\ c.chunkIndex < total
    BY <2>1, <2>2 DEF MatchOK, Expected, Chunk
  <2>4. indices \in SUBSET (0..(total - 1))
    BY <2>2, <2>3
  <2>5. Cardinality(indices) = total
    BY DEF Validated
  <2> HIDE DEF indices, total
  <2>6. IsFiniteSet(0..(total - 1)) /\ Cardinality(0..(total - 1)) = total
    BY <2>2, FS_Interval
  <2>7. indices = 0..(total - 1)
    BY <2>4, <2>5, <2>6, FS_Subset
  <2> QED BY <2>7 DEF indices, total
<1> QED BY <1>1, DownloadInvariant, PTL

(* On a chain that does not reorganise, a download never takes a file for   *)
(* corrupted for what it did itself: the copies it joined, from a cache     *)
(* that any number of downloads fill and are killed over, and from ranges   *)
(* that any number of threads fetch in any order, are on the chain.         *)
THEOREM CorruptionIsOnTheChain ==
    ASSUME MaxReorg = 0 PROVE DownloadSpec => []CorruptedIsSpoiled
<1>1. DownloadInit => RealInv
  <2> SUFFICES ASSUME DownloadInit PROVE RealInv
    OBVIOUS
  <2>1. \A d \in Downloaders : \E f \in FileIds : down[d] = Fresh(f)
    BY DEF DownloadInit
  <2>0. \A f : Fresh(f).got = {} /\ Fresh(f).answers = {} /\ Fresh(f).error = "none"
    BY DEF Fresh
  <2>2. \A d \in Downloaders : /\ down[d].got = {} /\ down[d].answers = {}
                               /\ down[d].error = "none"
    BY <2>0, <2>1
  <2>3. chunkCache = {}
    BY DEF DownloadInit
  <2> QED BY <2>2, <2>3 DEF RealInv, RealOK, RealRows, CorruptOK
<1>2. DownloadInv /\ RealInv /\ [DownloadNext]_downloadVars => RealInv'
  BY NextKeepsRealInv
<1>3. RealInv => CorruptedIsSpoiled
  BY DEF RealInv, CorruptOK, CorruptedIsSpoiled
<1> QED BY <1>1, <1>2, <1>3, DownloadInvariant, PTL DEF DownloadSpec
=============================================================================
